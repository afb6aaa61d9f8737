----------------------------- MODULE HttpReader -----------------------------
(***************************************************************************)
(* The asynchronous HTTP readers of src/srcXS/utils: an object downloads a *)
(* file in a thread of its own while its owner polls it.  There are two    *)
(* native classes.  The Unix one shares its state with the thread by a     *)
(* reference count, and its destructor only lets go; the Win32 one closes  *)
(* the handles of the connection and waits for the thread.                 *)
(*                                                                         *)
(* A step is one critical section, or one access outside of any.  The      *)
(* owner's own calls (Pulled, Close) are operators of this module, taken   *)
(* at will here and by its clients in HttpClient.  A received piece of     *)
(* data is the pair of its URL and its place in the file.                  *)
(***************************************************************************)
EXTENDS Integers, Sequences

CONSTANTS
    Urls,        \* one reader is made for each at most
    Platforms,   \* the builds considered: "unix", "win32"
    MaxPieces    \* bound: pieces of data of a file

ASSUME ReaderAssumption == Platforms \subseteq {"unix", "win32"} /\ MaxPieces \in Nat

VARIABLES
    platform,    \* the build; never changes
    reader       \* the state of the reader of each URL

readerVars == <<platform, reader>>

Reader ==
    [owner  : {"nobody", "constructing", "open", "closing", "deleting", "gone"},
     thread : {"none", "starting", "queried", "transfer", "leaving", "deleting", "ended"},
     status : {"connecting", "downloading", "done", "error"},
     size   : {-2, -1, 0, 1},          \* 1: what Content-Length says
     error  : {"none", "literal", "allocated", "freed"},
     buffer : Seq(Urls \X Nat),        \* downloadBuffer
     sent   : Nat,                     \* history: pieces received so far
     refs   : Nat,                     \* refCount; 1 on Win32
     freed  : Nat]                     \* history: how often it was deleted

NoReader ==
    [owner |-> "nobody", thread |-> "none", status |-> "error", size |-> -2, error |-> "none",
     buffer |-> << >>, sent |-> 0, refs |-> 0, freed |-> 0]

ReaderInit ==
    /\ platform \in Platforms
    /\ reader = [u \in Urls |-> NoReader]

Update(u, r) ==
    /\ reader' = [reader EXCEPT ![u] = r]
    /\ UNCHANGED platform

Failed(r, kind) == [r EXCEPT !.status = "error", !.error = kind]

-----------------------------------------------------------------------------
(* The Unix reader.                                                        *)

(* Mutated form of UnixConstruct: the thread is not counted.               *)
UnixConstructUncounted(u) ==
    /\ platform = "unix" /\ reader[u].owner = "nobody"
    /\ \/ Update(u, [NoReader EXCEPT !.owner = "open", !.refs = 1, !.error = "literal"])
       \/ Update(u, [NoReader EXCEPT !.owner = "open", !.refs = 1, !.thread = "starting",
                                     !.status = "connecting", !.size = -1])

(* Creating the mutex, the attributes, the copy of the POST data or the    *)
(* thread may fail, which leaves a reader in error without a thread.       *)
UnixConstruct(u) ==
    /\ platform = "unix" /\ reader[u].owner = "nobody"
    /\ \/ Update(u, [NoReader EXCEPT !.owner = "open", !.refs = 1, !.error = "literal"])
       \/ Update(u, [NoReader EXCEPT !.owner = "open", !.refs = 2, !.thread = "starting",
                                     !.status = "connecting", !.size = -1])

(* curl_easy_init *)
UnixInit(u) ==
    /\ platform = "unix" /\ reader[u].thread = "starting"
    /\ \/ Update(u, [reader[u] EXCEPT !.thread = "transfer"])
       \/ Update(u, [Failed(reader[u], "literal") EXCEPT !.thread = "leaving", !.size = -2])

(* The size curl states: none (zero), a length, or -1.0, which is not a    *)
(* value of the unsigned int it is converted to: -1 or 0 come of it.       *)
LengthOf(size) == IF size = -1 THEN {-1, 0, 1} ELSE {size}

(* writeCallback *)
UnixWrite(u) ==
    LET r == reader[u] IN
    /\ platform = "unix" /\ r.thread = "transfer" /\ r.sent < MaxPieces
    /\ \E size \in LengthOf(r.size) :
          Update(u, [r EXCEPT !.status = "downloading", !.sent = @ + 1, !.size = size,
                              !.buffer = Append(@, <<u, r.sent + 1>>)])

(* curl_easy_perform returns. *)
UnixPerformed(u) ==
    LET r == reader[u] IN
    /\ platform = "unix" /\ r.thread = "transfer"
    /\ \/ Update(u, [r EXCEPT !.thread = "leaving", !.status = "done"])
       \/ Update(u, [Failed(r, "literal") EXCEPT !.thread = "leaving", !.size = -2])

(* unref: the count goes down under the lock, the deletion comes after it. *)
Released(r) == [r EXCEPT !.refs = @ - 1]

AfterUnref(r, rest) == IF r.refs = 1 THEN "deleting" ELSE rest

UnixLeave(u) ==
    LET r == reader[u] IN
    /\ platform = "unix" /\ r.thread = "leaving"
    /\ Update(u, [Released(r) EXCEPT !.thread = AfterUnref(r, "ended")])

UnixThreadDeletes(u) ==
    /\ platform = "unix" /\ reader[u].thread = "deleting"
    /\ Update(u, [reader[u] EXCEPT !.thread = "ended", !.freed = @ + 1])

(* ~UnixHttpReader *)
UnixClose(u) ==
    LET r == reader[u] IN
    /\ platform = "unix" /\ r.owner = "open"
    /\ Update(u, [Released(r) EXCEPT !.owner = AfterUnref(r, "gone")])

UnixOwnerDeletes(u) ==
    /\ platform = "unix" /\ reader[u].owner = "deleting"
    /\ Update(u, [reader[u] EXCEPT !.owner = "gone", !.freed = @ + 1])

-----------------------------------------------------------------------------
(* The Win32 reader.                                                       *)

(* The thread may not come up after the status was set to connecting.      *)
WinConstruct(u) ==
    LET ready == [NoReader EXCEPT !.owner = "constructing", !.refs = 1,
                                  !.status = "connecting", !.size = -1] IN
    /\ platform = "win32" /\ reader[u].owner = "nobody"
    /\ \/ Update(u, [NoReader EXCEPT !.owner = "open", !.refs = 1, !.error = "literal"])
       \/ Update(u, [ready EXCEPT !.owner = "open", !.error = "literal"])
       \/ Update(u, [ready EXCEPT !.thread = "starting"])

(* The last lines of the constructor, when the thread runs already, free   *)
(* an error message that the thread may have set.                          *)
WinConstructed(u) ==
    LET r == reader[u] IN
    /\ platform = "win32" /\ r.owner = "constructing"
    /\ Update(u, [r EXCEPT !.owner = "open",
                           !.error = IF @ = "allocated" THEN "freed" ELSE @])

(* HttpSendRequest and the HTTP status; with the handles closed they fail. *)
WinSend(u) ==
    LET r == reader[u] IN
    /\ platform = "win32" /\ r.thread = "starting" /\ r.owner # "closing"
    /\ \/ Update(u, [Failed(r, "allocated") EXCEPT !.thread = "ended"])
       \/ Update(u, [Failed(r, "literal") EXCEPT !.thread = "ended"])
       \/ \E size \in {-1, 1} : Update(u, [r EXCEPT !.thread = "queried", !.size = size])

(* The status is assigned outside of the critical section. *)
WinBegin(u) ==
    /\ platform = "win32" /\ reader[u].thread = "queried"
    /\ Update(u, [reader[u] EXCEPT !.thread = "transfer", !.status = "downloading"])

(* InternetReadFile *)
WinRead(u) ==
    LET r == reader[u] IN
    /\ platform = "win32" /\ r.thread = "transfer" /\ r.owner # "closing"
    /\ \/ /\ r.sent < MaxPieces
          /\ Update(u, [r EXCEPT !.sent = @ + 1, !.buffer = Append(@, <<u, r.sent + 1>>)])
       \/ Update(u, [r EXCEPT !.thread = "ended", !.status = "done"])
       \/ Update(u, [Failed(r, "literal") EXCEPT !.thread = "ended"])

WinAborted(u) ==
    LET r == reader[u] IN
    /\ platform = "win32" /\ r.owner = "closing" /\ r.thread \in {"starting", "transfer"}
    /\ \E kind \in IF r.thread = "starting" THEN {"allocated"} ELSE {"literal"} :
          Update(u, [Failed(r, kind) EXCEPT !.thread = "ended"])

(* ~WinHttpReader, up to the wait for the thread *)
WinClose(u) ==
    /\ platform = "win32" /\ reader[u].owner = "open"
    /\ Update(u, [reader[u] EXCEPT !.owner = "closing", !.refs = 0])

WinDelete(u) ==
    /\ platform = "win32" /\ reader[u].owner = "closing" /\ reader[u].thread \in {"none", "ended"}
    /\ Update(u, [reader[u] EXCEPT !.owner = "gone", !.freed = @ + 1])

-----------------------------------------------------------------------------
(* What owners and clients see.                                            *)

Construct(u) == UnixConstruct(u) \/ WinConstruct(u)
Close(u)     == UnixClose(u) \/ WinClose(u)

(* Mutated form of PullResult: no data yet is taken for the end.           *)
PullResultEarly(r, n) ==
    IF r.status = "error" THEN -2 ELSE IF Len(r.buffer) > n THEN n ELSE Len(r.buffer)

(* pullData for a buffer of n pieces: what it hands out.  A reader that    *)
(* has no data yet says -1, one in error -2, one at the end 0.             *)
PullResult(r, n) ==
    CASE r.status = "error"                           -> -2
      [] r.status # "error" /\ r.buffer # << >>       -> IF Len(r.buffer) > n THEN n ELSE Len(r.buffer)
      [] r.status = "downloading" /\ r.buffer = << >> -> -1
      [] r.status = "done" /\ r.buffer = << >>        -> 0

PulledData(r, n) == SubSeq(r.buffer, 1, PullResult(r, n))

Pull(u, n) ==
    LET r == reader[u] IN
    /\ r.owner = "open" /\ r.status # "connecting"
    /\ Update(u, [r EXCEPT !.buffer = SubSeq(@, Len(PulledData(r, n)) + 1, Len(@))])

GetSize(r) == IF platform = "win32" /\ r.status = "error" THEN -2 ELSE r.size

(* Steps that wait for nobody. *)
ReaderLocalStep(u) ==
    \/ UnixLeave(u) \/ UnixThreadDeletes(u) \/ UnixOwnerDeletes(u)
    \/ WinConstructed(u) \/ WinBegin(u) \/ WinAborted(u) \/ WinDelete(u)

(* Steps that wait for the network. *)
NetworkStep(u) == UnixInit(u) \/ UnixWrite(u) \/ UnixPerformed(u) \/ WinSend(u) \/ WinRead(u)

ReaderNext ==
    \E u \in Urls :
       \/ Construct(u) \/ Close(u) \/ (\E n \in 1..MaxPieces : Pull(u, n))
       \/ ReaderLocalStep(u) \/ NetworkStep(u)

ReaderSpec == ReaderInit /\ [][ReaderNext]_readerVars

-----------------------------------------------------------------------------
TypeOK == platform \in Platforms /\ reader \in [Urls -> Reader]

OwnerIn(r)  == r.owner \in {"constructing", "open"}
ThreadIn(r) == r.thread \in {"starting", "queried", "transfer", "leaving"}

(* The reader outlives everyone who uses it, whoever lets go last deletes  *)
(* it, and nobody deletes it again, although a destructor may run in any   *)
(* step of the thread's work.                                              *)
Lifetime ==
    \A u \in Urls : LET r == reader[u] IN
       /\ OwnerIn(r) \/ ThreadIn(r) \/ r.owner = "closing" => r.freed = 0
       /\ r.freed <= 1
       /\ r.owner = "gone" /\ r.thread \in {"none", "ended"} => r.freed = 1
=============================================================================
