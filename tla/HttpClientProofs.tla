-------------------------- MODULE HttpClientProofs --------------------------
(***************************************************************************)
(* The HTTP readers, for any number of URLs, mirrors and pieces: a reader  *)
(* is deleted once and by the last who uses it, the program gets the data  *)
(* of one mirror in order and knows its end, and the search for a mirror   *)
(* loses no reader.                                                        *)
(***************************************************************************)
EXTENDS HttpClient, SequenceTheorems, TLAPS

(* The Unix reader is counted by its owner and by its thread; whoever has  *)
(* taken the count to zero is about to delete it, and is alone.            *)
UnixCounted(r) ==
  /\ r.owner \in {"nobody", "open", "deleting", "gone"}
  /\ r.thread \in {"none", "starting", "transfer", "leaving", "deleting", "ended"}
  /\ r.refs = (IF r.owner = "open" THEN 1 ELSE 0) + (IF ThreadIn(r) THEN 1 ELSE 0)
  /\ r.freed = IF r.owner = "gone" /\ r.thread \in {"none", "ended"} THEN 1 ELSE 0
  /\ r.owner = "deleting" => r.thread \in {"none", "ended"}
  /\ r.thread = "deleting" => r.owner = "gone"

(* The Win32 reader waits for its thread before it is deleted.             *)
WinCounted(r) ==
  /\ r.owner \in {"nobody", "constructing", "open", "closing", "gone"}
  /\ r.thread \in {"none", "starting", "queried", "transfer", "ended"}
  /\ r.freed = IF r.owner = "gone" THEN 1 ELSE 0
  /\ r.owner = "gone" => r.thread \in {"none", "ended"}

(* What is in the buffer are the last pieces sent; after the end no more   *)
(* can come.                                                               *)
Buffered(u, r) ==
  /\ r.status = "done" => r.thread \in {"leaving", "deleting", "ended"}
  /\ Len(r.buffer) <= r.sent
  /\ r.buffer = [k \in 1..Len(r.buffer) |-> <<u, r.sent - Len(r.buffer) + k>>]

ReaderOK(u, r) ==
  /\ r \in Reader
  /\ r.owner = "nobody" => r = NoReader
  /\ IF platform = "unix" THEN UnixCounted(r) ELSE WinCounted(r)
  /\ Buffered(u, r)

ReadersOK ==
  /\ platform \in Platforms /\ reader \in [Urls -> Reader]
  /\ \A u \in Urls : ReaderOK(u, reader[u])

(* What the program has got and what is left of it in the buffer are what  *)
(* was sent.                                                               *)
StreamOK ==
  /\ got = [k \in 1..Len(got) |-> <<Target, k>>]
  /\ Target = Nobody => got = << >> /\ answer # 0
  /\ \A u \in Urls : u # Target \/ facade = "download" => Len(reader[u].buffer) = reader[u].sent
  /\ facade # "download" /\ Target # Nobody =>
       /\ Len(got) + Len(reader[Target].buffer) = reader[Target].sent
       /\ answer = 0 => reader[Target].status = "done" /\ reader[Target].buffer = << >>
  /\ facade = "download" =>
       /\ answer # 0 => got = << >>
       /\ answer = 0 => reader[First].status = "done" /\ Len(got) = reader[First].sent

Owned(u) == reader[u].owner \in {"constructing", "open"}
Dropped(u) == reader[u].owner \in {"closing", "deleting", "gone"}

(* A single reader is the only one there is.                               *)
SingleOK ==
  /\ http = Nobody /\ trial = Nobody /\ mirrorPc = "none" /\ ~gaveUp /\ user # "releasing"
  /\ \A u \in Urls \ {First} : reader[u].owner = "nobody"
  /\ user = "new" => reader[First].owner = "nobody"
  /\ user = "open" => Owned(First)
  /\ user \in {"closing", "closed"} => Dropped(First)

(* Where the thread of a mirror reader is, the mirrors before the one it   *)
(* tries are dropped, and no other but that one is in use.                 *)
SearchOK ==
  LET n == Len(Mirrors) - Len(urls) IN
  /\ n \in 0..Len(Mirrors) /\ urls = SubSeq(Mirrors, n + 1, Len(Mirrors))
  /\ \A k \in 1..n : reader[Mirrors[k]].owner = "gone"
  /\ user = "new" <=> mirrorPc = "none"
  /\ user = "new" => \A u \in Urls : reader[u].owner = "nobody"
  /\ mirrorPc \notin {"create", "poll", "sleep", "decide", "ended"} => \A u \in Urls : ~Owned(u)
  /\ mirrorPc \in {"create", "poll", "sleep", "decide", "quit", "drop"} =>
       /\ urls # << >> /\ trial = Head(urls)
       /\ \A u \in Urls : Owned(u) => u = trial
  /\ mirrorPc = "create" => Owned(trial)
  /\ mirrorPc \in {"poll", "sleep", "decide"} => reader[trial].owner = "open"
  /\ mirrorPc \in {"quit", "drop"} => Dropped(trial)
  /\ mirrorPc = "ended" => \A u \in Urls : Owned(u) => u = http
  /\ http # Nobody =>
       /\ mirrorPc = "ended"
       /\ user \in {"open", "closing"} => reader[http].owner = "open"
       /\ user \in {"releasing", "closed"} => Dropped(http)
  /\ gaveUp => mirrorPc = "ended" /\ http = Nobody /\ urls = << >>
  /\ user \in {"releasing", "closed"} => mirrorPc = "ended"

IInv ==
  /\ ReadersOK /\ ClientTypeOK /\ StreamOK
  /\ facade \in {"std", "download", "mirror"}
  /\ IF facade = "mirror" THEN SearchOK ELSE SingleOK

-----------------------------------------------------------------------------
(* The calls and steps of a reader.                                        *)

LEMMA UpdateKeeps ==
  ASSUME ReadersOK, NEW u \in Urls, NEW r, ReaderOK(u, r), Update(u, r)
  PROVE  /\ ReadersOK' /\ platform' = platform
         /\ reader'[u] = r /\ \A v \in Urls \ {u} : reader'[v] = reader[v]
<1>1. /\ reader' \in [Urls -> Reader] /\ platform' = platform /\ platform \in Platforms
      /\ reader'[u] = r /\ \A v \in Urls \ {u} : reader'[v] = reader[v]
  BY DEF ReadersOK, ReaderOK, Update
<1>2. ASSUME NEW v \in Urls PROVE ReaderOK(v, reader[v])'
  <2>1. ReaderOK(v, reader'[v])
    BY <1>1 DEF ReadersOK
  <2> QED BY <2>1, <1>1 DEF ReaderOK, UnixCounted, WinCounted, Buffered, ThreadIn
<1> QED BY <1>1, <1>2 DEF ReadersOK

LEMMA EmptyBuffered ==
  ASSUME NEW u, NEW r, r.buffer = << >>, r.sent = 0, r.status # "done"
  PROVE  Buffered(u, r)
<1>1. << >> = [k \in 1..0 |-> <<u, r.sent - Len(r.buffer) + k>>]
  OBVIOUS
<1> QED BY <1>1 DEF Buffered

(* A reader that is constructed has nothing in its buffer.                 *)
LEMMA ConstructGives ==
  ASSUME ReadersOK, NEW u \in Urls, Construct(u)
  PROVE  \E r : /\ ReaderOK(u, r) /\ Update(u, r)
                /\ reader[u].owner = "nobody" /\ r.owner \in {"constructing", "open"}
                /\ r.buffer = << >> /\ r.sent = 0 /\ r.status # "done"
<1> DEFINE Fresh(r) == /\ r \in Reader /\ r.buffer = << >> /\ r.sent = 0 /\ r.status # "done"
                       /\ r.owner \in {"constructing", "open"}
<1>1. << >> \in Seq(Urls \X Nat)
  OBVIOUS
<1>2. CASE UnixConstruct(u)
  <2> DEFINE r1 == [NoReader EXCEPT !.owner = "open", !.refs = 1, !.error = "literal"]
             r2 == [NoReader EXCEPT !.owner = "open", !.refs = 2, !.thread = "starting",
                                    !.status = "connecting", !.size = -1]
  <2>1. Fresh(r1) /\ r1.owner = "open" /\ r1.thread = "none" /\ r1.refs = 1 /\ r1.freed = 0
    BY <1>1 DEF NoReader, Reader
  <2>2. Fresh(r2) /\ r2.owner = "open" /\ r2.thread = "starting" /\ r2.refs = 2 /\ r2.freed = 0
    BY <1>1 DEF NoReader, Reader
  <2>3. /\ platform = "unix" /\ reader[u].owner = "nobody"
        /\ Update(u, r1) \/ Update(u, r2)
    BY <1>2 DEF UnixConstruct
  <2> HIDE DEF r1, r2
  <2>4. UnixCounted(r1) /\ UnixCounted(r2)
    BY <2>1, <2>2 DEF UnixCounted, ThreadIn
  <2> QED BY <2>1, <2>2, <2>3, <2>4, EmptyBuffered DEF ReaderOK
<1>3. CASE WinConstruct(u)
  <2> DEFINE ready == [NoReader EXCEPT !.owner = "constructing", !.refs = 1,
                                       !.status = "connecting", !.size = -1]
             r1 == [NoReader EXCEPT !.owner = "open", !.refs = 1, !.error = "literal"]
             r2 == [ready EXCEPT !.owner = "open", !.error = "literal"]
             r3 == [ready EXCEPT !.thread = "starting"]
  <2>1. Fresh(r1) /\ WinCounted(r1)
    BY <1>1 DEF NoReader, Reader, WinCounted
  <2>2. Fresh(r2) /\ WinCounted(r2)
    BY <1>1 DEF NoReader, Reader, WinCounted
  <2>3. Fresh(r3) /\ WinCounted(r3)
    BY <1>1 DEF NoReader, Reader, WinCounted
  <2>4. /\ platform = "win32" /\ reader[u].owner = "nobody"
        /\ Update(u, r1) \/ Update(u, r2) \/ Update(u, r3)
    BY <1>3 DEF WinConstruct
  <2> HIDE DEF ready, r1, r2, r3
  <2> QED BY <2>1, <2>2, <2>3, <2>4, EmptyBuffered DEF ReaderOK
<1> QED BY <1>2, <1>3 DEF Construct

(* The destructor leaves the data alone.                                   *)
LEMMA CloseGives ==
  ASSUME ReadersOK, NEW u \in Urls, Close(u)
  PROVE  \E r : /\ ReaderOK(u, r) /\ Update(u, r)
                /\ reader[u].owner = "open" /\ r.owner \in {"closing", "deleting", "gone"}
                /\ r.buffer = reader[u].buffer /\ r.sent = reader[u].sent
                /\ r.status = reader[u].status
<1> DEFINE r == reader[u]
<1>1. ReaderOK(u, r) /\ r \in Reader BY DEF ReadersOK
<1>2. CASE UnixClose(u)
  <2> DEFINE s == [Released(r) EXCEPT !.owner = AfterUnref(r, "gone")]
  <2>1. platform = "unix" /\ r.owner = "open" /\ UnixCounted(r) /\ Update(u, s)
    BY <1>1, <1>2 DEF UnixClose, ReaderOK
  <2>2. /\ s.buffer = r.buffer /\ s.sent = r.sent /\ s.status = r.status
        /\ s.owner = AfterUnref(r, "gone") /\ s.owner \in {"deleting", "gone"}
        /\ s.thread = r.thread /\ s.refs = r.refs - 1 /\ s.freed = r.freed
    BY <1>1 DEF Released, AfterUnref, Reader
  <2>3. r.refs \in Nat /\ r.refs >= 1
    BY <1>1, <2>1 DEF UnixCounted, Reader
  <2>4. s \in Reader
    <3> DEFINE owner == AfterUnref(r, "gone")
    <3>1. owner \in {"deleting", "gone"} /\ r.refs - 1 \in Nat
      BY <2>3 DEF AfterUnref
    <3>2. s = [r EXCEPT !.refs = r.refs - 1, !.owner = owner]
      BY <1>1 DEF Released, Reader
    <3> HIDE DEF owner, s
    <3> QED BY <1>1, <3>1, <3>2 DEF Reader
  <2>5. UnixCounted(s)
    <3> HIDE DEF r, s
    <3> QED BY <2>1, <2>2, <2>3 DEF UnixCounted, AfterUnref, ThreadIn
  <2> HIDE DEF s
  <2>6. Buffered(u, s)
    BY <1>1, <2>2 DEF ReaderOK, Buffered
  <2> QED BY <2>1, <2>2, <2>4, <2>5, <2>6 DEF ReaderOK
<1>3. CASE WinClose(u)
  <2> DEFINE s == [r EXCEPT !.owner = "closing", !.refs = 0]
  <2>1. ReaderOK(u, s)
    BY <1>1, <1>3 DEF WinClose, ReaderOK, Reader, WinCounted, Buffered
  <2>2. s.buffer = r.buffer /\ s.sent = r.sent /\ s.status = r.status /\ s.owner = "closing"
    BY <1>1 DEF Reader
  <2> QED BY <1>3, <2>1, <2>2 DEF WinClose
<1> QED BY <1>2, <1>3 DEF Close

(* pullData takes the first pieces out of the buffer.                      *)
LEMMA PullGives ==
  ASSUME ReadersOK, NEW u \in Urls, NEW n \in 1..MaxPieces, Pull(u, n)
  PROVE  LET r == reader[u]
             c == Len(PulledData(r, n)) IN
         \E s : /\ ReaderOK(u, s) /\ Update(u, s)
                /\ r.owner = "open" /\ s.owner = "open" /\ s.status = r.status /\ s.sent = r.sent
                /\ c \in 0..Len(r.buffer) /\ Len(s.buffer) = Len(r.buffer) - c
                /\ PulledData(r, n) = [k \in 1..c |-> <<u, r.sent - Len(r.buffer) + k>>]
                /\ PullResult(r, n) \in -2..MaxPieces
                /\ PullResult(r, n) = 0 => r.status = "done" /\ r.buffer = << >> /\ s.buffer = << >>
<1> DEFINE r == reader[u]
           c == Len(PulledData(r, n))
           s == [r EXCEPT !.buffer = SubSeq(@, c + 1, Len(@))]
<1>1. ReaderOK(u, r) /\ r \in Reader /\ r.buffer \in Seq(Urls \X Nat) /\ Len(r.buffer) \in Nat
  BY DEF ReadersOK, Reader
<1>2. Update(u, s) /\ r.owner = "open" /\ r.status # "connecting"
  BY DEF Pull
<1>3. /\ PullResult(r, n) \in -2..MaxPieces /\ PullResult(r, n) <= Len(r.buffer)
      /\ PullResult(r, n) = 0 => r.status = "done" /\ r.buffer = << >>
  BY <1>1, <1>2, ReaderAssumption, SMTT(30) DEF PullResult, Reader
<1>4. c \in 0..Len(r.buffer) /\ \A k \in 1..c : PulledData(r, n)[k] = r.buffer[k]
  BY <1>1, <1>3, SMTT(30) DEF PulledData
<1>5. PulledData(r, n) = [k \in 1..c |-> <<u, r.sent - Len(r.buffer) + k>>]
  <2>1. PulledData(r, n) \in Seq(Urls \X Nat)
    BY <1>1, <1>3 DEF PulledData
  <2>2. \A k \in 1..Len(r.buffer) : r.buffer[k] = <<u, r.sent - Len(r.buffer) + k>>
    BY <1>1 DEF ReaderOK, Buffered
  <2> HIDE DEF r, c
  <2>3. PulledData(r, n) = [k \in 1..Len(PulledData(r, n)) |-> PulledData(r, n)[k]]
    BY <2>1
  <2> QED BY <1>1, <1>4, <2>2, <2>3 DEF c
<1>6. /\ s.buffer = SubSeq(r.buffer, c + 1, Len(r.buffer)) /\ s.sent = r.sent
      /\ s.owner = r.owner /\ s.status = r.status /\ s.thread = r.thread /\ s.refs = r.refs
      /\ s.freed = r.freed
  BY <1>1 DEF Reader
<1>7. /\ s.buffer \in Seq(Urls \X Nat) /\ Len(s.buffer) = Len(r.buffer) - c
      /\ \A k \in 1..Len(s.buffer) : s.buffer[k] = r.buffer[c + k]
  <2> HIDE DEF c, s
  <2> QED BY <1>1, <1>4, <1>6
<1>8. Buffered(u, s)
  <2> HIDE DEF r, c, s
  <2>1. \A k \in 1..Len(r.buffer) : r.buffer[k] = <<u, r.sent - Len(r.buffer) + k>>
    BY <1>1 DEF ReaderOK, Buffered
  <2>2. r.sent \in Nat /\ Len(r.buffer) <= r.sent
    BY <1>1 DEF Reader, ReaderOK, Buffered
  <2>3. \A k \in 1..Len(s.buffer) : s.buffer[k] = <<u, s.sent - Len(s.buffer) + k>>
    <3> TAKE k \in 1..Len(s.buffer)
    <3>1. c + k \in 1..Len(r.buffer) /\ r.sent - Len(r.buffer) + (c + k) = s.sent - Len(s.buffer) + k
      BY <1>1, <1>4, <1>6, <1>7, <2>2
    <3> QED BY <3>1, <2>1, <1>7
  <2>4. s.buffer = [k \in 1..Len(s.buffer) |-> s.buffer[k]]
    BY <1>7
  <2>5. s.buffer = [k \in 1..Len(s.buffer) |-> <<u, s.sent - Len(s.buffer) + k>>]
    BY <2>3, <2>4
  <2>6. Len(s.buffer) <= s.sent
    BY <1>1, <1>4, <1>6, <1>7, <2>2
  <2> QED BY <1>1, <1>6, <2>5, <2>6 DEF ReaderOK, Buffered
<1>9. ReaderOK(u, s)
  <2>1. s \in Reader
    <3> HIDE DEF c
    <3> QED BY <1>1, <1>6, <1>7 DEF Reader
  <2> HIDE DEF s, r
  <2> QED BY <1>1, <1>2, <1>6, <1>8, <2>1 DEF ReaderOK, UnixCounted, WinCounted, ThreadIn
<1>10. r.buffer = << >> => s.buffer = << >>
  <2> HIDE DEF s, r, c
  <2> QED BY <1>1, <1>4, <1>7
<1> QED
  <2> HIDE DEF s, c
  <2> QED BY <1>2, <1>3, <1>4, <1>5, <1>6, <1>7, <1>9, <1>10 DEF c

(* What a step of its thread or of its deletion does to a reader.          *)
Native(r, s) ==
  /\ r.owner # "nobody"
  /\ \/ s.owner = r.owner
     \/ r.owner \in {"deleting", "closing"} /\ s.owner = "gone"
     \/ r.owner = "constructing" /\ s.owner = "open"
  /\ s.sent - Len(s.buffer) = r.sent - Len(r.buffer)
  /\ r.status = "done" => s.status = "done" /\ s.buffer = r.buffer /\ s.sent = r.sent

(* Steps that leave the buffer alone and do not end the transfer well keep *)
(* it as it should be.                                                     *)
LEMMA NativeSilent ==
  ASSUME NEW u \in Urls, NEW r, ReaderOK(u, r), NEW s \in Reader,
         s.buffer = r.buffer, s.sent = r.sent, r.owner # "nobody", s.owner # "nobody",
         s.owner = r.owner \/ (r.owner \in {"deleting", "closing"} /\ s.owner = "gone")
           \/ (r.owner = "constructing" /\ s.owner = "open"),
         r.status = "done" => s.status = "done",
         s.status = "done" => s.thread \in {"leaving", "deleting", "ended"},
         IF platform = "unix" THEN UnixCounted(s) ELSE WinCounted(s)
  PROVE  ReaderOK(u, s) /\ Native(r, s)
<1>1. r \in Reader /\ Buffered(u, r) BY DEF ReaderOK
<1>2. Buffered(u, s) BY <1>1 DEF Buffered
<1>3. ReaderOK(u, s) BY <1>2 DEF ReaderOK
<1>4. Native(r, s) BY DEF Native
<1> QED BY <1>3, <1>4

(* A piece of data arrives.                                                *)
LEMMA NativeReceives ==
  ASSUME NEW u \in Urls, NEW r, ReaderOK(u, r), NEW s \in Reader, r.status # "done",
         s.buffer = Append(r.buffer, <<u, r.sent + 1>>), s.sent = r.sent + 1,
         s.owner = r.owner, r.owner # "nobody", s.status # "done",
         IF platform = "unix" THEN UnixCounted(s) ELSE WinCounted(s)
  PROVE  ReaderOK(u, s) /\ Native(r, s)
<1>1. /\ r \in Reader /\ r.buffer \in Seq(Urls \X Nat) /\ r.sent \in Nat /\ Len(r.buffer) \in Nat
      /\ Len(r.buffer) <= r.sent
      /\ \A k \in 1..Len(r.buffer) : r.buffer[k] = <<u, r.sent - Len(r.buffer) + k>>
  <2>1. /\ r \in Reader /\ r.buffer \in Seq(Urls \X Nat) /\ r.sent \in Nat /\ Len(r.buffer) <= r.sent
        /\ r.buffer = [k \in 1..Len(r.buffer) |-> <<u, r.sent - Len(r.buffer) + k>>]
    BY DEF ReaderOK, Buffered, Reader
  <2> QED BY <2>1
<1>2. <<u, r.sent + 1>> \in Urls \X Nat
  BY <1>1
<1>3. /\ Len(s.buffer) = Len(r.buffer) + 1 /\ s.buffer \in Seq(Urls \X Nat)
      /\ \A k \in 1..Len(r.buffer) : s.buffer[k] = r.buffer[k]
      /\ s.buffer[Len(r.buffer) + 1] = <<u, r.sent + 1>>
  BY <1>1, <1>2
<1>4. s.sent - Len(s.buffer) = r.sent - Len(r.buffer)
  BY <1>1, <1>3
<1>5. ASSUME NEW k \in 1..Len(s.buffer)
      PROVE  s.buffer[k] = <<u, s.sent - Len(s.buffer) + k>>
  <2>1. CASE k = Len(r.buffer) + 1
    <3>1. r.sent + 1 = s.sent - Len(s.buffer) + k
      BY <1>1, <1>4, <2>1
    <3> QED BY <1>3, <2>1, <3>1
  <2>2. CASE k # Len(r.buffer) + 1
    <3>1. k \in 1..Len(r.buffer)
      BY <1>1, <1>3, <2>2
    <3> QED BY <1>1, <1>3, <1>4, <3>1
  <2> QED BY <2>1, <2>2
<1>6. s.buffer = [k \in 1..Len(s.buffer) |-> s.buffer[k]]
  BY <1>3
<1>7. Buffered(u, s)
  <2>1. s.buffer = [k \in 1..Len(s.buffer) |-> <<u, s.sent - Len(s.buffer) + k>>]
    BY <1>5, <1>6
  <2>2. Len(s.buffer) <= s.sent
    BY <1>1, <1>3
  <2> QED BY <2>1, <2>2 DEF Buffered
<1>8. ReaderOK(u, s) BY <1>7 DEF ReaderOK
<1>9. Native(r, s) BY <1>4 DEF Native
<1> QED BY <1>8, <1>9

LEMMA UnixNative ==
  ASSUME ReadersOK, NEW u \in Urls,
         \/ UnixLeave(u) \/ UnixThreadDeletes(u) \/ UnixOwnerDeletes(u)
         \/ UnixInit(u) \/ UnixWrite(u) \/ UnixPerformed(u)
  PROVE  \E s : ReaderOK(u, s) /\ Update(u, s) /\ Native(reader[u], s)
<1> DEFINE r == reader[u]
<1>1. /\ platform = "unix" /\ ReaderOK(u, r) /\ r \in Reader /\ UnixCounted(r)
      /\ r.status = "done" => r.thread \in {"leaving", "deleting", "ended"}
  BY DEF ReadersOK, ReaderOK, Buffered, UnixLeave, UnixThreadDeletes, UnixOwnerDeletes, UnixInit,
         UnixWrite, UnixPerformed
<1>2. r.owner = "nobody" => r.thread = "none"
  BY <1>1 DEF ReaderOK, NoReader
<1>3. /\ r.refs \in Nat /\ r.freed \in Nat /\ r.sent \in Nat
      /\ r.freed + 1 \in Nat /\ r.sent + 1 \in Nat
  BY <1>1 DEF Reader
<1>4. CASE UnixLeave(u)
  <2> DEFINE thread == AfterUnref(r, "ended")
             s == [r EXCEPT !.refs = r.refs - 1, !.thread = thread]
  <2>1. r.thread = "leaving" /\ Update(u, s)
    BY <1>1, <1>4 DEF UnixLeave, Released, Reader
  <2>2. r.refs >= 1 /\ r.refs - 1 \in Nat /\ thread \in {"deleting", "ended"}
    BY <1>1, <1>3, <2>1 DEF UnixCounted, ThreadIn, AfterUnref
  <2> HIDE DEF thread, r
  <2>3. /\ s \in Reader /\ s.buffer = r.buffer /\ s.sent = r.sent /\ s.owner = r.owner
        /\ s.status = r.status /\ s.refs = r.refs - 1 /\ s.thread = thread /\ s.freed = r.freed
    BY <1>1, <1>3, <2>2 DEF Reader
  <2> HIDE DEF s
  <2>4. UnixCounted(s)
    BY <1>1, <1>2, <1>3, <2>1, <2>2, <2>3 DEF UnixCounted, ThreadIn, thread, AfterUnref
  <2>5. ReaderOK(u, s) /\ Native(r, s)
    BY <1>1, <1>2, <2>1, <2>2, <2>3, <2>4, NativeSilent
  <2> QED BY <2>1, <2>5 DEF r
<1>5. CASE UnixThreadDeletes(u)
  <2> DEFINE s == [r EXCEPT !.thread = "ended", !.freed = r.freed + 1]
  <2>1. r.thread = "deleting" /\ Update(u, s)
    BY <1>1, <1>5 DEF UnixThreadDeletes, Reader
  <2> HIDE DEF r
  <2>2. /\ s \in Reader /\ s.buffer = r.buffer /\ s.sent = r.sent /\ s.owner = r.owner
        /\ s.status = r.status /\ s.refs = r.refs /\ s.thread = "ended" /\ s.freed = r.freed + 1
    BY <1>1, <1>3 DEF Reader
  <2> HIDE DEF s
  <2>3. UnixCounted(s)
    BY <1>1, <1>3, <2>1, <2>2 DEF UnixCounted, ThreadIn
  <2>4. ReaderOK(u, s) /\ Native(r, s)
    BY <1>1, <1>2, <2>1, <2>2, <2>3, NativeSilent
  <2> QED BY <2>1, <2>4 DEF r
<1>6. CASE UnixOwnerDeletes(u)
  <2> DEFINE s == [r EXCEPT !.owner = "gone", !.freed = r.freed + 1]
  <2>1. r.owner = "deleting" /\ Update(u, s)
    BY <1>1, <1>6 DEF UnixOwnerDeletes, Reader
  <2> HIDE DEF r
  <2>2. /\ s \in Reader /\ s.buffer = r.buffer /\ s.sent = r.sent /\ s.owner = "gone"
        /\ s.status = r.status /\ s.refs = r.refs /\ s.thread = r.thread /\ s.freed = r.freed + 1
    BY <1>1, <1>3 DEF Reader
  <2> HIDE DEF s
  <2>3. UnixCounted(s)
    BY <1>1, <1>3, <2>1, <2>2 DEF UnixCounted, ThreadIn
  <2>4. ReaderOK(u, s) /\ Native(r, s)
    BY <1>1, <1>2, <2>1, <2>2, <2>3, NativeSilent
  <2> QED BY <2>1, <2>4 DEF r
<1>7. ASSUME NEW s \in Reader, Update(u, s), r.thread \in {"starting", "transfer"},
             s.thread \in {"transfer", "leaving"}, s.owner = r.owner, s.refs = r.refs,
             s.freed = r.freed,
             \/ s.buffer = r.buffer /\ s.sent = r.sent /\ (s.status = "done" => s.thread = "leaving")
             \/ /\ s.buffer = Append(r.buffer, <<u, r.sent + 1>>) /\ s.sent = r.sent + 1
                /\ s.status = "downloading"
      PROVE  \E t : ReaderOK(u, t) /\ Update(u, t) /\ Native(reader[u], t)
  <2>1. UnixCounted(s)
    BY <1>1, <1>7 DEF UnixCounted, ThreadIn
  <2>2. r.status # "done" /\ r.owner # "nobody"
    BY <1>1, <1>2, <1>7
  <2>3. CASE s.buffer = r.buffer
    <3> HIDE DEF r
    <3>1. s.sent = r.sent /\ (s.status = "done" => s.thread = "leaving")
      <4>1. r.buffer # Append(r.buffer, <<u, r.sent + 1>>)
        <5>1. r.buffer \in Seq(Urls \X Nat) /\ <<u, r.sent + 1>> \in Urls \X Nat
          BY <1>1, <1>3 DEF Reader
        <5>2. Len(Append(r.buffer, <<u, r.sent + 1>>)) = Len(r.buffer) + 1 /\ Len(r.buffer) \in Nat
          BY <5>1
        <5> QED BY <5>2
      <4> QED BY <1>7, <2>3, <4>1
    <3>2. ReaderOK(u, s) /\ Native(r, s)
      BY <1>1, <1>7, <2>1, <2>2, <2>3, <3>1, NativeSilent
    <3> QED BY <1>7, <3>2 DEF r
  <2>4. CASE s.buffer # r.buffer
    <3>1. ReaderOK(u, s) /\ Native(r, s)
      BY <1>1, <1>7, <2>1, <2>2, <2>4, NativeReceives
    <3> QED BY <1>7, <3>1
  <2> QED BY <2>3, <2>4
<1>8. CASE UnixInit(u)
  <2> DEFINE s1 == [r EXCEPT !.thread = "transfer"]
             s2 == [Failed(r, "literal") EXCEPT !.thread = "leaving", !.size = -2]
  <2>1. r.thread = "starting" /\ (Update(u, s1) \/ Update(u, s2))
    BY <1>8 DEF UnixInit
  <2> HIDE DEF r
  <2>2. /\ s1 \in Reader /\ s1.buffer = r.buffer /\ s1.sent = r.sent /\ s1.owner = r.owner
        /\ s1.status = r.status /\ s1.refs = r.refs /\ s1.thread = "transfer" /\ s1.freed = r.freed
    BY <1>1, <1>3 DEF Reader
  <2>3. /\ s2 \in Reader /\ s2.buffer = r.buffer /\ s2.sent = r.sent /\ s2.owner = r.owner
        /\ s2.status = "error" /\ s2.refs = r.refs /\ s2.thread = "leaving" /\ s2.freed = r.freed
    BY <1>1, <1>3 DEF Reader, Failed
  <2> HIDE DEF s1, s2
  <2>4. s1.status # "done"
    BY <1>1, <2>1, <2>2
  <2> QED BY <2>1, <2>2, <2>3, <2>4, <1>7
<1>9. CASE UnixWrite(u)
  <2>1. PICK size \in LengthOf(r.size) :
          Update(u, [r EXCEPT !.status = "downloading", !.sent = @ + 1, !.size = size,
                              !.buffer = Append(@, <<u, r.sent + 1>>)])
    BY <1>9 DEF UnixWrite
  <2> DEFINE s == [r EXCEPT !.status = "downloading", !.sent = r.sent + 1, !.size = size,
                            !.buffer = Append(r.buffer, <<u, r.sent + 1>>)]
  <2>2. Update(u, s) /\ r.thread = "transfer"
    BY <1>1, <1>9, <2>1 DEF UnixWrite, Reader
  <2> HIDE DEF r
  <2>3. size \in {-2, -1, 0, 1}
    BY <1>1 DEF LengthOf, Reader
  <2>4. r.buffer \in Seq(Urls \X Nat) /\ Append(r.buffer, <<u, r.sent + 1>>) \in Seq(Urls \X Nat)
    BY <1>1, <1>3 DEF Reader
  <2>5. /\ s \in Reader /\ s.buffer = Append(r.buffer, <<u, r.sent + 1>>) /\ s.sent = r.sent + 1
        /\ s.owner = r.owner /\ s.status = "downloading" /\ s.refs = r.refs
        /\ s.thread = r.thread /\ s.freed = r.freed
    BY <1>1, <1>3, <2>3, <2>4 DEF Reader
  <2> HIDE DEF s
  <2> QED BY <2>2, <2>5, <1>7
<1>10. CASE UnixPerformed(u)
  <2> DEFINE s1 == [r EXCEPT !.thread = "leaving", !.status = "done"]
             s2 == [Failed(r, "literal") EXCEPT !.thread = "leaving", !.size = -2]
  <2>1. r.thread = "transfer" /\ (Update(u, s1) \/ Update(u, s2))
    BY <1>10 DEF UnixPerformed
  <2> HIDE DEF r
  <2>2. /\ s1 \in Reader /\ s1.buffer = r.buffer /\ s1.sent = r.sent /\ s1.owner = r.owner
        /\ s1.refs = r.refs /\ s1.thread = "leaving" /\ s1.freed = r.freed
    BY <1>1, <1>3 DEF Reader
  <2>3. /\ s2 \in Reader /\ s2.buffer = r.buffer /\ s2.sent = r.sent /\ s2.owner = r.owner
        /\ s2.status = "error" /\ s2.refs = r.refs /\ s2.thread = "leaving" /\ s2.freed = r.freed
    BY <1>1, <1>3 DEF Reader, Failed
  <2> HIDE DEF s1, s2
  <2> QED BY <2>1, <2>2, <2>3, <1>7
<1> QED BY <1>4, <1>5, <1>6, <1>8, <1>9, <1>10

LEMMA WinNative ==
  ASSUME ReadersOK, NEW u \in Urls,
         WinConstructed(u) \/ WinBegin(u) \/ WinAborted(u) \/ WinDelete(u) \/ WinSend(u) \/ WinRead(u)
  PROVE  \E s : ReaderOK(u, s) /\ Update(u, s) /\ Native(reader[u], s)
<1> DEFINE r == reader[u]
<1>1. /\ platform = "win32" /\ ReaderOK(u, r) /\ r \in Reader /\ WinCounted(r)
      /\ r.status = "done" => r.thread \in {"leaving", "deleting", "ended"}
  BY DEF ReadersOK, ReaderOK, Buffered, WinConstructed, WinBegin, WinAborted, WinDelete, WinSend, WinRead
<1>2. r.owner = "nobody" => r.thread = "none"
  BY <1>1 DEF ReaderOK, NoReader
<1>3. r.freed \in Nat /\ r.sent \in Nat /\ r.freed + 1 \in Nat /\ r.sent + 1 \in Nat
  BY <1>1 DEF Reader
<1>4. CASE WinConstructed(u)
  <2> DEFINE error == IF r.error = "allocated" THEN "freed" ELSE r.error
             s == [r EXCEPT !.owner = "open", !.error = error]
  <2>1. r.owner = "constructing" /\ Update(u, s)
    BY <1>1, <1>4 DEF WinConstructed, Reader
  <2>2. error \in {"none", "literal", "allocated", "freed"}
    BY <1>1 DEF Reader
  <2> HIDE DEF r, error
  <2>3. /\ s \in Reader /\ s.buffer = r.buffer /\ s.sent = r.sent /\ s.owner = "open"
        /\ s.status = r.status /\ s.thread = r.thread /\ s.freed = r.freed
    BY <1>1, <1>3, <2>2 DEF Reader
  <2> HIDE DEF s
  <2>4. WinCounted(s)
    BY <1>1, <2>1, <2>3 DEF WinCounted
  <2>5. ReaderOK(u, s) /\ Native(r, s)
    BY <1>1, <2>1, <2>3, <2>4, NativeSilent
  <2> QED BY <2>1, <2>5 DEF r
<1>5. CASE WinDelete(u)
  <2> DEFINE s == [r EXCEPT !.owner = "gone", !.freed = r.freed + 1]
  <2>1. r.owner = "closing" /\ r.thread \in {"none", "ended"} /\ Update(u, s)
    BY <1>1, <1>5 DEF WinDelete, Reader
  <2> HIDE DEF r
  <2>2. /\ s \in Reader /\ s.buffer = r.buffer /\ s.sent = r.sent /\ s.owner = "gone"
        /\ s.status = r.status /\ s.thread = r.thread /\ s.freed = r.freed + 1
    BY <1>1, <1>3 DEF Reader
  <2> HIDE DEF s
  <2>3. WinCounted(s)
    BY <1>1, <1>3, <2>1, <2>2 DEF WinCounted
  <2>4. ReaderOK(u, s) /\ Native(r, s)
    BY <1>1, <2>1, <2>2, <2>3, NativeSilent
  <2> QED BY <2>1, <2>4 DEF r
<1>6. ASSUME NEW s \in Reader, Update(u, s), r.thread \in {"starting", "queried", "transfer"},
             s.thread \in {"queried", "transfer", "ended"}, s.owner = r.owner, s.freed = r.freed,
             s.status = "done" => s.thread = "ended",
             s.buffer = r.buffer /\ s.sent = r.sent
      PROVE  \E t : ReaderOK(u, t) /\ Update(u, t) /\ Native(reader[u], t)
  <2>1. WinCounted(s)
    BY <1>1, <1>2, <1>6 DEF WinCounted
  <2>2. r.status # "done" /\ r.owner # "nobody"
    BY <1>1, <1>2, <1>6
  <2>3. ReaderOK(u, s) /\ Native(r, s)
    BY <1>1, <1>6, <2>1, <2>2, NativeSilent
  <2> QED BY <1>6, <2>3
<1>7. CASE WinSend(u)
  <2> DEFINE s1 == [Failed(r, "allocated") EXCEPT !.thread = "ended"]
             s2 == [Failed(r, "literal") EXCEPT !.thread = "ended"]
             s3(size) == [r EXCEPT !.thread = "queried", !.size = size]
  <2>1. /\ r.thread = "starting"
        /\ Update(u, s1) \/ Update(u, s2) \/ (\E size \in {-1, 1} : Update(u, s3(size)))
    BY <1>7 DEF WinSend
  <2> HIDE DEF r
  <2>2. /\ s1 \in Reader /\ s1.buffer = r.buffer /\ s1.sent = r.sent /\ s1.owner = r.owner
        /\ s1.status = "error" /\ s1.thread = "ended" /\ s1.freed = r.freed
    BY <1>1, <1>3 DEF Reader, Failed
  <2>3. /\ s2 \in Reader /\ s2.buffer = r.buffer /\ s2.sent = r.sent /\ s2.owner = r.owner
        /\ s2.status = "error" /\ s2.thread = "ended" /\ s2.freed = r.freed
    BY <1>1, <1>3 DEF Reader, Failed
  <2>4. ASSUME NEW size \in {-1, 1}
        PROVE  /\ s3(size) \in Reader /\ s3(size).buffer = r.buffer /\ s3(size).sent = r.sent
               /\ s3(size).owner = r.owner /\ s3(size).status = r.status
               /\ s3(size).thread = "queried" /\ s3(size).freed = r.freed
    BY <1>1, <1>3 DEF Reader
  <2>5. r.status # "done"
    BY <1>1, <2>1
  <2> HIDE DEF s1, s2, s3
  <2> QED BY <2>1, <2>2, <2>3, <2>4, <2>5, <1>6
<1>8. CASE WinBegin(u)
  <2> DEFINE s == [r EXCEPT !.thread = "transfer", !.status = "downloading"]
  <2>1. r.thread = "queried" /\ Update(u, s)
    BY <1>8 DEF WinBegin
  <2> HIDE DEF r
  <2>2. /\ s \in Reader /\ s.buffer = r.buffer /\ s.sent = r.sent /\ s.owner = r.owner
        /\ s.status = "downloading" /\ s.thread = "transfer" /\ s.freed = r.freed
    BY <1>1, <1>3 DEF Reader
  <2> HIDE DEF s
  <2> QED BY <2>1, <2>2, <1>6
<1>9. CASE WinAborted(u)
  <2> DEFINE s(kind) == [Failed(r, kind) EXCEPT !.thread = "ended"]
  <2>1. PICK kind \in {"allocated", "literal"} : r.thread \in {"starting", "transfer"} /\ Update(u, s(kind))
    BY <1>9 DEF WinAborted
  <2> HIDE DEF r
  <2>2. /\ s(kind) \in Reader /\ s(kind).buffer = r.buffer /\ s(kind).sent = r.sent
        /\ s(kind).owner = r.owner /\ s(kind).status = "error" /\ s(kind).thread = "ended"
        /\ s(kind).freed = r.freed
    BY <1>1, <1>3 DEF Reader, Failed
  <2> HIDE DEF s
  <2> QED BY <2>1, <2>2, <1>6
<1>10. CASE WinRead(u)
  <2> DEFINE s1 == [r EXCEPT !.sent = r.sent + 1, !.buffer = Append(r.buffer, <<u, r.sent + 1>>)]
             s2 == [r EXCEPT !.thread = "ended", !.status = "done"]
             s3 == [Failed(r, "literal") EXCEPT !.thread = "ended"]
  <2>1. r.thread = "transfer" /\ (Update(u, s1) \/ Update(u, s2) \/ Update(u, s3))
    BY <1>1, <1>10 DEF WinRead, Reader
  <2>2. r.status # "done" /\ r.owner # "nobody"
    BY <1>1, <1>2, <2>1
  <2> HIDE DEF r
  <2>3. r.buffer \in Seq(Urls \X Nat) /\ Append(r.buffer, <<u, r.sent + 1>>) \in Seq(Urls \X Nat)
    BY <1>1, <1>3 DEF Reader
  <2>4. /\ s1 \in Reader /\ s1.buffer = Append(r.buffer, <<u, r.sent + 1>>) /\ s1.sent = r.sent + 1
        /\ s1.owner = r.owner /\ s1.status = r.status /\ s1.thread = r.thread /\ s1.freed = r.freed
    BY <1>1, <1>3, <2>3 DEF Reader
  <2>5. /\ s2 \in Reader /\ s2.buffer = r.buffer /\ s2.sent = r.sent /\ s2.owner = r.owner
        /\ s2.status = "done" /\ s2.thread = "ended" /\ s2.freed = r.freed
    BY <1>1, <1>3 DEF Reader
  <2>6. /\ s3 \in Reader /\ s3.buffer = r.buffer /\ s3.sent = r.sent /\ s3.owner = r.owner
        /\ s3.status = "error" /\ s3.thread = "ended" /\ s3.freed = r.freed
    BY <1>1, <1>3 DEF Reader, Failed
  <2> HIDE DEF s1, s2, s3
  <2>7. ReaderOK(u, s1) /\ Native(r, s1)
    <3>1. WinCounted(s1)
      BY <1>1, <2>4 DEF WinCounted
    <3> QED BY <1>1, <2>2, <2>4, <3>1, NativeReceives
  <2> QED BY <2>1, <2>5, <2>6, <2>7, <1>6 DEF r
<1> QED BY <1>4, <1>5, <1>7, <1>8, <1>9, <1>10

LEMMA NativeGives ==
  ASSUME ReadersOK, NEW u \in Urls, ReaderLocalStep(u) \/ NetworkStep(u)
  PROVE  \E s : ReaderOK(u, s) /\ Update(u, s) /\ Native(reader[u], s)
BY UnixNative, WinNative DEF ReaderLocalStep, NetworkStep

-----------------------------------------------------------------------------
(* What most steps do to every reader: its data stay what they are or grow *)
(* at their end, and none after the end...                                 *)
Calm(r, s) ==
  /\ s.sent - Len(s.buffer) = r.sent - Len(r.buffer)
  /\ r.status = "done" => s.status = "done" /\ s.buffer = r.buffer /\ s.sent = r.sent

(* ...and it has an owner or not as before.                                *)
Steady(r, s) ==
  /\ r.owner = "nobody" <=> s.owner = "nobody"
  /\ r.owner \in {"constructing", "open"} <=> s.owner \in {"constructing", "open"}
  /\ r.owner \in {"closing", "deleting", "gone"} <=> s.owner \in {"closing", "deleting", "gone"}
  /\ r.owner = "open" => s.owner = "open"
  /\ r.owner = "gone" => s.owner = "gone"

LEMMA FirstType == First \in Urls /\ First # Nobody
BY MirrorsAssumption DEF First

LEMMA TargetType ==
  ASSUME ClientTypeOK
  PROVE  /\ Target \in Urls \cup {Nobody}
         /\ Target # Nobody => Target \in Urls
         /\ facade # "mirror" => Target = First /\ Target # Nobody
BY FirstType DEF Target, ClientTypeOK

LEMMA ReaderFields ==
  ASSUME ReadersOK, NEW u \in Urls
  PROVE  /\ reader[u] \in Reader /\ ReaderOK(u, reader[u])
         /\ reader[u].sent \in Nat /\ reader[u].buffer \in Seq(Urls \X Nat)
         /\ Len(reader[u].buffer) \in Nat
         /\ reader[u].owner \in {"nobody", "constructing", "open", "closing", "deleting", "gone"}
BY DEF ReadersOK, Reader

LEMMA SumKept ==
  ASSUME NEW g \in Nat, NEW a \in Nat, NEW b \in Nat, NEW c \in Nat, NEW d \in Nat,
         g + a = b, d - c = b - a
  PROVE  g + c = d
OBVIOUS

LEMMA StreamKept ==
  ASSUME ReadersOK, ReadersOK', ClientTypeOK, StreamOK, UNCHANGED <<got, answer, facade>>,
         Target' = Target, \A v \in Urls : Calm(reader[v], reader'[v])
  PROVE  StreamOK'
<1>1. ASSUME NEW v \in Urls
      PROVE  /\ reader'[v].sent - Len(reader'[v].buffer) = reader[v].sent - Len(reader[v].buffer)
             /\ reader[v].status = "done" =>
                  /\ reader'[v].status = "done" /\ reader'[v].buffer = reader[v].buffer
                  /\ reader'[v].sent = reader[v].sent
             /\ reader[v].sent \in Nat /\ Len(reader[v].buffer) \in Nat
             /\ reader'[v].sent \in Nat /\ Len(reader'[v].buffer) \in Nat
  <2>1. reader'[v].sent \in Nat /\ Len(reader'[v].buffer) \in Nat
    BY DEF ReadersOK, Reader
  <2> QED BY <2>1, ReaderFields DEF Calm
<1>2. First \in Urls /\ (Target # Nobody => Target \in Urls) /\ Len(got) \in Nat
  BY FirstType, TargetType DEF ClientTypeOK
<1>3. ASSUME NEW u \in Urls, u # Target \/ facade = "download"
      PROVE  Len(reader'[u].buffer) = reader'[u].sent
  <2>1. Len(reader[u].buffer) = reader[u].sent
    BY <1>3 DEF StreamOK
  <2>2. reader'[u].sent - Len(reader'[u].buffer) = reader[u].sent - Len(reader[u].buffer)
    BY <1>1
  <2>3. /\ reader[u].sent \in Nat /\ Len(reader[u].buffer) \in Nat
        /\ reader'[u].sent \in Nat /\ Len(reader'[u].buffer) \in Nat
    BY <1>1
  <2> QED BY <2>1, <2>2, <2>3
<1>4. ASSUME facade # "download", Target # Nobody
      PROVE  /\ Len(got) + Len(reader'[Target].buffer) = reader'[Target].sent
             /\ answer = 0 => reader'[Target].status = "done" /\ reader'[Target].buffer = << >>
  <2> DEFINE t == Target
  <2>1. /\ Len(got) + Len(reader[t].buffer) = reader[t].sent
        /\ answer = 0 => reader[t].status = "done" /\ reader[t].buffer = << >>
    BY <1>4 DEF StreamOK
  <2>2. t \in Urls
    BY <1>2, <1>4
  <2> HIDE DEF t
  <2>3. reader'[t].sent - Len(reader'[t].buffer) = reader[t].sent - Len(reader[t].buffer)
    BY <1>1, <2>2
  <2>4. /\ reader[t].sent \in Nat /\ Len(reader[t].buffer) \in Nat
        /\ reader'[t].sent \in Nat /\ Len(reader'[t].buffer) \in Nat
    BY <1>1, <2>2
  <2>5. reader[t].status = "done" => reader'[t].status = "done" /\ reader'[t].buffer = reader[t].buffer
    BY <1>1, <2>2
  <2>6. Len(got) + Len(reader'[t].buffer) = reader'[t].sent
    <3> DEFINE g == Len(got)
               a == Len(reader[t].buffer)
               b == reader[t].sent
               c == Len(reader'[t].buffer)
               d == reader'[t].sent
    <3>1. g \in Nat /\ a \in Nat /\ b \in Nat /\ c \in Nat /\ d \in Nat
      BY <1>2, <2>4
    <3>2. g + a = b /\ d - c = b - a
      BY <2>1, <2>3
    <3> HIDE DEF g, a, b, c, d
    <3>3. g + c = d
      BY <3>1, <3>2
    <3> QED BY <3>3 DEF g, c, d
  <2>7. answer = 0 => reader'[t].status = "done" /\ reader'[t].buffer = << >>
    BY <2>1, <2>5
  <2> QED BY <2>6, <2>7 DEF t
<1>5. ASSUME facade = "download"
      PROVE  /\ answer # 0 => got = << >>
             /\ answer = 0 => reader'[First].status = "done" /\ Len(got) = reader'[First].sent
  BY <1>1, <1>2, <1>5 DEF StreamOK
<1>6. /\ got = [k \in 1..Len(got) |-> <<Target, k>>]
      /\ Target = Nobody => got = << >> /\ answer # 0
  BY DEF StreamOK
<1>7. First' = First
  BY DEF First
<1> HIDE DEF Target, First
<1> QED BY <1>3, <1>4, <1>5, <1>6, <1>7 DEF StreamOK

LEMMA SingleKept ==
  ASSUME SingleOK, UNCHANGED <<http, trial, mirrorPc, gaveUp, user>>,
         \A v \in Urls : Steady(reader[v], reader'[v])
  PROVE  SingleOK'
BY FirstType DEF SingleOK, Steady, Owned, Dropped, First

LEMMA SearchKept ==
  ASSUME SearchOK, UNCHANGED <<urls, http, trial, mirrorPc, gaveUp, user>>, ClientTypeOK,
         \A v \in Urls : Steady(reader[v], reader'[v])
  PROVE  SearchOK'
<1>1. /\ http # Nobody => http \in Urls
      /\ \A k \in 1..(Len(Mirrors) - Len(urls)) : Mirrors[k] \in Urls
      /\ urls # << >> => Head(urls) \in Urls
  <2>1. urls \in Seq(Urls) /\ Mirrors \in Seq(Urls) /\ Len(urls) \in Nat
    BY MirrorsAssumption DEF ClientTypeOK
  <2> QED BY <2>1 DEF ClientTypeOK
<1>2. /\ \A v \in Urls : Owned(v)' = Owned(v)
      /\ \A v \in Urls : Dropped(v)' = Dropped(v)
      /\ \A v \in Urls : reader'[v].owner = "nobody" <=> reader[v].owner = "nobody"
      /\ \A v \in Urls : reader[v].owner = "open" => reader'[v].owner = "open"
      /\ \A v \in Urls : reader[v].owner = "gone" => reader'[v].owner = "gone"
  BY DEF Steady, Owned, Dropped
<1>3. /\ Len(Mirrors) - Len(urls) \in 0..Len(Mirrors)
      /\ urls = SubSeq(Mirrors, (Len(Mirrors) - Len(urls)) + 1, Len(Mirrors))
      /\ \A k \in 1..(Len(Mirrors) - Len(urls)) : reader[Mirrors[k]].owner = "gone"
  BY DEF SearchOK
<1> QED BY <1>1, <1>2, <1>3 DEF SearchOK

-----------------------------------------------------------------------------
(* One step of one reader, as the invariants of the program see it.        *)

LEMMA NativeCalm ==
  ASSUME ReadersOK, NEW u \in Urls, NEW s, ReaderOK(u, s), Update(u, s), Native(reader[u], s)
  PROVE  /\ ReadersOK'
         /\ \A v \in Urls : Calm(reader[v], reader'[v]) /\ Steady(reader[v], reader'[v])
<1>1. ReadersOK' /\ reader'[u] = s /\ \A v \in Urls \ {u} : reader'[v] = reader[v]
  BY UpdateKeeps
<1>2. Calm(reader[u], s) /\ Steady(reader[u], s)
  BY DEF Native, Calm, Steady
<1>3. \A v \in Urls \ {u} : Calm(reader[v], reader'[v]) /\ Steady(reader[v], reader'[v])
  BY <1>1 DEF Calm, Steady
<1> QED BY <1>1, <1>2, <1>3

LEMMA CloseCalm ==
  ASSUME ReadersOK, NEW u \in Urls, Close(u)
  PROVE  /\ ReadersOK' /\ platform' = platform
         /\ \A v \in Urls : Calm(reader[v], reader'[v])
         /\ \A v \in Urls \ {u} : reader'[v] = reader[v]
         /\ reader[u].owner = "open" /\ reader'[u].owner \in {"closing", "deleting", "gone"}
<1>1. PICK s : /\ ReaderOK(u, s) /\ Update(u, s)
               /\ reader[u].owner = "open" /\ s.owner \in {"closing", "deleting", "gone"}
               /\ s.buffer = reader[u].buffer /\ s.sent = reader[u].sent
               /\ s.status = reader[u].status
  BY CloseGives
<1>2. /\ ReadersOK' /\ platform' = platform
      /\ reader'[u] = s /\ \A v \in Urls \ {u} : reader'[v] = reader[v]
  BY <1>1, UpdateKeeps
<1>3. Calm(reader[u], s) BY <1>1 DEF Calm
<1>4. \A v \in Urls \ {u} : Calm(reader[v], reader'[v]) BY <1>2 DEF Calm
<1> QED BY <1>1, <1>2, <1>3, <1>4

LEMMA ConstructCalm ==
  ASSUME ReadersOK, NEW u \in Urls, Construct(u)
  PROVE  /\ ReadersOK' /\ platform' = platform
         /\ \A v \in Urls : Calm(reader[v], reader'[v])
         /\ \A v \in Urls \ {u} : reader'[v] = reader[v]
         /\ reader[u].owner = "nobody" /\ reader'[u].owner \in {"constructing", "open"}
<1>1. PICK s : /\ ReaderOK(u, s) /\ Update(u, s)
               /\ reader[u].owner = "nobody" /\ s.owner \in {"constructing", "open"}
               /\ s.buffer = << >> /\ s.sent = 0 /\ s.status # "done"
  BY ConstructGives
<1>2. /\ ReadersOK' /\ platform' = platform
      /\ reader'[u] = s /\ \A v \in Urls \ {u} : reader'[v] = reader[v]
  BY <1>1, UpdateKeeps
<1>3. reader[u] = NoReader BY <1>1 DEF ReadersOK, ReaderOK
<1>4. NoReader.buffer = << >> /\ NoReader.sent = 0 /\ NoReader.status # "done"
  BY DEF NoReader
<1>5. Calm(reader[u], s) BY <1>1, <1>3, <1>4 DEF Calm
<1>6. \A v \in Urls \ {u} : Calm(reader[v], reader'[v]) BY <1>2 DEF Calm
<1> QED BY <1>1, <1>2, <1>5, <1>6

LEMMA NobodyMoves ==
  ASSUME ReadersOK, UNCHANGED readerVars
  PROVE  /\ ReadersOK' /\ platform' = platform /\ reader' = reader
         /\ \A v \in Urls : Calm(reader[v], reader'[v]) /\ Steady(reader[v], reader'[v])
<1>1. platform' = platform /\ reader' = reader BY DEF readerVars
<1>2. ReadersOK'
  BY <1>1 DEF ReadersOK, ReaderOK, UnixCounted, WinCounted, Buffered, ThreadIn
<1>3. \A v \in Urls : Calm(reader[v], reader'[v]) /\ Steady(reader[v], reader'[v])
  BY <1>1 DEF Calm, Steady
<1> QED BY <1>1, <1>2, <1>3

-----------------------------------------------------------------------------
(* The steps of the program.                                               *)

LEMMA ClientTypes ==
  ASSUME ReadersOK, ClientTypeOK
  PROVE  /\ TypeOK
         /\ urls # << >> => /\ Head(urls) \in Urls /\ Tail(urls) \in Seq(Urls)
                            /\ Len(Tail(urls)) = Len(urls) - 1 /\ Len(urls) \in Nat
BY DEF ReadersOK, ClientTypeOK, TypeOK

LEMMA InitIInv == Init => IInv
<1> SUFFICES ASSUME Init PROVE IInv
  OBVIOUS
<1>1. NoReader \in Reader /\ Buffered(First, NoReader)
  BY EmptyBuffered DEF NoReader, Reader
<1>2. \A u \in Urls : ReaderOK(u, NoReader)
  <2> TAKE u \in Urls
  <2>1. Buffered(u, NoReader)
    BY EmptyBuffered DEF NoReader
  <2>2. UnixCounted(NoReader) /\ WinCounted(NoReader)
    BY DEF NoReader, UnixCounted, WinCounted, ThreadIn
  <2> QED BY <1>1, <2>1, <2>2 DEF ReaderOK
<1>3. ReadersOK
  BY <1>1, <1>2 DEF Init, ReaderInit, ReadersOK
<1>4. ClientTypeOK
  <2>1. TypeOK
    BY <1>1 DEF Init, ReaderInit, TypeOK
  <2>2. -1 \in -2..MaxPieces
    BY ReaderAssumption
  <2>3. got \in Seq(Urls \X Nat) /\ urls \in Seq(Urls)
    BY MirrorsAssumption DEF Init
  <2> QED BY <2>1, <2>2, <2>3 DEF Init, ClientTypeOK
<1>5. got = << >> /\ answer = -1 /\ \A u \in Urls : reader[u].buffer = << >> /\ reader[u].sent = 0
  BY DEF Init, ReaderInit, NoReader
<1>6. StreamOK
  <2>1. << >> = [k \in 1..0 |-> <<Target, k>>] /\ Len(<< >>) = 0
    OBVIOUS
  <2>2. Target # Nobody => Target \in Urls
    BY <1>4, TargetType
  <2> HIDE DEF Target, First
  <2> QED BY <1>5, <2>1, <2>2 DEF StreamOK
<1>7. \A u \in Urls : reader[u].owner = "nobody"
  BY DEF Init, ReaderInit, NoReader
<1>8. CASE facade = "mirror"
  <2>1. Len(Mirrors) \in Nat /\ Mirrors = SubSeq(Mirrors, 1, Len(Mirrors))
    BY MirrorsAssumption
  <2>2. SearchOK
    <3>1. Len(Mirrors) - Len(urls) = 0 /\ urls = Mirrors
      BY <2>1 DEF Init
    <3>2. \A k \in 1..0 : reader[Mirrors[k]].owner = "gone"
      OBVIOUS
    <3> QED BY <1>7, <2>1, <3>1, <3>2 DEF Init, SearchOK, Owned
  <2> QED BY <1>3, <1>4, <1>6, <1>8, <2>2 DEF IInv
<1>9. CASE facade # "mirror"
  <2>1. SingleOK
    BY <1>7, FirstType DEF Init, SingleOK
  <2> QED BY <1>3, <1>4, <1>6, <1>9, <2>1 DEF IInv, Init
<1> QED BY <1>8, <1>9

(* Where the readers are steady and the program has not moved, nothing has *)
(* changed for it.                                                         *)
LEMMA QuietStep ==
  ASSUME IInv, ReadersOK',
         UNCHANGED <<fixedVars, userVars, threadVars, stop>>,
         \A v \in Urls : Calm(reader[v], reader'[v]) /\ Steady(reader[v], reader'[v])
  PROVE  IInv'
<1>1. ClientTypeOK'
  BY DEF IInv, ClientTypeOK, TypeOK, ReadersOK, fixedVars, userVars, threadVars
<1>2. StreamOK'
  BY StreamKept DEF IInv, fixedVars, userVars, threadVars, Target
<1>3. IF facade = "mirror" THEN SearchOK' ELSE SingleOK'
  BY SearchKept, SingleKept DEF IInv, fixedVars, userVars, threadVars
<1> QED BY <1>1, <1>2, <1>3 DEF IInv, fixedVars

LEMMA OpenStep == ASSUME IInv, Open PROVE IInv'
<1>1. /\ user = "new" /\ user' = "open"
      /\ UNCHANGED <<fixedVars, got, answer, urls, http, gaveUp, stop, trial, timeout, late>>
  BY DEF Open
<1>2. CASE facade # "mirror" /\ Construct(First) /\ UNCHANGED mirrorPc
  <2>1. /\ ReadersOK' /\ \A v \in Urls : Calm(reader[v], reader'[v])
        /\ \A v \in Urls \ {First} : reader'[v] = reader[v]
        /\ reader'[First].owner \in {"constructing", "open"}
    BY <1>2, FirstType, ConstructCalm DEF IInv
  <2>2. ClientTypeOK'
    BY <1>1, <1>2, <2>1 DEF IInv, ClientTypeOK, TypeOK, ReadersOK, fixedVars
  <2>3. StreamOK'
    BY <1>1, <2>1, StreamKept DEF IInv, fixedVars, Target
  <2>4. SingleOK'
    BY <1>1, <1>2, <2>1, FirstType DEF IInv, SingleOK, Owned, Dropped, First
  <2> QED BY <1>1, <1>2, <2>1, <2>2, <2>3, <2>4 DEF IInv, fixedVars
<1>3. CASE facade = "mirror" /\ mirrorPc' = "next" /\ UNCHANGED readerVars
  <2>1. ReadersOK' /\ reader' = reader /\ \A v \in Urls : Calm(reader[v], reader'[v])
    BY <1>3, NobodyMoves DEF IInv
  <2>2. ClientTypeOK'
    BY <1>1, <1>3, <2>1 DEF IInv, ClientTypeOK, TypeOK, ReadersOK, fixedVars
  <2>3. StreamOK'
    BY <1>1, <2>1, StreamKept DEF IInv, fixedVars, Target
  <2>4. SearchOK /\ \A u \in Urls : reader[u].owner = "nobody"
    BY <1>1, <1>3 DEF IInv, SearchOK
  <2>5. SearchOK'
    BY <1>1, <1>3, <2>1, <2>4 DEF SearchOK, Owned, Dropped
  <2> QED BY <1>1, <1>3, <2>1, <2>2, <2>3, <2>5 DEF IInv, fixedVars
<1> QED BY <1>2, <1>3 DEF Open

(* What is pulled goes on where the last pull ended.                       *)
LEMMA PullDataStep == ASSUME IInv, NEW n \in 1..MaxPieces, PullData(n) PROVE IInv'
<1>1. /\ facade # "download" /\ user = "open" /\ answer # 0 /\ Ready
      /\ UNCHANGED <<fixedVars, user, threadVars, stop>> /\ Target' = Target
  BY DEF PullData, Ready, Target, fixedVars, threadVars
<1>2. CASE Target = Nobody
  <2>1. answer' = -2 /\ got' = got /\ UNCHANGED readerVars
    BY <1>2 DEF PullData
  <2>2. /\ ReadersOK' /\ reader' = reader
        /\ \A v \in Urls : Calm(reader[v], reader'[v]) /\ Steady(reader[v], reader'[v])
    BY <2>1, NobodyMoves DEF IInv
  <2>3. ClientTypeOK'
    BY <1>1, <2>1, <2>2, ReaderAssumption DEF IInv, ClientTypeOK, TypeOK, ReadersOK, fixedVars, threadVars
  <2>4. StreamOK'
    <3> HIDE DEF Target
    <3> QED BY <1>1, <1>2, <2>1, <2>2 DEF IInv, StreamOK, fixedVars
  <2>5. IF facade = "mirror" THEN SearchOK' ELSE SingleOK'
    BY <1>1, <2>2, SearchKept, SingleKept DEF IInv, fixedVars, threadVars
  <2> QED BY <1>1, <2>2, <2>3, <2>4, <2>5 DEF IInv, fixedVars
<1>3. CASE Target # Nobody
  <2> DEFINE t == Target
             r == reader[t]
             c == Len(PulledData(r, n))
  <2>1. /\ t \in Urls /\ Pull(t, n) /\ answer' = PullResult(r, n) /\ got' = got \o PulledData(r, n)
    BY <1>3, TargetType DEF IInv, PullData
  <2>2. PICK s : /\ ReaderOK(t, s) /\ Update(t, s)
                 /\ r.owner = "open" /\ s.owner = "open" /\ s.status = r.status /\ s.sent = r.sent
                 /\ c \in 0..Len(r.buffer) /\ Len(s.buffer) = Len(r.buffer) - c
                 /\ PulledData(r, n) = [k \in 1..c |-> <<t, r.sent - Len(r.buffer) + k>>]
                 /\ PullResult(r, n) \in -2..MaxPieces
                 /\ PullResult(r, n) = 0 => r.status = "done" /\ r.buffer = << >> /\ s.buffer = << >>
    <3> HIDE DEF t
    <3> QED BY <2>1, PullGives DEF IInv
  <2>3. ReadersOK' /\ reader'[t] = s /\ \A v \in Urls \ {t} : reader'[v] = reader[v]
    <3> HIDE DEF t, r, c
    <3> QED BY <2>1, <2>2, UpdateKeeps DEF IInv
  <2>4. /\ r.sent \in Nat /\ Len(r.buffer) \in Nat /\ Len(got) \in Nat /\ got \in Seq(Urls \X Nat)
        /\ Len(got) + Len(r.buffer) = r.sent
        /\ \A k \in 1..Len(got) : got[k] = <<t, k>>
    <3>1. got \in Seq(Urls \X Nat) /\ Len(got) + Len(r.buffer) = r.sent
      BY <1>1, <1>3 DEF IInv, ClientTypeOK, StreamOK
    <3>2. r.sent \in Nat /\ Len(r.buffer) \in Nat
      BY <2>1, ReaderFields DEF IInv
    <3>3. got = [k \in 1..Len(got) |-> <<t, k>>]
      BY DEF IInv, StreamOK
    <3> HIDE DEF t, r, c
    <3> QED BY <3>1, <3>2, <3>3
  <2> DEFINE p == PulledData(r, n)
  <2>5. p \in Seq(Urls \X Nat) /\ Len(p) = c /\ \A k \in 1..c : p[k] = <<t, Len(got) + k>>
    <3> HIDE DEF t, r, p
    <3>0. c = Len(p)
      BY DEF p
    <3> HIDE DEF c
    <3>1. c \in Nat /\ p = [k \in 1..c |-> <<t, r.sent - Len(r.buffer) + k>>]
      BY <2>2, <2>4 DEF p
    <3>2. r.sent - Len(r.buffer) = Len(got)
      BY <2>4
    <3>3. \A k \in 1..c : <<t, Len(got) + k>> \in Urls \X Nat
      BY <2>1, <2>4, <3>1
    <3>4. p = [k \in 1..c |-> <<t, Len(got) + k>>]
      BY <3>1, <3>2
    <3>5. p \in Seq(Urls \X Nat)
      BY <3>1, <3>3, <3>4
    <3> QED BY <3>0, <3>1, <3>4, <3>5
  <2>6. /\ got' \in Seq(Urls \X Nat) /\ Len(got') = Len(got) + c
        /\ got' = [k \in 1..Len(got') |-> <<t, k>>]
    <3> HIDE DEF t, r, c, p
    <3>1. got' = got \o p /\ c \in Nat
      BY <2>1, <2>2, <2>4 DEF p
    <3>2. got' \in Seq(Urls \X Nat) /\ Len(got') = Len(got) + c
      <4>1. got \in Seq(Urls \X Nat) /\ p \in Seq(Urls \X Nat) /\ Len(p) = c
        BY <2>4, <2>5
      <4> QED BY <3>1, <4>1, ConcatProperties
    <3>3. \A k \in 1..Len(got') : got'[k] = <<t, k>>
      <4> TAKE k \in 1..Len(got')
      <4>1. CASE k <= Len(got)
        BY <2>4, <2>5, <3>1, <3>2, <4>1
      <4>2. CASE k > Len(got)
        <5>1. k - Len(got) \in 1..c /\ Len(got) + (k - Len(got)) = k
          BY <2>4, <3>1, <3>2, <4>2
        <5>2. got'[k] = p[k - Len(got)]
          BY <2>4, <2>5, <3>1, <3>2, <4>2
        <5> QED BY <2>5, <5>1, <5>2
      <4> QED BY <2>4, <3>1, <3>2, <4>1, <4>2
    <3> QED BY <3>2, <3>3
  <2>7. Len(got') + Len(s.buffer) = s.sent
    <3> HIDE DEF t, r, c, p
    <3>1. Len(got') = Len(got) + c /\ Len(s.buffer) = Len(r.buffer) - c /\ s.sent = r.sent
      BY <2>2, <2>6
    <3>2. c \in Nat /\ Len(got) + Len(r.buffer) = r.sent
      BY <2>2, <2>4
    <3> DEFINE g == Len(got)
               b == Len(r.buffer)
               e == Len(got')
               f == Len(s.buffer)
               h == s.sent
    <3>3. g \in Nat /\ b \in Nat /\ g + b = h /\ e = g + c /\ f = b - c
      BY <2>4, <3>1
    <3> HIDE DEF g, b, e, f, h
    <3>4. e + f = h
      BY <3>2, <3>3
    <3> QED BY <3>4 DEF e, f, h
  <2>8. ClientTypeOK'
    BY <1>1, <2>1, <2>2, <2>3, <2>6 DEF IInv, ClientTypeOK, TypeOK, ReadersOK, fixedVars, threadVars
  <2>9. StreamOK'
    <3>1. facade' = facade /\ t' = t /\ t # Nobody
      BY <1>1, <1>3 DEF fixedVars
    <3>2. \A u \in Urls \ {t} : Len(reader'[u].buffer) = reader'[u].sent
      BY <2>3 DEF IInv, StreamOK
    <3>3. answer' = 0 => s.status = "done" /\ s.buffer = << >>
      <4> HIDE DEF t, r, c
      <4> QED BY <2>1, <2>2
    <3> HIDE DEF r, c, p, Target
    <3> QED BY <1>1, <2>3, <2>6, <2>7, <3>1, <3>2, <3>3 DEF StreamOK
  <2>10. \A v \in Urls : Steady(reader[v], reader'[v])
    <3>1. Steady(reader[t], reader'[t])
      BY <2>2, <2>3 DEF Steady
    <3>2. \A v \in Urls \ {t} : Steady(reader[v], reader'[v])
      BY <2>3 DEF Steady
    <3> HIDE DEF t
    <3> QED BY <3>1, <3>2
  <2>11. IF facade = "mirror" THEN SearchOK' ELSE SingleOK'
    BY <1>1, <2>10, SearchKept, SingleKept DEF IInv, fixedVars, threadVars
  <2> QED BY <1>1, <2>3, <2>8, <2>9, <2>11 DEF IInv, fixedVars
<1> QED BY <1>2, <1>3

(* download takes the whole buffer, of which nothing has been pulled.      *)
LEMMA DownloadStep == ASSUME IInv, Download PROVE IInv'
<1>1. /\ facade = "download" /\ answer = -1
      /\ UNCHANGED <<readerVars, fixedVars, user, threadVars, stop>> /\ Target' = Target
      /\ Target = First /\ First' = First
  BY DEF Download, Target, First, fixedVars, threadVars
<1>2. /\ ReadersOK' /\ reader' = reader
      /\ \A v \in Urls : Calm(reader[v], reader'[v]) /\ Steady(reader[v], reader'[v])
  BY <1>1, NobodyMoves DEF IInv
<1>3. SingleOK'
  BY <1>1, <1>2, SingleKept DEF IInv, threadVars
<1>4. /\ reader[First].buffer \in Seq(Urls \X Nat)
      /\ Len(reader[First].buffer) = reader[First].sent
      /\ reader[First].buffer
           = [k \in 1..Len(reader[First].buffer) |->
                <<First, reader[First].sent - Len(reader[First].buffer) + k>>]
  BY <1>1, FirstType, ReaderFields DEF IInv, StreamOK, ReaderOK, Buffered
<1>5. got = << >>
  BY <1>1 DEF IInv, StreamOK
<1>6. \/ reader[First].status = "done" /\ answer' = 0 /\ got' = reader[First].buffer
      \/ answer' = -2 /\ got' = << >>
  BY <1>1, <1>5, FirstType DEF Download, Status
<1>7. got' \in Seq(Urls \X Nat) /\ got' = [k \in 1..Len(got') |-> <<First, k>>]
  <2>1. CASE got' = << >>
    BY <2>1
  <2>2. CASE got' = reader[First].buffer
    <3>1. reader[First].buffer = [k \in 1..Len(reader[First].buffer) |-> <<First, k>>]
      <4> DEFINE b == reader[First].buffer
                 n == reader[First].sent
      <4>1. b \in Seq(Urls \X Nat) /\ n = Len(b) /\ n \in Nat
        BY <1>4
      <4>2. b = [k \in 1..Len(b) |-> <<First, n - Len(b) + k>>]
        BY <1>4
      <4> HIDE DEF b, n
      <4>3. \A k \in 1..Len(b) : n - Len(b) + k = k
        BY <4>1
      <4>4. b = [k \in 1..Len(b) |-> <<First, k>>]
        BY <4>2, <4>3
      <4> QED BY <4>4 DEF b
    <3> QED BY <1>4, <2>2, <3>1
  <2> QED BY <1>6, <2>1, <2>2
<1>8. ClientTypeOK'
  BY <1>1, <1>2, <1>6, <1>7, ReaderAssumption
     DEF IInv, ClientTypeOK, TypeOK, ReadersOK, fixedVars, threadVars
<1>9. StreamOK'
  <2>1. First \in Urls /\ First # Nobody /\ facade' = "download"
    BY <1>1, FirstType DEF fixedVars
  <2>2. \A u \in Urls : Len(reader[u].buffer) = reader[u].sent
    BY <1>1 DEF IInv, StreamOK
  <2> HIDE DEF First, Target
  <2> QED BY <1>1, <1>2, <1>4, <1>6, <1>7, <2>1, <2>2 DEF StreamOK
<1> QED BY <1>1, <1>2, <1>3, <1>8, <1>9 DEF IInv, fixedVars

LEMMA BeginCloseStep == ASSUME IInv, BeginClose PROVE IInv'
<1>1. /\ user = "open" /\ user' = "closing" /\ UNCHANGED <<fixedVars, got, answer, threadVars>>
      /\ Target' = Target
  BY DEF BeginClose, Ready, Target, fixedVars, threadVars
<1>2. CASE facade # "mirror" /\ Close(First) /\ UNCHANGED stop
  <2>1. /\ ReadersOK' /\ \A v \in Urls : Calm(reader[v], reader'[v])
        /\ \A v \in Urls \ {First} : reader'[v] = reader[v]
        /\ reader'[First].owner \in {"closing", "deleting", "gone"}
    BY <1>2, FirstType, CloseCalm DEF IInv
  <2>2. ClientTypeOK'
    BY <1>1, <1>2, <2>1 DEF IInv, ClientTypeOK, TypeOK, ReadersOK, fixedVars, threadVars
  <2>3. StreamOK'
    BY <1>1, <2>1, StreamKept DEF IInv, fixedVars
  <2>4. SingleOK'
    BY <1>1, <1>2, <2>1, FirstType DEF IInv, SingleOK, Owned, Dropped, First, threadVars
  <2> QED BY <1>1, <1>2, <2>1, <2>2, <2>3, <2>4 DEF IInv, fixedVars
<1>3. CASE facade = "mirror" /\ stop' = TRUE /\ UNCHANGED readerVars
  <2>1. ReadersOK' /\ reader' = reader /\ \A v \in Urls : Calm(reader[v], reader'[v])
    BY <1>3, NobodyMoves DEF IInv
  <2>2. ClientTypeOK'
    BY <1>1, <1>3, <2>1 DEF IInv, ClientTypeOK, TypeOK, ReadersOK, fixedVars, threadVars
  <2>3. StreamOK'
    BY <1>1, <2>1, StreamKept DEF IInv, fixedVars
  <2>4. SearchOK'
    <3>1. SearchOK
      BY <1>3 DEF IInv
    <3> QED BY <1>1, <1>3, <2>1, <3>1 DEF SearchOK, Owned, Dropped, threadVars
  <2> QED BY <1>1, <1>3, <2>1, <2>2, <2>3, <2>4 DEF IInv, fixedVars
<1> QED BY <1>2, <1>3 DEF BeginClose

LEMMA CloseMirrorStep == ASSUME IInv, CloseMirror PROVE IInv'
<1>1. /\ user = "closing" /\ user' = "releasing" /\ facade = "mirror" /\ mirrorPc = "ended"
      /\ UNCHANGED <<fixedVars, got, answer, threadVars, stop>> /\ Target' = Target /\ SearchOK
  BY DEF CloseMirror, Target, fixedVars, threadVars, IInv
<1>2. CASE http = Nobody
  <2>1. ReadersOK' /\ reader' = reader /\ \A v \in Urls : Calm(reader[v], reader'[v])
    BY <1>2, NobodyMoves DEF IInv, CloseMirror
  <2>2. ClientTypeOK'
    BY <1>1, <2>1 DEF IInv, ClientTypeOK, TypeOK, ReadersOK, fixedVars, threadVars
  <2>3. StreamOK'
    BY <1>1, <2>1, StreamKept DEF IInv, fixedVars
  <2>4. SearchOK'
    BY <1>1, <1>2, <2>1 DEF SearchOK, Owned, Dropped, threadVars
  <2> QED BY <1>1, <2>1, <2>2, <2>3, <2>4 DEF IInv, fixedVars
<1>3. CASE http # Nobody
  <2>0. http \in Urls /\ Close(http)
    BY <1>3 DEF IInv, ClientTypeOK, CloseMirror
  <2>1. /\ ReadersOK' /\ \A v \in Urls : Calm(reader[v], reader'[v])
        /\ \A v \in Urls \ {http} : reader'[v] = reader[v]
        /\ reader[http].owner = "open" /\ reader'[http].owner \in {"closing", "deleting", "gone"}
    BY <2>0, CloseCalm DEF IInv
  <2>2. ClientTypeOK'
    BY <1>1, <2>1 DEF IInv, ClientTypeOK, TypeOK, ReadersOK, fixedVars, threadVars
  <2>3. StreamOK'
    BY <1>1, <2>1, StreamKept DEF IInv, fixedVars
  <2>4. /\ \A v \in Urls : ~Owned(v)'
        /\ Dropped(http)'
        /\ \A v \in Urls : reader[v].owner = "gone" => reader'[v].owner = "gone"
    BY <1>1, <2>0, <2>1 DEF SearchOK, Owned, Dropped, threadVars
  <2>5. \A k \in 1..(Len(Mirrors) - Len(urls)) : Mirrors[k] \in Urls
    <3>1. urls \in Seq(Urls) /\ Mirrors \in Seq(Urls) /\ Len(urls) \in Nat
      BY MirrorsAssumption DEF IInv, ClientTypeOK
    <3> QED BY <3>1
  <2>6. SearchOK'
    BY <1>1, <1>3, <2>4, <2>5 DEF SearchOK, threadVars
  <2> QED BY <1>1, <2>1, <2>2, <2>3, <2>6 DEF IInv, fixedVars
<1> QED BY <1>2, <1>3

LEMMA EndCloseStep == ASSUME IInv, EndClose PROVE IInv'
<1>1. /\ user = (IF facade = "mirror" THEN "releasing" ELSE "closing") /\ user' = "closed"
      /\ UNCHANGED <<readerVars, fixedVars, got, answer, threadVars, stop>> /\ Target' = Target
  BY DEF EndClose, Target, fixedVars, threadVars
<1>2. ReadersOK' /\ reader' = reader /\ \A v \in Urls : Calm(reader[v], reader'[v])
  BY <1>1, NobodyMoves DEF IInv
<1>3. ClientTypeOK'
  BY <1>1, <1>2 DEF IInv, ClientTypeOK, TypeOK, ReadersOK, fixedVars, threadVars
<1>4. StreamOK'
  BY <1>1, <1>2, StreamKept DEF IInv, fixedVars
<1>5. CASE facade = "mirror"
  <2>1. SearchOK'
    <3>1. SearchOK BY <1>5 DEF IInv
    <3> QED BY <1>1, <1>2, <1>5, <3>1 DEF SearchOK, Owned, Dropped, threadVars
  <2> QED BY <1>1, <1>2, <1>3, <1>4, <1>5, <2>1 DEF IInv, fixedVars
<1>6. CASE facade # "mirror"
  <2>1. SingleOK'
    <3>1. SingleOK BY <1>6 DEF IInv
    <3> QED BY <1>1, <1>2, <1>6, <3>1 DEF SingleOK, Owned, Dropped, First, threadVars
  <2> QED BY <1>1, <1>2, <1>3, <1>4, <1>6, <2>1 DEF IInv, fixedVars
<1> QED BY <1>5, <1>6

-----------------------------------------------------------------------------
(* The steps of the mirror thread, which is there for a mirror reader only.*)

LEMMA MirrorRuns ==
  ASSUME IInv, mirrorPc # "none"
  PROVE  /\ facade = "mirror" /\ SearchOK /\ ReadersOK /\ ClientTypeOK /\ StreamOK
         /\ user # "new" /\ Target = http
         /\ urls \in Seq(Urls) /\ Len(urls) \in Nat
         /\ \A k \in 1..(Len(Mirrors) - Len(urls)) : Mirrors[k] \in Urls
         /\ mirrorPc \in {"create", "poll", "sleep", "decide", "quit", "drop"} =>
              trial \in Urls /\ trial # Nobody
         /\ mirrorPc # "ended" => http = Nobody
<1>1. facade = "mirror" /\ SearchOK /\ ClientTypeOK
  BY DEF IInv, SingleOK
<1>2. urls \in Seq(Urls) /\ Mirrors \in Seq(Urls) /\ Len(urls) \in Nat /\ Nobody \notin Urls
  BY <1>1, MirrorsAssumption DEF ClientTypeOK
<1>3. urls # << >> => Head(urls) \in Urls
  BY <1>2
<1>4. /\ user # "new"
      /\ mirrorPc \in {"create", "poll", "sleep", "decide", "quit", "drop"} =>
           urls # << >> /\ trial = Head(urls)
      /\ mirrorPc # "ended" => http = Nobody
  BY <1>1 DEF SearchOK
<1>5. \A k \in 1..(Len(Mirrors) - Len(urls)) : Mirrors[k] \in Urls
  BY <1>2
<1> QED BY <1>1, <1>2, <1>3, <1>4, <1>5 DEF IInv, Target

(* A step that only moves the thread keeps the streams.                    *)
LEMMA ThreadMoves ==
  ASSUME IInv, mirrorPc # "none", UNCHANGED <<readerVars, fixedVars, userVars, http, stop>>,
         urls' \in Seq(Urls), trial' \in Urls \cup {Nobody},
         mirrorPc' \in {"next", "create", "poll", "sleep", "decide", "quit", "drop", "ended"},
         gaveUp' \in BOOLEAN, timeout' \in BOOLEAN, late' \in BOOLEAN, SearchOK'
  PROVE  IInv'
<1>1. facade = "mirror" /\ Target' = Target
  BY MirrorRuns DEF Target, fixedVars
<1>2. ReadersOK' /\ reader' = reader /\ \A v \in Urls : Calm(reader[v], reader'[v])
  BY NobodyMoves DEF IInv
<1>3. ClientTypeOK'
  BY <1>2 DEF IInv, ClientTypeOK, TypeOK, ReadersOK, fixedVars, userVars
<1>4. StreamOK'
  BY <1>1, <1>2, StreamKept DEF IInv, fixedVars, userVars
<1> QED BY <1>1, <1>2, <1>3, <1>4 DEF IInv, fixedVars

LEMMA MirrorTryStep == ASSUME IInv, MirrorTry PROVE IInv'
<1>1. /\ mirrorPc = "next" /\ urls # << >> /\ Construct(Head(urls))
      /\ trial' = Head(urls) /\ mirrorPc' = "create"
      /\ UNCHANGED <<fixedVars, userVars, urls, http, gaveUp, stop, timeout, late>>
  BY DEF MirrorTry
<1>2. /\ facade = "mirror" /\ SearchOK /\ ReadersOK /\ ClientTypeOK /\ StreamOK
      /\ user # "new" /\ Target = http /\ http = Nobody
      /\ \A k \in 1..(Len(Mirrors) - Len(urls)) : Mirrors[k] \in Urls
      /\ trial' \in Urls
  BY <1>1, MirrorRuns, ClientTypes
<1>3. /\ ReadersOK' /\ \A v \in Urls : Calm(reader[v], reader'[v])
      /\ \A v \in Urls \ {trial'} : reader'[v] = reader[v]
      /\ reader[trial'].owner = "nobody" /\ reader'[trial'].owner \in {"constructing", "open"}
  BY <1>1, <1>2, ConstructCalm
<1>4. ClientTypeOK'
  BY <1>1, <1>2, <1>3 DEF ClientTypeOK, TypeOK, ReadersOK, fixedVars, userVars
<1>5. StreamOK' /\ Target' = Target
  <2>1. Target' = Target
    BY <1>1 DEF Target, fixedVars
  <2> QED BY <1>1, <1>2, <1>3, <2>1, StreamKept DEF fixedVars, userVars
<1>6. SearchOK'
  <2>1. \A v \in Urls : ~Owned(v)
    BY <1>1, <1>2 DEF SearchOK
  <2>2. \A v \in Urls : reader'[v].owner \in {"constructing", "open"} => v = trial'
    BY <1>3, <2>1 DEF Owned
  <2>3. \A v \in Urls : reader[v].owner = "gone" => reader'[v].owner = "gone"
    BY <1>3
  <2>4. \A k \in 1..(Len(Mirrors) - Len(urls)) : reader'[Mirrors[k]].owner = "gone"
    BY <1>2, <2>3 DEF SearchOK
  <2>5. /\ Len(Mirrors) - Len(urls) \in 0..Len(Mirrors) /\ ~gaveUp
        /\ urls = SubSeq(Mirrors, (Len(Mirrors) - Len(urls)) + 1, Len(Mirrors))
        /\ user \notin {"new", "releasing", "closed"}
    BY <1>1, <1>2 DEF SearchOK
  <2> QED BY <1>1, <1>2, <1>3, <2>2, <2>4, <2>5 DEF SearchOK, Owned, userVars, fixedVars
<1> QED BY <1>1, <1>2, <1>3, <1>4, <1>5, <1>6 DEF IInv, fixedVars

LEMMA MirrorCreatedStep == ASSUME IInv, MirrorCreated PROVE IInv'
<1>1. /\ mirrorPc = "create" /\ reader[trial].owner = "open" /\ mirrorPc' = "poll"
      /\ timeout' = FALSE /\ late' = FALSE /\ reader' = reader
      /\ UNCHANGED <<readerVars, fixedVars, userVars, urls, http, gaveUp, stop, trial>>
  BY DEF MirrorCreated, readerVars
<1>2. SearchOK /\ ClientTypeOK
  BY <1>1, MirrorRuns
<1>3. SearchOK'
  BY <1>1, <1>2 DEF SearchOK, Owned, Dropped, userVars, fixedVars
<1> QED BY <1>1, <1>2, <1>3, ThreadMoves DEF ClientTypeOK

LEMMA MirrorPollStep == ASSUME IInv, MirrorPoll PROVE IInv'
<1>1. /\ mirrorPc = "poll" /\ mirrorPc' \in {"sleep", "decide"} /\ reader' = reader
      /\ UNCHANGED <<readerVars, fixedVars, userVars, urls, http, gaveUp, stop, trial, timeout, late>>
  BY DEF MirrorPoll, readerVars
<1>2. SearchOK /\ ClientTypeOK
  BY <1>1, MirrorRuns
<1>3. SearchOK'
  BY <1>1, <1>2 DEF SearchOK, Owned, Dropped, userVars, fixedVars
<1> QED BY <1>1, <1>2, <1>3, ThreadMoves DEF ClientTypeOK

LEMMA MirrorSleepStep == ASSUME IInv, MirrorSleep PROVE IInv'
<1>1. /\ mirrorPc = "sleep" /\ mirrorPc' = "poll" /\ timeout' = (limited /\ late) /\ reader' = reader
      /\ UNCHANGED <<readerVars, fixedVars, userVars, urls, http, gaveUp, stop, trial, late>>
  BY DEF MirrorSleep, readerVars
<1>2. SearchOK /\ ClientTypeOK
  BY <1>1, MirrorRuns
<1>3. SearchOK'
  BY <1>1, <1>2 DEF SearchOK, Owned, Dropped, userVars, fixedVars
<1>4. timeout' \in BOOLEAN
  BY <1>1
<1> QED BY <1>1, <1>2, <1>3, <1>4, ThreadMoves DEF ClientTypeOK

LEMMA ClockStep == ASSUME IInv, Clock PROVE IInv'
<1>1. /\ mirrorPc \in {"poll", "sleep"} /\ late' = TRUE /\ reader' = reader
      /\ UNCHANGED <<readerVars, fixedVars, userVars, urls, http, gaveUp, stop, mirrorPc, trial, timeout>>
  BY DEF Clock, readerVars
<1>2. SearchOK /\ ClientTypeOK
  BY <1>1, MirrorRuns
<1>3. SearchOK'
  BY <1>1, <1>2 DEF SearchOK, Owned, Dropped, userVars, fixedVars
<1> QED BY <1>1, <1>2, <1>3, ThreadMoves DEF ClientTypeOK

(* The trial is dropped, or it becomes the mirror in use: what it has      *)
(* received by then is still in its buffer, and the program has got        *)
(* nothing yet.                                                            *)
LEMMA MirrorDecideStep == ASSUME IInv, MirrorDecide PROVE IInv'
<1>1. mirrorPc = "decide" /\ UNCHANGED <<fixedVars, userVars, urls, gaveUp, stop, trial, timeout, late>>
  BY DEF MirrorDecide
<1>2. /\ facade = "mirror" /\ SearchOK /\ ReadersOK /\ ClientTypeOK /\ StreamOK
      /\ user # "new" /\ Target = http /\ http = Nobody /\ trial \in Urls /\ trial # Nobody
      /\ \A k \in 1..(Len(Mirrors) - Len(urls)) : Mirrors[k] \in Urls
  BY <1>1, MirrorRuns
<1>3. CASE Close(trial) /\ mirrorPc' \in {"quit", "drop"} /\ UNCHANGED http
  <2>1. /\ ReadersOK' /\ \A v \in Urls : Calm(reader[v], reader'[v])
        /\ \A v \in Urls \ {trial} : reader'[v] = reader[v]
        /\ reader[trial].owner = "open" /\ reader'[trial].owner \in {"closing", "deleting", "gone"}
    BY <1>2, <1>3, CloseCalm
  <2>2. ClientTypeOK'
    BY <1>1, <1>2, <1>3, <2>1 DEF ClientTypeOK, TypeOK, ReadersOK, fixedVars, userVars
  <2>3. StreamOK'
    <3>1. Target' = Target
      BY <1>1, <1>3 DEF Target, fixedVars
    <3> QED BY <1>1, <1>2, <2>1, <3>1, StreamKept DEF fixedVars, userVars
  <2>4. SearchOK'
    <3>1. /\ \A v \in Urls : ~Owned(v)'
          /\ Dropped(trial)'
          /\ \A v \in Urls : reader[v].owner = "gone" => reader'[v].owner = "gone"
      BY <1>1, <1>2, <2>1 DEF SearchOK, Owned, Dropped
    <3> QED BY <1>1, <1>2, <1>3, <3>1 DEF SearchOK, userVars, fixedVars
  <2> QED BY <1>1, <1>2, <2>1, <2>2, <2>3, <2>4 DEF IInv, fixedVars
<1>4. CASE http' = trial /\ mirrorPc' = "ended" /\ UNCHANGED readerVars
  <2>1. ReadersOK' /\ reader' = reader /\ platform' = platform
    BY <1>2, <1>4, NobodyMoves
  <2>2. ClientTypeOK'
    BY <1>1, <1>2, <1>4, <2>1 DEF ClientTypeOK, TypeOK, ReadersOK, fixedVars, userVars
  <2>3. StreamOK'
    <3>1. Target' = trial /\ facade' = "mirror" /\ got' = got /\ answer' = answer
      BY <1>1, <1>2, <1>4 DEF Target, fixedVars, userVars
    <3>2. got = << >> /\ answer # 0 /\ \A u \in Urls : Len(reader[u].buffer) = reader[u].sent
      <4> HIDE DEF Target
      <4> QED BY <1>2, MirrorsAssumption DEF StreamOK
    <3>3. Len(reader[trial].buffer) \in Nat /\ Len(<< >>) = 0 /\ << >> = [k \in 1..0 |-> <<trial, k>>]
      BY <1>2, ReaderFields
    <3> HIDE DEF Target
    <3> QED BY <1>2, <2>1, <3>1, <3>2, <3>3 DEF StreamOK
  <2>4. SearchOK'
    BY <1>1, <1>2, <1>4, <2>1 DEF SearchOK, Owned, Dropped, userVars, fixedVars
  <2> QED BY <1>1, <1>2, <2>1, <2>2, <2>3, <2>4 DEF IInv, fixedVars
<1> QED BY <1>3, <1>4 DEF MirrorDecide

(* With the mirror that was tried the next one becomes the first of urls.  *)
LEMMA NextMirror ==
  ASSUME urls \in Seq(Urls), urls # << >>,
         Len(Mirrors) - Len(urls) \in 0..Len(Mirrors),
         urls = SubSeq(Mirrors, (Len(Mirrors) - Len(urls)) + 1, Len(Mirrors))
  PROVE  LET n == Len(Mirrors) - Len(urls)
             m == Len(Mirrors) - Len(Tail(urls)) IN
         /\ m = n + 1 /\ m \in 0..Len(Mirrors)
         /\ Tail(urls) = SubSeq(Mirrors, m + 1, Len(Mirrors))
         /\ Mirrors[m] = Head(urls) /\ m \in 1..Len(Mirrors)
<1> DEFINE n == Len(Mirrors) - Len(urls)
           N == Len(Mirrors)
<1>1. Mirrors \in Seq(Urls) /\ N \in Nat /\ Len(urls) \in Nat /\ Len(urls) > 0
  BY MirrorsAssumption
<1>2. n \in 0..N /\ n < N /\ Len(urls) = N - n /\ n + 1 \in 1..N
  BY <1>1
<1>3. Tail(urls) \in Seq(Urls) /\ Len(Tail(urls)) = Len(urls) - 1
      /\ Head(urls) = urls[1] /\ \A k \in 1..Len(Tail(urls)) : Tail(urls)[k] = urls[k + 1]
  BY <1>1
<1>4. \A k \in 1..Len(urls) : urls[k] = Mirrors[n + k]
  <2>1. urls = SubSeq(Mirrors, n + 1, N)
    OBVIOUS
  <2> HIDE DEF n, N
  <2>2. \A k \in 1..(N - (n + 1) + 1) : SubSeq(Mirrors, n + 1, N)[k] = Mirrors[n + 1 + k - 1]
    BY <1>1, <1>2
  <2> QED BY <1>1, <1>2, <2>1, <2>2
<1>5. Len(Mirrors) - Len(Tail(urls)) = n + 1
  BY <1>1, <1>2, <1>3
<1> DEFINE rest == SubSeq(Mirrors, (n + 1) + 1, N)
<1>6. rest \in Seq(Urls) /\ Len(rest) = N - (n + 1)
      /\ \A k \in 1..(N - (n + 1)) : rest[k] = Mirrors[(n + 1) + k]
  <2>1. n \in Nat /\ N \in Nat /\ n < N /\ Mirrors \in Seq(Urls) /\ N = Len(Mirrors)
    BY <1>1, <1>2
  <2> HIDE DEF n, N
  <2>2. rest \in Seq(Urls) /\ Len(rest) = N - (n + 1)
    BY <2>1
  <2>3. \A k \in 1..(N - (n + 1)) : rest[k] = Mirrors[((n + 1) + 1) + k - 1]
    BY <2>1
  <2>4. \A k \in 1..(N - (n + 1)) : ((n + 1) + 1) + k - 1 = (n + 1) + k
    BY <2>1
  <2> QED BY <2>2, <2>3, <2>4
<1>7. Tail(urls) = rest
  <2>1. Len(Tail(urls)) = Len(rest)
    BY <1>1, <1>2, <1>3, <1>6
  <2>2. ASSUME NEW k \in 1..Len(rest) PROVE Tail(urls)[k] = rest[k]
    <3>1. k + 1 \in 1..Len(urls) /\ n + (k + 1) = (n + 1) + k
      BY <1>1, <1>2, <1>6
    <3>2. Tail(urls)[k] = urls[k + 1] /\ urls[k + 1] = Mirrors[n + (k + 1)]
      BY <1>3, <1>4, <2>1, <3>1
    <3> QED BY <1>6, <3>1, <3>2
  <2> HIDE DEF rest
  <2> QED BY <1>3, <1>6, <2>1, <2>2
<1>8. Mirrors[n + 1] = Head(urls)
  <2>1. urls[1] = Mirrors[n + 1]
    <3>1. 1 \in 1..Len(urls)
      BY <1>1
    <3> HIDE DEF n
    <3> QED BY <1>4, <3>1
  <2> QED BY <1>3, <2>1
<1> HIDE DEF n, N, rest
<1>9. n + 1 \in 0..N
  BY <1>1, <1>2
<1> QED BY <1>2, <1>5, <1>7, <1>8, <1>9 DEF n, N, rest

LEMMA MirrorDeletedStep ==
  ASSUME IInv, mirrorPc \in {"quit", "drop"} /\ MirrorDeleted PROVE IInv'
<1>1. /\ mirrorPc \in {"quit", "drop"} /\ reader[trial].owner = "gone" /\ reader' = reader
      /\ UNCHANGED <<readerVars, fixedVars, userVars, http, gaveUp, stop, trial, timeout, late>>
  BY DEF MirrorDeleted, readerVars
<1>2. /\ SearchOK /\ ClientTypeOK /\ user # "new" /\ http = Nobody /\ urls \in Seq(Urls)
      /\ trial \in Urls
  BY <1>1, MirrorRuns
<1>3. \A u \in Urls : ~Owned(u)
  BY <1>1, <1>2 DEF SearchOK
<1>4. CASE mirrorPc = "quit" /\ mirrorPc' = "ended" /\ UNCHANGED urls
  <2>1. SearchOK'
    BY <1>1, <1>2, <1>3, <1>4 DEF SearchOK, Owned, Dropped, userVars, fixedVars
  <2> QED BY <1>1, <1>2, <1>4, <2>1, ThreadMoves DEF ClientTypeOK
<1>5. CASE mirrorPc = "drop" /\ mirrorPc' = "next" /\ urls' = Tail(urls)
  <2> DEFINE n == Len(Mirrors) - Len(urls)
             m == Len(Mirrors) - Len(Tail(urls))
  <2>1. urls # << >> /\ trial = Head(urls)
    BY <1>2, <1>5 DEF SearchOK
  <2>2. /\ m = n + 1 /\ m \in 0..Len(Mirrors) /\ Mirrors[m] = trial
        /\ urls' = SubSeq(Mirrors, m + 1, Len(Mirrors)) /\ n \in 0..Len(Mirrors)
    BY <1>2, <1>5, <2>1, NextMirror DEF SearchOK
  <2>3. \A k \in 1..m : reader'[Mirrors[k]].owner = "gone"
    <3>1. \A k \in 1..n : reader[Mirrors[k]].owner = "gone"
      BY <1>2 DEF SearchOK
    <3>2. n \in Nat
      BY <2>2
    <3> HIDE DEF n, m
    <3>3. ASSUME NEW k \in 1..m, k # m PROVE k \in 1..n
      BY <2>2, <3>2, <3>3
    <3> QED BY <1>1, <2>2, <3>1, <3>3
  <2>4. Len(Mirrors) - Len(urls') = m
    BY <1>5
  <2>5. SearchOK'
    <3> HIDE DEF m
    <3> QED BY <1>1, <1>2, <1>3, <1>5, <2>2, <2>3, <2>4 DEF SearchOK, Owned, userVars, fixedVars
  <2>6. urls' \in Seq(Urls)
    BY <1>2, <1>5, <2>1
  <2> QED BY <1>1, <1>2, <1>5, <2>5, <2>6, ThreadMoves DEF ClientTypeOK
<1> QED BY <1>4, <1>5 DEF MirrorDeleted

LEMMA MirrorGivesUpStep == ASSUME IInv, MirrorGivesUp PROVE IInv'
<1>1. /\ mirrorPc = "next" /\ urls = << >> /\ gaveUp' = TRUE /\ mirrorPc' = "ended" /\ reader' = reader
      /\ UNCHANGED <<readerVars, fixedVars, userVars, urls, http, stop, trial, timeout, late>>
  BY DEF MirrorGivesUp, readerVars
<1>2. SearchOK /\ ClientTypeOK /\ http = Nobody /\ user # "new"
  BY <1>1, MirrorRuns
<1>3. SearchOK'
  BY <1>1, <1>2 DEF SearchOK, Owned, Dropped, userVars, fixedVars
<1> QED BY <1>1, <1>2, <1>3, ThreadMoves DEF ClientTypeOK

-----------------------------------------------------------------------------
LEMMA NativeStepStep == ASSUME IInv, NativeStep PROVE IInv'
<1>1. PICK u \in Urls : /\ ReaderLocalStep(u) \/ NetworkStep(u)
                        /\ UNCHANGED <<fixedVars, userVars, threadVars, stop>>
  BY DEF NativeStep
<1>2. PICK s : ReaderOK(u, s) /\ Update(u, s) /\ Native(reader[u], s)
  BY <1>1, NativeGives DEF IInv
<1> QED BY <1>1, <1>2, NativeCalm, QuietStep DEF IInv

LEMMA Inductive == IInv /\ [Next]_vars => IInv'
<1> SUFFICES ASSUME IInv, [Next]_vars PROVE IInv'
  OBVIOUS
<1>1. CASE UNCHANGED vars
  <2>1. UNCHANGED <<fixedVars, userVars, threadVars, stop>> /\ UNCHANGED readerVars
    BY <1>1 DEF vars, fixedVars, userVars, threadVars
  <2> QED BY <2>1, NobodyMoves, QuietStep DEF IInv
<1>2. CASE MirrorStep
  BY <1>2, MirrorTryStep, MirrorCreatedStep, MirrorPollStep, MirrorSleepStep, ClockStep,
     MirrorDecideStep, MirrorDeletedStep, MirrorGivesUpStep DEF MirrorStep
<1>3. CASE Open \/ (\E n \in 1..MaxPieces : PullData(n)) \/ Download \/ BeginClose \/ CloseMirror \/ EndClose
  BY <1>3, OpenStep, PullDataStep, DownloadStep, BeginCloseStep, CloseMirrorStep, EndCloseStep
<1> QED BY <1>1, <1>2, <1>3, NativeStepStep DEF Next

LEMMA Invariant == Spec => []IInv
BY InitIInv, Inductive, PTL DEF Spec

(* A reader outlives its owner and its thread, whoever of the two lets go  *)
(* last deletes it, and it is deleted once (unref, ~WinHttpReader).        *)
THEOREM ReadersLiveOnce == Spec => []Lifetime
<1>1. IInv => Lifetime
  <2> SUFFICES ASSUME IInv, NEW u \in Urls
               PROVE  LET r == reader[u] IN
                      /\ OwnerIn(r) \/ ThreadIn(r) \/ r.owner = "closing" => r.freed = 0
                      /\ r.freed <= 1
                      /\ r.owner = "gone" /\ r.thread \in {"none", "ended"} => r.freed = 1
    BY DEF Lifetime
  <2>1. IF platform = "unix" THEN UnixCounted(reader[u]) ELSE WinCounted(reader[u])
    BY ReaderFields DEF IInv, ReaderOK
  <2>2. CASE UnixCounted(reader[u])
    <3>1. /\ reader[u].refs \in Nat
          /\ reader[u].refs = (IF reader[u].owner = "open" THEN 1 ELSE 0)
                              + (IF ThreadIn(reader[u]) THEN 1 ELSE 0)
      BY <2>2, ReaderFields DEF IInv, UnixCounted, Reader
    <3> QED BY <2>2 DEF UnixCounted, OwnerIn, ThreadIn
  <2>3. CASE WinCounted(reader[u])
    BY <2>3 DEF WinCounted, OwnerIn, ThreadIn
  <2> QED BY <2>1, <2>2, <2>3
<1> QED BY <1>1, Invariant, PTL

(* The program gets the beginning of the file of one mirror, in order and  *)
(* without a gap, and what it is told to be the end is the end, although   *)
(* the thread writes while it pulls (pullData, StdHttpReader::download).   *)
THEOREM DataComesInOrder == Spec => []DataInOrder
<1>1. IInv => DataInOrder
  <2> SUFFICES ASSUME IInv PROVE DataInOrder
    OBVIOUS
  <2> DEFINE mine == IF got = << >> THEN Target ELSE got[1][1]
  <2>1. got \in Seq(Urls \X Nat) /\ got = [k \in 1..Len(got) |-> <<Target, k>>]
    BY DEF IInv, ClientTypeOK, StreamOK
  <2>2. mine = Target
    <3>1. ASSUME got # << >> PROVE got[1] = <<Target, 1>>
      <4> HIDE DEF Target
      <4>1. 1 \in 1..Len(got)
        BY <2>1, <3>1
      <4> QED BY <2>1, <4>1
    <3> HIDE DEF Target
    <3> QED BY <3>1
  <2>3. answer = 0 => Target # Nobody /\ reader[Target].status = "done" /\ Len(got) = reader[Target].sent
    <3>1. CASE facade = "download"
      <4>1. Target = First /\ Target # Nobody
        BY <3>1, TargetType DEF IInv
      <4> HIDE DEF Target
      <4> QED BY <3>1, <4>1 DEF IInv, StreamOK
    <3>2. CASE facade # "download" /\ answer = 0
      <4>1. /\ Target # Nobody /\ Len(got) + Len(reader[Target].buffer) = reader[Target].sent
            /\ reader[Target].status = "done" /\ reader[Target].buffer = << >>
        BY <3>2 DEF IInv, StreamOK
      <4>2. Len(got) \in Nat /\ Len(<< >>) = 0
        BY <2>1
      <4> HIDE DEF Target
      <4> QED BY <4>1, <4>2
    <3> QED BY <3>1, <3>2
  <2> HIDE DEF Target
  <2> QED BY <2>1, <2>2, <2>3 DEF DataInOrder
<1> QED BY <1>1, Invariant, PTL

(* At any time at most one reader has an owner, which the program or the   *)
(* mirror thread knows and will delete; after the program has closed none  *)
(* has; and there is no mirror only when every one was tried and let go.   *)
THEOREM NoReaderGetsLost == Spec => []NoReaderLost
<1>1. IInv => NoReaderLost
  <2> SUFFICES ASSUME IInv PROVE NoReaderLost
    OBVIOUS
  <2> DEFINE owned == {u \in Urls : reader[u].owner \in {"constructing", "open"}}
             known == {Target} \cup (IF mirrorPc \in {"create", "poll", "sleep", "decide"} THEN {trial} ELSE {})
  <2>0. ClientTypeOK /\ ReadersOK
    BY DEF IInv
  <2>1. CASE facade = "mirror"
    <3>1. SearchOK /\ Target = http
      BY <2>1 DEF IInv, Target
    <3>2. owned \subseteq known
      BY <2>0, <3>1 DEF SearchOK, Owned, ClientTypeOK
    <3>3. user = "closed" => owned = {}
      <4> SUFFICES ASSUME user = "closed", NEW u \in Urls, Owned(u) PROVE FALSE
        BY DEF Owned
      <4>1. u = http /\ http # Nobody
        BY <3>1, MirrorsAssumption DEF SearchOK
      <4> QED BY <3>1, <4>1 DEF SearchOK, Owned, Dropped
    <3>4. http # Nobody => http \in Urls /\ (user \in {"open", "closing", "releasing", "closed"})
      BY <2>0, <3>1 DEF SearchOK, ClientTypeOK
    <3>5. http # Nobody => reader[http].owner # "nobody" /\ (user = "open" => http \in owned)
      BY <3>1, <3>4 DEF SearchOK, Dropped
    <3>6. gaveUp => /\ http = Nobody
                    /\ \A k \in DOMAIN Mirrors : reader[Mirrors[k]].owner \in {"gone", "deleting"}
      <4>1. ASSUME gaveUp PROVE http = Nobody /\ urls = << >>
        BY <3>1, <4>1 DEF SearchOK
      <4>2. ASSUME urls = << >> PROVE \A k \in DOMAIN Mirrors : reader[Mirrors[k]].owner = "gone"
        <5>1. Len(Mirrors) \in Nat /\ DOMAIN Mirrors = 1..Len(Mirrors) /\ Len(Mirrors) - Len(urls) = Len(Mirrors)
          BY <4>2, MirrorsAssumption
        <5> QED BY <3>1, <5>1 DEF SearchOK
      <4> QED BY <4>1, <4>2
    <3> HIDE DEF owned, known
    <3> QED BY <2>0, <3>2, <3>3, <3>5, <3>6 DEF NoReaderLost, owned, known
  <2>2. CASE facade # "mirror"
    <3>1. SingleOK /\ Target = First /\ First \in Urls
      BY <2>2, FirstType DEF IInv, Target
    <3>2. owned \subseteq {First}
      BY <3>1 DEF SingleOK
    <3>3. user = "closed" => owned = {}
      BY <3>1, <3>2 DEF SingleOK, Dropped
    <3> HIDE DEF First
    <3> QED BY <2>0, <3>1, <3>2, <3>3 DEF NoReaderLost, SingleOK
  <2> QED BY <2>1, <2>2
<1> QED BY <1>1, Invariant, PTL
=============================================================================
