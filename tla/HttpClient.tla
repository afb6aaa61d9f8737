----------------------------- MODULE HttpClient -----------------------------
(***************************************************************************)
(* The users of the native HTTP readers: a program that opens one reader   *)
(* and pulls its data, StdHttpReader::download, and MirrorHttpReader with  *)
(* its thread that tries one mirror after the other.  The program calls    *)
(* one object of one of these kinds.                                       *)
(***************************************************************************)
EXTENDS HttpReader

CONSTANTS
    Mirrors,     \* the list of mirrors; the first is the URL of a single reader
    Nobody       \* no reader

ASSUME MirrorsAssumption == Mirrors \in Seq(Urls) /\ Len(Mirrors) > 0 /\ Nobody \notin Urls

VARIABLES
    facade,      \* "std", "download" or "mirror"; never changes
    limited,     \* whether a mirror has a limited time to connect; never changes
    user,        \* where the program is
    got,         \* the data it has received
    answer,      \* the last result of pullData
    urls,        \* MirrorHttpReader: the mirrors left
    http,        \* MirrorHttpReader: the mirror that is used for downloading
    gaveUp,      \* MirrorHttpReader: status is HTTP_READER_ERROR
    stop,        \* its thread: stop
    mirrorPc,    \* its thread: where it is
    trial,       \* its thread: the local http
    timeout,     \* its thread: the local timeout
    late         \* whether the time for the trial is over

userVars   == <<user, got, answer>>
threadVars == <<urls, http, gaveUp, mirrorPc, trial, timeout, late>>
fixedVars  == <<facade, limited>>
vars == <<readerVars, facade, limited, user, got, answer, urls, http, gaveUp, stop, mirrorPc, trial,
          timeout, late>>

Init ==
    /\ ReaderInit
    /\ facade \in {"std", "download", "mirror"} /\ limited \in BOOLEAN
    /\ user = "new" /\ got = << >> /\ answer = -1
    /\ urls = Mirrors /\ http = Nobody /\ gaveUp = FALSE /\ stop = FALSE
    /\ mirrorPc = "none" /\ trial = Nobody /\ timeout = FALSE /\ late = FALSE

First == Mirrors[1]

-----------------------------------------------------------------------------
(* The reader the program calls: its own, or the mirror in use.            *)
Target == IF facade = "mirror" THEN http ELSE First

(* getStatus of the object the program has *)
Status ==
    IF Target # Nobody THEN reader[Target].status
    ELSE IF gaveUp THEN "error" ELSE "connecting"

(* StdHttpReader::create, or the constructor of MirrorHttpReader *)
Open ==
    /\ user = "new"
    /\ user' = "open"
    /\ \/ /\ facade # "mirror" /\ Construct(First)
          /\ UNCHANGED mirrorPc
       \/ /\ facade = "mirror" /\ mirrorPc' = "next"
          /\ UNCHANGED readerVars
    /\ UNCHANGED <<fixedVars, got, answer, urls, http, gaveUp, stop, trial, timeout, late>>

Ready == user = "open" /\ (facade # "mirror" => reader[First].owner = "open")

(* pullData with a buffer of n pieces, once getStatus has said that there  *)
(* is a connection.                                                        *)
PullData(n) ==
    /\ Ready /\ facade # "download" /\ Status # "connecting" /\ answer \notin {0, -2}
    /\ IF Target = Nobody
       THEN answer' = -2 /\ UNCHANGED <<readerVars, got>>
       ELSE /\ Pull(Target, n)
            /\ answer' = PullResult(reader[Target], n)
            /\ got' = got \o PulledData(reader[Target], n)
    /\ UNCHANGED <<fixedVars, user, threadVars, stop>>

(* StdHttpReader::download polls until the end, and takes a copy of the    *)
(* whole buffer.                                                           *)
Download ==
    /\ Ready /\ facade = "download" /\ answer = -1
    /\ \/ Status = "done"  /\ answer' = 0  /\ got' = reader[First].buffer
       \/ Status = "error" /\ answer' = -2 /\ UNCHANGED got
    /\ UNCHANGED <<readerVars, fixedVars, user, threadVars, stop>>

(* The destructors.  download() comes to the one of its local reader only  *)
(* at the end; other programs cancel when they like.                       *)
BeginClose ==
    /\ Ready /\ (facade = "download" => answer # -1)
    /\ user' = "closing"
    /\ \/ /\ facade # "mirror" /\ Close(First)
          /\ UNCHANGED stop
       \/ /\ facade = "mirror" /\ stop' = TRUE
          /\ UNCHANGED readerVars
    /\ UNCHANGED <<fixedVars, got, answer, threadVars>>

(* ~MirrorHttpReader deletes the mirror after its thread has ended. *)
CloseMirror ==
    /\ user = "closing" /\ facade = "mirror" /\ mirrorPc = "ended"
    /\ user' = "releasing"
    /\ IF http = Nobody THEN UNCHANGED readerVars ELSE Close(http)
    /\ UNCHANGED <<fixedVars, got, answer, threadVars, stop>>

EndClose ==
    /\ user = IF facade = "mirror" THEN "releasing" ELSE "closing"
    /\ Target # Nobody => reader[Target].owner = "gone"
    /\ user' = "closed"
    /\ UNCHANGED <<readerVars, fixedVars, got, answer, threadVars, stop>>

-----------------------------------------------------------------------------
(* _MirrorHttpReaderPrivate::threadEntry                                   *)

MirrorTry ==
    /\ mirrorPc = "next" /\ urls # << >>
    /\ Construct(Head(urls))
    /\ trial' = Head(urls) /\ mirrorPc' = "create"
    /\ UNCHANGED <<fixedVars, userVars, urls, http, gaveUp, stop, timeout, late>>

(* beginTime is read when the constructor has returned. *)
MirrorCreated ==
    /\ mirrorPc = "create" /\ reader[trial].owner = "open"
    /\ mirrorPc' = "poll" /\ timeout' = FALSE /\ late' = FALSE
    /\ UNCHANGED <<readerVars, fixedVars, userVars, urls, http, gaveUp, stop, trial>>

(* Mutated form of MirrorPoll: stop is not looked at.                      *)
MirrorPollOn ==
    /\ mirrorPc = "poll"
    /\ mirrorPc' = IF reader[trial].status = "connecting" /\ ~timeout THEN "sleep" ELSE "decide"
    /\ UNCHANGED <<readerVars, fixedVars, userVars, urls, http, gaveUp, stop, trial, timeout, late>>

MirrorPoll ==
    /\ mirrorPc = "poll"
    /\ mirrorPc' = IF reader[trial].status = "connecting" /\ ~stop /\ ~timeout
                   THEN "sleep" ELSE "decide"
    /\ UNCHANGED <<readerVars, fixedVars, userVars, urls, http, gaveUp, stop, trial, timeout, late>>

MirrorSleep ==
    /\ mirrorPc = "sleep"
    /\ mirrorPc' = "poll" /\ timeout' = (limited /\ late)
    /\ UNCHANGED <<readerVars, fixedVars, userVars, urls, http, gaveUp, stop, trial, late>>

Clock ==
    /\ mirrorPc \in {"poll", "sleep"} /\ ~late
    /\ late' = TRUE
    /\ UNCHANGED <<readerVars, fixedVars, userVars, urls, http, gaveUp, stop, mirrorPc, trial, timeout>>

(* Mutated form of MirrorDecide: a mirror taken for downloading after the  *)
(* program has cancelled is forgotten.                                     *)
MirrorDecideForget ==
    /\ mirrorPc = "decide"
    /\ \/ /\ stop /\ mirrorPc' = "ended"
          /\ UNCHANGED <<readerVars, http>>
       \/ /\ ~stop /\ (reader[trial].status = "error" \/ timeout)
          /\ Close(trial) /\ mirrorPc' = "drop"
          /\ UNCHANGED http
       \/ /\ ~stop /\ reader[trial].status # "error" /\ ~timeout
          /\ http' = trial /\ mirrorPc' = "ended"
          /\ UNCHANGED readerVars
    /\ UNCHANGED <<fixedVars, userVars, urls, gaveUp, stop, trial, timeout, late>>

(* A mirror whose time was over when it was last looked at is dropped even *)
(* if it is connected by now.                                              *)
MirrorDecide ==
    /\ mirrorPc = "decide"
    /\ \/ /\ stop /\ Close(trial) /\ mirrorPc' = "quit"
          /\ UNCHANGED http
       \/ /\ ~stop /\ (reader[trial].status = "error" \/ timeout)
          /\ Close(trial) /\ mirrorPc' = "drop"
          /\ UNCHANGED http
       \/ /\ ~stop /\ reader[trial].status # "error" /\ ~timeout
          /\ http' = trial /\ mirrorPc' = "ended"
          /\ UNCHANGED readerVars
    /\ UNCHANGED <<fixedVars, userVars, urls, gaveUp, stop, trial, timeout, late>>

(* delete http has returned. *)
MirrorDeleted ==
    /\ reader[trial].owner = "gone"
    /\ \/ /\ mirrorPc = "quit" /\ mirrorPc' = "ended"
          /\ UNCHANGED urls
       \/ /\ mirrorPc = "drop" /\ mirrorPc' = "next" /\ urls' = Tail(urls)
    /\ UNCHANGED <<readerVars, fixedVars, userVars, http, gaveUp, stop, trial, timeout, late>>

MirrorGivesUp ==
    /\ mirrorPc = "next" /\ urls = << >>
    /\ gaveUp' = TRUE /\ mirrorPc' = "ended"
    /\ UNCHANGED <<readerVars, fixedVars, userVars, urls, http, stop, trial, timeout, late>>

-----------------------------------------------------------------------------
MirrorStep ==
    \/ MirrorTry \/ MirrorCreated \/ MirrorPoll \/ MirrorSleep \/ Clock \/ MirrorDecide
    \/ MirrorGivesUp \/ (mirrorPc \in {"quit", "drop"} /\ MirrorDeleted)

NativeStep == \E u \in Urls :
    /\ ReaderLocalStep(u) \/ NetworkStep(u)
    /\ UNCHANGED <<fixedVars, userVars, threadVars, stop>>

Next ==
    \/ Open \/ (\E n \in 1..MaxPieces : PullData(n)) \/ Download \/ BeginClose
    \/ CloseMirror \/ EndClose \/ MirrorStep \/ NativeStep

Spec == Init /\ [][Next]_vars

(* Threads run; the clock goes on; a program that has begun a destructor   *)
(* ends it.  Nothing is assumed of the network, nor that the program pulls *)
(* or closes.                                                              *)
Fairness ==
    /\ WF_vars(MirrorTry \/ MirrorCreated \/ MirrorDecide \/ MirrorGivesUp)
    /\ WF_vars(MirrorPoll) /\ WF_vars(MirrorSleep) /\ WF_vars(Clock)
    /\ WF_vars(mirrorPc \in {"quit", "drop"} /\ MirrorDeleted)
    /\ WF_vars(CloseMirror) /\ WF_vars(EndClose)
    /\ \A u \in Urls :
          WF_vars(ReaderLocalStep(u) /\ UNCHANGED <<fixedVars, userVars, threadVars, stop>>)

FairSpec == Spec /\ Fairness

-----------------------------------------------------------------------------
ClientTypeOK ==
    /\ TypeOK
    /\ user \in {"new", "open", "closing", "releasing", "closed"}
    /\ got \in Seq(Urls \X Nat) /\ answer \in -2..MaxPieces
    /\ urls \in Seq(Urls) /\ http \in Urls \cup {Nobody} /\ trial \in Urls \cup {Nobody}
    /\ mirrorPc \in {"none", "next", "create", "poll", "sleep", "decide", "quit", "drop", "ended"}
    /\ {limited, gaveUp, stop, timeout, late} \subseteq BOOLEAN

(* What the program has got is the beginning of the file of one mirror, in *)
(* order and without a gap, and what pullData or download call the end is  *)
(* the end: nothing sent is left in the buffer or arrives later.           *)
DataInOrder ==
    LET mine == IF got = << >> THEN Target ELSE got[1][1] IN
    /\ got = [k \in 1..Len(got) |-> <<mine, k>>]
    /\ got # << >> => mine = Target
    /\ answer = 0 => Target # Nobody /\ reader[Target].status = "done" /\ Len(got) = reader[Target].sent

(* No reader is lost: at any time at most one has an owner, and it is the  *)
(* one the program or the mirror thread still knows and will delete; once  *)
(* the program has closed, there is none.  The mirror reader says that     *)
(* there is no mirror only when it has tried every one and let go of it    *)
(* (the type invariant, which the rest needs, is part of it).              *)
NoReaderLost ==
    LET owned == {u \in Urls : reader[u].owner \in {"constructing", "open"}}
        known == {Target} \cup (IF mirrorPc \in {"create", "poll", "sleep", "decide"} THEN {trial} ELSE {})
    IN
    /\ ClientTypeOK
    /\ owned \subseteq known
    /\ user = "closed" => owned = {}
    /\ http # Nobody => reader[http].owner # "nobody" /\ (user = "open" => http \in owned)
    /\ gaveUp => /\ http = Nobody
                 /\ \A k \in DOMAIN Mirrors : reader[Mirrors[k]].owner \in {"gone", "deleting"}

(* Destructors return, whatever the network does: the Unix reader leaves   *)
(* its thread alone, and the Win32 one makes its thread fail.              *)
CloseReturns == user = "closing" ~> user = "closed"

(* With a time limit the search for a mirror ends, even if no server ever  *)
(* answers or no thread can be created.                                    *)
SearchEnds == limited /\ mirrorPc = "next" ~> mirrorPc = "ended"

(* Both: no destructor and no limited search waits for ever.               *)
NothingHangs == CloseReturns /\ SearchEnds
=============================================================================
