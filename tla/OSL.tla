-------------------------------- MODULE OSL --------------------------------
(***************************************************************************)
(* The OSL library of src/srcXS at work: a program connects a socket,      *)
(* wraps its output stream in a BufferedOutputStream and this in the       *)
(* thread-safe stream, and shares the result with a Thread by a Pointer.   *)
(* Both threads write, flush, close and let go of things in any order.     *)
(*                                                                         *)
(* Calls, destructors and stack unwinding are kept in todo: each thread    *)
(* has a sequence of the operations it still has to do.  A step does the   *)
(* first one, which may put others in front of the rest.  One atomic       *)
(* counter operation, one lock or unlock and one system call is a step, so *)
(* that the threads interleave between them.                               *)
(***************************************************************************)
EXTENDS Integers, Sequences

CONSTANTS
    main, worker,  \* the two threads
    Nobody,        \* no thread
    Platforms,     \* the builds considered: "unix", "win32"
    Sizes,         \* the sizes the BufferedOutputStream may be made with
    MaxBytes       \* bound: bytes the program writes

ASSUME OSLAssumption ==
    /\ main # worker /\ Nobody \notin {main, worker}
    /\ Sizes \subseteq Nat \ {0} /\ MaxBytes \in Nat

Threads == {main, worker}
Counted == {"sock", "in", "out", "buf", "safe", "impl"}   \* OSL::Object's
Things  == Counted \cup {"shared", "runnable", "thread"}

VARIABLES
    platform,   \* the build; never changes
    refs,       \* refcount of each Object and of the Pointer's shared data
    made,       \* what exists or has existed
    freed,      \* history: how often each was deleted
    holds,      \* the references and pointers the program itself still has
    todo,       \* the operations each thread has to do
    run,        \* the worker: "none", "failed", "running", "leaving", "ended", "joined"
    detached,   \* the Thread is detached
    aborted,    \* an exception has left a function declared throw()
    mutex,      \* the owner of the mutex of the thread-safe stream
    buffer,     \* BufferedOutputStream: the first count bytes of buffer
    wrapped,    \* BufferedOutputStream: stream is not NULL
    maxsize,    \* BufferedOutputStream
    closed,     \* streams of the socket that are closed
    fd,         \* what the descriptor stands for: "ours", "nothing", "another"
    shut,       \* directions of the connection that are shut down
    written,    \* history: bytes accepted from the program, in order: 1..written
    sent,       \* history: bytes sent over the connection
    stray,      \* history: bytes were sent over another connection
    lossy       \* history: a send has failed, or has not taken everything

streamVars == <<buffer, wrapped, maxsize, closed, fd, shut, written, sent, stray, lossy>>
objectVars == <<refs, made, freed, holds>>
vars == <<platform, objectVars, todo, run, detached, aborted, mutex, streamVars>>

Init ==
    /\ platform \in Platforms
    /\ refs = [o \in Counted \cup {"shared"} |-> 0]
    /\ made = {} /\ freed = [x \in Things |-> 0]
    /\ holds = [t \in Threads |-> {}]
    /\ todo = [t \in Threads |-> << >>]
    /\ run = "none" /\ detached = FALSE /\ aborted = FALSE /\ mutex = Nobody
    /\ buffer = << >> /\ wrapped = FALSE /\ maxsize = 0 /\ closed = {}
    /\ fd = "nothing" /\ shut = {}
    /\ written = 0 /\ sent = << >> /\ stray = FALSE /\ lossy = FALSE

Op(name, arg) == [op |-> name, arg |-> arg]

-----------------------------------------------------------------------------
(* The steps of a thread.  Doing(t, name) is the guard of the step for an  *)
(* operation; Then(t, ops) replaces the operation by others.               *)
Doing(t, name) == ~aborted /\ todo[t] # << >> /\ Head(todo[t]).op = name
Arg(t) == Head(todo[t]).arg
Then(t, ops) == todo' = [todo EXCEPT ![t] = ops \o Tail(@)]

(* Stack unwinding: the rest of the operation is dropped, but for the      *)
(* MutexLocker on the way.  In a destructor, before the memory is freed,   *)
(* the exception meets unref, which is declared throw(): the program ends. *)
Has(t, name) == \E k \in DOMAIN todo[t] : todo[t][k].op = name
Throw(t) ==
    /\ aborted' = Has(t, "free")
    /\ todo' = [todo EXCEPT ![t] = IF Has(t, "unlock") THEN <<Op("unlock", "safe")>> ELSE << >>]

(* Mutated form of Destructor: the wrapper deletes what it wraps.          *)
DestructorOwning(o) ==
    CASE o = "sock" -> <<Op("close", "in"), Op("unref", "in"), Op("close", "out"), Op("unref", "out"), Op("closefd", o)>>
      [] o = "buf"  -> <<Op("bufclose", o)>>
      [] o = "safe" -> <<Op("bufclose", "buf"), Op("free", "buf")>>
      [] OTHER      -> << >>

(* Mutated form of Destructor: the socket's streams stay.                  *)
DestructorLeaking(o) ==
    CASE o = "sock" -> <<Op("close", "in"), Op("close", "out"), Op("closefd", o)>>
      [] o = "buf"  -> <<Op("bufclose", o)>>
      [] o = "safe" -> <<Op("unref", "buf")>>
      [] OTHER      -> << >>

(* What the destructors do before the memory goes. *)
Destructor(o) ==
    CASE o = "sock" -> <<Op("close", "in"), Op("unref", "in"), Op("close", "out"), Op("unref", "out"), Op("closefd", o)>>
      [] o = "buf"  -> <<Op("bufclose", o)>>
      [] o = "safe" -> <<Op("unref", "buf")>>
      [] OTHER      -> << >>

(* What unref does to an object whose count was n. *)
AfterUnref(o, n) == IF n = 1 THEN Destructor(o) \o <<Op("free", o)>> ELSE << >>

(* Object::unref and Atomic::decrement: the count goes down in one step,   *)
(* and the one who brings it to zero deletes.                              *)
Unref(t) ==
    LET o == Arg(t) IN
    /\ Doing(t, "unref")
    /\ refs' = [refs EXCEPT ![o] = @ - 1]
    /\ Then(t, AfterUnref(o, refs[o]))
    /\ UNCHANGED <<platform, made, freed, holds, run, detached, aborted, mutex, streamVars>>

(* Pointer::dereferenceCurrent: the last smart pointer takes its reference *)
(* to the object away, and then its shared data.                           *)
Dereference(t) ==
    /\ Doing(t, "deref")
    /\ refs' = [refs EXCEPT !["shared"] = @ - 1]
    /\ Then(t, IF refs["shared"] = 1 THEN <<Op("unref", "safe"), Op("free", "shared")>> ELSE << >>)
    /\ UNCHANGED <<platform, made, freed, holds, run, detached, aborted, mutex, streamVars>>

Free(t) ==
    /\ Doing(t, "free")
    /\ freed' = [freed EXCEPT ![Arg(t)] = @ + 1]
    /\ Then(t, << >>)
    /\ UNCHANGED <<platform, refs, made, holds, run, detached, aborted, mutex, streamVars>>

(* MutexLocker *)
Lock(t) ==
    /\ Doing(t, "lock") /\ mutex = Nobody
    /\ mutex' = t /\ Then(t, << >>)
    /\ UNCHANGED <<platform, objectVars, run, detached, aborted, streamVars>>

Unlock(t) ==
    /\ Doing(t, "unlock")
    /\ mutex' = Nobody /\ Then(t, << >>)
    /\ UNCHANGED <<platform, objectVars, run, detached, aborted, streamVars>>

-----------------------------------------------------------------------------
(* BufferedOutputStream and the streams of a socket.                       *)

(* write(): as many bytes as fit, a flush when the buffer is full, and the *)
(* rest again.  The bytes of the program are numbered when they are taken. *)
BufferedWrite(t) ==
    LET n == IF Arg(t) > maxsize - Len(buffer) THEN maxsize - Len(buffer) ELSE Arg(t) IN
    /\ Doing(t, "bufwrite")
    /\ IF ~wrapped THEN Throw(t) /\ UNCHANGED <<buffer, written>>
       ELSE /\ buffer' = buffer \o [k \in 1..n |-> written + k]
            /\ written' = written + n
            /\ Then(t, (IF Len(buffer) + n = maxsize THEN <<Op("bufflush", "buf")>> ELSE << >>)
                       \o (IF n < Arg(t) THEN <<Op("bufwrite", Arg(t) - n)>> ELSE << >>))
            /\ UNCHANGED aborted
    /\ UNCHANGED <<platform, objectVars, run, detached, mutex, wrapped, maxsize, closed, fd, shut, sent,
                   stray, lossy>>

(* Mutated form of BufferedFlush: count is not cleared.                    *)
BufferedFlushAgain(t) ==
    /\ Doing(t, "bufflush")
    /\ IF ~wrapped THEN Throw(t)
       ELSE /\ Then(t, IF buffer = << >> THEN << >> ELSE <<Op("send", buffer)>>)
            /\ UNCHANGED aborted
    /\ UNCHANGED <<platform, objectVars, run, detached, mutex, streamVars>>

(* flush(): count is cleared before the bytes are written. *)
BufferedFlush(t) ==
    /\ Doing(t, "bufflush")
    /\ IF ~wrapped THEN Throw(t) /\ UNCHANGED buffer
       ELSE /\ Then(t, IF buffer = << >> THEN << >> ELSE <<Op("send", buffer)>>)
            /\ buffer' = << >>
            /\ UNCHANGED aborted
    /\ UNCHANGED <<platform, objectVars, run, detached, mutex, wrapped, maxsize, closed, fd, shut, written,
                   sent, stray, lossy>>

(* close(): nothing more happens if the flush throws; the stream stays     *)
(* open then, with an empty buffer.                                        *)
BufferedClose(t) ==
    /\ Doing(t, "bufclose")
    /\ Then(t, IF wrapped
               THEN <<Op("bufflush", "buf"), Op("close", "out"), Op("unref", "out"), Op("unwrap", "buf")>>
               ELSE << >>)
    /\ UNCHANGED <<platform, objectVars, run, detached, aborted, mutex, streamVars>>

Unwrap(t) ==
    /\ Doing(t, "unwrap")
    /\ wrapped' = FALSE /\ Then(t, << >>)
    /\ UNCHANGED <<platform, objectVars, run, detached, aborted, mutex, buffer, maxsize, closed, fd, shut,
                   written, sent, stray, lossy>>

(* The direction close() of a stream shuts down: the output stream of the  *)
(* Win32 build names the receiving one.                                    *)
Direction(stream) == IF stream = "out" /\ platform = "unix" THEN "send" ELSE "receive"

CloseStream(t) ==
    LET s == Arg(t) IN
    /\ Doing(t, "close")
    /\ Then(t, << >>)
    /\ closed' = closed \cup {s}
    /\ shut' = IF s \notin closed /\ fd = "ours" THEN shut \cup {Direction(s)} ELSE shut
    /\ UNCHANGED <<platform, objectVars, run, detached, aborted, mutex, buffer, wrapped, maxsize, fd,
                   written, sent, stray, lossy>>

(* send(): an error, or some of the bytes.  A stream does not know that it *)
(* or its socket is closed, nor that the descriptor has got another use.   *)
Send(t) ==
    LET data == Arg(t) IN
    /\ Doing(t, "send")
    /\ \/ /\ lossy' = TRUE /\ Throw(t) /\ UNCHANGED <<sent, stray>>
       \/ /\ fd = "ours" /\ "send" \notin shut
          /\ \E n \in 1..Len(data) :
                /\ sent' = sent \o SubSeq(data, 1, n)
                /\ lossy' = (lossy \/ n < Len(data))
          /\ Then(t, << >>) /\ UNCHANGED <<stray, aborted>>
       \/ /\ fd = "another"
          /\ stray' = TRUE
          /\ Then(t, << >>) /\ UNCHANGED <<sent, lossy, aborted>>
    /\ UNCHANGED <<platform, objectVars, run, detached, mutex, buffer, wrapped, maxsize, closed, fd, shut,
                   written>>

CloseDescriptor(t) ==
    /\ Doing(t, "closefd")
    /\ fd' = "nothing" /\ Then(t, << >>)
    /\ UNCHANGED <<platform, objectVars, run, detached, aborted, mutex, buffer, wrapped, maxsize, closed,
                   shut, written, sent, stray, lossy>>

(* The rest of the process opens a descriptor and gets the same number. *)
ReuseDescriptor ==
    /\ "sock" \in made /\ fd = "nothing" /\ ~aborted
    /\ fd' = "another"
    /\ UNCHANGED <<platform, objectVars, todo, run, detached, aborted, mutex, buffer, wrapped, maxsize, closed,
                   shut, written, sent, stray, lossy>>

Step(t) ==
    \/ Unref(t) \/ Dereference(t) \/ Free(t) \/ Lock(t) \/ Unlock(t)
    \/ BufferedWrite(t) \/ BufferedFlush(t) \/ BufferedClose(t) \/ Unwrap(t) \/ CloseStream(t)
    \/ Send(t) \/ CloseDescriptor(t)
-----------------------------------------------------------------------------
(* The program.  It catches what write, flush and close throw, and uses    *)
(* what it has a reference to.                                             *)
Idle(t) == ~aborted /\ todo[t] = << >> /\ (t = worker => run = "running")
Begin(t, ops) == todo' = [todo EXCEPT ![t] = ops]

(* What the program makes by one constructor, with the references taken by *)
(* it, and keeps.                                                          *)
Make(things, taken, kept) ==
    /\ Idle(main) /\ things \cap made = {}
    /\ made' = made \cup things
    /\ refs' = [o \in DOMAIN refs |-> IF o \in things THEN 1 ELSE refs[o] + (IF o \in taken THEN 1 ELSE 0)]
    /\ holds' = [holds EXCEPT ![main] = @ \cup {kept}]
    /\ UNCHANGED <<platform, freed, todo, run, aborted, mutex, buffer, closed, shut, written, sent,
                   stray, lossy>>

Connect ==
    /\ Make({"sock", "in", "out"}, {}, "sock")
    /\ fd' = "ours" /\ UNCHANGED <<detached, wrapped, maxsize>>

MakeBuffered ==
    /\ "sock" \in holds[main] /\ Make({"buf"}, {"out"}, "buf")
    /\ wrapped' = TRUE /\ maxsize' \in Sizes /\ UNCHANGED <<detached, fd>>

CreateThreadSafe ==
    /\ "buf" \in holds[main] /\ Make({"safe"}, {"buf"}, "safe")
    /\ UNCHANGED <<detached, wrapped, maxsize, fd>>

(* Pointer::createForObject *)
CreateForObject ==
    /\ "safe" \in holds[main] /\ Make({"shared"}, {"safe"}, "pointer")
    /\ UNCHANGED <<detached, wrapped, maxsize, fd>>

(* A Runnable with a copy of the pointer, and the Thread that will run it. *)
MakeThread ==
    /\ "pointer" \in holds[main] /\ Make({"thread", "runnable", "impl"}, {"shared"}, "thread")
    /\ detached' \in BOOLEAN /\ UNCHANGED <<wrapped, maxsize, fd>>

(* Thread::start: the new thread has its own reference to the              *)
(* implementation before it exists.                                        *)
Start ==
    /\ Idle(main) /\ "thread" \in holds[main] /\ run = "none"
    /\ \/ run' = "running" /\ refs' = [refs EXCEPT !["impl"] = @ + 1]
       \/ run' = "failed" /\ UNCHANGED refs
    /\ UNCHANGED <<platform, made, freed, holds, todo, detached, aborted, mutex, streamVars>>

(* The end of entry(): a detached thread deletes its Runnable. *)
EndRun ==
    /\ Idle(worker)
    /\ run' = "leaving"
    /\ Begin(worker, (IF detached THEN <<Op("deref", "shared"), Op("free", "runnable")>> ELSE << >>)
                     \o <<Op("unref", "impl")>>)
    /\ UNCHANGED <<platform, objectVars, detached, aborted, mutex, streamVars>>

Exit ==
    /\ run = "leaving" /\ todo[worker] = << >> /\ ~aborted
    /\ run' = "ended"
    /\ UNCHANGED <<platform, objectVars, todo, detached, aborted, mutex, streamVars>>

Join ==
    /\ Idle(main) /\ "thread" \in holds[main] /\ ~detached /\ run = "ended"
    /\ run' = "joined"
    /\ UNCHANGED <<platform, objectVars, todo, detached, aborted, mutex, streamVars>>

(* ~Thread.  A thread that is not detached must have been joined. *)
DeleteThread ==
    /\ Idle(main) /\ "thread" \in holds[main]
    /\ detached \/ run \in {"none", "failed", "joined"}
    /\ holds' = [holds EXCEPT ![main] = @ \ {"thread"}]
    /\ Begin(main, (IF detached THEN << >> ELSE <<Op("deref", "shared"), Op("free", "runnable")>>)
                   \o <<Op("unref", "impl"), Op("free", "thread")>>)
    /\ UNCHANGED <<platform, refs, made, freed, run, detached, aborted, mutex, streamVars>>

(* The program lets go of an object or of its pointer. *)
LetGo(x) ==
    /\ Idle(main) /\ x \in holds[main] \ {"thread"}
    /\ holds' = [holds EXCEPT ![main] = @ \ {x}]
    /\ Begin(main, IF x = "pointer" THEN <<Op("deref", "shared")>> ELSE <<Op("unref", x)>>)
    /\ UNCHANGED <<platform, refs, made, freed, run, detached, aborted, mutex, streamVars>>

CanUse(t) == Idle(t) /\ (t = main => {"safe", "pointer"} \cap holds[main] # {})

(* The calls of ThreadSafeOutputStream, each under its lock. *)
Call(t, op) ==
    /\ CanUse(t)
    /\ Begin(t, <<Op("lock", "safe"), op, Op("unlock", "safe")>>)
    /\ UNCHANGED <<platform, objectVars, run, detached, aborted, mutex, streamVars>>

Write(t, n) == written + n <= MaxBytes /\ Call(t, Op("bufwrite", n))
Flush(t)    == Call(t, Op("bufflush", "buf"))
CloseOut(t) == Call(t, Op("bufclose", "buf"))

AtRest == /\ \A t \in Threads : todo[t] = << >>
          /\ holds[main] = {} /\ run \in {"none", "failed", "ended", "joined"}

Finished == (aborted \/ AtRest) /\ UNCHANGED vars

Next ==
    \/ \E t \in Threads :
          \/ Step(t) \/ (\E n \in 1..MaxBytes : Write(t, n)) \/ Flush(t) \/ CloseOut(t)
    \/ Connect \/ MakeBuffered \/ CreateThreadSafe \/ CreateForObject \/ MakeThread
    \/ Start \/ EndRun \/ Exit \/ Join \/ DeleteThread
    \/ \E x \in {"sock", "buf", "safe", "pointer"} : LetGo(x)
    \/ ReuseDescriptor \/ Finished

Spec == Init /\ [][Next]_vars

-----------------------------------------------------------------------------
(* What an operation needs to be alive. *)
Uses(o) ==
    CASE o.op \in {"unref", "free", "close"}               -> {o.arg}
      [] o.op \in {"bufwrite", "bufflush", "bufclose", "unwrap"}     -> {"buf"}
      [] o.op = "send"                                               -> {"buf", "out"}
      [] o.op \in {"lock", "unlock"}                                 -> {"safe"}
      [] o.op = "deref"                                              -> {"shared"}
      [] OTHER                                                       -> {}

(* Nothing is used after it was deleted, or deleted twice: whoever is in   *)
(* the middle of a call or a destructor, in either thread, still finds     *)
(* what it works on, although others let go of it meanwhile.               *)
UsedAreAlive ==
    /\ \A x \in Things : freed[x] <= 1
    /\ \A t \in Threads : \A k \in DOMAIN todo[t] : \A x \in Uses(todo[t][k]) : freed[x] = 0
    /\ run = "running" => \A x \in {"runnable", "shared", "safe", "buf"} : freed[x] = 0

(* When everybody has let go, everything that was made has been deleted,   *)
(* unless a detached Thread was never started: nobody deletes the Runnable *)
(* of that one, nor what it refers to.                                     *)
NothingLeaks ==
    AtRest /\ ~aborted /\ ~(detached /\ run \in {"none", "failed"})
       => \A x \in made : freed[x] = 1

(* The bytes of both threads reach the connection in the order in which    *)
(* the stream took them, none twice; and none is missing as long as no     *)
(* send has failed or was short: they are sent, or still in the buffer.    *)
BytesInOrder ==
    /\ \A i, j \in DOMAIN sent : i < j => sent[i] < sent[j]
    /\ ~lossy /\ ~stray /\ (\A t \in Threads : ~Has(t, "send"))
          => sent \o buffer = [k \in 1..written |-> k]
=============================================================================
