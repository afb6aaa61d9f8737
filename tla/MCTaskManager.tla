--------------------------- MODULE MCTaskManager ---------------------------
(* Instances of TaskManager for TLC.  The configurations choose among them. *)
EXTENDS TaskManagerRefinement, TLC

CONSTANTS t1, t2, t3, t4, m1, m2, n1, n2

(* Three tasks in a row: t3 shares a mutex with each of the others.        *)
Names3    == t1 :> n1 @@ t2 :> n1 @@ t3 :> n2
Priority3 == t1 :> 1 @@ t2 :> 2 @@ t3 :> 3

(* Tasks that start without mutexes and lock them while they run.          *)
MutexesLate == t1 :> {} @@ t2 :> {m1} @@ t3 :> {m2}

(* Two tasks of one name and priority that want the same mutex.            *)
Names2    == t1 :> n1 @@ t2 :> n1
Priority2 == t1 :> 1 @@ t2 :> 1
Mutexes2  == t1 :> {m1} @@ t2 :> {m1}

(* Four tasks: t3 needs two mutexes, t4 outranks it on one of them, and t1 *)
(* and t2 want the other.                                                  *)
Names4    == t1 :> n1 @@ t2 :> n1 @@ t3 :> n2 @@ t4 :> n2
Priority4 == t1 :> 1 @@ t2 :> 2 @@ t3 :> 3 @@ t4 :> 4
Mutexes4  == t1 :> {m1} @@ t2 :> {m1} @@ t3 :> {m1, m2} @@ t4 :> {m2}

Lists == {{}, {m1}, {m2}, {m1, m2}}

(* Bound: a reschedule that hangs on an ended task reports it for ever.     *)
FewReports == \A t \in Tasks : finished[t] <= 1
=============================================================================
