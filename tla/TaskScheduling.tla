--------------------------- MODULE TaskScheduling ---------------------------
(***************************************************************************)
(* What TaskManager promises for tasks that keep their mutexes             *)
(* (TaskManager.pm:123-128), without lists, locks and loops: a reschedule  *)
(* replaces the running tasks in one step by a set of tasks that do not    *)
(* conflict, and it takes no task's place away but for one that outranks   *)
(* it.                                                                     *)
(***************************************************************************)
EXTENDS Integers

CONSTANTS Tasks, Needs, Rank

VARIABLES submitted, waiting, running, stopped

schedVars == <<submitted, waiting, running, stopped>>

Compete(t, u) == t # u /\ Needs[t] \cap Needs[u] # {}

SchedInit == submitted = {} /\ waiting = {} /\ running = {} /\ stopped = {}

Submit(t) ==
    /\ t \notin submitted
    /\ submitted' = submitted \cup {t} /\ waiting' = waiting \cup {t}
    /\ UNCHANGED <<running, stopped>>

(* Some tasks are stopped; the scheduler need not react at once.           *)
StopSome ==
    /\ stopped \subseteq stopped' /\ stopped' \subseteq submitted
    /\ UNCHANGED <<submitted, waiting, running>>

(* A running task ends and leaves.                                         *)
Finish(t) ==
    /\ t \in running
    /\ running' = running \ {t}
    /\ UNCHANGED <<submitted, waiting, stopped>>

(* The running tasks are chosen anew among those that run and those that   *)
(* wait and are not stopped.  Only stopped tasks get lost and the chosen   *)
(* ones do not compete.  Who had been running loses its place to a waiting *)
(* task of a higher rank only, nobody is left waiting but for a rival of   *)
(* at least its rank, and not all are.  (The rival need not run in the     *)
(* end: it may have lost its place in turn, as the choice is made in one   *)
(* pass and is not optimal, TaskManager.pm:127-128.)                       *)
Choose ==
    LET runnable == waiting \ stopped
    IN  /\ running' \cap waiting' = {}
        /\ running' \cup waiting' \subseteq running \cup waiting
        /\ (running \cup waiting) \ (running' \cup waiting') \subseteq stopped
        /\ \A t, u \in running' : ~Compete(t, u)
        /\ \A t \in running \cap waiting' : \E u \in runnable : Compete(t, u) /\ Rank[u] > Rank[t]
        /\ \A t \in waiting' : \E u \in running \cup runnable : Compete(t, u) /\ Rank[u] >= Rank[t]
        /\ waiting' # {} => running' # {}
        /\ UNCHANGED <<submitted, stopped>>

SchedNext == (\E t \in Tasks : Submit(t) \/ Finish(t)) \/ StopSome \/ Choose

SchedSpec == SchedInit /\ [][SchedNext]_schedVars
=============================================================================
