---------------------------- MODULE TaskManager ----------------------------
(***************************************************************************)
(* TaskManager.pm with the base class Task.pm: the cooperative scheduler   *)
(* of the client.  Every pass of the main loop calls iterate(), which      *)
(* first reschedules if something asked for it and then runs one iteration *)
(* of each active task.  A task declares mutexes (the parts of the         *)
(* character it drives, such as "movement" or "skill"); a waiting task is  *)
(* activated when its mutexes are free or held by lower priorities only.   *)
(*                                                                         *)
(* The program has one thread, but iterate() is not atomic: task code runs *)
(* inside it and calls back into the manager.  pc says where the manager   *)
(* is.  At "idle" the rest of the main loop runs, at "task" the code of    *)
(* task cur; both may call add, stop and stopAll.                          *)
(***************************************************************************)
EXTENDS Integers, Sequences, FiniteSets, IndexedSet

CONSTANTS
    Tasks,           \* task objects the program may create
    Mutexes,         \* mutex names
    Names,           \* task names
    NameOf,          \* Task->getName
    Priority,        \* Task->getPriority, fixed for the life of a task
    InitialMutexes,  \* the mutexes a task is created with
    MutexLists,      \* the lists a task may pass to setMutexes
    Changing,        \* tasks whose iterate() calls setMutexes
    Announcing,      \* tasks whose activate() calls setMutexes (Task::Chained)
    LateRestoring,   \* tasks that call setMutexes after setStopped
    DeferringStop,   \* tasks whose stop() does not stop them at once
    MaxChanges,      \* bound on the setMutexes calls of one task's iterate()
    NoTask           \* the value of cur when no task is current

ASSUME ConstantsAssumption ==
    /\ NameOf \in [Tasks -> Names]
    /\ Priority \in [Tasks -> Int]
    /\ InitialMutexes \in [Tasks -> SUBSET Mutexes]
    /\ MutexLists \subseteq SUBSET Mutexes
    /\ Changing \subseteq Tasks
    /\ Announcing \subseteq Tasks
    /\ LateRestoring \subseteq Tasks
    /\ DeferringStop \subseteq Tasks
    /\ MaxChanges \in Nat
    /\ NoTask \notin Tasks

VARIABLES
    status,           \* Task: T_status
    mutexes,          \* Task: T_mutexes, as a set
    active,           \* activeTasks
    inactive,         \* inactiveTasks
    gray,             \* grayTasks
    owner,            \* activeMutexes: mutex -> the task that holds it
    tasksByName,      \* tasksByName; 0 stands for a missing entry
    events,           \* the tasks with an entry in "events"
    listening,        \* tasks whose onMutexesChanged and onStop reach the manager
    shouldReschedule,
    finished,         \* how often onTaskFinished was triggered for a task
    pc, i, cur, todo, \* control point, loop index, current task, mutexes left to steal
    oldActive,        \* oldActiveTasks and oldInactiveTasks, the sets before
    oldInactive,      \*   the running reschedule
    changes           \* setMutexes calls made so far, for MaxChanges

taskVars    == <<status, mutexes, changes>>
setVars     == <<active, inactive, gray, owner>>
bookVars    == <<tasksByName, events, listening, finished>>
controlVars == <<pc, i, cur, todo, oldActive, oldInactive>>
vars == <<taskVars, setVars, bookVars, shouldReschedule, controlVars>>

Statuses == {"INACTIVE", "RUNNING", "INTERRUPTED", "STOPPED", "DONE"}
Ended    == {"STOPPED", "DONE"}

(* Both sets of a pass between reschedules are at rest here, and task code *)
(* or the rest of the main loop may call the manager.                      *)
Outside == pc \in {"idle", "task"}
Rescheduling == pc \in {"gray", "activate", "steal", "resume", "interrupt"}

Init ==
    /\ status = [t \in Tasks |-> "INACTIVE"]
    /\ mutexes = InitialMutexes
    /\ changes = [t \in Tasks |-> 0]
    /\ active = EmptySet /\ inactive = EmptySet /\ gray = EmptySet
    /\ owner = << >>
    /\ tasksByName = [n \in Names |-> 0]
    /\ events = {} /\ listening = {}
    /\ shouldReschedule = FALSE
    /\ finished = [t \in Tasks |-> 0]
    /\ pc = "idle" /\ i = 0 /\ cur = NoTask /\ todo = {}
    /\ oldActive = {} /\ oldInactive = {}

-----------------------------------------------------------------------------
(* Locks.                                                                  *)

Locked == DOMAIN owner

(* intersect($activeMutexes, $task->getMutexes()).                         *)
Conflicts(t) == mutexes[t] \cap Locked

(* Mutated forms of HigherPriority: the comparison is missing or reversed. *)
AnyPriority(t, ms) == TRUE
LowerPriority(t, ms) == \A m \in ms : Priority[t] < Priority[owner[m]]

(* higherPriority: above every owner of the mutexes in ms.                 *)
HigherPriority(t, ms) == \A m \in ms : Priority[t] > Priority[owner[m]]

(* Mutated forms of WithLocks and WithoutLocks: the loop is missing.       *)
NoneLocked(t, ms)   == owner
NoneReleased(t, ms) == owner

(* owner after t has locked the mutexes in ms.                             *)
WithLocks(t, ms) == [m \in Locked \cup ms |-> IF m \in ms THEN t ELSE owner[m]]

(* owner without the mutexes of ms that t holds.                           *)
WithoutLocks(t, ms) == [m \in {l \in Locked : ~(l \in ms /\ owner[l] = t)} |-> owner[m]]

(* Mutated form of DeactivateTask: the name of a task that goes on waiting *)
(* is uncounted.                                                           *)
DeactivateUncounting(t) ==
    /\ active' = Remove(active, t)
    /\ gray' = Remove(gray, t)
    /\ tasksByName' = [tasksByName EXCEPT ![NameOf[t]] = @ - 1]
    /\ \/ /\ status[t] \notin Ended
          /\ inactive' = Add(inactive, t)
          /\ UNCHANGED finished
       \/ /\ status[t] \in Ended
          /\ finished' = [finished EXCEPT ![t] = @ + 1]
          /\ UNCHANGED inactive

(* deactivateTask, but for the locks: an ended task is reported and its    *)
(* name uncounted, any other goes back to the inactive tasks.              *)
DeactivateTask(t) ==
    /\ active' = Remove(active, t)
    /\ gray' = Remove(gray, t)
    /\ \/ /\ status[t] \notin Ended
          /\ inactive' = Add(inactive, t)
          /\ UNCHANGED <<tasksByName, finished>>
       \/ /\ status[t] \in Ended
          /\ tasksByName' = [tasksByName EXCEPT ![NameOf[t]] = @ - 1]
          /\ finished' = [finished EXCEPT ![t] = @ + 1]
          /\ UNCHANGED inactive

(* Mutated forms of OnMutexesChanged: no reschedule is asked for; the task *)
(* is not marked as gray.                                                  *)
ChangedUnscheduled(t, s) ==
    /\ UNCHANGED shouldReschedule
    /\ \/ /\ t \in listening /\ s = "RUNNING"
          /\ gray' = Add(gray, t)
          /\ owner' = WithoutLocks(t, Mutexes)
       \/ /\ t \notin listening \/ s # "RUNNING"
          /\ UNCHANGED <<gray, owner>>

ChangedUnmarked(t, s) ==
    /\ UNCHANGED gray
    /\ \/ /\ t \in listening
          /\ shouldReschedule' = TRUE
          /\ owner' = IF s = "RUNNING" THEN WithoutLocks(t, Mutexes) ELSE owner
       \/ t \notin listening /\ UNCHANGED <<owner, shouldReschedule>>

(* The manager's onMutexesChanged handler, for a task with status s: the   *)
(* locks of a running task are released and it turns gray.                 *)
OnMutexesChanged(t, s) ==
    IF t \notin listening THEN UNCHANGED <<gray, owner, shouldReschedule>>
    ELSE /\ shouldReschedule' = TRUE
         /\ \/ /\ s = "RUNNING"
               /\ gray' = Add(gray, t)
               /\ owner' = WithoutLocks(t, Mutexes)
            \/ /\ s # "RUNNING"
               /\ UNCHANGED <<gray, owner>>

-----------------------------------------------------------------------------
(* Calls from the main loop and from task code.                            *)

(* TaskManager->add of a task that has just been created.                  *)
AddTask(t) ==
    /\ Outside
    /\ t \notin events /\ status[t] = "INACTIVE"
    /\ inactive' = Add(inactive, t)
    /\ tasksByName' = [tasksByName EXCEPT ![NameOf[t]] = @ + 1]
    /\ shouldReschedule' = TRUE
    /\ listening' = listening \cup {t}
    /\ events' = events \cup {t}
    /\ UNCHANGED <<taskVars, active, gray, owner, finished, controlVars>>

(* Mutated form of Stop: the manager has no onStop handler.                *)
StopUnnoticed(t) ==
    /\ Outside
    /\ t \in events \ DeferringStop /\ status[t] \notin Ended
    /\ status' = [status EXCEPT ![t] = "STOPPED"]
    /\ UNCHANGED <<mutexes, changes, shouldReschedule, setVars, bookVars, controlVars>>

(* Task::stop: setStopped, and its onStop event to the manager.            *)
Stop(t) ==
    /\ Outside
    /\ t \in events \ DeferringStop /\ status[t] \notin Ended
    /\ status' = [status EXCEPT ![t] = "STOPPED"]
    /\ shouldReschedule' = (shouldReschedule \/ (t \in listening /\ Has(inactive, t)))
    /\ UNCHANGED <<mutexes, changes, setVars, bookVars, controlVars>>

(* TaskManager->stopAll ("ai clear"): stop() on every active and inactive  *)
(* task (it may not be called on one that is done); a reschedule is due if *)
(* one of them is stopped now.                                             *)
StopAll ==
    LET all  == Elements(active) \cup Elements(inactive)
        told == {t \in all \ DeferringStop : status[t] # "DONE"}
    IN  /\ Outside
        /\ status' = [t \in Tasks |-> IF t \in told THEN "STOPPED" ELSE status[t]]
        /\ shouldReschedule' = (shouldReschedule \/ \E t \in all : status'[t] = "STOPPED")
        /\ UNCHANGED <<mutexes, changes, setVars, bookVars, controlVars>>

-----------------------------------------------------------------------------
(* reschedule.                                                             *)

(* iterate() when a reschedule is due: the copies of the two sets.         *)
BeginReschedule ==
    /\ pc = "idle" /\ shouldReschedule
    /\ pc' = "gray"
    /\ oldActive' = DOMAIN active.keys /\ oldInactive' = DOMAIN inactive.keys
    /\ UNCHANGED <<taskVars, setVars, bookVars, shouldReschedule, i, cur, todo>>

(* A gray task whose new mutexes are taken is deactivated, whatever its    *)
(* priority.                                                               *)
GrayConflict ==
    /\ pc = "gray" /\ Size(gray) > 0
    /\ LET t == Get(gray, 0)
       IN  /\ Conflicts(t) # {}
           /\ DeactivateTask(t)
           /\ owner' = WithoutLocks(t, mutexes[t])
    /\ UNCHANGED <<taskVars, events, listening, shouldReschedule, controlVars>>

(* Otherwise it locks them and is shifted off the gray array.              *)
GrayKeep ==
    /\ pc = "gray" /\ Size(gray) > 0
    /\ LET t == Get(gray, 0)
       IN  /\ Conflicts(t) = {}
           /\ owner' = WithLocks(t, mutexes[t])
    /\ gray' = Shift(gray)
    /\ UNCHANGED <<taskVars, active, inactive, bookVars, shouldReschedule, controlVars>>

GrayDone ==
    /\ pc = "gray" /\ Size(gray) = 0
    /\ pc' = "activate" /\ i' = 0
    /\ UNCHANGED <<taskVars, setVars, bookVars, shouldReschedule, cur, todo, oldActive, oldInactive>>

(* The loop over the inactive tasks, at task t.                            *)
Candidate(t) == pc = "activate" /\ i < Size(inactive) /\ t = Get(inactive, i)

(* A stopped task is thrown away.                                          *)
Discard(t) ==
    /\ Candidate(t) /\ status[t] = "STOPPED"
    /\ inactive' = Remove(inactive, t)
    /\ UNCHANGED <<taskVars, active, gray, owner, bookVars, shouldReschedule, controlVars>>

(* No conflict: t is activated with its locks.                             *)
Activate(t) ==
    /\ Candidate(t) /\ status[t] # "STOPPED" /\ Conflicts(t) = {}
    /\ active' = Add(active, t)
    /\ inactive' = Remove(inactive, t)
    /\ owner' = WithLocks(t, mutexes[t])
    /\ UNCHANGED <<taskVars, gray, bookVars, shouldReschedule, controlVars>>

(* Conflicts with lower priorities only: t is activated and takes its      *)
(* mutexes one by one.                                                     *)
BeginSteal(t) ==
    /\ Candidate(t) /\ status[t] # "STOPPED"
    /\ Conflicts(t) # {} /\ HigherPriority(t, Conflicts(t))
    /\ active' = Add(active, t)
    /\ inactive' = Remove(inactive, t)
    /\ pc' = "steal" /\ cur' = t /\ todo' = mutexes[t]
    /\ UNCHANGED <<taskVars, gray, owner, bookVars, shouldReschedule, i, oldActive, oldInactive>>

(* A mutex that is still locked costs its owner all of its locks.          *)
StealFromOwner(m) ==
    /\ pc = "steal" /\ m \in todo /\ m \in Locked
    /\ LET old  == owner[m]
           rest == WithoutLocks(old, mutexes[old])
       IN  /\ DeactivateTask(old)
           /\ owner' = [l \in DOMAIN rest \cup {m} |-> IF l = m THEN cur ELSE rest[l]]
    /\ todo' = todo \ {m}
    /\ UNCHANGED <<taskVars, events, listening, shouldReschedule, pc, i, cur, oldActive, oldInactive>>

TakeFree(m) ==
    /\ pc = "steal" /\ m \in todo /\ m \notin Locked
    /\ owner' = WithLocks(cur, {m})
    /\ todo' = todo \ {m}
    /\ UNCHANGED <<taskVars, active, inactive, gray, bookVars, shouldReschedule,
                   pc, i, cur, oldActive, oldInactive>>

EndSteal ==
    /\ pc = "steal" /\ todo = {}
    /\ pc' = "activate" /\ cur' = NoTask
    /\ UNCHANGED <<taskVars, setVars, bookVars, shouldReschedule, i, todo, oldActive, oldInactive>>

(* A conflict with a task of the same or a higher priority: t keeps waiting. *)
Skip(t) ==
    /\ Candidate(t) /\ status[t] # "STOPPED"
    /\ Conflicts(t) # {} /\ ~HigherPriority(t, Conflicts(t))
    /\ i' = i + 1
    /\ UNCHANGED <<taskVars, setVars, bookVars, shouldReschedule, pc, cur, todo, oldActive, oldInactive>>

ActivateDone ==
    /\ pc = "activate" /\ i >= Size(inactive)
    /\ pc' = "resume" /\ i' = 0
    /\ UNCHANGED <<taskVars, setVars, bookVars, shouldReschedule, cur, todo, oldActive, oldInactive>>

(* The loop over the active tasks, at task t.  activate() or resume() is   *)
(* called on one that was not active before; an Announcing task's          *)
(* activate() then calls setMutexes with the mutexes it has.               *)
Awaken(t) ==
    /\ pc = "resume" /\ i < Size(active) /\ t = Get(active, i)
    /\ t \notin oldActive /\ status[t] \in {"INACTIVE", "INTERRUPTED"}
    /\ status' = [status EXCEPT ![t] = "RUNNING"]
    /\ \/ /\ status[t] = "INACTIVE" /\ t \in Announcing
          /\ OnMutexesChanged(t, "RUNNING")
       \/ /\ status[t] = "INTERRUPTED" \/ t \notin Announcing
          /\ UNCHANGED <<gray, owner, shouldReschedule>>
    /\ i' = i + 1
    /\ UNCHANGED <<mutexes, changes, active, inactive, bookVars, pc, cur, todo, oldActive, oldInactive>>

LeaveAwake(t) ==
    /\ pc = "resume" /\ i < Size(active) /\ t = Get(active, i)
    /\ t \in oldActive \/ status[t] \notin {"INACTIVE", "INTERRUPTED"}
    /\ i' = i + 1
    /\ UNCHANGED <<taskVars, setVars, bookVars, shouldReschedule, pc, cur, todo, oldActive, oldInactive>>

ResumeDone ==
    /\ pc = "resume" /\ i >= Size(active)
    /\ pc' = "interrupt" /\ i' = 0
    /\ UNCHANGED <<taskVars, setVars, bookVars, shouldReschedule, cur, todo, oldActive, oldInactive>>

(* Mutated form of Interrupt: oldInactiveTasks is not consulted.           *)
InterruptAll(t) ==
    /\ pc = "interrupt" /\ i < Size(inactive) /\ t = Get(inactive, i)
    /\ status' = [status EXCEPT ![t] = "INTERRUPTED"]
    /\ i' = i + 1
    /\ UNCHANGED <<mutexes, changes, setVars, bookVars, shouldReschedule,
                   pc, cur, todo, oldActive, oldInactive>>

(* The loop over the inactive tasks: interrupt() is called on one that was *)
(* not inactive before.                                                    *)
Interrupt(t) ==
    /\ pc = "interrupt" /\ i < Size(inactive) /\ t = Get(inactive, i)
    /\ status' = [status EXCEPT ![t] = IF t \in oldInactive THEN @ ELSE "INTERRUPTED"]
    /\ i' = i + 1
    /\ UNCHANGED <<mutexes, changes, setVars, bookVars, shouldReschedule,
                   pc, cur, todo, oldActive, oldInactive>>

(* The end of reschedule; iterate() goes on to its own loop.               *)
EndReschedule ==
    /\ pc = "interrupt" /\ i >= Size(inactive)
    /\ shouldReschedule' = FALSE
    /\ pc' = "iterate" /\ i' = 0
    /\ oldActive' = {} /\ oldInactive' = {}
    /\ UNCHANGED <<taskVars, setVars, bookVars, cur, todo>>

-----------------------------------------------------------------------------
(* iterate.                                                                *)

(* iterate() when no reschedule is due.                                    *)
BeginIterate ==
    /\ pc = "idle" /\ ~shouldReschedule
    /\ pc' = "iterate" /\ i' = 0
    /\ UNCHANGED <<taskVars, setVars, bookVars, shouldReschedule, cur, todo, oldActive, oldInactive>>

(* Control enters the iterate() of the next active task.                   *)
EnterTask(t) ==
    /\ pc = "iterate" /\ i < Size(active) /\ t = Get(active, i)
    /\ status[t] # "STOPPED"
    /\ pc' = "task" /\ cur' = t
    /\ UNCHANGED <<taskVars, setVars, bookVars, shouldReschedule, i, todo, oldActive, oldInactive>>

(* Task::setMutexes from the iterate() of a running task.                  *)
SetMutexes(ms) ==
    /\ pc = "task" /\ cur \in Changing /\ status[cur] = "RUNNING"
    /\ changes[cur] < MaxChanges
    /\ mutexes' = [mutexes EXCEPT ![cur] = ms]
    /\ changes' = [changes EXCEPT ![cur] = @ + 1]
    /\ OnMutexesChanged(cur, status[cur])
    /\ UNCHANGED <<status, active, inactive, bookVars, controlVars>>

(* setDone or setError.                                                    *)
SetDone ==
    /\ pc = "task" /\ status[cur] = "RUNNING"
    /\ status' = [status EXCEPT ![cur] = "DONE"]
    /\ UNCHANGED <<mutexes, changes, setVars, bookVars, shouldReschedule, controlVars>>

(* setStopped by the task itself, as a DeferringStop task does some time   *)
(* after stop() was called.  It is active, so onStop has no effect.        *)
SetStopped ==
    /\ pc = "task" /\ status[cur] = "RUNNING"
    /\ status' = [status EXCEPT ![cur] = "STOPPED"]
    /\ shouldReschedule' = (shouldReschedule \/ (cur \in listening /\ Has(inactive, cur)))
    /\ UNCHANGED <<mutexes, changes, setVars, bookVars, controlVars>>

(* Task::WithSubtask::iterate stops the task when its subtask has stopped  *)
(* and only then puts back the mutexes from before the subtask.            *)
RestoreLate(ms) ==
    /\ pc = "task" /\ cur \in LateRestoring /\ status[cur] = "STOPPED"
    /\ changes[cur] < MaxChanges
    /\ mutexes' = [mutexes EXCEPT ![cur] = ms]
    /\ changes' = [changes EXCEPT ![cur] = @ + 1]
    /\ OnMutexesChanged(cur, status[cur])
    /\ UNCHANGED <<status, active, inactive, bookVars, controlVars>>

(* The task's iterate() returns and the task goes on.                      *)
LeaveTask ==
    /\ pc = "task" /\ status[cur] \notin Ended
    /\ pc' = "iterate" /\ i' = i + 1 /\ cur' = NoTask
    /\ UNCHANGED <<taskVars, setVars, bookVars, shouldReschedule, todo, oldActive, oldInactive>>

(* A task that has ended, in its iterate() or before it, is removed and    *)
(* the manager's callbacks are taken off it.                               *)
Reap(t) ==
    /\ \/ pc = "iterate" /\ i < Size(active) /\ t = Get(active, i) /\ status[t] = "STOPPED"
       \/ pc = "task" /\ t = cur /\ status[t] \in Ended
    /\ DeactivateTask(t)
    /\ owner' = WithoutLocks(t, mutexes[t])
    /\ listening' = listening \ {t}
    /\ shouldReschedule' = TRUE
    /\ pc' = "iterate" /\ cur' = NoTask
    /\ UNCHANGED <<taskVars, events, i, todo, oldActive, oldInactive>>

EndIterate ==
    /\ pc = "iterate" /\ i >= Size(active)
    /\ pc' = "idle" /\ i' = 0
    /\ UNCHANGED <<taskVars, setVars, bookVars, shouldReschedule, cur, todo, oldActive, oldInactive>>

-----------------------------------------------------------------------------
Reschedule ==
    \/ BeginReschedule \/ GrayConflict \/ GrayKeep \/ GrayDone
    \/ \E t \in Tasks : Discard(t) \/ Activate(t) \/ BeginSteal(t) \/ Skip(t)
    \/ \E m \in Mutexes : StealFromOwner(m) \/ TakeFree(m)
    \/ EndSteal \/ ActivateDone
    \/ \E t \in Tasks : Awaken(t) \/ LeaveAwake(t) \/ Interrupt(t)
    \/ ResumeDone \/ EndReschedule

Iterate ==
    \/ BeginIterate \/ LeaveTask \/ EndIterate
    \/ \E t \in Tasks : EnterTask(t) \/ Reap(t)

(* What the manager does on its own once iterate() has been called.        *)
Manager == Reschedule \/ Iterate

(* What task code and the rest of the program may do.                      *)
Program ==
    \/ \E t \in Tasks : AddTask(t) \/ Stop(t)
    \/ \E ms \in MutexLists : SetMutexes(ms) \/ RestoreLate(ms)
    \/ StopAll \/ SetDone \/ SetStopped

Next == Manager \/ Program

Spec == Init /\ [][Next]_vars

(* The main loop calls iterate() in every pass, and the iterate() of a     *)
(* task returns: the client is single-threaded and its tasks never block.  *)
FairSpec == Spec /\ WF_vars(Manager)
-----------------------------------------------------------------------------
(* Properties.                                                             *)

TypeOK ==
    /\ status \in [Tasks -> Statuses]
    /\ mutexes \in [Tasks -> SUBSET Mutexes]
    /\ changes \in [Tasks -> 0 .. MaxChanges]
    /\ IsSetOf(active, Tasks) /\ IsSetOf(inactive, Tasks) /\ IsSetOf(gray, Tasks)
    /\ owner \in [Locked -> Tasks] /\ Locked \subseteq Mutexes
    /\ tasksByName \in [Names -> Int]
    /\ events \subseteq Tasks /\ listening \subseteq Tasks
    /\ shouldReschedule \in BOOLEAN
    /\ finished \in [Tasks -> Nat]
    /\ pc \in {"idle", "gray", "activate", "steal", "resume", "interrupt", "iterate", "task"}
    /\ i \in Nat
    /\ cur \in Tasks \cup {NoTask}
    /\ pc \in {"steal", "task"} => cur \in Tasks
    /\ todo \subseteq Mutexes
    /\ oldActive \subseteq Tasks /\ oldInactive \subseteq Tasks

(* Where checkValidity runs: before and after reschedule and after         *)
(* iterate.                                                                *)
AtRest == pc \in {"idle", "iterate"}

(* The two indexed sets stay in step with their index through all adds and *)
(* removes, and no task is active and inactive at once (TaskManager.pm:41, *)
(* 51), not even halfway through a reschedule.                             *)
SetsDisjoint ==
    /\ Consistent(active) /\ Consistent(inactive)
    /\ Elements(active) \cap Elements(inactive) = {}

(* "All active tasks do not conflict with each other" (TaskManager.pm:124) *)
(* whenever task code runs or the main loop has the control.               *)
ActiveDoNotConflict ==
    pc \in {"idle", "iterate", "task"} =>
        \A t, u \in Elements(active) : t # u => mutexes[t] \cap mutexes[u] = {}

(* How often t has called setMutexes, in activate() too; and that no other *)
(* task has, and t not again.                                              *)
Changes(t) == changes[t] + (IF t \in Announcing /\ status[t] # "INACTIVE" THEN 1 ELSE 0)
OnlyChange(t) == Changes(t) <= 1 /\ \A u \in Tasks \ {t} : Changes(u) = 0

OwnsNothing(t) == \A m \in Locked : owner[m] # t
OwnsAll(t, ms) == \A m \in ms : m \in Locked /\ owner[m] = t

(* checkValidity, TaskManager.pm:233-241: an active task owns all its      *)
(* mutexes or is in the list of gray tasks, where reschedule finds it.     *)
(* The exception is the key that the shift at TaskManager.pm:152 leaves    *)
(* behind: a later change of the same task is not entered, and removing    *)
(* the key of another task takes an item that is not its own.  A first     *)
(* change, with no key left behind, is never lost.                         *)
ActiveOwnUnlessGray ==
    AtRest => \A t \in Elements(active) :
                 \/ OwnsAll(t, mutexes[t]) \/ t \in Elements(gray)
                 \/ Has(gray, t) /\ ~OnlyChange(t)

(* checkValidity, TaskManager.pm:242-249 and 256-259: whoever holds a lock *)
(* is active, so that a waiting or an ended task holds none.               *)
OwnersAreActive == \A m \in Locked : owner[m] \in Elements(active)

(* checkValidity, TaskManager.pm:250-253, and the index of the gray set    *)
(* outside reschedule: each gray item is active and found under its index. *)
GrayIsActive ==
    AtRest => \A j \in 1 .. Size(gray) :
                 LET t == gray.items[j]
                 IN  t \in Elements(active) /\ Has(gray, t) /\ gray.keys[t] = j - 1

(* The inductive invariant behind the three properties above, for tasks    *)
(* that restore no mutexes after they have stopped.  It speaks of the      *)
(* states inside reschedule too, and of the one corruption the shift on    *)
(* the gray set leads to there: a gray task that was deactivated and whose *)
(* conflict keeps it at the head of the gray items.                        *)
Known == Elements(active) \cup Elements(inactive) \subseteq events \cap listening

OwnedAreDeclared == \A m \in Locked : m \in mutexes[owner[m]]

GrayInOrder(n) ==
    /\ IndexedFrom(gray, n)
    /\ \A t \in DOMAIN gray.keys : gray.keys[t] >= 0
    /\ Elements(gray) \subseteq Elements(active)
    /\ \A t \in Elements(gray) : OwnsNothing(t)

GrayStuck ==
    /\ Size(gray) > 0
    /\ LET t == Get(gray, 0)
       IN  /\ t \in events \cap listening /\ ~Has(gray, t)
           /\ Conflicts(t) # {} /\ OwnsNothing(t)

GrayInv ==
    \/ GrayInOrder(0)
    \/ pc = "gray" /\ \E n \in Range(gray.keys) : n >= 0 /\ GrayInOrder(n)
    \/ pc = "gray" /\ GrayStuck

StealInv ==
    pc = "steal" =>
        /\ cur \in Elements(active) /\ todo \subseteq mutexes[cur]
        /\ \A m \in todo \cap Locked : owner[m] # cur

ActiveOwn ==
    \A t \in Elements(active) :
        Has(gray, t) \/ OwnsAll(t, mutexes[t] \ (IF pc = "steal" /\ t = cur THEN todo ELSE {}))

LockInv ==
    /\ SetsDisjoint /\ Known /\ OwnersAreActive /\ OwnedAreDeclared
    /\ GrayInv
    /\ pc \in {"activate", "steal"} => Size(gray) = 0
    /\ StealInv
    /\ pc = "task" => cur \in Elements(active)
    /\ ActiveOwn

(* Once a task without a key is at the head of the gray items and its      *)
(* mutexes are taken, the first loop of reschedule never ends; if the task *)
(* has ended, it is reported in every turn.                                *)
ReportsForEver == pc = "gray" /\ GrayStuck /\ status[Get(gray, 0)] \in Ended

(* Added, and its end not reported.                                        *)
Counted(n) == {t \in events : NameOf[t] = n /\ finished[t] = 0}

(* The count of a name is exactly that of its tasks that were added and    *)
(* not reported; such a task is managed, or was stopped and thrown away    *)
(* while it waited (TaskManager.pm:163-165 neither reports nor uncounts    *)
(* it); and an end is reported once, of a task that has ended and is in no *)
(* set any more.                                                           *)
CountsAreExact == \A n \in Names : tasksByName[n] = Cardinality(Counted(n))

NoneIsLost ==
    \A t \in events : \/ t \in Elements(active) \cup Elements(inactive)
                      \/ status[t] = "STOPPED" \/ finished[t] = 1

ReportedOnce ==
    \A t \in Tasks : \/ finished[t] = 0
                     \/ /\ finished[t] = 1 /\ t \in events /\ status[t] \in Ended
                        /\ t \notin Elements(active) \cup Elements(inactive)

(* The books of the manager are right, halfway through its loops too, but  *)
(* for the reschedule that hangs on an ended task.                         *)
TasksAreAccountedFor == ReportsForEver \/ (CountsAreExact /\ NoneIsLost /\ ReportedOnce)

(* "These tasks must be re-scheduled" (TaskManager.pm:64-65): a reschedule *)
(* is due as long as there are gray tasks, but for one that set its        *)
(* mutexes in activate(): reschedule() itself calls that and resets the    *)
(* flag afterwards (TaskManager.pm:219).                                   *)
GrayIsRescheduled == pc = "idle" /\ ~shouldReschedule => Elements(gray) \subseteq Announcing

(* The _assertStatus contracts of Task.pm: activation only once, interrupt *)
(* only what runs, resume only what was interrupted, and an ended task     *)
(* keeps its status.                                                       *)
LegalSteps == {<<"INACTIVE", "RUNNING">>, <<"INACTIVE", "STOPPED">>,
               <<"RUNNING", "INTERRUPTED">>, <<"RUNNING", "STOPPED">>, <<"RUNNING", "DONE">>,
               <<"INTERRUPTED", "RUNNING">>, <<"INTERRUPTED", "STOPPED">>}
StatusContracts ==
    [][\A t \in Tasks : status'[t] = status[t] \/ <<status[t], status'[t]>> \in LegalSteps]_vars

(* iterate() returns: the loops of reschedule and of iterate end.          *)
IterateReturns == pc # "idle" ~> pc = "idle"

(* A stopped task that is managed is let go in the end.                    *)
StoppedIsLetGo ==
    \A t \in Tasks :
        status[t] = "STOPPED" /\ t \in Elements(active) \cup Elements(inactive)
            ~> t \notin Elements(active) \cup Elements(inactive)

(* A waiting task whose priority is above all others does not starve.      *)
HighestRuns ==
    \A t \in Tasks :
        (\A u \in Tasks \ {t} : Priority[u] < Priority[t])
            => (t \in Elements(inactive) ~> t \notin Elements(inactive))
=============================================================================
