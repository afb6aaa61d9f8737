----------------------- MODULE TaskManagerRefinement -----------------------
(***************************************************************************)
(* TaskManager implements TaskScheduling.  While reschedule moves tasks    *)
(* from set to set the abstract state is still the one it began with; the  *)
(* step that leaves reschedule is the abstract choice.                     *)
(***************************************************************************)
EXTENDS TaskManager

Abstract == INSTANCE TaskScheduling WITH
    Needs     <- InitialMutexes,
    Rank      <- Priority,
    submitted <- events,
    waiting   <- IF Rescheduling THEN oldInactive ELSE Elements(inactive),
    running   <- IF Rescheduling THEN oldActive ELSE Elements(active),
    stopped   <- {t \in events : status[t] = "STOPPED"}

(* Seen from outside iterate(), the manager behaves as TaskScheduling.     *)
ImplementsScheduling == Abstract!SchedSpec
=============================================================================
