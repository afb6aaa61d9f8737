---------------------------- MODULE CallbackList ----------------------------
(***************************************************************************)
(* Utils/CallbackList.pm: the list of callbacks behind every event of the  *)
(* client (a task's onStop, an actor's onNameChange, a list's onAdd).  add *)
(* hands out an ID, a reference to a cell that holds the current index of  *)
(* the callback; remove moves the cells behind it.  call walks the live    *)
(* list with foreach, so that a callback may add and remove callbacks of   *)
(* the list it is called from, and notes the callbacks whose object is     *)
(* gone (they are held by weak references) to remove them afterwards.      *)
(*                                                                         *)
(* A member of Callbacks is one call of add with the cell it created.      *)
(***************************************************************************)
EXTENDS Integers, SequencesExt

CONSTANTS
    Callbacks,   \* registrations the program may make
    Owned,       \* those made with an object
    Adders,      \* callbacks that may add callbacks when they are called
    Removers,    \* callbacks that may remove callbacks when they are called
    NoID         \* the value undef of a cell

ASSUME CallbacksAssumption ==
    /\ Owned \subseteq Callbacks /\ Adders \subseteq Callbacks /\ Removers \subseteq Callbacks
    /\ NoID \notin Int

VARIABLES
    list,     \* the array of the CallbackList
    id,       \* the cell of each callback
    copy,     \* the array of a deep copy of the list
    used,     \* callbacks that have been added
    alive,    \* Owned callbacks whose object exists
    pc, pos,  \* where call() is, and its index in the walk
    dead,     \* IDsToRemove
    called,   \* the callbacks called in this walk, in order
    due,      \* history: there when the walk began and neither removed nor dead since
    moved     \* history: a callback removed itself or one before it in this walk

walkVars == <<pc, pos, dead, called>>
history == <<due, moved>>
vars == <<list, id, copy, used, alive, walkVars, history>>

Init ==
    /\ list = << >> /\ copy = << >>
    /\ id = [c \in Callbacks |-> NoID]
    /\ used = {} /\ alive = {}
    /\ pc = "idle" /\ pos = 0 /\ dead = << >> /\ called = << >>
    /\ due = {} /\ moved = FALSE

Dead(c) == c \in Owned \ alive

(* Code outside the list runs, the callback called last or the program     *)
(* between two calls.                                                      *)
Allowed(doers) == pc = "idle" \/ (pc = "callback" /\ Last(called) \in doers)

(* Mutated form of RemoveID: the loop over the later cells is missing.     *)
RemoveIDOnly(c) ==
    IF id[c] = NoID \/ id[c] \notin 0 .. Len(list) - 1 THEN UNCHANGED <<list, id>>
    ELSE /\ list' = RemoveAt(list, id[c] + 1)
         /\ id' = [id EXCEPT ![c] = NoID]

(* remove(ID).                                                             *)
RemoveID(c) ==
    IF id[c] = NoID \/ id[c] \notin 0 .. Len(list) - 1 THEN UNCHANGED <<list, id>>
    ELSE LET later == {list[j] : j \in id[c] + 2 .. Len(list)}
         IN  /\ list' = RemoveAt(list, id[c] + 1)
             /\ id' = [d \in Callbacks |-> IF d = c THEN NoID
                                           ELSE IF d \in later THEN id[d] - 1 ELSE id[d]]

(* add(object, function).                                                  *)
AddCallback(c) ==
    /\ Allowed(Adders) /\ c \notin used
    /\ list' = Append(list, c)
    /\ id' = [id EXCEPT ![c] = Len(list)]
    /\ used' = used \cup {c} /\ alive' = alive \cup ({c} \cap Owned)
    /\ UNCHANGED <<copy, walkVars, history>>

(* remove(ID) by a holder of the ID, who may do so again.                  *)
RemoveCallback(c) ==
    /\ Allowed(Removers) /\ c \in used
    /\ RemoveID(c)
    /\ due' = due \ {c}
    /\ moved' = (moved \/ (pc = "callback" /\ id[c] # NoID /\ id[c] <= pos))
    /\ UNCHANGED <<copy, used, alive, walkVars>>

(* The last reference to the object is dropped.  A copied item holds it by *)
(* a reference that is not weak any more.                                  *)
DropObject(c) ==
    /\ pc \in {"idle", "callback"} /\ c \in alive /\ c \notin Range(copy)
    /\ alive' = alive \ {c} /\ due' = due \ {c}
    /\ UNCHANGED <<list, id, copy, used, walkVars, moved>>

(* deepCopy: the items are copied, with the references to their cells.     *)
DeepCopy ==
    /\ pc \in {"idle", "callback"} /\ copy' = list
    /\ UNCHANGED <<list, id, used, alive, walkVars, history>>

-----------------------------------------------------------------------------
(* call.                                                                   *)

BeginCall ==
    /\ pc = "idle"
    /\ pc' = "walk" /\ pos' = 0 /\ called' = << >>
    /\ due' = {c \in Range(list) : ~Dead(c)} /\ moved' = FALSE
    /\ UNCHANGED <<list, id, copy, used, alive, dead>>

(* Mutated form of NoteDead: the callback is removed in the loop.          *)
RemoveDead ==
    /\ pc = "walk" /\ pos < Len(list) /\ Dead(list[pos + 1])
    /\ RemoveID(list[pos + 1])
    /\ pos' = pos + 1
    /\ UNCHANGED <<copy, used, alive, pc, dead, called, history>>

NoteDead ==
    /\ pc = "walk" /\ pos < Len(list) /\ Dead(list[pos + 1])
    /\ dead' = Append(dead, list[pos + 1])
    /\ pos' = pos + 1
    /\ UNCHANGED <<list, id, copy, used, alive, pc, called, history>>

Invoke ==
    /\ pc = "walk" /\ pos < Len(list) /\ ~Dead(list[pos + 1])
    /\ pc' = "callback" /\ called' = Append(called, list[pos + 1])
    /\ UNCHANGED <<list, id, copy, used, alive, pos, dead, history>>

Return ==
    /\ pc = "callback"
    /\ pc' = "walk" /\ pos' = pos + 1
    /\ UNCHANGED <<list, id, copy, used, alive, dead, called, history>>

EndWalk ==
    /\ pc = "walk" /\ pos >= Len(list)
    /\ pc' = "purge"
    /\ UNCHANGED <<list, id, copy, used, alive, pos, dead, called, history>>

Purge ==
    /\ pc = "purge" /\ dead # << >>
    /\ RemoveID(Head(dead))
    /\ dead' = Tail(dead)
    /\ UNCHANGED <<copy, used, alive, pc, pos, called, history>>

Leave ==
    /\ pc' = "idle" /\ pos' = 0 /\ dead' = << >> /\ called' = << >>
    /\ due' = {} /\ moved' = FALSE
    /\ UNCHANGED <<list, id, copy, used, alive>>

EndCall == pc = "purge" /\ dead = << >> /\ Leave

(* The callback dies, and call with it; nobody is purged.                  *)
Throw == pc = "callback" /\ Leave

Next ==
    \/ \E c \in Callbacks : AddCallback(c) \/ RemoveCallback(c) \/ DropObject(c)
    \/ DeepCopy \/ BeginCall \/ NoteDead \/ Invoke \/ Return \/ EndWalk \/ Purge \/ EndCall \/ Throw

Spec == Init /\ [][Next]_vars
-----------------------------------------------------------------------------
(* Properties.                                                             *)

(* The types; in particular no cell becomes negative, which remove would   *)
(* take for an ID that is gone.                                            *)
TypeOK ==
    /\ list \in Seq(Callbacks) /\ copy \in Seq(Callbacks)
    /\ id \in [Callbacks -> Nat \cup {NoID}]
    /\ used \subseteq Callbacks /\ alive \subseteq Owned
    /\ pc \in {"idle", "walk", "callback", "purge"} /\ pos \in Nat
    /\ dead \in Seq(Callbacks) /\ called \in Seq(Callbacks)
    /\ due \subseteq Callbacks /\ moved \in BOOLEAN

(* The invariant of the class (CallbackList.pm:89-92): the cell of every   *)
(* callback in the array holds its index.                                  *)
IDsFindItems == \A j \in 1 .. Len(list) : id[list[j]] = j - 1

(* remove takes away the callback it is meant for and no other, whatever   *)
(* was removed before it and during whatever walk.                         *)
NobodyElseIsRemoved == [][\A c \in Range(list) \ Range(list)' : id'[c] = NoID]_vars

(* No callback is called twice in a walk, although the list is changed     *)
(* under the loop.                                                         *)
CalledOnce == IsInjective(called)

(* "Call all callback functions in this CallbackList" (CallbackList.pm:    *)
(* 182): at the end of a walk everyone who was there at its beginning, and *)
(* has not been removed, was called.  A callback that removes itself or    *)
(* one before it makes an exception: the loop then skips the next one.     *)
AllCalled == pc = "purge" /\ ~moved => due \subseteq Range(called)
=============================================================================
