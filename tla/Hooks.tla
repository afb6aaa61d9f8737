------------------------------- MODULE Hooks -------------------------------
(***************************************************************************)
(* Plugins.pm: the functions plugins hook into one event of the client.    *)
(* addHook puts an entry into the ObjectList of the event and hands out a  *)
(* handle with its index; delHook takes the entry at that index away;      *)
(* callHook walks the live array of the list with foreach.  A hook may     *)
(* call all three, of its own event too, so that walks can be nested.      *)
(*                                                                         *)
(* The lists of different events do not interact, so one event stands for  *)
(* all.  %hooks has no list for an event without entries: that is hook     *)
(* being empty.  A walk whose list was dropped from %hooks because it had  *)
(* become empty is marked "gone"; its array stays empty.                   *)
(***************************************************************************)
EXTENDS ObjectList

CONSTANTS
    Entries,   \* calls of addHook, with the entry and the handle they make
    NoIndex,   \* the INDEX of a handle that is not in use
    MaxDepth   \* bound: how deep calls of callHook may be nested

ASSUME EntriesAssumption == NoIndex \notin Nat /\ MaxDepth \in Nat

VARIABLES
    hook,     \* the ObjectList of the event
    handle,   \* INDEX of each handle
    used,     \* entries that exist: an entry is made once while walks are under way
    walks     \* the stack of callHook's, the innermost last

vars == <<hook, handle, used, walks>>

(* next counts the entries visited; called, due and marks are history: who *)
(* was called, who was there at the beginning and was not deleted since,   *)
(* and whether an entry was put in ("shifted") or taken out ("cut") behind *)
(* the walk.                                                               *)
Walk == [next : Nat, called : Seq(Entries), due : SUBSET Entries,
         marks : SUBSET {"shifted", "cut", "gone"}]

Init ==
    /\ hook = EmptyList
    /\ handle = [e \in Entries |-> NoIndex]
    /\ used = {} /\ walks = << >>

(* Plugin code runs: the program outside callHook, or the entry called     *)
(* last by the innermost walk.                                             *)
PluginRuns == walks # << >> => Last(walks).next > 0

Marked(w, condition, mark) ==
    IF condition /\ "gone" \notin w.marks THEN [w EXCEPT !.marks = @ \cup {mark}] ELSE w

(* Mutated form of AddHook: the handle gets the place in the compact array *)
(* at the end of which new entries are thought to be.                      *)
AddHookLast(e) ==
    /\ PluginRuns /\ e \notin used
    /\ used' = used \cup {e}
    /\ \E h \in FirstHole(hook) :
          /\ hook' = ListAdd(hook, h, e)
          /\ handle' = [handle EXCEPT ![e] = Len(hook.cItems)]
          /\ walks' = [k \in DOMAIN walks |-> Marked(walks[k], h < walks[k].next, "shifted")]

AddHook(e) ==
    /\ PluginRuns /\ e \notin used
    /\ used' = used \cup {e}
    /\ \E h \in FirstHole(hook) :
          /\ hook' = ListAdd(hook, h, e)
          /\ handle' = [handle EXCEPT ![e] = h]
          /\ walks' = [k \in DOMAIN walks |-> Marked(walks[k], h < walks[k].next, "shifted")]

(* An entry outside %hooks that no walk has called is forgotten, and its    *)
(* name can stand for a new one.                                           *)
Existing(handles, stack) ==
    IF stack = << >> THEN {e \in Entries : handles[e] # NoIndex} ELSE used

(* delHook with the handle of e.  A handle already used throws, and        *)
(* nothing changes.                                                        *)
DelHook(e) ==
    /\ PluginRuns /\ handle[e] # NoIndex
    /\ handle' = [handle EXCEPT ![e] = NoIndex]
    /\ IF handle[e] \in DOMAIN hook.items
       THEN LET entry   == hook.items[handle[e]]
                place   == FindItem(hook.cItems, entry)
                After(w) ==
                    LET m == Marked(w, place <= w.next, "cut")
                        n == Marked(m, hook'.cItems = << >>, "gone")
                    IN  [n EXCEPT !.due = @ \ {entry}]
            IN  /\ hook' = ListRemove(hook, entry)
                /\ walks' = [k \in DOMAIN walks |-> After(walks[k])]
       ELSE UNCHANGED <<hook, walks>>
    /\ used' = Existing(handle', walks')

-----------------------------------------------------------------------------
(* callHook.                                                               *)

(* The array a walk is over.                                               *)
Items(w) == IF "gone" \in w.marks THEN << >> ELSE hook.cItems

BeginCall ==
    /\ PluginRuns /\ Len(walks) < MaxDepth
    /\ hook.cItems # << >>
    /\ walks' = Append(walks, [next |-> 0, called |-> << >>, due |-> Range(hook.cItems),
                               marks |-> {}])
    /\ UNCHANGED <<hook, handle, used>>

(* The innermost walk calls the entry e.                                   *)
Invoke(e) ==
    /\ walks # << >>
    /\ LET w == Last(walks)
       IN  /\ w.next < Len(Items(w)) /\ e = Items(w)[w.next + 1]
           /\ walks' = Append(Front(walks), [w EXCEPT !.next = @ + 1, !.called = Append(@, e)])
    /\ UNCHANGED <<hook, handle, used>>

AtEnd(w) == w.next >= Len(Items(w))

Leave ==
    /\ walks' = Front(walks)
    /\ used' = Existing(handle, walks')
    /\ UNCHANGED <<hook, handle>>

EndCall == walks # << >> /\ AtEnd(Last(walks)) /\ Leave

(* The entry called last dies, and callHook with it, up to a hook that     *)
(* catches the exception.                                                  *)
Throw == walks # << >> /\ Last(walks).next > 0 /\ Leave

Next ==
    \/ \E e \in Entries : AddHook(e) \/ DelHook(e) \/ Invoke(e)
    \/ BeginCall \/ EndCall \/ Throw

Spec == Init /\ [][Next]_vars
-----------------------------------------------------------------------------
(* Properties.                                                             *)

TypeOK ==
    /\ IsListOf(hook, Entries)
    /\ handle \in [Entries -> Nat \cup {NoIndex}]
    /\ used \subseteq Entries
    /\ walks \in Seq(Walk)

(* ObjectList.pm:91-101: cItems is items without its holes, in the same    *)
(* order, although add inserts into it at an index of the other array.     *)
ListInStep == InStep(hook)

(* Every handle in use finds its own entry, whatever entries came and went *)
(* since, and whoever got their indices.                                   *)
HandleFindsEntry ==
    \A e \in Entries : handle[e] # NoIndex =>
        handle[e] \in DOMAIN hook.items /\ hook.items[handle[e]] = e

(* "$callback will not be called anymore" (Plugins.pm:358), by the walks   *)
(* under way neither.                                                      *)
NotCalledAnymore ==
    [][\A e \in Entries : Invoke(e) => handle[e] # NoIndex]_vars

(* A walk calls nobody twice, unless an entry was put in behind it.        *)
CalledOnce ==
    \A k \in DOMAIN walks :
        "shifted" \notin walks[k].marks => IsInjective(walks[k].called)

(* A walk calls everyone who was there at its beginning and has not been   *)
(* deleted, unless an entry was taken out behind it.                       *)
AllCalled ==
    \A k \in DOMAIN walks :
        AtEnd(walks[k]) /\ "cut" \notin walks[k].marks =>
            walks[k].due \subseteq Range(walks[k].called)
=============================================================================
