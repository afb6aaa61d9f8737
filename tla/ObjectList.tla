----------------------------- MODULE ObjectList -----------------------------
(***************************************************************************)
(* Utils/ObjectList.pm as a pair of the sparse array items, a function     *)
(* from the indices in use, and the compact array cItems, the same items   *)
(* without the holes.  An index stays with its item until the item is      *)
(* removed, and is then given to the next item that is added.              *)
(***************************************************************************)
EXTENDS Integers, SequencesExt

EmptyList == [items |-> << >>, cItems |-> << >>]

IsListOf(l, S) ==
    /\ DOMAIN l = {"items", "cItems"}
    /\ DOMAIN l.items \subseteq Nat /\ l.items \in [DOMAIN l.items -> S]
    /\ l.cItems \in Seq(S)

(* The two arrays hold the same items in the same order, each item once.   *)
InStep(l) ==
    /\ Range(l.items) = Range(l.cItems)
    /\ \A a, b \in DOMAIN l.items, j, k \in DOMAIN l.cItems :
          l.items[a] = l.cItems[j] /\ l.items[b] = l.cItems[k] => (a < b <=> j < k)

(* _findEmptyIndex: the first index not in use, as a set of one element.   *)
FirstHole(l) ==
    {h \in {0} \cup {i + 1 : i \in DOMAIN l.items} :
        h \notin DOMAIN l.items /\ 0 .. h - 1 \subseteq DOMAIN l.items}

(* splice(@cItems, k, 0, x).  Past the end, Perl appends.                  *)
Inserted(q, k, x) ==
    IF k < Len(q) THEN InsertAt(q, k + 1, x) ELSE Append(q, x)

WithItem(f, h, x) == [i \in DOMAIN f \cup {h} |-> IF i = h THEN x ELSE f[i]]

(* Mutated form of ListAdd: the compact array grows at its end.            *)
ListPush(l, h, x) ==
    [items |-> WithItem(l.items, h, x), cItems |-> Append(l.cItems, x)]

(* Mutated form of ListAdd: splice takes the place of an item.             *)
ListOverwrite(l, h, x) ==
    [items  |-> WithItem(l.items, h, x),
     cItems |-> IF h < Len(l.cItems) THEN ReplaceAt(l.cItems, h + 1, x) ELSE Append(l.cItems, x)]

(* add, where h is the first hole.                                         *)
ListAdd(l, h, x) ==
    [items |-> WithItem(l.items, h, x), cItems |-> Inserted(l.cItems, h, x)]

(* _findItem: the first index of the item.                                 *)
FindItem(f, x) ==
    IF x \notin Range(f) THEN -1
    ELSE CHOOSE i \in DOMAIN f : f[i] = x /\ \A j \in DOMAIN f : j < i => f[j] # x

(* Mutated form of ListRemove: the compact array keeps the item.           *)
ListRemoveSparse(l, x) ==
    IF x \notin Range(l.items) THEN l
    ELSE [l EXCEPT !.items = Restrict(@, DOMAIN @ \ {FindItem(@, x)})]

(* remove.  An item not found in cItems has index -1 there, at which       *)
(* splice removes the last one.                                            *)
ListRemove(l, x) ==
    IF x \notin Range(l.items) THEN l
    ELSE [items  |-> Restrict(l.items, DOMAIN l.items \ {FindItem(l.items, x)}),
          cItems |-> IF x \in Range(l.cItems) THEN RemoveAt(l.cItems, FindItem(l.cItems, x))
                     ELSE Front(l.cItems)]
=============================================================================
