----------------------------- MODULE IndexedSet -----------------------------
(***************************************************************************)
(* Utils/Set.pm: the indexed set the task manager and the actor lists keep *)
(* their objects in.  The Perl object is a hash of two fields, here a      *)
(* record: "items", the array of the elements in the order they were       *)
(* added, and "keys", which maps an element to its (0-based) index in      *)
(* items.  The methods keep the two together; a caller that treats the     *)
(* object as an array (the overloaded @{} operator hands it "items") does  *)
(* not, and Set.pm:42-43 warns against it.  TaskManager.pm:152 does so     *)
(* nevertheless, hence Shift.                                              *)
(***************************************************************************)
EXTENDS Integers, Sequences, Functions

(* Set::new with no elements.                                              *)
EmptySet == [items |-> << >>, keys |-> << >>]

(* Set::has: membership is decided by keys alone.                          *)
Has(s, x) == x \in DOMAIN s.keys

(* Set::get, with Perl's 0-based index.                                    *)
Get(s, i) == s.items[i + 1]

(* Set::size, and @{$set} in numeric context.                              *)
Size(s) == Len(s.items)

(* Set::add.                                                               *)
Add(s, x) ==
    IF Has(s, x) THEN s
    ELSE [items |-> Append(s.items, x),
          keys  |-> [y \in DOMAIN s.keys \cup {x} |->
                        IF y = x THEN Size(s) ELSE s.keys[y]]]

(* splice(@items, k, 1).  Past the end Perl warns and removes nothing.      *)
Splice(q, k) ==
    IF k \in 0 .. Len(q) - 1
    THEN [j \in 1 .. Len(q) - 1 |-> IF j <= k THEN q[j] ELSE q[j + 1]]
    ELSE q

(* Set::remove.  The loop after the splice decrements the key of every     *)
(* item found from the removed index on; an item without a key (undef)     *)
(* gets the key -1.                                                        *)
Remove(s, x) ==
    IF ~Has(s, x) THEN s
    ELSE LET k    == s.keys[x]
             rest == Splice(s.items, k)
             back == {rest[j] : j \in {n \in 1 .. Len(rest) : n > k}}
             left == DOMAIN s.keys \ {x}
         IN  [items |-> rest,
              keys  |-> [y \in left \cup back |->
                            IF y \notin left THEN -1
                            ELSE IF y \in back THEN s.keys[y] - 1 ELSE s.keys[y]]]

(* shift @{$set}: not a method of Set.  keys is left as it was.            *)
Shift(s) == [items |-> Tail(s.items), keys |-> s.keys]

(* The elements that foreach (@{$set}) visits.                             *)
Elements(s) == Range(s.items)

(* What every method relies on and re-establishes (Set.pm:72-75).          *)
Consistent(s) ==
    /\ DOMAIN s.keys = Elements(s)
    /\ \A j \in 1 .. Len(s.items) : s.keys[s.items[j]] = j - 1

(* What is left of that after n items were shifted off a sound object.     *)
IndexedFrom(s, n) ==
    \A j \in 1 .. Len(s.items) : Has(s, s.items[j]) /\ s.keys[s.items[j]] = j - 1 + n

(* The shape of the object, with elements from S.                          *)
IsSetOf(s, S) ==
    /\ s = [items |-> s.items, keys |-> s.keys]
    /\ s.items \in Seq(S)
    /\ s.keys \in [DOMAIN s.keys -> Int]
    /\ DOMAIN s.keys \subseteq S
=============================================================================
