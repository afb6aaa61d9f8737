------------------------------ MODULE HashMap ------------------------------
(***************************************************************************)
(* What a hash map promises: a finite mapping of keys to values, and the   *)
(* answers to the calls of its user.                                       *)
(***************************************************************************)
EXTENDS Naturals, Sequences

CONSTANTS Keys, Elements, Ranges

VARIABLES
    map,      \* a function from some of the keys to values
    result    \* what the last call returned

Init == map = << >> /\ result = "none"

Has(k)  == k \in DOMAIN map
Yes(p)  == IF p THEN "yes" ELSE "no"

With(f, k, v) == [x \in DOMAIN f \cup {k} |-> IF x = k THEN v ELSE f[x]]
Without(f, K) == [x \in DOMAIN f \ K |-> f[x]]

(* insert keeps the value of a key that is there; its result says so. *)
Insert(k, v) ==
    /\ result' = Yes(~Has(k))
    /\ map' = IF Has(k) THEN map ELSE With(map, k, v)

Assign(k, v) == map' = With(map, k, v) /\ result' = v

InsertRange(seq) ==
    LET First(k) == CHOOSE i \in DOMAIN seq : seq[i][1] = k /\ \A j \in 1..(i - 1) : seq[j][1] # k
        new      == {seq[i][1] : i \in DOMAIN seq} \ DOMAIN map
    IN
    /\ map' = [k \in DOMAIN map \cup new |-> IF k \in new THEN seq[First(k)][2] ELSE map[k]]
    /\ result' = "none"

EraseKey(k) ==
    /\ result' = Yes(Has(k))
    /\ map' = Without(map, {k})

Erase(K) == map' = Without(map, K) /\ result' = "none"

Find(k) ==
    /\ result' = IF Has(k) THEN map[k] ELSE "end"
    /\ UNCHANGED map

(* Calls about the memory, the markers and the iteration. *)
Other == UNCHANGED map /\ result' = "none"

Next ==
    \/ \E e \in Elements : Insert(e[1], e[2]) \/ Assign(e[1], e[2])
    \/ \E seq \in Ranges : InsertRange(seq)
    \/ \E k \in Keys : EraseKey(k) \/ Find(k)
    \/ \E K \in SUBSET Keys : Erase(K)
    \/ Other

MapSpec == Init /\ [][Next]_<<map, result>>
=============================================================================
