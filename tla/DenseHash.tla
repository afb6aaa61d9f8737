----------------------------- MODULE DenseHash -----------------------------
(***************************************************************************)
(* dense_hashtable and dense_hash_map of src/srcXS/utils: open addressing  *)
(* with triangular probing in an array of 2^n buckets; two keys that are   *)
(* never stored mark empty and deleted buckets.  A deleted bucket stays    *)
(* occupied until an insertion takes it or the table is copied; the table  *)
(* grows and shrinks by copying in insertions only, so that a walk may     *)
(* erase.                                                                  *)
(***************************************************************************)
EXTENDS Integers, Sequences, FiniteSets, Functions

CONSTANTS
    Keys, Values,
    Elements,      \* bound: the elements the user stores, of Keys \X Values
    Hash,          \* hash function: Keys -> Nat
    MinBuckets,    \* HT_MIN_BUCKETS
    MaxBuckets,    \* bound: the greatest size the user asks for
    Ranges,        \* bound: the sequences of elements that insert(f, l) gets
    MarksFrom      \* bound: whether the deleted key is set from the beginning on

(* 1 << i *)
TwoTo[i \in Nat] == IF i = 0 THEN 1 ELSE 2 * TwoTo[i - 1]

(* "deleted" stands for the deleted key, which the user promises not to store. *)
ASSUME HashAssumption ==
    /\ Keys \subseteq DOMAIN Hash /\ \A k \in Keys : Hash[k] \in Nat
    /\ "deleted" \notin Keys
    /\ \E i \in 2..31 : MinBuckets = TwoTo[i]
    /\ Elements \subseteq Keys \X Values /\ Ranges \subseteq Seq(Elements)
    /\ MaxBuckets \in Nat /\ MarksFrom \subseteq BOOLEAN

VARIABLES
    ht,      \* the members of dense_hashtable
    result,  \* what the last call returned
    at,      \* the iterator of a walk: a bucket, the end, or -1
    due      \* history: keys the walk must still come to

vars == <<ht, result, at, due>>

Empty       == << >>
Deleted     == <<"deleted">>
Entry(k, v) == <<k, v>>

-----------------------------------------------------------------------------
(* Members.  The table is a function of its bucket numbers.                *)
BucketCount(h) == Cardinality(DOMAIN h.table)
Size(h)        == h.num_elements - h.num_deleted
TestDeleted(h, b) == h.use_deleted /\ h.num_deleted > 0 /\ h.table[b] = Deleted
TestEmpty(h, b)   == h.table[b] = Empty
Live(h) == {b \in DOMAIN h.table : ~TestEmpty(h, b) /\ ~TestDeleted(h, b)}

(* num_buckets times HT_OCCUPANCY_FLT, and times HT_EMPTY_FLT *)
EnlargeThreshold(n) == n \div 2
ShrinkThreshold(n)  == n \div 5

FirstSuch(S) == CHOOSE i \in S : \A j \in S : i <= j

(* min_size: the smallest size that is big enough *)
BigEnough(size, elements, wanted) == size >= wanted /\ elements * 2 < size
MinSize(elements, wanted) ==
    LET i == FirstSuch({i \in 0..(elements + wanted) :
                           BigEnough(MinBuckets * TwoTo[i], elements, wanted)})
    IN MinBuckets * TwoTo[i]

NoElements(size) == [b \in 0..(size - 1) |-> Empty]

(* clear *)
Cleared(h) ==
    [h EXCEPT !.table = NoElements(MinSize(0, 0)), !.num_elements = 0, !.num_deleted = 0,
              !.consider_shrink = FALSE]

(* The i-th bucket that is looked at for a key, from 0 on *)
Probe(k, i, size) == (Hash[k] + (i * (i + 1)) \div 2) % size

(* copy_from puts each element into the first empty bucket on its way. *)
Placed(h, entry) ==
    LET size == BucketCount(h)
        free == FirstSuch({i \in 0..(size - 1) : TestEmpty(h, Probe(entry[1], i, size))})
    IN [h EXCEPT !.table[Probe(entry[1], free, size)] = entry, !.num_elements = @ + 1]

CopyFrom(h, wanted) ==
    LET new == [Cleared(h) EXCEPT !.table = NoElements(MinSize(Size(h), wanted))]
        copied[b \in 0..BucketCount(h)] ==
            IF b = 0 THEN new
            ELSE IF b - 1 \in Live(h) THEN Placed(copied[b - 1], h.table[b - 1])
            ELSE copied[b - 1]
    IN copied[BucketCount(h)]

SquashDeleted(h) == IF h.num_deleted > 0 THEN CopyFrom(h, 0) ELSE h

(* maybe_shrink *)
Shrinks(h) == Size(h) < ShrinkThreshold(BucketCount(h)) /\ BucketCount(h) > MinBuckets

ShrunkSize(h) ==
    LET half  == BucketCount(h) \div 2
        stays == {s \in MinBuckets..half : \E i \in 0..half : half = s * TwoTo[i]}
    IN CHOOSE s \in stays :
          /\ s = MinBuckets \/ Size(h) * 5 >= s
          /\ \A r \in stays : r > s => Size(h) * 5 < r

MaybeShrink(h) ==
    IF Shrinks(h) THEN CopyFrom(h, ShrunkSize(h)) ELSE [h EXCEPT !.consider_shrink = FALSE]

(* resize_delta *)
Grows(h, delta) == h.num_elements + delta > EnlargeThreshold(BucketCount(h))

ResizeDelta(h, delta) ==
    LET considered == IF h.consider_shrink THEN MaybeShrink(h) ELSE h IN
    IF Grows(considered, delta)
    THEN CopyFrom(considered, MinSize(considered.num_elements + delta, 0)) ELSE considered

(* Whether resize_delta copies the table, which makes iterators invalid *)
Copies(h, delta) ==
    \/ h.consider_shrink /\ Shrinks(h)
    \/ Grows(IF h.consider_shrink THEN MaybeShrink(h) ELSE h, delta)

-----------------------------------------------------------------------------
(* find_position: where the key is, or -1, and where it would be inserted, *)
(* at the first deleted bucket on the way to an empty one.                 *)

(* Mutated form of FindPosition: a deleted bucket ends the search.         *)
FindPositionShort(h, k) ==
    LET size == BucketCount(h)
        B(i) == Probe(k, i, size)
        last == FirstSuch({i \in 0..(size - 1) : TestEmpty(h, B(i)) \/ TestDeleted(h, B(i)) \/ h.table[B(i)][1] = k})
    IN IF TestEmpty(h, B(last)) \/ TestDeleted(h, B(last)) THEN <<-1, B(last)>> ELSE <<B(last), -1>>

FindPosition(h, k) ==
    LET size    == BucketCount(h)
        B(i)    == Probe(k, i, size)
        last    == FirstSuch({i \in 0..(size - 1) : TestEmpty(h, B(i)) \/ h.table[B(i)][1] = k})
        deleted == {i \in 0..last : TestDeleted(h, B(i))}
    IN CASE ~TestEmpty(h, B(last))                     -> <<B(last), -1>>
         [] TestEmpty(h, B(last)) /\ deleted = {}      -> <<-1, B(last)>>
         [] TestEmpty(h, B(last)) /\ deleted # {}      -> <<-1, B(FirstSuch(deleted))>>

(* find, without probing if the table has no elements; -1 for end() *)
Found(h, k) == IF Size(h) = 0 THEN -1 ELSE FindPosition(h, k)[1]

(* Mutated form of InsertNoResize: num_deleted is not decremented.         *)
InsertNoResizeUncounted(h, k, v) ==
    LET pos == FindPosition(h, k) IN
    IF pos[1] # -1 THEN h
    ELSE [h EXCEPT !.table[pos[2]] = Entry(k, v),
                   !.num_elements  = IF TestDeleted(h, pos[2]) THEN @ ELSE @ + 1]

InsertNoResize(h, k, v) ==
    LET pos == FindPosition(h, k) IN
    IF pos[1] # -1 THEN h
    ELSE IF TestDeleted(h, pos[2])
    THEN [h EXCEPT !.table[pos[2]] = Entry(k, v), !.num_deleted = @ - 1]
    ELSE [h EXCEPT !.table[pos[2]] = Entry(k, v), !.num_elements = @ + 1]

(* set_deleted for some buckets *)
Erased(h, B) ==
    [h EXCEPT !.table = [b \in DOMAIN @ |-> IF b \in B THEN Deleted ELSE @[b]],
              !.num_deleted = @ + Cardinality({b \in B : ~TestDeleted(h, b)}),
              !.consider_shrink = TRUE]

Yes(p) == IF p THEN "yes" ELSE "no"
KeysOf(h, B) == {h.table[b][1] : b \in B \cap Live(h)}

-----------------------------------------------------------------------------
(* Calls of a user, who has called set_empty_key right after the           *)
(* constructor, as the comment in the class demands, and stores neither of *)
(* the two markers.                                                        *)
Init ==
    /\ \E n \in {0, MaxBuckets}, marks \in MarksFrom :
          ht = [table |-> NoElements(MinSize(0, n)), num_deleted |-> 0, num_elements |-> 0,
                use_deleted |-> marks, consider_shrink |-> FALSE]
    /\ result = "none" /\ at = -1 /\ due = {}

(* A call that copies the table ends the walk that goes on. *)
EndsWalk(ends) == /\ at' = IF ends THEN -1 ELSE at
                  /\ due' = IF ends THEN {} ELSE due

SetDeletedKey ==
    /\ ht' = [SquashDeleted(ht) EXCEPT !.use_deleted = TRUE]
    /\ result' = "none" /\ EndsWalk(ht.num_deleted > 0)

ClearDeletedKey ==
    /\ ht.use_deleted
    /\ ht' = [SquashDeleted(ht) EXCEPT !.use_deleted = FALSE]
    /\ result' = "none" /\ EndsWalk(ht.num_deleted > 0)

(* insert(obj) *)
Insert(k, v) ==
    LET h == ResizeDelta(ht, 1) IN
    /\ ht' = InsertNoResize(h, k, v)
    /\ result' = Yes(FindPosition(h, k)[1] = -1)
    /\ EndsWalk(Copies(ht, 1))

(* insert(f, l), which makes room for all the elements first *)
InsertRange(seq) ==
    LET after[i \in 0..Len(seq)] ==
            IF i = 0 THEN ResizeDelta(ht, Len(seq))
            ELSE InsertNoResize(after[i - 1], seq[i][1], seq[i][2])
    IN
    /\ ht' = after[Len(seq)]
    /\ result' = "none"
    /\ EndsWalk(Copies(ht, Len(seq)))

(* m[k] = v *)
Assign(k, v) ==
    /\ IF Found(ht, k) # -1
       THEN ht' = [ht EXCEPT !.table[Found(ht, k)] = Entry(k, v)] /\ EndsWalk(FALSE)
       ELSE ht' = InsertNoResize(ResizeDelta(ht, 1), k, v) /\ EndsWalk(Copies(ht, 1))
    /\ result' = v

Find(k) ==
    /\ result' = IF Found(ht, k) = -1 THEN "end" ELSE ht.table[Found(ht, k)][2]
    /\ UNCHANGED <<ht, at, due>>

EraseKey(k) ==
    /\ ht.use_deleted
    /\ result' = Yes(Found(ht, k) # -1)
    /\ ht' = IF Found(ht, k) = -1 THEN ht ELSE Erased(ht, {Found(ht, k)})
    /\ due' = due \ {k} /\ UNCHANGED at

(* clear, and clear_no_resize *)
Clear ==
    /\ ht' = Cleared(ht) /\ result' = "none" /\ EndsWalk(TRUE)

ClearNoResize ==
    /\ ht' = [Cleared(ht) EXCEPT !.table = NoElements(BucketCount(ht))]
    /\ result' = "none" /\ EndsWalk(TRUE)

Resize(n) ==
    LET considers  == ht.consider_shrink \/ n = 0
        considered == IF considers THEN MaybeShrink(ht) ELSE ht
        delta      == n - considered.num_elements
    IN
    /\ ht' = IF delta > 0 THEN ResizeDelta(considered, delta) ELSE considered
    /\ result' = "none"
    /\ EndsWalk((considers /\ Shrinks(ht)) \/ (delta > 0 /\ Copies(considered, delta)))

(* A copy is made, and the two are swapped. *)
CopyAndSwap ==
    /\ ht' = CopyFrom(ht, 0) /\ result' = "none" /\ EndsWalk(TRUE)

-----------------------------------------------------------------------------
(* A walk with an iterator.                                                *)

(* Mutated form of Advanced: one step is taken before the first look.       *)
AdvancedOneMore(h, from) ==
    LET ahead == {b \in Live(h) : b > from} IN
    IF ahead = {} THEN BucketCount(h) ELSE FirstSuch(ahead)

(* advance_past_empty_and_deleted *)
Advanced(h, from) ==
    LET ahead == {b \in Live(h) : b >= from} IN
    IF ahead = {} THEN BucketCount(h) ELSE FirstSuch(ahead)

GoTo(b) ==
    /\ at' = b
    /\ UNCHANGED ht /\ result' = "none"

Begin ==
    /\ GoTo(Advanced(ht, 0))
    /\ due' = KeysOf(ht, DOMAIN ht.table)

Walking == at # -1 /\ at < BucketCount(ht)

(* The element at the iterator has been dealt with. *)
Increment ==
    /\ Walking
    /\ GoTo(Advanced(ht, at + 1))
    /\ due' = due \ KeysOf(ht, {at})

EraseAt ==
    /\ Walking /\ ht.use_deleted
    /\ ht' = Erased(ht, {at}) /\ result' = "none"
    /\ due' = due \ KeysOf(ht, {at}) /\ UNCHANGED at

(* erase(it, end()) *)
EraseRest ==
    LET rest == {at} \cup {b \in Live(ht) : b > at} IN
    /\ Walking /\ ht.use_deleted
    /\ ht' = Erased(ht, rest) /\ result' = "none"
    /\ due' = due \ KeysOf(ht, rest) /\ at' = -1

Next ==
    \/ \E e \in Elements : Insert(e[1], e[2]) \/ Assign(e[1], e[2])
    \/ \E seq \in Ranges : InsertRange(seq)
    \/ \E k \in Keys : Find(k) \/ EraseKey(k)
    \/ \E n \in {0, MaxBuckets \div 2} : Resize(n)
    \/ SetDeletedKey \/ ClearDeletedKey \/ Clear \/ ClearNoResize \/ CopyAndSwap
    \/ Begin \/ Increment \/ EraseAt \/ EraseRest

Spec == Init /\ [][Next]_vars

-----------------------------------------------------------------------------
(* The table as a mapping *)
Contents(h) == [k \in KeysOf(h, DOMAIN h.table) |-> (CHOOSE e \in Range(h.table) : Len(e) = 2 /\ e[1] = k)[2]]

Abstract == INSTANCE HashMap WITH map <- Contents(ht)

(* To its user the table is a mapping, through all growing, shrinking,     *)
(* reuse of deleted buckets and changes of the deleted key.                *)
ImplementsMap == Abstract!MapSpec

(* The counts are exact, there is an empty bucket to end every search, and *)
(* a search comes to every element before it comes to an empty bucket.     *)
EveryKeyIsFound ==
    /\ ht.num_deleted = Cardinality({b \in DOMAIN ht.table : ht.table[b] = Deleted})
    /\ ht.num_elements = Cardinality({b \in DOMAIN ht.table : ht.table[b] # Empty})
    /\ ht.num_elements < BucketCount(ht)
    /\ \A b \in Live(ht) : FindPosition(ht, ht.table[b][1])[1] = b

(* A walk comes to every element that was there when it began and has not  *)
(* been erased, whatever is erased or inserted meanwhile, unless the table *)
(* is copied.                                                              *)
WalkMissesNone == at # -1 /\ at = BucketCount(ht) => due = {}
=============================================================================
