------------------------- MODULE TaskManagerProofs -------------------------
(***************************************************************************)
(* Proofs about TaskManager for every set of tasks, mutexes, names and     *)
(* priorities and every behaviour of the tasks: what the methods of the    *)
(* sets preserve, and types, first; then that the sets stay sound and      *)
(* disjoint and that gray tasks are rescheduled whatever the tasks do; the *)
(* discipline of the locks and of the statuses and the books for tasks     *)
(* that restore no mutexes after they have stopped; and for tasks that     *)
(* keep their mutexes that the active ones exclude each other and that     *)
(* TaskScheduling is implemented.                                          *)
(***************************************************************************)
EXTENDS TaskManagerRefinement, FiniteSetTheorems, TLAPS

-----------------------------------------------------------------------------
(* The methods of Utils/Set.pm.  The *Type lemmas hold of any object,      *)
(* corrupted or not; the others say that add and remove keep the index in  *)
(* step with the items and do to the elements what Set.pm documents.       *)

(* splice removes at most one item and moves the ones behind it down.      *)
LEMMA SpliceType ==
  ASSUME NEW S, NEW q \in Seq(S), NEW k \in Int
  PROVE  /\ Splice(q, k) \in Seq(S)
         /\ k \in 0 .. Len(q) - 1 =>
              /\ Len(Splice(q, k)) = Len(q) - 1
              /\ \A j \in 1 .. Len(q) - 1 :
                    Splice(q, k)[j] = IF j <= k THEN q[j] ELSE q[j + 1]
  BY DEF Splice

(* splice at an index that is there.                                       *)
LEMMA SpliceInside ==
  ASSUME NEW S, NEW q \in Seq(S), NEW k \in 0 .. Len(q) - 1
  PROVE  /\ Splice(q, k) \in Seq(S) /\ Len(Splice(q, k)) = Len(q) - 1
         /\ \A j \in 1 .. Len(q) - 1 :
               Splice(q, k)[j] = IF j <= k THEN q[j] ELSE q[j + 1]
  BY DEF Splice

(* The new set of Set::new has the shape of a set.                         *)
LEMMA EmptyType ==
  ASSUME NEW S
  PROVE  IsSetOf(EmptySet, S) /\ Consistent(EmptySet) /\ Elements(EmptySet) = {}
<1>1. EmptySet.items = << >> /\ EmptySet.keys = << >>
  BY DEF EmptySet
<1>2. DOMAIN << >> = {}
  OBVIOUS
<1>3. Elements(EmptySet) = {}
  BY <1>1, <1>2 DEF Elements, Range
<1>4. << >> \in [{} -> Int]
  OBVIOUS
<1> QED BY <1>1, <1>2, <1>3, <1>4 DEF EmptySet, IsSetOf, Consistent

(* Set::add returns a set of the same shape.                               *)
LEMMA AddType ==
  ASSUME NEW S, NEW s, IsSetOf(s, S), NEW x \in S
  PROVE  IsSetOf(Add(s, x), S)
<1>1. CASE Has(s, x)
  BY <1>1 DEF Add
<1>2. CASE ~Has(s, x)
  <2> DEFINE K == [y \in DOMAIN s.keys \cup {x} |-> IF y = x THEN Size(s) ELSE s.keys[y]]
             Q == Append(s.items, x)
  <2>1. Q \in Seq(S)
    BY DEF IsSetOf
  <2>2. Size(s) \in Int
    BY DEF IsSetOf, Size
  <2>3. DOMAIN K = DOMAIN s.keys \cup {x} /\ K \in [DOMAIN K -> Int]
    BY <2>2 DEF IsSetOf
  <2>4. Add(s, x) = [items |-> Q, keys |-> K]
    BY <1>2 DEF Add
  <2> HIDE DEF K, Q
  <2>5. DOMAIN K \subseteq S
    BY <2>3 DEF IsSetOf
  <2> QED BY <2>1, <2>3, <2>4, <2>5 DEF IsSetOf
<1> QED BY <1>1, <1>2

(* shift keeps the shape, though not the index.                            *)
LEMMA ShiftType ==
  ASSUME NEW S, NEW s, IsSetOf(s, S), s.items # << >>
  PROVE  IsSetOf(Shift(s), S)
<1>1. Tail(s.items) \in Seq(S)
  BY DEF IsSetOf
<1> QED BY <1>1 DEF IsSetOf, Shift

(* Set::remove keeps the shape.                                            *)
LEMMA RemoveType ==
  ASSUME NEW S, NEW s, IsSetOf(s, S), NEW x \in S
  PROVE  IsSetOf(Remove(s, x), S)
<1>1. CASE ~Has(s, x)
  BY <1>1 DEF Remove
<1>2. CASE Has(s, x)
  <2> DEFINE k    == s.keys[x]
             rest == Splice(s.items, k)
             back == {rest[j] : j \in {n \in 1 .. Len(rest) : n > k}}
             left == DOMAIN s.keys \ {x}
             K    == [y \in left \cup back |->
                         IF y \notin left THEN -1
                         ELSE IF y \in back THEN s.keys[y] - 1 ELSE s.keys[y]]
  <2>1. k \in Int
    BY <1>2 DEF IsSetOf, Has
  <2>2. rest \in Seq(S)
    BY <2>1, SpliceType DEF IsSetOf
  <2>3. Remove(s, x) = [items |-> rest, keys |-> K]
    BY <1>2 DEF Remove
  <2> HIDE DEF rest
  <2>4. back \subseteq S
    BY <2>2
  <2>5. \A y \in left : s.keys[y] \in Int /\ y \in S
    BY DEF IsSetOf
  <2> HIDE DEF back, left, k
  <2>6. DOMAIN K = left \cup back /\ K \in [DOMAIN K -> Int]
    BY <2>5
  <2> HIDE DEF K
  <2> QED BY <2>2, <2>3, <2>4, <2>5, <2>6 DEF IsSetOf
<1> QED BY <1>1, <1>2

(* Set::add on a sound object: sound again, with the element added.        *)
LEMMA AddSound ==
  ASSUME NEW S, NEW s, IsSetOf(s, S), Consistent(s), NEW x \in S
  PROVE  Consistent(Add(s, x)) /\ Elements(Add(s, x)) = Elements(s) \cup {x}
<1>1. CASE Has(s, x)
  BY <1>1 DEF Add, Has, Consistent
<1>2. CASE ~Has(s, x)
  <2> DEFINE K == [y \in DOMAIN s.keys \cup {x} |-> IF y = x THEN Size(s) ELSE s.keys[y]]
             Q == Append(s.items, x)
             n == Len(s.items)
  <2>1. s.items \in Seq(S)
    BY DEF IsSetOf
  <2>2. Add(s, x) = [items |-> Q, keys |-> K]
    BY <1>2 DEF Add
  <2>3. Len(Q) = n + 1 /\ n \in Nat /\ Q[n + 1] = x /\ \A j \in 1 .. n : Q[j] = s.items[j]
    BY <2>1
  <2>4. DOMAIN s.items = 1 .. n /\ DOMAIN Q = 1 .. n + 1
    BY <2>1, <2>3
  <2>5. Range(Q) = Range(s.items) \cup {x}
    BY <2>3, <2>4 DEF Range
  <2>6. DOMAIN K = Range(Q)
    BY <2>5 DEF Consistent, Elements
  <2>7. ASSUME NEW j \in 1 .. Len(Q)
        PROVE  K[Q[j]] = j - 1
    <3>1. CASE j = n + 1
      BY <3>1, <2>3 DEF Size
    <3>2. CASE j \in 1 .. n
      <4>1. Q[j] = s.items[j] /\ s.items[j] \in DOMAIN s.keys /\ s.items[j] # x
        BY <3>2, <1>2, <2>3, <2>4 DEF Consistent, Elements, Range, Has
      <4> QED BY <4>1, <3>2 DEF Consistent
    <3> QED BY <3>1, <3>2, <2>3
  <2> HIDE DEF K, Q
  <2>8. Add(s, x).items = Q /\ Add(s, x).keys = K
    BY <2>2
  <2> QED BY <2>5, <2>6, <2>7, <2>8 DEF Consistent, Elements
<1> QED BY <1>1, <1>2

(* Set::remove on a sound object: sound again, without the element.        *)
LEMMA RemoveSound ==
  ASSUME NEW S, NEW s, IsSetOf(s, S), Consistent(s), NEW x \in S
  PROVE  Consistent(Remove(s, x)) /\ Elements(Remove(s, x)) = Elements(s) \ {x}
<1>1. CASE ~Has(s, x)
  BY <1>1 DEF Remove, Has, Consistent
<1>2. CASE Has(s, x)
  <2> DEFINE k    == s.keys[x]
             n    == Len(s.items)
             rest == Splice(s.items, k)
             back == {rest[j] : j \in {l \in 1 .. Len(rest) : l > k}}
             left == DOMAIN s.keys \ {x}
             K    == [y \in left \cup back |->
                         IF y \notin left THEN -1
                         ELSE IF y \in back THEN s.keys[y] - 1 ELSE s.keys[y]]
  <2>1. s.items \in Seq(S) /\ n \in Nat /\ DOMAIN s.items = 1 .. n
    BY DEF IsSetOf
  <2>2. PICK p \in 1 .. n : s.items[p] = x
    BY <1>2, <2>1 DEF Has, Consistent, Elements, Range
  <2>3. k = p - 1 /\ k \in 0 .. n - 1
    BY <2>2 DEF Consistent
  <2>4. \A a, b \in 1 .. n : s.items[a] = s.items[b] => a = b
    <3>1. \A a \in 1 .. n : s.keys[s.items[a]] = a - 1
      BY DEF Consistent
    <3> HIDE DEF n
    <3> TAKE a, b \in 1 .. n
    <3> HAVE s.items[a] = s.items[b]
    <3>2. a - 1 = b - 1
      BY <3>1
    <3> QED BY <3>2, <2>1
  <2>5. /\ rest \in Seq(S) /\ Len(rest) = n - 1
        /\ \A j \in 1 .. n - 1 : rest[j] = IF j <= k THEN s.items[j] ELSE s.items[j + 1]
    <3>1. k \in Int /\ k \in 0 .. Len(s.items) - 1
      BY <2>1, <2>3
    <3> HIDE DEF k
    <3> QED BY <2>1, <3>1, SpliceType
  <2>6. Remove(s, x) = [items |-> rest, keys |-> K]
    BY <1>2 DEF Remove
  <2>0. Range(s.items) = DOMAIN s.keys /\ \A j \in 1 .. n : s.keys[s.items[j]] = j - 1
    BY DEF Consistent, Elements
  <2> HIDE DEF rest, k, n
  <2>7. DOMAIN rest = 1 .. n - 1
    BY <2>5
  <2>8. Range(rest) = Range(s.items) \ {x}
    <3>1. ASSUME NEW j \in 1 .. n - 1
          PROVE  rest[j] \in Range(s.items) \ {x}
      <4>1. CASE j <= k
        <5>1. j \in 1 .. n /\ j # p /\ rest[j] = s.items[j]
          BY <4>1, <3>1, <2>1, <2>3, <2>5
        <5> QED BY <5>1, <2>1, <2>2, <2>4 DEF Range
      <4>2. CASE ~(j <= k)
        <5>1. j + 1 \in 1 .. n /\ j + 1 # p /\ rest[j] = s.items[j + 1]
          BY <4>2, <3>1, <2>1, <2>3, <2>5
        <5> QED BY <5>1, <2>1, <2>2, <2>4 DEF Range
      <4> QED BY <4>1, <4>2
    <3>2. ASSUME NEW j \in 1 .. n, j # p
          PROVE  \E l \in 1 .. n - 1 : rest[l] = s.items[j]
      <4>1. CASE j < p
        <5>1. j \in 1 .. n - 1 /\ j <= k
          BY <4>1, <3>2, <2>1, <2>3
        <5> QED BY <5>1, <2>5
      <4>2. CASE j > p
        <5>1. j - 1 \in 1 .. n - 1 /\ ~(j - 1 <= k) /\ (j - 1) + 1 = j
          BY <4>2, <3>2, <2>1, <2>3
        <5> QED BY <5>1, <2>5
      <4> QED BY <4>1, <4>2, <3>2, <2>1
    <3>3. Range(rest) \subseteq Range(s.items) \ {x}
      BY <3>1, <2>7 DEF Range
    <3>4. ASSUME NEW y \in Range(s.items), y # x
          PROVE  y \in Range(rest)
      <4>1. PICK j \in 1 .. n : s.items[j] = y
        BY <2>1 DEF Range
      <4>2. j # p
        BY <4>1, <3>4, <2>2
      <4> QED BY <4>1, <4>2, <3>2, <2>7 DEF Range
    <3> QED BY <3>3, <3>4
  <2>9. left = Range(rest)
    BY <2>8, <2>0
  <2>10. back \subseteq left
    BY <2>5, <2>7, <2>9 DEF Range
  <2>11. ASSUME NEW j \in 1 .. n - 1
         PROVE  K[rest[j]] = j - 1
    <3>1. rest[j] \in left
      BY <2>7, <2>9 DEF Range
    <3>2. CASE j <= k
      <4>1. rest[j] \notin back
        <5>1. SUFFICES ASSUME NEW l \in 1 .. n - 1, l > k, rest[l] = rest[j] PROVE FALSE
          BY <2>5
        <5>2. s.items[l + 1] = s.items[j]
          BY <5>1, <3>2, <2>3, <2>5
        <5>3. l + 1 = j
          BY <5>2, <2>1, <2>4
        <5> QED BY <5>1, <5>3, <3>2, <2>3, <2>1
      <4>2. s.keys[rest[j]] = j - 1
        <5>1. rest[j] = s.items[j] /\ j \in 1 .. n
          BY <3>2, <2>1, <2>5
        <5> QED BY <5>1, <2>0
      <4> QED BY <3>1, <4>1, <4>2
    <3>3. CASE j > k
      <4>1. rest[j] \in back
        BY <3>3, <2>5
      <4>2. s.keys[rest[j]] = j
        <5>1. rest[j] = s.items[j + 1]
          BY <3>3, <2>3, <2>5, <2>1
        <5>2. j + 1 \in 1 .. n /\ (j + 1) - 1 = j
          BY <2>1
        <5> QED BY <5>1, <5>2, <2>0
      <4> QED BY <3>1, <4>1, <4>2
    <3> QED BY <3>2, <3>3, <2>3, <2>1
  <2> HIDE DEF back, left
  <2>12. DOMAIN K = Range(rest)
    BY <2>9, <2>10
  <2> HIDE DEF K
  <2> QED BY <2>5, <2>6, <2>8, <2>11, <2>12 DEF Consistent, Elements
<1> QED BY <1>1, <1>2

(* An item in order is in the set only once.                               *)
LEMMA IndexedDistinct ==
  ASSUME NEW S, NEW s, IsSetOf(s, S), NEW n \in Int, IndexedFrom(s, n)
  PROVE  \A a, b \in 1 .. Len(s.items) : s.items[a] = s.items[b] => a = b
<1> SUFFICES ASSUME NEW a \in 1 .. Len(s.items), NEW b \in 1 .. Len(s.items),
                    s.items[a] = s.items[b]
             PROVE  a = b
  OBVIOUS
<1>1. s.keys[s.items[a]] = a - 1 + n /\ s.keys[s.items[b]] = b - 1 + n
  BY DEF IndexedFrom
<1>2. Len(s.items) \in Nat
  BY DEF IsSetOf
<1> QED BY <1>1, <1>2

(* Set::add when some keys have no item any more.                          *)
LEMMA IndexedAdd ==
  ASSUME NEW S, NEW s, IsSetOf(s, S), IndexedFrom(s, 0), NEW x \in S,
         \A y \in DOMAIN s.keys : s.keys[y] >= 0
  PROVE  /\ IndexedFrom(Add(s, x), 0)
         /\ Elements(Add(s, x)) \subseteq Elements(s) \cup {x}
         /\ DOMAIN Add(s, x).keys = DOMAIN s.keys \cup {x}
         /\ \A y \in DOMAIN Add(s, x).keys : Add(s, x).keys[y] >= 0
<1>1. CASE Has(s, x)
  BY <1>1 DEF Add, Has
<1>2. CASE ~Has(s, x)
  <2> DEFINE K == [y \in DOMAIN s.keys \cup {x} |-> IF y = x THEN Size(s) ELSE s.keys[y]]
             Q == Append(s.items, x)
             n == Len(s.items)
  <2>1. Add(s, x).items = Q /\ Add(s, x).keys = K
    BY <1>2 DEF Add
  <2>2. Len(Q) = n + 1 /\ n \in Nat /\ Q[n + 1] = x /\ \A j \in 1 .. n : Q[j] = s.items[j]
    BY DEF IsSetOf
  <2>3. DOMAIN Q = 1 .. n + 1 /\ DOMAIN s.items = 1 .. n
    BY DEF IsSetOf
  <2>4. Elements(Add(s, x)) \subseteq Elements(s) \cup {x}
    BY <2>1, <2>2, <2>3 DEF Elements, Range
  <2>5. ASSUME NEW j \in 1 .. n + 1
        PROVE  Q[j] \in DOMAIN K /\ K[Q[j]] = j - 1 + 0
    <3>1. CASE j = n + 1
      BY <3>1, <2>2 DEF Size
    <3>2. CASE j \in 1 .. n
      <4>1. Q[j] = s.items[j] /\ s.items[j] \in DOMAIN s.keys /\ s.keys[s.items[j]] = j - 1 + 0
        BY <3>2, <2>2 DEF IndexedFrom, Has
      <4>2. s.items[j] # x
        BY <4>1, <1>2 DEF Has
      <4> QED BY <4>1, <4>2
    <3> QED BY <3>1, <3>2, <2>2
  <2>6. DOMAIN K = DOMAIN s.keys \cup {x} /\ \A y \in DOMAIN K : K[y] >= 0
    BY <2>2 DEF Size
  <2> HIDE DEF K, Q
  <2> QED BY <2>1, <2>2, <2>4, <2>5, <2>6 DEF IndexedFrom, Has
<1> QED BY <1>1, <1>2

(* shift leaves the other items in order, one further from their keys.     *)
LEMMA IndexedShift ==
  ASSUME NEW S, NEW s, IsSetOf(s, S), NEW n \in Int, IndexedFrom(s, n), s.items # << >>
  PROVE  /\ IndexedFrom(Shift(s), n + 1)
         /\ Elements(Shift(s)) \subseteq Elements(s) \ {Get(s, 0)}
         /\ Shift(s).keys = s.keys
<1> DEFINE L == Len(s.items)
           Q == Tail(s.items)
<1>1. L \in Nat \ {0} /\ Len(Q) = L - 1 /\ \A j \in 1 .. L - 1 : Q[j] = s.items[j + 1]
  BY DEF IsSetOf
<1>2. DOMAIN Q = 1 .. L - 1 /\ DOMAIN s.items = 1 .. L
  BY <1>1 DEF IsSetOf
<1>3. Shift(s).items = Q /\ Shift(s).keys = s.keys
  BY DEF Shift
<1>4. \A a, b \in 1 .. L : s.items[a] = s.items[b] => a = b
  BY IndexedDistinct
<1>5. ASSUME NEW j \in 1 .. L - 1
      PROVE  /\ Q[j] \in DOMAIN s.keys /\ s.keys[Q[j]] = j - 1 + (n + 1)
             /\ Q[j] \in Range(s.items) \ {s.items[1]}
  <2>1. Q[j] = s.items[j + 1] /\ j + 1 \in 1 .. L /\ 1 \in 1 .. L /\ j + 1 # 1
    BY <1>1
  <2>2. s.items[j + 1] \in DOMAIN s.keys /\ s.keys[s.items[j + 1]] = (j + 1) - 1 + n
    BY <2>1 DEF IndexedFrom, Has
  <2>3. s.items[j + 1] # s.items[1]
    BY <2>1, <1>4
  <2> QED BY <2>1, <2>2, <2>3, <1>2 DEF Range
<1>6. Get(s, 0) = s.items[1]
  BY DEF Get
<1> HIDE DEF Q
<1>7. IndexedFrom(Shift(s), n + 1)
  <2>1. \A j \in 1 .. Len(Q) : Q[j] \in DOMAIN s.keys /\ s.keys[Q[j]] = j - 1 + (n + 1)
    BY <1>1, <1>5
  <2> QED BY <2>1, <1>3 DEF IndexedFrom, Has
<1>8. Range(Q) \subseteq Range(s.items) \ {s.items[1]}
  BY <1>2, <1>5 DEF Range
<1> QED BY <1>3, <1>6, <1>7, <1>8 DEF Elements

(* What Set::remove does to the keys, whatever the items are.              *)
LEMMA RemoveKeys ==
  ASSUME NEW S, NEW s, IsSetOf(s, S), NEW x \in S
  PROVE  DOMAIN s.keys \ {x} \subseteq DOMAIN Remove(s, x).keys
  BY DEF Remove, Has

(* Set::remove when the items are in order but some keys have no item any  *)
(* more: it may remove another item than x, but the rest stays in order.   *)
LEMMA IndexedRemove ==
  ASSUME NEW S, NEW s, IsSetOf(s, S), IndexedFrom(s, 0), NEW x \in S,
         \A y \in DOMAIN s.keys : s.keys[y] >= 0
  PROVE  /\ IndexedFrom(Remove(s, x), 0)
         /\ Elements(Remove(s, x)) \subseteq Elements(s) \ {x}
         /\ DOMAIN Remove(s, x).keys = DOMAIN s.keys \ {x}
         /\ \A y \in DOMAIN Remove(s, x).keys : Remove(s, x).keys[y] >= 0
<1> DEFINE n == Len(s.items)
<1>a. n \in Nat /\ s.items \in Seq(S) /\ DOMAIN s.items = 1 .. n
  BY DEF IsSetOf
<1>b. \A j \in 1 .. n : s.items[j] \in DOMAIN s.keys /\ s.keys[s.items[j]] = j - 1
  BY DEF IndexedFrom, Has
<1>c. \A a, b \in 1 .. n : s.items[a] = s.items[b] => a = b
  BY <1>a, IndexedDistinct
<1>1. CASE ~Has(s, x)
  <2>1. x \notin Elements(s)
    BY <1>1, <1>a, <1>b DEF Elements, Range, Has
  <2> QED BY <1>1, <2>1 DEF Remove, Has
<1>2. CASE Has(s, x)
  <2> DEFINE k    == s.keys[x]
             rest == Splice(s.items, k)
             back == {rest[j] : j \in {l \in 1 .. Len(rest) : l > k}}
             left == DOMAIN s.keys \ {x}
             K    == [y \in left \cup back |->
                         IF y \notin left THEN -1
                         ELSE IF y \in back THEN s.keys[y] - 1 ELSE s.keys[y]]
  <2>1. k \in Int /\ k >= 0
    BY <1>2 DEF IsSetOf, Has
  <2>2. Remove(s, x).items = rest /\ Remove(s, x).keys = K
    BY <1>2 DEF Remove
  <2>r. k \in 0 .. n - 1 =>
          /\ rest \in Seq(S) /\ Len(rest) = n - 1
          /\ \A j \in 1 .. n - 1 : rest[j] = IF j <= k THEN s.items[j] ELSE s.items[j + 1]
    <3> HAVE k \in 0 .. n - 1
    <3>1. s.items \in Seq(S) /\ Len(s.items) = n
      BY <1>a
    <3> HIDE DEF k, n
    <3>2. k \in 0 .. Len(s.items) - 1
      BY <3>1
    <3>3. /\ Splice(s.items, k) \in Seq(S) /\ Len(Splice(s.items, k)) = Len(s.items) - 1
          /\ \A j \in 1 .. Len(s.items) - 1 :
                Splice(s.items, k)[j] = IF j <= k THEN s.items[j] ELSE s.items[j + 1]
      BY ONLY <3>1, <3>2, SpliceInside
    <3>4. rest = Splice(s.items, k)
      OBVIOUS
    <3> HIDE DEF rest
    <3> QED BY ONLY <3>1, <3>3, <3>4
  <2>k. k = s.keys[x]
    OBVIOUS
  <2>q. k \notin 0 .. n - 1 => rest = s.items
    <3> HIDE DEF k, n
    <3> QED BY DEF Splice, n
  <2> HIDE DEF n, k, rest
  <2>3. CASE k \in 0 .. n - 1
    <3>1. /\ rest \in Seq(S) /\ Len(rest) = n - 1
          /\ \A j \in 1 .. n - 1 : rest[j] = IF j <= k THEN s.items[j] ELSE s.items[j + 1]
      BY <2>3, <2>r
    <3>2. ASSUME NEW j \in 1 .. n - 1
          PROVE  /\ rest[j] \in Range(s.items) /\ rest[j] \in left
                 /\ j <= k => s.keys[rest[j]] = j - 1
                 /\ j > k => s.keys[rest[j]] = j
      <4>1. CASE j <= k
        <5>1. j \in 1 .. n /\ rest[j] = s.items[j] /\ j - 1 # k
          BY <4>1, <1>a, <2>1, <3>1
        <5>2. rest[j] # x
          BY <5>1, <1>b, <2>k
        <5>3. ~(j > k)
          BY <4>1, <2>1
        <5> QED BY <4>1, <5>1, <5>2, <5>3, <1>a, <1>b, <2>1 DEF Range
      <4>2. CASE j > k
        <5>1. j + 1 \in 1 .. n /\ rest[j] = s.items[j + 1] /\ (j + 1) - 1 = j /\ j # k /\ ~(j <= k)
          BY <4>2, <1>a, <2>1, <3>1
        <5>2. s.keys[rest[j]] = j /\ rest[j] # x
          BY <5>1, <1>b, <2>k
        <5>3. rest[j] \in Range(s.items)
          BY <5>1, <1>a DEF Range
        <5>4. rest[j] \in left
          BY <5>1, <5>2, <1>b
        <5> QED BY <5>1, <5>2, <5>3, <5>4
      <4> QED BY <4>1, <4>2, <2>1, <1>a
    <3>3. DOMAIN rest = 1 .. n - 1
      BY <3>1, <1>a
    <3>4. back \subseteq left
      BY <3>1, <3>2
    <3>5. ASSUME NEW j \in 1 .. n - 1
          PROVE  K[rest[j]] = j - 1
      <4>1. CASE j > k
        <5>1. rest[j] \in back
          BY <4>1, <3>1
        <5>2. rest[j] \in left /\ s.keys[rest[j]] = j
          BY <4>1, <3>2
        <5> HIDE DEF back, left
        <5> QED BY <5>1, <5>2
      <4>2. CASE j <= k
        <5>1. rest[j] \notin back
          <6>1. SUFFICES ASSUME NEW l \in 1 .. n - 1, l > k, rest[l] = rest[j] PROVE FALSE
            BY <3>1
          <6>2. s.keys[rest[l]] = l /\ s.keys[rest[j]] = j - 1
            BY <6>1, <4>2, <3>2
          <6> QED BY <6>1, <6>2, <4>2, <1>a, <2>1
        <5>2. rest[j] \in left /\ s.keys[rest[j]] = j - 1
          BY <4>2, <3>2
        <5> HIDE DEF back, left
        <5> QED BY <5>1, <5>2
      <4>3. j > k \/ j <= k
        BY <1>a, <2>1
      <4> HIDE DEF K
      <4> QED BY <4>1, <4>2, <4>3
    <3>6. \A y \in back : s.keys[y] >= 1
      BY <3>1, <3>2, <1>a, <2>1
    <3>7. \A y \in left : s.keys[y] \in Int /\ s.keys[y] >= 0
      BY DEF IsSetOf
    <3>8. Range(rest) \subseteq Range(s.items) \ {x}
      BY <3>2, <3>3 DEF Range
    <3> HIDE DEF back
    <3>9. DOMAIN K = left /\ \A y \in left : K[y] >= 0
      <4> HIDE DEF left
      <4> QED BY <3>4, <3>6, <3>7
    <3> HIDE DEF K
    <3>10. \A j \in 1 .. Len(rest) : rest[j] \in DOMAIN K /\ K[rest[j]] = j - 1 + 0
      BY <3>1, <3>2, <3>5, <3>9
    <3>11. IndexedFrom(Remove(s, x), 0)
      BY <2>2, <3>10 DEF IndexedFrom, Has
    <3> QED BY <2>2, <3>8, <3>9, <3>11 DEF Elements
  <2>4. CASE k \notin 0 .. n - 1
    <3>1. rest = s.items /\ k >= n
      BY <2>4, <2>q, <2>1, <1>a
    <3>2. back = {}
      BY <3>1, <2>1, <1>a DEF n
    <3>3. ASSUME NEW j \in 1 .. n
          PROVE  s.items[j] \in left
      BY <2>4, <2>k, <1>a, <1>b
    <3>4. Elements(s) \subseteq Elements(s) \ {x}
      BY <3>3, <1>a DEF Elements, Range
    <3>5. \A y \in left : s.keys[y] >= 0
      OBVIOUS
    <3> HIDE DEF back
    <3>6. DOMAIN K = left /\ \A y \in left : K[y] = s.keys[y]
      BY <3>2
    <3> HIDE DEF K, left
    <3>7. \A j \in 1 .. n : s.items[j] \in DOMAIN K /\ K[s.items[j]] = j - 1 + 0
      BY <3>3, <3>6, <1>a, <1>b
    <3>8. IndexedFrom(Remove(s, x), 0)
      BY <2>2, <3>1, <3>7 DEF IndexedFrom, Has, n
    <3> QED BY <2>2, <3>1, <3>4, <3>5, <3>6, <3>8 DEF Elements, left
  <2> QED BY <2>3, <2>4
<1> QED BY <1>1, <1>2

(* The slip the shift leads to: once items were shifted off, removing the  *)
(* first item takes away its key and leaves it, or another item's place.   *)
LEMMA ShiftedRemove ==
  ASSUME NEW S, NEW s, IsSetOf(s, S), NEW n \in Nat \ {0}, IndexedFrom(s, n), Size(s) > 0
  PROVE  LET r == Remove(s, Get(s, 0))
         IN  Size(r) > 0 /\ Get(r, 0) = Get(s, 0) /\ ~Has(r, Get(s, 0))
<1> DEFINE x    == Get(s, 0)
           L    == Len(s.items)
           k    == s.keys[x]
           rest == Splice(s.items, k)
           back == {rest[j] : j \in {l \in 1 .. Len(rest) : l > k}}
           left == DOMAIN s.keys \ {x}
           K    == [y \in left \cup back |->
                       IF y \notin left THEN -1
                       ELSE IF y \in back THEN s.keys[y] - 1 ELSE s.keys[y]]
<1>1. s.items \in Seq(S) /\ L \in Nat /\ 1 \in 1 .. L
  BY DEF IsSetOf, Size
<1>2. x = s.items[1] /\ x \in DOMAIN s.keys /\ s.keys[x] = n
  BY <1>1 DEF Get, IndexedFrom, Has
<1>3. k = n
  BY <1>2
<1>4. Remove(s, x).items = rest /\ Remove(s, x).keys = K
  BY <1>2 DEF Remove, Has
<1>5. \A a, b \in 1 .. L : s.items[a] = s.items[b] => a = b
  BY IndexedDistinct
<1>6. n \in 0 .. L - 1 =>
        /\ Len(rest) = L - 1
        /\ \A j \in 1 .. L - 1 : rest[j] = IF j <= n THEN s.items[j] ELSE s.items[j + 1]
  <2>1. k \in Int
    BY <1>3
  <2> HIDE DEF k
  <2> QED BY <1>1, <1>3, <2>1, SpliceType
<1>7. n \notin 0 .. L - 1 => rest = s.items
  BY <1>3 DEF Splice
<1> HIDE DEF x, L, k, rest
<1>8. Len(rest) > 0 /\ rest[1] = x
  BY <1>1, <1>2, <1>6, <1>7 DEF L
<1>9. x \notin back
  <2>1. CASE n \in 0 .. L - 1
    <3>1. SUFFICES ASSUME NEW j \in 1 .. L - 1, j > n, rest[j] = x PROVE FALSE
      BY <2>1, <1>3, <1>6
    <3>2. s.items[j + 1] = s.items[1] /\ j + 1 \in 1 .. L
      BY <3>1, <2>1, <1>1, <1>2, <1>6
    <3> QED BY <3>1, <3>2, <1>1, <1>5
  <2>2. CASE n \notin 0 .. L - 1
    BY <2>2, <1>1, <1>3, <1>7 DEF L
  <2> QED BY <2>1, <2>2
<1>10. x \notin DOMAIN K
  BY <1>9
<1> HIDE DEF K
<1> QED BY <1>4, <1>8, <1>10 DEF Size, Get, Has, x

-----------------------------------------------------------------------------
(* Type correctness.                                                       *)

(* The first item of a nonempty set of tasks, and any item the loops look  *)
(* at, is a task.                                                          *)
LEMMA GetType ==
  ASSUME NEW s, IsSetOf(s, Tasks), NEW k \in Nat, k < Size(s)
  PROVE  Get(s, k) \in Tasks /\ Get(s, k) \in Elements(s)
<1>1. s.items \in Seq(Tasks) /\ k + 1 \in 1 .. Len(s.items)
  BY DEF IsSetOf, Size
<1> QED BY <1>1 DEF Get, Elements, Range

(* What the operators on locks return.                                     *)
LEMMA LocksType ==
  ASSUME TypeOK, NEW t \in Tasks, NEW ms \in SUBSET Mutexes
  PROVE  /\ WithLocks(t, ms) \in [DOMAIN WithLocks(t, ms) -> Tasks]
         /\ DOMAIN WithLocks(t, ms) \subseteq Mutexes
         /\ WithoutLocks(t, ms) \in [DOMAIN WithoutLocks(t, ms) -> Tasks]
         /\ DOMAIN WithoutLocks(t, ms) \subseteq Mutexes
  BY DEF TypeOK, WithLocks, WithoutLocks, Locked

(* The mutexes of a task are mutexes.                                      *)
LEMMA OwnMutexesType ==
  ASSUME TypeOK, NEW t \in Tasks
  PROVE  mutexes[t] \in SUBSET Mutexes
  BY DEF TypeOK

(* deactivateTask leaves sets, counts and reports well-formed.             *)
LEMMA DeactivateType ==
  ASSUME TypeOK, ConstantsAssumption, NEW t \in Tasks, DeactivateTask(t)
  PROVE  /\ IsSetOf(active', Tasks) /\ IsSetOf(inactive', Tasks) /\ IsSetOf(gray', Tasks)
         /\ tasksByName' \in [Names -> Int]
         /\ finished' \in [Tasks -> Nat]
<1>1. IsSetOf(active', Tasks) /\ IsSetOf(gray', Tasks)
  BY RemoveType DEF TypeOK, DeactivateTask
<1>2. IsSetOf(inactive', Tasks)
  BY AddType DEF TypeOK, DeactivateTask
<1>3. tasksByName' \in [Names -> Int] /\ finished' \in [Tasks -> Nat]
  BY DEF TypeOK, DeactivateTask, ConstantsAssumption
<1> QED BY <1>1, <1>2, <1>3

(* So does the onMutexesChanged handler.                                   *)
LEMMA OnMutexesChangedType ==
  ASSUME TypeOK, NEW t \in Tasks, NEW s, OnMutexesChanged(t, s)
  PROVE  /\ IsSetOf(gray', Tasks)
         /\ owner' \in [Locked' -> Tasks] /\ Locked' \subseteq Mutexes
         /\ shouldReschedule' \in BOOLEAN
<1>1. IsSetOf(gray', Tasks)
  BY AddType DEF TypeOK, OnMutexesChanged
<1>2. WithoutLocks(t, Mutexes) \in [DOMAIN WithoutLocks(t, Mutexes) -> Tasks]
        /\ DOMAIN WithoutLocks(t, Mutexes) \subseteq Mutexes
  BY LocksType DEF TypeOK
<1>3. owner' \in [Locked' -> Tasks] /\ Locked' \subseteq Mutexes
  BY <1>2 DEF TypeOK, OnMutexesChanged, Locked
<1>4. shouldReschedule' \in BOOLEAN
  BY DEF TypeOK, OnMutexesChanged
<1> QED BY <1>1, <1>3, <1>4

(* The types hold in the initial state.                                    *)
LEMMA TypeInit == ConstantsAssumption /\ Init => TypeOK
<1> SUFFICES ASSUME ConstantsAssumption, Init PROVE TypeOK
  OBVIOUS
<1>1. IsSetOf(EmptySet, Tasks)
  BY EmptyType
<1>2. owner \in [Locked -> Tasks] /\ Locked = {}
  BY DEF Init, Locked
<1>3. status \in [Tasks -> Statuses] /\ mutexes \in [Tasks -> SUBSET Mutexes]
        /\ changes \in [Tasks -> 0 .. MaxChanges]
  BY DEF Init, ConstantsAssumption, Statuses
<1>4. IsSetOf(active, Tasks) /\ IsSetOf(inactive, Tasks) /\ IsSetOf(gray, Tasks)
  BY <1>1 DEF Init
<1>5. tasksByName \in [Names -> Int] /\ finished \in [Tasks -> Nat]
  BY DEF Init
<1> QED BY <1>2, <1>3, <1>4, <1>5 DEF Init, TypeOK

(* One step of the manager or of the program.                              *)
LEMMA TypeStep == ConstantsAssumption /\ TypeOK /\ [Next]_vars => TypeOK'
<1> SUFFICES ASSUME ConstantsAssumption, TypeOK, [Next]_vars PROVE TypeOK'
  OBVIOUS
<1> USE DEF taskVars, setVars, bookVars, controlVars
<1>1. ASSUME NEW t \in Tasks, AddTask(t) PROVE TypeOK'
  <2>1. IsSetOf(inactive', Tasks)
    BY <1>1, AddType DEF AddTask, TypeOK
  <2>2. tasksByName' \in [Names -> Int]
    BY <1>1 DEF AddTask, TypeOK, ConstantsAssumption
  <2> QED BY <1>1, <2>1, <2>2 DEF AddTask, TypeOK, Locked
<1>2. ASSUME NEW t \in Tasks, Stop(t) PROVE TypeOK'
  BY <1>2 DEF Stop, TypeOK, Locked, Statuses
<1>3. CASE StopAll
  BY <1>3 DEF StopAll, TypeOK, Locked, Statuses
<1>4. CASE BeginReschedule
  BY <1>4 DEF BeginReschedule, TypeOK, Locked, IsSetOf
<1>5. CASE GrayConflict
  <2> DEFINE t == Get(gray, 0)
  <2>1. t \in Tasks
    BY <1>5, GetType DEF GrayConflict, TypeOK
  <2>2. DeactivateTask(t) /\ owner' = WithoutLocks(t, mutexes[t])
    BY <1>5 DEF GrayConflict
  <2> HIDE DEF t
  <2>3. owner' \in [Locked' -> Tasks] /\ Locked' \subseteq Mutexes
    BY <2>1, <2>2, OwnMutexesType, LocksType DEF Locked
  <2> QED BY <1>5, <2>1, <2>2, <2>3, DeactivateType DEF GrayConflict, TypeOK
<1>6. CASE GrayKeep
  <2> DEFINE t == Get(gray, 0)
  <2>1. t \in Tasks
    BY <1>6, GetType DEF GrayKeep, TypeOK
  <2>2. owner' = WithLocks(t, mutexes[t]) /\ gray' = Shift(gray)
    BY <1>6 DEF GrayKeep
  <2> HIDE DEF t
  <2>3. owner' \in [Locked' -> Tasks] /\ Locked' \subseteq Mutexes
    BY <2>1, <2>2, OwnMutexesType, LocksType DEF Locked
  <2>4. gray.items # << >>
    BY <1>6 DEF GrayKeep, Size
  <2>5. IsSetOf(gray', Tasks)
    BY <2>2, <2>4, ShiftType DEF TypeOK
  <2> QED BY <1>6, <2>3, <2>5 DEF GrayKeep, TypeOK
<1>7. CASE GrayDone
  BY <1>7 DEF GrayDone, TypeOK, Locked
<1>8. ASSUME NEW t \in Tasks, Discard(t) PROVE TypeOK'
  BY <1>8, RemoveType DEF Discard, TypeOK, Locked
<1>9. ASSUME NEW t \in Tasks, Activate(t) PROVE TypeOK'
  <2>1. IsSetOf(active', Tasks) /\ IsSetOf(inactive', Tasks)
    BY <1>9, AddType, RemoveType DEF Activate, TypeOK
  <2>2. owner' \in [Locked' -> Tasks] /\ Locked' \subseteq Mutexes
    BY <1>9, OwnMutexesType, LocksType DEF Activate, Locked
  <2> QED BY <1>9, <2>1, <2>2 DEF Activate, TypeOK
<1>10. ASSUME NEW t \in Tasks, BeginSteal(t) PROVE TypeOK'
  <2>1. IsSetOf(active', Tasks) /\ IsSetOf(inactive', Tasks)
    BY <1>10, AddType, RemoveType DEF BeginSteal, TypeOK
  <2> QED BY <1>10, <2>1 DEF BeginSteal, TypeOK, Locked
<1>11. ASSUME NEW m \in Mutexes, StealFromOwner(m) PROVE TypeOK'
  <2> DEFINE old  == owner[m]
             rest == WithoutLocks(old, mutexes[old])
  <2>1. old \in Tasks /\ cur \in Tasks
    BY <1>11 DEF StealFromOwner, TypeOK
  <2>2. DeactivateTask(old) /\ owner' = [l \in DOMAIN rest \cup {m} |-> IF l = m THEN cur ELSE rest[l]]
    BY <1>11 DEF StealFromOwner
  <2>3. rest \in [DOMAIN rest -> Tasks] /\ DOMAIN rest \subseteq Mutexes
    BY <2>1, OwnMutexesType, LocksType
  <2> HIDE DEF rest, old
  <2>4. owner' \in [Locked' -> Tasks] /\ Locked' \subseteq Mutexes
    BY <2>1, <2>2, <2>3 DEF Locked
  <2>5. todo' \subseteq Mutexes
    BY <1>11 DEF StealFromOwner, TypeOK
  <2> QED BY <1>11, <2>1, <2>2, <2>4, <2>5, DeactivateType DEF StealFromOwner, TypeOK
<1>12. ASSUME NEW m \in Mutexes, TakeFree(m) PROVE TypeOK'
  <2>1. cur \in Tasks /\ owner' = WithLocks(cur, {m})
    BY <1>12 DEF TakeFree, TypeOK
  <2>2. owner' \in [Locked' -> Tasks] /\ Locked' \subseteq Mutexes
    BY <2>1, {m} \in SUBSET Mutexes, LocksType DEF Locked
  <2> QED BY <1>12, <2>2 DEF TakeFree, TypeOK
<1>13. CASE EndSteal
  BY <1>13 DEF EndSteal, TypeOK, Locked
<1>14. ASSUME NEW t \in Tasks, Skip(t) PROVE TypeOK'
  BY <1>14 DEF Skip, Candidate, TypeOK, Locked
<1>15. CASE ActivateDone
  BY <1>15 DEF ActivateDone, TypeOK, Locked
<1>16. ASSUME NEW t \in Tasks, Awaken(t) PROVE TypeOK'
  <2>1. CASE OnMutexesChanged(t, "RUNNING")
    <3>1. IsSetOf(gray', Tasks) /\ owner' \in [Locked' -> Tasks] /\ Locked' \subseteq Mutexes
            /\ shouldReschedule' \in BOOLEAN
      BY <2>1, OnMutexesChangedType
    <3> QED BY <1>16, <3>1 DEF Awaken, TypeOK, Statuses
  <2>2. CASE UNCHANGED <<gray, owner, shouldReschedule>>
    BY <1>16, <2>2 DEF Awaken, TypeOK, Statuses, Locked
  <2> QED BY <1>16, <2>1, <2>2 DEF Awaken
<1>17. ASSUME NEW t \in Tasks, LeaveAwake(t) PROVE TypeOK'
  BY <1>17 DEF LeaveAwake, TypeOK, Locked
<1>18. CASE ResumeDone
  BY <1>18 DEF ResumeDone, TypeOK, Locked
<1>19. ASSUME NEW t \in Tasks, Interrupt(t) PROVE TypeOK'
  BY <1>19 DEF Interrupt, TypeOK, Statuses, Locked
<1>20. CASE EndReschedule
  BY <1>20 DEF EndReschedule, TypeOK, Locked
<1>21. CASE BeginIterate
  BY <1>21 DEF BeginIterate, TypeOK, Locked
<1>22. ASSUME NEW t \in Tasks, EnterTask(t) PROVE TypeOK'
  BY <1>22 DEF EnterTask, TypeOK, Locked
<1>23. ASSUME NEW ms \in MutexLists, SetMutexes(ms) PROVE TypeOK'
  <2>1. IsSetOf(gray', Tasks) /\ owner' \in [Locked' -> Tasks] /\ Locked' \subseteq Mutexes
          /\ shouldReschedule' \in BOOLEAN
    BY <1>23, OnMutexesChangedType DEF SetMutexes, TypeOK
  <2>2. mutexes' \in [Tasks -> SUBSET Mutexes] /\ changes' \in [Tasks -> 0 .. MaxChanges]
    BY <1>23 DEF SetMutexes, TypeOK, ConstantsAssumption
  <2> QED BY <1>23, <2>1, <2>2 DEF SetMutexes, TypeOK
<1>24. ASSUME NEW ms \in MutexLists, RestoreLate(ms) PROVE TypeOK'
  <2>1. IsSetOf(gray', Tasks) /\ owner' \in [Locked' -> Tasks] /\ Locked' \subseteq Mutexes
          /\ shouldReschedule' \in BOOLEAN
    BY <1>24, OnMutexesChangedType DEF RestoreLate, TypeOK
  <2>2. mutexes' \in [Tasks -> SUBSET Mutexes] /\ changes' \in [Tasks -> 0 .. MaxChanges]
    BY <1>24 DEF RestoreLate, TypeOK, ConstantsAssumption
  <2> QED BY <1>24, <2>1, <2>2 DEF RestoreLate, TypeOK
<1>25. CASE SetDone
  BY <1>25 DEF SetDone, TypeOK, Statuses, Locked
<1>26. CASE SetStopped
  BY <1>26 DEF SetStopped, TypeOK, Statuses, Locked
<1>27. CASE LeaveTask
  BY <1>27 DEF LeaveTask, TypeOK, Locked
<1>28. ASSUME NEW t \in Tasks, Reap(t) PROVE TypeOK'
  <2>1. DeactivateTask(t) /\ owner' = WithoutLocks(t, mutexes[t])
    BY <1>28 DEF Reap
  <2>2. owner' \in [Locked' -> Tasks] /\ Locked' \subseteq Mutexes
    BY <2>1, OwnMutexesType, LocksType DEF Locked
  <2>3. listening' \subseteq Tasks
    BY <1>28 DEF Reap, TypeOK
  <2> QED BY <1>28, <2>1, <2>2, <2>3, DeactivateType DEF Reap, TypeOK
<1>29. CASE EndIterate
  BY <1>29 DEF EndIterate, TypeOK, Locked
<1>30. CASE UNCHANGED vars
  BY <1>30 DEF vars, TypeOK, Locked
<1> QED
  BY <1>1, <1>2, <1>3, <1>4, <1>5, <1>6, <1>7, <1>8, <1>9, <1>10, <1>11, <1>12, <1>13,
     <1>14, <1>15, <1>16, <1>17, <1>18, <1>19, <1>20, <1>21, <1>22, <1>23, <1>24, <1>25,
     <1>26, <1>27, <1>28, <1>29, <1>30
  DEF Next, Manager, Program, Reschedule, Iterate

(* Every variable keeps its type in every reachable state.                 *)
THEOREM TypeCorrect == Spec => []TypeOK
<1>1. Init => TypeOK
  BY TypeInit, ConstantsAssumption
<1>2. TypeOK /\ [Next]_vars => TypeOK'
  BY TypeStep, ConstantsAssumption
<1> QED BY <1>1, <1>2, PTL DEF Spec

-----------------------------------------------------------------------------
(* Soundness of the sets.                                                  *)

(* Whatever the manager handles was added once: SetsDisjoint needs this at *)
(* add, where the task must not be in a set yet.                           *)
Handled ==
    /\ Elements(active) \subseteq events /\ Elements(inactive) \subseteq events
    /\ Elements(gray) \subseteq events
    /\ \A m \in Locked : owner[m] \in events
    /\ listening \subseteq events
    /\ pc \in {"steal", "task"} => cur \in events

(* The inductive invariant for SetsDisjoint.                               *)
SetsInv == TypeOK /\ SetsDisjoint /\ Handled

(* remove takes no element into a set, sound or not.                       *)
LEMMA RemoveElements ==
  ASSUME NEW S, NEW s, IsSetOf(s, S), NEW x \in S
  PROVE  Elements(Remove(s, x)) \subseteq Elements(s)
<1>1. CASE ~Has(s, x)
  BY <1>1 DEF Remove
<1>2. CASE Has(s, x)
  <2> DEFINE k == s.keys[x]
  <2>1. k \in Int /\ s.items \in Seq(S)
    BY <1>2 DEF IsSetOf, Has
  <2>2. Remove(s, x).items = Splice(s.items, k)
    BY <1>2 DEF Remove
  <2> HIDE DEF k
  <2>3. CASE k \in 0 .. Len(s.items) - 1
    <3>1. \A j \in 1 .. Len(s.items) - 1 :
             Splice(s.items, k)[j] = s.items[j] \/ Splice(s.items, k)[j] = s.items[j + 1]
      BY <2>1, <2>3, SpliceType
    <3>2. Splice(s.items, k) \in Seq(S) /\ Len(Splice(s.items, k)) = Len(s.items) - 1
      BY <2>1, <2>3, SpliceType
    <3>3. DOMAIN Splice(s.items, k) = 1 .. Len(s.items) - 1 /\ DOMAIN s.items = 1 .. Len(s.items)
      BY <2>1, <3>2
    <3>4. ASSUME NEW j \in 1 .. Len(s.items) - 1
          PROVE  j \in 1 .. Len(s.items) /\ j + 1 \in 1 .. Len(s.items)
      BY <2>1
    <3> QED BY <2>2, <3>1, <3>3, <3>4 DEF Elements, Range
  <2>4. CASE k \notin 0 .. Len(s.items) - 1
    BY <2>2, <2>4 DEF Elements, Splice
  <2> QED BY <2>3, <2>4
<1> QED BY <1>1, <1>2

(* Neither does shift, and add takes in the added element only.            *)
LEMMA ShiftElements ==
  ASSUME NEW S, NEW s, IsSetOf(s, S), s.items # << >>
  PROVE  Elements(Shift(s)) \subseteq Elements(s)
<1>1. Shift(s).items = Tail(s.items) /\ s.items \in Seq(S)
  BY DEF Shift, IsSetOf
<1>2. \A j \in DOMAIN Tail(s.items) : Tail(s.items)[j] = s.items[j + 1] /\ j + 1 \in DOMAIN s.items
  BY <1>1
<1> QED BY <1>1, <1>2 DEF Elements, Range

(* Adding a task to an indexed set adds it to its elements only.           *)
LEMMA AddElements ==
  ASSUME NEW S, NEW s, IsSetOf(s, S), NEW x \in S
  PROVE  Elements(Add(s, x)) \subseteq Elements(s) \cup {x}
<1>1. CASE Has(s, x)
  BY <1>1 DEF Add
<1>2. CASE ~Has(s, x)
  <2>1. Add(s, x).items = Append(s.items, x) /\ s.items \in Seq(S)
    BY <1>2 DEF Add, IsSetOf
  <2>2. \A j \in DOMAIN Append(s.items, x) :
           \/ Append(s.items, x)[j] = x
           \/ j \in DOMAIN s.items /\ Append(s.items, x)[j] = s.items[j]
    BY <2>1
  <2> QED BY <2>1, <2>2 DEF Elements, Range
<1> QED BY <1>1, <1>2

(* deactivateTask takes an active task over to the inactive ones.          *)
LEMMA DeactivateSound ==
  ASSUME TypeOK, SetsDisjoint, NEW t \in Tasks, DeactivateTask(t)
  PROVE  /\ SetsDisjoint'
         /\ Elements(active)' = Elements(active) \ {t}
         /\ Elements(inactive)' \subseteq Elements(inactive) \cup {t}
         /\ Elements(gray)' \subseteq Elements(gray)
<1>1. active' = Remove(active, t) /\ gray' = Remove(gray, t)
        /\ (inactive' = Add(inactive, t) \/ inactive' = inactive)
  BY DEF DeactivateTask
<1>2. IsSetOf(active, Tasks) /\ IsSetOf(inactive, Tasks) /\ IsSetOf(gray, Tasks)
  BY DEF TypeOK
<1>3. Consistent(active') /\ Elements(active') = Elements(active) \ {t}
  BY <1>1, <1>2, RemoveSound DEF SetsDisjoint
<1>4. Consistent(inactive') /\ Elements(inactive') \subseteq Elements(inactive) \cup {t}
  BY <1>1, <1>2, AddSound DEF SetsDisjoint
<1>5. Elements(gray') \subseteq Elements(gray)
  BY <1>1, <1>2, RemoveElements
<1> QED BY <1>3, <1>4, <1>5 DEF SetsDisjoint

(* The locks a call leaves go to the calling task or stay where they were. *)
LEMMA LocksOwners ==
  ASSUME TypeOK, NEW t, NEW ms
  PROVE  /\ \A m \in DOMAIN WithLocks(t, ms) :
               \/ WithLocks(t, ms)[m] = t
               \/ m \in Locked /\ WithLocks(t, ms)[m] = owner[m]
         /\ \A m \in DOMAIN WithoutLocks(t, ms) :
               m \in Locked /\ WithoutLocks(t, ms)[m] = owner[m]
  BY DEF WithLocks, WithoutLocks

(* The sets are disjoint and well indexed in the initial state.            *)
LEMMA SetsInit == ConstantsAssumption /\ Init => SetsInv
<1> SUFFICES ASSUME ConstantsAssumption, Init PROVE SetsInv
  OBVIOUS
<1>1. TypeOK
  BY TypeInit
<1>2. Consistent(EmptySet) /\ Elements(EmptySet) = {}
  BY EmptyType
<1> QED BY <1>1, <1>2 DEF Init, SetsInv, SetsDisjoint, Handled, Locked

(* The handler only takes the calling task in.                             *)
LEMMA OnMutexesChangedHandled ==
  ASSUME SetsInv, NEW t \in Tasks, NEW s, OnMutexesChanged(t, s)
  PROVE  /\ Elements(gray)' \subseteq events
         /\ \A m \in Locked' : owner'[m] \in events
<1>1. Elements(gray)' \subseteq events
  <2>1. gray' = gray \/ (gray' = Add(gray, t) /\ t \in listening)
    BY DEF OnMutexesChanged
  <2>2. Elements(Add(gray, t)) \subseteq Elements(gray) \cup {t}
    BY AddElements DEF SetsInv, TypeOK
  <2> QED BY <2>1, <2>2 DEF SetsInv, Handled
<1>2. owner' = owner \/ owner' = WithoutLocks(t, Mutexes)
  BY DEF OnMutexesChanged
<1>3. \A m \in DOMAIN WithoutLocks(t, Mutexes) : m \in Locked /\ WithoutLocks(t, Mutexes)[m] = owner[m]
  BY LocksOwners DEF SetsInv
<1> QED BY <1>1, <1>2, <1>3 DEF SetsInv, Handled, Locked

(* One step of the manager or of the program.                              *)
LEMMA SetsStep == ConstantsAssumption /\ SetsInv /\ [Next]_vars => SetsInv'
<1> SUFFICES ASSUME ConstantsAssumption, SetsInv, [Next]_vars PROVE SetsInv'
  OBVIOUS
<1> USE DEF taskVars, setVars, bookVars, controlVars
<1>0. TypeOK' /\ TypeOK /\ SetsDisjoint
  BY TypeStep DEF SetsInv
<1>00. IsSetOf(active, Tasks) /\ IsSetOf(inactive, Tasks) /\ IsSetOf(gray, Tasks)
  BY <1>0 DEF TypeOK
<1> SUFFICES SetsDisjoint' /\ Handled'
  BY <1>0 DEF SetsInv
<1>same. ASSUME UNCHANGED setVars, events' = events, listening' \subseteq listening,
                pc' \in {"steal", "task"} => cur' \in events
         PROVE  SetsDisjoint' /\ Handled'
  BY <1>same DEF SetsInv, SetsDisjoint, Handled, Locked
<1>1. ASSUME NEW t \in Tasks, AddTask(t) PROVE SetsDisjoint' /\ Handled'
  <2>1. t \notin events /\ inactive' = Add(inactive, t) /\ active' = active
    BY <1>1 DEF AddTask
  <2>2. Consistent(inactive') /\ Elements(inactive') = Elements(inactive) \cup {t}
    BY <2>1, <1>0, <1>00, AddSound DEF SetsDisjoint
  <2>3. SetsDisjoint'
    BY <2>1, <2>2 DEF SetsInv, SetsDisjoint, Handled
  <2> QED BY <1>1, <2>2, <2>3 DEF AddTask, SetsInv, Handled, Locked
<1>2. ASSUME NEW t \in Tasks, Stop(t) PROVE SetsDisjoint' /\ Handled'
  BY <1>2, <1>same DEF Stop, SetsInv, Handled
<1>3. CASE StopAll
  BY <1>3, <1>same DEF StopAll, SetsInv, Handled
<1>4. CASE BeginReschedule
  BY <1>4, <1>same DEF BeginReschedule
<1>5. CASE GrayConflict
  <2> DEFINE t == Get(gray, 0)
  <2>1. t \in Tasks /\ t \in Elements(gray)
    BY <1>5, <1>00, GetType DEF GrayConflict
  <2>2. DeactivateTask(t) /\ owner' = WithoutLocks(t, mutexes[t])
    BY <1>5 DEF GrayConflict
  <2> HIDE DEF t
  <2>3. \A m \in Locked' : m \in Locked /\ owner'[m] = owner[m]
    BY <2>2, <1>0, LocksOwners DEF Locked
  <2>4. /\ SetsDisjoint' /\ Elements(active)' = Elements(active) \ {t}
        /\ Elements(inactive)' \subseteq Elements(inactive) \cup {t}
        /\ Elements(gray)' \subseteq Elements(gray)
    BY <2>1, <2>2, <1>0, DeactivateSound
  <2> QED BY <1>5, <2>1, <2>3, <2>4 DEF GrayConflict, SetsInv, Handled
<1>6. CASE GrayKeep
  <2> DEFINE t == Get(gray, 0)
  <2>1. t \in Tasks /\ t \in Elements(gray) /\ gray.items # << >>
    BY <1>6, <1>00, GetType DEF GrayKeep, Size
  <2>2. owner' = WithLocks(t, mutexes[t]) /\ gray' = Shift(gray)
    BY <1>6 DEF GrayKeep
  <2> HIDE DEF t
  <2>3. \A m \in Locked' : owner'[m] = t \/ (m \in Locked /\ owner'[m] = owner[m])
    BY <2>2, <1>0, LocksOwners DEF Locked
  <2>4. Elements(gray)' \subseteq Elements(gray)
    BY <2>1, <2>2, <1>00, ShiftElements
  <2> QED BY <1>6, <2>1, <2>3, <2>4 DEF GrayKeep, SetsInv, SetsDisjoint, Handled
<1>7. CASE GrayDone
  BY <1>7, <1>same DEF GrayDone
<1>8. ASSUME NEW t \in Tasks, Discard(t) PROVE SetsDisjoint' /\ Handled'
  <2>1. inactive' = Remove(inactive, t) /\ active' = active
    BY <1>8 DEF Discard
  <2>2. Consistent(inactive') /\ Elements(inactive') = Elements(inactive) \ {t}
    BY <2>1, <1>0, <1>00, RemoveSound DEF SetsDisjoint
  <2> QED BY <1>8, <2>1, <2>2 DEF Discard, SetsInv, SetsDisjoint, Handled, Locked
<1>moved. ASSUME NEW t \in Tasks, Candidate(t), active' = Add(active, t),
                 inactive' = Remove(inactive, t)
          PROVE  /\ SetsDisjoint' /\ t \in events
                 /\ Elements(active)' \subseteq events /\ Elements(inactive)' \subseteq events
  <2>1. Consistent(active') /\ Elements(active') = Elements(active) \cup {t}
    BY <1>moved, <1>0, <1>00, AddSound DEF SetsDisjoint
  <2>2. Consistent(inactive') /\ Elements(inactive') = Elements(inactive) \ {t}
    BY <1>moved, <1>0, <1>00, RemoveSound DEF SetsDisjoint
  <2>3. t \in Elements(inactive)
    BY <1>moved, <1>0, <1>00, GetType DEF Candidate, TypeOK
  <2> QED BY <2>1, <2>2, <2>3 DEF SetsInv, SetsDisjoint, Handled
<1>9. ASSUME NEW t \in Tasks, Activate(t) PROVE SetsDisjoint' /\ Handled'
  <2>1. owner' = WithLocks(t, mutexes[t])
    BY <1>9 DEF Activate
  <2>2. \A m \in Locked' : owner'[m] = t \/ (m \in Locked /\ owner'[m] = owner[m])
    BY <2>1, <1>0, LocksOwners DEF Locked
  <2>3. /\ SetsDisjoint' /\ t \in events
        /\ Elements(active)' \subseteq events /\ Elements(inactive)' \subseteq events
    BY <1>9, <1>moved DEF Activate
  <2> QED BY <1>9, <2>2, <2>3 DEF Activate, SetsInv, Handled
<1>10. ASSUME NEW t \in Tasks, BeginSteal(t) PROVE SetsDisjoint' /\ Handled'
  <2>1. /\ SetsDisjoint' /\ t \in events
        /\ Elements(active)' \subseteq events /\ Elements(inactive)' \subseteq events
    BY <1>10, <1>moved DEF BeginSteal
  <2> QED BY <1>10, <2>1 DEF BeginSteal, SetsInv, Handled, Locked
<1>11. ASSUME NEW m \in Mutexes, StealFromOwner(m) PROVE SetsDisjoint' /\ Handled'
  <2> DEFINE old  == owner[m]
             rest == WithoutLocks(old, mutexes[old])
  <2>1. old \in Tasks /\ old \in events /\ cur \in events
    BY <1>11, <1>0 DEF StealFromOwner, TypeOK, SetsInv, Handled
  <2>2. DeactivateTask(old) /\ owner' = [l \in DOMAIN rest \cup {m} |-> IF l = m THEN cur ELSE rest[l]]
    BY <1>11 DEF StealFromOwner
  <2>3. \A l \in DOMAIN rest : l \in Locked /\ rest[l] = owner[l]
    BY <1>0, LocksOwners
  <2> HIDE DEF old, rest
  <2>4. \A l \in Locked' : owner'[l] = cur \/ (l \in Locked /\ owner'[l] = owner[l])
    BY <2>2, <2>3 DEF Locked
  <2>5. /\ SetsDisjoint' /\ Elements(active)' = Elements(active) \ {old}
        /\ Elements(inactive)' \subseteq Elements(inactive) \cup {old}
        /\ Elements(gray)' \subseteq Elements(gray)
    BY <2>1, <2>2, <1>0, DeactivateSound
  <2>6. UNCHANGED <<events, listening, pc, cur>>
    BY <1>11 DEF StealFromOwner
  <2> QED BY <2>1, <2>4, <2>5, <2>6 DEF SetsInv, Handled
<1>12. ASSUME NEW m \in Mutexes, TakeFree(m) PROVE SetsDisjoint' /\ Handled'
  <2>1. owner' = WithLocks(cur, {m})
    BY <1>12 DEF TakeFree
  <2>2. \A l \in Locked' : owner'[l] = cur \/ (l \in Locked /\ owner'[l] = owner[l])
    BY <2>1, <1>0, LocksOwners DEF Locked
  <2> QED BY <1>12, <2>2 DEF TakeFree, SetsInv, SetsDisjoint, Handled
<1>13. CASE EndSteal
  BY <1>13, <1>same DEF EndSteal
<1>14. ASSUME NEW t \in Tasks, Skip(t) PROVE SetsDisjoint' /\ Handled'
  BY <1>14, <1>same DEF Skip, Candidate
<1>15. CASE ActivateDone
  BY <1>15, <1>same DEF ActivateDone
<1>16. ASSUME NEW t \in Tasks, Awaken(t) PROVE SetsDisjoint' /\ Handled'
  <2>1. CASE OnMutexesChanged(t, "RUNNING")
    <3>1. Elements(gray)' \subseteq events /\ \A m \in Locked' : owner'[m] \in events
      BY <2>1, OnMutexesChangedHandled
    <3> QED BY <1>16, <3>1 DEF Awaken, SetsInv, SetsDisjoint, Handled
  <2>2. CASE UNCHANGED <<gray, owner, shouldReschedule>>
    BY <1>16, <2>2, <1>same DEF Awaken
  <2> QED BY <1>16, <2>1, <2>2 DEF Awaken
<1>17. ASSUME NEW t \in Tasks, LeaveAwake(t) PROVE SetsDisjoint' /\ Handled'
  BY <1>17, <1>same DEF LeaveAwake
<1>18. CASE ResumeDone
  BY <1>18, <1>same DEF ResumeDone
<1>19. ASSUME NEW t \in Tasks, Interrupt(t) PROVE SetsDisjoint' /\ Handled'
  BY <1>19, <1>same DEF Interrupt
<1>20. CASE EndReschedule
  BY <1>20, <1>same DEF EndReschedule
<1>21. CASE BeginIterate
  BY <1>21, <1>same DEF BeginIterate
<1>22. ASSUME NEW t \in Tasks, EnterTask(t) PROVE SetsDisjoint' /\ Handled'
  <2>1. t \in events
    BY <1>22, <1>0, <1>00, GetType DEF EnterTask, TypeOK, SetsInv, Handled
  <2> QED BY <1>22, <2>1, <1>same DEF EnterTask
<1>called. ASSUME pc = "task", OnMutexesChanged(cur, status[cur]),
                  UNCHANGED <<active, inactive, events, listening, pc, cur>>
           PROVE  SetsDisjoint' /\ Handled'
  <2>1. cur \in Tasks
    BY <1>called, <1>0 DEF TypeOK
  <2>2. Elements(gray)' \subseteq events /\ \A m \in Locked' : owner'[m] \in events
    BY <1>called, <2>1, OnMutexesChangedHandled
  <2> QED BY <1>called, <2>2 DEF SetsInv, SetsDisjoint, Handled
<1>23. ASSUME NEW ms \in MutexLists, SetMutexes(ms) PROVE SetsDisjoint' /\ Handled'
  BY <1>23, <1>called DEF SetMutexes
<1>24. ASSUME NEW ms \in MutexLists, RestoreLate(ms) PROVE SetsDisjoint' /\ Handled'
  BY <1>24, <1>called DEF RestoreLate
<1>25. CASE SetDone
  BY <1>25, <1>same DEF SetDone, SetsInv, Handled
<1>26. CASE SetStopped
  BY <1>26, <1>same DEF SetStopped, SetsInv, Handled
<1>27. CASE LeaveTask
  BY <1>27, <1>same DEF LeaveTask
<1>28. ASSUME NEW t \in Tasks, Reap(t) PROVE SetsDisjoint' /\ Handled'
  <2>1. DeactivateTask(t) /\ owner' = WithoutLocks(t, mutexes[t])
    BY <1>28 DEF Reap
  <2>2. t \in events
    <3>1. CASE pc = "task" /\ t = cur
      BY <3>1 DEF SetsInv, Handled
    <3>2. CASE pc = "iterate" /\ i < Size(active) /\ t = Get(active, i)
      BY <3>2, <1>0, <1>00, GetType DEF TypeOK, SetsInv, Handled
    <3> QED BY <1>28, <3>1, <3>2 DEF Reap
  <2>3. \A m \in Locked' : m \in Locked /\ owner'[m] = owner[m]
    BY <2>1, <1>0, LocksOwners DEF Locked
  <2>4. /\ SetsDisjoint' /\ Elements(active)' = Elements(active) \ {t}
        /\ Elements(inactive)' \subseteq Elements(inactive) \cup {t}
        /\ Elements(gray)' \subseteq Elements(gray)
    BY <2>1, <1>0, DeactivateSound
  <2> QED BY <1>28, <2>2, <2>3, <2>4 DEF Reap, SetsInv, Handled
<1>29. CASE EndIterate
  BY <1>29, <1>same DEF EndIterate
<1>30. CASE UNCHANGED vars
  BY <1>30, <1>same DEF vars, SetsInv, Handled
<1> QED
  BY <1>1, <1>2, <1>3, <1>4, <1>5, <1>6, <1>7, <1>8, <1>9, <1>10, <1>11, <1>12, <1>13,
     <1>14, <1>15, <1>16, <1>17, <1>18, <1>19, <1>20, <1>21, <1>22, <1>23, <1>24, <1>25,
     <1>26, <1>27, <1>28, <1>29, <1>30
  DEF Next, Manager, Program, Reschedule, Iterate

(* Through all adds, removes and moves, stops and mutex changes, the two   *)
(* sets stay in step with their index and no task is in both.              *)
THEOREM SetsStayDisjoint == Spec => []SetsDisjoint
<1>1. Init => SetsInv
  BY SetsInit, ConstantsAssumption
<1>2. SetsInv /\ [Next]_vars => SetsInv'
  BY SetsStep, ConstantsAssumption
<1>3. SetsInv => SetsDisjoint
  BY DEF SetsInv
<1> QED BY <1>1, <1>2, <1>3, PTL DEF Spec

-----------------------------------------------------------------------------
(* Locks.  The theorems are about tasks that restore no mutexes after they *)
(* have stopped: such a task keeps a lock after it has left.               *)

(* What activating and deactivating do to the locks, read off owner.       *)
Locks(t, ms) ==
    /\ Locked' = Locked \cup ms
    /\ \A m \in ms : owner'[m] = t
    /\ \A m \in Locked \ ms : owner'[m] = owner[m]

Releases(t) ==
    /\ Locked' = {m \in Locked : owner[m] # t}
    /\ \A m \in Locked' : owner'[m] = owner[m]

(* What WithLocks does to the owners (reschedule's lock loop).             *)
LEMMA WithLocksFacts ==
  ASSUME NEW t, NEW ms, owner' = WithLocks(t, ms)
  PROVE  Locks(t, ms)
  BY DEF Locks, WithLocks, Locked

(* A task has only locks it declares, so it releases them all.             *)
LEMMA WithoutLocksFacts ==
  ASSUME OwnedAreDeclared, NEW t, owner' = WithoutLocks(t, mutexes[t])
  PROVE  Releases(t)
  BY DEF Releases, WithoutLocks, Locked, OwnedAreDeclared

(* Releasing every mutex of a task leaves it none.                         *)
LEMMA WithoutAllFacts ==
  ASSUME TypeOK, NEW t, owner' = WithoutLocks(t, Mutexes)
  PROVE  Releases(t)
  BY DEF Releases, WithoutLocks, Locked, TypeOK

(* The gray items are in order, or the first loop of reschedule is stuck.  *)
LEMMA GrayCases ==
  ASSUME TypeOK, GrayInv
  PROVE  /\ (\E n \in Nat : GrayInOrder(n)) \/ GrayStuck
         /\ pc # "gray" => GrayInOrder(0)
<1>1. \A n \in Range(gray.keys) : n \in Int
  BY DEF TypeOK, IsSetOf, Range
<1> QED BY <1>1 DEF GrayInv

(* A set without elements has no items.                                    *)
LEMMA NoElements ==
  ASSUME NEW s, IsSetOf(s, Tasks), Elements(s) = {}
  PROVE  Size(s) = 0
<1>1. \A j \in 1 .. Len(s.items) : s.items[j] \in Elements(s)
  BY DEF IsSetOf, Elements, Range
<1>2. Len(s.items) \in Nat
  BY DEF IsSetOf
<1>3. ~(1 \in 1 .. Len(s.items))
  BY <1>1
<1> QED BY <1>2, <1>3 DEF Size

(* Any numbering of no items is as good as another.                        *)
LEMMA GrayEmpty ==
  ASSUME TypeOK, GrayInv, Size(gray) = 0
  PROVE  GrayInOrder(0)
<1>1. PICK n \in Nat : GrayInOrder(n)
  BY GrayCases DEF GrayStuck
<1>2. Len(gray.items) = 0
  BY DEF Size
<1> QED BY <1>1, <1>2 DEF GrayInOrder, IndexedFrom

(* Deactivating a task keeps the other gray items in order.                *)
LEMMA GrayRemoved ==
  ASSUME TypeOK, GrayInOrder(0), NEW t \in Tasks, gray' = Remove(gray, t),
         Elements(active)' = Elements(active) \ {t},
         \A u \in Elements(gray) \ {t} : OwnsNothing(u)'
  PROVE  GrayInOrder(0)' /\ Elements(gray)' \subseteq Elements(gray) \ {t}
<1>1. /\ IndexedFrom(gray', 0) /\ Elements(gray') \subseteq Elements(gray) \ {t}
      /\ \A y \in DOMAIN gray'.keys : gray'.keys[y] >= 0
  BY IndexedRemove DEF TypeOK, GrayInOrder
<1> QED BY <1>1 DEF GrayInOrder

(* Nor does a running task's turning gray disturb them.                    *)
LEMMA GrayAdded ==
  ASSUME TypeOK, GrayInOrder(0), NEW t \in Tasks, gray' = Add(gray, t),
         t \in Elements(active), UNCHANGED active, Releases(t)
  PROVE  GrayInOrder(0)' /\ \A u \in Tasks : Has(gray, u) \/ u = t => Has(gray', u)
<1>1. /\ IndexedFrom(gray', 0) /\ Elements(gray') \subseteq Elements(gray) \cup {t}
      /\ DOMAIN gray'.keys = DOMAIN gray.keys \cup {t}
      /\ \A y \in DOMAIN gray'.keys : gray'.keys[y] >= 0
  BY IndexedAdd DEF TypeOK, GrayInOrder
<1>2. \A u \in Elements(gray') : OwnsNothing(u)'
  BY <1>1 DEF GrayInOrder, OwnsNothing, Releases
<1> QED BY <1>1, <1>2 DEF GrayInOrder, Has

(* What is active is a task.                                               *)
LEMMA ActiveType == TypeOK => Elements(active) \subseteq Tasks
  BY DEF TypeOK, IsSetOf, Elements, Range

(* The lock invariant holds in the initial state.                          *)
LEMMA LockInit == ConstantsAssumption /\ Init => LockInv
<1> SUFFICES ASSUME ConstantsAssumption, Init PROVE LockInv
  OBVIOUS
<1>1. SetsDisjoint
  BY SetsInit DEF SetsInv
<1>2. Elements(active) = {} /\ Elements(inactive) = {} /\ Elements(gray) = {} /\ Locked = {}
  <2>1. Elements(EmptySet) = {}
    BY EmptyType
  <2> QED BY <2>1 DEF Init, Locked
<1>3. gray.items = << >> /\ gray.keys = << >>
  BY DEF Init, EmptySet
<1>4. GrayInOrder(0)
  BY <1>2, <1>3 DEF GrayInOrder, IndexedFrom
<1> QED BY <1>1, <1>2, <1>4
        DEF Init, LockInv, Known, OwnersAreActive, OwnedAreDeclared, GrayInv, StealInv, ActiveOwn

(* The steps that leave sets, locks and mutexes alone.                     *)
LEMMA LockQuiet ==
  ASSUME LockInv, UNCHANGED <<active, inactive, gray, owner, mutexes, events, listening>>,
         pc = "gray" => pc' = "gray",
         pc' \in {"activate", "steal"} => pc \in {"activate", "steal"},
         pc = "steal" => todo = {} \/ (pc' = "steal" /\ UNCHANGED <<cur, todo>>),
         pc' = "steal" => pc = "steal" /\ UNCHANGED <<cur, todo>>,
         pc' = "task" => cur' \in Elements(active)
  PROVE  LockInv'
<1>1. SetsDisjoint' /\ Known' /\ OwnersAreActive' /\ OwnedAreDeclared'
  BY DEF LockInv, SetsDisjoint, Known, OwnersAreActive, OwnedAreDeclared, Locked
<1>2. GrayInv'
  <2>1. ASSUME NEW n PROVE GrayInOrder(n) => GrayInOrder(n)'
    BY DEF GrayInOrder, OwnsNothing, Locked
  <2>2. GrayStuck => GrayStuck'
    BY DEF GrayStuck, OwnsNothing, Conflicts, Locked
  <2> QED BY <2>1, <2>2 DEF LockInv, GrayInv
<1>3. pc' \in {"activate", "steal"} => Size(gray)' = 0
  BY DEF LockInv
<1>4. StealInv'
  BY DEF LockInv, StealInv, Locked
<1>5. ActiveOwn'
  BY DEF LockInv, ActiveOwn, OwnsAll, Locked
<1> QED BY <1>1, <1>2, <1>3, <1>4, <1>5 DEF LockInv

(* deactivateTask of a task that holds no lock afterwards.                 *)
LEMMA LockDeactivated ==
  ASSUME TypeOK, LockInv, NEW t \in Tasks, DeactivateTask(t), Releases(t), UNCHANGED mutexes
  PROVE  /\ OwnersAreActive' /\ OwnedAreDeclared'
         /\ \A u \in Tasks : u # t /\ Has(gray, u) => Has(gray', u)
         /\ \A u \in Tasks : \A ms : u # t /\ OwnsAll(u, ms) => OwnsAll(u, ms)'
<1>1. SetsDisjoint
  BY DEF LockInv
<1>2. Elements(active)' = Elements(active) \ {t}
  BY <1>1, DeactivateSound
<1>3. OwnersAreActive' /\ OwnedAreDeclared'
  BY <1>2 DEF LockInv, OwnersAreActive, OwnedAreDeclared, Releases, Locked
<1>4. \A u \in Tasks : u # t /\ Has(gray, u) => Has(gray', u)
  <2>1. DOMAIN gray.keys \ {t} \subseteq DOMAIN Remove(gray, t).keys
    BY RemoveKeys DEF TypeOK
  <2> QED BY <2>1 DEF DeactivateTask, Has
<1>5. \A u \in Tasks : \A ms : u # t /\ OwnsAll(u, ms) => OwnsAll(u, ms)'
  BY DEF OwnsAll, Releases, Locked
<1> QED BY <1>3, <1>4, <1>5

(* The first loop of reschedule, at a gray task with a conflict: it is the *)
(* first item in order and is removed, or the loop is stuck from now on.   *)
LEMMA LockGrayConflict ==
  ASSUME TypeOK, TypeOK', SetsDisjoint', LockInv, GrayConflict
  PROVE  LockInv'
<1>0. IsSetOf(gray, Tasks) /\ Size(gray) > 0
  BY DEF GrayConflict, TypeOK
<1>2. PICK t \in Tasks : t = Get(gray, 0) /\ t \in Elements(gray)
  BY <1>0, GetType
<1>1. /\ pc = "gray" /\ Size(gray) > 0 /\ Conflicts(t) # {} /\ DeactivateTask(t)
      /\ owner' = WithoutLocks(t, mutexes[t])
      /\ UNCHANGED <<mutexes, events, listening, pc, cur, todo>>
  BY <1>2 DEF GrayConflict, taskVars, controlVars
<1>3. Releases(t)
  BY <1>1, WithoutLocksFacts DEF LockInv
<1>4. /\ gray' = Remove(gray, t) /\ Elements(active)' = Elements(active) \ {t}
      /\ Elements(inactive)' \subseteq Elements(inactive) \cup {t}
  BY <1>1, <1>2, DeactivateSound DEF LockInv, DeactivateTask
<1>5. PICK n \in Nat : GrayInOrder(n) \/ GrayStuck
  BY GrayCases DEF LockInv
<1>6. t \in events \cap listening /\ OwnsNothing(t)
  BY <1>2, <1>5 DEF GrayInOrder, GrayStuck, LockInv, Known
<1>7. Locked' = Locked /\ owner' = owner /\ Conflicts(t)' # {} /\ OwnsNothing(t)'
  <2>1. Locked' = Locked /\ \A m \in Locked : owner'[m] = owner[m]
    BY <1>3, <1>6 DEF Releases, OwnsNothing
  <2>2. owner' = owner
    BY <2>1 DEF TypeOK, Locked
  <2> QED BY <1>1, <1>6, <2>1, <2>2 DEF Conflicts, OwnsNothing
<1>8. GrayInv'
  <2>1. CASE GrayStuck
    <3>1. gray' = gray /\ t = Get(gray', 0)
      BY <1>2, <1>4, <2>1 DEF GrayStuck, Remove
    <3> QED BY <1>1, <1>6, <1>7, <2>1, <3>1 DEF GrayInv, GrayStuck
  <2>2. CASE GrayInOrder(n) /\ n = 0
    <3>1. \A u \in Elements(gray) \ {t} : OwnsNothing(u)'
      BY <1>7, <2>2 DEF GrayInOrder, OwnsNothing
    <3> QED BY <1>2, <1>4, <2>2, <3>1, GrayRemoved DEF GrayInv
  <2>3. CASE GrayInOrder(n) /\ n # 0
    <3>1. Size(gray') > 0 /\ Get(gray', 0) = t /\ ~Has(gray', t)
      BY <1>0, <1>2, <1>4, <2>3, ShiftedRemove DEF GrayInOrder
    <3> QED BY <1>1, <1>6, <1>7, <3>1 DEF GrayInv, GrayStuck
  <2> QED BY <1>5, <2>1, <2>2, <2>3
<1>9. /\ OwnersAreActive' /\ OwnedAreDeclared'
      /\ \A u \in Tasks : u # t /\ Has(gray, u) => Has(gray', u)
  BY <1>1, <1>2, <1>3, LockDeactivated
<1>10. ActiveOwn'
  BY <1>1, ActiveType, <1>4, <1>7, <1>9 DEF LockInv, ActiveOwn, OwnsAll
<1>11. Known'
  BY <1>1, <1>4, <1>6 DEF LockInv, Known
<1> QED BY <1>1, <1>8, <1>9, <1>10, <1>11 DEF LockInv, StealInv

(* Locking free mutexes leaves the other tasks theirs.                     *)
LEMMA LocksOthers ==
  ASSUME NEW t, NEW ms, Locks(t, ms), \A m \in ms \cap Locked : owner[m] = t
  PROVE  \A u : u # t =>
            /\ \A l : OwnsAll(u, l) => OwnsAll(u, l)'
            /\ OwnsNothing(u) => OwnsNothing(u)'
  BY DEF Locks, OwnsAll, OwnsNothing, Locked

(* The first loop of reschedule, at a gray task that keeps its place.      *)
LEMMA LockGrayKeep ==
  ASSUME TypeOK, TypeOK', SetsDisjoint', LockInv, GrayKeep
  PROVE  LockInv'
<1>0. IsSetOf(gray, Tasks) /\ Size(gray) > 0
  BY DEF GrayKeep, TypeOK
<1>1. PICK t \in Tasks : t = Get(gray, 0) /\ t \in Elements(gray)
  BY <1>0, GetType
<1>2. /\ pc = "gray" /\ Conflicts(t) = {} /\ owner' = WithLocks(t, mutexes[t]) /\ gray' = Shift(gray)
      /\ UNCHANGED <<mutexes, active, inactive, events, listening, pc, cur, todo>>
  BY <1>1 DEF GrayKeep, taskVars, controlVars, bookVars
<1>3. PICK n \in Nat : GrayInOrder(n)
  BY <1>1, <1>2, GrayCases DEF LockInv, GrayStuck
<1>4. Locks(t, mutexes[t])
  BY <1>2, WithLocksFacts
<1>5. \A u : u # t => /\ \A l : OwnsAll(u, l) => OwnsAll(u, l)'
                      /\ OwnsNothing(u) => OwnsNothing(u)'
  BY <1>2, <1>4, LocksOthers DEF Conflicts
<1>6. gray.items # << >>
  BY <1>0 DEF Size
<1>7. /\ IndexedFrom(gray', n + 1) /\ Elements(gray') \subseteq Elements(gray) \ {t}
      /\ gray'.keys = gray.keys
  BY <1>0, <1>1, <1>2, <1>3, <1>6, IndexedShift DEF GrayInOrder
<1>8. GrayInOrder(n + 1)'
  BY <1>2, <1>3, <1>5, <1>7 DEF GrayInOrder
<1>9. GrayInv'
  <2>1. Len(gray'.items) \in Nat
    BY DEF TypeOK, IsSetOf
  <2>2. CASE Len(gray'.items) = 0
    BY <1>8, <2>2 DEF GrayInv, GrayInOrder, IndexedFrom
  <2>3. CASE Len(gray'.items) > 0
    <3>1. gray'.items[1] \in DOMAIN gray'.keys /\ gray'.keys[gray'.items[1]] = n + 1
      BY <1>7, <2>1, <2>3 DEF IndexedFrom, Has
    <3>2. n + 1 \in Range(gray'.keys) /\ n + 1 >= 0
      BY <3>1 DEF Range
    <3> QED BY <1>2, <1>8, <3>2 DEF GrayInv
  <2> QED BY <2>1, <2>2, <2>3
<1>10. t \in Elements(active) /\ Has(gray, t)
  <2>1. Has(gray, gray.items[1])
    BY <1>0, <1>3 DEF GrayInOrder, IndexedFrom, Size, IsSetOf
  <2> QED BY <1>1, <1>3, <2>1 DEF GrayInOrder, Get
<1>11. OwnersAreActive' /\ OwnedAreDeclared'
  BY <1>2, <1>4, <1>10 DEF LockInv, OwnersAreActive, OwnedAreDeclared, Locks, Locked
<1>12. ActiveOwn'
  BY <1>2, <1>5, <1>7, <1>10 DEF LockInv, ActiveOwn, Has
<1> QED BY <1>2, <1>9, <1>11, <1>12 DEF LockInv, Known, StealInv

(* The end of the gray loop preserves the lock invariant.                  *)
LEMMA LockGrayDone ==
  ASSUME TypeOK, LockInv, GrayDone, SetsDisjoint'
  PROVE  LockInv'
<1>1. /\ pc = "gray" /\ Size(gray) = 0 /\ pc' = "activate"
      /\ UNCHANGED <<active, inactive, gray, owner, mutexes, events, listening>>
  BY DEF GrayDone, taskVars, setVars, bookVars
<1>2. GrayInOrder(0)'
  <2>1. GrayInOrder(0)
    BY <1>1, GrayEmpty DEF LockInv
  <2> QED BY <1>1, <2>1 DEF GrayInOrder, OwnsNothing, Locked
<1>3. Known' /\ OwnersAreActive' /\ OwnedAreDeclared' /\ ActiveOwn'
  BY <1>1 DEF LockInv, Known, OwnersAreActive, OwnedAreDeclared, ActiveOwn, OwnsAll, Locked
<1> QED BY <1>1, <1>2, <1>3 DEF LockInv, GrayInv, StealInv

(* A waiting task moves to the active ones.                                *)
LEMMA LockMoved ==
  ASSUME TypeOK, LockInv, NEW t \in Tasks, Candidate(t), active' = Add(active, t),
         inactive' = Remove(inactive, t)
  PROVE  /\ Elements(active)' = Elements(active) \cup {t}
         /\ Elements(inactive)' \subseteq Elements(inactive)
         /\ t \in Elements(inactive) /\ t \notin Elements(active)
         /\ OwnsNothing(t) /\ GrayInOrder(0) /\ Elements(gray) = {}
<1>1. Elements(active)' = Elements(active) \cup {t} /\ Elements(inactive)' \subseteq Elements(inactive)
  BY AddSound, RemoveSound DEF TypeOK, LockInv, SetsDisjoint
<1>2. t \in Elements(inactive)
  BY GetType DEF Candidate, TypeOK
<1>3. t \notin Elements(active) /\ OwnsNothing(t)
  BY <1>2 DEF LockInv, SetsDisjoint, OwnersAreActive, OwnsNothing
<1>4. pc = "activate" /\ Size(gray) = 0 /\ GrayInOrder(0)
  BY GrayCases DEF LockInv, Candidate
<1>5. Elements(gray) = {}
  BY <1>4 DEF Elements, Range, Size, TypeOK, IsSetOf
<1> QED BY <1>1, <1>2, <1>3, <1>4, <1>5

(* Activation without a conflict preserves the lock invariant.             *)
LEMMA LockActivate ==
  ASSUME TypeOK, LockInv, SetsDisjoint', NEW t \in Tasks, Activate(t)
  PROVE  LockInv'
<1>1. /\ Candidate(t) /\ Conflicts(t) = {} /\ active' = Add(active, t) /\ inactive' = Remove(inactive, t)
      /\ owner' = WithLocks(t, mutexes[t])
      /\ UNCHANGED <<mutexes, gray, events, listening, pc, cur, todo>>
  BY DEF Activate, taskVars, controlVars, bookVars
<1>2. /\ Elements(active)' = Elements(active) \cup {t}
      /\ Elements(inactive)' \subseteq Elements(inactive)
      /\ t \in Elements(inactive) /\ t \notin Elements(active)
      /\ GrayInOrder(0) /\ Elements(gray) = {}
  BY <1>1, LockMoved
<1>3. Locks(t, mutexes[t])
  BY <1>1, WithLocksFacts
<1>4. \A u : u # t => \A l : OwnsAll(u, l) => OwnsAll(u, l)'
  BY <1>1, <1>3, LocksOthers DEF Conflicts
<1>5. GrayInv'
  BY <1>1, <1>2 DEF GrayInv, GrayInOrder
<1>6. OwnersAreActive' /\ OwnedAreDeclared'
  BY <1>1, <1>2, <1>3 DEF LockInv, OwnersAreActive, OwnedAreDeclared, Locks, Locked
<1>7. pc' = "activate" /\ OwnsAll(t, mutexes[t])'
  BY <1>1, <1>3 DEF Candidate, OwnsAll, Locks, Locked
<1>8. ActiveOwn'
  BY <1>1, <1>2, <1>4, <1>7 DEF LockInv, ActiveOwn, Candidate, OwnsAll
<1> QED BY <1>1, <1>2, <1>5, <1>6, <1>7, <1>8 DEF LockInv, Known, StealInv

(* Activation by priority preserves the lock invariant.                    *)
LEMMA LockBeginSteal ==
  ASSUME TypeOK, LockInv, SetsDisjoint', NEW t \in Tasks, BeginSteal(t)
  PROVE  LockInv'
<1>1. /\ Candidate(t) /\ active' = Add(active, t) /\ inactive' = Remove(inactive, t)
      /\ pc' = "steal" /\ cur' = t /\ todo' = mutexes[t]
      /\ UNCHANGED <<mutexes, gray, owner, events, listening>>
  BY DEF BeginSteal, taskVars, bookVars
<1>2. /\ Elements(active)' = Elements(active) \cup {t}
      /\ Elements(inactive)' \subseteq Elements(inactive)
      /\ t \in Elements(inactive) /\ t \notin Elements(active)
      /\ OwnsNothing(t) /\ GrayInOrder(0) /\ Elements(gray) = {}
  BY <1>1, LockMoved
<1>3. GrayInv' /\ Known' /\ OwnersAreActive' /\ OwnedAreDeclared'
  BY <1>1, <1>2 DEF LockInv, GrayInv, GrayInOrder, Known, OwnersAreActive, OwnedAreDeclared, Locked
<1>4. StealInv'
  BY <1>1, <1>2 DEF StealInv, OwnsNothing, Locked
<1>5. ActiveOwn'
  BY <1>1, <1>2 DEF LockInv, ActiveOwn, Candidate, OwnsAll, Locked
<1> QED BY <1>1, <1>3, <1>4, <1>5 DEF LockInv, Candidate

(* A mutex is taken from its owner, who loses its place and all its locks. *)
LEMMA LockStealFromOwner ==
  ASSUME TypeOK, LockInv, SetsDisjoint', NEW m \in Mutexes, StealFromOwner(m)
  PROVE  LockInv'
<1> DEFINE rest == WithoutLocks(owner[m], mutexes[owner[m]])
<1>1. /\ pc = "steal" /\ m \in todo /\ m \in Locked /\ todo' = todo \ {m}
      /\ DeactivateTask(owner[m])
      /\ owner' = [l \in DOMAIN rest \cup {m} |-> IF l = m THEN cur ELSE rest[l]]
      /\ UNCHANGED <<mutexes, events, listening, pc, cur>>
  BY DEF StealFromOwner, taskVars
<1>2. PICK old \in Tasks : old = owner[m]
  BY <1>1 DEF TypeOK
<1>3. /\ old \in Elements(active) /\ cur \in Elements(active) /\ cur # old /\ cur \in Tasks
      /\ m \in mutexes[cur]
  BY <1>1, <1>2 DEF LockInv, OwnersAreActive, StealInv, TypeOK
<1>4. DOMAIN rest = {l \in Locked : owner[l] # old} /\ \A l \in DOMAIN rest : rest[l] = owner[l]
  BY <1>2 DEF LockInv, OwnedAreDeclared, WithoutLocks, Locked
<1> HIDE DEF rest
<1>5. /\ Locked' = {l \in Locked : owner[l] # old} \cup {m} /\ owner'[m] = cur
      /\ \A l \in Locked' \ {m} : owner'[l] = owner[l]
  BY <1>1, <1>4 DEF Locked
<1>6. /\ Elements(active)' = Elements(active) \ {old}
      /\ Elements(inactive)' \subseteq Elements(inactive) \cup {old}
      /\ gray' = Remove(gray, old)
  BY <1>1, <1>2, DeactivateSound DEF LockInv, DeactivateTask
<1>7. GrayInOrder(0) /\ Elements(gray) = {}
  BY <1>1, GrayCases DEF LockInv, Elements, Range, Size, TypeOK, IsSetOf
<1>8. GrayInOrder(0)' /\ Elements(gray)' = {}
  BY <1>6, <1>7, GrayRemoved
<1>9. Size(gray)' = 0
  <2>1. IsSetOf(gray', Tasks)
    BY <1>6, RemoveType DEF TypeOK
  <2> QED BY <1>8, <2>1, NoElements
<1>10. OwnersAreActive' /\ OwnedAreDeclared'
  BY <1>1, <1>3, <1>5, <1>6 DEF LockInv, OwnersAreActive, OwnedAreDeclared
<1>11. StealInv'
  BY <1>1, <1>3, <1>5, <1>6 DEF LockInv, StealInv
<1>12. ASSUME NEW u \in Elements(active) \ {old}
       PROVE  \/ Has(gray', u)
              \/ \A l \in mutexes[u] \ (IF u = cur THEN todo' ELSE {}) : l \in Locked' /\ owner'[l] = u
  <2>1. CASE Has(gray, u)
    <3>1. u \in DOMAIN gray.keys \ {old}
      BY <2>1 DEF Has
    <3> QED BY <1>6, <3>1, RemoveKeys DEF Has, TypeOK
  <2>2. CASE ~Has(gray, u)
    <3>1. \A l \in mutexes[u] \ (IF u = cur THEN todo ELSE {}) : l \in Locked /\ owner[l] = u
      BY <1>1, <2>2 DEF LockInv, ActiveOwn, OwnsAll
    <3>2. \A l \in mutexes[u] \ (IF u = cur THEN todo' ELSE {}) : l \in Locked' /\ owner'[l] = u
      BY <1>1, <1>2, <1>5, <3>1
    <3> QED BY <3>2
  <2> QED BY <2>1, <2>2
<1>13. ActiveOwn'
  BY <1>1, <1>6, <1>12 DEF ActiveOwn, OwnsAll
<1>14. Known'
  BY <1>1, <1>3, <1>6 DEF LockInv, Known
<1> QED BY <1>1, <1>8, <1>9, <1>10, <1>11, <1>13, <1>14 DEF LockInv, GrayInv

(* Taking a free mutex preserves the lock invariant.                       *)
LEMMA LockTakeFree ==
  ASSUME TypeOK, LockInv, SetsDisjoint', NEW m \in Mutexes, TakeFree(m)
  PROVE  LockInv'
<1>1. /\ pc = "steal" /\ m \in todo /\ m \notin Locked /\ todo' = todo \ {m}
      /\ owner' = WithLocks(cur, {m})
      /\ UNCHANGED <<mutexes, active, inactive, gray, events, listening, pc, cur>>
  BY DEF TakeFree, taskVars, bookVars
<1>2. Locks(cur, {m})
  BY <1>1, WithLocksFacts
<1>3. cur \in Elements(active) /\ m \in mutexes[cur]
  BY <1>1 DEF LockInv, StealInv
<1>4. GrayInOrder(0) /\ Elements(gray) = {}
  BY <1>1, GrayCases DEF LockInv, Elements, Range, Size, TypeOK, IsSetOf
<1>5. GrayInv' /\ Known'
  BY <1>1, <1>4 DEF LockInv, GrayInv, GrayInOrder, Known
<1>6. OwnersAreActive' /\ OwnedAreDeclared'
  BY <1>1, <1>2, <1>3 DEF LockInv, OwnersAreActive, OwnedAreDeclared, Locks
<1>7. StealInv'
  BY <1>1, <1>2, <1>3 DEF LockInv, StealInv, Locks
<1>8. ASSUME NEW u \in Elements(active), ~Has(gray, u)
      PROVE  \A l \in mutexes[u] \ (IF u = cur THEN todo' ELSE {}) : l \in Locked' /\ owner'[l] = u
  <2>1. \A l \in mutexes[u] \ (IF u = cur THEN todo ELSE {}) : l \in Locked /\ owner[l] = u
    BY <1>1, <1>8 DEF LockInv, ActiveOwn, OwnsAll
  <2>2. \A l \in mutexes[u] \ (IF u = cur THEN todo' ELSE {}) : l \in Locked' /\ owner'[l] = u
    BY <1>1, <1>2, <2>1 DEF Locks
  <2> QED BY <2>2
<1>9. ActiveOwn'
  BY <1>1, <1>8 DEF ActiveOwn, OwnsAll
<1> QED BY <1>1, <1>5, <1>6, <1>7, <1>9 DEF LockInv

(* A running active task announces that its mutexes change.                *)
LEMMA LockAnnounced ==
  ASSUME TypeOK, LockInv, SetsDisjoint', NEW t \in Tasks, t \in Elements(active),
         OnMutexesChanged(t, "RUNNING"),
         \A u \in Tasks \ {t} : mutexes'[u] = mutexes[u],
         pc \notin {"gray", "activate", "steal"},
         UNCHANGED <<active, inactive, events, listening, pc, cur>>
  PROVE  LockInv'
<1>1. t \in listening
  BY DEF LockInv, Known
<1>2. gray' = Add(gray, t) /\ owner' = WithoutLocks(t, Mutexes)
  BY <1>1 DEF OnMutexesChanged
<1>3. Releases(t)
  BY <1>2, WithoutAllFacts
<1>4. GrayInOrder(0)
  BY GrayCases DEF LockInv
<1>5. GrayInOrder(0)' /\ \A u \in Tasks : Has(gray, u) \/ u = t => Has(gray', u)
  BY <1>2, <1>3, <1>4, GrayAdded
<1>6. OwnersAreActive' /\ OwnedAreDeclared'
  BY <1>3 DEF LockInv, OwnersAreActive, OwnedAreDeclared, Releases, Locked, TypeOK
<1>7. ActiveOwn'
  <2>1. ASSUME NEW u \in Elements(active), u # t
        PROVE  Has(gray', u) \/ \A l \in mutexes'[u] : l \in Locked' /\ owner'[l] = u
    BY <1>3, <1>5, <2>1, ActiveType DEF LockInv, ActiveOwn, OwnsAll, Releases
  <2> QED BY <1>5, <2>1 DEF ActiveOwn, OwnsAll
<1>8. Known'
  BY DEF LockInv, Known
<1> QED BY <1>5, <1>6, <1>7, <1>8 DEF LockInv, GrayInv, StealInv

(* An ended task leaves.                                                   *)
LEMMA LockReap ==
  ASSUME TypeOK, LockInv, SetsDisjoint', NEW t \in Tasks, Reap(t)
  PROVE  LockInv'
<1>1. /\ pc \in {"iterate", "task"} /\ pc' = "iterate" /\ DeactivateTask(t)
      /\ owner' = WithoutLocks(t, mutexes[t]) /\ listening' = listening \ {t}
      /\ UNCHANGED <<mutexes, events>>
  BY DEF Reap, taskVars
<1>2. t \in Elements(active) /\ status[t] \in Ended
  <2>1. CASE pc = "task" /\ t = cur /\ status[t] \in Ended
    BY <2>1 DEF LockInv
  <2>2. CASE pc = "iterate" /\ i < Size(active) /\ t = Get(active, i) /\ status[t] = "STOPPED"
    BY <2>2, GetType DEF TypeOK, Ended
  <2> QED BY <2>1, <2>2 DEF Reap
<1>3. Releases(t)
  BY <1>1, WithoutLocksFacts DEF LockInv
<1>4. /\ Elements(active)' = Elements(active) \ {t} /\ inactive' = inactive
      /\ gray' = Remove(gray, t) /\ t \notin Elements(inactive)
  BY <1>1, <1>2, DeactivateSound DEF LockInv, DeactivateTask, SetsDisjoint
<1>5. /\ OwnersAreActive' /\ OwnedAreDeclared'
      /\ \A u \in Tasks : u # t /\ Has(gray, u) => Has(gray', u)
      /\ \A u \in Tasks : \A ms : u # t /\ OwnsAll(u, ms) => OwnsAll(u, ms)'
  BY <1>1, <1>3, LockDeactivated
<1>6. GrayInOrder(0)
  BY <1>1, GrayCases DEF LockInv
<1>7. GrayInv'
  <2>1. \A u \in Elements(gray) \ {t} : OwnsNothing(u)'
    BY <1>3, <1>6 DEF GrayInOrder, OwnsNothing, Releases
  <2> QED BY <1>4, <1>6, <2>1, GrayRemoved DEF GrayInv
<1>8. ActiveOwn'
  BY <1>1, <1>4, <1>5, ActiveType DEF LockInv, ActiveOwn, OwnsAll
<1>9. Known'
  BY <1>1, <1>4 DEF LockInv, Known
<1> QED BY <1>1, <1>5, <1>7, <1>8, <1>9 DEF LockInv, StealInv

(* One step of the manager or of the program.                              *)
LEMMA LockStep ==
  ConstantsAssumption /\ LateRestoring = {} /\ SetsInv /\ LockInv /\ [Next]_vars => LockInv'
<1> SUFFICES ASSUME ConstantsAssumption, LateRestoring = {}, SetsInv, LockInv, [Next]_vars
             PROVE  LockInv'
  OBVIOUS
<1> USE DEF taskVars, setVars, bookVars, controlVars
<1>0. TypeOK /\ TypeOK' /\ SetsDisjoint'
  BY SetsStep DEF SetsInv
<1>1. ASSUME NEW t \in Tasks, AddTask(t) PROVE LockInv'
  <2>1. /\ inactive' = Add(inactive, t) /\ events' = events \cup {t} /\ listening' = listening \cup {t}
        /\ UNCHANGED <<mutexes, active, gray, owner, pc, cur, todo>>
    BY <1>1 DEF AddTask
  <2>2. Elements(inactive') \subseteq Elements(inactive) \cup {t}
    BY <1>0, <2>1, AddElements DEF TypeOK
  <2>3. Known'
    BY <2>1, <2>2 DEF LockInv, Known
  <2>4. OwnersAreActive' /\ OwnedAreDeclared' /\ StealInv' /\ ActiveOwn'
    BY <2>1 DEF LockInv, OwnersAreActive, OwnedAreDeclared, StealInv, ActiveOwn, OwnsAll, Locked
  <2>5. GrayInv'
    <3>1. ASSUME NEW n PROVE GrayInOrder(n) => GrayInOrder(n)'
      BY <2>1 DEF GrayInOrder, OwnsNothing, Locked
    <3>2. GrayStuck => GrayStuck'
      BY <2>1 DEF GrayStuck, OwnsNothing, Conflicts, Locked
    <3> QED BY <2>1, <3>1, <3>2 DEF LockInv, GrayInv
  <2> QED BY <1>0, <2>1, <2>3, <2>4, <2>5 DEF LockInv
<1>2. ASSUME NEW t \in Tasks, Stop(t) PROVE LockInv'
  BY <1>2, LockQuiet DEF Stop, LockInv
<1>3. CASE StopAll
  BY <1>3, LockQuiet DEF StopAll, LockInv
<1>4. CASE BeginReschedule
  BY <1>4, LockQuiet DEF BeginReschedule
<1>5. CASE GrayConflict
  BY <1>0, <1>5, LockGrayConflict
<1>6. CASE GrayKeep
  BY <1>0, <1>6, LockGrayKeep
<1>7. CASE GrayDone
  BY <1>0, <1>7, LockGrayDone
<1>8. ASSUME NEW t \in Tasks, Discard(t) PROVE LockInv'
  <2>1. /\ inactive' = Remove(inactive, t) /\ pc = "activate"
        /\ UNCHANGED <<mutexes, active, gray, owner, events, listening, pc, cur, todo>>
    BY <1>8 DEF Discard, Candidate
  <2>2. Elements(inactive') \subseteq Elements(inactive)
    BY <1>0, <2>1, RemoveElements DEF TypeOK
  <2>3. Known' /\ OwnersAreActive' /\ OwnedAreDeclared' /\ ActiveOwn'
    BY <2>1, <2>2 DEF LockInv, Known, OwnersAreActive, OwnedAreDeclared, ActiveOwn, OwnsAll, Locked
  <2>4. GrayInv'
    BY <2>1 DEF LockInv, GrayInv, GrayInOrder, OwnsNothing, Locked
  <2> QED BY <1>0, <2>1, <2>3, <2>4 DEF LockInv, StealInv
<1>9. ASSUME NEW t \in Tasks, Activate(t) PROVE LockInv'
  BY <1>0, <1>9, LockActivate
<1>10. ASSUME NEW t \in Tasks, BeginSteal(t) PROVE LockInv'
  BY <1>0, <1>10, LockBeginSteal
<1>11. ASSUME NEW m \in Mutexes, StealFromOwner(m) PROVE LockInv'
  BY <1>0, <1>11, LockStealFromOwner
<1>12. ASSUME NEW m \in Mutexes, TakeFree(m) PROVE LockInv'
  BY <1>0, <1>12, LockTakeFree
<1>13. CASE EndSteal
  BY <1>13, LockQuiet DEF EndSteal
<1>14. ASSUME NEW t \in Tasks, Skip(t) PROVE LockInv'
  BY <1>14, LockQuiet DEF Skip, Candidate
<1>15. CASE ActivateDone
  BY <1>15, LockQuiet DEF ActivateDone
<1>16. ASSUME NEW t \in Tasks, Awaken(t) PROVE LockInv'
  <2>1. CASE OnMutexesChanged(t, "RUNNING")
    <3>1. t \in Elements(active)
      BY <1>0, <1>16, GetType DEF Awaken, TypeOK
    <3>2. pc = "resume" /\ UNCHANGED <<mutexes, active, inactive, events, listening, pc, cur>>
      BY <1>16 DEF Awaken
    <3> QED BY <1>0, <2>1, <3>1, <3>2, LockAnnounced
  <2>2. CASE UNCHANGED <<gray, owner, shouldReschedule>>
    BY <1>16, <2>2, LockQuiet DEF Awaken
  <2> QED BY <1>16, <2>1, <2>2 DEF Awaken
<1>17. ASSUME NEW t \in Tasks, LeaveAwake(t) PROVE LockInv'
  BY <1>17, LockQuiet DEF LeaveAwake
<1>18. CASE ResumeDone
  BY <1>18, LockQuiet DEF ResumeDone
<1>19. ASSUME NEW t \in Tasks, Interrupt(t) PROVE LockInv'
  BY <1>19, LockQuiet DEF Interrupt
<1>20. CASE EndReschedule
  BY <1>20, LockQuiet DEF EndReschedule
<1>21. CASE BeginIterate
  BY <1>21, LockQuiet DEF BeginIterate
<1>22. ASSUME NEW t \in Tasks, EnterTask(t) PROVE LockInv'
  <2>1. t \in Elements(active)
    BY <1>0, <1>22, GetType DEF EnterTask, TypeOK
  <2> QED BY <1>22, <2>1, LockQuiet DEF EnterTask
<1>23. ASSUME NEW ms \in MutexLists, SetMutexes(ms) PROVE LockInv'
  <2>1. /\ pc = "task" /\ status[cur] = "RUNNING" /\ mutexes' = [mutexes EXCEPT ![cur] = ms]
        /\ OnMutexesChanged(cur, status[cur])
        /\ UNCHANGED <<active, inactive, events, listening, pc, cur>>
    BY <1>23 DEF SetMutexes
  <2>2. PICK t \in Tasks : t = cur /\ t \in Elements(active)
    BY <1>0, <2>1 DEF LockInv, TypeOK
  <2>3. \A u \in Tasks \ {t} : mutexes'[u] = mutexes[u]
    BY <1>0, <2>1, <2>2 DEF TypeOK
  <2> QED BY <1>0, <2>1, <2>2, <2>3, LockAnnounced
<1>24. ASSUME NEW ms \in MutexLists, RestoreLate(ms) PROVE LockInv'
  BY <1>24 DEF RestoreLate
<1>25. CASE SetDone
  BY <1>25, LockQuiet DEF SetDone, LockInv
<1>26. CASE SetStopped
  BY <1>26, LockQuiet DEF SetStopped, LockInv
<1>27. CASE LeaveTask
  BY <1>27, LockQuiet DEF LeaveTask
<1>28. ASSUME NEW t \in Tasks, Reap(t) PROVE LockInv'
  BY <1>0, <1>28, LockReap
<1>29. CASE EndIterate
  BY <1>29, LockQuiet DEF EndIterate
<1>30. CASE UNCHANGED vars
  BY <1>30, LockQuiet DEF vars, LockInv
<1> QED
  BY <1>1, <1>2, <1>3, <1>4, <1>5, <1>6, <1>7, <1>8, <1>9, <1>10, <1>11, <1>12, <1>13,
     <1>14, <1>15, <1>16, <1>17, <1>18, <1>19, <1>20, <1>21, <1>22, <1>23, <1>24, <1>25,
     <1>26, <1>27, <1>28, <1>29, <1>30
  DEF Next, Manager, Program, Reschedule, Iterate

(* The discipline of the locks, in every state, inside reschedule too.     *)
THEOREM LockDiscipline == ASSUME LateRestoring = {} PROVE Spec => []LockInv
<1>1. Init => SetsInv /\ LockInv
  BY SetsInit, LockInit, ConstantsAssumption
<1>2. SetsInv /\ LockInv /\ [Next]_vars => (SetsInv /\ LockInv)'
  BY SetsStep, LockStep, ConstantsAssumption
<1> QED BY <1>1, <1>2, PTL DEF Spec

(* Whoever holds a lock is active, whatever the tasks do to their mutexes. *)
THEOREM OwnersStayActive == ASSUME LateRestoring = {} PROVE Spec => []OwnersAreActive
<1>1. LockInv => OwnersAreActive
  BY DEF LockInv
<1> QED BY <1>1, LockDiscipline, PTL

(* First changes.  The key of a task that has changed its mutexes may stay *)
(* behind in the index of the gray set; the key of one that has not is     *)
(* never there, so that its first change is entered and stays entered as   *)
(* long as no other task's key is removed.                                 *)

\* What t has not taken yet, and that it holds all the rest.
Untaken(t) == IF pc = "steal" /\ t = cur THEN todo ELSE {}
Holds(t) == OwnsAll(t, mutexes[t] \ Untaken(t))

Marked(t) == Has(gray, t) \/ t \in Elements(gray)

FirstInv ==
    /\ \A t \in Tasks : Marked(t) => Changes(t) >= 1
    /\ \A t \in Elements(active) : OnlyChange(t) => t \in Elements(gray) \/ Holds(t)

\* No task has changed its mutexes less often than before.
Grow == \A t \in Tasks : Changes(t) \in Nat /\ Changes(t)' \in Nat /\ Changes(t)' >= Changes(t)

(* Changes are counted up only: no task gets INACTIVE again.               *)
LEMMA ChangesGrow ==
  ASSUME ConstantsAssumption, TypeOK, TypeOK', [Next]_vars
  PROVE  Grow
<1> USE DEF taskVars, setVars, bookVars, controlVars
<1>1. ASSUME NEW t \in Tasks
      PROVE  changes[t] \in Nat /\ changes'[t] \in Nat /\ changes'[t] >= changes[t]
                /\ (status[t] # "INACTIVE" => status'[t] # "INACTIVE")
  <2>0. changes[t] \in Nat /\ changes'[t] \in Nat
    BY DEF TypeOK, ConstantsAssumption
  <2>1. CASE UNCHANGED <<changes, status>>
    BY <2>0, <2>1
  <2>2. ASSUME NEW u \in Tasks, AddTask(u) \/ Discard(u) \/ Activate(u) \/ BeginSteal(u) \/ Skip(u)
                                \/ LeaveAwake(u) \/ EnterTask(u) \/ Reap(u)
        PROVE  UNCHANGED <<changes, status>>
    BY <2>2 DEF AddTask, Discard, Activate, BeginSteal, Skip, LeaveAwake, EnterTask, Reap
  <2>3. ASSUME NEW u \in Tasks, Stop(u) \/ Awaken(u) \/ Interrupt(u)
        PROVE  UNCHANGED changes /\ (status'[t] = status[t] \/ status'[t] # "INACTIVE")
    BY <2>3 DEF Stop, Awaken, Interrupt, TypeOK
  <2>4. ASSUME SetDone \/ SetStopped \/ StopAll
        PROVE  UNCHANGED changes /\ (status'[t] = status[t] \/ status'[t] # "INACTIVE")
    BY <2>4 DEF SetDone, SetStopped, StopAll, TypeOK
  <2>5. ASSUME NEW ms \in MutexLists, SetMutexes(ms) \/ RestoreLate(ms)
        PROVE  UNCHANGED status /\ changes'[t] >= changes[t]
    BY <2>0, <2>5 DEF SetMutexes, RestoreLate, TypeOK
  <2>6. ASSUME NEW m \in Mutexes, StealFromOwner(m) \/ TakeFree(m) PROVE UNCHANGED <<changes, status>>
    BY <2>6 DEF StealFromOwner, TakeFree
  <2>7. CASE BeginReschedule \/ GrayConflict \/ GrayKeep \/ GrayDone \/ EndSteal \/ ActivateDone
    BY <2>1, <2>7 DEF BeginReschedule, GrayConflict, GrayKeep, GrayDone, EndSteal, ActivateDone
  <2>8. CASE ResumeDone \/ EndReschedule \/ BeginIterate \/ LeaveTask \/ EndIterate \/ UNCHANGED vars
    BY <2>1, <2>8 DEF ResumeDone, EndReschedule, BeginIterate, LeaveTask, EndIterate, vars
  <2> QED
    BY <2>0, <2>1, <2>2, <2>3, <2>4, <2>5, <2>6, <2>7, <2>8
    DEF Next, Manager, Program, Reschedule, Iterate
<1> QED BY <1>1 DEF Grow, Changes

(* What grows was smaller before.                                          *)
LEMMA OnlyBefore ==
  ASSUME Grow, NEW t \in Tasks, OnlyChange(t)'
  PROVE  OnlyChange(t) /\ \A u \in Tasks \ {t} : Changes(u)' = 0 /\ Changes(u) = 0
<1>1. Changes(t)' <= 1 /\ \A u \in Tasks \ {t} : Changes(u)' = 0
  BY DEF OnlyChange
<1>2. Changes(t) <= 1
  BY <1>1 DEF Grow
<1>3. \A u \in Tasks \ {t} : Changes(u) = 0
  BY <1>1 DEF Grow
<1> QED BY <1>1, <1>2, <1>3 DEF OnlyChange

(* What is marked stays accounted for while the marks get no more.         *)
LEMMA MarksKept ==
  ASSUME Grow, FirstInv, \A t \in Tasks : Marked(t)' => Marked(t)
  PROVE  \A t \in Tasks : Marked(t)' => Changes(t)' >= 1
<1>1. ASSUME NEW t \in Tasks, Marked(t)' PROVE Changes(t)' >= 1
  <2>1. Changes(t) >= 1
    BY <1>1 DEF FirstInv
  <2> QED BY <2>1 DEF Grow
<1> QED BY <1>1

(* The steps that leave active, gray, the locks and the mutexes alone.     *)
LEMMA FirstQuiet ==
  ASSUME TypeOK, Grow, FirstInv, UNCHANGED <<active, gray, owner, mutexes>>,
         \/ pc' # "steal" /\ (pc = "steal" => todo = {})
         \/ UNCHANGED <<pc, cur, todo>>
  PROVE  FirstInv'
<1>1. \A t \in Tasks : Marked(t)' => Changes(t)' >= 1
  BY MarksKept DEF Marked
<1>2. \A t \in Tasks : Holds(t) => Holds(t)'
  BY DEF Holds, Untaken, OwnsAll, Locked
<1>3. ASSUME NEW t \in Elements(active)', OnlyChange(t)' PROVE t \in Elements(gray)' \/ Holds(t)'
  <2>1. t \in Tasks /\ t \in Elements(active)
    BY ActiveType
  <2>2. OnlyChange(t)
    BY <1>3, <2>1, OnlyBefore
  <2> QED BY <1>2, <2>1, <2>2 DEF FirstInv
<1> QED BY <1>1, <1>3 DEF FirstInv

(* deactivateTask: of a task that has changed nothing, no mark is removed. *)
LEMMA FirstDeactivated ==
  ASSUME TypeOK, LockInv, Grow, FirstInv, NEW u \in Tasks, DeactivateTask(u),
         \A t \in Tasks \ {u} : Holds(t) => Holds(t)'
  PROVE  FirstInv'
<1>1. gray' = Remove(gray, u) /\ Elements(active)' = Elements(active) \ {u}
        /\ Elements(gray)' \subseteq Elements(gray)
  BY DeactivateSound DEF DeactivateTask, LockInv
<1>2. ASSUME NEW t \in Tasks, Marked(t)' PROVE Marked(t)
  <2>1. DOMAIN gray'.keys \subseteq DOMAIN gray.keys \cup Elements(gray')
    <3>1. CASE ~Has(gray, u)
      BY <1>1, <3>1 DEF Remove
    <3>2. CASE Has(gray, u)
      <4> DEFINE k    == gray.keys[u]
                 rest == Splice(gray.items, k)
                 back == {rest[j] : j \in {n \in 1 .. Len(rest) : n > k}}
                 left == DOMAIN gray.keys \ {u}
      <4>1. gray'.items = rest /\ DOMAIN gray'.keys = left \cup back
        BY <1>1, <3>2 DEF Remove
      <4>2. k \in Int /\ rest \in Seq(Tasks)
        BY <3>2, SpliceType DEF TypeOK, IsSetOf, Has
      <4>3. DOMAIN rest = 1 .. Len(rest)
        BY <4>2
      <4> HIDE DEF rest, k
      <4>4. back \subseteq Elements(gray')
        BY <4>1, <4>3 DEF Elements, Range
      <4> QED BY <4>1, <4>4
    <3> QED BY <3>1, <3>2
  <2> QED BY <1>1, <1>2, <2>1 DEF Marked, Has
<1>3. \A t \in Tasks : Marked(t)' => Changes(t)' >= 1
  BY <1>2, MarksKept
<1>4. ASSUME NEW t \in Elements(active)', OnlyChange(t)' PROVE t \in Elements(gray)' \/ Holds(t)'
  <2>1. t \in Tasks /\ t \in Elements(active) /\ t # u
    BY <1>1, ActiveType
  <2>2. OnlyChange(t) /\ Changes(u) = 0
    BY <1>4, <2>1, OnlyBefore
  <2>3. ~Has(gray, u)
    BY <2>2 DEF FirstInv, Marked
  <2>4. gray' = gray
    BY <1>1, <2>3 DEF Remove
  <2> QED BY <2>1, <2>2, <2>4 DEF FirstInv
<1> QED BY <1>3, <1>4 DEF FirstInv

(* A running task turns gray: at its first change it had no key.           *)
LEMMA FirstAnnounced ==
  ASSUME TypeOK, LockInv, Grow, FirstInv, NEW u \in Tasks, u \in Elements(active),
         OnMutexesChanged(u, "RUNNING"), Changes(u)' >= Changes(u) + 1, UNCHANGED active
  PROVE  FirstInv'
<1>1. gray' = Add(gray, u)
  BY DEF OnMutexesChanged, LockInv, Known
<1>2. Elements(gray)' \subseteq Elements(gray) \cup {u} /\ DOMAIN gray'.keys = DOMAIN gray.keys \cup {u}
  <2>1. DOMAIN Add(gray, u).keys = DOMAIN gray.keys \cup {u}
    BY DEF Add, Has
  <2> QED BY <1>1, <2>1, AddElements DEF TypeOK
<1>3. ASSUME NEW t \in Tasks, Marked(t)' PROVE Changes(t)' >= 1
  <2>1. CASE t = u
    BY <2>1 DEF Grow
  <2>2. CASE t # u
    <3>1. Marked(t)
      BY <1>2, <1>3, <2>2 DEF Marked, Has
    <3>2. Changes(t) >= 1
      BY <3>1 DEF FirstInv
    <3> QED BY <3>2 DEF Grow
  <2> QED BY <2>1, <2>2
<1>4. ASSUME NEW t \in Elements(active)', OnlyChange(t)' PROVE t \in Elements(gray)'
  <2>1. t \in Tasks
    BY ActiveType
  <2>2. Changes(u) \in Nat /\ Changes(u)' \in Nat
    BY DEF Grow
  <2>3. t = u
    <3>1. Changes(u)' # 0
      BY <2>2
    <3> QED BY <1>4, <2>1, <3>1, OnlyBefore
  <2>4. Changes(u)' <= 1
    BY <1>4, <2>3 DEF OnlyChange
  <2>5. ~(Changes(u) >= 1)
    BY <2>2, <2>4
  <2>6. ~Has(gray, u)
    BY <2>5 DEF FirstInv, Marked
  <2>7. gray'.items = Append(gray.items, u) /\ gray.items \in Seq(Tasks)
    BY <1>1, <2>6 DEF Add, TypeOK, IsSetOf
  <2>8. /\ Len(gray.items) + 1 \in DOMAIN Append(gray.items, u)
        /\ Append(gray.items, u)[Len(gray.items) + 1] = u
    BY <2>7
  <2> QED BY <2>3, <2>7, <2>8 DEF Elements, Range
<1> QED BY <1>3, <1>4 DEF FirstInv

(* The first loop of reschedule, at a gray task that keeps its place: it   *)
(* loses its item and gets its locks.                                      *)
LEMMA FirstGrayKeep ==
  ASSUME TypeOK, Grow, FirstInv, GrayKeep
  PROVE  FirstInv'
<1>0. IsSetOf(gray, Tasks) /\ Size(gray) > 0
  BY DEF GrayKeep, TypeOK
<1>1. PICK u \in Tasks : u = Get(gray, 0) /\ u \in Elements(gray)
  BY <1>0, GetType
<1>2. /\ owner' = WithLocks(u, mutexes[u]) /\ gray' = Shift(gray)
      /\ pc' = "gray" /\ UNCHANGED <<active, mutexes>>
  BY <1>1 DEF GrayKeep, taskVars, controlVars
<1>3. gray.items # << >>
  BY <1>0 DEF Size
<1>4. Elements(gray)' \subseteq Elements(gray) /\ gray'.keys = gray.keys
  BY <1>0, <1>2, <1>3, ShiftElements DEF Shift
<1>5. \A t \in Tasks : Marked(t)' => Changes(t)' >= 1
  BY <1>4, MarksKept DEF Marked, Has
<1>6. ASSUME NEW t \in Elements(active)', OnlyChange(t)' PROVE Holds(t)'
  <2>1. t \in Tasks
    BY <1>2, ActiveType
  <2>2. Changes(u) >= 1
    BY <1>1 DEF FirstInv, Marked
  <2>3. t = u
    BY <1>6, <2>1, <2>2, OnlyBefore
  <2> QED BY <1>2, <2>3 DEF Holds, OwnsAll, WithLocks, Locked
<1> QED BY <1>5, <1>6 DEF FirstInv

(* The loop over the inactive tasks, at one that is activated.             *)
LEMMA FirstActivated ==
  ASSUME TypeOK, LockInv, Grow, FirstInv, NEW u \in Tasks, Activate(u) \/ BeginSteal(u)
  PROVE  FirstInv'
<1>1. /\ Candidate(u) /\ active' = Add(active, u) /\ inactive' = Remove(inactive, u)
      /\ UNCHANGED <<mutexes, gray>>
  BY DEF Activate, BeginSteal, taskVars
<1>2. Elements(active)' = Elements(active) \cup {u} /\ pc = "activate"
  BY <1>1, LockMoved DEF Candidate
<1>3. Holds(u)' /\ \A t \in Tasks \ {u} : Holds(t) => Holds(t)'
  <2>1. CASE Activate(u)
    <3>1. owner' = WithLocks(u, mutexes[u]) /\ pc' = "activate" /\ mutexes[u] \cap Locked = {}
      BY <2>1 DEF Activate, Conflicts, controlVars, Candidate
    <3> QED BY <1>1, <1>2, <3>1 DEF Holds, Untaken, OwnsAll, WithLocks, Locked
  <2>2. CASE BeginSteal(u)
    <3>1. owner' = owner /\ pc' = "steal" /\ cur' = u /\ todo' = mutexes[u]
      BY <2>2 DEF BeginSteal
    <3> QED BY <1>1, <1>2, <3>1 DEF Holds, Untaken, OwnsAll, Locked
  <2> QED BY <2>1, <2>2
<1>4. \A t \in Tasks : Marked(t)' => Changes(t)' >= 1
  BY <1>1, MarksKept DEF Marked
<1>5. ASSUME NEW t \in Elements(active)', OnlyChange(t)' PROVE t \in Elements(gray)' \/ Holds(t)'
  <2>1. t \in Tasks
    BY <1>2, ActiveType
  <2>2. CASE t = u
    BY <1>3, <2>2
  <2>3. CASE t # u
    BY <1>1, <1>2, <1>3, <1>5, <2>1, <2>3, OnlyBefore DEF FirstInv
  <2> QED BY <2>2, <2>3
<1> QED BY <1>4, <1>5 DEF FirstInv

(* A task takes one of its mutexes, from its owner or not.                 *)
LEMMA FirstTaken ==
  ASSUME TypeOK, LockInv, Grow, FirstInv, NEW m \in Mutexes, StealFromOwner(m) \/ TakeFree(m)
  PROVE  FirstInv'
<1>1. CASE StealFromOwner(m)
  <2> DEFINE rest == WithoutLocks(owner[m], mutexes[owner[m]])
  <2>1. /\ pc = "steal" /\ pc' = "steal" /\ m \in Locked /\ todo' = todo \ {m}
        /\ DeactivateTask(owner[m]) /\ UNCHANGED <<mutexes, cur>>
        /\ owner' = [l \in DOMAIN rest \cup {m} |-> IF l = m THEN cur ELSE rest[l]]
    BY <1>1 DEF StealFromOwner, taskVars
  <2>2. PICK old \in Tasks : old = owner[m]
    BY <2>1 DEF TypeOK
  <2>3. \A l \in Locked : owner[l] # old => l \in DOMAIN rest /\ rest[l] = owner[l]
    BY <2>2 DEF WithoutLocks, Locked
  <2> HIDE DEF rest
  <2>4. \A t \in Tasks \ {old} : Holds(t) => Holds(t)'
    BY <2>1, <2>2, <2>3 DEF Holds, Untaken, OwnsAll, Locked
  <2> QED BY <2>1, <2>2, <2>4, FirstDeactivated
<1>2. CASE TakeFree(m)
  <2>1. /\ pc = "steal" /\ pc' = "steal" /\ m \notin Locked /\ todo' = todo \ {m}
        /\ owner' = WithLocks(cur, {m}) /\ UNCHANGED <<mutexes, cur, active, gray>>
    BY <1>2 DEF TakeFree, taskVars
  <2>2. \A t \in Tasks : Holds(t) => Holds(t)'
    BY <2>1 DEF Holds, Untaken, OwnsAll, WithLocks, Locked
  <2>3. \A t \in Tasks : Marked(t)' => Changes(t)' >= 1
    BY <2>1, MarksKept DEF Marked
  <2>4. ASSUME NEW t \in Elements(active)', OnlyChange(t)' PROVE t \in Elements(gray)' \/ Holds(t)'
    BY <2>1, <2>2, <2>4, OnlyBefore, ActiveType DEF FirstInv
  <2> QED BY <2>3, <2>4 DEF FirstInv
<1> QED BY <1>1, <1>2

(* One step of the manager or of the program.                              *)
LEMMA FirstStep ==
  ASSUME ConstantsAssumption, LateRestoring = {}, TypeOK, TypeOK', LockInv, FirstInv, [Next]_vars
  PROVE  FirstInv'
<1> USE DEF taskVars, setVars, bookVars, controlVars
<1>0. Grow
  BY ChangesGrow
<1>q. ASSUME UNCHANGED <<active, gray, owner, mutexes>>,
             \/ pc' # "steal" /\ (pc = "steal" => todo = {})
             \/ UNCHANGED <<pc, cur, todo>>
      PROVE  FirstInv'
  BY <1>0, <1>q, FirstQuiet
<1>1. ASSUME NEW t \in Tasks, AddTask(t) \/ Stop(t) \/ Discard(t) \/ Skip(t) PROVE FirstInv'
  BY <1>1, <1>q DEF AddTask, Stop, Discard, Skip, Candidate
<1>2. ASSUME NEW t \in Tasks, LeaveAwake(t) \/ Interrupt(t) \/ EnterTask(t) PROVE FirstInv'
  BY <1>2, <1>q DEF LeaveAwake, Interrupt, EnterTask
<1>3. CASE StopAll \/ SetDone \/ SetStopped \/ BeginReschedule \/ GrayDone \/ EndSteal
  BY <1>3, <1>q DEF StopAll, SetDone, SetStopped, BeginReschedule, GrayDone, EndSteal
<1>4. CASE ActivateDone \/ ResumeDone \/ EndReschedule \/ BeginIterate \/ LeaveTask \/ EndIterate
  BY <1>4, <1>q DEF ActivateDone, ResumeDone, EndReschedule, BeginIterate, LeaveTask, EndIterate
<1>5. CASE UNCHANGED vars
  BY <1>5, <1>q DEF vars
<1>6. CASE GrayConflict
  <2>1. PICK t \in Tasks : t = Get(gray, 0)
    BY <1>6, GetType DEF GrayConflict, TypeOK
  <2>2. /\ DeactivateTask(t) /\ owner' = WithoutLocks(t, mutexes[t])
        /\ UNCHANGED <<mutexes, pc, cur, todo>>
    BY <1>6, <2>1 DEF GrayConflict
  <2>3. \A u \in Tasks \ {t} : Holds(u) => Holds(u)'
    BY <2>2 DEF Holds, Untaken, OwnsAll, WithoutLocks, Locked
  <2> QED BY <1>0, <2>2, <2>3, FirstDeactivated
<1>7. CASE GrayKeep
  BY <1>0, <1>7, FirstGrayKeep
<1>8. ASSUME NEW t \in Tasks, Activate(t) \/ BeginSteal(t) PROVE FirstInv'
  BY <1>0, <1>8, FirstActivated
<1>9. ASSUME NEW m \in Mutexes, StealFromOwner(m) \/ TakeFree(m) PROVE FirstInv'
  BY <1>0, <1>9, FirstTaken
<1>10. ASSUME NEW t \in Tasks, Awaken(t) PROVE FirstInv'
  <2>1. CASE status[t] = "INACTIVE" /\ t \in Announcing
    <3>1. t \in Elements(active)
      BY <1>10, GetType DEF Awaken, TypeOK
    <3>2. OnMutexesChanged(t, "RUNNING") /\ UNCHANGED active
      BY <1>10, <2>1 DEF Awaken
    <3>3. Changes(t) = changes[t] + 0 /\ Changes(t)' = changes[t] + 1
      BY <1>10, <2>1 DEF Awaken, Changes, TypeOK
    <3>4. changes[t] \in Nat
      BY DEF TypeOK, ConstantsAssumption
    <3>5. Changes(t)' >= Changes(t) + 1
      BY <3>3, <3>4
    <3> QED BY <1>0, <3>1, <3>2, <3>5, FirstAnnounced
  <2>2. CASE ~(status[t] = "INACTIVE" /\ t \in Announcing)
    BY <1>10, <1>q, <2>2 DEF Awaken
  <2> QED BY <2>1, <2>2
<1>11. ASSUME NEW ms \in MutexLists, SetMutexes(ms) PROVE FirstInv'
  <2>1. PICK t \in Tasks : t = cur /\ t \in Elements(active)
    BY <1>11 DEF SetMutexes, LockInv, TypeOK
  <2>2. /\ OnMutexesChanged(t, "RUNNING") /\ UNCHANGED <<active, status>>
        /\ changes' = [changes EXCEPT ![t] = @ + 1]
    BY <1>11, <2>1 DEF SetMutexes
  <2>3. changes[t] \in Nat /\ changes'[t] = changes[t] + 1
    BY <2>2 DEF TypeOK, ConstantsAssumption
  <2>4. Changes(t)' >= Changes(t) + 1
    BY <2>2, <2>3 DEF Changes
  <2> QED BY <1>0, <2>1, <2>2, <2>4, FirstAnnounced
<1>12. ASSUME NEW ms \in MutexLists, RestoreLate(ms) PROVE FirstInv'
  BY <1>12 DEF RestoreLate
<1>13. ASSUME NEW t \in Tasks, Reap(t) PROVE FirstInv'
  <2>1. /\ DeactivateTask(t) /\ owner' = WithoutLocks(t, mutexes[t]) /\ UNCHANGED mutexes
        /\ pc # "steal" /\ pc' # "steal"
    BY <1>13 DEF Reap
  <2>2. \A u \in Tasks \ {t} : Holds(u) => Holds(u)'
    BY <2>1 DEF Holds, Untaken, OwnsAll, WithoutLocks, Locked
  <2> QED BY <1>0, <2>1, <2>2, FirstDeactivated
<1> QED
  BY <1>1, <1>2, <1>3, <1>4, <1>5, <1>6, <1>7, <1>8, <1>9, <1>10, <1>11, <1>12, <1>13
  DEF Next, Manager, Program, Reschedule, Iterate

(* When the manager is between its loops, an active task owns all its      *)
(* mutexes or is in the list of gray tasks; only a key that was left       *)
(* behind at an earlier change, its own or another task's, can cost it     *)
(* both.                                                                   *)
THEOREM ActiveOwnTheirMutexes == ASSUME LateRestoring = {} PROVE Spec => []ActiveOwnUnlessGray
<1>1. Init => FirstInv
  <2> SUFFICES ASSUME Init PROVE FirstInv
    OBVIOUS
  <2>1. Elements(active) = {} /\ Elements(gray) = {} /\ gray.keys = << >>
    BY EmptyType DEF Init, EmptySet
  <2> QED BY <2>1 DEF FirstInv, Marked, Has
<1>2. SetsInv /\ LockInv /\ FirstInv /\ [Next]_vars => (SetsInv /\ LockInv /\ FirstInv)'
  <2> SUFFICES ASSUME SetsInv, LockInv, FirstInv, [Next]_vars
               PROVE  SetsInv' /\ LockInv' /\ FirstInv'
    OBVIOUS
  <2>1. SetsInv' /\ LockInv'
    BY SetsStep, LockStep, ConstantsAssumption
  <2> QED BY <2>1, FirstStep, ConstantsAssumption DEF SetsInv
<1>3. LockInv /\ FirstInv => ActiveOwnUnlessGray
  <2> SUFFICES ASSUME LockInv, FirstInv, AtRest, NEW t \in Elements(active)
               PROVE  \/ OwnsAll(t, mutexes[t]) \/ t \in Elements(gray)
                      \/ Has(gray, t) /\ ~OnlyChange(t)
    BY DEF ActiveOwnUnlessGray
  <2>1. Untaken(t) = {} /\ mutexes[t] \ {} = mutexes[t]
    BY DEF AtRest, Untaken
  <2>2. Holds(t) => OwnsAll(t, mutexes[t])
    BY <2>1 DEF Holds
  <2>3. Has(gray, t) \/ Holds(t)
    BY <2>1 DEF LockInv, ActiveOwn, Holds, AtRest
  <2> QED BY <2>2, <2>3 DEF FirstInv
<1> QED BY <1>1, <1>2, <1>3, SetsInit, LockInit, ConstantsAssumption, PTL DEF Spec

(* The gray items are active tasks, each found under its index.            *)
THEOREM GrayStayActive == ASSUME LateRestoring = {} PROVE Spec => []GrayIsActive
<1>1. TypeOK /\ LockInv => GrayIsActive
  <2> SUFFICES ASSUME TypeOK, LockInv, AtRest, NEW j \in 1 .. Size(gray)
               PROVE  LET t == gray.items[j]
                      IN  t \in Elements(active) /\ Has(gray, t) /\ gray.keys[t] = j - 1
    BY DEF GrayIsActive
  <2>1. GrayInOrder(0)
    BY DEF LockInv, GrayInv, AtRest
  <2>2. gray.items[j] \in Elements(gray)
    BY DEF TypeOK, IsSetOf, Elements, Range, Size
  <2>3. Has(gray, gray.items[j]) /\ gray.keys[gray.items[j]] = j - 1 + 0
    BY <2>1 DEF GrayInOrder, IndexedFrom, Size
  <2> QED BY <2>1, <2>2, <2>3 DEF GrayInOrder
<1> QED BY <1>1, TypeCorrect, LockDiscipline, PTL

-----------------------------------------------------------------------------
(* Mutual exclusion.  As long as no task changes its mutexes nothing ever  *)
(* turns gray, and owning a mutex is exclusive.                            *)

NoChanges == Changing = {} /\ Announcing = {} /\ LateRestoring = {}

(* When mutexes never change, no task ever turns gray.                     *)
LEMMA NeverGray == NoChanges /\ gray = EmptySet /\ [Next]_vars => gray' = EmptySet
<1> SUFFICES ASSUME NoChanges, gray = EmptySet, [Next]_vars PROVE gray' = EmptySet
  OBVIOUS
<1>1. Size(gray) = 0 /\ \A t : ~Has(gray, t)
  BY DEF EmptySet, Size, Has
<1>2. ASSUME NEW t, DeactivateTask(t) PROVE gray' = EmptySet
  BY <1>1, <1>2 DEF DeactivateTask, Remove
<1>3. ~GrayConflict /\ ~GrayKeep
  BY <1>1 DEF GrayConflict, GrayKeep
<1>4. \A ms \in MutexLists : ~SetMutexes(ms) /\ ~RestoreLate(ms)
  BY DEF NoChanges, SetMutexes, RestoreLate
<1>5. CASE GrayDone
  BY <1>5 DEF GrayDone, setVars
<1>6. ASSUME NEW t \in Tasks, Discard(t) \/ Activate(t) \/ BeginSteal(t) \/ Skip(t)
      PROVE  gray' = EmptySet
  BY <1>6 DEF Discard, Activate, BeginSteal, Skip, setVars
<1>7. ASSUME NEW m \in Mutexes, StealFromOwner(m) \/ TakeFree(m) PROVE gray' = EmptySet
  BY <1>2, <1>7 DEF StealFromOwner, TakeFree
<1>8. ASSUME NEW t \in Tasks, Awaken(t) \/ LeaveAwake(t) \/ Interrupt(t) PROVE gray' = EmptySet
  BY <1>8 DEF Awaken, LeaveAwake, Interrupt, NoChanges, setVars
<1>9. CASE BeginReschedule \/ EndSteal \/ ActivateDone \/ ResumeDone \/ EndReschedule
  BY <1>9 DEF BeginReschedule, EndSteal, ActivateDone, ResumeDone, EndReschedule, setVars
<1>10. CASE BeginIterate \/ LeaveTask \/ EndIterate
  BY <1>10 DEF BeginIterate, LeaveTask, EndIterate, setVars
<1>11. ASSUME NEW t \in Tasks, EnterTask(t) \/ Reap(t) PROVE gray' = EmptySet
  BY <1>2, <1>11 DEF EnterTask, Reap, setVars
<1>12. ASSUME NEW t \in Tasks, AddTask(t) \/ Stop(t) PROVE gray' = EmptySet
  BY <1>12 DEF AddTask, Stop, setVars
<1>13. CASE StopAll \/ SetDone \/ SetStopped
  BY <1>13 DEF StopAll, SetDone, SetStopped, setVars
<1>14. CASE UNCHANGED vars
  BY <1>14 DEF vars, setVars
<1> QED
  BY <1>3, <1>4, <1>5, <1>6, <1>7, <1>8, <1>9, <1>10, <1>11, <1>12, <1>13, <1>14
  DEF Next, Manager, Program, Reschedule, Iterate

(* Two active tasks never declare the same mutex when task code or the     *)
(* main loop runs, for tasks that keep their mutexes.                      *)
THEOREM MutualExclusion == ASSUME NoChanges PROVE Spec => []ActiveDoNotConflict
<1>1. Init => gray = EmptySet
  BY DEF Init
<1>2. gray = EmptySet /\ [Next]_vars => (gray = EmptySet)'
  BY NeverGray
<1>3. gray = EmptySet /\ LockInv => ActiveDoNotConflict
  <2> SUFFICES ASSUME gray = EmptySet, LockInv, pc \in {"idle", "iterate", "task"},
                      NEW t \in Elements(active), NEW u \in Elements(active), t # u
               PROVE  mutexes[t] \cap mutexes[u] = {}
    BY DEF ActiveDoNotConflict
  <2>1. ~Has(gray, t) /\ ~Has(gray, u)
    BY DEF EmptySet, Has
  <2>2. OwnsAll(t, mutexes[t]) /\ OwnsAll(u, mutexes[u])
    BY <2>1 DEF LockInv, ActiveOwn, OwnsAll
  <2> QED BY <2>2 DEF OwnsAll
<1>4. Spec => []LockInv
  BY LockDiscipline DEF NoChanges
<1> QED BY <1>1, <1>2, <1>3, <1>4, PTL DEF Spec

-----------------------------------------------------------------------------
(* Rescheduling of gray tasks.                                             *)

(* A task turns gray in its own iterate(), which asks for a reschedule, or *)
(* in its activate(), inside reschedule, when the first loop has emptied   *)
(* the list.                                                               *)
GrayDue ==
    /\ pc \in {"activate", "steal", "resume", "interrupt"} => Elements(gray) \subseteq Announcing
    /\ Outside \/ pc = "iterate" => Elements(gray) \subseteq Announcing \/ shouldReschedule

(* deactivateTask turns nothing gray.                                      *)
LEMMA DeactivateGray ==
  ASSUME TypeOK, NEW t \in Tasks, DeactivateTask(t)
  PROVE  Elements(gray)' \subseteq Elements(gray)
  BY RemoveElements DEF DeactivateTask, TypeOK

(* One step of the manager or of the program.                              *)
LEMMA GrayDueStep ==
  ASSUME TypeOK, GrayDue, [Next]_vars
  PROVE  GrayDue'
<1> USE DEF taskVars, setVars, bookVars, controlVars, Outside
<1>1. ASSUME NEW t \in Tasks, AddTask(t) \/ Stop(t) PROVE GrayDue'
  BY <1>1 DEF AddTask, Stop, GrayDue
<1>2. CASE StopAll \/ SetDone \/ SetStopped
  BY <1>2 DEF StopAll, SetDone, SetStopped, GrayDue
<1>3. ASSUME NEW ms \in MutexLists, SetMutexes(ms) \/ RestoreLate(ms) PROVE GrayDue'
  <2>1. pc = "task" /\ pc' = "task" /\ OnMutexesChanged(cur, status[cur])
    BY <1>3 DEF SetMutexes, RestoreLate
  <2>2. UNCHANGED <<gray, shouldReschedule>> \/ shouldReschedule'
    BY <2>1 DEF OnMutexesChanged
  <2> QED BY <2>1, <2>2 DEF GrayDue
<1>4. CASE BeginReschedule
  BY <1>4 DEF BeginReschedule, GrayDue
<1>5. CASE GrayDone
  <2>1. Elements(gray) = {}
    BY <1>5 DEF GrayDone, Elements, Range, Size, TypeOK, IsSetOf
  <2> QED BY <1>5, <2>1 DEF GrayDone, GrayDue
<1>6. CASE GrayConflict \/ GrayKeep
  BY <1>6 DEF GrayConflict, GrayKeep, GrayDue
<1>7. ASSUME NEW t \in Tasks, Discard(t) \/ Activate(t) \/ BeginSteal(t) \/ Skip(t)
      PROVE  GrayDue'
  BY <1>7 DEF Discard, Activate, BeginSteal, Skip, Candidate, GrayDue
<1>8. ASSUME NEW m \in Mutexes, StealFromOwner(m) PROVE GrayDue'
  <2>1. pc = "steal" /\ pc' = "steal" /\ DeactivateTask(owner[m]) /\ owner[m] \in Tasks
    BY <1>8 DEF StealFromOwner, TypeOK
  <2> QED BY <2>1, DeactivateGray DEF GrayDue
<1>9. ASSUME NEW m \in Mutexes, TakeFree(m) PROVE GrayDue'
  BY <1>9 DEF TakeFree, GrayDue
<1>10. CASE EndSteal \/ ActivateDone \/ ResumeDone \/ EndReschedule
  BY <1>10 DEF EndSteal, ActivateDone, ResumeDone, EndReschedule, GrayDue
<1>11. ASSUME NEW t \in Tasks, Awaken(t) PROVE GrayDue'
  <2>1. pc = "resume" /\ pc' = "resume"
    BY <1>11 DEF Awaken
  <2>2. gray' = gray \/ (t \in Announcing /\ gray' = Add(gray, t))
    BY <1>11 DEF Awaken, OnMutexesChanged
  <2>3. Elements(Add(gray, t)) \subseteq Elements(gray) \cup {t}
    BY AddElements DEF TypeOK
  <2> QED BY <2>1, <2>2, <2>3 DEF GrayDue
<1>12. ASSUME NEW t \in Tasks, LeaveAwake(t) \/ Interrupt(t) PROVE GrayDue'
  BY <1>12 DEF LeaveAwake, Interrupt, GrayDue
<1>13. CASE BeginIterate \/ LeaveTask \/ EndIterate
  BY <1>13 DEF BeginIterate, LeaveTask, EndIterate, GrayDue
<1>14. ASSUME NEW t \in Tasks, EnterTask(t) \/ Reap(t) PROVE GrayDue'
  BY <1>14 DEF EnterTask, Reap, GrayDue
<1>15. CASE UNCHANGED vars
  BY <1>15 DEF vars, GrayDue
<1> QED
  BY <1>1, <1>2, <1>3, <1>4, <1>5, <1>6, <1>7, <1>8, <1>9, <1>10, <1>11, <1>12, <1>13,
     <1>14, <1>15
  DEF Next, Manager, Program, Reschedule, Iterate

(* A reschedule is due as long as there are gray tasks, whatever the tasks *)
(* do in any loop, but for the ones that set their mutexes in activate():  *)
(* the flag for them is reset at the end of the reschedule that activated  *)
(* them (TaskManager.pm:219).                                              *)
THEOREM GrayGetRescheduled == Spec => []GrayIsRescheduled
<1>1. Init => GrayDue
  BY EmptyType DEF Init, GrayDue
<1>2. TypeOK /\ GrayDue /\ [Next]_vars => GrayDue'
  BY GrayDueStep
<1>3. GrayDue => GrayIsRescheduled
  BY DEF GrayDue, GrayIsRescheduled, Outside
<1> QED BY <1>1, <1>2, <1>3, TypeCorrect, PTL DEF Spec

-----------------------------------------------------------------------------
(* The books: counts by name and reports, for tasks that restore no        *)
(* mutexes after they have stopped.                                        *)

Managed  == Elements(active) \cup Elements(inactive)

Books == IsFiniteSet(events) /\ CountsAreExact /\ NoneIsLost /\ ReportedOnce

BooksInv == SetsInv /\ LockInv /\ (ReportsForEver \/ Books)

(* Once it has ended a task that is in no set keeps its status.            *)
LEMMA EndedStay ==
  ASSUME TypeOK, LockInv, [Next]_vars
  PROVE  \A t \in Tasks \ Managed : status[t] \in Ended => status'[t] = status[t]
<1> SUFFICES ASSUME NEW t \in Tasks, t \notin Managed, status[t] \in Ended
             PROVE  status'[t] = status[t]
  OBVIOUS
<1> USE DEF taskVars, setVars, bookVars, controlVars
<1>1. ASSUME NEW u \in Tasks, AddTask(u) \/ Discard(u) \/ Activate(u) \/ BeginSteal(u) \/ Skip(u)
                              \/ LeaveAwake(u) \/ EnterTask(u) \/ Reap(u)
      PROVE  UNCHANGED status
  BY <1>1 DEF AddTask, Discard, Activate, BeginSteal, Skip, LeaveAwake, EnterTask, Reap
<1>2. ASSUME NEW u \in Tasks, Stop(u) \/ Awaken(u) PROVE status'[t] = status[t]
  <2>1. status[u] \notin Ended /\ \E s : status' = [status EXCEPT ![u] = s]
    BY <1>2 DEF Stop, Awaken, Ended
  <2> QED BY <2>1 DEF TypeOK
<1>3. ASSUME NEW u \in Tasks, Interrupt(u) PROVE status'[t] = status[t]
  <2>1. u \in Elements(inactive)
    BY <1>3, GetType DEF Interrupt, TypeOK
  <2>2. u # t /\ \E s : status' = [status EXCEPT ![u] = s]
    BY <1>3, <2>1 DEF Interrupt, Managed
  <2> QED BY <2>2 DEF TypeOK
<1>4. CASE SetDone \/ SetStopped
  <2>1. cur \in Elements(active) /\ \E s : status' = [status EXCEPT ![cur] = s]
    BY <1>4 DEF SetDone, SetStopped, LockInv
  <2>2. cur # t
    BY <2>1 DEF Managed
  <2> QED BY <2>1, <2>2 DEF TypeOK
<1>5. CASE StopAll
  BY <1>5 DEF StopAll, Managed
<1>6. ASSUME NEW ms \in MutexLists, SetMutexes(ms) \/ RestoreLate(ms) PROVE UNCHANGED status
  BY <1>6 DEF SetMutexes, RestoreLate
<1>7. ASSUME NEW m \in Mutexes, StealFromOwner(m) \/ TakeFree(m) PROVE UNCHANGED status
  BY <1>7 DEF StealFromOwner, TakeFree
<1>8. CASE BeginReschedule \/ GrayConflict \/ GrayKeep \/ GrayDone \/ EndSteal \/ ActivateDone
  BY <1>8 DEF BeginReschedule, GrayConflict, GrayKeep, GrayDone, EndSteal, ActivateDone
<1>9. CASE ResumeDone \/ EndReschedule \/ BeginIterate \/ LeaveTask \/ EndIterate \/ UNCHANGED vars
  BY <1>9 DEF ResumeDone, EndReschedule, BeginIterate, LeaveTask, EndIterate, vars
<1> QED
  BY <1>1, <1>2, <1>3, <1>4, <1>5, <1>6, <1>7, <1>8, <1>9
  DEF Next, Manager, Program, Reschedule, Iterate

(* Nothing is counted or reported, and only what is stopped is thrown      *)
(* away.                                                                   *)
LEMMA BooksKept ==
  ASSUME TypeOK, Books, Managed' \subseteq Managed, UNCHANGED <<tasksByName, finished, events>>,
         \A t \in Tasks \ Managed : status[t] \in Ended => status'[t] = status[t],
         \A t \in Managed : t \in Managed' \/ status'[t] = "STOPPED"
  PROVE  Books'
<1>1. CountsAreExact'
  <2>1. \A n : Counted(n)' = Counted(n)
    BY DEF Counted
  <2> QED BY <2>1 DEF Books, CountsAreExact
<1>2. NoneIsLost'
  BY DEF Books, NoneIsLost, Managed, Ended, TypeOK
<1>3. ReportedOnce'
  BY DEF Books, ReportedOnce, Managed
<1> QED BY <1>1, <1>2, <1>3 DEF Books

\* The count of one name goes with the tasks that were added under it.
LEMMA CountedFinite ==
  ASSUME Books, NEW n
  PROVE  IsFiniteSet(Counted(n)) /\ Cardinality(Counted(n)) \in Nat
<1>1. Counted(n) \in SUBSET events
  BY DEF Counted
<1> QED BY <1>1, FS_Subset, FS_CardinalityType DEF Books

(* A new task is counted under its name.                                   *)
LEMMA BooksAdd ==
  ASSUME ConstantsAssumption, TypeOK, SetsDisjoint, Books, NEW t \in Tasks, AddTask(t)
  PROVE  Books'
<1>1. /\ t \notin events /\ events' = events \cup {t} /\ status[t] = "INACTIVE"
      /\ inactive' = Add(inactive, t) /\ UNCHANGED <<active, finished, status>>
      /\ tasksByName' = [tasksByName EXCEPT ![NameOf[t]] = @ + 1]
  BY DEF AddTask, taskVars
<1>2. Managed' = Managed \cup {t}
  BY <1>1, AddSound DEF TypeOK, Managed, SetsDisjoint
<1>3. finished[t] = 0
  BY <1>1 DEF Books, ReportedOnce
<1>4. ASSUME NEW n \in Names PROVE tasksByName'[n] = Cardinality(Counted(n)')
  <2>1. tasksByName[n] = Cardinality(Counted(n))
    BY DEF Books, CountsAreExact
  <2>2. CASE NameOf[t] = n
    <3>1. tasksByName'[n] = tasksByName[n] + 1
      BY <1>1, <2>2 DEF TypeOK
    <3>2. Counted(n)' = Counted(n) \cup {t} /\ t \notin Counted(n)
      BY <1>1, <1>3, <2>2 DEF Counted
    <3>3. Cardinality(Counted(n) \cup {t}) = Cardinality(Counted(n)) + 1
      BY <3>2, CountedFinite, FS_AddElement
    <3> QED BY <2>1, <3>1, <3>2, <3>3
  <2>3. CASE NameOf[t] # n
    <3>1. tasksByName'[n] = tasksByName[n]
      BY <1>1, <2>3 DEF TypeOK
    <3>2. Counted(n)' = Counted(n)
      BY <1>1, <2>3 DEF Counted
    <3> QED BY <2>1, <3>1, <3>2
  <2> QED BY <2>2, <2>3
<1>5. CountsAreExact'
  BY <1>4 DEF CountsAreExact
<1>6. NoneIsLost' /\ ReportedOnce'
  BY <1>1, <1>2, <1>3 DEF Books, NoneIsLost, ReportedOnce, Managed
<1>7. IsFiniteSet(events)'
  BY <1>1, FS_AddElement DEF Books
<1> QED BY <1>5, <1>6, <1>7 DEF Books

(* A task is deactivated: it goes on waiting, or its end is reported and   *)
(* its name uncounted.                                                     *)
LEMMA BooksDeactivate ==
  ASSUME ConstantsAssumption, TypeOK, SetsInv, Books, NEW t \in Tasks, DeactivateTask(t),
         t \in events, status[t] \in Ended => t \in Elements(active),
         UNCHANGED <<events, status>>
  PROVE  Books'
<1>0. SetsDisjoint
  BY DEF SetsInv
<1>1. Elements(active)' = Elements(active) \ {t}
  BY <1>0, DeactivateSound
<1>2. CASE status[t] \notin Ended
  <2>1. inactive' = Add(inactive, t) /\ UNCHANGED <<tasksByName, finished>>
    BY <1>2 DEF DeactivateTask
  <2>2. Managed' = Managed \cup {t}
    BY <1>0, <1>1, <2>1, AddSound DEF TypeOK, Managed, SetsDisjoint
  <2>3. \A n : Counted(n)' = Counted(n)
    BY <2>1 DEF Counted
  <2>4. CountsAreExact'
    BY <2>1, <2>3 DEF Books, CountsAreExact
  <2>5. NoneIsLost' /\ ReportedOnce'
    BY <1>2, <2>1, <2>2 DEF Books, NoneIsLost, ReportedOnce, Managed
  <2> QED BY <2>4, <2>5 DEF Books
<1>3. CASE status[t] \in Ended
  <2>1. /\ tasksByName' = [tasksByName EXCEPT ![NameOf[t]] = @ - 1]
        /\ finished' = [finished EXCEPT ![t] = @ + 1]
        /\ inactive' = inactive
    BY <1>3 DEF DeactivateTask
  <2>2. Managed' = Managed \ {t} /\ t \in Managed
    BY <1>0, <1>1, <1>3, <2>1 DEF Managed, SetsDisjoint
  <2>3. finished[t] = 0
    BY <2>2 DEF Books, ReportedOnce, Managed
  <2>4. finished'[t] = 1 /\ \A u \in Tasks \ {t} : finished'[u] = finished[u]
    BY <2>1, <2>3 DEF TypeOK
  <2>5. ASSUME NEW n \in Names PROVE tasksByName'[n] = Cardinality(Counted(n)')
    <3>1. tasksByName[n] = Cardinality(Counted(n)) /\ events \subseteq Tasks
      BY DEF Books, CountsAreExact, TypeOK
    <3>2. CASE NameOf[t] = n
      <4>1. tasksByName'[n] = tasksByName[n] - 1
        BY <2>1, <3>2 DEF TypeOK
      <4>2. Counted(n)' = Counted(n) \ {t} /\ t \in Counted(n)
        BY <2>3, <2>4, <3>1, <3>2 DEF Counted
      <4>3. Cardinality(Counted(n) \ {t}) = Cardinality(Counted(n)) - 1
        BY <4>2, CountedFinite, FS_RemoveElement
      <4> QED BY <3>1, <4>1, <4>2, <4>3
    <3>3. CASE NameOf[t] # n
      <4>1. tasksByName'[n] = tasksByName[n]
        BY <2>1, <3>3 DEF TypeOK
      <4>2. Counted(n)' = Counted(n)
        BY <2>4, <3>1, <3>3 DEF Counted
      <4> QED BY <3>1, <4>1, <4>2
    <3> QED BY <3>2, <3>3
  <2>6. CountsAreExact'
    BY <2>5 DEF CountsAreExact
  <2>7. NoneIsLost'
    BY <2>2, <2>4 DEF Books, NoneIsLost, Managed, TypeOK
  <2>8. ReportedOnce'
    BY <1>3, <2>2, <2>4 DEF Books, ReportedOnce, Managed
  <2> QED BY <2>6, <2>7, <2>8 DEF Books
<1> QED BY <1>2, <1>3

(* The books are right before anything is added.                           *)
LEMMA BooksInit == ConstantsAssumption /\ Init => Books
<1> SUFFICES ASSUME ConstantsAssumption, Init PROVE Books
  OBVIOUS
<1>1. \A n \in Names : Counted(n) = {} /\ tasksByName[n] = 0
  BY DEF Init, Counted
<1>2. CountsAreExact
  BY <1>1, FS_EmptySet DEF CountsAreExact
<1> QED BY <1>2, FS_EmptySet DEF Books, Init, NoneIsLost, ReportedOnce

(* A reschedule that hangs goes on hanging.                                *)
LEMMA HangGoesOn ==
  ASSUME TypeOK, LockInv, ReportsForEver, [Next]_vars
  PROVE  ReportsForEver'
<1> USE DEF taskVars, setVars, bookVars, controlVars
<1>0. pc = "gray" /\ GrayStuck /\ Size(gray) > 0
  BY DEF ReportsForEver, GrayStuck
<1>1. GrayConflict \/ UNCHANGED vars
  <2>1. ~GrayKeep /\ ~GrayDone
    BY <1>0 DEF GrayKeep, GrayDone, GrayStuck
  <2>2. /\ ~BeginReschedule /\ ~EndSteal /\ ~ActivateDone /\ ~ResumeDone /\ ~EndReschedule
        /\ ~BeginIterate /\ ~LeaveTask /\ ~EndIterate /\ ~StopAll /\ ~SetDone /\ ~SetStopped
    BY <1>0 DEF BeginReschedule, EndSteal, ActivateDone, ResumeDone, EndReschedule,
                BeginIterate, LeaveTask, EndIterate, StopAll, SetDone, SetStopped, Outside
  <2>3. \A t \in Tasks :
          /\ ~Discard(t) /\ ~Activate(t) /\ ~BeginSteal(t) /\ ~Skip(t) /\ ~Awaken(t) /\ ~LeaveAwake(t)
          /\ ~Interrupt(t) /\ ~EnterTask(t) /\ ~Reap(t) /\ ~AddTask(t) /\ ~Stop(t)
    BY <1>0 DEF Discard, Activate, BeginSteal, Skip, Candidate, Awaken, LeaveAwake, Interrupt,
                EnterTask, Reap, AddTask, Stop, Outside
  <2>4. \A m \in Mutexes : ~StealFromOwner(m) /\ ~TakeFree(m)
    BY <1>0 DEF StealFromOwner, TakeFree
  <2>5. \A ms \in MutexLists : ~SetMutexes(ms) /\ ~RestoreLate(ms)
    BY <1>0 DEF SetMutexes, RestoreLate
  <2> QED BY <2>1, <2>2, <2>3, <2>4, <2>5 DEF Next, Manager, Program, Reschedule, Iterate
<1>2. CASE GrayConflict
  <2>1. PICK t : t = Get(gray, 0)
    OBVIOUS
  <2>2. /\ t \in events \cap listening /\ ~Has(gray, t) /\ Conflicts(t) # {} /\ OwnsNothing(t)
        /\ status[t] \in Ended
    BY <1>0, <2>1 DEF GrayStuck, ReportsForEver
  <2>3. /\ gray' = Remove(gray, t) /\ owner' = WithoutLocks(t, mutexes[t])
        /\ UNCHANGED <<mutexes, status, events, listening, pc>>
    BY <1>2, <2>1 DEF GrayConflict, DeactivateTask
  <2>4. gray' = gray
    BY <2>2, <2>3 DEF Remove
  <2>5. DOMAIN owner' = DOMAIN owner /\ \A m \in DOMAIN owner : owner'[m] = owner[m]
    BY <2>2, <2>3 DEF WithoutLocks, OwnsNothing, Locked
  <2> QED BY <1>0, <2>1, <2>2, <2>3, <2>4, <2>5
          DEF ReportsForEver, GrayStuck, OwnsNothing, Conflicts, Locked
<1>3. CASE UNCHANGED vars
  BY <1>3 DEF vars, ReportsForEver, GrayStuck, OwnsNothing, Conflicts, Locked
<1> QED BY <1>1, <1>2, <1>3

(* One step of the manager or of the program.                              *)
LEMMA BooksStep ==
  ASSUME ConstantsAssumption, SetsInv, LockInv, Books, ~ReportsForEver, [Next]_vars
  PROVE  Books'
<1> USE DEF taskVars, setVars, bookVars, controlVars
<1>0. TypeOK /\ SetsDisjoint
  BY DEF SetsInv
<1>00. \A t \in Tasks \ Managed : status[t] \in Ended => status'[t] = status[t]
  BY <1>0, EndedStay
<1>same. ASSUME UNCHANGED <<active, inactive, tasksByName, finished, events>> PROVE Books'
  <2>1. Managed' = Managed
    BY <1>same DEF Managed
  <2> QED BY <1>0, <1>00, <1>same, <2>1, BooksKept
<1>1. ASSUME NEW t \in Tasks, AddTask(t) PROVE Books'
  BY <1>0, <1>1, BooksAdd
<1>2. ASSUME NEW t \in Tasks, Stop(t) \/ Skip(t) \/ Awaken(t) \/ LeaveAwake(t) \/ Interrupt(t)
                               \/ EnterTask(t)
      PROVE  Books'
  BY <1>2, <1>same DEF Stop, Skip, Awaken, LeaveAwake, Interrupt, EnterTask
<1>3. CASE StopAll \/ SetDone \/ SetStopped \/ BeginReschedule \/ GrayDone \/ EndSteal
             \/ ActivateDone \/ ResumeDone \/ EndReschedule
  BY <1>3, <1>same DEF StopAll, SetDone, SetStopped, BeginReschedule, GrayDone, EndSteal,
                       ActivateDone, ResumeDone, EndReschedule
<1>4. CASE BeginIterate \/ LeaveTask \/ EndIterate \/ GrayKeep \/ UNCHANGED vars
  BY <1>4, <1>same DEF BeginIterate, LeaveTask, EndIterate, GrayKeep, vars
<1>5. ASSUME NEW ms \in MutexLists, SetMutexes(ms) \/ RestoreLate(ms) PROVE Books'
  BY <1>5, <1>same DEF SetMutexes, RestoreLate
<1>6. CASE GrayConflict
  <2>1. PICK t \in Tasks : t = Get(gray, 0) /\ t \in Elements(gray)
    BY <1>0, <1>6, GetType DEF GrayConflict, TypeOK
  <2>2. DeactivateTask(t) /\ UNCHANGED <<events, status>> /\ pc = "gray"
    BY <1>6, <2>1 DEF GrayConflict
  <2>3. t \in events
    BY <2>1 DEF SetsInv, Handled
  <2>4. status[t] \in Ended => t \in Elements(active)
    BY <1>0, <2>1, <2>2, GrayCases DEF LockInv, GrayInOrder, ReportsForEver
  <2> QED BY <1>0, <2>2, <2>3, <2>4, BooksDeactivate
<1>7. ASSUME NEW t \in Tasks, Discard(t) PROVE Books'
  <2>1. /\ inactive' = Remove(inactive, t) /\ Candidate(t) /\ status[t] = "STOPPED"
        /\ UNCHANGED <<active, tasksByName, finished, events, status>>
    BY <1>7 DEF Discard
  <2>2. Elements(inactive)' = Elements(inactive) \ {t}
    BY <1>0, <2>1, RemoveSound DEF TypeOK, SetsDisjoint
  <2>3. Managed' \subseteq Managed /\ \A u \in Managed : u \in Managed' \/ u = t
    BY <2>1, <2>2 DEF Managed
  <2> QED BY <1>0, <1>00, <2>1, <2>3, BooksKept
<1>8. ASSUME NEW t \in Tasks, Activate(t) \/ BeginSteal(t) PROVE Books'
  <2>1. /\ Candidate(t) /\ active' = Add(active, t) /\ inactive' = Remove(inactive, t)
        /\ UNCHANGED <<tasksByName, finished, events, status>>
    BY <1>8 DEF Activate, BeginSteal
  <2>2. /\ Elements(active)' = Elements(active) \cup {t} /\ t \in Elements(inactive)
        /\ Elements(inactive)' = Elements(inactive) \ {t}
    BY <1>0, <2>1, LockMoved, RemoveSound DEF TypeOK, SetsDisjoint
  <2>3. Managed' = Managed
    BY <2>2 DEF Managed
  <2> QED BY <1>0, <1>00, <2>1, <2>3, BooksKept
<1>9. ASSUME NEW m \in Mutexes, StealFromOwner(m) PROVE Books'
  <2>1. DeactivateTask(owner[m]) /\ m \in Locked /\ UNCHANGED <<events, status>>
    BY <1>9 DEF StealFromOwner
  <2>2. owner[m] \in Tasks /\ owner[m] \in Elements(active) /\ owner[m] \in events
    BY <1>0, <2>1 DEF TypeOK, LockInv, OwnersAreActive, SetsInv, Handled
  <2> QED BY <1>0, <2>1, <2>2, BooksDeactivate
<1>10. ASSUME NEW m \in Mutexes, TakeFree(m) PROVE Books'
  BY <1>10, <1>same DEF TakeFree
<1>11. ASSUME NEW t \in Tasks, Reap(t) PROVE Books'
  <2>1. DeactivateTask(t) /\ UNCHANGED <<events, status>>
    BY <1>11 DEF Reap
  <2>2. t \in Elements(active)
    BY <1>0, <1>11, GetType DEF Reap, TypeOK, LockInv
  <2>3. t \in events
    BY <2>2 DEF SetsInv, Handled
  <2> QED BY <1>0, <2>1, <2>2, <2>3, BooksDeactivate
<1> QED
  BY <1>1, <1>2, <1>3, <1>4, <1>5, <1>6, <1>7, <1>8, <1>9, <1>10, <1>11
  DEF Next, Manager, Program, Reschedule, Iterate

(* The count of every name is exactly that of its tasks that were added    *)
(* and not reported; such a task is managed, or was stopped and thrown     *)
(* away; an end is reported once, of an ended task that has left all sets. *)
(* Until, if ever, a reschedule hangs on an ended gray task.               *)
THEOREM BooksAreRight == ASSUME LateRestoring = {} PROVE Spec => []TasksAreAccountedFor
<1>1. Init => BooksInv
  BY SetsInit, LockInit, BooksInit, ConstantsAssumption DEF BooksInv
<1>2. BooksInv /\ [Next]_vars => BooksInv'
  <2> SUFFICES ASSUME BooksInv, [Next]_vars PROVE BooksInv'
    OBVIOUS
  <2>1. SetsInv' /\ LockInv'
    BY SetsStep, LockStep, ConstantsAssumption DEF BooksInv
  <2>2. ReportsForEver' \/ Books'
    BY HangGoesOn, BooksStep, ConstantsAssumption DEF BooksInv, SetsInv
  <2> QED BY <2>1, <2>2 DEF BooksInv
<1>3. BooksInv => TasksAreAccountedFor
  BY DEF BooksInv, Books, TasksAreAccountedFor
<1> QED BY <1>1, <1>2, <1>3, PTL DEF Spec

-----------------------------------------------------------------------------
(* Statuses.                                                               *)

Busy    == {"RUNNING", "STOPPED"}
Waiting == {"INACTIVE", "INTERRUPTED", "STOPPED"}

(* checkValidity, TaskManager.pm:234 and 244 (where an assignment stands   *)
(* for a comparison), also while task code runs: there the current task    *)
(* may have set itself done.                                               *)
RestStatuses ==
    /\ \A t \in Elements(active) : status[t] \in Busy \/ (pc = "task" /\ t = cur /\ status[t] = "DONE")
    /\ \A t \in Elements(inactive) : status[t] \in Waiting

(* Inside reschedule a status may lag behind the set the task is in, but   *)
(* only until the last two loops have come to it.                          *)
Lagging ==
    /\ Managed \subseteq oldActive \cup oldInactive
    /\ oldActive \cap oldInactive = {}
    /\ \A t \in oldActive :
          \/ status[t] \in Busy
          \/ pc = "interrupt" /\ status[t] = "INTERRUPTED" /\ t \notin Elements(active)
    /\ \A t \in oldInactive :
          \/ status[t] \in Waiting
          \/ pc \in {"resume", "interrupt"} /\ status[t] = "RUNNING" /\ t \notin Elements(inactive)
    /\ \A t \in Elements(inactive) \ oldInactive : status[t] \notin Ended
    /\ pc = "gray" => Elements(gray) \subseteq oldActive
    /\ pc = "resume" =>
          \A j \in 1 .. Size(active) : j <= i => status[active.items[j]] \in Busy
    /\ pc = "interrupt" =>
          /\ \A t \in Elements(active) : status[t] \in Busy
          /\ \A j \in 1 .. Size(inactive) : j <= i => status[inactive.items[j]] \in Waiting

StatusInv == IF Rescheduling THEN Lagging ELSE RestStatuses

(* The items of a set of tasks are its elements, and tasks.                *)
LEMMA ItemsOf ==
  ASSUME NEW s, IsSetOf(s, Tasks)
  PROVE  /\ Elements(s) \subseteq Tasks /\ Size(s) \in Nat
         /\ \A j \in 1 .. Size(s) : s.items[j] \in Elements(s)
         /\ \A t \in Elements(s) : \E j \in 1 .. Size(s) : s.items[j] = t
<1>1. s.items \in Seq(Tasks) /\ Len(s.items) \in Nat /\ DOMAIN s.items = 1 .. Len(s.items)
  BY DEF IsSetOf
<1> QED BY <1>1 DEF Elements, Range, Size

(* The statuses are right before anything runs.                            *)
LEMMA StatusInit == Init => StatusInv
<1> SUFFICES ASSUME Init PROVE StatusInv
  OBVIOUS
<1>1. Elements(active) = {} /\ Elements(inactive) = {}
  BY EmptyType DEF Init
<1> QED BY <1>1 DEF Init, StatusInv, Rescheduling, RestStatuses

(* At the start of reschedule the copies are what the sets hold.           *)
LEMMA StatusBegin ==
  ASSUME TypeOK, LockInv, StatusInv, BeginReschedule
  PROVE  StatusInv'
<1>1. /\ pc = "idle" /\ pc' = "gray" /\ oldActive' = Elements(active) /\ oldInactive' = Elements(inactive)
      /\ UNCHANGED <<active, inactive, gray, status>>
  BY DEF BeginReschedule, LockInv, SetsDisjoint, Consistent, taskVars, setVars
<1>2. Elements(gray) \subseteq Elements(active)
  BY <1>1, GrayCases DEF LockInv, GrayInOrder
<1>3. Elements(active) \cap Elements(inactive) = {}
  BY DEF LockInv, SetsDisjoint
<1> QED
  BY <1>1, <1>2, <1>3 DEF StatusInv, Rescheduling, RestStatuses, Lagging, Managed, Waiting, Busy

(* A task that is deactivated while reschedule runs had been active before *)
(* or goes back to where it was.                                           *)
LEMMA StatusDeactivate ==
  ASSUME TypeOK, LockInv, Lagging, NEW t \in Tasks, DeactivateTask(t),
         pc \in {"gray", "steal"}, UNCHANGED <<status, pc, oldActive, oldInactive>>,
         t \in oldActive \/ t \in Elements(active)
  PROVE  Lagging'
<1>1. /\ Elements(active)' = Elements(active) \ {t}
      /\ gray' = Remove(gray, t)
      /\ \/ status[t] \notin Ended /\ inactive' = Add(inactive, t)
         \/ inactive' = inactive
  BY DeactivateSound DEF DeactivateTask, LockInv
<1>2. Elements(inactive)' = Elements(inactive)
        \/ (status[t] \notin Ended /\ Elements(inactive)' = Elements(inactive) \cup {t})
  BY <1>1, AddSound DEF TypeOK, LockInv, SetsDisjoint
<1>3. Elements(gray)' \subseteq Elements(gray)
  BY <1>1, RemoveElements DEF TypeOK
<1>4. t \in oldActive \cup oldInactive
  BY DEF Lagging, Managed
<1> QED BY <1>1, <1>2, <1>3, <1>4 DEF Lagging, Managed, Waiting, Busy

(* The tasks change places only, and none of them after the loop over the  *)
(* inactive tasks.                                                         *)
LEMMA StatusMoved ==
  ASSUME Lagging, pc \in {"gray", "activate", "steal"}, pc' \in {"gray", "activate", "steal"},
         UNCHANGED <<status, oldActive, oldInactive>>,
         Managed' \subseteq Managed, Elements(inactive)' \subseteq Elements(inactive),
         pc' = "gray" => Elements(gray)' \subseteq Elements(gray) /\ pc = "gray"
  PROVE  Lagging'
  BY DEF Lagging, Managed

(* The loop over the active tasks, at task t.                              *)
LEMMA StatusAwaken ==
  ASSUME TypeOK, LockInv, Lagging, NEW t \in Tasks, Awaken(t) \/ LeaveAwake(t)
  PROVE  Lagging'
<1>1. /\ pc = "resume" /\ pc' = "resume" /\ t = active.items[i + 1] /\ i < Size(active) /\ i' = i + 1
      /\ UNCHANGED <<active, inactive, oldActive, oldInactive>>
  BY DEF Awaken, LeaveAwake, Get, setVars
<1>2. i + 1 \in 1 .. Size(active) /\ t \in Elements(active) /\ t \notin Elements(inactive)
  <2>1. i \in Nat /\ IsSetOf(active, Tasks)
    BY DEF TypeOK
  <2>2. i + 1 \in 1 .. Size(active) /\ t \in Elements(active)
    BY <1>1, <2>1, ItemsOf
  <2> QED BY <2>2 DEF LockInv, SetsDisjoint
<1>3. t \in oldActive \/ t \in oldInactive
  BY <1>2 DEF Lagging, Managed
<1>4. status'[t] \in Busy /\ \A u \in Tasks \ {t} : status'[u] = status[u]
  <2>1. CASE Awaken(t)
    BY <2>1 DEF Awaken, Busy, TypeOK
  <2>2. CASE LeaveAwake(t)
    BY <2>2, <1>1, <1>3 DEF LeaveAwake, Busy, Waiting, taskVars, Lagging
  <2> QED BY <2>1, <2>2
<1>5. t \in oldActive => status'[t] = status[t]
  BY DEF Awaken, LeaveAwake, taskVars
<1>6. t \in oldInactive => status'[t] \in Waiting \/ status'[t] = "RUNNING"
  BY <1>4 DEF Busy, Waiting
<1>7. \A j \in 1 .. Size(active) : active.items[j] \in Tasks
  BY DEF TypeOK, IsSetOf, Size
<1>8. ASSUME NEW j \in 1 .. Size(active), j <= i + 1
      PROVE  status'[active.items[j]] \in Busy
  <2>1. CASE j <= i
    BY <2>1, <1>1, <1>4, <1>7 DEF Lagging
  <2>2. CASE j = i + 1
    BY <2>2, <1>1, <1>4
  <2>3. i \in Int /\ j \in Int
    BY DEF TypeOK
  <2> QED BY <1>8, <2>1, <2>2, <2>3
<1>9. oldActive \subseteq Tasks /\ oldInactive \subseteq Tasks /\ Elements(inactive) \subseteq Tasks
  BY ItemsOf DEF TypeOK
<1>10. \A u \in oldActive : status'[u] \in Busy
  BY <1>1, <1>4, <1>5, <1>9 DEF Lagging
<1>11. \A u \in oldInactive : status'[u] \in Waiting \/ (status'[u] = "RUNNING" /\ u \notin Elements(inactive))
  BY <1>1, <1>2, <1>4, <1>6, <1>9 DEF Lagging
<1>12. \A u \in Elements(inactive) \ oldInactive : status'[u] \notin Ended
  BY <1>2, <1>4, <1>9 DEF Lagging
<1> QED BY <1>1, <1>8, <1>10, <1>11, <1>12 DEF Lagging, Managed

(* The last loop, at task t.                                               *)
LEMMA StatusInterrupt ==
  ASSUME TypeOK, LockInv, Lagging, NEW t \in Tasks, Interrupt(t)
  PROVE  /\ Lagging'
         /\ status'[t] = status[t] \/ <<status[t], status'[t]>> \in LegalSteps
<1>1. /\ pc = "interrupt" /\ pc' = "interrupt" /\ t = inactive.items[i + 1] /\ i < Size(inactive) /\ i' = i + 1
      /\ UNCHANGED <<active, inactive, oldActive, oldInactive>>
  BY DEF Interrupt, Get, setVars
<1>2. i + 1 \in 1 .. Size(inactive) /\ t \in Elements(inactive) /\ t \notin Elements(active)
  <2>1. i \in Nat /\ IsSetOf(inactive, Tasks)
    BY DEF TypeOK
  <2>2. i + 1 \in 1 .. Size(inactive) /\ t \in Elements(inactive)
    BY <1>1, <2>1, ItemsOf
  <2> QED BY <2>2 DEF LockInv, SetsDisjoint
<1>3. /\ t \in oldInactive => status'[t] = status[t]
      /\ t \notin oldInactive => status'[t] = "INTERRUPTED"
      /\ \A u \in Tasks \ {t} : status'[u] = status[u]
  BY DEF Interrupt, TypeOK
<1>4. CASE t \in oldInactive
  <2>1. status' = status /\ status[t] \in Waiting
    BY <1>1, <1>2, <1>3, <1>4 DEF Interrupt, Lagging, TypeOK
  <2>2. ASSUME NEW j \in 1 .. Size(inactive), j <= i + 1
        PROVE  status[inactive.items[j]] \in Waiting
    <3>1. CASE j <= i
      BY <3>1, <1>1 DEF Lagging
    <3>2. CASE j = i + 1
      BY <3>2, <1>1, <2>1
    <3>3. i \in Int /\ j \in Int
      BY <2>2 DEF TypeOK
    <3> QED BY <2>2, <3>1, <3>2, <3>3
  <2> QED BY <1>1, <2>1, <2>2 DEF Lagging, Managed
<1>5. CASE t \notin oldInactive
  <2>1. t \in oldActive /\ (status[t] = "RUNNING" \/ status[t] = "INTERRUPTED")
    BY <1>1, <1>2, <1>5 DEF Lagging, Managed, Busy, Ended
  <2>2. status'[t] = status[t] \/ <<status[t], status'[t]>> \in LegalSteps
    BY <1>3, <1>5, <2>1 DEF LegalSteps
  <2>3. \A j \in 1 .. Size(inactive) : inactive.items[j] \in Tasks
    BY DEF TypeOK, IsSetOf, Size
  <2>4. ASSUME NEW j \in 1 .. Size(inactive), j <= i + 1
        PROVE  status'[inactive.items[j]] \in Waiting
    <3>1. CASE inactive.items[j] = t
      BY <3>1, <1>3, <1>5 DEF Waiting
    <3>2. CASE inactive.items[j] # t
      <4>1. j <= i
        BY <2>4, <3>2, <1>1 DEF TypeOK, IsSetOf, Size
      <4> QED BY <4>1, <3>2, <1>1, <1>3, <2>3 DEF Lagging
    <3> QED BY <3>1, <3>2
  <2>5. /\ oldActive \subseteq Tasks /\ oldInactive \subseteq Tasks
        /\ Elements(inactive) \subseteq Tasks /\ Elements(active) \subseteq Tasks
    BY ItemsOf DEF TypeOK
  <2>6. \A u \in oldActive : status'[u] \in Busy \/ (status'[u] = "INTERRUPTED" /\ u \notin Elements(active))
    BY <1>1, <1>2, <1>3, <1>5, <2>5 DEF Lagging
  <2>7. \A u \in oldInactive : status'[u] = status[u]
    BY <1>3, <1>5, <2>5
  <2>8. \A u \in Elements(inactive) \ oldInactive : status'[u] \notin Ended
    BY <1>3, <1>5, <2>5 DEF Lagging, Ended
  <2>9. \A u \in Elements(active) : status'[u] \in Busy
    BY <1>1, <1>2, <1>3, <2>5 DEF Lagging
  <2> QED BY <1>1, <2>2, <2>4, <2>6, <2>7, <2>8, <2>9 DEF Lagging, Managed
<1> QED BY <1>3, <1>4, <1>5

(* The loops are through: every status fits the set the task is in.        *)
LEMMA StatusEnd ==
  ASSUME TypeOK, LockInv, Lagging
  PROVE  /\ ResumeDone => Lagging'
         /\ EndReschedule => RestStatuses'
<1> USE DEF taskVars, setVars
<1>0. /\ \A t \in Elements(active) : \E j \in 1 .. Size(active) : active.items[j] = t
      /\ \A t \in Elements(inactive) : \E j \in 1 .. Size(inactive) : inactive.items[j] = t
      /\ Size(active) \in Nat /\ Size(inactive) \in Nat /\ i \in Nat
  BY ItemsOf DEF TypeOK
<1>1. ASSUME ResumeDone PROVE Lagging'
  <2>1. /\ pc = "resume" /\ pc' = "interrupt" /\ i >= Size(active) /\ i' = 0
        /\ UNCHANGED <<active, inactive, status, oldActive, oldInactive>>
    BY <1>1 DEF ResumeDone
  <2>2. \A t \in Elements(active) : status[t] \in Busy
    BY <1>0, <2>1 DEF Lagging
  <2>3. ~\E j \in 1 .. Size(inactive) : j <= 0
    OBVIOUS
  <2> QED BY <2>1, <2>2, <2>3 DEF Lagging, Managed
<1>2. ASSUME EndReschedule PROVE RestStatuses'
  <2>1. /\ pc = "interrupt" /\ i >= Size(inactive) /\ UNCHANGED <<active, inactive, status>>
    BY <1>2 DEF EndReschedule
  <2>2. \A t \in Elements(inactive) : status[t] \in Waiting
    BY <1>0, <2>1 DEF Lagging
  <2> QED BY <2>1, <2>2 DEF Lagging, RestStatuses
<1> QED BY <1>1, <1>2

(* One step of the manager or of the program.                              *)
LEMMA StatusStep ==
  ASSUME ConstantsAssumption, LateRestoring = {}, SetsInv, LockInv, StatusInv, [Next]_vars
  PROVE  StatusInv'
<1> USE DEF taskVars, setVars, bookVars, controlVars
<1>0. TypeOK
  BY DEF SetsInv
<1>rest. ASSUME RestStatuses, ~Rescheduling, ~Rescheduling', UNCHANGED <<active, inactive, status>>,
                pc = "task" => (pc' = "task" /\ cur' = cur) \/ status[cur] # "DONE"
         PROVE  StatusInv'
  BY <1>rest DEF StatusInv, RestStatuses
<1>lag. ASSUME Lagging, Rescheduling', Lagging' PROVE StatusInv'
  BY <1>lag DEF StatusInv
<1>out. pc \in {"idle", "iterate", "task"} => ~Rescheduling /\ RestStatuses
  BY DEF StatusInv, Rescheduling
<1>in. pc \in {"gray", "activate", "steal", "resume", "interrupt"} => Rescheduling /\ Lagging
  BY DEF StatusInv, Rescheduling
<1>1. ASSUME NEW t \in Tasks, AddTask(t) PROVE StatusInv'
  <2>1. /\ inactive' = Add(inactive, t) /\ status[t] = "INACTIVE" /\ pc \in {"idle", "task"}
        /\ UNCHANGED <<active, status, pc, cur>>
    BY <1>1 DEF AddTask, Outside
  <2>2. Elements(inactive') \subseteq Elements(inactive) \cup {t}
    BY <1>0, <2>1, AddElements DEF TypeOK
  <2> QED BY <1>out, <2>1, <2>2 DEF StatusInv, Rescheduling, RestStatuses, Waiting
<1>2. ASSUME NEW t \in Tasks, Stop(t) PROVE StatusInv'
  <2>1. /\ pc \in {"idle", "task"} /\ UNCHANGED <<active, inactive, pc, cur>>
        /\ \A u \in Tasks : status'[u] = status[u] \/ status'[u] = "STOPPED"
    BY <1>0, <1>2 DEF Stop, Outside, TypeOK
  <2>2. Elements(active) \subseteq Tasks /\ Elements(inactive) \subseteq Tasks
    BY <1>0, ItemsOf DEF TypeOK
  <2> QED BY <1>out, <2>1, <2>2 DEF StatusInv, Rescheduling, RestStatuses, Waiting, Busy
<1>3. CASE StopAll
  <2>1. /\ pc \in {"idle", "task"} /\ UNCHANGED <<active, inactive, pc, cur>>
        /\ \A u \in Tasks : status'[u] = status[u] \/ status'[u] = "STOPPED"
    BY <1>3 DEF StopAll, Outside
  <2>2. Elements(active) \subseteq Tasks /\ Elements(inactive) \subseteq Tasks
    BY <1>0, ItemsOf DEF TypeOK
  <2> QED BY <1>out, <2>1, <2>2 DEF StatusInv, Rescheduling, RestStatuses, Waiting, Busy
<1>4. CASE BeginReschedule
  BY <1>0, <1>4, StatusBegin
<1>5. CASE GrayConflict
  <2>1. PICK t \in Tasks : t = Get(gray, 0) /\ t \in Elements(gray)
    BY <1>0, <1>5, GetType DEF GrayConflict, TypeOK
  <2>2. /\ DeactivateTask(t) /\ pc = "gray" /\ UNCHANGED <<status, pc, oldActive, oldInactive>>
    BY <1>5, <2>1 DEF GrayConflict
  <2>3. t \in oldActive
    BY <1>in, <2>1, <2>2 DEF Lagging
  <2> QED BY <1>0, <1>in, <2>2, <2>3, StatusDeactivate DEF StatusInv, Rescheduling
<1>6. CASE GrayKeep
  <2>1. /\ gray' = Shift(gray) /\ gray.items # << >> /\ pc = "gray"
        /\ UNCHANGED <<active, inactive, status, pc, oldActive, oldInactive>>
    BY <1>6 DEF GrayKeep, Size
  <2>2. Elements(gray)' \subseteq Elements(gray)
    BY <1>0, <2>1, ShiftElements DEF TypeOK
  <2> QED BY <1>in, <2>1, <2>2, StatusMoved DEF StatusInv, Rescheduling, Managed
<1>7. CASE GrayDone
  <2>1. /\ pc = "gray" /\ pc' = "activate" /\ UNCHANGED <<active, inactive, gray, status, oldActive, oldInactive>>
    BY <1>7 DEF GrayDone
  <2> QED BY <1>in, <2>1, StatusMoved DEF StatusInv, Rescheduling, Managed
<1>8. ASSUME NEW t \in Tasks, Discard(t) PROVE StatusInv'
  <2>1. /\ inactive' = Remove(inactive, t) /\ pc = "activate"
        /\ UNCHANGED <<active, gray, status, pc, oldActive, oldInactive>>
    BY <1>8 DEF Discard, Candidate
  <2>2. Elements(inactive)' \subseteq Elements(inactive)
    BY <1>0, <2>1, RemoveElements DEF TypeOK
  <2> QED BY <1>in, <2>1, <2>2, StatusMoved DEF StatusInv, Rescheduling, Managed
<1>9. ASSUME NEW t \in Tasks, Activate(t) \/ BeginSteal(t) PROVE StatusInv'
  <2>1. /\ Candidate(t) /\ active' = Add(active, t) /\ inactive' = Remove(inactive, t)
        /\ pc = "activate" /\ pc' \in {"activate", "steal"}
        /\ UNCHANGED <<status, oldActive, oldInactive>>
    BY <1>9 DEF Activate, BeginSteal, Candidate
  <2>2. /\ Elements(active)' = Elements(active) \cup {t} /\ Elements(inactive)' \subseteq Elements(inactive)
        /\ t \in Elements(inactive)
    BY <1>0, <2>1, LockMoved
  <2> QED BY <1>in, <2>1, <2>2, StatusMoved DEF StatusInv, Rescheduling, Managed
<1>10. ASSUME NEW m \in Mutexes, StealFromOwner(m) PROVE StatusInv'
  <2>1. /\ DeactivateTask(owner[m]) /\ m \in Locked /\ pc = "steal"
        /\ UNCHANGED <<status, pc, oldActive, oldInactive>>
    BY <1>10 DEF StealFromOwner
  <2>2. owner[m] \in Tasks /\ owner[m] \in Elements(active)
    BY <1>0, <2>1 DEF TypeOK, LockInv, OwnersAreActive
  <2> QED BY <1>0, <1>in, <2>1, <2>2, StatusDeactivate DEF StatusInv, Rescheduling
<1>11. ASSUME NEW t, TakeFree(t) \/ EndSteal \/ Skip(t) PROVE StatusInv'
  <2>1. /\ pc \in {"activate", "steal"} /\ pc' \in {"activate", "steal"}
        /\ UNCHANGED <<active, inactive, gray, status, oldActive, oldInactive>>
    BY <1>11 DEF TakeFree, EndSteal, Skip, Candidate
  <2> QED BY <1>in, <2>1, StatusMoved DEF StatusInv, Rescheduling, Managed
<1>12. CASE ActivateDone
  <2>1. /\ pc = "activate" /\ pc' = "resume" /\ i' = 0
        /\ UNCHANGED <<active, inactive, status, oldActive, oldInactive>>
    BY <1>12 DEF ActivateDone
  <2>2. ~\E j \in 1 .. Size(active) : j <= 0
    OBVIOUS
  <2> QED BY <1>in, <2>1, <2>2 DEF StatusInv, Rescheduling, Lagging, Managed
<1>13. ASSUME NEW t \in Tasks, Awaken(t) \/ LeaveAwake(t) PROVE StatusInv'
  <2>1. pc = "resume" /\ pc' = "resume"
    BY <1>13 DEF Awaken, LeaveAwake
  <2> QED BY <1>0, <1>in, <1>13, <2>1, StatusAwaken DEF StatusInv, Rescheduling
<1>14. ASSUME NEW t \in Tasks, Interrupt(t) PROVE StatusInv'
  <2>1. pc = "interrupt" /\ pc' = "interrupt"
    BY <1>14 DEF Interrupt
  <2> QED BY <1>0, <1>in, <1>14, <2>1, StatusInterrupt DEF StatusInv, Rescheduling
<1>15. CASE ResumeDone \/ EndReschedule
  <2>1. /\ ResumeDone => pc = "resume" /\ pc' = "interrupt"
        /\ EndReschedule => pc = "interrupt" /\ pc' = "iterate"
    BY DEF ResumeDone, EndReschedule
  <2> QED BY <1>0, <1>in, <1>15, <2>1, StatusEnd DEF StatusInv, Rescheduling
<1>16. CASE BeginIterate \/ EndIterate
  BY <1>16, <1>out, <1>rest DEF BeginIterate, EndIterate, Rescheduling
<1>17. CASE LeaveTask
  BY <1>17, <1>out, <1>rest DEF LeaveTask, Rescheduling, Ended
<1>18. ASSUME NEW t \in Tasks, EnterTask(t) PROVE StatusInv'
  BY <1>18, <1>out, <1>rest DEF EnterTask, Rescheduling
<1>19. ASSUME NEW ms \in MutexLists, SetMutexes(ms) \/ RestoreLate(ms) PROVE StatusInv'
  BY <1>19, <1>out, <1>rest DEF SetMutexes, RestoreLate, Rescheduling
<1>20. CASE SetDone \/ SetStopped
  <2>1. /\ pc = "task" /\ UNCHANGED <<active, inactive, pc, cur>> /\ cur \in Elements(active)
        /\ \A u \in Tasks \ {cur} : status'[u] = status[u]
        /\ status'[cur] \in {"DONE", "STOPPED"}
    BY <1>0, <1>20 DEF SetDone, SetStopped, TypeOK, LockInv
  <2>2. /\ Elements(active) \subseteq Tasks /\ Elements(inactive) \subseteq Tasks
        /\ cur \notin Elements(inactive)
    BY <1>0, <2>1, ItemsOf DEF TypeOK, LockInv, SetsDisjoint
  <2> QED BY <1>out, <2>1, <2>2 DEF StatusInv, Rescheduling, RestStatuses, Busy
<1>21. ASSUME NEW t \in Tasks, Reap(t) PROVE StatusInv'
  <2>1. /\ DeactivateTask(t) /\ pc \in {"iterate", "task"} /\ pc' = "iterate" /\ status' = status
        /\ status[t] \in Ended /\ (pc = "task" => t = cur)
    BY <1>21 DEF Reap, Ended
  <2>2. Elements(active)' = Elements(active) \ {t} /\ inactive' = inactive
    BY <1>0, <2>1, DeactivateSound DEF DeactivateTask, LockInv
  <2> QED BY <1>out, <2>1, <2>2 DEF StatusInv, Rescheduling, RestStatuses
<1>22. CASE UNCHANGED vars
  BY <1>22 DEF vars, StatusInv, Rescheduling, Lagging, RestStatuses, Managed
<1> QED
  BY <1>1, <1>2, <1>3, <1>4, <1>5, <1>6, <1>7, <1>8, <1>9, <1>10, <1>11, <1>12, <1>13,
     <1>14, <1>15, <1>16, <1>17, <1>18, <1>19, <1>20, <1>21, <1>22
  DEF Next, Manager, Program, Reschedule, Iterate

(* What a step does to the status of a task.                               *)
LEMMA LegalStep ==
  ASSUME SetsInv, LockInv, StatusInv, [Next]_vars, NEW u \in Tasks
  PROVE  status'[u] = status[u] \/ <<status[u], status'[u]>> \in LegalSteps
<1> USE DEF taskVars, setVars, bookVars, controlVars
<1>0. TypeOK /\ status[u] \in Statuses
  BY DEF SetsInv, TypeOK
<1>1. ASSUME NEW t \in Tasks, Stop(t) \/ Awaken(t)
      PROVE  status'[u] = status[u] \/ <<status[u], status'[u]>> \in LegalSteps
  BY <1>0, <1>1 DEF Stop, Awaken, TypeOK, Statuses, Ended, LegalSteps
<1>2. CASE StopAll
  BY <1>0, <1>2 DEF StopAll, Statuses, LegalSteps
<1>3. CASE SetDone \/ SetStopped
  BY <1>0, <1>3 DEF SetDone, SetStopped, TypeOK, LegalSteps
<1>4. ASSUME NEW t \in Tasks, Interrupt(t)
      PROVE  status'[u] = status[u] \/ <<status[u], status'[u]>> \in LegalSteps
  <2>1. Lagging
    BY <1>4 DEF StatusInv, Rescheduling, Interrupt
  <2>2. CASE u = t
    BY <1>0, <1>4, <2>1, <2>2, StatusInterrupt
  <2>3. CASE u # t
    BY <1>0, <1>4, <2>3 DEF Interrupt, TypeOK
  <2> QED BY <2>2, <2>3
<1>5. ASSUME NEW t \in Tasks, AddTask(t) \/ Discard(t) \/ Activate(t) \/ BeginSteal(t) \/ Skip(t)
                               \/ LeaveAwake(t) \/ EnterTask(t) \/ Reap(t)
      PROVE  status' = status
  BY <1>5 DEF AddTask, Discard, Activate, BeginSteal, Skip, LeaveAwake, EnterTask, Reap
<1>6. ASSUME NEW m \in Mutexes, StealFromOwner(m) \/ TakeFree(m) PROVE status' = status
  BY <1>6 DEF StealFromOwner, TakeFree
<1>7. ASSUME NEW ms \in MutexLists, SetMutexes(ms) \/ RestoreLate(ms) PROVE status' = status
  BY <1>7 DEF SetMutexes, RestoreLate
<1>8. CASE BeginReschedule \/ GrayConflict \/ GrayKeep \/ GrayDone \/ EndSteal \/ ActivateDone
             \/ ResumeDone \/ EndReschedule
  BY <1>8 DEF BeginReschedule, GrayConflict, GrayKeep, GrayDone, EndSteal, ActivateDone,
              ResumeDone, EndReschedule
<1>9. CASE BeginIterate \/ LeaveTask \/ EndIterate \/ UNCHANGED vars
  BY <1>9 DEF BeginIterate, LeaveTask, EndIterate, vars
<1> QED
  BY <1>1, <1>2, <1>3, <1>4, <1>5, <1>6, <1>7, <1>8, <1>9
  DEF Next, Manager, Program, Reschedule, Iterate

(* No step of reschedule meets a status that activate, resume or interrupt *)
(* dies of, and an ended task keeps its status: the contracts of Task.pm,  *)
(* for tasks that restore no mutexes after they have stopped.              *)
THEOREM ContractsKept == ASSUME LateRestoring = {} PROVE Spec => StatusContracts
<1>1. Init => SetsInv /\ LockInv /\ StatusInv
  BY SetsInit, LockInit, StatusInit, ConstantsAssumption
<1>2. SetsInv /\ LockInv /\ StatusInv /\ [Next]_vars => (SetsInv /\ LockInv /\ StatusInv)'
  BY SetsStep, LockStep, StatusStep, ConstantsAssumption
<1>3. SetsInv /\ LockInv /\ StatusInv /\ [Next]_vars
        => [\A t \in Tasks : status'[t] = status[t] \/ <<status[t], status'[t]>> \in LegalSteps]_vars
  BY LegalStep
<1> QED BY <1>1, <1>2, <1>3, PTL DEF Spec, StatusContracts

(* checkValidity finds every status in order between the loops.            *)
StatusesFit ==
    AtRest => /\ \A t \in Elements(active) : status[t] \in Busy
              /\ \A t \in Elements(inactive) : status[t] \in Waiting

(* Between the loops an active task runs or is stopped and an inactive one *)
(* waits or is stopped, as checkValidity asserts.                          *)
THEOREM StatusesFitTheSets == ASSUME LateRestoring = {} PROVE Spec => []StatusesFit
<1>1. Init => SetsInv /\ LockInv /\ StatusInv
  BY SetsInit, LockInit, StatusInit, ConstantsAssumption
<1>2. SetsInv /\ LockInv /\ StatusInv /\ [Next]_vars => (SetsInv /\ LockInv /\ StatusInv)'
  BY SetsStep, LockStep, StatusStep, ConstantsAssumption
<1>3. StatusInv => StatusesFit
  BY DEF StatusInv, Rescheduling, RestStatuses, StatusesFit, AtRest
<1> QED BY <1>1, <1>2, <1>3, PTL DEF Spec

-----------------------------------------------------------------------------
(* The refinement of TaskScheduling.                                       *)

(* The rivals of a task: those it shares a mutex with.                     *)
Rival(t, u) == t # u /\ InitialMutexes[t] \cap InitialMutexes[u] # {}

Runnable == {u \in oldInactive : status[u] # "STOPPED"}

Outranked(t) == \E u \in Runnable : Rival(t, u) /\ Priority[u] > Priority[t]
Rivalled(t)  == \E u \in oldActive \cup Runnable : Rival(t, u) /\ Priority[u] >= Priority[t]

(* What a running reschedule has chosen so far, as TaskScheduling sees it. *)
Chosen ==
    /\ \A t \in oldActive, u \in oldActive : ~Rival(t, u)
    /\ \A t \in (oldActive \cup oldInactive) \ Managed : t \in events /\ status[t] = "STOPPED"
    /\ \A t \in Elements(active) : t \in oldActive \cup Runnable
    /\ \A t \in Elements(inactive) \cap oldActive : Outranked(t)
    /\ pc = "steal" => \A m \in todo \cap Locked : Priority[cur] > Priority[owner[m]]
    /\ pc \in {"activate", "steal"} =>
          /\ i <= Size(inactive)
          /\ i > 0 => Elements(active) # {}
          /\ \A j \in 1 .. Size(inactive) : j <= i => Rivalled(inactive.items[j])
    /\ pc \in {"resume", "interrupt"} =>
          /\ Elements(inactive) # {} => Elements(active) # {}
          /\ \A t \in Elements(inactive) : Rivalled(t)

ChoiceInv == mutexes = InitialMutexes /\ (Rescheduling => Chosen)

RefInv == SetsInv /\ LockInv /\ gray = EmptySet /\ StatusInv /\ ChoiceInv

(* remove at an index keeps the items before it in their places.           *)
LEMMA RemoveAt ==
  ASSUME NEW s, IsSetOf(s, Tasks), Consistent(s), NEW k \in Nat, k < Size(s)
  PROVE  /\ Size(Remove(s, Get(s, k))) = Size(s) - 1
         /\ \A j \in 1 .. Size(s) : j <= k => Remove(s, Get(s, k)).items[j] = s.items[j]
<1> DEFINE x == Get(s, k)
<1>1. k + 1 \in 1 .. Len(s.items) /\ s.items \in Seq(Tasks) /\ Len(s.items) \in Nat
  BY DEF Size, IsSetOf
<1>2. x \in DOMAIN s.keys /\ s.keys[x] = k
  BY <1>1 DEF Consistent, Get, Elements, Range
<1>3. Remove(s, x).items = Splice(s.items, k)
  BY <1>2 DEF Remove, Has
<1> HIDE DEF x
<1>4. k \in 0 .. Len(s.items) - 1
  BY <1>1
<1>5. /\ Len(Splice(s.items, k)) = Len(s.items) - 1
      /\ \A j \in 1 .. Len(s.items) - 1 : j <= k => Splice(s.items, k)[j] = s.items[j]
  BY <1>1, <1>4, SpliceInside
<1>6. \A j \in 1 .. Size(s) : j <= k => j \in 1 .. Len(s.items) - 1
  BY <1>1 DEF Size
<1>7. \A j \in 1 .. Size(s) : j <= k => Remove(s, x).items[j] = s.items[j]
  BY <1>3, <1>5, <1>6
<1>8. Size(Remove(s, x)) = Size(s) - 1
  BY <1>3, <1>5 DEF Size
<1> QED BY <1>7, <1>8 DEF x

(* add appends.                                                            *)
LEMMA AddAt ==
  ASSUME NEW s, IsSetOf(s, Tasks), NEW x \in Tasks
  PROVE  /\ Size(Add(s, x)) >= Size(s)
         /\ \A j \in 1 .. Size(s) : Add(s, x).items[j] = s.items[j]
<1>1. s.items \in Seq(Tasks) /\ Len(s.items) \in Nat
  BY DEF IsSetOf
<1>2. CASE Has(s, x)
  BY <1>1, <1>2 DEF Add, Size
<1>3. CASE ~Has(s, x)
  <2>1. Add(s, x).items = Append(s.items, x)
    BY <1>3 DEF Add
  <2> QED BY <1>1, <2>1 DEF Size
<1> QED BY <1>2, <1>3

(* No two of the tasks that are active at the start of reschedule are      *)
(* rivals, nor are those that are active at its end.                       *)
LEMMA NoRivals ==
  ASSUME TypeOK, LockInv, gray = EmptySet, mutexes = InitialMutexes, pc # "steal",
         NEW t \in Elements(active), NEW u \in Elements(active)
  PROVE  ~Rival(t, u)
<1>1. ~Has(gray, t) /\ ~Has(gray, u)
  BY DEF EmptySet, Has
<1>2. OwnsAll(t, mutexes[t]) /\ OwnsAll(u, mutexes[u])
  BY <1>1 DEF LockInv, ActiveOwn, OwnsAll
<1> QED BY <1>2 DEF OwnsAll, Rival

(* Copies are taken: nothing is chosen yet.                                *)
LEMMA ChosenBegin ==
  ASSUME TypeOK, RefInv, BeginReschedule
  PROVE  Chosen'
<1>1. /\ pc = "idle" /\ pc' = "gray" /\ oldActive' = Elements(active) /\ oldInactive' = Elements(inactive)
      /\ UNCHANGED <<active, inactive, status>>
  BY DEF BeginReschedule, RefInv, LockInv, SetsDisjoint, Consistent, taskVars, setVars
<1>2. Elements(active) \cap Elements(inactive) = {}
  BY DEF RefInv, LockInv, SetsDisjoint
<1>3. \A t \in Elements(active), u \in Elements(active) : ~Rival(t, u)
  BY <1>1, NoRivals DEF RefInv, ChoiceInv
<1> QED BY <1>1, <1>2, <1>3 DEF Chosen, Managed

(* A stopped task is thrown away, or one is activated.                     *)
LEMMA ChosenTaken ==
  ASSUME TypeOK, RefInv, Rescheduling, NEW t \in Tasks, Discard(t) \/ Activate(t) \/ BeginSteal(t)
  PROVE  Chosen'
<1>0. Chosen /\ Lagging /\ SetsDisjoint /\ SetsInv /\ LockInv
  BY DEF RefInv, ChoiceInv, StatusInv, SetsInv
<1>1. /\ Candidate(t) /\ pc = "activate" /\ i < Size(inactive) /\ t = Get(inactive, i)
      /\ inactive' = Remove(inactive, t)
      /\ UNCHANGED <<status, events, oldActive, oldInactive, i>>
  BY DEF Discard, Activate, BeginSteal, Candidate, taskVars, bookVars, controlVars
<1>2. /\ Elements(inactive)' = Elements(inactive) \ {t}
      /\ t \in Elements(inactive) /\ t \notin Elements(active)
  BY <1>0, <1>1, RemoveSound, GetType DEF TypeOK, SetsDisjoint
<1>3. /\ Size(inactive)' = Size(inactive) - 1 /\ Size(inactive) \in Nat /\ i \in Nat
      /\ \A j \in 1 .. Size(inactive) : j <= i => inactive'.items[j] = inactive.items[j]
  <2>1. i \in Nat /\ IsSetOf(inactive, Tasks) /\ Consistent(inactive)
    BY <1>0 DEF TypeOK, SetsDisjoint
  <2>2. Size(inactive) \in Nat
    BY <2>1, ItemsOf
  <2> QED BY <1>1, <2>1, <2>2, RemoveAt
<1>4. i <= Size(inactive)' /\ \A j \in 1 .. Size(inactive)' : j <= i => Rivalled(inactive.items[j])'
  <2>1. i <= Size(inactive)' /\ \A j \in 1 .. Size(inactive)' : j \in 1 .. Size(inactive)
    BY <1>1, <1>3
  <2>2. \A u : Rivalled(u) => Rivalled(u)'
    BY <1>1 DEF Rivalled, Runnable
  <2>3. \A j \in 1 .. Size(inactive) : j <= i => Rivalled(inactive.items[j])
    BY <1>0, <1>1 DEF Chosen
  <2> QED BY <1>3, <2>1, <2>2, <2>3
<1>5. \A u : Outranked(u) => Outranked(u)'
  BY <1>1 DEF Outranked, Runnable
<1>6. Runnable' = Runnable
  BY <1>1 DEF Runnable
<1>7. CASE Discard(t)
  <2>1. status[t] = "STOPPED" /\ active' = active /\ pc' = pc
    BY <1>7 DEF Discard, controlVars
  <2>2. t \in events
    BY <1>0, <1>2 DEF SetsInv, Handled
  <2> QED BY <1>0, <1>1, <1>2, <1>4, <1>5, <1>6, <2>1, <2>2 DEF Chosen, Managed
<1>8. CASE Activate(t) \/ BeginSteal(t)
  <2>1. /\ active' = Add(active, t) /\ status[t] # "STOPPED"
        /\ pc' = "activate" \/ BeginSteal(t)
    BY <1>1, <1>8 DEF Activate, BeginSteal, controlVars
  <2>2. Elements(active)' = Elements(active) \cup {t}
    BY <1>0, <2>1, AddSound DEF TypeOK, SetsDisjoint
  <2>3. t \in oldActive \cup Runnable
    BY <1>0, <1>2, <2>1 DEF Lagging, Managed, Runnable
  <2>4. BeginSteal(t) => pc' = "steal" /\ \A m \in todo' \cap Locked' : Priority[cur'] > Priority[owner'[m]]
    BY DEF BeginSteal, HigherPriority, Conflicts, Locked, setVars
  <2> QED BY <1>0, <1>1, <1>2, <1>4, <1>5, <1>6, <2>1, <2>2, <2>3, <2>4 DEF Chosen, Managed
<1> QED BY <1>7, <1>8

(* A mutex is taken from its owner.                                        *)
LEMMA ChosenStolen ==
  ASSUME ConstantsAssumption, TypeOK, RefInv, Rescheduling, NEW m \in Mutexes, StealFromOwner(m)
  PROVE  Chosen'
<1>0. Chosen /\ Lagging /\ SetsDisjoint /\ SetsInv /\ LockInv /\ mutexes = InitialMutexes
  BY DEF RefInv, ChoiceInv, StatusInv, SetsInv
<1>1. /\ pc = "steal" /\ m \in todo /\ m \in Locked /\ todo' = todo \ {m}
      /\ DeactivateTask(owner[m])
      /\ UNCHANGED <<status, events, pc, i, cur, oldActive, oldInactive>>
      /\ \A l \in Locked' : l = m \/ (l \in Locked /\ owner'[l] = owner[l])
  BY DEF StealFromOwner, taskVars, Locked, WithoutLocks
<1>2. PICK old \in Tasks : old = owner[m]
  BY <1>1 DEF TypeOK
<1>3. /\ old \in Elements(active) /\ cur \in Elements(active) /\ cur # old
      /\ m \in mutexes[old] /\ m \in mutexes[cur]
      /\ Priority[cur] > Priority[old]
  BY <1>0, <1>1, <1>2 DEF LockInv, OwnersAreActive, OwnedAreDeclared, StealInv, Chosen
<1>4. Elements(active)' = Elements(active) \ {old} /\ old \notin Elements(inactive)
  BY <1>0, <1>1, <1>2, <1>3, DeactivateSound DEF SetsDisjoint
<1>5. Rival(old, cur) /\ Rival(cur, old)
  BY <1>0, <1>3 DEF Rival
<1>6. old \in oldActive => Outranked(old)
  BY <1>0, <1>3, <1>5 DEF Chosen, Outranked
<1>7. Runnable' = Runnable /\ (\A u : Outranked(u) => Outranked(u)') /\ (\A u : Rivalled(u) => Rivalled(u)')
  BY <1>1 DEF Runnable, Outranked, Rivalled
<1>8. \A l \in todo' \cap Locked' : Priority[cur'] > Priority[owner'[l]]
  BY <1>0, <1>1 DEF Chosen
<1>9. cur \in Elements(active)'
  BY <1>3, <1>4
<1>10. i \in Nat /\ Size(inactive) \in Nat /\ i <= Size(inactive)
       /\ \A j \in 1 .. Size(inactive) : j <= i => Rivalled(inactive.items[j])
  BY <1>0, <1>1, ItemsOf DEF TypeOK, Chosen
<1>11. CASE status[old] \notin Ended
  <2>1. inactive' = Add(inactive, old)
    BY <1>1, <1>2, <1>11 DEF DeactivateTask
  <2>2. Elements(inactive)' = Elements(inactive) \cup {old}
    BY <1>0, <2>1, AddSound DEF TypeOK, SetsDisjoint
  <2>3. /\ Size(inactive)' >= Size(inactive) /\ Size(inactive)' \in Nat
        /\ \A j \in 1 .. Size(inactive) : inactive'.items[j] = inactive.items[j]
    <3>1. IsSetOf(inactive, Tasks) /\ IsSetOf(inactive', Tasks)
      BY <2>1, AddType DEF TypeOK
    <3>2. Size(inactive') \in Nat
      BY <3>1, ItemsOf
    <3> QED BY <2>1, <3>1, <3>2, AddAt DEF Size
  <2>4. i <= Size(inactive)' /\ \A j \in 1 .. Size(inactive)' : j <= i => Rivalled(inactive.items[j])'
    <3>1. \A j \in 1 .. Size(inactive)' : j <= i => j \in 1 .. Size(inactive)
      BY <1>10, <2>3
    <3> QED BY <1>7, <1>10, <2>3, <3>1
  <2> QED BY <1>0, <1>1, <1>4, <1>6, <1>7, <1>8, <1>9, <2>2, <2>4 DEF Chosen, Managed
<1>12. CASE status[old] \in Ended
  <2>1. inactive' = inactive
    BY <1>1, <1>2, <1>12 DEF DeactivateTask
  <2>2. status[old] = "STOPPED" /\ old \in events
    BY <1>0, <1>1, <1>3, <1>12 DEF Lagging, Managed, Busy, Waiting, Ended, SetsInv, Handled
  <2>3. i <= Size(inactive)' /\ \A j \in 1 .. Size(inactive)' : j <= i => Rivalled(inactive.items[j])'
    BY <1>7, <1>10, <2>1
  <2> QED BY <1>0, <1>1, <1>4, <1>7, <1>8, <1>9, <2>1, <2>2, <2>3 DEF Chosen, Managed
<1> QED BY <1>11, <1>12

(* A waiting task is passed over: the owner of one of its mutexes is a     *)
(* rival of at least its rank.                                             *)
LEMMA ChosenSkip ==
  ASSUME ConstantsAssumption, TypeOK, RefInv, Rescheduling, NEW t \in Tasks, Skip(t)
  PROVE  Chosen'
<1>0. Chosen /\ SetsDisjoint /\ SetsInv /\ LockInv /\ mutexes = InitialMutexes
  BY DEF RefInv, ChoiceInv, SetsInv
<1>1. /\ pc = "activate" /\ i < Size(inactive) /\ t = inactive.items[i + 1] /\ i' = i + 1
      /\ ~HigherPriority(t, Conflicts(t))
      /\ UNCHANGED <<active, inactive, status, events, pc, oldActive, oldInactive>>
  BY DEF Skip, Candidate, Get, taskVars, setVars, bookVars
<1>2. i \in Nat /\ Size(inactive) \in Nat /\ i + 1 \in 1 .. Size(inactive) /\ t \in Elements(inactive)
  <2>1. i \in Nat /\ IsSetOf(inactive, Tasks)
    BY DEF TypeOK
  <2>2. Size(inactive) \in Nat /\ i + 1 \in 1 .. Size(inactive)
    BY <1>1, <2>1, ItemsOf
  <2> QED BY <1>1, <2>1, <2>2, ItemsOf
<1>3. PICK m \in mutexes[t] \cap Locked : ~(Priority[t] > Priority[owner[m]])
  BY <1>1 DEF HigherPriority, Conflicts
<1>4. /\ owner[m] \in Elements(active) /\ owner[m] \in Tasks /\ m \in mutexes[owner[m]]
  BY <1>3 DEF RefInv, LockInv, OwnersAreActive, OwnedAreDeclared, TypeOK
<1>5. owner[m] # t /\ Priority[owner[m]] >= Priority[t]
  BY <1>0, <1>2, <1>3, <1>4 DEF SetsDisjoint, ConstantsAssumption
<1>6. Rivalled(t)
  BY <1>0, <1>3, <1>4, <1>5 DEF Rivalled, Rival, Chosen
<1>7. Runnable' = Runnable /\ (\A u : Outranked(u) => Outranked(u)') /\ (\A u : Rivalled(u) => Rivalled(u)')
  BY <1>1 DEF Runnable, Outranked, Rivalled
<1>8. ASSUME NEW j \in 1 .. Size(inactive), j <= i + 1
      PROVE  Rivalled(inactive.items[j])
  <2>1. CASE j <= i
    BY <1>0, <1>1, <2>1 DEF Chosen
  <2>2. CASE j = i + 1
    BY <1>1, <1>6, <2>2
  <2> QED BY <1>2, <1>8, <2>1, <2>2
<1>9. Elements(active) # {} /\ i + 1 <= Size(inactive)
  BY <1>1, <1>2, <1>4
<1> QED BY <1>0, <1>1, <1>7, <1>8, <1>9 DEF Chosen, Managed

(* The last two loops choose nothing and leave stopped what is stopped.    *)
LEMMA ChosenKept ==
  ASSUME TypeOK, Chosen, pc \in {"resume", "interrupt"}, pc' \in {"resume", "interrupt"},
         UNCHANGED <<active, inactive, events, oldActive, oldInactive>>,
         \A u \in Tasks : status'[u] = "STOPPED" <=> status[u] = "STOPPED"
  PROVE  Chosen'
<1>1. oldActive \subseteq Tasks /\ oldInactive \subseteq Tasks
  BY DEF TypeOK
<1>2. Runnable' = Runnable
  BY <1>1 DEF Runnable
<1> QED BY <1>1, <1>2 DEF Chosen, Managed, Outranked, Rivalled

(* They change the status of tasks that are not stopped, and stop none.    *)
LEMMA StoppedKept ==
  ASSUME TypeOK, LockInv, StatusInv, NEW t \in Tasks, Awaken(t) \/ LeaveAwake(t) \/ Interrupt(t)
  PROVE  /\ \A u \in Tasks : status'[u] = "STOPPED" <=> status[u] = "STOPPED"
         /\ pc \in {"resume", "interrupt"} /\ pc' = pc
         /\ UNCHANGED <<active, inactive, events, oldActive, oldInactive, mutexes>>
<1> USE DEF taskVars, setVars, bookVars
<1>1. CASE Awaken(t)
  BY <1>1 DEF Awaken, TypeOK
<1>2. CASE LeaveAwake(t)
  BY <1>2 DEF LeaveAwake
<1>3. CASE Interrupt(t)
  <2>1. Lagging /\ t \in Elements(inactive)
    BY <1>3, GetType DEF Interrupt, StatusInv, Rescheduling, TypeOK
  <2>2. t \in oldInactive \/ status[t] # "STOPPED"
    BY <2>1 DEF Lagging, Ended
  <2> QED BY <1>3, <2>2 DEF Interrupt, TypeOK
<1> QED BY <1>1, <1>2, <1>3

(* One step of the manager or of the program.                              *)
LEMMA ChoiceStep ==
  ASSUME ConstantsAssumption, NoChanges, RefInv, [Next]_vars
  PROVE  ChoiceInv'
<1> USE DEF taskVars, setVars, bookVars, controlVars
<1>0. TypeOK /\ SetsInv /\ LockInv /\ StatusInv /\ ChoiceInv /\ Size(gray) = 0
  BY DEF RefInv, SetsInv, EmptySet, Size
<1>in. pc \in {"gray", "activate", "steal", "resume", "interrupt"} => Rescheduling /\ Chosen
  BY <1>0 DEF ChoiceInv, Rescheduling
<1>out. ASSUME pc' \in {"idle", "iterate", "task"}, mutexes' = mutexes PROVE ChoiceInv'
  BY <1>0, <1>out DEF ChoiceInv, Rescheduling
<1>1. ASSUME NEW t \in Tasks, AddTask(t) \/ Stop(t) PROVE ChoiceInv'
  BY <1>1, <1>out DEF AddTask, Stop, Outside
<1>2. CASE StopAll \/ SetDone \/ SetStopped
  BY <1>2, <1>out DEF StopAll, SetDone, SetStopped, Outside
<1>3. ASSUME NEW ms \in MutexLists, SetMutexes(ms) \/ RestoreLate(ms) PROVE ChoiceInv'
  BY <1>3 DEF NoChanges, SetMutexes, RestoreLate
<1>4. CASE BeginReschedule
  <2>1. mutexes' = mutexes
    BY <1>4 DEF BeginReschedule
  <2> QED BY <1>0, <1>4, <2>1, ChosenBegin DEF ChoiceInv
<1>5. CASE GrayConflict \/ GrayKeep
  BY <1>0, <1>5 DEF GrayConflict, GrayKeep
<1>6. CASE GrayDone
  <2>1. /\ pc = "gray" /\ pc' = "activate" /\ i' = 0
        /\ UNCHANGED <<mutexes, active, inactive, status, events, oldActive, oldInactive>>
    BY <1>6 DEF GrayDone
  <2>2. 0 <= Size(inactive) /\ ~\E j \in 1 .. Size(inactive) : j <= 0
    BY <1>0, ItemsOf DEF TypeOK
  <2>3. Chosen'
    BY <1>in, <2>1, <2>2 DEF Chosen, Managed, Outranked, Runnable
  <2> QED BY <1>0, <2>1, <2>3 DEF ChoiceInv
<1>7. ASSUME NEW t \in Tasks, Discard(t) \/ Activate(t) \/ BeginSteal(t) PROVE ChoiceInv'
  <2>1. pc = "activate" /\ mutexes' = mutexes
    BY <1>7 DEF Discard, Activate, BeginSteal, Candidate
  <2> QED BY <1>0, <1>in, <1>7, <2>1, ChosenTaken DEF ChoiceInv
<1>8. ASSUME NEW t \in Tasks, Skip(t) PROVE ChoiceInv'
  <2>1. pc = "activate" /\ mutexes' = mutexes
    BY <1>8 DEF Skip, Candidate
  <2> QED BY <1>0, <1>in, <1>8, <2>1, ChosenSkip DEF ChoiceInv
<1>9. ASSUME NEW m \in Mutexes, StealFromOwner(m) PROVE ChoiceInv'
  <2>1. pc = "steal" /\ mutexes' = mutexes
    BY <1>9 DEF StealFromOwner
  <2> QED BY <1>0, <1>in, <1>9, <2>1, ChosenStolen DEF ChoiceInv
<1>10. ASSUME NEW m \in Mutexes, TakeFree(m) PROVE ChoiceInv'
  <2>1. /\ pc = "steal" /\ m \in todo /\ todo' = todo \ {m} /\ owner' = WithLocks(cur, {m})
        /\ UNCHANGED <<mutexes, active, inactive, status, events, pc, i, cur, oldActive, oldInactive>>
    BY <1>10 DEF TakeFree
  <2>2. \A l \in todo' \cap Locked' : l \in todo \cap Locked /\ owner'[l] = owner[l]
    BY <2>1 DEF WithLocks, Locked
  <2>3. Chosen'
    BY <1>in, <2>1, <2>2 DEF Chosen, Managed, Outranked, Rivalled, Runnable
  <2> QED BY <1>0, <2>1, <2>3 DEF ChoiceInv
<1>11. CASE EndSteal
  <2>1. /\ pc = "steal" /\ pc' = "activate"
        /\ UNCHANGED <<mutexes, active, inactive, status, events, i, oldActive, oldInactive>>
    BY <1>11 DEF EndSteal
  <2>2. Chosen'
    BY <1>in, <2>1 DEF Chosen, Managed, Outranked, Rivalled, Runnable
  <2> QED BY <1>0, <2>1, <2>2 DEF ChoiceInv
<1>12. CASE ActivateDone
  <2>1. /\ pc = "activate" /\ pc' = "resume" /\ i >= Size(inactive)
        /\ UNCHANGED <<mutexes, active, inactive, status, events, oldActive, oldInactive>>
    BY <1>12 DEF ActivateDone
  <2>2. /\ i \in Nat /\ Size(inactive) \in Nat
        /\ \A t \in Elements(inactive) : \E j \in 1 .. Size(inactive) : inactive.items[j] = t
    BY <1>0, ItemsOf DEF TypeOK
  <2>3. ASSUME NEW t \in Elements(inactive)
        PROVE  Rivalled(t) /\ Elements(active) # {}
    <3>1. PICK j \in 1 .. Size(inactive) : inactive.items[j] = t
      BY <2>2
    <3>2. j <= i /\ i > 0
      BY <2>1, <2>2
    <3> QED BY <1>in, <2>1, <3>1, <3>2 DEF Chosen
  <2>4. Chosen'
    BY <1>in, <2>1, <2>3 DEF Chosen, Managed, Outranked, Rivalled, Runnable
  <2> QED BY <1>0, <2>1, <2>4 DEF ChoiceInv
<1>13. ASSUME NEW t \in Tasks, Awaken(t) \/ LeaveAwake(t) \/ Interrupt(t) PROVE ChoiceInv'
  <2>1. /\ \A u \in Tasks : status'[u] = "STOPPED" <=> status[u] = "STOPPED"
        /\ pc \in {"resume", "interrupt"} /\ pc' = pc
        /\ UNCHANGED <<active, inactive, events, oldActive, oldInactive, mutexes>>
    BY <1>0, <1>13, StoppedKept
  <2>2. Chosen'
    BY <1>0, <1>in, <2>1, ChosenKept
  <2> QED BY <1>0, <2>1, <2>2 DEF ChoiceInv
<1>14. CASE ResumeDone
  <2>1. /\ pc = "resume" /\ pc' = "interrupt"
        /\ UNCHANGED <<mutexes, active, inactive, status, events, oldActive, oldInactive>>
    BY <1>14 DEF ResumeDone
  <2>2. Chosen'
    BY <1>0, <1>in, <2>1, ChosenKept
  <2> QED BY <1>0, <2>1, <2>2 DEF ChoiceInv
<1>15. CASE EndReschedule \/ BeginIterate \/ LeaveTask \/ EndIterate
  BY <1>15, <1>out DEF EndReschedule, BeginIterate, LeaveTask, EndIterate
<1>16. ASSUME NEW t \in Tasks, EnterTask(t) \/ Reap(t) PROVE ChoiceInv'
  BY <1>16, <1>out DEF EnterTask, Reap
<1>17. CASE UNCHANGED vars
  BY <1>0, <1>17 DEF vars, ChoiceInv, Rescheduling, Chosen, Managed, Outranked, Rivalled, Runnable, Locked
<1> QED
  BY <1>1, <1>2, <1>3, <1>4, <1>5, <1>6, <1>7, <1>8, <1>9, <1>10, <1>11, <1>12, <1>13,
     <1>14, <1>15, <1>16, <1>17
  DEF Next, Manager, Program, Reschedule, Iterate

(* The abstract state, and when it stays the same.                         *)
Submitted == events
Resting   == IF Rescheduling THEN oldInactive ELSE Elements(inactive)
Running   == IF Rescheduling THEN oldActive ELSE Elements(active)
Stopped   == {t \in events : status[t] = "STOPPED"}

LEMMA AbstractStutter ==
  ASSUME events' = events, Resting' = Resting, Running' = Running, Stopped' = Stopped
  PROVE  UNCHANGED Abstract!schedVars
  BY DEF Abstract!schedVars, Resting, Running, Stopped

(* Tasks are stopped.                                                      *)
LEMMA AbstractStop ==
  ASSUME events' = events, Resting' = Resting, Running' = Running,
         \A t \in events : status[t] = "STOPPED" => status'[t] = "STOPPED"
  PROVE  Abstract!StopSome
  BY DEF Abstract!StopSome, Resting, Running

(* A task is added.                                                        *)
LEMMA AbstractSubmit ==
  ASSUME TypeOK, RefInv, NEW t \in Tasks, AddTask(t)
  PROVE  Abstract!Submit(t)
<1>1. /\ pc \in {"idle", "task"} /\ pc' = pc /\ t \notin events /\ events' = events \cup {t}
      /\ status[t] = "INACTIVE" /\ inactive' = Add(inactive, t)
      /\ UNCHANGED <<status, active>>
  BY DEF AddTask, Outside, taskVars, controlVars
<1>2. Elements(inactive') = Elements(inactive) \cup {t}
  BY <1>1, AddSound DEF TypeOK, RefInv, LockInv, SetsDisjoint
<1>3. Resting' = Resting \cup {t} /\ Running' = Running /\ Stopped' = Stopped
  BY <1>1, <1>2 DEF Resting, Running, Stopped, Rescheduling
<1> QED BY <1>1, <1>3 DEF Abstract!Submit, Resting, Running, Stopped

(* An ended task leaves.                                                   *)
LEMMA AbstractFinish ==
  ASSUME TypeOK, RefInv, NEW t \in Tasks, Reap(t)
  PROVE  Abstract!Finish(t)
<1>1. /\ pc \in {"iterate", "task"} /\ pc' = "iterate" /\ DeactivateTask(t) /\ status[t] \in Ended
      /\ UNCHANGED <<status, events>>
  BY DEF Reap, taskVars, Ended
<1>2. t \in Elements(active)
  BY GetType DEF Reap, TypeOK, RefInv, LockInv
<1>3. Elements(active)' = Elements(active) \ {t} /\ inactive' = inactive
  BY <1>1, DeactivateSound DEF DeactivateTask, RefInv, LockInv
<1>4. t \in Running /\ Running' = Running \ {t} /\ Resting' = Resting /\ Stopped' = Stopped
  BY <1>1, <1>2, <1>3 DEF Resting, Running, Stopped, Rescheduling
<1> QED BY <1>1, <1>4 DEF Abstract!Finish, Resting, Running, Stopped

(* The end of reschedule makes the choice known.                           *)
LEMMA AbstractChoose ==
  ASSUME TypeOK, RefInv, EndReschedule
  PROVE  Abstract!Choose
<1>1. /\ pc = "interrupt" /\ pc' = "iterate"
      /\ UNCHANGED <<status, events, active, inactive>>
  BY DEF EndReschedule, taskVars, setVars, bookVars
<1>2. Chosen /\ Lagging /\ SetsDisjoint /\ SetsInv /\ mutexes = InitialMutexes
  BY <1>1 DEF RefInv, ChoiceInv, StatusInv, Rescheduling, LockInv
<1>3. /\ Running = oldActive /\ Resting = oldInactive
      /\ Running' = Elements(active) /\ Resting' = Elements(inactive) /\ Stopped' = Stopped
  BY <1>1 DEF Running, Resting, Stopped, Rescheduling
<1>4. /\ Running' \cap Resting' = {} /\ Running' \cup Resting' \subseteq Running \cup Resting
      /\ (Running \cup Resting) \ (Running' \cup Resting') \subseteq Stopped
  BY <1>2, <1>3 DEF Lagging, Chosen, Managed, SetsDisjoint, Stopped
<1>5. \A t, u \in Running' : ~Rival(t, u)
  BY <1>1, <1>2, <1>3, NoRivals DEF RefInv
<1>6. Runnable \subseteq Resting \ Stopped
  BY <1>3 DEF Runnable, Stopped
<1>7. \A t \in Running \cap Resting' : \E u \in Resting \ Stopped : Rival(t, u) /\ Priority[u] > Priority[t]
  BY <1>2, <1>3, <1>6 DEF Chosen, Outranked
<1>8. \A t \in Resting' : \E u \in Running \cup (Resting \ Stopped) : Rival(t, u) /\ Priority[u] >= Priority[t]
  BY <1>1, <1>2, <1>3, <1>6 DEF Chosen, Rivalled
<1>9. Resting' # {} => Running' # {}
  BY <1>1, <1>2, <1>3 DEF Chosen
<1> QED
  BY <1>1, <1>3, <1>4, <1>5, <1>7, <1>8, <1>9
  DEF Abstract!Choose, Abstract!Compete, Rival, Resting, Running, Stopped

(* Any other step of the manager or of the program goes unseen.            *)
LEMMA AbstractStep ==
  ASSUME ConstantsAssumption, NoChanges, RefInv, [Next]_vars
  PROVE  [Abstract!SchedNext]_(Abstract!schedVars)
<1> USE DEF taskVars, setVars, bookVars, controlVars
<1>0. TypeOK /\ SetsInv /\ LockInv /\ StatusInv /\ Size(gray) = 0
  BY DEF RefInv, SetsInv, EmptySet, Size
<1> DEFINE Goal == [Abstract!SchedNext]_(Abstract!schedVars)
<1>in. ASSUME Rescheduling, Rescheduling',
              UNCHANGED <<status, events, oldActive, oldInactive>>
       PROVE  Goal
  BY <1>in, AbstractStutter DEF Resting, Running, Stopped
<1>out. ASSUME ~Rescheduling, ~Rescheduling', UNCHANGED <<active, inactive, status, events>>
        PROVE  Goal
  BY <1>out, AbstractStutter DEF Resting, Running, Stopped
<1>stop. ASSUME pc \in {"idle", "task"}, UNCHANGED <<active, inactive, events, pc>>,
                \A t \in events : status[t] = "STOPPED" => status'[t] = "STOPPED"
         PROVE  Goal
  BY <1>stop, AbstractStop DEF Resting, Running, Rescheduling, Abstract!SchedNext
<1>1. ASSUME NEW t \in Tasks, AddTask(t) PROVE Goal
  BY <1>0, <1>1, AbstractSubmit DEF Abstract!SchedNext
<1>2. ASSUME NEW t \in Tasks, Stop(t) PROVE Goal
  <2>1. \A u \in events : status[u] = "STOPPED" => status'[u] = "STOPPED"
    BY <1>0, <1>2 DEF Stop, TypeOK
  <2> QED BY <1>2, <2>1, <1>stop DEF Stop, Outside
<1>3. CASE StopAll
  <2>1. \A u \in events : status[u] = "STOPPED" => status'[u] = "STOPPED"
    BY <1>0, <1>3 DEF StopAll, TypeOK
  <2> QED BY <1>3, <2>1, <1>stop DEF StopAll, Outside
<1>4. CASE SetDone \/ SetStopped
  <2>1. \A u \in events : status[u] = "STOPPED" => status'[u] = "STOPPED"
    BY <1>0, <1>4 DEF SetDone, SetStopped, TypeOK
  <2> QED BY <1>4, <2>1, <1>stop DEF SetDone, SetStopped
<1>5. ASSUME NEW ms \in MutexLists, SetMutexes(ms) \/ RestoreLate(ms) PROVE Goal
  BY <1>5 DEF NoChanges, SetMutexes, RestoreLate
<1>6. CASE BeginReschedule
  <2>1. /\ pc = "idle" /\ pc' = "gray" /\ oldActive' = Elements(active) /\ oldInactive' = Elements(inactive)
        /\ UNCHANGED <<status, events>>
    BY <1>0, <1>6 DEF BeginReschedule, LockInv, SetsDisjoint, Consistent
  <2> QED BY <2>1, AbstractStutter DEF Resting, Running, Stopped, Rescheduling
<1>7. CASE GrayConflict \/ GrayKeep
  BY <1>0, <1>7 DEF GrayConflict, GrayKeep
<1>8. CASE GrayDone \/ EndSteal \/ ActivateDone \/ ResumeDone
  BY <1>8, <1>in DEF GrayDone, EndSteal, ActivateDone, ResumeDone, Rescheduling
<1>9. ASSUME NEW t \in Tasks, Discard(t) \/ Activate(t) \/ BeginSteal(t) \/ Skip(t) PROVE Goal
  BY <1>9, <1>in DEF Discard, Activate, BeginSteal, Skip, Candidate, Rescheduling
<1>10. ASSUME NEW m \in Mutexes, StealFromOwner(m) \/ TakeFree(m) PROVE Goal
  BY <1>10, <1>in DEF StealFromOwner, TakeFree, Rescheduling
<1>11. ASSUME NEW t \in Tasks, Awaken(t) \/ LeaveAwake(t) \/ Interrupt(t) PROVE Goal
  <2>1. /\ \A u \in Tasks : status'[u] = "STOPPED" <=> status[u] = "STOPPED"
        /\ pc \in {"resume", "interrupt"} /\ pc' = pc
        /\ UNCHANGED <<active, inactive, events, oldActive, oldInactive, mutexes>>
    BY <1>0, <1>11, StoppedKept
  <2>2. Stopped' = Stopped
    BY <1>0, <2>1 DEF Stopped, TypeOK
  <2> QED BY <2>1, <2>2, AbstractStutter DEF Resting, Running, Rescheduling
<1>12. CASE EndReschedule
  BY <1>0, <1>12, AbstractChoose DEF Abstract!SchedNext
<1>13. CASE BeginIterate \/ LeaveTask \/ EndIterate
  BY <1>13, <1>out DEF BeginIterate, LeaveTask, EndIterate, Rescheduling
<1>14. ASSUME NEW t \in Tasks, EnterTask(t) PROVE Goal
  BY <1>14, <1>out DEF EnterTask, Rescheduling
<1>15. ASSUME NEW t \in Tasks, Reap(t) PROVE Goal
  BY <1>0, <1>15, AbstractFinish DEF Abstract!SchedNext
<1>16. CASE UNCHANGED vars
  BY <1>16, AbstractStutter DEF vars, Resting, Running, Stopped, Rescheduling
<1> QED
  BY <1>1, <1>2, <1>3, <1>4, <1>5, <1>6, <1>7, <1>8, <1>9, <1>10, <1>11, <1>12, <1>13,
     <1>14, <1>15, <1>16
  DEF Next, Manager, Program, Reschedule, Iterate

(* The manager implements TaskScheduling for tasks that keep their         *)
(* mutexes: each reschedule, with all its loops, is one choice of tasks    *)
(* that do not compete, which lets only stopped tasks go and interrupts a  *)
(* running task only for one that outranks it.                             *)
THEOREM SchedulingImplemented == ASSUME NoChanges PROVE Spec => ImplementsScheduling
<1>1. Init => Abstract!SchedInit
  BY EmptyType DEF Init, Abstract!SchedInit, Rescheduling
<1>2. Init => RefInv
  BY SetsInit, LockInit, StatusInit, ConstantsAssumption
  DEF RefInv, ChoiceInv, Init, Rescheduling
<1>3. RefInv /\ [Next]_vars => RefInv'
  <2> SUFFICES ASSUME RefInv, [Next]_vars PROVE RefInv'
    OBVIOUS
  <2>1. SetsInv' /\ LockInv' /\ gray' = EmptySet
    BY SetsStep, LockStep, NeverGray, ConstantsAssumption DEF RefInv, NoChanges
  <2>2. StatusInv'
    BY StatusStep, ConstantsAssumption DEF RefInv, NoChanges
  <2>3. ChoiceInv'
    BY ChoiceStep, ConstantsAssumption
  <2> QED BY <2>1, <2>2, <2>3 DEF RefInv
<1>4. RefInv /\ [Next]_vars => [Abstract!SchedNext]_(Abstract!schedVars)
  BY AbstractStep, ConstantsAssumption
<1> QED BY <1>1, <1>2, <1>3, <1>4, PTL DEF Spec, ImplementsScheduling, Abstract!SchedSpec
=============================================================================
