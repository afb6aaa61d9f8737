--------------------------- MODULE SequenceLemmas ---------------------------
(***************************************************************************)
(* What splice and push do to an array, that a set of numbers has a least  *)
(* one, and what it takes to join many sequences into one.                 *)
(***************************************************************************)
EXTENDS Integers, SequencesExt, SequenceTheorems, WellFoundedInduction, TLAPS

(* Removal of one item from a sequence.                                    *)
LEMMA RemoveAtType ==
  ASSUME NEW S, NEW q \in Seq(S), NEW k \in 1 .. Len(q)
  PROVE  /\ RemoveAt(q, k) \in Seq(S)
         /\ Len(RemoveAt(q, k)) = Len(q) - 1
         /\ \A j \in 1 .. Len(q) - 1 :
               RemoveAt(q, k)[j] = IF j < k THEN q[j] ELSE q[j + 1]
<1> DEFINE a == SubSeq(q, 1, k - 1)
           b == SubSeq(q, k + 1, Len(q))
<1>1. a \in Seq(S) /\ Len(a) = k - 1 /\ \A j \in 1 .. k - 1 : a[j] = q[j]
  OBVIOUS
<1>2. b \in Seq(S) /\ Len(b) = Len(q) - k /\ \A j \in 1 .. Len(q) - k : b[j] = q[k + j]
  OBVIOUS
<1>3. RemoveAt(q, k) = a \o b
  BY DEF RemoveAt
<1>4. Len(q) \in Nat
  OBVIOUS
<1> HIDE DEF a, b
<1>5. /\ a \o b \in Seq(S) /\ Len(a \o b) = Len(a) + Len(b)
      /\ \A j \in 1 .. Len(a) + Len(b) :
            (a \o b)[j] = IF j <= Len(a) THEN a[j] ELSE b[j - Len(a)]
  BY <1>1, <1>2, ConcatProperties
<1>6. Len(a) + Len(b) = Len(q) - 1
  BY <1>1, <1>2, <1>4
<1>7. ASSUME NEW j \in 1 .. Len(q) - 1
      PROVE  (a \o b)[j] = IF j < k THEN q[j] ELSE q[j + 1]
  <2>1. CASE j < k
    BY <2>1, <1>1, <1>4, <1>5, <1>6
  <2>2. CASE ~(j < k)
    <3>1. j - (k - 1) \in 1 .. Len(q) - k /\ k + (j - (k - 1)) = j + 1 /\ ~(j <= k - 1)
      BY <2>2, <1>4
    <3>2. (a \o b)[j] = b[j - (k - 1)]
      BY <3>1, <1>1, <1>5, <1>6
    <3>3. b[j - (k - 1)] = q[k + (j - (k - 1))]
      BY <3>1, <1>2
    <3> QED BY <3>1, <3>2, <3>3, <2>2
  <2> QED BY <2>1, <2>2
<1> QED BY <1>3, <1>5, <1>6, <1>7

(* Insertion of one item.                                                  *)
LEMMA InsertAtType ==
  ASSUME NEW S, NEW q \in Seq(S), NEW k \in 1 .. Len(q) + 1, NEW x \in S
  PROVE  /\ InsertAt(q, k, x) \in Seq(S)
         /\ Len(InsertAt(q, k, x)) = Len(q) + 1
         /\ \A j \in 1 .. Len(q) + 1 :
               InsertAt(q, k, x)[j] = IF j < k THEN q[j] ELSE IF j = k THEN x ELSE q[j - 1]
<1> DEFINE a == SubSeq(q, 1, k - 1)
           b == SubSeq(q, k, Len(q))
           ax == a \o <<x>>
<1>1. a \in Seq(S) /\ Len(a) = k - 1 /\ \A j \in 1 .. k - 1 : a[j] = q[j]
  OBVIOUS
<1>2. b \in Seq(S) /\ Len(b) = Len(q) - k + 1 /\ \A j \in 1 .. Len(q) - k + 1 : b[j] = q[k + j - 1]
  OBVIOUS
<1>3. InsertAt(q, k, x) = ax \o b
  BY DEF InsertAt
<1>4. Len(q) \in Nat /\ <<x>> \in Seq(S) /\ Len(<<x>>) = 1 /\ <<x>>[1] = x
  OBVIOUS
<1> HIDE DEF a, b
<1>5. /\ ax \in Seq(S) /\ Len(ax) = Len(a) + 1
      /\ \A j \in 1 .. Len(a) + 1 : ax[j] = IF j <= Len(a) THEN a[j] ELSE <<x>>[j - Len(a)]
  BY <1>1, <1>4, ConcatProperties
<1>6. Len(ax) = k /\ \A j \in 1 .. k : ax[j] = IF j < k THEN q[j] ELSE x
  BY <1>1, <1>4, <1>5
<1> HIDE DEF ax
<1>7. /\ ax \o b \in Seq(S) /\ Len(ax \o b) = Len(ax) + Len(b)
      /\ \A j \in 1 .. Len(ax) + Len(b) :
            (ax \o b)[j] = IF j <= Len(ax) THEN ax[j] ELSE b[j - Len(ax)]
  BY <1>2, <1>5, ConcatProperties
<1>8. Len(ax) + Len(b) = Len(q) + 1
  BY <1>2, <1>4, <1>6
<1>9. ASSUME NEW j \in 1 .. Len(q) + 1
      PROVE  (ax \o b)[j] = IF j < k THEN q[j] ELSE IF j = k THEN x ELSE q[j - 1]
  <2>1. CASE j <= k
    BY <2>1, <1>4, <1>6, <1>7, <1>8
  <2>2. CASE ~(j <= k)
    <3>1. j - k \in 1 .. Len(q) - k + 1 /\ k + (j - k) - 1 = j - 1
      BY <2>2, <1>4
    <3> QED BY <3>1, <2>2, <1>2, <1>4, <1>6, <1>7, <1>8
  <2> QED BY <2>1, <2>2
<1> QED BY <1>3, <1>7, <1>8, <1>9

(* All but the last item.                                                  *)
LEMMA FrontType ==
  ASSUME NEW S, NEW q \in Seq(S), Len(q) \in Nat \ {0}
  PROVE  /\ Front(q) \in Seq(S) /\ Len(Front(q)) = Len(q) - 1
         /\ \A k \in 1 .. Len(q) - 1 : Front(q)[k] = q[k]
<1> DEFINE n == Len(q)
           a == SubSeq(q, 1, n - 1)
<1>1. Front(q) = a
  BY DEF Front
<1>2. a \in Seq(S) /\ Len(a) = n - 1 /\ \A k \in 1 .. n - 1 : a[k] = q[k]
  <2>1. n \in 1 .. Len(q)
    OBVIOUS
  <2>2. ASSUME NEW m \in 1 .. Len(q)
        PROVE  /\ SubSeq(q, 1, m - 1) \in Seq(S) /\ Len(SubSeq(q, 1, m - 1)) = m - 1
               /\ \A k \in 1 .. m - 1 : SubSeq(q, 1, m - 1)[k] = q[k]
    OBVIOUS
  <2> HIDE DEF n
  <2> QED BY <2>1, <2>2
<1> HIDE DEF a, n
<1> QED BY <1>1, <1>2 DEF n

(* What an array holds after a push.                                       *)
LEMMA AppendRange ==
  ASSUME NEW S, NEW q \in Seq(S), NEW x \in S
  PROVE  Range(Append(q, x)) = Range(q) \cup {x}
<1>1. /\ DOMAIN q = 1 .. Len(q) /\ DOMAIN Append(q, x) = 1 .. Len(q) + 1 /\ Len(q) \in Nat
      /\ Append(q, x)[Len(q) + 1] = x /\ \A j \in 1 .. Len(q) : Append(q, x)[j] = q[j]
  OBVIOUS
<1>2. 1 .. Len(q) + 1 = 1 .. Len(q) \cup {Len(q) + 1}
  BY <1>1
<1> QED BY <1>1, <1>2 DEF Range

(* A set of natural numbers that is not empty has a least element.         *)
LEMMA LeastElement ==
  ASSUME NEW T, T \subseteq Nat, T # {}
  PROVE  \E n \in T : \A m \in T : n <= m
<1>1. PICK n \in T : \A m \in T : ~(<<m, n>> \in OpToRel(<, Nat))
  BY NatLessThanWellFounded, WFMin
<1>2. \A m \in T : ~(m < n)
  BY <1>1 DEF OpToRel
<1> QED BY <1>2

-----------------------------------------------------------------------------
(* s \o t, as an operator of which no more is known than is cited.          *)
Then(s, t) == s \o t

(* Concatenation is associative.                                           *)
LEMMA ThenAssociative ==
  ASSUME NEW S, NEW s \in Seq(S), NEW t \in Seq(S), NEW u \in Seq(S)
  PROVE  Then(Then(s, t), u) = Then(s, Then(t, u))
BY ConcatAssociative DEF Then

(* Its type, and what it does with no sequence at all.                     *)
LEMMA ThenIs ==
  ASSUME NEW S
  PROVE  /\ \A s, t \in Seq(S) : Then(s, t) \in Seq(S)
         /\ \A s \in Seq(S) : Then(s, << >>) = s /\ Then(<< >>, s) = s
<1>1. \A s, t \in Seq(S) : Then(s, t) \in Seq(S)
  BY DEF Then
<1>2. ASSUME NEW s \in Seq(S) PROVE Then(s, << >>) = s /\ Then(<< >>, s) = s
  BY ConcatEmptySeq DEF Then
<1> QED BY <1>1, <1>2

(* The recursive function of which FlattenSeq takes the last value, for    *)
(* the first n sequences of s.                                             *)
FlattensTo(s, n, f) == f = [i \in 1..n |-> IF i = 1 THEN s[i] ELSE Then(f[i - 1], s[i])]

(* Its equation, case by case.                                             *)
LEMMA FlattensToIs ==
  ASSUME NEW s, NEW n \in Nat, NEW f, FlattensTo(s, n, f)
  PROVE  /\ DOMAIN f = 1..n
         /\ n > 0 => f[1] = s[1]
         /\ \A i \in 2..n : f[i] = Then(f[i - 1], s[i])
<1>1. \A i \in 1..n : f[i] = IF i = 1 THEN s[i] ELSE Then(f[i - 1], s[i])
  BY DEF FlattensTo
<1>2. DOMAIN f = 1..n
  BY DEF FlattensTo
<1> QED BY <1>1, <1>2

(* Its values are sequences.                                               *)
LEMMA FlattensToType ==
  ASSUME NEW S, NEW s \in Seq(Seq(S)), NEW n \in 0..Len(s), NEW f, FlattensTo(s, n, f)
  PROVE  \A i \in 1..n : f[i] \in Seq(S)
<1>0. n \in Nat /\ \A i \in 1..n : s[i] \in Seq(S)
  OBVIOUS
<1> DEFINE T == {i \in 1..n : f[i] \notin Seq(S)}
<1> SUFFICES ASSUME T # {} PROVE FALSE
  OBVIOUS
<1>1. T \subseteq Nat
  BY <1>0
<1>2. PICK i \in T : \A j \in T : i <= j
  BY <1>1, LeastElement
<1>3. CASE i = 1
  <2>1. f[1] = s[1] /\ 1 \in 1..n
    BY <1>2, <1>3, FlattensToIs
  <2> QED BY <1>0, <1>2, <1>3, <2>1
<1>4. CASE i # 1
  <2>1. i \in 2..n /\ i - 1 \in 1..n /\ i - 1 \notin T
    BY <1>0, <1>2, <1>4
  <2>2. f[i] = Then(f[i - 1], s[i])
    BY <1>0, <2>1, FlattensToIs
  <2>3. f[i - 1] \in Seq(S) /\ s[i] \in Seq(S)
    BY <1>0, <2>1
  <2>4. Then(f[i - 1], s[i]) \in Seq(S)
    BY <2>3, ThenIs
  <2> QED BY <1>2, <2>2, <2>4
<1> QED BY <1>3, <1>4

(* They depend on the first sequences only.                                *)
LEMMA FlattensToAgree ==
  ASSUME NEW s, NEW t, NEW n \in Nat, NEW m \in Nat, n <= m, \A i \in 1..n : s[i] = t[i],
         NEW f, FlattensTo(s, n, f), NEW g, FlattensTo(t, m, g)
  PROVE  \A i \in 1..n : f[i] = g[i]
<1> DEFINE T == {i \in 1..n : f[i] # g[i]}
<1> SUFFICES ASSUME T # {} PROVE FALSE
  OBVIOUS
<1>1. T \subseteq Nat
  OBVIOUS
<1>2. PICK i \in T : \A j \in T : i <= j
  BY <1>1, LeastElement
<1>3. CASE i = 1
  <2>1. 1 \in 1..n /\ n > 0 /\ m > 0
    BY <1>2, <1>3
  <2>2. f[1] = s[1] /\ g[1] = t[1]
    BY <2>1, FlattensToIs
  <2> QED BY <1>2, <1>3, <2>1, <2>2
<1>4. CASE i # 1
  <2>1. i \in 2..n /\ i \in 2..m /\ i \in 1..n /\ i - 1 \in 1..n /\ i - 1 \notin T
    BY <1>2, <1>4
  <2>2. f[i] = Then(f[i - 1], s[i])
    BY <2>1, FlattensToIs
  <2>3. g[i] = Then(g[i - 1], t[i])
    BY <2>1, FlattensToIs
  <2> QED BY <1>2, <2>1, <2>2, <2>3
<1> QED BY <1>3, <1>4

(* There is such a function: one for one sequence less is extended.        *)
LEMMA FlattensToExist ==
  ASSUME NEW s, NEW n \in Nat
  PROVE  \E f : FlattensTo(s, n, f)
<1> DEFINE T == {m \in Nat : ~ \E f : FlattensTo(s, m, f)}
<1> SUFFICES ASSUME T # {} PROVE FALSE
  OBVIOUS
<1>1. T \subseteq Nat
  OBVIOUS
<1>2. PICK m \in T : \A j \in T : m <= j
  BY <1>1, LeastElement
<1>3. CASE m = 0
  <2> DEFINE h == [i \in 1..0 |-> s[i]]
  <2>1. h = [i \in 1..0 |-> IF i = 1 THEN s[i] ELSE Then(h[i - 1], s[i])]
    OBVIOUS
  <2>2. FlattensTo(s, 0, h)
    BY <2>1 DEF FlattensTo
  <2> QED BY <1>2, <1>3, <2>2
<1>4. CASE m # 0
  <2>1. m - 1 \in Nat /\ m - 1 \notin T /\ m \in Nat
    BY <1>2, <1>4
  <2>2. PICK g : FlattensTo(s, m - 1, g)
    BY <2>1
  <2>3. /\ m - 1 > 0 => g[1] = s[1]
        /\ \A i \in 2..(m - 1) : g[i] = Then(g[i - 1], s[i])
    BY <2>1, <2>2, FlattensToIs
  <2> DEFINE x == IF m = 1 THEN s[1] ELSE Then(g[m - 1], s[m])
             f == [i \in 1..m |-> IF i = m THEN x ELSE g[i]]
  <2> HIDE DEF x
  <2>4. DOMAIN f = 1..m /\ f[m] = x /\ \A i \in 1..(m - 1) : f[i] = g[i]
    BY <2>1, <1>4
  <2>5. ASSUME NEW i \in 1..m
        PROVE  f[i] = IF i = 1 THEN s[i] ELSE Then(f[i - 1], s[i])
    <3>1. CASE i = m
      <4>1. CASE m = 1
        BY <2>4, <3>1, <4>1 DEF x
      <4>2. CASE m # 1
        <5>1. m - 1 \in 1..(m - 1)
          BY <2>1, <1>4, <4>2
        <5>2. f[m - 1] = g[m - 1]
          BY <2>4, <5>1
        <5> HIDE DEF f
        <5> QED BY <2>4, <3>1, <4>2, <5>2 DEF x
      <4> QED BY <4>1, <4>2
    <3>2. CASE i # m
      <4>1. i \in 1..(m - 1) /\ (i # 1 => i \in 2..(m - 1) /\ i - 1 \in 1..(m - 1)) /\ m - 1 > 0
        BY <2>1, <2>5, <3>2
      <4>2. f[i] = g[i] /\ (i # 1 => f[i - 1] = g[i - 1])
        BY <2>4, <4>1
      <4> HIDE DEF f
      <4>3. i # 1 => g[i] = Then(g[i - 1], s[i])
        BY <2>3, <4>1
      <4> QED BY <2>3, <4>1, <4>2, <4>3
    <3> QED BY <3>1, <3>2
  <2>6. f = [i \in 1..m |-> IF i = 1 THEN s[i] ELSE Then(f[i - 1], s[i])]
    <3>1. f = [i \in 1..m |-> f[i]]
      BY <2>4
    <3> HIDE DEF f
    <3> QED BY <2>5, <3>1
  <2>7. FlattensTo(s, m, f)
    BY <2>6 DEF FlattensTo
  <2> QED BY <1>2, <2>7
<1> QED BY <1>3, <1>4

(* FlattenSeq takes its last value.                                        *)
LEMMA FlattenSeqIs ==
  ASSUME NEW s, Len(s) \in Nat, Len(s) > 0
  PROVE  \E f : FlattensTo(s, Len(s), f) /\ FlattenSeq(s) = f[Len(s)]
<1> DEFINE f == CHOOSE f : f = [i \in 1..Len(s) |-> IF i = 1 THEN s[i] ELSE Then(f[i - 1], s[i])]
<1>1. \E g : g = [i \in 1..Len(s) |-> IF i = 1 THEN s[i] ELSE Then(g[i - 1], s[i])]
  BY FlattensToExist DEF FlattensTo, Then
<1>2. f = [i \in 1..Len(s) |-> IF i = 1 THEN s[i] ELSE Then(f[i - 1], s[i])]
  BY <1>1
<1>3. FlattenSeq(s) = f[Len(s)]
  BY Len(s) # 0 DEF FlattenSeq, Then
<1> HIDE DEF f
<1> QED BY <1>2, <1>3 DEF FlattensTo

(* One sequence more.                                                      *)
LEMMA FlattenAppend ==
  ASSUME NEW S, NEW s \in Seq(Seq(S)), NEW x \in Seq(S)
  PROVE  FlattenSeq(Append(s, x)) = Then(FlattenSeq(s), x)
<1> DEFINE n == Len(s)
           t == Append(s, x)
<1>1. n \in Nat /\ Len(t) = n + 1 /\ t[n + 1] = x /\ \A i \in 1..n : t[i] = s[i]
  OBVIOUS
<1> HIDE DEF t
<1>2. PICK g : FlattensTo(t, n + 1, g) /\ FlattenSeq(t) = g[n + 1]
  <2>1. Len(t) \in Nat /\ Len(t) > 0
    BY <1>1
  <2> QED BY <1>1, <2>1, FlattenSeqIs
<1>3. CASE n = 0
  <2>1. g[1] = t[1]
    BY <1>1, <1>2, FlattensToIs
  <2>2. FlattenSeq(s) = << >>
    BY <1>3 DEF FlattenSeq
  <2>3. Then(<< >>, x) = x
    BY ThenIs
  <2> QED BY <1>1, <1>2, <1>3, <2>1, <2>2, <2>3 DEF t
<1>4. CASE n # 0
  <2>1. PICK f : FlattensTo(s, n, f) /\ FlattenSeq(s) = f[n]
    BY <1>1, <1>4, FlattenSeqIs
  <2>2. n \in Nat /\ n \in 1..n /\ n + 1 \in 2..(n + 1) /\ n + 1 \in Nat /\ n <= n + 1 /\ (n + 1) - 1 = n
    BY <1>1, <1>4
  <2> HIDE DEF n
  <2>3. f[n] = g[n]
    <3>1. \A i \in 1..n : s[i] = t[i]
      BY <1>1
    <3> DEFINE m == n + 1
    <3>2. FlattensTo(s, n, f) /\ FlattensTo(t, m, g) /\ n \in Nat /\ m \in Nat /\ n <= m
      BY <1>2, <2>1, <2>2
    <3> HIDE DEF t, m
    <3>3. \A i \in 1..n : f[i] = g[i]
      BY ONLY <3>1, <3>2, FlattensToAgree
    <3> QED BY <2>2, <3>3
  <2>4. g[n + 1] = Then(g[n], t[n + 1])
    <3>1. g[n + 1] = Then(g[(n + 1) - 1], t[n + 1])
      BY <1>2, <2>2, FlattensToIs
    <3> QED BY <2>2, <3>1
  <2> QED BY <1>1, <1>2, <2>1, <2>3, <2>4 DEF t
<1> QED BY <1>3, <1>4

(* One sequence less.                                                      *)
LEMMA FlattenHead ==
  ASSUME NEW S, NEW s \in Seq(Seq(S)), s # << >>
  PROVE  FlattenSeq(s) = Then(Head(s), FlattenSeq(Tail(s)))
<1> DEFINE n == Len(s)
           t == Tail(s)
<1>1. /\ n \in Nat /\ n > 0 /\ t \in Seq(Seq(S)) /\ Len(t) = n - 1 /\ Head(s) = s[1]
      /\ s[1] \in Seq(S)
      /\ \A i \in 1..(n - 1) : t[i] = s[i + 1] /\ t[i] \in Seq(S)
  OBVIOUS
<1>2. PICK f : FlattensTo(s, n, f) /\ FlattenSeq(s) = f[n]
  BY <1>1, FlattenSeqIs
<1>3. f[1] = s[1] /\ \A i \in 2..n : f[i] = Then(f[i - 1], s[i])
  BY <1>1, <1>2, FlattensToIs
<1>4. CASE n = 1
  <2>1. FlattenSeq(t) = << >>
    <3> HIDE DEF t
    <3>1. Len(t) = 0 /\ t = << >>
      BY <1>1, <1>4
    <3> QED BY <3>1 DEF FlattenSeq
  <2>2. Then(s[1], << >>) = s[1]
    BY <1>1, ThenIs
  <2> QED BY <1>1, <1>2, <1>3, <1>4, <2>1, <2>2
<1>5. CASE n # 1
  <2> HIDE DEF t
  <2>1. n - 1 \in Nat /\ n - 1 > 0 /\ n - 1 \in 0..Len(t)
    BY <1>1, <1>5
  <2>2. PICK g : FlattensTo(t, n - 1, g) /\ FlattenSeq(t) = g[n - 1]
    BY <1>1, <2>1, FlattenSeqIs
  <2>3. g[1] = t[1] /\ \A i \in 2..(n - 1) : g[i] = Then(g[i - 1], t[i])
    <3> DEFINE m == n - 1
    <3>1. m \in Nat /\ m > 0 /\ FlattensTo(t, m, g)
      BY <2>1, <2>2
    <3> HIDE DEF m
    <3>2. g[1] = t[1] /\ \A i \in 2..m : g[i] = Then(g[i - 1], t[i])
      BY ONLY <3>1, FlattensToIs
    <3> QED BY <3>2 DEF m
  <2>4. \A i \in 1..(n - 1) : g[i] \in Seq(S)
    BY <1>1, <2>1, <2>2, FlattensToType
  <2> HIDE DEF n
  <2> DEFINE T == {i \in 1..(n - 1) : f[i + 1] # Then(s[1], g[i])}
  <2>5. T = {}
    <3> SUFFICES ASSUME T # {} PROVE FALSE
      OBVIOUS
    <3>1. T \subseteq Nat
      BY <1>1
    <3>2. PICK i \in T : \A j \in T : i <= j
      BY <3>1, LeastElement
    <3>3. i \in 1..(n - 1) /\ i \in Nat /\ i + 1 \in 2..n /\ (i + 1) - 1 = i
      BY <1>1, <3>1, <3>2
    <3>4. f[i + 1] = Then(f[i], t[i])
      <4>1. f[i + 1] = Then(f[(i + 1) - 1], s[i + 1])
        BY <1>3, <3>3
      <4> QED BY <1>1, <3>3, <4>1
    <3>5. CASE i = 1
      BY <1>3, <2>3, <3>2, <3>4, <3>5
    <3>6. CASE i # 1
      <4>1. i - 1 \in 1..(n - 1) /\ i - 1 \notin T /\ (i - 1) + 1 = i /\ i \in 2..(n - 1)
        BY <1>1, <3>2, <3>3, <3>6
      <4>2. f[i] = Then(s[1], g[i - 1])
        BY <4>1
      <4>3. g[i] = Then(g[i - 1], t[i])
        BY <2>3, <4>1
      <4>4. g[i - 1] \in Seq(S) /\ t[i] \in Seq(S) /\ s[1] \in Seq(S)
        BY <1>1, <2>4, <3>3, <4>1
      <4>5. Then(Then(s[1], g[i - 1]), t[i]) = Then(s[1], Then(g[i - 1], t[i]))
        BY ONLY <4>4, ThenAssociative
      <4> QED BY <3>2, <3>4, <4>2, <4>3, <4>5
    <3> QED BY <3>5, <3>6
  <2>6. n - 1 \in 1..(n - 1) /\ (n - 1) + 1 = n
    BY <1>1, <2>1
  <2> QED BY <1>1, <1>2, <2>2, <2>5, <2>6 DEF t
<1> QED BY <1>4, <1>5

(* All in one is a sequence too.                                           *)
LEMMA FlattenType ==
  ASSUME NEW S, NEW s \in Seq(Seq(S))
  PROVE  FlattenSeq(s) \in Seq(S) /\ (s = << >> => FlattenSeq(s) = << >>)
<1>1. CASE Len(s) = 0
  <2>1. FlattenSeq(s) = s /\ s = << >>
    BY <1>1 DEF FlattenSeq
  <2> QED BY <2>1
<1>2. CASE Len(s) # 0
  <2>1. Len(s) \in Nat /\ Len(s) > 0 /\ Len(s) \in 1..Len(s) /\ Len(s) \in 0..Len(s) /\ s # << >>
    BY <1>2
  <2>2. PICK f : FlattensTo(s, Len(s), f) /\ FlattenSeq(s) = f[Len(s)]
    BY <2>1, FlattenSeqIs
  <2> QED BY <2>1, <2>2, FlattensToType
<1> QED BY <1>1, <1>2

(* To be the beginning of t is to have a rest in t.                        *)
LEMMA PrefixIs ==
  ASSUME NEW S, NEW s \in Seq(S), NEW t \in Seq(S)
  PROVE  IsPrefix(s, t) <=> \E r \in Seq(S) : t = s \o r
<1>0. Len(s) \in Nat /\ Len(t) \in Nat
  OBVIOUS
<1>1. ASSUME IsPrefix(s, t) PROVE \E r \in Seq(S) : t = s \o r
  <2> DEFINE r == SubSeq(t, Len(s) + 1, Len(t))
  <2>1. Len(s) <= Len(t) /\ SubSeq(s, 1, Len(s)) = SubSeq(t, 1, Len(s))
    BY <1>1 DEF IsPrefix
  <2>2. SubSeq(s, 1, Len(s)) = s /\ SubSeq(t, 1, Len(t)) = t
    OBVIOUS
  <2>3. SubSeq(t, 1, Len(s)) \o SubSeq(t, Len(s) + 1, Len(t)) = SubSeq(t, 1, Len(t))
    <3>1. 1 \in 1..(Len(t) + 1) /\ Len(s) \in (1 - 1)..Len(t) /\ Len(t) \in Len(s)..Len(t)
      BY <1>0, <2>1
    <3> QED BY <3>1, ConcatAdjacentSubSeq
  <2>4. r \in Seq(S)
    BY <1>0, <2>1
  <2> QED BY <2>1, <2>2, <2>3, <2>4
<1>2. ASSUME NEW r \in Seq(S), t = s \o r PROVE IsPrefix(s, t)
  <2>1. Len(s) <= Len(t)
    BY <1>2
  <2>2. SubSeq(t, 1, Len(s)) = SubSeq(s, 1, Len(s))
    BY <1>0, <1>2, SubSeqOfConcat1
  <2> QED BY <2>1, <2>2 DEF IsPrefix
<1> QED BY <1>1, <1>2

(* A shorter sequence that agrees with a longer one is a prefix of it.     *)
LEMMA AgreeIsPrefix ==
  ASSUME NEW S, NEW s \in Seq(S), NEW t \in Seq(S), Len(s) <= Len(t), \A n \in 1..Len(s) : s[n] = t[n]
  PROVE  IsPrefix(s, t)
<1> DEFINE m == Len(s)
           l == Len(t)
           u == SubSeq(t, 1, m)
<1>1. m \in Nat /\ l \in Nat /\ m <= l
  OBVIOUS
<1>2. u \in Seq(S) /\ Len(u) = m /\ \A n \in 1..m : u[n] = t[n]
  <2> HIDE DEF m, l, u
  <2>1. 1 \in Nat /\ m \in 0..Len(t) 
    BY <1>1 DEF l
  <2> QED BY <1>1, <2>1 DEF u, l
<1>3. SubSeq(s, 1, m) = s
  OBVIOUS
<1>4. u = s
  <2> HIDE DEF u
  <2> QED BY <1>2, SeqEqual
<1> HIDE DEF u
<1> QED BY <1>1, <1>3, <1>4, Zenon DEF IsPrefix, u, m, l
=============================================================================
