-------------------------- MODULE DenseHashProofs --------------------------
(***************************************************************************)
(* Proofs about DenseHash: triangular probing comes to every bucket of a   *)
(* table of 2^n, so every search ends, every key is found, a walk misses   *)
(* nothing, and the table implements the abstract map, for all keys,       *)
(* values, hash functions and calls.                                       *)
(***************************************************************************)
EXTENDS DenseHash, SequenceLemmas, FiniteSetTheorems

(* A recursive function is defined by CHOOSE: that it has the value its    *)
(* equation gives has to be proved.  g is the function of the powers of    *)
(* two up to n; two such functions agree, there is one for every n, and    *)
(* together they are the one TwoTo chooses.                                *)
PowersUpTo(n, g) == g = [i \in 0..n |-> IF i = 0 THEN 1 ELSE 2 * g[i - 1]]

(* The equation of PowersUpTo, case by case.                               *)
LEMMA PowersUpToIs ==
  ASSUME NEW n \in Nat, NEW g, PowersUpTo(n, g)
  PROVE  g[0] = 1 /\ \A i \in 1..n : g[i] = 2 * g[i - 1]
<1>1. \A i \in 0..n : g[i] = IF i = 0 THEN 1 ELSE 2 * g[i - 1]
  BY DEF PowersUpTo
<1> QED BY <1>1

(* There is at most one value for a power.  A least number at which two    *)
(* such functions differ would have a predecessor at which they do.        *)
LEMMA PowersUpToAgree ==
  ASSUME NEW n \in Nat, NEW m \in Nat, NEW g, NEW h, PowersUpTo(n, g), PowersUpTo(m, h)
  PROVE  \A i \in 0..n : i <= m => g[i] = h[i]
<1> DEFINE T == {i \in 0..n : i <= m /\ g[i] # h[i]}
<1> SUFFICES ASSUME T # {} PROVE FALSE
  OBVIOUS
<1>0. T \subseteq Nat
  OBVIOUS
<1>1. PICK i \in T : \A j \in T : i <= j
  BY <1>0, LeastElement
<1>2. i # 0
  BY <1>1, PowersUpToIs
<1>3. i - 1 \in 0..n /\ i - 1 <= m /\ i - 1 \notin T /\ i \in 1..n /\ i \in 1..m
  BY <1>1, <1>2
<1> QED BY <1>1, <1>3, PowersUpToIs

(* There is such a function for every n, for one for n - 1 is extended.    *)
LEMMA PowersUpToExist ==
  ASSUME NEW n \in Nat
  PROVE  \E g : PowersUpTo(n, g)
<1> DEFINE T == {m \in Nat : ~ \E g : PowersUpTo(m, g)}
<1> SUFFICES ASSUME T # {} PROVE FALSE
  OBVIOUS
<1>1. PICK m \in T : \A j \in T : m <= j
  BY LeastElement
<1>2. m # 0
  <2> DEFINE f == [i \in 0..0 |-> 1]
  <2>1. f = [i \in 0..0 |-> IF i = 0 THEN 1 ELSE 2 * f[i - 1]]
    <3>1. \A i \in 0..0 : i = 0
      OBVIOUS
    <3> QED BY <3>1
  <2>2. PowersUpTo(0, f)
    BY <2>1 DEF PowersUpTo
  <2> QED BY <1>1, <2>2
<1>3. m - 1 \in Nat /\ m - 1 \notin T
  BY <1>1, <1>2
<1>4. PICK g : PowersUpTo(m - 1, g)
  BY <1>3
<1> DEFINE f == [i \in 0..m |-> IF i = m THEN 2 * g[m - 1] ELSE g[i]]
<1>5. \A i \in 0..m : f[i] = IF i = 0 THEN 1 ELSE 2 * f[i - 1]
  <2> SUFFICES ASSUME NEW i \in 0..m PROVE f[i] = IF i = 0 THEN 1 ELSE 2 * f[i - 1]
    OBVIOUS
  <2>1. CASE i = m
    BY <1>2, <2>1
  <2>2. CASE i = 0
    BY <1>2, <1>4, <2>2, PowersUpToIs, <1>3
  <2>3. CASE i # m /\ i # 0
    <3>1. i \in 1..m - 1 /\ i - 1 \in 0..m /\ i - 1 # m
      BY <1>1, <2>3
    <3>2. f[i] = g[i] /\ f[i - 1] = g[i - 1]
      BY <2>3, <3>1
    <3>3. g[i] = 2 * g[i - 1]
      BY <1>3, <1>4, <3>1, PowersUpToIs
    <3> QED BY <2>3, <3>2, <3>3
  <2> QED BY <2>1, <2>2, <2>3
<1>6. f = [i \in 0..m |-> IF i = 0 THEN 1 ELSE 2 * f[i - 1]]
  BY <1>5
<1> HIDE DEF f
<1>7. PowersUpTo(m, f)
  BY <1>6 DEF PowersUpTo
<1> QED BY <1>1, <1>7

(* So there is one function over all natural numbers.                      *)
LEMMA TwoToDefined == \E f : f = [i \in Nat |-> IF i = 0 THEN 1 ELSE 2 * f[i - 1]]
<1> DEFINE g(n) == CHOOSE x : PowersUpTo(n, x)
           f == [i \in Nat |-> g(i)[i]]
<1>1. \A n \in Nat : PowersUpTo(n, g(n))
  BY PowersUpToExist
<1> HIDE DEF g
<1>2. ASSUME NEW i \in Nat PROVE f[i] = IF i = 0 THEN 1 ELSE 2 * f[i - 1]
  <2>1. CASE i = 0
    BY <1>1, <2>1, PowersUpToIs
  <2>2. CASE i # 0
    <3>1. i - 1 \in Nat /\ i \in 1..i /\ i - 1 \in 0..i - 1 /\ i - 1 <= i
      BY <2>2
    <3>2. PowersUpTo(i, g(i)) /\ PowersUpTo(i - 1, g(i - 1))
      BY <1>1, <3>1
    <3>3. g(i)[i] = 2 * g(i)[i - 1]
      BY <3>1, <3>2, PowersUpToIs
    <3>4. g(i - 1)[i - 1] = g(i)[i - 1]
      BY <3>1, <3>2, PowersUpToAgree
    <3> QED BY <2>2, <3>1, <3>3, <3>4
  <2> QED BY <2>1, <2>2
<1>3. f = [i \in Nat |-> IF i = 0 THEN 1 ELSE 2 * f[i - 1]]
  BY <1>2
<1> QED BY <1>3

(* The equation by which TwoTo is defined.                                 *)
LEMMA TwoToIs == TwoTo = [i \in Nat |-> IF i = 0 THEN 1 ELSE 2 * TwoTo[i - 1]]
<1> DEFINE Is(f) == f = [i \in Nat |-> IF i = 0 THEN 1 ELSE 2 * f[i - 1]]
<1>1. \E f : Is(f)
  BY TwoToDefined
<1>2. TwoTo = CHOOSE f : Is(f)
  BY DEF TwoTo
<1> HIDE DEF Is
<1>3. Is(TwoTo)
  BY <1>1, <1>2
<1> QED BY <1>3 DEF Is

(* Small facts of arithmetic.                                              *)
LEMMA HalfOfTwice == \A t \in Int : (2 * t) \div 2 = t
  OBVIOUS
LEMMA EvenOrOdd == \A i \in Int : \E q \in Int : i = 2 * q \/ i = 2 * q + 1
<1> SUFFICES ASSUME NEW i \in Int PROVE \E q \in Int : i = 2 * q \/ i = 2 * q + 1
  OBVIOUS
<1>1. i \div 2 \in Int /\ (i = 2 * (i \div 2) \/ i = 2 * (i \div 2) + 1)
  OBVIOUS
<1> QED BY <1>1

(* i * (i + 1) is even, so that a triangular number is whole.              *)
LEMMA Triangle ==
  ASSUME NEW i \in Nat
  PROVE \E t \in Nat : t = (i * (i + 1)) \div 2 /\ 2 * t = i * (i + 1)
<1>1. PICK q \in Int : i = 2 * q \/ i = 2 * q + 1
  BY EvenOrOdd
<1>2. CASE i = 2 * q
  <2>1. q * (i + 1) \in Nat
    <3>1. q \in Nat BY <1>2
    <3> QED BY <3>1
  <2>2. i * (i + 1) = 2 * (q * (i + 1))
    BY <1>2
  <2> DEFINE t == q * (i + 1)
  <2>3. t \in Nat /\ i * (i + 1) = 2 * t
    BY <2>1, <2>2
  <2> HIDE DEF t
  <2> QED BY <2>3, HalfOfTwice
<1>3. CASE i = 2 * q + 1
  <2>1. i * (q + 1) \in Nat
    <3>1. q \in Nat BY <1>3
    <3> QED BY <3>1
  <2>2. i * (i + 1) = 2 * (i * (q + 1))
    <3>1. i + 1 = 2 * (q + 1)
      BY <1>3
    <3>2. \A a, b \in Int : a * (2 * b) = 2 * (a * b)
      OBVIOUS
    <3> QED BY <3>1, <3>2
  <2> DEFINE t == i * (q + 1)
  <2>3. t \in Nat /\ i * (i + 1) = 2 * t
    BY <2>1, <2>2
  <2> HIDE DEF t
  <2> QED BY <2>3, HalfOfTwice
<1> QED BY <1>1, <1>2, <1>3

(* Remainders, and what follows from two that are equal.                   *)
LEMMA Residues ==
  ASSUME NEW n \in Nat, n > 0
  PROVE /\ \A a \in Nat : a % n \in 0..n-1
        /\ \A a, b \in Nat : a % n = b % n => \E q \in Int : a - b = n * q
<1>1. ASSUME NEW a \in Nat PROVE a % n \in 0..n-1
  OBVIOUS
<1>2. ASSUME NEW a \in Nat PROVE \E d \in Int : a = d * n + (a % n)
  <2>1. a \div n \in Int
    OBVIOUS
  <2>2. a = (a \div n) * n + (a % n)
    BY SMTT(20)
  <2> QED BY <2>1, <2>2
<1>3. ASSUME NEW a \in Nat, NEW b \in Nat, a % n = b % n PROVE \E q \in Int : a - b = n * q
  <2>1. PICK c \in Int : a = c * n + (a % n)
    BY <1>2
  <2>2. PICK d \in Int : b = d * n + (b % n)
    BY <1>2
  <2> DEFINE r == a % n
  <2>3. r \in Int /\ a = c * n + r /\ b = d * n + r
    BY <1>1, <1>3, <2>1, <2>2
  <2> HIDE DEF r
  <2>4. a - b = n * (c - d)
    BY <2>3
  <2> QED BY <2>4
<1> QED BY <1>1, <1>3

(* The powers of two, in the form in which they are used.                  *)
LEMMA TwoToStep ==
  /\ TwoTo[0] = 1
  /\ \A i \in Nat : TwoTo[i + 1] = 2 * TwoTo[i] /\ TwoTo[i] \in Nat /\ TwoTo[i] >= 1
<1>1. TwoTo[0] = 1 /\ \A i \in Nat : TwoTo[i + 1] = 2 * TwoTo[i]
  <2> HIDE DEF TwoTo
  <2>1. TwoTo[0] = 1
    BY TwoToIs
  <2>2. ASSUME NEW i \in Nat PROVE TwoTo[i + 1] = 2 * TwoTo[i]
    <3>1. i + 1 \in Nat /\ i + 1 # 0 /\ (i + 1) - 1 = i
      OBVIOUS
    <3>2. TwoTo[i + 1] = IF i + 1 = 0 THEN 1 ELSE 2 * TwoTo[(i + 1) - 1]
      BY <3>1, TwoToIs
    <3> QED BY <3>1, <3>2
  <2> QED BY <2>1, <2>2
<1>2. \A i \in Nat : TwoTo[i] \in Nat /\ TwoTo[i] >= 1
  <2> DEFINE T == {i \in Nat : ~(TwoTo[i] \in Nat /\ TwoTo[i] >= 1)}
  <2> SUFFICES ASSUME T # {} PROVE FALSE
    OBVIOUS
  <2>1. PICK i \in T : \A j \in T : i <= j
    BY LeastElement
  <2>2. i # 0
    BY <1>1, <2>1
  <2>3. i - 1 \in Nat /\ i - 1 \notin T /\ (i - 1) + 1 = i
    BY <2>1, <2>2
  <2>4. TwoTo[i - 1] \in Nat /\ TwoTo[i - 1] >= 1 /\ TwoTo[i] = 2 * TwoTo[i - 1]
    BY <1>1, <2>3
  <2> QED BY <2>1, <2>4
<1> QED BY <1>1, <1>2

(* A power of two that divides a product with an odd factor divides the    *)
(* other.                                                                  *)
Divides(m, b) == \E d \in Nat : b = TwoTo[m] * d
OddFactorOf(m) == \A e, b \in Nat : Divides(m, (2 * e + 1) * b) => Divides(m, b)

(* By the least m for which it is false, with half of the product.         *)
LEMMA OddFactor == \A m \in Nat : OddFactorOf(m)
<1> DEFINE T == {m \in Nat : ~OddFactorOf(m)}
<1> SUFFICES ASSUME T # {} PROVE FALSE
  OBVIOUS
<1>1. PICK m \in T : \A j \in T : m <= j
  BY LeastElement
<1>2. PICK e \in Nat, b \in Nat : Divides(m, (2 * e + 1) * b) /\ ~Divides(m, b)
  <2>1. m \in Nat /\ ~OddFactorOf(m)
    BY <1>1
  <2> QED BY <2>1 DEF OddFactorOf
<1>3. m # 0
  <2>1. CASE m = 0
    <3>1. b = TwoTo[m] * b
      BY <2>1, TwoToStep
    <3> QED BY <1>2, <3>1 DEF Divides
  <2> QED BY <2>1
<1>4. m - 1 \in Nat /\ OddFactorOf(m - 1) /\ (m - 1) + 1 = m
  BY <1>1, <1>3
<1>5. PICK p \in Nat : p = TwoTo[m - 1] /\ TwoTo[m] = 2 * p
  BY <1>4, TwoToStep
<1>6. PICK q \in Int : b = 2 * q \/ b = 2 * q + 1
  <2>1. b \in Int
    OBVIOUS
  <2> QED BY ONLY <2>1, EvenOrOdd
<1>7. q \in Nat
  BY <1>6
<1>8. PICK c \in Nat : (2 * e + 1) * b = 2 * (p * c)
  <2>1. PICK c \in Nat : (2 * e + 1) * b = TwoTo[m] * c
    BY <1>2 DEF Divides
  <2> QED BY <1>5, <2>1
<1>9. CASE b = 2 * q + 1
  <2>1. (2 * e + 1) * b = 2 * ((2 * e + 1) * q + e) + 1
    BY <1>7, <1>9
  <2> DEFINE x == (2 * e + 1) * q + e  y == p * c
  <2>2. x \in Int /\ y \in Int /\ 2 * x + 1 = 2 * y
    BY <1>7, <1>8, <2>1
  <2> HIDE DEF x, y
  <2> QED BY <2>2
<1>10. CASE b = 2 * q
  <2> DEFINE x == (2 * e + 1) * q  y == p * c
  <2>1. x \in Int /\ y \in Int /\ (2 * e + 1) * b = 2 * x
    BY <1>7, <1>10
  <2>2. 2 * x = 2 * y
    BY <1>8, <2>1
  <2>3. x = y
    <3> HIDE DEF x, y
    <3> QED BY <2>1, <2>2
  <2>4. Divides(m - 1, (2 * e + 1) * q)
    BY <1>5, <2>3 DEF Divides
  <2>5. Divides(m - 1, q)
    BY <1>4, <1>7, <2>4 DEF OddFactorOf
  <2>6. PICK d \in Nat : q = p * d
    BY <1>5, <2>5 DEF Divides
  <2>7. b = (2 * p) * d
    BY <1>10, <2>6
  <2> QED BY <1>2, <1>5, <2>7 DEF Divides
<1> QED BY <1>6, <1>9, <1>10

(* The distance from the first bucket after i probes.                      *)
Triangular(i) == (i * (i + 1)) \div 2

(* The triangular numbers below a power of two are all different modulo it.*)
LEMMA TrianglesDiffer ==
  ASSUME NEW m \in Nat, NEW h \in Nat, NEW i \in Nat, NEW j \in Nat, i < j, j < TwoTo[m],
         (h + Triangular(i)) % TwoTo[m] = (h + Triangular(j)) % TwoTo[m]
  PROVE  FALSE
<1>1. PICK n \in Nat : n = TwoTo[m] /\ n >= 1 /\ TwoTo[m + 1] = 2 * n
  BY TwoToStep
<1>2. PICK s \in Nat : s = Triangular(i) /\ 2 * s = i * (i + 1)
  BY Triangle DEF Triangular
<1>3. PICK t \in Nat : t = Triangular(j) /\ 2 * t = j * (j + 1)
  BY Triangle DEF Triangular
<1>4. PICK q \in Int : (h + t) - (h + s) = n * q
  <2>1. h + t \in Nat /\ h + s \in Nat /\ (h + t) % n = (h + s) % n
    BY <1>1, <1>2, <1>3
  <2> DEFINE x == h + t  y == h + s
  <2>2. x \in Nat /\ y \in Nat /\ x % n = y % n /\ n > 0
    BY <1>1, <2>1
  <2> HIDE DEF x, y
  <2>3. \E q \in Int : x - y = n * q
    BY ONLY n \in Nat, <2>2, Residues
  <2> QED BY <2>3 DEF x, y
<1>5. PICK a \in Nat, b \in Nat : a = j - i /\ b = j + i + 1 /\ a >= 1 /\ a < n /\ b < 2 * n /\ b >= 1
  <2>1. j - i \in Nat /\ j + i + 1 \in Nat
    OBVIOUS
  <2> QED BY <1>1, <2>1
<1>6. a * b = 2 * n * q
  <2>1. a * b = j * (j + 1) - i * (i + 1)
    BY <1>5
  <2>2. 2 * t - 2 * s = 2 * (n * q)
    BY <1>1, <1>4
  <2> QED BY <1>1, <1>2, <1>3, <2>1, <2>2
<1>7. q \in Nat
  <2>1. a * b > 0
    BY <1>5
  <2>2. CASE q < 0
    <3>1. n * q < 0
      BY <1>1, <2>2
    <3> QED BY <1>1, <1>6, <2>1, <3>1
  <2> QED BY <2>2
<1>8. PICK e \in Int : a = 2 * e \/ a = 2 * e + 1
  <2>1. a \in Int
    OBVIOUS
  <2> QED BY ONLY <2>1, EvenOrOdd
<1>9. \A d \in Nat : d = 0 \/ 2 * n * d >= 2 * n
  <2> SUFFICES ASSUME NEW d \in Nat, d # 0 PROVE 2 * n * d >= 2 * n
    OBVIOUS
  <2>1. d - 1 \in Nat /\ 2 * n * d = 2 * n + 2 * n * (d - 1) /\ 2 * n * (d - 1) >= 0
    BY <1>1
  <2> QED BY <1>1, <2>1
<1>10. CASE a = 2 * e + 1
  <2>1. e \in Nat /\ (2 * e + 1) * b = TwoTo[m + 1] * q
    BY <1>1, <1>6, <1>8, <1>10
  <2>2. Divides(m + 1, (2 * e + 1) * b)
    BY <1>7, <2>1 DEF Divides
  <2>3. Divides(m + 1, b)
    BY <2>1, <2>2, OddFactor DEF OddFactorOf
  <2>4. PICK d \in Nat : b = 2 * n * d
    BY <1>1, <2>3 DEF Divides
  <2> QED BY <1>1, <1>5, <1>9, <2>4
<1>11. CASE a = 2 * e
  <2>1. PICK x \in Nat : b = 2 * x + 1
    <3>1. e + i \in Nat /\ b = 2 * (e + i) + 1
      BY <1>5, <1>11
    <3> QED BY <3>1
  <2>2. (2 * x + 1) * a = TwoTo[m + 1] * q
    BY <1>1, <1>6, <2>1
  <2>3. Divides(m + 1, (2 * x + 1) * a)
    BY <1>7, <2>2 DEF Divides
  <2>4. Divides(m + 1, a)
    BY <2>3, OddFactor DEF OddFactorOf
  <2>5. PICK d \in Nat : a = 2 * n * d
    BY <1>1, <2>4 DEF Divides
  <2> QED BY <1>1, <1>5, <1>9, <2>5
<1> QED BY <1>8, <1>10, <1>11

(* So a walk with triangular steps comes to every place.                   *)
THEOREM TrianglesCover ==
  ASSUME NEW m \in Nat, NEW h \in Nat, NEW b \in 0..TwoTo[m] - 1
  PROVE  \E i \in 0..TwoTo[m] - 1 : (h + Triangular(i)) % TwoTo[m] = b
<1> DEFINE n == TwoTo[m]
           S == 0..n - 1
           f == [i \in S |-> (h + Triangular(i)) % n]
<1>1. n \in Nat /\ n >= 1
  BY TwoToStep
<1> HIDE DEF n
<1>2. \A i \in S : f[i] \in S
  <2> SUFFICES ASSUME NEW i \in S PROVE (h + Triangular(i)) % n \in S
    OBVIOUS
  <2>1. i \in Nat
    BY <1>1
  <2>2. h + Triangular(i) \in Nat
    BY <2>1, Triangle DEF Triangular
  <2> QED BY <1>1, <2>2, Residues
<1>3. ASSUME NEW i \in S, NEW j \in S, f[i] = f[j] PROVE i = j
  <2>1. i \in Nat /\ j \in Nat /\ i < n /\ j < n
    BY <1>1
  <2>2. (h + Triangular(i)) % n = (h + Triangular(j)) % n
    BY <1>3
  <2> QED BY <2>1, <2>2, TrianglesDiffer DEF n
<1>4. f \in [S -> S]
  BY <1>2
<1> HIDE DEF f
<1>5. f \in Injection(S, S)
  BY <1>3, <1>4 DEF Injection, IsInjective
<1>6. IsFiniteSet(S)
  BY <1>1, FS_Interval
<1>7. f \in Surjection(S, S)
  BY <1>5, <1>6, FS_Injection
<1>8. \A c \in S : \E i \in S : f[i] = c
  BY <1>7 DEF Surjection
<1> QED BY <1>8 DEF f, n
(* Products of powers are powers.                                          *)
LEMMA TwoToSum == \A i, j \in Nat : TwoTo[i + j] = TwoTo[i] * TwoTo[j]
<1> SUFFICES ASSUME NEW i \in Nat PROVE \A j \in Nat : TwoTo[i + j] = TwoTo[i] * TwoTo[j]
  OBVIOUS
<1> DEFINE T == {j \in Nat : TwoTo[i + j] # TwoTo[i] * TwoTo[j]}
<1> SUFFICES ASSUME T # {} PROVE FALSE
  OBVIOUS
<1>1. PICK j \in T : \A k \in T : j <= k
  BY LeastElement
<1>2. j # 0
  BY <1>1, TwoToStep
<1>3. j - 1 \in Nat /\ j - 1 \notin T /\ (j - 1) + 1 = j /\ i + (j - 1) \in Nat /\ (i + (j - 1)) + 1 = i + j
  BY <1>1, <1>2
<1>4. PICK x \in Nat, y \in Nat, z \in Nat :
         x = TwoTo[i] /\ y = TwoTo[j - 1] /\ z = TwoTo[i + (j - 1)]
  BY <1>3, TwoToStep
<1>5. z = x * y
  BY <1>3, <1>4
<1>6. TwoTo[j] = 2 * y /\ TwoTo[i + j] = 2 * z
  BY <1>3, <1>4, TwoToStep
<1>7. 2 * (x * y) = x * (2 * y)
  OBVIOUS
<1> QED BY <1>1, <1>4, <1>5, <1>6, <1>7

(* A power of two is greater than its exponent.                            *)
LEMMA TwoToGrows == \A i \in Nat : TwoTo[i] > i
<1> DEFINE T == {i \in Nat : ~(TwoTo[i] > i)}
<1> SUFFICES ASSUME T # {} PROVE FALSE
  OBVIOUS
<1>1. PICK i \in T : \A k \in T : i <= k
  BY LeastElement
<1>2. i # 0
  BY <1>1, TwoToStep
<1>3. i - 1 \in Nat /\ i - 1 \notin T /\ (i - 1) + 1 = i
  BY <1>1, <1>2
<1> QED BY <1>1, <1>3, TwoToStep

-----------------------------------------------------------------------------
(* The sizes a table can have, and what can be in a bucket.                *)
Sizes == {MinBuckets * TwoTo[i] : i \in Nat}
Cells == {Empty, Deleted} \cup Keys \X Values

(* The buckets that are not empty, of those the ones marked as deleted     *)
(* and the ones with an entry, and the pairs in the table.                 *)
Full(t)    == {b \in DOMAIN t : t[b] # Empty}
Marks(t)   == {b \in DOMAIN t : t[b] = Deleted}
Entries(t) == {b \in DOMAIN t : t[b] \in Keys \X Values}
Pairs(t)   == {t[b] : b \in Entries(t)}

(* The search for k comes to bucket b before it comes to an empty one. *)
Reaches(t, k, b) ==
    \E i \in DOMAIN t :
       /\ Probe(k, i, Cardinality(DOMAIN t)) = b
       /\ \A j \in 0..(i - 1) : t[Probe(k, j, Cardinality(DOMAIN t))] # Empty

(* A table is sound if every key is in one bucket and the search for it    *)
(* gets there.                                                             *)
IsTable(t) == \E n \in Sizes : t \in [0..(n - 1) -> Cells]
KeysApart(t) == \A b, c \in Entries(t) : t[b][1] = t[c][1] => b = c
AllReached(t) == \A b \in Entries(t) : Reaches(t, t[b][1], b)
Sound(t) == IsTable(t) /\ KeysApart(t) /\ AllReached(t)

(* The dense_hashtable: its table is sound, its two counters count, an     *)
(* empty bucket is left for a search to stop at, and there are marks       *)
(* only while there is a deleted key.                                      *)
Members(h) == h = [table |-> h.table, num_deleted |-> h.num_deleted, num_elements |-> h.num_elements,
                   use_deleted |-> h.use_deleted, consider_shrink |-> h.consider_shrink]

Good(h) ==
    /\ Members(h)
    /\ Sound(h.table)
    /\ h.num_deleted = Cardinality(Marks(h.table))
    /\ h.num_elements = Cardinality(Full(h.table))
    /\ h.num_elements < BucketCount(h)
    /\ h.num_deleted > 0 => h.use_deleted

(* The cells are told apart.                                               *)
LEMMA CellsDiffer ==
  /\ Empty # Deleted
  /\ \A k \in Keys, v \in Values :
        /\ Entry(k, v) # Empty /\ Entry(k, v) # Deleted /\ Entry(k, v) \in Keys \X Values
        /\ Entry(k, v)[1] = k /\ Entry(k, v)[2] = v
  /\ \A k \in Keys : Deleted[1] # k
  /\ \A e \in Keys \X Values : e # Empty /\ e # Deleted /\ e[1] \in Keys /\ e[2] \in Values
                               /\ e = Entry(e[1], e[2]) /\ Len(e) = 2
  /\ Len(Deleted) # 2 /\ Len(Empty) # 2
BY HashAssumption DEF Empty, Deleted, Entry

(* Sizes are powers of two, and at least four.                             *)
LEMMA SizesAre ==
  /\ \A n \in Sizes : n \in Nat /\ n >= 4 /\ n >= MinBuckets /\ \E m \in Nat : n = TwoTo[m]
  /\ MinBuckets \in Nat /\ MinBuckets >= 4 /\ MinBuckets \in Sizes
<1>1. PICK a \in 2..31 : MinBuckets = TwoTo[a]
  BY HashAssumption
<1>2. \A i \in Nat : TwoTo[i] \in Nat /\ TwoTo[i] >= 1
  BY TwoToStep
<1>3. TwoTo[2] = 4
  <2>1. TwoTo[0 + 1] = 2 * TwoTo[0] /\ TwoTo[1 + 1] = 2 * TwoTo[1] /\ TwoTo[0] = 1
    BY TwoToStep
  <2> QED BY <2>1
<1>4. MinBuckets \in Nat /\ MinBuckets >= 4
  <2>1. a - 2 \in Nat /\ (a - 2) + 2 = a
    OBVIOUS
  <2>2. TwoTo[a] = TwoTo[a - 2] * TwoTo[2]
    BY <2>1, TwoToSum
  <2>3. PICK x \in Nat : x = TwoTo[a - 2] /\ x >= 1
    BY <1>2, <2>1
  <2> QED BY <1>1, <1>3, <2>2, <2>3
<1>5. ASSUME NEW n \in Sizes
      PROVE  n \in Nat /\ n >= 4 /\ n >= MinBuckets /\ \E m \in Nat : n = TwoTo[m]
  <2>1. PICK i \in Nat : n = MinBuckets * TwoTo[i]
    BY DEF Sizes
  <2>2. PICK x \in Nat : x = TwoTo[i] /\ x >= 1
    BY <1>2
  <2>3. n = MinBuckets * x /\ n \in Nat
    BY <1>4, <2>1, <2>2
  <2>4. MinBuckets * x = MinBuckets + MinBuckets * (x - 1) /\ MinBuckets * (x - 1) \in Nat
    <3>1. x - 1 \in Nat
      BY <2>2
    <3> QED BY <1>4, <3>1
  <2>5. n >= MinBuckets
    BY <1>4, <2>3, <2>4
  <2>6. n = TwoTo[a + i] /\ a + i \in Nat
    BY <1>1, <2>1, TwoToSum
  <2> QED BY <1>4, <2>3, <2>5, <2>6
<1>6. MinBuckets \in Sizes
  <2>1. MinBuckets = MinBuckets * TwoTo[0]
    BY <1>4, TwoToStep
  <2> QED BY <2>1 DEF Sizes
<1> QED BY <1>4, <1>5, <1>6

(* The least element of a set of numbers.                                  *)
LEMMA FirstSuchIs ==
  ASSUME NEW S, S \subseteq Nat, S # {}
  PROVE  FirstSuch(S) \in S /\ \A j \in S : FirstSuch(S) <= j
<1>1. \E i \in S : \A j \in S : i <= j
  BY LeastElement
<1> QED BY <1>1 DEF FirstSuch

(* Probing stays in the table and comes to each of its buckets.            *)
LEMMA ProbeIs ==
  ASSUME NEW n \in Sizes, NEW k \in Keys
  PROVE  /\ \A i \in Nat : Probe(k, i, n) \in 0..(n - 1)
         /\ \A b \in 0..(n - 1) : \E i \in 0..(n - 1) : Probe(k, i, n) = b
<1>1. PICK m \in Nat : n = TwoTo[m] /\ n \in Nat /\ n >= 4
  BY SizesAre
<1>2. Hash[k] \in Nat
  BY HashAssumption
<1>3. \A i : Probe(k, i, n) = (Hash[k] + Triangular(i)) % n
  BY DEF Probe, Triangular
<1>4. ASSUME NEW i \in Nat PROVE Probe(k, i, n) \in 0..(n - 1)
  <2>1. Hash[k] + Triangular(i) \in Nat
    BY <1>2, Triangle DEF Triangular
  <2> QED BY <1>1, <1>3, <2>1, Residues
<1>5. ASSUME NEW b \in 0..(n - 1) PROVE \E i \in 0..(n - 1) : Probe(k, i, n) = b
  <2>1. \E i \in 0..(n - 1) : (Hash[k] + Triangular(i)) % n = b
    <3>1. b \in 0..TwoTo[m] - 1
      BY <1>1
    <3> QED BY <1>1, <1>2, <3>1, TrianglesCover
  <2> QED BY <1>3, <2>1
<1> QED BY <1>4, <1>5

(* A table's buckets are numbered from 0 on.                               *)
LEMMA TableIs ==
  ASSUME NEW t, IsTable(t)
  PROVE  \E n \in Sizes : /\ t \in [0..(n - 1) -> Cells] /\ DOMAIN t = 0..(n - 1)
                          /\ Cardinality(DOMAIN t) = n /\ IsFiniteSet(DOMAIN t)
<1>1. PICK n \in Sizes : t \in [0..(n - 1) -> Cells]
  BY DEF IsTable
<1>2. DOMAIN t = 0..(n - 1) /\ n \in Nat /\ n >= 4
  BY <1>1, SizesAre
<1>3. Cardinality(0..(n - 1)) = n /\ IsFiniteSet(0..(n - 1))
  BY <1>2, FS_Interval
<1> QED BY <1>1, <1>2, <1>3

(* The counters of a table: what is full is marked or an entry, and as     *)
(* long as not all is full there is an empty bucket.                       *)
LEMMA CountsAre ==
  ASSUME NEW t, IsTable(t)
  PROVE  /\ IsFiniteSet(Full(t)) /\ IsFiniteSet(Marks(t))
         /\ Cardinality(Full(t)) \in Nat /\ Cardinality(Marks(t)) \in Nat
         /\ Cardinality(Marks(t)) <= Cardinality(Full(t))
         /\ Cardinality(Full(t)) < Cardinality(DOMAIN t) => \E b \in DOMAIN t : t[b] = Empty
         /\ Marks(t) = {} <=> Cardinality(Marks(t)) = 0
         /\ Full(t) = {} <=> Cardinality(Full(t)) = 0
         /\ Full(t) = Marks(t) \cup Entries(t) /\ Marks(t) \cap Entries(t) = {}
         /\ Cardinality(Entries(t)) = Cardinality(Full(t)) - Cardinality(Marks(t))
<1>1. IsFiniteSet(DOMAIN t) /\ \A b \in DOMAIN t : t[b] \in Cells
  BY TableIs
<1>2. Full(t) \subseteq DOMAIN t /\ Marks(t) \subseteq Full(t) /\ Entries(t) \subseteq Full(t)
  BY CellsDiffer DEF Full, Marks, Entries
<1>3. IsFiniteSet(Full(t)) /\ IsFiniteSet(Marks(t)) /\ IsFiniteSet(Entries(t))
  BY <1>1, <1>2, FS_Subset
<1>4. Full(t) = Marks(t) \cup Entries(t) /\ Marks(t) \cap Entries(t) = {}
  <2>1. \A b \in DOMAIN t : t[b] # Empty <=> t[b] = Deleted \/ t[b] \in Keys \X Values
    BY <1>1, CellsDiffer DEF Cells
  <2>2. \A b \in DOMAIN t : ~(t[b] = Deleted /\ t[b] \in Keys \X Values)
    BY CellsDiffer
  <2> QED BY <2>1, <2>2 DEF Full, Marks, Entries
<1>5. Cardinality(Full(t)) \in Nat /\ Cardinality(Marks(t)) \in Nat /\ Cardinality(Entries(t)) \in Nat
  BY <1>3, FS_CardinalityType
<1>6. Cardinality(Full(t)) = Cardinality(Marks(t)) + Cardinality(Entries(t))
  <2>1. Cardinality(Marks(t) \cap Entries(t)) = 0
    BY <1>4, FS_EmptySet
  <2>2. Cardinality(Marks(t) \cup Entries(t)) =
           Cardinality(Marks(t)) + Cardinality(Entries(t)) - Cardinality(Marks(t) \cap Entries(t))
    BY <1>3, FS_Union
  <2> QED BY <1>4, <1>5, <2>1, <2>2
<1>7. Cardinality(Full(t)) < Cardinality(DOMAIN t) => \E b \in DOMAIN t : t[b] = Empty
  <2>1. CASE Full(t) = DOMAIN t
    BY <1>5, <2>1
  <2>2. CASE Full(t) # DOMAIN t
    BY <2>2 DEF Full
  <2> QED BY <2>1, <2>2
<1>8. (Marks(t) = {} <=> Cardinality(Marks(t)) = 0) /\ (Full(t) = {} <=> Cardinality(Full(t)) = 0)
  BY <1>3, FS_EmptySet
<1>9. /\ Cardinality(Marks(t)) <= Cardinality(Full(t))
      /\ Cardinality(Entries(t)) = Cardinality(Full(t)) - Cardinality(Marks(t))
  BY <1>5, <1>6
<1> QED BY <1>3, <1>4, <1>5, <1>7, <1>8, <1>9

(* What is known of a good table.                                          *)
LEMMA GoodIs ==
  ASSUME NEW h, Good(h)
  PROVE  /\ BucketCount(h) \in Sizes /\ BucketCount(h) \in Nat /\ BucketCount(h) >= 4
         /\ DOMAIN h.table = 0..(BucketCount(h) - 1) /\ h.table \in [0..(BucketCount(h) - 1) -> Cells]
         /\ Cardinality(DOMAIN h.table) = BucketCount(h)
         /\ h.num_deleted \in Nat /\ h.num_elements \in Nat /\ h.num_deleted <= h.num_elements
         /\ Size(h) = Cardinality(Entries(h.table)) /\ Size(h) \in Nat
         /\ \E b \in DOMAIN h.table : h.table[b] = Empty
         /\ \A b \in DOMAIN h.table : TestDeleted(h, b) <=> h.table[b] = Deleted
         /\ Live(h) = Entries(h.table)
<1>1. PICK n \in Sizes : /\ h.table \in [0..(n - 1) -> Cells] /\ DOMAIN h.table = 0..(n - 1)
                         /\ Cardinality(DOMAIN h.table) = n
  BY TableIs DEF Good, Sound
<1>2. BucketCount(h) = n /\ n \in Nat /\ n >= 4
  BY <1>1, SizesAre DEF BucketCount
<1>3. /\ h.num_deleted \in Nat /\ h.num_elements \in Nat /\ h.num_deleted <= h.num_elements
      /\ Cardinality(Entries(h.table)) = h.num_elements - h.num_deleted
      /\ h.num_elements < n /\ (h.num_elements < n => \E b \in DOMAIN h.table : h.table[b] = Empty)
      /\ h.num_deleted = 0 => Marks(h.table) = {}
  BY <1>1, <1>2, CountsAre DEF Good, Sound
<1>4. ASSUME NEW b \in DOMAIN h.table PROVE TestDeleted(h, b) <=> h.table[b] = Deleted
  <2>1. h.table[b] = Deleted => Marks(h.table) # {}
    BY DEF Marks
  <2>2. h.table[b] = Deleted => h.num_deleted > 0 /\ h.use_deleted
    BY <1>3, <2>1 DEF Good
  <2> QED BY <2>2 DEF TestDeleted
<1>5. Live(h) = Entries(h.table)
  <2>1. \A b \in DOMAIN h.table : h.table[b] \in Cells
    BY <1>1
  <2>2. \A b \in DOMAIN h.table : h.table[b] # Empty /\ h.table[b] # Deleted <=> h.table[b] \in Keys \X Values
    BY <2>1, CellsDiffer DEF Cells
  <2> QED BY <1>4, <2>2 DEF Live, TestEmpty, Entries
<1> QED BY <1>1, <1>2, <1>3, <1>4, <1>5 DEF Size

-----------------------------------------------------------------------------
(* A search ends at the key's own bucket, or it proves that the key is not *)
(* there and names a free bucket on its way.                               *)
FindsIt(h, k) ==
    \E b \in Entries(h.table) : FindPosition(h, k) = <<b, -1>> /\ h.table[b][1] = k

(* The search misses: k is not in the table, and a bucket is named that    *)
(* is free and on its way.                                                 *)
FindsRoom(h, k) ==
    /\ \A b \in Entries(h.table) : h.table[b][1] # k
    /\ \E p \in DOMAIN h.table : /\ FindPosition(h, k) = <<-1, p>>
                                 /\ h.table[p] \in {Empty, Deleted}
                                 /\ Reaches(h.table, k, p)

(* find_position ends, and with the right one of the two results.          *)
LEMMA FindPositionIs ==
  ASSUME NEW h, Good(h), NEW k \in Keys
  PROVE  FindsIt(h, k) \/ FindsRoom(h, k)
<1> DEFINE t == h.table
           n == BucketCount(h)
           B(i) == Probe(k, i, n)
           S == {i \in 0..(n - 1) : TestEmpty(h, B(i)) \/ t[B(i)][1] = k}
           last == FirstSuch(S)
           deleted == {i \in 0..last : TestDeleted(h, B(i))}
<1>1. /\ n \in Sizes /\ n \in Nat /\ n >= 4 /\ DOMAIN t = 0..(n - 1) /\ t \in [0..(n - 1) -> Cells]
      /\ Cardinality(DOMAIN t) = n /\ \E b \in DOMAIN t : t[b] = Empty
      /\ \A b \in DOMAIN t : TestDeleted(h, b) <=> t[b] = Deleted
  BY GoodIs
<1>2. FindPosition(h, k) =
        CASE ~TestEmpty(h, B(last))                     -> <<B(last), -1>>
          [] TestEmpty(h, B(last)) /\ deleted = {}      -> <<-1, B(last)>>
          [] TestEmpty(h, B(last)) /\ deleted # {}      -> <<-1, B(FirstSuch(deleted))>>
  BY DEF FindPosition
<1>3. \A b \in DOMAIN t : TestEmpty(h, b) <=> t[b] = Empty
  BY DEF TestEmpty
<1>4. /\ \A i \in Nat : B(i) \in 0..(n - 1)
      /\ \A b \in 0..(n - 1) : \E i \in 0..(n - 1) : B(i) = b
  BY <1>1, ProbeIs
<1>5. AllReached(t)
  BY DEF Good, Sound
<1>6. \A b : Reaches(t, k, b) <=> \E i \in 0..(n - 1) : B(i) = b /\ \A j \in 0..(i - 1) : t[B(j)] # Empty
  BY <1>1 DEF Reaches
<1> HIDE DEF n, t, B
<1>7. S # {} /\ S \subseteq Nat
  <2>1. PICK b \in 0..(n - 1) : t[b] = Empty
    BY <1>1
  <2>2. PICK i \in 0..(n - 1) : B(i) = b
    BY <1>4
  <2> QED BY <1>1, <1>3, <2>1, <2>2
<1>8. last \in S /\ \A j \in S : last <= j
  BY <1>7, FirstSuchIs
<1> HIDE DEF last
<1>9. last \in 0..(n - 1) /\ last \in Nat /\ B(last) \in 0..(n - 1) /\ t[B(last)] \in Cells
  <2>1. last \in 0..(n - 1)
    BY <1>8
  <2>2. last \in Nat
    BY <1>1, <2>1
  <2>3. B(last) \in 0..(n - 1)
    BY <1>4, <2>2
  <2> QED BY <1>1, <2>1, <2>2, <2>3
<1>10. \A j \in 0..(last - 1) : t[B(j)] # Empty /\ t[B(j)][1] # k
  <2> SUFFICES ASSUME NEW j \in 0..(last - 1) PROVE t[B(j)] # Empty /\ t[B(j)][1] # k
    OBVIOUS
  <2>1. j \in 0..(n - 1) /\ j \in Nat /\ j \notin S
    BY <1>1, <1>8, <1>9
  <2>2. B(j) \in DOMAIN t
    BY <1>1, <1>4, <2>1
  <2> QED BY <1>3, <2>1, <2>2
<1>11. CASE t[B(last)] # Empty
  <2>1. t[B(last)][1] = k
    BY <1>1, <1>3, <1>8, <1>9, <1>11
  <2>2. t[B(last)] \in Keys \X Values
    BY <1>9, <1>11, <2>1, CellsDiffer DEF Cells
  <2>3. B(last) \in Entries(t)
    BY <1>1, <1>9, <2>2 DEF Entries
  <2>4. FindPosition(h, k) = <<B(last), -1>>
    <3>1. ~TestEmpty(h, B(last))
      BY <1>1, <1>3, <1>9, <1>11
    <3> QED BY <1>2, <3>1
  <2> QED BY <2>1, <2>3, <2>4 DEF FindsIt, t
<1>12. CASE t[B(last)] = Empty
  <2>1. TestEmpty(h, B(last))
    BY <1>1, <1>3, <1>9, <1>12
  <2>2. ASSUME NEW b \in Entries(t), t[b][1] = k PROVE FALSE
    <3>1. Reaches(t, k, b)
      BY <1>5, <2>2 DEF AllReached
    <3>2. PICK i \in 0..(n - 1) : B(i) = b /\ \A j \in 0..(i - 1) : t[B(j)] # Empty
      BY <1>6, <3>1
    <3>3. t[b] # Empty
      BY CellsDiffer DEF Entries
    <3>4. i # last /\ ~(i < last) /\ ~(last < i)
      <4>1. i # last
        BY <1>12, <3>2, <3>3
      <4>2. i < last => i \in 0..(last - 1)
        BY <1>1, <1>9
      <4>3. last < i => last \in 0..(i - 1)
        BY <1>1, <1>9
      <4> QED BY <1>10, <1>12, <2>2, <3>2, <4>1, <4>2, <4>3
    <3> QED BY <1>1, <1>9, <3>4
  <2>3. CASE deleted = {}
    <3>1. FindPosition(h, k) = <<-1, B(last)>>
      BY <1>2, <2>1, <2>3
    <3>2. Reaches(t, k, B(last))
      BY <1>6, <1>9, <1>10
    <3> QED BY <1>1, <1>9, <1>12, <2>2, <3>1, <3>2 DEF FindsRoom, t
  <2>4. CASE deleted # {}
    <3> DEFINE d == FirstSuch(deleted)
    <3>1. d \in deleted
      <4>1. deleted \subseteq Nat
        BY <1>9
      <4> QED BY <2>4, <4>1, FirstSuchIs
    <3>2. FindPosition(h, k) = <<-1, B(d)>>
      BY <1>2, <2>1, <2>4
    <3> HIDE DEF d
    <3>3. d \in 0..(n - 1) /\ d \in Nat /\ d <= last /\ B(d) \in DOMAIN t /\ t[B(d)] = Deleted
      <4>1. d \in 0..last
        BY <3>1
      <4>2. d \in 0..(n - 1) /\ d \in Nat /\ d <= last
        BY <1>1, <1>9, <4>1
      <4>3. B(d) \in DOMAIN t
        BY <1>1, <1>4, <4>2
      <4> QED BY <1>1, <3>1, <4>2, <4>3
    <3>4. Reaches(t, k, B(d))
      <4>1. \A j \in 0..(d - 1) : j \in 0..(last - 1)
        BY <1>9, <3>3
      <4> QED BY <1>6, <1>10, <3>3, <4>1
    <3> QED BY <2>2, <3>2, <3>3, <3>4 DEF FindsRoom, t
  <2> QED BY <2>3, <2>4
<1> QED BY <1>11, <1>12

(* A stored key is found in its own bucket.                                *)
LEMMA StoredIsFound ==
  ASSUME NEW h, Good(h), NEW b \in Entries(h.table)
  PROVE  FindPosition(h, h.table[b][1]) = <<b, -1>> /\ h.table[b][1] \in Keys
<1>1. h.table[b][1] \in Keys
  BY CellsDiffer DEF Entries
<1>2. FindsIt(h, h.table[b][1])
  BY <1>1, FindPositionIs DEF FindsRoom
<1>3. KeysApart(h.table)
  BY DEF Good, Sound
<1> QED BY <1>1, <1>2, <1>3 DEF FindsIt, KeysApart

(* The same of find().                                                     *)
LEMMA FoundIs ==
  ASSUME NEW h, Good(h), NEW k \in Keys
  PROVE  \/ /\ FindsIt(h, k) /\ Found(h, k) \in Entries(h.table)
            /\ h.table[Found(h, k)][1] = k /\ Found(h, k) # -1
         \/ FindsRoom(h, k) /\ Found(h, k) = -1
<1>1. Size(h) = Cardinality(Entries(h.table)) /\ Entries(h.table) \subseteq DOMAIN h.table
      /\ DOMAIN h.table = 0..(BucketCount(h) - 1) /\ BucketCount(h) \in Nat
  BY GoodIs DEF Entries
<1>2. CASE FindsIt(h, k)
  <2>1. PICK b \in Entries(h.table) : FindPosition(h, k) = <<b, -1>> /\ h.table[b][1] = k
    BY <1>2 DEF FindsIt
  <2>2. IsFiniteSet(Entries(h.table))
    <3>1. IsFiniteSet(0..(BucketCount(h) - 1))
      BY <1>1, FS_Interval
    <3> QED BY <1>1, <3>1, FS_Subset
  <2>3. Size(h) # 0
    BY <1>1, <2>1, <2>2, FS_EmptySet
  <2>4. Found(h, k) = b
    BY <2>1, <2>3 DEF Found
  <2>5. b # -1
    BY <1>1, <2>1
  <2> QED BY <1>2, <2>1, <2>4, <2>5
<1>3. CASE FindsRoom(h, k)
  <2>1. Found(h, k) = -1
    BY <1>3 DEF FindsRoom, Found
  <2> QED BY <1>3, <2>1
<1> QED BY <1>2, <1>3, FindPositionIs

-----------------------------------------------------------------------------
(* A search is not cut short where no bucket becomes empty.                *)
LEMMA ReachesKept ==
  ASSUME NEW t, IsTable(t), NEW u, IsTable(u), DOMAIN u = DOMAIN t,
         \A b \in DOMAIN t : t[b] # Empty => u[b] # Empty,
         NEW k \in Keys, NEW b, Reaches(t, k, b)
  PROVE  Reaches(u, k, b)
<1> DEFINE n == Cardinality(DOMAIN t)
<1>1. n \in Sizes /\ DOMAIN t = 0..(n - 1) /\ n \in Nat
  BY TableIs, SizesAre
<1>2. PICK i \in DOMAIN t : Probe(k, i, n) = b /\ \A j \in 0..(i - 1) : t[Probe(k, j, n)] # Empty
  BY DEF Reaches
<1>3. Cardinality(DOMAIN u) = n
  OBVIOUS
<1> HIDE DEF n
<1>4. ASSUME NEW j \in 0..(i - 1) PROVE u[Probe(k, j, n)] # Empty
  <2>1. j \in Nat
    BY <1>1
  <2>2. Probe(k, j, n) \in DOMAIN t
    BY <1>1, <2>1, ProbeIs
  <2> QED BY <1>2, <2>2
<1> QED BY <1>2, <1>3, <1>4 DEF Reaches

(* An entry whose key is new is put into a free bucket on its way.         *)
LEMMA PutIs ==
  ASSUME NEW t, Sound(t), NEW p \in DOMAIN t, t[p] \in {Empty, Deleted},
         NEW k \in Keys, NEW v \in Values, Reaches(t, k, p),
         \A b \in Entries(t) : t[b][1] # k,
         NEW u, u = [t EXCEPT ![p] = Entry(k, v)]
  PROVE  /\ Sound(u) /\ DOMAIN u = DOMAIN t
         /\ Entries(u) = Entries(t) \cup {p} /\ p \notin Entries(t)
         /\ Pairs(u) = Pairs(t) \cup {Entry(k, v)}
         /\ t[p] = Empty => /\ Cardinality(Full(u)) = Cardinality(Full(t)) + 1
                            /\ Marks(u) = Marks(t)
         /\ t[p] = Deleted => /\ Full(u) = Full(t)
                              /\ Cardinality(Marks(u)) = Cardinality(Marks(t)) - 1
<1>1. PICK n \in Sizes : t \in [0..(n - 1) -> Cells] /\ DOMAIN t = 0..(n - 1)
  BY TableIs DEF Sound
<1>2. /\ DOMAIN u = DOMAIN t /\ u[p] = Entry(k, v)
      /\ \A b \in DOMAIN t : b # p => u[b] = t[b]
  OBVIOUS
<1>3. Entry(k, v) \in Cells /\ Entry(k, v) \in Keys \X Values /\ Entry(k, v)[1] = k
      /\ Entry(k, v) # Empty /\ Entry(k, v) # Deleted
  BY CellsDiffer DEF Cells
<1>4. IsTable(u)
  <2>1. \A b \in DOMAIN u : u[b] \in Cells
    BY <1>1, <1>2, <1>3
  <2>2. u \in [0..(n - 1) -> Cells]
    BY <1>1, <2>1
  <2> QED BY <2>2 DEF IsTable
<1>5. p \notin Entries(t)
  BY CellsDiffer DEF Entries
<1>6. Entries(u) = Entries(t) \cup {p}
  BY <1>2, <1>3 DEF Entries
<1>7. \A b \in Entries(t) : u[b] = t[b] /\ b # p
  BY <1>2, <1>5 DEF Entries
<1>8. KeysApart(u)
  <2>1. KeysApart(t)
    BY DEF Sound
  <2> QED BY <1>2, <1>3, <1>6, <1>7, <2>1 DEF KeysApart
<1>9. AllReached(u)
  <2>1. \A b \in DOMAIN t : t[b] # Empty => u[b] # Empty
    BY <1>2, <1>3
  <2>2. ASSUME NEW b \in Entries(t) PROVE Reaches(u, u[b][1], b)
    <3>1. Reaches(t, t[b][1], b) /\ IsTable(t)
      BY DEF Sound, AllReached
    <3>2. t[b][1] \in Keys
      BY CellsDiffer DEF Entries
    <3>3. Reaches(u, t[b][1], b)
      BY <1>2, <1>4, <2>1, <3>1, <3>2, ReachesKept
    <3> QED BY <1>7, <3>3
  <2>3. Reaches(u, k, p)
    BY <1>2, <1>4, <2>1, ReachesKept DEF Sound
  <2> QED BY <1>2, <1>3, <1>6, <2>2, <2>3 DEF AllReached
<1>10. Pairs(u) = Pairs(t) \cup {Entry(k, v)}
  <2>1. Pairs(u) = {u[b] : b \in Entries(t)} \cup {u[p]}
    BY <1>6 DEF Pairs
  <2>2. {u[b] : b \in Entries(t)} = Pairs(t)
    BY <1>7 DEF Pairs
  <2> QED BY <1>2, <2>1, <2>2
<1>11. IsFiniteSet(Full(t)) /\ IsFiniteSet(Marks(t)) /\ IsFiniteSet(Marks(u))
  BY <1>4, CountsAre DEF Sound
<1>12. ASSUME t[p] = Empty
       PROVE  Cardinality(Full(u)) = Cardinality(Full(t)) + 1 /\ Marks(u) = Marks(t)
  <2>1. Full(u) = Full(t) \cup {p} /\ p \notin Full(t)
    BY <1>2, <1>3, <1>12 DEF Full
  <2>2. Marks(u) = Marks(t)
    BY <1>2, <1>3, <1>12, CellsDiffer DEF Marks
  <2>3. Cardinality(Full(t) \cup {p}) = Cardinality(Full(t)) + 1
    BY <1>11, <2>1, FS_AddElement
  <2> QED BY <2>1, <2>2, <2>3
<1>13. ASSUME t[p] = Deleted
       PROVE  Full(u) = Full(t) /\ Cardinality(Marks(u)) = Cardinality(Marks(t)) - 1
  <2>1. Full(u) = Full(t)
    BY <1>2, <1>3, <1>13, CellsDiffer DEF Full
  <2>2. Marks(u) = Marks(t) \ {p} /\ p \in Marks(t)
    BY <1>2, <1>3, <1>13 DEF Marks
  <2>3. Cardinality(Marks(t) \ {p}) = Cardinality(Marks(t)) - 1
    BY <1>11, <2>2, FS_RemoveElement
  <2> QED BY <2>1, <2>2, <2>3
<1>14. Sound(u)
  BY <1>4, <1>8, <1>9 DEF Sound
<1> QED BY <1>2, <1>5, <1>6, <1>10, <1>12, <1>13, <1>14

(* Occupied buckets are marked as deleted.                                 *)
Marked(t, B) == [b \in DOMAIN t |-> IF b \in B THEN Deleted ELSE t[b]]
Unmarked(t, B) == {b \in B : t[b] # Deleted}

(* Marks are as good as entries for the searches that pass by: no other    *)
(* key is lost.                                                            *)
LEMMA MarkIs ==
  ASSUME NEW t, Sound(t), NEW B, B \subseteq Full(t),
         NEW u, u = Marked(t, B)
  PROVE  /\ Sound(u) /\ DOMAIN u = DOMAIN t /\ Full(u) = Full(t)
         /\ Entries(u) = Entries(t) \ B
         /\ Pairs(u) = {t[b] : b \in Entries(t) \ B}
         /\ Cardinality(Marks(u)) = Cardinality(Marks(t)) + Cardinality(Unmarked(t, B))
         /\ Cardinality(Unmarked(t, B)) \in Nat
<1>1. PICK n \in Sizes : t \in [0..(n - 1) -> Cells] /\ DOMAIN t = 0..(n - 1)
  BY TableIs DEF Sound
<1>2. /\ DOMAIN u = DOMAIN t
      /\ \A b \in DOMAIN t : u[b] = IF b \in B THEN Deleted ELSE t[b]
  BY DEF Marked
<1>3. IsTable(u)
  <2>1. \A b \in DOMAIN u : u[b] \in Cells
    BY <1>1, <1>2 DEF Cells
  <2>2. u = [b \in DOMAIN t |-> u[b]]
    BY DEF Marked
  <2>3. u \in [0..(n - 1) -> Cells]
    BY <1>1, <1>2, <2>1, <2>2
  <2> QED BY <2>3 DEF IsTable
<1>4. Full(u) = Full(t)
  BY <1>2, CellsDiffer DEF Full
<1>5. Entries(u) = Entries(t) \ B
  BY <1>2, CellsDiffer DEF Entries
<1>6. \A b \in Entries(u) : u[b] = t[b] /\ b \in Entries(t)
  BY <1>2, <1>5 DEF Entries
<1>7. KeysApart(u)
  BY <1>6 DEF Sound, KeysApart
<1>8. AllReached(u)
  <2>1. \A b \in DOMAIN t : t[b] # Empty => u[b] # Empty
    BY <1>2, CellsDiffer
  <2> SUFFICES ASSUME NEW b \in Entries(u) PROVE Reaches(u, u[b][1], b)
    BY DEF AllReached
  <2>2. Reaches(t, t[b][1], b) /\ IsTable(t)
    BY <1>6 DEF Sound, AllReached
  <2>3. t[b][1] \in Keys
    BY <1>6, CellsDiffer DEF Entries
  <2>4. Reaches(u, t[b][1], b)
    BY <1>2, <1>3, <2>1, <2>2, <2>3, ReachesKept
  <2> QED BY <1>6, <2>4
<1>9. Pairs(u) = {t[b] : b \in Entries(t) \ B}
  BY <1>5, <1>6 DEF Pairs
<1> DEFINE New == Unmarked(t, B)
<1>10. Marks(u) = Marks(t) \cup New /\ Marks(t) \cap New = {} /\ New \subseteq Full(t)
  BY <1>2 DEF Marks, Full, Unmarked
<1>11. /\ IsFiniteSet(Full(t)) /\ IsFiniteSet(Marks(t))
       /\ Cardinality(Marks(t)) \in Nat
  BY CountsAre DEF Sound
<1> HIDE DEF New
<1>12. IsFiniteSet(New) /\ Cardinality(New) \in Nat
  BY <1>10, <1>11, FS_Subset, FS_CardinalityType
<1>13. Cardinality(Marks(t) \cup New) =
          Cardinality(Marks(t)) + Cardinality(New) - Cardinality(Marks(t) \cap New)
  BY <1>11, <1>12, FS_Union
<1>14. Cardinality(Marks(u)) = Cardinality(Marks(t)) + Cardinality(New)
  <2>1. Cardinality(Marks(t) \cap New) = 0
    BY <1>10, FS_EmptySet
  <2>2. Cardinality(Marks(u)) = Cardinality(Marks(t) \cup New)
    BY <1>10
  <2> QED BY <1>11, <1>12, <1>13, <2>1, <2>2
<1>15. Sound(u)
  BY <1>3, <1>7, <1>8 DEF Sound
<1> QED BY <1>2, <1>4, <1>5, <1>9, <1>12, <1>14, <1>15 DEF New

(* The value of a stored key is replaced.                                  *)
Replaced(t, p, v) == [t EXCEPT ![p] = Entry(t[p][1], v)]

(* No search notices that a value is replaced.                             *)
LEMMA ReplaceIs ==
  ASSUME NEW t, Sound(t), NEW p \in Entries(t), NEW v \in Values,
         NEW u, u = Replaced(t, p, v)
  PROVE  /\ Sound(u) /\ DOMAIN u = DOMAIN t
         /\ Entries(u) = Entries(t) /\ Full(u) = Full(t) /\ Marks(u) = Marks(t)
         /\ \A b \in Entries(t) : u[b] = IF b = p THEN Entry(t[p][1], v) ELSE t[b]
         /\ \A b \in Entries(t) : u[b][1] = t[b][1]
<1> DEFINE k == t[p][1]
<1>1. PICK n \in Sizes : t \in [0..(n - 1) -> Cells] /\ DOMAIN t = 0..(n - 1)
  BY TableIs DEF Sound
<1>2. p \in DOMAIN t /\ t[p] \in Keys \X Values /\ k \in Keys /\ t[p] # Empty /\ t[p] # Deleted
  BY CellsDiffer DEF Entries
<1>3. /\ DOMAIN u = DOMAIN t /\ u[p] = Entry(k, v)
      /\ \A b \in DOMAIN t : b # p => u[b] = t[b]
  BY <1>2 DEF Replaced
<1>4. Entry(k, v) \in Cells /\ Entry(k, v) \in Keys \X Values /\ Entry(k, v)[1] = k
      /\ Entry(k, v) # Empty /\ Entry(k, v) # Deleted
  BY <1>2, CellsDiffer DEF Cells
<1> HIDE DEF k
<1>5. IsTable(u)
  <2>1. \A b \in DOMAIN u : u[b] \in Cells
    BY <1>1, <1>3, <1>4
  <2>2. u \in [0..(n - 1) -> Cells]
    BY <1>1, <1>3, <2>1 DEF Replaced
  <2> QED BY <2>2 DEF IsTable
<1>6. Entries(u) = Entries(t) /\ Full(u) = Full(t) /\ Marks(u) = Marks(t)
  BY <1>2, <1>3, <1>4 DEF Entries, Full, Marks
<1>7. \A b \in Entries(t) : u[b] = IF b = p THEN Entry(k, v) ELSE t[b]
  BY <1>3 DEF Entries
<1>8. \A b \in Entries(t) : u[b][1] = t[b][1]
  BY <1>4, <1>7 DEF k
<1>9. KeysApart(u)
  BY <1>6, <1>8 DEF Sound, KeysApart
<1>10. AllReached(u)
  <2>1. \A b \in DOMAIN t : t[b] # Empty => u[b] # Empty
    BY <1>3, <1>4
  <2> SUFFICES ASSUME NEW b \in Entries(u) PROVE Reaches(u, u[b][1], b)
    BY DEF AllReached
  <2>2. Reaches(t, t[b][1], b) /\ IsTable(t)
    BY <1>6 DEF Sound, AllReached
  <2> DEFINE kb == t[b][1]
  <2>3. kb \in Keys
    BY <1>6, CellsDiffer DEF Entries
  <2> HIDE DEF kb
  <2>4. Reaches(t, kb, b)
    BY <2>2 DEF kb
  <2>5. Reaches(u, kb, b)
    BY ONLY <1>3, <1>5, <2>1, <2>2, <2>3, <2>4, ReachesKept
  <2> QED BY <1>6, <1>8, <2>5 DEF kb
<1> QED BY <1>3, <1>5, <1>6, <1>7, <1>8, <1>9, <1>10 DEF Sound, k

(* A table of empty buckets.                                               *)
LEMMA EmptyTableIs ==
  ASSUME NEW n \in Sizes
  PROVE  /\ Sound(NoElements(n)) /\ DOMAIN NoElements(n) = 0..(n - 1)
         /\ Entries(NoElements(n)) = {} /\ Full(NoElements(n)) = {} /\ Marks(NoElements(n)) = {}
         /\ Pairs(NoElements(n)) = {}
<1> DEFINE t == NoElements(n)
<1>1. DOMAIN t = 0..(n - 1) /\ \A b \in 0..(n - 1) : t[b] = Empty
  BY DEF NoElements
<1>2. t \in [0..(n - 1) -> Cells]
  BY DEF NoElements, Cells
<1> HIDE DEF t
<1>3. Entries(t) = {} /\ Full(t) = {} /\ Marks(t) = {} /\ Pairs(t) = {}
  BY <1>1, CellsDiffer DEF Entries, Full, Marks, Pairs
<1>4. Sound(t)
  BY <1>2, <1>3 DEF Sound, IsTable, KeysApart, AllReached
<1> QED BY <1>1, <1>3, <1>4 DEF t

-----------------------------------------------------------------------------
(* k is in the table.                                                      *)
HasKey(h, k) == \E b \in Entries(h.table) : h.table[b][1] = k

(* What an insertion that does not change the size of the table does to h. *)
Inserted(h, k, v, g) ==
    /\ Good(g) /\ DOMAIN g.table = DOMAIN h.table
    /\ g.num_elements <= h.num_elements + 1 /\ g.use_deleted = h.use_deleted
    /\ \A b \in Full(h.table) : b \in Full(g.table)
    /\ \A b \in Entries(h.table) : b \in Entries(g.table) /\ g.table[b] = h.table[b]
    /\ \/ FindPosition(h, k)[1] # -1 /\ HasKey(h, k) /\ g = h
       \/ /\ FindPosition(h, k)[1] = -1 /\ ~HasKey(h, k)
          /\ Pairs(g.table) = Pairs(h.table) \cup {Entry(k, v)}
          /\ Size(g) = Size(h) + 1
          /\ h.num_deleted = 0 => g.num_deleted = 0 /\ g.num_elements = h.num_elements + 1

(* insert_noresize, where room has been made for one more.                 *)
LEMMA InsertIs ==
  ASSUME NEW h, Good(h), NEW k \in Keys, NEW v \in Values,
         h.num_elements + 1 < BucketCount(h),
         NEW g, g = InsertNoResize(h, k, v)
  PROVE  Inserted(h, k, v, g)
<1> DEFINE t == h.table
<1>1. /\ DOMAIN t = 0..(BucketCount(h) - 1) /\ BucketCount(h) \in Nat
      /\ h.num_deleted \in Nat /\ h.num_elements \in Nat
      /\ \A b \in DOMAIN t : TestDeleted(h, b) <=> t[b] = Deleted
      /\ Cardinality(DOMAIN t) = BucketCount(h)
  BY GoodIs
<1>2. Sound(t) /\ Members(h)
      /\ h.num_deleted = Cardinality(Marks(t)) /\ h.num_elements = Cardinality(Full(t))
      /\ (h.num_deleted > 0 => h.use_deleted)
  BY DEF Good
<1>3. CASE FindsIt(h, k)
  <2>1. PICK b \in Entries(t) : FindPosition(h, k) = <<b, -1>> /\ t[b][1] = k
    BY <1>3 DEF FindsIt
  <2>2. FindPosition(h, k)[1] # -1
    BY <1>1, <2>1 DEF Entries
  <2>3. g = h
    BY <2>2 DEF InsertNoResize
  <2>4. HasKey(h, k)
    BY <2>1 DEF HasKey
  <2> QED BY <1>1, <2>2, <2>3, <2>4 DEF Inserted
<1>4. CASE FindsRoom(h, k)
  <2>1. PICK p \in DOMAIN t : FindPosition(h, k) = <<-1, p>> /\ t[p] \in {Empty, Deleted} /\ Reaches(t, k, p)
    BY <1>4 DEF FindsRoom
  <2>2. \A b \in Entries(t) : t[b][1] # k
    BY <1>4 DEF FindsRoom
  <2> DEFINE u == [t EXCEPT ![p] = Entry(k, v)]
  <2>3. /\ Sound(u) /\ DOMAIN u = DOMAIN t
        /\ Entries(u) = Entries(t) \cup {p} /\ p \notin Entries(t)
        /\ Pairs(u) = Pairs(t) \cup {Entry(k, v)}
        /\ t[p] = Empty => /\ Cardinality(Full(u)) = Cardinality(Full(t)) + 1
                           /\ Marks(u) = Marks(t)
        /\ t[p] = Deleted => /\ Full(u) = Full(t)
                             /\ Cardinality(Marks(u)) = Cardinality(Marks(t)) - 1
    BY <1>2, <2>1, <2>2, PutIs
  <2>4. \A b \in Entries(t) : u[b] = t[b]
    BY <2>3 DEF Entries
  <2>5. \A b \in Full(t) : b \in Full(u)
    BY CellsDiffer DEF Full
  <2>6. FindPosition(h, k)[1] = -1 /\ ~HasKey(h, k)
    BY <2>1, <2>2 DEF HasKey
  <2>7. CASE t[p] = Deleted
    <3>1. g = [h EXCEPT !.table[p] = Entry(k, v), !.num_deleted = @ - 1]
      BY <1>1, <2>1, <2>7 DEF InsertNoResize
    <3>2. g = [table |-> u, num_deleted |-> h.num_deleted - 1, num_elements |-> h.num_elements,
               use_deleted |-> h.use_deleted, consider_shrink |-> h.consider_shrink]
      BY <1>2, <3>1 DEF Members
    <3> HIDE DEF u
    <3>3. /\ g.table = u /\ g.num_deleted = h.num_deleted - 1 /\ g.num_elements = h.num_elements
          /\ g.use_deleted = h.use_deleted /\ Members(g)
      BY <3>2 DEF Members
    <3>4. h.num_deleted > 0
      <4>1. Marks(t) # {}
        BY <2>1, <2>7 DEF Marks
      <4> QED BY <1>1, <1>2, <4>1, CountsAre DEF Sound
    <3>5. BucketCount(g) = BucketCount(h)
      BY <2>3, <3>3 DEF BucketCount
    <3>6. Good(g)
      BY <1>1, <1>2, <2>3, <2>7, <3>3, <3>4, <3>5 DEF Good
    <3>7. Size(g) = Size(h) + 1
      BY <1>1, <3>3 DEF Size
    <3> QED BY <1>1, <2>3, <2>4, <2>5, <2>6, <3>3, <3>4, <3>6, <3>7 DEF Inserted
  <2>8. CASE t[p] = Empty
    <3>1. g = [h EXCEPT !.table[p] = Entry(k, v), !.num_elements = @ + 1]
      <4>1. ~TestDeleted(h, p)
        BY <1>1, <2>1, <2>8, CellsDiffer
      <4> QED BY <2>1, <4>1 DEF InsertNoResize
    <3>2. g = [table |-> u, num_deleted |-> h.num_deleted, num_elements |-> h.num_elements + 1,
               use_deleted |-> h.use_deleted, consider_shrink |-> h.consider_shrink]
      BY <1>2, <3>1 DEF Members
    <3> HIDE DEF u
    <3>3. /\ g.table = u /\ g.num_deleted = h.num_deleted /\ g.num_elements = h.num_elements + 1
          /\ g.use_deleted = h.use_deleted /\ Members(g)
      BY <3>2 DEF Members
    <3>5. BucketCount(g) = BucketCount(h)
      BY <2>3, <3>3 DEF BucketCount
    <3>6. Good(g)
      BY <1>1, <1>2, <2>3, <2>8, <3>3, <3>5 DEF Good
    <3>7. Size(g) = Size(h) + 1
      BY <1>1, <3>3 DEF Size
    <3> QED BY <1>1, <2>3, <2>4, <2>5, <2>6, <3>3, <3>6, <3>7 DEF Inserted
  <2> QED BY <2>1, <2>7, <2>8
<1> QED BY <1>3, <1>4, FindPositionIs

(* In a table without deleted buckets a copied entry is put where an       *)
(* insertion would put it.                                                 *)
LEMMA PlacedIs ==
  ASSUME NEW h, Good(h), h.num_deleted = 0, NEW e \in Keys \X Values, ~HasKey(h, e[1])
  PROVE  Placed(h, e) = InsertNoResize(h, e[1], e[2])
<1> DEFINE t == h.table
           n == BucketCount(h)
           k == e[1]
           B(i) == Probe(k, i, n)
           S == {i \in 0..(n - 1) : TestEmpty(h, B(i)) \/ t[B(i)][1] = k}
           F == {i \in 0..(n - 1) : TestEmpty(h, B(i))}
           last == FirstSuch(S)
<1>1. /\ n \in Sizes /\ n \in Nat /\ DOMAIN t = 0..(n - 1) /\ t \in [0..(n - 1) -> Cells]
      /\ \A b \in DOMAIN t : ~TestDeleted(h, b) /\ t[b] # Deleted
      /\ \E b \in DOMAIN t : t[b] = Empty
  BY GoodIs DEF TestDeleted
<1>2. k \in Keys /\ e = Entry(e[1], e[2])
  BY CellsDiffer
<1>4. FindPosition(h, k) =
        LET deleted == {i \in 0..last : TestDeleted(h, B(i))} IN
        CASE ~TestEmpty(h, B(last))                     -> <<B(last), -1>>
          [] TestEmpty(h, B(last)) /\ deleted = {}      -> <<-1, B(last)>>
          [] TestEmpty(h, B(last)) /\ deleted # {}      -> <<-1, B(FirstSuch(deleted))>>
  BY DEF FindPosition
<1>5. Placed(h, e) = [h EXCEPT !.table[B(FirstSuch(F))] = e, !.num_elements = @ + 1]
  BY DEF Placed
<1>6. \A b \in DOMAIN t : TestEmpty(h, b) <=> t[b] = Empty
  BY DEF TestEmpty
<1>7. \A b \in DOMAIN t : t[b] # Empty => t[b][1] # k
  <2> SUFFICES ASSUME NEW b \in DOMAIN t, t[b] # Empty PROVE t[b][1] # k
    OBVIOUS
  <2>1. b \in Entries(t)
    BY <1>1 DEF Entries, Cells
  <2> QED BY <2>1 DEF HasKey
<1> HIDE DEF n, t, k
<1>3. /\ \A i \in Nat : B(i) \in DOMAIN t
      /\ \A b \in DOMAIN t : \E i \in 0..(n - 1) : B(i) = b
  <2>1. n \in Sizes /\ DOMAIN t = 0..(n - 1) /\ k \in Keys
    BY <1>1, <1>2
  <2> QED BY ONLY <2>1, ProbeIs
<1> HIDE DEF B
<1>8. S = F
  <2> SUFFICES ASSUME NEW i \in 0..(n - 1) PROVE TestEmpty(h, B(i)) \/ t[B(i)][1] = k <=> TestEmpty(h, B(i))
    OBVIOUS
  <2>1. i \in Nat
    BY <1>1
  <2>2. B(i) \in DOMAIN t
    BY <1>3, <2>1
  <2> QED BY <1>6, <1>7, <2>2
<1>9. F # {} /\ F \subseteq Nat
  <2>1. PICK b \in DOMAIN t : t[b] = Empty
    BY <1>1
  <2>2. PICK i \in 0..(n - 1) : B(i) = b
    BY <1>3
  <2> QED BY <1>1, <1>6, <2>1, <2>2
<1>10. last \in F
  BY <1>8, <1>9, FirstSuchIs
<1> DEFINE f == FirstSuch(F)
<1>11. last = f
  BY <1>8
<1> HIDE DEF last, f
<1>12. f \in Nat /\ TestEmpty(h, B(f))
  BY <1>1, <1>10, <1>11
<1>13. \A i \in 0..f : ~TestDeleted(h, B(i))
  BY <1>1, <1>3, <1>12
<1>14. FindPosition(h, k) = <<-1, B(f)>>
  <2>1. {i \in 0..f : TestDeleted(h, B(i))} = {}
    BY <1>13
  <2> QED BY <1>4, <1>11, <1>12, <2>1
<1>15. ~TestDeleted(h, B(f))
  BY <1>12, <1>13
<1>16. InsertNoResize(h, e[1], e[2]) = [h EXCEPT !.table[B(f)] = Entry(e[1], e[2]), !.num_elements = @ + 1]
  BY <1>14, <1>15 DEF InsertNoResize, k
<1> QED BY <1>2, <1>5, <1>16 DEF f

-----------------------------------------------------------------------------
(* min_size: a size that holds the elements at half occupancy.             *)
LEMMA MinSizeIs ==
  ASSUME NEW elements \in Nat, NEW wanted \in Nat
  PROVE  /\ MinSize(elements, wanted) \in Sizes
         /\ 2 * elements < MinSize(elements, wanted)
         /\ wanted <= MinSize(elements, wanted)
<1> DEFINE S == {i \in 0..(elements + wanted) : BigEnough(MinBuckets * TwoTo[i], elements, wanted)}
<1>1. MinSize(elements, wanted) = MinBuckets * TwoTo[FirstSuch(S)]
  BY DEF MinSize
<1>2. S # {}
  <2> DEFINE i == elements + wanted
  <2>1. i \in 0..(elements + wanted) /\ i \in Nat
    OBVIOUS
  <2>2. PICK x \in Nat : x = TwoTo[i] /\ x > i
    BY <2>1, TwoToStep, TwoToGrows
  <2>3. MinBuckets * x = 4 * x + (MinBuckets - 4) * x /\ (MinBuckets - 4) * x \in Nat
    <3>1. MinBuckets \in Nat /\ MinBuckets - 4 \in Nat
      BY SizesAre
    <3> QED BY <3>1
  <2>4. MinBuckets * x >= wanted /\ elements * 2 < MinBuckets * x /\ MinBuckets * x \in Nat
    BY <2>2, <2>3
  <2>5. BigEnough(MinBuckets * TwoTo[i], elements, wanted)
    BY <2>2, <2>4 DEF BigEnough
  <2> QED BY <2>1, <2>5
<1>3. FirstSuch(S) \in S
  BY <1>2, FirstSuchIs
<1> HIDE DEF S
<1> DEFINE f == FirstSuch(S)
<1>4. f \in Nat /\ BigEnough(MinBuckets * TwoTo[f], elements, wanted)
  BY <1>3 DEF S
<1> HIDE DEF f
<1>5. MinBuckets * TwoTo[f] \in Sizes
  BY <1>4 DEF Sizes
<1>6. MinBuckets * TwoTo[f] \in Nat
  BY <1>5, SizesAre
<1> QED BY <1>1, <1>4, <1>5, <1>6 DEF f, BigEnough

(* A cleared table is good.                                                *)
LEMMA ClearedIs ==
  ASSUME NEW h, Good(h), NEW n \in Sizes,
         NEW g, g = [Cleared(h) EXCEPT !.table = NoElements(n)]
  PROVE  /\ Good(g) /\ g.table = NoElements(n) /\ Pairs(g.table) = {} /\ Entries(g.table) = {}
         /\ g.num_elements = 0 /\ g.num_deleted = 0 /\ Size(g) = 0 /\ ~g.consider_shrink
         /\ g.use_deleted = h.use_deleted /\ BucketCount(g) = n
<1>1. g = [table |-> NoElements(n), num_deleted |-> 0, num_elements |-> 0,
           use_deleted |-> h.use_deleted, consider_shrink |-> FALSE]
  BY DEF Good, Members, Cleared
<1>2. /\ g.table = NoElements(n) /\ g.num_deleted = 0 /\ g.num_elements = 0 /\ ~g.consider_shrink
      /\ g.use_deleted = h.use_deleted /\ Members(g)
  <2>1. g.table = NoElements(n) /\ g.num_deleted = 0 /\ g.num_elements = 0 /\ g.use_deleted = h.use_deleted
    BY <1>1
  <2>2. ~g.consider_shrink
    BY <1>1
  <2>3. g.consider_shrink = FALSE
    BY <1>1
  <2>4. Members(g)
    BY <1>1, <2>1, <2>3 DEF Members
  <2> QED BY <2>1, <2>2, <2>4
<1>3. /\ Sound(g.table) /\ DOMAIN g.table = 0..(n - 1) /\ Entries(g.table) = {}
      /\ Full(g.table) = {} /\ Marks(g.table) = {} /\ Pairs(g.table) = {}
  BY <1>2, EmptyTableIs
<1>4. n \in Nat /\ n >= 4
  BY SizesAre
<1>5. BucketCount(g) = n
  BY <1>3, <1>4, FS_Interval DEF BucketCount
<1>6. Cardinality(Full(g.table)) = 0 /\ Cardinality(Marks(g.table)) = 0
  BY <1>3, FS_EmptySet
<1>7. Good(g)
  BY <1>2, <1>3, <1>4, <1>5, <1>6 DEF Good
<1> QED BY <1>2, <1>3, <1>5, <1>7 DEF Size

(* Copying: what has been copied of h when b buckets have been visited.    *)
Before(h, b) == {c \in Entries(h.table) : c < b}

CopiedTo(h, n, b, g) ==
    /\ Good(g) /\ BucketCount(g) = n /\ g.num_deleted = 0 /\ ~g.consider_shrink
    /\ g.use_deleted = h.use_deleted
    /\ Pairs(g.table) = {h.table[c] : c \in Before(h, b)}
    /\ g.num_elements = Cardinality(Before(h, b))

(* How Before(h, b) grows with b.                                          *)
LEMMA BeforeIs ==
  ASSUME NEW h, Good(h), NEW b \in 0..BucketCount(h)
  PROVE  /\ IsFiniteSet(Before(h, b)) /\ Cardinality(Before(h, b)) \in Nat
         /\ Cardinality(Before(h, b)) <= Size(h)
         /\ b \in Entries(h.table) => /\ Before(h, b + 1) = Before(h, b) \cup {b}
                                      /\ Cardinality(Before(h, b + 1)) = Cardinality(Before(h, b)) + 1
                                      /\ Cardinality(Before(h, b)) + 1 <= Size(h)
         /\ b \notin Entries(h.table) => Before(h, b + 1) = Before(h, b)
         /\ Before(h, 0) = {} /\ Before(h, BucketCount(h)) = Entries(h.table)
<1> DEFINE E == Entries(h.table)
<1>1. /\ E \subseteq 0..(BucketCount(h) - 1) /\ BucketCount(h) \in Nat /\ b \in Nat
      /\ Size(h) = Cardinality(E) /\ Size(h) \in Nat /\ E \subseteq Nat
  <2>1. /\ DOMAIN h.table = 0..(BucketCount(h) - 1) /\ BucketCount(h) \in Nat
        /\ Size(h) = Cardinality(E) /\ Size(h) \in Nat
    BY GoodIs
  <2>2. E \subseteq DOMAIN h.table
    BY DEF Entries
  <2> QED BY <2>1, <2>2
<1>2. IsFiniteSet(E)
  <2>1. IsFiniteSet(0..(BucketCount(h) - 1))
    BY <1>1, FS_Interval
  <2> QED BY <1>1, <2>1, FS_Subset
<1>3. Before(h, b) \subseteq E /\ Before(h, b) = {c \in E : c < b} /\ Before(h, b + 1) = {c \in E : c < b + 1}
  BY DEF Before
<1> HIDE DEF E
<1>4. IsFiniteSet(Before(h, b)) /\ Cardinality(Before(h, b)) \in Nat /\ Cardinality(Before(h, b)) <= Size(h)
  BY <1>1, <1>2, <1>3, FS_Subset, FS_CardinalityType
<1>5. ASSUME b \in E
      PROVE  /\ Before(h, b + 1) = Before(h, b) \cup {b}
             /\ Cardinality(Before(h, b + 1)) = Cardinality(Before(h, b)) + 1
             /\ Cardinality(Before(h, b)) + 1 <= Size(h)
  <2>1. Before(h, b + 1) = Before(h, b) \cup {b} /\ b \notin Before(h, b)
    <3>1. \A c \in E : c < b + 1 <=> c < b \/ c = b
      BY <1>1
    <3>2. \A c : c \in Before(h, b + 1) <=> c \in Before(h, b) \cup {b}
      BY <1>3, <1>5, <3>1
    <3>3. b \notin Before(h, b)
      BY <1>1, <1>3
    <3> QED BY <3>2, <3>3
  <2>2. Cardinality(Before(h, b) \cup {b}) = Cardinality(Before(h, b)) + 1
    BY <1>4, <2>1, FS_AddElement
  <2>3. Cardinality(Before(h, b + 1)) <= Cardinality(E)
    <3>1. Before(h, b + 1) \subseteq E
      BY <1>3
    <3> QED BY <1>2, <3>1, FS_Subset
  <2> QED BY <1>1, <2>1, <2>2, <2>3
<1>6. ASSUME b \notin E PROVE Before(h, b + 1) = Before(h, b)
  <2>1. \A c \in E : c < b + 1 <=> c < b
    BY <1>1, <1>6
  <2> QED BY <1>3, <2>1
<1>7. Before(h, 0) = {} /\ Before(h, BucketCount(h)) = E
  BY <1>1 DEF Before, E
<1> QED BY <1>4, <1>5, <1>6, <1>7 DEF E

(* One turn of the loop of copy_from.                                      *)
LEMMA CopyStep ==
  ASSUME NEW h, Good(h), NEW b \in DOMAIN h.table, NEW n \in Nat, 2 * Size(h) < n,
         NEW g, CopiedTo(h, n, b, g),
         NEW f, f = IF b \in Live(h) THEN Placed(g, h.table[b]) ELSE g
  PROVE  CopiedTo(h, n, b + 1, f)
<1>1. Live(h) = Entries(h.table) /\ b \in 0..BucketCount(h) /\ Size(h) \in Nat
  BY GoodIs
<1>2. CASE b \notin Entries(h.table)
  <2>1. f = g /\ Before(h, b + 1) = Before(h, b)
    BY <1>1, <1>2, BeforeIs
  <2> QED BY <2>1 DEF CopiedTo
<1>3. CASE b \in Entries(h.table)
  <2> DEFINE e == h.table[b]
  <2>1. e \in Keys \X Values /\ e[1] \in Keys /\ e[2] \in Values /\ e = Entry(e[1], e[2])
    BY <1>3, CellsDiffer DEF Entries
  <2>2. /\ Good(g) /\ BucketCount(g) = n /\ g.num_deleted = 0 /\ ~g.consider_shrink
        /\ g.use_deleted = h.use_deleted
        /\ Pairs(g.table) = {h.table[c] : c \in Before(h, b)}
        /\ g.num_elements = Cardinality(Before(h, b))
    BY DEF CopiedTo
  <2>3. /\ Before(h, b + 1) = Before(h, b) \cup {b}
        /\ Cardinality(Before(h, b + 1)) = Cardinality(Before(h, b)) + 1
        /\ Cardinality(Before(h, b)) + 1 <= Size(h)
        /\ Cardinality(Before(h, b)) \in Nat
    BY <1>1, <1>3, BeforeIs
  <2>4. ~HasKey(g, e[1])
    <3> SUFFICES ASSUME NEW c \in Entries(g.table), g.table[c][1] = e[1] PROVE FALSE
      BY DEF HasKey
    <3>1. g.table[c] \in Pairs(g.table)
      BY DEF Pairs
    <3>2. PICK d \in Before(h, b) : g.table[c] = h.table[d]
      BY <2>2, <3>1
    <3>3. d \in Entries(h.table) /\ h.table[d][1] = h.table[b][1] /\ d < b
      BY <3>2 DEF Before
    <3>4. d = b
      BY <1>3, <3>3 DEF Good, Sound, KeysApart
    <3> QED BY <1>1, <3>3, <3>4
  <2>5. f = InsertNoResize(g, e[1], e[2])
    BY <1>1, <1>3, <2>1, <2>2, <2>4, PlacedIs
  <2>6. g.num_elements + 1 < BucketCount(g)
    BY <1>1, <2>2, <2>3
  <2> DEFINE k == e[1]  v == e[2]
  <2>7. k \in Keys /\ v \in Values /\ f = InsertNoResize(g, k, v) /\ ~HasKey(g, k) /\ Entry(k, v) = h.table[b]
    BY <2>1, <2>4, <2>5
  <2> HIDE DEF e, k, v
  <2>8. /\ Good(f) /\ DOMAIN f.table = DOMAIN g.table /\ f.use_deleted = g.use_deleted
        /\ Pairs(f.table) = Pairs(g.table) \cup {Entry(k, v)}
        /\ f.num_deleted = 0 /\ f.num_elements = g.num_elements + 1
    <3>1. Inserted(g, k, v, f)
      BY <2>2, <2>6, <2>7, InsertIs
    <3> QED BY <2>2, <2>7, <3>1 DEF Inserted
  <2>9. ~f.consider_shrink
    <3>1. f.consider_shrink = g.consider_shrink
      BY <2>2, <2>7 DEF InsertNoResize, Good, Members
    <3> QED BY <2>2, <3>1
  <2>10. BucketCount(f) = n
    BY <2>2, <2>8 DEF BucketCount
  <2>11. {h.table[c] : c \in Before(h, b + 1)} = {h.table[c] : c \in Before(h, b)} \cup {h.table[b]}
    BY <2>3
  <2> QED BY <2>2, <2>3, <2>7, <2>8, <2>9, <2>10, <2>11 DEF CopiedTo
<1> QED BY <1>2, <1>3

(* copy_from keeps the elements and leaves the deleted buckets behind.     *)
LEMMA CopyFromIs ==
  ASSUME NEW h, Good(h), NEW wanted \in Nat, NEW g, g = CopyFrom(h, wanted)
  PROVE  /\ Good(g) /\ Pairs(g.table) = Pairs(h.table)
         /\ g.num_deleted = 0 /\ g.num_elements = Size(h) /\ Size(g) = Size(h)
         /\ g.use_deleted = h.use_deleted /\ ~g.consider_shrink
         /\ BucketCount(g) = MinSize(Size(h), wanted)
         /\ 2 * g.num_elements < BucketCount(g)
<1> DEFINE n == MinSize(Size(h), wanted)
           N == BucketCount(h)
           new == [Cleared(h) EXCEPT !.table = NoElements(n)]
           IsCopy(m, f) == f = [b \in 0..m |-> IF b = 0 THEN new
                                               ELSE IF b - 1 \in Live(h) THEN Placed(f[b - 1], h.table[b - 1])
                                               ELSE f[b - 1]]
<1>1. CopyFrom(h, wanted) = (CHOOSE f : IsCopy(N, f))[N]
  BY DEF CopyFrom
<1>2. /\ Size(h) \in Nat /\ N \in Nat /\ Live(h) = Entries(h.table)
      /\ DOMAIN h.table = 0..(N - 1) /\ Size(h) = Cardinality(Entries(h.table))
  BY GoodIs
<1>3. n \in Sizes /\ n \in Nat /\ 2 * Size(h) < n
  BY <1>2, MinSizeIs, SizesAre
<1>4. CopiedTo(h, n, 0, new)
  <2>1. /\ Good(new) /\ new.table = NoElements(n) /\ Pairs(new.table) = {} /\ Entries(new.table) = {}
        /\ new.num_elements = 0 /\ new.num_deleted = 0 /\ ~new.consider_shrink
        /\ new.use_deleted = h.use_deleted /\ BucketCount(new) = n
    BY <1>3, ClearedIs
  <2> HIDE DEF new, n
  <2>2. Before(h, 0) = {}
    BY <1>2, BeforeIs
  <2>3. Cardinality(Before(h, 0)) = 0
    BY <2>2, FS_EmptySet
  <2> QED BY <2>1, <2>2, <2>3 DEF CopiedTo
<1> HIDE DEF new, n, N
(* The recursive function exists, up to each bucket.                       *)
<1>5. \A m \in Nat : \E f : IsCopy(m, f)
  <2> DEFINE T == {m \in Nat : ~ \E f : IsCopy(m, f)}
  <2> SUFFICES ASSUME T # {} PROVE FALSE
    OBVIOUS
  <2>1. PICK m \in T : \A j \in T : m <= j
    BY LeastElement
  <2>2. m # 0
    <3> DEFINE f == [i \in 0..0 |-> new]
    <3>1. f = [b \in 0..0 |-> IF b = 0 THEN new
                              ELSE IF b - 1 \in Live(h) THEN Placed(f[b - 1], h.table[b - 1])
                              ELSE f[b - 1]]
      <4>1. \A b \in 0..0 : b = 0
        OBVIOUS
      <4> QED BY <4>1
    <3> HIDE DEF f
    <3>2. IsCopy(0, f)
      BY <3>1
    <3> HIDE DEF IsCopy
    <3> QED BY <2>1, <3>2
  <2>3. m - 1 \in Nat /\ \E f : IsCopy(m - 1, f)
    <3> HIDE DEF IsCopy
    <3> QED BY <2>1, <2>2
  <2>4. PICK g0 : IsCopy(m - 1, g0)
    BY <2>3
  <2> DEFINE last == IF m - 1 \in Live(h) THEN Placed(g0[m - 1], h.table[m - 1]) ELSE g0[m - 1]
             f == [b \in 0..m |-> IF b = m THEN last ELSE g0[b]]
  <2>5. \A b \in 0..(m - 1) : g0[b] = IF b = 0 THEN new
                                       ELSE IF b - 1 \in Live(h) THEN Placed(g0[b - 1], h.table[b - 1])
                                       ELSE g0[b - 1]
    BY <2>4
  <2>6. f = [b \in 0..m |-> IF b = 0 THEN new
                            ELSE IF b - 1 \in Live(h) THEN Placed(f[b - 1], h.table[b - 1])
                            ELSE f[b - 1]]
    <3> SUFFICES ASSUME NEW b \in 0..m
                 PROVE  f[b] = IF b = 0 THEN new
                               ELSE IF b - 1 \in Live(h) THEN Placed(f[b - 1], h.table[b - 1])
                               ELSE f[b - 1]
      OBVIOUS
    <3>1. CASE b = m
      <4>1. f[b] = last /\ m - 1 \in 0..m /\ m - 1 # m /\ b # 0
        BY <2>2, <2>3, <3>1
      <4>2. f[b - 1] = g0[m - 1]
        BY <3>1, <4>1
      <4> QED BY <3>1, <4>1, <4>2
    <3>2. CASE b # m
      <4>1. b \in 0..(m - 1) /\ f[b] = g0[b]
        BY <2>3, <3>2
      <4>2. b # 0 => b - 1 \in 0..m /\ b - 1 # m /\ f[b - 1] = g0[b - 1]
        BY <2>3, <4>1
      <4> HIDE DEF f
      <4> QED BY <2>5, <4>1, <4>2
    <3> QED BY <3>1, <3>2
  <2> HIDE DEF f
  <2>7. IsCopy(m, f)
    BY <2>6
  <2> HIDE DEF IsCopy
  <2> QED BY <2>1, <2>7
<1> DEFINE copied == CHOOSE f : IsCopy(N, f)
<1>6. IsCopy(N, copied)
  <2> HIDE DEF IsCopy
  <2> QED BY <1>2, <1>5
<1> HIDE DEF copied
<1>7. /\ copied[0] = new
      /\ \A b \in 0..(N - 1) : copied[b + 1] = IF b \in Live(h) THEN Placed(copied[b], h.table[b]) ELSE copied[b]
  <2>1. \A b \in 0..N : copied[b] = IF b = 0 THEN new
                                    ELSE IF b - 1 \in Live(h) THEN Placed(copied[b - 1], h.table[b - 1])
                                    ELSE copied[b - 1]
    BY <1>6
  <2>2. copied[0] = new
    BY <1>2, <2>1
  <2>3. ASSUME NEW b \in 0..(N - 1)
        PROVE  copied[b + 1] = IF b \in Live(h) THEN Placed(copied[b], h.table[b]) ELSE copied[b]
    <3>1. b + 1 \in 0..N /\ b + 1 # 0 /\ (b + 1) - 1 = b
      BY <1>2
    <3> QED BY <2>1, <3>1
  <2> QED BY <2>2, <2>3
<1> HIDE DEF IsCopy
<1>8. \A b \in 0..N : CopiedTo(h, n, b, copied[b])
  <2> DEFINE T == {b \in 0..N : ~CopiedTo(h, n, b, copied[b])}
  <2> SUFFICES ASSUME T # {} PROVE FALSE
    OBVIOUS
  <2>1. T \subseteq Nat
    BY <1>2
  <2>2. PICK b \in T : \A j \in T : b <= j
    BY <2>1, LeastElement
  <2>3. b # 0
    BY <1>4, <1>7, <2>2
  <2>4. b - 1 \in 0..(N - 1) /\ b - 1 \in 0..N /\ b - 1 \notin T /\ (b - 1) + 1 = b
    BY <1>2, <2>2, <2>3
  <2>5. CopiedTo(h, n, b - 1, copied[b - 1])
    BY <2>4
  <2>6. copied[b] = IF b - 1 \in Live(h) THEN Placed(copied[b - 1], h.table[b - 1]) ELSE copied[b - 1]
    BY <1>7, <2>4
  <2> DEFINE c == b - 1
  <2>7. c \in DOMAIN h.table /\ CopiedTo(h, n, c, copied[c])
        /\ copied[b] = IF c \in Live(h) THEN Placed(copied[c], h.table[c]) ELSE copied[c]
    BY <1>2, <2>4, <2>5, <2>6
  <2>8. c + 1 = b
    BY <2>4
  <2> HIDE DEF c
  <2>9. CopiedTo(h, n, c + 1, copied[b])
    BY <1>3, <2>7, CopyStep
  <2> QED BY <2>2, <2>8, <2>9
<1>9. g = copied[N] /\ CopiedTo(h, n, N, g)
  BY <1>1, <1>2, <1>8 DEF copied
<1>10. Before(h, N) = Entries(h.table)
  BY <1>2, BeforeIs DEF N
<1>11. Pairs(g.table) = Pairs(h.table) /\ g.num_elements = Size(h)
  BY <1>2, <1>9, <1>10 DEF CopiedTo, Pairs
<1>12. Size(g) = Size(h)
  BY <1>2, <1>9, <1>11 DEF Size, CopiedTo
<1> QED BY <1>3, <1>9, <1>11, <1>12 DEF CopiedTo, n

-----------------------------------------------------------------------------
(* squash_deleted: a copy without deleted buckets, or nothing.             *)
LEMMA SquashIs ==
  ASSUME NEW h, Good(h), NEW g, g = SquashDeleted(h)
  PROVE  /\ Good(g) /\ Pairs(g.table) = Pairs(h.table) /\ g.num_deleted = 0
         /\ h.num_deleted = 0 => g = h
<1>1. h.num_deleted \in Nat /\ Size(h) \in Nat
  BY GoodIs
<1>2. CASE h.num_deleted > 0
  <2>1. g = CopyFrom(h, 0)
    BY <1>2 DEF SquashDeleted
  <2> QED BY <1>2, <2>1, CopyFromIs
<1>3. CASE ~(h.num_deleted > 0)
  <2>1. g = h /\ h.num_deleted = 0
    BY <1>1, <1>3 DEF SquashDeleted
  <2> QED BY <2>1
<1> QED BY <1>2, <1>3

(* The deleted key is set or cleared.                                      *)
LEMMA MarkerIs ==
  ASSUME NEW h, Good(h), h.num_deleted = 0, NEW u \in BOOLEAN,
         NEW g, g = [h EXCEPT !.use_deleted = u]
  PROVE  Good(g) /\ g.table = h.table
<1>1. g = [table |-> h.table, num_deleted |-> h.num_deleted, num_elements |-> h.num_elements,
           use_deleted |-> u, consider_shrink |-> h.consider_shrink]
  BY DEF Good, Members
<1>2. g.table = h.table /\ g.num_deleted = h.num_deleted /\ g.num_elements = h.num_elements
  BY <1>1
<1>3. g.use_deleted = u /\ g.consider_shrink = h.consider_shrink
  BY <1>1
<1>4. Members(g)
  BY <1>1, <1>2, <1>3 DEF Members
<1>5. BucketCount(g) = BucketCount(h)
  BY <1>2 DEF BucketCount
<1>6. ~(g.num_deleted > 0)
  BY <1>2
<1> QED BY <1>2, <1>4, <1>5, <1>6 DEF Good

(* A table that has considered to shrink is as good as before.             *)
LEMMA ConsideredIs ==
  ASSUME NEW h, Good(h), NEW g, g = [h EXCEPT !.consider_shrink = FALSE]
  PROVE  Good(g) /\ g.table = h.table /\ g.num_deleted = h.num_deleted
         /\ g.num_elements = h.num_elements /\ g.use_deleted = h.use_deleted
<1>1. g = [table |-> h.table, num_deleted |-> h.num_deleted, num_elements |-> h.num_elements,
           use_deleted |-> h.use_deleted, consider_shrink |-> FALSE]
  BY DEF Good, Members
<1>2. g.table = h.table /\ g.num_deleted = h.num_deleted /\ g.num_elements = h.num_elements
  BY <1>1
<1>3. g.use_deleted = h.use_deleted /\ g.consider_shrink = FALSE
  BY <1>1
<1>4. Members(g)
  BY <1>1, <1>2, <1>3 DEF Members
<1>5. BucketCount(g) = BucketCount(h)
  BY <1>2 DEF BucketCount
<1> QED BY <1>2, <1>3, <1>4, <1>5 DEF Good

(* A size to shrink to exists.                                             *)
LEMMA ShrunkSizeIs ==
  ASSUME NEW h, Good(h), Shrinks(h)
  PROVE  ShrunkSize(h) \in Nat
<1> DEFINE half == BucketCount(h) \div 2
           stays == {s \in MinBuckets..half : \E i \in 0..half : half = s * TwoTo[i]}
           Fits(s) == s = MinBuckets \/ Size(h) * 5 >= s
           Best(s) == Fits(s) /\ \A r \in stays : r > s => Size(h) * 5 < r
<1>1. ShrunkSize(h) = CHOOSE s \in stays : Best(s)
  BY DEF ShrunkSize
<1>2. BucketCount(h) \in Sizes /\ BucketCount(h) > MinBuckets /\ MinBuckets \in Nat /\ MinBuckets >= 4
  BY GoodIs, SizesAre DEF Shrinks
<1>3. MinBuckets \in stays /\ half \in Nat
  <2>1. PICK i \in Nat : BucketCount(h) = MinBuckets * TwoTo[i]
    BY <1>2 DEF Sizes
  <2>2. i # 0
    BY <1>2, <2>1, TwoToStep
  <2>3. i - 1 \in Nat /\ (i - 1) + 1 = i
    BY <2>2
  <2>4. PICK x \in Nat : x = TwoTo[i - 1] /\ x > i - 1 /\ TwoTo[i] = 2 * x /\ x >= 1
    BY <2>3, TwoToStep, TwoToGrows
  <2>5. BucketCount(h) = 2 * (MinBuckets * x)
    <3>1. MinBuckets * (2 * x) = 2 * (MinBuckets * x)
      BY <1>2
    <3> QED BY <2>1, <2>4, <3>1
  <2> DEFINE y == MinBuckets * x
  <2>6. y = x + (MinBuckets - 1) * x /\ (MinBuckets - 1) * x \in Nat /\ y \in Nat
    <3>1. MinBuckets - 1 \in Nat
      BY <1>2
    <3> QED BY <1>2, <3>1
  <2>7. y >= x /\ y \in Int
    BY <2>6
  <2>8. y = MinBuckets + MinBuckets * (x - 1) /\ MinBuckets * (x - 1) \in Nat
    <3>1. x - 1 \in Nat
      BY <2>4
    <3> QED BY <1>2, <3>1
  <2>9. y >= MinBuckets
    BY <1>2, <2>8
  <2>10. half = y
    <3> HIDE DEF y
    <3> QED BY <2>5, <2>7, HalfOfTwice DEF y
  <2>11. i - 1 \in 0..half /\ half = MinBuckets * TwoTo[i - 1]
    <3>1. half = MinBuckets * TwoTo[i - 1]
      BY <2>4, <2>10
    <3> HIDE DEF y, half
    <3> QED BY <2>3, <2>4, <2>7, <2>10, <3>1
  <2>12. half \in Nat /\ MinBuckets \in MinBuckets..half
    <3> HIDE DEF y, half
    <3> QED BY <1>2, <2>6, <2>9, <2>10
  <2> HIDE DEF half, y
  <2> QED BY <2>11, <2>12
<1>4. Size(h) \in Nat
  BY GoodIs
<1> HIDE DEF half
<1>5. stays \subseteq Nat /\ \A s \in stays : s <= half
  BY <1>2, <1>3
<1> HIDE DEF stays
(* The greatest size that fits is the best one. *)
<1> DEFINE D == {half - s : s \in {r \in stays : Fits(r)}}
<1>6. \E s \in stays : Best(s)
  <2>1. D # {} /\ D \subseteq Nat
    BY <1>3, <1>5
  <2>2. PICK d \in D : \A e \in D : d <= e
    BY <2>1, LeastElement
  <2>3. PICK s \in stays : Fits(s) /\ d = half - s
    BY <2>2
  <2>4. ASSUME NEW r \in stays, r > s PROVE Size(h) * 5 < r
    <3>1. CASE Fits(r)
      <4>1. half - r \in D
        BY <3>1
      <4>2. d <= half - r
        BY <2>2, <4>1
      <4>3. r \in Nat /\ s \in Nat /\ half \in Nat /\ r > s /\ half - s <= half - r
        BY <1>3, <1>5, <2>3, <2>4, <4>2
      <4> QED BY ONLY <4>3
    <3>2. CASE ~Fits(r)
      BY <1>4, <1>5, <3>2
    <3> QED BY <3>1, <3>2
  <2> QED BY <2>3, <2>4
<1>7. (CHOOSE s \in stays : Best(s)) \in stays
  <2> HIDE DEF Best
  <2> QED BY <1>6
<1> QED BY <1>1, <1>5, <1>7 DEF stays, half

(* maybe_shrink keeps the elements.                                        *)
LEMMA MaybeShrinkIs ==
  ASSUME NEW h, Good(h), NEW g, g = MaybeShrink(h)
  PROVE  /\ Good(g) /\ Pairs(g.table) = Pairs(h.table) /\ g.use_deleted = h.use_deleted
         /\ ~Shrinks(h) => g.table = h.table
<1>1. CASE Shrinks(h)
  <2>1. ShrunkSize(h) \in Nat /\ g = CopyFrom(h, ShrunkSize(h))
    BY <1>1, ShrunkSizeIs DEF MaybeShrink
  <2> QED BY <1>1, <2>1, CopyFromIs
<1>2. CASE ~Shrinks(h)
  <2>1. g = [h EXCEPT !.consider_shrink = FALSE]
    BY <1>2 DEF MaybeShrink
  <2> QED BY <2>1, ConsideredIs
<1> QED BY <1>1, <1>2

(* resize_delta keeps the elements and makes room for delta more.          *)
LEMMA ResizeDeltaIs ==
  ASSUME NEW h, Good(h), NEW delta \in Nat, NEW g, g = ResizeDelta(h, delta)
  PROVE  /\ Good(g) /\ Pairs(g.table) = Pairs(h.table) /\ g.use_deleted = h.use_deleted
         /\ g.num_elements + delta < BucketCount(g)
         /\ ~Copies(h, delta) => g.table = h.table
<1> DEFINE c == IF h.consider_shrink THEN MaybeShrink(h) ELSE h
<1>1. /\ Good(c) /\ Pairs(c.table) = Pairs(h.table) /\ c.use_deleted = h.use_deleted
      /\ ~(h.consider_shrink /\ Shrinks(h)) => c.table = h.table
  BY MaybeShrinkIs
<1>2. /\ g = IF Grows(c, delta) THEN CopyFrom(c, MinSize(c.num_elements + delta, 0)) ELSE c
      /\ Copies(h, delta) <=> (h.consider_shrink /\ Shrinks(h)) \/ Grows(c, delta)
  BY DEF ResizeDelta, Copies
<1> HIDE DEF c
<1>3. /\ c.num_elements \in Nat /\ BucketCount(c) \in Nat /\ BucketCount(c) >= 4
      /\ Size(c) \in Nat /\ c.num_deleted \in Nat
  BY <1>1, GoodIs
<1>4. CASE Grows(c, delta)
  <2> DEFINE m == MinSize(c.num_elements + delta, 0)
  <2>1. m \in Nat /\ 2 * (c.num_elements + delta) < m
    <3>1. c.num_elements + delta \in Nat /\ 0 \in Nat
      BY <1>3
    <3> QED BY <3>1, MinSizeIs, SizesAre
  <2>2. g = CopyFrom(c, m)
    BY <1>2, <1>4
  <2> HIDE DEF m
  <2>3. /\ Good(g) /\ Pairs(g.table) = Pairs(c.table) /\ g.num_elements = Size(c)
        /\ g.use_deleted = c.use_deleted /\ BucketCount(g) = MinSize(Size(c), m)
    BY <1>1, <2>1, <2>2, CopyFromIs
  <2>4. m <= BucketCount(g) /\ BucketCount(g) \in Nat
    BY <1>3, <2>1, <2>3, MinSizeIs, GoodIs
  <2>5. g.num_elements + delta < BucketCount(g)
    BY <1>3, <2>1, <2>3, <2>4 DEF Size
  <2> QED BY <1>1, <1>2, <1>4, <2>3, <2>5
<1>5. CASE ~Grows(c, delta)
  <2>1. g = c
    BY <1>2, <1>5
  <2>2. c.num_elements + delta <= BucketCount(c) \div 2
    BY <1>3, <1>5 DEF Grows, EnlargeThreshold
  <2>3. c.num_elements + delta < BucketCount(c)
    BY <1>3, <2>2
  <2> QED BY <1>1, <1>2, <1>5, <2>1, <2>3
<1> QED BY <1>4, <1>5

-----------------------------------------------------------------------------
(* set_deleted for occupied buckets.                                       *)
LEMMA ErasedIs ==
  ASSUME NEW h, Good(h), h.use_deleted, NEW B, B \subseteq Full(h.table),
         NEW g, g = Erased(h, B)
  PROVE  /\ Good(g) /\ DOMAIN g.table = DOMAIN h.table /\ Full(g.table) = Full(h.table)
         /\ Entries(g.table) = Entries(h.table) \ B
         /\ \A b \in Entries(g.table) : g.table[b] = h.table[b]
         /\ BucketCount(g) = BucketCount(h)
<1> DEFINE t == h.table
           u == Marked(t, B)
           New == Unmarked(t, B)
<1>1. /\ Sound(u) /\ DOMAIN u = DOMAIN t /\ Full(u) = Full(t)
      /\ Entries(u) = Entries(t) \ B
      /\ Cardinality(Marks(u)) = Cardinality(Marks(t)) + Cardinality(New)
      /\ Cardinality(New) \in Nat
  BY MarkIs DEF Good
<1>2. {b \in B : ~TestDeleted(h, b)} = New
  <2>1. \A b \in DOMAIN t : TestDeleted(h, b) <=> t[b] = Deleted
    BY GoodIs
  <2>2. B \subseteq DOMAIN t
    BY DEF Full
  <2> QED BY <2>1, <2>2 DEF Unmarked
<1>3. g = [h EXCEPT !.table = u, !.num_deleted = h.num_deleted + Cardinality(New), !.consider_shrink = TRUE]
  BY <1>2 DEF Erased, Marked
<1>4. \A b \in Entries(u) : u[b] = t[b]
  <2>1. \A b \in Entries(u) : b \in DOMAIN t /\ b \notin B
    BY <1>1 DEF Entries
  <2> QED BY <2>1 DEF Marked
<1> HIDE DEF u, New
<1>5. g = [table |-> u, num_deleted |-> h.num_deleted + Cardinality(New), num_elements |-> h.num_elements,
           use_deleted |-> h.use_deleted, consider_shrink |-> TRUE]
  BY <1>3 DEF Good, Members
<1>6. /\ g.table = u /\ g.num_deleted = h.num_deleted + Cardinality(New)
      /\ g.num_elements = h.num_elements /\ g.use_deleted = h.use_deleted
  BY <1>5
<1>7. g.consider_shrink = TRUE
  BY <1>5
<1>8. Members(g)
  BY <1>5, <1>6, <1>7 DEF Members
<1>9. BucketCount(g) = BucketCount(h)
  BY <1>1, <1>6 DEF BucketCount
<1>10. Good(g)
  BY <1>1, <1>6, <1>8, <1>9 DEF Good
<1> QED BY <1>1, <1>4, <1>6, <1>9, <1>10

-----------------------------------------------------------------------------
(* The mapping that a table holds.                                         *)
LEMMA ContentsIs ==
  ASSUME NEW h, Good(h)
  PROVE  /\ DOMAIN Contents(h) = {e[1] : e \in Pairs(h.table)}
         /\ \A e \in Pairs(h.table) : Contents(h)[e[1]] = e[2]
         /\ Contents(h) = [k \in DOMAIN Contents(h) |-> Contents(h)[k]]
         /\ \A k : HasKey(h, k) <=> k \in DOMAIN Contents(h)
<1> DEFINE t == h.table
<1>1. DOMAIN Contents(h) = KeysOf(h, DOMAIN t)
  BY DEF Contents
<1>2. KeysOf(h, DOMAIN t) = {e[1] : e \in Pairs(t)}
  <2>1. Live(h) = Entries(t) /\ Entries(t) \subseteq DOMAIN t
    BY GoodIs DEF Entries
  <2>2. DOMAIN t \cap Live(h) = Entries(t)
    BY <2>1
  <2> QED BY <2>2 DEF KeysOf, Pairs
<1>3. ASSUME NEW b \in Entries(t)
      PROVE  /\ t[b][1] \in DOMAIN Contents(h)
             /\ Contents(h)[t[b][1]] = t[b][2]
  <2> DEFINE Is(e) == Len(e) = 2 /\ e[1] = t[b][1]
  <2>1. t[b][1] \in KeysOf(h, DOMAIN t)
    BY <1>2, <1>3 DEF Pairs
  <2>2. Contents(h)[t[b][1]] = (CHOOSE e \in Range(t) : Is(e))[2]
    BY <2>1 DEF Contents
  <2>3. t[b] \in Range(t) /\ Is(t[b])
    <3>1. b \in DOMAIN t /\ t[b] \in Keys \X Values
      BY DEF Entries
    <3> QED BY <3>1, CellsDiffer DEF Range
  <2>4. ASSUME NEW e \in Range(t), Is(e) PROVE e = t[b]
    <3>1. PICK c \in DOMAIN t : e = t[c]
      BY DEF Range
    <3>2. t[c] \in Cells
      BY GoodIs
    <3>3. t[c] # Empty /\ t[c] # Deleted
      BY <2>4, <3>1, CellsDiffer
    <3>4. c \in Entries(t)
      BY <3>2, <3>3 DEF Cells, Entries
    <3>5. t[c][1] = t[b][1]
      BY <2>4, <3>1
    <3>6. c = b
      BY <3>4, <3>5 DEF Good, Sound, KeysApart
    <3> QED BY <3>1, <3>6
  <2> HIDE DEF Is
  <2>5. (CHOOSE e \in Range(t) : Is(e)) = t[b]
    BY <2>3, <2>4
  <2> QED BY <1>1, <2>1, <2>2, <2>5
<1>4. \A e \in Pairs(t) : Contents(h)[e[1]] = e[2]
  BY <1>3 DEF Pairs
<1>5. Contents(h) = [k \in DOMAIN Contents(h) |-> Contents(h)[k]]
  BY DEF Contents
<1>6. ASSUME NEW k PROVE HasKey(h, k) <=> k \in DOMAIN Contents(h)
  BY <1>1, <1>2 DEF HasKey, Pairs
<1> QED BY <1>1, <1>2, <1>4, <1>5, <1>6

(* Tables with the same pairs stand for the same map.                      *)
LEMMA ContentsKept ==
  ASSUME NEW g, Good(g), NEW h, Good(h), Pairs(g.table) = Pairs(h.table)
  PROVE  Contents(g) = Contents(h) /\ \A k : HasKey(g, k) <=> HasKey(h, k)
<1>1. /\ DOMAIN Contents(h) = {e[1] : e \in Pairs(h.table)}
      /\ \A e \in Pairs(h.table) : Contents(h)[e[1]] = e[2]
      /\ Contents(h) = [k \in DOMAIN Contents(h) |-> Contents(h)[k]]
      /\ \A k : HasKey(h, k) <=> k \in DOMAIN Contents(h)
  BY ContentsIs
<1>2. /\ DOMAIN Contents(g) = {e[1] : e \in Pairs(h.table)}
      /\ \A e \in Pairs(h.table) : Contents(g)[e[1]] = e[2]
      /\ Contents(g) = [k \in DOMAIN Contents(g) |-> Contents(g)[k]]
      /\ \A k : HasKey(g, k) <=> k \in DOMAIN Contents(g)
  BY ContentsIs
<1> DEFINE D == {e[1] : e \in Pairs(h.table)}
<1>3. ASSUME NEW k \in D PROVE Contents(g)[k] = Contents(h)[k]
  BY <1>1, <1>2
<1> QED BY <1>1, <1>2, <1>3

(* A table with one more pair stands for the map with it.                  *)
LEMMA ContentsGrown ==
  ASSUME NEW g, Good(g), NEW h, Good(h), NEW k \in Keys, NEW v \in Values, ~HasKey(h, k),
         Pairs(g.table) = Pairs(h.table) \cup {Entry(k, v)}
  PROVE  Contents(g) = Abstract!With(Contents(h), k, v)
<1> DEFINE f == [x \in DOMAIN Contents(h) \cup {k} |-> IF x = k THEN v ELSE Contents(h)[x]]
<1>1. /\ DOMAIN Contents(h) = {e[1] : e \in Pairs(h.table)}
      /\ \A e \in Pairs(h.table) : Contents(h)[e[1]] = e[2]
      /\ k \notin DOMAIN Contents(h)
  BY ContentsIs
<1>2. /\ DOMAIN Contents(g) = {e[1] : e \in Pairs(g.table)}
      /\ \A e \in Pairs(g.table) : Contents(g)[e[1]] = e[2]
      /\ Contents(g) = [x \in DOMAIN Contents(g) |-> Contents(g)[x]]
  BY ContentsIs
<1>3. Entry(k, v)[1] = k /\ Entry(k, v)[2] = v
  BY CellsDiffer
<1>4. DOMAIN Contents(g) = DOMAIN Contents(h) \cup {k}
  <2>1. {e[1] : e \in Pairs(h.table) \cup {Entry(k, v)}} = {e[1] : e \in Pairs(h.table)} \cup {k}
    BY <1>3
  <2> QED BY <1>1, <1>2, <2>1
<1>5. ASSUME NEW x \in DOMAIN Contents(h) \cup {k}
      PROVE  Contents(g)[x] = IF x = k THEN v ELSE Contents(h)[x]
  <2>1. CASE x = k
    BY <1>2, <1>3, <2>1
  <2>2. CASE x # k
    <3>1. PICK e \in Pairs(h.table) : x = e[1]
      BY <1>1, <2>2
    <3>2. Contents(g)[x] = e[2] /\ Contents(h)[x] = e[2]
      BY <1>1, <1>2, <3>1
    <3> QED BY <2>2, <3>2
  <2> QED BY <2>1, <2>2
<1> QED BY <1>1, <1>2, <1>4, <1>5 DEF Abstract!With

(* A table without some entries stands for the map without their keys.     *)
LEMMA ContentsErased ==
  ASSUME NEW g, Good(g), NEW h, Good(h), NEW B,
         Entries(g.table) = Entries(h.table) \ B,
         \A b \in Entries(g.table) : g.table[b] = h.table[b]
  PROVE  /\ Contents(g) = Abstract!Without(Contents(h), KeysOf(h, B))
         /\ KeysOf(h, B) \subseteq Keys
<1>1. /\ DOMAIN Contents(h) = {e[1] : e \in Pairs(h.table)}
      /\ \A e \in Pairs(h.table) : Contents(h)[e[1]] = e[2]
  BY ContentsIs
<1>2. /\ DOMAIN Contents(g) = {e[1] : e \in Pairs(g.table)}
      /\ \A e \in Pairs(g.table) : Contents(g)[e[1]] = e[2]
      /\ Contents(g) = [x \in DOMAIN Contents(g) |-> Contents(g)[x]]
  BY ContentsIs
<1>3. KeysOf(h, B) = {h.table[b][1] : b \in B \cap Entries(h.table)}
  BY GoodIs DEF KeysOf
<1>4. KeysOf(h, B) \subseteq Keys
  <2>1. \A b \in Entries(h.table) : h.table[b][1] \in Keys
    BY CellsDiffer DEF Entries
  <2> QED BY <1>3, <2>1
<1>5. DOMAIN Contents(h) = {h.table[b][1] : b \in Entries(h.table)}
  BY <1>1 DEF Pairs
<1>6. DOMAIN Contents(g) = {h.table[b][1] : b \in Entries(h.table) \ B}
  BY <1>2 DEF Pairs
<1>7. KeysApart(h.table)
  BY DEF Good, Sound
<1>8. DOMAIN Contents(g) = DOMAIN Contents(h) \ KeysOf(h, B)
  <2>1. ASSUME NEW b \in Entries(h.table) \ B PROVE h.table[b][1] \notin KeysOf(h, B)
    BY <1>3, <1>7 DEF KeysApart
  <2>2. ASSUME NEW x \in DOMAIN Contents(g) PROVE x \in DOMAIN Contents(h) \ KeysOf(h, B)
    BY <1>5, <1>6, <2>1
  <2>3. ASSUME NEW x \in DOMAIN Contents(h), x \notin KeysOf(h, B) PROVE x \in DOMAIN Contents(g)
    <3>1. PICK b \in Entries(h.table) : x = h.table[b][1]
      BY <1>5
    <3>2. b \notin B
      BY <1>3, <2>3, <3>1
    <3> QED BY <1>6, <3>1, <3>2
  <2> QED BY <2>2, <2>3
<1>9. ASSUME NEW x \in DOMAIN Contents(g) PROVE Contents(g)[x] = Contents(h)[x]
  <2>1. PICK b \in Entries(g.table) : x = g.table[b][1]
    BY <1>2 DEF Pairs
  <2>2. g.table[b] \in Pairs(g.table) /\ g.table[b] \in Pairs(h.table)
    BY DEF Pairs
  <2> QED BY <1>1, <1>2, <2>1, <2>2
<1> QED BY <1>2, <1>4, <1>8, <1>9 DEF Abstract!Without

-----------------------------------------------------------------------------
(* The first element of a sequence with the key k.                         *)
FirstOf(seq, k) == CHOOSE i \in DOMAIN seq : seq[i][1] = k /\ \A j \in 1..(i - 1) : seq[j][1] # k

(* What the first i insertions of insert(f, l) have done.                  *)
InsertedTo(h, seq, i, g) ==
    /\ Good(g) /\ DOMAIN g.table = DOMAIN h.table
    /\ g.num_elements <= h.num_elements + i
    /\ \A b \in Full(h.table) : b \in Full(g.table)
    /\ \A b \in Entries(h.table) : b \in Entries(g.table) /\ g.table[b] = h.table[b]
    /\ DOMAIN Contents(g) = DOMAIN Contents(h) \cup {seq[j][1] : j \in 1..i}
    /\ \A k \in DOMAIN Contents(g) :
          Contents(g)[k] = IF k \in DOMAIN Contents(h) THEN Contents(h)[k] ELSE seq[FirstOf(seq, k)][2]

(* One turn of the loop of insert(first, last).                            *)
LEMMA InsertStep ==
  ASSUME NEW h, Good(h), NEW seq \in Seq(Keys \X Values), h.num_elements + Len(seq) < BucketCount(h),
         NEW i \in 1..Len(seq), NEW g, InsertedTo(h, seq, i - 1, g),
         NEW f, f = InsertNoResize(g, seq[i][1], seq[i][2])
  PROVE  InsertedTo(h, seq, i, f)
<1> DEFINE k == seq[i][1]
           v == seq[i][2]
<1>1. seq[i] \in Keys \X Values /\ Len(seq) \in Nat /\ DOMAIN seq = 1..Len(seq)
  OBVIOUS
<1>2. k \in Keys /\ v \in Values
  BY <1>1
<1>3. /\ Good(g) /\ DOMAIN g.table = DOMAIN h.table
      /\ g.num_elements <= h.num_elements + (i - 1)
      /\ \A b \in Full(h.table) : b \in Full(g.table)
      /\ \A b \in Entries(h.table) : b \in Entries(g.table) /\ g.table[b] = h.table[b]
      /\ DOMAIN Contents(g) = DOMAIN Contents(h) \cup {seq[j][1] : j \in 1..(i - 1)}
      /\ \A x \in DOMAIN Contents(g) :
            Contents(g)[x] = IF x \in DOMAIN Contents(h) THEN Contents(h)[x] ELSE seq[FirstOf(seq, x)][2]
  BY DEF InsertedTo
<1>4. h.num_elements \in Nat /\ g.num_elements \in Nat /\ BucketCount(g) = BucketCount(h) /\ BucketCount(h) \in Nat
  BY <1>3, GoodIs DEF BucketCount
<1>5. g.num_elements + 1 < BucketCount(g) /\ g.num_elements + 1 <= h.num_elements + i
  BY <1>1, <1>3, <1>4
<1>6. f = InsertNoResize(g, k, v)
  OBVIOUS
<1>7. {seq[j][1] : j \in 1..i} = {seq[j][1] : j \in 1..(i - 1)} \cup {k}
  <2>1. 1..i = 1..(i - 1) \cup {i}
    BY <1>1
  <2> QED BY <2>1
<1> DEFINE First == FirstOf(seq, k)
<1>8. ASSUME \A j \in 1..(i - 1) : seq[j][1] # k PROVE First = i
  <2> DEFINE Is(a) == seq[a][1] = k /\ \A j \in 1..(a - 1) : seq[j][1] # k
  <2>1. First = CHOOSE a \in DOMAIN seq : Is(a)
    BY DEF FirstOf
  <2>2. i \in DOMAIN seq /\ Is(i)
    BY <1>1, <1>8
  <2>3. ASSUME NEW a \in DOMAIN seq, Is(a) PROVE a = i
    <3>1. ~(a < i)
      <4>1. a < i => a \in 1..(i - 1)
        BY <1>1
      <4> QED BY <1>8, <2>3, <4>1
    <3>2. ~(i < a)
      <4>1. i < a => i \in 1..(a - 1)
        BY <1>1
      <4> QED BY <2>3, <4>1
    <3> QED BY <1>1, <3>1, <3>2
  <2> HIDE DEF Is
  <2> QED BY <2>1, <2>2, <2>3
<1> HIDE DEF k, v, First
<1>9. /\ Good(f) /\ DOMAIN f.table = DOMAIN g.table
      /\ f.num_elements <= g.num_elements + 1 /\ f.use_deleted = g.use_deleted
      /\ \A b \in Full(g.table) : b \in Full(f.table)
      /\ \A b \in Entries(g.table) : b \in Entries(f.table) /\ f.table[b] = g.table[b]
      /\ \/ HasKey(g, k) /\ f = g
         \/ ~HasKey(g, k) /\ Pairs(f.table) = Pairs(g.table) \cup {Entry(k, v)}
  <2>1. Inserted(g, k, v, f)
    BY <1>2, <1>3, <1>5, <1>6, InsertIs
  <2> QED BY <2>1 DEF Inserted
<1>10. f.num_elements <= h.num_elements + i
  <2>1. f.num_elements \in Nat
    BY <1>9, GoodIs
  <2> QED BY <1>4, <1>5, <1>9, <2>1
<1>11. /\ \A b \in Full(h.table) : b \in Full(f.table)
       /\ \A b \in Entries(h.table) : b \in Entries(f.table) /\ f.table[b] = h.table[b]
  BY <1>3, <1>9
<1>12. CASE HasKey(g, k)
  <2>1. f = g /\ k \in DOMAIN Contents(g)
    BY <1>3, <1>9, <1>12, ContentsIs
  <2>2. DOMAIN Contents(f) = DOMAIN Contents(h) \cup {seq[j][1] : j \in 1..i}
    BY <1>3, <1>7, <2>1
  <2> QED BY <1>3, <1>9, <1>10, <1>11, <2>1, <2>2 DEF InsertedTo
<1>13. CASE ~HasKey(g, k)
  <2>0. k \notin DOMAIN Contents(g)
    BY <1>3, <1>13, ContentsIs
  <2>1. Contents(f) = Abstract!With(Contents(g), k, v)
    <3>1. Good(g) /\ Good(f) /\ ~HasKey(g, k) /\ Pairs(f.table) = Pairs(g.table) \cup {Entry(k, v)}
      BY <1>3, <1>9, <1>13
    <3> QED BY ONLY <1>2, <3>1, ContentsGrown
  <2>2. k \notin DOMAIN Contents(h) /\ \A j \in 1..(i - 1) : seq[j][1] # k
    BY <1>3, <2>0
  <2>3. First = i
    BY <1>8, <2>2
  <2>4. DOMAIN Contents(f) = DOMAIN Contents(g) \cup {k}
    BY <2>1 DEF Abstract!With
  <2>5. DOMAIN Contents(f) = DOMAIN Contents(h) \cup {seq[j][1] : j \in 1..i}
    BY <1>3, <1>7, <2>4
  <2>6. ASSUME NEW x \in DOMAIN Contents(f)
        PROVE  Contents(f)[x] = IF x \in DOMAIN Contents(h) THEN Contents(h)[x] ELSE seq[FirstOf(seq, x)][2]
    <3>1. CASE x = k
      BY <2>1, <2>2, <2>3, <2>4, <3>1 DEF First, v, Abstract!With
    <3>2. CASE x # k
      BY <1>3, <2>1, <2>4, <3>2 DEF Abstract!With
    <3> QED BY <3>1, <3>2
  <2> QED BY <1>3, <1>9, <1>10, <1>11, <2>5, <2>6 DEF InsertedTo
<1> QED BY <1>12, <1>13

(* insert(f, l): the recursive function of the insertions.                 *)
RangeInserted(h, seq) ==
    LET after[i \in 0..Len(seq)] ==
            IF i = 0 THEN ResizeDelta(h, Len(seq))
            ELSE InsertNoResize(after[i - 1], seq[i][1], seq[i][2])
    IN after[Len(seq)]

(* All turns of it, after the table has been resized once for all.         *)
LEMMA InsertRangeIs ==
  ASSUME NEW h, Good(h), NEW seq \in Seq(Keys \X Values), NEW g, g = RangeInserted(h, seq),
         NEW r, r = ResizeDelta(h, Len(seq))
  PROVE  InsertedTo(r, seq, Len(seq), g)
<1> DEFINE N == Len(seq)
           IsRun(m, f) == f = [i \in 0..m |-> IF i = 0 THEN r
                                              ELSE InsertNoResize(f[i - 1], seq[i][1], seq[i][2])]
           after == CHOOSE f : IsRun(N, f)
<1>1. g = after[N]
  BY DEF RangeInserted
<1>2. N \in Nat
  OBVIOUS
<1>3. Good(r) /\ r.num_elements + N < BucketCount(r) /\ r.num_elements \in Nat
  <2>1. Good(r) /\ r.num_elements + Len(seq) < BucketCount(r)
    BY <1>2, ResizeDeltaIs
  <2> QED BY <2>1, GoodIs
<1> HIDE DEF N
<1>4. InsertedTo(r, seq, 0, r)
  <2>1. {seq[j][1] : j \in 1..0} = {}
    OBVIOUS
  <2>2. DOMAIN Contents(r) = DOMAIN Contents(r) \cup {seq[j][1] : j \in 1..0}
    BY <2>1
  <2>3. r.num_elements <= r.num_elements + 0
    BY <1>3
  <2> QED BY <1>3, <2>2, <2>3 DEF InsertedTo
<1>5. \A m \in Nat : \E f : IsRun(m, f)
  <2> DEFINE T == {m \in Nat : ~ \E f : IsRun(m, f)}
  <2> SUFFICES ASSUME T # {} PROVE FALSE
    OBVIOUS
  <2>1. PICK m \in T : \A j \in T : m <= j
    BY LeastElement
  <2>2. m # 0
    <3> DEFINE f == [i \in 0..0 |-> r]
    <3>1. f = [i \in 0..0 |-> IF i = 0 THEN r ELSE InsertNoResize(f[i - 1], seq[i][1], seq[i][2])]
      <4>1. \A i \in 0..0 : i = 0
        OBVIOUS
      <4> QED BY <4>1
    <3> HIDE DEF f
    <3>2. IsRun(0, f)
      BY <3>1
    <3> HIDE DEF IsRun
    <3> QED BY <2>1, <3>2
  <2>3. m - 1 \in Nat /\ \E f : IsRun(m - 1, f)
    <3> HIDE DEF IsRun
    <3> QED BY <2>1, <2>2
  <2>4. PICK g0 : IsRun(m - 1, g0)
    BY <2>3
  <2> DEFINE last == InsertNoResize(g0[m - 1], seq[m][1], seq[m][2])
             f == [i \in 0..m |-> IF i = m THEN last ELSE g0[i]]
  <2>5. \A i \in 0..(m - 1) : g0[i] = IF i = 0 THEN r ELSE InsertNoResize(g0[i - 1], seq[i][1], seq[i][2])
    BY <2>4
  <2>6. f = [i \in 0..m |-> IF i = 0 THEN r ELSE InsertNoResize(f[i - 1], seq[i][1], seq[i][2])]
    <3> SUFFICES ASSUME NEW i \in 0..m
                 PROVE  f[i] = IF i = 0 THEN r ELSE InsertNoResize(f[i - 1], seq[i][1], seq[i][2])
      OBVIOUS
    <3>1. CASE i = m
      <4>1. f[i] = last /\ m - 1 \in 0..m /\ m - 1 # m /\ i # 0
        BY <2>2, <2>3, <3>1
      <4>2. f[i - 1] = g0[m - 1]
        BY <3>1, <4>1
      <4> QED BY <3>1, <4>1, <4>2
    <3>2. CASE i # m
      <4>1. i \in 0..(m - 1) /\ f[i] = g0[i]
        BY <2>3, <3>2
      <4>2. i # 0 => i - 1 \in 0..m /\ i - 1 # m /\ f[i - 1] = g0[i - 1]
        BY <2>3, <4>1
      <4> HIDE DEF f
      <4> QED BY <2>5, <4>1, <4>2
    <3> QED BY <3>1, <3>2
  <2> HIDE DEF f
  <2>7. IsRun(m, f)
    BY <2>6
  <2> HIDE DEF IsRun
  <2> QED BY <2>1, <2>7
<1>6. IsRun(N, after)
  <2> HIDE DEF IsRun
  <2> QED BY <1>2, <1>5
<1> HIDE DEF after
<1>7. /\ after[0] = r
      /\ \A i \in 1..N : after[i] = InsertNoResize(after[i - 1], seq[i][1], seq[i][2])
  BY <1>2, <1>6
<1> HIDE DEF IsRun
<1>8. \A i \in 0..N : InsertedTo(r, seq, i, after[i])
  <2> DEFINE T == {i \in 0..N : ~InsertedTo(r, seq, i, after[i])}
  <2> SUFFICES ASSUME T # {} PROVE FALSE
    OBVIOUS
  <2>1. T \subseteq Nat
    BY <1>2
  <2>2. PICK i \in T : \A j \in T : i <= j
    BY <2>1, LeastElement
  <2>3. i # 0
    BY <1>4, <1>7, <2>2
  <2>4. i \in 1..N /\ i - 1 \in 0..N /\ i - 1 \notin T
    BY <1>2, <2>2, <2>3
  <2>5. InsertedTo(r, seq, i - 1, after[i - 1])
    BY <2>4
  <2>6. after[i] = InsertNoResize(after[i - 1], seq[i][1], seq[i][2])
    BY <1>7, <2>4
  <2>7. InsertedTo(r, seq, i, after[i])
    BY <1>3, <2>4, <2>5, <2>6, InsertStep DEF N
  <2> QED BY <2>2, <2>7
<1> QED BY <1>1, <1>2, <1>8 DEF N

-----------------------------------------------------------------------------
(* A walk: its iterator is at an element or at a bucket just erased, and   *)
(* what is due lies at it or ahead of it.                                  *)
Walk(h, a, d) ==
    a # -1 => /\ a \in 0..BucketCount(h)
              /\ a < BucketCount(h) => h.table[a] # Empty
              /\ \A k \in d : \E b \in Entries(h.table) : h.table[b][1] = k /\ b >= a

(* The inductive invariant.                                                *)
IInv == Good(ht) /\ Walk(ht, at, due)

(* A change of the table that a walk does not notice.                      *)
Unnoticed(h, g) ==
    /\ DOMAIN g.table = DOMAIN h.table
    /\ \A b \in Full(h.table) : b \in Full(g.table)
    /\ \A b \in Entries(h.table) : b \in Entries(g.table) /\ g.table[b][1] = h.table[b][1]

(* Such a change keeps what is known of the walk.                          *)
LEMMA WalkKept ==
  ASSUME NEW h, Good(h), NEW g, NEW a, NEW d, Walk(h, a, d), Unnoticed(h, g)
  PROVE  Walk(g, a, d)
<1> SUFFICES ASSUME a # -1 PROVE Walk(g, a, d)
  BY DEF Walk
<1>1. BucketCount(g) = BucketCount(h) /\ DOMAIN h.table = 0..(BucketCount(h) - 1) /\ BucketCount(h) \in Nat
  BY GoodIs DEF BucketCount, Unnoticed
<1>2. a \in 0..BucketCount(h)
  BY DEF Walk
<1>3. ASSUME a < BucketCount(g) PROVE g.table[a] # Empty
  <2>1. a \in Full(h.table)
    BY <1>1, <1>2, <1>3 DEF Walk, Full
  <2> QED BY <2>1 DEF Unnoticed, Full
<1>4. ASSUME NEW k \in d PROVE \E b \in Entries(g.table) : g.table[b][1] = k /\ b >= a
  <2>1. PICK b \in Entries(h.table) : h.table[b][1] = k /\ b >= a
    BY DEF Walk
  <2> QED BY <2>1 DEF Unnoticed
<1> QED BY <1>1, <1>2, <1>3, <1>4 DEF Walk

(* Nothing is noticed if the table is the same.                            *)
LEMMA SameTable ==
  ASSUME NEW h, NEW g, g.table = h.table
  PROVE  Unnoticed(h, g)
BY DEF Unnoticed

(* An iterator is given up or goes on over a change it does not notice.    *)
LEMMA WalkEnds ==
  ASSUME IInv, NEW e, EndsWalk(e), ~e => Unnoticed(ht, ht')
  PROVE  Walk(ht', at', due')
<1>1. CASE e
  BY <1>1 DEF EndsWalk, Walk
<1>2. CASE ~e
  <2>1. at' = at /\ due' = due
    BY <1>2 DEF EndsWalk
  <2>2. Walk(ht', at, due)
    BY <1>2, WalkKept DEF IInv
  <2> QED BY <2>1, <2>2
<1> QED BY <1>1, <1>2

(* A call that leaves the elements alone.                                  *)
LEMMA OtherIs ==
  ASSUME IInv, Good(ht'), Pairs(ht'.table) = Pairs(ht.table), result' = "none"
  PROVE  Abstract!Next
<1>1. Contents(ht') = Contents(ht)
  BY ContentsKept DEF IInv
<1>2. Abstract!Other
  BY <1>1 DEF Abstract!Other
<1> QED BY <1>2 DEF Abstract!Next

(* Each action keeps the invariant and is a step of the abstract map.      *)
(* insert:                                                                 *)
LEMMA InsertHolds ==
  ASSUME IInv, NEW e \in Elements, Insert(e[1], e[2])
  PROVE  Good(ht') /\ Walk(ht', at', due') /\ Abstract!Next
<1> DEFINE h == ResizeDelta(ht, 1)
           k == e[1]
           v == e[2]
<1>1. k \in Keys /\ v \in Values
  BY HashAssumption
<1>2. /\ Good(h) /\ Pairs(h.table) = Pairs(ht.table) /\ h.num_elements + 1 < BucketCount(h)
      /\ ~Copies(ht, 1) => h.table = ht.table
  BY ResizeDeltaIs DEF IInv
<1>3. ht' = InsertNoResize(h, k, v) /\ result' = Yes(FindPosition(h, k)[1] = -1) /\ EndsWalk(Copies(ht, 1))
  BY DEF Insert
<1> HIDE DEF h, k, v
<1>4. Inserted(h, k, v, ht')
  BY <1>1, <1>2, <1>3, InsertIs
<1>5. Good(ht') /\ Unnoticed(h, ht')
  BY <1>4 DEF Inserted, Unnoticed
<1>6. ~Copies(ht, 1) => Unnoticed(ht, ht')
  BY <1>2, <1>5 DEF Unnoticed
<1>7. Walk(ht', at', due')
  BY <1>3, <1>6, WalkEnds
<1>8. Good(ht) /\ Contents(h) = Contents(ht) /\ (HasKey(h, k) <=> k \in DOMAIN Contents(ht))
  BY <1>2, ContentsKept, ContentsIs DEF IInv
<1>9. Abstract!Insert(k, v)
  <2>1. CASE HasKey(h, k)
    <3>1. ht' = h /\ FindPosition(h, k)[1] # -1
      BY <1>4, <2>1 DEF Inserted
    <3>2. Abstract!Has(k) /\ Contents(ht') = Contents(ht) /\ result' = "no"
      BY <1>3, <1>8, <2>1, <3>1 DEF Abstract!Has, Yes
    <3> QED BY <3>2 DEF Abstract!Insert, Abstract!Yes
  <2>2. CASE ~HasKey(h, k)
    <3>1. Pairs(ht'.table) = Pairs(h.table) \cup {Entry(k, v)} /\ FindPosition(h, k)[1] = -1
      BY <1>4, <2>2 DEF Inserted
    <3>2. Contents(ht') = Abstract!With(Contents(h), k, v)
      BY <1>1, <1>2, <1>5, <2>2, <3>1, ContentsGrown
    <3>3. ~Abstract!Has(k) /\ result' = "yes"
      BY <1>3, <1>8, <2>2, <3>1 DEF Abstract!Has, Yes
    <3> QED BY <1>8, <3>2, <3>3 DEF Abstract!Insert, Abstract!Yes
  <2> QED BY <2>1, <2>2
<1>10. Abstract!Next
  BY <1>9 DEF Abstract!Next, k, v
<1> QED BY <1>5, <1>7, <1>10

-----------------------------------------------------------------------------
(* A table with another value for a key stands for the map with it.        *)
LEMMA ContentsReplaced ==
  ASSUME NEW g, Good(g), NEW h, Good(h), NEW p \in Entries(h.table), NEW v \in Values,
         Entries(g.table) = Entries(h.table),
         \A b \in Entries(h.table) :
            g.table[b] = IF b = p THEN Entry(h.table[p][1], v) ELSE h.table[b]
  PROVE  Contents(g) = Abstract!With(Contents(h), h.table[p][1], v)
<1> DEFINE k == h.table[p][1]
<1>1. /\ DOMAIN Contents(h) = {e[1] : e \in Pairs(h.table)}
      /\ \A e \in Pairs(h.table) : Contents(h)[e[1]] = e[2]
  BY ContentsIs
<1>2. /\ DOMAIN Contents(g) = {e[1] : e \in Pairs(g.table)}
      /\ \A e \in Pairs(g.table) : Contents(g)[e[1]] = e[2]
      /\ Contents(g) = [x \in DOMAIN Contents(g) |-> Contents(g)[x]]
  BY ContentsIs
<1>3. k \in Keys /\ Entry(k, v)[1] = k /\ Entry(k, v)[2] = v
  <2>1. k \in Keys
    BY CellsDiffer DEF Entries
  <2> QED BY <2>1, CellsDiffer
<1>4. \A b \in Entries(h.table) : g.table[b][1] = h.table[b][1]
  BY <1>3
<1>5. DOMAIN Contents(h) = {h.table[b][1] : b \in Entries(h.table)}
  BY <1>1 DEF Pairs
<1>6. DOMAIN Contents(g) = {g.table[b][1] : b \in Entries(h.table)}
  BY <1>2 DEF Pairs
<1>7. DOMAIN Contents(g) = DOMAIN Contents(h) /\ k \in DOMAIN Contents(h)
  BY <1>4, <1>5, <1>6
<1>8. ASSUME NEW x \in DOMAIN Contents(g)
      PROVE  Contents(g)[x] = IF x = k THEN v ELSE Contents(h)[x]
  <2>1. PICK b \in Entries(h.table) : x = h.table[b][1]
    BY <1>5, <1>7
  <2>2. g.table[b] \in Pairs(g.table) /\ h.table[b] \in Pairs(h.table)
    BY DEF Pairs
  <2>3. Contents(g)[x] = g.table[b][2] /\ Contents(h)[x] = h.table[b][2]
    BY <1>1, <1>2, <1>4, <2>1, <2>2
  <2>4. CASE b = p
    BY <1>3, <2>1, <2>3, <2>4
  <2>5. CASE b # p
    <3>1. x # k
      BY <2>1, <2>5 DEF Good, Sound, KeysApart
    <3> QED BY <2>3, <2>5, <3>1
  <2> QED BY <2>4, <2>5
<1> HIDE DEF k
<1>9. DOMAIN Contents(h) \cup {k} = DOMAIN Contents(g)
  BY <1>7
<1> QED BY <1>2, <1>8, <1>9 DEF Abstract!With, k

(* operator[] and an assignment to what it returns.                        *)
LEMMA AssignHolds ==
  ASSUME IInv, NEW e \in Elements, Assign(e[1], e[2])
  PROVE  Good(ht') /\ Walk(ht', at', due') /\ Abstract!Next
<1> DEFINE h == ResizeDelta(ht, 1)
           k == e[1]
           v == e[2]
           p == Found(ht, k)
<1>1. k \in Keys /\ v \in Values /\ Good(ht)
  BY HashAssumption DEF IInv
<1>2. Abstract!Assign(k, v) => Abstract!Next
  BY DEF Abstract!Next
<1>3. result' = v
  BY DEF Assign
<1>4. CASE p # -1
  <2>1. p \in Entries(ht.table) /\ ht.table[p][1] = k
    BY <1>1, <1>4, FoundIs
  <2>2. ht' = [ht EXCEPT !.table[p] = Entry(k, v)] /\ EndsWalk(FALSE)
    BY <1>4 DEF Assign
  <2> DEFINE u == [ht.table EXCEPT ![p] = Entry(k, v)]
  <2>3. /\ Sound(u) /\ DOMAIN u = DOMAIN ht.table
        /\ Entries(u) = Entries(ht.table) /\ Full(u) = Full(ht.table) /\ Marks(u) = Marks(ht.table)
        /\ \A b \in Entries(ht.table) : u[b] = IF b = p THEN Entry(ht.table[p][1], v) ELSE ht.table[b]
        /\ \A b \in Entries(ht.table) : u[b][1] = ht.table[b][1]
    <3>1. u = Replaced(ht.table, p, v) /\ Sound(ht.table)
      BY <1>1, <2>1 DEF Good, Replaced
    <3> HIDE DEF u, p, k, v
    <3> QED BY <1>1, <2>1, <3>1, ReplaceIs
  <2> HIDE DEF p
  <2>4. ht' = [table |-> u, num_deleted |-> ht.num_deleted, num_elements |-> ht.num_elements,
               use_deleted |-> ht.use_deleted, consider_shrink |-> ht.consider_shrink]
    BY <1>1, <2>2 DEF Good, Members
  <2> HIDE DEF u
  <2>5. /\ ht'.table = u /\ ht'.num_deleted = ht.num_deleted /\ ht'.num_elements = ht.num_elements
        /\ ht'.use_deleted = ht.use_deleted
    BY <2>4
  <2>6. ht'.consider_shrink = ht.consider_shrink
    BY <2>4
  <2>7. Members(ht')
    BY <2>4, <2>5, <2>6 DEF Members
  <2>8. BucketCount(ht') = BucketCount(ht)
    BY <2>3, <2>5 DEF BucketCount
  <2>9. Good(ht')
    BY <1>1, <2>3, <2>5, <2>7, <2>8 DEF Good
  <2>10. Unnoticed(ht, ht')
    BY <2>3, <2>5 DEF Unnoticed
  <2>11. Walk(ht', at', due')
    BY <2>2, <2>10, WalkEnds
  <2>12. Contents(ht') = Abstract!With(Contents(ht), k, v)
    BY <1>1, <2>1, <2>3, <2>5, <2>9, ContentsReplaced
  <2> QED BY <1>2, <1>3, <2>9, <2>11, <2>12 DEF Abstract!Assign
<1>5. CASE p = -1
  <2>1. ht' = InsertNoResize(h, k, v) /\ EndsWalk(Copies(ht, 1))
    BY <1>5 DEF Assign
  <2>2. /\ Good(h) /\ Pairs(h.table) = Pairs(ht.table) /\ h.num_elements + 1 < BucketCount(h)
        /\ ~Copies(ht, 1) => h.table = ht.table
    BY <1>1, ResizeDeltaIs
  <2>3. ~HasKey(ht, k)
    <3>1. FindsRoom(ht, k)
      BY <1>1, <1>5, FoundIs
    <3> QED BY <3>1 DEF FindsRoom, HasKey
  <2> HIDE DEF h, k, v, p
  <2>4. ~HasKey(h, k) /\ Contents(h) = Contents(ht)
    BY <1>1, <2>2, <2>3, ContentsKept
  <2>5. Inserted(h, k, v, ht')
    BY <1>1, <2>1, <2>2, InsertIs
  <2>6. Good(ht') /\ Unnoticed(h, ht') /\ Pairs(ht'.table) = Pairs(h.table) \cup {Entry(k, v)}
    BY <2>4, <2>5 DEF Inserted, Unnoticed
  <2>7. ~Copies(ht, 1) => Unnoticed(ht, ht')
    BY <2>2, <2>6 DEF Unnoticed
  <2>8. Walk(ht', at', due')
    BY <2>1, <2>7, WalkEnds
  <2>9. Contents(ht') = Abstract!With(Contents(h), k, v)
    BY <1>1, <2>2, <2>4, <2>6, ContentsGrown
  <2> QED BY <1>2, <1>3, <2>4, <2>6, <2>8, <2>9 DEF Abstract!Assign
<1> QED BY <1>4, <1>5

(* insert(first, last).                                                    *)
LEMMA InsertRangeHolds ==
  ASSUME IInv, NEW seq \in Ranges, InsertRange(seq)
  PROVE  Good(ht') /\ Walk(ht', at', due') /\ Abstract!Next
<1> DEFINE r == ResizeDelta(ht, Len(seq))
<1>1. seq \in Seq(Keys \X Values) /\ Len(seq) \in Nat /\ DOMAIN seq = 1..Len(seq)
  <2>1. seq \in Seq(Elements)
    BY HashAssumption
  <2> QED BY <2>1, HashAssumption
<1>2. ht' = RangeInserted(ht, seq) /\ result' = "none" /\ EndsWalk(Copies(ht, Len(seq)))
  BY DEF InsertRange, RangeInserted
<1>3. /\ Good(r) /\ Pairs(r.table) = Pairs(ht.table) /\ Good(ht)
      /\ ~Copies(ht, Len(seq)) => r.table = ht.table
  BY <1>1, ResizeDeltaIs DEF IInv
<1>4. InsertedTo(r, seq, Len(seq), ht')
  BY <1>1, <1>2, <1>3, InsertRangeIs
<1> HIDE DEF r
<1>5. Good(ht') /\ Unnoticed(r, ht')
  BY <1>4 DEF InsertedTo, Unnoticed
<1>6. ~Copies(ht, Len(seq)) => Unnoticed(ht, ht')
  BY <1>3, <1>5 DEF Unnoticed
<1>7. Walk(ht', at', due')
  BY <1>2, <1>6, WalkEnds
<1>8. Contents(r) = Contents(ht)
  BY <1>3, ContentsKept
<1> DEFINE map == Contents(ht)
           new == {seq[i][1] : i \in DOMAIN seq} \ DOMAIN map
<1>9. /\ DOMAIN Contents(ht') = DOMAIN map \cup new
      /\ \A k \in DOMAIN map \cup new :
            Contents(ht')[k] = IF k \in new THEN seq[FirstOf(seq, k)][2] ELSE map[k]
      /\ Contents(ht') = [k \in DOMAIN Contents(ht') |-> Contents(ht')[k]]
  <2>1. /\ DOMAIN Contents(ht') = DOMAIN map \cup {seq[j][1] : j \in DOMAIN seq}
        /\ \A k \in DOMAIN Contents(ht') :
              Contents(ht')[k] = IF k \in DOMAIN map THEN map[k] ELSE seq[FirstOf(seq, k)][2]
    BY <1>1, <1>4, <1>8 DEF InsertedTo
  <2>2. Contents(ht') = [k \in DOMAIN Contents(ht') |-> Contents(ht')[k]]
    BY <1>5, ContentsIs
  <2> HIDE DEF map
  <2> QED BY <2>1, <2>2
<1>10. Contents(ht') = [k \in DOMAIN map \cup new |-> IF k \in new THEN seq[FirstOf(seq, k)][2] ELSE map[k]]
  <2> HIDE DEF map, new
  <2> QED BY <1>9
<1>11. Abstract!InsertRange(seq)
  BY <1>2, <1>10 DEF Abstract!InsertRange, FirstOf
<1>12. Abstract!Next
  BY <1>11 DEF Abstract!Next
<1> QED BY <1>5, <1>7, <1>12

-----------------------------------------------------------------------------
(* find.                                                                   *)
LEMMA FindHolds ==
  ASSUME IInv, NEW k \in Keys, Find(k)
  PROVE  Good(ht') /\ Walk(ht', at', due') /\ Abstract!Next
<1>1. ht' = ht /\ at' = at /\ due' = due /\ Good(ht) /\ Walk(ht, at, due)
      /\ result' = IF Found(ht, k) = -1 THEN "end" ELSE ht.table[Found(ht, k)][2]
  BY DEF Find, IInv
<1>2. Good(ht') /\ Walk(ht', at', due') /\ Contents(ht') = Contents(ht)
  BY <1>1
<1>3. CASE Found(ht, k) # -1
  <2> DEFINE p == Found(ht, k)
  <2>1. p \in Entries(ht.table) /\ ht.table[p][1] = k
    BY <1>1, <1>3, FoundIs
  <2> HIDE DEF p
  <2>2. ht.table[p] \in Pairs(ht.table)
    BY <2>1 DEF Pairs
  <2>3. Contents(ht)[k] = ht.table[p][2] /\ k \in DOMAIN Contents(ht)
    BY <1>1, <2>1, <2>2, ContentsIs
  <2>4. Abstract!Find(k)
    BY <1>1, <1>2, <1>3, <2>3 DEF Abstract!Find, Abstract!Has, p
  <2> QED BY <1>2, <2>4 DEF Abstract!Next
<1>4. CASE Found(ht, k) = -1
  <2>1. ~HasKey(ht, k)
    <3>1. FindsRoom(ht, k)
      BY <1>1, <1>4, FoundIs
    <3> QED BY <3>1 DEF FindsRoom, HasKey
  <2>2. k \notin DOMAIN Contents(ht)
    BY <1>1, <2>1, ContentsIs
  <2>3. Abstract!Find(k)
    BY <1>1, <1>2, <1>4, <2>2 DEF Abstract!Find, Abstract!Has
  <2> QED BY <1>2, <2>3 DEF Abstract!Next
<1> QED BY <1>3, <1>4

(* A walk goes on over buckets that are marked.                            *)
LEMMA WalkErased ==
  ASSUME NEW h, Good(h), NEW g, NEW a, NEW d, Walk(h, a, d), NEW B, NEW d2,
         DOMAIN g.table = DOMAIN h.table, Full(g.table) = Full(h.table),
         Entries(g.table) = Entries(h.table) \ B,
         \A b \in Entries(g.table) : g.table[b] = h.table[b],
         d2 = d \ KeysOf(h, B)
  PROVE  Walk(g, a, d2)
<1> SUFFICES ASSUME a # -1 PROVE Walk(g, a, d2)
  BY DEF Walk
<1>1. BucketCount(g) = BucketCount(h) /\ DOMAIN h.table = 0..(BucketCount(h) - 1) /\ BucketCount(h) \in Nat
      /\ Live(h) = Entries(h.table)
  BY GoodIs DEF BucketCount
<1>2. a \in 0..BucketCount(h)
  BY DEF Walk
<1>3. ASSUME a < BucketCount(g) PROVE g.table[a] # Empty
  <2>1. a \in Full(h.table)
    BY <1>1, <1>2, <1>3 DEF Walk, Full
  <2>2. a \in Full(g.table)
    BY <2>1
  <2> QED BY <2>2 DEF Full
<1>4. ASSUME NEW k \in d2 PROVE \E b \in Entries(g.table) : g.table[b][1] = k /\ b >= a
  <2>1. k \in d /\ k \notin KeysOf(h, B)
    BY <1>4
  <2>2. PICK b \in Entries(h.table) : h.table[b][1] = k /\ b >= a
    BY <2>1 DEF Walk
  <2>3. b \notin B
    BY <1>1, <2>1, <2>2 DEF KeysOf
  <2>4. b \in Entries(g.table) /\ g.table[b][1] = k
    BY <2>2, <2>3
  <2> QED BY <2>2, <2>4
<1> QED BY <1>1, <1>2, <1>3, <1>4 DEF Walk

(* What erase does, whichever entries it takes.                            *)
LEMMA ErasedHolds ==
  ASSUME IInv, ht.use_deleted, NEW B, B \subseteq Full(ht.table), ht' = Erased(ht, B)
  PROVE  /\ Good(ht') /\ Contents(ht') = Abstract!Without(Contents(ht), KeysOf(ht, B))
         /\ KeysOf(ht, B) \subseteq Keys
         /\ \A d : d = due \ KeysOf(ht, B) => Walk(ht', at, d)
<1>1. Good(ht) /\ Walk(ht, at, due)
  BY DEF IInv
<1>2. /\ Good(ht') /\ DOMAIN ht'.table = DOMAIN ht.table /\ Full(ht'.table) = Full(ht.table)
      /\ Entries(ht'.table) = Entries(ht.table) \ B
      /\ \A b \in Entries(ht'.table) : ht'.table[b] = ht.table[b]
  BY <1>1, ErasedIs
<1>3. Contents(ht') = Abstract!Without(Contents(ht), KeysOf(ht, B)) /\ KeysOf(ht, B) \subseteq Keys
  BY <1>1, <1>2, ContentsErased
<1>4. ASSUME NEW d, d = due \ KeysOf(ht, B) PROVE Walk(ht', at, d)
  BY <1>1, <1>2, <1>4, WalkErased
<1> QED BY <1>2, <1>3, <1>4

(* erase(key).                                                             *)
LEMMA EraseKeyHolds ==
  ASSUME IInv, NEW k \in Keys, EraseKey(k)
  PROVE  Good(ht') /\ Walk(ht', at', due') /\ Abstract!Next
<1> DEFINE p == Found(ht, k)
<1>1. /\ ht.use_deleted /\ result' = Yes(p # -1) /\ due' = due \ {k} /\ at' = at
      /\ ht' = IF p = -1 THEN ht ELSE Erased(ht, {p})
  BY DEF EraseKey
<1>2. Good(ht) /\ Walk(ht, at, due)
  BY DEF IInv
<1>3. Abstract!EraseKey(k) => Abstract!Next
  BY DEF Abstract!Next
<1>4. CASE p # -1
  <2>1. p \in Entries(ht.table) /\ ht.table[p][1] = k
    BY <1>2, <1>4, FoundIs
  <2> HIDE DEF p
  <2>2. {p} \subseteq Full(ht.table)
    BY <2>1, CellsDiffer DEF Entries, Full
  <2>3. KeysOf(ht, {p}) = {k}
    <3>1. Live(ht) = Entries(ht.table)
      BY <1>2, GoodIs
    <3> QED BY <2>1, <3>1 DEF KeysOf
  <2>4. /\ Good(ht') /\ Contents(ht') = Abstract!Without(Contents(ht), {k})
        /\ Walk(ht', at, due \ {k})
    BY <1>1, <1>4, <2>2, <2>3, ErasedHolds
  <2>5. k \in DOMAIN Contents(ht)
    <3>1. HasKey(ht, k)
      BY <2>1 DEF HasKey
    <3> QED BY <1>2, <3>1, ContentsIs
  <2>6. Abstract!EraseKey(k)
    BY <1>1, <1>4, <2>4, <2>5 DEF Abstract!EraseKey, Abstract!Has, Abstract!Yes, Yes
  <2> QED BY <1>1, <1>3, <2>4, <2>6
<1>5. CASE p = -1
  <2>1. ~HasKey(ht, k)
    <3>1. FindsRoom(ht, k)
      BY <1>2, <1>5, FoundIs
    <3> QED BY <3>1 DEF FindsRoom, HasKey
  <2>2. k \notin DOMAIN Contents(ht) /\ Contents(ht) = [x \in DOMAIN Contents(ht) |-> Contents(ht)[x]]
    BY <1>2, <2>1, ContentsIs
  <2>3. Abstract!Without(Contents(ht), {k}) = Contents(ht)
    <3>1. DOMAIN Contents(ht) \ {k} = DOMAIN Contents(ht)
      BY <2>2
    <3> QED BY <2>2, <3>1 DEF Abstract!Without
  <2>4. ht' = ht /\ result' = "no"
    BY <1>1, <1>5 DEF Yes
  <2>5. Abstract!EraseKey(k)
    BY <2>2, <2>3, <2>4 DEF Abstract!EraseKey, Abstract!Has, Abstract!Yes
  <2>6. Walk(ht', at', due')
    BY <1>1, <1>2, <2>4 DEF Walk
  <2> QED BY <1>2, <1>3, <2>4, <2>5, <2>6
<1> QED BY <1>4, <1>5

(* To erase is a step of the abstract map.                                 *)
LEMMA EraseIsNext ==
  ASSUME NEW K, K \subseteq Keys, Contents(ht') = Abstract!Without(Contents(ht), K), result' = "none"
  PROVE  Abstract!Next
<1>1. K \in SUBSET Keys /\ Abstract!Erase(K)
  BY DEF Abstract!Erase
<1> QED BY <1>1 DEF Abstract!Next

(* erase(pos).                                                             *)
LEMMA EraseAtHolds ==
  ASSUME IInv, EraseAt
  PROVE  Good(ht') /\ Walk(ht', at', due') /\ Abstract!Next
<1>1. /\ Walking /\ ht.use_deleted /\ ht' = Erased(ht, {at}) /\ result' = "none"
      /\ due' = due \ KeysOf(ht, {at}) /\ at' = at
  BY DEF EraseAt
<1>2. {at} \subseteq Full(ht.table)
  BY <1>1, GoodIs DEF IInv, Walk, Walking, Full
<1>3. /\ Good(ht') /\ Contents(ht') = Abstract!Without(Contents(ht), KeysOf(ht, {at}))
      /\ KeysOf(ht, {at}) \subseteq Keys
      /\ Walk(ht', at, due \ KeysOf(ht, {at}))
  BY <1>1, <1>2, ErasedHolds
<1> QED BY <1>1, <1>3, EraseIsNext

(* erase(first, last) with end() as the last.                              *)
LEMMA EraseRestHolds ==
  ASSUME IInv, EraseRest
  PROVE  Good(ht') /\ Walk(ht', at', due') /\ Abstract!Next
<1> DEFINE rest == {at} \cup {b \in Live(ht) : b > at}
<1>1. /\ Walking /\ ht.use_deleted /\ ht' = Erased(ht, rest) /\ result' = "none" /\ at' = -1
  BY DEF EraseRest
<1>2. rest \subseteq Full(ht.table)
  <2>1. at \in Full(ht.table)
    BY <1>1, GoodIs DEF IInv, Walk, Walking, Full
  <2>2. Live(ht) \subseteq Full(ht.table)
    BY DEF Live, TestEmpty, Full
  <2> QED BY <2>1, <2>2
<1> HIDE DEF rest
<1>3. /\ Good(ht') /\ Contents(ht') = Abstract!Without(Contents(ht), KeysOf(ht, rest))
      /\ KeysOf(ht, rest) \subseteq Keys
  BY <1>1, <1>2, ErasedHolds
<1>4. Walk(ht', at', due')
  BY <1>1 DEF Walk
<1> QED BY <1>1, <1>3, <1>4, EraseIsNext

(* advance_past_empty_and_deleted comes to the next element or to the end. *)
LEMMA AdvancedIs ==
  ASSUME NEW h, Good(h), NEW from \in Nat, NEW a, a = Advanced(h, from)
  PROVE  /\ a \in 0..BucketCount(h)
         /\ a < BucketCount(h) => h.table[a] # Empty
         /\ \A b \in Entries(h.table) : b >= from => b >= a
<1> DEFINE ahead == {b \in Live(h) : b >= from}
<1>1. /\ Live(h) = Entries(h.table) /\ DOMAIN h.table = 0..(BucketCount(h) - 1) /\ BucketCount(h) \in Nat
      /\ Entries(h.table) \subseteq DOMAIN h.table
  BY GoodIs DEF Entries
<1>2. a = IF ahead = {} THEN BucketCount(h) ELSE FirstSuch(ahead)
  BY DEF Advanced
<1>3. CASE ahead = {}
  <2>1. a = BucketCount(h) /\ \A b \in Entries(h.table) : ~(b >= from)
    BY <1>1, <1>2, <1>3
  <2> QED BY <1>1, <2>1
<1>4. CASE ahead # {}
  <2>1. ahead \subseteq Nat /\ ahead \subseteq 0..(BucketCount(h) - 1)
    BY <1>1
  <2>2. a \in ahead /\ \A b \in ahead : a <= b
    BY <1>2, <1>4, <2>1, FirstSuchIs
  <2>3. a \in Entries(h.table)
    BY <1>1, <2>2
  <2>4. h.table[a] # Empty
    BY <2>3, CellsDiffer DEF Entries
  <2>5. \A b \in Entries(h.table) : b >= from => b >= a
    BY <1>1, <2>1, <2>2
  <2> QED BY <1>1, <2>1, <2>2, <2>4, <2>5
<1> QED BY <1>3, <1>4

(* begin().                                                                *)
LEMMA BeginHolds ==
  ASSUME IInv, Begin
  PROVE  Good(ht') /\ Walk(ht', at', due') /\ Abstract!Next
<1>1. ht' = ht /\ result' = "none" /\ at' = Advanced(ht, 0) /\ due' = KeysOf(ht, DOMAIN ht.table) /\ Good(ht)
  BY DEF Begin, GoTo, IInv
<1>2. /\ at' \in 0..BucketCount(ht)
      /\ at' < BucketCount(ht) => ht.table[at'] # Empty
      /\ \A b \in Entries(ht.table) : b >= 0 => b >= at'
  BY <1>1, AdvancedIs
<1>3. Entries(ht.table) \subseteq Nat /\ Live(ht) = Entries(ht.table)
  <2>1. DOMAIN ht.table = 0..(BucketCount(ht) - 1) /\ Live(ht) = Entries(ht.table) /\ BucketCount(ht) \in Nat
    BY <1>1, GoodIs
  <2> QED BY <2>1 DEF Entries
<1>4. ASSUME NEW k \in due' PROVE \E b \in Entries(ht.table) : ht.table[b][1] = k /\ b >= at'
  <2>1. PICK b \in Entries(ht.table) : ht.table[b][1] = k
    BY <1>1, <1>3 DEF KeysOf
  <2>2. b >= 0
    BY <1>3
  <2> QED BY <1>2, <2>1, <2>2
<1>5. Walk(ht', at', due')
  BY <1>1, <1>2, <1>4 DEF Walk
<1> QED BY <1>1, <1>5, OtherIs

(* operator++ of the iterator.                                             *)
LEMMA IncrementHolds ==
  ASSUME IInv, Increment
  PROVE  Good(ht') /\ Walk(ht', at', due') /\ Abstract!Next
<1>1. /\ ht' = ht /\ result' = "none" /\ at' = Advanced(ht, at + 1) /\ due' = due \ KeysOf(ht, {at})
      /\ Good(ht) /\ Walk(ht, at, due) /\ Walking
  BY DEF Increment, GoTo, IInv
<1>2. at \in Nat /\ at + 1 \in Nat
  BY <1>1, GoodIs DEF Walk, Walking
<1>3. /\ at' \in 0..BucketCount(ht)
      /\ at' < BucketCount(ht) => ht.table[at'] # Empty
      /\ \A b \in Entries(ht.table) : b >= at + 1 => b >= at'
  BY <1>1, <1>2, AdvancedIs
<1>4. Entries(ht.table) \subseteq Nat /\ Live(ht) = Entries(ht.table)
  <2>1. DOMAIN ht.table = 0..(BucketCount(ht) - 1) /\ Live(ht) = Entries(ht.table) /\ BucketCount(ht) \in Nat
    BY <1>1, GoodIs
  <2> QED BY <2>1 DEF Entries
<1>5. ASSUME NEW k \in due' PROVE \E b \in Entries(ht.table) : ht.table[b][1] = k /\ b >= at'
  <2>1. k \in due /\ k \notin KeysOf(ht, {at})
    BY <1>1
  <2>2. PICK b \in Entries(ht.table) : ht.table[b][1] = k /\ b >= at
    BY <1>1, <2>1 DEF Walk, Walking
  <2>3. b # at
    BY <1>4, <2>1, <2>2 DEF KeysOf
  <2>4. b >= at + 1
    BY <1>2, <1>4, <2>2, <2>3
  <2> QED BY <1>3, <2>2, <2>4
<1>6. Walk(ht', at', due')
  BY <1>1, <1>3, <1>5 DEF Walk
<1> QED BY <1>1, <1>6, OtherIs

-----------------------------------------------------------------------------
(* set_deleted_key and clear_deleted_key.                                  *)
LEMMA MarkerHolds ==
  ASSUME IInv, NEW u \in BOOLEAN, ht' = [SquashDeleted(ht) EXCEPT !.use_deleted = u],
         result' = "none", EndsWalk(ht.num_deleted > 0)
  PROVE  Good(ht') /\ Walk(ht', at', due') /\ Abstract!Next
<1> DEFINE g == SquashDeleted(ht)
<1>1. /\ Good(g) /\ Pairs(g.table) = Pairs(ht.table) /\ g.num_deleted = 0
      /\ ht.num_deleted = 0 => g = ht
  BY SquashIs DEF IInv
<1> HIDE DEF g
<1>2. ht' = [g EXCEPT !.use_deleted = u]
  BY DEF g
<1>3. Good(ht') /\ ht'.table = g.table
  BY <1>1, <1>2, MarkerIs
<1>4. ~(ht.num_deleted > 0) => Unnoticed(ht, ht')
  <2>1. ht.num_deleted \in Nat
    BY GoodIs DEF IInv
  <2>2. ~(ht.num_deleted > 0) => ht'.table = ht.table
    BY <1>1, <1>3, <2>1
  <2> QED BY <2>2, SameTable
<1>5. Walk(ht', at', due')
  BY <1>4, WalkEnds
<1> QED BY <1>1, <1>3, <1>5, OtherIs

(* clear, and clear_no_resize                                              *)
LEMMA ClearHolds ==
  ASSUME IInv, Clear \/ ClearNoResize
  PROVE  Good(ht') /\ Walk(ht', at', due') /\ Abstract!Next
<1> DEFINE size(n) == [Cleared(ht) EXCEPT !.table = NoElements(n)]
<1>1. Good(ht) /\ result' = "none" /\ EndsWalk(TRUE)
  BY DEF IInv, Clear, ClearNoResize
<1>2. \E n \in Sizes : ht' = [Cleared(ht) EXCEPT !.table = NoElements(n)]
  <2>1. CASE ClearNoResize
    BY <1>1, <2>1, GoodIs DEF ClearNoResize
  <2>2. CASE Clear
    <3>1. ht' = Cleared(ht)
      BY <2>2 DEF Clear
    <3>2. Cleared(ht) = [Cleared(ht) EXCEPT !.table = NoElements(MinSize(0, 0))]
      BY <1>1 DEF Cleared, Good, Members
    <3>3. MinSize(0, 0) \in Sizes
      BY MinSizeIs
    <3> QED BY <3>1, <3>2, <3>3
  <2> QED BY <2>1, <2>2
<1>3. Good(ht') /\ Pairs(ht'.table) = {}
  BY <1>1, <1>2, ClearedIs
<1>4. Walk(ht', at', due')
  BY <1>1, WalkEnds
<1>5. Contents(ht') = Abstract!Without(Contents(ht), Keys)
  <2>1. /\ DOMAIN Contents(ht') = {e[1] : e \in Pairs(ht'.table)}
        /\ Contents(ht') = [k \in DOMAIN Contents(ht') |-> Contents(ht')[k]]
    BY <1>3, ContentsIs
  <2>2. DOMAIN Contents(ht') = {}
    BY <1>3, <2>1
  <2>3. DOMAIN Contents(ht) = {e[1] : e \in Pairs(ht.table)}
    BY <1>1, ContentsIs
  <2>4. DOMAIN Contents(ht) \ Keys = {}
    <3>1. \A e \in Pairs(ht.table) : e[1] \in Keys
      BY CellsDiffer DEF Pairs, Entries
    <3> QED BY <2>3, <3>1
  <2> QED BY <2>1, <2>2, <2>4 DEF Abstract!Without
<1> QED BY <1>1, <1>3, <1>4, <1>5, EraseIsNext

(* resize.                                                                 *)
LEMMA ResizeHolds ==
  ASSUME IInv, NEW n \in {0, MaxBuckets \div 2}, Resize(n)
  PROVE  Good(ht') /\ Walk(ht', at', due') /\ Abstract!Next
<1> DEFINE considers == ht.consider_shrink \/ n = 0
           c == IF considers THEN MaybeShrink(ht) ELSE ht
           delta == n - c.num_elements
<1>1. /\ ht' = IF delta > 0 THEN ResizeDelta(c, delta) ELSE c
      /\ result' = "none"
      /\ EndsWalk((considers /\ Shrinks(ht)) \/ (delta > 0 /\ Copies(c, delta)))
  BY DEF Resize
<1>2. /\ Good(c) /\ Pairs(c.table) = Pairs(ht.table)
      /\ ~(considers /\ Shrinks(ht)) => c.table = ht.table
  BY MaybeShrinkIs DEF IInv
<1>3. n \in Int
  BY HashAssumption
<1> HIDE DEF c
<1>4. delta \in Int
  BY <1>2, <1>3, GoodIs
<1> HIDE DEF delta, considers
<1>5. /\ Good(ht') /\ Pairs(ht'.table) = Pairs(ht.table)
      /\ ~((considers /\ Shrinks(ht)) \/ (delta > 0 /\ Copies(c, delta))) => ht'.table = ht.table
  <2>1. CASE delta > 0
    <3>1. delta \in Nat /\ ht' = ResizeDelta(c, delta)
      BY <1>1, <1>4, <2>1
    <3>2. /\ Good(ht') /\ Pairs(ht'.table) = Pairs(c.table)
          /\ ~Copies(c, delta) => ht'.table = c.table
      BY <1>2, <3>1, ResizeDeltaIs
    <3> QED BY <1>2, <2>1, <3>2
  <2>2. CASE ~(delta > 0)
    BY <1>1, <1>2, <2>2
  <2> QED BY <2>1, <2>2
<1>6. Walk(ht', at', due')
  BY <1>1, <1>5, SameTable, WalkEnds
<1> QED BY <1>1, <1>5, <1>6, OtherIs

(* The copy constructor and swap.                                          *)
LEMMA CopyAndSwapHolds ==
  ASSUME IInv, CopyAndSwap
  PROVE  Good(ht') /\ Walk(ht', at', due') /\ Abstract!Next
<1>1. ht' = CopyFrom(ht, 0) /\ result' = "none" /\ EndsWalk(TRUE)
  BY DEF CopyAndSwap
<1>2. Good(ht') /\ Pairs(ht'.table) = Pairs(ht.table)
  BY <1>1, CopyFromIs DEF IInv
<1>3. Walk(ht', at', due')
  BY <1>1, WalkEnds
<1> QED BY <1>1, <1>2, <1>3, OtherIs

(* Every call keeps the invariant and is a call of the abstract map.       *)
LEMMA NextHolds ==
  ASSUME IInv, Next
  PROVE  IInv' /\ Abstract!Next
<1> DEFINE Holds == Good(ht') /\ Walk(ht', at', due') /\ Abstract!Next
<1> SUFFICES Holds
  BY DEF IInv
<1>1. ASSUME NEW e \in Elements, Insert(e[1], e[2]) PROVE Holds
  BY <1>1, InsertHolds
<1>2. ASSUME NEW e \in Elements, Assign(e[1], e[2]) PROVE Holds
  BY <1>2, AssignHolds
<1>3. ASSUME NEW seq \in Ranges, InsertRange(seq) PROVE Holds
  BY <1>3, InsertRangeHolds
<1>4. ASSUME NEW k \in Keys, Find(k) PROVE Holds
  BY <1>4, FindHolds
<1>5. ASSUME NEW k \in Keys, EraseKey(k) PROVE Holds
  BY <1>5, EraseKeyHolds
<1>6. ASSUME NEW n \in {0, MaxBuckets \div 2}, Resize(n) PROVE Holds
  BY <1>6, ResizeHolds
<1>7. CASE SetDeletedKey
  BY <1>7, MarkerHolds DEF SetDeletedKey
<1>8. CASE ClearDeletedKey
  BY <1>8, MarkerHolds DEF ClearDeletedKey
<1>9. CASE Clear \/ ClearNoResize
  BY <1>9, ClearHolds
<1>10. CASE CopyAndSwap
  BY <1>10, CopyAndSwapHolds
<1>11. CASE Begin
  BY <1>11, BeginHolds
<1>12. CASE Increment
  BY <1>12, IncrementHolds
<1>13. CASE EraseAt
  BY <1>13, EraseAtHolds
<1>14. CASE EraseRest
  BY <1>14, EraseRestHolds
<1> HIDE DEF Holds
<1> QED BY <1>1, <1>2, <1>3, <1>4, <1>5, <1>6, <1>7, <1>8, <1>9, <1>10, <1>11, <1>12, <1>13, <1>14 DEF Next

(* A new table.                                                            *)
LEMMA InitHolds ==
  ASSUME Init
  PROVE  IInv /\ Abstract!Init
<1>1. PICK n \in {0, MaxBuckets}, marks \in MarksFrom :
         ht = [table |-> NoElements(MinSize(0, n)), num_deleted |-> 0, num_elements |-> 0,
               use_deleted |-> marks, consider_shrink |-> FALSE]
  BY DEF Init
<1> DEFINE m == MinSize(0, n)
<1>2. m \in Sizes
  <2>1. n \in Nat
    BY HashAssumption
  <2> QED BY <2>1, MinSizeIs
<1> HIDE DEF m
<1>3. ht.table = NoElements(m) /\ ht.num_deleted = 0 /\ ht.num_elements = 0
  BY <1>1 DEF m
<1>4. ht.use_deleted = marks /\ ht.consider_shrink = FALSE
  BY <1>1
<1>5. Members(ht)
  BY <1>1, <1>3, <1>4 DEF Members, m
<1>6. /\ Sound(ht.table) /\ DOMAIN ht.table = 0..(m - 1)
      /\ Full(ht.table) = {} /\ Marks(ht.table) = {} /\ Pairs(ht.table) = {}
  BY <1>2, <1>3, EmptyTableIs
<1>7. BucketCount(ht) > 0
  <2>1. m \in Nat /\ m >= 4
    BY <1>2, SizesAre
  <2> QED BY <1>6, <2>1, FS_Interval DEF BucketCount
<1>8. Cardinality(Full(ht.table)) = 0 /\ Cardinality(Marks(ht.table)) = 0
  BY <1>6, FS_EmptySet
<1>9. ~(ht.num_deleted > 0)
  BY <1>3
<1>10. Good(ht)
  BY <1>3, <1>5, <1>6, <1>7, <1>8, <1>9 DEF Good
<1>11. Walk(ht, at, due)
  BY DEF Init, Walk
<1>12. Contents(ht) = << >>
  <2>1. /\ DOMAIN Contents(ht) = {e[1] : e \in Pairs(ht.table)}
        /\ Contents(ht) = [k \in DOMAIN Contents(ht) |-> Contents(ht)[k]]
    BY <1>10, ContentsIs
  <2>2. DOMAIN Contents(ht) = {}
    BY <1>6, <2>1
  <2> QED BY <2>1, <2>2
<1> QED BY <1>10, <1>11, <1>12 DEF IInv, Abstract!Init, Init

(* Steps of others.                                                        *)
LEMMA StutterHolds ==
  ASSUME IInv, UNCHANGED vars
  PROVE  IInv' /\ UNCHANGED <<Contents(ht), result>>
BY DEF IInv, vars

(* Whatever the hash function and the calls are, the table stays sound,    *)
(* its counters count, a bucket stays empty, and every key due in a walk   *)
(* is ahead of the iterator.                                               *)
THEOREM TableSound == Spec => []IInv
<1>1. Init => IInv
  BY InitHolds
<1>2. IInv /\ [Next]_vars => IInv'
  BY NextHolds, StutterHolds
<1> QED BY <1>1, <1>2, PTL DEF Spec

(* Every key in the table is found by find_position, even where other      *)
(* keys with the same hash were erased or the table was resized in         *)
(* between; the counters are exact and the table is never full.            *)
THEOREM KeysFound == Spec => []EveryKeyIsFound
<1>1. IInv => EveryKeyIsFound
  <2> SUFFICES ASSUME IInv PROVE EveryKeyIsFound
    OBVIOUS
  <2>1. Good(ht) /\ Live(ht) = Entries(ht.table)
    BY GoodIs DEF IInv
  <2>2. ASSUME NEW b \in Live(ht) PROVE FindPosition(ht, ht.table[b][1])[1] = b
    <3>1. FindPosition(ht, ht.table[b][1]) = <<b, -1>>
      BY <2>1, <2>2, StoredIsFound
    <3> QED BY <3>1
  <2> QED BY <2>1, <2>2 DEF EveryKeyIsFound, Good, Marks, Full
<1> QED BY <1>1, TableSound, PTL

(* An iterator that has come to the end has been at every key that was     *)
(* there when it began and was not erased since, though erase and          *)
(* assignments in the middle of a walk are allowed.                        *)
THEOREM WalksMissNone == Spec => []WalkMissesNone
<1>1. IInv => WalkMissesNone
  <2> SUFFICES ASSUME Good(ht), Walk(ht, at, due), at # -1, at = BucketCount(ht) PROVE due = {}
    BY DEF IInv, WalkMissesNone
  <2>1. Entries(ht.table) \subseteq 0..(BucketCount(ht) - 1) /\ BucketCount(ht) \in Nat
    BY GoodIs DEF Entries
  <2>2. \A b \in Entries(ht.table) : ~(b >= at)
    BY <2>1
  <2> QED BY <2>2 DEF Walk
<1> QED BY <1>1, TableSound, PTL

(* The table implements the abstract map: each call has the result and     *)
(* the effect of HashMap, and growing, shrinking, copying and marks are    *)
(* never seen.                                                             *)
THEOREM TableIsMap == Spec => ImplementsMap
<1>1. Init => Abstract!Init
  BY InitHolds
<1>2. IInv /\ [Next]_vars => [Abstract!Next]_<<Contents(ht), result>>
  BY NextHolds, StutterHolds
<1> QED BY <1>1, <1>2, TableSound, PTL DEF Spec, ImplementsMap, Abstract!MapSpec
=============================================================================
