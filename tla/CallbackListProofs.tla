------------------------- MODULE CallbackListProofs -------------------------
(***************************************************************************)
(* The cells of a callback list always find its items, so that a removal   *)
(* hits the callback it is meant for; no callback is called twice in one   *)
(* walk; and nobody is left out of a walk unless a callback removes itself *)
(* or one before it.                                                       *)
(***************************************************************************)
EXTENDS CallbackList, SequenceLemmas

(* The other direction of IDsFindItems: a cell that holds an index finds   *)
(* its own callback there, and callbacks not yet added have none.          *)
CellsExact ==
    /\ \A c \in Callbacks : id[c] # NoID => /\ id[c] \in 0 .. Len(list) - 1
                                            /\ list[id[c] + 1] = c
    /\ \A c \in Callbacks \ used : id[c] = NoID

CellInv == TypeOK /\ IDsFindItems /\ CellsExact

(* Whoever was called in this walk lies before the next item to visit.     *)
CalledBehind ==
    /\ Range(called) \subseteq used
    /\ \A c \in Range(called) :
          id[c] = NoID \/ id[c] < pos \/ (pc = "callback" /\ id[c] = pos)

(* Whoever is due was called or lies ahead of the walk, its object alive.  *)
DueAhead ==
    \A c \in due :
        /\ ~Dead(c)
        /\ \/ c \in Range(called)
           \/ pc = "walk"     /\ id[c] # NoID /\ id[c] >= pos
           \/ pc = "callback" /\ id[c] # NoID /\ id[c] > pos

-----------------------------------------------------------------------------
(* remove keeps the cells and the array in step, clears the cell it was    *)
(* given, moves the others down and takes no other item away.              *)
LEMMA RemoveIDKeeps ==
  ASSUME CellInv, NEW c \in Callbacks, RemoveID(c), used' = used
  PROVE  /\ list' \in Seq(Callbacks) /\ id' \in [Callbacks -> Nat \cup {NoID}]
         /\ IDsFindItems' /\ CellsExact'
         /\ id'[c] = NoID
         /\ \A d \in Callbacks : id'[d] # NoID => id[d] # NoID /\ id'[d] <= id[d]
         /\ \A d \in Callbacks \ {c} :
               id[d] # NoID => id'[d] = IF id[c] # NoID /\ id[d] > id[c] THEN id[d] - 1 ELSE id[d]
<1> USE CallbacksAssumption
<1>1. CASE id[c] = NoID
  <2>1. list' = list /\ id' = id
    BY <1>1 DEF RemoveID
  <2> QED BY <1>1, <2>1 DEF CellInv, TypeOK, IDsFindItems, CellsExact
<1>2. CASE id[c] # NoID
  <2> DEFINE k == id[c]
             n == Len(list)
             later == {list[j] : j \in k + 2 .. n}
  <2>1. n \in Nat /\ k \in 0 .. n - 1 /\ list[k + 1] = c
    BY <1>2 DEF CellInv, TypeOK, CellsExact
  <2>2. list' = RemoveAt(list, k + 1)
    BY <1>2, <2>1 DEF RemoveID
  <2>3. id' = [d \in Callbacks |-> IF d = c THEN NoID
                                   ELSE IF d \in later THEN id[d] - 1 ELSE id[d]]
    BY <1>2, <2>1 DEF RemoveID
  <2>4. \A d \in Callbacks : id[d] # NoID =>
            /\ id[d] \in 0 .. n - 1 /\ list[id[d] + 1] = d
            /\ d \in later <=> id[d] > k
    <3>1. \A j \in 1 .. n : list[j] \in Callbacks /\ id[list[j]] = j - 1
      BY DEF CellInv, TypeOK, IDsFindItems
    <3>2. \A d \in Callbacks : id[d] # NoID => id[d] \in 0 .. n - 1 /\ list[id[d] + 1] = d
      BY DEF CellInv, CellsExact
    <3> HIDE DEF k, n
    <3> QED BY <2>1, <3>1, <3>2
  <2>5. \A d \in Callbacks : id[d] = NoID => d \notin later
    <3>1. \A j \in 1 .. n : id[list[j]] = j - 1
      BY DEF CellInv, IDsFindItems
    <3> HIDE DEF k, n
    <3> QED BY <2>1, <3>1
  <2>6. \A d \in Callbacks : id[d] \in Nat \cup {NoID}
    BY DEF CellInv, TypeOK
  <2>7. /\ list' \in Seq(Callbacks) /\ Len(list') = n - 1
        /\ \A j \in 1 .. n - 1 : list'[j] = IF j < k + 1 THEN list[j] ELSE list[j + 1]
    <3>1. list \in Seq(Callbacks) /\ k + 1 \in 1 .. Len(list)
      BY <2>1 DEF CellInv, TypeOK
    <3> HIDE DEF k
    <3> QED BY <2>2, <3>1, RemoveAtType
  <2>8. \A j \in 1 .. n : list[j] \in Callbacks /\ id[list[j]] = j - 1
    BY DEF CellInv, TypeOK, IDsFindItems
  <2>9. \A d \in Callbacks : k = id[d] => d = c
    BY <2>1, <2>4
  <2> DEFINE shifted(d) == IF id[d] = NoID THEN NoID
                           ELSE IF d = c THEN NoID
                           ELSE IF id[d] > k THEN id[d] - 1 ELSE id[d]
  <2>10. \A d \in Callbacks : id'[d] = shifted(d)
    <3> HIDE DEF k, n, later
    <3> QED BY <1>2, <2>3, <2>4, <2>5 
  <2>11. DOMAIN id' = Callbacks /\ id' = [d \in Callbacks |-> id'[d]]
    BY <2>3
  <2>12. \A d \in Callbacks \ used : id[d] = NoID
    BY DEF CellInv, CellsExact
  <2>13. id[c] = k /\ NoID \notin Int
    OBVIOUS
  <2> HIDE DEF k, n, later
  <2>14. \A d \in Callbacks : shifted(d) \in Nat \cup {NoID}
    BY <2>1, <2>4, <2>6, <2>9
  <2>15. id' \in [Callbacks -> Nat \cup {NoID}]
    BY <2>10, <2>11, <2>14
  <2>16. \A j \in 1 .. n - 1 : id'[list'[j]] = j - 1
    <3> TAKE j \in 1 .. n - 1
    <3>1. CASE j < k + 1
      <4>0. j \in 1 .. n /\ j - 1 # k
        BY <3>1, <2>1
      <4>1. list'[j] = list[j] /\ id[list[j]] = j - 1 /\ list[j] # c /\ list[j] \in Callbacks
        BY <4>0, <3>1, <2>7, <2>8, <2>13
      <4> QED BY <4>1, <3>1, <2>1, <2>10, <2>13
    <3>2. CASE ~(j < k + 1)
      <4>0. j + 1 \in 1 .. n /\ (j + 1) - 1 = j /\ j # k
        BY <3>2, <2>1
      <4>1. list'[j] = list[j + 1] /\ id[list[j + 1]] = j /\ list[j + 1] # c
            /\ list[j + 1] \in Callbacks
        BY <4>0, <3>2, <2>7, <2>8, <2>13
      <4> QED BY <4>1, <3>2, <2>1, <2>10, <2>13
    <3> QED BY <3>1, <3>2
  <2>17. IDsFindItems'
    BY <2>7, <2>16 DEF IDsFindItems
  <2>18. ASSUME NEW d \in Callbacks, id'[d] # NoID
         PROVE  id'[d] \in 0 .. (n - 1) - 1 /\ list'[id'[d] + 1] = d
    <3>1. id[d] # NoID /\ d # c /\ id'[d] = (IF id[d] > k THEN id[d] - 1 ELSE id[d])
      BY <2>10, <2>18
    <3>2. id[d] \in 0 .. n - 1 /\ list[id[d] + 1] = d /\ id[d] # k
      BY <3>1, <2>4, <2>9
    <3>3. CASE id[d] > k
      <4>1. id[d] \in 1 .. n - 1 /\ ~(id[d] < k + 1) /\ id'[d] = id[d] - 1
        BY <3>1, <3>2, <3>3, <2>1
      <4>2. list'[id[d]] = list[id[d] + 1]
        BY <4>1, <2>7
      <4> QED BY <4>1, <4>2, <3>2, <2>1
    <3>4. CASE id[d] < k
      <4>1. id[d] + 1 \in 1 .. n - 1 /\ id[d] + 1 < k + 1 /\ id'[d] = id[d]
        BY <3>1, <3>2, <3>4, <2>1
      <4> QED BY <4>1, <3>2, <2>1, <2>7
    <3> QED BY <3>2, <3>3, <3>4, <2>1
  <2>19. CellsExact'
    BY <2>7, <2>10, <2>12, <2>18 DEF CellsExact
  <2>20. id'[c] = NoID
    BY <2>10
  <2>21. \A d \in Callbacks : id'[d] # NoID => id[d] # NoID /\ id'[d] <= id[d]
    BY <2>1, <2>4, <2>10
  <2>22. \A d \in Callbacks \ {c} :
            id[d] # NoID => id'[d] = IF id[c] # NoID /\ id[d] > id[c] THEN id[d] - 1 ELSE id[d]
    BY <1>2, <2>10, <2>13
  <2> QED BY <2>7, <2>15, <2>17, <2>19, <2>20, <2>21, <2>22
<1> QED BY <1>1, <1>2
-----------------------------------------------------------------------------
(* CellInv is inductive: one step per action that changes the list.        *)
LEMMA CellInvInit == Init => CellInv
<1>1. << >> \in Seq(Callbacks) /\ Len(<< >>) = 0
  OBVIOUS
<1>2. Init => moved \in BOOLEAN
  BY Zenon DEF Init
<1> QED BY <1>1, <1>2 DEF Init, CellInv, TypeOK, IDsFindItems, CellsExact

LEMMA CellInvStep ==
  ASSUME CellInv, [Next]_vars
  PROVE  CellInv'
<1> USE CallbacksAssumption DEF walkVars, history
<1>0. TypeOK
  BY DEF CellInv
<1>1. CASE UNCHANGED vars
  BY <1>1 DEF vars, CellInv, TypeOK, IDsFindItems, CellsExact
<1>2. ASSUME NEW c \in Callbacks, AddCallback(c)
      PROVE  CellInv'
  <2>1. id[c] = NoID /\ c \notin used /\ Len(list) \in Nat
    BY <1>0, <1>2 DEF AddCallback, CellInv, CellsExact, TypeOK
  <2>2. /\ list' \in Seq(Callbacks) /\ Len(list') = Len(list) + 1 /\ list'[Len(list) + 1] = c
        /\ \A j \in 1 .. Len(list) : list'[j] = list[j]
    BY <1>0, <1>2 DEF AddCallback, TypeOK
  <2>3. /\ id' \in [Callbacks -> Nat \cup {NoID}] /\ id'[c] = Len(list)
        /\ \A d \in Callbacks \ {c} : id'[d] = id[d]
    BY <1>0, <1>2, <2>1 DEF AddCallback, TypeOK
  <2>4. TypeOK'
    BY <1>0, <1>2, <2>2, <2>3 DEF AddCallback, TypeOK
  <2>5. IDsFindItems'
    <3>1. \A j \in 1 .. Len(list) : list[j] \in Callbacks /\ id[list[j]] = j - 1
      BY <1>0 DEF TypeOK, CellInv, IDsFindItems
    <3>2. \A j \in 1 .. Len(list) : list[j] # c
      BY <3>1, <2>1
    <3>3. ASSUME NEW j \in 1 .. Len(list')
          PROVE  id'[list'[j]] = j - 1
      <4>1. CASE j = Len(list) + 1
        BY <4>1, <2>1, <2>2, <2>3
      <4>2. CASE j \in 1 .. Len(list)
        BY <4>2, <3>1, <3>2, <2>2, <2>3
      <4> QED BY <4>1, <4>2, <2>1, <2>2
    <3> QED BY <3>3 DEF IDsFindItems
  <2>6. CellsExact'
    <3>1. used' = used \cup {c}
      BY <1>2 DEF AddCallback
    <3>2. \A d \in Callbacks : id[d] # NoID => /\ id[d] \in 0 .. Len(list) - 1
                                               /\ list[id[d] + 1] = d
      BY DEF CellInv, CellsExact
    <3>3. ASSUME NEW d \in Callbacks, id'[d] # NoID
          PROVE  id'[d] \in 0 .. Len(list') - 1 /\ list'[id'[d] + 1] = d
      <4>1. CASE d = c
        BY <4>1, <2>1, <2>2, <2>3
      <4>2. CASE d # c
        <5>1. id'[d] = id[d] /\ id[d] \in 0 .. Len(list) - 1 /\ list[id[d] + 1] = d
          BY <4>2, <3>2, <3>3, <2>3
        <5>2. id[d] + 1 \in 1 .. Len(list)
          BY <5>1, <2>1
        <5> QED BY <5>1, <5>2, <2>1, <2>2
      <4> QED BY <4>1, <4>2
    <3> QED BY <3>1, <3>3, <2>3 DEF CellInv, CellsExact
  <2> QED BY <2>4, <2>5, <2>6 DEF CellInv
<1>3. ASSUME NEW c \in Callbacks, RemoveCallback(c)
      PROVE  CellInv'
  <2>1. RemoveID(c) /\ used' = used
    BY <1>3 DEF RemoveCallback
  <2>2. /\ list' \in Seq(Callbacks) /\ id' \in [Callbacks -> Nat \cup {NoID}]
        /\ IDsFindItems' /\ CellsExact'
    BY <2>1, RemoveIDKeeps
  <2>3. TypeOK'
    BY <1>0, <1>3, <2>2 DEF RemoveCallback, TypeOK
  <2> QED BY <2>2, <2>3 DEF CellInv
<1>4. ASSUME Purge
      PROVE  CellInv'
  <2>1. Head(dead) \in Callbacks /\ Tail(dead) \in Seq(Callbacks)
    BY <1>0, <1>4 DEF Purge, TypeOK
  <2>2. RemoveID(Head(dead)) /\ used' = used
    BY <1>4 DEF Purge
  <2>3. /\ list' \in Seq(Callbacks) /\ id' \in [Callbacks -> Nat \cup {NoID}]
        /\ IDsFindItems' /\ CellsExact'
    BY <2>1, <2>2, RemoveIDKeeps
  <2>4. TypeOK'
    BY <1>0, <1>4, <2>1, <2>3 DEF Purge, TypeOK
  <2> QED BY <2>3, <2>4 DEF CellInv
<1>5. ASSUME UNCHANGED <<list, id, used>>, TypeOK'
      PROVE  CellInv'
  BY <1>5 DEF CellInv, IDsFindItems, CellsExact
<1>6. ASSUME NEW c \in Callbacks, DropObject(c)
      PROVE  CellInv'
  BY <1>0, <1>5, <1>6 DEF DropObject, TypeOK
<1>7. CASE DeepCopy
  BY <1>0, <1>5, <1>7 DEF DeepCopy, TypeOK
<1>8. CASE BeginCall
  <2>1. {c \in Range(list) : ~Dead(c)} \subseteq Callbacks /\ << >> \in Seq(Callbacks)
    BY <1>0 DEF TypeOK, Range
  <2> QED BY <1>0, <1>5, <1>8, <2>1 DEF BeginCall, TypeOK
<1>9. CASE NoteDead
  <2>1. list[pos + 1] \in Callbacks /\ pos + 1 \in Nat
    BY <1>0, <1>9 DEF NoteDead, TypeOK
  <2>2. Append(dead, list[pos + 1]) \in Seq(Callbacks)
    BY <1>0, <2>1 DEF TypeOK
  <2> QED BY <1>0, <1>5, <1>9, <2>1, <2>2 DEF NoteDead, TypeOK
<1>10. CASE Invoke
  <2>1. list[pos + 1] \in Callbacks
    BY <1>0, <1>10 DEF Invoke, TypeOK
  <2>2. Append(called, list[pos + 1]) \in Seq(Callbacks)
    BY <1>0, <2>1 DEF TypeOK
  <2> QED BY <1>0, <1>5, <1>10, <2>2 DEF Invoke, TypeOK
<1>11. CASE Return
  BY <1>0, <1>5, <1>11 DEF Return, TypeOK
<1>12. CASE EndWalk
  BY <1>0, <1>5, <1>12 DEF EndWalk, TypeOK
<1>13. CASE EndCall \/ Throw
  <2>1. << >> \in Seq(Callbacks)
    OBVIOUS
  <2>2. Leave
    BY <1>13 DEF EndCall, Throw
  <2>3. /\ pc' = "idle" /\ pos' = 0 /\ dead' = << >> /\ called' = << >> /\ due' = {}
        /\ moved' = FALSE /\ copy' = copy /\ used' = used /\ alive' = alive
        /\ list' = list /\ id' = id
    BY <2>2 DEF Leave
  <2>4. dead' \in Seq(Callbacks) /\ called' \in Seq(Callbacks)
    BY <2>1, <2>3
  <2> QED BY <1>0, <1>5, <2>3, <2>4 DEF TypeOK
<1> QED BY <1>1, <1>2, <1>3, <1>4, <1>6, <1>7, <1>8, <1>9, <1>10, <1>11, <1>12, <1>13 DEF Next

(* The cells and the array stay in step.                                   *)
LEMMA CellsInStep == Spec => []CellInv
<1>1. Init => CellInv
  BY CellInvInit
<1>2. CellInv /\ [Next]_vars => CellInv'
  BY CellInvStep
<1> QED BY <1>1, <1>2, PTL DEF Spec

(* TypeOK of CallbackList.                                                 *)
THEOREM TypeCorrect == Spec => []TypeOK
<1>1. CellInv => TypeOK
  BY DEF CellInv
<1> QED BY <1>1, CellsInStep, PTL

(* The invariant that CallbackList.pm:89-92 claims of the class.           *)
THEOREM IDsAlwaysFindItems == Spec => []IDsFindItems
<1>1. CellInv => IDsFindItems
  BY DEF CellInv
<1> QED BY <1>1, CellsInStep, PTL

(* No step takes a callback off the list but the one that clears its cell. *)
THEOREM OnlyTheRemoved == Spec => NobodyElseIsRemoved
<1> USE CallbacksAssumption
<1>1. ASSUME CellInv, [Next]_vars
      PROVE  [\A c \in Range(list) \ Range(list)' : id'[c] = NoID]_vars
  <2>1. CellInv'
    BY <1>1, CellInvStep
  <2>2. ASSUME NEW c \in Range(list), c \notin Range(list)'
        PROVE  id'[c] = NoID
    <3>1. c \in Callbacks
      BY <1>1, <2>2 DEF CellInv, TypeOK, Range
    <3>2. ASSUME id'[c] # NoID
          PROVE  FALSE
      <4>1. id'[c] \in 0 .. Len(list') - 1 /\ list'[id'[c] + 1] = c
        BY <2>1, <3>1, <3>2 DEF CellInv, CellsExact
      <4>2. list' \in Seq(Callbacks)
        BY <2>1 DEF CellInv, TypeOK
      <4>3. id'[c] + 1 \in DOMAIN list'
        BY <4>1, <4>2
      <4>4. c \in Range(list')
        BY <4>1, <4>3 DEF Range
      <4>5. Range(list') = Range(list)'
        BY DEF Range
      <4> QED BY <2>2, <4>4, <4>5
    <3> QED BY <3>2
  <2> QED BY <2>2
<1> QED BY <1>1, CellsInStep, PTL DEF Spec, NobodyElseIsRemoved
-----------------------------------------------------------------------------
(* A callback visited now has not been called before in this walk.         *)
LEMMA CalledStep ==
  ASSUME CellInv, CalledBehind, CalledOnce, [Next]_vars
  PROVE  CalledBehind' /\ CalledOnce'
<1> USE CallbacksAssumption DEF walkVars, history
<1>0. TypeOK /\ called \in Seq(Callbacks) /\ pos \in Nat /\ id \in [Callbacks -> Nat \cup {NoID}]
  BY DEF CellInv, TypeOK
<1>1. Range(called) \subseteq Callbacks
  BY <1>0 DEF Range
<1>2. ASSUME called' = called, used \subseteq used', pos' >= pos, pos' \in Nat,
             \A c \in Range(called) : id'[c] # NoID => id[c] # NoID /\ id'[c] <= id[c],
             pc = "callback" => (pc' = "callback" \/ pos' = pos + 1),
             id' \in [Callbacks -> Nat \cup {NoID}]
      PROVE  CalledBehind' /\ CalledOnce'
  <2>1. ASSUME NEW c \in Range(called)
        PROVE  id'[c] = NoID \/ id'[c] < pos' \/ (pc' = "callback" /\ id'[c] = pos')
    <3>1. CASE id'[c] = NoID
      BY <3>1
    <3>2. CASE id'[c] # NoID
      <4>1. id[c] \in Nat /\ id'[c] \in Nat /\ id'[c] <= id[c]
        BY <1>0, <1>1, <1>2, <2>1, <3>2
      <4>2. id[c] < pos \/ (pc = "callback" /\ id[c] = pos)
        BY <1>0, <1>2, <2>1, <3>2 DEF CalledBehind
      <4> QED BY <4>1, <4>2, <1>0, <1>2
    <3> QED BY <3>1, <3>2
  <2>2. Range(called)' = Range(called) /\ CalledOnce'
    BY <1>2 DEF Range, CalledOnce, IsInjective
  <2> QED BY <1>2, <2>1, <2>2 DEF CalledBehind
<1>3. CASE UNCHANGED vars
  <2>1. /\ called' = called /\ used' = used /\ pos' = pos /\ id' = id /\ pc' = pc
    BY <1>3 DEF vars
  <2> QED BY <2>1, <1>0, <1>1, <1>2
<1>4. ASSUME NEW c \in Callbacks, AddCallback(c)
      PROVE  CalledBehind' /\ CalledOnce'
  <2>1. /\ called' = called /\ used' = used \cup {c} /\ pos' = pos /\ pc' = pc
        /\ id' = [id EXCEPT ![c] = Len(list)] /\ c \notin used
    BY <1>4 DEF AddCallback
  <2>2. \A d \in Range(called) : id'[d] = id[d]
    BY <2>1, <1>0, <1>1 DEF CalledBehind
  <2>3. Len(list) \in Nat
    BY DEF CellInv, TypeOK
  <2>4. id' \in [Callbacks -> Nat \cup {NoID}]
    BY <2>1, <2>3, <1>0
  <2> QED BY <2>1, <2>2, <2>4, <1>0, <1>1, <1>2
<1>5. ASSUME NEW c \in Callbacks, RemoveID(c), used' = used, called' = called, pos' = pos, pc' = pc
      PROVE  CalledBehind' /\ CalledOnce'
  <2>1. /\ id' \in [Callbacks -> Nat \cup {NoID}]
        /\ \A d \in Callbacks : id'[d] # NoID => id[d] # NoID /\ id'[d] <= id[d]
    BY <1>5, RemoveIDKeeps
  <2> QED BY <1>0, <1>1, <1>2, <1>5, <2>1
<1>6. ASSUME NEW c \in Callbacks, RemoveCallback(c)
      PROVE  CalledBehind' /\ CalledOnce'
  BY <1>5, <1>6 DEF RemoveCallback
<1>7. CASE Purge
  <2>1. Head(dead) \in Callbacks
    BY <1>0, <1>7 DEF Purge, TypeOK
  <2> QED BY <1>5, <1>7, <2>1 DEF Purge
<1>8. ASSUME UNCHANGED <<id, used, called>>, pos' >= pos, pos' \in Nat,
             pc = "callback" => (pc' = "callback" \/ pos' = pos + 1)
      PROVE  CalledBehind' /\ CalledOnce'
  <2>1. \A c \in Range(called) : id'[c] # NoID => id[c] # NoID /\ id'[c] <= id[c]
    BY <1>0, <1>1, <1>8
  <2> QED BY <1>0, <1>2, <1>8, <2>1
<1>9. ASSUME NEW c \in Callbacks, DropObject(c)
      PROVE  CalledBehind' /\ CalledOnce'
  BY <1>0, <1>8, <1>9 DEF DropObject
<1>10. CASE DeepCopy
  BY <1>0, <1>8, <1>10 DEF DeepCopy
<1>11. CASE NoteDead
  BY <1>0, <1>8, <1>11 DEF NoteDead
<1>12. CASE Return
  BY <1>0, <1>8, <1>12 DEF Return
<1>13. CASE EndWalk
  BY <1>0, <1>8, <1>13 DEF EndWalk
<1>14. ASSUME called' = << >>
       PROVE  CalledBehind' /\ CalledOnce'
  <2>1. Range(called)' = {} /\ DOMAIN called' = {}
    BY <1>14 DEF Range
  <2> QED BY <2>1 DEF CalledBehind, CalledOnce, IsInjective
<1>15. CASE BeginCall
  BY <1>14, <1>15 DEF BeginCall
<1>16. CASE EndCall \/ Throw
  BY <1>14, <1>16 DEF EndCall, Throw, Leave
<1>17. CASE Invoke
  <2> DEFINE c == list[pos + 1]
  <2>1. /\ called' = Append(called, c) /\ pc = "walk" /\ pc' = "callback"
        /\ id' = id /\ used' = used /\ pos' = pos /\ pos < Len(list)
    BY <1>17 DEF Invoke
  <2>2. c \in Callbacks /\ pos + 1 \in 1 .. Len(list)
    BY <1>0, <2>1 DEF TypeOK
  <2>3. id[c] = pos
    BY <1>0, <2>2 DEF CellInv, IDsFindItems
  <2>4. c \in used
    BY <1>0, <2>2, <2>3 DEF CellInv, CellsExact
  <2>5. c \notin Range(called)
    BY <1>0, <2>1, <2>3 DEF CalledBehind
  <2> HIDE DEF c
  <2>6. Range(called') = Range(called) \cup {c} /\ Range(called)' = Range(called')
    BY <1>0, <2>1, <2>2, AppendRange DEF Range
  <2>7. CalledBehind'
    BY <2>1, <2>3, <2>4, <2>6 DEF CalledBehind
  <2>8. /\ DOMAIN called = 1 .. Len(called) /\ Len(called) \in Nat
        /\ DOMAIN called' = 1 .. Len(called) + 1
        /\ called'[Len(called) + 1] = c /\ \A j \in 1 .. Len(called) : called'[j] = called[j]
    BY <1>0, <2>1, <2>2
  <2>9. \A j \in 1 .. Len(called) : called[j] # c
    BY <2>5, <2>8 DEF Range
  <2>10. \A i, j \in 1 .. Len(called) : called[i] = called[j] => i = j
    BY <2>8 DEF CalledOnce, IsInjective
  <2>11. \A i, j \in 1 .. Len(called) + 1 : called'[i] = called'[j] => i = j
    <3>1. \A i \in 1 .. Len(called) + 1 : i \in 1 .. Len(called) \/ i = Len(called) + 1
      BY <2>8
    <3> QED BY <3>1, <2>8, <2>9, <2>10
  <2> QED BY <2>7, <2>8, <2>11 DEF CalledOnce, IsInjective
<1> QED BY <1>3, <1>4, <1>6, <1>7, <1>9, <1>10, <1>11, <1>12, <1>13, <1>15, <1>16, <1>17 DEF Next

(* A walk calls nobody twice, whatever callbacks add and remove under it.  *)
THEOREM NobodyCalledTwice == Spec => []CalledOnce
<1>1. Init => CellInv /\ CalledBehind /\ CalledOnce
  <2>1. DOMAIN << >> = {}
    OBVIOUS
  <2> QED BY <2>1, CellInvInit DEF Init, CalledBehind, CalledOnce, IsInjective, Range
<1>2. CellInv /\ CalledBehind /\ CalledOnce /\ [Next]_vars
          => CellInv' /\ CalledBehind' /\ CalledOnce'
  BY CellInvStep, CalledStep
<1> QED BY <1>1, <1>2, PTL DEF Spec
-----------------------------------------------------------------------------
(* At the beginning of a walk and after it.                                *)
LEMMA DueStart ==
  ASSUME CellInv, BeginCall \/ EndCall \/ Throw
  PROVE  DueAhead'
<1>0. TypeOK
  BY DEF CellInv
<1>1. CASE BeginCall
  <2>1. pc' = "walk" /\ pos' = 0 /\ due' = {c \in Range(list) : ~Dead(c)} /\ id' = id
        /\ alive' = alive
    BY <1>1 DEF BeginCall
  <2>2. \A c \in Range(list) : id[c] # NoID /\ id[c] >= 0
    <3>1. list \in Seq(Callbacks) /\ \A j \in 1 .. Len(list) : id[list[j]] = j - 1
      BY <1>0 DEF TypeOK, CellInv, IDsFindItems
    <3>2. \A j \in 1 .. Len(list) : id[list[j]] \in Int /\ id[list[j]] >= 0
      BY <3>1
    <3> QED BY <3>1, <3>2, CallbacksAssumption DEF Range
  <2>3. \A c \in due' : ~Dead(c)'
    BY <2>1 DEF Dead
  <2> QED BY <2>1, <2>2, <2>3 DEF DueAhead
<1>2. CASE EndCall \/ Throw
  BY <1>2 DEF EndCall, Throw, Leave, DueAhead
<1> QED BY <1>1, <1>2

(* While nothing is removed behind its back, the walk passes by everyone   *)
(* still due.                                                              *)
LEMMA DueStep ==
  ASSUME CellInv, DueAhead, [Next]_vars, ~moved'
  PROVE  DueAhead'
<1> USE CallbacksAssumption DEF walkVars, history
<1>0. /\ TypeOK /\ pos \in Nat /\ id \in [Callbacks -> Nat \cup {NoID}] /\ due \subseteq Callbacks
      /\ called \in Seq(Callbacks)
  BY DEF CellInv, TypeOK
<1>1. ASSUME due' \subseteq due, \A c \in due' : ~Dead(c)', called' = called,
             UNCHANGED <<pc, pos>>, \A c \in due : id'[c] = id[c]
      PROVE  DueAhead'
  <2>1. Range(called)' = Range(called)
    BY <1>1 DEF Range
  <2> QED BY <1>1, <2>1 DEF DueAhead
<1>2. CASE UNCHANGED vars
  <2>1. /\ due' = due /\ alive' = alive /\ called' = called /\ id' = id /\ pc' = pc /\ pos' = pos
    BY <1>2 DEF vars
  <2> QED BY <2>1, <1>1 DEF DueAhead, Dead
<1>3. ASSUME NEW c \in Callbacks, AddCallback(c)
      PROVE  DueAhead'
  <2>1. /\ due' = due /\ alive \subseteq alive' /\ called' = called /\ pc' = pc /\ pos' = pos
        /\ id' = [id EXCEPT ![c] = Len(list)] /\ c \notin used
    BY <1>3 DEF AddCallback
  <2>2. id[c] = NoID
    BY <2>1 DEF CellInv, CellsExact
  <2>3. \A d \in due : ~Dead(d)'
    BY <2>1 DEF DueAhead, Dead
  <2>4. \A d \in Callbacks \ {c} : id'[d] = id[d]
    BY <2>1, <1>0
  <2>5. Range(called)' = Range(called)
    BY <2>1 DEF Range
  <2> QED BY <2>1, <2>2, <2>3, <2>4, <2>5, <1>0 DEF DueAhead
<1>4. ASSUME NEW c \in Callbacks, RemoveCallback(c)
      PROVE  DueAhead'
  <2>1. /\ RemoveID(c) /\ due' = due \ {c} /\ called' = called /\ alive' = alive
        /\ pc' = pc /\ pos' = pos /\ used' = used
        /\ ~moved /\ ~(pc = "callback" /\ id[c] # NoID /\ id[c] <= pos)
    BY <1>4 DEF RemoveCallback
  <2>2. pc = "idle" \/ pc = "callback"
    BY <1>4 DEF RemoveCallback, Allowed
  <2>3. \A d \in Callbacks \ {c} :
           id[d] # NoID => id'[d] = IF id[c] # NoID /\ id[d] > id[c] THEN id[d] - 1 ELSE id[d]
    BY <2>1, RemoveIDKeeps
  <2>4. Range(called)' = Range(called)
    BY <2>1 DEF Range
  <2>5. ASSUME NEW d \in due', d \notin Range(called)
        PROVE  pc' = "callback" /\ id'[d] # NoID /\ id'[d] > pos'
    <3>1. d \in due /\ d # c /\ d \in Callbacks
      BY <1>0, <2>1, <2>5
    <3>2. pc = "callback" /\ id[d] # NoID /\ id[d] > pos
      BY <2>1, <2>2, <2>5, <3>1 DEF DueAhead
    <3>3. id[d] \in Nat /\ id[c] \in Nat \cup {NoID}
      BY <1>0, <3>1, <3>2
    <3>4. id'[d] = IF id[c] # NoID /\ id[d] > id[c] THEN id[d] - 1 ELSE id[d]
      BY <2>3, <3>1, <3>2
    <3>5. CASE id[c] # NoID /\ id[d] > id[c]
      <4>1. id[c] > pos /\ id'[d] = id[d] - 1
        BY <1>0, <2>1, <3>2, <3>3, <3>4, <3>5
      <4> QED BY <1>0, <2>1, <3>2, <3>3, <3>5, <4>1
    <3>6. CASE ~(id[c] # NoID /\ id[d] > id[c])
      BY <2>1, <3>2, <3>4, <3>6
    <3> QED BY <3>5, <3>6
  <2>6. \A d \in due' : ~Dead(d)'
    BY <2>1 DEF DueAhead, Dead
  <2> QED BY <2>1, <2>4, <2>5, <2>6 DEF DueAhead
<1>5. ASSUME NEW c \in Callbacks, DropObject(c)
      PROVE  DueAhead'
  BY <1>1, <1>5 DEF DropObject, DueAhead, Dead
<1>6. CASE DeepCopy
  BY <1>1, <1>6 DEF DeepCopy, DueAhead, Dead
<1>7. CASE BeginCall
  BY <1>7, DueStart
<1>8. CASE NoteDead
  <2> DEFINE c == list[pos + 1]
  <2>1. /\ pc = "walk" /\ pc' = pc /\ pos' = pos + 1 /\ due' = due /\ called' = called
        /\ id' = id /\ alive' = alive /\ pos < Len(list) /\ Dead(c)
    BY <1>8 DEF NoteDead
  <2>2. pos + 1 \in 1 .. Len(list) /\ \A d \in Callbacks : id[d] # NoID /\ id[d] = pos => d = c
    <3>1. list \in Seq(Callbacks)
      BY <1>0 DEF TypeOK
    <3> QED BY <1>0, <2>1, <3>1 DEF CellInv, CellsExact
  <2> HIDE DEF c
  <2>3. c \notin due
    BY <2>1 DEF DueAhead
  <2>4. \A d \in due : id[d] # NoID /\ id[d] >= pos => id[d] >= pos + 1
    <3> TAKE d \in due
    <3>1. id[d] # pos \/ id[d] = NoID
      BY <1>0, <2>2, <2>3
    <3>2. id[d] \in Nat \cup {NoID}
      BY <1>0
    <3> QED BY <1>0, <3>1, <3>2
  <2>5. Range(called)' = Range(called)
    BY <2>1 DEF Range
  <2>6. \A d \in due : ~Dead(d)'
    BY <2>1 DEF DueAhead, Dead
  <2> QED BY <2>1, <2>4, <2>5, <2>6 DEF DueAhead
<1>9. CASE Invoke
  <2> DEFINE c == list[pos + 1]
  <2>1. /\ pc = "walk" /\ pc' = "callback" /\ pos' = pos /\ due' = due
        /\ called' = Append(called, c) /\ id' = id /\ alive' = alive /\ pos < Len(list)
    BY <1>9 DEF Invoke
  <2>2. pos + 1 \in 1 .. Len(list) /\ c \in Callbacks
        /\ \A d \in Callbacks : id[d] # NoID /\ id[d] = pos => d = c
    <3>1. list \in Seq(Callbacks)
      BY <1>0 DEF TypeOK
    <3> QED BY <1>0, <2>1, <3>1 DEF CellInv, CellsExact
  <2> HIDE DEF c
  <2>3. Range(called)' = Range(called) \cup {c}
    <3>1. Range(Append(called, c)) = Range(called) \cup {c}
      BY <1>0, <2>2, AppendRange
    <3> QED BY <2>1, <3>1 DEF Range
  <2>4. \A d \in due : id[d] # NoID /\ id[d] >= pos => d = c \/ id[d] > pos
    <3> TAKE d \in due
    <3>1. id[d] \in Nat \cup {NoID} /\ d \in Callbacks
      BY <1>0
    <3> QED BY <1>0, <2>2, <3>1
  <2>5. \A d \in due : ~Dead(d)'
    BY <2>1 DEF DueAhead, Dead
  <2> QED BY <2>1, <2>3, <2>4, <2>5 DEF DueAhead
<1>10. CASE Return
  <2>1. /\ pc = "callback" /\ pc' = "walk" /\ pos' = pos + 1 /\ due' = due /\ called' = called
        /\ id' = id /\ alive' = alive
    BY <1>10 DEF Return
  <2>2. Range(called)' = Range(called)
    BY <2>1 DEF Range
  <2>3. \A d \in due : ~Dead(d)'
    BY <2>1 DEF DueAhead, Dead
  <2>4. \A d \in due : id[d] # NoID /\ id[d] > pos => id[d] >= pos + 1
    <3> TAKE d \in due
    <3>1. id[d] \in Nat \cup {NoID}
      BY <1>0
    <3> QED BY <1>0, <3>1
  <2> QED BY <2>1, <2>2, <2>3, <2>4 DEF DueAhead
<1>11. CASE EndWalk
  <2>1. /\ pc = "walk" /\ pc' = "purge" /\ due' = due /\ called' = called /\ pos >= Len(list)
        /\ alive' = alive
    BY <1>11 DEF EndWalk
  <2>2. \A d \in due : d \in Range(called)
    <3> TAKE d \in due
    <3>1. Len(list) \in Nat
      BY <1>0 DEF TypeOK
    <3>2. ~(id[d] # NoID /\ id[d] >= pos)
      BY <1>0, <2>1, <3>1 DEF CellInv, CellsExact
    <3> QED BY <2>1, <3>2 DEF DueAhead
  <2>3. \A d \in due : ~Dead(d)'
    BY <2>1 DEF DueAhead, Dead
  <2>4. Range(called)' = Range(called)
    BY <2>1 DEF Range
  <2> QED BY <2>1, <2>2, <2>3, <2>4 DEF DueAhead
<1>12. CASE Purge
  <2>1. /\ pc = "purge" /\ pc' = pc /\ due' = due /\ called' = called /\ alive' = alive
    BY <1>12 DEF Purge
  <2>2. \A d \in due : d \in Range(called)
    BY <2>1 DEF DueAhead
  <2>3. \A d \in due : ~Dead(d)'
    BY <2>1 DEF DueAhead, Dead
  <2>4. Range(called)' = Range(called)
    BY <2>1 DEF Range
  <2> QED BY <2>1, <2>2, <2>3, <2>4 DEF DueAhead
<1>13. CASE EndCall \/ Throw
  BY <1>13, DueStart
<1> QED BY <1>2, <1>3, <1>4, <1>5, <1>6, <1>7, <1>8, <1>9, <1>10, <1>11, <1>12, <1>13 DEF Next

(* call() reaches every callback it finds, unless one of them removes      *)
(* itself or one before it.                                                *)
THEOREM EveryoneElseIsCalled == Spec => []AllCalled
<1> DEFINE Inv == CellInv /\ (~moved => DueAhead)
<1>1. Init => Inv
  BY CellInvInit DEF Init, DueAhead
<1>2. ASSUME Inv, [Next]_vars
      PROVE  Inv'
  <2>1. CellInv'
    BY <1>2, CellInvStep
  <2>2. ASSUME moved, ~moved'
        PROVE  BeginCall \/ EndCall \/ Throw
    BY <1>2, <2>2 DEF Next, vars, history, AddCallback, RemoveCallback, DropObject, DeepCopy,
                      NoteDead, Invoke, Return, EndWalk, Purge
  <2>3. ASSUME ~moved'
        PROVE  DueAhead'
    BY <1>2, <2>2, <2>3, DueStart, DueStep
  <2> QED BY <2>1, <2>3
<1>3. Inv => AllCalled
  BY DEF DueAhead, AllCalled
<1> QED BY <1>1, <1>2, <1>3, PTL DEF Spec
=============================================================================
