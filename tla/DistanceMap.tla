---------------------------- MODULE DistanceMap ----------------------------
(* The distance map of a field (misc/fastutils.cpp): for each cell, how far *)
(* the nearest wall is, counted in steps along the axes.  Path finding      *)
(* reads it twice: a cell at distance 0 is a wall, and the price of a cell  *)
(* depends on its distance.  A field is a record of its width, its height   *)
(* and the types of its cells, row after row; cell (x, y) is number         *)
(* y * width + x, and the sequences here start at 1.                        *)
EXTENDS Integers, Sequences, FiniteSetsExt, SequencesExt

(* A function that TLC evaluates once and for all. *)
Computed(f) == f \o <<>>

(* 0 is open ground and 3 is water one can walk through. *)
Walkable(type) == type \in {0, 3}

Simplified(raw) == Computed([i \in DOMAIN raw |->
                               IF Walkable(raw[i]) THEN 255 ELSE 0])

Capped(val) == IF val > 255 THEN 255 ELSE val

(* Cell i, last seen at dist, against its neighbour n: the greater of two   *)
(* values that are more than one apart comes down.  "done" is what the code *)
(* sets its flag to when it is the neighbour that comes down.               *)
Push(s, i, dist, n, done) ==
    LET comp == dist - s.data[n]
    IN  IF comp > 1
        THEN [data |-> [s.data EXCEPT ![i] = Capped(s.data[n] + 1)], done |-> FALSE]
        ELSE IF comp < -1
        THEN [data |-> [s.data EXCEPT ![n] = Capped(dist + 1)], done |-> done]
        ELSE s

(* The first scan, right and up: the last row has nothing above it, the     *)
(* last column nothing to its right.  Each cell is read once, before either *)
(* of its two neighbours, and the second of them may be measured against a  *)
(* value that the first has already lowered.                                *)
RightAndUp(s, i, width, height) ==
    LET dist  == s.data[i]
        right == IF i % width # 0 THEN Push(s, i, dist, i + 1, FALSE) ELSE s
    IN  IF i <= (height - 1) * width
        THEN Push(right, i, dist, i + width, TRUE) ELSE right

RECURSIVE PushRightAndUp(_, _, _, _)
PushRightAndUp(s, i, width, height) ==
    IF s.done \in BOOLEAN /\ i > width * height THEN s
    ELSE PushRightAndUp(RightAndUp(s, i, width, height), i + 1, width, height)

(* The second scan, left and down, from the last cell to the first. *)
LeftAndDown(s, i, width) ==
    LET dist == s.data[i]
        left == IF i % width # 1 % width THEN Push(s, i, dist, i - 1, FALSE) ELSE s
    IN  IF i > width THEN Push(left, i, dist, i - width, FALSE) ELSE left

RECURSIVE PushLeftAndDown(_, _, _)
PushLeftAndDown(s, i, width) ==
    IF s.done \in BOOLEAN /\ i = 0 THEN s
    ELSE PushLeftAndDown(LeftAndDown(s, i, width), i - 1, width)

(* Mutant: the first scan is repeated, the second forgotten. *)
RECURSIVE SettledByOneScan(_, _, _)
SettledByOneScan(data, width, height) ==
    LET up == PushRightAndUp([data |-> data, done |-> TRUE], 1, width, height)
    IN  IF up.done THEN up.data ELSE SettledByOneScan(up.data, width, height)

(* The two scans are repeated until a round reports that it changed nothing. *)
RECURSIVE Settled(_, _, _)
Settled(data, width, height) ==
    LET up   == PushRightAndUp([data |-> data, done |-> TRUE], 1, width, height)
        down == PushLeftAndDown(up, width * height, width)
    IN  IF down.done THEN down.data ELSE Settled(down.data, width, height)

MakeDistMap(field) ==
    Settled(Simplified(field.raw), field.width, field.height)

-----------------------------------------------------------------------------
(* What the map should say: the distance to the nearest wall, at most 255. *)

LOCAL Apart(field, i, j) ==
    LET Steps(a, b) == IF a > b THEN a - b ELSE b - a
        X(k) == (k - 1) % field.width
        Y(k) == (k - 1) \div field.width
    IN  Steps(X(i), X(j)) + Steps(Y(i), Y(j))

Walls(field) == {j \in DOMAIN field.raw : ~ Walkable(field.raw[j])}

ExactDistance(field, i) ==
    IF Walls(field) = {} THEN 255
    ELSE Capped(Min({Apart(field, i, j) : j \in Walls(field)}))
=============================================================================
