---------------------------- MODULE MCAlgorithms ----------------------------
(* Path finding, translation and padded packets, one at a time: job says    *)
(* which.  Every way to place walls on a field of three by three, for a     *)
(* path finding session's first search, and a larger field with a wide and  *)
(* a narrow way for its second; every sorted table of up to eight messages,  *)
(* with and without the empty one, and tables out of order or cut off;      *)
(* ciphers whose values put the keys at every distance.                     *)
EXTENDS PathFinding, Translator, PaddedPackets

VARIABLE job

Walking  == [d \in 0..255 |-> IF d = 0 THEN 255 ELSE 1]
Avoiding == [d \in 0..255 |-> IF d = 0 THEN 255 ELSE
                              IF d <= 5 THEN <<7, 6, 3, 2, 1>>[d] ELSE 1]

(* 0 is open, 1 is a wall, 3 is water; one cell at least is a wall. *)
Small == {[width |-> 3, height |-> 3, raw |-> raw] :
            raw \in {r \in [1..9 -> {0, 1}] : \E i \in 1..9 : r[i] = 1}}
Rows(rows) == [width |-> Len(rows[1]), height |-> Len(rows),
               raw |-> FlattenSeq(rows)]
Large == Rows(<< <<0, 3, 0, 0, 0, 0>>,
                 <<0, 1, 1, 1, 0, 0>>,
                 <<0, 0, 0, 0, 0, 0>>,
                 <<0, 0, 0, 0, 0, 0>>,
                 <<1, 0, 0, 0, 3, 0>> >>)

Ask(fields, starts, dests, weights) ==
    [field : fields, start : starts, dest : dests, weight : weights]

Tiny == [width |-> 3, height |-> 3, raw |-> <<0, 0, 1, 0, 3, 0, 1, 0, 0>>]

MCRequests ==
    Ask(Small, {Pos(2, 1), Pos(1, 1)}, {Pos(0, 0), Pos(2, 2)}, {Walking, Avoiding})
        \cup Ask({Large}, {Pos(0, 0)}, {Pos(5, 4), Pos(0, 3)}, {Avoiding, Walking})
MCMoreRequests ==
    Ask({Large}, {Pos(0, 0)}, {Pos(5, 4), Pos(0, 6)}, {Avoiding})
        \cup Ask({Tiny}, {Pos(0, 0)}, {Pos(2, 2)}, {Avoiding})
MCAnswers == {"run", "runcount"}

MCMessages == 0..7
TableOfAll(s) == [i \in 1..Cardinality(s) |->
                     CHOOSE x \in s : Cardinality({y \in s : y < x}) = i - 1]
Tables == {TableOfAll(s) : s \in SUBSET MCMessages}
Unsorted == {<<1, 5, 3, 4>>, <<0, 5, 2, 4, 1>>, <<3, 2, 1>>}
MCFile(table, count) == [size |-> 200, tables |-> 28, count |-> count, messages |-> table]
MCFiles ==
    {MCFile(t, Len(t)) : t \in Tables \cup Unsorted}
        \cup {MCFile(<<0, 2, 4>>, 5), MCFile(<<1, 3>>, 4), MCFile(<<>>, 15)}
        \cup {NoFile, [size |-> 20, tables |-> 28, count |-> 1, messages |-> <<0>>]}

MCSkillUses == {<<28, 10, 500>>}
MCIds == {<<242, 276>>}
MCFuncs(slot, value) == (slot * 7 + value * 5) % 79

Init ==
    /\ job \in {"path", "translation", "packet"}
    /\ PathInit /\ LookupInit /\ PacketInit
Next ==
    \/ /\ job = "path" /\ PathNext
       /\ UNCHANGED <<job, lookupVars, packetVars>>
    \/ /\ job = "translation" /\ LookupNext
       /\ UNCHANGED <<job, pathVars, packetVars>>
    \/ /\ job = "packet" /\ PacketNext
       /\ UNCHANGED <<job, pathVars, lookupVars>>

Spec == Init /\ [][Next]_<<job, pathVars, lookupVars, packetVars>>
=============================================================================
