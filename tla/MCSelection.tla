---------------------------- MODULE MCSelection -----------------------------
(* Selection for TLC.  Three members make a round with one in the middle; the *)
(* first takes a second connection, so that connection counts differ among    *)
(* servers that can be chosen.                                                *)
EXTENDS Selection

ThreeAndOne == [members |-> 3, clones |-> 1]

FirstTakesTwo == [k \in Kinds |-> [i \in Ids(k) |-> IF k = "members" /\ i = 0 THEN 2 ELSE 1]]
=============================================================================
