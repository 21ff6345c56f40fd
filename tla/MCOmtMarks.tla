----------------------------- MODULE MCOmtMarks -----------------------------
(* Values for model-checking OmtMarks, and its place under OmtSeq. *)
EXTENDS OmtMarksSeq, TLC

\* What rebuild_from_sorted_array makes of four values; a node is named by its slot.
MCLeft == [n \in 0 .. 3 |-> CASE n = 2 -> 1 [] n = 1 -> 0 [] OTHER -> NODE_NULL]
MCRight == [n \in 0 .. 3 |-> IF n = 2 THEN 3 ELSE NODE_NULL]
MCWeight == [n \in 0 .. 3 |-> CASE n = 2 -> 4 [] n = 1 -> 2 [] OTHER -> 1]
MCFirst == [n \in 0 .. 3 |-> IF n = 3 THEN 3 ELSE 0]

\* Two ranges that overlap; neither needs every node.
MCRange == {[left |-> 0, right |-> 2], [left |-> 1, right |-> 4]}

Symmetry == Permutations(Marker)

MCHeld == <<1, 1, 1, 1>>
=============================================================================
