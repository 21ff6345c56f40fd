------------------------------- MODULE MCOmt -------------------------------
(* Values for model-checking Omt. *)
EXTENDS Omt, TLC

CONSTANTS h1, h2, h3

\* A callback of iterate_ptr that keeps the order of the values.
MCRewrite == [v \in Value |-> IF v = 1 THEN 2 ELSE v]

Handles1 == {h1}
Handles3 == {h1, h2, h3}
Symmetry3 == Permutations(Handles3)

Used(marks, ordered, max, values) ==
    [marks |-> marks, ordered |-> ordered, max |-> max, values |-> values]

\* One omt: deep trees, edits by position, sorted for lookups, with marks.
SingleUses == {Used(FALSE, FALSE, 7, {1}), Used(FALSE, FALSE, 5, {1, 2}),
               Used(FALSE, TRUE, 4, {1, 2, 3}), Used(TRUE, FALSE, 4, {1, 2})}
\* Several omts, without and with marks.
SeveralUses == {Used(FALSE, FALSE, 2, {1, 2}), Used(TRUE, FALSE, 2, {1, 2})}
=============================================================================
