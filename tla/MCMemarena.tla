----------------------------- MODULE MCMemarena -----------------------------
(* Values for model-checking Memarena. *)
EXTENDS Memarena, TLC

\* Arenas and addresses are only compared with one another.
Symmetries == Permutations(Arena) \cup Permutations(Buf)
=============================================================================
