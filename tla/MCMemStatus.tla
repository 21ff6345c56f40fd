---------------------------- MODULE MCMemStatus ----------------------------
(* Values for model-checking MemStatus. *)
EXTENDS MemStatus

\* An allocator that may give one byte more than asked for.
MCUsable == [s \in Size |-> IF s = 1 THEN {2} ELSE {s}]
=============================================================================
