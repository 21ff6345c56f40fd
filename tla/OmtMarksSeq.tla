----------------------------- MODULE OmtMarksSeq -----------------------------
(* The omt whose marks OmtMarks describes is a sequence with marked slots. *)
EXTENDS OmtMarks

CONSTANTS Omt, Absent,  \* the omt, as OmtSeq names it
          Held          \* the values it holds, by slot

ASSUME HeldAssumption == Held \in Seq(Int) /\ Len(Held) = Weight[Root] /\ Held # Absent

Kind == [marks |-> TRUE, ordered |-> FALSE, max |-> Len(Held),
         values |-> {Held[i] : i \in DOMAIN Held}]

Sequence == INSTANCE OmtSeq WITH
    Handle <- {Omt}, Value <- Kind.values, Rewrite <- [v \in Kind.values |-> v], Uses <- {Kind},
    contents <- [x \in {Omt} |-> Held], marked <- [x \in {Omt} |-> MarkedSlots], use <- Kind

\* Each step of each thread marks the value of one slot, as omt.h promises of
\* iterate_and_mark_range for one caller, or leaves the marks as they are.
ImplementsMarking ==
    [][\E slot \in Slots : Sequence!SeqMarkRange(Omt, slot, slot + 1)]_(Sequence!seqVars)
=============================================================================
