---------------------------- MODULE OmtCapacity ----------------------------
(***************************************************************************)
(* The arithmetic by which an omt decides how many slots to allocate, when *)
(* to reallocate and when a subtree is too lopsided.  Shared by Omt, where *)
(* TLC checks it on real trees, and OmtStorage, where it is proved safe    *)
(* for every size.  Numbers are unbounded: omt.cc computes in uint32_t and *)
(* no process holds the 2^30 values it takes to wrap.                      *)
(***************************************************************************)
EXTENDS Integers

\* Slots for n values: max(4, 2n), in maybe_resize_*, convert_to_array and convert_to_tree alike.
SizeFor(n) == IF n <= 2 THEN 4 ELSE 2 * n

\* maybe_resize_array(n): no room for n values behind start, or twice as much as needed.
ArrayMustMove_Grow(capacity, start, n) == capacity - start < n  \* mutant: never shrinks
ArrayMustMove(capacity, start, n) ==
    \/ capacity - start < n
    \/ capacity \div 2 >= SizeFor(n)

\* The tree branch of maybe_resize_or_convert(n).
TreeMustConvert_Live(capacity, free_idx, size, n) ==  \* mutant: freed nodes counted as room
    \/ capacity \div 2 >= SizeFor(n)
    \/ capacity < n
TreeMustConvert(capacity, free_idx, size, n) ==
    \/ capacity \div 2 >= SizeFor(n)
    \/ free_idx >= capacity /\ size < n
    \/ capacity < n

\* will_need_rebalance: one side, plus one, is under half of the other, rounded up.
Lopsided(wl, wr) == 1 + wl < (2 + wr) \div 2 \/ 1 + wr < (2 + wl) \div 2
=============================================================================
