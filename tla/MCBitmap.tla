------------------------------ MODULE MCBitmap ------------------------------
(* Values for model-checking Bitmap. *)
EXTENDS Bitmap

\* Empty, full, a prefix, every other position, and each with padding set.
MCOperand(w) ==
    LET bits == {0, 2^w - 1, 2^(w - 1) - 1, MapThenSumSet(LAMBDA n : 2^n, {n \in 0 .. w - 1 : n % 2 = 1})}
    IN  bits \cup {x + 2^SizeofBuffer(w) - 2^w : x \in bits}
=============================================================================
