------------------------------- MODULE MCWbuf -------------------------------
(* Values for model-checking Wbuf: strings up to one that fits no buffer. *)
EXTENDS Wbuf

MCLiteral == {<<>>, <<1, 2>>, <<0, 1, 2, 0, 1, 2>>}
=============================================================================
