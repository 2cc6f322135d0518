--------------------------- MODULE MCCandleBuilder ---------------------------
(* One instrument, minutes of two seconds and a session of three minutes. *)
EXTENDS CandleBuilder

CONSTANT k1
=============================================================================
