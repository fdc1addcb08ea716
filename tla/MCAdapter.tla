----------------------------- MODULE MCAdapter -----------------------------
(* Constants for checking Adapter: silence, half of a scale of two steps,  *)
(* and a volume that is not a number.                                      *)
EXTENDS Adapter

MCLoudness == {-3, -1, 3}
=============================================================================
