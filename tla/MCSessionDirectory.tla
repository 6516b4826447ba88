------------------------- MODULE MCSessionDirectory -------------------------
(* One capture, a strict and a diagnostic replay with the same output path.  *)
EXTENDS SessionDirectory
=============================================================================
