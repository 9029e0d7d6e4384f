------------------------- MODULE MCDownstreamRoute -------------------------
(* Model-checking instance of DownstreamRoute: calls are model values.      *)
EXTENDS DownstreamRoute

CONSTANTS c1, c2

TwoCalls == {c1, c2}
=============================================================================
