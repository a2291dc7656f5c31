--------------------------- MODULE MCUpstreamPool ---------------------------
(* Small instances of UpstreamPool for TLC.                                 *)
EXTENDS UpstreamPool

CONSTANTS u1, u2

TwoUsers == {u1, u2}
=============================================================================
