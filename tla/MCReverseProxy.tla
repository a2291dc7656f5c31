--------------------------- MODULE MCReverseProxy ---------------------------
(* Small instances of ReverseProxy for TLC.                                 *)
EXTENDS ReverseProxy
=============================================================================
