------------------------------- MODULE MCAuth -------------------------------
(* Auth on a small instance.                                               *)
EXTENDS Auth

CONSTANTS ann, bob

\* Past already, none, odd, and longer than the BFF's.
MCDevTTLs == {-2, 0, 3, 7}
=============================================================================
