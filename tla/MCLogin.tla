------------------------------ MODULE MCLogin -------------------------------
(* Login with small sets of threads.                                        *)
EXTENDS Login
=============================================================================
