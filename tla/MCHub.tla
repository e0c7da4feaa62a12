------------------------------- MODULE MCHub -------------------------------
(* Hub with a few viewers and pumps.                                        *)
EXTENDS Hub
=============================================================================
