------------------------------ MODULE MCSession ------------------------------
(* Small instances of Session for TLC: two or three calls at once.          *)
EXTENDS Session
=============================================================================
