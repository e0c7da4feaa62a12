--------------------------------- MODULE MCAvi ---------------------------------
(***************************************************************************)
(* Small instances of Avi: frames of an odd and of an even length, at once,   *)
(* fast and slow, in files cut short anywhere.                              *)
(***************************************************************************)
EXTENDS Avi

(* Every field of the header, and the middle of one. *)
SomeMarks == {0, 4, 8, 12, 14, 20, 24, 64, 88, 100, 140, 212, 216, 220, 223}
=============================================================================
