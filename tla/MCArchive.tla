----------------------------- MODULE MCArchive -----------------------------
(* Archive on two cameras: one with a card, one the service records for.    *)
EXTENDS Archive

(* The first two recordings share a day. *)
MCDayOf == [r \in Recs |-> IF r <= 2 THEN 1 ELSE 2]
=============================================================================
