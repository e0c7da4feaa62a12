-------------------------- MODULE ArchivePromise ---------------------------
(* What the archive promises of the recordings it holds, whatever form they *)
(* are in and whatever crashes: one arrives, and only ages out while a      *)
(* newer one stays (the rules of Sweep, backend/internal/archive).          *)
EXTENDS Integers

CONSTANT Recs      \* recordings, by their place in time
VARIABLE held

Arrive(r) == held' = held \cup {r}

AgeOut(r) == /\ r \in held
             /\ \E s \in held : s > r
             /\ held' = held \ {r}

Init == held = {}
Next == \E r \in Recs : Arrive(r) \/ AgeOut(r)
Spec == Init /\ [][Next]_held
=============================================================================
