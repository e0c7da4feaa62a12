-------------------------------- MODULE MCCard --------------------------------
(***************************************************************************)
(* Small instances of Card: three days of two or three pages, and a directory   *)
(* or two from before the clock was set.                                    *)
(***************************************************************************)
EXTENDS Card

(* Days 1 to 3; the last directory, or the last two, have a number for a name. *)
SomeDirs   == <<1, 4, 1, 1, 2, 2, 3>>
SomeOrder  == <<3, 4, 1, 2>>
LongDay    == <<2, 1, 1, 1, 1, 1, 1>>
LongOrder  == <<2, 1>>
ManyDirs   == <<3, 4, 1, 2>>
ManyOrder  == <<3, 4, 1, 2>>
Oldest     == [i \in 1..Total |-> i]
Newest     == [i \in 1..Total |-> Total + 1 - i]
=============================================================================
