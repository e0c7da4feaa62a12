----------------------------- MODULE MCDiscovery -----------------------------
(***************************************************************************)
(* Small instances of Discovery: a camera that is on the network and         *)
(* another web server that is not there yet.                                *)
(***************************************************************************)
EXTENDS Discovery

CONSTANTS cam, printer, ip1, ip2

JustTheCamera == [n \in {cam, printer} |-> IF n = cam THEN ip1 ELSE None]
=============================================================================
