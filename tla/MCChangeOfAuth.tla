--------------------------- MODULE MCChangeOfAuth ---------------------------
(***************************************************************************)
(* A small instance of ChangeOfAuth: a device with a MAC address and as a  *)
(* user, and another device.                                               *)
(***************************************************************************)
EXTENDS ChangeOfAuth, TLC

CONSTANTS mab1, alice1, mab2, m1, m2, p1, p2, n1, n2

MCMacOf == [e \in Endpoints |-> IF e = mab2 THEN m2 ELSE m1]
MCNamesOf == [p \in Ports |-> IF p = p1 THEN {"sw", ""} ELSE {"sw"}]
MCNasOf == [p \in Ports |-> IF p = p1 THEN {n1} ELSE {n1, n2}]
=============================================================================
