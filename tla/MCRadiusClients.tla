-------------------------- MODULE MCRadiusClients --------------------------
(***************************************************************************)
(* A small instance of RadiusClients: a switch inside a small network, a   *)
(* large network around it.                                                *)
(***************************************************************************)
EXTENDS RadiusClients, TLC

CONSTANTS c1, a1, small, other, large, i1, i2, s1, s2

MCHosts == [n \in Networks |-> IF n = other THEN {} ELSE {a1}]
MCAddresses == [n \in Networks |-> IF n = other THEN {} ELSE {a1}]
MCClients == [id : ClientIds, network : Networks, secret : Secrets]
=============================================================================
