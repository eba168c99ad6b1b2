----------------------------- MODULE MCDebugLogs -----------------------------
(***************************************************************************)
(* A small instance of DebugLogs: two nodes, which no property tells apart.*)
(***************************************************************************)
EXTENDS DebugLogs, TLC

CONSTANTS n1, n2

Interchangeable == Permutations(Nodes)
=============================================================================
