---------------------------- MODULE MCRetention ----------------------------
(***************************************************************************)
(* A small instance of Retention: every job keeps its endpoints a day.     *)
(***************************************************************************)
EXTENDS Retention, TLC

CONSTANTS mac1, alice1, p1

MCJobDays == [j \in EndpointJobs |-> 1]

\* Nobody is seen after the second day.
SeenByThen == \A u \in Users : seen[u] # None => seen[u] <= 5
=============================================================================
