------------------------- MODULE EndpointLifecycle -------------------------
(***************************************************************************)
(* What the rest of the system may rely on about the state of an endpoint  *)
(* (models/endpoint.py, EndpointState; docs/user_manual/endpoints.md),     *)
(* whoever writes it: authentications, the API, the retention jobs.        *)
(*   - only a MAB endpoint is ever discovered or pending;                  *)
(*   - a MAB endpoint rejected when it is first seen is discovered;        *)
(*   - discovered is a first state: an endpoint is never brought back to   *)
(*     it, and a rejection leaves it there;                                *)
(*   - a state changes by an acceptance, a rejection, or the API putting   *)
(*     the endpoint back to pending.                                       *)
(***************************************************************************)
CONSTANTS
  Endpoints,      \* what identifies an endpoint: (username, calling_station_id)
  MacEndpoints    \* those whose username is a MAC address

VARIABLE state    \* the state of each endpoint, "absent" when it has no row

States == {"discovered", "rejected", "pending", "authorized"}

TypeOK == state \in [Endpoints -> States \cup {"absent"}]

Init == state = [e \in Endpoints |-> "absent"]

Become(e, s) == state' = [state EXCEPT ![e] = s]

\* What a rejection makes of an endpoint that is first seen: "A rejected MAB endpoint that
\* is first seen" is discovered (endpoints.md).
FirstRejection(e) == IF e \in MacEndpoints THEN "discovered" ELSE "rejected"

\* An endpoint without a row is seen on the network.
FirstSeen(e) ==
  /\ state[e] = "absent"
  /\ \E s \in {FirstRejection(e), "authorized"} : Become(e, s)

\* The API adds a MAB endpoint, or moves one to another group.
Await(e) ==
  /\ e \in MacEndpoints
  /\ Become(e, "pending")

Accept(e) ==
  /\ state[e] # "absent"
  /\ Become(e, "authorized")

Reject(e) ==
  /\ state[e] \in {"pending", "authorized"}
  /\ Become(e, "rejected")

\* The API deletes an endpoint, a job all that are no longer seen.
Remove(gone) == state' = [e \in Endpoints |-> IF e \in gone THEN "absent" ELSE state[e]]

Next ==
  \/ \E gone \in SUBSET Endpoints : Remove(gone)
  \/ \E e \in Endpoints : FirstSeen(e) \/ Await(e) \/ Accept(e) \/ Reject(e)

Spec == Init /\ [][Next]_state
=============================================================================
