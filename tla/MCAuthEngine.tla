---------------------------- MODULE MCAuthEngine ----------------------------
(***************************************************************************)
(* Small instances of AuthEngine.  "mab" is a MAB endpoint, alice a user   *)
(* with two devices.  A switch may be renamed, and replaced under its name.*)
(***************************************************************************)
EXTENDS AuthEngine, TLC

CONSTANTS mab, alice1, alice2, g1, p1, r1, r2, r3, sw1, sw2, m1, m2

MCTexts == {"mab", "alice", "1", ""}
MCGroups == {g1}
MCAttributes == {"group_id", "username"}
MCDecimal == [g \in MCGroups |-> "1"]
MCTextMatch == [op \in TextOperators |-> {<<t, t>> : t \in MCTexts}]

MabAndAlice == {mab, alice1}
AllEndpoints == {mab, alice1, alice2}
Mab == {mab}
MCUserOf == [e \in Endpoints |-> IF e = mab THEN "mab" ELSE "alice"]

MCAuthOf ==
  [e \in Endpoints |-> [p \in Places |->
     [client_type |-> IF e \in MacEndpoints THEN "MAB" ELSE "EAP",
      nas_port_type |-> "Ethernet",
      data |-> [username |-> [text |-> UserOf[e], items |-> {}]]]]]

Condition(attribute, value) ==
  [attribute |-> attribute, operator |-> "==",
   value_ref |-> IF value \in MCGroups THEN None ELSE value,
   group_id  |-> IF value \in MCGroups THEN value ELSE None]

Policy(conditions, locking, reject) ==
  [enabled |-> TRUE, client_type |-> None, port_type |-> None, match_logic |-> "OR",
   conditions |-> conditions, priority |-> 1, port_locking |-> locking,
   final_reject |-> reject]

OnGroup == Condition("group_id", g1)
OnMab == Condition("username", "mab")
OnNothing == Condition("username", "")

\* Every kind of policy for one endpoint of each kind; one has a condition without a value,
\* which any() comes to only for alice.
OverlapRows ==
  {Policy(<<OnGroup>>, None, FALSE), Policy(<<OnMab>>, None, TRUE),
   Policy(<<OnMab, OnNothing>>, "switch_port", FALSE)}

\* Requests are interchangeable, and so are the names and the addresses of switches: no
\* action and no invariant tells two of them apart but by comparing them.
Interchangeable ==
  Permutations(Requests) \cup Permutations(SwitchNames) \cup Permutations(SwitchMacs)
=============================================================================
