-------------------------- MODULE MCPolicySelection --------------------------
(***************************************************************************)
(* Two policies with one or two conditions each: on the endpoint group, on *)
(* a text attribute, on the ldap_groups list.  "5" is both the name of a   *)
(* port and what str() makes of group g5, as on a switch that numbers its  *)
(* ports; a condition on the port may give it as an integer, which the     *)
(* filter misreads, or as no text at all, which raises.                    *)
(***************************************************************************)
EXTENDS PolicySelection

CONSTANTS g5, g7, p1, p2

MCTexts == {"5", "7", "staff", ""}
MCGroups == {g5, g7}
MCAttributes == {"group_id", "nas_port_id", "ldap_groups"}
MCDecimal == [g \in MCGroups |-> IF g = g5 THEN "5" ELSE "7"]
MCTextMatch == [op \in TextOperators |-> {<<t, t>> : t \in MCTexts}]
MCPolicyIds == {p1, p2}

Condition(attribute, operator, value) ==
  [attribute |-> attribute, operator |-> operator,
   value_ref |-> IF value \in MCGroups THEN None ELSE value,
   group_id  |-> IF value \in MCGroups THEN value ELSE None]

OnGroup(g) == Condition("group_id", "==", g)
OnPort == Condition("nas_port_id", "==", "5")
NotOnPort == Condition("nas_port_id", "!=", "5")
OnPortNumber == Condition("nas_port_id", "==", g5)
OnNoPort == Condition("nas_port_id", "==", "")
OnList == Condition("ldap_groups", "in_list", "staff")

ConditionLists ==
  {<<c>> : c \in {OnGroup(g5), OnGroup(g7), OnPort, OnPortNumber, OnNoPort, OnList}}
  \cup {<<c, d>> : c \in {OnGroup(g5), OnGroup(g7)},
                  d \in {OnPort, NotOnPort, OnPortNumber, OnNoPort, OnGroup(g7)}}

Policy(conditions, logic, priority, client) ==
  [enabled |-> TRUE, client_type |-> client, port_type |-> None,
   match_logic |-> logic, conditions |-> conditions, priority |-> priority]

MCPolicyRows ==
  {Policy(c, l, n, None) : c \in ConditionLists, l \in {"AND", "OR"}, n \in {1, 2}}
  \cup {Policy(<<OnPort>>, "AND", 1, "EAP"),
        [Policy(<<OnPort>>, "AND", 1, None) EXCEPT !.enabled = FALSE]}

Text(t) == [text |-> t, items |-> {}]

MCAuths ==
  {[client_type |-> "MAB", nas_port_type |-> "Ethernet",
    data |-> [nas_port_id |-> Text(t), ldap_groups |-> [text |-> "7", items |-> l]]] :
      t \in {"5", "7"}, l \in {{}, {"staff"}}}
=============================================================================
