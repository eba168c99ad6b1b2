---------------------------- MODULE PolicyRules ----------------------------
(***************************************************************************)
(* The policy engine as pure operators: which conditions hold of a request *)
(* (core/rule_engine.py), which policies the query of post_auth returns    *)
(* (api_internal/auth.py, the WHERE clause and the filter on group         *)
(* conditions), and which policy the loop over its result settles on.      *)
(*                                                                         *)
(* Strings are opaque members of Texts.  What the code asks of two strings *)
(* is a constant: TextMatch gives the pairs <<pattern, subject>> for which *)
(* each of the operators "in", startswith, endswith and regex holds.  A    *)
(* request attribute is [text, items]: the string str() makes of it, and   *)
(* the members of the list it is, {} when it is not a list (only           *)
(* ldap_groups is one).                                                    *)
(***************************************************************************)
EXTENDS Naturals, Sequences

CONSTANTS
  Texts,       \* strings
  Groups,      \* endpoint_group.id
  Attributes,  \* names a condition may name: the request's fields and "group_id"
  None,        \* NULL in the database, None in Python
  Decimal,     \* str() of a group id
  TextMatch    \* the pairs <<pattern, subject>> of each text operator

TextOperators == {"in", "startswith", "endswith", "regex"}

ASSUME DecimalAssumption == Decimal \in [Groups -> Texts]
ASSUME TextMatchAssumption == TextMatch \in [TextOperators -> SUBSET (Texts \X Texts)]
ASSUME NoneAssumption == None \notin Groups /\ None \notin Texts
ASSUME KindsAssumption == Groups \cap Texts = {}

ConditionOperators == TextOperators \cup {"==", "!=", "in_list"}

\* What the column pair value_ref / group_id of a condition row holds, when it can be read.
ConditionValue(c) == IF c.group_id # None THEN c.group_id ELSE c.value_ref

AsText(v) == IF v \in Groups THEN Decimal[v] ELSE v

CompareTexts(op, pattern, subject) ==
  \/ op = "==" /\ subject = pattern
  \/ op = "!=" /\ subject # pattern
  \/ op \in TextOperators /\ <<pattern, subject>> \in TextMatch[op]

\* The property `value` asserts that a text is not empty (AssertionError).  It is read for
\* every attribute, and for "group_id" when the endpoint has a group.
ValueRaises(c, group) ==
  /\ c.group_id = None /\ c.value_ref = ""
  /\ c.attribute = "group_id" => group # None

\* evaluate_condition, when the value can be read: data maps the attributes the request
\* carries.
EvaluateCondition(c, data, group) ==
  IF c.attribute = "group_id"
  THEN group # None /\ ConditionValue(c) = group
  ELSE /\ c.attribute \in DOMAIN data
       /\ IF c.operator = "in_list"
          THEN ConditionValue(c) \in data[c.attribute].items
          ELSE CompareTexts(c.operator, AsText(ConditionValue(c)), data[c.attribute].text)

\* all() and any() come to a condition whose value raises: none before it decides.
EvaluationRaises(p, data, group) ==
  \E i \in DOMAIN p.conditions :
    /\ ValueRaises(p.conditions[i], group)
    /\ \A j \in 1..(i - 1) :
         EvaluateCondition(p.conditions[j], data, group) <=> p.match_logic = "AND"

\* evaluate_policy returns True.
EvaluatePolicy(p, data, group) ==
  LET holds(i) == EvaluateCondition(p.conditions[i], data, group)
  IN  /\ p.conditions # <<>>
      /\ ~ EvaluationRaises(p, data, group)
      /\ IF p.match_logic = "AND"
         THEN \A i \in DOMAIN p.conditions : holds(i)
         ELSE \E i \in DOMAIN p.conditions : holds(i)

\* The first WHERE of the statement: enabled, and for this kind of client and port.
Applicable(p, auth) ==
  /\ p.enabled
  /\ p.client_type \in {auth.client_type, None}
  /\ p.port_type \in {auth.nas_port_type, None}

\* Fault: the filter of an endpoint without a group, applied to every endpoint.
FilteredOutOwnGroup(p, group) ==
  /\ Len(p.conditions) = 1 \/ p.match_logic = "AND"
  /\ \E i \in DOMAIN p.conditions : p.conditions[i].group_id # None

\* The second WHERE: drop what a condition on another group (or, for an endpoint
\* without a group, on any group) is said to make unmatchable.  NULL never differs.
FilteredOut(p, group) ==
  /\ Len(p.conditions) = 1 \/ p.match_logic = "AND"
  /\ \E i \in DOMAIN p.conditions : p.conditions[i].group_id \notin {None, group}

\* The ids of the rows the statement returns.
QueryResult(policies, auth, group) ==
  {id \in DOMAIN policies : /\ policies[id] # None
                            /\ Applicable(policies[id], auth)
                            /\ ~ FilteredOut(policies[id], group)}

\* Fault: ORDER BY priority DESC.
LastByPriority(policies, ids) ==
  {id \in ids : \A other \in ids : policies[id].priority >= policies[other].priority}

\* The rows of `ids` the ORDER BY may put first: equal priorities come in any order.
FirstByPriority(policies, ids) ==
  {id \in ids : \A other \in ids : policies[id].priority <= policies[other].priority}

\* The policies the loop may end at, by a match or by an exception; {} when it reads all.
Selectable(policies, auth, group) ==
  FirstByPriority(policies,
    {id \in QueryResult(policies, auth, group) :
       \/ EvaluatePolicy(policies[id], auth.data, group)
       \/ EvaluationRaises(policies[id], auth.data, group)})

-----------------------------------------------------------------------------
\* A policy_condition row: exactly one of the two value columns is set.
ConditionRows ==
  {c \in [attribute : Attributes, operator : ConditionOperators,
          value_ref : Texts \cup {None}, group_id : Groups \cup {None}] :
     (c.value_ref = None) # (c.group_id = None)}

\* A policy row the API stores: at least one condition (schemas/policy.py).
IsPolicy(p) ==
  /\ p.conditions \in Seq(ConditionRows) \ {<<>>}
  /\ p.match_logic \in {"AND", "OR"}
  /\ p.priority \in Nat

\* The filter takes every condition with a group_id for one on the group.  The API stores
\* an integer value in that column whatever the attribute (models/policy.py, the setter
\* of value): a policy with such a condition on another attribute is taken for one that
\* cannot match.
MisreadByFilter(p, group) ==
  /\ Len(p.conditions) = 1 \/ p.match_logic = "AND"
  /\ \E i \in DOMAIN p.conditions : /\ p.conditions[i].attribute # "group_id"
                                     /\ p.conditions[i].group_id \notin {None, group}
=============================================================================
