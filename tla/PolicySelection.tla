-------------------------- MODULE PolicySelection --------------------------
(***************************************************************************)
(* How post_auth (api_internal/auth.py) arrives at the policy of a         *)
(* request: the endpoint's group is read, one statement returns the        *)
(* policies that pass its filters, and a loop reads that result one row at *)
(* a time, in the order of priority, until a row matches.  The filter on   *)
(* group conditions is an optimisation: but for the rows it misreads, the  *)
(* loop must settle on the policy it would have settled on without it.     *)
(***************************************************************************)
EXTENDS PolicyRules

CONSTANTS
  PolicyIds,   \* policy.id
  PolicyRows,  \* the policy rows the administrator may store
  Auths        \* requests, as [client_type, nas_port_type, data]

ASSUME PolicyRowsAssumption ==
  /\ \A p \in PolicyRows : IsPolicy(p)
  /\ None \notin PolicyRows /\ None \notin PolicyIds

VARIABLES
  policies,    \* the table: a row, or None, for each id
  auth,        \* the request
  group,       \* the endpoint's group_id; None without an endpoint or a group
  rows,        \* ids the statement returned and the loop has not read yet
  matched,     \* matched_policy
  pc

vars == <<policies, auth, group, rows, matched, pc>>

Init ==
  /\ policies \in [PolicyIds -> PolicyRows \cup {None}]
  /\ auth \in Auths
  /\ group \in Groups \cup {None}
  /\ rows = {}
  /\ matched = None
  /\ pc = "query"

\* db.stream_scalars(stmt)
Query ==
  /\ pc = "query"
  /\ rows' = QueryResult(policies, auth, group)
  /\ pc' = "loop"
  /\ UNCHANGED <<policies, auth, group, matched>>

\* One turn of the loop: the next row of the result.
ReadRow ==
  /\ pc = "loop"
  /\ \E id \in FirstByPriority(policies, rows) :
       \/ /\ EvaluationRaises(policies[id], auth.data, group)
          /\ pc' = "failed"
          /\ UNCHANGED <<rows, matched>>
       \/ /\ EvaluatePolicy(policies[id], auth.data, group)
          /\ matched' = id
          /\ pc' = "done"
          /\ UNCHANGED rows
       \/ /\ ~ EvaluationRaises(policies[id], auth.data, group)
          /\ ~ EvaluatePolicy(policies[id], auth.data, group)
          /\ rows' = rows \ {id}
          /\ UNCHANGED <<matched, pc>>
  /\ UNCHANGED <<policies, auth, group>>

\* The loop's else branch.
NoMoreRows ==
  /\ pc = "loop" /\ rows = {}
  /\ pc' = "done"
  /\ UNCHANGED <<policies, auth, group, rows, matched>>

Next == Query \/ ReadRow \/ NoMoreRows

Spec == Init /\ [][Next]_vars

-----------------------------------------------------------------------------
TypeOK ==
  /\ policies \in [PolicyIds -> PolicyRows \cup {None}]
  /\ auth \in Auths
  /\ group \in Groups \cup {None}
  /\ rows \subseteq {id \in PolicyIds : policies[id] # None}
  /\ matched \in PolicyIds \cup {None}
  /\ pc \in {"query", "loop", "done", "failed"}

\* The reference: an applicable policy whose conditions hold, filter or no filter.
Matches(id) ==
  /\ policies[id] # None
  /\ Applicable(policies[id], auth)
  /\ EvaluatePolicy(policies[id], auth.data, group)

\* A policy that matches, and that the filter does not take for one that cannot.
Eligible(id) == Matches(id) /\ ~ MisreadByFilter(policies[id], group)

\* The policy a request is judged by is one that matches it, and no policy that matches
\* it comes earlier: neither the filter on group conditions nor the order of the rows
\* may hide a policy of lower priority number (auth.py, "We will never match that
\* policy"), but for a policy with an integer value under another attribute than the
\* group (MisreadByFilter).
MatchedIsFirst ==
  matched # None =>
    /\ Matches(matched)
    /\ \A id \in PolicyIds :
         Eligible(id) => policies[matched].priority <= policies[id].priority

\* A request is rejected for want of a policy only if no policy matches it but such as
\* the filter misreads.
NoMatchOnlyIfNone ==
  pc = "done" /\ matched = None => \A id \in PolicyIds : ~ Eligible(id)

\* A condition without a value (models/policy.py, "assert self.value_ref") ends in an
\* exception only the requests that no earlier policy matches: a request fails at a
\* policy whose evaluation raises, and none that matches has a lower priority number.
FailureIsFirst ==
  pc = "failed" =>
    \E broken \in PolicyIds :
      /\ policies[broken] # None
      /\ EvaluationRaises(policies[broken], auth.data, group)
      /\ \A id \in PolicyIds :
           Eligible(id) => policies[broken].priority <= policies[id].priority
=============================================================================
