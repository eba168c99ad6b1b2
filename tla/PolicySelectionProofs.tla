----------------------- MODULE PolicySelectionProofs -----------------------
(***************************************************************************)
(* For any policies the API can store: the filter of post_auth on group    *)
(* conditions hides no policy that matches, but for those it misreads, and *)
(* the loop settles on the policy the rules ask for, or fails at one whose *)
(* evaluation raises before any that matches.                              *)
(***************************************************************************)
EXTENDS PolicySelection, TLAPS

-----------------------------------------------------------------------------
(* The filter *)

\* A condition on another group than the endpoint's does not hold, and none on a group
\* holds of an endpoint without one (evaluate_condition).
LEMMA OtherGroupFails ==
  ASSUME NEW c, c.attribute = "group_id", NEW data,
         NEW g \in Groups \cup {None}, c.group_id \notin {None, g}
  PROVE  ~ EvaluateCondition(c, data, g)
  BY DEF EvaluateCondition, ConditionValue

\* What the second WHERE drops cannot match: the comments beside it are right, but of
\* policies with an integer value under another attribute than the group.
LEMMA FilteredOutNeverMatches ==
  ASSUME NEW p, IsPolicy(p), NEW data, NEW g \in Groups \cup {None},
         FilteredOut(p, g), ~ MisreadByFilter(p, g)
  PROVE  ~ EvaluatePolicy(p, data, g)
<1>1. PICK i \in DOMAIN p.conditions : p.conditions[i].group_id \notin {None, g}
  BY DEF FilteredOut
<1>2. ~ EvaluateCondition(p.conditions[i], data, g)
  <2>1. p.conditions[i].attribute = "group_id"
    BY <1>1 DEF FilteredOut, MisreadByFilter
  <2> QED
    BY <1>1, <2>1, OtherGroupFails
<1>3. CASE p.match_logic = "AND"
  BY <1>2, <1>3 DEF EvaluatePolicy
<1>4. CASE Len(p.conditions) = 1
  <2>1. p.conditions \in Seq(ConditionRows)
    BY DEF IsPolicy
  <2>2. DOMAIN p.conditions = {i}
    BY <1>1, <1>4, <2>1
  <2> QED
    BY <1>2, <2>2 DEF EvaluatePolicy
<1> QED
  BY <1>3, <1>4 DEF FilteredOut

\* The statement returns every policy that matches and is not misread.
LEMMA EligibleAreReturned ==
  ASSUME TypeOK, NEW id \in PolicyIds, Eligible(id)
  PROVE  id \in QueryResult(policies, auth, group)
<1>1. policies[id] \in PolicyRows /\ DOMAIN policies = PolicyIds /\ group \in Groups \cup {None}
  BY DEF TypeOK, Matches, Eligible
<1>2. IsPolicy(policies[id])
  BY <1>1, PolicyRowsAssumption
<1>3. ~ FilteredOut(policies[id], group)
  BY <1>1, <1>2, FilteredOutNeverMatches DEF Matches, Eligible
<1> QED
  BY <1>1, <1>3 DEF QueryResult, Matches, Eligible

-----------------------------------------------------------------------------
(* The loop *)

\* Every policy that matches and is not misread is still to be read, until the loop ends.
Unread ==
  \A id \in PolicyIds : Eligible(id) => id \in rows

\* The loop has read only rows that do not match.
SelectionInv ==
  /\ pc = "query" => matched = None
  /\ pc = "loop" => /\ matched = None /\ Unread
                    /\ rows \subseteq QueryResult(policies, auth, group)
  /\ MatchedIsFirst
  /\ NoMatchOnlyIfNone
  /\ FailureIsFirst

\* Every variable of the selection has its type.
LEMMA TypeStep == TypeOK /\ [Next]_vars => TypeOK'
<1> SUFFICES ASSUME TypeOK, [Next]_vars
             PROVE  TypeOK'
  OBVIOUS
<1>1. CASE Query
  BY <1>1 DEF Query, TypeOK, QueryResult
<1>2. CASE ReadRow
  <2>1. PICK id \in FirstByPriority(policies, rows) :
          \/ UNCHANGED <<rows, matched>>
          \/ matched' = id /\ UNCHANGED rows
          \/ rows' = rows \ {id} /\ UNCHANGED matched
    BY <1>2 DEF ReadRow
  <2>2. id \in PolicyIds
    BY <2>1 DEF FirstByPriority, TypeOK
  <2>3. pc' \in {"loop", "done", "failed"} /\ UNCHANGED <<policies, auth, group>>
    BY <1>2 DEF ReadRow
  <2> QED
    BY <2>1, <2>2, <2>3 DEF TypeOK
<1>3. CASE NoMoreRows
  BY <1>3 DEF NoMoreRows, TypeOK
<1>4. CASE UNCHANGED vars
  BY <1>4 DEF vars, TypeOK
<1> QED
  BY <1>1, <1>2, <1>3, <1>4 DEF Next

\* Reading the result keeps every such policy unread, until the first by priority that
\* ends the loop.
LEMMA SelectionStep ==
  ASSUME TypeOK, SelectionInv, [Next]_vars
  PROVE  SelectionInv'
<1>1. CASE Query
  <2>1. rows' = QueryResult(policies, auth, group) /\ pc' = "loop" /\ matched' = None
        /\ UNCHANGED <<policies, auth, group>>
    BY <1>1 DEF Query, SelectionInv
  <2>2. \A id \in PolicyIds : Eligible(id)' => Eligible(id)
    BY <2>1 DEF Eligible, Matches
  <2>3. Unread'
    BY <2>1, <2>2, EligibleAreReturned DEF Unread
  <2> QED
    BY <2>1, <2>3 DEF SelectionInv, MatchedIsFirst, NoMatchOnlyIfNone, FailureIsFirst
<1>2. CASE ReadRow
  <2>1. PICK id \in FirstByPriority(policies, rows) :
          \/ /\ EvaluationRaises(policies[id], auth.data, group)
             /\ pc' = "failed" /\ UNCHANGED <<rows, matched>>
          \/ /\ EvaluatePolicy(policies[id], auth.data, group)
             /\ matched' = id /\ pc' = "done" /\ UNCHANGED rows
          \/ /\ ~ EvaluatePolicy(policies[id], auth.data, group)
             /\ rows' = rows \ {id} /\ UNCHANGED <<matched, pc>>
    BY <1>2 DEF ReadRow
  <2>2. pc = "loop" /\ UNCHANGED <<policies, auth, group>>
    BY <1>2 DEF ReadRow
  <2>3. /\ matched = None /\ Unread /\ rows \subseteq QueryResult(policies, auth, group)
        /\ id \in rows /\ id \in QueryResult(policies, auth, group)
    BY <2>1, <2>2 DEF SelectionInv, FirstByPriority
  <2>4. id \in PolicyIds /\ policies[id] # None /\ Applicable(policies[id], auth)
    BY <2>3 DEF QueryResult, TypeOK
  <2>5. \A other \in PolicyIds : (Matches(other) => Matches(other)') /\ (Eligible(other)' => Eligible(other))
    BY <2>2 DEF Matches, Eligible
  <2>6. \A other \in PolicyIds :
          Eligible(other) => policies[id].priority <= policies[other].priority
    BY <2>1, <2>3 DEF FirstByPriority, Unread
  <2>7. CASE EvaluationRaises(policies[id], auth.data, group) /\ pc' = "failed"
             /\ UNCHANGED <<rows, matched>>
    <3>1. pc' = "failed" /\ matched' = None
      BY <2>3, <2>7
    <3>2. FailureIsFirst'
      BY <2>2, <2>4, <2>5, <2>6, <2>7 DEF FailureIsFirst
    <3> QED
      BY <3>1, <3>2 DEF SelectionInv, MatchedIsFirst, NoMatchOnlyIfNone
  <2>8. CASE EvaluatePolicy(policies[id], auth.data, group) /\ matched' = id /\ pc' = "done"
    <3>1. Matches(id) /\ id # None
      BY <2>4, <2>8, PolicyRowsAssumption DEF Matches
    <3> QED
      BY <2>2, <2>4, <2>5, <2>6, <2>8, <3>1
         DEF SelectionInv, MatchedIsFirst, NoMatchOnlyIfNone, FailureIsFirst
  <2>9. CASE ~ EvaluatePolicy(policies[id], auth.data, group) /\ rows' = rows \ {id}
             /\ UNCHANGED <<matched, pc>>
    <3>1. ~ Eligible(id)
      BY <2>9 DEF Matches, Eligible
    <3>2. Unread'
      BY <2>3, <2>5, <2>9, <3>1 DEF Unread
    <3> QED
      BY <2>2, <2>3, <2>9, <3>2 DEF SelectionInv, MatchedIsFirst, NoMatchOnlyIfNone, FailureIsFirst
  <2> QED
    BY <2>1, <2>7, <2>8, <2>9
<1>3. CASE NoMoreRows
  BY <1>3 DEF NoMoreRows, SelectionInv, Unread, MatchedIsFirst, NoMatchOnlyIfNone, FailureIsFirst,
     Eligible, Matches
<1>4. CASE UNCHANGED vars
  BY <1>4 DEF vars, SelectionInv, Unread, MatchedIsFirst, NoMatchOnlyIfNone, FailureIsFirst,
     Eligible, Matches
<1> QED
  BY <1>1, <1>2, <1>3, <1>4 DEF Next

\* The types and the invariant of the loop hold throughout.
LEMMA SelectionInvariance == Spec => [](TypeOK /\ SelectionInv)
<1>1. Init => TypeOK /\ SelectionInv
  BY DEF Init, TypeOK, SelectionInv, MatchedIsFirst, NoMatchOnlyIfNone, FailureIsFirst
<1>2. TypeOK /\ SelectionInv /\ [Next]_vars => (TypeOK /\ SelectionInv)'
  BY TypeStep, SelectionStep
<1> QED
  BY <1>1, <1>2, PTL DEF Spec

\* Whatever policies the API stores: the policy post_auth judges a request by matches it,
\* and none that matches has a lower priority number, but for those the filter misreads.
THEOREM SelectionIsFirst == Spec => []MatchedIsFirst
<1>1. SelectionInv => MatchedIsFirst
  BY DEF SelectionInv
<1> QED
  BY <1>1, SelectionInvariance, PTL

\* A request is turned away for want of a policy only when none matches it but such.
THEOREM SelectionIsComplete == Spec => []NoMatchOnlyIfNone
<1>1. SelectionInv => NoMatchOnlyIfNone
  BY DEF SelectionInv
<1> QED
  BY <1>1, SelectionInvariance, PTL

\* And a policy whose evaluation raises ends only requests that no earlier one matches.
THEOREM SelectionFailsFirst == Spec => []FailureIsFirst
<1>1. SelectionInv => FailureIsFirst
  BY DEF SelectionInv
<1> QED
  BY <1>1, SelectionInvariance, PTL
=============================================================================
