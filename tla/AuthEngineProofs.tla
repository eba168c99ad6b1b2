-------------------------- MODULE AuthEngineProofs --------------------------
(***************************************************************************)
(* Theorems about AuthEngine, for any endpoints, places, policies and      *)
(* requests.                                                               *)
(*                                                                         *)
(* However sessions overlap, every state is of its type and it implements  *)
(* EndpointLifecycle.  What carries the second proof is that a session     *)
(* acts on what it loaded, which may be old, but writes only to the row it *)
(* loaded: primary keys are never used again, and a row that has left the  *)
(* state discovered does not come back to it.                              *)
(*                                                                         *)
(* Where no two sessions overlap on a user, the states are the verdicts.   *)
(***************************************************************************)
EXTENDS AuthEngine, TLAPS

\* The types of everything but the sessions of post_auth.
RestOK ==
  /\ endpoints \in [Endpoints -> EndpointRow \cup {None}]
  /\ groups \subseteq Groups
  /\ nasports \subseteq NasPortRow
  /\ policies \in [PolicyIds -> PolicyRows \cup {None}]
  /\ put \in PutSession \cup {None}
  /\ removals \subseteq EndpointDeletion
  /\ disbandings \subseteq GroupDeletion
  /\ clock \in Nat
  /\ changes \in 0..MaxChanges
  /\ judged \in [Endpoints -> [verdict : {"none", "accept", "reject"},
                               group_id : Groups \cup {None}]]

\* A session that is about to update db_nas_port has one.
TouchesAPort == \A r \in Requests : requests[r].pc = "touch" => requests[r].port \in NasPortRow

TypeInv == TypeOK /\ TouchesAPort

\* What a session may go on as.
GoesOnAs(s) == s \in Session /\ (s.pc = "touch" => s.port \in NasPortRow)

-----------------------------------------------------------------------------
(* Type correctness *)

\* What the loop settles on is a stored row.
LEMMA SelectableIsStored ==
  ASSUME NEW auth, NEW group, NEW id \in Selectable(policies, auth, group), RestOK
  PROVE  id \in PolicyIds /\ policies[id] \in PolicyRows
  BY DEF Selectable, FirstByPriority, QueryResult, RestOK

\* A session that goes on as one of its type leaves the others as they are.
LEMMA ResumeSession ==
  ASSUME requests \in [Requests -> Session], NEW r \in Requests, NEW s \in Session, Resume(r, s)
  PROVE  /\ requests' \in [Requests -> Session]
         /\ requests'[r] = s
         /\ \A q \in Requests \ {r} : requests'[q] = requests[q]
  BY DEF Resume

\* A session that goes on as one of its type keeps every type.
LEMMA ResumeType ==
  ASSUME TypeInv, NEW r \in Requests, NEW s, GoesOnAs(s), Resume(r, s), RestOK'
  PROVE  TypeInv'
<1>1. requests \in [Requests -> Session] /\ TouchesAPort
  BY DEF TypeInv, TypeOK
<1>2. /\ requests' \in [Requests -> Session]
      /\ requests'[r] = s
      /\ \A q \in Requests \ {r} : requests'[q] = requests[q]
  BY <1>1, ResumeSession DEF GoesOnAs
<1>3. TouchesAPort'
  BY <1>1, <1>2 DEF TouchesAPort, GoesOnAs
<1> QED
  BY <1>2, <1>3 DEF TypeInv, TypeOK, RestOK

\* A session as it is, but at another step.
LEMMA AtStep ==
  ASSUME NEW s \in Session, NEW step \in Steps \ {"touch"}
  PROVE  GoesOnAs([s EXCEPT !.pc = step])
  BY DEF GoesOnAs, Session

\* An answered session has its type.
LEMMA Answered ==
  ASSUME NEW s \in Session, NEW a \in Answers
  PROVE  GoesOnAs([s EXCEPT !.pc = "done", !.answer = a])
  BY DEF GoesOnAs, Session, Steps

\* So has one that ended in an exception.
LEMMA Failed ==
  ASSUME NEW s \in Session, NEW cause \in Errors
  PROVE  GoesOnAs([s EXCEPT !.pc = "done", !.answer = "error", !.error = cause])
  BY DEF GoesOnAs, Session, Steps, Answers

\* What the type of a session gives its steps.
LEMMA SessionOf ==
  ASSUME TypeInv, NEW r \in Requests
  PROVE  /\ requests[r] \in Session
         /\ requests[r].endpoint \in Endpoints /\ requests[r].place \in Places
         /\ requests[r].began \in Nat /\ requests[r].loaded \in EndpointRow \cup {None}
         /\ requests[r].locking \in PortLockings /\ requests[r].port \in NasPortRow \cup {None}
         /\ RestOK
  BY DEF TypeInv, TypeOK, RestOK, Session

\* The first state has its type.
LEMMA InitTypeInv == Init => TypeInv
  BY BoundsAssumption DEF Init, TypeInv, TypeOK, TouchesAPort, NewSession, Session, Steps, Answers, Errors,
     PortLockings, NoVerdict

\* Nothing but the sessions changed.
LEMMA UnchangedRest ==
  ASSUME RestOK, UNCHANGED <<tables, api, clock, changes, judged>>
  PROVE  RestOK'
  BY DEF RestOK, tables, api

\* An exception keeps the types.
LEMMA FailType ==
  ASSUME TypeInv, NEW r \in Requests, NEW cause \in Errors, Fail(r, cause)
  PROVE  TypeInv'
<1>1. GoesOnAs([requests[r] EXCEPT !.pc = "done", !.answer = "error", !.error = cause])
  BY SessionOf, Failed
<1>2. RestOK'
  BY SessionOf, UnchangedRest DEF Fail
<1> QED
  BY <1>1, <1>2, ResumeType DEF Fail

\* Going to another step keeps them.
LEMMA GotoType ==
  ASSUME TypeInv, NEW r \in Requests, NEW step \in Steps \ {"touch"}, Goto(r, step), RestOK'
  PROVE  TypeInv'
<1>1. GoesOnAs([requests[r] EXCEPT !.pc = step])
  BY SessionOf, AtStep
<1> QED
  BY <1>1, ResumeType DEF Goto

\* Answering keeps them.
LEMMA FinishType ==
  ASSUME TypeInv, NEW r \in Requests, NEW a \in Answers, Finish(r, a), RestOK'
  PROVE  TypeInv'
<1>1. GoesOnAs([requests[r] EXCEPT !.pc = "done", !.answer = a])
  BY SessionOf, Answered
<1> QED
  BY <1>1, ResumeType DEF Finish

\* One lemma per action of a session follows: ReadEndpoint.
LEMMA ReadEndpointType ==
  ASSUME TypeInv, NEW r \in Requests, ReadEndpoint(r)
  PROVE  TypeInv'
<1> DEFINE s == [requests[r] EXCEPT !.pc = "select", !.began = clock + 1,
                                    !.loaded = endpoints[requests[r].endpoint]]
<1>1. requests[r] \in Session /\ requests[r].endpoint \in Endpoints /\ RestOK
  BY SessionOf
<1>2. endpoints[requests[r].endpoint] \in EndpointRow \cup {None} /\ clock + 1 \in Nat
  BY <1>1 DEF RestOK
<1>3. GoesOnAs(s)
  BY <1>1, <1>2 DEF Session, Steps, GoesOnAs
<1>4. Resume(r, s)
  BY DEF ReadEndpoint
<1>5. RestOK'
  BY <1>1, <1>2 DEF ReadEndpoint, RestOK, tables, api
<1> HIDE DEF s
<1> QED
  BY <1>3, <1>4, <1>5, ResumeType

\* SelectPolicy keeps the types.
LEMMA SelectPolicyType ==
  ASSUME TypeInv, NEW r \in Requests, SelectPolicy(r)
  PROVE  TypeInv'
<1> DEFINE s == requests[r]
           auth == AuthOf[s.endpoint][s.place]
           ends == Selectable(policies, auth, GroupOf(s.loaded))
           rest == UNCHANGED <<tables, api, clock, changes, judged>>
<1>1. s \in Session /\ RestOK
  BY SessionOf
<1>2. CASE Fail(r, "no_value")
  BY <1>2, FailType DEF Errors
<1>3. CASE rest /\ Goto(r, IF s.loaded = None THEN "create" ELSE "reject")
  BY <1>1, <1>3, UnchangedRest, GotoType DEF Steps
<1>4. ASSUME NEW id \in ends, rest,
             Resume(r, [s EXCEPT !.pc = "lookup", !.policy = id,
                                 !.locking = policies[id].port_locking])
      PROVE  TypeInv'
  <2> DEFINE t == [s EXCEPT !.pc = "lookup", !.policy = id, !.locking = policies[id].port_locking]
  <2>1. id \in PolicyIds /\ policies[id] \in PolicyRows
    BY <1>1, SelectableIsStored
  <2>2. policies[id].port_locking \in PortLockings
    BY <2>1, PolicyRowsAssumption
  <2>3. GoesOnAs(t)
    BY <1>1, <2>1, <2>2 DEF GoesOnAs, Session, Steps
  <2> HIDE DEF t
  <2> QED
    BY <1>1, <1>4, <2>3, UnchangedRest, ResumeType DEF t
<1> QED
  BY <1>2, <1>3, <1>4 DEF SelectPolicy

\* CreateNewEndpoint keeps the types.
LEMMA CreateNewEndpointType ==
  ASSUME TypeInv, NEW r \in Requests, CreateNewEndpoint(r)
  PROVE  TypeInv'
<1> DEFINE s == requests[r]
           row == AsEndpoint(clock + 1, IF s.endpoint \in MacEndpoints THEN "discovered" ELSE "rejected", None)
           t == [s EXCEPT !.pc = "reject", !.loaded = row]
<1>1. s \in Session /\ s.endpoint \in Endpoints /\ s.place \in Places /\ s.began \in Nat /\ RestOK
  BY SessionOf
<1>2. clock \in Nat /\ row \in EndpointRow
  BY <1>1 DEF RestOK, EndpointRow, States, AsEndpoint
<1>3. CASE endpoints[s.endpoint] = None /\ Colliding(s.endpoint, s.place) = {}
  <2>1. /\ endpoints' = [endpoints EXCEPT ![s.endpoint] = row]
        /\ nasports' = nasports \cup {AsNasPort(clock + 1, s.endpoint, s.place, s.began)}
        /\ clock' = clock + 1
        /\ Resume(r, t)
        /\ Judge(s.endpoint, "reject", None)
        /\ UNCHANGED <<groups, policies, api, changes>>
    BY <1>3 DEF CreateNewEndpoint
  <2>2. GoesOnAs(t)
    BY <1>1, <1>2 DEF GoesOnAs, Session, Steps
  <2>3. AsNasPort(clock + 1, s.endpoint, s.place, s.began) \in NasPortRow
    BY <1>1, <1>2 DEF AsNasPort, NasPortRow
  <2> HIDE DEF s, row, t
  <2>4. RestOK'
    BY <1>1, <1>2, <2>1, <2>3 DEF RestOK, Judge, api
  <2> QED
    BY <2>1, <2>2, <2>4, ResumeType
<1>4. CASE ~ (endpoints[s.endpoint] = None /\ Colliding(s.endpoint, s.place) = {})
  <2>1. RestOK'
    BY <1>1, <1>4, UnchangedRest DEF CreateNewEndpoint, tables
  <2> QED
    BY <1>4, <2>1, FinishType DEF CreateNewEndpoint, Answers
<1> QED
  BY <1>3, <1>4

\* LookupPort keeps the types, and a session that goes to touch has a port.
LEMMA LookupPortType ==
  ASSUME TypeInv, NEW r \in Requests, LookupPort(r)
  PROVE  TypeInv'
<1> DEFINE s == requests[r]
           known == KnownPorts(s.endpoint, s.place)
<1>1. s \in Session /\ RestOK
  BY SessionOf
<1>2. CASE Fail(r, "ambiguous")
  BY <1>2, FailType DEF Errors
<1>3. ASSUME NEW n \in known, Resume(r, [s EXCEPT !.pc = "touch", !.port = n]), RestOK'
      PROVE  TypeInv'
  <2> DEFINE t == [s EXCEPT !.pc = "touch", !.port = n]
  <2>1. n \in NasPortRow
    BY <1>1 DEF KnownPorts, RestOK
  <2>2. GoesOnAs(t)
    BY <1>1, <2>1 DEF GoesOnAs, Session, Steps
  <2> HIDE DEF t
  <2> QED
    BY <1>3, <2>2, ResumeType DEF t
<1>4. ASSUME Goto(r, IF s.locking = None THEN "insert" ELSE "lock"), RestOK'
      PROVE  TypeInv'
  BY <1>4, GotoType DEF Steps
<1> QED
  BY <1>1, <1>2, <1>3, <1>4, UnchangedRest DEF LookupPort

\* A refreshed row is a row.
LEMMA RefreshedType ==
  ASSUME NEW n \in NasPortRow, NEW loaded \in NasPortRow, NEW place \in Places, NEW at \in Nat
  PROVE  Refreshed(n, loaded, place, at) \in NasPortRow
  BY DEF Refreshed, AsNasPort, NasPortRow, Places

\* TouchPort keeps the types.
LEMMA TouchPortType ==
  ASSUME TypeInv, NEW r \in Requests, TouchPort(r)
  PROVE  TypeInv'
<1> DEFINE s == requests[r]
<1>1. s \in Session /\ s.place \in Places /\ s.began \in Nat /\ RestOK
  BY SessionOf
<1>2. s.port \in NasPortRow /\ clock + 1 \in Nat
  BY <1>1 DEF TouchPort, TypeInv, TouchesAPort, RestOK
<1>3. CASE Fail(r, "stale")
  BY <1>3, FailType DEF Errors
<1>4. CASE Fail(r, "integrity")
  BY <1>4, FailType DEF Errors
<1>5. ASSUME NEW n \in nasports, NEW at \in {clock + 1, s.began},
             nasports' = (nasports \ {n}) \cup {Refreshed(n, s.port, s.place, at)},
             clock' = clock + 1,
             Resume(r, [s EXCEPT !.pc = AfterPort(r), !.began = clock + 1,
                                 !.port = [@ EXCEPT !.place = s.place]]),
             UNCHANGED <<endpoints, groups, policies, api, changes, judged>>
      PROVE  TypeInv'
  <2> DEFINE t == [s EXCEPT !.pc = AfterPort(r), !.began = clock + 1,
                            !.port = [@ EXCEPT !.place = s.place]]
  <2>1. Refreshed(n, s.port, s.place, at) \in NasPortRow
    BY <1>1, <1>2, RefreshedType DEF RestOK
  <2>2. [s.port EXCEPT !.place = s.place] \in NasPortRow
    BY <1>1, <1>2 DEF NasPortRow
  <2>3. GoesOnAs(t)
    BY <1>1, <1>2, <2>2 DEF GoesOnAs, Session, Steps, AfterPort
  <2>4. RestOK'
    BY <1>1, <1>2, <1>5, <2>1 DEF RestOK, api
  <2> HIDE DEF t
  <2> QED
    BY <1>5, <2>3, <2>4, ResumeType DEF t
<1> QED
  BY <1>3, <1>4, <1>5 DEF TouchPort

\* A port added keeps the types.
LEMMA AddPortType ==
  ASSUME TypeInv, NEW r \in Requests, NEW step \in Steps \ {"touch"},
         NEW port \in NasPortRow \cup {None}, AddPort(r, step, port)
  PROVE  TypeInv'
<1> DEFINE s == requests[r]
           t == [s EXCEPT !.pc = step, !.port = port]
<1>1. s \in Session /\ s.endpoint \in Endpoints /\ s.place \in Places /\ s.began \in Nat /\ RestOK
  BY SessionOf
<1>2. CASE Fail(r, "integrity")
  BY <1>2, FailType DEF Errors
<1>3. ASSUME nasports' = nasports \cup {PortOf(s)}, clock' = clock + 1, Resume(r, t),
             UNCHANGED <<endpoints, groups, policies, api, changes, judged>>
      PROVE  TypeInv'
  <2>1. PortOf(s) \in NasPortRow
    BY <1>1 DEF PortOf, AsNasPort, NasPortRow, RestOK
  <2>2. GoesOnAs(t)
    BY <1>1 DEF GoesOnAs, Session
  <2>3. RestOK'
    BY <1>1, <1>3, <2>1 DEF RestOK, api
  <2> QED
    BY <1>3, <2>2, <2>3, ResumeType
<1> QED
  BY <1>2, <1>3 DEF AddPort

\* InsertPort keeps the types.
LEMMA InsertPortType ==
  ASSUME TypeInv, NEW r \in Requests, InsertPort(r)
  PROVE  TypeInv'
<1>1. PortOf(requests[r]) \in NasPortRow
  BY SessionOf DEF PortOf, AsNasPort, NasPortRow, RestOK
<1> QED
  BY <1>1, AddPortType DEF InsertPort, Steps

\* ReadExpectedPort keeps the types.
LEMMA ReadExpectedPortType ==
  ASSUME TypeInv, NEW r \in Requests, ReadExpectedPort(r)
  PROVE  TypeInv'
<1>1. RestOK'
  BY SessionOf, UnchangedRest DEF ReadExpectedPort
<1>2. PICK step \in {"expect", "replies", "reject"} : Goto(r, step)
  BY DEF ReadExpectedPort
<1> QED
  BY <1>1, <1>2, GotoType DEF Steps

\* InsertExpectedPort keeps the types.
LEMMA InsertExpectedPortType ==
  ASSUME TypeInv, NEW r \in Requests, InsertExpectedPort(r)
  PROVE  TypeInv'
  BY SessionOf, AddPortType DEF InsertExpectedPort, Steps

\* ReadReplies keeps the types.
LEMMA ReadRepliesType ==
  ASSUME TypeInv, NEW r \in Requests, ReadReplies(r)
  PROVE  TypeInv'
<1>1. CASE Fail(r, "policy_gone")
  BY <1>1, FailType DEF Errors
<1>2. ASSUME NEW step \in {"reject", "accept"}, Goto(r, step),
             UNCHANGED <<tables, api, clock, changes, judged>>
      PROVE  TypeInv'
  BY <1>2, SessionOf, UnchangedRest, GotoType DEF Steps
<1> QED
  BY <1>1, <1>2 DEF ReadReplies

\* update_endpoint_state keeps the types, whichever branch it takes.
LEMMA UpdateEndpointStateType ==
  ASSUME TypeInv, NEW r \in Requests, NEW verdict \in {"accept", "reject"}, NEW state \in States,
         UpdateEndpointState(r, verdict, state)
  PROVE  TypeInv'
<1> DEFINE s == requests[r]
           e == s.endpoint
           keeps == s.loaded # None /\ KeepsState(s.loaded, state)
<1>1. s \in Session /\ e \in Endpoints /\ s.loaded \in EndpointRow \cup {None} /\ RestOK
  BY SessionOf
<1>2. CASE Fail(r, "integrity")
  BY <1>2, FailType DEF Errors
<1>3. CASE Fail(r, "stale")
  BY <1>3, FailType DEF Errors
<1>4. ASSUME IF s.loaded = None THEN endpoints[e] = None ELSE keeps \/ IsCurrent(e, s.loaded),
             endpoints' = [endpoints EXCEPT ![e] =
                             IF s.loaded = None THEN AsEndpoint(clock + 1, state, None)
                             ELSE IF keeps THEN @ ELSE [@ EXCEPT !.state = state]],
             clock' = (IF s.loaded = None THEN clock + 1 ELSE clock),
             Finish(r, verdict),
             Judge(e, verdict, GroupOf(s.loaded)),
             UNCHANGED <<groups, nasports, policies, api, changes>>
      PROVE  TypeInv'
  <2>1. AsEndpoint(clock + 1, state, None) \in EndpointRow
    BY <1>1 DEF RestOK, AsEndpoint, EndpointRow
  <2>2. ~ keeps /\ s.loaded # None => [endpoints[e] EXCEPT !.state = state] \in EndpointRow
    BY <1>1, <1>4 DEF RestOK, IsCurrent, EndpointRow
  <2>3. endpoints' \in [Endpoints -> EndpointRow \cup {None}]
    BY <1>1, <1>4, <2>1, <2>2 DEF RestOK
  <2>4. GroupOf(s.loaded) \in Groups \cup {None}
    BY <1>1 DEF GroupOf, EndpointRow
  <2>5. clock' \in Nat
    BY <1>1, <1>4 DEF RestOK
  <2>6. RestOK'
    BY <1>1, <1>4, <2>3, <2>4, <2>5 DEF RestOK, Judge, api
  <2> QED
    BY <1>4, <2>6, FinishType DEF Answers
<1> QED
  BY <1>2, <1>3, <1>4 DEF UpdateEndpointState

\* Every step of a session keeps the types.
LEMMA ServeStepType ==
  ASSUME TypeInv, NEW r \in Requests, ServeStep(r)
  PROVE  TypeInv'
  BY SelectPolicyType, CreateNewEndpointType, LookupPortType, TouchPortType, InsertPortType,
     ReadExpectedPortType, InsertExpectedPortType, ReadRepliesType, UpdateEndpointStateType
     DEF ServeStep, Accept, Reject, States

\* So does a crash.
LEMMA CrashType ==
  ASSUME TypeInv, NEW r \in Requests, Crash(r)
  PROVE  TypeInv'
  BY SessionOf, UnchangedRest, FinishType DEF Crash, Answers

\* A step of the external API leaves the sessions of post_auth alone.
LEMMA ApiType ==
  ASSUME TypeInv, RestOK', UNCHANGED requests
  PROVE  TypeInv'
  BY DEF TypeInv, TypeOK, RestOK, TouchesAPort

\* The number of changes stays in its bound.
LEMMA ChangeType ==
  ASSUME RestOK, Change
  PROVE  changes' \in 0..MaxChanges
  BY BoundsAssumption DEF RestOK, Change

\* Every change through the API keeps the types.
LEMMA ApiStepType ==
  ASSUME TypeInv, ApiStep
  PROVE  TypeInv'
<1>0. RestOK
  BY DEF TypeInv, TypeOK, RestOK
<1>1. ASSUME NEW e \in Endpoints, NEW g \in Groups \cup {None}, PostEndpoint(e, g)
      PROVE  TypeInv'
  <2>1. AsEndpoint(clock + 1, "pending", g) \in EndpointRow
    BY <1>0 DEF RestOK, AsEndpoint, EndpointRow, States
  <2>2. RestOK'
    BY <1>0, <1>1, <2>1, ChangeType DEF PostEndpoint, RestOK, NoVerdict, api
  <2> QED
    BY <1>1, <2>2, ApiType DEF PostEndpoint
<1>2. ASSUME NEW e \in Endpoints, NEW g \in Groups \cup {None}, BeginPut(e, g)
      PROVE  TypeInv'
  <2>1. put' \in PutSession
    BY <1>0, <1>2 DEF BeginPut, RestOK, PutSession
  <2>2. RestOK'
    BY <1>0, <1>2, <2>1, ChangeType DEF BeginPut, RestOK, tables
  <2> QED
    BY <1>2, <2>2, ApiType DEF BeginPut
<1>3. CASE CommitPut
  <2>1. put \in PutSession /\ put.endpoint \in Endpoints /\ put.loaded \in EndpointRow
        /\ put.group_id \in Groups \cup {None}
    BY <1>0, <1>3 DEF CommitPut, RestOK, PutSession
  <2>2. ASSUME IsCurrent(put.endpoint, put.loaded)
        PROVE  AsEndpoint(endpoints[put.endpoint].id,
                          StateAfterPut(put.loaded, endpoints[put.endpoint]), put.group_id) \in EndpointRow
    BY <1>0, <2>1, <2>2 DEF RestOK, IsCurrent, AsEndpoint, StateAfterPut, EndpointRow, States
  <2>3. endpoints' \in [Endpoints -> EndpointRow \cup {None}]
    BY <1>0, <1>3, <2>1, <2>2 DEF CommitPut, RestOK
  <2>4. judged' \in [Endpoints -> [verdict : {"none", "accept", "reject"},
                                    group_id : Groups \cup {None}]]
    BY <1>0, <1>3, <2>1 DEF CommitPut, RestOK, NoVerdict
  <2>5. RestOK'
    BY <1>0, <1>3, <2>3, <2>4 DEF CommitPut, RestOK
  <2> QED
    BY <1>3, <2>5, ApiType DEF CommitPut
<1>4. ASSUME NEW e \in Endpoints, BeginDeleteEndpoint(e)
      PROVE  TypeInv'
  <2>1. endpoints[e].id \in Nat /\ \A n \in nasports : n.id \in Nat
    BY <1>0, <1>4 DEF BeginDeleteEndpoint, RestOK, EndpointRow, NasPortRow
  <2>2. removals' \subseteq EndpointDeletion
    BY <1>0, <1>4, <2>1 DEF BeginDeleteEndpoint, RestOK, EndpointDeletion
  <2>3. RestOK'
    BY <1>0, <1>4, <2>2, ChangeType DEF BeginDeleteEndpoint, RestOK, tables
  <2> QED
    BY <1>4, <2>3, ApiType DEF BeginDeleteEndpoint
<1>8. ASSUME NEW d \in removals, CommitDeleteEndpoint(d)
      PROVE  TypeInv'
  <2>1. RestOK'
    BY <1>0, <1>8 DEF CommitDeleteEndpoint, RestOK, NoVerdict
  <2> QED
    BY <1>8, <2>1, ApiType DEF CommitDeleteEndpoint
<1>5. ASSUME NEW n \in nasports, DeleteNasPort(n)
      PROVE  TypeInv'
  <2>1. RestOK'
    BY <1>0, <1>5, ChangeType DEF DeleteNasPort, RestOK, api
  <2> QED
    BY <1>5, <2>1, ApiType DEF DeleteNasPort
<1>6. ASSUME NEW id \in PolicyIds, DeletePolicy(id) \/ \E row \in PolicyRows : WritePolicy(id, row)
      PROVE  TypeInv'
  <2>1. RestOK'
    BY <1>0, <1>6, ChangeType DEF DeletePolicy, WritePolicy, RestOK, api
  <2> QED
    BY <1>6, <2>1, ApiType DEF DeletePolicy, WritePolicy
<1>7. ASSUME NEW g \in Groups, BeginDeleteGroup(g)
      PROVE  TypeInv'
  <2>1. ASSUME NEW e \in Endpoints, GroupOf(endpoints[e]) = g
        PROVE  endpoints[e].id \in Nat
    BY <1>0, <2>1, NoneAssumption DEF RestOK, GroupOf, EndpointRow
  <2>2. disbandings' \subseteq GroupDeletion
    BY <1>0, <1>7, <2>1 DEF BeginDeleteGroup, RestOK, GroupDeletion
  <2>3. RestOK'
    BY <1>0, <1>7, <2>2, ChangeType DEF BeginDeleteGroup, RestOK, tables
  <2> QED
    BY <1>7, <2>3, ApiType DEF BeginDeleteGroup
<1>9. ASSUME NEW d \in disbandings, CommitDeleteGroup(d)
      PROVE  TypeInv'
  <2>1. ASSUME NEW e \in MembersOf(d), IsCurrent(e, endpoints[e])
        PROVE  [endpoints[e] EXCEPT !.group_id = None] \in EndpointRow
    BY <1>0, <2>1 DEF RestOK, MembersOf, IsCurrent, EndpointRow, GroupDeletion
  <2>2. endpoints' \in [Endpoints -> EndpointRow \cup {None}]
    BY <1>0, <1>9, <2>1 DEF CommitDeleteGroup, RestOK, MembersOf, IsCurrent
  <2>3. RestOK'
    BY <1>0, <1>9, <2>2 DEF CommitDeleteGroup, RestOK
  <2> QED
    BY <1>9, <2>3, ApiType DEF CommitDeleteGroup
<1> QED
  BY <1>1, <1>2, <1>3, <1>4, <1>5, <1>6, <1>7, <1>8, <1>9 DEF ApiStep

\* TypeInv is inductive.
LEMMA TypeInvStep == TypeInv /\ [Next]_vars => TypeInv'
<1> SUFFICES ASSUME TypeInv, [Next]_vars
             PROVE  TypeInv'
  OBVIOUS
<1>1. CASE UNCHANGED vars
  BY <1>1 DEF vars, TypeInv, TypeOK, TouchesAPort
<1>2. CASE Next
  BY <1>2, ReadEndpointType, ServeStepType, CrashType, ApiStepType DEF Next
<1> QED
  BY <1>1, <1>2

\* Every table, every session and the history always hold values of their types: no
\* step of post_auth uses a row it has not loaded, or writes a state, a group or a port
\* that is none.
THEOREM TypeCorrect == Spec => []TypeOK
<1>1. Spec => []TypeInv
  BY InitTypeInv, TypeInvStep, PTL DEF Spec
<1>2. TypeInv => TypeOK
  BY DEF TypeInv
<1> QED
  BY <1>1, <1>2, PTL

\* TypeInv, for the proofs that build on it.
LEMMA TypeInvariance == Spec => []TypeInv
  BY InitTypeInv, TypeInvStep, PTL DEF Spec

-----------------------------------------------------------------------------
(* Steps that leave the endpoints, and what sessions have loaded, alone *)

SameRequest(r) ==
  /\ requests'[r].endpoint = requests[r].endpoint
  /\ requests'[r].place = requests[r].place

Quiet ==
  /\ UNCHANGED <<endpoints, groups, api>>
  /\ clock' \in Nat /\ clock <= clock'
  /\ \A q \in Requests : SameRequest(q) /\ requests'[q].loaded = requests[q].loaded

\* A session that goes on with what it had loaded is a quiet step.
LEMMA ResumeQuiet ==
  ASSUME TypeInv, NEW r \in Requests, NEW s \in Session, Resume(r, s),
         s.endpoint = requests[r].endpoint, s.place = requests[r].place,
         s.loaded = requests[r].loaded,
         UNCHANGED <<endpoints, groups, api>>, clock' \in {clock, clock + 1}
  PROVE  Quiet
<1>1. clock \in Nat /\ requests \in [Requests -> Session]
  BY DEF TypeInv, TypeOK
<1>2. /\ requests'[r] = s
      /\ \A q \in Requests \ {r} : requests'[q] = requests[q]
  BY <1>1, ResumeSession
<1> QED
  BY <1>1, <1>2 DEF Quiet, SameRequest

\* Going to another step is quiet.
LEMMA GotoQuiet ==
  ASSUME TypeInv, NEW r \in Requests, NEW step \in Steps, Goto(r, step),
         UNCHANGED <<endpoints, groups, api, clock>>
  PROVE  Quiet
  BY SessionOf, ResumeQuiet DEF Goto, Session

\* An exception is quiet.
LEMMA FailQuiet ==
  ASSUME TypeInv, NEW r \in Requests, NEW cause \in Errors, Fail(r, cause)
  PROVE  Quiet
<1>1. [requests[r] EXCEPT !.pc = "done", !.answer = "error", !.error = cause] \in Session
  BY SessionOf, Failed DEF GoesOnAs
<1> QED
  BY <1>1, SessionOf, ResumeQuiet DEF Fail, Session, tables

\* An answer alone is quiet.
LEMMA FinishQuiet ==
  ASSUME TypeInv, NEW r \in Requests, NEW a \in Answers, Finish(r, a),
         UNCHANGED <<endpoints, groups, api, clock>>
  PROVE  Quiet
<1>1. [requests[r] EXCEPT !.pc = "done", !.answer = a] \in Session
  BY SessionOf, Answered DEF GoesOnAs
<1> QED
  BY <1>1, SessionOf, ResumeQuiet DEF Finish, Session

\* A port added is quiet.
LEMMA AddPortQuiet ==
  ASSUME TypeInv, NEW r \in Requests, NEW step \in Steps, NEW port \in NasPortRow \cup {None},
         AddPort(r, step, port)
  PROVE  Quiet
<1>1. CASE Fail(r, "integrity")
  BY <1>1, FailQuiet DEF Errors
<1>2. CASE ~ Fail(r, "integrity")
  <2>1. [requests[r] EXCEPT !.pc = step, !.port = port] \in Session
    BY SessionOf DEF Session
  <2> QED
    BY <1>2, <2>1, SessionOf, ResumeQuiet DEF AddPort, Session
<1> QED
  BY <1>1, <1>2

\* So is a port touched.
LEMMA TouchPortQuiet ==
  ASSUME TypeInv, NEW r \in Requests, TouchPort(r)
  PROVE  Quiet
<1> DEFINE s == requests[r]
           t == [s EXCEPT !.pc = AfterPort(r), !.began = clock + 1,
                          !.port = [@ EXCEPT !.place = s.place]]
<1>1. CASE Fail(r, "stale") \/ Fail(r, "integrity")
  BY <1>1, FailQuiet DEF Errors
<1>2. CASE ~ (Fail(r, "stale") \/ Fail(r, "integrity"))
  <2>1. Resume(r, t) /\ clock' = clock + 1 /\ UNCHANGED <<endpoints, groups, api>>
    BY <1>2 DEF TouchPort
  <2>2. s.port \in NasPortRow /\ s.place \in Places /\ s \in Session /\ clock + 1 \in Nat
    BY SessionOf DEF TouchPort, TypeInv, TouchesAPort, RestOK
  <2>3. [s.port EXCEPT !.place = s.place] \in NasPortRow
    BY <2>2 DEF NasPortRow
  <2>4. t \in Session
    BY <2>2, <2>3 DEF Session, Steps, AfterPort
  <2>5. t.endpoint = s.endpoint /\ t.place = s.place /\ t.loaded = s.loaded
    BY <2>2 DEF Session
  <2> HIDE DEF t
  <2> QED
    BY <2>1, <2>4, <2>5, ResumeQuiet
<1> QED
  BY <1>1, <1>2

\* The steps of a session that touch no endpoint.
LEMMA QuietSteps ==
  ASSUME TypeInv, NEW r \in Requests,
         \/ SelectPolicy(r) \/ LookupPort(r) \/ TouchPort(r) \/ InsertPort(r)
         \/ ReadExpectedPort(r) \/ InsertExpectedPort(r) \/ ReadReplies(r) \/ Crash(r)
  PROVE  Quiet
<1> USE DEF tables
<1>0. requests[r] \in Session /\ RestOK
  BY SessionOf
<1>1. CASE SelectPolicy(r)
  <2>1. CASE \E step \in {"create", "reject"} : Goto(r, step) /\ UNCHANGED <<tables, api, clock>>
    BY <2>1, GotoQuiet DEF Steps
  <2>2. ASSUME NEW id \in Selectable(policies, AuthOf[requests[r].endpoint][requests[r].place],
                                      GroupOf(requests[r].loaded)),
               Resume(r, [requests[r] EXCEPT !.pc = "lookup", !.policy = id,
                                             !.locking = policies[id].port_locking]),
               UNCHANGED <<tables, api, clock>>
        PROVE  Quiet
    <3> DEFINE t == [requests[r] EXCEPT !.pc = "lookup", !.policy = id,
                                        !.locking = policies[id].port_locking]
    <3>1. id \in PolicyIds /\ policies[id].port_locking \in PortLockings
      BY <1>0, SelectableIsStored, PolicyRowsAssumption
    <3>2. t \in Session /\ t.endpoint = requests[r].endpoint /\ t.place = requests[r].place
          /\ t.loaded = requests[r].loaded
      BY <1>0, <3>1 DEF Session, Steps
    <3> HIDE DEF t
    <3> QED
      BY <2>2, <3>2, ResumeQuiet DEF t
  <2>3. CASE Fail(r, "no_value")
    BY <2>3, FailQuiet DEF Errors
  <2> QED
    BY <1>1, <2>1, <2>2, <2>3 DEF SelectPolicy
<1>2. CASE LookupPort(r)
  <2>1. CASE Fail(r, "ambiguous")
    BY <2>1, FailQuiet DEF Errors
  <2>2. CASE \E step \in {"insert", "lock"} : Goto(r, step) /\ UNCHANGED <<tables, api, clock>>
    BY <2>2, GotoQuiet DEF Steps
  <2>3. ASSUME NEW n \in KnownPorts(requests[r].endpoint, requests[r].place),
               Resume(r, [requests[r] EXCEPT !.pc = "touch", !.port = n]),
               UNCHANGED <<tables, api, clock>>
        PROVE  Quiet
    <3>1. n \in NasPortRow
      BY <1>0 DEF KnownPorts, RestOK
    <3>2. [requests[r] EXCEPT !.pc = "touch", !.port = n] \in Session
      BY <1>0, <3>1 DEF Session, Steps
    <3> QED
      BY <1>0, <2>3, <3>2, ResumeQuiet DEF Session
  <2> QED
    BY <1>2, <2>1, <2>2, <2>3 DEF LookupPort
<1>3. CASE TouchPort(r)
  BY <1>3, TouchPortQuiet
<1>4. CASE InsertPort(r)
  <2>1. PortOf(requests[r]) \in NasPortRow
    BY SessionOf DEF PortOf, AsNasPort, NasPortRow, RestOK
  <2> QED
    BY <1>4, <2>1, AddPortQuiet DEF InsertPort, Steps
<1>5. CASE ReadExpectedPort(r)
  <2>1. PICK step \in {"expect", "replies", "reject"} : Goto(r, step)
    BY <1>5 DEF ReadExpectedPort
  <2> QED
    BY <1>5, <2>1, GotoQuiet DEF ReadExpectedPort, Steps
<1>6. CASE InsertExpectedPort(r)
  BY <1>6, SessionOf, AddPortQuiet DEF InsertExpectedPort, Steps
<1>7. CASE ReadReplies(r)
  <2>1. CASE Fail(r, "policy_gone")
    BY <2>1, FailQuiet DEF Errors
  <2>2. CASE \E step \in {"reject", "accept"} : Goto(r, step) /\ UNCHANGED <<tables, api, clock>>
    BY <2>2, GotoQuiet DEF Steps
  <2> QED
    BY <1>7, <2>1, <2>2 DEF ReadReplies
<1>8. CASE Crash(r)
  BY <1>8, FinishQuiet DEF Crash, Answers
<1> QED
  BY <1>1, <1>2, <1>3, <1>4, <1>5, <1>6, <1>7, <1>8

-----------------------------------------------------------------------------
(* Steps of a session that write an endpoint *)

Inserts(r, state) ==
  LET e == requests[r].endpoint
  IN  /\ endpoints[e] = None
      /\ endpoints' = [endpoints EXCEPT ![e] = AsEndpoint(clock + 1, state, None)]
      /\ clock' = clock + 1
      /\ UNCHANGED <<groups, api>>
      /\ \A q \in Requests : SameRequest(q)
      /\ \A q \in Requests : \/ requests'[q].loaded = requests[q].loaded
                             \/ q = r /\ requests'[q].loaded = AsEndpoint(clock + 1, state, None)

Updates(r, state) ==
  LET e == requests[r].endpoint
  IN  /\ requests[r].loaded # None /\ IsCurrent(e, requests[r].loaded)
      /\ ~ KeepsState(requests[r].loaded, state)
      /\ endpoints' = [endpoints EXCEPT ![e] = [@ EXCEPT !.state = state]]
      /\ UNCHANGED <<groups, api, clock>>
      /\ \A q \in Requests : SameRequest(q) /\ requests'[q].loaded = requests[q].loaded

\* create_new_endpoint inserts a row or does nothing.
LEMMA CreateWrites ==
  ASSUME TypeInv, NEW r \in Requests, CreateNewEndpoint(r)
  PROVE  \/ Quiet
         \/ Inserts(r, IF requests[r].endpoint \in MacEndpoints THEN "discovered" ELSE "rejected")
<1> DEFINE s == requests[r]
           row == AsEndpoint(clock + 1, IF s.endpoint \in MacEndpoints THEN "discovered" ELSE "rejected", None)
           t == [s EXCEPT !.pc = "reject", !.loaded = row]
<1>1. s \in Session /\ RestOK /\ requests \in [Requests -> Session]
  BY SessionOf DEF TypeInv, TypeOK
<1>2. CASE endpoints[s.endpoint] = None /\ Colliding(s.endpoint, s.place) = {}
  <2>1. row \in EndpointRow
    BY <1>1 DEF RestOK, EndpointRow, States, AsEndpoint
  <2>2. t \in Session /\ t.loaded = row /\ t.endpoint = s.endpoint /\ t.place = s.place
    BY <1>1, <2>1 DEF Session, Steps
  <2>3. /\ endpoints' = [endpoints EXCEPT ![s.endpoint] = row]
        /\ clock' = clock + 1
        /\ Resume(r, t)
        /\ UNCHANGED <<groups, api>>
    BY <1>2 DEF CreateNewEndpoint
  <2> HIDE DEF t
  <2>4. requests'[r] = t /\ \A q \in Requests \ {r} : requests'[q] = requests[q]
    BY <1>1, <2>2, <2>3, ResumeSession
  <2> QED
    BY <1>2, <2>2, <2>3, <2>4 DEF Inserts, SameRequest
<1>3. CASE ~ (endpoints[s.endpoint] = None /\ Colliding(s.endpoint, s.place) = {})
  BY <1>3, FinishQuiet DEF CreateNewEndpoint, Answers
<1> QED
  BY <1>2, <1>3

\* update_endpoint_state inserts a row, or updates the one it loaded, or does nothing.
LEMMA UpdateWrites ==
  ASSUME TypeInv, NEW r \in Requests, NEW verdict \in {"accept", "reject"}, NEW state \in States,
         UpdateEndpointState(r, verdict, state)
  PROVE  Quiet \/ (Inserts(r, state) /\ requests[r].loaded = None) \/ Updates(r, state)
<1> DEFINE s == requests[r]
           e == s.endpoint
           keeps == s.loaded # None /\ KeepsState(s.loaded, state)
           t == [s EXCEPT !.pc = "done", !.answer = verdict]
<1>1. s \in Session /\ e \in Endpoints /\ RestOK /\ requests \in [Requests -> Session]
  BY SessionOf DEF TypeInv, TypeOK
<1>2. CASE Fail(r, "integrity") \/ Fail(r, "stale")
  BY <1>2, FailQuiet DEF Errors
<1>3. CASE ~ (Fail(r, "integrity") \/ Fail(r, "stale"))
  <2>1. /\ IF s.loaded = None THEN endpoints[e] = None ELSE keeps \/ IsCurrent(e, s.loaded)
        /\ endpoints' = [endpoints EXCEPT ![e] =
                            IF s.loaded = None THEN AsEndpoint(clock + 1, state, None)
                            ELSE IF keeps THEN @ ELSE [@ EXCEPT !.state = state]]
        /\ clock' = (IF s.loaded = None THEN clock + 1 ELSE clock)
        /\ Resume(r, t)
        /\ UNCHANGED <<groups, api>>
    BY <1>3 DEF UpdateEndpointState, Finish
  <2>2. t \in Session /\ t.endpoint = s.endpoint /\ t.place = s.place /\ t.loaded = s.loaded
    BY <1>1 DEF Session, Steps, Answers
  <2> HIDE DEF t
  <2>3. requests'[r] = t /\ \A q \in Requests \ {r} : requests'[q] = requests[q]
    BY <1>1, <2>1, <2>2, ResumeSession
  <2>4. \A q \in Requests : SameRequest(q) /\ requests'[q].loaded = requests[q].loaded
    BY <2>2, <2>3 DEF SameRequest
  <2>5. CASE s.loaded = None
    BY <2>1, <2>4, <2>5 DEF Inserts
  <2>6. CASE s.loaded # None /\ keeps
    BY <1>1, <2>1, <2>4, <2>6 DEF Quiet, RestOK
  <2>7. CASE s.loaded # None /\ ~ keeps
    BY <2>1, <2>4, <2>7 DEF Updates
  <2> QED
    BY <2>5, <2>6, <2>7
<1> QED
  BY <1>2, <1>3

\* ReadEndpoint loads the row as it is.
LEMMA ReadEndpointLoads ==
  ASSUME TypeInv, NEW r \in Requests, ReadEndpoint(r)
  PROVE  /\ UNCHANGED <<endpoints, groups, api>>
         /\ clock' = clock + 1
         /\ \A q \in Requests : SameRequest(q)
         /\ requests'[r].loaded = endpoints[requests[r].endpoint]
         /\ \A q \in Requests \ {r} : requests'[q] = requests[q]
<1> DEFINE s == requests[r]
           t == [s EXCEPT !.pc = "select", !.began = clock + 1, !.loaded = endpoints[s.endpoint]]
<1>1. s \in Session /\ s.endpoint \in Endpoints /\ RestOK /\ requests \in [Requests -> Session]
  BY SessionOf DEF TypeInv, TypeOK
<1>2. endpoints[s.endpoint] \in EndpointRow \cup {None} /\ clock + 1 \in Nat
  BY <1>1 DEF RestOK
<1>3. t \in Session /\ t.endpoint = s.endpoint /\ t.place = s.place /\ t.loaded = endpoints[s.endpoint]
  BY <1>1, <1>2 DEF Session, Steps
<1>4. Resume(r, t) /\ UNCHANGED <<endpoints, groups, api>> /\ clock' = clock + 1
  BY DEF ReadEndpoint, tables
<1> HIDE DEF t
<1>5. requests'[r] = t /\ \A q \in Requests \ {r} : requests'[q] = requests[q]
  BY <1>1, <1>3, <1>4, ResumeSession
<1> QED
  BY <1>3, <1>4, <1>5 DEF SameRequest

\* The deletion of a group takes nothing from a row but its group.
LEMMA DisbandedRow ==
  ASSUME RestOK, NEW d \in disbandings, CommitDeleteGroup(d), NEW e \in Endpoints
  PROVE  \/ endpoints'[e] = endpoints[e]
         \/ /\ endpoints[e] \in EndpointRow /\ endpoints[e] # None /\ e \in MembersOf(d)
            /\ endpoints'[e] = [endpoints[e] EXCEPT !.group_id = None]
            /\ endpoints'[e] \in EndpointRow /\ endpoints'[e] # None
            /\ endpoints'[e].id = endpoints[e].id /\ endpoints'[e].state = endpoints[e].state
            /\ endpoints'[e].group_id = None
<1>1. CASE endpoints'[e] # endpoints[e]
  <2>1. /\ e \in MembersOf(d) /\ endpoints[e] # None
        /\ endpoints'[e] = [endpoints[e] EXCEPT !.group_id = None]
    BY <1>1 DEF CommitDeleteGroup, MembersOf, IsCurrent, RestOK
  <2>2. endpoints[e] \in EndpointRow
    BY <2>1 DEF RestOK
  <2>3. endpoints'[e] \in EndpointRow
    BY <2>1, <2>2 DEF EndpointRow
  <2> QED
    BY <2>1, <2>2, <2>3, NoneIsNoRowAssumption DEF EndpointRow
<1> QED
  BY <1>1

-----------------------------------------------------------------------------
(* Groups and the states discovered and pending belong to MAB endpoints *)

PutIsManaged ==
  put # None /\ put.endpoint \notin MacEndpoints =>
    put.group_id = None /\ put.loaded.group_id = None

ManagedInv == OnlyMacEndpointsAreManaged /\ PutIsManaged

\* ManagedInv is inductive.
LEMMA ManagedInvStep == TypeInv /\ ManagedInv /\ [Next]_vars => ManagedInv'
<1> SUFFICES ASSUME TypeInv, ManagedInv, [Next]_vars
             PROVE  ManagedInv'
  OBVIOUS
<1> USE DEF ManagedInv
<1>0. RestOK
  BY DEF TypeInv, TypeOK, RestOK
<1>1. CASE UNCHANGED <<endpoints, put>>
  BY <1>1 DEF OnlyMacEndpointsAreManaged, PutIsManaged
<1>2. ASSUME NEW r \in Requests, NEW state \in States, Inserts(r, state),
             requests[r].endpoint \in MacEndpoints \/ state \in {"rejected", "authorized"}
      PROVE  ManagedInv'
  BY <1>0, <1>2, SessionOf
     DEF Inserts, AsEndpoint, OnlyMacEndpointsAreManaged, PutIsManaged, RestOK, api
<1>3. ASSUME NEW r \in Requests, NEW state \in {"rejected", "authorized"}, Updates(r, state)
      PROVE  ManagedInv'
  <2> DEFINE e == requests[r].endpoint
  <2>1. e \in Endpoints /\ endpoints[e] \in EndpointRow
    BY <1>0, <1>3, SessionOf DEF Updates, IsCurrent, RestOK
  <2>2. /\ endpoints'[e].group_id = endpoints[e].group_id
        /\ endpoints'[e].state = state
    BY <1>0, <1>3, <2>1 DEF Updates, RestOK, EndpointRow
  <2>3. \A f \in Endpoints \ {e} : endpoints'[f] = endpoints[f]
    BY <1>0, <1>3 DEF Updates, RestOK
  <2> QED
    BY <1>3, <2>1, <2>2, <2>3, NoneIsNoRowAssumption
       DEF OnlyMacEndpointsAreManaged, PutIsManaged, Updates, IsCurrent, api
<1>4. ASSUME NEW r \in Requests, ServeStep(r)
      PROVE  ManagedInv'
  <2>1. CASE CreateNewEndpoint(r)
    BY <1>1, <1>2, <2>1, CreateWrites DEF Quiet, States, api
  <2>2. CASE Accept(r) \/ Reject(r)
    BY <1>1, <1>2, <1>3, <2>2, UpdateWrites DEF Quiet, States, Accept, Reject, api
  <2> QED
    BY <1>1, <1>4, <2>1, <2>2, QuietSteps DEF ServeStep, Quiet, api
<1>5. ASSUME NEW e \in Endpoints, NEW g \in Groups \cup {None}, PostEndpoint(e, g)
      PROVE  ManagedInv'
  BY <1>0, <1>5 DEF PostEndpoint, OnlyMacEndpointsAreManaged, PutIsManaged, RestOK, api
<1>6. ASSUME NEW e \in Endpoints, NEW g \in Groups \cup {None}, BeginPut(e, g)
      PROVE  ManagedInv'
  BY <1>6 DEF BeginPut, tables, OnlyMacEndpointsAreManaged, PutIsManaged
<1>7. CASE CommitPut
  <2>1. put \in PutSession
    BY <1>0, <1>7 DEF CommitPut, RestOK
  <2>2. PutIsManaged'
    BY <1>7 DEF CommitPut, PutIsManaged
  <2>3. CASE put.endpoint \in MacEndpoints
    <3>1. \A f \in Endpoints \ MacEndpoints : endpoints'[f] = endpoints[f]
      BY <1>0, <1>7, <2>3 DEF CommitPut, RestOK
    <3> QED
      BY <2>2, <3>1 DEF OnlyMacEndpointsAreManaged
  <2>4. CASE put.endpoint \notin MacEndpoints
    BY <2>2, <1>7, <2>4 DEF CommitPut, OnlyMacEndpointsAreManaged, PutIsManaged
  <2> QED
    BY <2>2, <2>3, <2>4
<1>8. ASSUME NEW d \in removals, CommitDeleteEndpoint(d)
      PROVE  ManagedInv'
  BY <1>0, <1>8 DEF CommitDeleteEndpoint, OnlyMacEndpointsAreManaged, PutIsManaged, RestOK
<1>9. ASSUME NEW d \in disbandings, CommitDeleteGroup(d)
      PROVE  ManagedInv'
  <2>1. ASSUME NEW e \in Endpoints \ MacEndpoints, endpoints'[e] # None
        PROVE  endpoints'[e].group_id = None /\ endpoints'[e].state \in {"rejected", "authorized"}
    BY <1>0, <1>9, <2>1, DisbandedRow DEF OnlyMacEndpointsAreManaged
  <2> QED
    BY <1>9, <2>1 DEF CommitDeleteGroup, OnlyMacEndpointsAreManaged, PutIsManaged
<1>10. CASE ApiStep
  BY <1>1, <1>5, <1>6, <1>7, <1>8, <1>9, <1>10
     DEF ApiStep, DeleteNasPort, WritePolicy, DeletePolicy, BeginDeleteEndpoint,
         BeginDeleteGroup, tables, api
<1> QED
  BY <1>1, <1>4, <1>10, ReadEndpointLoads, QuietSteps DEF Next, Quiet, vars, api

\* An EAP user never has a group, is never pending and never discovered, whatever session
\* commits last.
THEOREM OnlyMacManaged == Spec => []OnlyMacEndpointsAreManaged
<1>1. Init => ManagedInv
  BY DEF Init, ManagedInv, OnlyMacEndpointsAreManaged, PutIsManaged
<1>2. Spec => []ManagedInv
  BY <1>1, ManagedInvStep, TypeInvariance, PTL DEF Spec
<1> QED
  BY <1>2, PTL DEF ManagedInv

-----------------------------------------------------------------------------
(* The life cycle of an endpoint *)

\* Primary keys are drawn from the clock.
IdsAreOld ==
  /\ \A e \in Endpoints : endpoints[e] # None => endpoints[e].id <= clock
  /\ \A r \in Requests : requests[r].loaded # None => requests[r].loaded.id <= clock

\* A row that was loaded when it was no longer discovered is not discovered.
NeverDiscoveredAgain ==
  \A r \in Requests :
    LET s == requests[r]
    IN  s.loaded # None /\ s.loaded.state # "discovered" /\ IsCurrent(s.endpoint, s.loaded) =>
          endpoints[s.endpoint].state # "discovered"

LoadedInv == IdsAreOld /\ NeverDiscoveredAgain

-----------------------------------------------------------------------------
(* The steps that write the table endpoint *)

\* A step of a session is quiet, or inserts an endpoint, or updates one; what it inserts is
\* not always what the life cycle makes of a first rejection.
LEMMA ServeCases ==
  ASSUME TypeInv, NEW r \in Requests, ServeStep(r)
  PROVE  LET e == requests[r].endpoint
         IN  \/ Quiet
             \/ \E state \in {"rejected", "authorized"} : Updates(r, state)
             \/ Inserts(r, "authorized") \/ Inserts(r, Lifecycle!FirstRejection(e))
             \/ /\ Inserts(r, "rejected")
                /\ requests[r].pc = "reject" /\ requests[r].loaded = None
<1>1. CASE CreateNewEndpoint(r)
  BY <1>1, CreateWrites DEF Lifecycle!FirstRejection
<1>2. CASE Accept(r) \/ Reject(r)
  BY <1>2, UpdateWrites DEF States, Accept, Reject
<1> QED
  BY <1>1, <1>2, QuietSteps DEF ServeStep

-----------------------------------------------------------------------------
(* Old ids, and no way back to discovered *)

\* A quiet step keeps LoadedInv.
LEMMA LoadedQuiet ==
  ASSUME TypeInv, LoadedInv, Quiet
  PROVE  LoadedInv'
<1>1. RestOK /\ \A r \in Requests : requests[r].loaded \in EndpointRow \cup {None}
  BY SessionOf DEF TypeInv, TypeOK, RestOK
<1>2. IdsAreOld'
  BY <1>1 DEF LoadedInv, IdsAreOld, Quiet, RestOK, EndpointRow
<1>3. NeverDiscoveredAgain'
  BY DEF LoadedInv, NeverDiscoveredAgain, Quiet, SameRequest, IsCurrent
<1> QED
  BY <1>2, <1>3 DEF LoadedInv

\* An endpoint inserted has an id no session has loaded.
LEMMA LoadedInserts ==
  ASSUME TypeInv, LoadedInv, NEW r \in Requests, NEW state \in States, Inserts(r, state)
  PROVE  LoadedInv'
<1> DEFINE row == AsEndpoint(clock + 1, state, None)
           e == requests[r].endpoint
<1>1. /\ RestOK /\ e \in Endpoints
      /\ \A q \in Requests : requests[q].loaded \in EndpointRow \cup {None}
                             /\ requests[q].endpoint \in Endpoints
  BY SessionOf DEF TypeInv, TypeOK, RestOK
<1>2. row.id = clock + 1 /\ row.state = state /\ row \in EndpointRow /\ row # None
  BY <1>1, NoneIsNoRowAssumption DEF AsEndpoint, EndpointRow, RestOK
<1>3. /\ endpoints' = [endpoints EXCEPT ![e] = row] /\ clock' = clock + 1
      /\ \A q \in Requests : requests'[q].endpoint = requests[q].endpoint
      /\ \A q \in Requests : \/ requests'[q].loaded = requests[q].loaded
                             \/ q = r /\ requests'[q].loaded = row
  BY DEF Inserts, SameRequest
<1> HIDE DEF row, e
<1>4. clock \in Nat /\ endpoints \in [Endpoints -> EndpointRow \cup {None}]
  BY <1>1 DEF RestOK
<1>5. IdsAreOld'
  <2>1. ASSUME NEW f \in Endpoints, endpoints'[f] # None
        PROVE  endpoints'[f].id <= clock'
    <3>1. CASE f = e
      BY <1>2, <1>3, <1>4, <3>1
    <3>2. CASE f # e
      BY <1>3, <1>4, <2>1, <3>2 DEF LoadedInv, IdsAreOld, EndpointRow
    <3> QED
      BY <3>1, <3>2
  <2>2. ASSUME NEW q \in Requests, requests'[q].loaded # None
        PROVE  requests'[q].loaded.id <= clock'
    <3>1. CASE requests'[q].loaded = row
      BY <1>2, <1>3, <1>4, <3>1
    <3>2. CASE requests'[q].loaded = requests[q].loaded
      BY <1>1, <1>3, <1>4, <2>2, <3>2 DEF LoadedInv, IdsAreOld, EndpointRow
    <3> QED
      BY <1>3, <3>1, <3>2
  <2> QED
    BY <2>1, <2>2 DEF IdsAreOld
<1>6. NeverDiscoveredAgain'
  <2> SUFFICES ASSUME NEW q \in Requests, requests'[q].loaded # None,
                      requests'[q].loaded.state # "discovered",
                      endpoints'[requests'[q].endpoint] # None,
                      endpoints'[requests'[q].endpoint].id = requests'[q].loaded.id
               PROVE  endpoints'[requests'[q].endpoint].state # "discovered"
    BY DEF NeverDiscoveredAgain, IsCurrent
  <2> DEFINE f == requests[q].endpoint
  <2>1. f \in Endpoints /\ requests'[q].endpoint = f
    BY <1>1, <1>3
  <2>2. CASE requests'[q].loaded = row
    <3>1. q = r \/ requests[q].loaded = row
      BY <1>3, <2>2
    <3>2. q = r
      BY <1>2, <1>4, <3>1 DEF LoadedInv, IdsAreOld
    <3> QED
      BY <1>2, <1>3, <1>4, <2>1, <2>2, <3>2 DEF e
  <2>3. CASE requests'[q].loaded = requests[q].loaded
    <3>1. requests[q].loaded.id <= clock /\ requests[q].loaded.id \in Nat
      BY <1>1, <2>3 DEF LoadedInv, IdsAreOld, EndpointRow
    <3>2. f # e
      BY <1>2, <1>3, <1>4, <2>1, <2>3, <3>1
    <3> QED
      BY <1>3, <1>4, <2>1, <2>3, <3>2 DEF LoadedInv, NeverDiscoveredAgain, IsCurrent
  <2> QED
    BY <1>3, <2>2, <2>3
<1> QED
  BY <1>5, <1>6 DEF LoadedInv

\* An endpoint updated keeps its id, and does not become discovered.
LEMMA LoadedUpdates ==
  ASSUME TypeInv, LoadedInv, NEW r \in Requests, NEW state \in {"rejected", "authorized"},
         Updates(r, state)
  PROVE  LoadedInv'
<1> DEFINE e == requests[r].endpoint
<1>1. RestOK /\ e \in Endpoints /\ endpoints[e] \in EndpointRow
  BY SessionOf DEF Updates, IsCurrent, RestOK
<1>2. /\ endpoints'[e].state = state /\ endpoints'[e].id = endpoints[e].id
      /\ \A f \in Endpoints \ {e} : endpoints'[f] = endpoints[f]
      /\ clock' = clock /\ \A q \in Requests : SameRequest(q) /\ requests'[q].loaded = requests[q].loaded
  BY <1>1 DEF Updates, RestOK, EndpointRow
<1>3. \A q \in Requests : requests[q].endpoint \in Endpoints
  BY SessionOf
<1> HIDE DEF e
<1>4. endpoints[e] # None
  BY <1>1, NoneIsNoRowAssumption
<1>5. IdsAreOld'
  BY <1>2, <1>4 DEF LoadedInv, IdsAreOld
<1>6. NeverDiscoveredAgain'
  BY <1>2, <1>3, <1>4 DEF LoadedInv, NeverDiscoveredAgain, IsCurrent, SameRequest
<1> QED
  BY <1>5, <1>6 DEF LoadedInv

\* A session that loads a row agrees with it.
LEMMA LoadedReads ==
  ASSUME TypeInv, LoadedInv, NEW r \in Requests, ReadEndpoint(r)
  PROVE  LoadedInv'
<1>1. /\ UNCHANGED endpoints /\ clock' = clock + 1
      /\ \A q \in Requests : SameRequest(q)
      /\ requests'[r].loaded = endpoints[requests[r].endpoint]
      /\ \A q \in Requests \ {r} : requests'[q] = requests[q]
  BY ReadEndpointLoads
<1>2. /\ RestOK
      /\ \A q \in Requests : /\ requests[q].loaded \in EndpointRow \cup {None}
                             /\ requests[q].endpoint \in Endpoints
  BY SessionOf DEF TypeInv, TypeOK, RestOK
<1>3. IdsAreOld'
  BY <1>1, <1>2 DEF LoadedInv, IdsAreOld, RestOK, EndpointRow
<1>4. NeverDiscoveredAgain'
  BY <1>1, <1>2 DEF LoadedInv, NeverDiscoveredAgain, IsCurrent, SameRequest
<1> QED
  BY <1>3, <1>4 DEF LoadedInv

\* A step that leaves the sessions alone, uses no old id, and makes no row discovered.
LEMMA LoadedApi ==
  ASSUME TypeInv, LoadedInv, UNCHANGED requests, clock' \in {clock, clock + 1},
         \A e \in Endpoints :
           endpoints'[e] # None =>
             \/ /\ endpoints[e] # None /\ endpoints'[e].id = endpoints[e].id
                /\ endpoints'[e].state = endpoints[e].state \/ endpoints'[e].state = "pending"
             \/ endpoints'[e].id = clock + 1 /\ clock' = clock + 1
  PROVE  LoadedInv'
<1>1. /\ RestOK
      /\ \A q \in Requests : /\ requests[q].loaded \in EndpointRow \cup {None}
                             /\ requests[q].endpoint \in Endpoints
  BY SessionOf DEF TypeInv, TypeOK, RestOK
<1>2. clock \in Nat /\ \A e \in Endpoints : endpoints[e] # None => endpoints[e].id \in Nat
  BY <1>1 DEF RestOK, EndpointRow
<1>3. \A q \in Requests : requests[q].loaded # None => requests[q].loaded.id \in Nat
  BY <1>1 DEF EndpointRow
<1>4. IdsAreOld'
  BY <1>2, <1>3 DEF LoadedInv, IdsAreOld
<1>5. NeverDiscoveredAgain'
  <2> SUFFICES ASSUME NEW q \in Requests, requests[q].loaded # None,
                      requests[q].loaded.state # "discovered",
                      endpoints'[requests[q].endpoint] # None,
                      endpoints'[requests[q].endpoint].id = requests[q].loaded.id
               PROVE  endpoints'[requests[q].endpoint].state # "discovered"
    BY DEF NeverDiscoveredAgain, IsCurrent
  <2>1. requests[q].endpoint \in Endpoints /\ requests[q].loaded.id # clock + 1
    BY <1>1, <1>2, <1>3 DEF LoadedInv, IdsAreOld
  <2> QED
    BY <2>1 DEF LoadedInv, NeverDiscoveredAgain, IsCurrent
<1> QED
  BY <1>4, <1>5 DEF LoadedInv

\* Every change through the API keeps LoadedInv.
LEMMA LoadedApiStep ==
  ASSUME TypeInv, LoadedInv, ApiStep
  PROVE  LoadedInv'
<1>0. RestOK /\ clock \in Nat
  BY DEF TypeInv, TypeOK, RestOK
<1>1. ASSUME NEW e \in Endpoints, NEW g \in Groups \cup {None}, PostEndpoint(e, g)
      PROVE  LoadedInv'
  <2>1. /\ UNCHANGED requests /\ clock' = clock + 1
        /\ endpoints'[e].id = clock + 1
        /\ \A f \in Endpoints \ {e} : endpoints'[f] = endpoints[f]
    BY <1>0, <1>1 DEF PostEndpoint, AsEndpoint, RestOK
  <2> QED
    BY <2>1, LoadedApi
<1>2. CASE UNCHANGED <<endpoints, requests, clock>>
  BY <1>2, LoadedApi
<1>3. CASE CommitPut
  <2> DEFINE e == put.endpoint
  <2>1. CASE UNCHANGED endpoints
    BY <1>2, <1>3, <2>1 DEF CommitPut
  <2>2. CASE ~ UNCHANGED endpoints
    <3>1. /\ put # None /\ UNCHANGED <<requests, clock>> /\ IsCurrent(e, put.loaded)
          /\ endpoints' = [endpoints EXCEPT
               ![e] = AsEndpoint(@.id, StateAfterPut(put.loaded, @), put.group_id)]
      BY <1>3, <2>2 DEF CommitPut
    <3>2. /\ endpoints[e] # None
          /\ \A f \in Endpoints \ {e} : endpoints'[f] = endpoints[f]
      BY <1>0, <3>1 DEF RestOK, IsCurrent
    <3>3. e \in Endpoints
      BY <1>0, <3>1 DEF RestOK, PutSession
    <3>4. endpoints'[e] = AsEndpoint(endpoints[e].id, StateAfterPut(put.loaded, endpoints[e]), put.group_id)
      BY <1>0, <3>1, <3>3 DEF RestOK
    <3>5. /\ endpoints'[e].id = endpoints[e].id
          /\ endpoints'[e].state \in {endpoints[e].state, "pending"}
      BY <3>4 DEF AsEndpoint, StateAfterPut
    <3> HIDE DEF e
    <3> QED
      BY <3>1, <3>2, <3>5, LoadedApi
  <2> QED
    BY <2>1, <2>2
<1>4. ASSUME NEW d \in removals, CommitDeleteEndpoint(d)
      PROVE  LoadedInv'
  <2>1. /\ UNCHANGED <<requests, clock>>
        /\ \A f \in Endpoints : endpoints'[f] \in {endpoints[f], None}
    BY <1>0, <1>4 DEF CommitDeleteEndpoint, RestOK
  <2> QED
    BY <2>1, LoadedApi
<1>5. ASSUME NEW d \in disbandings, CommitDeleteGroup(d)
      PROVE  LoadedInv'
  <2>1. UNCHANGED <<requests, clock>>
    BY <1>5 DEF CommitDeleteGroup
  <2>2. ASSUME NEW f \in Endpoints, endpoints'[f] # None
        PROVE  /\ endpoints[f] # None
               /\ endpoints'[f].id = endpoints[f].id /\ endpoints'[f].state = endpoints[f].state
    BY <1>0, <1>5, <2>2, DisbandedRow
  <2> QED
    BY <2>1, <2>2, LoadedApi
<1> QED
  BY <1>1, <1>2, <1>3, <1>4, <1>5
     DEF ApiStep, BeginPut, DeleteNasPort, WritePolicy, DeletePolicy, BeginDeleteEndpoint,
         BeginDeleteGroup, tables

\* Old ids and the way out of discovered are kept by every step.
LEMMA LoadedStep == TypeInv /\ LoadedInv /\ [Next]_vars => LoadedInv'
<1> SUFFICES ASSUME TypeInv, LoadedInv, [Next]_vars
             PROVE  LoadedInv'
  OBVIOUS
<1>1. CASE UNCHANGED vars
  BY <1>1 DEF vars, LoadedInv, IdsAreOld, NeverDiscoveredAgain, IsCurrent
<1>2. ASSUME NEW r \in Requests, ServeStep(r)
      PROVE  LoadedInv'
  BY <1>2, ServeCases, LoadedQuiet, LoadedInserts, LoadedUpdates
     DEF States, Lifecycle!FirstRejection
<1>3. ASSUME NEW r \in Requests, Crash(r)
      PROVE  LoadedInv'
  BY <1>3, QuietSteps, LoadedQuiet
<1> QED
  BY <1>1, <1>2, <1>3, LoadedReads, LoadedApiStep DEF Next

-----------------------------------------------------------------------------
(* A rejection without a loaded row is a policy's *)

\* A step of a session is one of its own.
LEMMA OnlyItself ==
  ASSUME TypeInv, NEW r \in Requests, ReadEndpoint(r) \/ ServeStep(r) \/ Crash(r)
  PROVE  \A q \in Requests \ {r} : requests'[q] = requests[q]
<1>1. requests \in [Requests -> Session]
  BY DEF TypeInv, TypeOK
<1>2. \E s : Resume(r, s)
  BY DEF ReadEndpoint, ServeStep, Crash, SelectPolicy, CreateNewEndpoint, LookupPort, TouchPort,
         InsertPort, ReadExpectedPort, InsertExpectedPort, ReadReplies, Accept, Reject,
         UpdateEndpointState, AddPort, Goto, Finish, Fail
<1> QED
  BY <1>1, <1>2 DEF Resume

\* A session that is past the selection has a policy, unless it has a row and none.
PolicyKnown ==
  \A r \in Requests :
    \/ requests[r].pc \in {"lookup", "touch", "insert", "lock", "expect", "replies", "accept"}
    \/ requests[r].pc = "reject" /\ requests[r].loaded = None
    => requests[r].policy \in PolicyIds

\* What the next step of a session makes of its policy and of the row it has loaded.
LEMMA PolicyKept ==
  ASSUME TypeInv, PolicyKnown, NEW r \in Requests, ReadEndpoint(r) \/ ServeStep(r) \/ Crash(r)
  PROVE  LET t == requests'[r]
         IN  \/ t.pc \in {"select", "create", "done"}
             \/ t.policy \in PolicyIds
             \/ t.pc = "reject" /\ t.loaded # None
<1> DEFINE s == requests[r]
<1>0. s \in Session /\ RestOK /\ requests \in [Requests -> Session]
  BY SessionOf DEF TypeInv, TypeOK
<1>1. \A t : Resume(r, t) => requests'[r] = t
  BY <1>0 DEF Resume
<1>2. CASE ReadEndpoint(r) \/ Crash(r) \/ \E cause \in Errors : Fail(r, cause)
  BY <1>0, <1>1, <1>2 DEF ReadEndpoint, Crash, Finish, Fail, Session
<1>3. CASE SelectPolicy(r)
  <2>1. ASSUME NEW id \in PolicyIds,
               Resume(r, [s EXCEPT !.pc = "lookup", !.policy = id,
                                   !.locking = policies[id].port_locking])
        PROVE  requests'[r].policy \in PolicyIds
    BY <1>0, <1>1, <2>1 DEF Session
  <2>2. CASE Goto(r, IF s.loaded = None THEN "create" ELSE "reject")
    BY <1>0, <1>1, <2>2 DEF Goto, Session
  <2> QED
    BY <1>0, <1>2, <1>3, <2>1, <2>2, SelectableIsStored DEF SelectPolicy, Errors
<1>4. CASE CreateNewEndpoint(r)
  <2> DEFINE row == AsEndpoint(clock + 1, IF s.endpoint \in MacEndpoints THEN "discovered" ELSE "rejected", None)
  <2>1. row # None
    BY <1>0, NoneIsNoRowAssumption DEF AsEndpoint, EndpointRow, States, RestOK
  <2> HIDE DEF row
  <2>2. CASE Resume(r, [s EXCEPT !.pc = "reject", !.loaded = row])
    BY <1>0, <1>1, <2>1, <2>2 DEF Session
  <2>3. CASE Finish(r, "reject")
    BY <1>0, <1>1, <2>3 DEF Finish, Session
  <2> QED
    BY <1>4, <2>2, <2>3 DEF CreateNewEndpoint, row
<1>5. CASE Accept(r) \/ Reject(r)
  <2>1. ASSUME NEW verdict, Finish(r, verdict)
        PROVE  requests'[r].pc = "done"
    BY <1>0, <1>1, <2>1 DEF Finish, Session
  <2> QED
    BY <1>2, <1>5, <2>1 DEF Accept, Reject, UpdateEndpointState, Errors
<1>6. ASSUME s.pc \in {"lookup", "touch", "insert", "lock", "expect", "replies"},
             requests'[r].policy = s.policy
      PROVE  requests'[r].policy \in PolicyIds
  BY <1>6 DEF PolicyKnown
<1>7. ASSUME LookupPort(r) \/ TouchPort(r) \/ InsertPort(r) \/ ReadExpectedPort(r)
               \/ InsertExpectedPort(r) \/ ReadReplies(r)
      PROVE  requests'[r].policy = s.policy
  <2>1. \A step : Goto(r, step) => requests'[r].policy = s.policy
    BY <1>0, <1>1 DEF Goto, Session
  <2>2. \A cause : Fail(r, cause) => requests'[r].policy = s.policy
    BY <1>0, <1>1 DEF Fail, Session
  <2>3. \A step, port : Resume(r, [s EXCEPT !.pc = step, !.port = port]) =>
                           requests'[r].policy = s.policy
    BY <1>0, <1>1 DEF Session
  <2>4. \A step, at, port :
          Resume(r, [s EXCEPT !.pc = step, !.began = at, !.port = port]) =>
            requests'[r].policy = s.policy
    BY <1>0, <1>1 DEF Session
  <2> QED
    BY <1>7, <2>1, <2>2, <2>3, <2>4
       DEF LookupPort, TouchPort, InsertPort, ReadExpectedPort, InsertExpectedPort, ReadReplies,
           AddPort
<1> QED
  BY <1>2, <1>3, <1>4, <1>5, <1>6, <1>7
     DEF ServeStep, LookupPort, TouchPort, InsertPort, ReadExpectedPort, InsertExpectedPort,
         ReadReplies

\* The API leaves the sessions alone.
LEMMA ApiLeavesSessions ==
  ASSUME ApiStep
  PROVE  UNCHANGED requests
  BY DEF ApiStep, PostEndpoint, BeginPut, CommitPut, BeginDeleteEndpoint, CommitDeleteEndpoint,
         DeleteNasPort, DeletePolicy, WritePolicy, BeginDeleteGroup, CommitDeleteGroup

LEMMA PolicyKnownStep == TypeInv /\ PolicyKnown /\ [Next]_vars => PolicyKnown'
<1> SUFFICES ASSUME TypeInv, PolicyKnown, [Next]_vars
             PROVE  PolicyKnown'
  OBVIOUS
<1>1. CASE UNCHANGED requests
  BY <1>1 DEF PolicyKnown
<1>2. ASSUME NEW r \in Requests, ReadEndpoint(r) \/ ServeStep(r) \/ Crash(r)
      PROVE  PolicyKnown'
  <2>1. \A q \in Requests \ {r} : requests'[q] = requests[q]
    BY <1>2, OnlyItself
  <2> QED
    BY <1>2, <2>1, PolicyKept DEF PolicyKnown
<1> QED
  BY <1>1, <1>2, ApiLeavesSessions DEF Next, vars

-----------------------------------------------------------------------------
(* The steps of EndpointLifecycle *)

StateOf(row) == IF row = None THEN "absent" ELSE row.state

\* The abstract state is a function of the endpoints.
LEMMA LifecycleStateUnchanged ==
  ASSUME UNCHANGED endpoints
  PROVE  UNCHANGED LifecycleState
  BY DEF LifecycleState

\* A step that changes one endpoint changes the abstract state there.
LEMMA LifecycleStateAt ==
  ASSUME NEW e \in Endpoints,
         \A f \in Endpoints \ {e} : endpoints'[f] = endpoints[f]
  PROVE  LifecycleState' = [LifecycleState EXCEPT ![e] = StateOf(endpoints'[e])]
  BY DEF LifecycleState, StateOf

\* One step of one endpoint: what it takes to be a step of the life cycle.
LEMMA LifecycleAt ==
  ASSUME NEW e \in Endpoints,
         \A f \in Endpoints \ {e} : endpoints'[f] = endpoints[f],
         LET old == StateOf(endpoints[e])
             new == StateOf(endpoints'[e])
         IN  \/ new \in {old, "absent"}
             \/ new = Lifecycle!FirstRejection(e) /\ old = "absent"
             \/ new = "pending" /\ e \in MacEndpoints
             \/ new = "authorized"
             \/ new = "rejected" /\ old \notin {"absent", "discovered"}
         , StateOf(endpoints[e]) \in States \cup {"absent"}
  PROVE  [Lifecycle!Next]_LifecycleState
<1> DEFINE old == StateOf(endpoints[e])
           new == StateOf(endpoints'[e])
<1>1. LifecycleState' = [LifecycleState EXCEPT ![e] = new] /\ LifecycleState[e] = old
  BY LifecycleStateAt DEF LifecycleState, StateOf
<1>2. CASE new = old
  BY <1>1, <1>2 DEF LifecycleState
<1>3. CASE new = "absent"
  <2>1. LifecycleState' = [f \in Endpoints |-> IF f \in {e} THEN "absent" ELSE LifecycleState[f]]
    BY <1>1, <1>3 DEF LifecycleState
  <2> QED
    BY <2>1 DEF Lifecycle!Next, Lifecycle!Remove, LifecycleState
<1>4. CASE new = Lifecycle!FirstRejection(e) /\ old = "absent"
  BY <1>1, <1>4 DEF Lifecycle!Next, Lifecycle!FirstSeen, Lifecycle!Become, LifecycleState
<1>5. CASE new = "pending" /\ e \in MacEndpoints
  BY <1>1, <1>5 DEF Lifecycle!Next, Lifecycle!Await, Lifecycle!Become, LifecycleState
<1>6. CASE new = "authorized"
  BY <1>1, <1>6
     DEF Lifecycle!Next, Lifecycle!FirstSeen, Lifecycle!Accept, Lifecycle!Become, LifecycleState
<1>7. CASE new = "rejected" /\ old \in {"pending", "authorized"}
  BY <1>1, <1>7 DEF Lifecycle!Next, Lifecycle!Reject, Lifecycle!Become, LifecycleState
<1> QED
  BY <1>2, <1>3, <1>4, <1>5, <1>6, <1>7 DEF States

\* Every step of a session is a step of the life cycle, or none, or the exception.
LEMMA LifecycleServe ==
  ASSUME TypeInv, LoadedInv, PolicyKnown, NEW r \in Requests, ServeStep(r)
  PROVE  [Lifecycle!Next]_LifecycleState \/ RejectedAtFirstSight
<1> DEFINE e == requests[r].endpoint
<1>0. RestOK /\ e \in Endpoints /\ StateOf(endpoints[e]) \in States \cup {"absent"}
  BY SessionOf DEF RestOK, StateOf, EndpointRow
<1>1. CASE Quiet
  BY <1>1, LifecycleStateUnchanged DEF Quiet
<1>2. ASSUME NEW state \in States, Inserts(r, state)
      PROVE  /\ endpoints[e] = None
             /\ StateOf(endpoints[e]) = "absent" /\ StateOf(endpoints'[e]) = state
             /\ \A f \in Endpoints \ {e} : endpoints'[f] = endpoints[f]
  <2>1. /\ endpoints[e] = None /\ endpoints'[e] = AsEndpoint(clock + 1, state, None)
        /\ \A f \in Endpoints \ {e} : endpoints'[f] = endpoints[f]
    BY <1>0, <1>2 DEF Inserts, RestOK
  <2>2. endpoints'[e] # None /\ endpoints'[e].state = state
    BY <1>0, <2>1, NoneIsNoRowAssumption DEF AsEndpoint, EndpointRow, RestOK
  <2> QED
    BY <2>1, <2>2 DEF StateOf
<1>4. CASE Inserts(r, "authorized") \/ Inserts(r, Lifecycle!FirstRejection(e))
  <2>1. "authorized" \in States /\ Lifecycle!FirstRejection(e) \in States
    BY DEF States, Lifecycle!FirstRejection
  <2> HIDE DEF e
  <2> QED
    BY <1>0, <1>2, <1>4, <2>1, LifecycleAt
<1>5. CASE /\ Inserts(r, "rejected")
           /\ requests[r].pc = "reject" /\ requests[r].loaded = None
  <2>1. requests[r].policy # None
    BY <1>5, NoneIsNoRowAssumption DEF PolicyKnown
  <2>2. endpoints[e] = None /\ LifecycleState' = [LifecycleState EXCEPT ![e] = "rejected"]
    BY <1>0, <1>2, <1>5, LifecycleStateAt DEF States
  <2> QED
    BY <1>5, <2>1, <2>2 DEF RejectedAtFirstSight, Lifecycle!Become
<1>3. ASSUME NEW state \in {"rejected", "authorized"}, Updates(r, state)
      PROVE  [Lifecycle!Next]_LifecycleState
  <2>1. /\ endpoints[e] \in EndpointRow /\ endpoints[e] # None
        /\ requests[r].loaded # None /\ requests[r].loaded \in EndpointRow
        /\ IsCurrent(e, requests[r].loaded)
    BY <1>0, <1>3, SessionOf DEF Updates, IsCurrent, RestOK
  <2>2. /\ endpoints'[e] = [endpoints[e] EXCEPT !.state = state]
        /\ \A f \in Endpoints \ {e} : endpoints'[f] = endpoints[f]
    BY <1>0, <1>3 DEF Updates, RestOK
  <2>3. endpoints'[e] \in EndpointRow /\ endpoints'[e].state = state
    BY <2>1, <2>2 DEF EndpointRow, States
  <2>4. StateOf(endpoints'[e]) = state /\ StateOf(endpoints[e]) = endpoints[e].state
    BY <2>1, <2>3, NoneIsNoRowAssumption DEF StateOf
  <2>5. state = "rejected" => endpoints[e].state # "discovered"
    BY <1>3, <2>1 DEF Updates, KeepsState, LoadedInv, NeverDiscoveredAgain
  <2>6. endpoints[e].state # "absent"
    BY <2>1 DEF EndpointRow, States
  <2> HIDE DEF e
  <2>7. StateOf(endpoints'[e]) = "authorized"
        \/ (StateOf(endpoints'[e]) = "rejected" /\ StateOf(endpoints[e]) \notin {"absent", "discovered"})
    BY <2>4, <2>5, <2>6
  <2> QED
    BY <1>0, <2>2, <2>7, LifecycleAt
<1> QED
  BY <1>1, <1>3, <1>4, <1>5, ServeCases DEF States

\* Every change through the API is a step of the life cycle, or none.
LEMMA LifecycleApi ==
  ASSUME TypeInv, ManagedInv, ApiStep
  PROVE  [Lifecycle!Next]_LifecycleState
<1>0. RestOK /\ \A e \in Endpoints : StateOf(endpoints[e]) \in States \cup {"absent"}
  BY DEF TypeInv, TypeOK, RestOK, StateOf, EndpointRow
<1>1. ASSUME NEW e \in Endpoints, NEW g \in Groups \cup {None}, PostEndpoint(e, g)
      PROVE  [Lifecycle!Next]_LifecycleState
  <2>1. /\ e \in MacEndpoints /\ g \in Groups \cup {None}
        /\ endpoints'[e] = AsEndpoint(clock + 1, "pending", g)
        /\ \A f \in Endpoints \ {e} : endpoints'[f] = endpoints[f]
    BY <1>0, <1>1 DEF PostEndpoint, RestOK
  <2>2. endpoints'[e] # None /\ endpoints'[e].state = "pending"
    BY <1>0, <2>1, NoneIsNoRowAssumption DEF AsEndpoint, EndpointRow, States, RestOK
  <2>3. StateOf(endpoints'[e]) = "pending"
    BY <2>2 DEF StateOf
  <2> QED
    BY <1>0, <2>1, <2>3, LifecycleAt
<1>2. CASE UNCHANGED endpoints
  BY <1>2, LifecycleStateUnchanged
<1>3. CASE CommitPut
  <2> DEFINE e == put.endpoint
  <2>1. CASE UNCHANGED endpoints
    BY <1>2, <2>1
  <2>2. CASE ~ UNCHANGED endpoints
    <3>1. /\ put # None /\ IsCurrent(e, put.loaded) /\ put.group_id # put.loaded.group_id
          /\ endpoints' = [endpoints EXCEPT
               ![e] = AsEndpoint(@.id, StateAfterPut(put.loaded, @), put.group_id)]
      BY <1>3, <2>2 DEF CommitPut
    <3>2. /\ e \in Endpoints /\ put \in PutSession /\ endpoints[e] \in EndpointRow
          /\ endpoints[e] # None
      BY <1>0, <3>1 DEF RestOK, PutSession, IsCurrent
    <3>3. e \in MacEndpoints
      BY <3>1 DEF ManagedInv, PutIsManaged
    <3>4. /\ endpoints'[e] = AsEndpoint(endpoints[e].id, StateAfterPut(put.loaded, endpoints[e]),
                                        put.group_id)
          /\ \A f \in Endpoints \ {e} : endpoints'[f] = endpoints[f]
      BY <1>0, <3>1, <3>2 DEF RestOK
    <3>5. /\ endpoints'[e] \in EndpointRow
          /\ endpoints'[e].state \in {endpoints[e].state, "pending"}
      BY <3>2, <3>4 DEF AsEndpoint, StateAfterPut, EndpointRow, PutSession, States
    <3>6. StateOf(endpoints'[e]) \in {StateOf(endpoints[e]), "pending"}
      BY <3>2, <3>5, NoneIsNoRowAssumption DEF StateOf
    <3> HIDE DEF e
    <3> QED
      BY <1>0, <3>2, <3>3, <3>4, <3>6, LifecycleAt
  <2> QED
    BY <2>1, <2>2
<1>4. ASSUME NEW d \in removals, CommitDeleteEndpoint(d)
      PROVE  [Lifecycle!Next]_LifecycleState
  <2>1. CASE UNCHANGED endpoints
    BY <1>2, <2>1
  <2>2. CASE ~ UNCHANGED endpoints
    <3> DEFINE e == d.endpoint
    <3>1. /\ e \in Endpoints /\ endpoints'[e] = None
          /\ \A f \in Endpoints \ {e} : endpoints'[f] = endpoints[f]
      BY <1>0, <1>4, <2>2 DEF CommitDeleteEndpoint, RestOK, EndpointDeletion
    <3>2. StateOf(endpoints'[e]) = "absent"
      BY <3>1 DEF StateOf
    <3> HIDE DEF e
    <3> QED
      BY <1>0, <3>1, <3>2, LifecycleAt
  <2> QED
    BY <2>1, <2>2
<1>5. ASSUME NEW d \in disbandings, CommitDeleteGroup(d)
      PROVE  [Lifecycle!Next]_LifecycleState
  <2>1. ASSUME NEW f \in Endpoints
        PROVE  StateOf(endpoints'[f]) = StateOf(endpoints[f])
    BY <1>0, <1>5, DisbandedRow DEF StateOf
  <2>2. \A f \in Endpoints :
          LifecycleState'[f] = StateOf(endpoints'[f]) /\ LifecycleState[f] = StateOf(endpoints[f])
    BY DEF LifecycleState, StateOf
  <2>3. UNCHANGED LifecycleState
    BY <2>1, <2>2 DEF LifecycleState
  <2> QED
    BY <2>3
<1> QED
  BY <1>1, <1>2, <1>3, <1>4, <1>5
     DEF ApiStep, BeginPut, DeleteNasPort, WritePolicy, DeletePolicy, BeginDeleteEndpoint,
         BeginDeleteGroup, tables

LifecycleInv == ManagedInv /\ LoadedInv /\ PolicyKnown

LEMMA LifecycleInvariance == Spec => []LifecycleInv
<1>1. Init => LifecycleInv
  BY DEF Init, NewSession, ManagedInv, OnlyMacEndpointsAreManaged, PutIsManaged,
         LoadedInv, IdsAreOld, NeverDiscoveredAgain, LifecycleInv, PolicyKnown
<1> QED
  BY <1>1, TypeInvariance, ManagedInvStep, LoadedStep, PolicyKnownStep, PTL DEF Spec, LifecycleInv

LEMMA LifecycleStep ==
  ASSUME TypeInv, LifecycleInv, [Next]_vars
  PROVE  [Lifecycle!Next]_LifecycleState \/ \E r \in Requests : ServeStep(r) /\ RejectedAtFirstSight
<1>1. CASE UNCHANGED endpoints
  BY <1>1, LifecycleStateUnchanged
<1>2. ASSUME NEW r \in Requests, ReadEndpoint(r) \/ Crash(r)
      PROVE  UNCHANGED endpoints
  BY <1>2 DEF ReadEndpoint, Crash, tables
<1> QED
  BY <1>1, <1>2, LifecycleServe, LifecycleApi DEF Next, vars, LifecycleInv

\* Whatever overlaps, the states of the endpoints follow the documented life cycle, but for
\* one step that is not of it: the rejection by a policy, in its replies or by its port lock,
\* of an endpoint without a row.
THEOREM ImplementsLifecycle == Spec => FollowsLifecycle
<1>1. Init => Lifecycle!Init
  BY DEF Init, Lifecycle!Init, LifecycleState
<1>2. TypeInv /\ LifecycleInv /\ [Next]_vars => [Lifecycle!Next \/ RejectedAtFirstSight]_LifecycleState
  BY LifecycleStep
<1> QED
  BY <1>1, <1>2, LifecycleInvariance, TypeInvariance, PTL DEF Spec, FollowsLifecycle

\* The policies that reject nothing themselves: no reply rejects, and no port is locked.
OnlyAccepting == \A p \in PolicyRows : p.port_locking = None /\ ~ p.final_reject

\* Under them a session that rejects has loaded its endpoint.
RejectsWhatItLoaded ==
  \A r \in Requests :
    /\ requests[r].locking = None /\ requests[r].pc \notin {"lock", "expect"}
    /\ requests[r].pc = "reject" => requests[r].loaded # None

LEMMA RejectsWhatItLoadedStep ==
  ASSUME OnlyAccepting, TypeInv, PolicyKnown, RejectsWhatItLoaded, [Next]_vars
  PROVE  RejectsWhatItLoaded'
<1> DEFINE Good(t) == /\ t.locking = None /\ t.pc \notin {"lock", "expect"}
                      /\ t.pc = "reject" => t.loaded # None
<1>1. CASE UNCHANGED requests
  BY <1>1 DEF RejectsWhatItLoaded
<1>2. ASSUME NEW r \in Requests, ReadEndpoint(r) \/ ServeStep(r) \/ Crash(r)
      PROVE  Good(requests'[r])
  <2> DEFINE s == requests[r]
  <2>0. s \in Session /\ RestOK /\ requests \in [Requests -> Session] /\ Good(s)
    BY SessionOf DEF TypeInv, TypeOK, RejectsWhatItLoaded
  <2>1. \A t : Resume(r, t) => requests'[r] = t
    BY <2>0 DEF Resume
  <2>2. \A step \in Steps \ {"lock", "expect", "reject"} : Goto(r, step) => Good(requests'[r])
    BY <2>0, <2>1 DEF Goto, Session
  <2>3. \A cause : Fail(r, cause) => Good(requests'[r])
    BY <2>0, <2>1 DEF Fail, Session
  <2>4. \A port : \A step \in {"touch", "replies"} :
          Resume(r, [s EXCEPT !.pc = step, !.port = port]) => Good(requests'[r])
    BY <2>0, <2>1 DEF Session
  <2>5. CASE ReadEndpoint(r) \/ Crash(r)
    BY <2>0, <2>1, <2>5 DEF ReadEndpoint, Crash, Finish, Session
  <2>6. CASE SelectPolicy(r)
    <3>1. ASSUME NEW id \in PolicyIds, policies[id] \in PolicyRows,
                 Resume(r, [s EXCEPT !.pc = "lookup", !.policy = id,
                                     !.locking = policies[id].port_locking])
          PROVE  Good(requests'[r])
      BY <2>0, <2>1, <3>1 DEF Session, OnlyAccepting
    <3>2. CASE Goto(r, IF s.loaded = None THEN "create" ELSE "reject")
      BY <2>0, <2>1, <3>2 DEF Goto, Session
    <3> QED
      BY <2>0, <2>3, <2>6, <3>1, <3>2, SelectableIsStored DEF SelectPolicy
  <2>7. CASE CreateNewEndpoint(r)
    <3> DEFINE row == AsEndpoint(clock + 1, IF s.endpoint \in MacEndpoints THEN "discovered" ELSE "rejected", None)
    <3>1. row # None
      BY <2>0, NoneIsNoRowAssumption DEF AsEndpoint, EndpointRow, States, RestOK
    <3> HIDE DEF row
    <3>2. CASE Resume(r, [s EXCEPT !.pc = "reject", !.loaded = row])
      BY <2>0, <2>1, <3>1, <3>2 DEF Session
    <3>3. CASE Finish(r, "reject")
      BY <2>0, <2>1, <3>3 DEF Finish, Session
    <3> QED
      BY <2>7, <3>2, <3>3 DEF CreateNewEndpoint, row
  <2>8. CASE LookupPort(r)
    BY <2>0, <2>2, <2>3, <2>4, <2>8 DEF LookupPort, Steps
  <2>9. CASE TouchPort(r)
    <3>1. AfterPort(r) = "replies"
      BY <2>0 DEF AfterPort
    <3>2. \A at, port :
            Resume(r, [s EXCEPT !.pc = "replies", !.began = at, !.port = port]) => Good(requests'[r])
      BY <2>0, <2>1 DEF Session
    <3> QED
      BY <2>3, <2>9, <3>1, <3>2 DEF TouchPort
  <2>10. CASE InsertPort(r)
    BY <2>3, <2>4, <2>10 DEF InsertPort, AddPort
  <2>11. CASE ReadReplies(r)
    <3>1. s.policy \in PolicyIds
      BY <2>11 DEF ReadReplies, PolicyKnown
    <3>2. policies[s.policy] # None => ~ policies[s.policy].final_reject
      BY <2>0, <3>1 DEF RestOK, OnlyAccepting
    <3> QED
      BY <2>2, <2>3, <2>11, <3>2 DEF ReadReplies, Steps
  <2>12. CASE Accept(r) \/ Reject(r)
    <3>1. \A verdict : Finish(r, verdict) => Good(requests'[r])
      BY <2>0, <2>1 DEF Finish, Session
    <3> QED
      BY <2>3, <2>12, <3>1 DEF Accept, Reject, UpdateEndpointState
  <2> QED
    BY <1>2, <2>0, <2>5, <2>6, <2>7, <2>8, <2>9, <2>10, <2>11, <2>12
       DEF ServeStep, ReadExpectedPort, InsertExpectedPort
<1>3. ASSUME NEW r \in Requests, ReadEndpoint(r) \/ ServeStep(r) \/ Crash(r)
      PROVE  RejectsWhatItLoaded'
  BY <1>2, <1>3, OnlyItself DEF RejectsWhatItLoaded
<1> QED
  BY <1>1, <1>3, ApiLeavesSessions DEF Next, vars

\* Where no policy rejects by itself, the states follow the documented life cycle without
\* exception: a rejection for want of a policy makes a new MAB endpoint discovered
\* (create_new_endpoint), whatever overlaps.
THEOREM AcceptingPoliciesImplementLifecycle ==
  ASSUME OnlyAccepting
  PROVE  Spec => Lifecycle!Spec
<1>1. Init => Lifecycle!Init /\ RejectsWhatItLoaded
  BY DEF Init, Lifecycle!Init, LifecycleState, RejectsWhatItLoaded, NewSession
<1>2. TypeInv /\ LifecycleInv /\ RejectsWhatItLoaded /\ [Next]_vars => RejectsWhatItLoaded'
  BY RejectsWhatItLoadedStep DEF LifecycleInv
<1>3. TypeInv /\ LifecycleInv /\ RejectsWhatItLoaded /\ [Next]_vars => [Lifecycle!Next]_LifecycleState
  BY LifecycleStep DEF RejectedAtFirstSight, RejectsWhatItLoaded
<1> QED
  BY <1>1, <1>2, <1>3, LifecycleInvariance, TypeInvariance, PTL DEF Spec, Lifecycle!Spec

-----------------------------------------------------------------------------
(* Without overlap: the last verdict *)

\* Nobody else works on the user of a session.
Alone ==
  \A r \in Requests : InFlight(r) =>
    /\ \A q \in Requests \ {r} :
         InFlight(q) => UserOf[requests[q].endpoint] # UserOf[requests[r].endpoint]
    /\ ~ ChangedByApi(requests[r].endpoint)

\* Nor on the user of an update; and nobody else works while a group is deleted.
ApiAlone ==
  /\ put # None => \A d \in removals : UserOf[d.endpoint] # UserOf[put.endpoint]
  /\ disbandings # {} => put = None /\ removals = {}
  /\ \A c, d \in disbandings : c = d \/ Endpoints = {}

\* So what a session has loaded is what is there.
Fresh ==
  /\ \A r \in Requests : InFlight(r) => requests[r].loaded = endpoints[requests[r].endpoint]
  /\ put # None => put.loaded = endpoints[put.endpoint]
  /\ \A d \in disbandings : \A e \in MembersOf(d) : GroupOf(endpoints[e]) = d.group_id

\* An endpoint is in the state of its last verdict, given under its group.
RowIsSettled(row, last, known) ==
  row # None =>
    /\ row.state = "authorized" <=> last.verdict = "accept"
    /\ row.state = "pending" <=> last.verdict = "none"
    /\ row.state = "authorized" =>
         \/ last.group_id = row.group_id
         \/ last.group_id \notin known \cup {None} /\ row.group_id = None

Settled(e) == RowIsSettled(endpoints[e], judged[e], groups)

IsolatedInv == Alone /\ ApiAlone /\ Fresh /\ \A e \in Endpoints : Settled(e)

\* Sessions that go on, end or change nothing stay alone.
LEMMA StaysAlone ==
  ASSUME IsolatedInv,
         \A r \in Requests : InFlight(r)' => InFlight(r) /\ SameRequest(r),
         put' \in {put, None}, removals' \subseteq removals, disbandings' \subseteq disbandings
  PROVE  Alone' /\ ApiAlone'
<1>1. \A e : ChangedByApi(e)' => ChangedByApi(e)
  BY DEF ChangedByApi
<1>2. \A r \in Requests : InFlight(r)' => requests'[r].endpoint = requests[r].endpoint
  BY DEF SameRequest
<1>3. ASSUME NEW r \in Requests, InFlight(r)'
      PROVE  /\ \A q \in Requests \ {r} :
                  InFlight(q)' => UserOf[requests'[q].endpoint] # UserOf[requests'[r].endpoint]
             /\ ~ ChangedByApi(requests[r].endpoint)'
             /\ requests'[r].endpoint = requests[r].endpoint
  BY <1>1, <1>2, <1>3 DEF IsolatedInv, Alone
<1>4. Alone'
  BY <1>3 DEF Alone, ChangedByApi
<1>5. ApiAlone'
  BY DEF IsolatedInv, ApiAlone
<1> QED
  BY <1>4, <1>5

\* What holds of an endpoint depends on its row, its last verdict and the groups.
LEMMA SettledSame ==
  ASSUME NEW e, Settled(e), endpoints'[e] = endpoints[e], judged'[e] = judged[e], groups' = groups
  PROVE  Settled(e)'
  BY DEF Settled

\* A session that works on its own endpoint alone disturbs nobody.
LEMMA OwnStep ==
  ASSUME TypeInv, IsolatedInv, NEW r \in Requests, InFlight(r), SameRequest(r),
         \A q \in Requests \ {r} : requests'[q] = requests[q],
         UNCHANGED <<groups, api>>,
         \A e \in Endpoints \ {requests[r].endpoint} :
           endpoints'[e] = endpoints[e] /\ judged'[e] = judged[e],
         InFlight(r)' => requests'[r].loaded = endpoints'[requests[r].endpoint],
         RowIsSettled(endpoints'[requests[r].endpoint], judged'[requests[r].endpoint], groups)
  PROVE  IsolatedInv'
<1> DEFINE e == requests[r].endpoint
<1>1. /\ e \in Endpoints /\ \A q \in Requests : requests[q].endpoint \in Endpoints
      /\ put # None => put.endpoint \in Endpoints
  BY SessionOf DEF RestOK, TypeInv, TypeOK, PutSession
<1>2. /\ \A q \in Requests : SameRequest(q)
      /\ \A q \in Requests : InFlight(q)' => InFlight(q)
  BY DEF SameRequest, InFlight
<1>3. Alone' /\ ApiAlone'
  BY <1>2, StaysAlone DEF api
<1>4. \A q \in Requests \ {r} : InFlight(q) => requests[q].endpoint # e
  BY DEF IsolatedInv, Alone
<1>5. (put # None => put.endpoint # e) /\ disbandings = {}
  BY DEF IsolatedInv, Alone, ChangedByApi
<1>6. Fresh'
  BY <1>1, <1>2, <1>4, <1>5 DEF IsolatedInv, Fresh, SameRequest, InFlight, api
<1>7. ASSUME NEW f \in Endpoints
      PROVE  Settled(f)'
  <2>1. CASE f = e
    BY <2>1 DEF Settled
  <2>2. CASE f # e
    BY <2>2, SettledSame DEF IsolatedInv
  <2> QED
    BY <2>1, <2>2
<1> QED
  BY <1>3, <1>6, <1>7 DEF IsolatedInv

\* Steps that touch no endpoint.
LEMMA IsolatedQuiet ==
  ASSUME TypeInv, IsolatedInv, NEW r \in Requests, Quiet, InFlight(r), UNCHANGED judged,
         \A q \in Requests \ {r} : requests'[q] = requests[q]
  PROVE  IsolatedInv'
<1>1. requests[r].endpoint \in Endpoints
  BY SessionOf
<1>2. RowIsSettled(endpoints'[requests[r].endpoint], judged'[requests[r].endpoint], groups)
  BY <1>1 DEF Quiet, IsolatedInv, Settled
<1>3. InFlight(r)' => requests'[r].loaded = endpoints'[requests[r].endpoint]
  BY DEF Quiet, IsolatedInv, Fresh
<1> QED
  BY <1>2, <1>3, OwnStep DEF Quiet

\* A request is taken up when nobody works on its user.
LEMMA IsolatedReads ==
  ASSUME Isolated, TypeInv, IsolatedInv, NEW r \in Requests, ReadEndpoint(r)
  PROVE  IsolatedInv'
<1>1. /\ UNCHANGED <<endpoints, groups, api, judged>>
      /\ \A q \in Requests : SameRequest(q)
      /\ requests'[r].loaded = endpoints[requests[r].endpoint]
      /\ \A q \in Requests \ {r} : requests'[q] = requests[q]
  BY ReadEndpointLoads DEF ReadEndpoint
<1>2. ~ Busy(requests[r].endpoint)
  BY DEF ReadEndpoint, MayTouch
<1>3. /\ \A q \in Requests \ {r} : InFlight(q)' <=> InFlight(q)
      /\ \A q \in Requests : InFlight(q) =>
           UserOf[requests[q].endpoint] # UserOf[requests[r].endpoint]
      /\ ~ ChangedByApi(requests[r].endpoint)
  BY <1>1, <1>2 DEF Busy, InFlight
<1>4. Alone' /\ ApiAlone'
  <2>1. \A e : ChangedByApi(e)' <=> ChangedByApi(e)
    BY <1>1 DEF ChangedByApi, api
  <2>2. \A q \in Requests : requests'[q].endpoint = requests[q].endpoint
    BY <1>1 DEF SameRequest
  <2>3. \A q \in Requests : InFlight(q)' => ~ ChangedByApi(requests[q].endpoint)'
    BY <1>3, <2>1, <2>2 DEF IsolatedInv, Alone, ChangedByApi
  <2>4. \A p \in Requests : \A q \in Requests \ {p} :
          InFlight(p)' /\ InFlight(q)' => UserOf[requests'[q].endpoint] # UserOf[requests'[p].endpoint]
    BY <1>3, <2>2 DEF IsolatedInv, Alone
  <2>5. ApiAlone'
    BY <1>1 DEF IsolatedInv, ApiAlone, api
  <2> QED
    BY <2>3, <2>4, <2>5 DEF Alone
<1>5. Fresh'
  BY <1>1, <1>3 DEF IsolatedInv, Fresh, SameRequest, api
<1>6. \A e \in Endpoints : Settled(e)'
  BY <1>1 DEF IsolatedInv, Settled
<1> QED
  BY <1>4, <1>5, <1>6 DEF IsolatedInv

\* A new endpoint is discovered, or rejected, and so judged.
LEMMA IsolatedCreates ==
  ASSUME TypeInv, IsolatedInv, NEW r \in Requests, CreateNewEndpoint(r)
  PROVE  IsolatedInv'
<1> DEFINE s == requests[r]
           e == s.endpoint
           row == AsEndpoint(clock + 1, IF e \in MacEndpoints THEN "discovered" ELSE "rejected", None)
           t == [s EXCEPT !.pc = "reject", !.loaded = row]
<1>1. /\ s \in Session /\ e \in Endpoints /\ RestOK /\ requests \in [Requests -> Session]
      /\ InFlight(r)
      /\ \A q \in Requests \ {r} : requests'[q] = requests[q]
  BY SessionOf, OnlyItself DEF TypeInv, TypeOK, CreateNewEndpoint, InFlight, ServeStep
<1>2. CASE endpoints[e] = None /\ Colliding(e, s.place) = {}
  <2>1. /\ row \in EndpointRow /\ row.state \in {"discovered", "rejected"}
    BY <1>1 DEF RestOK, EndpointRow, States, AsEndpoint
  <2>2. t \in Session /\ t.loaded = row /\ t.endpoint = e /\ t.place = s.place
    BY <1>1, <2>1 DEF Session, Steps
  <2>3. /\ endpoints' = [endpoints EXCEPT ![e] = row]
        /\ judged' = [judged EXCEPT ![e] = [verdict |-> "reject", group_id |-> None]]
        /\ Resume(r, t) /\ UNCHANGED <<groups, api>>
    BY <1>2 DEF CreateNewEndpoint, Judge
  <2> HIDE DEF t, row
  <2>4. requests'[r] = t
    BY <1>1, <2>2, <2>3, ResumeSession
  <2>5. RowIsSettled(endpoints'[e], judged'[e], groups)
    <3>1. /\ endpoints'[e] = row
          /\ judged'[e] = [verdict |-> "reject", group_id |-> None]
      BY <1>1, <2>3 DEF RestOK
    <3> QED
      BY <2>1, <3>1 DEF RowIsSettled
  <2>6. SameRequest(r) /\ requests'[r].loaded = endpoints'[e]
    BY <1>1, <2>2, <2>3, <2>4 DEF SameRequest, RestOK
  <2>7. \A f \in Endpoints \ {e} : endpoints'[f] = endpoints[f] /\ judged'[f] = judged[f]
    BY <1>1, <2>3 DEF RestOK
  <2> QED
    BY <1>1, <2>3, <2>5, <2>6, <2>7, OwnStep
<1>3. CASE ~ (endpoints[e] = None /\ Colliding(e, s.place) = {})
  <2>1. Quiet /\ UNCHANGED judged
    BY <1>3, FinishQuiet DEF CreateNewEndpoint, Answers
  <2> QED
    BY <1>1, <2>1, IsolatedQuiet
<1> QED
  BY <1>2, <1>3

\* A verdict is written, or was the state already.
LEMMA IsolatedJudges ==
  ASSUME TypeInv, IsolatedInv, NEW r \in Requests,
         NEW verdict, NEW state, Accept(r) \/ Reject(r), UpdateEndpointState(r, verdict, state),
         <<verdict, state>> \in {<<"accept", "authorized">>, <<"reject", "rejected">>}
  PROVE  IsolatedInv'
<1> DEFINE s == requests[r]
           e == s.endpoint
           keeps == s.loaded # None /\ KeepsState(s.loaded, state)
           t == [s EXCEPT !.pc = "done", !.answer = verdict]
<1>1. /\ s \in Session /\ e \in Endpoints /\ RestOK /\ requests \in [Requests -> Session]
      /\ InFlight(r)
      /\ \A q \in Requests \ {r} : requests'[q] = requests[q]
  BY SessionOf, OnlyItself DEF TypeInv, TypeOK, Accept, Reject, InFlight, ServeStep
<1>2. s.loaded = endpoints[e] /\ endpoints[e] \in EndpointRow \cup {None}
  BY <1>1 DEF IsolatedInv, Fresh, RestOK
<1>0. \/ verdict = "accept" /\ state = "authorized"
      \/ verdict = "reject" /\ state = "rejected"
  OBVIOUS
<1>3. CASE \E cause \in Errors : Fail(r, cause)
  <2>1. Quiet /\ UNCHANGED judged
    BY <1>3, FailQuiet DEF Fail
  <2> QED
    BY <1>1, <2>1, IsolatedQuiet
<1>4. CASE ~ \E cause \in Errors : Fail(r, cause)
  <2>1. /\ endpoints' = [endpoints EXCEPT ![e] =
                            IF s.loaded = None THEN AsEndpoint(clock + 1, state, None)
                            ELSE IF keeps THEN @ ELSE [@ EXCEPT !.state = state]]
        /\ judged' = [judged EXCEPT ![e] = [verdict |-> verdict, group_id |-> GroupOf(s.loaded)]]
        /\ Resume(r, t) /\ UNCHANGED <<groups, api>>
    BY <1>4 DEF UpdateEndpointState, Finish, Judge, Errors
  <2>2. t \in Session /\ t.pc = "done" /\ t.endpoint = e /\ t.place = s.place
    BY <1>1 DEF Session, Steps, Answers
  <2> HIDE DEF t
  <2>3. requests'[r] = t
    BY <1>1, <2>1, <2>2, ResumeSession
  <2>4. SameRequest(r) /\ ~ InFlight(r)'
    BY <2>2, <2>3 DEF SameRequest, InFlight
  <2>5. \A f \in Endpoints \ {e} : endpoints'[f] = endpoints[f] /\ judged'[f] = judged[f]
    BY <1>1, <2>1 DEF RestOK
  <2>6. /\ judged'[e].verdict = verdict /\ judged'[e].group_id = GroupOf(endpoints[e])
        /\ groups' = groups
    BY <1>1, <1>2, <2>1 DEF RestOK
  <2> HIDE DEF keeps
  <2>7. RowIsSettled(endpoints'[e], judged'[e], groups)
    <3>1. CASE endpoints[e] = None
      <4>1. endpoints'[e] = AsEndpoint(clock + 1, state, None)
        BY <1>1, <1>2, <2>1, <3>1 DEF RestOK
      <4>2. endpoints'[e].state = state /\ endpoints'[e].group_id = None /\ judged'[e].group_id = None
        BY <2>6, <3>1, <4>1 DEF AsEndpoint, GroupOf
      <4> QED
        BY <1>0, <2>6, <4>2 DEF RowIsSettled
    <3>2. CASE endpoints[e] # None /\ keeps
      <4>1. endpoints'[e] = endpoints[e] /\ judged'[e].group_id = endpoints[e].group_id
        BY <1>1, <1>2, <2>1, <2>6, <3>2 DEF RestOK, GroupOf
      <4>2. endpoints[e].state = state \/ (endpoints[e].state = "discovered" /\ state = "rejected")
        BY <1>2, <3>2 DEF keeps, KeepsState
      <4> QED
        BY <1>0, <2>6, <4>1, <4>2 DEF RowIsSettled
    <3>3. CASE endpoints[e] # None /\ ~ keeps
      <4>1. endpoints'[e] = [endpoints[e] EXCEPT !.state = state]
        BY <1>1, <1>2, <2>1, <3>3 DEF RestOK
      <4>2. /\ endpoints'[e].state = state /\ endpoints'[e].group_id = endpoints[e].group_id
            /\ judged'[e].group_id = endpoints[e].group_id
        BY <1>2, <2>6, <3>3, <4>1 DEF EndpointRow, GroupOf
      <4> QED
        BY <1>0, <2>6, <4>2 DEF RowIsSettled
    <3> QED
      BY <3>1, <3>2, <3>3
  <2> QED
    BY <1>1, <2>1, <2>4, <2>5, <2>7, OwnStep
<1> QED
  BY <1>3, <1>4

\* Every step of a session.
LEMMA IsolatedServes ==
  ASSUME TypeInv, IsolatedInv, NEW r \in Requests, ServeStep(r) \/ Crash(r)
  PROVE  IsolatedInv'
<1>1. CASE \/ SelectPolicy(r) \/ LookupPort(r) \/ TouchPort(r) \/ InsertPort(r)
           \/ ReadExpectedPort(r) \/ InsertExpectedPort(r) \/ ReadReplies(r) \/ Crash(r)
  <2>1. InFlight(r) /\ UNCHANGED judged
    BY <1>1 DEF SelectPolicy, LookupPort, TouchPort, InsertPort, ReadExpectedPort,
                InsertExpectedPort, ReadReplies, Crash, AddPort, Fail, InFlight
  <2> QED
    BY <1>1, <2>1, QuietSteps, OnlyItself, IsolatedQuiet
<1>2. CASE Accept(r)
  BY <1>2, IsolatedJudges DEF Accept
<1>3. CASE Reject(r)
  BY <1>3, IsolatedJudges DEF Reject
<1> QED
  BY <1>1, <1>2, <1>3, IsolatedCreates DEF ServeStep

\* The external API changes an endpoint nobody else works on.
LEMMA IsolatedChange ==
  ASSUME TypeInv, IsolatedInv, NEW e \in Endpoints, UNCHANGED <<groups, requests>>,
         disbandings = {}, disbandings' = {}, removals' \subseteq removals,
         \A r \in Requests : InFlight(r) => requests[r].endpoint # e,
         \/ put' = None
         \/ put' = put /\ (put # None => put.endpoint # e),
         \A f \in Endpoints \ {e} : endpoints'[f] = endpoints[f] /\ judged'[f] = judged[f],
         RowIsSettled(endpoints'[e], judged'[e], groups)
  PROVE  IsolatedInv'
<1>1. /\ \A q \in Requests : requests[q].endpoint \in Endpoints
      /\ put # None => put.endpoint \in Endpoints
  BY SessionOf DEF TypeInv, TypeOK, PutSession
<1>2. Alone' /\ ApiAlone'
  BY StaysAlone DEF InFlight, SameRequest
<1>3. Fresh'
  BY <1>1 DEF IsolatedInv, Fresh, InFlight
<1>4. ASSUME NEW f \in Endpoints
      PROVE  Settled(f)'
  <2>1. CASE f = e
    BY <2>1 DEF Settled
  <2>2. CASE f # e
    BY <2>2, SettledSame DEF IsolatedInv
  <2> QED
    BY <2>1, <2>2
<1> QED
  BY <1>2, <1>3, <1>4 DEF IsolatedInv

LEMMA IsolatedPosts ==
  ASSUME Isolated, TypeInv, IsolatedInv, NEW e \in Endpoints, NEW g \in Groups \cup {None},
         PostEndpoint(e, g)
  PROVE  IsolatedInv'
<1>1. /\ ~ Busy(e)
      /\ UNCHANGED <<groups, requests, put, removals, disbandings>>
      /\ \A f \in Endpoints \ {e} : endpoints'[f] = endpoints[f] /\ judged'[f] = judged[f]
  BY DEF PostEndpoint, MayTouch, TypeInv, TypeOK, api
<1>2. /\ \A r \in Requests : InFlight(r) => requests[r].endpoint # e
      /\ put # None => put.endpoint # e
      /\ disbandings = {}
  BY <1>1 DEF Busy, ChangedByApi
<1>3. RowIsSettled(endpoints'[e], judged'[e], groups)
  BY DEF PostEndpoint, TypeInv, TypeOK, RowIsSettled, AsEndpoint, NoVerdict
<1> QED
  BY <1>1, <1>2, <1>3, IsolatedChange

LEMMA IsolatedCommitDeleteEndpoint ==
  ASSUME TypeInv, IsolatedInv, NEW d \in removals, CommitDeleteEndpoint(d)
  PROVE  IsolatedInv'
<1> DEFINE e == d.endpoint
<1>1. /\ e \in Endpoints
      /\ UNCHANGED <<groups, requests, put, disbandings>> /\ removals' \subseteq removals
      /\ \A f \in Endpoints \ {e} : endpoints'[f] = endpoints[f] /\ judged'[f] = judged[f]
  BY DEF CommitDeleteEndpoint, TypeInv, TypeOK, EndpointDeletion
<1>2. /\ \A r \in Requests : InFlight(r) => requests[r].endpoint # e
      /\ put # None => put.endpoint # e
      /\ disbandings = {}
  BY DEF IsolatedInv, Alone, ApiAlone, ChangedByApi
<1>3. RowIsSettled(endpoints'[e], judged'[e], groups)
  <2>1. CASE IsCurrent(d.endpoint, d)
    <3>1. endpoints'[e] = None
      BY <1>1, <2>1 DEF CommitDeleteEndpoint, TypeInv, TypeOK
    <3> QED
      BY <3>1 DEF RowIsSettled
  <2>2. CASE ~ IsCurrent(d.endpoint, d)
    BY <1>1, <2>2 DEF CommitDeleteEndpoint, IsolatedInv, Settled
  <2> QED
    BY <2>1, <2>2
<1> QED
  BY <1>1, <1>2, <1>3, IsolatedChange

\* An update or a deletion is taken up when nobody works on its user.
LEMMA IsolatedBeginPut ==
  ASSUME Isolated, TypeInv, IsolatedInv, NEW e \in Endpoints, NEW g \in Groups \cup {None},
         BeginPut(e, g)
  PROVE  IsolatedInv'
<1>1. /\ ~ Busy(e)
      /\ UNCHANGED <<endpoints, groups, requests, removals, disbandings, judged>>
      /\ put'.endpoint = e /\ put'.loaded = endpoints[e] /\ put = None
  BY DEF BeginPut, MayTouch, tables
<1>2. Alone' /\ ApiAlone'
  BY <1>1 DEF IsolatedInv, Alone, ApiAlone, InFlight, Busy, ChangedByApi
<1>3. Fresh'
  BY <1>1 DEF IsolatedInv, Fresh, InFlight
<1> QED
  BY <1>1, <1>2, <1>3 DEF IsolatedInv, Settled

LEMMA IsolatedBeginDeleteEndpoint ==
  ASSUME Isolated, TypeInv, IsolatedInv, NEW e \in Endpoints, BeginDeleteEndpoint(e)
  PROVE  IsolatedInv'
<1>1. /\ ~ Busy(e)
      /\ UNCHANGED <<endpoints, groups, requests, put, disbandings, judged>>
      /\ \A d \in removals' \ removals : d.endpoint = e
  BY DEF BeginDeleteEndpoint, MayTouch, tables
<1>2. Alone' /\ ApiAlone'
  BY <1>1 DEF IsolatedInv, Alone, ApiAlone, InFlight, Busy, ChangedByApi
<1>3. Fresh'
  BY <1>1 DEF IsolatedInv, Fresh, InFlight
<1> QED
  BY <1>1, <1>2, <1>3 DEF IsolatedInv, Settled

\* Nobody works on anybody while a group is deleted.
LEMMA IsolatedDisbanding ==
  ASSUME TypeInv, IsolatedInv, disbandings # {}
  PROVE  /\ \A r \in Requests : ~ InFlight(r)
         /\ put = None /\ removals = {}
  BY DEF IsolatedInv, Alone, ApiAlone, ChangedByApi

LEMMA IsolatedBeginDeleteGroup ==
  ASSUME Isolated, TypeInv, IsolatedInv, NEW g \in Groups, BeginDeleteGroup(g)
  PROVE  IsolatedInv'
<1>1. /\ \A e \in Endpoints : ~ Busy(e)
      /\ UNCHANGED <<endpoints, groups, requests, put, removals, judged>>
  BY DEF BeginDeleteGroup, MayTouch, tables
<1> DEFINE d == [group_id |-> g,
                 members |-> {[endpoint |-> e, id |-> endpoints[e].id] :
                                e \in {f \in Endpoints : GroupOf(endpoints[f]) = g}}]
<1>2. disbandings' = disbandings \cup {d}
  BY DEF BeginDeleteGroup
<1>3. /\ \A r \in Requests : ~ InFlight(r)
      /\ put = None /\ removals = {}
      /\ disbandings = {} \/ Endpoints = {}
  <2>1. /\ \A r \in Requests : requests[r].endpoint \in Endpoints
        /\ put # None => put.endpoint \in Endpoints
        /\ \A c \in removals : c.endpoint \in Endpoints
    BY SessionOf DEF TypeInv, TypeOK, PutSession, EndpointDeletion
  <2> QED
    BY <1>1, <2>1 DEF Busy, ChangedByApi
<1>5. d.group_id = g /\ \A e \in MembersOf(d) : GroupOf(endpoints[e]) = g
  BY DEF MembersOf
<1> HIDE DEF d
<1>4. Alone' /\ ApiAlone'
  BY <1>1, <1>2, <1>3 DEF IsolatedInv, Alone, ApiAlone, InFlight
<1>6. Fresh'
  <2>1. \A c \in disbandings' : \A e \in MembersOf(c) : GroupOf(endpoints'[e]) = c.group_id
    BY <1>1, <1>2, <1>5 DEF IsolatedInv, Fresh
  <2> QED
    BY <1>1, <1>3, <2>1 DEF Fresh, InFlight
<1> QED
  BY <1>1, <1>4, <1>6 DEF IsolatedInv, Settled

\* A session commits what it loaded: nobody has changed it.
LEMMA IsolatedCommitPut ==
  ASSUME TypeInv, IsolatedInv, CommitPut
  PROVE  IsolatedInv'
<1>0. PICK e \in Endpoints : e = put.endpoint
  BY DEF CommitPut, TypeInv, TypeOK, PutSession
<1> DEFINE row == AsEndpoint(endpoints[e].id, StateAfterPut(put.loaded, endpoints[e]), put.group_id)
<1>1. /\ put # None /\ put' = None /\ put \in PutSession /\ e \in Endpoints
      /\ put.loaded = endpoints[e] /\ UNCHANGED <<groups, requests, removals, disbandings>>
  BY <1>0 DEF CommitPut, TypeInv, TypeOK, PutSession, IsolatedInv, Fresh
<1>2. /\ \A r \in Requests : InFlight(r) => requests[r].endpoint # e
      /\ disbandings = {}
  BY <1>0, <1>1 DEF IsolatedInv, Alone, ApiAlone, ChangedByApi
<1>3. CASE UNCHANGED <<endpoints, judged>>
  <2>1. RowIsSettled(endpoints'[e], judged'[e], groups)
    BY <1>1, <1>3 DEF IsolatedInv, Settled
  <2> QED
    BY <1>1, <1>2, <1>3, <2>1, IsolatedChange
<1>4. CASE ~ UNCHANGED <<endpoints, judged>>
  <2>1. /\ endpoints' = [endpoints EXCEPT ![e] = row]
        /\ judged' = [judged EXCEPT ![e] = NoVerdict]
    BY <1>0, <1>4 DEF CommitPut
  <2>2. row.state = "pending"
    BY <1>1 DEF AsEndpoint, StateAfterPut
  <2> HIDE DEF row
  <2>3. endpoints'[e] = row /\ judged'[e] = NoVerdict
    BY <1>1, <2>1 DEF TypeInv, TypeOK
  <2>4. RowIsSettled(endpoints'[e], judged'[e], groups)
    BY <2>2, <2>3 DEF RowIsSettled, NoVerdict
  <2>5. \A f \in Endpoints \ {e} : endpoints'[f] = endpoints[f] /\ judged'[f] = judged[f]
    BY <2>1 DEF TypeInv, TypeOK
  <2> QED
    BY <1>1, <1>2, <2>4, <2>5, IsolatedChange
<1> QED
  BY <1>3, <1>4

\* The endpoints of a deleted group keep their verdict, and lose the group with it.
LEMMA IsolatedCommitDeleteGroup ==
  ASSUME TypeInv, IsolatedInv, NEW d \in disbandings, CommitDeleteGroup(d)
  PROVE  IsolatedInv'
<1> DEFINE g == d.group_id
<1>1. /\ g \in Groups /\ g # None /\ MembersOf(d) \subseteq Endpoints
      /\ \A e \in MembersOf(d) : GroupOf(endpoints[e]) = g
      /\ UNCHANGED <<requests, put, removals, judged>> /\ disbandings' = disbandings \ {d}
  BY NoneAssumption DEF CommitDeleteGroup, TypeInv, TypeOK, GroupDeletion, MembersOf, IsolatedInv, Fresh
<1>2. /\ \A r \in Requests : ~ InFlight(r)
      /\ put = None
      /\ disbandings' = {} \/ Endpoints = {}
  BY <1>1, IsolatedDisbanding DEF IsolatedInv, ApiAlone
<1>3. Alone' /\ ApiAlone'
  BY <1>1, <1>2, StaysAlone DEF InFlight
<1>4. Fresh'
  <2>1. \A c \in disbandings' : MembersOf(c) \subseteq Endpoints
    BY <1>1 DEF TypeInv, TypeOK, GroupDeletion, MembersOf
  <2> QED
    BY <1>1, <1>2, <2>1 DEF Fresh, InFlight
<1>5. CASE UNCHANGED <<groups, endpoints>>
  BY <1>1, <1>3, <1>4, <1>5 DEF IsolatedInv, Settled
<1>6. CASE ~ UNCHANGED <<groups, endpoints>>
  <2>1. /\ groups' = groups \ {g}
        /\ \A e \in Endpoints :
             endpoints'[e] = IF e \in MembersOf(d) THEN [endpoints[e] EXCEPT !.group_id = None]
                             ELSE endpoints[e]
    BY <1>6 DEF CommitDeleteGroup
  <2>2. ASSUME NEW e \in Endpoints
        PROVE  Settled(e)'
    <3>1. endpoints[e] \in EndpointRow \cup {None} /\ RowIsSettled(endpoints[e], judged[e], groups)
      BY DEF TypeInv, TypeOK, IsolatedInv, Settled
    <3>2. CASE e \in MembersOf(d)
      <4>1. endpoints[e] # None /\ endpoints[e] \in EndpointRow /\ endpoints[e].group_id = g
        BY <1>1, <3>1, <3>2 DEF GroupOf
      <4>2. endpoints'[e].state = endpoints[e].state /\ endpoints'[e].group_id = None
        BY <2>1, <3>2, <4>1 DEF EndpointRow
      <4>3. endpoints[e].state = "authorized" => judged[e].group_id = g
        BY <1>1, <3>1, <4>1 DEF RowIsSettled
      <4>4. endpoints[e].state = "authorized" => judged[e].group_id \notin groups' \cup {None}
        BY <1>1, <2>1, <4>3
      <4>5. RowIsSettled(endpoints'[e], judged[e], groups')
        BY <3>1, <4>1, <4>2, <4>4 DEF RowIsSettled
      <4> QED
        BY <1>1, <4>5 DEF Settled
    <3>3. CASE e \notin MembersOf(d)
      <4>0. endpoints'[e] = endpoints[e] /\ groups' \subseteq groups
        BY <2>1, <3>3
      <4>1. RowIsSettled(endpoints'[e], judged[e], groups')
        BY <3>1, <4>0 DEF RowIsSettled
      <4> QED
        BY <1>1, <4>1 DEF Settled
    <3> QED
      BY <3>2, <3>3
  <2> QED
    BY <1>3, <1>4, <2>2 DEF IsolatedInv
<1> QED
  BY <1>5, <1>6

LEMMA IsolatedStep ==
  ASSUME Isolated, TypeInv, IsolatedInv, [Next]_vars
  PROVE  IsolatedInv'
<1>1. CASE UNCHANGED <<endpoints, groups, requests, api, judged>>
  <2>1. Alone' /\ ApiAlone'
    BY <1>1, StaysAlone DEF SameRequest, InFlight, api
  <2> QED
    BY <1>1, <2>1 DEF IsolatedInv, Fresh, InFlight, Settled, api
<1>2. ASSUME NEW e \in Endpoints, NEW g \in Groups \cup {None},
             PostEndpoint(e, g) \/ BeginPut(e, g) \/ BeginDeleteEndpoint(e)
      PROVE  IsolatedInv'
  BY <1>2, IsolatedPosts, IsolatedBeginPut, IsolatedBeginDeleteEndpoint
<1>3. ASSUME NEW r \in Requests, ReadEndpoint(r) \/ ServeStep(r) \/ Crash(r)
      PROVE  IsolatedInv'
  BY <1>3, IsolatedReads, IsolatedServes
<1>4. CASE ApiStep
  <2>1. CASE \E n \in nasports : DeleteNasPort(n)
    BY <1>1, <2>1 DEF DeleteNasPort
  <2>2. CASE \E id \in PolicyIds : DeletePolicy(id) \/ \E row \in PolicyRows : WritePolicy(id, row)
    BY <1>1, <2>2 DEF DeletePolicy, WritePolicy
  <2>3. None \in Groups \cup {None}
    OBVIOUS
  <2> QED
    BY <1>2, <1>4, <2>1, <2>2, <2>3, IsolatedCommitPut, IsolatedCommitDeleteEndpoint,
       IsolatedBeginDeleteGroup, IsolatedCommitDeleteGroup DEF ApiStep
<1> QED
  BY <1>1, <1>3, <1>4 DEF Next, vars, api

LEMMA LastVerdicts ==
  ASSUME Isolated
  PROVE  Spec => []IsolatedInv
<1>1. Init => IsolatedInv
  BY DEF Init, NewSession, IsolatedInv, Alone, ApiAlone, Fresh, InFlight, Settled, RowIsSettled
<1>2. TypeInv /\ IsolatedInv /\ [Next]_vars => IsolatedInv'
  BY IsolatedStep
<1> QED
  BY <1>1, <1>2, TypeInvariance, PTL DEF Spec

\* When nothing overlaps on one user, the state of an endpoint is the last verdict on it
\* (update_endpoint_state), or the pending an update put it back to.
THEOREM StateFollowsVerdict ==
  ASSUME Isolated
  PROVE  Spec => []StateIsLastVerdict
<1>1. IsolatedInv => StateIsLastVerdict
  BY DEF IsolatedInv, Settled, RowIsSettled, StateIsLastVerdict
<1> QED
  BY <1>1, LastVerdicts, PTL

\* And an authorized endpoint is authorized in the group it is in, or was in when its group
\* was deleted.
THEOREM AuthorizedUnderItsGroup ==
  ASSUME Isolated
  PROVE  Spec => []AuthorizedInItsGroup
<1>1. IsolatedInv => AuthorizedInItsGroup
  BY DEF IsolatedInv, Settled, RowIsSettled, AuthorizedInItsGroup
<1> QED
  BY <1>1, LastVerdicts, PTL
=============================================================================
