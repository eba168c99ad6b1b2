----------------------------- MODULE AuthEngine -----------------------------
(***************************************************************************)
(* The authentication endpoint of the internal API (api_internal/auth.py,  *)
(* post_auth, with api_internal/utils.py) as FreeRADIUS workers call it:   *)
(* many requests at a time, each a sequence of statements and commits on   *)
(* one PostgreSQL database (READ COMMITTED), interleaved with the external *)
(* API changing endpoints, groups, policies and ports.                     *)
(*                                                                         *)
(* A step is one statement, or one commit with the flush that precedes it; *)
(* between two steps anything else may happen.  A session keeps the rows   *)
(* it has loaded (expire_on_commit=False), and its flush writes only the   *)
(* columns that differ from what it loaded.                                *)
(***************************************************************************)
EXTENDS PolicyRules, FiniteSets

CONSTANTS
  Endpoints,     \* what identifies an endpoint: (username, calling_station_id)
  MacEndpoints,  \* those whose username is a MAC address (is_valid_mac)
  UserOf,        \* the username of an endpoint
  SwitchNames,   \* nas_identifier
  SwitchMacs,    \* called_station_id
  PortNames,     \* nas_port_id
  PolicyIds,     \* policy.id
  PolicyRows,    \* the policy rows the administrator may store
  AuthOf,        \* of an endpoint and a place, the rest of the request: [client_type, nas_port_type, data]
  Requests,      \* the requests of a behaviour, each served once
  MaxChanges,    \* bound on the changes made through the external API
  Isolated       \* TRUE: nothing else touches a user while a session works on it

PortLockings == {None, "switch", "switch_port"}
States == {"discovered", "rejected", "pending", "authorized"}

\* Where a device connects: switches are renamed, and replaced under the same name.
Places == [nas_identifier : SwitchNames, called_station_id : SwitchMacs, nas_port_id : PortNames]

EndpointRow == [id : Nat, state : States, group_id : Groups \cup {None}]
NasPortRow == [id : Nat, endpoint : Endpoints, place : Places, updated_at : Nat]

ASSUME EndpointsAssumption == MacEndpoints \subseteq Endpoints /\ DOMAIN UserOf = Endpoints
ASSUME PolicyRowsAssumption ==
  \A p \in PolicyRows : IsPolicy(p) /\ p.port_locking \in PortLockings
ASSUME NoneIsNoRowAssumption ==
  /\ None \notin PolicyRows /\ None \notin PolicyIds
  /\ None \notin EndpointRow /\ None \notin NasPortRow
  /\ None \notin {"switch", "switch_port", "accept", "error", "crash"}
ASSUME BoundsAssumption == MaxChanges \in Nat /\ Isolated \in BOOLEAN

VARIABLES
  endpoints,   \* table endpoint: a row, or None
  groups,      \* table endpoint_group: ids
  nasports,    \* table nasport: a set of rows
  policies,    \* table policy, with its conditions and replies: a row, or None
  requests,    \* the sessions of post_auth
  put,         \* the session of PUT /endpoints/{id}; None when there is none
  removals,    \* the sessions of DELETE /endpoints/{id}
  disbandings, \* the sessions of DELETE /endpoint_groups/{id}
  clock,       \* the time, and the source of new primary keys
  changes,     \* number of changes made through the external API
  judged       \* history: what the last verdict on each endpoint was, and under which group

tables == <<endpoints, groups, nasports, policies>>
api == <<put, removals, disbandings>>
vars == <<endpoints, groups, nasports, policies, requests, put, removals, disbandings, clock,
          changes, judged>>

Steps == {"new", "select", "create", "lookup", "touch", "insert", "lock", "expect",
          "replies", "accept", "reject", "done"}
Answers == {None, "accept", "reject", "error", "crash"}
\* What made the request end in an unhandled exception (a 500).
Errors == {None, "ambiguous", "stale", "integrity", "policy_gone", "no_value"}

Session ==
  [pc       : Steps,
   endpoint : Endpoints,                  \* auth.username, auth.calling_station_id
   place    : Places,                     \* auth.nas_identifier, called_station_id, nas_port_id
   began    : Nat,                        \* when its transaction began: now() in SQL
   loaded   : EndpointRow \cup {None},    \* endpoint, as this session loaded or created it
   policy   : PolicyIds \cup {None},      \* matched_policy.id
   locking  : PortLockings,               \* matched_policy.port_locking
   port     : NasPortRow \cup {None},     \* db_nas_port
   answer   : Answers,
   error    : Errors]

NewSession(e, p) ==
  [pc |-> "new", endpoint |-> e, place |-> p, began |-> 0, loaded |-> None, policy |-> None,
   locking |-> None, port |-> None, answer |-> None, error |-> None]

\* The session of an update through the API: the row it loaded, and the new group.
PutSession ==
  [endpoint : Endpoints, loaded : EndpointRow, group_id : Groups \cup {None}]

\* The session of a deletion: the row and the ports it loaded.  (Two that loaded the same
\* are one: what the second deletes is gone.)
EndpointDeletion == [endpoint : Endpoints, id : Nat, ports : SUBSET Nat]

\* The session of the deletion of a group: the rows of its endpoints, loaded for the flush.
GroupDeletion == [group_id : Groups, members : SUBSET [endpoint : Endpoints, id : Nat]]

NoVerdict == [verdict |-> "none", group_id |-> None]

-----------------------------------------------------------------------------
(* Rows and sessions *)

AsEndpoint(id, state, group) == [id |-> id, state |-> state, group_id |-> group]
AsNasPort(id, e, place, at) == [id |-> id, endpoint |-> e, place |-> place, updated_at |-> at]

SamePort(p, q) ==
  /\ p.nas_port_id = q.nas_port_id
  /\ p.nas_identifier = q.nas_identifier \/ p.called_station_id = q.called_station_id

\* Fault: the lookup knows a switch by its name only.
KnownPortsByName(e, place) ==
  {n \in nasports : /\ n.endpoint = e
                    /\ n.place.nas_port_id = place.nas_port_id
                    /\ n.place.nas_identifier = place.nas_identifier}

\* The lookup of the ports a device is known on.
KnownPorts(e, place) == {n \in nasports : n.endpoint = e /\ SamePort(n.place, place)}

\* The two unique constraints of the table nasport: what a row at this place violates.
Colliding(e, place) ==
  {n \in nasports : n.endpoint = e /\
     \/ <<n.place.nas_identifier, n.place.nas_port_id>> = <<place.nas_identifier, place.nas_port_id>>
     \/ <<n.place.called_station_id, n.place.nas_port_id>> = <<place.called_station_id, place.nas_port_id>>}

PortsOfUser(e) == {n \in nasports : UserOf[n.endpoint] = UserOf[e]}

\* The row a session loaded is still the endpoint's: UPDATE ... WHERE id = ... finds it.
IsCurrent(e, loaded) == endpoints[e] # None /\ endpoints[e].id = loaded.id

GroupOf(row) == IF row = None THEN None ELSE row.group_id

InFlight(r) == requests[r].pc \notin {"new", "done"}

ChangedByApi(e) ==
  \/ put # None /\ UserOf[put.endpoint] = UserOf[e]
  \/ \E d \in removals : UserOf[d.endpoint] = UserOf[e]
  \/ disbandings # {}

Busy(e) ==
  \/ \E r \in Requests : InFlight(r) /\ UserOf[requests[r].endpoint] = UserOf[e]
  \/ ChangedByApi(e)

\* Isolated is an assumption on the environment, made by some runs to say what holds
\* without overlap; the code takes no lock.
MayTouch(e) == Isolated => ~ Busy(e)

\* The session of r goes on as s.
Resume(r, s) == requests' = [requests EXCEPT ![r] = s]

Goto(r, step) == Resume(r, [requests[r] EXCEPT !.pc = step])

Finish(r, answer) == Resume(r, [requests[r] EXCEPT !.pc = "done", !.answer = answer])

\* An exception nothing handles: the transaction is rolled back, the client gets a 500.
Fail(r, cause) ==
  /\ Resume(r, [requests[r] EXCEPT !.pc = "done", !.answer = "error", !.error = cause])
  /\ UNCHANGED <<tables, api, clock, changes, judged>>

Judge(e, verdict, group) ==
  judged' = [judged EXCEPT ![e] = [verdict |-> verdict, group_id |-> group]]

\* The step after the port is known or recorded.
AfterPort(r) == IF requests[r].locking = None THEN "replies" ELSE "lock"

-----------------------------------------------------------------------------
Init ==
  /\ endpoints = [e \in Endpoints |-> None]
  /\ groups = Groups
  /\ nasports = {}
  /\ policies \in [PolicyIds -> PolicyRows \cup {None}]
  /\ requests \in [Requests -> {NewSession(e, p) : e \in Endpoints, p \in Places}]
  /\ put = None
  /\ removals = {} /\ disbandings = {}
  /\ clock = 0
  /\ changes = 0
  /\ judged = [e \in Endpoints |-> NoVerdict]

-----------------------------------------------------------------------------
(* post_auth *)

\* A request arrives; the endpoint and its group are read.
ReadEndpoint(r) ==
  LET s == requests[r]
  IN  /\ s.pc = "new"
      /\ MayTouch(s.endpoint)
      /\ clock' = clock + 1
      /\ Resume(r, [s EXCEPT !.pc = "select", !.began = clock + 1,
                             !.loaded = endpoints[s.endpoint]])
      /\ UNCHANGED <<tables, api, changes, judged>>

\* The statement that returns the policies, the one that loads their conditions (in a step:
\* a condition deleted in between is not modelled), and the loop that reads its result
\* (PolicySelection has it in detail).  A condition without a value ends the request.
SelectPolicy(r) ==
  LET s == requests[r]
      auth == AuthOf[s.endpoint][s.place]
      group == GroupOf(s.loaded)
      ends == Selectable(policies, auth, group)
  IN  /\ s.pc = "select"
      /\ \/ \E id \in ends : /\ EvaluationRaises(policies[id], auth.data, group)
                              /\ Fail(r, "no_value")
         \/ \E id \in ends : /\ EvaluatePolicy(policies[id], auth.data, group)
                              /\ Resume(r, [s EXCEPT !.pc = "lookup", !.policy = id,
                                                     !.locking = policies[id].port_locking])
                              /\ UNCHANGED <<tables, api, clock, changes, judged>>
         \/ /\ ends = {}
            /\ Goto(r, IF s.loaded = None THEN "create" ELSE "reject")
            /\ UNCHANGED <<tables, api, clock, changes, judged>>

\* create_new_endpoint: both rows or neither.  Any exception is turned into a reject.
CreateNewEndpoint(r) ==
  LET s == requests[r]
      row == AsEndpoint(clock + 1, IF s.endpoint \in MacEndpoints THEN "discovered" ELSE "rejected", None)
  IN  /\ s.pc = "create"
      /\ IF endpoints[s.endpoint] = None /\ Colliding(s.endpoint, s.place) = {}
         THEN /\ endpoints' = [endpoints EXCEPT ![s.endpoint] = row]
              /\ nasports' = nasports \cup {AsNasPort(clock + 1, s.endpoint, s.place, s.began)}
              /\ clock' = clock + 1
              /\ Resume(r, [s EXCEPT !.pc = "reject", !.loaded = row])
              /\ Judge(s.endpoint, "reject", None)
         ELSE /\ Finish(r, "reject")
              /\ UNCHANGED <<endpoints, nasports, clock, judged>>
      /\ UNCHANGED <<groups, policies, api, changes>>

\* The SELECT of db_nas_port; scalar_one_or_none raises when there are two.
LookupPort(r) ==
  LET s == requests[r]
      known == KnownPorts(s.endpoint, s.place)
  IN  /\ s.pc = "lookup"
      /\ \/ /\ Cardinality(known) > 1
            /\ Fail(r, "ambiguous")
         \/ /\ Cardinality(known) <= 1
            /\ \/ \E n \in known :
                    Resume(r, [s EXCEPT !.pc = "touch", !.port = n])
               \/ known = {} /\ Goto(r, IF s.locking = None THEN "insert" ELSE "lock")
            /\ UNCHANGED <<tables, api, clock, changes, judged>>

\* The columns that differ from the row as loaded get this request's values; the others
\* keep what the row in the table has now.
Refreshed(n, loaded, place, at) ==
  LET Column(now, was, new) == IF was = new THEN now ELSE new
      now == n.place
      was == loaded.place
  IN  AsNasPort(n.id, n.endpoint,
        [nas_identifier |-> Column(now.nas_identifier, was.nas_identifier, place.nas_identifier),
         called_station_id |->
           Column(now.called_station_id, was.called_station_id, place.called_station_id),
         nas_port_id |-> now.nas_port_id], at)

\* A known port: the row takes what has changed.  The flush fails on a row that is gone,
\* and on a unique constraint.  An unchanged row gets the time of day, a changed one
\* now(), which is when the transaction began; nas_ip_address, which is not modelled, may be
\* what changed.
TouchPort(r) ==
  LET s == requests[r]
      stamps == IF s.port.place = s.place THEN {clock + 1, s.began} ELSE {s.began}
  IN  /\ s.pc = "touch"
      /\ \/ /\ \A n \in nasports : n.id # s.port.id
            /\ Fail(r, "stale")
         \/ \E n \in nasports, at \in stamps :
              /\ n.id = s.port.id
              /\ LET new == Refreshed(n, s.port, s.place, at)
                 IN  IF Colliding(s.endpoint, new.place) \subseteq {n}
                     THEN /\ nasports' = (nasports \ {n}) \cup {new}
                          /\ clock' = clock + 1
                          /\ Resume(r, [s EXCEPT !.pc = AfterPort(r), !.began = clock + 1,
                                                 !.port = [@ EXCEPT !.place = s.place]])
                          /\ UNCHANGED <<endpoints, groups, policies, api, changes, judged>>
                     ELSE Fail(r, "integrity")

\* The row a request adds for its place, in the transaction that began at s.began.
PortOf(s) == AsNasPort(clock + 1, s.endpoint, s.place, s.began)

\* Fault: a request that loses the race for a port never returns.
AddPortOnly(r, step, port) ==
  LET s == requests[r]
  IN  /\ Colliding(s.endpoint, s.place) = {}
      /\ nasports' = nasports \cup {PortOf(s)}
      /\ clock' = clock + 1
      /\ Resume(r, [s EXCEPT !.pc = step, !.port = port])
      /\ UNCHANGED <<endpoints, groups, policies, api, changes, judged>>

AddPort(r, step, port) ==
  LET s == requests[r]
  IN  \/ /\ Colliding(s.endpoint, s.place) # {}
         /\ Fail(r, "integrity")
      \/ /\ Colliding(s.endpoint, s.place) = {}
         /\ nasports' = nasports \cup {PortOf(s)}
         /\ clock' = clock + 1
         /\ Resume(r, [s EXCEPT !.pc = step, !.port = port])
         /\ UNCHANGED <<endpoints, groups, policies, api, changes, judged>>

\* A new port, under a policy without port locking.
InsertPort(r) ==
  /\ requests[r].pc = "insert"
  /\ AddPort(r, "replies", PortOf(requests[r]))

\* Fault: switch_port treated as switch.
PassesSwitchLock(s, expected_id, expected_place) ==
  /\ s.place.nas_identifier = expected_place.nas_identifier
  /\ s.place.called_station_id = expected_place.called_station_id

\* The port lock: the switch must be the expected one, and for switch_port the port of
\* this request (db_nas_port) must be the expected row.
PassesLock(s, expected_id, expected_place) ==
  /\ s.place.nas_identifier = expected_place.nas_identifier
  /\ s.place.called_station_id = expected_place.called_station_id
  /\ s.locking = "switch_port" => s.port # None /\ s.port.id = expected_id

\* The SELECT of expected_port: the user's port last seen.  A row the session already
\* holds is not read again: its columns are those of db_nas_port.
ReadExpectedPort(r) ==
  LET s == requests[r]
      mine == PortsOfUser(s.endpoint)
      PlaceSeen(n) == IF s.port # None /\ n.id = s.port.id THEN s.port.place ELSE n.place
  IN  /\ s.pc = "lock"
      /\ \/ mine = {} /\ Goto(r, "expect")
         \/ \E n \in mine :
              /\ \A m \in mine : m.updated_at <= n.updated_at
              /\ Goto(r, IF PassesLock(s, n.id, PlaceSeen(n)) THEN "replies" ELSE "reject")
      /\ UNCHANGED <<tables, api, clock, changes, judged>>

\* No expected port yet: this place becomes it.  db_nas_port stays what it was.
InsertExpectedPort(r) ==
  /\ requests[r].pc = "expect"
  /\ AddPort(r, IF PassesLock(requests[r], clock + 1, requests[r].place) THEN "replies" ELSE "reject",
             requests[r].port)

\* db.refresh(matched_policy, ["replies"]): the replies are read now, after the match.
ReadReplies(r) ==
  LET s == requests[r]
  IN  /\ s.pc = "replies"
      /\ IF policies[s.policy] = None
         THEN Fail(r, "policy_gone")
         ELSE /\ Goto(r, IF policies[s.policy].final_reject THEN "reject" ELSE "accept")
              /\ UNCHANGED <<tables, api, clock, changes, judged>>

\* Fault: a rejection leaves a pending endpoint pending.
KeepsPending(loaded, state) ==
  \/ loaded.state \in {"discovered", "pending"} /\ state = "rejected"
  \/ loaded.state = state

\* Fault: a rejection of a discovered endpoint is written too.
KeepsOnlySame(loaded, state) == loaded.state = state

\* No UPDATE is made: a rejection of a discovered endpoint, and no net change.
KeepsState(loaded, state) ==
  \/ loaded.state = "discovered" /\ state = "rejected"
  \/ loaded.state = state

\* update_endpoint_state, and its commit.  `state` is the state asked for.
UpdateEndpointState(r, verdict, state) ==
  LET s == requests[r]
      now == endpoints[s.endpoint]
      keeps == s.loaded # None /\ KeepsState(s.loaded, state)
      gone == ~ IsCurrent(s.endpoint, s.loaded)
  IN  \/ /\ s.loaded = None /\ now # None
         /\ Fail(r, "integrity")
      \/ /\ s.loaded # None /\ ~ keeps /\ gone
         /\ Fail(r, "stale")
      \/ /\ IF s.loaded = None THEN now = None ELSE keeps \/ ~ gone
         /\ endpoints' =
              [endpoints EXCEPT ![s.endpoint] =
                 IF s.loaded = None THEN AsEndpoint(clock + 1, state, None)
                 ELSE IF keeps THEN @ ELSE [@ EXCEPT !.state = state]]
         /\ clock' = IF s.loaded = None THEN clock + 1 ELSE clock
         /\ Finish(r, verdict)
         /\ Judge(s.endpoint, verdict, GroupOf(s.loaded))
         /\ UNCHANGED <<groups, nasports, policies, api, changes>>

Accept(r) == requests[r].pc = "accept" /\ UpdateEndpointState(r, "accept", "authorized")

Reject(r) == requests[r].pc = "reject" /\ UpdateEndpointState(r, "reject", "rejected")

\* The worker dies or loses the database: what it has not committed is rolled back.
Crash(r) ==
  /\ InFlight(r)
  /\ Finish(r, "crash")
  /\ UNCHANGED <<tables, api, clock, changes, judged>>

ServeStep(r) ==
  \/ SelectPolicy(r) \/ CreateNewEndpoint(r) \/ LookupPort(r) \/ TouchPort(r)
  \/ InsertPort(r) \/ ReadExpectedPort(r) \/ InsertExpectedPort(r) \/ ReadReplies(r)
  \/ Accept(r) \/ Reject(r)

-----------------------------------------------------------------------------
(* The external API, and the retention jobs that delete endpoints *)

Change == changes < MaxChanges /\ changes' = changes + 1

\* POST /endpoints: MAB endpoints only; refused when there is one already.
PostEndpoint(e, group) ==
  /\ Change
  /\ e \in MacEndpoints /\ endpoints[e] = None /\ MayTouch(e)
  /\ group \in groups \cup {None}
  /\ clock' = clock + 1
  /\ endpoints' = [endpoints EXCEPT ![e] = AsEndpoint(clock + 1, "pending", group)]
  /\ judged' = [judged EXCEPT ![e] = NoVerdict]
  /\ UNCHANGED <<groups, nasports, policies, requests, api>>

\* Fault: the endpoint is not looked for.
BeginPutUnchecked(e, group) ==
  /\ Change
  /\ put = None /\ MayTouch(e)
  /\ e \in MacEndpoints \/ group = None
  /\ put' = [endpoint |-> e, loaded |-> endpoints[e], group_id |-> group]
  /\ UNCHANGED <<tables, requests, removals, disbandings, clock, judged>>

\* Fault: any endpoint can be given a group.
BeginPutAnyUser(e, group) ==
  /\ Change
  /\ put = None /\ endpoints[e] # None /\ MayTouch(e)
  /\ put' = [endpoint |-> e, loaded |-> endpoints[e], group_id |-> group]
  /\ UNCHANGED <<tables, requests, removals, disbandings, clock, judged>>

\* PUT /endpoints/{id}: the row is loaded; a user that is no MAC address gets no group.
\* One PUT at a time.
BeginPut(e, group) ==
  /\ Change
  /\ put = None /\ endpoints[e] # None /\ MayTouch(e)
  /\ e \in MacEndpoints \/ group = None
  /\ put' = [endpoint |-> e, loaded |-> endpoints[e], group_id |-> group]
  /\ UNCHANGED <<tables, requests, removals, disbandings, clock, judged>>

\* Fault: a new group leaves the state alone.
PutKeepsState(loaded, row) == row.state

\* A changed group puts the endpoint back to pending; not written when loaded as such.
StateAfterPut(loaded, row) == IF loaded.state = "pending" THEN row.state ELSE "pending"

\* Its commit.  A changed group puts the endpoint back to pending; the columns that do not
\* differ from what was loaded are not written.  It fails, and changes nothing, on a row
\* that is gone and on a group that is.
CommitPut ==
  LET e == put.endpoint
      moves == /\ put.group_id # put.loaded.group_id
               /\ IsCurrent(e, put.loaded) /\ put.group_id \in groups \cup {None}
  IN  /\ put # None
      /\ put' = None
      /\ \/ /\ moves
            /\ endpoints' = [endpoints EXCEPT
                 ![e] = AsEndpoint(@.id, StateAfterPut(put.loaded, @), put.group_id)]
            /\ judged' = [judged EXCEPT ![e] = NoVerdict]
         \/ /\ ~ moves
            /\ UNCHANGED <<endpoints, judged>>
      /\ UNCHANGED <<groups, nasports, policies, requests, removals, disbandings, clock, changes>>

\* DELETE /endpoints/{id}, and the retention jobs: the row is loaded, and for the cascade
\* its ports.
BeginDeleteEndpoint(e) ==
  /\ Change
  /\ endpoints[e] # None /\ MayTouch(e)
  /\ removals' = removals \cup
       {[endpoint |-> e, id |-> endpoints[e].id,
         ports |-> {n.id : n \in {m \in nasports : m.endpoint = e}}]}
  /\ UNCHANGED <<tables, requests, put, disbandings, clock, judged>>

\* Fault: the ports stay.
CommitDeleteEndpointOnly(d) ==
  /\ removals' = removals \ {d}
  /\ IF IsCurrent(d.endpoint, d)
     THEN /\ endpoints' = [endpoints EXCEPT ![d.endpoint] = None]
          /\ judged' = [judged EXCEPT ![d.endpoint] = NoVerdict]
     ELSE UNCHANGED <<endpoints, judged>>
  /\ UNCHANGED <<groups, nasports, policies, requests, put, disbandings, clock, changes>>

\* Its commit: the rows go by their primary keys, those that are there; a port that was
\* added meanwhile stays.
CommitDeleteEndpoint(d) ==
  /\ removals' = removals \ {d}
  /\ nasports' = {n \in nasports : n.id \notin d.ports}
  /\ IF IsCurrent(d.endpoint, d)
     THEN /\ endpoints' = [endpoints EXCEPT ![d.endpoint] = None]
          /\ judged' = [judged EXCEPT ![d.endpoint] = NoVerdict]
     ELSE UNCHANGED <<endpoints, judged>>
  /\ UNCHANGED <<groups, policies, requests, put, disbandings, clock, changes>>

\* DELETE /nas_ports/{id}
DeleteNasPort(n) ==
  /\ Change
  /\ MayTouch(n.endpoint)
  /\ nasports' = nasports \ {n}
  /\ UNCHANGED <<endpoints, groups, policies, requests, api, clock, judged>>

\* POST and PUT /policies: conditions and replies are recreated in the same commit.
WritePolicy(id, row) ==
  /\ Change
  /\ row # policies[id]
  /\ \A i \in DOMAIN row.conditions : row.conditions[i].group_id \in groups \cup {None}
  /\ policies' = [policies EXCEPT ![id] = row]
  /\ UNCHANGED <<endpoints, groups, nasports, requests, api, clock, judged>>

\* DELETE /policies/{id}
DeletePolicy(id) ==
  /\ Change
  /\ policies[id] # None
  /\ policies' = [policies EXCEPT ![id] = None]
  /\ UNCHANGED <<endpoints, groups, nasports, requests, api, clock, judged>>

GroupInPolicy(g) ==
  \E id \in PolicyIds : /\ policies[id] # None
                        /\ \E i \in DOMAIN policies[id].conditions :
                             policies[id].conditions[i].group_id = g

\* DELETE /endpoint_groups/{id}: refused while a policy names the group; the flush loads
\* its endpoints.
BeginDeleteGroup(g) ==
  /\ Change
  /\ g \in groups /\ ~ GroupInPolicy(g)
  /\ \A e \in Endpoints : MayTouch(e)
  /\ disbandings' = disbandings \cup
       {[group_id |-> g,
         members |-> {[endpoint |-> e, id |-> endpoints[e].id] :
                        e \in {f \in Endpoints : GroupOf(endpoints[f]) = g}}]}
  /\ UNCHANGED <<tables, requests, put, removals, clock, judged>>

MembersOf(d) == {m.endpoint : m \in d.members}

\* The flush and the commit: the endpoints that were loaded lose their group, whichever it
\* is by now, and stay in the state they are in.  It fails, and changes nothing, on an
\* endpoint that is gone, and by a foreign key on another that is in the group and on a
\* policy that names it.
CommitDeleteGroup(d) ==
  LET g == d.group_id
      succeeds == /\ \A m \in d.members : IsCurrent(m.endpoint, m)
                  /\ \A e \in Endpoints \ MembersOf(d) : GroupOf(endpoints[e]) # g
                  /\ ~ GroupInPolicy(g)
  IN  /\ disbandings' = disbandings \ {d}
      /\ \/ /\ succeeds
            /\ groups' = groups \ {g}
            /\ endpoints' = [e \in Endpoints |->
                 IF e \in MembersOf(d) THEN [endpoints[e] EXCEPT !.group_id = None]
                 ELSE endpoints[e]]
         \/ /\ ~ succeeds
            /\ UNCHANGED <<groups, endpoints>>
      /\ UNCHANGED <<nasports, policies, requests, put, removals, clock, changes, judged>>

ApiStep ==
  \/ \E e \in Endpoints, g \in Groups \cup {None} : PostEndpoint(e, g) \/ BeginPut(e, g)
  \/ CommitPut
  \/ \E e \in Endpoints : BeginDeleteEndpoint(e)
  \/ \E d \in removals : CommitDeleteEndpoint(d)
  \/ \E n \in nasports : DeleteNasPort(n)
  \/ \E id \in PolicyIds : DeletePolicy(id) \/ \E row \in PolicyRows : WritePolicy(id, row)
  \/ \E g \in Groups : BeginDeleteGroup(g)
  \/ \E d \in disbandings : CommitDeleteGroup(d)

Next ==
  \/ \E r \in Requests : ReadEndpoint(r) \/ ServeStep(r) \/ Crash(r)
  \/ ApiStep

\* The event loop resumes a request whose statement has been answered.
Fairness == \A r \in Requests : WF_vars(ServeStep(r))

Spec == Init /\ [][Next]_vars /\ Fairness

-----------------------------------------------------------------------------
TypeOK ==
  /\ endpoints \in [Endpoints -> EndpointRow \cup {None}]
  /\ groups \subseteq Groups
  /\ nasports \subseteq NasPortRow
  /\ policies \in [PolicyIds -> PolicyRows \cup {None}]
  /\ requests \in [Requests -> Session]
  /\ put \in PutSession \cup {None}
  /\ removals \subseteq EndpointDeletion
  /\ disbandings \subseteq GroupDeletion
  /\ clock \in Nat
  /\ changes \in 0..MaxChanges
  /\ judged \in [Endpoints -> [verdict : {"none", "accept", "reject"},
                               group_id : Groups \cup {None}]]

(* What holds however sessions overlap *)

\* Groups, the state pending and the state discovered belong to MAB endpoints
\* (models/endpoint.py, "only possible for mac usernames"): neither an authentication
\* nor an update that commits what it loaded long ago gives them to another user.
OnlyMacEndpointsAreManaged ==
  \A e \in Endpoints \ MacEndpoints :
    endpoints[e] # None => /\ endpoints[e].group_id = None
                           /\ endpoints[e].state \in {"rejected", "authorized"}

\* The state of each endpoint as EndpointLifecycle has it.
LifecycleState ==
  [e \in Endpoints |-> IF endpoints[e] = None THEN "absent" ELSE endpoints[e].state]

Lifecycle == INSTANCE EndpointLifecycle WITH state <- LifecycleState

\* The one step that leaves the documented life cycle: the policy a request matched rejects
\* it (by its replies or its port lock) when its endpoint has no row, and the row that
\* update_endpoint_state makes is rejected, of a MAB endpoint too.
RejectedAtFirstSight ==
  \E r \in Requests :
    LET s == requests[r]
    IN  /\ s.pc = "reject" /\ s.policy # None /\ s.loaded = None
        /\ endpoints[s.endpoint] = None
        /\ Lifecycle!Become(s.endpoint, "rejected")

\* The states follow the documented life cycle (endpoints.md) in every interleaving, but for
\* an endpoint that a policy rejects when it is first seen.
FollowsLifecycle == Lifecycle!Init /\ [][Lifecycle!Next \/ RejectedAtFirstSight]_LifecycleState

\* First contact never passes a switch_port lock (tests/test_auth_policy.py,
\* test_auth_port_lock_wrong_port): another request of the same endpoint was there
\* before, at the same port of a switch with that name or with that address.
LockedPortWasSeenBefore ==
  \A r \in Requests :
    requests[r].answer = "accept" /\ requests[r].locking = "switch_port" =>
      \E q \in Requests \ {r} :
        /\ requests[q].pc # "new"
        /\ requests[q].endpoint = requests[r].endpoint
        /\ SamePort(requests[q].place, requests[r].place)

\* Every request that was taken up is answered.
EveryRequestAnswered ==
  \A r \in Requests : InFlight(r) ~> requests[r].pc = "done"

(* What holds when nothing overlaps on one user, and may not otherwise *)

\* The state of an endpoint is the last verdict on it, or pending (or, first seen,
\* discovered) as the comments of EndpointState say.
StateIsLastVerdict ==
  \A e \in Endpoints :
    endpoints[e] # None /\ ~ Busy(e) =>
      /\ endpoints[e].state = "authorized" <=> judged[e].verdict = "accept"
      /\ endpoints[e].state = "pending" <=> judged[e].verdict = "none"

\* An authorized endpoint has been judged under the group it is in, unless that group
\* was deleted since.
AuthorizedInItsGroup ==
  \A e \in Endpoints :
    endpoints[e] # None /\ endpoints[e].state = "authorized" =>
      \/ judged[e].group_id = endpoints[e].group_id
      \/ judged[e].group_id \notin groups \cup {None} /\ endpoints[e].group_id = None

\* A request of a user nobody else is working on fails only because its lookup found
\* two rows, its policy was deleted, or a condition has no value: the lookup finds every
\* row that an insert or an update of its own could collide with.
NoSelfConflict ==
  \A r \in Requests : requests[r].error \in {None, "ambiguous", "policy_gone", "no_value"}

\* A port is committed before its endpoint is: one without an endpoint is the trace of a
\* request that died in between, or that an exception ended; deletions leave none behind
\* (models/endpoint.py, the cascade of nasports).
PortsWithoutEndpointAreTraces ==
  \A n \in nasports :
    endpoints[n.endpoint] = None /\ ~ Busy(n.endpoint) =>
      \E r \in Requests : /\ requests[r].endpoint = n.endpoint
                          /\ requests[r].answer \in {"error", "crash"}

(* What the documents say and the code does not do *)

\* "If authorized and stops being authorized it will be set to rejected"
\* (models/endpoint.py, EndpointState): nobody at work on it, an endpoint whose last
\* verdict was a rejection is not authorized.
RejectionIsRecorded ==
  \A e \in Endpoints :
    endpoints[e] # None /\ ~ Busy(e) /\ judged[e].verdict = "reject" =>
      endpoints[e].state # "authorized"

\* A port that is known is updated when its switch was renamed or replaced (auth.py, "Or
\* replaced switch, same hostname but changed called_station_id."): the lookup has one
\* answer.
KnownPortIsOne == \A r \in Requests : requests[r].error # "ambiguous"
=============================================================================
