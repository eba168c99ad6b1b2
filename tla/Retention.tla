------------------------------ MODULE Retention ------------------------------
(***************************************************************************)
(* The jobs of core/scheduled_tasks on endpoint and radpostauth, against   *)
(* the authentications and API calls that go on meanwhile.                 *)
(*                                                                         *)
(* A unit of time is a part of the day: from midnight to 01:00, from 01:00 *)
(* (prune_endpoints) to 02:00, and from 02:00 (prune_postauth) to          *)
(* midnight.  A job begins with its part, before what happens in it, so    *)
(* "earlier than now - days" is "in an earlier part".  What a request, a   *)
(* call or a job has begun it ends in the same part.                       *)
(*                                                                         *)
(* Of the rows of radpostauth only the latest of each user and policy      *)
(* matters: the jobs see the latest of them, and rows go by their age, or  *)
(* with their policy, or with their endpoint.                              *)
(***************************************************************************)
EXTENDS Integers, FiniteSets

CONSTANTS
  None,
  Users,         \* pairs of user name and calling_station_id
  Macs,          \* the users whose name is a MAC address
  Policies,      \* policy.id; None, in radpostauth, when no policy matched
  JobDays,       \* ENDPOINT_..._RETENTION_DAYS of each job
  PostauthDays,  \* RADPOSTAUTH_RETENTION_DAYS
  MaxTime,       \* bound on the time
  MaxChanges,    \* bound on the API calls
  MaxMisses      \* bound on the jobs that fail or are not run

Day == 3

States == {"discovered", "pending", "authorized", "rejected"}

\* The six jobs, but for those whose kind of user does not exist.
EndpointJobs ==
  {j \in [mab : {TRUE}, state : States] \cup [mab : {FALSE}, state : {"authorized", "rejected"}] :
     \E u \in Users : j.mab = (u \in Macs)}

PostauthJob == [table |-> "radpostauth"]

ASSUME RetentionAssumption ==
  /\ Macs \subseteq Users
  /\ JobDays \in [EndpointJobs -> Nat \ {0}] /\ PostauthDays \in Nat \ {0}
  /\ None \notin Int /\ None \notin [id : Nat, state : States, updated : Nat]
  /\ None \notin Policies
  /\ MaxTime \in Nat /\ MaxChanges \in Nat /\ MaxMisses \in Nat

VARIABLES
  now,        \* the part of time
  endpoints,  \* table endpoint
  policies,   \* table policy
  records,    \* latest auth_date of each user and matched_policy_id in radpostauth
  writing,    \* authentications FreeRADIUS has still to write to radpostauth
  due,        \* jobs to be started in this part
  running,    \* of a job that has read its endpoints, those endpoints
  changes, misses,   \* counters of the bounds
  seen,       \* history: last authentication under the present row
  unrecorded  \* history: users whose last record was not written, or was deleted

tableVars == <<endpoints, policies, records>>
jobVars == <<due, running>>
historyVars == <<seen, unrecorded>>
vars == <<now, tableVars, writing, jobVars, changes, misses, historyVars>>

Row == [id : Nat, state : States, updated : Nat]
Matched == Policies \cup {None}
Records == [Matched -> Nat \cup {None}]
Chosen == [user : Users, id : Nat, records : Records]
Record == [user : Users, policy : Matched, date : Nat]

NoRecord == [p \in Matched |-> None]

Older(date, cutoff) == date # None /\ date < cutoff

\* The sequence of endpoint.id: ids are only compared, so a number that neither a row nor a
\* job has will do.
NewId ==
  LET taken == {endpoints[u].id : u \in {v \in Users : endpoints[v] # None}}
                 \cup UNION {{c.id : c \in running[j]} : j \in EndpointJobs}
  IN  CHOOSE i \in 0 .. Cardinality(taken) : i \notin taken

\* The latest of the rows is older: of a user without rows, the join has none.
LastSeenBefore(row, cutoff) ==
  /\ row # NoRecord
  /\ \A p \in Matched : row[p] # None => row[p] < cutoff

-----------------------------------------------------------------------------
(* Time *)

StartsAt(t) ==
  CASE t % Day = 1 -> EndpointJobs
    [] t % Day = 2 -> {PostauthJob}
    [] OTHER -> {}

NoRun == [j \in EndpointJobs |-> {}]

Tick ==
  /\ now < MaxTime
  /\ due = {} /\ running = NoRun /\ writing = {}
  /\ now' = now + 1
  /\ due' = StartsAt(now + 1)
  /\ UNCHANGED <<tableVars, writing, running, changes, misses, historyVars>>

\* The process restarts at the hour, or the job raises: it runs again tomorrow.
Miss(j) ==
  /\ j \in due /\ misses < MaxMisses
  /\ due' = due \ {j}
  /\ misses' = misses + 1
  /\ UNCHANGED <<now, tableVars, writing, running, changes, historyVars>>

-----------------------------------------------------------------------------
(* Authentications *)

\* Fault: a rejection leaves the state, of a new row too.
StateKept(u, verdict) ==
  IF verdict = "accept" THEN "authorized"
  ELSE IF endpoints[u] = None THEN None ELSE endpoints[u].state

\* Fault: a rejection does not spare who was discovered.
StateRejected(u, verdict) ==
  CASE verdict = "accept" -> "authorized"
    [] endpoints[u] = None /\ verdict = "no policy" /\ u \in Macs -> "discovered"
    [] OTHER -> "rejected"

\* What post_auth makes of the state (AuthEngine, there with every step of its own).
StateAfter(u, verdict) ==
  CASE verdict = "accept" -> "authorized"
    [] endpoints[u] = None /\ verdict = "no policy" /\ u \in Macs -> "discovered"
    [] endpoints[u] # None /\ verdict # "accept" /\ endpoints[u].state = "discovered" ->
         "discovered"
    [] OTHER -> "rejected"

\* A user is judged by a policy, or rejected for want of one.
Authenticate(u, verdict, policy) ==
  /\ verdict = "no policy" <=> policy = None
  /\ LET state == StateAfter(u, verdict)
         row == endpoints[u]
     IN endpoints' = [endpoints EXCEPT ![u] =
             CASE row = None -> [id |-> NewId, state |-> state, updated |-> now]
               [] row # None /\ row.state # state -> [row EXCEPT !.state = state, !.updated = now]
               [] OTHER -> row]
  /\ seen' = [seen EXCEPT ![u] = now]
  /\ writing' = writing \cup {[user |-> u, policy |-> policy, date |-> now]}
  /\ UNCHANGED <<now, policies, records, jobVars, changes, misses, unrecorded>>

\* The INSERT of post-auth.
WriteRecord(r) ==
  /\ r.policy \in policies \cup {None}
  /\ writing' = writing \ {r}
  /\ records' = [records EXCEPT ![r.user][r.policy] = r.date]
  /\ unrecorded' = unrecorded \ {r.user}
  /\ UNCHANGED <<now, endpoints, policies, jobVars, changes, misses, seen>>

\* Its foreign key fails: the policy that matched was deleted.
LoseRecord(r) ==
  /\ r.policy \notin policies \cup {None}
  /\ writing' = writing \ {r}
  /\ unrecorded' = unrecorded \cup {r.user}
  /\ UNCHANGED <<now, tableVars, jobVars, changes, misses, seen>>

-----------------------------------------------------------------------------
(* The external API *)

Change ==
  /\ changes < MaxChanges
  /\ changes' = changes + 1
  /\ UNCHANGED <<now, writing, jobVars, misses>>

PostEndpoint(u) ==
  /\ Change
  /\ u \in Macs /\ endpoints[u] = None
  /\ endpoints' = [endpoints EXCEPT
       ![u] = [id |-> NewId, state |-> "pending", updated |-> now]]
  /\ UNCHANGED <<policies, records, historyVars>>

\* A new group makes it pending; without one, updated_at is set to the time by itself.
PutEndpoint(u, state) ==
  /\ Change
  /\ endpoints[u] # None
  /\ state = endpoints[u].state \/ (u \in Macs /\ state = "pending")
  /\ endpoints' = [endpoints EXCEPT ![u].state = state, ![u].updated = now]
  /\ UNCHANGED <<policies, records, historyVars>>

\* With the rows of radpostauth (cascade).
DeleteEndpoint(u) ==
  /\ Change
  /\ endpoints[u] # None
  /\ endpoints' = [endpoints EXCEPT ![u] = None]
  /\ records' = [records EXCEPT ![u] = NoRecord]
  /\ seen' = [seen EXCEPT ![u] = None]
  /\ UNCHANGED <<policies, unrecorded>>

\* With the rows of radpostauth it matched (cascade).
DeletePolicy(p) ==
  /\ Change
  /\ p \in policies
  /\ policies' = policies \ {p}
  /\ records' = [u \in Users |-> [records[u] EXCEPT ![p] = None]]
  /\ unrecorded' = unrecorded \cup
       {u \in Users : records[u][p] # None /\ records[u][p] = seen[u]}
  /\ UNCHANGED <<endpoints, seen>>

\* DELETE /authentication/{id}, of the latest record of a user and a policy: an earlier one
\* becomes the latest, if there is one (that of the day before stands for any).
DeleteAuthentication(u, p) ==
  /\ Change
  /\ records[u][p] # None
  /\ \E earlier \in {None} \cup ({records[u][p] - Day} \cap Nat) :
       records' = [records EXCEPT ![u][p] = earlier]
  /\ unrecorded' = IF records[u][p] = seen[u] THEN unrecorded \cup {u} ELSE unrecorded
  /\ UNCHANGED <<endpoints, policies, seen>>

-----------------------------------------------------------------------------
(* The jobs *)

\* The endpoints a job is for.
JobOf(u) == [mab |-> u \in Macs, state |-> endpoints[u].state]

Cutoff(days) == now - days * Day

\* Fault: an endpoint that was not changed is one that was not seen.
SelectUnchanged(j) ==
  {u \in Users :
     /\ endpoints[u] # None /\ JobOf(u) = j
     /\ endpoints[u].updated < Cutoff(JobDays[j])}

\* The join with the latest record, and the WHERE clause.
SelectEndpoints(j) ==
  {u \in Users :
     /\ endpoints[u] # None /\ JobOf(u) = j
     /\ LastSeenBefore(records[u], Cutoff(JobDays[j]))
     /\ endpoints[u].updated < Cutoff(JobDays[j])}

\* prune_endpoints up to its commit: the endpoints and, for the cascade, their records.
StartJob(j) ==
  /\ j \in due \cap EndpointJobs
  /\ due' = due \ {j}
  /\ running' = [running EXCEPT ![j] =
       {[user |-> u, id |-> endpoints[u].id, records |-> records[u]] : u \in SelectEndpoints(j)}]
  /\ UNCHANGED <<now, tableVars, writing, changes, misses, historyVars>>

\* Its commit: the rows are deleted by their ids, whatever has become of them.
FinishJob(j) ==
  /\ running[j] # {}
  /\ running' = [running EXCEPT ![j] = {}]
  /\ LET rows == {u \in Users : \E c \in running[j] : /\ c.user = u /\ endpoints[u] # None
                                                      /\ c.id = endpoints[u].id}
         Loaded(u, p) == \E c \in running[j] : c.user = u /\ c.records[p] = records[u][p]
     IN /\ endpoints' = [u \in Users |-> IF u \in rows THEN None ELSE endpoints[u]]
        /\ records' = [u \in Users |-> [p \in Matched |->
             IF Loaded(u, p) THEN None ELSE records[u][p]]]
        /\ seen' = [u \in Users |-> IF u \in rows THEN None ELSE seen[u]]
  /\ UNCHANGED <<now, policies, writing, due, changes, misses, unrecorded>>

\* Fault: records are kept a day less.
PrunePostauthEarly ==
  /\ PostauthJob \in due
  /\ due' = due \ {PostauthJob}
  /\ records' = [u \in Users |-> [p \in Matched |->
       IF Older(records[u][p], Cutoff(PostauthDays - 1)) THEN None ELSE records[u][p]]]
  /\ UNCHANGED <<now, endpoints, policies, writing, running, changes, misses, historyVars>>

PrunePostauth ==
  /\ PostauthJob \in due
  /\ due' = due \ {PostauthJob}
  /\ records' = [u \in Users |-> [p \in Matched |->
       IF Older(records[u][p], Cutoff(PostauthDays)) THEN None ELSE records[u][p]]]
  /\ UNCHANGED <<now, endpoints, policies, writing, running, changes, misses, historyVars>>

-----------------------------------------------------------------------------
Init ==
  /\ now = 0
  /\ endpoints = [u \in Users |-> None] /\ records = [u \in Users |-> NoRecord]
  /\ policies = Policies /\ writing = {} /\ due = {} /\ running = NoRun
  /\ changes = 0 /\ misses = 0
  /\ seen = [u \in Users |-> None] /\ unrecorded = {}

JobNext ==
  \/ \E j \in due : Miss(j)
  \/ \E j \in EndpointJobs : StartJob(j) \/ FinishJob(j)
  \/ PrunePostauth

Next ==
  \/ Tick
  \/ \E u \in Users :
       \/ \E verdict \in {"accept", "reject", "no policy"}, p \in policies \cup {None} :
            Authenticate(u, verdict, p)
       \/ PostEndpoint(u) \/ DeleteEndpoint(u)
       \/ \E p \in policies \cup {None} : DeleteAuthentication(u, p)
       \/ \E state \in States : PutEndpoint(u, state)
  \/ \E p \in policies : DeletePolicy(p)
  \/ \E r \in writing : WriteRecord(r) \/ LoseRecord(r)
  \/ JobNext

Spec == Init /\ [][Next]_vars

-----------------------------------------------------------------------------
(* Properties *)

TypeOK ==
  /\ now \in Nat /\ changes \in Nat /\ misses \in Nat
  /\ endpoints \in [Users -> Row \cup {None}]
  /\ policies \subseteq Policies /\ records \in [Users -> Records]
  /\ seen \in [Users -> Nat \cup {None}]
  /\ writing \subseteq Record /\ unrecorded \subseteq Users
  /\ due \subseteq EndpointJobs \cup {PostauthJob}
  /\ running \in [EndpointJobs -> SUBSET Chosen]

\* When the last job must have come for an endpoint seen in part t.
Deadline(u, t) == t + (JobDays[JobOf(u)] + 1 + misses) * Day

GoneInTime ==
  \A u \in Users :
    endpoints[u] # None /\ seen[u] # None /\ u \notin unrecorded
      /\ endpoints[u].updated <= seen[u]
      => now <= Deadline(u, seen[u])

\* Records outlive the endpoints they are to condemn.
RecordsOutlive == \A j \in EndpointJobs : JobDays[j] + 1 + MaxMisses <= PostauthDays

\* An endpoint that is no longer seen is deleted when its days are over, a day later if a run
\* was missed: provided the records are kept longer than that.
UnseenIsPruned == RecordsOutlive => GoneInTime

\* The same of the settings as they may be, with days for each state and for the records that
\* need not differ.
RetentionIsKept == GoneInTime

\* A job deletes no endpoint that was seen within its days, though the row of a device that is
\* always accepted does not change for years; unless its last record was not written, was
\* deleted or went with its policy, or it was seen while the job ran.
KeptWhileSeen ==
  [][\A j \in EndpointJobs, u \in Users :
       running[j] # {} /\ running'[j] = {} /\ endpoints[u] # None /\ endpoints'[u] = None =>
         \/ seen[u] = None \/ seen[u] < Cutoff(JobDays[j]) \/ seen[u] = now
         \/ u \in unrecorded]_vars

\* The state of each user's endpoint as EndpointLifecycle has it.
LifecycleState ==
  [u \in Users |-> IF endpoints[u] = None THEN "absent" ELSE endpoints[u].state]

Lifecycle == INSTANCE EndpointLifecycle WITH
  Endpoints <- Users, MacEndpoints <- Macs, state <- LifecycleState

\* A policy rejects a user without a row: the exception of AuthEngine.
RejectedAtFirstSight ==
  \E u \in Users, p \in Policies :
    /\ endpoints[u] = None
    /\ [user |-> u, policy |-> p, date |-> now] \in writing'
    /\ Lifecycle!Become(u, "rejected")

\* What Authenticate says of the states in one step, with the calls and the jobs that delete
\* rows by an id that was read before: the documented life cycle, to which AuthEngine keeps
\* with every step of its own, but for an endpoint that a policy rejects when it is first
\* seen.
FollowsLifecycle == Lifecycle!Init /\ [][Lifecycle!Next \/ RejectedAtFirstSight]_LifecycleState
=============================================================================
