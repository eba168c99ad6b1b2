--------------------------- MODULE RetentionProofs ---------------------------
(***************************************************************************)
(* Theorems about Retention, for any users, policies and days, and however *)
(* often jobs are missed.                                                  *)
(*                                                                         *)
(* The argument: the last authentication of an endpoint is recorded, on    *)
(* its way to be, or so old that its record was pruned (RecordsInv).  So   *)
(* an endpoint a job has selected is as old as its records say, or was     *)
(* seen while the job ran (RunningInv); and a job that does not select an  *)
(* endpoint it is for has seen it, or a change of it, within its days      *)
(* (OverdueInv): a missing record would have to be older than the job lets *)
(* an endpoint become.                                                     *)
(*                                                                         *)
(* Retention also implements EndpointLifecycle, as AuthEngine does.        *)
(***************************************************************************)
EXTENDS Retention, FiniteSetTheorems, TLAPS

\* Ids of rows and of endpoints a job has read, among which NewId finds another.
Taken ==
  {endpoints[u].id : u \in {v \in Users : endpoints[v] # None}}
    \cup UNION {{c.id : c \in running[j]} : j \in EndpointJobs}

IdsInv == \E n \in Nat : \A i \in Taken : i <= n

\* Jobs start with their part of the day, and end in it.
JobsInv ==
  /\ due \subseteq StartsAt(now)
  /\ misses <= MaxMisses
  /\ \A j \in EndpointJobs : running[j] # {} => now % Day = 1 /\ j \notin due

\* Every endpoint is one of a job.
RowsInv ==
  \A u \in Users :
    /\ endpoints[u] = None => seen[u] = None
    /\ endpoints[u] # None => u \in Macs \/ endpoints[u].state \in {"authorized", "rejected"}

\* What is still to be written was authenticated in this part.
WritingInv == \A r \in writing : r.date = now /\ seen[r.user] \in {None, now}

\* No record is later than the last authentication, which is recorded, or will be, or was
\* pruned with all the others.
IsRecorded(u) ==
  \/ \E p \in Matched : records[u][p] = seen[u]
  \/ \E r \in writing : r.user = u
  \/ records[u] = NoRecord /\ seen[u] < Cutoff(PostauthDays)

RecordsInv ==
  \A u \in Users :
    /\ \A p \in Matched : records[u][p] # None =>
         records[u][p] <= now /\ (seen[u] # None => records[u][p] <= seen[u])
    /\ seen[u] # None => seen[u] <= now
    /\ seen[u] # None /\ u \notin unrecorded => IsRecorded(u)

\* An endpoint a job has read was seen before its days, or after the job has read it.  While
\* it was not seen again it is the same row.
WellChosen(j, c) ==
  /\ \A p \in Matched : c.records[p] # None => c.records[p] < now
  /\ \/ seen[c.user] \in {None, now}
     \/ /\ endpoints[c.user] # None /\ endpoints[c.user].id = c.id
        /\ seen[c.user] < Cutoff(JobDays[j]) \/ c.user \in unrecorded

RunningInv == \A j \in EndpointJobs : \A c \in running[j] : WellChosen(j, c)

RetentionInv ==
  TypeOK /\ IdsInv /\ JobsInv /\ RowsInv /\ WritingInv /\ RecordsInv /\ RunningInv

\* The job of u is still to be done in this part.
Pending(u) == JobOf(u) \in due \/ \E c \in running[JobOf(u)] : c.user = u

\* The last part from 01:00 to 02:00.
LastJob(t) == CASE t % Day = 1 -> t [] t % Day = 2 -> t - 1 [] OTHER -> t - 2

LastDone(u) == IF Pending(u) THEN now - Day ELSE LastJob(now)

Unchanged(u) ==
  /\ endpoints[u] # None /\ seen[u] # None /\ u \notin unrecorded
  /\ endpoints[u].updated <= seen[u]

\* When the job of an endpoint was last done, the endpoint was not overdue.
InTime(u) == Unchanged(u) => LastDone(u) <= seen[u] + (JobDays[JobOf(u)] + misses) * Day

OverdueInv == \A u \in Users : InTime(u)

-----------------------------------------------------------------------------
(* Ids, jobs and time *)

LEMMA TakenTypes ==
  ASSUME TypeOK
  PROVE  Taken \subseteq Nat
<1>1. \A u \in Users : endpoints[u] # None => endpoints[u].id \in Nat
  BY DEF TypeOK, Row
<1>2. \A j \in EndpointJobs : \A c \in running[j] : c.id \in Nat
  BY DEF TypeOK, Chosen
<1> QED
  BY <1>1, <1>2 DEF Taken

\* There is a number that is not taken, since the set of those that are has a bound.
LEMMA NewIdIsNew ==
  ASSUME TypeOK, IdsInv
  PROVE  NewId \in Nat /\ NewId \notin Taken
<1> DEFINE card == Cardinality(Taken)
<1>1. IsFiniteSet(Taken) /\ card \in Nat
  BY TakenTypes, FS_BoundedSetOfNaturals, FS_CardinalityType DEF IdsInv
<1> HIDE DEF card
<1>2. Cardinality(0 .. card) = card + 1
  BY <1>1, FS_Interval
<1>3. \E i \in 0 .. card : i \notin Taken
  <2> SUFFICES ASSUME (0 .. card) \in SUBSET Taken PROVE FALSE
    OBVIOUS
  <2>1. Cardinality(0 .. card) <= Cardinality(Taken)
    BY <1>1, FS_Subset
  <2> QED
    BY <1>1, <1>2, <2>1 DEF card
<1>4. NewId = CHOOSE i \in 0 .. card : i \notin Taken
  BY DEF NewId, Taken, card
<1>5. NewId \in 0 .. card /\ NewId \notin Taken
  BY <1>3, <1>4
<1> QED
  BY <1>1, <1>5

LEMMA IdsGrow ==
  ASSUME TypeOK, IdsInv, NEW i \in Nat, Taken' \subseteq Taken \cup {i}
  PROVE  IdsInv'
<1>1. PICK n \in Nat : \A k \in Taken : k <= n
  BY DEF IdsInv
<1>2. Taken \subseteq Nat
  BY TakenTypes
<1>3. n + i \in Nat /\ \A k \in Taken' : k <= n + i
  BY <1>1, <1>2
<1> QED
  BY <1>3 DEF IdsInv

\* What is read or goes adds no id.
LEMMA TakenFewer ==
  ASSUME TypeOK,
         \A u \in Users : endpoints'[u] # None =>
           endpoints[u] # None /\ endpoints'[u].id = endpoints[u].id,
         \A j \in EndpointJobs : \A c \in running'[j] :
           \/ c \in running[j]
           \/ c.user \in Users /\ endpoints[c.user] # None /\ c.id = endpoints[c.user].id
  PROVE  Taken' \subseteq Taken
  BY DEF Taken

\* The endpoints of a user are those of one of the jobs.
LEMMA HasJob ==
  ASSUME TypeOK, RowsInv, NEW u \in Users, endpoints[u] # None
  PROVE  /\ JobOf(u) \in EndpointJobs /\ JobDays[JobOf(u)] \in Nat \ {0}
         /\ JobOf(u) # PostauthJob
<1> DEFINE s == endpoints[u].state
<1>1. s \in States
  BY DEF TypeOK, Row
<1>2. ASSUME u \in Macs PROVE JobOf(u) \in EndpointJobs
  <2>1. (u \in Macs) = TRUE
    BY <1>2
  <2>2. JobOf(u) = [mab |-> TRUE, state |-> s]
    BY <2>1 DEF JobOf
  <2>3. JobOf(u) \in [mab : {TRUE}, state : States] /\ JobOf(u).mab = TRUE
    BY <1>1, <2>2
  <2>4. JobOf(u).mab = (u \in Macs)
    BY <2>1, <2>3, Zenon
  <2> QED
    BY <2>3, <2>4, Zenon DEF EndpointJobs
<1>3. ASSUME u \notin Macs PROVE JobOf(u) \in EndpointJobs
  <2>1. (u \in Macs) = FALSE
    BY <1>3
  <2>2. JobOf(u) = [mab |-> FALSE, state |-> s]
    BY <2>1 DEF JobOf
  <2>3. s \in {"authorized", "rejected"}
    BY <1>3 DEF RowsInv
  <2>4. /\ JobOf(u) \in [mab : {FALSE}, state : {"authorized", "rejected"}]
        /\ JobOf(u).mab = FALSE
    BY <2>2, <2>3
  <2>5. JobOf(u).mab = (u \in Macs)
    BY <2>1, <2>4, Zenon
  <2> QED
    BY <2>4, <2>5, Zenon DEF EndpointJobs
<1>4. JobOf(u) \in EndpointJobs
  BY <1>2, <1>3
<1>5. JobOf(u) # PostauthJob
  <2>1. "mab" \in DOMAIN JobOf(u) /\ "mab" \notin DOMAIN PostauthJob
    BY DEF JobOf, PostauthJob
  <2> QED
    BY <2>1
<1> QED
  BY <1>4, <1>5, RetentionAssumption

\* What the parts of the invariant depend on.
LEMMA PartsKept ==
  ASSUME RetentionInv
  PROVE  /\ UNCHANGED <<endpoints, running>> => IdsInv'
         /\ UNCHANGED <<now, jobVars, misses>> => JobsInv'
         /\ UNCHANGED <<endpoints, seen>> => RowsInv'
         /\ UNCHANGED <<now, seen>> /\ writing' \subseteq writing => WritingInv'
         /\ UNCHANGED <<now, writing, seen, records, unrecorded>> => RecordsInv'
         /\ ( /\ UNCHANGED <<now, endpoints, seen>> /\ unrecorded \subseteq unrecorded'
              /\ \A j \in EndpointJobs : running'[j] \subseteq running[j] ) => RunningInv'
<1>1. UNCHANGED <<endpoints, running>> => IdsInv'
  BY DEF RetentionInv, IdsInv, Taken
<1>2. UNCHANGED <<now, jobVars, misses>> => JobsInv'
  BY DEF RetentionInv, JobsInv, jobVars, StartsAt
<1>3. UNCHANGED <<endpoints, seen>> => RowsInv'
  BY DEF RetentionInv, RowsInv
<1>4. UNCHANGED <<now, seen>> /\ writing' \subseteq writing => WritingInv'
  BY DEF RetentionInv, WritingInv
<1>5. UNCHANGED <<now, writing, seen, records, unrecorded>> => RecordsInv'
  BY DEF RetentionInv, RecordsInv, IsRecorded, Cutoff
<1>6. ( /\ UNCHANGED <<now, endpoints, seen>> /\ unrecorded \subseteq unrecorded'
        /\ \A j \in EndpointJobs : running'[j] \subseteq running[j] ) => RunningInv'
  <2> SUFFICES ASSUME UNCHANGED <<now, endpoints, seen>>, unrecorded \subseteq unrecorded',
                      NEW j \in EndpointJobs, running'[j] \subseteq running[j],
                      NEW c \in running'[j]
               PROVE  WellChosen(j, c)'
    BY DEF RunningInv
  <2>1. WellChosen(j, c)
    BY DEF RetentionInv, RunningInv
  <2> QED
    BY <2>1 DEF WellChosen, Cutoff
<1> QED
  BY <1>1, <1>2, <1>3, <1>4, <1>5, <1>6

LEMMA TickKeeps ==
  ASSUME RetentionInv, Tick
  PROVE  RetentionInv'
<1> USE DEF Tick, tableVars, historyVars
<1>1. now \in Nat /\ now' = now + 1 /\ due' = StartsAt(now') /\ writing' = {}
  BY DEF RetentionInv, TypeOK
<1>2. \A j \in EndpointJobs : running'[j] = {}
  BY DEF NoRun
<1>3. TypeOK'
  BY <1>1 DEF RetentionInv, TypeOK, StartsAt
<1>4. IdsInv' /\ RowsInv'
  BY PartsKept
<1>5. JobsInv'
  BY <1>1, <1>2 DEF RetentionInv, JobsInv
<1>6. WritingInv'
  BY <1>1 DEF WritingInv
<1>7. RecordsInv'
  <2> SUFFICES ASSUME NEW u \in Users
               PROVE  /\ \A p \in Matched : records[u][p] # None =>
                           records[u][p] <= now' /\ (seen[u] # None => records[u][p] <= seen[u])
                      /\ seen[u] # None => seen[u] <= now'
                      /\ seen[u] # None /\ u \notin unrecorded => IsRecorded(u)'
    BY DEF RecordsInv
  <2>1. \A p \in Matched : records[u][p] \in Nat \cup {None}
    BY DEF RetentionInv, TypeOK, Records
  <2>2. seen[u] \in Nat \cup {None} /\ PostauthDays \in Nat
    BY RetentionAssumption DEF RetentionInv, TypeOK
  <2>3. IsRecorded(u) /\ seen[u] # None => IsRecorded(u)'
    BY <1>1, <2>2 DEF IsRecorded, Cutoff, Day
  <2> QED
    BY <1>1, <2>1, <2>2, <2>3 DEF RetentionInv, RecordsInv
<1>8. RunningInv'
  BY <1>2 DEF RunningInv
<1> QED
  BY <1>3, <1>4, <1>5, <1>6, <1>7, <1>8 DEF RetentionInv

LEMMA MissKeeps ==
  ASSUME RetentionInv, NEW j \in due, Miss(j)
  PROVE  RetentionInv'
<1> USE DEF Miss, tableVars, historyVars
<1>1. TypeOK'
  BY DEF RetentionInv, TypeOK
<1>2. JobsInv'
  BY RetentionAssumption DEF RetentionInv, JobsInv, TypeOK, StartsAt
<1>3. IdsInv' /\ RowsInv' /\ WritingInv' /\ RecordsInv' /\ RunningInv'
  BY PartsKept
<1> QED
  BY <1>1, <1>2, <1>3 DEF RetentionInv

-----------------------------------------------------------------------------
(* Authentications *)

LEMMA StateAfterType ==
  ASSUME TypeOK, RowsInv, NEW u \in Users, NEW verdict
  PROVE  /\ StateAfter(u, verdict) \in States
         /\ u \in Macs \/ StateAfter(u, verdict) \in {"authorized", "rejected"}
<1>1. CASE verdict = "accept"
  BY <1>1 DEF StateAfter, States
<1>2. CASE verdict # "accept" /\ endpoints[u] = None
  BY <1>2 DEF StateAfter, States
<1>3. CASE verdict # "accept" /\ endpoints[u] # None
  BY <1>3 DEF StateAfter, States, RowsInv
<1> QED
  BY <1>1, <1>2, <1>3

\* The row that an authentication writes is new, or the one there was.
LEMMA RowWritten ==
  ASSUME RetentionInv, NEW u \in Users, NEW row \in Row,
         endpoints' = [endpoints EXCEPT ![u] = row],
         row.id = IF endpoints[u] = None THEN NewId ELSE endpoints[u].id,
         u \in Macs \/ row.state \in {"authorized", "rejected"},
         UNCHANGED <<now, jobVars, misses>>,
         \A v \in Users \ {u} : seen'[v] = seen[v],
         seen'[u] \in {seen[u], now},
         unrecorded' = unrecorded
  PROVE  IdsInv' /\ JobsInv' /\ RowsInv' /\ RunningInv'
<1>1. NewId \in Nat /\ row # None
  BY NewIdIsNew, RetentionAssumption DEF RetentionInv, Row
<1>2. /\ endpoints'[u] = row /\ \A v \in Users \ {u} : endpoints'[v] = endpoints[v]
  BY DEF RetentionInv, TypeOK
<1>3. IdsInv'
  <2>1. Taken' \subseteq Taken \cup {NewId}
    BY <1>2 DEF Taken, jobVars
  <2> QED
    BY <1>1, <2>1, IdsGrow DEF RetentionInv
<1>4. JobsInv'
  BY PartsKept
<1>5. RowsInv'
  BY <1>1, <1>2 DEF RetentionInv, RowsInv
<1>6. RunningInv'
  <2> SUFFICES ASSUME NEW j \in EndpointJobs, NEW c \in running[j], WellChosen(j, c)
               PROVE  WellChosen(j, c)'
    BY DEF RetentionInv, RunningInv, jobVars
  <2>1. c.user \in Users
    BY DEF RetentionInv, TypeOK, Chosen
  <2>2. CASE c.user = u
    BY <1>1, <1>2, <2>2 DEF WellChosen, Cutoff
  <2>3. CASE c.user # u
    BY <1>2, <2>1, <2>3 DEF WellChosen, Cutoff
  <2> QED
    BY <2>2, <2>3
<1> QED
  BY <1>3, <1>4, <1>5, <1>6

LEMMA AuthenticateKeeps ==
  ASSUME RetentionInv, NEW u \in Users, NEW verdict, NEW policy \in policies \cup {None},
         Authenticate(u, verdict, policy)
  PROVE  RetentionInv'
<1> DEFINE state == StateAfter(u, verdict)
           row == endpoints[u]
           new == CASE row = None -> [id |-> NewId, state |-> state, updated |-> now]
                    [] row # None /\ row.state # state ->
                         [row EXCEPT !.state = state, !.updated = now]
                    [] OTHER -> row
           r == [user |-> u, policy |-> policy, date |-> now]
<1>1. /\ endpoints' = [endpoints EXCEPT ![u] = new]
      /\ seen' = [seen EXCEPT ![u] = now] /\ writing' = writing \cup {r}
      /\ UNCHANGED <<now, policies, records, jobVars, changes, misses, unrecorded>>
  BY DEF Authenticate
<1>2. /\ state \in States /\ (u \in Macs \/ state \in {"authorized", "rejected"})
      /\ NewId \in Nat /\ now \in Nat /\ row \in Row \cup {None}
  BY StateAfterType, NewIdIsNew DEF RetentionInv, TypeOK
<1> HIDE DEF state, row
<1>3. /\ new \in Row /\ new.state = state
      /\ new.id = IF row = None THEN NewId ELSE row.id
  <2>1. CASE row = None
    BY <1>2, <2>1 DEF Row
  <2>2. CASE row # None /\ row.state # state
    BY <1>2, <2>2 DEF Row
  <2>3. CASE row # None /\ row.state = state
    BY <1>2, <2>3 DEF Row
  <2> QED
    BY <2>1, <2>2, <2>3
<1>4. /\ r \in Record /\ r.user = u /\ r.date = now
  BY <1>2, RetentionAssumption DEF Record, Matched, RetentionInv, TypeOK
<1> HIDE DEF new, r
<1>5. /\ seen'[u] = now /\ \A v \in Users \ {u} : seen'[v] = seen[v]
  BY <1>1 DEF RetentionInv, TypeOK
<1>6. TypeOK'
  BY <1>1, <1>2, <1>3, <1>4 DEF RetentionInv, TypeOK, jobVars
<1>7. IdsInv' /\ JobsInv' /\ RowsInv' /\ RunningInv'
  BY <1>1, <1>2, <1>3, <1>5, RowWritten DEF row
<1>8. WritingInv'
  <2>1. \A q \in writing : q.user \in Users
    BY DEF RetentionInv, TypeOK, Record
  <2> QED
    BY <1>1, <1>4, <1>5, <2>1 DEF RetentionInv, WritingInv
<1>9. RecordsInv'
  <2> SUFFICES ASSUME NEW v \in Users
               PROVE  /\ \A p \in Matched : records[v][p] # None =>
                           records[v][p] <= now /\ (seen'[v] # None => records[v][p] <= seen'[v])
                      /\ seen'[v] # None => seen'[v] <= now
                      /\ seen'[v] # None /\ v \notin unrecorded => IsRecorded(v)'
    BY <1>1 DEF RecordsInv
  <2>1. CASE v = u
    BY <1>1, <1>2, <1>4, <1>5, <2>1 DEF RetentionInv, RecordsInv, IsRecorded
  <2>2. CASE v # u
    BY <1>1, <1>5, <2>2 DEF RetentionInv, RecordsInv, IsRecorded, Cutoff
  <2> QED
    BY <2>1, <2>2
<1> QED
  BY <1>6, <1>7, <1>8, <1>9 DEF RetentionInv

LEMMA WriteRecordKeeps ==
  ASSUME RetentionInv, NEW r \in writing, WriteRecord(r)
  PROVE  RetentionInv'
<1> DEFINE u == r.user
<1>1. /\ records' = [records EXCEPT ![u][r.policy] = r.date]
      /\ writing' = writing \ {r} /\ unrecorded' = unrecorded \ {u}
      /\ UNCHANGED <<now, endpoints, policies, jobVars, changes, misses, seen>>
  BY DEF WriteRecord
<1>2. /\ u \in Users /\ r.policy \in Matched /\ now \in Nat
      /\ r.date = now /\ seen[u] \in {None, now}
  BY DEF RetentionInv, TypeOK, WritingInv, Record
<1> HIDE DEF u
<1>3. records[u] \in Records
  BY <1>2 DEF RetentionInv, TypeOK
<1>4. /\ \A p \in Matched : records'[u][p] = IF p = r.policy THEN now ELSE records[u][p]
      /\ \A v \in Users \ {u} : records'[v] = records[v]
      /\ records' \in [Users -> Records]
  <2>1. [records[u] EXCEPT ![r.policy] = now] \in Records
    BY <1>2, <1>3 DEF Records
  <2>2. records' = [records EXCEPT ![u] = [records[u] EXCEPT ![r.policy] = now]]
    BY <1>1, <1>2
  <2> QED
    BY <1>2, <1>3, <2>1, <2>2 DEF RetentionInv, TypeOK, Records
<1>5. TypeOK'
  BY <1>1, <1>4 DEF RetentionInv, TypeOK, jobVars
<1>6. IdsInv' /\ JobsInv' /\ RowsInv' /\ WritingInv'
  BY <1>1, PartsKept DEF jobVars
<1>7. RecordsInv'
  <2> SUFFICES ASSUME NEW v \in Users
               PROVE  /\ \A p \in Matched : records'[v][p] # None =>
                           records'[v][p] <= now /\ (seen[v] # None => records'[v][p] <= seen[v])
                      /\ seen[v] # None => seen[v] <= now
                      /\ seen[v] # None /\ v \notin unrecorded' => IsRecorded(v)'
    BY <1>1 DEF RecordsInv
  <2>1. CASE v = u
    <3>1. seen[v] # None => IsRecorded(v)'
      BY <1>1, <1>2, <1>4, <2>1 DEF IsRecorded
    <3>2. ASSUME NEW p \in Matched, records'[u][p] # None
          PROVE  records'[u][p] <= now /\ (seen[u] # None => records'[u][p] <= seen[u])
      <4>1. CASE p = r.policy
        BY <1>2, <1>4, <4>1
      <4>2. CASE p # r.policy
        BY <1>2, <1>4, <3>2, <4>2 DEF RetentionInv, RecordsInv
      <4> QED
        BY <4>1, <4>2
    <3>3. seen[u] # None => seen[u] <= now
      BY <1>2
    <3>4. v \in Users /\ v = u
      BY <2>1
    <3> QED
      BY <2>1, <3>1, <3>2, <3>3, <3>4
  <2>2. CASE v # u
    <3>1. \A q \in writing : q.user = v => q \in writing'
      BY <1>1, <2>2 DEF u
    <3> QED
      BY <1>1, <1>4, <2>2, <3>1 DEF RetentionInv, RecordsInv, IsRecorded, Cutoff
  <2> QED
    BY <2>1, <2>2
<1>8. RunningInv'
  <2> SUFFICES ASSUME NEW j \in EndpointJobs, NEW c \in running[j], WellChosen(j, c)
               PROVE  WellChosen(j, c)'
    BY <1>1 DEF RetentionInv, RunningInv, jobVars
  <2> QED
    BY <1>1, <1>2 DEF WellChosen, Cutoff
<1> QED
  BY <1>5, <1>6, <1>7, <1>8 DEF RetentionInv

LEMMA LoseRecordKeeps ==
  ASSUME RetentionInv, NEW r \in writing, LoseRecord(r)
  PROVE  RetentionInv'
<1> USE DEF LoseRecord, tableVars
<1>1. TypeOK'
  BY DEF RetentionInv, TypeOK, jobVars, Record
<1>2. IdsInv' /\ JobsInv' /\ RowsInv' /\ WritingInv' /\ RunningInv'
  BY PartsKept DEF jobVars
<1>3. RecordsInv'
  BY DEF RetentionInv, RecordsInv, IsRecorded, Cutoff
<1> QED
  BY <1>1, <1>2, <1>3 DEF RetentionInv

-----------------------------------------------------------------------------
(* The external API *)

LEMMA PostEndpointKeeps ==
  ASSUME RetentionInv, NEW u \in Users, PostEndpoint(u)
  PROVE  RetentionInv'
<1> DEFINE row == [id |-> NewId, state |-> "pending", updated |-> now]
<1>1. /\ endpoints' = [endpoints EXCEPT ![u] = row] /\ u \in Macs /\ endpoints[u] = None
      /\ changes' = changes + 1
      /\ UNCHANGED <<now, writing, jobVars, misses, policies, records, historyVars>>
  BY DEF PostEndpoint, Change
<1>2. row \in Row /\ row.id = NewId
  BY NewIdIsNew DEF Row, States, RetentionInv, TypeOK
<1> HIDE DEF row
<1>3. TypeOK'
  BY <1>1, <1>2 DEF RetentionInv, TypeOK, jobVars, historyVars
<1>4. IdsInv' /\ JobsInv' /\ RowsInv' /\ RunningInv'
  BY <1>1, <1>2, RowWritten DEF historyVars
<1>5. WritingInv' /\ RecordsInv'
  BY <1>1, PartsKept DEF historyVars
<1> QED
  BY <1>3, <1>4, <1>5 DEF RetentionInv

LEMMA PutEndpointKeeps ==
  ASSUME RetentionInv, NEW u \in Users, NEW state \in States, PutEndpoint(u, state)
  PROVE  RetentionInv'
<1> DEFINE row == [endpoints[u] EXCEPT !.state = state, !.updated = now]
<1>1. /\ endpoints[u] # None
      /\ state = endpoints[u].state \/ (u \in Macs /\ state = "pending")
      /\ changes' = changes + 1
      /\ UNCHANGED <<now, writing, jobVars, misses, policies, records, historyVars>>
  BY DEF PutEndpoint, Change
<1>2. endpoints' = [endpoints EXCEPT ![u] = row]
  BY DEF PutEndpoint, RetentionInv, TypeOK
<1>3. row \in Row /\ row.id = endpoints[u].id /\ row.state = state
  BY <1>1 DEF Row, RetentionInv, TypeOK
<1> HIDE DEF row
<1>4. TypeOK'
  BY <1>1, <1>2, <1>3 DEF RetentionInv, TypeOK, jobVars, historyVars
<1>5. u \in Macs \/ state \in {"authorized", "rejected"}
  BY <1>1 DEF RetentionInv, RowsInv
<1>6. IdsInv' /\ JobsInv' /\ RowsInv' /\ RunningInv'
  BY <1>1, <1>2, <1>3, <1>5, RowWritten DEF historyVars
<1>7. WritingInv' /\ RecordsInv'
  BY <1>1, PartsKept DEF historyVars
<1> QED
  BY <1>4, <1>6, <1>7 DEF RetentionInv

\* Fewer or older records.  That the last authentication is recorded is for each step to show.
LEMMA RecordsGo ==
  ASSUME RetentionInv, UNCHANGED <<now, writing>>,
         records' \in [Users -> Records], unrecorded \subseteq unrecorded',
         \A u \in Users, p \in Matched :
           records'[u][p] # None => records[u][p] # None /\ records'[u][p] <= records[u][p],
         \A u \in Users : seen'[u] \in {None, seen[u]},
         \A u \in Users :
           seen'[u] # None /\ seen[u] # None /\ u \notin unrecorded' /\ IsRecorded(u)
             => IsRecorded(u)'
  PROVE  RecordsInv'
<1> SUFFICES ASSUME NEW u \in Users
             PROVE  /\ \A p \in Matched : records'[u][p] # None =>
                         records'[u][p] <= now /\ (seen'[u] # None => records'[u][p] <= seen'[u])
                    /\ seen'[u] # None => seen'[u] <= now
                    /\ seen'[u] # None /\ u \notin unrecorded' => IsRecorded(u)'
  BY DEF RecordsInv
<1>1. /\ now \in Nat /\ seen[u] \in Nat \cup {None}
      /\ \A p \in Matched : records[u][p] \in Nat \cup {None} /\ records'[u][p] \in Nat \cup {None}
  BY DEF RetentionInv, TypeOK, Records
<1>2. ASSUME NEW p \in Matched, records'[u][p] # None
      PROVE  records'[u][p] <= now /\ (seen'[u] # None => records'[u][p] <= seen'[u])
  BY <1>1, <1>2, RetentionAssumption DEF RetentionInv, RecordsInv
<1>3. seen'[u] # None => seen'[u] <= now
  BY DEF RetentionInv, RecordsInv
<1>4. seen'[u] # None /\ u \notin unrecorded' => IsRecorded(u)'
  BY DEF RetentionInv, RecordsInv
<1> QED
  BY <1>2, <1>3, <1>4

LEMMA DeleteEndpointKeeps ==
  ASSUME RetentionInv, NEW u \in Users, DeleteEndpoint(u)
  PROVE  RetentionInv'
<1>1. /\ endpoints' = [endpoints EXCEPT ![u] = None] /\ seen' = [seen EXCEPT ![u] = None]
      /\ records' = [records EXCEPT ![u] = NoRecord] /\ changes' = changes + 1
      /\ UNCHANGED <<now, writing, jobVars, misses, policies, unrecorded>>
  BY DEF DeleteEndpoint, Change
<1>2. NoRecord \in Records /\ \A p \in Matched : NoRecord[p] = None
  BY DEF NoRecord, Records
<1>3. /\ endpoints'[u] = None /\ seen'[u] = None /\ records'[u] = NoRecord
      /\ \A v \in Users \ {u} :
           endpoints'[v] = endpoints[v] /\ seen'[v] = seen[v] /\ records'[v] = records[v]
  BY <1>1 DEF RetentionInv, TypeOK
<1>4. TypeOK'
  BY <1>1, <1>2 DEF RetentionInv, TypeOK, jobVars
<1>5. IdsInv'
  <2>1. /\ \A v \in Users : endpoints'[v] # None =>
             endpoints[v] # None /\ endpoints'[v].id = endpoints[v].id
        /\ \A j \in EndpointJobs : running'[j] = running[j]
    BY <1>1, <1>3 DEF jobVars
  <2>2. Taken' \subseteq Taken
    BY <2>1 DEF Taken
  <2> QED
    BY <2>2, IdsGrow DEF RetentionInv
<1>6. JobsInv'
  BY <1>1, PartsKept
<1>7. RowsInv'
  BY <1>3 DEF RetentionInv, RowsInv
<1>8. WritingInv'
  BY <1>1, <1>3 DEF RetentionInv, WritingInv, TypeOK, Record
<1>9. RecordsInv'
  <2>1. \A v \in Users, p \in Matched : records'[v][p] # None =>
          records[v][p] # None /\ records'[v][p] <= records[v][p]
    BY <1>2, <1>3 DEF RetentionInv, TypeOK, Records
  <2>2. \A v \in Users : seen'[v] \in {None, seen[v]}
    BY <1>3
  <2>3. \A v \in Users : seen'[v] # None /\ IsRecorded(v) => IsRecorded(v)'
    BY <1>1, <1>3 DEF IsRecorded, Cutoff
  <2> QED
    BY <1>1, <1>4, <2>1, <2>2, <2>3, RecordsGo DEF TypeOK
<1>10. RunningInv'
  <2> SUFFICES ASSUME NEW j \in EndpointJobs, NEW c \in running[j], WellChosen(j, c)
               PROVE  WellChosen(j, c)'
    BY <1>1 DEF RetentionInv, RunningInv, jobVars
  <2>1. c.user \in Users
    BY DEF RetentionInv, TypeOK, Chosen
  <2> QED
    BY <1>1, <1>3, <2>1 DEF WellChosen, Cutoff
<1> QED
  BY <1>4, <1>5, <1>6, <1>7, <1>8, <1>9, <1>10 DEF RetentionInv

LEMMA DeletePolicyKeeps ==
  ASSUME RetentionInv, NEW p \in policies, DeletePolicy(p)
  PROVE  RetentionInv'
<1>1. /\ policies' = policies \ {p} /\ changes' = changes + 1
      /\ records' = [u \in Users |-> [records[u] EXCEPT ![p] = None]]
      /\ unrecorded' = unrecorded \cup
           {u \in Users : records[u][p] # None /\ records[u][p] = seen[u]}
      /\ UNCHANGED <<now, writing, jobVars, misses, endpoints, seen>>
  BY DEF DeletePolicy, Change
<1>2. p \in Matched /\ \A u \in Users : records[u] \in Records
  BY DEF RetentionInv, TypeOK, Matched
<1>3. /\ \A u \in Users, q \in Matched : records'[u][q] = IF q = p THEN None ELSE records[u][q]
      /\ records' \in [Users -> Records]
  BY <1>1, <1>2 DEF Records
<1>4. TypeOK'
  BY <1>1, <1>3 DEF RetentionInv, TypeOK, jobVars
<1>5. IdsInv' /\ JobsInv' /\ RowsInv' /\ WritingInv' /\ RunningInv'
  BY <1>1, PartsKept DEF jobVars
<1>6. RecordsInv'
  <2>1. \A v \in Users, q \in Matched : records'[v][q] # None =>
          records[v][q] # None /\ records'[v][q] <= records[v][q]
    BY <1>2, <1>3 DEF Records
  <2>2. ASSUME NEW u \in Users, seen[u] # None, u \notin unrecorded', IsRecorded(u)
        PROVE  IsRecorded(u)'
    <3>1. records[u][p] # seen[u]
      BY <1>1, <2>2
    <3>2. records[u] = NoRecord => records'[u] = NoRecord
      BY <1>1, <1>2 DEF NoRecord
    <3> QED
      BY <1>1, <1>3, <2>2, <3>1, <3>2 DEF IsRecorded, Cutoff
  <2> QED
    BY <1>1, <1>3, <2>1, <2>2, RecordsGo
<1> QED
  BY <1>4, <1>5, <1>6 DEF RetentionInv

LEMMA DeleteAuthenticationKeeps ==
  ASSUME RetentionInv, NEW u \in Users, NEW p \in policies \cup {None}, DeleteAuthentication(u, p)
  PROVE  RetentionInv'
<1>1. PICK earlier \in {None} \cup ({records[u][p] - Day} \cap Nat) :
        records' = [records EXCEPT ![u][p] = earlier]
  BY DEF DeleteAuthentication
<1>2. /\ records[u][p] # None /\ changes' = changes + 1
      /\ unrecorded' = IF records[u][p] = seen[u] THEN unrecorded \cup {u} ELSE unrecorded
      /\ UNCHANGED <<now, writing, jobVars, misses, endpoints, policies, seen>>
  BY DEF DeleteAuthentication, Change
<1>3. p \in Matched /\ \A v \in Users : records[v] \in Records
  BY DEF RetentionInv, TypeOK, Matched
<1>4. records[u][p] \in Nat /\ earlier \in Nat \cup {None}
      /\ (earlier # None => earlier <= records[u][p])
  BY <1>1, <1>2, <1>3 DEF Records, Day
<1>5. /\ \A q \in Matched : records'[u][q] = IF q = p THEN earlier ELSE records[u][q]
      /\ \A v \in Users \ {u} : records'[v] = records[v]
      /\ records' \in [Users -> Records]
  <2>1. [records[u] EXCEPT ![p] = earlier] \in Records
    BY <1>3, <1>4 DEF Records
  <2>2. records' = [records EXCEPT ![u] = [records[u] EXCEPT ![p] = earlier]]
    BY <1>1
  <2> QED
    BY <1>3, <2>1, <2>2 DEF RetentionInv, TypeOK, Records
<1>6. TypeOK'
  BY <1>2, <1>5 DEF RetentionInv, TypeOK, jobVars
<1>7. IdsInv' /\ JobsInv' /\ RowsInv' /\ WritingInv' /\ RunningInv'
  BY <1>2, PartsKept DEF jobVars
<1>8. RecordsInv'
  <2>1. ASSUME NEW v \in Users, NEW q \in Matched, records'[v][q] # None
        PROVE  records[v][q] # None /\ records'[v][q] <= records[v][q]
    <3>1. records[v][q] \in Nat \cup {None}
      BY <1>3 DEF Records
    <3>2. CASE v = u /\ q = p
      BY <1>2, <1>4, <1>5, <2>1, <3>2
    <3>3. CASE ~ (v = u /\ q = p)
      BY <1>5, <2>1, <3>1, <3>3
    <3> QED
      BY <3>2, <3>3
  <2>2. ASSUME NEW v \in Users, seen[v] # None, v \notin unrecorded', IsRecorded(v)
        PROVE  IsRecorded(v)'
    <3>1. CASE v = u
      <4>1. records[u][p] # seen[u] /\ records[u] # NoRecord
        BY <1>2, <1>3, <2>2, <3>1 DEF NoRecord
      <4> QED
        BY <1>2, <1>5, <2>2, <3>1, <4>1 DEF IsRecorded
    <3>2. CASE v # u
      BY <1>2, <1>5, <2>2, <3>2 DEF IsRecorded, Cutoff
    <3> QED
      BY <3>1, <3>2
  <2> QED
    BY <1>2, <1>5, <2>1, <2>2, RecordsGo
<1> QED
  BY <1>6, <1>7, <1>8 DEF RetentionInv

-----------------------------------------------------------------------------
(* The jobs *)

LEMMA PostauthIsApart == PostauthJob \notin EndpointJobs
<1>1. "mab" \notin DOMAIN PostauthJob
  BY DEF PostauthJob
<1>2. \A j \in EndpointJobs : "mab" \in DOMAIN j
  BY DEF EndpointJobs
<1> QED
  BY <1>1, <1>2

\* What a job selects was seen before its days, or is being seen.
LEMMA SelectedIsUnseen ==
  ASSUME RetentionInv, NEW j \in EndpointJobs, NEW u \in SelectEndpoints(j)
  PROVE  /\ u \in Users /\ endpoints[u] # None
         /\ \A p \in Matched : records[u][p] # None => records[u][p] < now
         /\ \/ seen[u] \in {None, now} \/ seen[u] < Cutoff(JobDays[j])
            \/ u \in unrecorded
<1>1. /\ u \in Users /\ endpoints[u] # None /\ records[u] # NoRecord
      /\ \A p \in Matched : records[u][p] # None => records[u][p] < Cutoff(JobDays[j])
  BY DEF SelectEndpoints, LastSeenBefore
<1>2. /\ now \in Nat /\ JobDays[j] \in Nat \ {0}
      /\ \A p \in Matched : records[u][p] \in Nat \cup {None}
      /\ Cutoff(JobDays[j]) \in Int /\ Cutoff(JobDays[j]) < now
  BY <1>1, RetentionAssumption DEF RetentionInv, TypeOK, Records, Cutoff, Day
<1>3. \A p \in Matched : records[u][p] # None => records[u][p] < now
  BY <1>1, <1>2
<1>4. ASSUME seen[u] \notin {None, now}, u \notin unrecorded
      PROVE  seen[u] < Cutoff(JobDays[j])
  <2>1. \A r \in writing : r.user # u
    BY <1>4 DEF RetentionInv, WritingInv
  <2>2. PICK p \in Matched : records[u][p] = seen[u]
    BY <1>1, <1>4, <2>1 DEF RetentionInv, RecordsInv, IsRecorded
  <2> QED
    BY <1>1, <1>4, <2>2
<1> QED
  BY <1>1, <1>3, <1>4

LEMMA StartJobKeeps ==
  ASSUME RetentionInv, NEW j \in EndpointJobs, StartJob(j)
  PROVE  RetentionInv'
<1> DEFINE Choice(u) == [user |-> u, id |-> endpoints[u].id, records |-> records[u]]
<1>1. /\ j \in due /\ due' = due \ {j}
      /\ running' = [running EXCEPT ![j] = {Choice(u) : u \in SelectEndpoints(j)}]
      /\ UNCHANGED <<now, tableVars, writing, changes, misses, historyVars>>
  BY DEF StartJob
<1>2. /\ \A c \in running'[j] : \E u \in SelectEndpoints(j) : c = Choice(u)
      /\ \A k \in EndpointJobs \ {j} : running'[k] = running[k]
  BY <1>1 DEF RetentionInv, TypeOK
<1>3. TypeOK'
  <2>1. {Choice(u) : u \in SelectEndpoints(j)} \subseteq Chosen
    BY SelectedIsUnseen DEF RetentionInv, TypeOK, Row, Chosen
  <2> QED
    BY <1>1, <2>1 DEF RetentionInv, TypeOK, tableVars, historyVars
<1>4. IdsInv'
  <2>1. \A c \in running'[j] : c.id \in Taken
    BY <1>2, SelectedIsUnseen DEF Taken
  <2>2. Taken' \subseteq Taken
    BY <1>1, <1>2, <2>1 DEF Taken, tableVars
  <2> QED
    BY <2>2, IdsGrow DEF RetentionInv
<1>5. JobsInv'
  <2>1. now % Day = 1
    BY <1>1, PostauthIsApart DEF RetentionInv, JobsInv, StartsAt
  <2> QED
    BY <1>1, <1>2, <2>1 DEF RetentionInv, JobsInv, StartsAt
<1>6. RowsInv' /\ WritingInv' /\ RecordsInv'
  BY <1>1, PartsKept DEF tableVars, historyVars
<1>7. RunningInv'
  <2> SUFFICES ASSUME NEW k \in EndpointJobs, NEW c \in running'[k]
               PROVE  WellChosen(k, c)'
    BY DEF RunningInv
  <2>1. CASE k = j
    <3>1. PICK u \in SelectEndpoints(j) : c = Choice(u)
      BY <1>2, <2>1
    <3>2. c.user = u /\ c.id = endpoints[u].id /\ c.records = records[u]
      BY <3>1
    <3> HIDE DEF Choice
    <3> QED
      BY <1>1, <2>1, <3>2, SelectedIsUnseen DEF WellChosen, Cutoff, tableVars, historyVars
  <2>2. CASE k # j
    <3>1. c \in running[k]
      BY <1>2, <2>2
    <3> QED
      BY <1>1, <3>1 DEF RetentionInv, RunningInv, WellChosen, Cutoff, tableVars, historyVars
  <2> QED
    BY <2>1, <2>2
<1> QED
  BY <1>3, <1>4, <1>5, <1>6, <1>7 DEF RetentionInv

\* The endpoints a job deletes, and the records.
Doomed(j) ==
  {u \in Users : \E c \in running[j] : /\ c.user = u /\ endpoints[u] # None
                                      /\ c.id = endpoints[u].id}

Loaded(j, u, p) == \E c \in running[j] : c.user = u /\ c.records[p] = records[u][p]

LEMMA FinishJobKeeps ==
  ASSUME RetentionInv, NEW j \in EndpointJobs, FinishJob(j)
  PROVE  RetentionInv'
<1>1. /\ running' = [running EXCEPT ![j] = {}]
      /\ endpoints' = [u \in Users |-> IF u \in Doomed(j) THEN None ELSE endpoints[u]]
      /\ records' = [u \in Users |-> [p \in Matched |->
           IF Loaded(j, u, p) THEN None ELSE records[u][p]]]
      /\ seen' = [u \in Users |-> IF u \in Doomed(j) THEN None ELSE seen[u]]
      /\ UNCHANGED <<now, policies, writing, due, changes, misses, unrecorded>>
  BY DEF FinishJob, Doomed, Loaded
<1>2. /\ \A u \in Doomed(j) : endpoints'[u] = None /\ seen'[u] = None
      /\ \A u \in Users \ Doomed(j) : endpoints'[u] = endpoints[u] /\ seen'[u] = seen[u]
      /\ running'[j] = {} /\ \A k \in EndpointJobs \ {j} : running'[k] = running[k]
  BY <1>1 DEF RetentionInv, TypeOK, Doomed
<1>3. \A u \in Users, p \in Matched :
        /\ records[u][p] \in Nat \cup {None}
        /\ records'[u][p] = IF Loaded(j, u, p) THEN None ELSE records[u][p]
  BY <1>1 DEF RetentionInv, TypeOK, Records
<1>4. TypeOK'
  <2>1. records' \in [Users -> Records]
    BY <1>1, <1>3 DEF Records
  <2> QED
    BY <1>1, <2>1 DEF RetentionInv, TypeOK
<1>5. IdsInv'
  <2>1. Taken' \subseteq Taken
    BY <1>2 DEF Taken
  <2> QED
    BY <2>1, IdsGrow DEF RetentionInv
<1>6. JobsInv'
  BY <1>1, <1>2 DEF RetentionInv, JobsInv
<1>7. RowsInv'
  BY <1>2 DEF RetentionInv, RowsInv
<1>8. WritingInv'
  BY <1>1, <1>2 DEF RetentionInv, WritingInv, TypeOK, Record
<1>9. RecordsInv'
  <2>1. \A u \in Users, p \in Matched : records'[u][p] # None =>
          records[u][p] # None /\ records'[u][p] <= records[u][p]
    BY <1>3
  <2>2. \A u \in Users : seen'[u] \in {None, seen[u]}
    BY <1>2
  <2>3. ASSUME NEW u \in Users, seen'[u] # None, IsRecorded(u)
        PROVE  IsRecorded(u)'
    <3>1. u \notin Doomed(j) /\ seen'[u] = seen[u]
      BY <1>2, <2>3
    <3>2. CASE \E p \in Matched : records[u][p] = seen[u]
      <4>1. PICK p \in Matched : records[u][p] = seen[u]
        BY <3>2
      <4>2. ~ Loaded(j, u, p)
        <5> SUFFICES ASSUME NEW c \in running[j], c.user = u, c.records[p] = seen[u]
                     PROVE  FALSE
          BY <4>1 DEF Loaded
        <5>1. seen[u] < now
          BY <2>3, <3>1 DEF RetentionInv, RunningInv, WellChosen
        <5>2. seen[u] \in Nat /\ now \in Nat
          BY <2>3, <3>1 DEF RetentionInv, TypeOK
        <5>3. seen[u] \notin {None, now}
          BY <2>3, <3>1, <5>1, <5>2
        <5>4. endpoints[u] # None /\ endpoints[u].id = c.id
          BY <5>3 DEF RetentionInv, RunningInv, WellChosen
        <5> QED
          BY <3>1, <5>4 DEF Doomed
      <4> QED
        BY <1>3, <3>1, <4>1, <4>2 DEF IsRecorded
    <3>3. CASE \E r \in writing : r.user = u
      BY <1>1, <3>3 DEF IsRecorded
    <3>4. CASE records[u] = NoRecord /\ seen[u] < Cutoff(PostauthDays)
      <4>1. records'[u] = [p \in Matched |-> IF Loaded(j, u, p) THEN None ELSE records[u][p]]
        BY <1>1
      <4>2. records'[u] = NoRecord
        BY <3>4, <4>1 DEF NoRecord
      <4> QED
        BY <1>1, <3>1, <3>4, <4>2 DEF IsRecorded, Cutoff
    <3> QED
      BY <2>3, <3>2, <3>3, <3>4 DEF IsRecorded
  <2> QED
    BY <1>1, <1>4, <2>1, <2>2, <2>3, RecordsGo DEF TypeOK
<1>10. RunningInv'
  <2> SUFFICES ASSUME NEW k \in EndpointJobs, NEW c \in running'[k]
               PROVE  WellChosen(k, c)'
    BY DEF RunningInv
  <2>1. c \in running[k] /\ WellChosen(k, c) /\ c.user \in Users
    BY <1>2 DEF RetentionInv, RunningInv, TypeOK, Chosen
  <2> QED
    BY <1>1, <1>2, <2>1 DEF WellChosen, Cutoff
<1> QED
  BY <1>4, <1>5, <1>6, <1>7, <1>8, <1>9, <1>10 DEF RetentionInv

LEMMA PrunePostauthKeeps ==
  ASSUME RetentionInv, PrunePostauth
  PROVE  RetentionInv'
<1> DEFINE cutoff == Cutoff(PostauthDays)
<1>1. /\ due' = due \ {PostauthJob}
      /\ records' = [u \in Users |-> [p \in Matched |->
           IF Older(records[u][p], cutoff) THEN None ELSE records[u][p]]]
      /\ UNCHANGED <<now, endpoints, policies, writing, running, changes, misses, historyVars>>
  BY DEF PrunePostauth
<1>2. cutoff \in Int
  BY RetentionAssumption DEF RetentionInv, TypeOK, Cutoff, Day
<1>3. \A u \in Users, p \in Matched :
        /\ records[u][p] \in Nat \cup {None}
        /\ records'[u][p] = IF Older(records[u][p], cutoff) THEN None ELSE records[u][p]
  BY <1>1 DEF RetentionInv, TypeOK, Records
<1> HIDE DEF cutoff
<1>4. TypeOK'
  <2>1. records' \in [Users -> Records]
    BY <1>1, <1>3 DEF Records
  <2> QED
    BY <1>1, <2>1 DEF RetentionInv, TypeOK, historyVars
<1>5. IdsInv' /\ RowsInv' /\ WritingInv' /\ RunningInv'
  BY <1>1, PartsKept DEF historyVars
<1>6. JobsInv'
  BY <1>1 DEF RetentionInv, JobsInv, StartsAt
<1>7. RecordsInv'
  <2>1. \A u \in Users, p \in Matched : records'[u][p] # None =>
          records[u][p] # None /\ records'[u][p] <= records[u][p]
    BY <1>3
  <2>2. ASSUME NEW u \in Users, seen[u] # None, IsRecorded(u)
        PROVE  IsRecorded(u)'
    <3>1. seen[u] \in Nat
      BY <2>2 DEF RetentionInv, TypeOK
    <3>2. CASE seen[u] < cutoff
      <4>1. \A p \in Matched : records[u][p] = None \/ Older(records[u][p], cutoff)
        BY <1>2, <1>3, <2>2, <3>1, <3>2 DEF RetentionInv, RecordsInv, Older
      <4>2. records'[u] = [p \in Matched |->
              IF Older(records[u][p], cutoff) THEN None ELSE records[u][p]]
        BY <1>1
      <4>3. records'[u] = NoRecord
        BY <4>1, <4>2 DEF NoRecord
      <4> QED
        BY <1>1, <3>2, <4>3 DEF IsRecorded, Cutoff, cutoff, historyVars
    <3>3. CASE ~ seen[u] < cutoff
      BY <1>1, <1>3, <2>2, <3>3 DEF IsRecorded, Older, cutoff, historyVars
    <3> QED
      BY <3>2, <3>3
  <2> QED
    BY <1>1, <1>4, <2>1, <2>2, RecordsGo DEF TypeOK, historyVars
<1> QED
  BY <1>4, <1>5, <1>6, <1>7 DEF RetentionInv

-----------------------------------------------------------------------------
(* Types, and what a job deletes *)

LEMMA InitRetention == Init => RetentionInv
<1> SUFFICES ASSUME Init PROVE RetentionInv
  OBVIOUS
<1> USE DEF Init
<1>1. NoRecord \in Records
  BY DEF NoRecord, Records
<1>2. TypeOK
  BY <1>1 DEF TypeOK, NoRun
<1>3. IdsInv
  <2>1. Taken = {}
    BY DEF Taken, NoRun
  <2> QED
    BY <2>1 DEF IdsInv
<1>4. JobsInv /\ RowsInv
  BY RetentionAssumption DEF JobsInv, RowsInv, NoRun
<1>5. WritingInv /\ RecordsInv /\ RunningInv
  BY DEF WritingInv, RecordsInv, RunningInv, NoRecord, NoRun
<1> QED
  BY <1>2, <1>3, <1>4, <1>5 DEF RetentionInv

LEMMA RetentionStep ==
  ASSUME RetentionInv, [Next]_vars
  PROVE  RetentionInv'
<1>1. CASE Tick
  BY <1>1, TickKeeps
<1>2. ASSUME NEW u \in Users, NEW verdict, NEW p \in policies \cup {None}, Authenticate(u, verdict, p)
      PROVE  RetentionInv'
  BY <1>2, AuthenticateKeeps
<1>3. ASSUME NEW u \in Users, PostEndpoint(u) \/ DeleteEndpoint(u)
      PROVE  RetentionInv'
  BY <1>3, PostEndpointKeeps, DeleteEndpointKeeps
<1>4. ASSUME NEW u \in Users, NEW p \in policies \cup {None}, DeleteAuthentication(u, p)
      PROVE  RetentionInv'
  BY <1>4, DeleteAuthenticationKeeps
<1>5. ASSUME NEW u \in Users, NEW state \in States, PutEndpoint(u, state)
      PROVE  RetentionInv'
  BY <1>5, PutEndpointKeeps
<1>6. ASSUME NEW p \in policies, DeletePolicy(p)
      PROVE  RetentionInv'
  BY <1>6, DeletePolicyKeeps
<1>7. ASSUME NEW r \in writing, WriteRecord(r) \/ LoseRecord(r)
      PROVE  RetentionInv'
  BY <1>7, WriteRecordKeeps, LoseRecordKeeps
<1>8. CASE JobNext
  BY <1>8, MissKeeps, StartJobKeeps, FinishJobKeeps, PrunePostauthKeeps DEF JobNext
<1>9. CASE UNCHANGED vars
  <2>1. TypeOK'
    BY <1>9 DEF vars, tableVars, jobVars, historyVars, RetentionInv, TypeOK
  <2>2. IdsInv' /\ JobsInv' /\ RowsInv' /\ WritingInv' /\ RecordsInv' /\ RunningInv'
    BY <1>9, PartsKept DEF vars, tableVars, jobVars, historyVars
  <2> QED
    BY <2>1, <2>2 DEF RetentionInv
<1> QED
  BY <1>1, <1>2, <1>3, <1>4, <1>5, <1>6, <1>7, <1>8, <1>9 DEF Next

LEMMA RetentionInvariance == Spec => []RetentionInv
<1>1. RetentionInv /\ [Next]_vars => RetentionInv'
  BY RetentionStep
<1> QED
  BY InitRetention, <1>1, PTL DEF Spec

\* The tables, the jobs and the history have their types; the id of a new row among them,
\* which is found though neither users nor jobs are bounded.
THEOREM TypeCorrect == Spec => []TypeOK
<1>1. RetentionInv => TypeOK
  BY DEF RetentionInv
<1> QED
  BY RetentionInvariance, <1>1, PTL

\* Only the commit of a job ends it and deletes endpoints.
LEMMA OnlyItsCommit ==
  ASSUME RetentionInv, [Next]_vars, NEW j \in EndpointJobs, NEW u \in Users,
         running[j] # {}, running'[j] = {}, endpoints[u] # None, endpoints'[u] = None
  PROVE  FinishJob(j)
<1>1. endpoints' # endpoints /\ running' # running
  OBVIOUS
<1>2. \E k \in EndpointJobs : FinishJob(k)
  BY <1>1
     DEF Next, JobNext, Tick, Miss, Authenticate, WriteRecord, LoseRecord, Change, PostEndpoint,
         PutEndpoint, DeleteEndpoint, DeletePolicy, DeleteAuthentication, StartJob, PrunePostauth,
         vars, tableVars, jobVars, historyVars
<1>3. ASSUME NEW k \in EndpointJobs, FinishJob(k), k # j
      PROVE  running'[j] = running[j]
  BY <1>3 DEF FinishJob, RetentionInv, TypeOK
<1> QED
  BY <1>2, <1>3

\* An endpoint that a job deletes was not seen within its days, unless while the job ran, or
\* its last record was lost: a job condemns only by a record, and none is later than what it
\* knows of.
THEOREM SeenAreKept == Spec => KeptWhileSeen
<1> DEFINE KeptBy(j, u) ==
      running[j] # {} /\ running'[j] = {} /\ endpoints[u] # None /\ endpoints'[u] = None =>
         \/ seen[u] = None \/ seen[u] < Cutoff(JobDays[j]) \/ seen[u] = now
         \/ u \in unrecorded
<1>1. RetentionInv /\ [Next]_vars => \A j \in EndpointJobs, u \in Users : KeptBy(j, u)
  <2> SUFFICES ASSUME RetentionInv, [Next]_vars, NEW j \in EndpointJobs, NEW u \in Users,
                      running[j] # {}, running'[j] = {}, endpoints[u] # None, endpoints'[u] = None
               PROVE  \/ seen[u] \in {None, now} \/ seen[u] < Cutoff(JobDays[j])
                      \/ u \in unrecorded
    OBVIOUS
  <2>1. PICK c \in running[j] : c.user = u
    BY OnlyItsCommit DEF FinishJob
  <2>2. WellChosen(j, c)
    BY DEF RetentionInv, RunningInv
  <2> QED
    BY <2>1, <2>2 DEF WellChosen
<1> QED
  BY RetentionInvariance, <1>1, PTL DEF Spec, KeptWhileSeen

-----------------------------------------------------------------------------
(* Retention implements EndpointLifecycle *)

StateOf(row) == IF row = None THEN "absent" ELSE row.state

\* A step that changes one endpoint changes the abstract state there.
LEMMA LifecycleStateAt ==
  ASSUME NEW u \in Users, \A v \in Users \ {u} : endpoints'[v] = endpoints[v]
  PROVE  /\ LifecycleState[u] = StateOf(endpoints[u])
         /\ LifecycleState' = [LifecycleState EXCEPT ![u] = StateOf(endpoints'[u])]
  BY DEF LifecycleState, StateOf

\* The verdicts, summed up in StateAfter, move a state as the life cycle has it, or are the
\* rejection by a policy of a user without a row.
LEMMA AuthenticateLives ==
  ASSUME RetentionInv, NEW u \in Users, NEW verdict, NEW p \in policies \cup {None},
         Authenticate(u, verdict, p)
  PROVE  [Lifecycle!Next \/ RejectedAtFirstSight]_LifecycleState
<1> DEFINE old == StateOf(endpoints[u])
           new == StateAfter(u, verdict)
<1>1. LifecycleState[u] = old /\ LifecycleState' = [LifecycleState EXCEPT ![u] = new]
  <2> DEFINE row == CASE endpoints[u] = None -> [id |-> NewId, state |-> new, updated |-> now]
                      [] endpoints[u] # None /\ endpoints[u].state # new ->
                           [endpoints[u] EXCEPT !.state = new, !.updated = now]
                      [] OTHER -> endpoints[u]
  <2>1. endpoints \in [Users -> Row \cup {None}]
    BY DEF RetentionInv, TypeOK
  <2>2. endpoints'[u] = row /\ \A v \in Users \ {u} : endpoints'[v] = endpoints[v]
    BY <2>1 DEF Authenticate
  <2>3. StateOf(row) = new
    <3>1. CASE endpoints[u] = None
      <4>1. [id |-> NewId, state |-> new, updated |-> now] # None
        BY NewIdIsNew, StateAfterType, RetentionAssumption DEF RetentionInv, TypeOK
      <4> QED
        BY <3>1, <4>1 DEF StateOf
    <3>2. CASE endpoints[u] # None /\ endpoints[u].state # new
      <4>1. [endpoints[u] EXCEPT !.state = new, !.updated = now] \in Row
        BY <2>1, <3>2, StateAfterType DEF Row, RetentionInv, TypeOK
      <4> QED
        BY <2>1, <3>2, <4>1, RetentionAssumption DEF StateOf, Row
    <3> QED
      BY <3>1, <3>2 DEF StateOf
  <2> QED
    BY <2>2, <2>3, LifecycleStateAt
<1>2. \/ new = "authorized"
      \/ new = "discovered" /\ old \in {"absent", "discovered"} /\ (old = "absent" => u \in Macs)
      \/ new = "rejected" /\ old # "discovered"
  BY DEF StateAfter, StateOf
<1>3. old \in States \cup {"absent"}
  BY DEF RetentionInv, TypeOK, Row, StateOf
<1>4. CASE new = old
  BY <1>1, <1>4 DEF LifecycleState
<1>5. CASE new # old /\ old = "absent"
  <2>1. CASE new = "authorized" \/ new = Lifecycle!FirstRejection(u)
    BY <1>1, <1>5, <2>1
       DEF Lifecycle!Next, Lifecycle!FirstSeen, Lifecycle!Become, LifecycleState
  <2>2. CASE new = "rejected" /\ u \in Macs
    <3>1. endpoints[u] = None
      BY <1>5 DEF StateOf, RetentionInv, TypeOK, Row, States
    <3>2. p # None
      BY <2>2, <3>1 DEF StateAfter, Authenticate
    <3>3. p \in Policies /\ [user |-> u, policy |-> p, date |-> now] \in writing'
      BY <3>2 DEF Authenticate, RetentionInv, TypeOK
    <3> QED
      BY <1>1, <2>2, <3>1, <3>3 DEF RejectedAtFirstSight, Lifecycle!Become, LifecycleState
  <2> QED
    BY <1>2, <1>5, <2>1, <2>2 DEF Lifecycle!FirstRejection
<1>6. CASE new = "authorized" /\ old # "absent"
  BY <1>1, <1>6 DEF Lifecycle!Next, Lifecycle!Accept, Lifecycle!Become, LifecycleState
<1>7. CASE new = "rejected" /\ new # old /\ old # "absent"
  <2>1. old \in {"pending", "authorized"}
    BY <1>2, <1>3, <1>7 DEF States
  <2> QED
    BY <1>1, <1>7, <2>1 DEF Lifecycle!Next, Lifecycle!Reject, Lifecycle!Become, LifecycleState
<1> QED
  BY <1>2, <1>4, <1>5, <1>6, <1>7

\* A call adds or changes an endpoint as pending, or leaves its state.
LEMMA PendingLives ==
  ASSUME RetentionInv, NEW u \in Users,
         PostEndpoint(u) \/ \E state \in States : PutEndpoint(u, state)
  PROVE  [Lifecycle!Next]_LifecycleState
<1>0. endpoints \in [Users -> Row \cup {None}]
  BY DEF RetentionInv, TypeOK
<1>1. CASE PostEndpoint(u)
  <2> DEFINE row == [id |-> NewId, state |-> "pending", updated |-> now]
  <2>1. row # None
    BY NewIdIsNew, RetentionAssumption DEF RetentionInv, TypeOK, States
  <2>2. endpoints'[u] = row /\ \A v \in Users \ {u} : endpoints'[v] = endpoints[v]
    BY <1>0, <1>1 DEF PostEndpoint
  <2>3. StateOf(row) = "pending" /\ u \in Macs
    BY <1>1, <2>1 DEF PostEndpoint, StateOf
  <2>4. LifecycleState' = [LifecycleState EXCEPT ![u] = "pending"]
    BY <2>2, <2>3, LifecycleStateAt
  <2> QED
    BY <2>3, <2>4 DEF Lifecycle!Next, Lifecycle!Await, Lifecycle!Become, LifecycleState
<1>2. ASSUME NEW state \in States, PutEndpoint(u, state)
      PROVE  [Lifecycle!Next]_LifecycleState
  <2> DEFINE row == [endpoints[u] EXCEPT !.state = state, !.updated = now]
  <2>1. row \in Row /\ row.state = state
    BY <1>0, <1>2 DEF PutEndpoint, Row, RetentionInv, TypeOK
  <2>2. endpoints'[u] = row /\ \A v \in Users \ {u} : endpoints'[v] = endpoints[v]
    BY <1>0, <1>2 DEF PutEndpoint, Row
  <2>3. StateOf(row) = state
    BY <2>1, RetentionAssumption DEF StateOf, Row
  <2>4. /\ LifecycleState[u] = StateOf(endpoints[u])
        /\ LifecycleState' = [LifecycleState EXCEPT ![u] = state]
    BY <2>2, <2>3, LifecycleStateAt
  <2>5. state = StateOf(endpoints[u]) \/ (u \in Macs /\ state = "pending")
    BY <1>2 DEF PutEndpoint, StateOf
  <2> QED
    BY <2>4, <2>5 DEF Lifecycle!Next, Lifecycle!Await, Lifecycle!Become, LifecycleState
<1> QED
  BY <1>1, <1>2

\* Deletions, by a call or by a job, whatever has become of the rows since it read their ids.
LEMMA DeletedLives ==
  ASSUME RetentionInv, NEW gone \in SUBSET Users,
         endpoints' = [u \in Users |-> IF u \in gone THEN None ELSE endpoints[u]]
  PROVE  [Lifecycle!Next]_LifecycleState
<1>1. LifecycleState' = [u \in Users |-> IF u \in gone THEN "absent" ELSE LifecycleState[u]]
  BY DEF LifecycleState
<1> QED
  BY <1>1 DEF Lifecycle!Next, Lifecycle!Remove, LifecycleState

\* Authentications, calls and jobs together keep the states to the documented life cycle: what
\* Retention says of an authentication in one step, and AuthEngine statement by statement,
\* promises the same.  The exception is the same too: a policy rejects who has no row yet.
THEOREM ImplementsLifecycle == Spec => FollowsLifecycle
<1>1. Init => Lifecycle!Init
  BY DEF Init, Lifecycle!Init, LifecycleState
<1>2. RetentionInv /\ [Next]_vars => [Lifecycle!Next \/ RejectedAtFirstSight]_LifecycleState
  <2> SUFFICES ASSUME RetentionInv, [Next]_vars
               PROVE  [Lifecycle!Next \/ RejectedAtFirstSight]_LifecycleState
    OBVIOUS
  <2>1. CASE UNCHANGED endpoints
    BY <2>1 DEF LifecycleState
  <2>2. ASSUME NEW u \in Users, NEW verdict \in {"accept", "reject", "no policy"},
               NEW p \in policies \cup {None}, Authenticate(u, verdict, p)
        PROVE  [Lifecycle!Next \/ RejectedAtFirstSight]_LifecycleState
    BY <2>2, AuthenticateLives
  <2>3. ASSUME NEW u \in Users, DeleteEndpoint(u)
        PROVE  [Lifecycle!Next \/ RejectedAtFirstSight]_LifecycleState
    <3>1. endpoints' = [v \in Users |-> IF v \in {u} THEN None ELSE endpoints[v]]
      BY <2>3 DEF DeleteEndpoint, RetentionInv, TypeOK
    <3> QED
      BY <3>1, DeletedLives
  <2>4. ASSUME NEW j \in EndpointJobs, FinishJob(j)
        PROVE  [Lifecycle!Next \/ RejectedAtFirstSight]_LifecycleState
    <3> DEFINE rows == {u \in Users : \E c \in running[j] : /\ c.user = u /\ endpoints[u] # None
                                                            /\ c.id = endpoints[u].id}
    <3>1. endpoints' = [u \in Users |-> IF u \in rows THEN None ELSE endpoints[u]]
      BY <2>4 DEF FinishJob
    <3> QED
      BY <3>1, DeletedLives
  <2>5. ASSUME Tick \/ (\E r \in writing : WriteRecord(r) \/ LoseRecord(r))
                 \/ (\E p \in policies : DeletePolicy(p))
                 \/ (\E u \in Users, p \in policies \cup {None} : DeleteAuthentication(u, p))
                 \/ (\E j \in due : Miss(j)) \/ (\E j \in EndpointJobs : StartJob(j))
                 \/ PrunePostauth \/ UNCHANGED vars
        PROVE  UNCHANGED endpoints
    BY <2>5
       DEF Tick, Miss, WriteRecord, LoseRecord, DeletePolicy, DeleteAuthentication, StartJob,
           PrunePostauth, vars, tableVars
  <2> QED
    BY <2>1, <2>2, <2>3, <2>4, <2>5, PendingLives DEF Next, JobNext
<1> QED
  BY <1>1, <1>2, RetentionInvariance, PTL DEF Spec, FollowsLifecycle

-----------------------------------------------------------------------------
(* What is no longer seen is deleted *)

LEMMA LastJobBounds ==
  ASSUME NEW t \in Nat
  PROVE  LastJob(t) \in Int /\ LastJob(t) <= t
BY DEF LastJob, Day

LEMMA LastDoneBounds ==
  ASSUME RetentionInv, NEW u \in Users
  PROVE  /\ now \in Nat /\ LastDone(u) \in Int /\ LastJob(now) \in Int
         /\ now - Day <= LastDone(u) /\ LastDone(u) <= LastJob(now) /\ LastJob(now) <= now
         /\ now <= LastDone(u) + Day
         /\ now % Day = 1 => LastJob(now) = now
BY DEF RetentionInv, TypeOK, LastDone, LastJob, Day

\* An endpoint that is seen is not overdue.
LEMMA SeenInTime ==
  ASSUME RetentionInv, NEW u \in Users, endpoints[u] # None => seen[u] \in {None, now}
  PROVE  InTime(u)
<1> SUFFICES ASSUME Unchanged(u)
             PROVE  LastDone(u) <= seen[u] + (JobDays[JobOf(u)] + misses) * Day
  BY DEF InTime
<1>1. JobDays[JobOf(u)] \in Nat /\ misses \in Nat /\ seen[u] = now
  BY HasJob DEF RetentionInv, TypeOK, Unchanged
<1> QED
  BY <1>1, LastDoneBounds DEF Day

LEMMA SeenInTimeNext ==
  ASSUME NEW u \in Users
  PROVE  (RetentionInv /\ (endpoints[u] # None => seen[u] \in {None, now}) => InTime(u))'
<1>1. RetentionInv /\ (endpoints[u] # None => seen[u] \in {None, now}) => InTime(u)
  BY SeenInTime
<1> QED
  BY <1>1, PTL

\* Nor is one that was not when its job had not done more.
LEMMA StaysInTime ==
  ASSUME RetentionInv, RetentionInv', NEW u \in Users, InTime(u),
         endpoints'[u] = endpoints[u], seen'[u] = seen[u], now' = now, misses <= misses',
         u \notin unrecorded' => u \notin unrecorded,
         \/ Pending(u) => Pending(u)'
         \/ misses' = misses + 1
  PROVE  InTime(u)'
<1> SUFFICES ASSUME Unchanged(u)'
             PROVE  (LastDone(u) <= seen[u] + (JobDays[JobOf(u)] + misses) * Day)'
  BY DEF InTime
<1> DEFINE days == JobDays[JobOf(u)]
<1>1. Unchanged(u) /\ LastDone(u) <= seen[u] + (days + misses) * Day
  BY DEF Unchanged, InTime
<1>2. /\ days \in Nat /\ misses \in Nat /\ misses' \in Nat /\ seen[u] \in Nat
      /\ days' = days
  BY <1>1, HasJob DEF RetentionInv, TypeOK, Unchanged, JobOf
<1> HIDE DEF days
<1>3. /\ LastDone(u) \in Int /\ now \in Nat /\ LastJob(now) \in Int
      /\ now - Day <= LastDone(u) /\ LastJob(now) <= now
      /\ LastDone(u) = IF Pending(u) THEN now - Day ELSE LastJob(now)
  BY LastDoneBounds DEF LastDone
<1>4. LastDone(u)' = IF Pending(u)' THEN now - Day ELSE LastJob(now)
  BY DEF LastDone
<1>5. CASE Pending(u) => Pending(u)'
  <2>1. LastDone(u)' <= LastDone(u)
    BY <1>3, <1>4, <1>5
  <2>2. LastDone(u)' <= seen[u] + (days + misses') * Day
    BY <1>1, <1>2, <1>3, <1>4, <2>1 DEF Day
  <2> QED
    BY <1>2, <2>2 DEF days
<1>6. CASE misses' = misses + 1
  <2>1. LastDone(u)' <= LastDone(u) + Day
    BY <1>3, <1>4 DEF Day
  <2>2. LastDone(u)' <= seen[u] + (days + misses') * Day
    BY <1>1, <1>2, <1>3, <1>4, <1>6, <2>1 DEF Day
  <2> QED
    BY <1>2, <2>2 DEF days
<1> QED
  BY <1>5, <1>6

LEMMA TickInTime ==
  ASSUME RetentionInv, RetentionInv', NEW u \in Users, InTime(u), Tick
  PROVE  InTime(u)'
<1> SUFFICES ASSUME Unchanged(u)'
             PROVE  (LastDone(u) <= seen[u] + (JobDays[JobOf(u)] + misses) * Day)'
  BY DEF InTime
<1>1. /\ UNCHANGED <<endpoints, seen, unrecorded, misses>> /\ now' = now + 1 /\ now \in Nat
      /\ due' = StartsAt(now')
  BY DEF Tick, tableVars, historyVars, RetentionInv, TypeOK
<1>2. Unchanged(u) /\ endpoints[u] # None
  BY <1>1 DEF Unchanged
<1>3. ~ Pending(u) /\ JobOf(u) \in EndpointJobs
  BY <1>2, HasJob DEF Tick, Pending, NoRun, RetentionInv
<1>4. (now + 1) % Day = 1 => Pending(u)'
  BY <1>1, <1>3 DEF Pending, StartsAt, JobOf
<1>5. /\ Pending(u)' => LastDone(u)' = now + 1 - Day
      /\ ~ Pending(u)' => LastDone(u)' = LastJob(now + 1)
  <2>1. CASE Pending(u)'
    BY <1>1, <2>1 DEF LastDone, Day
  <2>2. CASE ~ Pending(u)'
    BY <1>1, <2>2 DEF LastDone, LastJob
  <2> QED
    BY <2>1, <2>2
<1>6. LastDone(u) = LastJob(now)
  BY <1>3 DEF LastDone
<1>7. /\ (now + 1) % Day # 1 => LastJob(now + 1) = LastJob(now)
      /\ now + 1 - Day <= LastJob(now)
      /\ LastJob(now) \in Int /\ LastJob(now + 1) \in Int
  BY <1>1 DEF LastJob, Day
<1>8. LastDone(u)' <= LastDone(u)
  BY <1>1, <1>4, <1>5, <1>6, <1>7 DEF Day
<1>9. LastDone(u) <= seen[u] + (JobDays[JobOf(u)] + misses) * Day
  BY <1>2 DEF InTime
<1>10. /\ seen[u] \in Nat /\ misses \in Nat /\ JobDays[JobOf(u)] \in Nat
  BY <1>2, HasJob DEF RetentionInv, TypeOK, Unchanged
<1>11. JobDays[JobOf(u)]' = JobDays[JobOf(u)]
  BY <1>1 DEF JobOf
<1>12. LastDone(u)' \in Int
  BY <1>1, <1>5, <1>7 DEF Day
<1> QED
  BY <1>1, <1>6, <1>7, <1>8, <1>9, <1>10, <1>11, <1>12 DEF Day

\* A job that does not select an endpoint it is for has seen it, or a change, within its days.
LEMMA StartInTime ==
  ASSUME RetentionInv, RetentionInv', NEW u \in Users, InTime(u), RecordsOutlive,
         NEW j \in EndpointJobs, StartJob(j)
  PROVE  InTime(u)'
<1>1. /\ j \in due /\ due' = due \ {j}
      /\ running' = [running EXCEPT ![j] =
           {[user |-> v, id |-> endpoints[v].id, records |-> records[v]] : v \in SelectEndpoints(j)}]
      /\ UNCHANGED <<now, endpoints, seen, unrecorded, misses>>
  BY DEF StartJob, tableVars, historyVars
<1>2. /\ \A k \in EndpointJobs \ {j} : running'[k] = running[k]
      /\ running'[j] = {[user |-> v, id |-> endpoints[v].id, records |-> records[v]] :
                           v \in SelectEndpoints(j)}
  BY <1>1 DEF RetentionInv, TypeOK
<1>3. SUFFICES ASSUME Unchanged(u)
               PROVE  InTime(u)'
  BY <1>1 DEF InTime, Unchanged
<1>4. /\ endpoints[u] # None /\ seen[u] \in Nat /\ misses \in Nat /\ now \in Nat
      /\ JobOf(u) \in EndpointJobs /\ endpoints[u].updated \in Nat
      /\ endpoints[u].updated <= seen[u]
  BY <1>3, HasJob DEF RetentionInv, TypeOK, Unchanged, Row
<1>5. CASE JobOf(u) # j
  <2>1. Pending(u) => Pending(u)'
    BY <1>1, <1>2, <1>4, <1>5 DEF Pending, JobOf
  <2> QED
    BY <1>1, <1>4, <2>1, StaysInTime
<1>6. CASE JobOf(u) = j /\ u \in SelectEndpoints(j)
  <2>1. [user |-> u, id |-> endpoints[u].id, records |-> records[u]] \in running'[j]
    BY <1>2, <1>6
  <2>2. \E c \in running'[j] : c.user = u
    BY <2>1
  <2>3. JobOf(u)' = j
    BY <1>1, <1>6 DEF JobOf
  <2>4. Pending(u)'
    BY <2>2, <2>3 DEF Pending
  <2> QED
    BY <1>1, <1>4, <2>4, StaysInTime
<1>7. CASE JobOf(u) = j /\ u \notin SelectEndpoints(j)
  <2> DEFINE days == JobDays[j]
  <2>1. days \in Nat /\ PostauthDays \in Nat
    BY RetentionAssumption
  <2>2. now % Day = 1
    BY <1>1, PostauthIsApart DEF RetentionInv, JobsInv, StartsAt
  <2>3. now - Day <= seen[u] + (days + misses) * Day
    <3>1. Pending(u)
      BY <1>1, <1>7 DEF Pending
    <3> QED
      BY <1>3, <1>7, <3>1 DEF InTime, LastDone
  <2>4. \/ ~ LastSeenBefore(records[u], Cutoff(days))
        \/ ~ endpoints[u].updated < Cutoff(days)
    BY <1>4, <1>7 DEF SelectEndpoints
  <2>5. ~ endpoints[u].updated < Cutoff(days) => now <= seen[u] + days * Day
    BY <1>4, <2>1 DEF Cutoff, Day
  <2>6. ASSUME NEW p \in Matched, records[u][p] # None, ~ records[u][p] < Cutoff(days)
        PROVE  now <= seen[u] + days * Day
    <3>1. records[u][p] \in Nat /\ records[u][p] <= seen[u]
      BY <1>4, <2>6, RetentionAssumption DEF RetentionInv, TypeOK, Records, RecordsInv
    <3> QED
      BY <1>4, <2>1, <2>6, <3>1 DEF Cutoff, Day
  <2>7. ASSUME records[u] = NoRecord
        PROVE  now <= seen[u] + days * Day
    <3>1. \A p \in Matched : records[u][p] # seen[u]
      BY <1>4, <2>7, RetentionAssumption DEF NoRecord
    <3>2. (\E r \in writing : r.user = u) \/ seen[u] < Cutoff(PostauthDays)
      BY <1>3, <3>1 DEF Unchanged, RetentionInv, RecordsInv, IsRecorded
    <3>3. CASE \E r \in writing : r.user = u
      <4>1. seen[u] = now
        BY <1>3, <3>3 DEF Unchanged, RetentionInv, WritingInv
      <4> QED
        BY <1>4, <2>1, <4>1 DEF Day
    <3>4. CASE seen[u] < Cutoff(PostauthDays)
      <4>1. days + 1 + misses <= PostauthDays
        BY <1>4, <2>1, RetentionAssumption DEF RecordsOutlive, RetentionInv, JobsInv
      <4>2. seen[u] + PostauthDays * 3 < now
        BY <1>4, <2>1, <3>4 DEF Cutoff, Day
      <4> QED
        BY <1>4, <2>1, <2>3, <4>1, <4>2 DEF Day
    <3> QED
      BY <3>2, <3>3, <3>4
  <2>8. now <= seen[u] + days * Day
    BY <2>4, <2>5, <2>6, <2>7 DEF LastSeenBefore
  <2>9. LastDone(u)' \in Int /\ LastDone(u)' <= now
    BY <1>1, <1>4, LastJobBounds DEF LastDone, Day
  <2>10. JobDays[JobOf(u)]' = days
    BY <1>1, <1>7 DEF JobOf
  <2>11. LastDone(u)' <= seen[u] + (days + misses) * Day
    BY <1>4, <2>1, <2>8, <2>9 DEF Day
  <2> QED
    BY <1>1, <2>10, <2>11 DEF InTime
<1> QED
  BY <1>5, <1>6, <1>7

LEMMA FinishInTime ==
  ASSUME RetentionInv, RetentionInv', NEW u \in Users, InTime(u),
         NEW j \in EndpointJobs, FinishJob(j)
  PROVE  InTime(u)'
<1>1. /\ running'[j] = {} /\ \A k \in EndpointJobs \ {j} : running'[k] = running[k]
      /\ endpoints'[u] = IF u \in Doomed(j) THEN None ELSE endpoints[u]
      /\ seen'[u] = IF u \in Doomed(j) THEN None ELSE seen[u]
      /\ UNCHANGED <<now, due, misses, unrecorded>>
  BY DEF FinishJob, Doomed, RetentionInv, TypeOK
<1>2. CASE u \in Doomed(j) \/ endpoints[u] = None
  BY <1>1, <1>2 DEF InTime, Unchanged
<1>3. CASE /\ u \notin Doomed(j) /\ endpoints[u] # None
           /\ \E c \in running[j] : c.user = u
  <2>1. seen[u] \in {None, now}
    BY <1>3 DEF RetentionInv, RunningInv, WellChosen, Doomed
  <2>2. (endpoints[u] # None => seen[u] \in {None, now})'
    BY <1>1, <1>3, <2>1
  <2> QED
    BY <2>2, SeenInTimeNext
<1>4. CASE /\ u \notin Doomed(j) /\ endpoints[u] # None
           /\ ~ \E c \in running[j] : c.user = u
  <2>1. JobOf(u) \in EndpointJobs /\ misses \in Nat
    BY <1>4, HasJob DEF RetentionInv, TypeOK
  <2>2. Pending(u) => Pending(u)'
    BY <1>1, <1>4, <2>1 DEF Pending, JobOf
  <2> QED
    BY <1>1, <1>4, <2>1, <2>2, StaysInTime
<1> QED
  BY <1>2, <1>3, <1>4

\* A step that no job makes.
LEMMA NoJobInTime ==
  ASSUME RetentionInv, RetentionInv', NEW u \in Users, InTime(u),
         endpoints'[u] = endpoints[u], seen'[u] = seen[u],
         UNCHANGED <<now, misses, running>>,
         u \notin unrecorded' => u \notin unrecorded,
         JobOf(u) \in due => JobOf(u) \in due'
  PROVE  InTime(u)'
<1>1. Pending(u) => Pending(u)'
  BY DEF Pending, JobOf
<1>2. misses <= misses'
  BY DEF RetentionInv, TypeOK
<1> QED
  BY <1>1, <1>2, StaysInTime

LEMMA InTimeStep ==
  ASSUME RetentionInv, RetentionInv', [Next]_vars, RecordsOutlive, NEW u \in Users, InTime(u)
  PROVE  InTime(u)'
<1>1. CASE Tick
  BY <1>1, TickInTime
<1>2. ASSUME NEW j \in due, Miss(j)
      PROVE  InTime(u)'
  BY <1>2, StaysInTime DEF Miss, tableVars, historyVars, RetentionInv, TypeOK
<1>3. ASSUME NEW v \in Users, NEW verdict, NEW p \in policies \cup {None}, Authenticate(v, verdict, p)
      PROVE  InTime(u)'
  <2>1. CASE v = u
    <3>1. seen'[u] = now'
      BY <1>3, <2>1 DEF Authenticate, RetentionInv, TypeOK
    <3> QED
      BY <3>1, SeenInTimeNext
  <2>2. CASE v # u
    <3>1. endpoints'[u] = endpoints[u] /\ seen'[u] = seen[u]
      BY <1>3, <2>2 DEF Authenticate, RetentionInv, TypeOK
    <3>2. UNCHANGED <<now, misses, unrecorded, due, running>> /\ misses \in Nat
      BY <1>3 DEF Authenticate, jobVars, RetentionInv, TypeOK
    <3> QED
      BY <3>1, <3>2, NoJobInTime
  <2> QED
    BY <2>1, <2>2
<1>4. ASSUME NEW v \in Users, PostEndpoint(v)
      PROVE  InTime(u)'
  <2>1. /\ UNCHANGED <<now, misses, unrecorded, due, running, seen>> /\ misses \in Nat
        /\ endpoints[v] = None
        /\ v # u => endpoints'[u] = endpoints[u]
    BY <1>4 DEF PostEndpoint, Change, jobVars, historyVars, RetentionInv, TypeOK
  <2>2. CASE v = u
    <3>1. seen'[u] = None
      BY <2>1, <2>2 DEF RetentionInv, RowsInv
    <3> QED
      BY <3>1 DEF InTime, Unchanged
  <2>3. CASE v # u
    BY <2>1, <2>3, NoJobInTime
  <2> QED
    BY <2>2, <2>3
<1>5. ASSUME NEW v \in Users, NEW state \in States, PutEndpoint(v, state)
      PROVE  InTime(u)'
  <2>1. /\ UNCHANGED <<now, misses, unrecorded, due, running, seen>> /\ misses \in Nat
        /\ v # u => endpoints'[u] = endpoints[u]
    BY <1>5 DEF PutEndpoint, Change, jobVars, historyVars, RetentionInv, TypeOK
  <2>2. CASE v = u
    <3>1. endpoints'[u].updated = now
      BY <1>5, <2>2 DEF PutEndpoint, RetentionInv, TypeOK, Row
    <3>2. ASSUME Unchanged(u)'
          PROVE  seen'[u] = now'
      <4>1. now <= seen[u] /\ seen[u] # None
        BY <2>1, <3>1, <3>2 DEF Unchanged
      <4>2. seen[u] <= now /\ seen[u] \in Nat /\ now \in Nat
        BY <4>1 DEF RetentionInv, RecordsInv, TypeOK
      <4> QED
        BY <2>1, <4>1, <4>2
    <3>3. CASE Unchanged(u)'
      BY <3>2, <3>3, SeenInTimeNext
    <3>4. CASE ~ Unchanged(u)'
      BY <3>4 DEF InTime
    <3> QED
      BY <3>3, <3>4
  <2>3. CASE v # u
    BY <2>1, <2>3, NoJobInTime
  <2> QED
    BY <2>2, <2>3
<1>6. ASSUME NEW v \in Users, DeleteEndpoint(v)
      PROVE  InTime(u)'
  <2>1. /\ UNCHANGED <<now, misses, unrecorded, due, running>> /\ misses \in Nat
        /\ IF v = u THEN endpoints'[u] = None
           ELSE endpoints'[u] = endpoints[u] /\ seen'[u] = seen[u]
    BY <1>6 DEF DeleteEndpoint, Change, jobVars, historyVars, RetentionInv, TypeOK
  <2>2. CASE v = u
    BY <2>1, <2>2 DEF InTime, Unchanged
  <2>3. CASE v # u
    BY <2>1, <2>3, NoJobInTime
  <2> QED
    BY <2>2, <2>3
<1>7. ASSUME \/ \E v \in Users, p \in policies \cup {None} : DeleteAuthentication(v, p)
             \/ \E p \in policies : DeletePolicy(p)
             \/ \E r \in writing : LoseRecord(r)
             \/ UNCHANGED vars
      PROVE  InTime(u)'
  <2>1. /\ UNCHANGED <<now, misses, due, running, endpoints, seen>> /\ misses \in Nat
        /\ unrecorded \subseteq unrecorded'
    BY <1>7 DEF DeleteAuthentication, DeletePolicy, LoseRecord, Change, vars, tableVars, jobVars,
                historyVars, RetentionInv, TypeOK
  <2> QED
    BY <2>1, NoJobInTime
<1>8. ASSUME NEW r \in writing, WriteRecord(r)
      PROVE  InTime(u)'
  <2>1. /\ UNCHANGED <<now, misses, due, running, endpoints, seen>> /\ misses \in Nat
        /\ unrecorded' = unrecorded \ {r.user}
    BY <1>8 DEF WriteRecord, jobVars, RetentionInv, TypeOK
  <2>2. CASE r.user = u
    <3>1. seen'[u] \in {None, now'}
      BY <2>1, <2>2 DEF RetentionInv, WritingInv
    <3> QED
      BY <3>1, SeenInTimeNext
  <2>3. CASE r.user # u
    BY <2>1, <2>3, NoJobInTime
  <2> QED
    BY <2>2, <2>3
<1>9. ASSUME NEW j \in EndpointJobs, StartJob(j) \/ FinishJob(j)
      PROVE  InTime(u)'
  BY <1>9, StartInTime, FinishInTime
<1>10. CASE PrunePostauth
  <2>1. /\ UNCHANGED <<now, misses, unrecorded, running, endpoints, seen>> /\ misses \in Nat
        /\ due' = due \ {PostauthJob}
    BY <1>10 DEF PrunePostauth, historyVars, RetentionInv, TypeOK
  <2>2. CASE endpoints[u] = None
    BY <2>1, <2>2 DEF InTime, Unchanged
  <2>3. CASE endpoints[u] # None
    <3>1. JobOf(u) # PostauthJob
      BY <2>3, HasJob DEF RetentionInv
    <3> QED
      BY <2>1, <3>1, NoJobInTime
  <2> QED
    BY <2>2, <2>3
<1> QED
  BY <1>1, <1>2, <1>3, <1>4, <1>5, <1>6, <1>7, <1>8, <1>9, <1>10 DEF Next, JobNext

\* Where records are kept longer than endpoints, an endpoint that is no longer seen or changed
\* is deleted when its days are over, a day later for each job that was missed: the record
\* that condemns it is still there, and a job that does not select it proves it was seen.
THEOREM UnseenPruned == Spec => []UnseenIsPruned
<1>1. Init => OverdueInv
  BY DEF Init, OverdueInv, InTime, Unchanged
<1>2. RetentionInv /\ RetentionInv' /\ (RecordsOutlive => OverdueInv) /\ [Next]_vars
        => (RecordsOutlive => OverdueInv)'
  <2> SUFFICES ASSUME RetentionInv, RetentionInv', RecordsOutlive, OverdueInv, [Next]_vars
               PROVE  OverdueInv'
    BY DEF RecordsOutlive
  <2> QED
    BY InTimeStep DEF OverdueInv
<1>3. RetentionInv /\ (RecordsOutlive => OverdueInv) => UnseenIsPruned
  <2> SUFFICES ASSUME RetentionInv, OverdueInv, NEW u \in Users, Unchanged(u)
               PROVE  now <= Deadline(u, seen[u])
    BY DEF UnseenIsPruned, GoneInTime, Unchanged
  <2>1. LastDone(u) <= seen[u] + (JobDays[JobOf(u)] + misses) * Day
    BY DEF OverdueInv, InTime
  <2>2. seen[u] \in Nat /\ misses \in Nat /\ JobDays[JobOf(u)] \in Nat
    BY HasJob DEF RetentionInv, TypeOK, Unchanged
  <2> QED
    BY <2>1, <2>2, LastDoneBounds DEF Deadline, Day
<1> QED
  BY RetentionInvariance, <1>1, <1>2, <1>3, PTL DEF Spec
=============================================================================
