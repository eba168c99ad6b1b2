# CNaaS-NAC in TLA+

CNaaS-NAC decides which devices get onto a network. FreeRADIUS asks its internal API about every
device a switch reports; the answer depends on policies an administrator writes through the
external API, on the endpoint's group and state in PostgreSQL, and on the port the device was last
seen at. Around that decision the system counts sessions, tells switches to let a device
authenticate again, tells FreeRADIUS what to forget and what to log, and deletes what is old. This
directory models these parts, and what happens when many of them work on the same rows at the same
time, fail, and start again.

Paths are relative to `src/cnaas_nac/` of the repository; `raddb/` is its `docker/radius/raddb/`,
and `docs/` its top-level directory.

## The system

| Component | State | Operations | What makes it correct |
|---|---|---|---|
| Policy engine: `core/rule_engine.py`, `models/policy.py`, the query in `api_internal/auth.py` | policies with conditions and replies | evaluate a condition, a policy; choose the policy of a request | the policy chosen matches and is the first by priority; the SQL filter on group conditions hides nothing |
| Authentication: `api_internal/auth.py`, `utils.py` | endpoints (state, group), ports | `post_auth`: read the endpoint, choose the policy, record the port, check the port lock, accept or reject | endpoint states follow their life cycle; the state is the verdict; port locks hold; every request is answered |
| External API: `api_external/routes_v2` | endpoints, groups, policies, ports, clients, events | POST, PUT, DELETE | a change of group asks for a new authentication; EAP users have no group |
| Change of authorization: `core/coa.py` | none of its own; a packet in flight | find the port and the switch of an endpoint, bounce it | a device that stays authenticates again; the port of another one is not bounced |
| Retention: `core/scheduled_tasks` | endpoints, radpostauth, radacct, radius_admin_event | six jobs at 01:00, two at 02:00, one at 02:30 | what is deleted has not been seen, and what is no longer seen is deleted |
| radmin sidecar: `tools/radmin.py` | `last_checked`, FreeRADIUS's debug state and client cache | poll the event table, execute, reconcile the debug state | every event is executed, in order; the debug state is the last one asked for |
| Debug log: `tools/radmin.py`, `routes_v2/debug.py` | radius_debug_log; what a reader has seen | write a line, prune; poll | a reader gets every line; the table stays small |
| RADIUS clients: `routes_v2/radius_client.py`, `raddb/sites-available/dynamic-clients` | networks with secrets; clients cached by FreeRADIUS | POST, PUT, DELETE, look up by address | a changed client leaves the cache |
| Accounting: `raddb/mods-config/sql/main/postgresql/queries.conf` | radacct rows | Start, Interim-Update, Stop, Accounting-On | one row per session, closed once, whatever the order of the packets |
| Authentication log: the same file, `post-auth` | radpostauth rows | one row per answer | it is what retention looks at |
| Access control: `core/security.py`, `core/rbac_filter.py` | roles | who may call what, and see which rows | - |

How they interact. FreeRADIUS calls `post_auth` once per authentication: for a MAC address (MAB)
from `authorize`, for EAP-TLS from `post-auth`; it writes radpostauth and radacct itself. The
external API changes the same tables and, for an endpoint whose group changed or that was deleted,
sends the switch a packet that makes the device authenticate again. What concerns FreeRADIUS's own
state (debugging, cached clients) goes through the table radius_admin_event, which the sidecar
polls. The retention jobs delete by date.

What is hard. Nothing takes a lock: every request and every API call is an asynchronous session
(`core/db.py`, `expire_on_commit=False`) of several statements and commits under READ COMMITTED,
so a session decides on rows it loaded some statements ago. A request commits its port before it
judges the port lock, and the endpoint last. Times come from two clocks (when a transaction began,
and the time of day), and rows become visible in the order in which transactions end. Packets are
lost, repeated and late; the sidecar and FreeRADIUS stop and start again. Any exception that is not
foreseen ends a request in a 500 after an earlier commit. The list `hazards` in `PROJECT.json`
names the lines.

## The modules

| Module | Models | State and steps |
|---|---|---|
| `PolicyRules` | `evaluate_condition`, `evaluate_policy`, the two WHERE clauses, the ORDER BY | pure operators. A string is an opaque member of `Texts`; the relation `TextMatch` says which pairs each text operator holds of; an attribute is its `str()` and, for `ldap_groups`, its members |
| `PolicySelection` | the streaming loop of `post_auth` | `Query`, `ReadRow`, `NoMoreRows` over `policies`, `rows` (not read yet), `matched` |
| `EndpointLifecycle` | what the documents say of endpoint states (`EndpointState`, `docs/user_manual/endpoints.md`) | abstract: `FirstSeen`, `Await`, `Accept`, `Reject`, `Remove` |
| `AuthEngine` | `post_auth` with `utils.py`, and the external API on endpoints, groups, policies, ports | below |
| `AdminEvents` | the table radius_admin_event and `run_worker` of the sidecar, FreeRADIUS's debug condition and dynamic clients, `prune_radius_admin_events` | below |
| `RadiusClients` | the routes on clients and on debugging, composed with `AdminEvents` | below |
| `ChangeOfAuth` | `CoA.create` and its packet, as PUT and DELETE of an endpoint use it | below |
| `Accounting` | the sections start, interim-update, stop and accounting-on of `queries.conf`, `prune_radacct`, deletion by API and cascade | below |
| `Retention` | `prune_endpoints` (six jobs) and `prune_postauth` against authentications, the record of `post-auth`, and API calls | below |
| `DebugLogs` | `continuous_log_streamer` of several nodes, `get_debug_logs`, DELETE of the logs | below |
| `PolicySelectionProofs`, `AuthEngineProofs`, `AuthPortProofs` (ports), `RadiusClientsProofs` (with `AdminEvents`), `ChangeOfAuthProofs`, `AccountingProofs`, `RetentionProofs`, `DebugLogsProofs` | theorems | |
| `MCPolicySelection`, `MCAuthEngine`, `MCRadiusClients`, `MCChangeOfAuth`, `MCAccounting`, `MCRetention`, `MCDebugLogs` | small instances | |

`RadiusClients` EXTENDS `AdminEvents`: its sessions are two steps, SELECT and commit, and take the
steps `Begin`, `Commit` and `Rollback` of the events they write. `AuthEngine` uses `Selectable`,
which is what `PolicySelection` ends in. `ChangeOfAuth`, `Accounting` and `Retention` have of
authentications only what they need: the commit of a port (`TouchPort`, `InsertPort` of
`AuthEngine`), that an endpoint exists, its new state (`StateAfter`).

Definitions whose comment begins with "Fault:" are not part of the model: each is a changed copy of
the definition after it, with which a property is shown to fail.

### AuthEngine

It holds the tables (`endpoints`, `groups`, `nasports`, `policies`), one session per request
(`requests`), the sessions of a PUT (`put`) and of deletions (`removals` of endpoints, `disbandings`
of groups), `clock` (time, and the source of primary keys) and `judged`, a history variable that no
guard reads. A session's `pc` names its next statement:

```
new -ReadEndpoint-> select -SelectPolicy-> create -CreateNewEndpoint-> reject
                                        -> reject                          (no policy)
                                        -> lookup -LookupPort-> touch -TouchPort-> lock | replies
                                                             -> insert -InsertPort-> replies
                                                             -> lock
lock -ReadExpectedPort-> expect -InsertExpectedPort-> replies | reject
                      -> replies | reject
replies -ReadReplies-> accept -Accept-> done,  reject -Reject-> done
```

A step is one statement, or one commit together with the flush before it. What a session loaded
stays as it was loaded (`loaded`, `port`); its flush writes only columns that differ from that,
fails (`"stale"`) when the row it loaded is gone, and fails (`"integrity"`) on a unique
constraint. `AddPort` is a flush that adds the row of `PortOf`. `TouchPort` and `ReadExpectedPort`
follow the two clocks: a port that did not change gets the time of day, one that did the time its
transaction began. `Crash` stops a session anywhere; what it committed remains.

PUT and DELETE of an endpoint and DELETE of a group decide on rows they have loaded, and are two
steps each. A PUT compares with the row it loaded (`BeginPut`, `CommitPut`; one at a time). A deletion
removes the endpoint and the ports it loaded by their keys, so a port that is inserted in between
survives (`BeginDeleteEndpoint`, `CommitDeleteEndpoint`). The deletion of a group takes the group from
the endpoints it loaded, also from one that is in another group by then, and fails on a foreign key
when a new member or a policy names the group (`BeginDeleteGroup`, `CommitDeleteGroup`). The other
calls write or delete one row, and are one step.

`FollowsLifecycle` is `EndpointLifecycle` with one named exception, `RejectedAtFirstSight`: a MAC
address without a row that a policy matches, and that its replies or port lock reject, gets its row
from `update_endpoint_state` and is `rejected` (`api_internal/utils.py:88`), where
`docs/user_manual/endpoints.md:11` says "A rejected MAB endpoint that is first seen" is discovered.
The life cycle is the documented one; the step is where the code departs from it.

`Isolated` is not something the code ensures: it says what the same code guarantees when no two
sessions overlap on a user. What then fails under overlap is in the run `lost_rejection`.

### AdminEvents and RadiusClients

`clock` counts the transactions that write events; an event has the time at which its transaction
began (`Begin`), is visible from `Commit` on, and a transaction may end in `Rollback`. `worker` is
the state of `run_worker`; its `pc` names what comes next:

```
down -WorkerStarts-> setup -RadminSetup-> poll -Poll-> execute
execute -TakeEvent-> terminate | clear | reset | stop | truncate   -> execute   (an event)
execute -ReadLatest-> poll | show -Show-> poll | reset | stop      -> poll      (reconciliation)
reset -SetDebug-> set,   poll -Reconnect-> setup   (radmin has exited)
```

(`reset` is left by `ResetDebug`, `set` by `SetDebug`, `clear` by one `ClearHost` per address and
`ClearedHosts`.) `radius` is FreeRADIUS: up or not, its debug condition, the clients it has cached,
and those it has read from the table and is about to cache. `radmin` follows its socket: attached,
lost when FreeRADIUS stops, exited once the process has noticed. A command sent to a radmin that
has lost its socket does nothing, or raises (`CommandRaises`): for an event this is logged and the
next event follows, in the reconciliation it leads back to `radmin_setup`. FreeRADIUS and the
sidecar crash between any two steps. The histories `executed`, `overlapped`, `since` and `due`
(addresses a committed event asks to clear) are read by no guard.

`RadiusClients` adds the table `nas`, API sessions (`saving`) and `used` ids. A PUT keeps the row it
loaded and writes the columns that differ; its event, made only when the secret changed, names the
network the row then has. A network is the set of its addresses (`AddressesOf`), and what
`network.hosts()` makes of it (`HostsOf`, without the first and the last; `tools/radmin.py:199`).

### ChangeOfAuth

Devices connect to ports (`on`) and begin authentications (`auths`) that commit their rows of
`nasports` later. A call of PUT or DELETE goes `latest -> other -> nas` through the three queries
of `CoA.create`, a DELETE then commits (`delete`), and what remains sends its packet (`send`) after
the response; every step may be the last one (`Lose`). A port is a physical one; its switch may
give different names, or none, with different requests (`NamesOf`). `waiting`, `committed` and
`asked` are histories.

### Accounting

The switch begins, reports and ends sessions and restarts (`begun`, `ended`, `boots`), and each of
these sends a packet into `sent`. FreeRADIUS receives any packet that was sent, at any time and
any number of times, so loss, delay, repetition and reordering need no actions of their own, and
works on several at once (`serving`). A packet being served names the statement that comes next
(`query`): `StartInsert`, `StartUpdate`, `InterimUpdate`, `InterimInsert`, `StopUpdate`,
`StopInsert`, `StopUpdateAny`, `AccountingOn`, in the order of `queries.conf`; a statement that
changed no row leads to the next one. `prune_radacct` is its two DELETEs, `PruneOld` and
`PruneOrphans`. Octets and session time are one number, `length`.

### Retention

Time is a part of the day: midnight to 01:00, to 02:00, to midnight. A job starts with its part, so
"earlier than now - days" is "in an earlier part"; what a job, a call or a request begins it ends
in the same part (assumed). `StartJob` is `prune_endpoints` up to its commit, `FinishJob` its
commit: the rows are deleted by the ids and records that were loaded. `Authenticate` writes the
endpoint, `WriteRecord` later radpostauth, or `LoseRecord` when the policy was deleted meanwhile and
the foreign key fails. `records` has the latest record of a user and a policy, since the jobs see
only the latest and rows go by age, with their policy or with their endpoint. Deleting that one by
hand uncovers an earlier one, of which only one date, a day before, is tried. `Miss` is a job that
fails or is not run: APScheduler runs it again the next day.

### DebugLogs

A streamer is at `tail`, `commit`, `prune` or `delete`. The SELECT of a pruning begins a
transaction; when it returns nothing, no commit ends it, and the next line is stamped with its time
(`began`). The reader's SELECT returns what is at most `Window` seconds old, the oldest `Limit`
rows first, and keeps what it has sent. Time is in seconds and waits for what is assumed fast: a
commit (`CommitTime`) and the next look of a reader after its sleep of a second (`PollTime`).
`seen_ids`, which forgets after 25 000 lines, is kept whole.

## What the runs check

`tlc -config X.cfg MCModule`; the times are those of two workers.

| Run (cfg) | Instance | Shows |
|---|---|---|
| `policy_selection` (`PolicySelection.cfg`) | 2 policies of any rows: one or two conditions on two groups, a port, a list, the port as an integer (misread by the filter), the port as an empty text (raises); both logics; two priorities; 4 requests; any group or none. 190 000 states, seconds | `MatchedIsFirst`, `NoMatchOnlyIfNone`, `FailureIsFirst` |
| `auth_overlap` (`AuthOverlap.cfg`) | 2 requests, a MAB endpoint and an EAP user, a policy on the group, on the MAC with a port lock and a condition without a value, on the MAC with a reject; 2 API changes, deletions included. 476 000 states, two minutes | `TypeOK`, `OnlyMacEndpointsAreManaged`, `FollowsLifecycle` (refinement), `EveryRequestAnswered` (liveness) |
| `auth_isolated` (`AuthIsolated.cfg`) | 3 requests of one MAB endpoint, 2 switch names, 2 switch addresses (renamed and replaced switches), 2 API changes, nothing overlapping on one user, deletions included. 1.3 million states, a minute | `StateIsLastVerdict`, `AuthorizedInItsGroup`, `NoSelfConflict`, `LockedPortWasSeenBefore`, `PortsWithoutEndpointAreTraces` |
| `radius_clients` (`RadiusClients.cfg`) | one client id, a network and one around it that is too large to clear one by one, two secrets; 2 events, 1 crash, 2 API sessions at a time. 640 000 states, a minute | `EventTypeOK`, `ClientTypeOK`, `ExecutedInOrder`, `MissedOnlyIfOverlapped`, `StaleClientIsDue`, `ReconciledAsRead`, `DebugSwitchSettles` (liveness) |
| `accounting` (`Accounting.cfg`) | one session, 4 packets received, 2 threads, restarts of the switch, 3 moments. 360 000 states | `TypeOK`, `EndedIsClosed`, `StopIsExact`, `StartIsTrue`, `RunningIsOpen`, `OrphansGo` (liveness) |
| `retention` (`Retention.cfg`) | a MAC user, endpoints kept a day and records three, 11 parts of four days, the last authentication on the second, 2 API calls, 1 missed job. 1.4 million states, two minutes | `TypeOK`, `UnseenIsPruned`, `KeptWhileSeen`, `FollowsLifecycle` (refinement) |
| `coa` (`ChangeOfAuth.cfg`) | a device with a MAC address and as a user, and another device; two ports, one of which has no name at times, the other an address in two networks; 4 authentications and calls in all, 2 calls. 664 000 states, over a minute | `TypeOK`, `WaitingIsServed`, `NoStrangerBounced`, `GroupChangeIsApplied` (liveness) |
| `debug_logs` (`DebugLogs.cfg`) | 2 nodes, 3 lines, a window of 3 s, 2 rows a SELECT, a pruning every 2 lines that keeps 1, 1 failure, 4 s. 620 000 states | `TypeOK`, `LinesAreStreamed`, `LinesAreBounded` |
| `lost_rejection` (`AuthLostRejection.cfg`) | overlapping requests | `RejectionIsRecorded` fails |
| `replaced_switch` (`AuthReplacedSwitch.cfg`) | as `auth_isolated`, overlapping, without changes | `KnownPortIsOne` fails |
| `stale_secret` (`ClientsMoved.cfg`) | as `radius_clients`, with PUTs that change the network | `StaleClientIsDue` fails |
| `retention_gap` (`RetentionGap.cfg`) | an EAP user, endpoints and records kept equally long, as the defaults have it | `RetentionIsKept` fails |

Type invariants apart, the properties say:

* *Policies.* `MatchedIsFirst`: the policy chosen matches and none that matches has a lower number.
  `NoMatchOnlyIfNone`: a request has no policy only if none matches. `FailureIsFirst`: a condition
  without a value fails a request only if no earlier policy matches. "Matches" leaves out the
  policies the filter is wrong about (`MisreadByFilter`, below), and no others.
* *Authentication.* `OnlyMacEndpointsAreManaged`: groups, pending and discovered are for MAB.
  `FollowsLifecycle`: the states follow `EndpointLifecycle` but for `RejectedAtFirstSight`, in every
  interleaving.
  `LockedPortWasSeenBefore`: a `switch_port` lock never passes a first contact.
  `StateIsLastVerdict`, `AuthorizedInItsGroup`: without overlap the state is the last verdict, under
  the group the endpoint is in. `NoSelfConflict`: the lookup of a port covers both unique
  constraints. `PortsWithoutEndpointAreTraces`: only a request that died leaves a port without an
  endpoint. `EveryRequestAnswered`.
* *Events and clients.* `ExecutedInOrder`: by `created_at`, none twice. `MissedOnlyIfOverlapped`:
  one the sidecar went past was carried out, unless it was posted before the sidecar ran or its
  transaction overlapped with a later one. `StaleClientIsDue`: a client FreeRADIUS still has though
  it was changed or deleted is one a committed event asks to clear; where that event failed or was
  missed, or a read of the client was in flight when its address was cleared, it stays so, which the
  run does not hide. `ReconciledAsRead`: a reconciliation that ends with
  radmin attached leaves debugging on or off as the event it looked up says; `DebugSwitchSettles`: in
  the end that is the latest event.
* *Accounting.* `EndedIsClosed`: a closed session is never opened again. `StopIsExact`,
  `StartIsTrue`: the switch's own times and totals, whatever order the packets have.
  `RunningIsOpen`: a late Accounting-On spares what began after it. `OrphansGo`: sessions without
  an endpoint do not stay.
* *Retention.* `UnseenIsPruned`: an endpoint no longer seen is deleted when its days are over, a day
  later per missed run, provided its records outlive it. `KeptWhileSeen`: one that is seen is kept,
  unless its record was lost or deleted, or it was seen while the job ran. `FollowsLifecycle`: the
  states follow `EndpointLifecycle`, with the same exception, deletions by jobs included.
* *Change of authorization.* `NoStrangerBounced`: the packet bounces no other device whose
  connection the query could have known of. `GroupChangeIsApplied`: an endpoint that stays where it
  was last seen authenticates again after its group changed. `WaitingIsServed`: as long as it has not,
  a call is on its way whose packet reaches it there.
* *Debug log.* `LinesAreStreamed`: a line reaches a connected reader before it leaves the window,
  unless it was deleted, or beyond the limit, or stamped by an earlier pruning. `LinesAreBounded`:
  the lines of a node are those kept, those since the last pruning, and a round for each failure.

The four failures are disagreements between the code and its documents, listed under `findings`:

* *A lost rejection.* A session loads an endpoint as `rejected` (or `discovered`), another
  authorizes it and commits, then the first rejects: compared with what it loaded there is nothing
  to write, so the endpoint stays `authorized` after a rejection.
* *A replaced switch.* Known at (name A, address 1) and (name B, address 2), a device now at
  (A, 2) has two known ports, and `scalar_one_or_none` raises.
* *A stale secret.* A PUT that changes secret and network together clears the addresses of the new
  network; at the old ones FreeRADIUS goes on with the old secret until its lifetime ends.
* *A retention gap.* Endpoints are chosen by an inner join with their latest record. When records
  are not kept longer than endpoints, the last record of an endpoint may go before a job has chosen
  it, and then none ever does.

Met while modelling. The first two are reached by runs that pass, as exceptions with a name; none of
the rest is promised by a property:

* A MAC address that a policy matches and rejects when it is first seen becomes `rejected`, not
  `discovered` (`api_internal/utils.py:88`; `docs/user_manual/endpoints.md:11`). That is
  `RejectedAtFirstSight`, a disjunct of `FollowsLifecycle`: without it `auth_overlap` and `retention`
  fail.
* An integer value always goes to the column `group_id`, and the filter takes every such condition
  for one on the group, whatever its attribute (`models/policy.py:138`, `api_internal/auth.py:68,80,86`,
  where a comment says "We will never match that policy"): such a policy is filtered out though it
  matches. That is `MisreadByFilter`; without it `policy_selection` fails.
* An empty text is stored as a value, and reading it raises (`models/policy.py:132`): a request that
  comes to such a condition ends in a 500 (`no_value`), whatever policy comes after it.
* A port that an authentication inserts while its endpoint is deleted survives the endpoint, and a
  group given to an endpoint while its old group is deleted is lost (`CommitDeleteEndpoint`,
  `CommitDeleteGroup`).
* Two networks around one address make the lookup of a switch raise after a PUT has committed
  (`core/coa.py:166`): no packet goes out (`Bounceable`).
* A worker that starts takes the time of day without a time zone (`tools/radmin.py:326`) and compares
  it with `created_at`, which has one: right where the process runs in UTC, which is assumed.
* The transaction a pruning leaves open (`tools/radmin.py:118`) gives the next line an old
  `created_at`: a reader's window may have gone past it. `LinesAreStreamed` makes that exception.
* Reconciliation compares on and off only (`tools/radmin.py:375`): debugging that is on with another
  condition than the latest event's stays as it is.
* A PUT of a client that changes the network alone posts no event (`radius_client.py:137`), and
  `hosts()` leaves out the first and the last address of a network (`tools/radmin.py:199`):
  `StaleClientIsDue` speaks of changed secrets and of `HostsOf` only.
* Once an endpoint is deleted its port rows are gone, so a later packet may bounce its device: the
  query for another device finds nothing. `NoStrangerBounced` makes that exception (`there \in
  c.asked`; `committed` loses the authentications of a deleted endpoint).
* An own port row without a name is compared with names and never equals one, where the comment
  says the address can still be checked (`core/coa.py:70`): it looks at the other row's name.

### Bounds

* *Policies.* Two policies, of every shape the filter distinguishes, are what "first" needs.
* *AuthEngine.* `MaxChanges` bounds the API changes; every request is served once, so the number of
  requests bounds the rest (`clock` included), and behaviours end: deadlock is not checked. Two
  requests show every overlap of two sessions, and, with two changes, a row deleted and created
  again under a session that loaded it. Three requests are needed for ports: two to make two rows
  known, one to meet them. Two names and two addresses are all a device can be known under at one
  port without repeating one. Only the chosen policy is seen, so one is enough. `SYMMETRY` permutes
  requests and switches, which are only compared with each other; it is not used with liveness.
* *RadiusClients.* `MaxEvents = 2` allows an event to begin before another and commit after it, and
  a switch of debugging during another; `MaxFailures = 1` a crash of either side at any point;
  `MaxSessions = 2` two API calls that loaded the same row.
* *Accounting.* `MaxPackets = 4` is a Start, an Interim-Update, a Stop and an Accounting-On, or one
  of them twice with two others; `MaxThreads = 2` any two at once; `MaxTime = 2` a session that begins
  before, in or after the second of a restart. Sessions meet in Accounting-On alone, so one will do.
* *Retention.* `MaxTime = 11` are the parts up to the fourth day's last: an endpoint seen on the
  first day has its deadline on the third, or the fourth when a run was missed. Nobody is seen after
  the second day (`SeenByThen`, a CONSTRAINT): the last two are what it takes to find who was not. One
  call is enough for each exception of `KeptWhileSeen`; a second one adds, changes or deletes the
  endpoint again.
* *ChangeOfAuth.* `MaxEvents = 4` and `MaxCalls = 2` are three authentications and a call, or two of
  each: enough for a device that leaves, another that comes, and a packet sent after it. Authentications
  a packet causes are beyond `MaxEvents`, and end by themselves with the calls. The devices come to
  rest, so deadlock is not checked.
* *DebugLogs.* Three lines make a pruning that deletes and one that finds nothing; two rows a SELECT
  and three lines exceed the limit; four seconds leave the window of three.

### Fairness

* `EveryRequestAnswered` assumes only that a request which can take its next step does (`WF` on the
  steps of each request): the event loop resumes a coroutine whose statement was answered, and no
  step waits for another session, as there are no locks the model leaves out that could be held
  forever (a row lock ends with its transaction). Nothing is assumed of the API, of new requests, or
  of crashes.
* `DebugSwitchSettles` assumes that the sidecar takes its next step, and that it, FreeRADIUS and the
  radmin process are started, or end, as their supervisors and sockets see to. It says nothing of an
  event whose transaction never ends: that is in no one's table.
* `OrphansGo` assumes that the job runs every day and that the threads of FreeRADIUS finish.
* `GroupChangeIsApplied` assumes that a session whose query was answered goes on; a packet that is
  lost (`Lose`) is excused.

## What is proved

For every value of the constants, with the TLA+ proof system.

| Theorem | Module | Says |
|---|---|---|
| `SelectionIsFirst`, `SelectionIsComplete`, `SelectionFailsFirst` | `PolicySelectionProofs` | `MatchedIsFirst`, `NoMatchOnlyIfNone` and `FailureIsFirst`, of any policies the API can store |
| `TypeCorrect`, `OnlyMacManaged` | `AuthEngineProofs` | `TypeOK`, `OnlyMacEndpointsAreManaged` |
| `ImplementsLifecycle` | `AuthEngineProofs` | `FollowsLifecycle`: every step is one of `EndpointLifecycle`, or `RejectedAtFirstSight` |
| `AcceptingPoliciesImplementLifecycle` | `AuthEngineProofs` | where no policy rejects, by its replies or a port lock, `AuthEngine` implements `EndpointLifecycle` without exception |
| `StateFollowsVerdict`, `AuthorizedUnderItsGroup` | `AuthEngineProofs` | `StateIsLastVerdict`, `AuthorizedInItsGroup`, assuming `Isolated` |
| `LockHolds` | `AuthPortProofs` | `LockedPortWasSeenBefore`, whatever overlaps |
| `NoConflictAlone`, `PortsAreTraces` | `AuthPortProofs` | `NoSelfConflict`, `PortsWithoutEndpointAreTraces`, assuming `Isolated` |
| `EventTypes`, `InOrder`, `NoneMissed`, `RoundsSettle` | `RadiusClientsProofs` | `EventTypeOK`, `ExecutedInOrder`, `MissedOnlyIfOverlapped`, `ReconciledAsRead` of `EventSpec` |
| `ImplementsEvents` | `RadiusClientsProofs` | `RadiusClients` implements `EventSpec` |
| `ClientTypes`, `ClientsInOrder`, `ClientsNoneMissed`, `ClientsRoundsSettle` | `RadiusClientsProofs` | `ClientTypeOK`, and the three properties of events in the composition |
| `StaleIsDue` | `RadiusClientsProofs` | `StaleClientIsDue`, assuming `NetworkFixed` |
| `TypeCorrect`, `NobodyElseIsBounced`, `NobodyIsForgotten` | `ChangeOfAuthProofs` | `TypeOK`, `NoStrangerBounced`, `WaitingIsServed` |
| `TypeCorrect`, `SeenAreKept` | `RetentionProofs` | `TypeOK`, `KeptWhileSeen` |
| `UnseenPruned` | `RetentionProofs` | `UnseenIsPruned`, whose premise is `RecordsOutlive` |
| `ImplementsLifecycle` | `RetentionProofs` | `FollowsLifecycle`, with the exception `AuthEngine` has |
| `TypeCorrect`, `LinesBounded` | `DebugLogsProofs` | `TypeOK`, `LinesAreBounded` |
| `LinesStreamed` | `DebugLogsProofs` | `LinesAreStreamed`, provided `CommitTime + PollTime <= Window` |
| `TypeCorrect`, `ClosedStaysClosed`, `StopExact`, `StartTrue`, `RunningOpen` | `AccountingProofs` | `TypeOK`, `EndedIsClosed`, `StopIsExact`, `StartIsTrue`, `RunningIsOpen` |

* *Selection.* The lemma `FilteredOutNeverMatches` is the comment beside the filter made precise: a
  policy that the WHERE clause drops cannot match, unless it is one of `MisreadByFilter`. So the result
  of the statement has every other matching policy, and `SelectionInv` keeps them among the rows not
  read yet until the first one, which is of the lowest priority number left. Nothing is assumed of the
  policies but what the tables enforce (`IsPolicy`).
* *Types of AuthEngine.* `TypeOK` is not inductive: a session at `touch` must have a port
  (`TouchesAPort`). One lemma per action.
* *Groups and states.* `PutIsManaged` strengthens the invariant: a PUT of an EAP user compares
  NULL with NULL, so its commit changes nothing, however late.
* *Life cycle.* What a session writes is decided by what it loaded. `IdsAreOld` says no id is used
  again, so a session never takes a new row for the one it loaded; `NeverDiscoveredAgain` says a row
  that was loaded in another state is not `discovered`. Hence a session that writes `rejected`
  writes it to an endpoint the life cycle lets reject. `LifecycleAt` maps a step on one endpoint;
  `LifecycleServe` and `LifecycleApi` apply it to every action. The row of a session that loaded none
  is written by `CreateNewEndpoint` or, rejected by a policy, by the step `RejectedAtFirstSight`.
* *Last verdicts.* Under `Isolated`, `Alone` says that nobody else, deletions that are under way
  included, works on the user of a session, hence `Fresh`: what it loaded is what is there. Then the
  two sides of a comparison in `update_endpoint_state` are the table and the verdict, and `Settled` is
  kept.
* *The port lock.* Each of the two columns by which a row names its switch came with some request of
  that endpoint at that port (`ColumnsWereSeen`), even when two sessions have mixed them; ids of
  ports are not used again (`PortIdsInv`), so a `db_nas_port` was there before its session
  (`KnowsItsPort`), and a session past a `switch_port` lock has one (`PassedWithPort`).
* *No conflict, and traces.* `Colliding` is contained in `KnownPorts` and in the ports of the user,
  and under `Isolated` what the lookup found stays so until the session writes (`LookupIsFresh`).
  `TraceInv` names, for each port without an endpoint, a request that did not end well or has yet to
  write its endpoint.
* *Events.* Each transaction has a time of its own and `last_checked` is behind all of the batch
  (`TimesInv`); what was carried out is no later than `last_checked`, but for the event in hand
  (`ExecutedInv`); an open transaction that is not the latest was overlapped, so a row that appears
  behind `last_checked` is excused (`MissedInv`). The other steps of the sidecar are reduced to six
  ways in which it changes (`Quiet`); `Poll` and `TakeEvent` are proved by themselves.
* *Reconciliation.* What it looks up is a switch of debugging, so only the steps of a switch follow
  (`RoundInv`), and three of them end it: `Show` that found debugging right, and the two commands that
  set it. A command that was not carried out ends the session with radmin instead (`RoundEnds`).
* *Clients.* The refinement is step by step: a session's SELECT begins a transaction, its commit ends
  it. `StaleIsDue` needs that an id never changes its network (`NetworksInv`; here `NetworkFixed`
  and `used` ids enter), that a session of a PUT that changes the secret carries an event for that
  network (`SessionOK`), and the property for clients that were read and are not cached yet as well
  (`DueInv`).
* *Change of authorization.* The last commit of an endpoint at a port is told of by its row, with the
  same name and a time not before its beginning (`CommittedInv`): so the query for another device
  finds it, and what a call was told of displaces nobody (`AskedInv`).
* *Waiting endpoints.* Times of rows and authentications are distinct and a device is at one port
  (`TimesInv`). While an endpoint waits nothing is under way for it or at its port (`Stays`), so an
  endpoint that stops being quiet does not become quiet again before it authenticates; hence each
  query of the call finds what was there when it began (`Serves`). What `GroupChangeIsApplied` adds
  is that the call goes on.
* *Accounting.* `SwitchInv`, `SentInv` and `ServingInv` say what the switch's packets may claim: a
  Start has the time the session began, a Stop the one it ended, and a session older than an
  Accounting-On has ended. `RowsInv` and `AnsweredInv` follow for each statement, whichever order
  the packets come in.

* *Retention, what is seen.* The last authentication of an endpoint is in radpostauth, on its way
  there, or was pruned with all records of its user (`RecordsInv`); no record is later than it. So an
  endpoint whose latest record is old was not seen since, and what a job has read stays true until its
  commit, or the endpoint was seen in between (`WellChosen`, `RunningInv`). `NewId` finds a number by
  counting: a finite set of n ids leaves one of 0..n free.
* *Retention, what is not seen.* `OverdueInv` says how late an endpoint was when its job was last
  done (`LastDone`): a job that runs and does not choose it has seen a record or a change of it within
  its days. This is where the inner join bites: an endpoint without records is never chosen, and
  `RecordsOutlive` says a missing record would be older than the job lets an endpoint become. Since a
  missed run shifts the deadline by a day, the bound on them is in `RecordsOutlive`.
* *Retention and the life cycle.* `StateAfter` says in one step what `AuthEngine` does in many; that
  both implement `EndpointLifecycle` is what ties them together. A deletion by a job is a `Remove` of
  several endpoints, whatever has become of their rows since their ids were read.
* *Debug log, its size.* A pruning deletes what is not among the latest lines of the node, in an order
  of the table. `LatestAreFew`: each of them has fewer lines after it than are kept, these numbers
  differ (`RowsAreRanked`), so by the pigeonhole principle there are no more than that. `BoundOfNode`
  counts, for each step of the streamer, what may have come since.
* *Debug log, its readers.* A line a connected reader has not seen is not committed yet, or younger
  than its last poll (`ReaderInv`); with the hypothesis on times the next poll comes while the line is
  in the window. In the code the window is 3 s and the poll comes every second: the hypothesis says a
  commit takes no more than the two that remain.

The assumptions on constants (`EndpointsAssumption`, `CoaAssumption`, `AccountingAssumption` and so
on) say that rows have their types, that bounds are numbers and that `None` is not a row. No bound
enters a proof otherwise, but for the missed runs in `UnseenPruned`: the theorems hold for any number
of sessions, packets, events and crashes.

Every invariant and every action property that a run checks is proved. Only model-checked are the four
liveness properties (`EveryRequestAnswered`, `DebugSwitchSettles`, `OrphansGo`,
`GroupChangeIsApplied`): liveness under fairness is beyond the prover.

## What is left out

* FreeRADIUS itself (TLS, EAP, LDAP), and its configuration but for the parts named above: it is the
  source of requests, packets and records.
* Text: names and their uniqueness, descriptions, reply attributes other than the final reject,
  response bodies, how a debug filter is written as a condition, the attributes of a CoA packet.
  With names go POST and PUT of groups: a group is its id, and a new one is referred to by nothing.
* Access control, listing, filters and response schemas: they decide who may call and see what, and
  write nothing the modelled parts read. Every call of the models is one that was allowed.
* Overlapping PUTs of one endpoint: `BeginPut` waits for the last one. A PUT overlaps requests,
  deletions and, in a run, one other change.
* Clocks are one where the code has two: the API's and the database's in the window of the log stream
  (`routes_v2/debug.py:109`, a window of three seconds), the sidecar's and the database's
  (`tools/radmin.py:326`).
* Statements that follow at once are one where no property could tell: a policy and its conditions
  (`api_internal/auth.py:52`), the columns of a client (`dynamic-clients:120-139`). Conditions are
  evaluated in the order of their sequence, as they are loaded. Rows of equal time at
  `tools/radmin.py:112`, which the database may return in any order, are taken by id.
* Migrations and start-up: they run while the system is stopped.
* In `AuthEngine`, the deletion of an endpoint stands for the retention jobs too; which endpoints they choose is
  in `Retention`. The modules share no state with one another except `RadiusClients` with
  `AdminEvents`; a composition of `AuthEngine` with `ChangeOfAuth` would have the port rows of the
  first under the queries of the second, at a size beyond TLC, and is replaced by `CommitPort`.

`RECURSIVE` operators stay out of all modules.
