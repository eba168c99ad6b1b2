---------------------------- MODULE AdminEvents ----------------------------
(***************************************************************************)
(* The table radius_admin_event and the sidecar that carries its rows out  *)
(* on FreeRADIUS (tools/radmin.py, run_worker), with the routes that write *)
(* the rows (routes_v2/debug.py, routes_v2/radius_client.py) and the job   *)
(* that deletes old ones (prune_radius_admin_events.py).                   *)
(*                                                                         *)
(* created_at is now(), the time at which the transaction of the row       *)
(* began; other sessions see the row once it is committed.  A step of the  *)
(* sidecar is one statement or one command sent through radmin; FreeRADIUS *)
(* and the sidecar may stop between any two.                               *)
(***************************************************************************)
EXTENDS Naturals, Sequences

CONSTANTS
  None,
  Conditions,   \* what a debug session can ask for: the payloads of DEBUG_START
  Networks,     \* networks of RADIUS clients
  Addresses,    \* addresses of switches
  HostsOf,      \* of a network, network.hosts(): its addresses but the first and the last
  Large,        \* networks of more than 4098 addresses
  Clients,      \* what FreeRADIUS knows of an address: a row of the table nas
  MaxEvents,    \* bound on the transactions that write events
  MaxFailures   \* bound on the crashes of FreeRADIUS and of the sidecar

DebugStart == [command : {"DEBUG_START"}, payload : Conditions, created : Nat]
DebugOther == [command : {"DEBUG_STOP", "DEBUG_CLEAR"}, payload : {None}, created : Nat]
ClearClient == [command : {"CLEAR_CLIENT"}, payload : Networks, created : Nat]
Event == DebugStart \cup DebugOther \cup ClearClient

ASSUME NetworksAssumption ==
  /\ HostsOf \in [Networks -> SUBSET Addresses]
  /\ Large \subseteq Networks
ASSUME EventNoneAssumption ==
  None \notin Conditions /\ None \notin Clients /\ None \notin Event /\ None \notin Nat
ASSUME EventBoundsAssumption == MaxEvents \in Nat /\ MaxFailures \in Nat

VARIABLES
  clock,      \* time, in transactions that write events
  posting,    \* rows whose transaction has begun and has not ended
  events,     \* table radius_admin_event
  worker,     \* run_worker
  radmin,     \* the radmin process the sidecar talks to
  radius,     \* FreeRADIUS
  failures,   \* number of crashes
  overlapped, \* history: created_at of rows during whose transaction another one began
  executed,   \* history: created_at of the rows carried out, in that order
  since,      \* history: what the running sidecar first took last_checked to be
  due         \* history: addresses a committed row asks to clear and that were not yet

apiVars == <<clock, posting, overlapped>>
sidecarVars == <<worker, executed, since>>
radiusVars == <<radmin, radius, due>>
eventVars == <<apiVars, events, sidecarVars, radiusVars, failures>>

WorkerSteps ==
  {"down", "setup", "poll", "execute", "show", "terminate", "clear", "reset", "set", "stop",
   "truncate"}

Worker ==
  [pc      : WorkerSteps,
   last    : Nat \cup {None},     \* last_checked
   batch   : SUBSET Event,        \* events, those not done yet
   current : Event \cup {None},   \* event, or event_mismatch once batch is empty
   todo    : SUBSET Addresses]    \* the hosts of the loop of radius_clear_client

Stopped == [pc |-> "down", last |-> None, batch |-> {}, current |-> None, todo |-> {}]

Radius ==
  [up        : BOOLEAN,
   condition : Conditions \cup {None},                 \* debug condition
   cached    : [Addresses -> Clients \cup {None}],     \* dynamic clients
   reading   : [Addresses -> Clients \cup {None}]]     \* read from nas, not yet cached

NoClients == [a \in Addresses |-> None]
EmptyRadius == [up |-> TRUE, condition |-> None, cached |-> NoClients, reading |-> NoClients]

-----------------------------------------------------------------------------
(* The API and the database *)

\* Fault: the network is cleared as if it were an address.
HostsUnexpanded(e) == IF e.command = "CLEAR_CLIENT" THEN {e.payload} ELSE {}

Hosts(e) == IF e.command = "CLEAR_CLIENT" THEN HostsOf[e.payload] ELSE {}

\* A transaction that will insert e begins: now() is fixed.
Begin(e) ==
  /\ clock < MaxEvents
  /\ e.created = clock + 1
  /\ clock' = clock + 1
  /\ posting' = posting \cup {e}
  /\ overlapped' = overlapped \cup {f.created : f \in posting}
  /\ UNCHANGED <<events, sidecarVars, radiusVars, failures>>

Commit(e) ==
  /\ e \in posting
  /\ posting' = posting \ {e}
  /\ events' = events \cup {e}
  /\ due' = due \cup Hosts(e)
  /\ UNCHANGED <<clock, overlapped, sidecarVars, radmin, radius, failures>>

Rollback(e) ==
  /\ e \in posting
  /\ posting' = posting \ {e}
  /\ UNCHANGED <<clock, overlapped, events, sidecarVars, radiusVars, failures>>

\* The job at 02:30.  Its cutoff is days ago; here any time.
PruneRadiusAdminEvents ==
  \E cutoff \in 2 .. clock :
    /\ \E e \in events : e.created < cutoff
    /\ events' = {e \in events : e.created >= cutoff}
    /\ UNCHANGED <<apiVars, sidecarVars, radiusVars, failures>>

-----------------------------------------------------------------------------
(* FreeRADIUS *)

\* FreeRADIUS stops, and with it its debugging and its dynamic clients.  The radmin
\* process loses its socket.
StopsRadius ==
  /\ radius' = [EmptyRadius EXCEPT !.up = FALSE]
  /\ radmin' = IF radmin = "attached" THEN "lost" ELSE radmin
  /\ due' = {}

RadiusCrashes ==
  /\ radius.up /\ failures < MaxFailures
  /\ StopsRadius
  /\ failures' = failures + 1
  /\ UNCHANGED <<apiVars, events, sidecarVars>>

RadiusStarts ==
  /\ ~ radius.up
  /\ radius' = EmptyRadius
  /\ UNCHANGED <<apiVars, events, sidecarVars, radmin, due, failures>>

RadminExits ==
  /\ radmin = "lost"
  /\ radmin' = "exited"
  /\ UNCHANGED <<apiVars, events, sidecarVars, radius, due, failures>>

\* The virtual server dynamic_clients: a packet from an address that is not cached reads
\* the client from the table nas, then caches it.
ReadClient(a, c) ==
  /\ radius.up /\ radius.cached[a] = None /\ radius.reading[a] = None
  /\ radius' = [radius EXCEPT !.reading[a] = c]
  /\ UNCHANGED <<apiVars, events, sidecarVars, radmin, due, failures>>

AddClient(a) ==
  /\ radius.reading[a] # None
  /\ radius' = [radius EXCEPT !.cached[a] = radius.reading[a], !.reading[a] = None]
  /\ UNCHANGED <<apiVars, events, sidecarVars, radmin, due, failures>>

\* lifetime = 3600
ExpireClient(a) ==
  /\ radius.cached[a] # None
  /\ radius' = [radius EXCEPT !.cached[a] = None]
  /\ due' = due \ {a}
  /\ UNCHANGED <<apiVars, events, sidecarVars, radmin, failures>>

-----------------------------------------------------------------------------
(* The sidecar *)

Attached == radmin = "attached"

\* A command that radmin may fail to carry out because FreeRADIUS is gone: the answer is
\* then the empty rest of the stream (send_radmin_command), and nothing was done.
Send(change) ==
  IF Attached THEN radius' = change ELSE UNCHANGED radius

\* Back in run_worker after a command, whether it was an event's or the reconciliation's.
Done(w) ==
  IF w.current \in w.batch
  THEN [w EXCEPT !.pc = "execute", !.batch = w.batch \ {w.current},
                 !.last = w.current.created, !.current = None, !.todo = {}]
  ELSE [w EXCEPT !.pc = "poll", !.current = None, !.todo = {}]

WorkerStarts ==
  /\ worker.pc = "down"
  /\ worker' = [Stopped EXCEPT !.pc = "setup"]
  /\ UNCHANGED <<apiVars, events, executed, since, radiusVars, failures>>

WorkerCrashes ==
  /\ worker.pc # "down" /\ failures < MaxFailures
  /\ worker' = Stopped
  /\ radmin' = "none"
  /\ failures' = failures + 1
  /\ UNCHANGED <<apiVars, events, executed, since, radius, due>>

\* radmin_setup; it raises, and is tried again, as long as there is no FreeRADIUS.
RadminSetup ==
  /\ worker.pc = "setup" /\ radius.up
  /\ worker' = [worker EXCEPT !.pc = "poll"]
  /\ radmin' = "attached"
  /\ UNCHANGED <<apiVars, events, executed, since, radius, due, failures>>

\* Fault: the time of the poll is taken for the last one checked.
PollUntilNow ==
  /\ worker.pc = "poll" /\ radmin # "exited"
  /\ worker' = [worker EXCEPT
       !.pc = "execute", !.last = clock,
       !.batch = {e \in events : e.created > IF worker.last = None THEN clock ELSE worker.last}]
  /\ since' = IF worker.last = None THEN clock ELSE since
  /\ UNCHANGED <<apiVars, events, executed, radiusVars, failures>>

\* The top of the inner loop.  A sidecar that just started takes the time of day; it is
\* read without a time zone and compared with created_at, which has one: on the clock of
\* created_at only in a process that runs in UTC (radmin.py:326).
Poll ==
  /\ worker.pc = "poll" /\ radmin # "exited"
  /\ LET last == IF worker.last = None THEN clock ELSE worker.last
     IN /\ worker' = [worker EXCEPT !.pc = "execute", !.last = last,
                                    !.batch = {e \in events : e.created > last}]
        /\ since' = IF worker.last = None THEN last ELSE since
  /\ UNCHANGED <<apiVars, events, executed, radiusVars, failures>>

Reconnect ==
  /\ worker.pc = "poll" /\ radmin = "exited"
  /\ worker' = [worker EXCEPT !.pc = "setup"]
  /\ UNCHANGED <<apiVars, events, executed, since, radiusVars, failures>>

StepOf(e) ==
  CASE e.command = "DEBUG_START" -> "reset"
    [] e.command = "DEBUG_STOP"  -> "stop"
    [] e.command = "DEBUG_CLEAR" -> "truncate"
    [] OTHER -> IF e.payload \in Large THEN "terminate" ELSE "clear"

\* Fault: the events of a poll are taken in any order.
TakeAnyEvent ==
  /\ worker.pc = "execute"
  /\ \E e \in worker.batch :
       /\ worker' = [worker EXCEPT !.pc = StepOf(e), !.current = e, !.todo = Hosts(e)]
       /\ executed' = Append(executed, e.created)
  /\ UNCHANGED <<apiVars, events, since, radiusVars, failures>>

\* for event in events: the earliest of those left.
TakeEvent ==
  /\ worker.pc = "execute"
  /\ \E e \in worker.batch :
       /\ \A f \in worker.batch : e.created <= f.created
       /\ worker' = [worker EXCEPT !.pc = StepOf(e), !.current = e, !.todo = Hosts(e)]
       /\ executed' = Append(executed, e.created)
  /\ UNCHANGED <<apiVars, events, since, radiusVars, failures>>

Switches == {e \in events : e.command \in {"DEBUG_START", "DEBUG_STOP"}}

IsLatest(e) == e \in Switches /\ \A f \in Switches : f.created <= e.created

\* event_mismatch: what debugging should be.
ReadLatest ==
  /\ worker.pc = "execute" /\ worker.batch = {}
  /\ IF Switches = {}
     THEN worker' = [worker EXCEPT !.pc = "poll"]
     ELSE \E e \in Switches :
            IsLatest(e) /\ worker' = [worker EXCEPT !.pc = "show", !.current = e]
  /\ UNCHANGED <<apiVars, events, executed, since, radiusVars, failures>>

\* Fault: only debugging that should be on is looked after.
ShowStartOnly ==
  /\ worker.pc = "show"
  /\ LET shown == IF Attached THEN radius.condition ELSE None
     IN worker' = IF shown = None /\ worker.current.command = "DEBUG_START"
                  THEN [worker EXCEPT !.pc = "reset"]
                  ELSE Done(worker)
  /\ UNCHANGED <<apiVars, events, executed, since, radiusVars, failures>>

\* "show debug condition": only whether there is one is compared.
Show ==
  /\ worker.pc = "show"
  /\ LET shown == IF Attached THEN radius.condition ELSE None
         wanted == worker.current.command = "DEBUG_START"
     IN worker' = IF wanted = (shown # None) THEN Done(worker)
                  ELSE [worker EXCEPT !.pc = StepOf(worker.current)]
  /\ UNCHANGED <<apiVars, events, executed, since, radiusVars, failures>>

\* radius_clear_client of a network with too many addresses.
Terminate ==
  /\ worker.pc = "terminate"
  /\ worker' = Done(worker)
  /\ IF Attached THEN StopsRadius ELSE UNCHANGED radiusVars
  /\ UNCHANGED <<apiVars, events, executed, since, failures>>

\* One "del client ipaddr" of radius_clear_client.  An address FreeRADIUS is about to cache
\* remains due.
ClearHost ==
  /\ worker.pc = "clear"
  /\ \E a \in worker.todo :
       /\ worker' = [worker EXCEPT !.todo = worker.todo \ {a}]
       /\ Send([radius EXCEPT !.cached[a] = None])
       /\ due' = IF Attached /\ radius.reading[a] = None THEN due \ {a} ELSE due
  /\ UNCHANGED <<apiVars, events, executed, since, radmin, failures>>

ClearedHosts ==
  /\ worker.pc = "clear" /\ worker.todo = {}
  /\ worker' = Done(worker)
  /\ UNCHANGED <<apiVars, events, executed, since, radiusVars, failures>>

\* radius_debug_start up to the reset of the trace file, then the new condition.
ResetDebug ==
  /\ worker.pc = "reset"
  /\ worker' = [worker EXCEPT !.pc = "set"]
  /\ Send([radius EXCEPT !.condition = None])
  /\ UNCHANGED <<apiVars, events, executed, since, radmin, due, failures>>

SetDebug ==
  /\ worker.pc = "set"
  /\ worker' = Done(worker)
  /\ Send([radius EXCEPT !.condition = worker.current.payload])
  /\ UNCHANGED <<apiVars, events, executed, since, radmin, due, failures>>

StopDebug ==
  /\ worker.pc = "stop"
  /\ worker' = Done(worker)
  /\ Send([radius EXCEPT !.condition = None])
  /\ UNCHANGED <<apiVars, events, executed, since, radmin, due, failures>>

\* radius_debug_clear empties the trace file and sends no command.
TruncateTrace ==
  /\ worker.pc = "truncate"
  /\ worker' = Done(worker)
  /\ UNCHANGED <<apiVars, events, executed, since, radiusVars, failures>>

\* Writing to a radmin that is gone raises.  For an event the exception is logged and the
\* next event follows; in the reconciliation it ends the session with radmin.
CommandRaises ==
  /\ ~ Attached
  /\ \/ worker.pc \in {"terminate", "reset", "set", "stop", "show"}
     \/ worker.pc = "clear" /\ worker.todo # {}
  /\ worker' = IF worker.current \in worker.batch THEN Done(worker)
               ELSE [worker EXCEPT !.pc = "setup", !.current = None]
  /\ UNCHANGED <<apiVars, events, executed, since, radiusVars, failures>>

WorkerStep ==
  \/ RadminSetup \/ Poll \/ Reconnect \/ TakeEvent \/ ReadLatest \/ Show
  \/ Terminate \/ ClearHost \/ ClearedHosts
  \/ ResetDebug \/ SetDebug \/ StopDebug \/ TruncateTrace \/ CommandRaises

-----------------------------------------------------------------------------
EventInit ==
  /\ clock = 0 /\ posting = {} /\ events = {} /\ overlapped = {}
  /\ worker = Stopped /\ executed = <<>> /\ since = 0
  /\ radmin = "none" /\ radius = EmptyRadius /\ due = {} /\ failures = 0

SidecarNext == WorkerStarts \/ WorkerCrashes \/ WorkerStep

RadiusNext ==
  \/ RadiusCrashes \/ RadiusStarts \/ RadminExits
  \/ \E a \in Addresses : AddClient(a) \/ ExpireClient(a)

EventNext ==
  \/ \E e \in Event : Begin(e)
  \/ \E e \in posting : Commit(e) \/ Rollback(e)
  \/ PruneRadiusAdminEvents
  \/ \E a \in Addresses, c \in Clients : ReadClient(a, c)
  \/ RadiusNext
  \/ SidecarNext

EventSpec == EventInit /\ [][EventNext]_eventVars

-----------------------------------------------------------------------------
(* Properties *)

EventTypeOK ==
  /\ clock \in Nat /\ failures \in Nat /\ since \in Nat
  /\ posting \subseteq Event /\ events \subseteq Event
  /\ overlapped \subseteq Nat /\ executed \in Seq(Nat) /\ due \subseteq Addresses
  /\ worker \in Worker /\ radmin \in {"none", "attached", "lost", "exited"}
  /\ radius \in Radius

\* Events are carried out in the order of created_at and never twice, whatever fails and
\* restarts: run_worker asks for what is later than the last one it did.
ExecutedInOrder ==
  \A i, j \in 1 .. Len(executed) : i < j => executed[i] < executed[j]

WasExecuted(e) == \E i \in 1 .. Len(executed) : executed[i] = e.created

\* An event the sidecar has gone past is one it carried out, unless it was posted before the
\* sidecar ran, or its transaction was still open when a later one began: created_at is
\* ordered by the beginning of transactions, and rows appear in the order of their ends.
MissedOnlyIfOverlapped ==
  worker.last # None =>
    \A e \in events :
      e.created <= worker.last =>
        WasExecuted(e) \/ e.created \in overlapped \/ e.created <= since

\* Whether FreeRADIUS debugs settles on what the latest event says, however many events,
\* restarts and failed commands there were: the reconciliation of run_worker repairs it.
DebugIs(on) == (radius.condition # None) = on
DebugSwitchSettles ==
  <>[](\A e \in Switches : IsLatest(e) => DebugIs(e.command = "DEBUG_START"))

\* A reconciliation that comes to its end with radmin still attached leaves debugging as the
\* event it looked up says, whatever FreeRADIUS was asked, lost and restarted with on the way.
Reconciling == worker.current # None /\ worker.current \notin worker.batch
ReconciledAsRead ==
  [][Reconciling /\ worker'.pc = "poll" /\ radmin' = "attached" =>
       ((radius'.condition # None) <=> worker.current.command = "DEBUG_START")]_eventVars
=============================================================================
