----------------------------- MODULE Accounting -----------------------------
(***************************************************************************)
(* Accounting of sessions: FreeRADIUS runs, for each packet of a switch,   *)
(* the statements of its section in queries.conf one after the other until *)
(* one of them changes a row of radacct.  Packets are lost, repeated, late *)
(* and served by several threads at once; rows are deleted by the API      *)
(* (routes_v2/accounting.py, and with their endpoint) and by prune_radacct. *)
(*                                                                         *)
(* The length of a session stands for acct_session_time and the octets:    *)
(* what the switch has counted up to a packet.                             *)
(***************************************************************************)
EXTENDS Naturals, FiniteSets

CONSTANTS
  None,
  Sessions,      \* acct_unique_id
  Stamped,       \* TRUE if the packets of the switch carry an Event-Timestamp
  RetentionTime, \* RADACCT_RETENTION_DAYS
  MaxTime,       \* bound on the time
  MaxPackets,    \* bound on the packets FreeRADIUS receives, copies included
  MaxThreads     \* threads of FreeRADIUS

ASSUME AccountingAssumption ==
  /\ None \notin Nat /\ None \notin Sessions
  /\ Stamped \in BOOLEAN /\ RetentionTime \in Nat
  /\ MaxTime \in Nat /\ MaxPackets \in Nat /\ MaxThreads \in Nat

VARIABLES
  now,       \* the time, on the switch as on the server
  begun,     \* of a session, when the switch began it; None before
  ended,     \* of a session, when the switch ended it; None until then
  boots,     \* times at which the switch sent Accounting-On (or Accounting-Off)
  sent,      \* packets the switch has sent
  received,  \* number of packets FreeRADIUS has received
  serving,   \* packets FreeRADIUS works on
  radacct,   \* table radacct
  known,     \* sessions whose user has a row in the table endpoint
  pruning,   \* TRUE between the two statements of prune_radacct
  settled,   \* history: sessions closed by Accounting-On or Stop, not deleted since
  answered   \* history: sessions whose Stop was served, not deleted since

switchVars == <<now, begun, ended, boots, sent>>
historyVars == <<settled, answered>>
vars == <<switchVars, received, serving, radacct, known, pruning, historyVars>>

Packet ==
  [type : {"Start", "Interim", "Stop"}, session : Sessions, time : Nat]
    \cup [type : {"On"}, session : {None}, time : Nat]

\* at is event_timestamp, query the statement that comes next.
Service == [packet : Packet, at : Nat, query : 1 .. 3]

Row == [start : Nat, update : Nat, stop : Nat \cup {None}, length : Nat]

ASSUME RowAssumption == None \notin Row

-----------------------------------------------------------------------------
(* The switch *)

Send(type, s) == sent' = sent \cup {[type |-> type, session |-> s, time |-> now]}

switchOnly == <<received, serving, radacct, known, pruning, historyVars>>

Tick ==
  /\ now < MaxTime
  /\ now' = now + 1
  /\ UNCHANGED <<begun, ended, boots, sent, switchOnly>>

BeginSession(s) ==
  /\ begun[s] = None
  /\ begun' = [begun EXCEPT ![s] = now]
  /\ Send("Start", s)
  /\ UNCHANGED <<now, ended, boots, switchOnly>>

ReportSession(s) ==
  /\ begun[s] # None /\ ended[s] = None
  /\ Send("Interim", s)
  /\ UNCHANGED <<now, begun, ended, boots, switchOnly>>

EndSession(s) ==
  /\ begun[s] # None /\ ended[s] = None
  /\ ended' = [ended EXCEPT ![s] = now]
  /\ Send("Stop", s)
  /\ UNCHANGED <<now, begun, boots, switchOnly>>

\* The sessions of a switch that restarts end without a Stop.
Reboot ==
  /\ now \notin boots
  /\ boots' = boots \cup {now}
  /\ ended' = [s \in Sessions |-> IF begun[s] # None /\ ended[s] = None THEN now ELSE ended[s]]
  /\ Send("On", None)
  /\ UNCHANGED <<now, begun, switchOnly>>

-----------------------------------------------------------------------------
(* FreeRADIUS *)

\* Any packet that was sent, again if need be; one that is being served is discarded.
Receive(p) ==
  /\ received < MaxPackets /\ Cardinality(serving) < MaxThreads
  /\ \A v \in serving : v.packet # p
  /\ received' = received + 1
  /\ serving' = serving \cup {[packet |-> p, at |-> IF Stamped THEN p.time ELSE now, query |-> 1]}
  /\ UNCHANGED <<switchVars, radacct, known, pruning, historyVars>>

Length(p) == p.time - begun[p.session]

Statement(v, type, query) == v.packet.type = type /\ v.query = query

\* The statement changed no row.
NextQuery(v) ==
  /\ serving' = (serving \ {v}) \cup {[v EXCEPT !.query = v.query + 1]}
  /\ UNCHANGED <<switchVars, received, radacct, known, pruning, historyVars>>

\* The last statement, or one that changed the row of the session.
Answer(v, rows) ==
  /\ serving' = serving \ {v}
  /\ radacct' = rows
  /\ UNCHANGED <<switchVars, received, known, pruning>>

IsOpen(s) == radacct[s] # None /\ radacct[s].stop = None

RowOf(v) == radacct[v.packet.session]
WithRow(v, row) == [radacct EXCEPT ![v.packet.session] = row]

StartedAt(v) == [RowOf(v) EXCEPT !.start = v.at, !.update = v.at]

\* INSERT ... ON CONFLICT DO UPDATE ... WHERE acct_stop_time IS NULL.
StartInsert(v) ==
  /\ Statement(v, "Start", 1)
  /\ LET s == v.packet.session
     IN CASE radacct[s] = None ->
               Answer(v, WithRow(v, [start |-> v.at, update |-> v.at, stop |-> None, length |-> 0]))
          [] IsOpen(s) -> Answer(v, WithRow(v, StartedAt(v)))
          [] OTHER -> NextQuery(v)
  /\ UNCHANGED historyVars

StartUpdate(v) ==
  /\ Statement(v, "Start", 2)
  /\ Answer(v, IF RowOf(v) = None THEN radacct ELSE WithRow(v, StartedAt(v)))
  /\ UNCHANGED historyVars

Counted(v) == [RowOf(v) EXCEPT !.update = v.at, !.length = Length(v.packet)]

\* Fault: closed sessions are updated too.
InterimUpdateAny(v) ==
  /\ Statement(v, "Interim", 1)
  /\ IF RowOf(v) # None THEN Answer(v, WithRow(v, Counted(v))) ELSE NextQuery(v)
  /\ UNCHANGED historyVars

InterimUpdate(v) ==
  /\ Statement(v, "Interim", 1)
  /\ IF IsOpen(v.packet.session) THEN Answer(v, WithRow(v, Counted(v))) ELSE NextQuery(v)
  /\ UNCHANGED historyVars

\* A row made from a packet that is not a Start: the start time is computed back.
RowFrom(v, stop) ==
  [start |-> v.at - Length(v.packet), update |-> v.at, stop |-> stop, length |-> Length(v.packet)]

\* Fault: the start time is that of the packet.
InterimInsertNow(v) ==
  /\ Statement(v, "Interim", 2)
  /\ Answer(v, IF RowOf(v) = None
               THEN WithRow(v, [RowFrom(v, None) EXCEPT !.start = v.at]) ELSE radacct)
  /\ UNCHANGED historyVars

\* INSERT ... ON CONFLICT DO NOTHING.
InterimInsert(v) ==
  /\ Statement(v, "Interim", 2)
  /\ Answer(v, IF RowOf(v) = None THEN WithRow(v, RowFrom(v, None)) ELSE radacct)
  /\ UNCHANGED historyVars

StoppedAt(v) == [Counted(v) EXCEPT !.stop = v.at]

Settle(s) == settled' = settled \cup {s} /\ answered' = answered \cup {s}

StopUpdate(v) ==
  /\ Statement(v, "Stop", 1)
  /\ IF IsOpen(v.packet.session)
     THEN Answer(v, WithRow(v, StoppedAt(v))) /\ Settle(v.packet.session)
     ELSE NextQuery(v)

\* Fault: the Stop ends with its INSERT.
StopInsertLast(v) ==
  /\ Statement(v, "Stop", 2)
  /\ Answer(v, IF RowOf(v) = None THEN WithRow(v, RowFrom(v, v.at)) ELSE radacct)
  /\ Settle(v.packet.session)

StopInsert(v) ==
  /\ Statement(v, "Stop", 2)
  /\ IF RowOf(v) = None
     THEN Answer(v, WithRow(v, RowFrom(v, v.at))) /\ Settle(v.packet.session)
     ELSE NextQuery(v)

\* A row deleted meanwhile is not made again.
StopUpdateAny(v) ==
  /\ Statement(v, "Stop", 3)
  /\ IF RowOf(v) = None
     THEN Answer(v, radacct) /\ UNCHANGED historyVars
     ELSE Answer(v, WithRow(v, StoppedAt(v))) /\ Settle(v.packet.session)

ClosedAt(row, at) == [row EXCEPT !.stop = at, !.update = at, !.length = at - row.start]

\* Fault: every open session is closed.
AccountingOnAll(v) ==
  /\ Statement(v, "On", 1)
  /\ LET closed == {s \in Sessions : IsOpen(s)}
     IN /\ Answer(v, [s \in Sessions |-> IF s \in closed THEN ClosedAt(radacct[s], v.at)
                                                         ELSE radacct[s]])
        /\ settled' = settled \cup closed
  /\ UNCHANGED answered

\* One statement for all sessions that began no later.
AccountingOn(v) ==
  /\ Statement(v, "On", 1)
  /\ LET closed == {s \in Sessions : IsOpen(s) /\ radacct[s].start <= v.at}
     IN /\ Answer(v, [s \in Sessions |-> IF s \in closed THEN ClosedAt(radacct[s], v.at)
                                                         ELSE radacct[s]])
        /\ settled' = settled \cup closed
  /\ UNCHANGED answered

Serve(v) ==
  \/ StartInsert(v) \/ StartUpdate(v)
  \/ InterimUpdate(v) \/ InterimInsert(v)
  \/ StopUpdate(v) \/ StopInsert(v) \/ StopUpdateAny(v)
  \/ AccountingOn(v)

-----------------------------------------------------------------------------
(* The API and the job *)

DeleteRows(gone) ==
  /\ radacct' = [s \in Sessions |-> IF s \in gone THEN None ELSE radacct[s]]
  /\ settled' = settled \ gone /\ answered' = answered \ gone
  /\ UNCHANGED <<switchVars, received, serving>>

DeleteAccounting(s) ==
  /\ radacct[s] # None
  /\ DeleteRows({s})
  /\ UNCHANGED <<known, pruning>>

\* An endpoint goes, and its sessions with it (cascade).
DeleteEndpoint(s) ==
  /\ s \in known
  /\ known' = known \ {s}
  /\ DeleteRows({s})
  /\ UNCHANGED pruning

\* The user authenticates.
CreateEndpoint(s) ==
  /\ s \notin known
  /\ known' = known \cup {s}
  /\ UNCHANGED <<switchVars, received, serving, radacct, pruning, historyVars>>

\* The first DELETE of prune_radacct: sessions that ended long ago.
PruneOld ==
  /\ ~ pruning
  /\ pruning' = TRUE
  /\ DeleteRows({s \in Sessions : /\ radacct[s] # None
                                  /\ radacct[s].stop # None
                                  /\ radacct[s].stop + RetentionTime < now})
  /\ UNCHANGED known

Orphan(s) == radacct[s] # None /\ s \notin known

\* Fault: only closed sessions are pruned.
PruneClosedOrphans ==
  /\ pruning
  /\ pruning' = FALSE
  /\ DeleteRows({s \in Sessions : Orphan(s) /\ radacct[s].stop # None})
  /\ UNCHANGED known

\* The second: sessions without an endpoint.
PruneOrphans ==
  /\ pruning
  /\ pruning' = FALSE
  /\ DeleteRows({s \in Sessions : Orphan(s)})
  /\ UNCHANGED known

-----------------------------------------------------------------------------
Init ==
  /\ now = 0
  /\ begun = [s \in Sessions |-> None] /\ ended = [s \in Sessions |-> None]
  /\ boots = {} /\ sent = {} /\ received = 0 /\ serving = {}
  /\ radacct = [s \in Sessions |-> None]
  /\ known = Sessions /\ pruning = FALSE
  /\ settled = {} /\ answered = {}

SwitchNext ==
  \/ Tick \/ Reboot
  \/ \E s \in Sessions : BeginSession(s) \/ ReportSession(s) \/ EndSession(s)

ServerNext ==
  \/ \E p \in sent : Receive(p)
  \/ \E v \in serving : Serve(v)

TableNext ==
  \/ \E s \in Sessions : DeleteAccounting(s) \/ DeleteEndpoint(s) \/ CreateEndpoint(s)
  \/ PruneOld \/ PruneOrphans

Next == SwitchNext \/ ServerNext \/ TableNext

\* The job runs every day, and the threads of FreeRADIUS finish.
Fairness ==
  /\ WF_vars(PruneOld) /\ WF_vars(PruneOrphans)
  /\ WF_vars(\E v \in serving : Serve(v))

Spec == Init /\ [][Next]_vars /\ Fairness

-----------------------------------------------------------------------------
(* Properties *)

TypeOK ==
  /\ now \in Nat /\ received \in Nat /\ boots \subseteq Nat
  /\ begun \in [Sessions -> Nat \cup {None}] /\ ended \in [Sessions -> Nat \cup {None}]
  /\ sent \subseteq Packet /\ serving \subseteq Service
  /\ radacct \in [Sessions -> Row \cup {None}]
  /\ known \subseteq Sessions /\ pruning \in BOOLEAN
  /\ settled \subseteq Sessions /\ answered \subseteq Sessions

\* A session that a Stop or an Accounting-On has closed has a row and stays closed until that
\* row is deleted: no Start or Interim-Update, late, repeated or served at the same time,
\* opens it again (the three statements of a Stop in queries.conf).
EndedIsClosed ==
  \A s \in settled : radacct[s] # None /\ radacct[s].stop # None

\* After its Stop the row has the switch's own times and totals, whatever Accounting-On or
\* Interim-Update came before, after or in between.
StopIsExact ==
  Stamped =>
    \A s \in answered :
      /\ radacct[s] # None
      /\ radacct[s].start = begun[s] /\ radacct[s].stop = ended[s]
      /\ radacct[s].length = ended[s] - begun[s]

\* The start time is the switch's, whichever packet made the row, also when the row was
\* deleted under a running session and made again; and no session stops before it starts.
StartIsTrue ==
  Stamped =>
    \A s \in Sessions :
      radacct[s] # None =>
        /\ begun[s] # None /\ radacct[s].start = begun[s]
        /\ radacct[s].stop # None => radacct[s].start <= radacct[s].stop

\* A session that runs is open in the table, unless it began in the second of an
\* Accounting-On: a late Accounting-On spares the sessions that began after it.
RunningIsOpen ==
  Stamped =>
    \A s \in Sessions :
      radacct[s] # None /\ radacct[s].stop # None /\ ended[s] = None => begun[s] \in boots

\* Sessions without an endpoint do not stay, be they open or closed (prune_radacct).
OrphansGo == <>[](\A s \in Sessions : ~ Orphan(s))
=============================================================================
