------------------------------ MODULE DebugLogs ------------------------------
(***************************************************************************)
(* The debug log: on every node a tail of FreeRADIUS's trace file that     *)
(* writes its lines to the table radius_debug_log and prunes it            *)
(* (tools/radmin.py, continuous_log_streamer), and a reader of the table   *)
(* that streams the lines to a browser (routes_v2/debug.py,                *)
(* get_debug_logs).                                                        *)
(*                                                                         *)
(* Time is in seconds.  That a commit takes less than two, and that a      *)
(* reader comes back after its sleep of one second before another one is   *)
(* over, is assumed: time waits for them (see Tick).  created_at is now(), *)
(* when the transaction began.  seen_ids, which forgets after 25000 lines, *)
(* is kept whole.                                                          *)
(***************************************************************************)
EXTENDS Naturals, FiniteSets

CONSTANTS
  None,
  Nodes,        \* NODE_NAME
  Window,       \* how far back a reader looks: 3
  Limit,        \* rows of one SELECT of a reader: 10000
  PruneEvery,   \* lines between two prunings: 100
  Keep,         \* rows a pruning leaves: 1000
  MaxTime,      \* bound on the time
  MaxLines,     \* bound on the lines written to the table
  MaxFailures   \* bound on the failures of a streamer

CommitTime == 1
PollTime == 2

ASSUME DebugLogsAssumption ==
  /\ None \notin Nat /\ None \notin [id : Nat, node : Nodes, created : Nat, inserted : Nat]
  /\ Window \in Nat /\ Limit \in Nat /\ Keep \in Nat
  /\ PruneEvery \in Nat \ {0}
  /\ MaxTime \in Nat /\ MaxLines \in Nat /\ MaxFailures \in Nat

VARIABLES
  now,       \* the time
  rows,      \* table radius_debug_log
  lastId,    \* its sequence
  streamers, \* continuous_log_streamer of each node
  reader,    \* a session of get_debug_logs
  crowded,   \* history: rows that were beyond the Limit of a SELECT
  failures   \* number of failures

vars == <<now, rows, lastId, streamers, reader, crowded, failures>>

\* inserted is history: when the row was written.
Row == [id : Nat, node : Nodes, created : Nat, inserted : Nat]

Streamer ==
  [pc      : {"tail", "commit", "prune", "delete"},
   began   : Nat \cup {None},      \* when the open transaction began
   line    : Row \cup {None},      \* log, between its INSERT and the commit
   counter : 0 .. PruneEvery - 1,
   old     : SUBSET Nat]           \* old_ids

Reader ==
  [polled : Nat,        \* when it last looked
   sent   : SUBSET Nat, \* seen_ids: the lines it has yielded
   owed   : SUBSET Nat] \* history: the lines committed since it connected

Tailing == [pc |-> "tail", began |-> None, line |-> None, counter |-> 0, old |-> {}]

-----------------------------------------------------------------------------
(* The streamer of a node *)

IsBefore(r, q) == r.created < q.created \/ (r.created = q.created /\ r.id < q.id)

Update(n, s) == streamers' = [streamers EXCEPT ![n] = s]

\* A line comes out of tail.  The session begins a transaction, if none is open.
InsertLine(n) ==
  LET s == streamers[n]
      began == IF s.began = None THEN now ELSE s.began
  IN  /\ s.pc = "tail" /\ lastId < MaxLines
      /\ lastId' = lastId + 1
      /\ Update(n, [s EXCEPT !.pc = "commit", !.began = began, !.line =
           [id |-> lastId + 1, node |-> n, created |-> began, inserted |-> now]])
      /\ UNCHANGED <<now, rows, reader, crowded, failures>>

\* Fault: the counter is not set back.
CountOn(s) == [s EXCEPT !.pc = IF s.counter + 1 >= PruneEvery THEN "prune" ELSE "tail",
                        !.counter = s.counter + 1]

Count(s) ==
  IF s.counter + 1 >= PruneEvery THEN [s EXCEPT !.pc = "prune", !.counter = 0]
  ELSE [s EXCEPT !.pc = "tail", !.counter = s.counter + 1]

CommitLine(n) ==
  LET s == streamers[n]
  IN  /\ s.pc = "commit"
      /\ rows' = rows \cup {s.line}
      /\ Update(n, [Count(s) EXCEPT !.began = None, !.line = None])
      /\ reader' = IF reader = None THEN None
                   ELSE [reader EXCEPT !.owed = reader.owed \cup {s.line.id}]
      /\ UNCHANGED <<now, lastId, crowded, failures>>

\* Fault: one row too many is kept.
OldIdsButOne ==
  {r.id : r \in {q \in rows : Cardinality({p \in rows : IsBefore(q, p)}) > Keep}}

\* What is left of the table, newest first, after the first Keep rows; of every node.  Rows
\* of one time, which the database may return in any order, are taken by id.
OldIds ==
  {r.id : r \in {q \in rows : Cardinality({p \in rows : IsBefore(q, p)}) >= Keep}}

\* The SELECT begins a transaction.  When it returns nothing, no commit ends it: the next
\* line is inserted in it.
SelectOld(n) ==
  LET s == streamers[n]
  IN  /\ s.pc = "prune"
      /\ Update(n, [s EXCEPT !.began = now, !.old = OldIds,
                             !.pc = IF OldIds = {} THEN "tail" ELSE "delete"])
      /\ UNCHANGED <<now, rows, lastId, reader, crowded, failures>>

\* The rows of this node among them.
DeleteOld(n) ==
  LET s == streamers[n]
  IN  /\ s.pc = "delete"
      /\ rows' = {r \in rows : r.node # n \/ r.id \notin s.old}
      /\ Update(n, [s EXCEPT !.pc = "tail", !.began = None, !.old = {}])
      /\ UNCHANGED <<now, lastId, reader, crowded, failures>>

\* An exception: the session is closed, and tail begins at the end of the file again, so
\* that the lines of the pause are never seen.
StreamerFails(n) ==
  /\ failures < MaxFailures
  /\ failures' = failures + 1
  /\ Update(n, [Tailing EXCEPT !.counter = streamers[n].counter])
  /\ UNCHANGED <<now, rows, lastId, reader, crowded>>

\* The sidecar is started again.
SidecarRestarts(n) ==
  /\ failures < MaxFailures
  /\ failures' = failures + 1
  /\ Update(n, Tailing)
  /\ UNCHANGED <<now, rows, lastId, reader, crowded>>

\* radius_debug_start deletes the lines of its node.
DebugStart(n) ==
  /\ \E r \in rows : r.node = n
  /\ rows' = {r \in rows : r.node # n}
  /\ UNCHANGED <<now, lastId, streamers, reader, crowded, failures>>

-----------------------------------------------------------------------------
(* The API *)

DeleteDebugLogs ==
  /\ rows # {}
  /\ rows' = {}
  /\ UNCHANGED <<now, lastId, streamers, reader, crowded, failures>>

Connect ==
  /\ reader = None
  /\ reader' = [polled |-> now, sent |-> {}, owed |-> {}]
  /\ crowded' = {}
  /\ UNCHANGED <<now, rows, lastId, streamers, failures>>

Disconnect ==
  /\ reader # None
  /\ reader' = None
  /\ UNCHANGED <<now, rows, lastId, streamers, crowded, failures>>

\* Fault: a second less.
InShortWindow == {r \in rows : r.created + Window > now}

\* The window of get_debug_logs; the clock of the API is taken to be the database's.
InWindow == {r \in rows : r.created + Window >= now}

\* The result of its SELECT: the oldest first.
Result == {r.id : r \in {q \in InWindow : Cardinality({p \in InWindow : IsBefore(p, q)}) < Limit}}

Poll ==
  /\ reader # None
  /\ reader' = [reader EXCEPT !.polled = now, !.sent = reader.sent \cup Result]
  /\ crowded' = crowded \cup ({r.id : r \in InWindow} \ Result)
  /\ UNCHANGED <<now, rows, lastId, streamers, failures>>

-----------------------------------------------------------------------------
Init ==
  /\ now = 0 /\ rows = {} /\ lastId = 0
  /\ streamers = [n \in Nodes |-> Tailing]
  /\ reader = None /\ crowded = {} /\ failures = 0

Tick ==
  /\ now < MaxTime
  /\ reader # None => now < reader.polled + PollTime
  /\ \A n \in Nodes : streamers[n].line # None => now < streamers[n].line.inserted + CommitTime
  /\ now' = now + 1
  /\ UNCHANGED <<rows, lastId, streamers, reader, crowded, failures>>

StreamerStep(n) ==
  \/ InsertLine(n) \/ CommitLine(n) \/ SelectOld(n) \/ DeleteOld(n)
  \/ StreamerFails(n) \/ SidecarRestarts(n) \/ DebugStart(n)

Next ==
  \/ Tick
  \/ \E n \in Nodes : StreamerStep(n)
  \/ DeleteDebugLogs \/ Connect \/ Disconnect \/ Poll

Spec == Init /\ [][Next]_vars

-----------------------------------------------------------------------------
(* Properties *)

TypeOK ==
  /\ now \in Nat /\ lastId \in Nat /\ failures \in Nat
  /\ rows \subseteq Row /\ crowded \subseteq Nat
  /\ streamers \in [Nodes -> Streamer]
  /\ reader = None \/ reader \in Reader

\* A line committed while a reader is connected is sent to it before it leaves the window,
\* unless it was deleted, or there were more lines than a SELECT returns, or it was inserted
\* in a transaction that an earlier pruning had begun.
LinesAreStreamed ==
  reader # None =>
    \A r \in rows :
      r.id \in reader.owed /\ r.created + Window < now =>
        \/ r.id \in reader.sent
        \/ r.id \in crowded
        \/ r.created < r.inserted

\* The lines of a node stay bounded, however many there were and whatever other nodes write
\* and delete: those a pruning keeps, those counted since, and one round more for each time a
\* streamer failed before its pruning or a restart forgot the count.
LinesAreBounded ==
  \A n \in Nodes :
    LET s == streamers[n]
        round == IF s.pc \in {"prune", "delete"} THEN PruneEvery ELSE s.counter
    IN  Cardinality({r \in rows : r.node = n}) <= Keep + round + PruneEvery * failures
=============================================================================
