--------------------------- MODULE DebugLogsProofs ---------------------------
(***************************************************************************)
(* Theorems about DebugLogs, for any nodes, limits, windows and failures.  *)
(*                                                                         *)
(* Two things carry them.  Rows are ordered by the time they were created  *)
(* and by their ids, so those with fewer than Keep rows after them are at  *)
(* most Keep: that bounds what a pruning leaves of the rows of its node,   *)
(* whatever other nodes write between its SELECT and its DELETE.  And a    *)
(* row that the reader has not seen is younger than its last look, but for *)
(* the time a commit takes.                                                *)
(***************************************************************************)
EXTENDS DebugLogs, FiniteSetTheorems, TLAPS

OfNode(S, n) == {r \in S : r.node = n}

\* The rows a pruning leaves when it deletes those it has selected.
Left(S, n, old) == {r \in S : r.node = n /\ r.id \notin old}

UniqueIds(S) == \A r, q \in S : r.id = q.id => r = q

\* The table: its rows have ids of their own, drawn from the sequence.
RowsInv ==
  /\ IsFiniteSet(rows)
  /\ UniqueIds(rows)
  /\ \A r \in rows : r.id <= lastId

\* A line that waits for its commit: it has an id of its own, and does not wait long.
WaitsWell(n, line) ==
  /\ line.node = n /\ line.id <= lastId
  /\ line.inserted <= now /\ now <= line.inserted + CommitTime
  /\ \A r \in rows : r.id # line.id
  /\ \A m \in Nodes \ {n} : streamers[m].line # None => streamers[m].line.id # line.id

LinesInv ==
  \A n \in Nodes :
    /\ streamers[n].pc = "commit" <=> streamers[n].line # None
    /\ streamers[n].line # None => WaitsWell(n, streamers[n].line)

\* The reader comes back in time, and what it has not seen came after its last look.
ReaderInv ==
  reader # None =>
    /\ reader.polled <= now /\ now <= reader.polled + PollTime
    /\ \A r \in rows :
         \/ r.id \notin reader.owed \/ r.id \in reader.sent \cup crowded
         \/ r.created < r.inserted
         \/ reader.polled <= r.inserted + CommitTime

DebugInv == TypeOK /\ RowsInv /\ LinesInv

-----------------------------------------------------------------------------
(* The latest rows *)

After(S, r) == {p \in S : IsBefore(r, p)}

Latest(S, k) == {r \in S : Cardinality(After(S, r)) < k}

\* Of two rows one is before the other, and then has more rows after it.
LEMMA RowsAreRanked ==
  ASSUME NEW S \in SUBSET Row, IsFiniteSet(S), UniqueIds(S), NEW r \in S, NEW q \in S, r # q
  PROVE  Cardinality(After(S, r)) # Cardinality(After(S, q))
<1>1. r.id # q.id
  BY DEF UniqueIds
<1>2. IsBefore(r, q) \/ IsBefore(q, r)
  BY <1>1 DEF IsBefore, Row
<1>3. ASSUME NEW x \in S, NEW y \in S, IsBefore(x, y)
      PROVE  Cardinality(After(S, x)) # Cardinality(After(S, y))
  <2>1. After(S, y) \in SUBSET After(S, x)
    BY <1>3 DEF After, IsBefore, Row
  <2>2. y \in After(S, x) /\ y \notin After(S, y)
    BY <1>3 DEF After, IsBefore, Row
  <2>3. IsFiniteSet(After(S, x))
    BY FS_Subset DEF After
  <2> QED
    BY <2>1, <2>2, <2>3, FS_Subset
<1> QED
  BY <1>2, <1>3

\* The rows with fewer than k after them are at most k.
LEMMA LatestAreFew ==
  ASSUME NEW S \in SUBSET Row, IsFiniteSet(S), UniqueIds(S), NEW k \in Nat
  PROVE  IsFiniteSet(Latest(S, k)) /\ Cardinality(Latest(S, k)) <= k
<1> DEFINE rank == [r \in Latest(S, k) |-> Cardinality(After(S, r))]
<1>1. IsFiniteSet(Latest(S, k)) /\ Cardinality(Latest(S, k)) \in Nat
  BY FS_Subset, FS_CardinalityType DEF Latest
<1>2. IsFiniteSet(0 .. k - 1) /\ Cardinality(0 .. k - 1) = k
  BY FS_Interval
<1>3. rank \in [Latest(S, k) -> 0 .. k - 1]
  <2>1. ASSUME NEW r \in Latest(S, k)
        PROVE  Cardinality(After(S, r)) \in 0 .. k - 1
    <3>1. After(S, r) \in SUBSET S
      BY DEF After
    <3>2. Cardinality(After(S, r)) \in Nat
      BY <3>1, FS_Subset, FS_CardinalityType
    <3> QED
      BY <3>2 DEF Latest
  <2> QED
    BY <2>1
<1>4. \A r, q \in Latest(S, k) : r # q => rank[r] # rank[q]
  BY RowsAreRanked DEF Latest
<1>5. ~ Cardinality(0 .. k - 1) < Cardinality(Latest(S, k))
  <2> HIDE DEF rank
  <2> QED
    BY <1>1, <1>2, <1>3, <1>4, FS_PigeonHole
<1> QED
  BY <1>1, <1>2, <1>5

\* What a pruning leaves of the rows of its node, had it deleted at once.
LEMMA LeftAreFew ==
  ASSUME TypeOK, RowsInv, NEW n \in Nodes
  PROVE  /\ Cardinality(Left(rows, n, OldIds)) <= Keep
         /\ OldIds = {} => Cardinality(OfNode(rows, n)) <= Keep
<1>1. rows \in SUBSET Row /\ Keep \in Nat
  BY DebugLogsAssumption DEF TypeOK
<1>2. IsFiniteSet(Latest(rows, Keep)) /\ Cardinality(Latest(rows, Keep)) <= Keep
  BY <1>1, LatestAreFew DEF RowsInv
<1>3. ASSUME NEW r \in rows, r.id \notin OldIds
      PROVE  r \in Latest(rows, Keep)
  <2>1. Cardinality(After(rows, r)) \in Nat
    BY FS_Subset, FS_CardinalityType DEF RowsInv, After
  <2>2. ~ Cardinality(After(rows, r)) >= Keep
    BY <1>3 DEF OldIds, After
  <2> QED
    BY <1>1, <2>1, <2>2 DEF Latest
<1>4. ASSUME NEW S \in SUBSET Latest(rows, Keep)
      PROVE  Cardinality(S) <= Keep
  BY <1>1, <1>2, FS_Subset, FS_CardinalityType
<1> QED
  BY <1>3, <1>4 DEF Left, OfNode

-----------------------------------------------------------------------------
(* Types, ids and the lines that wait *)

LEMMA UpdateStreamer ==
  ASSUME streamers \in [Nodes -> Streamer], NEW n \in Nodes, NEW s \in Streamer, Update(n, s)
  PROVE  /\ streamers' \in [Nodes -> Streamer]
         /\ streamers'[n] = s
         /\ \A m \in Nodes \ {n} : streamers'[m] = streamers[m]
BY DEF Update

\* Fewer rows, and fewer lines that wait.
LEMMA FewerRows ==
  ASSUME DebugInv,
         streamers' \in [Nodes -> Streamer], reader' = None \/ reader' \in Reader,
         rows' \subseteq rows, crowded' \subseteq Nat, failures' \in Nat,
         now' = now, lastId' = lastId,
         \A n \in Nodes :
           /\ streamers'[n].line # None => streamers'[n].line = streamers[n].line
           /\ streamers'[n].pc = "commit" <=> streamers'[n].line # None
  PROVE  DebugInv'
<1>1. TypeOK'
  BY DEF DebugInv, TypeOK
<1>2. RowsInv'
  BY FS_Subset DEF DebugInv, RowsInv, UniqueIds
<1>3. LinesInv'
  BY DEF DebugInv, LinesInv, WaitsWell
<1> QED
  BY <1>1, <1>2, <1>3 DEF DebugInv

LEMMA InsertLineKeeps ==
  ASSUME DebugInv, NEW n \in Nodes, InsertLine(n)
  PROVE  DebugInv'
<1> DEFINE s == streamers[n]
           began == IF s.began = None THEN now ELSE s.began
           line == [id |-> lastId + 1, node |-> n, created |-> began, inserted |-> now]
           t == [s EXCEPT !.pc = "commit", !.began = began, !.line = line]
<1>1. s \in Streamer /\ now \in Nat /\ lastId \in Nat
  BY DEF DebugInv, TypeOK
<1>2. line \in Row /\ began \in Nat
  BY <1>1 DEF Row, Streamer
<1>3. t \in Streamer /\ t.line = line /\ t.pc = "commit"
  BY <1>1, <1>2 DEF Streamer
<1>4. Update(n, t) /\ lastId' = lastId + 1 /\ UNCHANGED <<now, rows, reader, crowded, failures>>
  BY DEF InsertLine
<1> HIDE DEF t
<1>5. /\ streamers' \in [Nodes -> Streamer] /\ streamers'[n] = t
      /\ \A m \in Nodes \ {n} : streamers'[m] = streamers[m]
  BY <1>3, <1>4, UpdateStreamer DEF DebugInv, TypeOK
<1>6. TypeOK'
  BY <1>1, <1>4, <1>5 DEF DebugInv, TypeOK
<1>7. RowsInv'
  BY <1>1, <1>4 DEF DebugInv, RowsInv, UniqueIds, TypeOK, Row
<1>8. LinesInv'
  <2> SUFFICES ASSUME NEW m \in Nodes
               PROVE  /\ streamers'[m].pc = "commit" <=> streamers'[m].line # None
                      /\ streamers'[m].line # None => WaitsWell(m, streamers[m].line)'
    BY DEF LinesInv, WaitsWell
  <2>1. \A r \in rows : r.id <= lastId /\ r.id \in Nat
    BY DEF DebugInv, TypeOK, RowsInv, Row
  <2>2. \A k \in Nodes : streamers[k].line # None =>
          streamers[k].line.id <= lastId /\ streamers[k].line.id \in Nat
    BY DEF DebugInv, TypeOK, LinesInv, WaitsWell, Streamer, Row
  <2>3. CASE m = n
    <3>1. line # None
      BY <1>2, DebugLogsAssumption DEF Row
    <3>2. WaitsWell(m, streamers[m].line)'
      BY <1>1, <1>3, <1>4, <1>5, <2>1, <2>2, <2>3 DEF WaitsWell, CommitTime
    <3> QED
      BY <1>3, <1>5, <2>3, <3>1, <3>2
  <2>4. CASE m # n
    BY <1>1, <1>3, <1>4, <1>5, <2>2, <2>4 DEF DebugInv, LinesInv, WaitsWell
  <2> QED
    BY <2>3, <2>4
<1> QED
  BY <1>6, <1>7, <1>8 DEF DebugInv

\* The streamer after its commit.
Committed(s) == [Count(s) EXCEPT !.began = None, !.line = None]

LEMMA CommittedType ==
  ASSUME NEW s \in Streamer
  PROVE  /\ Committed(s) \in Streamer /\ Committed(s).line = None
         /\ \/ Committed(s).pc = "prune" /\ Committed(s).counter = 0 /\ s.counter + 1 >= PruneEvery
            \/ Committed(s).pc = "tail" /\ Committed(s).counter = s.counter + 1
<1>1. s.counter \in 0 .. PruneEvery - 1 /\ PruneEvery \in Nat \ {0}
  BY DebugLogsAssumption DEF Streamer
<1> 0 \in 0 .. PruneEvery - 1
  BY <1>1
<1>2. CASE s.counter + 1 >= PruneEvery
  <2>1. Count(s) = [s EXCEPT !.pc = "prune", !.counter = 0]
    BY <1>2 DEF Count
  <2>2. /\ Count(s) \in Streamer
        /\ Count(s).pc = "prune" /\ Count(s).counter = 0
    BY <1>1, <2>1 DEF Streamer
  <2> QED
    BY <1>2, <2>2 DEF Committed, Streamer
<1>3. CASE ~ s.counter + 1 >= PruneEvery
  <2>1. Count(s) = [s EXCEPT !.pc = "tail", !.counter = s.counter + 1]
    BY <1>3 DEF Count
  <2>2. s.counter + 1 \in 0 .. PruneEvery - 1
    BY <1>1, <1>3
  <2>3. /\ Count(s) \in Streamer
        /\ Count(s).pc = "tail" /\ Count(s).counter = s.counter + 1
    BY <2>1, <2>2 DEF Streamer
  <2> QED
    BY <2>3 DEF Committed, Streamer
<1> QED
  BY <1>2, <1>3

LEMMA CommitLineKeeps ==
  ASSUME DebugInv, NEW n \in Nodes, CommitLine(n)
  PROVE  DebugInv'
<1> DEFINE s == streamers[n]
           t == Committed(s)
<1>1. s \in Streamer /\ s.line \in Row /\ WaitsWell(n, s.line)
  BY DEF DebugInv, TypeOK, LinesInv, CommitLine, Streamer
<1>2. /\ Update(n, t) /\ rows' = rows \cup {s.line}
      /\ UNCHANGED <<now, lastId, crowded, failures>>
  BY DEF CommitLine, Committed
<1>3. t \in Streamer /\ t.line = None /\ t.pc # "commit"
  BY <1>1, CommittedType
<1>4. /\ streamers' \in [Nodes -> Streamer] /\ streamers'[n] = t
      /\ \A m \in Nodes \ {n} : streamers'[m] = streamers[m]
  BY <1>2, <1>3, UpdateStreamer DEF DebugInv, TypeOK
<1> HIDE DEF t
<1>5. TypeOK'
  <2>1. reader' = None \/ reader' \in Reader
    BY <1>1 DEF CommitLine, DebugInv, TypeOK, Reader, Row
  <2> QED
    BY <1>1, <1>2, <1>4, <2>1 DEF DebugInv, TypeOK
<1>6. RowsInv'
  <2>1. IsFiniteSet(rows')
    BY <1>2, FS_AddElement DEF DebugInv, RowsInv
  <2>2. UniqueIds(rows')
    BY <1>1, <1>2 DEF DebugInv, RowsInv, UniqueIds, WaitsWell
  <2>3. \A r \in rows' : r.id <= lastId'
    BY <1>1, <1>2 DEF DebugInv, RowsInv, WaitsWell
  <2> QED
    BY <2>1, <2>2, <2>3 DEF RowsInv
<1>7. LinesInv'
  <2> SUFFICES ASSUME NEW m \in Nodes
               PROVE  /\ streamers'[m].pc = "commit" <=> streamers'[m].line # None
                      /\ streamers'[m].line # None => WaitsWell(m, streamers[m].line)'
    BY DEF LinesInv, WaitsWell
  <2>1. CASE m = n
    BY <1>3, <1>4, <2>1
  <2>2. CASE m # n
    BY <1>1, <1>2, <1>3, <1>4, <2>2 DEF DebugInv, LinesInv, WaitsWell
  <2> QED
    BY <2>1, <2>2
<1> QED
  BY <1>5, <1>6, <1>7 DEF DebugInv

\* The other steps of a streamer write no row, and leave no line waiting but those that were.
LEMMA StreamerKeeps ==
  ASSUME DebugInv, NEW n \in Nodes, NEW s \in Streamer, Update(n, s),
         s.pc # "commit" /\ s.line = None,
         rows' \subseteq rows, failures' \in Nat, UNCHANGED <<now, lastId, reader, crowded>>
  PROVE  DebugInv'
<1>1. /\ streamers' \in [Nodes -> Streamer] /\ streamers'[n] = s
      /\ \A m \in Nodes \ {n} : streamers'[m] = streamers[m]
  BY UpdateStreamer DEF DebugInv, TypeOK
<1>2. ASSUME NEW m \in Nodes
      PROVE  /\ streamers'[m].line # None => streamers'[m].line = streamers[m].line
             /\ streamers'[m].pc = "commit" <=> streamers'[m].line # None
  <2>1. CASE m = n
    BY <1>1, <2>1
  <2>2. CASE m # n
    BY <1>1, <2>2 DEF DebugInv, LinesInv
  <2> QED
    BY <2>1, <2>2
<1>3. crowded' \subseteq Nat /\ (reader' = None \/ reader' \in Reader)
  BY DEF DebugInv, TypeOK
<1> QED
  BY <1>1, <1>2, <1>3, FewerRows

\* What a streamer is at after each of these steps.
SelectedOld(s) ==
  [s EXCEPT !.began = now, !.old = OldIds, !.pc = IF OldIds = {} THEN "tail" ELSE "delete"]

DeletedOld(s) == [s EXCEPT !.pc = "tail", !.began = None, !.old = {}]

FailedAt(s) == [Tailing EXCEPT !.counter = s.counter]

LEMMA StreamerTypes ==
  ASSUME DebugInv, NEW n \in Nodes
  PROVE  LET s == streamers[n]
         IN  /\ Tailing \in Streamer /\ FailedAt(s) \in Streamer
             /\ s.pc = "prune" => SelectedOld(s) \in Streamer /\ SelectedOld(s).line = None
             /\ s.pc = "delete" => DeletedOld(s) \in Streamer /\ DeletedOld(s).line = None
<1> DEFINE s == streamers[n]
<1>1. s \in Streamer /\ now \in Nat /\ (s.pc # "commit" => s.line = None)
  BY DEF DebugInv, TypeOK, LinesInv
<1>2. OldIds \subseteq Nat
  BY DEF DebugInv, TypeOK, OldIds, Row
<1>3. 0 \in 0 .. PruneEvery - 1
  BY DebugLogsAssumption
<1>4. Tailing \in Streamer
  BY <1>3 DEF Tailing, Streamer
<1>5. FailedAt(s) \in Streamer
  BY <1>1, <1>4 DEF FailedAt, Streamer
<1>6. ASSUME s.pc = "prune"
      PROVE  SelectedOld(s) \in Streamer /\ SelectedOld(s).line = None
  BY <1>1, <1>2, <1>6 DEF SelectedOld, Streamer
<1>7. ASSUME s.pc = "delete"
      PROVE  DeletedOld(s) \in Streamer /\ DeletedOld(s).line = None
  BY <1>1, <1>7 DEF DeletedOld, Streamer
<1> QED
  BY <1>4, <1>5, <1>6, <1>7

LEMMA DebugStep ==
  ASSUME DebugInv, [Next]_vars
  PROVE  DebugInv'
<1>1. ASSUME NEW n \in Nodes, StreamerStep(n)
      PROVE  DebugInv'
  <2> DEFINE s == streamers[n]
  <2>1. CASE InsertLine(n)
    BY <2>1, InsertLineKeeps
  <2>2. CASE CommitLine(n)
    BY <2>2, CommitLineKeeps
  <2>3. CASE SelectOld(n)
    <3>1. Update(n, SelectedOld(s)) /\ s.pc = "prune" /\ SelectedOld(s).pc # "commit"
      BY <2>3 DEF SelectOld, SelectedOld, DebugInv, TypeOK, Streamer
    <3> QED
      BY <2>3, <3>1, StreamerTypes, StreamerKeeps DEF SelectOld, DebugInv, TypeOK
  <2>4. CASE DeleteOld(n)
    <3>1. Update(n, DeletedOld(s)) /\ s.pc = "delete" /\ DeletedOld(s).pc # "commit"
      BY <2>4 DEF DeleteOld, DeletedOld, DebugInv, TypeOK, Streamer
    <3> QED
      BY <2>4, <3>1, StreamerTypes, StreamerKeeps DEF DeleteOld, DebugInv, TypeOK
  <2>5. CASE StreamerFails(n)
    <3>1. Update(n, FailedAt(s)) /\ FailedAt(s).pc # "commit" /\ FailedAt(s).line = None
      BY <2>5 DEF StreamerFails, FailedAt, Tailing
    <3> QED
      BY <2>5, <3>1, StreamerTypes, StreamerKeeps DEF StreamerFails, DebugInv, TypeOK
  <2>6. CASE SidecarRestarts(n)
    <3>1. Tailing.pc # "commit" /\ Tailing.line = None
      BY DEF Tailing
    <3> QED
      BY <2>6, <3>1, StreamerTypes, StreamerKeeps DEF SidecarRestarts, DebugInv, TypeOK
  <2>7. CASE DebugStart(n)
    BY <2>7, FewerRows DEF DebugStart, DebugInv, TypeOK, LinesInv
  <2> QED
    BY <1>1, <2>1, <2>2, <2>3, <2>4, <2>5, <2>6, <2>7 DEF StreamerStep
<1>2. CASE DeleteDebugLogs
  BY <1>2, FewerRows DEF DeleteDebugLogs, DebugInv, TypeOK, LinesInv
<1>3. CASE Connect
  <2>1. reader' \in Reader
    BY <1>3 DEF Connect, Reader, DebugInv, TypeOK
  <2> QED
    BY <1>3, <2>1, FewerRows DEF Connect, DebugInv, TypeOK, LinesInv
<1>4. CASE Disconnect
  BY <1>4, FewerRows DEF Disconnect, DebugInv, TypeOK, LinesInv
<1>5. CASE Poll
  <2>0. Result \subseteq Nat /\ {r.id : r \in InWindow} \subseteq Nat
    BY DEF Result, InWindow, Row, DebugInv, TypeOK
  <2>1. reader' \in Reader /\ crowded' \subseteq Nat
    BY <1>5, <2>0 DEF Poll, Reader, DebugInv, TypeOK
  <2> QED
    BY <1>5, <2>1, FewerRows DEF Poll, DebugInv, TypeOK, LinesInv
<1>6. CASE Tick
  <2>1. TypeOK' /\ RowsInv'
    BY <1>6 DEF Tick, DebugInv, TypeOK, RowsInv, UniqueIds
  <2>2. LinesInv'
    <3> SUFFICES ASSUME NEW n \in Nodes, streamers[n].line # None
                 PROVE  WaitsWell(n, streamers[n].line)'
      BY <1>6 DEF Tick, DebugInv, LinesInv, WaitsWell
    <3>1. streamers[n].line \in Row /\ now \in Nat
      BY DEF DebugInv, TypeOK, Streamer
    <3> QED
      BY <1>6, <3>1 DEF Tick, DebugInv, LinesInv, WaitsWell, Row, CommitTime
  <2> QED
    BY <2>1, <2>2 DEF DebugInv
<1>7. CASE UNCHANGED vars
  BY <1>7 DEF vars, DebugInv, TypeOK, RowsInv, UniqueIds, LinesInv, WaitsWell
<1> QED
  BY <1>1, <1>2, <1>3, <1>4, <1>5, <1>6, <1>7 DEF Next

LEMMA InitDebug == Init => DebugInv
<1> SUFFICES ASSUME Init PROVE DebugInv
  OBVIOUS
<1>1. Tailing \in Streamer
  BY DebugLogsAssumption DEF Tailing, Streamer
<1>2. TypeOK
  BY <1>1 DEF Init, TypeOK
<1>3. RowsInv
  BY FS_EmptySet DEF Init, RowsInv, UniqueIds
<1>4. LinesInv
  BY DEF Init, LinesInv, Tailing
<1> QED
  BY <1>2, <1>3, <1>4 DEF DebugInv

\* The variables of the debug log have their types: the ids a pruning has selected and those
\* a reader has sent among them.
THEOREM TypeCorrect == Spec => []TypeOK
<1>1. DebugInv /\ [Next]_vars => DebugInv'
  BY DebugStep
<1>2. DebugInv => TypeOK
  BY DEF DebugInv
<1> QED
  BY InitDebug, <1>1, <1>2, PTL DEF Spec

-----------------------------------------------------------------------------
(* The lines of a node are bounded *)

RoundOf(s) == IF s.pc \in {"prune", "delete"} THEN PruneEvery ELSE s.counter

Bound(s) == Keep + RoundOf(s) + PruneEvery * failures

\* A streamer that prunes has set its counter back; what it is about to leave is within Keep,
\* whatever has been written since it selected the rest.
BoundOfNode(n) ==
  LET s == streamers[n]
  IN  /\ s.pc \in {"prune", "delete"} => s.counter = 0
      /\ s.pc = "delete" => Cardinality(Left(rows, n, s.old)) <= Keep
      /\ Cardinality(OfNode(rows, n)) <= Bound(s)

LEMMA BoundByNode == (\A n \in Nodes : BoundOfNode(n)) => LinesAreBounded
BY DEF LinesAreBounded, BoundOfNode, Bound, RoundOf, OfNode

LEMMA Rounds ==
  ASSUME NEW k \in Nat, NEW f \in Nat, NEW g \in Nat, f <= g
  PROVE  /\ k * f \in Nat /\ k * g \in Nat /\ k * f <= k * g
         /\ g = f + 1 => k * g = k * f + k
<1>1. PICK d \in Nat : g = f + d
  BY g - f \in Nat, g = f + (g - f)
<1>2. k * d \in Nat /\ k * f \in Nat
  OBVIOUS
<1>3. k * (f + d) = k * f + k * d
  OBVIOUS
<1>4. g = f + 1 => k * g = k * f + k
  OBVIOUS
<1> QED
  BY <1>1, <1>2, <1>3, <1>4

\* No more rows of the node, and no fewer lines counted.
LEMMA NodeKeeps ==
  ASSUME DebugInv, DebugInv', NEW n \in Nodes, BoundOfNode(n),
         OfNode(rows', n) \subseteq OfNode(rows, n),
         failures' \in Nat, failures <= failures',
         \/ streamers'[n] = streamers[n]
         \/ failures' = failures + 1 /\ streamers'[n].pc = "tail"
  PROVE  BoundOfNode(n)'
<1> DEFINE s == streamers[n]
           t == streamers'[n]
<1>1. /\ Keep \in Nat /\ PruneEvery \in Nat /\ failures \in Nat
      /\ s.counter \in 0 .. PruneEvery - 1 /\ t.counter \in 0 .. PruneEvery - 1
  BY DebugLogsAssumption DEF DebugInv, TypeOK, Streamer
<1>2. /\ PruneEvery * failures \in Nat /\ PruneEvery * failures' \in Nat
      /\ PruneEvery * failures <= PruneEvery * failures'
      /\ failures' = failures + 1 => PruneEvery * failures' = PruneEvery * failures + PruneEvery
  BY <1>1, Rounds
<1>3. /\ IsFiniteSet(OfNode(rows, n)) /\ Cardinality(OfNode(rows, n)) \in Nat
      /\ Cardinality(OfNode(rows', n)) \in Nat
      /\ Cardinality(OfNode(rows', n)) <= Cardinality(OfNode(rows, n))
  BY FS_Subset, FS_CardinalityType DEF DebugInv, RowsInv, OfNode
<1>4. ASSUME t = s, t.pc = "delete"
      PROVE  Cardinality(Left(rows', n, t.old)) <= Keep
  <2>1. IsFiniteSet(Left(rows, n, s.old))
    BY FS_Subset DEF DebugInv, RowsInv, Left
  <2>2. Left(rows', n, s.old) \in SUBSET Left(rows, n, s.old)
    BY DEF Left, OfNode
  <2>3. Cardinality(Left(rows, n, s.old)) <= Keep
    BY <1>4 DEF BoundOfNode
  <2>4. /\ Cardinality(Left(rows, n, s.old)) \in Nat
        /\ Cardinality(Left(rows', n, s.old)) \in Nat
        /\ Cardinality(Left(rows', n, s.old)) <= Cardinality(Left(rows, n, s.old))
    BY <2>1, <2>2, FS_Subset, FS_CardinalityType
  <2> QED
    BY <1>1, <1>4, <2>3, <2>4
<1>5. Cardinality(OfNode(rows', n)) <= Keep + RoundOf(t) + PruneEvery * failures'
  BY <1>1, <1>2, <1>3 DEF BoundOfNode, Bound, RoundOf
<1>6. t.pc \in {"prune", "delete"} => t.counter = 0
  BY DEF BoundOfNode
<1>7. t.pc = "delete" => t = s
  OBVIOUS
<1> QED
  BY <1>4, <1>5, <1>6, <1>7 DEF BoundOfNode, Bound

\* A line more, and one more is counted.
LEMMA CommitBounded ==
  ASSUME DebugInv, NEW n \in Nodes, BoundOfNode(n), CommitLine(n)
  PROVE  BoundOfNode(n)'
<1> DEFINE s == streamers[n]
           t == Committed(s)
<1>1. s \in Streamer /\ s.pc = "commit" /\ s.line \in Row /\ WaitsWell(n, s.line)
  BY DEF DebugInv, TypeOK, LinesInv, CommitLine, Streamer
<1>2. /\ Update(n, t) /\ rows' = rows \cup {s.line} /\ failures' = failures
  BY DEF CommitLine, Committed
<1>3. streamers'[n] = t
  BY <1>1, <1>2, CommittedType, UpdateStreamer DEF DebugInv, TypeOK
<1>4. /\ IsFiniteSet(OfNode(rows, n)) /\ Cardinality(OfNode(rows, n)) \in Nat
  BY FS_Subset, FS_CardinalityType DEF DebugInv, RowsInv, OfNode
<1>5. OfNode(rows', n) = OfNode(rows, n) \cup {s.line} /\ s.line \notin OfNode(rows, n)
  BY <1>1, <1>2 DEF OfNode, WaitsWell
<1>6. Cardinality(OfNode(rows', n)) = Cardinality(OfNode(rows, n)) + 1
  BY <1>4, <1>5, FS_AddElement
<1>7. /\ PruneEvery * failures \in Nat /\ PruneEvery \in Nat /\ Keep \in Nat
      /\ s.counter \in Nat /\ s.counter <= PruneEvery - 1
  BY DebugLogsAssumption DEF DebugInv, TypeOK, Streamer
<1>8. Cardinality(OfNode(rows, n)) <= Keep + s.counter + PruneEvery * failures
  BY <1>1 DEF BoundOfNode, Bound, RoundOf
<1>9. RoundOf(t) = s.counter + 1 /\ (t.pc = "prune" => t.counter = 0) /\ t.pc # "delete"
  BY <1>1, <1>7, CommittedType DEF RoundOf
<1> HIDE DEF t
<1>10. Cardinality(OfNode(rows', n)) <= Keep + RoundOf(t) + PruneEvery * failures'
  BY <1>2, <1>4, <1>6, <1>7, <1>8, <1>9
<1> QED
  BY <1>3, <1>9, <1>10 DEF BoundOfNode, Bound

\* A pruning has selected what is too much, if anything.
LEMMA SelectBounded ==
  ASSUME DebugInv, NEW n \in Nodes, BoundOfNode(n), SelectOld(n)
  PROVE  BoundOfNode(n)'
<1> DEFINE s == streamers[n]
           t == SelectedOld(s)
<1>1. s \in Streamer /\ s.pc = "prune" /\ t \in Streamer /\ Update(n, t)
  BY StreamerTypes DEF DebugInv, TypeOK, SelectOld, SelectedOld
<1>2. /\ streamers'[n] = t /\ t.old = OldIds /\ t.counter = s.counter
      /\ OldIds = {} => t.pc = "tail" 
      /\ OldIds # {} => t.pc = "delete"
  BY <1>1, UpdateStreamer DEF DebugInv, TypeOK, SelectedOld, Streamer
<1>3. rows' = rows /\ failures' = failures /\ s.counter = 0
  BY <1>1 DEF SelectOld, BoundOfNode
<1>4. /\ Cardinality(Left(rows, n, OldIds)) <= Keep
      /\ OldIds = {} => Cardinality(OfNode(rows, n)) <= Keep
  BY LeftAreFew DEF DebugInv
<1>5. Cardinality(OfNode(rows, n)) <= Keep + PruneEvery + PruneEvery * failures
  BY <1>1 DEF BoundOfNode, Bound, RoundOf
<1>6. /\ Cardinality(OfNode(rows, n)) \in Nat /\ Keep \in Nat
      /\ PruneEvery * failures \in Nat
  BY DebugLogsAssumption, Rounds, FS_Subset, FS_CardinalityType DEF DebugInv, TypeOK, RowsInv, OfNode
<1> HIDE DEF t
<1>7. Cardinality(OfNode(rows', n)) <= Keep + RoundOf(t) + PruneEvery * failures'
  BY <1>2, <1>3, <1>4, <1>5, <1>6 DEF RoundOf
<1> QED
  BY <1>2, <1>3, <1>4, <1>7 DEF BoundOfNode, Bound

\* It deletes them, and Keep are left.
LEMMA DeleteBounded ==
  ASSUME DebugInv, NEW n \in Nodes, BoundOfNode(n), DeleteOld(n)
  PROVE  BoundOfNode(n)'
<1> DEFINE s == streamers[n]
           t == DeletedOld(s)
<1>1. s \in Streamer /\ s.pc = "delete" /\ t \in Streamer /\ Update(n, t)
  BY StreamerTypes DEF DebugInv, TypeOK, DeleteOld, DeletedOld
<1>2. streamers'[n] = t /\ t.pc = "tail" /\ t.counter = 0
  BY <1>1, UpdateStreamer DEF DebugInv, TypeOK, DeletedOld, Streamer, BoundOfNode
<1>3. OfNode(rows', n) = Left(rows, n, s.old) /\ failures' = failures
  BY DEF DeleteOld, OfNode, Left
<1>4. Cardinality(OfNode(rows', n)) <= Keep
  BY <1>1, <1>3 DEF BoundOfNode
<1>5. IsFiniteSet(Left(rows, n, s.old))
  BY FS_Subset DEF DebugInv, RowsInv, Left
<1>6. Cardinality(OfNode(rows', n)) \in Nat
  BY <1>3, <1>5, FS_CardinalityType
<1>7. Keep \in Nat /\ PruneEvery * failures \in Nat
  BY DebugLogsAssumption, Rounds DEF DebugInv, TypeOK
<1> HIDE DEF t
<1> QED
  BY <1>2, <1>3, <1>4, <1>6, <1>7 DEF BoundOfNode, Bound, RoundOf

LEMMA BoundStep ==
  ASSUME DebugInv, DebugInv', [Next]_vars, NEW n \in Nodes, BoundOfNode(n)
  PROVE  BoundOfNode(n)'
<1>1. failures \in Nat /\ failures' \in Nat
  BY DEF DebugInv, TypeOK
<1>2. ASSUME NEW m \in Nodes, StreamerStep(m)
      PROVE  BoundOfNode(n)'
  <2>1. CASE m # n /\ ~ DebugStart(m)
    <3>1. PICK s \in Streamer : Update(m, s)
      <4>1. streamers \in [Nodes -> Streamer] /\ streamers' \in [Nodes -> Streamer]
        BY DEF DebugInv, TypeOK
      <4>2. \E s : Update(m, s)
        BY <1>2, <2>1
           DEF StreamerStep, InsertLine, CommitLine, SelectOld, DeleteOld, StreamerFails,
               SidecarRestarts
      <4> QED
        BY <4>1, <4>2 DEF Update
    <3>2. streamers'[n] = streamers[n]
      BY <2>1, <3>1, UpdateStreamer DEF DebugInv, TypeOK
    <3>3. OfNode(rows', n) \subseteq OfNode(rows, n)
      <4>1. CASE CommitLine(m)
        BY <2>1, <4>1 DEF CommitLine, OfNode, DebugInv, LinesInv, WaitsWell
      <4>2. CASE ~ CommitLine(m)
        BY <1>2, <2>1, <4>2
           DEF StreamerStep, InsertLine, SelectOld, DeleteOld, StreamerFails, SidecarRestarts,
               OfNode
      <4> QED
        BY <4>1, <4>2
    <3>4. failures <= failures'
      BY <1>1, <1>2, <2>1
         DEF StreamerStep, InsertLine, CommitLine, SelectOld, DeleteOld, StreamerFails,
             SidecarRestarts
    <3> QED
      BY <1>1, <3>2, <3>3, <3>4, NodeKeeps
  <2>2. CASE DebugStart(m)
    BY <1>1, <2>2, NodeKeeps DEF DebugStart, OfNode
  <2>3. CASE m = n /\ InsertLine(m)
    <3>1. /\ streamers'[n].pc = "commit" /\ streamers'[n].counter = streamers[n].counter
          /\ streamers[n].pc = "tail" /\ rows' = rows /\ failures' = failures
      BY <2>3 DEF InsertLine, Update, DebugInv, TypeOK, Streamer
    <3> QED
      BY <3>1 DEF BoundOfNode, Bound, RoundOf
  <2>4. CASE m = n /\ CommitLine(m)
    BY <2>4, CommitBounded
  <2>5. CASE m = n /\ SelectOld(m)
    BY <2>5, SelectBounded
  <2>6. CASE m = n /\ DeleteOld(m)
    BY <2>6, DeleteBounded
  <2>7. CASE m = n /\ (StreamerFails(m) \/ SidecarRestarts(m))
    <3>1. streamers'[n].pc = "tail" /\ failures' = failures + 1 /\ rows' = rows
      BY <2>7 DEF StreamerFails, SidecarRestarts, Update, Tailing, DebugInv, TypeOK
    <3> QED
      BY <1>1, <3>1, NodeKeeps
  <2> QED
    BY <1>2, <2>1, <2>2, <2>3, <2>4, <2>5, <2>6, <2>7 DEF StreamerStep
<1>3. CASE Tick \/ DeleteDebugLogs \/ Connect \/ Disconnect \/ Poll \/ UNCHANGED vars
  <2>1. /\ streamers' = streamers /\ failures' = failures
        /\ rows' \subseteq rows
    BY <1>3 DEF Tick, DeleteDebugLogs, Connect, Disconnect, Poll, vars
  <2> QED
    BY <1>1, <2>1, NodeKeeps DEF OfNode
<1> QED
  BY <1>2, <1>3 DEF Next

\* The rows of a node are at most those a pruning keeps, those of the round that is counted,
\* and a round for each failure: whatever other nodes write between SELECT and DELETE, and
\* though the DELETE takes only some of the rows that were selected.
THEOREM LinesBounded == Spec => []LinesAreBounded
<1>1. Init => \A n \in Nodes : BoundOfNode(n)
  <2> SUFFICES ASSUME Init, NEW n \in Nodes PROVE BoundOfNode(n)
    OBVIOUS
  <2>1. OfNode(rows, n) = {} /\ streamers[n] = Tailing /\ failures = 0
    BY DEF Init, OfNode
  <2>2. Cardinality(OfNode(rows, n)) = 0
    BY <2>1, FS_EmptySet
  <2>3. Keep \in Nat /\ PruneEvery * 0 = 0
    BY DebugLogsAssumption
  <2> QED
    BY <2>1, <2>2, <2>3 DEF BoundOfNode, Bound, RoundOf, Tailing
<1>2. DebugInv /\ (\A n \in Nodes : BoundOfNode(n)) /\ [Next]_vars
        => (DebugInv /\ \A n \in Nodes : BoundOfNode(n))'
  <2> SUFFICES ASSUME DebugInv, \A n \in Nodes : BoundOfNode(n), [Next]_vars
               PROVE  DebugInv' /\ \A n \in Nodes : BoundOfNode(n)'
    OBVIOUS
  <2> QED
    BY DebugStep, BoundStep
<1> QED
  BY InitDebug, <1>1, <1>2, BoundByNode, PTL DEF Spec

-----------------------------------------------------------------------------
(* Lines are streamed *)

\* A row the reader need not have seen: of the one that is polled at t.
Unmissed(r, session, beyond, t) ==
  \/ r.id \notin session.owed \/ r.id \in session.sent \cup beyond
  \/ r.created < r.inserted
  \/ t <= r.inserted + CommitTime

\* The SELECT returns what is in the window, but for what is beyond its LIMIT; what is out of
\* it is older than the last look.
LEMMA PollStreams ==
  ASSUME DebugInv, ReaderInv, Poll, CommitTime + PollTime <= Window
  PROVE  ReaderInv'
<1>1. /\ reader \in Reader /\ reader'.polled = now /\ now' = now /\ rows' = rows
      /\ reader'.sent = reader.sent \cup Result /\ reader'.owed = reader.owed
      /\ crowded' = crowded \cup ({r.id : r \in InWindow} \ Result)
  BY DEF Poll, DebugInv, TypeOK, Reader
<1>2. now \in Nat /\ reader.polled \in Nat /\ Window \in Nat
  BY <1>1, DebugLogsAssumption DEF DebugInv, TypeOK, Reader
<1>3. ASSUME NEW r \in rows
      PROVE  Unmissed(r, reader', crowded', now)
  <2>1. CASE r \in InWindow
    BY <1>1, <2>1 DEF Unmissed
  <2>2. CASE r \notin InWindow
    <3>1. r.created \in Nat /\ r.inserted \in Nat
      BY DEF DebugInv, TypeOK, Row
    <3>2. r.created + Window < now
      BY <1>2, <2>2, <3>1 DEF InWindow
    <3>3. now <= reader.polled + PollTime /\ Unmissed(r, reader, crowded, reader.polled)
      BY <1>1 DEF ReaderInv, Unmissed, Poll
    <3>4. ~ (reader.polled <= r.inserted + CommitTime /\ r.inserted <= r.created)
      BY <1>2, <3>1, <3>2, <3>3 DEF CommitTime, PollTime
    <3> QED
      BY <1>1, <3>1, <3>3, <3>4 DEF Unmissed
  <2> QED
    BY <2>1, <2>2
<1> QED
  BY <1>1, <1>2, <1>3 DEF ReaderInv, Unmissed, PollTime

\* A line is committed at most CommitTime after it was inserted.
LEMMA CommitStreams ==
  ASSUME DebugInv, ReaderInv, NEW n \in Nodes, CommitLine(n)
  PROVE  ReaderInv'
<1> DEFINE line == streamers[n].line
<1>1. line \in Row /\ WaitsWell(n, line)
  BY DEF DebugInv, TypeOK, LinesInv, CommitLine, Streamer
<1>2. CASE reader = None
  BY <1>2 DEF CommitLine, ReaderInv
<1>3. CASE reader # None
  <2>1. /\ reader \in Reader /\ reader'.polled = reader.polled /\ reader'.sent = reader.sent
        /\ reader'.owed = reader.owed \cup {line.id}
        /\ rows' = rows \cup {line} /\ now' = now /\ crowded' = crowded
    BY <1>3 DEF CommitLine, DebugInv, TypeOK, Reader
  <2>2. Unmissed(line, reader', crowded', reader'.polled)
    BY <1>1, <1>3, <2>1 DEF Unmissed, WaitsWell, ReaderInv, CommitTime, DebugInv, TypeOK, Reader, Row
  <2>3. ASSUME NEW r \in rows
        PROVE  Unmissed(r, reader', crowded', reader'.polled)
    <3>1. r.id # line.id
      BY <1>1 DEF WaitsWell
    <3> QED
      BY <1>3, <2>1, <3>1 DEF Unmissed, ReaderInv
  <2> QED
    BY <1>3, <2>1, <2>2, <2>3 DEF ReaderInv, Unmissed
<1> QED
  BY <1>2, <1>3

LEMMA ReaderStep ==
  ASSUME DebugInv, ReaderInv, [Next]_vars, CommitTime + PollTime <= Window
  PROVE  ReaderInv'
<1>1. ASSUME NEW n \in Nodes, StreamerStep(n)
      PROVE  ReaderInv'
  <2>1. CASE CommitLine(n)
    BY <2>1, CommitStreams
  <2>2. CASE ~ CommitLine(n)
    <3>1. UNCHANGED <<now, reader, crowded>> /\ rows' \subseteq rows
      BY <1>1, <2>2
         DEF StreamerStep, InsertLine, SelectOld, DeleteOld, StreamerFails, SidecarRestarts,
             DebugStart
    <3> QED
      BY <3>1 DEF ReaderInv
  <2> QED
    BY <2>1, <2>2
<1>2. CASE DeleteDebugLogs \/ Disconnect \/ UNCHANGED vars
  BY <1>2 DEF DeleteDebugLogs, Disconnect, vars, ReaderInv
<1>3. CASE Connect
  BY <1>3 DEF Connect, ReaderInv, PollTime, DebugInv, TypeOK
<1>4. CASE Poll
  BY <1>4, PollStreams
<1>5. CASE Tick
  BY <1>5 DEF Tick, ReaderInv, PollTime, DebugInv, TypeOK, Reader
<1> QED
  BY <1>1, <1>2, <1>3, <1>4, <1>5 DEF Next

\* Where the window of a reader is at least as long as a commit and the pause of the reader
\* together, as 3 s is, a line committed while it is connected is sent before it leaves the
\* window, unless it was deleted, or beyond the LIMIT of a SELECT, or was inserted in a
\* transaction older than the line.
THEOREM LinesStreamed ==
  ASSUME CommitTime + PollTime <= Window
  PROVE  Spec => []LinesAreStreamed
<1>1. Init => ReaderInv
  BY DEF Init, ReaderInv
<1>2. DebugInv /\ ReaderInv /\ [Next]_vars => (DebugInv /\ ReaderInv)'
  BY DebugStep, ReaderStep
<1>3. DebugInv /\ ReaderInv => LinesAreStreamed
  <2> SUFFICES ASSUME DebugInv, ReaderInv, reader # None, NEW r \in rows,
                      r.id \in reader.owed, r.created + Window < now,
                      ~ r.created < r.inserted
               PROVE  r.id \in reader.sent \cup crowded
    BY DEF LinesAreStreamed
  <2>1. /\ r.created \in Nat /\ r.inserted \in Nat /\ now \in Nat /\ reader.polled \in Nat
        /\ Window \in Nat
    BY DebugLogsAssumption DEF DebugInv, TypeOK, Row, Reader
  <2>2. now <= reader.polled + PollTime
    BY DEF ReaderInv
  <2>3. ~ reader.polled <= r.inserted + CommitTime
    BY <2>1, <2>2 DEF CommitTime, PollTime
  <2> QED
    BY <2>3 DEF ReaderInv
<1> QED
  BY InitDebug, <1>1, <1>2, <1>3, PTL DEF Spec
=============================================================================
