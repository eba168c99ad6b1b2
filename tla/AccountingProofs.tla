-------------------------- MODULE AccountingProofs --------------------------
(***************************************************************************)
(* Theorems about Accounting, for any sessions, times, number of packets   *)
(* and threads.                                                            *)
(*                                                                         *)
(* The invariant says where the times in a packet come from (SwitchInv,    *)
(* SentInv), that a packet FreeRADIUS works on is one that was sent        *)
(* (ServingInv), and what a row of the table can then hold (RowsInv,       *)
(* AnsweredInv).                                                           *)
(***************************************************************************)
EXTENDS Accounting, TLAPS

\* A session ends after it began, and one older than an Accounting-On has ended.
SwitchInv ==
  /\ \A s \in Sessions :
       /\ begun[s] # None => begun[s] <= now
       /\ ended[s] # None => begun[s] # None /\ begun[s] <= ended[s]
  /\ \A b \in boots : b <= now
  /\ \A b \in boots, s \in Sessions : begun[s] # None /\ begun[s] < b => ended[s] # None

\* The time in a packet is that of the event it tells of.
SentInv ==
  \A p \in sent :
    /\ p.time <= now
    /\ p.type = "On" => p.time \in boots
    /\ p.type # "On" => begun[p.session] # None /\ begun[p.session] <= p.time
    /\ p.type = "Start" => p.time = begun[p.session]
    /\ p.type = "Stop" => p.time = ended[p.session]

ServingInv ==
  \A v \in serving :
    /\ v.packet \in sent
    /\ v.packet.time <= v.at
    /\ Stamped => v.at = v.packet.time

\* What the row of a session may hold.
RowOK(s, row) ==
  Stamped =>
    /\ begun[s] # None /\ row.start = begun[s]
    /\ row.stop # None => row.start <= row.stop /\ (ended[s] = None => begun[s] \in boots)

\* What it holds once the Stop was served.
Exact(s, row) ==
  Stamped => ended[s] # None /\ row.stop = ended[s] /\ row.length = ended[s] - begun[s]

RowsInv == \A s \in Sessions : radacct[s] # None => RowOK(s, radacct[s])
AnsweredInv ==
  /\ answered \subseteq settled
  /\ \A s \in answered : radacct[s] # None /\ Exact(s, radacct[s])

Inv ==
  /\ TypeOK /\ SwitchInv /\ SentInv /\ ServingInv
  /\ RowsInv /\ EndedIsClosed /\ AnsweredInv

-----------------------------------------------------------------------------
(* The switch, and what the other steps leave alone *)

\* The tables are empty, and no packet was sent.
LEMMA InitInv == Init => Inv
<1> SUFFICES ASSUME Init PROVE Inv
  OBVIOUS
<1>1. TypeOK
  BY AccountingAssumption DEF Init, TypeOK
<1>2. SwitchInv /\ SentInv /\ ServingInv
  BY AccountingAssumption DEF Init, SwitchInv, SentInv, ServingInv
<1>3. RowsInv /\ EndedIsClosed /\ AnsweredInv
  BY AccountingAssumption DEF Init, RowsInv, EndedIsClosed, AnsweredInv
<1> QED
  BY <1>1, <1>2, <1>3 DEF Inv

\* A packet of a session is one.
LEMMA PacketType ==
  ASSUME NEW p \in Packet
  PROVE  /\ p.time \in Nat
         /\ p.type \in {"Start", "Interim", "Stop", "On"}
         /\ p.type # "On" => p.session \in Sessions
  BY DEF Packet

\* The rows keep what they may hold when the switch goes on: times it has noted stay.
LEMMA RowsKept ==
  ASSUME Inv, UNCHANGED switchOnly,
         \A s \in Sessions : begun[s] # None => begun'[s] = begun[s],
         \A s \in Sessions : ended[s] # None => ended'[s] = ended[s],
         boots \subseteq boots',
         sent \subseteq sent'
  PROVE  ServingInv' /\ RowsInv' /\ EndedIsClosed' /\ AnsweredInv'
<1> USE DEF switchOnly, historyVars
<1>1. ServingInv'
  BY DEF Inv, ServingInv
<1>2. EndedIsClosed'
  BY DEF Inv, EndedIsClosed
<1>3. RowsInv'
  <2>1. ASSUME NEW s \in Sessions, radacct[s] # None
        PROVE  RowOK(s, radacct[s])'
    BY <2>1, AccountingAssumption DEF Inv, RowsInv, RowOK, TypeOK
  <2> QED
    BY <2>1 DEF RowsInv
<1>4. AnsweredInv'
  <2>1. ASSUME NEW s \in answered
        PROVE  radacct[s] # None /\ Exact(s, radacct[s])'
    <3>1. s \in Sessions /\ radacct[s] # None /\ radacct[s].stop \in Nat \cup {None}
      BY DEF Inv, TypeOK, AnsweredInv, Row
    <3> QED
      BY <3>1 DEF Inv, AnsweredInv, Exact, RowsInv, RowOK
  <2> QED
    BY <2>1 DEF AnsweredInv, Inv
<1> QED
  BY <1>1, <1>2, <1>3, <1>4

\* What the switch sends is a packet, and those it sent stay.
LEMMA SendType ==
  ASSUME TypeOK,
         NEW type, NEW s,
         \/ type \in {"Start", "Interim", "Stop"} /\ s \in Sessions
         \/ type = "On" /\ s = None,
         Send(type, s)
  PROVE  /\ sent' \subseteq Packet /\ sent \subseteq sent'
         /\ \A p \in sent' : p \in sent \/ p = [type |-> type, session |-> s, time |-> now]
  BY DEF TypeOK, Send, Packet

\* A packet that was sent before still tells what happened, and a new one what happens now.
LEMMA SentKept ==
  ASSUME Inv,
         \A s \in Sessions : begun[s] # None => begun'[s] = begun[s],
         \A s \in Sessions : ended[s] # None => ended'[s] = ended[s],
         boots \subseteq boots', now' >= now, now' \in Nat,
         NEW p \in sent
  PROVE  /\ p.time <= now'
         /\ p.type = "On" => p.time \in boots'
         /\ p.type # "On" => begun'[p.session] # None /\ begun'[p.session] <= p.time
         /\ p.type = "Start" => p.time = begun'[p.session]
         /\ p.type = "Stop" => p.time = ended'[p.session]
<1>1. p \in Packet /\ now \in Nat
  BY DEF Inv, TypeOK
<1>2. p.time \in Nat /\ (p.type # "On" => p.session \in Sessions)
  BY <1>1, PacketType
<1>3. p.time # None
  BY <1>2, AccountingAssumption
<1> QED
  BY <1>1, <1>2, <1>3 DEF Inv, SentInv

\* A step of the switch.
LEMMA SwitchStep ==
  ASSUME Inv, SwitchNext
  PROVE  Inv'
<1> USE AccountingAssumption
<1>0. /\ TypeOK /\ SwitchInv /\ SentInv
      /\ now \in Nat /\ boots \subseteq Nat
      /\ begun \in [Sessions -> Nat \cup {None}] /\ ended \in [Sessions -> Nat \cup {None}]
  BY DEF Inv, TypeOK
<1>1. CASE Tick
  <2>1. TypeOK' /\ SwitchInv'
    BY <1>0, <1>1 DEF Tick, TypeOK, switchOnly, historyVars, SwitchInv
  <2>2. SentInv'
    BY <1>0, <1>1, SentKept DEF Tick, SentInv
  <2>3. ServingInv' /\ RowsInv' /\ EndedIsClosed' /\ AnsweredInv'
    BY <1>1, RowsKept DEF Tick
  <2> QED
    BY <2>1, <2>2, <2>3 DEF Inv
<1>2. ASSUME NEW s \in Sessions, BeginSession(s)
      PROVE  Inv'
  <2>1. /\ sent' \subseteq Packet /\ sent \subseteq sent'
        /\ \A p \in sent' : p \in sent \/ p = [type |-> "Start", session |-> s, time |-> now]
    BY <1>0, <1>2, SendType DEF BeginSession
  <2>2. /\ begun' = [begun EXCEPT ![s] = now] /\ begun[s] = None
        /\ now' = now /\ ended' = ended /\ boots' = boots /\ UNCHANGED switchOnly
    BY <1>2 DEF BeginSession
  <2>3. TypeOK'
    BY <1>0, <2>1, <2>2 DEF TypeOK, switchOnly, historyVars
  <2>4. SwitchInv'
    <3>1. \A b \in boots : b <= now
      BY DEF Inv, SwitchInv
    <3> QED
      BY <1>0, <2>2, <3>1 DEF SwitchInv
  <2>5. SentInv'
    BY <1>0, <2>1, <2>2, SentKept DEF SentInv
  <2>6. ServingInv' /\ RowsInv' /\ EndedIsClosed' /\ AnsweredInv'
    BY <1>0, <2>1, <2>2, RowsKept
  <2> QED
    BY <2>3, <2>4, <2>5, <2>6 DEF Inv
<1>3. ASSUME NEW s \in Sessions, ReportSession(s)
      PROVE  Inv'
  <2>1. /\ sent' \subseteq Packet /\ sent \subseteq sent'
        /\ \A p \in sent' : p \in sent \/ p = [type |-> "Interim", session |-> s, time |-> now]
    BY <1>0, <1>3, SendType DEF ReportSession
  <2>2. /\ begun[s] # None
        /\ begun' = begun /\ now' = now /\ ended' = ended /\ boots' = boots
        /\ UNCHANGED switchOnly
    BY <1>3 DEF ReportSession
  <2>3. TypeOK' /\ SwitchInv'
    BY <1>0, <2>1, <2>2 DEF TypeOK, switchOnly, historyVars, SwitchInv
  <2>4. SentInv'
    BY <1>0, <2>1, <2>2, SentKept DEF SentInv, SwitchInv
  <2>5. ServingInv' /\ RowsInv' /\ EndedIsClosed' /\ AnsweredInv'
    BY <1>0, <2>1, <2>2, RowsKept
  <2> QED
    BY <2>3, <2>4, <2>5 DEF Inv
<1>4. ASSUME NEW s \in Sessions, EndSession(s)
      PROVE  Inv'
  <2>1. /\ sent' \subseteq Packet /\ sent \subseteq sent'
        /\ \A p \in sent' : p \in sent \/ p = [type |-> "Stop", session |-> s, time |-> now]
    BY <1>0, <1>4, SendType DEF EndSession
  <2>2. /\ begun[s] # None /\ ended[s] = None
        /\ ended' = [ended EXCEPT ![s] = now]
        /\ begun' = begun /\ now' = now /\ boots' = boots /\ UNCHANGED switchOnly
    BY <1>4 DEF EndSession
  <2>3. TypeOK' /\ SwitchInv'
    BY <1>0, <2>1, <2>2 DEF TypeOK, switchOnly, historyVars, SwitchInv
  <2>4. SentInv'
    BY <1>0, <2>1, <2>2, SentKept DEF SentInv, SwitchInv
  <2>5. ServingInv' /\ RowsInv' /\ EndedIsClosed' /\ AnsweredInv'
    BY <1>0, <2>1, <2>2, RowsKept
  <2> QED
    BY <2>3, <2>4, <2>5 DEF Inv
<1>5. CASE Reboot
  <2>1. /\ sent' \subseteq Packet /\ sent \subseteq sent'
        /\ \A p \in sent' : p \in sent \/ p = [type |-> "On", session |-> None, time |-> now]
    BY <1>0, <1>5, SendType DEF Reboot
  <2>2. /\ boots' = boots \cup {now}
        /\ ended' = [s \in Sessions |->
                       IF begun[s] # None /\ ended[s] = None THEN now ELSE ended[s]]
        /\ begun' = begun /\ now' = now /\ UNCHANGED switchOnly
    BY <1>5 DEF Reboot
  <2>3. /\ ended' \in [Sessions -> Nat \cup {None}]
        /\ \A s \in Sessions : ended[s] # None => ended'[s] = ended[s]
        /\ \A s \in Sessions : begun[s] # None => ended'[s] # None
        /\ \A s \in Sessions : ended'[s] = ended[s] \/ (ended'[s] = now /\ begun[s] # None)
    BY <1>0, <2>2
  <2>4. TypeOK' /\ SwitchInv'
    BY <1>0, <2>1, <2>2, <2>3 DEF TypeOK, switchOnly, historyVars, SwitchInv
  <2>5. SentInv'
    BY <1>0, <2>1, <2>2, <2>3, SentKept DEF SentInv
  <2>6. ServingInv' /\ RowsInv' /\ EndedIsClosed' /\ AnsweredInv'
    BY <1>0, <2>1, <2>2, <2>3, RowsKept
  <2> QED
    BY <2>4, <2>5, <2>6 DEF Inv
<1> QED
  BY <1>1, <1>2, <1>3, <1>4, <1>5 DEF SwitchNext

-----------------------------------------------------------------------------
(* FreeRADIUS *)

\* What is known of a packet of a session that is being served.
LEMMA ServedPacket ==
  ASSUME Inv, NEW v \in serving, v.packet.type # "On"
  PROVE  /\ v.packet.session \in Sessions /\ v.packet.time \in Nat /\ v.at \in Nat
         /\ begun[v.packet.session] \in Nat
         /\ begun[v.packet.session] <= v.packet.time /\ v.packet.time <= v.at
         /\ Stamped => v.at = v.packet.time
         /\ v.packet.type = "Start" => v.packet.time = begun[v.packet.session]
         /\ v.packet.type = "Stop" => v.packet.time = ended[v.packet.session]
<1>1. v \in Service /\ v.packet \in sent /\ v.packet \in Packet
  BY DEF Inv, TypeOK, ServingInv
<1>2. v.packet.session \in Sessions /\ v.packet.time \in Nat /\ v.at \in Nat
  BY <1>1, PacketType DEF Service
<1>3. begun[v.packet.session] # None
  BY <1>1 DEF Inv, SentInv
<1> QED
  BY <1>1, <1>2, <1>3 DEF Inv, SentInv, ServingInv, TypeOK

\* Steps that change neither the switch nor a row.
LEMMA ReceiveStep ==
  ASSUME Inv, NEW p \in sent, Receive(p)
  PROVE  Inv'
<1> DEFINE at == IF Stamped THEN p.time ELSE now
           w == [packet |-> p, at |-> at, query |-> 1]
<1>1. p \in Packet /\ p.time \in Nat /\ now \in Nat /\ p.time <= now /\ received \in Nat
  BY PacketType DEF Inv, TypeOK, SentInv
<1>2. at \in Nat /\ p.time <= at /\ (Stamped => at = p.time)
  BY <1>1
<1>3. /\ received' = received + 1 /\ serving' = serving \cup {w}
      /\ UNCHANGED <<switchVars, radacct, known, pruning, historyVars>>
  BY DEF Receive
<1> HIDE DEF at
<1>4. w \in Service /\ w.packet = p /\ w.at = at
  BY <1>1, <1>2 DEF Service
<1> HIDE DEF w
<1>5. TypeOK'
  BY <1>1, <1>3, <1>4 DEF Inv, TypeOK, switchVars, historyVars
<1>6. SwitchInv' /\ SentInv'
  BY <1>3 DEF Inv, SwitchInv, SentInv, switchVars
<1>7. ServingInv'
  BY <1>2, <1>3, <1>4 DEF Inv, ServingInv, switchVars
<1>8. RowsInv' /\ EndedIsClosed' /\ AnsweredInv'
  BY <1>3 DEF Inv, RowsInv, RowOK, EndedIsClosed, AnsweredInv, Exact, switchVars, historyVars
<1> QED
  BY <1>5, <1>6, <1>7, <1>8 DEF Inv

LEMMA NextQueryStep ==
  ASSUME Inv, NEW v \in serving, v.query \in 1 .. 2, NextQuery(v)
  PROVE  Inv'
<1> DEFINE w == [v EXCEPT !.query = v.query + 1]
<1>1. v \in Service
  BY DEF Inv, TypeOK
<1>2. w \in Service /\ w.packet = v.packet /\ w.at = v.at
  BY <1>1 DEF Service
<1>3. /\ serving' = (serving \ {v}) \cup {w}
      /\ UNCHANGED <<switchVars, received, radacct, known, pruning, historyVars>>
  BY DEF NextQuery
<1> HIDE DEF w
<1>4. TypeOK'
  BY <1>2, <1>3 DEF Inv, TypeOK, switchVars, historyVars
<1>5. SwitchInv' /\ SentInv'
  BY <1>3 DEF Inv, SwitchInv, SentInv, switchVars
<1>6. ServingInv'
  BY <1>2, <1>3 DEF Inv, ServingInv, switchVars
<1>7. RowsInv' /\ EndedIsClosed' /\ AnsweredInv'
  BY <1>3 DEF Inv, RowsInv, RowOK, EndedIsClosed, AnsweredInv, Exact, switchVars, historyVars
<1> QED
  BY <1>4, <1>5, <1>6, <1>7 DEF Inv

\* An answer that leaves the table with rows that hold what they may.
LEMMA AnswerStep ==
  ASSUME Inv, NEW v \in serving, NEW rows \in [Sessions -> Row \cup {None}], Answer(v, rows),
         settled' \subseteq Sessions, answered' \subseteq settled',
         \A s \in Sessions : rows[s] # None => RowOK(s, rows[s]),
         \A s \in settled' : rows[s] # None /\ rows[s].stop # None,
         \A s \in answered' : rows[s] # None /\ Exact(s, rows[s])
  PROVE  Inv'
<1>1. /\ serving' = serving \ {v} /\ radacct' = rows
      /\ UNCHANGED <<switchVars, received, known, pruning>>
  BY DEF Answer
<1>2. TypeOK'
  BY <1>1 DEF Inv, TypeOK, switchVars
<1>3. SwitchInv' /\ SentInv' /\ ServingInv'
  BY <1>1 DEF Inv, SwitchInv, SentInv, ServingInv, switchVars
<1>4. RowsInv' /\ EndedIsClosed' /\ AnsweredInv'
  BY <1>1 DEF RowsInv, RowOK, EndedIsClosed, AnsweredInv, Exact, switchVars
<1> QED
  BY <1>2, <1>3, <1>4 DEF Inv

\* An answer that changes one row.
LEMMA WriteStep ==
  ASSUME Inv, NEW v \in serving, v.packet.type # "On",
         NEW row \in Row, Answer(v, WithRow(v, row)), RowOK(v.packet.session, row),
         settled' \subseteq settled \cup {v.packet.session},
         answered' \subseteq answered \cup {v.packet.session},
         answered' \subseteq settled',
         v.packet.session \in settled' => row.stop # None,
         v.packet.session \in answered' => Exact(v.packet.session, row)
  PROVE  Inv'
<1> DEFINE s == v.packet.session
           rows == WithRow(v, row)
<1>1. s \in Sessions /\ radacct \in [Sessions -> Row \cup {None}]
  BY ServedPacket DEF Inv, TypeOK
<1>2. /\ rows \in [Sessions -> Row \cup {None}]
      /\ rows[s] = row
      /\ \A q \in Sessions \ {s} : rows[q] = radacct[q]
  BY <1>1 DEF WithRow
<1>3. row # None
  BY RowAssumption
<1>4. settled \subseteq Sessions /\ answered \subseteq Sessions
  BY DEF Inv, TypeOK
<1> HIDE DEF rows, s
<1> QED
  BY <1>1, <1>2, <1>3, <1>4, AnswerStep DEF Inv, RowsInv, EndedIsClosed, AnsweredInv, s, rows

\* The rows that the statements write.
LEMMA StartedRow ==
  ASSUME Inv, NEW v \in serving, v.packet.type = "Start", RowOf(v) # None
  PROVE  /\ StartedAt(v) \in Row /\ RowOK(v.packet.session, StartedAt(v))
         /\ StartedAt(v).stop = RowOf(v).stop /\ StartedAt(v).length = RowOf(v).length
<1> DEFINE s == v.packet.session
           row == RowOf(v)
<1>1. s \in Sessions /\ v.at \in Nat /\ begun[s] \in Nat /\ (Stamped => v.at = begun[s])
  BY ServedPacket
<1>2. row \in Row /\ RowOK(s, row)
  BY <1>1 DEF RowOf, Inv, TypeOK, RowsInv
<1>3. /\ StartedAt(v) \in Row
      /\ StartedAt(v).start = v.at
      /\ StartedAt(v).stop = row.stop /\ StartedAt(v).length = row.length
  BY <1>1, <1>2 DEF StartedAt, Row
<1>4. row.stop \in Nat \cup {None} /\ row.start \in Nat
  BY <1>2 DEF Row
<1> HIDE DEF row, s
<1>5. RowOK(s, StartedAt(v))
  BY <1>1, <1>2, <1>3, <1>4 DEF RowOK
<1> QED
  BY <1>3, <1>5 DEF row, s

LEMMA CountedRow ==
  ASSUME Inv, NEW v \in serving, v.packet.type \in {"Interim", "Stop"}, RowOf(v) # None
  PROVE  /\ Counted(v) \in Row /\ RowOK(v.packet.session, Counted(v))
         /\ Counted(v).start = RowOf(v).start /\ Counted(v).stop = RowOf(v).stop
         /\ Counted(v).length = v.packet.time - begun[v.packet.session]
<1> DEFINE s == v.packet.session
           row == RowOf(v)
<1>1. /\ s \in Sessions /\ v.at \in Nat /\ begun[s] \in Nat /\ v.packet.time \in Nat
      /\ begun[s] <= v.packet.time
  BY ServedPacket
<1>2. row \in Row /\ RowOK(s, row)
  BY <1>1 DEF RowOf, Inv, TypeOK, RowsInv
<1>3. Length(v.packet) \in Nat /\ Length(v.packet) = v.packet.time - begun[s]
  BY <1>1 DEF Length
<1>4. /\ Counted(v) \in Row /\ Counted(v).start = row.start
      /\ Counted(v).stop = row.stop /\ Counted(v).length = Length(v.packet)
  BY <1>1, <1>2, <1>3 DEF Counted, Row
<1> HIDE DEF row, s
<1>5. RowOK(s, Counted(v))
  BY <1>2, <1>4 DEF RowOK
<1> QED
  BY <1>3, <1>4, <1>5 DEF row, s

LEMMA InsertedRow ==
  ASSUME Inv, NEW v \in serving, v.packet.type \in {"Interim", "Stop"},
         NEW stop \in {None, v.at}, stop = None \/ v.packet.type = "Stop"
  PROVE  /\ RowFrom(v, stop) \in Row /\ RowOK(v.packet.session, RowFrom(v, stop))
         /\ RowFrom(v, stop).stop = stop
         /\ RowFrom(v, stop).length = v.packet.time - begun[v.packet.session]
<1> DEFINE s == v.packet.session
           row == RowFrom(v, stop)
<1>1. /\ s \in Sessions /\ v.at \in Nat /\ begun[s] \in Nat /\ v.packet.time \in Nat
      /\ begun[s] <= v.packet.time /\ v.packet.time <= v.at
      /\ Stamped => v.at = v.packet.time
      /\ v.packet.type = "Stop" => v.packet.time = ended[s]
  BY ServedPacket
<1>2. Length(v.packet) \in Nat /\ Length(v.packet) = v.packet.time - begun[s]
  BY <1>1 DEF Length
<1>3. v.at - Length(v.packet) \in Nat /\ (Stamped => v.at - Length(v.packet) = begun[s])
  BY <1>1, <1>2
<1>4. /\ row \in Row /\ row.start = v.at - Length(v.packet)
      /\ row.stop = stop /\ row.length = Length(v.packet)
  BY <1>1, <1>2, <1>3 DEF RowFrom, Row
<1>5. v.packet.time # None /\ begun[s] # None
  BY <1>1, AccountingAssumption
<1> HIDE DEF row, s
<1>6. RowOK(s, row)
  BY <1>1, <1>3, <1>4, <1>5 DEF RowOK
<1> QED
  BY <1>2, <1>4, <1>6 DEF row, s

LEMMA StoppedRow ==
  ASSUME Inv, NEW v \in serving, v.packet.type = "Stop", RowOf(v) # None
  PROVE  /\ StoppedAt(v) \in Row /\ RowOK(v.packet.session, StoppedAt(v))
         /\ StoppedAt(v).stop = v.at
         /\ StoppedAt(v).length = v.packet.time - begun[v.packet.session]
<1> DEFINE s == v.packet.session
           row == Counted(v)
<1>1. /\ s \in Sessions /\ v.at \in Nat /\ begun[s] \in Nat /\ v.packet.time \in Nat
      /\ begun[s] <= v.packet.time /\ v.packet.time <= v.at
      /\ v.packet.time = ended[s]
  BY ServedPacket
<1>2. /\ row \in Row /\ RowOK(s, row)
      /\ row.length = v.packet.time - begun[s]
  BY CountedRow
<1>3. ended[s] # None
  BY <1>1, AccountingAssumption
<1> HIDE DEF row
<1>4. /\ StoppedAt(v) \in Row /\ StoppedAt(v).start = row.start
      /\ StoppedAt(v).stop = v.at /\ StoppedAt(v).length = row.length
  BY <1>1, <1>2 DEF StoppedAt, Row, row
<1> HIDE DEF s
<1>5. RowOK(s, StoppedAt(v))
  BY <1>1, <1>2, <1>3, <1>4 DEF RowOK
<1> QED
  BY <1>2, <1>4, <1>5 DEF row, s

\* Once the Stop is served, the row is exact.
LEMMA StopIsExactRow ==
  ASSUME Inv, NEW v \in serving, v.packet.type = "Stop", NEW row \in Row,
         row.stop = v.at, row.length = v.packet.time - begun[v.packet.session]
  PROVE  Exact(v.packet.session, row) /\ row.stop # None
<1>1. /\ v.packet.time \in Nat /\ v.at \in Nat
      /\ v.packet.time = ended[v.packet.session] /\ (Stamped => v.at = v.packet.time)
  BY ServedPacket
<1> QED
  BY <1>1, AccountingAssumption DEF Exact

\* A row that is settled is closed, and an exact one stays so when its stop and length do.
LEMMA ServeStart ==
  ASSUME Inv, NEW v \in serving, StartInsert(v) \/ StartUpdate(v)
  PROVE  Inv'
<1> DEFINE s == v.packet.session
           row == [start |-> v.at, update |-> v.at, stop |-> None, length |-> 0]
<1>1. /\ v.packet.type = "Start" /\ v.query \in {1, 2} /\ settled' = settled /\ answered' = answered
  BY DEF StartInsert, StartUpdate, Statement, historyVars
<1>2. s \in Sessions /\ v.at \in Nat /\ begun[s] \in Nat /\ (Stamped => v.at = begun[s])
  BY <1>1, ServedPacket
<1>3. /\ s \in settled => RowOf(v) # None /\ RowOf(v).stop # None
      /\ s \in answered => RowOf(v) # None /\ Exact(s, RowOf(v))
  BY DEF Inv, EndedIsClosed, AnsweredInv, RowOf
<1>4. CASE radacct[s] = None /\ Answer(v, WithRow(v, row))
  <2>1. row \in Row /\ RowOK(s, row)
    BY <1>2, AccountingAssumption DEF Row, RowOK
  <2>2. s \notin settled /\ s \notin answered
    BY <1>3, <1>4 DEF RowOf
  <2> QED
    BY <1>1, <1>4, <2>1, <2>2, WriteStep DEF Inv, AnsweredInv
<1>5. CASE radacct[s] # None /\ Answer(v, WithRow(v, StartedAt(v)))
  <2>1. /\ StartedAt(v) \in Row /\ RowOK(s, StartedAt(v))
        /\ StartedAt(v).stop = RowOf(v).stop /\ StartedAt(v).length = RowOf(v).length
    BY <1>1, <1>5, StartedRow DEF RowOf
  <2>2. s \in answered => Exact(s, StartedAt(v))
    BY <1>3, <2>1 DEF Exact
  <2> QED
    BY <1>1, <1>3, <1>5, <2>1, <2>2, WriteStep DEF Inv, AnsweredInv
<1>6. CASE Answer(v, radacct)
  BY <1>1, <1>6, AnswerStep DEF Inv, TypeOK, RowsInv, EndedIsClosed, AnsweredInv
<1>7. CASE v.query = 1 /\ NextQuery(v)
  BY <1>7, NextQueryStep
<1> QED
  BY <1>4, <1>5, <1>6, <1>7 DEF StartInsert, StartUpdate, Statement, IsOpen, RowOf

LEMMA ServeInterim ==
  ASSUME Inv, NEW v \in serving, InterimUpdate(v) \/ InterimInsert(v)
  PROVE  Inv'
<1> DEFINE s == v.packet.session
<1>1. /\ v.packet.type = "Interim" /\ v.query \in {1, 2}
      /\ settled' = settled /\ answered' = answered
  BY DEF InterimUpdate, InterimInsert, Statement, historyVars
<1>2. /\ s \in settled => RowOf(v) # None /\ RowOf(v).stop # None
      /\ s \in answered => RowOf(v) # None /\ Exact(s, RowOf(v))
  BY DEF Inv, EndedIsClosed, AnsweredInv, RowOf
<1>3. CASE IsOpen(s) /\ Answer(v, WithRow(v, Counted(v)))
  <2>1. Counted(v) \in Row /\ RowOK(s, Counted(v))
    BY <1>1, <1>3, CountedRow DEF IsOpen, RowOf
  <2>2. s \notin settled
    BY <1>2, <1>3 DEF IsOpen, RowOf
  <2>3. s \in answered => Exact(s, Counted(v))
    BY <1>1, <1>2, <1>3, CountedRow DEF IsOpen, RowOf, Exact
  <2> QED
    BY <1>1, <1>3, <2>1, <2>2, <2>3, WriteStep DEF Inv, AnsweredInv
<1>4. CASE RowOf(v) = None /\ Answer(v, WithRow(v, RowFrom(v, None)))
  <2>1. RowFrom(v, None) \in Row /\ RowOK(s, RowFrom(v, None))
    BY <1>1, InsertedRow
  <2>2. s \notin settled /\ s \notin answered
    BY <1>2, <1>4
  <2> QED
    BY <1>1, <1>4, <2>1, <2>2, WriteStep DEF Inv, AnsweredInv
<1>5. CASE Answer(v, radacct)
  BY <1>1, <1>5, AnswerStep DEF Inv, TypeOK, RowsInv, EndedIsClosed, AnsweredInv
<1>6. CASE v.query = 1 /\ NextQuery(v)
  BY <1>6, NextQueryStep
<1> QED
  BY <1>3, <1>4, <1>5, <1>6 DEF InterimUpdate, InterimInsert, Statement

LEMMA ServeStop ==
  ASSUME Inv, NEW v \in serving, StopUpdate(v) \/ StopInsert(v) \/ StopUpdateAny(v)
  PROVE  Inv'
<1> DEFINE s == v.packet.session
<1>1. v.packet.type = "Stop" /\ v.query \in 1 .. 3
  BY DEF StopUpdate, StopInsert, StopUpdateAny, Statement
<1>2. CASE RowOf(v) # None /\ Answer(v, WithRow(v, StoppedAt(v))) /\ Settle(s)
  <2>1. /\ StoppedAt(v) \in Row /\ RowOK(s, StoppedAt(v))
        /\ Exact(s, StoppedAt(v)) /\ StoppedAt(v).stop # None
    BY <1>1, <1>2, StoppedRow, StopIsExactRow
  <2> QED
    BY <1>1, <1>2, <2>1, WriteStep DEF Settle, Inv, AnsweredInv
<1>3. CASE RowOf(v) = None /\ Answer(v, WithRow(v, RowFrom(v, v.at))) /\ Settle(s)
  <2>1. /\ RowFrom(v, v.at) \in Row /\ RowOK(s, RowFrom(v, v.at))
        /\ Exact(s, RowFrom(v, v.at)) /\ RowFrom(v, v.at).stop # None
    BY <1>1, InsertedRow, StopIsExactRow
  <2> QED
    BY <1>1, <1>3, <2>1, WriteStep DEF Settle, Inv, AnsweredInv
<1>4. CASE Answer(v, radacct) /\ UNCHANGED historyVars
  BY <1>4, AnswerStep DEF Inv, TypeOK, RowsInv, EndedIsClosed, AnsweredInv, historyVars
<1>5. CASE v.query \in 1 .. 2 /\ NextQuery(v)
  BY <1>5, NextQueryStep
<1>6. CASE StopUpdate(v)
  BY <1>2, <1>5, <1>6 DEF StopUpdate, Statement, IsOpen, RowOf
<1>7. CASE StopInsert(v)
  BY <1>3, <1>5, <1>7 DEF StopInsert, Statement
<1>8. CASE StopUpdateAny(v)
  BY <1>2, <1>4, <1>8 DEF StopUpdateAny, Statement
<1> QED
  BY <1>6, <1>7, <1>8

\* Accounting-On closes sessions that began no later than it was sent: one that still runs
\* began in the same second.
LEMMA ServeOn ==
  ASSUME Inv, NEW v \in serving, AccountingOn(v)
  PROVE  Inv'
<1> DEFINE closed == {s \in Sessions : IsOpen(s) /\ radacct[s].start <= v.at}
           rows == [s \in Sessions |-> IF s \in closed THEN ClosedAt(radacct[s], v.at)
                                                       ELSE radacct[s]]
<1>1. /\ v.packet.type = "On" /\ Answer(v, rows)
      /\ settled' = settled \cup closed /\ answered' = answered
  BY DEF AccountingOn, Statement
<1>2. /\ v.packet \in Packet /\ v.packet \in sent /\ v.at \in Nat
      /\ v.packet.time \in boots /\ (Stamped => v.at = v.packet.time)
  BY <1>1 DEF Inv, TypeOK, ServingInv, SentInv, Service
<1>3. ASSUME NEW s \in closed
      PROVE  /\ rows[s] \in Row /\ rows[s] # None /\ rows[s].stop # None
             /\ RowOK(s, rows[s]) /\ s \notin settled /\ s \notin answered
  <2>1. /\ s \in Sessions /\ radacct[s] \in Row /\ radacct[s].stop = None
        /\ radacct[s].start \in Nat /\ radacct[s].start <= v.at /\ rows[s] = ClosedAt(radacct[s], v.at)
    BY <1>3 DEF IsOpen, Inv, TypeOK, Row
  <2>2. /\ rows[s] \in Row /\ rows[s].stop = v.at /\ rows[s].start = radacct[s].start
    <3> DEFINE old == radacct[s]
    <3>1. old \in Row /\ old.start \in Nat /\ old.start <= v.at
      BY <2>1
    <3> HIDE DEF old
    <3>2. v.at - old.start \in Nat
      BY <1>2, <3>1
    <3>3. /\ ClosedAt(old, v.at) \in Row
          /\ ClosedAt(old, v.at).stop = v.at /\ ClosedAt(old, v.at).start = old.start
      BY <1>2, <3>1, <3>2 DEF ClosedAt, Row
    <3> QED
      BY <2>1, <3>3 DEF old
  <2>3. v.at # None /\ rows[s] # None
    BY <1>2, <2>2, AccountingAssumption, RowAssumption
  <2>4. s \notin settled
    BY <2>1 DEF Inv, EndedIsClosed
  <2>5. RowOK(s, radacct[s])
    BY <2>1, RowAssumption DEF Inv, RowsInv
  <2>6. RowOK(s, rows[s])
    <3>1. SUFFICES ASSUME Stamped
                   PROVE  /\ begun[s] # None /\ rows[s].start = begun[s]
                          /\ rows[s].start <= rows[s].stop
                          /\ ended[s] = None => begun[s] \in boots
      BY DEF RowOK
    <3>2. begun[s] # None /\ rows[s].start = begun[s] /\ rows[s].start <= rows[s].stop
      BY <2>1, <2>2, <2>5, <3>1 DEF RowOK
    <3>3. begun[s] \in Nat /\ begun[s] <= v.at /\ v.at \in boots
      BY <1>2, <2>1, <2>2, <3>1, <3>2
    <3>4. begun[s] < v.at => ended[s] # None
      BY <2>1, <3>2, <3>3 DEF Inv, SwitchInv
    <3> QED
      BY <1>2, <3>2, <3>3, <3>4
  <2>7. s \notin answered
    BY <2>4 DEF Inv, AnsweredInv
  <2> QED
    BY <2>2, <2>3, <2>4, <2>6, <2>7
<1>4. ASSUME NEW s \in Sessions \ closed
      PROVE  rows[s] = radacct[s]
  OBVIOUS
<1>5. rows \in [Sessions -> Row \cup {None}]
  BY <1>3, <1>4 DEF Inv, TypeOK
<1>6. settled \subseteq Sessions /\ answered \subseteq Sessions /\ closed \subseteq Sessions
  BY DEF Inv, TypeOK
<1> HIDE DEF rows, closed
<1> QED
  BY <1>1, <1>3, <1>4, <1>5, <1>6, AnswerStep DEF Inv, RowsInv, EndedIsClosed, AnsweredInv

\* Every statement.
LEMMA ServeStep ==
  ASSUME Inv, NEW v \in serving, Serve(v)
  PROVE  Inv'
  BY ServeStart, ServeInterim, ServeStop, ServeOn DEF Serve

-----------------------------------------------------------------------------
(* The API and the job *)

\* Rows that go take with them what was said of them.
LEMMA DeletedRows ==
  ASSUME Inv, NEW gone, DeleteRows(gone), known' \subseteq Sessions, pruning' \in BOOLEAN
  PROVE  Inv'
<1>1. /\ radacct' = [s \in Sessions |-> IF s \in gone THEN None ELSE radacct[s]]
      /\ settled' = settled \ gone /\ answered' = answered \ gone
      /\ UNCHANGED <<switchVars, received, serving>>
  BY DEF DeleteRows
<1>2. TypeOK'
  BY <1>1 DEF Inv, TypeOK, switchVars
<1>3. SwitchInv' /\ SentInv' /\ ServingInv'
  BY <1>1 DEF Inv, SwitchInv, SentInv, ServingInv, switchVars
<1>4. RowsInv'
  BY <1>1 DEF Inv, RowsInv, RowOK, switchVars
<1>5. EndedIsClosed'
  BY <1>1 DEF Inv, TypeOK, EndedIsClosed
<1>6. AnsweredInv'
  BY <1>1 DEF Inv, TypeOK, AnsweredInv, Exact, switchVars
<1> QED
  BY <1>2, <1>3, <1>4, <1>5, <1>6 DEF Inv

LEMMA TableStep ==
  ASSUME Inv, TableNext
  PROVE  Inv'
<1>0. known \subseteq Sessions /\ pruning \in BOOLEAN
  BY DEF Inv, TypeOK
<1>1. ASSUME NEW s \in Sessions, CreateEndpoint(s)
      PROVE  Inv'
  <2>1. TypeOK'
    BY <1>1 DEF CreateEndpoint, Inv, TypeOK, switchVars, historyVars
  <2>2. SwitchInv' /\ SentInv' /\ ServingInv'
    BY <1>1 DEF CreateEndpoint, Inv, SwitchInv, SentInv, ServingInv, switchVars
  <2>3. RowsInv' /\ EndedIsClosed' /\ AnsweredInv'
    BY <1>1 DEF CreateEndpoint, Inv, RowsInv, RowOK, EndedIsClosed, AnsweredInv, Exact,
                switchVars, historyVars
  <2> QED
    BY <2>1, <2>2, <2>3 DEF Inv
<1>2. ASSUME NEW s \in Sessions, DeleteAccounting(s) \/ DeleteEndpoint(s)
      PROVE  Inv'
  BY <1>0, <1>2, DeletedRows DEF DeleteAccounting, DeleteEndpoint
<1>3. CASE PruneOld
  BY <1>0, <1>3, DeletedRows DEF PruneOld
<1>4. CASE PruneOrphans
  BY <1>0, <1>4, DeletedRows DEF PruneOrphans
<1> QED
  BY <1>1, <1>2, <1>3, <1>4 DEF TableNext

-----------------------------------------------------------------------------
(* The theorems *)

LEMMA Invariance == Spec => []Inv
<1>1. ASSUME Inv, [Next]_vars
      PROVE  Inv'
  <2>1. CASE SwitchNext
    BY <1>1, <2>1, SwitchStep
  <2>2. CASE ServerNext
    BY <1>1, <2>2, ReceiveStep, ServeStep DEF ServerNext
  <2>3. CASE TableNext
    BY <1>1, <2>3, TableStep
  <2>4. CASE UNCHANGED vars
    <3>1. TypeOK'
      BY <1>1, <2>4 DEF vars, Inv, TypeOK, switchVars, historyVars
    <3>2. SwitchInv' /\ SentInv' /\ ServingInv'
      BY <1>1, <2>4 DEF vars, Inv, SwitchInv, SentInv, ServingInv, switchVars
    <3>3. RowsInv' /\ EndedIsClosed' /\ AnsweredInv'
      BY <1>1, <2>4 DEF vars, Inv, RowsInv, RowOK, EndedIsClosed, AnsweredInv, Exact,
                        switchVars, historyVars
    <3> QED
      BY <3>1, <3>2, <3>3 DEF Inv
  <2> QED
    BY <1>1, <2>1, <2>2, <2>3, <2>4 DEF Next
<1> QED
  BY <1>1, InitInv, PTL DEF Spec

\* The tables and packets are of their types, whatever is lost, repeated or late; among others
\* no length and no start time that a statement computes is negative.
THEOREM TypeCorrect == Spec => []TypeOK
  BY Invariance, PTL DEF Inv

\* No packet opens a session again that a Stop or an Accounting-On closed.
THEOREM ClosedStaysClosed == Spec => []EndedIsClosed
  BY Invariance, PTL DEF Inv

\* After its Stop the row of a session is exact, in every order of the packets.
THEOREM StopExact == Spec => []StopIsExact
<1>1. Inv => StopIsExact
  <2>1. SUFFICES ASSUME Inv, Stamped, NEW s \in answered
                 PROVE  /\ radacct[s] # None
                        /\ radacct[s].start = begun[s] /\ radacct[s].stop = ended[s]
                        /\ radacct[s].length = ended[s] - begun[s]
    BY DEF StopIsExact
  <2>2. s \in Sessions /\ radacct[s] # None /\ Exact(s, radacct[s]) /\ RowOK(s, radacct[s])
    BY <2>1 DEF Inv, TypeOK, AnsweredInv, RowsInv
  <2> QED
    BY <2>1, <2>2 DEF Exact, RowOK
<1> QED
  BY <1>1, Invariance, PTL

\* The start time of a row is that of its session, whichever packet made the row.
THEOREM StartTrue == Spec => []StartIsTrue
<1>1. Inv => StartIsTrue
  BY DEF Inv, RowsInv, RowOK, StartIsTrue
<1> QED
  BY <1>1, Invariance, PTL

\* A session that runs is open, unless it began in the second of an Accounting-On.
THEOREM RunningOpen == Spec => []RunningIsOpen
<1>1. Inv => RunningIsOpen
  BY DEF Inv, RowsInv, RowOK, RunningIsOpen
<1> QED
  BY <1>1, Invariance, PTL
=============================================================================
