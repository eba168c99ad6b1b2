------------------------- MODULE ChangeOfAuthProofs -------------------------
(***************************************************************************)
(* Theorems about ChangeOfAuth, for any number of endpoints, ports, calls  *)
(* and authentications.                                                    *)
(*                                                                         *)
(* A committed authentication is told of by a row that is no older than    *)
(* it.  So a call that has found no other port has seen none: what it then *)
(* knew is kept in `asked`, whatever happens until the packet is sent.     *)
(*                                                                         *)
(* An endpoint that waits stays quiet until it moves, is deleted or        *)
(* authenticates: nothing is under way that could make it quiet again.  So *)
(* what the queries of its call find is what was there when the call       *)
(* began.                                                                  *)
(***************************************************************************)
EXTENDS ChangeOfAuth, FiniteSetTheorems, TLAPS

\* The types of everything but the calls.
PortsOK ==
  /\ clock \in Nat
  /\ on \in [Ports -> Auth \cup {None}] /\ auths \subseteq Auth
  /\ nasports \subseteq NasPortRow /\ committed \subseteq Auth
  /\ \A r, q \in nasports : r.endpoint = q.endpoint /\ r.port = q.port => r = q

CallsOK == calls \subseteq Call /\ waiting \subseteq Endpoints /\ started \in Nat

\* A call that has passed its first query has a row.
OwnInv == \A c \in calls : c.pc \in {"other", "nas", "send"} \/ c.sends => c.own \in NasPortRow

\* A port knows where it is, and authentications began in the past.
OnInv ==
  /\ \A p \in Ports : on[p] # None => on[p].port = p
  /\ \A a \in auths : a.began <= clock

\* A row tells of a committed authentication.
Tells(r, a) ==
  /\ r.endpoint = a.endpoint /\ r.port = a.port /\ r.name = a.name
  /\ r.updated >= a.began

CommittedInv == \A a \in committed : \E r \in nasports : Tells(r, a)

\* That a was there after the endpoint of c, as its query asks.
Displaces(a, c) ==
  /\ a.began > c.own.updated
  /\ OtherDevice(a.endpoint, c.endpoint)
  /\ a.port = c.own.port
  /\ a.name = c.own.name \/ a.name = ""

\* What a call was told of displaces nobody; before its second query it knows nothing.
AskedInv ==
  \A c \in calls : /\ \A a \in c.asked : ~ Displaces(a, c)
                   /\ c.pc \in {"latest", "other"} => c.asked = {}

PortsInv == PortsOK /\ OnInv /\ CommittedInv
CallsInv == CallsOK /\ OwnInv /\ AskedInv
CoaInv == PortsInv /\ CallsInv

-----------------------------------------------------------------------------
(* Devices and switches *)

\* The names of a port are names.
LEMMA NamesOfPort ==
  ASSUME NEW p \in Ports, NEW name \in NamesOf[p]
  PROVE  name \in Names
  BY CoaAssumption DEF Names

\* A device that connects leaves its old port.
LEMMA ConnectPorts ==
  ASSUME PortsInv, NEW e \in Endpoints, NEW p \in Ports, NEW name \in NamesOf[p],
         Connect(e, p, name)
  PROVE  PortsInv'
<1> DEFINE auth == [endpoint |-> e, port |-> p, name |-> name, began |-> clock + 1]
           left == {q \in Ports : on[q] # None /\ ~ OtherDevice(on[q].endpoint, e)}
<1>1. PortsOK /\ OnInv /\ CommittedInv
  BY DEF PortsInv
<1>2. clock \in Nat /\ clock' = clock + 1
  BY <1>1 DEF PortsOK, Connect
<1>3. auth \in Auth /\ auth.port = p /\ auth.began = clock + 1
  BY <1>2, NamesOfPort DEF Auth
<1>4. /\ on' = [q \in Ports |-> IF q = p THEN auth ELSE IF q \in left THEN None ELSE on[q]]
      /\ auths' = auths \cup {auth}
      /\ UNCHANGED <<nasports, committed>>
  BY DEF Connect
<1> HIDE DEF auth, left
<1>5. PortsOK'
  BY <1>1, <1>2, <1>3, <1>4 DEF PortsOK
<1>6. OnInv'
  <2>1. \A a \in auths : a.began \in Nat
    BY <1>1 DEF PortsOK, Auth
  <2> QED
    BY <1>1, <1>2, <1>3, <1>4, <2>1 DEF OnInv
<1>7. CommittedInv'
  BY <1>1, <1>4 DEF CommittedInv, Tells
<1> QED
  BY <1>5, <1>6, <1>7 DEF PortsInv

\* The row of a commit tells of it.
LEMMA CommitPortPorts ==
  ASSUME PortsInv, NEW a \in auths, CommitPort(a)
  PROVE  PortsInv'
<1> DEFINE old == {r \in RowsOf(a.endpoint) : r.port = a.port}
           same == \E r \in old : r.name = a.name
           row == [endpoint |-> a.endpoint, port |-> a.port, name |-> a.name,
                   updated |-> IF same THEN clock + 1 ELSE a.began]
<1>1. PortsOK /\ OnInv /\ CommittedInv
  BY DEF PortsInv
<1>2. clock \in Nat /\ a \in Auth /\ a.began \in Nat /\ a.began <= clock
  BY <1>1 DEF PortsOK, OnInv, Auth
<1>3. /\ row \in NasPortRow
      /\ row.endpoint = a.endpoint /\ row.port = a.port /\ Tells(row, a)
  BY <1>2 DEF Auth, NasPortRow, Tells
<1>4. \A r \in nasports : r \in old <=> r.endpoint = a.endpoint /\ r.port = a.port
  BY DEF RowsOf
<1>5. /\ nasports' = (nasports \ old) \cup {row}
      /\ clock' \in {clock, clock + 1}
      /\ auths' = auths \ {a}
      /\ committed' = {b \in committed : b.endpoint # a.endpoint \/ b.port # a.port} \cup {a}
      /\ UNCHANGED on
  BY DEF CommitPort
<1> HIDE DEF old, row
<1>6. PortsOK'
  BY <1>1, <1>2, <1>3, <1>4, <1>5 DEF PortsOK
<1>7. OnInv'
  <2>1. \A b \in auths : b.began \in Nat
    BY <1>1 DEF PortsOK, Auth
  <2> QED
    BY <1>1, <1>2, <1>5, <2>1 DEF OnInv
<1>8. CommittedInv'
  <2> SUFFICES ASSUME NEW b \in committed'
               PROVE  \E r \in nasports' : Tells(r, b)
    BY DEF CommittedInv, Tells
  <2>1. CASE b = a
    BY <1>3, <1>5, <2>1
  <2>2. CASE b # a
    <3>1. b \in committed /\ (b.endpoint # a.endpoint \/ b.port # a.port)
      BY <1>5, <2>2
    <3>2. PICK r \in nasports : Tells(r, b)
      BY <1>1, <3>1 DEF CommittedInv
    <3>3. r \notin old
      BY <1>4, <3>1, <3>2 DEF Tells
    <3> QED
      BY <1>5, <3>2, <3>3
  <2> QED
    BY <2>1, <2>2
<1> QED
  BY <1>6, <1>7, <1>8 DEF PortsInv

\* The rows of a deleted endpoint go, and what they told of.
LEMMA CommitDeletePorts ==
  ASSUME PortsInv, NEW c \in calls, CommitDelete(c)
  PROVE  PortsInv'
<1>1. PortsOK /\ OnInv /\ CommittedInv
  BY DEF PortsInv
<1>2. /\ nasports' = nasports \ RowsOf(c.endpoint)
      /\ committed' = {a \in committed : a.endpoint # c.endpoint}
      /\ UNCHANGED <<clock, on, auths>>
  BY DEF CommitDelete
<1>3. PortsOK' /\ OnInv'
  BY <1>1, <1>2 DEF PortsOK, OnInv
<1>4. CommittedInv'
  <2> SUFFICES ASSUME NEW a \in committed'
               PROVE  \E r \in nasports' : Tells(r, a)
    BY DEF CommittedInv, Tells
  <2>1. PICK r \in nasports : Tells(r, a)
    BY <1>1, <1>2 DEF CommittedInv
  <2> QED
    BY <1>2, <2>1 DEF RowsOf, Tells
<1> QED
  BY <1>3, <1>4 DEF PortsInv

\* Nothing but calls changes.
LEMMA PortsUnchanged ==
  ASSUME PortsInv, UNCHANGED portVars
  PROVE  PortsInv'
  BY DEF PortsInv, PortsOK, OnInv, CommittedInv, Tells, portVars

-----------------------------------------------------------------------------
(* Calls *)

\* What a call may go on as.
CallOK(d) ==
  /\ d \in Call
  /\ d.pc \in {"other", "nas", "send"} \/ d.sends => d.own \in NasPortRow
  /\ \A a \in d.asked : ~ Displaces(a, d)
  /\ d.pc \in {"latest", "other"} => d.asked = {}

\* The calls of the invariant are such.
LEMMA CallsAreOK == CallsInv <=> CallsOK /\ \A c \in calls : CallOK(c)
  BY DEF CallsInv, CallsOK, OwnInv, AskedInv, CallOK

\* Calls that go on as such keep the invariant.
LEMMA CallsGoOn ==
  ASSUME CallsInv, \A d \in calls' \ calls : CallOK(d), waiting' \subseteq Endpoints,
         started' \in {started, started + 1}
  PROVE  CallsInv'
<1>1. CallsOK /\ \A c \in calls : CallOK(c)
  BY CallsAreOK
<1>2. \A d \in calls' : CallOK(d)
  BY <1>1
<1>3. CallsOK'
  BY <1>1, <1>2 DEF CallsOK, CallOK
<1> QED
  BY <1>2, <1>3 DEF CallsInv, OwnInv, AskedInv, CallOK, Displaces

\* Going on as another call.
LEMMA ContinueCalls ==
  ASSUME CallsInv, NEW c \in calls, NEW d, CallOK(d), Continue(c, d)
  PROVE  CallsInv'
  BY CallsGoOn DEF Continue, CallsInv, CallsOK

\* A call that ends.
LEMMA EndCalls ==
  ASSUME CallsInv, NEW c \in calls, End(c)
  PROVE  CallsInv'
  BY CallsGoOn DEF End, CallsInv, CallsOK

\* A call at another step.
LEMMA CallAt ==
  ASSUME CallsInv, NEW c \in calls, NEW sends \in BOOLEAN, NEW pc \in {"delete", "send"},
         sends \/ pc = "send" => c.own \in NasPortRow
  PROVE  CallOK([c EXCEPT !.pc = pc, !.sends = sends])
<1>1. CallOK(c) /\ c \in Call
  BY CallsAreOK DEF CallOK
<1> DEFINE d == [c EXCEPT !.pc = pc, !.sends = sends]
<1>2. /\ d \in Call /\ d.pc = pc /\ d.sends = sends
      /\ d.own = c.own /\ d.asked = c.asked /\ d.endpoint = c.endpoint
  BY <1>1 DEF Call
<1> HIDE DEF d
<1> QED
  BY <1>1, <1>2 DEF CallOK, Displaces, d

\* CoA.create returns.
LEMMA ReturnCalls ==
  ASSUME CallsInv, NEW c \in calls, NEW sends \in BOOLEAN, Return(c, sends),
         sends => c.own \in NasPortRow
  PROVE  CallsInv'
<1>1. CASE c.by = "DELETE"
  BY <1>1, CallAt, ContinueCalls DEF Return
<1>2. CASE c.by # "DELETE" /\ sends
  BY <1>2, CallAt, ContinueCalls DEF Return
<1>3. CASE c.by # "DELETE" /\ ~ sends
  BY <1>3, EndCalls DEF Return
<1> QED
  BY <1>1, <1>2, <1>3

\* Queries and returns leave the ports alone.
LEMMA ReturnPorts ==
  ASSUME NEW c, NEW sends, Return(c, sends)
  PROVE  UNCHANGED portVars
  BY DEF Return, Continue, End

\* The first query.
LEMMA GetLatestKeeps ==
  ASSUME CoaInv, NEW c \in calls, GetLatestNasPort(c)
  PROVE  CoaInv'
<1>1. CallOK(c) /\ c \in Call /\ nasports \subseteq NasPortRow
  BY CallsAreOK DEF CoaInv, CallOK, PortsInv, PortsOK
<1>2. CASE Return(c, FALSE)
  BY <1>2, ReturnCalls, ReturnPorts, PortsUnchanged DEF CoaInv
<1>3. ASSUME NEW r \in RowsOf(c.endpoint), c.pc = "latest",
             Continue(c, [c EXCEPT !.pc = "other", !.own = r])
      PROVE  CoaInv'
  <2>1. r \in NasPortRow
    BY <1>1 DEF RowsOf
  <2>2. CallOK([c EXCEPT !.pc = "other", !.own = r])
    BY <1>1, <1>3, <2>1 DEF CallOK, Call
  <2> QED
    BY <1>3, <2>2, ContinueCalls, PortsUnchanged DEF CoaInv, Continue
<1> QED
  BY <1>2, <1>3 DEF GetLatestNasPort

\* Who is connected where a committed authentication was is told of by a row, so that the
\* query finds it.
LEMMA NobodyDisplaces ==
  ASSUME CoaInv, NEW c \in calls, c.pc = "other", ~ OtherPort(c), NEW a \in committed
  PROVE  ~ Displaces(a, c)
<1>1. c.own \in NasPortRow /\ c.own.updated \in Nat
  BY DEF CoaInv, CallsInv, OwnInv, NasPortRow
<1>2. PICK r \in nasports : Tells(r, a)
  BY DEF CoaInv, PortsInv, CommittedInv
<1>3. r.updated \in Nat /\ a.began \in Nat
  BY <1>2 DEF CoaInv, PortsInv, PortsOK, NasPortRow, Auth
<1>4. SUFFICES ASSUME Displaces(a, c)
               PROVE  FALSE
  OBVIOUS
<1>5. r.updated > c.own.updated
  <2>1. a.began > c.own.updated
    BY <1>4 DEF Displaces
  <2>2. r.updated >= a.began
    BY <1>2 DEF Tells
  <2> QED
    BY <1>1, <1>3, <2>1, <2>2
<1> QED
  BY <1>2, <1>4, <1>5 DEF OtherPort, Tells, Displaces

\* The second query.
LEMMA AskKeeps ==
  ASSUME CoaInv, NEW c \in calls, AskOtherPort(c)
  PROVE  CoaInv'
<1>1. CallOK(c) /\ c \in Call /\ c.pc = "other" /\ committed \subseteq Auth
  BY CallsAreOK DEF CoaInv, CallOK, AskOtherPort, PortsInv, PortsOK
<1>2. CASE OtherPort(c)
  BY <1>2, ReturnCalls, ReturnPorts, PortsUnchanged DEF CoaInv, AskOtherPort
<1>3. CASE ~ OtherPort(c)
  <2> DEFINE d == [c EXCEPT !.pc = "nas", !.asked = committed]
  <2>1. /\ d \in Call /\ d.pc = "nas" /\ d.asked = committed
        /\ d.own = c.own /\ d.endpoint = c.endpoint
    BY <1>1 DEF Call
  <2>2. Continue(c, d)
    BY <1>3 DEF AskOtherPort
  <2>3. \A a \in committed : ~ Displaces(a, c)
    BY <1>1, <1>3, NobodyDisplaces
  <2>4. UNCHANGED portVars
    BY <2>2 DEF Continue
  <2> HIDE DEF d
  <2>5. CallOK(d)
    BY <1>1, <2>1, <2>3 DEF CallOK, Displaces
  <2> QED
    BY <2>2, <2>4, <2>5, ContinueCalls, PortsUnchanged DEF CoaInv
<1> QED
  BY <1>2, <1>3

\* The third.
LEMMA GetNasKeeps ==
  ASSUME CoaInv, NEW c \in calls, GetNas(c)
  PROVE  CoaInv'
<1>1. CallOK(c) /\ c.own \in NasPortRow
  BY CallsAreOK DEF CoaInv, CallOK, GetNas
<1>2. CASE End(c)
  BY <1>2, EndCalls, PortsUnchanged DEF CoaInv, End
<1>3. CASE Return(c, Bounceable(c.own.port))
  BY <1>1, <1>3, ReturnCalls, ReturnPorts, PortsUnchanged DEF CoaInv, Bounceable
<1> QED
  BY <1>2, <1>3 DEF GetNas

\* The commit of DELETE.
LEMMA CommitDeleteKeeps ==
  ASSUME CoaInv, NEW c \in calls, CommitDelete(c)
  PROVE  CoaInv'
<1> DEFINE d == [c EXCEPT !.pc = "send"]
<1>1. CallOK(c) /\ c \in Call
  BY CallsAreOK DEF CoaInv, CallOK
<1>2. c.sends => CallOK(d)
  <2>1. d \in Call /\ d.pc = "send" /\ d.own = c.own /\ d.asked = c.asked /\ d.endpoint = c.endpoint
    BY <1>1 DEF Call
  <2> HIDE DEF d
  <2> QED
    BY <1>1, <2>1 DEF CallOK, Displaces
<1>3. calls' \ calls \subseteq (IF c.sends THEN {d} ELSE {}) /\ UNCHANGED <<waiting, started>>
  BY DEF CommitDelete
<1> HIDE DEF d
<1>4. CallsInv'
  BY <1>2, <1>3, CallsGoOn DEF CoaInv, CallsInv, CallsOK
<1> QED
  BY <1>4, CommitDeletePorts DEF CoaInv

\* The packet: the device there, if any, authenticates again.
LEMMA SendKeeps ==
  ASSUME CoaInv, NEW c \in calls, SendCoaPacket(c)
  PROVE  CoaInv'
<1>1. c.own \in NasPortRow /\ c.own.port \in Ports
  BY DEF CoaInv, CallsInv, OwnInv, SendCoaPacket, NasPortRow
<1> DEFINE there == on[c.own.port]
<1>2. calls' \ calls = {} /\ UNCHANGED started
  BY DEF SendCoaPacket
<1>3. CASE there = None
  <2>1. UNCHANGED <<portVars, waiting>>
    BY <1>3 DEF SendCoaPacket
  <2>2. CallsInv'
    BY <1>2, <2>1, CallsGoOn DEF CoaInv, CallsInv, CallsOK
  <2> QED
    BY <2>1, <2>2, PortsUnchanged DEF CoaInv
<1>4. CASE there # None
  <2>1. PICK name \in NamesOf[c.own.port] : Connect(there.endpoint, c.own.port, name)
    BY <1>4 DEF SendCoaPacket
  <2>2. there.endpoint \in Endpoints
    BY <1>1, <1>4 DEF CoaInv, PortsInv, PortsOK, Auth
  <2>3. PortsInv'
    BY <1>1, <2>1, <2>2, ConnectPorts DEF CoaInv
  <2>4. CallsInv'
    BY <1>2, <2>1, CallsGoOn DEF CoaInv, CallsInv, CallsOK, Connect
  <2> QED
    BY <2>3, <2>4 DEF CoaInv
<1> QED
  BY <1>3, <1>4

\* A call begins.
LEMMA CreateKeeps ==
  ASSUME CoaInv, NEW e \in Endpoints, NEW by \in {"PUT", "DELETE"}, Create(by, e)
  PROVE  CoaInv'
<1> DEFINE d == [by |-> by, pc |-> "latest", endpoint |-> e, own |-> None,
                 sends |-> FALSE, number |-> started, asked |-> {}]
<1>1. CallOK(d)
  BY DEF CoaInv, CallsInv, CallsOK, CallOK, Call
<1>2. /\ calls' = calls \cup {d} /\ started' = started + 1
      /\ waiting' \subseteq waiting \cup {e} /\ UNCHANGED portVars
  BY DEF Create
<1> HIDE DEF d
<1>3. CallsInv'
  BY <1>1, <1>2, CallsGoOn DEF CoaInv, CallsInv, CallsOK
<1> QED
  BY <1>2, <1>3, PortsUnchanged DEF CoaInv

-----------------------------------------------------------------------------
\* CoaInv is inductive.
LEMMA CoaInvStep == CoaInv /\ [Next]_vars => CoaInv'
<1> SUFFICES ASSUME CoaInv, [Next]_vars
             PROVE  CoaInv'
  OBVIOUS
<1>1. CASE UNCHANGED vars
  <2>1. CallsInv'
    BY <1>1, CallsGoOn DEF vars, CoaInv, CallsInv, CallsOK
  <2> QED
    BY <1>1, <2>1, PortsUnchanged DEF vars, CoaInv
<1>2. ASSUME NEW e \in Endpoints, NEW p \in Ports, NEW name \in NamesOf[p],
             Connect(e, p, name), UNCHANGED <<calls, started>>
      PROVE  CoaInv'
  <2>1. CallsInv'
    BY <1>2, CallsGoOn DEF CoaInv, CallsInv, CallsOK, Connect
  <2> QED
    BY <1>2, <2>1, ConnectPorts DEF CoaInv
<1>3. ASSUME NEW a \in auths, CommitPort(a)
      PROVE  CoaInv'
  <2>1. CallsInv'
    BY <1>3, CallsGoOn DEF CoaInv, CallsInv, CallsOK, CommitPort
  <2> QED
    BY <1>3, <2>1, CommitPortPorts DEF CoaInv
<1>4. ASSUME NEW c \in calls, Lose(c)
      PROVE  CoaInv'
  <2>1. CallsInv'
    BY <1>4, CallsGoOn DEF CoaInv, CallsInv, CallsOK, Lose
  <2> QED
    BY <1>4, <2>1, PortsUnchanged DEF CoaInv, Lose
<1> QED
  BY <1>1, <1>2, <1>3, <1>4, CreateKeeps, GetLatestKeeps, AskKeeps, GetNasKeeps,
     CommitDeleteKeeps, SendKeeps DEF Next, Run

\* The invariant holds at first, and so always.
LEMMA CoaInvariance == Spec => []CoaInv
<1>1. Init => CoaInv
  BY DEF Init, CoaInv, PortsInv, PortsOK, OnInv, CommittedInv, CallsInv, CallsOK, OwnInv, AskedInv
<1> QED
  BY <1>1, CoaInvStep, PTL DEF Spec

\* Rows, calls and packets always have their types, and an endpoint has one row for a port:
\* a commit replaces the row the device was known by.
THEOREM TypeCorrect == Spec => []TypeOK
<1>1. CoaInv => TypeOK
  BY DEF CoaInv, PortsInv, PortsOK, CallsInv, CallsOK, TypeOK
<1> QED
  BY <1>1, CoaInvariance, PTL

\* The packet of a PUT or a DELETE bounces no other device that the query could have known
\* of, however many calls and authentications overlap.
THEOREM NobodyElseIsBounced == Spec => NoStrangerBounced
<1> DEFINE Stranger(c) ==
             LET there == on[c.own.port]
             IN  /\ there # None
                 /\ OtherDevice(there.endpoint, c.endpoint)
                 /\ there.began > c.own.updated
                 /\ there \in c.asked
                 /\ there.name = c.own.name \/ there.name = ""
<1>1. ASSUME CoaInv, NEW c \in calls, SendCoaPacket(c)
      PROVE  ~ Stranger(c)
  <2>1. c.own.port \in Ports
    BY <1>1 DEF CoaInv, CallsInv, OwnInv, SendCoaPacket, NasPortRow
  <2>2. on[c.own.port] # None => on[c.own.port].port = c.own.port
    BY <1>1, <2>1 DEF CoaInv, PortsInv, OnInv
  <2> QED
    BY <1>1, <2>2 DEF CoaInv, CallsInv, AskedInv, Displaces
<1>2. CoaInv /\ [Next]_vars =>
        [\A c \in calls :
           LET there == on[c.own.port]
           IN  SendCoaPacket(c) =>
                 ~ /\ there # None
                   /\ OtherDevice(there.endpoint, c.endpoint)
                   /\ there.began > c.own.updated
                   /\ there \in c.asked
                   /\ there.name = c.own.name \/ there.name = ""]_vars
  BY <1>1
<1> QED
  BY <1>2, CoaInvariance, PTL DEF Spec, NoStrangerBounced

-----------------------------------------------------------------------------
(* Endpoints that wait *)

\* No two rows, or authentications under way, have the same time, and a device is in one place.
TimesInv ==
  /\ \A r \in nasports : r.updated <= clock
  /\ \A r, q \in nasports : r.updated = q.updated => r = q
  /\ \A a, b \in auths : a.began = b.began => a = b
  /\ \A r \in nasports, a \in auths : r.updated # a.began
  /\ \A p, q \in Ports :
       on[p] # None /\ on[q] # None /\ on[p].endpoint = on[q].endpoint => p = q

IsAt(e, p) == on[p] # None /\ on[p].endpoint = e

\* While an endpoint waits, no authentication of it, or at the port where it is, is under way;
\* and no row of that port is later than its own.  So once it is not quiet it never is again.
Stays(e) ==
  /\ \A a \in auths : a.endpoint # e
  /\ \A p \in Ports : IsAt(e, p) =>
       /\ \A a \in auths : a.port # p
       /\ \A r, q \in nasports : r.endpoint = e /\ r.port = p /\ q.port = p => q.updated <= r.updated

\* The call has its queries before it, or has found the latest row of the endpoint.
Serves(c, e) ==
  /\ c.by = "PUT" /\ c.endpoint = e /\ c.pc # "delete"
  /\ c.pc = "latest" \/ (c.own \in RowsOf(e) /\ IsLatest(c.own))

IsServed(e) == Quiet(e) => \E c \in calls : Serves(c, e)

WaitingInv == \A e \in waiting : Stays(e) /\ IsServed(e)

\* The times are those of the clock, which no two commits and connections share.
LEMMA TimesStep == CoaInv /\ TimesInv /\ [Next]_vars => TimesInv'
<1> SUFFICES ASSUME CoaInv, TimesInv, [Next]_vars
             PROVE  TimesInv'
  OBVIOUS
<1>0. /\ clock \in Nat /\ on \in [Ports -> Auth \cup {None}]
      /\ \A a \in auths : a.began \in Nat /\ a.began <= clock
      /\ \A r \in nasports : r.updated \in Nat
  BY DEF CoaInv, PortsInv, PortsOK, OnInv, Auth, NasPortRow
<1>1. ASSUME NEW e \in Endpoints, NEW p \in Ports, NEW name \in NamesOf[p], Connect(e, p, name)
      PROVE  TimesInv'
  <2> DEFINE auth == [endpoint |-> e, port |-> p, name |-> name, began |-> clock + 1]
             left == {q \in Ports : on[q] # None /\ ~ OtherDevice(on[q].endpoint, e)}
  <2>1. /\ auths' = auths \cup {auth} /\ nasports' = nasports /\ clock' = clock + 1
        /\ on' = [q \in Ports |-> IF q = p THEN auth ELSE IF q \in left THEN None ELSE on[q]]
    BY <1>1 DEF Connect
  <2>2. auth.began = clock + 1 /\ auth.endpoint = e
    OBVIOUS
  <2>3. \A q \in Ports : on[q] # None /\ on[q].endpoint = e => q \in left
    BY DEF OtherDevice
  <2> HIDE DEF auth, left
  <2>4. \A q, t \in Ports :
          on'[q] # None /\ on'[t] # None /\ on'[q].endpoint = on'[t].endpoint => q = t
    BY <2>1, <2>2, <2>3 DEF TimesInv
  <2>5. /\ \A r \in nasports' : r.updated <= clock'
        /\ \A r, q \in nasports' : r.updated = q.updated => r = q
    BY <1>0, <2>1 DEF TimesInv
  <2>6. /\ \A a, b \in auths' : a.began = b.began => a = b
        /\ \A r \in nasports', a \in auths' : r.updated # a.began
    BY <1>0, <2>1, <2>2 DEF TimesInv
  <2> QED
    BY <2>4, <2>5, <2>6 DEF TimesInv
<1>2. ASSUME NEW a \in auths, CommitPort(a)
      PROVE  TimesInv'
  <2> DEFINE old == {r \in RowsOf(a.endpoint) : r.port = a.port}
             same == \E r \in old : r.name = a.name
             row == [endpoint |-> a.endpoint, port |-> a.port, name |-> a.name,
                     updated |-> IF same THEN clock + 1 ELSE a.began]
  <2>1. /\ nasports' = (nasports \ old) \cup {row} /\ auths' = auths \ {a} /\ on' = on
        /\ clock' = IF same THEN clock + 1 ELSE clock
    BY <1>2 DEF CommitPort
  <2>2. row.updated = IF same THEN clock + 1 ELSE a.began
    OBVIOUS
  <2> HIDE DEF old, same, row
  <2> QED
    BY <1>0, <2>1, <2>2 DEF TimesInv
<1>3. ASSUME nasports' \subseteq nasports, UNCHANGED <<clock, on, auths>>
      PROVE  TimesInv'
  BY <1>3 DEF TimesInv
<1>4. ASSUME NEW c \in calls, Run(c) \/ Lose(c)
      PROVE  TimesInv'
  <2>1. CASE SendCoaPacket(c)
    <3>1. c.own.port \in Ports
      BY <2>1 DEF CoaInv, CallsInv, OwnInv, SendCoaPacket, NasPortRow
    <3>2. on[c.own.port] # None => on[c.own.port].endpoint \in Endpoints
      BY <1>0, <3>1 DEF Auth
    <3> QED
      BY <1>1, <1>3, <2>1, <3>1, <3>2 DEF SendCoaPacket, portVars
  <2>2. CASE ~ SendCoaPacket(c)
    BY <1>3, <1>4, <2>2
       DEF Run, Lose, GetLatestNasPort, AskOtherPort, GetNas, CommitDelete, Return, Continue, End,
           portVars
  <2> QED
    BY <2>1, <2>2
<1>5. ASSUME UNCHANGED portVars
      PROVE  TimesInv'
  BY <1>3, <1>5 DEF portVars
<1> QED
  BY <1>1, <1>2, <1>4, <1>5 DEF Next, Create, vars

\* The row by which an endpoint is quiet is its latest one.
LEMMA QuietRow ==
  ASSUME CoaInv, TimesInv, NEW e, Quiet(e), NEW s \in RowsOf(e), IsLatest(s)
  PROVE  /\ Bounceable(s.port) /\ s.port \in Ports /\ IsAt(e, s.port)
         /\ \A q \in nasports : q.port = s.port => q.updated <= s.updated
<1>1. PICK r \in RowsOf(e) :
        /\ IsLatest(r) /\ Bounceable(r.port)
        /\ on[r.port] # None /\ on[r.port].endpoint = e
        /\ \A q \in nasports : q.port = r.port => q.updated <= r.updated
  BY DEF Quiet
<1>2. r \in nasports /\ s \in nasports /\ r.endpoint = e /\ s.endpoint = e
  BY DEF RowsOf
<1>3. /\ r.updated \in Nat /\ s.updated \in Nat /\ r.port \in Ports
      /\ s.updated <= r.updated /\ r.updated <= s.updated
  BY <1>1, <1>2 DEF CoaInv, PortsInv, PortsOK, NasPortRow, IsLatest
<1>4. r = s
  BY <1>2, <1>3 DEF TimesInv
<1> QED
  BY <1>1, <1>3, <1>4 DEF IsAt

\* A call serves an endpoint as long as the rows of the endpoint stay.
LEMMA ServesStill ==
  ASSUME NEW c, NEW e, Serves(c, e), RowsOf(e)' = RowsOf(e)
  PROVE  Serves(c, e)'
<1>1. c.own \in RowsOf(e) => c.own.endpoint = e
  BY DEF RowsOf
<1> QED
  BY <1>1 DEF Serves, IsLatest

\* A connection, of a device or by the packet of a call: other endpoints that wait elsewhere go on
\* doing so, and the packet of a call that serves one is not sent to another port.
LEMMA ConnectWaits ==
  ASSUME CoaInv, TimesInv, WaitingInv,
         NEW f \in Endpoints, NEW p \in Ports, NEW name \in NamesOf[p], Connect(f, p, name),
         calls' \subseteq calls, \A c \in calls \ calls' : c.pc = "send" /\ c.own.port = p
  PROVE  WaitingInv'
<1> DEFINE auth == [endpoint |-> f, port |-> p, name |-> name, began |-> clock + 1]
           left == {q \in Ports : on[q] # None /\ ~ OtherDevice(on[q].endpoint, f)}
<1>1. /\ auths' = auths \cup {auth} /\ waiting' = waiting \ {f} /\ UNCHANGED nasports
      /\ on' = [q \in Ports |-> IF q = p THEN auth ELSE IF q \in left THEN None ELSE on[q]]
  BY DEF Connect
<1>2. auth.endpoint = f /\ auth.port = p
  OBVIOUS
<1> HIDE DEF auth, left
<1> SUFFICES ASSUME NEW e \in waiting, e # f, Stays(e), IsServed(e)
             PROVE  Stays(e)' /\ IsServed(e)'
  BY <1>1 DEF WaitingInv
<1>3. \A q \in Ports : IsAt(e, q)' => q # p /\ IsAt(e, q) /\ on'[q] = on[q]
  BY <1>1, <1>2 DEF IsAt
<1>4. Stays(e)'
  BY <1>1, <1>2, <1>3 DEF Stays
<1>5. ASSUME Quiet(e)'
      PROVE  \E c \in calls' : Serves(c, e)'
  <2>1. PICK r \in RowsOf(e) :
          /\ IsLatest(r) /\ Bounceable(r.port)
          /\ on'[r.port] # None /\ on'[r.port].endpoint = e
          /\ \A a \in auths' : a.endpoint # e /\ a.port # r.port
          /\ \A q \in nasports : q.port = r.port => q.updated <= r.updated
    BY <1>1, <1>5 DEF Quiet, RowsOf, IsLatest
  <2>2. r \in nasports /\ r.endpoint = e /\ r.port \in Ports
    BY <2>1 DEF RowsOf, CoaInv, PortsInv, PortsOK, NasPortRow
  <2>3. IsAt(e, r.port) /\ r.port # p
    BY <1>3, <2>1, <2>2 DEF IsAt
  <2>4. Quiet(e)
    BY <1>1, <2>1, <2>3 DEF Quiet, IsAt
  <2>5. PICK c \in calls : Serves(c, e)
    BY <2>4 DEF IsServed
  <2>6. c \in calls'
    <3> SUFFICES ASSUME c.pc = "send", c.own.port = p
                 PROVE  FALSE
      OBVIOUS
    <3>1. c.own \in RowsOf(e) /\ IsLatest(c.own)
      BY <2>5 DEF Serves
    <3>2. IsAt(e, p)
      BY <2>4, <3>1, QuietRow
    <3> QED
      BY <2>2, <2>3, <3>2 DEF TimesInv, IsAt
  <2> QED
    BY <1>1, <2>5, <2>6, ServesStill DEF RowsOf
<1> QED
  BY <1>4, <1>5 DEF IsServed

\* A commit of a port: not one where an endpoint waits, nor of that endpoint.
LEMMA CommitPortWaits ==
  ASSUME CoaInv, TimesInv, WaitingInv, NEW a \in auths, CommitPort(a)
  PROVE  WaitingInv'
<1> DEFINE old == {r \in RowsOf(a.endpoint) : r.port = a.port}
           same == \E r \in old : r.name = a.name
           row == [endpoint |-> a.endpoint, port |-> a.port, name |-> a.name,
                   updated |-> IF same THEN clock + 1 ELSE a.began]
<1>1. /\ nasports' = (nasports \ old) \cup {row} /\ auths' = auths \ {a}
      /\ UNCHANGED <<on, calls, waiting>>
  BY DEF CommitPort
<1>2. row.endpoint = a.endpoint /\ row.port = a.port
  OBVIOUS
<1>3. \A r \in old : r.endpoint = a.endpoint /\ r.port = a.port
  BY DEF RowsOf
<1> HIDE DEF old, row
<1> SUFFICES ASSUME NEW e \in waiting, Stays(e), IsServed(e)
             PROVE  Stays(e)' /\ IsServed(e)'
  BY <1>1 DEF WaitingInv
<1>4. a.endpoint # e /\ \A p \in Ports : IsAt(e, p) => a.port # p
  BY DEF Stays
<1>5. RowsOf(e)' = RowsOf(e)
  BY <1>1, <1>2, <1>3, <1>4 DEF RowsOf
<1>6. \A p \in Ports : IsAt(e, p) => \A q : q.port = p => (q \in nasports' <=> q \in nasports)
  BY <1>1, <1>2, <1>3, <1>4
<1>7. Stays(e)'
  BY <1>1, <1>6 DEF Stays, IsAt
<1>8. Quiet(e)' => Quiet(e)
  <2> SUFFICES ASSUME Quiet(e)'
               PROVE  Quiet(e)
    OBVIOUS
  <2>1. PICK r \in RowsOf(e) :
          /\ IsLatest(r)' /\ Bounceable(r.port) /\ IsAt(e, r.port)
          /\ \A b \in auths' : b.endpoint # e /\ b.port # r.port
          /\ \A q \in nasports' : q.port = r.port => q.updated <= r.updated
    BY <1>1, <1>5 DEF Quiet, IsAt
  <2>2. r.endpoint = e /\ r.port \in Ports
    BY DEF RowsOf, CoaInv, PortsInv, PortsOK, NasPortRow
  <2>3. IsLatest(r)
    BY <1>5, <2>1, <2>2 DEF IsLatest
  <2>4. \A b \in auths : b.endpoint # e /\ b.port # r.port
    BY <1>1, <1>4, <2>1, <2>2
  <2>5. \A q \in nasports : q.port = r.port => q.updated <= r.updated
    BY <1>6, <2>1, <2>2
  <2> QED
    BY <2>1, <2>3, <2>4, <2>5 DEF Quiet, IsAt
<1> QED
  BY <1>1, <1>5, <1>7, <1>8, ServesStill DEF IsServed

\* A deletion leaves an endpoint that waits without rows, or with those it had.
LEMMA CommitDeleteWaits ==
  ASSUME CoaInv, TimesInv, WaitingInv, NEW c \in calls, CommitDelete(c)
  PROVE  WaitingInv'
<1>1. /\ c.pc = "delete" /\ nasports' = nasports \ RowsOf(c.endpoint) /\ calls \ {c} \subseteq calls'
      /\ UNCHANGED <<on, auths, waiting>>
  BY DEF CommitDelete
<1> SUFFICES ASSUME NEW e \in waiting, Stays(e), IsServed(e)
             PROVE  Stays(e)' /\ IsServed(e)'
  BY <1>1 DEF WaitingInv
<1>2. Stays(e)'
  BY <1>1 DEF Stays, IsAt
<1>3. ASSUME Quiet(e)'
      PROVE  \E d \in calls' : Serves(d, e)'
  <2>1. PICK r \in RowsOf(e)' :
          /\ IsLatest(r)' /\ Bounceable(r.port) /\ IsAt(e, r.port)
          /\ \A b \in auths : b.endpoint # e /\ b.port # r.port
    BY <1>1, <1>3 DEF Quiet, IsAt
  <2>2. r \in nasports /\ r.endpoint = e /\ e # c.endpoint /\ r.port \in Ports
    BY <1>1, <2>1 DEF RowsOf, CoaInv, PortsInv, PortsOK, NasPortRow
  <2>3. RowsOf(e)' = RowsOf(e)
    BY <1>1, <2>2 DEF RowsOf
  <2>4. \A q \in nasports : q.port = r.port => q.updated <= r.updated
    BY <2>1, <2>2 DEF Stays
  <2>5. IsLatest(r)
    BY <2>1, <2>2, <2>3 DEF IsLatest
  <2>6. Quiet(e)
    BY <2>1, <2>3, <2>4, <2>5 DEF Quiet, IsAt
  <2>7. PICK d \in calls : Serves(d, e)
    BY <2>6 DEF IsServed
  <2>8. d \in calls'
    BY <1>1, <2>7 DEF Serves
  <2> QED
    BY <2>3, <2>7, <2>8, ServesStill
<1> QED
  BY <1>2, <1>3 DEF IsServed

\* A call that goes on, as long as it still serves the endpoint it served.
LEMMA CallWaits ==
  ASSUME WaitingInv, NEW c \in calls, calls \ {c} \subseteq calls', UNCHANGED portVars,
         waiting' \subseteq waiting,
         \A e \in waiting' : Quiet(e) /\ Serves(c, e) => \E d \in calls' : Serves(d, e)
  PROVE  WaitingInv'
<1> SUFFICES ASSUME NEW e \in waiting', Stays(e), IsServed(e)
             PROVE  Stays(e)' /\ IsServed(e)'
  BY DEF WaitingInv
<1>1. Stays(e)' /\ Quiet(e)' = Quiet(e) /\ RowsOf(e)' = RowsOf(e)
  BY DEF Stays, IsAt, Quiet, IsLatest, RowsOf, portVars
<1>2. Quiet(e) => \E d \in calls' : Serves(d, e)
  BY DEF IsServed
<1> QED
  BY <1>1, <1>2, ServesStill DEF IsServed

\* The queries of a call that serves a quiet endpoint find the port where it is, no other device
\* on it, and a switch.
LEMMA QueriesWait ==
  ASSUME CoaInv, TimesInv, WaitingInv, NEW c \in calls,
         GetLatestNasPort(c) \/ AskOtherPort(c) \/ GetNas(c)
  PROVE  WaitingInv'
<1>0. c \in Call
  BY DEF CoaInv, CallsInv, CallsOK
<1>1. /\ calls \ {c} \subseteq calls' /\ UNCHANGED <<portVars, waiting>>
  BY DEF GetLatestNasPort, AskOtherPort, GetNas, Return, Continue, End
<1> SUFFICES ASSUME NEW e \in waiting, Quiet(e), Serves(c, e)
             PROVE  \E d \in calls' : Serves(d, e)
  BY <1>1, CallWaits
<1>2. c.endpoint = e /\ c.by = "PUT" /\ RowsOf(e) # {}
  BY DEF Serves, Quiet
<1>3. ASSUME c.pc # "latest"
      PROVE  /\ c.own \in RowsOf(e) /\ IsLatest(c.own) /\ Bounceable(c.own.port)
             /\ \A q \in nasports : q.port = c.own.port => q.updated <= c.own.updated
  BY <1>3, QuietRow DEF Serves
<1>4. CASE GetLatestNasPort(c)
  <2>1. PICK r \in RowsOf(e) : IsLatest(r) /\ Continue(c, [c EXCEPT !.pc = "other", !.own = r])
    BY <1>2, <1>4 DEF GetLatestNasPort
  <2>2. Serves([c EXCEPT !.pc = "other", !.own = r], e)
    BY <1>0, <1>2, <2>1 DEF Serves, Call
  <2> QED
    BY <2>1, <2>2 DEF Continue
<1>5. CASE AskOtherPort(c)
  <2>1. ~ OtherPort(c)
    <3>1. c.own.updated \in Nat /\ \A q \in nasports : q.updated \in Nat
      BY <1>3, <1>5 DEF AskOtherPort, RowsOf, CoaInv, PortsInv, PortsOK, NasPortRow
    <3>2. \A q \in nasports : q.port = c.own.port => q.updated <= c.own.updated
      BY <1>3, <1>5 DEF AskOtherPort
    <3>3. \A q \in nasports : q.port = c.own.port => ~ (q.updated > c.own.updated)
      BY <3>1, <3>2
    <3> QED
      BY <3>3 DEF OtherPort
  <2>2. Continue(c, [c EXCEPT !.pc = "nas", !.asked = committed])
    BY <1>5, <2>1 DEF AskOtherPort
  <2>3. Serves([c EXCEPT !.pc = "nas", !.asked = committed], e)
    BY <1>0, <1>2, <1>3, <1>5 DEF AskOtherPort, Serves, Call
  <2> QED
    BY <2>2, <2>3 DEF Continue
<1>6. CASE GetNas(c)
  <2>1. Bounceable(c.own.port)
    BY <1>3, <1>6 DEF GetNas
  <2>2. Cardinality(NasOf[c.own.port]) = 1
    BY <2>1, FS_Singleton DEF Bounceable
  <2>3. Continue(c, [c EXCEPT !.pc = "send", !.sends = TRUE])
    BY <1>2, <1>6, <2>1, <2>2 DEF GetNas, Return
  <2>4. Serves([c EXCEPT !.pc = "send", !.sends = TRUE], e)
    BY <1>0, <1>2, <1>3, <1>6 DEF GetNas, Serves, Call
  <2> QED
    BY <2>3, <2>4 DEF Continue
<1> QED
  BY <1>4, <1>5, <1>6

\* The packet reaches the endpoint it is for, if that is still there.
LEMMA SendWaits ==
  ASSUME CoaInv, TimesInv, WaitingInv, NEW c \in calls, SendCoaPacket(c)
  PROVE  WaitingInv'
<1>1. c.own.port \in Ports /\ c.pc = "send" /\ calls' = calls \ {c}
  BY DEF CoaInv, CallsInv, OwnInv, SendCoaPacket, NasPortRow
<1>2. CASE on[c.own.port] = None
  <2>1. UNCHANGED <<portVars, waiting>>
    BY <1>2 DEF SendCoaPacket
  <2>2. ASSUME NEW e \in waiting, Quiet(e), Serves(c, e)
        PROVE  FALSE
    BY <1>1, <1>2, <2>2, QuietRow DEF Serves, IsAt
  <2> QED
    BY <1>1, <2>1, <2>2, CallWaits
<1>3. CASE on[c.own.port] # None
  <2>1. PICK name \in NamesOf[c.own.port] :
          Connect(on[c.own.port].endpoint, c.own.port, name)
    BY <1>3 DEF SendCoaPacket
  <2>2. on[c.own.port].endpoint \in Endpoints
    BY <1>1, <1>3 DEF CoaInv, PortsInv, PortsOK, Auth
  <2> QED
    BY <1>1, <2>1, <2>2, ConnectWaits
<1> QED
  BY <1>2, <1>3

\* A call begins; its endpoint waits if it is quiet.
LEMMA CreateWaits ==
  ASSUME CoaInv, TimesInv, WaitingInv, NEW f \in Endpoints, NEW by \in {"PUT", "DELETE"},
         Create(by, f)
  PROVE  WaitingInv'
<1> DEFINE new == [by |-> by, pc |-> "latest", endpoint |-> f, own |-> None,
                   sends |-> FALSE, number |-> started, asked |-> {}]
<1>1. /\ calls' = calls \cup {new} /\ UNCHANGED portVars
      /\ waiting' = IF by = "PUT" /\ Quiet(f) THEN waiting \cup {f} ELSE waiting
  BY DEF Create
<1>2. new.by = by /\ new.pc = "latest" /\ new.endpoint = f
  OBVIOUS
<1> HIDE DEF new
<1>3. ASSUME NEW e \in waiting', Stays(e), Quiet(e) => \E d \in calls' : Serves(d, e)
      PROVE  Stays(e)' /\ IsServed(e)'
  <2>1. Stays(e)' /\ Quiet(e)' = Quiet(e) /\ RowsOf(e)' = RowsOf(e)
    BY <1>1, <1>3 DEF Stays, IsAt, Quiet, IsLatest, RowsOf, portVars
  <2> QED
    BY <1>3, <2>1, ServesStill DEF IsServed
<1>4. CASE by = "PUT" /\ Quiet(f)
  <2>1. Serves(new, f)
    BY <1>2, <1>4 DEF Serves
  <2>2. PICK r \in RowsOf(f) :
          /\ IsAt(f, r.port)
          /\ \A a \in auths : a.endpoint # f /\ a.port # r.port
          /\ \A q \in nasports : q.port = r.port => q.updated <= r.updated
    BY <1>4 DEF Quiet, IsAt
  <2>3. r \in nasports /\ r.endpoint = f /\ r.port \in Ports
    BY DEF RowsOf, CoaInv, PortsInv, PortsOK, NasPortRow
  <2>4. \A p \in Ports : IsAt(f, p) => p = r.port
    BY <2>2, <2>3 DEF IsAt, TimesInv
  <2>5. \A s \in nasports : s.endpoint = f /\ s.port = r.port => s = r
    BY <2>3 DEF CoaInv, PortsInv, PortsOK
  <2>6. Stays(f)
    BY <2>2, <2>4, <2>5 DEF Stays
  <2> QED
    BY <1>1, <1>3, <2>1, <2>6 DEF WaitingInv, IsServed
<1>5. CASE ~ (by = "PUT" /\ Quiet(f))
  BY <1>1, <1>3, <1>5 DEF WaitingInv, IsServed
<1> QED
  BY <1>4, <1>5

LEMMA WaitingStep == CoaInv /\ TimesInv /\ WaitingInv /\ [Next]_vars => WaitingInv'
<1> SUFFICES ASSUME CoaInv, TimesInv, WaitingInv, [Next]_vars
             PROVE  WaitingInv'
  OBVIOUS
<1>1. CASE UNCHANGED vars
  BY <1>1 DEF WaitingInv, Stays, IsServed, IsAt, Quiet, Serves, IsLatest, RowsOf, vars, portVars
<1>2. ASSUME NEW e \in Endpoints, NEW p \in Ports, NEW name \in NamesOf[p],
             Connect(e, p, name), UNCHANGED <<calls, started>>
      PROVE  WaitingInv'
  BY <1>2, ConnectWaits
<1>3. ASSUME NEW c \in calls, Lose(c)
      PROVE  WaitingInv'
  <2>1. calls' = calls \ {c} /\ waiting' = waiting \ {c.endpoint} /\ UNCHANGED portVars
    BY <1>3 DEF Lose
  <2>2. \A e \in waiting' : ~ Serves(c, e)
    BY <2>1 DEF Serves
  <2> QED
    BY <2>1, <2>2, CallWaits
<1> QED
  BY <1>1, <1>2, <1>3, CommitPortWaits, CreateWaits, QueriesWait, CommitDeleteWaits, SendWaits
     DEF Next, Run

\* An endpoint that waits where it was last seen has a call whose packet reaches it: no query of
\* that call is deceived by what others do between its queries, since whatever could deceive it
\* takes the endpoint away, or its rows.
THEOREM NobodyIsForgotten == Spec => []WaitingIsServed
<1>1. Init => TimesInv /\ WaitingInv
  BY DEF Init, TimesInv, WaitingInv
<1>2. CoaInv /\ TimesInv /\ WaitingInv => WaitingIsServed
  <2> SUFFICES ASSUME CoaInv, TimesInv, WaitingInv, NEW e \in waiting, Quiet(e)
               PROVE  \E c \in calls :
                        c.by = "PUT" /\ c.endpoint = e /\ (c.pc = "latest" \/ IsAt(e, c.own.port))
    BY DEF WaitingIsServed, IsAt
  <2>1. PICK c \in calls : Serves(c, e)
    BY DEF WaitingInv, IsServed
  <2>2. c.pc = "latest" \/ IsAt(e, c.own.port)
    BY <2>1, QuietRow DEF Serves
  <2> QED
    BY <2>1, <2>2 DEF Serves
<1> QED
  BY <1>1, <1>2, TimesStep, WaitingStep, CoaInvariance, PTL DEF Spec
=============================================================================
