--------------------------- MODULE AuthPortProofs ---------------------------
(***************************************************************************)
(* The table nasport.                                                      *)
(*                                                                         *)
(* A switch_port lock never accepts a first contact, however sessions      *)
(* overlap and whatever the external API deletes meanwhile.  The argument: *)
(* under a lock, db_nas_port is set by the lookup alone; the row it finds  *)
(* bears the name of some earlier request and the address of some earlier  *)
(* request, not always of one, since a flush writes only the columns that  *)
(* changed.  The lookup asks for one of the two.                           *)
(*                                                                         *)
(* Without overlap on a user, no request collides with a row its lookup    *)
(* missed, and a port without an endpoint is the trace of a request that   *)
(* did not end well.                                                       *)
(***************************************************************************)
EXTENDS AuthEngineProofs, FiniteSetTheorems

\* A request that may have written its port.
Past(q) == requests[q].pc \notin {"new", "select", "create", "lookup"}

\* It was made by this endpoint, at this port of some switch.
WasAt(q, e, place) ==
  /\ Past(q)
  /\ requests[q].endpoint = e
  /\ requests[q].place.nas_port_id = place.nas_port_id

\* Each of the two columns a row names its switch by came with a request.
ColumnsWereSeen ==
  \A n \in nasports :
    /\ \E q \in Requests : /\ WasAt(q, n.endpoint, n.place)
                           /\ requests[q].place.nas_identifier = n.place.nas_identifier
    /\ \E q \in Requests : /\ WasAt(q, n.endpoint, n.place)
                           /\ requests[q].place.called_station_id = n.place.called_station_id

\* Primary keys are drawn from the clock, and each is used once.
PortIdsInv ==
  /\ \A n \in nasports : n.id <= clock
  /\ \A n, m \in nasports : n.id = m.id => n = m
  /\ \A r \in Requests : requests[r].port # None => requests[r].port.id <= clock

\* Another request has been at this place before.
SeenByOther(r) ==
  \E q \in Requests \ {r} :
    Past(q) /\ requests[q].endpoint = requests[r].endpoint
            /\ SamePort(requests[q].place, requests[r].place)

\* What a session knows of db_nas_port at each of its steps.
KnowsItsPort(r) ==
  LET s == requests[r]
  IN  /\ s.pc \in {"new", "select", "lookup"} => s.port = None
      /\ s.pc = "insert" => s.locking = None
      /\ s.pc = "touch" =>
           \A n \in nasports :
             n.id = s.port.id => n.endpoint = s.endpoint /\ n.place.nas_port_id = s.place.nas_port_id
      /\ s.port # None /\ s.locking # None => SeenByOther(r)

\* A session that has passed a switch_port lock has a db_nas_port.
PassedWithPort(r) ==
  LET s == requests[r]
  IN  /\ s.pc \in {"replies", "accept"} /\ s.locking = "switch_port" => s.port # None
      /\ s.answer = "accept" => s.pc = "done"
      /\ s.answer = "accept" /\ s.locking = "switch_port" => s.port # None

LockInv ==
  /\ ColumnsWereSeen /\ PortIdsInv
  /\ \A r \in Requests : KnowsItsPort(r) /\ PassedWithPort(r)

-----------------------------------------------------------------------------
(* What a step does to the other sessions and to the table nasport *)

\* The steps that may be taken after r has written its port.
PastSteps == Steps \ {"new", "select", "create", "lookup"}

\* No request changes, and none goes back.
Keeps == \A q \in Requests : SameRequest(q) /\ (Past(q) => Past(q)')

\* A row is a new one, or one that was there under its key, at the same port.
RowsFollow ==
  \A n \in nasports' :
    \/ n.id > clock
    \/ \E m \in nasports : /\ m.id = n.id /\ m.endpoint = n.endpoint
                          /\ m.place.nas_port_id = n.place.nas_port_id

\* The three things a step of r does to the table.
Removes == nasports' \subseteq nasports /\ clock' \in {clock, clock + 1}

Adds(r) == nasports' = nasports \cup {PortOf(requests[r])} /\ clock' = clock + 1

Refreshes(r) ==
  /\ requests[r].pc = "touch"
  /\ \E n \in nasports, at \in Nat :
       /\ n.id = requests[r].port.id
       /\ nasports' = (nasports \ {n}) \cup {Refreshed(n, requests[r].port, requests[r].place, at)}
  /\ clock' = clock + 1

TableStep(r) == Removes \/ Adds(r) \/ Refreshes(r)

\* Types and invariants of rows, for the arithmetic below.
LEMMA RowTypes ==
  ASSUME TypeInv
  PROVE  /\ clock \in Nat
         /\ \A n \in nasports : n \in NasPortRow /\ n.id \in Nat
         /\ \A r \in Requests : requests[r].port # None =>
                requests[r].port \in NasPortRow /\ requests[r].port.id \in Nat
  BY DEF TypeInv, TypeOK, Session, NasPortRow

\* What a session about to touch its port knows of the row.
LEMMA TouchedRow ==
  ASSUME TypeInv, LockInv, NEW r \in Requests, requests[r].pc = "touch",
         NEW n \in nasports, n.id = requests[r].port.id
  PROVE  /\ n.endpoint = requests[r].endpoint
         /\ n.place.nas_port_id = requests[r].place.nas_port_id
  BY DEF LockInv, KnowsItsPort

\* The columns of a row after a flush.
LEMMA RefreshedColumns ==
  ASSUME NEW n \in NasPortRow, NEW loaded \in NasPortRow, NEW place \in Places, NEW at \in Nat
  PROVE  LET new == Refreshed(n, loaded, place, at)
         IN  /\ new.id = n.id /\ new.endpoint = n.endpoint
             /\ new.place.nas_port_id = n.place.nas_port_id
             /\ new.place.nas_identifier \in {n.place.nas_identifier, place.nas_identifier}
             /\ new.place.called_station_id \in {n.place.called_station_id, place.called_station_id}
  BY DEF Refreshed, AsNasPort, NasPortRow, Places

\* The columns of a row that is added.
LEMMA AddedColumns ==
  ASSUME NEW s
  PROVE  /\ PortOf(s).id = clock + 1
         /\ PortOf(s).endpoint = s.endpoint
         /\ PortOf(s).place = s.place
  BY DEF PortOf, AsNasPort

\* A session that touches its port has one.
LEMMA TouchTypes ==
  ASSUME TypeInv, NEW r \in Requests, requests[r].pc = "touch"
  PROVE  requests[r].port \in NasPortRow /\ requests[r].place \in Places
  BY SessionOf DEF TypeInv, TouchesAPort

\* Rows keep their keys, their endpoints and their ports.
LEMMA TableFollows ==
  ASSUME TypeInv, LockInv, NEW r \in Requests, TableStep(r)
  PROVE  RowsFollow
<1>1. CASE Removes
  BY <1>1 DEF Removes, RowsFollow
<1>2. CASE Adds(r)
  BY <1>2, RowTypes, AddedColumns DEF Adds, RowsFollow
<1>3. CASE Refreshes(r)
  <2>1. PICK n \in nasports, at \in Nat :
           nasports' = (nasports \ {n}) \cup {Refreshed(n, requests[r].port, requests[r].place, at)}
    BY <1>3 DEF Refreshes
  <2>2. LET new == Refreshed(n, requests[r].port, requests[r].place, at)
        IN  new.id = n.id /\ new.endpoint = n.endpoint
            /\ new.place.nas_port_id = n.place.nas_port_id
    BY <1>3, RowTypes, TouchTypes, RefreshedColumns DEF Refreshes
  <2> QED
    BY <2>1, <2>2 DEF RowsFollow
<1> QED
  BY <1>1, <1>2, <1>3 DEF TableStep

\* No key is used twice.
LEMMA TableKeys ==
  ASSUME TypeInv, LockInv, NEW r \in Requests, TableStep(r)
  PROVE  /\ \A n \in nasports' : n.id <= clock'
         /\ \A n, m \in nasports' : n.id = m.id => n = m
         /\ clock' \in Nat /\ clock <= clock'
<1>0. /\ \A n \in nasports : n.id <= clock
      /\ \A n, m \in nasports : n.id = m.id => n = m
  BY DEF LockInv, PortIdsInv
<1>1. CASE Removes
  BY <1>0, <1>1, RowTypes DEF Removes
<1>2. CASE Adds(r)
  BY <1>0, <1>2, RowTypes, AddedColumns DEF Adds
<1>3. CASE Refreshes(r)
  <2>1. PICK n \in nasports, at \in Nat :
           nasports' = (nasports \ {n}) \cup {Refreshed(n, requests[r].port, requests[r].place, at)}
    BY <1>3 DEF Refreshes
  <2> DEFINE new == Refreshed(n, requests[r].port, requests[r].place, at)
  <2>2. new.id = n.id
    BY <1>3, RowTypes, TouchTypes, RefreshedColumns DEF Refreshes
  <2> HIDE DEF new
  <2>3. nasports' = (nasports \ {n}) \cup {new} /\ clock' = clock + 1
    BY <1>3, <2>1 DEF Refreshes, new
  <2> QED
    BY <1>0, <2>2, <2>3, RowTypes
<1> QED
  BY <1>1, <1>2, <1>3 DEF TableStep

\* A request that was at a place still was.
LEMMA WasAtStays ==
  ASSUME Keeps, NEW q \in Requests, NEW e, NEW place, WasAt(q, e, place)
  PROVE  WasAt(q, e, place)' /\ requests'[q].place = requests[q].place
  BY DEF Keeps, WasAt, SameRequest, Past

\* The columns of every row came with requests.
LEMMA TableColumns ==
  ASSUME TypeInv, LockInv, NEW r \in Requests, TableStep(r), Keeps,
         nasports' \subseteq nasports \/ Past(r)'
  PROVE  ColumnsWereSeen'
<1> DEFINE Named(n)   == \E q \in Requests : /\ WasAt(q, n.endpoint, n.place)
                                           /\ requests[q].place.nas_identifier = n.place.nas_identifier
           Located(n) == \E q \in Requests : /\ WasAt(q, n.endpoint, n.place)
                                           /\ requests[q].place.called_station_id = n.place.called_station_id
<1>1. \A n \in nasports : Named(n) /\ Located(n)
  BY DEF LockInv, ColumnsWereSeen
<1>2. SUFFICES ASSUME NEW n \in nasports'
               PROVE  /\ \E q \in Requests : /\ WasAt(q, n.endpoint, n.place)'
                                            /\ requests'[q].place.nas_identifier = n.place.nas_identifier
                      /\ \E q \in Requests : /\ WasAt(q, n.endpoint, n.place)'
                                            /\ requests'[q].place.called_station_id = n.place.called_station_id
  BY DEF ColumnsWereSeen, WasAt, Past
<1>3. CASE n \in nasports
  <2>1. PICK q \in Requests : /\ WasAt(q, n.endpoint, n.place)
                              /\ requests[q].place.nas_identifier = n.place.nas_identifier
    BY <1>1, <1>3
  <2>2. PICK p \in Requests : /\ WasAt(p, n.endpoint, n.place)
                              /\ requests[p].place.called_station_id = n.place.called_station_id
    BY <1>1, <1>3
  <2> QED
    BY <2>1, <2>2, WasAtStays
<1>4. CASE n \notin nasports /\ Adds(r)
  <2>1. n.endpoint = requests[r].endpoint /\ n.place = requests[r].place
    BY <1>4, AddedColumns DEF Adds
  <2>2. WasAt(r, n.endpoint, n.place)' /\ requests'[r].place = n.place
    BY <1>4, <2>1 DEF WasAt, Keeps, SameRequest, Past
  <2> QED
    BY <2>2
<1>5. CASE n \notin nasports /\ Refreshes(r)
  <2>1. PICK m \in nasports, at \in Nat :
           /\ m.id = requests[r].port.id
           /\ n = Refreshed(m, requests[r].port, requests[r].place, at)
    BY <1>5 DEF Refreshes
  <2>2. /\ n.endpoint = m.endpoint
        /\ n.place.nas_port_id = m.place.nas_port_id
        /\ n.place.nas_identifier \in {m.place.nas_identifier, requests[r].place.nas_identifier}
        /\ n.place.called_station_id \in {m.place.called_station_id, requests[r].place.called_station_id}
    BY <1>5, <2>1, RowTypes, TouchTypes, RefreshedColumns DEF Refreshes
  <2>3. m.endpoint = requests[r].endpoint /\ m.place.nas_port_id = requests[r].place.nas_port_id
    BY <1>5, <2>1, TouchedRow DEF Refreshes
  <2>4. WasAt(r, n.endpoint, n.place)' /\ requests'[r].place = requests[r].place
    BY <1>5, <2>2, <2>3 DEF WasAt, Keeps, SameRequest, Past
  <2>5. PICK q \in Requests : /\ WasAt(q, m.endpoint, m.place)
                              /\ requests[q].place.nas_identifier = m.place.nas_identifier
    BY <1>1
  <2>6. PICK p \in Requests : /\ WasAt(p, m.endpoint, m.place)
                              /\ requests[p].place.called_station_id = m.place.called_station_id
    BY <1>1
  <2>7. WasAt(q, n.endpoint, n.place) /\ WasAt(p, n.endpoint, n.place)
    BY <2>2, <2>5, <2>6 DEF WasAt
  <2>8. /\ WasAt(q, n.endpoint, n.place)' /\ requests'[q].place = requests[q].place
        /\ WasAt(p, n.endpoint, n.place)' /\ requests'[p].place = requests[p].place
    BY <2>7, WasAtStays
  <2> QED
    BY <2>2, <2>4, <2>5, <2>6, <2>8
<1> QED
  BY <1>3, <1>4, <1>5 DEF TableStep, Removes

-----------------------------------------------------------------------------
(* What a step of r does to the sessions *)

\* A place once seen by another request stays so.
LEMMA SeenStays ==
  ASSUME Keeps, NEW r \in Requests, SeenByOther(r)
  PROVE  SeenByOther(r)'
<1>1. PICK q \in Requests \ {r} :
         /\ Past(q) /\ requests[q].endpoint = requests[r].endpoint
         /\ SamePort(requests[q].place, requests[r].place)
  BY DEF SeenByOther
<1>2. Past(q)' /\ SameRequest(q) /\ SameRequest(r)
  BY <1>1 DEF Keeps
<1> QED
  BY <1>1, <1>2 DEF SeenByOther, SameRequest, SamePort, Past

\* A session that does not move knows what it knew.
LEMMA OthersKnow ==
  ASSUME TypeInv, LockInv, Keeps, RowsFollow,
         NEW q \in Requests, requests'[q] = requests[q]
  PROVE  KnowsItsPort(q)' /\ PassedWithPort(q)'
<1>1. KnowsItsPort(q) /\ PassedWithPort(q)
  BY DEF LockInv
<1>2. ASSUME requests[q].pc = "touch", NEW n \in nasports', n.id = requests[q].port.id
      PROVE  /\ n.endpoint = requests[q].endpoint
             /\ n.place.nas_port_id = requests[q].place.nas_port_id
  <2>1. requests[q].port \in NasPortRow /\ requests[q].port # None
    BY <1>2, TouchTypes, NoneIsNoRowAssumption
  <2>2. ~ (n.id > clock)
    BY <1>2, <2>1, RowTypes DEF LockInv, PortIdsInv
  <2>3. PICK m \in nasports : /\ m.id = n.id /\ m.endpoint = n.endpoint
                              /\ m.place.nas_port_id = n.place.nas_port_id
    BY <2>2 DEF RowsFollow
  <2> QED
    BY <1>2, <2>3, TouchedRow
<1>3. SeenByOther(q) => SeenByOther(q)'
  BY SeenStays
<1>4. KnowsItsPort(q)'
  BY <1>1, <1>2, <1>3 DEF KnowsItsPort
<1> QED
  BY <1>1, <1>4 DEF PassedWithPort

\* Where a session may go on to: t, with what it then knows of its port.
MayGoOnAs(r, t) ==
  /\ t.endpoint = requests[r].endpoint /\ t.place = requests[r].place
  /\ Past(r) => t.pc \in PastSteps
  /\ t.pc \in {"new", "select", "lookup"} => t.port = None
  /\ t.pc = "insert" => t.locking = None
  /\ t.port # None /\ t.locking # None => SeenByOther(r)
  /\ t.pc \in {"replies", "accept"} /\ t.locking = "switch_port" => t.port # None
  /\ t.answer = "accept" => t.pc = "done"
  /\ t.answer = "accept" /\ t.locking = "switch_port" => t.port # None

\* A session that goes on so keeps the invariant.
LEMMA GoesOn ==
  ASSUME TypeInv, LockInv, NEW r \in Requests, NEW t \in Session, Resume(r, t), MayGoOnAs(r, t),
         TableStep(r), nasports' \subseteq nasports \/ t.pc \in PastSteps,
         t.port # None => t.port.id <= clock',
         t.pc = "touch" => \A n \in nasports' :
           n.id = t.port.id => n.endpoint = t.endpoint /\ n.place.nas_port_id = t.place.nas_port_id
  PROVE  LockInv'
<1>1. requests'[r] = t /\ \A q \in Requests \ {r} : requests'[q] = requests[q]
  BY ResumeSession DEF TypeInv, TypeOK
<1>2. Keeps
  BY <1>1 DEF Keeps, SameRequest, Past, MayGoOnAs, PastSteps
<1>3. RowsFollow
  BY TableFollows
<1>4. ColumnsWereSeen'
  BY <1>1, <1>2, TableColumns DEF Past, PastSteps
<1>5. PortIdsInv'
  <2>1. \A q \in Requests \ {r} :
          requests'[q].port # None => requests'[q].port.id <= clock'
    BY <1>1, RowTypes, TableKeys DEF LockInv, PortIdsInv
  <2> QED
    BY <1>1, <2>1, TableKeys DEF PortIdsInv
<1>6. KnowsItsPort(r)' /\ PassedWithPort(r)'
  BY <1>1, <1>2, SeenStays DEF KnowsItsPort, PassedWithPort, MayGoOnAs
<1>7. \A q \in Requests \ {r} : KnowsItsPort(q)' /\ PassedWithPort(q)'
  BY <1>1, <1>2, <1>3, OthersKnow
<1> QED
  BY <1>4, <1>5, <1>6, <1>7 DEF LockInv

\* An exception, or an answer that is no accept.
LEMMA EndKeeps ==
  ASSUME TypeInv, LockInv, NEW r \in Requests, NEW a \in {"reject", "error", "crash"},
         NEW cause \in Errors,
         \/ Resume(r, [requests[r] EXCEPT !.pc = "done", !.answer = a])
         \/ Resume(r, [requests[r] EXCEPT !.pc = "done", !.answer = a, !.error = cause]),
         nasports' = nasports, clock' \in {clock, clock + 1}
  PROVE  LockInv'
<1> DEFINE s == requests[r]
           t == [s EXCEPT !.pc = "done", !.answer = a]
           f == [s EXCEPT !.pc = "done", !.answer = a, !.error = cause]
<1>1. s \in Session /\ TableStep(r)
  BY SessionOf DEF TableStep, Removes
<1>2. KnowsItsPort(r) /\ (s.port # None => s.port.id <= clock')
  BY RowTypes DEF LockInv, PortIdsInv
<1>3. \A u \in {t, f} : /\ u \in Session /\ u.pc = "done" /\ u.answer = a
                        /\ u.endpoint = s.endpoint /\ u.place = s.place
                        /\ u.port = s.port /\ u.locking = s.locking
  BY <1>1 DEF Session, Steps, Answers
<1> HIDE DEF t, f
<1>4. \A u \in {t, f} : MayGoOnAs(r, u)
  BY <1>2, <1>3 DEF MayGoOnAs, KnowsItsPort, PastSteps, Steps
<1>5. PICK u \in {t, f} : Resume(r, u)
  BY DEF t, f
<1> QED
  BY <1>1, <1>2, <1>3, <1>4, <1>5, GoesOn

\* A step that only goes to another one.
LEMMA GotoKeeps ==
  ASSUME TypeInv, LockInv, NEW r \in Requests, NEW step \in Steps \ {"touch", "done"},
         Goto(r, step), nasports' = nasports, clock' = clock,
         Past(r) => step \in PastSteps,
         step \in {"new", "select", "lookup"} => requests[r].port = None,
         step = "insert" => requests[r].locking = None,
         step \in {"replies", "accept"} /\ requests[r].locking = "switch_port" =>
           requests[r].port # None,
         requests[r].pc # "done"
  PROVE  LockInv'
<1> DEFINE s == requests[r]
           t == [s EXCEPT !.pc = step]
<1>1. s \in Session /\ TableStep(r)
  BY SessionOf DEF TableStep, Removes
<1>2. KnowsItsPort(r) /\ PassedWithPort(r) /\ (s.port # None => s.port.id <= clock')
  BY DEF LockInv, PortIdsInv
<1>3. /\ t \in Session /\ t.pc = step /\ t.answer = s.answer
      /\ t.endpoint = s.endpoint /\ t.place = s.place
      /\ t.port = s.port /\ t.locking = s.locking
  BY <1>1 DEF Session
<1>4. Resume(r, t)
  BY DEF Goto
<1> HIDE DEF t
<1>5. MayGoOnAs(r, t)
  BY <1>2, <1>3 DEF MayGoOnAs, KnowsItsPort, PassedWithPort
<1> QED
  BY <1>1, <1>2, <1>3, <1>4, <1>5, GoesOn

-----------------------------------------------------------------------------
(* One lemma per step of a session *)

\* ReadEndpoint: the session has no port yet.
LEMMA ReadEndpointLocks ==
  ASSUME TypeInv, LockInv, NEW r \in Requests, ReadEndpoint(r)
  PROVE  LockInv'
<1> DEFINE s == requests[r]
           t == [s EXCEPT !.pc = "select", !.began = clock + 1, !.loaded = endpoints[s.endpoint]]
<1>1. /\ s \in Session /\ s.endpoint \in Endpoints /\ RestOK /\ s.pc = "new"
      /\ Resume(r, t) /\ nasports' = nasports /\ clock' = clock + 1
  BY SessionOf DEF ReadEndpoint, tables
<1>2. endpoints[s.endpoint] \in EndpointRow \cup {None} /\ clock + 1 \in Nat
  BY <1>1 DEF RestOK
<1>3. /\ t \in Session /\ t.pc = "select" /\ t.answer = s.answer
      /\ t.endpoint = s.endpoint /\ t.place = s.place
      /\ t.port = s.port /\ t.locking = s.locking
  BY <1>1, <1>2 DEF Session, Steps
<1>4. KnowsItsPort(r) /\ PassedWithPort(r) /\ TableStep(r)
  BY <1>1 DEF LockInv, TableStep, Removes
<1> HIDE DEF t
<1>5. MayGoOnAs(r, t)
  BY <1>1, <1>3, <1>4 DEF MayGoOnAs, KnowsItsPort, PassedWithPort, Past
<1> QED
  BY <1>1, <1>3, <1>4, <1>5, GoesOn DEF KnowsItsPort

\* SelectPolicy: the locking is set while there is no port.
LEMMA SelectPolicyLocks ==
  ASSUME TypeInv, LockInv, NEW r \in Requests, SelectPolicy(r)
  PROVE  LockInv'
<1> DEFINE s == requests[r]
<1>1. /\ s \in Session /\ RestOK /\ s.pc = "select" /\ ~ Past(r)
      /\ nasports' = nasports /\ clock' = clock
  BY SessionOf DEF SelectPolicy, Fail, tables, Past
<1>2. KnowsItsPort(r) /\ PassedWithPort(r) /\ TableStep(r)
  BY <1>1 DEF LockInv, TableStep, Removes
<1>3. CASE Goto(r, IF s.loaded = None THEN "create" ELSE "reject")
  BY <1>1, <1>3, GotoKeeps DEF Steps
<1>4. ASSUME NEW id \in Selectable(policies, AuthOf[s.endpoint][s.place], GroupOf(s.loaded)),
             Resume(r, [s EXCEPT !.pc = "lookup", !.policy = id,
                                 !.locking = policies[id].port_locking])
      PROVE  LockInv'
  <2> DEFINE t == [s EXCEPT !.pc = "lookup", !.policy = id, !.locking = policies[id].port_locking]
  <2>1. id \in PolicyIds /\ policies[id].port_locking \in PortLockings
    BY <1>1, SelectableIsStored, PolicyRowsAssumption
  <2>2. /\ t \in Session /\ t.pc = "lookup" /\ t.answer = s.answer
        /\ t.endpoint = s.endpoint /\ t.place = s.place /\ t.port = s.port
    BY <1>1, <2>1 DEF Session, Steps
  <2> HIDE DEF t
  <2>3. MayGoOnAs(r, t)
    BY <1>1, <1>2, <2>2 DEF MayGoOnAs, KnowsItsPort, PassedWithPort
  <2>4. t.port = None
    BY <1>1, <1>2, <2>2 DEF KnowsItsPort
  <2> QED
    BY <1>1, <1>2, <1>4, <2>2, <2>3, <2>4, GoesOn DEF t
<1>5. CASE Fail(r, "no_value")
  BY <1>1, <1>5, EndKeeps DEF Fail, Errors
<1> QED
  BY <1>3, <1>4, <1>5 DEF SelectPolicy

\* CreateNewEndpoint: the port it adds is that of its request.
LEMMA CreateNewEndpointLocks ==
  ASSUME TypeInv, LockInv, NEW r \in Requests, CreateNewEndpoint(r)
  PROVE  LockInv'
<1> DEFINE s == requests[r]
           row == AsEndpoint(clock + 1, IF s.endpoint \in MacEndpoints THEN "discovered" ELSE "rejected", None)
           t == [s EXCEPT !.pc = "reject", !.loaded = row]
<1>1. s \in Session /\ RestOK /\ s.pc = "create"
  BY SessionOf DEF CreateNewEndpoint
<1>2. CASE endpoints[s.endpoint] = None /\ Colliding(s.endpoint, s.place) = {}
  <2>1. Adds(r) /\ Resume(r, t)
    BY <1>2 DEF CreateNewEndpoint, Adds, PortOf
  <2>2. row \in EndpointRow
    BY <1>1 DEF RestOK, EndpointRow, States, AsEndpoint
  <2>3. /\ t \in Session /\ t.pc = "reject" /\ t.answer = s.answer
        /\ t.endpoint = s.endpoint /\ t.place = s.place
        /\ t.port = s.port /\ t.locking = s.locking
    BY <1>1, <2>2 DEF Session, Steps
  <2> HIDE DEF t
  <2>4. KnowsItsPort(r) /\ PassedWithPort(r) /\ (s.port # None => s.port.id <= clock')
    BY <2>1, RowTypes DEF LockInv, PortIdsInv, Adds
  <2>5. MayGoOnAs(r, t)
    BY <1>1, <2>3, <2>4 DEF MayGoOnAs, KnowsItsPort, PassedWithPort, PastSteps, Steps
  <2> QED
    BY <2>1, <2>3, <2>4, <2>5, GoesOn DEF TableStep, PastSteps, Steps
<1>3. CASE ~ (endpoints[s.endpoint] = None /\ Colliding(s.endpoint, s.place) = {})
  BY <1>3, EndKeeps DEF CreateNewEndpoint, Finish, Errors
<1> QED
  BY <1>2, <1>3

\* What the lookup finds shows that another request was there.
LEMMA KnownWasSeen ==
  ASSUME TypeInv, LockInv, NEW r \in Requests, ~ Past(r),
         NEW n \in KnownPorts(requests[r].endpoint, requests[r].place)
  PROVE  SeenByOther(r)
<1>1. n \in nasports /\ n.endpoint = requests[r].endpoint /\ SamePort(n.place, requests[r].place)
  BY DEF KnownPorts
<1>2. PICK q \in Requests : /\ WasAt(q, n.endpoint, n.place)
                            /\ requests[q].place.nas_identifier = n.place.nas_identifier
  BY <1>1 DEF LockInv, ColumnsWereSeen
<1>3. PICK p \in Requests : /\ WasAt(p, n.endpoint, n.place)
                            /\ requests[p].place.called_station_id = n.place.called_station_id
  BY <1>1 DEF LockInv, ColumnsWereSeen
<1>4. q # r /\ p # r
  BY <1>2, <1>3 DEF WasAt
<1>5. \/ SamePort(requests[q].place, requests[r].place)
      \/ SamePort(requests[p].place, requests[r].place)
  BY <1>1, <1>2, <1>3 DEF WasAt, SamePort
<1> QED
  BY <1>1, <1>2, <1>3, <1>4, <1>5 DEF WasAt, SeenByOther

\* LookupPort: a port that is found was presented before.
LEMMA LookupPortLocks ==
  ASSUME TypeInv, LockInv, NEW r \in Requests, LookupPort(r)
  PROVE  LockInv'
<1> DEFINE s == requests[r]
           known == KnownPorts(s.endpoint, s.place)
<1>1. s \in Session /\ RestOK /\ s.pc = "lookup" /\ ~ Past(r)
  BY SessionOf DEF LookupPort, Past
<1>2. nasports' = nasports /\ clock' = clock
  BY DEF LookupPort, Fail, tables
<1>3. KnowsItsPort(r) /\ PassedWithPort(r) /\ TableStep(r)
  BY <1>2 DEF LockInv, TableStep, Removes
<1>4. CASE Fail(r, "ambiguous")
  BY <1>2, <1>4, EndKeeps DEF Fail, Errors
<1>5. CASE Goto(r, IF s.locking = None THEN "insert" ELSE "lock")
  BY <1>1, <1>2, <1>5, GotoKeeps DEF Steps
<1>6. ASSUME NEW n \in known, Resume(r, [s EXCEPT !.pc = "touch", !.port = n])
      PROVE  LockInv'
  <2> DEFINE t == [s EXCEPT !.pc = "touch", !.port = n]
  <2>1. n \in nasports /\ n.endpoint = s.endpoint /\ n.place.nas_port_id = s.place.nas_port_id
    BY DEF KnownPorts, SamePort
  <2>2. n \in NasPortRow /\ n.id <= clock /\ \A m \in nasports : m.id = n.id => m = n
    BY <2>1, RowTypes DEF LockInv, PortIdsInv
  <2>3. /\ t \in Session /\ t.pc = "touch" /\ t.answer = s.answer /\ t.port = n
        /\ t.endpoint = s.endpoint /\ t.place = s.place /\ t.locking = s.locking
    BY <1>1, <2>2 DEF Session, Steps
  <2> HIDE DEF t
  <2>4. SeenByOther(r)
    BY <1>1, KnownWasSeen
  <2>5. MayGoOnAs(r, t)
    BY <1>1, <1>3, <2>3, <2>4 DEF MayGoOnAs, PassedWithPort
  <2> QED
    BY <1>2, <1>3, <1>6, <2>1, <2>2, <2>3, <2>5, GoesOn DEF t
<1> QED
  BY <1>4, <1>5, <1>6 DEF LookupPort

\* TouchPort: the row keeps its key, and the session its port.
LEMMA TouchPortLocks ==
  ASSUME TypeInv, LockInv, NEW r \in Requests, TouchPort(r)
  PROVE  LockInv'
<1> DEFINE s == requests[r]
           t == [s EXCEPT !.pc = AfterPort(r), !.began = clock + 1,
                          !.port = [@ EXCEPT !.place = s.place]]
<1>1. s \in Session /\ s.place \in Places /\ s.began \in Nat /\ s.pc = "touch"
  BY SessionOf DEF TouchPort
<1>2. s.port \in NasPortRow /\ s.port # None /\ clock + 1 \in Nat
  BY <1>1, TouchTypes, RowTypes, NoneIsNoRowAssumption
<1>3. CASE Fail(r, "stale") \/ Fail(r, "integrity")
  BY <1>3, EndKeeps DEF Fail, Errors, tables
<1>4. ASSUME NEW n \in nasports, NEW at \in Nat, n.id = s.port.id,
             nasports' = (nasports \ {n}) \cup {Refreshed(n, s.port, s.place, at)},
             clock' = clock + 1, Resume(r, t)
      PROVE  LockInv'
  <2>1. TableStep(r)
    BY <1>1, <1>2, <1>4 DEF TableStep, Refreshes
  <2>2. /\ [s.port EXCEPT !.place = s.place] \in NasPortRow
        /\ [s.port EXCEPT !.place = s.place].id = s.port.id
    BY <1>1, <1>2 DEF NasPortRow
  <2>3. /\ t \in Session /\ t.pc = AfterPort(r) /\ t.answer = s.answer
        /\ t.port = [s.port EXCEPT !.place = s.place]
        /\ t.endpoint = s.endpoint /\ t.place = s.place /\ t.locking = s.locking
    BY <1>1, <1>2, <2>2 DEF Session, Steps, AfterPort
  <2> HIDE DEF t
  <2>4. t.port # None /\ t.port.id <= clock'
    <3>1. s.port.id <= clock /\ s.port.id \in Nat /\ clock \in Nat
      BY <1>2, RowTypes DEF LockInv, PortIdsInv
    <3>2. t.port \in NasPortRow /\ t.port.id = s.port.id
      BY <2>2, <2>3
    <3>3. t.port # None
      BY <3>2, NoneIsNoRowAssumption
    <3> QED
      BY <1>4, <3>1, <3>2, <3>3
  <2>5. KnowsItsPort(r) /\ PassedWithPort(r)
    BY DEF LockInv
  <2>6. t.pc \in {"replies", "lock"} /\ t.pc \in PastSteps
    BY <2>3 DEF AfterPort, PastSteps, Steps
  <2>7. MayGoOnAs(r, t)
    BY <1>1, <1>2, <2>3, <2>4, <2>5, <2>6 DEF MayGoOnAs, KnowsItsPort, PassedWithPort
  <2> QED
    BY <1>4, <2>1, <2>3, <2>4, <2>6, <2>7, GoesOn
<1> QED
  BY <1>1, <1>2, <1>3, <1>4 DEF TouchPort

\* A port added: at expect, under a lock, db_nas_port stays what it was.
LEMMA AddPortLocks ==
  ASSUME TypeInv, LockInv, NEW r \in Requests, NEW step \in {"replies", "reject"},
         requests[r].pc \in {"insert", "expect"}, NEW port, AddPort(r, step, port),
         \/ requests[r].locking = None /\ port = PortOf(requests[r])
         \/ port = requests[r].port,
         step = "replies" /\ requests[r].locking = "switch_port" => port # None
  PROVE  LockInv'
<1> DEFINE s == requests[r]
           t == [s EXCEPT !.pc = step, !.port = port]
<1>1. s \in Session /\ s.endpoint \in Endpoints /\ s.place \in Places /\ s.began \in Nat
      /\ s.port \in NasPortRow \cup {None} /\ clock \in Nat
  BY SessionOf, RowTypes
<1>2. CASE Fail(r, "integrity")
  BY <1>2, EndKeeps DEF Fail, Errors, tables
<1>3. CASE Adds(r) /\ Resume(r, t)
  <2>1. PortOf(s) \in NasPortRow
    BY <1>1 DEF PortOf, AsNasPort, NasPortRow
  <2>2. /\ t \in Session /\ t.pc = step /\ t.answer = s.answer /\ t.port = port
        /\ t.endpoint = s.endpoint /\ t.place = s.place /\ t.locking = s.locking
    BY <1>1, <2>1 DEF Session, Steps
  <2>3. KnowsItsPort(r) /\ PassedWithPort(r) /\ (s.port # None => s.port.id <= clock)
    BY DEF LockInv, PortIdsInv
  <2>4. t.port # None => t.port.id <= clock'
    BY <1>1, <1>3, <2>2, <2>3, RowTypes, AddedColumns DEF Adds
  <2> HIDE DEF t
  <2>5. MayGoOnAs(r, t)
    BY <2>2, <2>3 DEF MayGoOnAs, KnowsItsPort, PassedWithPort, PastSteps, Steps
  <2> QED
    BY <1>3, <2>2, <2>4, <2>5, GoesOn DEF TableStep, PastSteps, Steps
<1> QED
  BY <1>2, <1>3 DEF AddPort, Adds

\* InsertPort: only without a lock.
LEMMA InsertPortLocks ==
  ASSUME TypeInv, LockInv, NEW r \in Requests, InsertPort(r)
  PROVE  LockInv'
<1>1. requests[r].locking = None /\ None # "switch_port"
  <2>1. requests[r].locking = None
    BY DEF InsertPort, LockInv, KnowsItsPort
  <2> QED
    BY <2>1, NoneIsNoRowAssumption
<1> QED
  BY <1>1, AddPortLocks DEF InsertPort

\* ReadExpectedPort: switch_port is passed with a port only.
LEMMA ReadExpectedPortLocks ==
  ASSUME TypeInv, LockInv, NEW r \in Requests, ReadExpectedPort(r)
  PROVE  LockInv'
<1>1. requests[r].pc = "lock" /\ nasports' = nasports /\ clock' = clock
  BY DEF ReadExpectedPort, tables
<1>2. PICK step \in {"expect", "replies", "reject"} :
         /\ Goto(r, step)
         /\ step = "replies" /\ requests[r].locking = "switch_port" => requests[r].port # None
  BY DEF ReadExpectedPort, PassesLock
<1> QED
  BY <1>1, <1>2, GotoKeeps DEF Steps, PastSteps

\* InsertExpectedPort: the same.
LEMMA InsertExpectedPortLocks ==
  ASSUME TypeInv, LockInv, NEW r \in Requests, InsertExpectedPort(r)
  PROVE  LockInv'
  BY AddPortLocks DEF InsertExpectedPort, PassesLock

\* ReadReplies: what has passed the lock stays so.
LEMMA ReadRepliesLocks ==
  ASSUME TypeInv, LockInv, NEW r \in Requests, ReadReplies(r)
  PROVE  LockInv'
<1>1. CASE Fail(r, "policy_gone")
  BY <1>1, EndKeeps DEF Fail, Errors, tables
<1>2. ASSUME NEW step \in {"reject", "accept"}, Goto(r, step),
             UNCHANGED <<tables, api, clock>>
      PROVE  LockInv'
  <2>1. requests[r].pc = "replies" /\ PassedWithPort(r)
    BY DEF ReadReplies, LockInv
  <2> QED
    BY <1>2, <2>1, GotoKeeps DEF Steps, PastSteps, PassedWithPort, tables
<1> QED
  BY <1>1, <1>2 DEF ReadReplies

\* Reject: an answer that is no accept.
LEMMA RejectLocks ==
  ASSUME TypeInv, LockInv, NEW r \in Requests, Reject(r)
  PROVE  LockInv'
<1>1. nasports' = nasports /\ clock' \in {clock, clock + 1}
  BY DEF Reject, UpdateEndpointState, Fail, tables
<1> QED
  BY <1>1, EndKeeps DEF Reject, UpdateEndpointState, Fail, Finish, Errors

\* Accept: a session that has passed its lock is answered.
LEMMA AcceptLocks ==
  ASSUME TypeInv, LockInv, NEW r \in Requests, Accept(r)
  PROVE  LockInv'
<1> DEFINE s == requests[r]
           t == [s EXCEPT !.pc = "done", !.answer = "accept"]
<1>1. s \in Session /\ s.pc = "accept" /\ KnowsItsPort(r) /\ PassedWithPort(r)
  BY SessionOf DEF Accept, LockInv
<1>2. nasports' = nasports /\ clock' \in {clock, clock + 1}
  BY DEF Accept, UpdateEndpointState, Fail, tables
<1>3. CASE \E cause \in Errors : Fail(r, cause)
  BY <1>2, <1>3, EndKeeps DEF Fail
<1>4. CASE Finish(r, "accept")
  <2>1. /\ t \in Session /\ t.pc = "done" /\ t.port = s.port
        /\ t.endpoint = s.endpoint /\ t.place = s.place /\ t.locking = s.locking
    BY <1>1 DEF Session, Steps, Answers
  <2>2. Resume(r, t)
    BY <1>4 DEF Finish
  <2> HIDE DEF t
  <2>3. MayGoOnAs(r, t)
    BY <1>1, <2>1 DEF MayGoOnAs, KnowsItsPort, PassedWithPort, PastSteps, Steps
  <2>4. s.port # None => s.port.id <= clock'
    BY <1>2, RowTypes DEF LockInv, PortIdsInv
  <2> QED
    BY <1>2, <2>1, <2>2, <2>3, <2>4, GoesOn DEF TableStep, Removes
<1> QED
  BY <1>3, <1>4 DEF Accept, UpdateEndpointState, Errors

\* Crash: no answer.
LEMMA CrashLocks ==
  ASSUME TypeInv, LockInv, NEW r \in Requests, Crash(r)
  PROVE  LockInv'
  BY EndKeeps DEF Crash, Finish, Errors, tables

\* The external API removes ports, and leaves the sessions where they are.
LEMMA ApiLocks ==
  ASSUME TypeInv, LockInv, nasports' \subseteq nasports, clock' \in {clock, clock + 1},
         UNCHANGED requests
  PROVE  LockInv'
<1>1. Keeps /\ RowsFollow
  BY DEF Keeps, SameRequest, Past, RowsFollow
<1>2. \A r \in Requests : KnowsItsPort(r)' /\ PassedWithPort(r)'
  BY <1>1, OthersKnow
<1>3. ColumnsWereSeen'
  <2>1. \A q \in Requests, n \in nasports : WasAt(q, n.endpoint, n.place) =>
          WasAt(q, n.endpoint, n.place)' /\ requests'[q].place = requests[q].place
    BY <1>1, WasAtStays
  <2>2. ColumnsWereSeen
    BY DEF LockInv
  <2> QED
    BY <2>1, <2>2 DEF ColumnsWereSeen, WasAt, Past
<1>4. PortIdsInv'
  BY RowTypes DEF LockInv, PortIdsInv
<1> QED
  BY <1>2, <1>3, <1>4 DEF LockInv

-----------------------------------------------------------------------------
\* The first state has no ports.
LEMMA InitLockInv == Init => LockInv
  BY NoneIsNoRowAssumption DEF Init, LockInv, ColumnsWereSeen, PortIdsInv, KnowsItsPort, PassedWithPort, NewSession

\* LockInv is inductive.
LEMMA LockInvStep == TypeInv /\ LockInv /\ [Next]_vars => LockInv'
<1> SUFFICES ASSUME TypeInv, LockInv, [Next]_vars
             PROVE  LockInv'
  OBVIOUS
<1>1. CASE UNCHANGED vars
  BY <1>1, ApiLocks DEF vars
<1>2. CASE ApiStep
  <2>1. UNCHANGED requests /\ nasports' \subseteq nasports /\ clock' \in {clock, clock + 1}
    BY <1>2 DEF ApiStep, PostEndpoint, BeginPut, CommitPut, BeginDeleteEndpoint,
                CommitDeleteEndpoint, DeleteNasPort, WritePolicy, DeletePolicy,
                BeginDeleteGroup, CommitDeleteGroup, tables
  <2> QED
    BY <2>1, ApiLocks
<1>3. ASSUME NEW r \in Requests, ServeStep(r)
      PROVE  LockInv'
  BY <1>3, SelectPolicyLocks, CreateNewEndpointLocks, LookupPortLocks, TouchPortLocks,
     InsertPortLocks, ReadExpectedPortLocks, InsertExpectedPortLocks, ReadRepliesLocks,
     AcceptLocks, RejectLocks DEF ServeStep
<1> QED
  BY <1>1, <1>2, <1>3, ReadEndpointLocks, CrashLocks DEF Next

\* A request accepted under a switch_port lock is never the first of its endpoint at that
\* port: another one has been at it before, on a switch of that name or of that address.
\* Overlapping sessions, deleted ports and mixed columns make no exception.
THEOREM LockHolds == Spec => []LockedPortWasSeenBefore
<1>2. Spec => []LockInv
  BY InitLockInv, LockInvStep, TypeInvariance, PTL DEF Spec
<1>1. TypeInv /\ LockInv => LockedPortWasSeenBefore
  <2> SUFFICES ASSUME TypeInv, LockInv, NEW r \in Requests,
                      requests[r].answer = "accept", requests[r].locking = "switch_port"
               PROVE  \E q \in Requests \ {r} :
                        /\ requests[q].pc # "new"
                        /\ requests[q].endpoint = requests[r].endpoint
                        /\ SamePort(requests[q].place, requests[r].place)
    BY DEF LockedPortWasSeenBefore
  <2>1. requests[r].port # None
    BY DEF LockInv, PassedWithPort
  <2>2. SeenByOther(r)
    BY <2>1, NoneIsNoRowAssumption DEF LockInv, KnowsItsPort
  <2> QED
    BY <2>2 DEF SeenByOther, Past
<1> QED
  BY <1>1, <1>2, TypeInvariance, PTL

-----------------------------------------------------------------------------
(* Without overlap: what the lookup found is what there is *)

\* What a session has learned of the table is still so.
LookupIsFresh(r) ==
  LET s == requests[r]
  IN  /\ s.pc = "touch" => KnownPorts(s.endpoint, s.place) = {s.port}
      /\ s.pc = "insert" => KnownPorts(s.endpoint, s.place) = {}
      /\ s.pc = "expect" => PortsOfUser(s.endpoint) = {}

\* What a deletion has loaded is what there is of its endpoint.
RemovalIsFresh(d) ==
  /\ \A id \in d.ports : id <= clock
  /\ \A n \in nasports : n.id \in d.ports <=> n.endpoint = d.endpoint

Unforeseen == Errors \ {None, "ambiguous", "policy_gone", "no_value"}

LookupInv ==
  /\ IsFiniteSet(nasports)
  /\ \A d \in removals : RemovalIsFresh(d)
  /\ \A r \in Requests : LookupIsFresh(r)
  /\ NoSelfConflict

\* A row at another endpoint is left alone.
OnlyPortsOf(e) ==
  \A n \in nasports \cup nasports' : n.endpoint # e => n \in nasports /\ n \in nasports'

\* What violates a unique constraint would have been found by the lookup.
LEMMA CollidingIsKnown ==
  ASSUME NEW e, NEW place
  PROVE  /\ Colliding(e, place) \subseteq KnownPorts(e, place)
         /\ Colliding(e, place) \subseteq PortsOfUser(e)
  BY DEF Colliding, KnownPorts, SamePort, PortsOfUser

\* A step of a session adds a row, or changes the one it knows.
LEMMA OwnTable ==
  ASSUME TypeInv, NEW r \in Requests, ReadEndpoint(r) \/ ServeStep(r) \/ Crash(r)
  PROVE  nasports' = nasports \/ nasports' = nasports \cup {PortOf(requests[r])} \/ Refreshes(r)
<1>1. CASE TouchPort(r)
  <2>1. clock + 1 \in Nat /\ requests[r].began \in Nat
    BY SessionOf DEF RestOK
  <2> QED
    BY <1>1, <2>1 DEF TouchPort, Refreshes, Fail, tables
<1>2. CASE CreateNewEndpoint(r)
  BY <1>2 DEF CreateNewEndpoint, PortOf
<1>3. CASE InsertPort(r) \/ InsertExpectedPort(r)
  BY <1>3 DEF InsertPort, InsertExpectedPort, AddPort, Fail, tables
<1>4. CASE SelectPolicy(r) \/ LookupPort(r) \/ ReadExpectedPort(r) \/ ReadReplies(r)
  BY <1>4 DEF SelectPolicy, LookupPort, ReadExpectedPort, ReadReplies, Fail, tables
<1>5. CASE Accept(r) \/ Reject(r)
  BY <1>5 DEF Accept, Reject, UpdateEndpointState, Fail, tables
<1>6. CASE ReadEndpoint(r) \/ Crash(r)
  BY <1>6 DEF ReadEndpoint, Crash, tables
<1> QED
  BY <1>1, <1>2, <1>3, <1>4, <1>5, <1>6 DEF ServeStep

\* So it leaves the rows of other endpoints alone, and the table finite.
LEMMA OwnPorts ==
  ASSUME TypeInv, LockInv, IsFiniteSet(nasports), NEW r \in Requests,
         ReadEndpoint(r) \/ ServeStep(r) \/ Crash(r)
  PROVE  OnlyPortsOf(requests[r].endpoint) /\ IsFiniteSet(nasports')
<1> DEFINE e == requests[r].endpoint
<1>1. CASE nasports' = nasports
  BY <1>1 DEF OnlyPortsOf
<1>2. CASE nasports' = nasports \cup {PortOf(requests[r])}
  <2>1. IsFiniteSet(nasports')
    BY <1>2, FS_AddElement
  <2> QED
    BY <1>2, <2>1, AddedColumns DEF OnlyPortsOf
<1>3. CASE Refreshes(r)
  <2>1. PICK n \in nasports, at \in Nat :
           /\ n.id = requests[r].port.id
           /\ nasports' = (nasports \ {n}) \cup {Refreshed(n, requests[r].port, requests[r].place, at)}
    BY <1>3 DEF Refreshes
  <2> DEFINE new == Refreshed(n, requests[r].port, requests[r].place, at)
  <2>2. n.endpoint = e /\ new.endpoint = e
    BY <1>3, <2>1, TouchedRow, RowTypes, TouchTypes, RefreshedColumns DEF Refreshes
  <2> HIDE DEF new
  <2>3. nasports' = (nasports \ {n}) \cup {new}
    BY <2>1 DEF new
  <2>4. IsFiniteSet(nasports')
    BY <2>3, FS_AddElement, FS_RemoveElement
  <2> QED
    BY <2>2, <2>3, <2>4 DEF OnlyPortsOf
<1> QED
  BY <1>1, <1>2, <1>3, OwnTable

\* Another user's session has learned nothing that changed.
LEMMA OthersLookup ==
  ASSUME NEW q \in Requests, LookupIsFresh(q), requests'[q] = requests[q], NEW e, OnlyPortsOf(e),
         InFlight(q) => UserOf[requests[q].endpoint] # UserOf[e]
  PROVE  LookupIsFresh(q)'
<1>1. CASE ~ InFlight(q)
  BY <1>1 DEF LookupIsFresh, InFlight
<1>2. CASE InFlight(q)
  <2> DEFINE s == requests[q]
  <2>1. {n \in nasports' : n.endpoint = s.endpoint /\ SamePort(n.place, s.place)} =
          KnownPorts(s.endpoint, s.place)
    BY <1>2 DEF OnlyPortsOf, KnownPorts
  <2>2. {n \in nasports' : UserOf[n.endpoint] = UserOf[s.endpoint]} = PortsOfUser(s.endpoint)
    BY <1>2 DEF OnlyPortsOf, PortsOfUser
  <2> QED
    BY <2>1, <2>2 DEF LookupIsFresh, KnownPorts, PortsOfUser
<1> QED
  BY <1>1, <1>2

\* A session whose lookup found the one row there is touches it without a conflict.
LEMMA TouchesOne ==
  ASSUME TypeInv, LockInv, LookupInv, NEW r \in Requests, TouchPort(r)
  PROVE  ~ Fail(r, "stale") /\ ~ Fail(r, "integrity")
<1> DEFINE s == requests[r]
<1>1. /\ s.pc = "touch" /\ s.port \in NasPortRow /\ s.place \in Places /\ s \in Session
      /\ KnownPorts(s.endpoint, s.place) = {s.port}
  BY TouchTypes, SessionOf DEF TouchPort, LookupInv, LookupIsFresh
<1>2. /\ s.port \in nasports /\ s.port.endpoint = s.endpoint /\ SamePort(s.port.place, s.place)
      /\ \A n \in nasports : n.id = s.port.id => n = s.port
  BY <1>1 DEF KnownPorts, LockInv, PortIdsInv
<1>3. ASSUME NEW at
      PROVE  Refreshed(s.port, s.port, s.place, at).place = s.place
  BY <1>1, <1>2 DEF Refreshed, AsNasPort, NasPortRow, Places, SamePort
<1>4. Colliding(s.endpoint, s.place) \subseteq {s.port}
  BY <1>1, CollidingIsKnown
<1>5. \E at : /\ clock' = clock + 1
              /\ nasports' = (nasports \ {s.port}) \cup {Refreshed(s.port, s.port, s.place, at)}
  BY <1>1, <1>2, <1>3, <1>4 DEF TouchPort
<1>6. clock' # clock
  BY <1>5 DEF TypeInv, TypeOK
<1> QED
  BY <1>6 DEF Fail

\* A session that found no row inserts one without a conflict.
LEMMA AddsWithoutConflict ==
  ASSUME TypeInv, LookupInv, NEW r \in Requests, NEW step, NEW port, AddPort(r, step, port),
         requests[r].pc \in {"insert", "expect"}
  PROVE  ~ Fail(r, "integrity") /\ Resume(r, [requests[r] EXCEPT !.pc = step, !.port = port])
<1>1. Colliding(requests[r].endpoint, requests[r].place) = {}
  BY CollidingIsKnown DEF LookupInv, LookupIsFresh
<1>2. clock' = clock + 1 /\ Resume(r, [requests[r] EXCEPT !.pc = step, !.port = port])
  BY <1>1 DEF AddPort
<1>3. clock' # clock
  BY <1>2 DEF TypeInv, TypeOK
<1> QED
  BY <1>2, <1>3 DEF Fail

\* The row a session loaded is there to be written.
LEMMA WritesItsRow ==
  ASSUME TypeInv, IsolatedInv, NEW r \in Requests, NEW verdict, NEW state \in States, InFlight(r),
         UpdateEndpointState(r, verdict, state)
  PROVE  Finish(r, verdict) /\ endpoints'[requests[r].endpoint] # None
<1> DEFINE s == requests[r]
           keeps == s.loaded # None /\ KeepsState(s.loaded, state)
<1>1. s.loaded = endpoints[s.endpoint] /\ s.endpoint \in Endpoints /\ RestOK
  BY SessionOf DEF IsolatedInv, Fresh
<1>2. s.loaded # None => IsCurrent(s.endpoint, s.loaded)
  BY <1>1 DEF IsCurrent
<1>3. /\ Finish(r, verdict)
      /\ endpoints' = [endpoints EXCEPT ![s.endpoint] =
                         IF s.loaded = None THEN AsEndpoint(clock + 1, state, None)
                         ELSE IF keeps THEN @ ELSE [@ EXCEPT !.state = state]]
  BY <1>1, <1>2 DEF UpdateEndpointState
<1>4. CASE s.loaded = None
  <2>1. endpoints'[s.endpoint] = AsEndpoint(clock + 1, state, None)
    BY <1>1, <1>3, <1>4 DEF RestOK
  <2>2. endpoints'[s.endpoint] \in EndpointRow
    BY <1>1, <2>1 DEF AsEndpoint, EndpointRow, RestOK
  <2> QED
    BY <1>3, <2>2, NoneIsNoRowAssumption
<1>5. CASE s.loaded # None
  <2>1. endpoints'[s.endpoint] \in {endpoints[s.endpoint], [endpoints[s.endpoint] EXCEPT !.state = state]}
    BY <1>1, <1>3, <1>5 DEF RestOK
  <2>2. endpoints'[s.endpoint] \in EndpointRow
    BY <1>1, <1>5, <2>1 DEF EndpointRow, RestOK
  <2> QED
    BY <1>3, <2>2, NoneIsNoRowAssumption
<1> QED
  BY <1>3, <1>4, <1>5

\* After each of its steps a session still knows the table, and has met no conflict.
LEMMA OwnLookup ==
  ASSUME TypeInv, LockInv, IsolatedInv, LookupInv, NEW r \in Requests,
         ReadEndpoint(r) \/ ServeStep(r) \/ Crash(r)
  PROVE  LookupIsFresh(r)' /\ requests'[r].error \notin Unforeseen
<1> DEFINE s == requests[r]
           Elsewhere == requests'[r].pc \notin {"touch", "insert", "expect"}
<1>1. /\ s \in Session /\ requests \in [Requests -> Session]
      /\ s.error \notin Unforeseen
  BY SessionOf DEF TypeInv, TypeOK, LookupInv, NoSelfConflict, Unforeseen
<1>2. Elsewhere => LookupIsFresh(r)'
  BY DEF LookupIsFresh
<1>3. \A cause \in {"ambiguous", "policy_gone", "no_value"} : Fail(r, cause) =>
        Elsewhere /\ requests'[r].error \notin Unforeseen
  BY <1>1 DEF Fail, Resume, Session, Unforeseen
<1>4. \A step : Goto(r, step) => requests'[r].pc = step /\ requests'[r].error = s.error
  BY <1>1 DEF Goto, Resume, Session
<1>5. \A answer : Finish(r, answer) => Elsewhere /\ requests'[r].error = s.error
  BY <1>1 DEF Finish, Resume, Session
<1>6. CASE ReadEndpoint(r)
  BY <1>1, <1>2, <1>6 DEF ReadEndpoint, Resume, Session
<1>7. CASE SelectPolicy(r) /\ Fail(r, "no_value")
  BY <1>2, <1>3, <1>7
<1>17. CASE SelectPolicy(r) /\ ~ Fail(r, "no_value")
  <2>1. Elsewhere /\ requests'[r].error = s.error
    <3>1. CASE \E id, k : Resume(r, [s EXCEPT !.pc = "lookup", !.policy = id, !.locking = k])
      BY <1>1, <3>1 DEF Resume, Session
    <3>2. CASE Goto(r, "create") \/ Goto(r, "reject")
      BY <1>4, <3>2
    <3> QED
      BY <1>17, <3>1, <3>2 DEF SelectPolicy
  <2> QED
    BY <1>1, <1>2, <2>1
<1>8. CASE CreateNewEndpoint(r)
  <2>1. Elsewhere /\ requests'[r].error = s.error
    <3>1. CASE \E row : Resume(r, [s EXCEPT !.pc = "reject", !.loaded = row])
      BY <1>1, <3>1 DEF Resume, Session
    <3> QED
      BY <1>5, <1>8, <3>1 DEF CreateNewEndpoint
  <2> QED
    BY <1>1, <1>2, <2>1
<1>9. CASE LookupPort(r)
  <2> DEFINE known == KnownPorts(s.endpoint, s.place)
  <2>1. IsFiniteSet(known)
    BY FS_Subset DEF LookupInv, KnownPorts
  <2>2. ASSUME NEW n \in known, Cardinality(known) <= 1,
               Resume(r, [s EXCEPT !.pc = "touch", !.port = n]), UNCHANGED tables
        PROVE  LookupIsFresh(r)' /\ requests'[r].error \notin Unforeseen
    <3>1. known = {n}
      <4>1. /\ IsFiniteSet(known \ {n}) /\ Cardinality(known \ {n}) = Cardinality(known) - 1
            /\ Cardinality(known \ {n}) \in Nat /\ Cardinality(known) \in Nat
        BY <2>1, <2>2, FS_RemoveElement, FS_CardinalityType
      <4>2. Cardinality(known \ {n}) = 0
        BY <2>2, <4>1
      <4>3. known \ {n} = {}
        BY <4>1, <4>2, FS_EmptySet
      <4> QED
        BY <4>3
    <3>2. /\ requests'[r].pc = "touch" /\ requests'[r].port = n
          /\ requests'[r].endpoint = s.endpoint /\ requests'[r].place = s.place
          /\ requests'[r].error = s.error
      BY <1>1, <2>2 DEF Resume, Session
    <3> QED
      BY <1>1, <2>2, <3>1, <3>2 DEF LookupIsFresh, KnownPorts, tables
  <2>3. ASSUME NEW step \in {"insert", "lock"}, known = {}, Goto(r, step), UNCHANGED tables
        PROVE  LookupIsFresh(r)' /\ requests'[r].error \notin Unforeseen
    <3>1. /\ requests'[r].pc = step /\ requests'[r].error = s.error
          /\ requests'[r].endpoint = s.endpoint /\ requests'[r].place = s.place
      BY <1>1, <2>3 DEF Goto, Resume, Session
    <3> QED
      BY <1>1, <2>3, <3>1 DEF LookupIsFresh, KnownPorts, tables
  <2> QED
    BY <1>2, <1>3, <1>9, <2>2, <2>3 DEF LookupPort
<1>10. CASE TouchPort(r)
  <2>1. Elsewhere /\ requests'[r].error = s.error
    <3>1. PICK port : Resume(r, [s EXCEPT !.pc = AfterPort(r), !.began = clock + 1, !.port = port])
      BY <1>10, TouchesOne DEF TouchPort
    <3> QED
      BY <1>1, <3>1 DEF Resume, Session, AfterPort
  <2> QED
    BY <1>1, <1>2, <2>1
<1>11. CASE InsertPort(r)
  <2>1. Resume(r, [s EXCEPT !.pc = "replies", !.port = PortOf(s)])
    BY <1>11, AddsWithoutConflict DEF InsertPort
  <2>2. Elsewhere /\ requests'[r].error = s.error
    BY <1>1, <2>1 DEF Resume, Session
  <2> QED
    BY <1>1, <1>2, <2>2
<1>12. CASE ReadExpectedPort(r)
  <2>1. CASE Goto(r, "expect") /\ PortsOfUser(s.endpoint) = {}
    <3>1. /\ requests'[r].pc = "expect" /\ requests'[r].error = s.error
          /\ requests'[r].endpoint = s.endpoint /\ nasports' = nasports
      BY <1>1, <1>12, <2>1 DEF ReadExpectedPort, Goto, Resume, Session, tables
    <3> QED
      BY <1>1, <2>1, <3>1 DEF LookupIsFresh, PortsOfUser
  <2>2. CASE Goto(r, "replies") \/ Goto(r, "reject")
    BY <1>1, <1>2, <1>4, <2>2
  <2> QED
    BY <1>12, <2>1, <2>2 DEF ReadExpectedPort
<1>13. CASE InsertExpectedPort(r)
  <2>1. \E step \in {"replies", "reject"} : Resume(r, [s EXCEPT !.pc = step, !.port = s.port])
    BY <1>13, AddsWithoutConflict DEF InsertExpectedPort
  <2>2. Elsewhere /\ requests'[r].error = s.error
    BY <1>1, <2>1 DEF Resume, Session
  <2> QED
    BY <1>1, <1>2, <2>2
<1>14. CASE ReadReplies(r)
  BY <1>1, <1>2, <1>3, <1>4, <1>14 DEF ReadReplies
<1>15. CASE Accept(r) \/ Reject(r)
  <2>1. Finish(r, "accept") \/ Finish(r, "reject")
    BY <1>15, WritesItsRow DEF Accept, Reject, InFlight, States
  <2> QED
    BY <1>1, <1>2, <1>5, <2>1
<1>16. CASE Crash(r)
  BY <1>1, <1>2, <1>5, <1>16 DEF Crash
<1> QED
  BY <1>6, <1>7, <1>8, <1>9, <1>10, <1>11, <1>12, <1>13, <1>14, <1>15, <1>16, <1>17
     DEF ServeStep

\* Nobody else works on the user of a session when it takes a step.
LEMMA WorksAlone ==
  ASSUME Isolated, IsolatedInv, NEW r \in Requests, ReadEndpoint(r) \/ ServeStep(r) \/ Crash(r)
  PROVE  /\ \A q \in Requests \ {r} :
              InFlight(q) => UserOf[requests[q].endpoint] # UserOf[requests[r].endpoint]
         /\ ~ ChangedByApi(requests[r].endpoint)
<1>1. CASE InFlight(r)
  BY <1>1 DEF IsolatedInv, Alone
<1>2. CASE ReadEndpoint(r)
  BY <1>2 DEF ReadEndpoint, MayTouch, Busy
<1> QED
  BY <1>1, <1>2 DEF ServeStep, SelectPolicy, CreateNewEndpoint, LookupPort, TouchPort,
     InsertPort, ReadExpectedPort, InsertExpectedPort, ReadReplies, Accept, Reject, Crash, InFlight

\* A session leaves the API's sessions alone, and time does not go back.
LEMMA LeavesApi ==
  ASSUME TypeInv, NEW r \in Requests, ReadEndpoint(r) \/ ServeStep(r) \/ Crash(r)
  PROVE  removals' = removals /\ clock' \in Nat /\ clock <= clock'
<1>1. clock \in Nat
  BY DEF TypeInv, TypeOK
<1>2. CASE ReadEndpoint(r)
  BY <1>1, <1>2 DEF ReadEndpoint, api
<1>3. CASE Quiet
  BY <1>3 DEF Quiet, api
<1>4. CASE \E state \in States : Inserts(r, state) \/ Updates(r, state)
  BY <1>1, <1>4 DEF Inserts, Updates, api
<1>5. Lifecycle!FirstRejection(requests[r].endpoint) \in States /\ {"rejected", "authorized"} \subseteq States
  BY DEF Lifecycle!FirstRejection, States
<1> QED
  BY <1>2, <1>3, <1>4, <1>5, ServeCases, QuietSteps

\* A session at work leaves the ports of another endpoint, and their keys, alone.
LEMMA RemovalsStayFresh ==
  ASSUME Isolated, TypeInv, LockInv, IsolatedInv, LookupInv, NEW r \in Requests,
         ReadEndpoint(r) \/ ServeStep(r) \/ Crash(r), NEW d \in removals
  PROVE  RemovalIsFresh(d)'
<1>1. d.endpoint # requests[r].endpoint
  BY WorksAlone DEF ChangedByApi
<1>2. /\ \A id \in d.ports : id <= clock
      /\ \A n \in nasports : n.id \in d.ports <=> n.endpoint = d.endpoint
  BY DEF LookupInv, RemovalIsFresh
<1>3. clock \in Nat /\ clock' \in Nat /\ clock <= clock' /\ \A id \in d.ports : id \in Nat
  BY LeavesApi DEF TypeInv, TypeOK, EndpointDeletion
<1>4. OnlyPortsOf(requests[r].endpoint)
  BY OwnPorts DEF LookupInv
<1>5. ASSUME NEW n \in nasports', n.endpoint = requests[r].endpoint
      PROVE  n.id \notin d.ports
  <2>1. CASE n \in nasports
    BY <1>1, <1>2, <1>5, <2>1
  <2>2. CASE n = PortOf(requests[r])
    BY <1>2, <1>3, <2>2, AddedColumns
  <2>3. CASE Refreshes(r) /\ n \notin nasports
    <3>1. PICK m \in nasports, at \in Nat :
             /\ m.id = requests[r].port.id
             /\ nasports' = (nasports \ {m}) \cup {Refreshed(m, requests[r].port, requests[r].place, at)}
      BY <2>3 DEF Refreshes
    <3>2. n.id = m.id /\ n.endpoint = m.endpoint
      BY <2>3, <3>1, RowTypes, TouchTypes, RefreshedColumns DEF Refreshes
    <3> QED
      BY <1>1, <1>2, <1>5, <3>1, <3>2
  <2> QED
    BY <2>1, <2>2, <2>3, OwnTable
<1>6. \A n \in nasports' : n.id \in d.ports <=> n.endpoint = d.endpoint
  BY <1>1, <1>2, <1>4, <1>5 DEF OnlyPortsOf
<1>7. \A id \in d.ports : id <= clock'
  BY <1>2, <1>3
<1> QED
  BY <1>6, <1>7 DEF RemovalIsFresh

\* Nobody else's step disturbs what a session knows.
LEMMA LookupStep ==
  ASSUME Isolated, TypeInv, TypeInv', LockInv, IsolatedInv, LookupInv, [Next]_vars
  PROVE  LookupInv'
<1>1. CASE UNCHANGED <<nasports, requests>> /\ removals' \subseteq removals /\ clock' \in {clock, clock + 1}
  <2>1. \A d \in removals' : RemovalIsFresh(d)'
    <3>1. clock \in Nat /\ \A d \in removals : \A id \in d.ports : id \in Nat
      BY DEF TypeInv, TypeOK, EndpointDeletion
    <3> QED
      BY <1>1, <3>1 DEF LookupInv, RemovalIsFresh
  <2>2. \A r \in Requests : LookupIsFresh(r)'
    BY <1>1 DEF LookupInv, LookupIsFresh, KnownPorts, PortsOfUser
  <2> QED
    BY <1>1, <2>1, <2>2 DEF LookupInv, NoSelfConflict
<1>2. ASSUME NEW r \in Requests, ReadEndpoint(r) \/ ServeStep(r) \/ Crash(r)
      PROVE  LookupInv'
  <2>1. OnlyPortsOf(requests[r].endpoint) /\ IsFiniteSet(nasports')
    BY <1>2, OwnPorts DEF LookupInv
  <2>2. LookupIsFresh(r)' /\ requests'[r].error \notin Unforeseen
    BY <1>2, OwnLookup
  <2>3. \A q \in Requests \ {r} : requests'[q] = requests[q]
    BY <1>2, OnlyItself
  <2>4. ASSUME NEW q \in Requests \ {r}, InFlight(q)
        PROVE  UserOf[requests[q].endpoint] # UserOf[requests[r].endpoint]
    BY <1>2, <2>4, WorksAlone
  <2>5. \A q \in Requests \ {r} : LookupIsFresh(q)'
    BY <2>1, <2>3, <2>4, OthersLookup DEF LookupInv
  <2>6. NoSelfConflict'
    <3>1. \A q \in Requests : requests'[q].error \in Errors
      BY DEF TypeInv, TypeOK, Session
    <3>2. \A q \in Requests : requests'[q].error \notin Unforeseen
      BY <2>2, <2>3 DEF LookupInv, NoSelfConflict, Unforeseen
    <3> QED
      BY <3>1, <3>2 DEF NoSelfConflict, Unforeseen
  <2>7. \A d \in removals' : RemovalIsFresh(d)'
    BY <1>2, RemovalsStayFresh, LeavesApi
  <2> QED
    BY <2>1, <2>2, <2>5, <2>6, <2>7 DEF LookupInv
<1>3. ASSUME NEW e, \A q \in Requests : InFlight(q) => UserOf[requests[q].endpoint] # UserOf[e],
             OnlyPortsOf(e), nasports' \subseteq nasports, removals' \subseteq removals,
             UNCHANGED <<requests, clock>>
      PROVE  LookupInv'
  <2>1. \A q \in Requests : LookupIsFresh(q)'
    BY <1>3, OthersLookup DEF LookupInv
  <2>2. IsFiniteSet(nasports')
    BY <1>3, FS_Subset DEF LookupInv
  <2>3. \A d \in removals' : RemovalIsFresh(d)'
    BY <1>3 DEF LookupInv, RemovalIsFresh
  <2> QED
    BY <1>3, <2>1, <2>2, <2>3 DEF LookupInv, NoSelfConflict
<1>4. CASE ApiStep
  <2>1. ASSUME NEW d \in removals, CommitDeleteEndpoint(d)
        PROVE  LookupInv'
    <3>1. /\ nasports' = {n \in nasports : n.endpoint # d.endpoint}
          /\ removals' \subseteq removals /\ UNCHANGED <<requests, clock>>
      BY <2>1 DEF CommitDeleteEndpoint, LookupInv, RemovalIsFresh
    <3>2. OnlyPortsOf(d.endpoint)
      BY <3>1 DEF OnlyPortsOf
    <3>3. \A q \in Requests : InFlight(q) => UserOf[requests[q].endpoint] # UserOf[d.endpoint]
      BY DEF IsolatedInv, Alone, ChangedByApi
    <3> QED
      BY <1>3, <3>1, <3>2, <3>3
  <2>2. ASSUME NEW n \in nasports, DeleteNasPort(n)
        PROVE  LookupInv'
    BY <1>3, <2>2 DEF DeleteNasPort, MayTouch, OnlyPortsOf, Busy, api
  <2>3. ASSUME NEW e \in Endpoints, BeginDeleteEndpoint(e)
        PROVE  LookupInv'
    <3> DEFINE d == [endpoint |-> e, id |-> endpoints[e].id,
                     ports |-> {n.id : n \in {m \in nasports : m.endpoint = e}}]
    <3>1. removals' = removals \cup {d} /\ UNCHANGED <<nasports, requests, clock>>
      BY <2>3 DEF BeginDeleteEndpoint, tables
    <3>2. RemovalIsFresh(d)
      BY DEF RemovalIsFresh, LockInv, PortIdsInv
    <3> HIDE DEF d
    <3>3. \A c \in removals' : RemovalIsFresh(c)'
      BY <3>1, <3>2 DEF LookupInv, RemovalIsFresh
    <3>4. \A r \in Requests : LookupIsFresh(r)'
      BY <3>1 DEF LookupInv, LookupIsFresh, KnownPorts, PortsOfUser
    <3> QED
      BY <3>1, <3>3, <3>4 DEF LookupInv, NoSelfConflict
  <2> QED
    BY <1>1, <1>4, <2>1, <2>2, <2>3 DEF ApiStep, PostEndpoint, BeginPut, CommitPut, WritePolicy,
       DeletePolicy, BeginDeleteGroup, CommitDeleteGroup, tables, api
<1> QED
  BY <1>1, <1>2, <1>4 DEF Next, vars

LEMMA Lookups ==
  ASSUME Isolated
  PROVE  Spec => [](LockInv /\ IsolatedInv /\ LookupInv)
<1>1. Init => LookupInv
  BY FS_EmptySet DEF Init, NewSession, LookupInv, LookupIsFresh, NoSelfConflict
<1>2. TypeInv /\ TypeInv' /\ LockInv /\ IsolatedInv /\ LookupInv /\ [Next]_vars => LookupInv'
  BY LookupStep
<1>3. Spec => []LockInv
  BY InitLockInv, LockInvStep, TypeInvariance, PTL DEF Spec
<1> QED
  BY <1>1, <1>2, <1>3, LastVerdicts, TypeInvariance, PTL DEF Spec

\* When nothing overlaps on one user, a request ends in an exception only because its lookup
\* found two rows, its policy was deleted or a condition has no value: what the lookup of post_auth finds covers both
\* unique constraints of nasport.
THEOREM NoConflictAlone ==
  ASSUME Isolated
  PROVE  Spec => []NoSelfConflict
<1>1. LookupInv => NoSelfConflict
  BY DEF LookupInv
<1> QED
  BY <1>1, Lookups, PTL

-----------------------------------------------------------------------------
(* Without overlap: ports without an endpoint *)

Unwell == {"error", "crash"}

\* A request at this endpoint that did not end well, or one that has yet to write it.
Explains(r, e) ==
  /\ requests[r].endpoint = e
  /\ \/ requests[r].answer \in Unwell
     \/ requests[r].pc \in {"lock", "expect", "replies", "accept", "reject"}

TraceInv ==
  /\ \A r \in Requests : requests[r].answer \in Unwell => requests[r].pc = "done"
  /\ \A n \in nasports : endpoints[n.endpoint] = None => \E r \in Requests : Explains(r, n.endpoint)

\* A session that explains a port ends unwell, or with an endpoint.
LEMMA ExplainsStays ==
  ASSUME TypeInv, IsolatedInv, TraceInv, NEW r \in Requests, Explains(r, requests[r].endpoint),
         ServeStep(r) \/ Crash(r)
  PROVE  Explains(r, requests[r].endpoint)' \/ endpoints'[requests[r].endpoint] # None
<1> DEFINE s == requests[r]
           Unended(t) == t.answer \in Unwell \/ t.pc \in {"lock", "expect", "replies", "accept", "reject"}
<1>1. s \in Session /\ requests \in [Requests -> Session]
  BY SessionOf DEF TypeInv, TypeOK
<1>2. s.pc \in {"lock", "expect", "replies", "accept", "reject"}
  BY DEF Explains, TraceInv, ServeStep, SelectPolicy, CreateNewEndpoint, LookupPort, TouchPort,
         InsertPort, ReadExpectedPort, InsertExpectedPort, ReadReplies, Accept, Reject, Crash, InFlight
<1>3. \A cause : Fail(r, cause) => requests'[r].answer \in Unwell
  BY <1>1 DEF Fail, Resume, Session, Unwell
<1>4. \A step : Goto(r, step) => requests'[r].pc = step
  BY <1>1 DEF Goto, Resume, Session
<1>5. Finish(r, "crash") => requests'[r].answer \in Unwell
  BY <1>1 DEF Finish, Resume, Session, Unwell
<1>6. requests'[r].endpoint = s.endpoint
  BY <1>2, ServeCases, QuietSteps DEF Quiet, Inserts, Updates, SameRequest
<1>7. CASE ReadExpectedPort(r)
  BY <1>4, <1>6, <1>7 DEF ReadExpectedPort, Explains
<1>8. CASE InsertExpectedPort(r)
  <2>1. \/ Fail(r, "integrity")
        \/ \E step \in {"replies", "reject"} : \E port : Resume(r, [s EXCEPT !.pc = step, !.port = port])
    BY <1>8 DEF InsertExpectedPort, AddPort
  <2>2. \A step \in {"replies", "reject"} : \A port :
          Resume(r, [s EXCEPT !.pc = step, !.port = port]) => requests'[r].pc = step
    BY <1>1 DEF Resume, Session
  <2> QED
    BY <1>3, <1>6, <2>1, <2>2 DEF Explains
<1>9. CASE ReadReplies(r)
  BY <1>3, <1>4, <1>6, <1>9 DEF ReadReplies, Explains
<1>10. CASE Accept(r) \/ Reject(r)
  BY <1>10, WritesItsRow DEF Accept, Reject, InFlight, States
<1>11. CASE Crash(r)
  BY <1>5, <1>6, <1>11 DEF Crash, Explains
<1> QED
  BY <1>2, <1>7, <1>8, <1>9, <1>10, <1>11 DEF ServeStep, SelectPolicy, CreateNewEndpoint, LookupPort,
     TouchPort, InsertPort

\* The row a session adds is explained by it, or has its endpoint.
LEMMA AddedIsExplained ==
  ASSUME TypeInv, NEW r \in Requests, ReadEndpoint(r) \/ ServeStep(r) \/ Crash(r),
         NEW n \in nasports', n \notin nasports, ~ Refreshes(r)
  PROVE  /\ n.endpoint = requests[r].endpoint
         /\ Explains(r, n.endpoint)' \/ endpoints'[n.endpoint] # None
<1> DEFINE s == requests[r]
<1>1. /\ s \in Session /\ requests \in [Requests -> Session] /\ RestOK
      /\ s.endpoint \in Endpoints
  BY SessionOf DEF TypeInv, TypeOK
<1>2. n.endpoint = s.endpoint
  BY OwnTable, AddedColumns
<1>3. CASE CreateNewEndpoint(r)
  <2> DEFINE row == AsEndpoint(clock + 1, IF s.endpoint \in MacEndpoints THEN "discovered" ELSE "rejected", None)
  <2>1. row \in EndpointRow
    BY <1>1 DEF RestOK, EndpointRow, States, AsEndpoint
  <2>2. endpoints' = [endpoints EXCEPT ![s.endpoint] = row]
    BY <1>3 DEF CreateNewEndpoint
  <2> HIDE DEF row
  <2> QED
    BY <1>1, <1>2, <2>1, <2>2, NoneIsNoRowAssumption DEF RestOK
<1>4. CASE InsertPort(r) \/ InsertExpectedPort(r)
  <2>1. PICK step \in {"replies", "reject"} :
          \E port : Resume(r, [s EXCEPT !.pc = step, !.port = port])
    BY <1>4 DEF InsertPort, InsertExpectedPort, AddPort, Fail, tables
  <2>2. requests'[r].pc = step /\ requests'[r].endpoint = s.endpoint
    BY <1>1, <2>1 DEF Resume, Session
  <2> QED
    BY <1>2, <2>2 DEF Explains
<1>5. CASE TouchPort(r)
  <2>1. clock + 1 \in Nat /\ s.began \in Nat
    BY SessionOf DEF RestOK
  <2> QED
    BY <1>5, <2>1 DEF TouchPort, Refreshes, Fail, tables
<1> QED
  BY <1>3, <1>4, <1>5 DEF ServeStep, SelectPolicy, LookupPort, ReadExpectedPort, ReadReplies, Accept,
     Reject, UpdateEndpointState, ReadEndpoint, Crash, Fail, tables

\* No step of a session deletes an endpoint.
LEMMA NoneDeleted ==
  ASSUME TypeInv, NEW r \in Requests, ReadEndpoint(r) \/ ServeStep(r) \/ Crash(r), NEW f \in Endpoints,
         endpoints'[f] = None
  PROVE  endpoints[f] = None
<1>1. requests[r].endpoint \in Endpoints /\ RestOK
  BY SessionOf
<1>2. CASE Quiet \/ ReadEndpoint(r)
  BY <1>2 DEF Quiet, ReadEndpoint, tables
<1>3. ASSUME NEW state \in States, Inserts(r, state)
      PROVE  endpoints[f] = None
  BY <1>1, <1>3 DEF Inserts, RestOK
<1>4. ASSUME NEW state \in States, Updates(r, state)
      PROVE  endpoints[f] = None
  <2> DEFINE e == requests[r].endpoint
  <2>1. endpoints[e] \in EndpointRow /\ endpoints'[e] = [endpoints[e] EXCEPT !.state = state]
    BY <1>1, <1>4 DEF Updates, IsCurrent, RestOK
  <2>2. endpoints'[e] \in EndpointRow
    BY <2>1 DEF EndpointRow
  <2>3. f # e
    BY <2>2, NoneIsNoRowAssumption
  <2> QED
    BY <1>1, <1>4, <2>3 DEF Updates, RestOK
<1>5. Lifecycle!FirstRejection(requests[r].endpoint) \in States /\ {"rejected", "authorized"} \subseteq States
  BY DEF Lifecycle!FirstRejection, States
<1> QED
  BY <1>2, <1>3, <1>4, <1>5, ServeCases, QuietSteps

\* A request that was answered badly has ended, and stays so.
LEMMA UnwellHaveEnded ==
  ASSUME TypeInv, TraceInv, NEW r \in Requests, ReadEndpoint(r) \/ ServeStep(r) \/ Crash(r),
         requests'[r].answer \in Unwell
  PROVE  requests'[r].pc = "done"
<1> DEFINE s == requests[r]
<1>1. s \in Session /\ requests \in [Requests -> Session]
  BY SessionOf DEF TypeInv, TypeOK
<1>2. s.answer \notin Unwell
  BY DEF TraceInv, ReadEndpoint, ServeStep, SelectPolicy, CreateNewEndpoint, LookupPort, TouchPort,
         InsertPort, ReadExpectedPort, InsertExpectedPort, ReadReplies, Accept, Reject, Crash, InFlight
<1>3. \A cause : Fail(r, cause) => requests'[r].pc = "done"
  BY <1>1 DEF Fail, Resume, Session
<1>4. \A step : Goto(r, step) => requests'[r].answer = s.answer
  BY <1>1 DEF Goto, Resume, Session
<1>5. \A answer : Finish(r, answer) => requests'[r].pc = "done"
  BY <1>1 DEF Finish, Resume, Session
<1>6. \A step, port : Resume(r, [s EXCEPT !.pc = step, !.port = port]) => requests'[r].answer = s.answer
  BY <1>1 DEF Resume, Session
<1>7. CASE ReadEndpoint(r)
  BY <1>1, <1>2, <1>7 DEF ReadEndpoint, Resume, Session
<1>8. CASE SelectPolicy(r)
  <2>1. \A id, k : Resume(r, [s EXCEPT !.pc = "lookup", !.policy = id, !.locking = k]) =>
          requests'[r].answer = s.answer
    BY <1>1 DEF Resume, Session
  <2> QED
    BY <1>2, <1>3, <1>4, <1>8, <2>1 DEF SelectPolicy
<1>9. CASE CreateNewEndpoint(r)
  <2>1. \A row : Resume(r, [s EXCEPT !.pc = "reject", !.loaded = row]) => requests'[r].answer = s.answer
    BY <1>1 DEF Resume, Session
  <2> QED
    BY <1>2, <1>5, <1>9, <2>1 DEF CreateNewEndpoint
<1>10. CASE LookupPort(r)
  BY <1>2, <1>3, <1>4, <1>6, <1>10 DEF LookupPort
<1>11. CASE TouchPort(r)
  <2>1. \A step, at, port :
          Resume(r, [s EXCEPT !.pc = step, !.began = at, !.port = port]) => requests'[r].answer = s.answer
    BY <1>1 DEF Resume, Session
  <2>2. \/ Fail(r, "stale") \/ Fail(r, "integrity")
        \/ \E step, at, port : Resume(r, [s EXCEPT !.pc = step, !.began = at, !.port = port])
    BY <1>11 DEF TouchPort
  <2> QED
    BY <1>2, <1>3, <2>1, <2>2
<1>12. CASE InsertPort(r) \/ InsertExpectedPort(r)
  <2>1. Fail(r, "integrity") \/ \E step, port : Resume(r, [s EXCEPT !.pc = step, !.port = port])
    BY <1>12 DEF InsertPort, InsertExpectedPort, AddPort
  <2> QED
    BY <1>2, <1>3, <1>6, <2>1
<1>13. CASE ReadExpectedPort(r) \/ ReadReplies(r)
  BY <1>2, <1>3, <1>4, <1>13 DEF ReadExpectedPort, ReadReplies
<1>14. CASE Accept(r) \/ Reject(r)
  BY <1>3, <1>5, <1>14 DEF Accept, Reject, UpdateEndpointState
<1>15. CASE Crash(r)
  BY <1>5, <1>15 DEF Crash
<1> QED
  BY <1>7, <1>8, <1>9, <1>10, <1>11, <1>12, <1>13, <1>14, <1>15 DEF ServeStep

\* A step of a session explains every port without an endpoint.
LEMMA TraceServe ==
  ASSUME TypeInv, LockInv, IsolatedInv, TraceInv, NEW r \in Requests,
         ReadEndpoint(r) \/ ServeStep(r) \/ Crash(r)
  PROVE  TraceInv'
<1>1. \A q \in Requests \ {r} : requests'[q] = requests[q]
  BY OnlyItself
<1>2. \A q \in Requests : requests'[q].answer \in Unwell => requests'[q].pc = "done"
  BY <1>1, UnwellHaveEnded DEF TraceInv
<1>3. ASSUME NEW e \in Endpoints, endpoints'[e] = None, \E q \in Requests : Explains(q, e)
      PROVE  (\E q \in Requests : Explains(q, e))'
  <2>1. PICK q \in Requests : Explains(q, e)
    BY <1>3
  <2>2. CASE q # r
    BY <1>1, <2>1, <2>2 DEF Explains
  <2>3. CASE q = r
    <3>1. requests[r].endpoint = e /\ ~ ReadEndpoint(r)
      BY <2>1, <2>3 DEF Explains, ReadEndpoint, TraceInv
    <3>2. Explains(r, requests[r].endpoint)' \/ endpoints'[requests[r].endpoint] # None
      BY <2>1, <2>3, <3>1, ExplainsStays
    <3>3. requests'[r].endpoint = e
      <4>1. requests'[r].endpoint = requests[r].endpoint
        BY <3>1, ServeCases, QuietSteps DEF Quiet, Inserts, Updates, SameRequest
      <4> QED
        BY <3>1, <4>1
    <3> QED
      BY <1>3, <3>1, <3>2, <3>3 DEF Explains
  <2> QED
    BY <2>2, <2>3
<1>4. ASSUME NEW n \in nasports', endpoints'[n.endpoint] = None
      PROVE  (\E q \in Requests : Explains(q, n.endpoint))'
  <2>1. CASE \E m \in nasports : m.endpoint = n.endpoint
    <3>1. PICK m \in nasports : m.endpoint = n.endpoint
      BY <2>1
    <3>2. n.endpoint \in Endpoints
      BY <3>1, RowTypes DEF NasPortRow
    <3>3. endpoints[n.endpoint] = None
      BY <1>4, <3>2, NoneDeleted
    <3>4. \E q \in Requests : Explains(q, n.endpoint)
      BY <3>1, <3>3 DEF TraceInv
    <3> QED
      BY <1>3, <1>4, <3>2, <3>4
  <2>2. CASE \A m \in nasports : m.endpoint # n.endpoint
    <3>1. n \notin nasports
      BY <2>2
    <3>2. ~ Refreshes(r)
      <4>1. SUFFICES ASSUME Refreshes(r) PROVE FALSE
        OBVIOUS
      <4>2. PICK m \in nasports, at \in Nat :
              nasports' = (nasports \ {m}) \cup {Refreshed(m, requests[r].port, requests[r].place, at)}
        BY <4>1 DEF Refreshes
      <4>3. Refreshed(m, requests[r].port, requests[r].place, at).endpoint = m.endpoint
        BY <4>1, RowTypes, TouchTypes, RefreshedColumns DEF Refreshes
      <4> QED
        BY <2>2, <3>1, <4>2, <4>3
    <3> QED
      BY <1>4, <3>1, <3>2, AddedIsExplained DEF Explains
  <2> QED
    BY <2>1, <2>2
<1> QED
  BY <1>2, <1>4 DEF TraceInv

\* So does a change through the API.
LEMMA TraceApi ==
  ASSUME TypeInv, TraceInv, UNCHANGED requests, nasports' \subseteq nasports,
         \A n \in nasports' : endpoints'[n.endpoint] = None => endpoints[n.endpoint] = None
  PROVE  TraceInv'
<1>1. \A n \in nasports' : endpoints'[n.endpoint] = None =>
        \E r \in Requests : Explains(r, n.endpoint)
  BY DEF TraceInv
<1> QED
  BY <1>1 DEF TraceInv, Explains

LEMMA TraceStep ==
  ASSUME TypeInv, LockInv, IsolatedInv, LookupInv, TraceInv, [Next]_vars
  PROVE  TraceInv'
<1>0. RestOK /\ \A n \in nasports : n.endpoint \in Endpoints
  BY RowTypes DEF TypeInv, TypeOK, RestOK, NasPortRow
<1>1. CASE nasports' \subseteq nasports /\ UNCHANGED <<endpoints, requests>>
  BY <1>1, TraceApi
<1>2. ASSUME NEW e \in Endpoints, NEW g \in Groups \cup {None}, PostEndpoint(e, g)
      PROVE  TraceInv'
  <2>1. \A f \in Endpoints : endpoints'[f] = None => endpoints[f] = None
    BY <1>0, <1>2 DEF PostEndpoint, RestOK
  <2> QED
    BY <1>0, <1>2, <2>1, TraceApi DEF PostEndpoint
<1>3. CASE CommitPut
  <2>1. \A f \in Endpoints : endpoints'[f] = None => endpoints[f] = None
    <3>1. CASE UNCHANGED endpoints
      BY <3>1
    <3>2. CASE ~ UNCHANGED endpoints
      <4>1. /\ endpoints[put.endpoint] # None
            /\ \E row : endpoints' = [endpoints EXCEPT ![put.endpoint] = row]
        BY <1>3, <3>2 DEF CommitPut, IsCurrent
      <4>2. PICK row : endpoints' = [endpoints EXCEPT ![put.endpoint] = row]
        BY <4>1
      <4>3. ASSUME NEW f \in Endpoints, endpoints'[f] = None, endpoints[f] # None
            PROVE  FALSE
        <5>1. f = put.endpoint /\ endpoints'[f] \in EndpointRow
          <6>1. f = put.endpoint
            BY <1>0, <4>2, <4>3 DEF RestOK
          <6>2. endpoints' = [endpoints EXCEPT ![f] =
                   AsEndpoint(endpoints[f].id, StateAfterPut(put.loaded, endpoints[f]), put.group_id)]
            BY <1>3, <3>2, <6>1 DEF CommitPut
          <6>3. put.group_id \in Groups \cup {None} /\ endpoints[f] \in EndpointRow
            BY <1>0, <1>3, <4>3 DEF RestOK, PutSession, CommitPut
          <6>4. StateAfterPut(put.loaded, endpoints[f]) \in States
            BY <6>3 DEF StateAfterPut, EndpointRow, States
          <6> QED
            BY <1>0, <6>1, <6>2, <6>3, <6>4 DEF AsEndpoint, EndpointRow, RestOK
        <5> QED
          BY <4>3, <5>1, NoneIsNoRowAssumption
      <4> QED
        BY <4>3
    <3> QED
      BY <3>1, <3>2
  <2> QED
    BY <1>0, <1>3, <2>1, TraceApi DEF CommitPut
<1>4. ASSUME NEW d \in removals, CommitDeleteEndpoint(d)
      PROVE  TraceInv'
  <2>1. /\ nasports' = {n \in nasports : n.endpoint # d.endpoint} /\ UNCHANGED requests
        /\ \A f \in Endpoints \ {d.endpoint} : endpoints'[f] = endpoints[f]
    BY <1>0, <1>4 DEF CommitDeleteEndpoint, RestOK, LookupInv, RemovalIsFresh
  <2> QED
    BY <1>0, <2>1, TraceApi
<1>5. ASSUME NEW d \in disbandings, CommitDeleteGroup(d)
      PROVE  TraceInv'
  <2>1. ASSUME NEW f \in Endpoints, endpoints'[f] = None
        PROVE  endpoints[f] = None
    BY <1>0, <1>5, <2>1, DisbandedRow
  <2> QED
    BY <1>0, <1>5, <2>1, TraceApi DEF CommitDeleteGroup
<1>6. CASE ApiStep
  BY <1>1, <1>2, <1>3, <1>4, <1>5, <1>6 DEF ApiStep, BeginPut, BeginDeleteEndpoint,
     BeginDeleteGroup, DeleteNasPort, WritePolicy, DeletePolicy, tables
<1> QED
  BY <1>1, <1>6, TraceServe DEF Next, vars

\* When nothing overlaps on one user, a port without an endpoint is the trace of a request of
\* that endpoint that died or raised: neither an answer nor a deletion leaves one.
THEOREM PortsAreTraces ==
  ASSUME Isolated
  PROVE  Spec => []PortsWithoutEndpointAreTraces
<1>1. Init => TraceInv
  BY NoneIsNoRowAssumption DEF Init, NewSession, TraceInv, Unwell
<1>2. TypeInv /\ LockInv /\ IsolatedInv /\ LookupInv /\ TraceInv /\ [Next]_vars => TraceInv'
  BY TraceStep
<1>3. TraceInv => PortsWithoutEndpointAreTraces
  BY DEF TraceInv, Explains, Unwell, PortsWithoutEndpointAreTraces, Busy, InFlight
<1> QED
  BY <1>1, <1>2, <1>3, Lookups, TypeInvariance, PTL DEF Spec
=============================================================================
