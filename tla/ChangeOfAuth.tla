---------------------------- MODULE ChangeOfAuth ----------------------------
(***************************************************************************)
(* Change of authorization (core/coa.py): when an endpoint is given        *)
(* another group, or is deleted, the switch is told to bounce the port the *)
(* endpoint was last seen at, so that the device authenticates again.      *)
(*                                                                         *)
(* CoA.create is three queries, between which devices come and go; what it *)
(* returns sends its packet after the response.  A port is the physical    *)
(* one, called_station_id and nas_port_id; its switch may or may not give  *)
(* its name with a request.  Authentications write rows of nasport as      *)
(* post_auth does (AuthEngine): new or changed ones with the time at which *)
(* the transaction began, others with the time of day.                     *)
(***************************************************************************)
EXTENDS Naturals, FiniteSets

CONSTANTS
  None,
  Endpoints,
  MacOf,       \* calling_station_id of an endpoint
  Ports,
  NamesOf,     \* of a port, the nas_identifiers its switch gives, "" among them
  NasOf,       \* of a port, the rows of nas whose network has its nas_ip_address
  Enabled,     \* the rows of nas with coa_enabled
  MaxEvents,   \* bound on the authentications, their commits and the calls together
  MaxCalls     \* bound on the calls of PUT and DELETE

ASSUME CoaAssumption ==
  /\ DOMAIN MacOf = Endpoints /\ DOMAIN NamesOf = Ports /\ DOMAIN NasOf = Ports
  /\ MaxEvents \in Nat /\ MaxCalls \in Nat

Names == UNION {NamesOf[p] : p \in Ports}
NasPortRow == [endpoint : Endpoints, port : Ports, name : Names, updated : Nat]
Auth == [endpoint : Endpoints, port : Ports, name : Names, began : Nat]

ASSUME CoaNoneAssumption == None \notin NasPortRow /\ None \notin Auth

VARIABLES
  clock,      \* the time
  on,         \* of a port, the last authentication that was begun there, while its device is there
  auths,      \* authentications begun, their ports not committed yet
  nasports,   \* table nasport
  calls,      \* sessions of CoA.create, and packets to be sent
  waiting,    \* history: quiet endpoints given a group and not authenticated since
  committed,  \* history: of an endpoint and a port, the authentication committed last, while
              \* its row is there
  started     \* number of calls

portVars == <<clock, on, auths, nasports, committed>>
vars == <<portVars, calls, waiting, started>>

Call ==
  [by     : {"PUT", "DELETE"},
   pc     : {"latest", "other", "nas", "delete", "send"},
   endpoint : Endpoints,
   own    : NasPortRow \cup {None},    \* nas_port
   sends  : BOOLEAN,                   \* coa is not None
   number : Nat,
   asked  : SUBSET Auth]               \* history: committed, when other_port was read

RowsOf(e) == {r \in nasports : r.endpoint = e}

\* get_latest_nas_port
IsLatest(r) == \A q \in RowsOf(r.endpoint) : q.updated <= r.updated

OtherDevice(e, f) == MacOf[e] # MacOf[f]

-----------------------------------------------------------------------------
(* Devices and switches *)

\* A device is connected to a port, and leaves the one it was at.
Connect(e, p, name) ==
  /\ clock' = clock + 1
  /\ LET auth == [endpoint |-> e, port |-> p, name |-> name, began |-> clock + 1]
         left == {q \in Ports : on[q] # None /\ ~ OtherDevice(on[q].endpoint, e)}
     IN /\ on' = [q \in Ports |-> IF q = p THEN auth ELSE IF q \in left THEN None ELSE on[q]]
        /\ auths' = auths \cup {auth}
  /\ waiting' = waiting \ {e}
  /\ UNCHANGED <<nasports, committed>>

\* Fault: a known port is written again.
CommitNewPort(a) ==
  /\ auths' = auths \ {a}
  /\ committed' = {b \in committed : b.endpoint # a.endpoint \/ b.port # a.port} \cup {a}
  /\ nasports' = nasports \cup
       {[endpoint |-> a.endpoint, port |-> a.port, name |-> a.name, updated |-> a.began]}
  /\ UNCHANGED <<clock, on, calls, waiting, started>>

\* The commit of TouchPort or InsertPort.
CommitPort(a) ==
  /\ auths' = auths \ {a}
  /\ committed' = {b \in committed : b.endpoint # a.endpoint \/ b.port # a.port} \cup {a}
  /\ LET old == {r \in RowsOf(a.endpoint) : r.port = a.port}
         same == \E r \in old : r.name = a.name
         row == [endpoint |-> a.endpoint, port |-> a.port, name |-> a.name,
                 updated |-> IF same THEN clock + 1 ELSE a.began]
     IN /\ nasports' = (nasports \ old) \cup {row}
        /\ clock' = IF same THEN clock + 1 ELSE clock
  /\ UNCHANGED <<on, calls, waiting, started>>

-----------------------------------------------------------------------------
(* PUT and DELETE of an endpoint *)

Bounceable(p) == \E n \in Enabled : NasOf[p] = {n}

\* The endpoint is where its latest row says, nobody else was seen there since, and no
\* authentication that could say otherwise is under way.
Quiet(e) ==
  \E r \in RowsOf(e) :
    /\ IsLatest(r) /\ Bounceable(r.port)
    /\ on[r.port] # None /\ on[r.port].endpoint = e
    /\ \A a \in auths : a.endpoint # e /\ a.port # r.port
    /\ \A q \in nasports : q.port = r.port => q.updated <= r.updated

\* The group was committed (PUT), or the endpoint is about to be deleted.
Create(by, e) ==
  /\ started < MaxCalls /\ clock + started < MaxEvents
  /\ started' = started + 1
  /\ calls' = calls \cup {[by |-> by, pc |-> "latest", endpoint |-> e, own |-> None,
                           sends |-> FALSE, number |-> started, asked |-> {}]}
  /\ waiting' = IF by = "PUT" /\ Quiet(e) THEN waiting \cup {e} ELSE waiting
  /\ UNCHANGED portVars

Continue(c, d) ==
  /\ calls' = (calls \ {c}) \cup {d}
  /\ UNCHANGED <<portVars, waiting, started>>

End(c) ==
  /\ calls' = calls \ {c}
  /\ UNCHANGED <<portVars, waiting, started>>

\* CoA.create returns; a DELETE has its row still to delete.
Return(c, sends) ==
  IF c.by = "DELETE" THEN Continue(c, [c EXCEPT !.pc = "delete", !.sends = sends])
  ELSE IF sends THEN Continue(c, [c EXCEPT !.pc = "send", !.sends = TRUE])
  ELSE End(c)

\* Fault: any row of the endpoint.
GetNasPort(c) ==
  /\ c.pc = "latest"
  /\ IF RowsOf(c.endpoint) = {} THEN Return(c, FALSE)
     ELSE \E r \in RowsOf(c.endpoint) : Continue(c, [c EXCEPT !.pc = "other", !.own = r])

GetLatestNasPort(c) ==
  /\ c.pc = "latest"
  /\ IF RowsOf(c.endpoint) = {} THEN Return(c, FALSE)
     ELSE \E r \in RowsOf(c.endpoint) :
            IsLatest(r) /\ Continue(c, [c EXCEPT !.pc = "other", !.own = r])

\* Fault: a row that is older counts too.
OtherPortEver(c) ==
  \E r \in nasports :
    /\ OtherDevice(r.endpoint, c.endpoint)
    /\ r.port = c.own.port
    /\ r.name = c.own.name \/ r.name = ""

\* Fault: a row without a name is no other port.
OtherNamedPort(c) ==
  \E r \in nasports :
    /\ r.updated > c.own.updated
    /\ OtherDevice(r.endpoint, c.endpoint)
    /\ r.port = c.own.port
    /\ r.name = c.own.name

\* Another device is on the port since; nas_identifier is the same, or the other row has none.
OtherPort(c) ==
  \E r \in nasports :
    /\ r.updated > c.own.updated
    /\ OtherDevice(r.endpoint, c.endpoint)
    /\ r.port = c.own.port
    /\ r.name = c.own.name \/ r.name = ""

AskOtherPort(c) ==
  /\ c.pc = "other"
  /\ IF OtherPort(c) THEN Return(c, FALSE)
     ELSE Continue(c, [c EXCEPT !.pc = "nas", !.asked = committed])

\* get_nas; two networks with the address make it raise, and end the call, PUT or DELETE.
GetNas(c) ==
  /\ c.pc = "nas"
  /\ IF Cardinality(NasOf[c.own.port]) > 1 THEN End(c)
     ELSE Return(c, Bounceable(c.own.port))

\* The commit of DELETE, with the ports of the endpoint (cascade).
CommitDelete(c) ==
  /\ c.pc = "delete"
  /\ nasports' = nasports \ RowsOf(c.endpoint)
  /\ committed' = {a \in committed : a.endpoint # c.endpoint}
  /\ calls' = (calls \ {c}) \cup (IF c.sends THEN {[c EXCEPT !.pc = "send"]} ELSE {})
  /\ UNCHANGED <<clock, on, auths, waiting, started>>

\* The switch bounces the port, and the device there authenticates again.
SendCoaPacket(c) ==
  /\ c.pc = "send"
  /\ calls' = calls \ {c}
  /\ LET there == on[c.own.port]
     IN IF there = None THEN UNCHANGED <<portVars, waiting>>
        ELSE \E name \in NamesOf[c.own.port] : Connect(there.endpoint, c.own.port, name)
  /\ UNCHANGED started

\* The process ends before the packet is sent, or no answer comes and none is tried again.
Lose(c) ==
  /\ calls' = calls \ {c}
  /\ waiting' = waiting \ {c.endpoint}
  /\ UNCHANGED <<portVars, started>>

Run(c) ==
  \/ GetLatestNasPort(c) \/ AskOtherPort(c) \/ GetNas(c) \/ CommitDelete(c) \/ SendCoaPacket(c)

-----------------------------------------------------------------------------
Init ==
  /\ clock = 0 /\ on = [p \in Ports |-> None] /\ auths = {} /\ nasports = {}
  /\ calls = {} /\ waiting = {} /\ committed = {} /\ started = 0

Next ==
  \/ \E e \in Endpoints, p \in Ports : \E name \in NamesOf[p] :
       clock + started < MaxEvents /\ Connect(e, p, name) /\ UNCHANGED <<calls, started>>
  \/ \E a \in auths : CommitPort(a)
  \/ \E e \in Endpoints, by \in {"PUT", "DELETE"} : Create(by, e)
  \/ \E c \in calls : Run(c) \/ Lose(c)

\* A session whose query was answered goes on.
Fairness == WF_vars(\E c \in calls : Run(c))

Spec == Init /\ [][Next]_vars /\ Fairness

-----------------------------------------------------------------------------
(* Properties *)

TypeOK ==
  /\ clock \in Nat /\ started \in Nat
  /\ on \in [Ports -> Auth \cup {None}] /\ auths \subseteq Auth
  /\ nasports \subseteq NasPortRow /\ calls \subseteq Call
  /\ waiting \subseteq Endpoints /\ committed \subseteq Auth
  /\ \A r, q \in nasports : r.endpoint = q.endpoint /\ r.port = q.port => r = q

\* No packet bounces the port of another device that was connected there after the endpoint
\* was last seen, if that was the other's last commit when the query asked; unless the other
\* endpoint was deleted since, and with it the row that tells of it, or the switch gave a name
\* with the other's request that it did not give with the endpoint's.
NoStrangerBounced ==
  [][\A c \in calls :
       LET there == on[c.own.port]
       IN SendCoaPacket(c) =>
            ~ /\ there # None
              /\ OtherDevice(there.endpoint, c.endpoint)
              /\ there.began > c.own.updated
              /\ there \in c.asked
              /\ there.name = c.own.name \/ there.name = ""]_vars

\* No change of a group is forgotten: as long as an endpoint waits where it was last seen, a call
\* is on its way whose packet reaches it there, whatever other calls, devices and deletions did
\* between the queries of that call.
WaitingIsServed ==
  \A e \in waiting :
    Quiet(e) => \E c \in calls :
                  /\ c.by = "PUT" /\ c.endpoint = e
                  /\ \/ c.pc = "latest"
                     \/ on[c.own.port] # None /\ on[c.own.port].endpoint = e

\* An endpoint that stays where it was last seen is made to authenticate again after its group
\* was changed.
GroupChangeIsApplied ==
  \A e \in Endpoints : (e \in waiting /\ Quiet(e)) ~> (e \notin waiting \/ ~ Quiet(e))
=============================================================================
