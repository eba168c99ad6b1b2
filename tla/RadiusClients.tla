--------------------------- MODULE RadiusClients ---------------------------
(***************************************************************************)
(* RADIUS clients: the table nas as routes_v2/radius_client.py changes it, *)
(* composed with AdminEvents, which clears what FreeRADIUS has cached of   *)
(* them (docker/radius/raddb/sites-available/dynamic-clients).             *)
(*                                                                         *)
(* PUT and DELETE are two steps, the SELECT and the commit; the event they *)
(* write has the time of the SELECT.                                       *)
(***************************************************************************)
EXTENDS AdminEvents, FiniteSets

CONSTANTS
  ClientIds,     \* nas.id
  Secrets,       \* nas.secret
  AddressesOf,   \* of a network, all of its addresses
  MaxSessions,   \* bound on the API sessions open at a time
  NetworkFixed   \* TRUE: no PUT changes the network of a client

NasRow == [id : ClientIds, network : Networks, secret : Secrets]

ASSUME ClientsAssumption == Clients = NasRow
ASSUME AddressesAssumption ==
  \A n \in Networks : HostsOf[n] \subseteq AddressesOf[n] /\ AddressesOf[n] \subseteq Addresses

VARIABLES
  nas,       \* table nas
  saving,    \* API sessions between their SELECT and their commit
  used       \* ids that were given out

clientVars == <<nas, saving, used>>
vars == <<eventVars, clientVars>>

Session ==
  [loaded : NasRow \cup {None},      \* None in a POST
   row    : NasRow \cup {None},      \* None in a DELETE
   event  : ClearClient \cup {None}]

\* n is inside m, or is m (the operator <<= on inet).
Within(n, m) == AddressesOf[n] \subseteq AddressesOf[m]

Free == Cardinality(saving) < MaxSessions

\* The primary key and the unique constraint on network.
Storable(table) ==
  \A r, q \in table : r.id = q.id \/ r.network = q.network => r = q

-----------------------------------------------------------------------------
\* POST: refused for a network inside one that exists (with two of those, by an exception).
BeginPostRadiusClient(row) ==
  /\ Free
  /\ row.id \notin used
  /\ ~ \E r \in nas : Within(row.network, r.network)
  /\ saving' = saving \cup {[loaded |-> None, row |-> row, event |-> None]}
  /\ used' = used \cup {row.id}
  /\ UNCHANGED <<nas, eventVars>>

CommitPostRadiusClient(s) ==
  /\ s.loaded = None
  /\ saving' = saving \ {s}
  /\ nas' = IF Storable(nas \cup {s.row}) THEN nas \cup {s.row} ELSE nas
  /\ UNCHANGED <<used, eventVars>>

\* Fault: the payload is left out.
ClearAnonymous(network) == [command |-> "CLEAR_CLIENT", payload |-> None, created |-> clock + 1]

Clear(network) == [command |-> "CLEAR_CLIENT", payload |-> network, created |-> clock + 1]

\* Fault: a changed secret posts no event.
BeginPutSilently(loaded, row) ==
  /\ Free
  /\ row.id = loaded.id /\ row # loaded /\ (NetworkFixed => row.network = loaded.network)
  /\ saving' = saving \cup {[loaded |-> loaded, row |-> row, event |-> None]}
  /\ UNCHANGED <<nas, used, eventVars>>

\* PUT: the row is loaded and compared; an event only if the secret is another, and for the
\* network the row then has.
BeginPutRadiusClient(loaded, row) ==
  /\ Free
  /\ row.id = loaded.id /\ row # loaded /\ (NetworkFixed => row.network = loaded.network)
  /\ LET event == IF row.secret # loaded.secret THEN Clear(row.network) ELSE None
     IN /\ saving' = saving \cup {[loaded |-> loaded, row |-> row, event |-> event]}
        /\ IF event # None THEN Begin(event) ELSE UNCHANGED eventVars
  /\ UNCHANGED <<nas, used>>

\* DELETE.
BeginDeleteRadiusClient(loaded) ==
  /\ Free
  /\ saving' = saving \cup {[loaded |-> loaded, row |-> None, event |-> Clear(loaded.network)]}
  /\ Begin(Clear(loaded.network))
  /\ UNCHANGED <<nas, used>>

\* What the flush of a PUT makes of a row: the columns that were changed.
Written(s, r) ==
  [r EXCEPT !.network = IF s.row.network # s.loaded.network THEN s.row.network ELSE r.network,
            !.secret = IF s.row.secret # s.loaded.secret THEN s.row.secret ELSE r.secret]

\* The commit of a PUT or a DELETE.  The UPDATE of a row that is gone, or that would repeat
\* a network, rolls everything back; the DELETE of a row that is gone does not.
CommitRadiusClient(s) ==
  /\ s.loaded # None
  /\ saving' = saving \ {s}
  /\ LET olds == {r \in nas : r.id = s.loaded.id}
         rows == (nas \ olds) \cup (IF s.row = None THEN {} ELSE {Written(s, r) : r \in olds})
         succeeds == s.row = None \/ (olds # {} /\ Storable(rows))
     IN /\ nas' = IF succeeds THEN rows ELSE nas
        /\ IF s.event = None THEN UNCHANGED eventVars
           ELSE IF succeeds THEN Commit(s.event) ELSE Rollback(s.event)
  /\ UNCHANGED used

\* The API process dies with the session.
AbandonRadiusClient(s) ==
  /\ saving' = saving \ {s}
  /\ IF s.event = None THEN UNCHANGED eventVars ELSE Rollback(s.event)
  /\ UNCHANGED <<nas, used>>

\* SELECT ... WHERE address <<= network; of several rows, the first the database returns.
\* The columns of the client are read by a SELECT each, here by one.
LookUpClient(a) ==
  \E r \in nas : a \in AddressesOf[r.network] /\ ReadClient(a, r) /\ UNCHANGED clientVars

\* POST and DELETE of /debug, DELETE of /debug/logs.
BeginDebug(e) == e \in DebugStart \cup DebugOther /\ Begin(e) /\ UNCHANGED clientVars

EndDebug(e) ==
  /\ e \in DebugStart \cup DebugOther
  /\ Commit(e) \/ Rollback(e)
  /\ UNCHANGED clientVars

-----------------------------------------------------------------------------
Init ==
  /\ EventInit
  /\ nas = {} /\ saving = {} /\ used = {}

DebugRequests(at) ==
  [command : {"DEBUG_START"}, payload : Conditions, created : {at}]
    \cup [command : {"DEBUG_STOP", "DEBUG_CLEAR"}, payload : {None}, created : {at}]

Next ==
  \/ \E row \in NasRow : BeginPostRadiusClient(row)
  \/ \E loaded \in nas, row \in NasRow : BeginPutRadiusClient(loaded, row)
  \/ \E loaded \in nas : BeginDeleteRadiusClient(loaded)
  \/ \E s \in saving :
       CommitPostRadiusClient(s) \/ CommitRadiusClient(s) \/ AbandonRadiusClient(s)
  \/ \E a \in Addresses : LookUpClient(a)
  \/ \E e \in DebugRequests(clock + 1) : BeginDebug(e)
  \/ \E e \in posting : EndDebug(e)
  \/ (PruneRadiusAdminEvents \/ RadiusNext \/ SidecarNext) /\ UNCHANGED clientVars

\* The sidecar and FreeRADIUS run under a supervisor that restarts them, and the event loop
\* resumes the sidecar after a statement, an answer of radmin or a sleep.
Fairness ==
  /\ WF_vars(WorkerStep /\ UNCHANGED clientVars)
  /\ WF_vars(WorkerStarts /\ UNCHANGED clientVars)
  /\ WF_vars(RadiusStarts /\ UNCHANGED clientVars)
  /\ WF_vars(RadminExits /\ UNCHANGED clientVars)

Spec == Init /\ [][Next]_vars /\ Fairness

-----------------------------------------------------------------------------
(* Properties *)

ClientTypeOK ==
  /\ nas \subseteq NasRow /\ saving \subseteq Session /\ used \subseteq ClientIds
  /\ Storable(nas)

\* What FreeRADIUS has cached of an address is not what the table says any more: the client
\* is gone, or has another secret.
Stale(a) ==
  LET c == radius.cached[a]
  IN c # None /\ ~ \E r \in nas : r.id = c.id /\ r.secret = c.secret

\* A cached client whose secret was changed, or that was deleted, is one whose address a
\* committed event asks to clear and no command has cleared since: a PUT or DELETE and its
\* event are one transaction, and names the addresses under which the client was cached.
StaleClientIsDue ==
  \A a \in Addresses :
    Stale(a) /\ a \in HostsOf[radius.cached[a].network] => a \in due
=============================================================================
