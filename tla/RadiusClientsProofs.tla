------------------------ MODULE RadiusClientsProofs -------------------------
(***************************************************************************)
(* Theorems about RadiusClients and the AdminEvents it is built on, for any *)
(* clients, networks, secrets, events, transactions and failures.          *)
(*                                                                         *)
(* The events come first.  Their invariant relates the times of the events *)
(* that are being written, that are in the table and that the sidecar      *)
(* holds in its hands (TimesInv), what it holds to the step it is at       *)
(* (WorkerInv), both to what it has done (ExecutedInv) and to what it may  *)
(* have missed (MissedInv).  What the reconciliation looked up is a switch  *)
(* of the debugging, and only steps of a switch follow (RoundInv).         *)
(*                                                                         *)
(* RadiusClients then is AdminEvents as far as events go, and where no PUT *)
(* changes a network, what FreeRADIUS still has of a changed or deleted    *)
(* client is on its way to being cleared.                                  *)
(***************************************************************************)
EXTENDS RadiusClients, TLAPS

\* Steps of the sidecar between two events.
Between == {"down", "setup", "poll", "execute"}

\* An event in hand is the first of those left, or is the latest switch of the debugging,
\* looked up when none was left.
WorkerInv ==
  /\ worker.pc \in Between <=> worker.current = None
  /\ worker.pc \in {"down", "setup", "poll"} => worker.batch = {}
  /\ worker.pc \notin {"down", "setup", "poll"} => worker.last # None
  /\ worker.current # None => worker.current \in worker.batch \/ worker.batch = {}
  /\ worker.pc \in {"reset", "set"} => worker.current.command = "DEBUG_START"

InHand == worker.current # None /\ worker.current \in worker.batch

Everywhere == posting \cup events \cup worker.batch

\* Each transaction has a time of its own, and an event is committed once.
TimesInv ==
  /\ \A e \in Everywhere : e.created <= clock
  /\ \A e, f \in Everywhere : e.created = f.created => e = f
  /\ posting \cap (events \cup worker.batch) = {}
  /\ worker.last # None => worker.last <= clock
  /\ since <= clock
  /\ \A e \in worker.batch : worker.last < e.created
  /\ InHand => \A e \in worker.batch : worker.current.created <= e.created

\* What was carried out is no later than last_checked, but for the event in hand.
ExecutedInv ==
  /\ ExecutedInOrder
  /\ \A i \in 1 .. Len(executed) : executed[i] <= clock
  /\ worker.last # None =>
       \A i \in 1 .. Len(executed) :
         executed[i] <= worker.last \/ (InHand /\ executed[i] <= worker.current.created)
  /\ InHand => WasExecuted(worker.current)

Excused(e) == e.created \in overlapped \/ e.created <= since

\* A transaction that is still open was overlapped, unless none has begun since.
MissedInv ==
  /\ \A e \in posting : e.created = clock \/ e.created \in overlapped
  /\ worker.last # None => \A e \in posting : e.created <= worker.last => Excused(e)
  /\ \A e \in events, f \in worker.batch :
       e \notin worker.batch /\ worker.last < e.created /\ e.created < f.created => Excused(e)
  /\ MissedOnlyIfOverlapped

EventInv == EventTypeOK /\ WorkerInv /\ TimesInv /\ ExecutedInv /\ MissedInv

-----------------------------------------------------------------------------
(* Types *)

\* The fields of an event.
LEMMA EventFields ==
  ASSUME NEW e \in Event
  PROVE  /\ e.created \in Nat /\ e # None
         /\ e.command = "DEBUG_START" => e.payload \in Conditions
         /\ Hosts(e) \subseteq Addresses
         /\ StepOf(e) \in WorkerSteps \ Between
         /\ StepOf(e) \in {"reset", "set"} => e.command = "DEBUG_START"
  BY EventNoneAssumption, NetworksAssumption
     DEF Event, DebugStart, DebugOther, ClearClient, Hosts, StepOf, WorkerSteps, Between

\* The sidecar that is back from a command.
LEMMA DoneType ==
  ASSUME worker \in Worker, WorkerInv, worker.current # None
  PROVE  /\ Done(worker) \in Worker
         /\ Done(worker).current = None
         /\ InHand => /\ Done(worker).pc = "execute" /\ Done(worker).last = worker.current.created
                      /\ Done(worker).batch = worker.batch \ {worker.current}
         /\ ~ InHand => /\ Done(worker).pc = "poll" /\ Done(worker).last = worker.last
                        /\ Done(worker).batch = worker.batch /\ worker.batch = {}
<1>1. worker.current \in Event /\ worker.current.created \in Nat
  BY EventFields DEF Worker
<1> QED
  BY <1>1 DEF Done, Worker, WorkerSteps, InHand, WorkerInv

LEMMA RadiusTypes ==
  /\ NoClients \in [Addresses -> Clients \cup {None}]
  /\ EmptyRadius \in Radius
  /\ [EmptyRadius EXCEPT !.up = FALSE] \in Radius
  BY DEF NoClients, EmptyRadius, Radius

LEMMA StoppedType == Stopped \in Worker
  BY DEF Stopped, Worker, WorkerSteps

\* What a step of the sidecar does to itself, in one of six ways.
WorkerBegins == worker.pc = "down" /\ worker' = [Stopped EXCEPT !.pc = "setup"]
WorkerEnds == worker' = Stopped

\* It stays with the event in hand, or between two events.
WorkerGoesOn ==
  /\ worker' \in Worker /\ worker'.last = worker.last /\ worker'.batch = worker.batch
  /\ worker'.current = worker.current
  /\ worker.current = None =>
       /\ worker'.pc \in Between \ {"down"}
       /\ worker'.pc \in {"setup", "poll"} => worker.batch = {}
       /\ worker'.pc = "execute" => worker.last # None
  /\ worker.current # None => worker'.pc \notin Between
  /\ worker'.pc \in {"reset", "set"} => worker.current.command = "DEBUG_START"

\* It is through with the command of the event in hand.
WorkerIsDone == worker.current # None /\ worker' = Done(worker)

\* It looks the latest switch up.
WorkerLooks ==
  /\ worker.pc = "execute" /\ worker.batch = {}
  /\ \E e \in events : worker' = [worker EXCEPT !.pc = "show", !.current = e]

\* An exception ends the reconciliation.
WorkerGivesUp ==
  /\ worker.current # None /\ worker.current \notin worker.batch
  /\ worker' = [worker EXCEPT !.pc = "setup", !.current = None]

Quiet ==
  WorkerBegins \/ WorkerEnds \/ WorkerGoesOn \/ WorkerIsDone \/ WorkerLooks \/ WorkerGivesUp

\* Every step of the sidecar but Poll and TakeEvent is one of the six.
LEMMA QuietStep ==
  ASSUME EventTypeOK, WorkerInv,
         \/ WorkerStarts \/ WorkerCrashes \/ RadminSetup \/ Reconnect \/ ReadLatest \/ Show
         \/ Terminate \/ ClearHost \/ ClearedHosts
         \/ ResetDebug \/ SetDebug \/ StopDebug \/ TruncateTrace \/ CommandRaises
  PROVE  Quiet /\ UNCHANGED <<apiVars, events, executed, since>>
<1>0. worker \in Worker
  BY DEF EventTypeOK
<1> USE DEF Quiet
<1>1. CASE WorkerStarts
  BY <1>1 DEF WorkerStarts, WorkerBegins
<1>2. CASE WorkerCrashes
  BY <1>2 DEF WorkerCrashes, WorkerEnds
<1>3. CASE RadminSetup \/ Reconnect
  <2>1. WorkerGoesOn
    BY <1>0, <1>3 DEF RadminSetup, Reconnect, WorkerGoesOn, Worker, WorkerSteps, Between, WorkerInv
  <2> QED
    BY <1>3, <2>1 DEF RadminSetup, Reconnect
<1>4. CASE ReadLatest
  <2>1. CASE Switches = {}
    <3>1. WorkerGoesOn
      BY <1>0, <1>4, <2>1
         DEF ReadLatest, WorkerGoesOn, Worker, WorkerSteps, Between, WorkerInv
    <3> QED
      BY <1>4, <3>1 DEF ReadLatest
  <2>2. CASE Switches # {}
    BY <1>4, <2>2 DEF ReadLatest, WorkerLooks, Switches
  <2> QED
    BY <2>1, <2>2
<1>5. CASE Show
  <2>1. worker.current \in Event
    BY <1>0, <1>5 DEF Show, WorkerInv, Worker, Between
  <2>2. worker.current # None /\ worker.pc = "show"
    BY <2>1, EventFields, <1>5 DEF Show
  <2>3. CASE worker' = [worker EXCEPT !.pc = StepOf(worker.current)]
    <3>1. WorkerGoesOn
      BY <1>0, <2>1, <2>2, <2>3, EventFields DEF WorkerGoesOn, Worker
    <3> QED
      BY <1>5, <3>1 DEF Show
  <2> QED
    BY <1>5, <2>2, <2>3 DEF Show, WorkerIsDone
<1>6. CASE Terminate \/ ClearedHosts \/ SetDebug \/ StopDebug \/ TruncateTrace
  <2>1. worker.current # None
    BY <1>6 DEF Terminate, ClearedHosts, SetDebug, StopDebug, TruncateTrace, WorkerInv, Between
  <2> QED
    BY <1>6, <2>1
       DEF Terminate, ClearedHosts, SetDebug, StopDebug, TruncateTrace, WorkerIsDone
<1>7. CASE ClearHost
  <2>1. WorkerGoesOn
    BY <1>0, <1>7 DEF ClearHost, WorkerGoesOn, Worker, WorkerSteps, Between, WorkerInv
  <2> QED
    BY <1>7, <2>1 DEF ClearHost
<1>8. CASE ResetDebug
  <2>1. WorkerGoesOn
    BY <1>0, <1>8 DEF ResetDebug, WorkerGoesOn, Worker, WorkerSteps, Between, WorkerInv
  <2> QED
    BY <1>8, <2>1 DEF ResetDebug
<1>9. CASE CommandRaises
  <2>1. worker.current # None
    BY <1>9 DEF CommandRaises, WorkerInv, Between
  <2> QED
    BY <1>9, <2>1 DEF CommandRaises, WorkerIsDone, WorkerGivesUp
<1> QED
  BY <1>1, <1>2, <1>3, <1>4, <1>5, <1>6, <1>7, <1>8, <1>9

\* What it is about after such a step.
LEMMA QuietWorker ==
  ASSUME EventTypeOK, WorkerInv, Quiet
  PROVE  /\ worker' \in Worker /\ WorkerInv'
         /\ \/ worker'.last = None /\ worker'.batch = {} /\ worker'.current = None
            \/ /\ worker'.last = worker.last /\ worker'.batch = worker.batch
               /\ worker'.current = worker.current
            \/ /\ InHand /\ worker'.last = worker.current.created
               /\ worker'.batch = worker.batch \ {worker.current} /\ worker'.current = None
            \/ /\ ~ InHand /\ worker'.last = worker.last /\ worker'.batch = {}
               /\ worker.batch = {}
<1>0. worker \in Worker /\ events \subseteq Event
  BY DEF EventTypeOK
<1>1. CASE WorkerBegins
  BY <1>1, StoppedType DEF WorkerBegins, Stopped, WorkerInv, Between, Worker, WorkerSteps
<1>2. CASE WorkerEnds
  BY <1>2, StoppedType DEF WorkerEnds, Stopped, WorkerInv, Between
<1>3. CASE WorkerGoesOn
  BY <1>0, <1>3 DEF WorkerGoesOn, WorkerInv, Between
<1>4. CASE WorkerIsDone
  <2>1. worker.current \in Event /\ worker.current.created # None
    BY <1>0, <1>4, EventFields, EventNoneAssumption DEF WorkerIsDone, Worker
  <2>2. worker' \in Worker /\ worker'.current = None
    BY <1>0, <1>4, DoneType DEF WorkerIsDone
  <2>3. CASE InHand
    <3>1. /\ worker'.pc = "execute" /\ worker'.last = worker.current.created
          /\ worker'.batch = worker.batch \ {worker.current}
      BY <1>0, <1>4, <2>3, DoneType DEF WorkerIsDone
    <3>2. WorkerInv'
      BY <2>1, <2>2, <3>1 DEF WorkerInv, Between
    <3> QED
      BY <2>2, <2>3, <3>1, <3>2
  <2>4. CASE ~ InHand
    <3>1. /\ worker'.pc = "poll" /\ worker'.last = worker.last
          /\ worker'.batch = worker.batch /\ worker.batch = {}
      BY <1>0, <1>4, <2>4, DoneType DEF WorkerIsDone
    <3>2. WorkerInv'
      BY <2>2, <3>1 DEF WorkerInv, Between
    <3> QED
      BY <2>2, <2>4, <3>1, <3>2
  <2> QED
    BY <2>3, <2>4
<1>5. CASE WorkerLooks
  <2>1. PICK e \in events : worker' = [worker EXCEPT !.pc = "show", !.current = e]
    BY <1>5 DEF WorkerLooks
  <2>2. e \in Event /\ e # None
    BY <1>0, EventFields
  <2>3. /\ worker' \in Worker /\ worker'.pc = "show" /\ worker'.current = e
        /\ worker'.last = worker.last /\ worker'.batch = worker.batch /\ worker.batch = {}
        /\ worker.last # None /\ worker.current = None
    BY <1>0, <1>5, <2>1, <2>2 DEF WorkerLooks, Worker, WorkerSteps, WorkerInv, Between
  <2> QED
    BY <2>2, <2>3 DEF WorkerInv, Between, InHand
<1>6. CASE WorkerGivesUp
  <2>1. /\ worker' \in Worker /\ worker'.pc = "setup" /\ worker'.current = None
        /\ worker'.last = worker.last /\ worker'.batch = worker.batch /\ worker.batch = {}
    BY <1>0, <1>6 DEF WorkerGivesUp, Worker, WorkerSteps, WorkerInv
  <2> QED
    BY <1>6, <2>1 DEF WorkerInv, Between, InHand, WorkerGivesUp
<1> QED
  BY <1>1, <1>2, <1>3, <1>4, <1>5, <1>6 DEF Quiet

-----------------------------------------------------------------------------
(* Times, order and what is missed *)

\* The parts of TimesInv and its like speak of numbers.
LEMMA TimesAreNumbers ==
  ASSUME EventTypeOK
  PROVE  /\ clock \in Nat /\ since \in Nat
         /\ worker.last \in Nat \cup {None}
         /\ \A e \in Everywhere : e.created \in Nat
         /\ worker.current # None => worker.current.created \in Nat
         /\ executed \in Seq(Nat)
         /\ \A i \in 1 .. Len(executed) : executed[i] \in Nat
<1>1. worker \in Worker /\ posting \subseteq Event /\ events \subseteq Event
  BY DEF EventTypeOK
<1>2. worker.batch \subseteq Event /\ worker.current \in Event \cup {None}
  BY <1>1 DEF Worker
<1>3. clock \in Nat /\ since \in Nat /\ executed \in Seq(Nat) /\ worker.last \in Nat \cup {None}
  BY <1>1 DEF EventTypeOK, Worker
<1> QED
  BY <1>1, <1>2, <1>3, EventFields DEF Everywhere

\* When the sidecar stops, or forgets what it was about to look up, nothing is in hand.
LEMMA QuietKeeps ==
  ASSUME EventInv, Quiet, UNCHANGED <<apiVars, events, executed, since>>
  PROVE  TimesInv' /\ ExecutedInv' /\ MissedInv'
<1> DEFINE w == worker'
<1>0. /\ EventTypeOK /\ WorkerInv /\ TimesInv /\ ExecutedInv /\ MissedInv
      /\ UNCHANGED <<clock, posting, overlapped, events, executed, since>>
  BY DEF EventInv, apiVars
<1>1. /\ clock \in Nat /\ since \in Nat /\ worker.last \in Nat \cup {None}
      /\ \A e \in Everywhere : e.created \in Nat
      /\ worker.current # None => worker.current.created \in Nat
      /\ \A i \in 1 .. Len(executed) : executed[i] \in Nat
  BY <1>0, TimesAreNumbers
<1>2. CASE w.last = None /\ w.batch = {} /\ w.current = None
  <2>1. TimesInv'
    BY <1>0, <1>2 DEF TimesInv, Everywhere, InHand
  <2>2. ExecutedInv'
    BY <1>0, <1>2 DEF ExecutedInv, ExecutedInOrder, InHand
  <2>3. MissedInv'
    BY <1>0, <1>2 DEF MissedInv, MissedOnlyIfOverlapped
  <2> QED
    BY <2>1, <2>2, <2>3
<1>3. CASE w.last = worker.last /\ w.batch = worker.batch /\ w.current = worker.current
  <2>1. TimesInv'
    BY <1>0, <1>3 DEF TimesInv, Everywhere, InHand
  <2>2. ExecutedInv'
    BY <1>0, <1>3 DEF ExecutedInv, ExecutedInOrder, InHand, WasExecuted
  <2>3. MissedInv'
    BY <1>0, <1>3 DEF MissedInv, MissedOnlyIfOverlapped, WasExecuted, Excused
  <2> QED
    BY <2>1, <2>2, <2>3
<1>4. CASE /\ InHand /\ w.last = worker.current.created
           /\ w.batch = worker.batch \ {worker.current} /\ w.current = None
  <2> DEFINE c == worker.current
  <2>1. /\ c \in worker.batch /\ c \in Everywhere /\ c.created \in Nat
        /\ c.created <= clock /\ worker.last # None /\ worker.last < c.created
        /\ \A e \in worker.batch : c.created <= e.created
        /\ \A e \in worker.batch : c.created = e.created => e = c
    BY <1>0, <1>1, <1>4 DEF InHand, TimesInv, Everywhere, WorkerInv
  <2>2. ~ InHand'
    BY <1>4 DEF InHand
  <2>3. TimesInv'
    <3>1. \A e \in w.batch : e \in Everywhere /\ c.created < e.created
      BY <1>1, <1>4, <2>1 DEF Everywhere
    <3> QED
      BY <1>0, <1>4, <2>1, <2>2, <3>1 DEF TimesInv, Everywhere
  <2>4. ExecutedInv'
    <3>1. \A i \in 1 .. Len(executed) : executed[i] <= c.created
      BY <1>0, <1>1, <2>1 DEF ExecutedInv
    <3> QED
      BY <1>0, <1>4, <2>2, <3>1 DEF ExecutedInv, ExecutedInOrder
  <2>5. MissedInv'
    <3>1. ASSUME NEW e \in posting, e.created <= c.created
          PROVE  Excused(e)
      <4>1. e.created # c.created /\ e.created \in Nat
        BY <1>0, <1>1, <2>1 DEF TimesInv, Everywhere
      <4>2. e.created # clock
        BY <1>1, <2>1, <3>1, <4>1
      <4> QED
        BY <1>0, <4>2 DEF MissedInv, Excused
    <3>2. ASSUME NEW e \in events, e.created <= c.created, e.created > worker.last
          PROVE  e = c \/ Excused(e)
      <4>1. CASE e \in worker.batch
        BY <1>0, <1>1, <2>1, <3>2, <4>1 DEF Everywhere
      <4>2. CASE e \notin worker.batch /\ e.created < c.created
        BY <1>0, <2>1, <3>2, <4>2 DEF MissedInv
      <4>3. CASE e.created = c.created
        BY <1>0, <2>1, <4>3 DEF TimesInv, Everywhere
      <4> QED
        BY <1>1, <2>1, <3>2, <4>1, <4>2, <4>3 DEF Everywhere
    <3>3. WasExecuted(c)
      BY <1>0, <1>4 DEF ExecutedInv
    <3>4. MissedOnlyIfOverlapped'
      <4>1. ASSUME NEW e \in events, e.created <= c.created
            PROVE  WasExecuted(e) \/ e.created \in overlapped \/ e.created <= since
        <5>1. CASE e.created <= worker.last
          BY <1>0, <2>1, <5>1 DEF MissedInv, MissedOnlyIfOverlapped
        <5>2. CASE e.created > worker.last
          BY <3>2, <3>3, <4>1, <5>2 DEF Excused
        <5> QED
          BY <1>1, <2>1, <5>1, <5>2 DEF Everywhere
      <4> QED
        BY <1>0, <1>4, <4>1 DEF MissedOnlyIfOverlapped, WasExecuted
    <3>5. ASSUME NEW e \in events, NEW f \in w.batch, e \notin w.batch,
                 c.created < e.created, e.created < f.created
          PROVE  Excused(e)
      <4>1. f \in worker.batch /\ e # c /\ e \notin worker.batch
        BY <1>1, <1>4, <2>1, <3>5
      <4>2. worker.last < e.created
        BY <1>1, <2>1, <3>5 DEF Everywhere
      <4> QED
        BY <1>0, <3>5, <4>1, <4>2 DEF MissedInv
    <3> QED
      BY <1>0, <1>4, <3>1, <3>4, <3>5 DEF MissedInv, Excused
  <2> QED
    BY <2>3, <2>4, <2>5
<1>5. CASE ~ InHand /\ w.last = worker.last /\ w.batch = {} /\ worker.batch = {}
  <2>1. ~ InHand'
    BY <1>5 DEF InHand
  <2>2. TimesInv'
    BY <1>0, <1>5, <2>1 DEF TimesInv, Everywhere
  <2>3. ExecutedInv'
    BY <1>0, <1>5, <2>1 DEF ExecutedInv, ExecutedInOrder
  <2>4. MissedInv'
    BY <1>0, <1>5 DEF MissedInv, MissedOnlyIfOverlapped, WasExecuted, Excused
  <2> QED
    BY <2>2, <2>3, <2>4
<1> QED
  BY <1>0, <1>2, <1>3, <1>4, <1>5, QuietWorker

\* A poll takes what is later than last_checked: nothing, when that is the time of day.
LEMMA PollStep ==
  ASSUME EventInv, Poll
  PROVE  worker' \in Worker /\ WorkerInv' /\ TimesInv' /\ ExecutedInv' /\ MissedInv'
<1> DEFINE last == IF worker.last = None THEN clock ELSE worker.last
           batch == {e \in events : e.created > last}
<1>0. /\ EventTypeOK /\ WorkerInv /\ TimesInv /\ ExecutedInv /\ MissedInv
      /\ worker \in Worker /\ events \subseteq Event
  BY DEF EventInv, EventTypeOK
<1>1. /\ clock \in Nat /\ since \in Nat /\ worker.last \in Nat \cup {None}
      /\ \A e \in Everywhere : e.created \in Nat
      /\ \A i \in 1 .. Len(executed) : executed[i] \in Nat
  BY <1>0, TimesAreNumbers
<1>2. /\ UNCHANGED <<clock, posting, overlapped, events, executed>>
      /\ worker.pc = "poll" /\ worker.current = None /\ worker.batch = {}
      /\ worker' = [worker EXCEPT !.pc = "execute", !.last = last, !.batch = batch]
      /\ since' = IF worker.last = None THEN last ELSE since
  BY <1>0 DEF Poll, apiVars, WorkerInv, Between
<1>3. last \in Nat /\ last <= clock /\ last # None
  BY <1>0, <1>1, EventNoneAssumption DEF TimesInv
<1>4. /\ worker' \in Worker /\ worker'.pc = "execute" /\ worker'.last = last
      /\ worker'.batch = batch /\ worker'.current = None
  BY <1>0, <1>2, <1>3 DEF Worker, WorkerSteps
<1>5. batch \subseteq events /\ \A e \in events : e \in batch <=> e.created > last
  OBVIOUS
<1>6. /\ worker.last = None => last = clock /\ since' = clock
      /\ worker.last # None => last = worker.last /\ since' = since
  BY <1>2
<1> HIDE DEF last, batch
<1>7. ~ InHand'
  BY <1>4 DEF InHand
<1>8. WorkerInv'
  BY <1>3, <1>4 DEF WorkerInv, Between
<1>9. TimesInv'
  BY <1>0, <1>1, <1>2, <1>3, <1>4, <1>5, <1>6, <1>7 DEF TimesInv, Everywhere
<1>10. ExecutedInv'
  <2>1. ASSUME NEW i \in 1 .. Len(executed)
        PROVE  executed[i] <= last
    BY <1>0, <1>1, <1>2, <1>6, <2>1 DEF ExecutedInv, InHand
  <2> QED
    BY <1>0, <1>2, <1>4, <1>7, <2>1 DEF ExecutedInv, ExecutedInOrder
<1>11. MissedInv'
  <2>1. CASE worker.last = None
    <3>1. \A e \in posting \cup events : e.created <= since'
      BY <1>0, <1>6, <2>1 DEF TimesInv, Everywhere
    <3> QED
      BY <1>0, <1>2, <1>4, <1>5, <3>1 DEF MissedInv, MissedOnlyIfOverlapped, Excused
  <2>2. CASE worker.last # None
    <3>1. \A e \in events : e \notin batch => ~ last < e.created
      BY <1>1, <1>3, <1>5 DEF Everywhere
    <3> QED
      BY <1>0, <1>2, <1>4, <1>6, <2>2, <3>1
         DEF MissedInv, MissedOnlyIfOverlapped, WasExecuted, Excused
  <2> QED
    BY <2>1, <2>2
<1> QED
  BY <1>4, <1>8, <1>9, <1>10, <1>11

\* The event taken is later than all that were carried out.
LEMMA TakeStep ==
  ASSUME EventInv, TakeEvent
  PROVE  /\ worker' \in Worker /\ executed' \in Seq(Nat)
         /\ WorkerInv' /\ TimesInv' /\ ExecutedInv' /\ MissedInv'
<1>0. /\ EventTypeOK /\ WorkerInv /\ TimesInv /\ ExecutedInv /\ MissedInv
      /\ worker \in Worker
  BY DEF EventInv, EventTypeOK
<1>1. /\ clock \in Nat /\ since \in Nat /\ worker.last \in Nat \cup {None}
      /\ \A e \in Everywhere : e.created \in Nat
      /\ executed \in Seq(Nat)
      /\ \A i \in 1 .. Len(executed) : executed[i] \in Nat
  BY <1>0, TimesAreNumbers
<1>2. PICK e \in worker.batch :
        /\ \A f \in worker.batch : e.created <= f.created
        /\ worker' = [worker EXCEPT !.pc = StepOf(e), !.current = e, !.todo = Hosts(e)]
        /\ executed' = Append(executed, e.created)
  BY DEF TakeEvent
<1>3. /\ UNCHANGED <<clock, posting, overlapped, events, since>>
      /\ worker.pc = "execute" /\ worker.current = None /\ worker.last # None
  BY <1>0 DEF TakeEvent, apiVars, WorkerInv, Between
<1>4. /\ e \in Event /\ e # None /\ e \in Everywhere /\ e.created \in Nat
      /\ e.created <= clock /\ worker.last < e.created
      /\ Hosts(e) \subseteq Addresses /\ StepOf(e) \in WorkerSteps \ Between
      /\ StepOf(e) \in {"reset", "set"} => e.command = "DEBUG_START"
  BY <1>0, EventFields DEF Worker, Everywhere, TimesInv
<1>5. /\ worker' \in Worker /\ worker'.pc = StepOf(e) /\ worker'.last = worker.last
      /\ worker'.batch = worker.batch /\ worker'.current = e
  BY <1>0, <1>2, <1>4 DEF Worker
<1>6. InHand'
  BY <1>4, <1>5 DEF InHand
<1>7. WorkerInv'
  BY <1>0, <1>3, <1>4, <1>5 DEF WorkerInv, Between
<1>8. TimesInv'
  BY <1>0, <1>2, <1>3, <1>5 DEF TimesInv, Everywhere
<1>9. /\ executed' \in Seq(Nat) /\ Len(executed') = Len(executed) + 1
      /\ \A i \in 1 .. Len(executed) : executed'[i] = executed[i]
      /\ executed'[Len(executed) + 1] = e.created
  BY <1>1, <1>2, <1>4
<1>10. \A i \in 1 .. Len(executed) : executed[i] < e.created
  BY <1>0, <1>1, <1>3, <1>4 DEF ExecutedInv, InHand
<1>11. ExecutedInv'
  <2>0. Len(executed) \in Nat
    BY <1>1
  <2>1. ASSUME NEW i \in 1 .. Len(executed')
        PROVE  i \in 1 .. Len(executed) \/ i = Len(executed) + 1
    BY <1>9, <2>0
  <2>2. ASSUME NEW i \in 1 .. Len(executed')
        PROVE  executed'[i] <= e.created
    <3>1. CASE i \in 1 .. Len(executed)
      <4>1. executed'[i] = executed[i] /\ executed[i] \in Nat /\ executed[i] < e.created
        BY <1>1, <1>9, <1>10, <3>1
      <4> QED
        BY <1>4, <4>1
    <3>2. CASE i = Len(executed) + 1
      BY <1>4, <1>9, <3>2
    <3> QED
      BY <2>1, <3>1, <3>2
  <2>5. ASSUME NEW i \in 1 .. Len(executed'), NEW j \in 1 .. Len(executed'), i < j
        PROVE  executed'[i] < executed'[j]
    <3>1. i \in 1 .. Len(executed)
      BY <1>9, <2>0, <2>5
    <3>2. CASE j \in 1 .. Len(executed)
      BY <1>0, <1>9, <2>5, <3>1, <3>2 DEF ExecutedInv, ExecutedInOrder
    <3>3. CASE j = Len(executed) + 1
      BY <1>9, <1>10, <3>1, <3>3
    <3> QED
      BY <2>1, <3>2, <3>3
  <2>6. ExecutedInOrder'
    BY <2>5 DEF ExecutedInOrder
  <2>3. \A i \in 1 .. Len(executed') : executed'[i] <= clock'
    <3>1. \A i \in 1 .. Len(executed') : executed'[i] \in Nat
      BY <1>9
    <3> QED
      BY <1>1, <1>3, <1>4, <2>2, <3>1
  <2>4. WasExecuted(worker.current)'
    <3>1. Len(executed) + 1 \in 1 .. Len(executed')
      BY <1>9, <2>0
    <3> QED
      BY <1>5, <1>9, <3>1 DEF WasExecuted
  <2> QED
    BY <1>5, <1>6, <2>2, <2>3, <2>4, <2>6 DEF ExecutedInv
<1>12. MissedInv'
  <2>1. ASSUME NEW g, WasExecuted(g)
        PROVE  WasExecuted(g)'
    <3>1. PICK i \in 1 .. Len(executed) : executed[i] = g.created
      BY <2>1 DEF WasExecuted
    <3>2. i \in 1 .. Len(executed') /\ executed'[i] = g.created
      <4>1. Len(executed) \in Nat
        BY <1>1
      <4> QED
        BY <1>9, <3>1, <4>1
    <3> QED
      BY <3>2 DEF WasExecuted
  <2> QED
    BY <1>0, <1>3, <1>5, <2>1 DEF MissedInv, MissedOnlyIfOverlapped, Excused
<1> QED
  BY <1>5, <1>7, <1>8, <1>9, <1>11, <1>12

-----------------------------------------------------------------------------
(* The other actors *)

\* When the sidecar does nothing, its part of the invariant stays.
LEMMA WorkerKept ==
  ASSUME EventInv, UNCHANGED worker
  PROVE  worker' \in Worker /\ WorkerInv' /\ (InHand' <=> InHand)
  BY DEF EventInv, EventTypeOK, WorkerInv, InHand, Between

\* Steps of FreeRADIUS touch neither the events nor the sidecar.
LEMMA NothingPosted ==
  ASSUME EventInv, UNCHANGED <<apiVars, events, sidecarVars>>
  PROVE  WorkerInv' /\ TimesInv' /\ ExecutedInv' /\ MissedInv'
<1>1. UNCHANGED <<clock, posting, overlapped, events, worker, executed, since>>
  BY DEF apiVars, sidecarVars
<1>2. WorkerInv' /\ (InHand' <=> InHand)
  BY <1>1, WorkerKept
<1>3. TimesInv'
  BY <1>1, <1>2 DEF EventInv, TimesInv, Everywhere
<1>4. ExecutedInv'
  BY <1>1, <1>2 DEF EventInv, ExecutedInv, ExecutedInOrder, WasExecuted
<1>5. MissedInv'
  BY <1>1 DEF EventInv, MissedInv, MissedOnlyIfOverlapped, WasExecuted, Excused
<1> QED
  BY <1>2, <1>3, <1>4, <1>5

\* A new transaction is the latest, and overlaps those that are open.
LEMMA BeginStep ==
  ASSUME EventInv, NEW e \in Event, Begin(e)
  PROVE  EventInv'
<1>0. /\ EventTypeOK /\ WorkerInv /\ TimesInv /\ ExecutedInv /\ MissedInv
  BY DEF EventInv
<1>1. /\ clock \in Nat /\ since \in Nat /\ worker.last \in Nat \cup {None}
      /\ \A f \in Everywhere : f.created \in Nat
      /\ \A i \in 1 .. Len(executed) : executed[i] \in Nat
  BY <1>0, TimesAreNumbers
<1>2. /\ e.created = clock + 1 /\ clock' = clock + 1 /\ posting' = posting \cup {e}
      /\ overlapped' = overlapped \cup {f.created : f \in posting}
      /\ UNCHANGED <<events, worker, executed, since, radmin, radius, due, failures>>
  BY DEF Begin, sidecarVars, radiusVars
<1>3. worker' \in Worker /\ WorkerInv' /\ (InHand' <=> InHand)
  BY <1>2, WorkerKept
<1>4. \A f \in Everywhere : f.created < e.created /\ f # e
  BY <1>0, <1>1, <1>2 DEF TimesInv
<1>5. EventTypeOK'
  <2>1. overlapped' \subseteq Nat
    BY <1>0, <1>1, <1>2 DEF EventTypeOK, Everywhere
  <2> QED
    BY <1>0, <1>1, <1>2, <1>3, <2>1 DEF EventTypeOK
<1>6. Everywhere' = Everywhere \cup {e}
  BY <1>2 DEF Everywhere
<1>7. TimesInv'
  <2>1. \A f \in Everywhere' : f.created <= clock'
    BY <1>0, <1>1, <1>2, <1>6 DEF TimesInv
  <2>2. \A f, g \in Everywhere' : f.created = g.created => f = g
    BY <1>0, <1>1, <1>2, <1>4, <1>6 DEF TimesInv
  <2>3. (posting \cap (events \cup worker.batch) = {})'
    BY <1>0, <1>2, <1>4 DEF TimesInv, Everywhere
  <2>4. worker'.last # None => worker'.last <= clock'
    BY <1>0, <1>1, <1>2 DEF TimesInv
  <2>5. since' <= clock'
    BY <1>0, <1>1, <1>2 DEF TimesInv
  <2> QED
    BY <1>0, <1>2, <1>3, <2>1, <2>2, <2>3, <2>4, <2>5 DEF TimesInv
<1>8. ExecutedInv'
  <2>1. \A i \in 1 .. Len(executed') : executed'[i] <= clock'
    BY <1>0, <1>1, <1>2 DEF ExecutedInv
  <2> QED
    BY <1>0, <1>2, <1>3, <2>1 DEF ExecutedInv, ExecutedInOrder, WasExecuted
<1>9. MissedInv'
  <2>1. \A f \in posting' : f.created = clock' \/ f.created \in overlapped'
    BY <1>2
  <2>2. worker.last # None => ~ e.created <= worker.last
    BY <1>0, <1>1, <1>2 DEF TimesInv
  <2> QED
    BY <1>0, <1>2, <2>1, <2>2 DEF MissedInv, MissedOnlyIfOverlapped, WasExecuted, Excused
<1> QED
  BY <1>3, <1>5, <1>7, <1>8, <1>9 DEF EventInv

\* A transaction that ends was overlapped, or is the last that began.
LEMMA CommitStep ==
  ASSUME EventInv, NEW e, Commit(e)
  PROVE  EventInv'
<1>0. /\ EventTypeOK /\ WorkerInv /\ TimesInv /\ ExecutedInv /\ MissedInv
  BY DEF EventInv
<1>1. /\ clock \in Nat /\ since \in Nat /\ worker.last \in Nat \cup {None}
      /\ \A f \in Everywhere : f.created \in Nat
  BY <1>0, TimesAreNumbers
<1>2. /\ e \in posting /\ posting' = posting \ {e} /\ events' = events \cup {e}
      /\ due' = due \cup Hosts(e)
      /\ UNCHANGED <<clock, overlapped, worker, executed, since, radmin, radius, failures>>
  BY DEF Commit, sidecarVars
<1>3. worker' \in Worker /\ WorkerInv' /\ (InHand' <=> InHand)
  BY <1>2, WorkerKept
<1>4. e \in Event /\ Hosts(e) \subseteq Addresses /\ e \in Everywhere
  BY <1>0, <1>2, EventFields DEF EventTypeOK, Everywhere
<1>5. EventTypeOK'
  BY <1>0, <1>2, <1>3, <1>4 DEF EventTypeOK
<1>6. TimesInv'
  <2>1. Everywhere' = Everywhere
    BY <1>2 DEF Everywhere
  <2>2. e \notin worker.batch
    BY <1>0, <1>2 DEF TimesInv
  <2>3. (posting \cap (events \cup worker.batch) = {})'
    BY <1>0, <1>2, <2>2 DEF TimesInv
  <2> QED
    BY <1>0, <1>2, <1>3, <2>1, <2>3 DEF TimesInv
<1>7. ExecutedInv'
  BY <1>0, <1>2, <1>3 DEF ExecutedInv, ExecutedInOrder, WasExecuted
<1>8. MissedInv'
  <2>1. ASSUME NEW f \in worker.batch, e.created < f.created
        PROVE  Excused(e)
    <3>1. f \in Everywhere /\ f.created <= clock /\ f.created \in Nat /\ e.created \in Nat
      BY <1>0, <1>1, <1>4 DEF Everywhere, TimesInv
    <3>2. e.created # clock
      BY <1>1, <2>1, <3>1
    <3> QED
      BY <1>0, <1>2, <3>2 DEF MissedInv, Excused
  <2>2. worker.last # None /\ e.created <= worker.last => Excused(e)
    BY <1>0, <1>2 DEF MissedInv
  <2>3. MissedOnlyIfOverlapped'
    BY <1>0, <1>2, <2>2 DEF MissedInv, MissedOnlyIfOverlapped, WasExecuted, Excused
  <2> QED
    BY <1>0, <1>2, <2>1, <2>3 DEF MissedInv, Excused
<1> QED
  BY <1>3, <1>5, <1>6, <1>7, <1>8 DEF EventInv

\* Fewer events and open transactions are no worse.
LEMMA FewerEvents ==
  ASSUME EventInv, posting' \subseteq posting, events' \subseteq events,
         UNCHANGED <<clock, overlapped, sidecarVars, radiusVars, failures>>
  PROVE  EventInv'
<1>0. /\ EventTypeOK /\ WorkerInv /\ TimesInv /\ ExecutedInv /\ MissedInv
      /\ UNCHANGED <<clock, overlapped, worker, executed, since, radmin, radius, due, failures>>
  BY DEF EventInv, sidecarVars, radiusVars
<1>1. worker' \in Worker /\ WorkerInv' /\ (InHand' <=> InHand)
  BY <1>0, WorkerKept
<1>2. EventTypeOK'
  BY <1>0, <1>1 DEF EventTypeOK
<1>3. TimesInv'
  BY <1>0, <1>1 DEF TimesInv, Everywhere
<1>4. ExecutedInv'
  BY <1>0, <1>1 DEF ExecutedInv, ExecutedInOrder, WasExecuted
<1>5. MissedInv'
  BY <1>0 DEF MissedInv, MissedOnlyIfOverlapped, WasExecuted, Excused
<1> QED
  BY <1>1, <1>2, <1>3, <1>4, <1>5 DEF EventInv

\* FreeRADIUS and radmin stay of their types.
RadiusTypeOK ==
  /\ failures \in Nat /\ due \subseteq Addresses /\ radius \in Radius
  /\ radmin \in {"none", "attached", "lost", "exited"}

LEMMA RadiusStep ==
  ASSUME EventTypeOK,
         RadiusNext \/ (\E a \in Addresses, c \in Clients : ReadClient(a, c))
  PROVE  RadiusTypeOK' /\ UNCHANGED <<apiVars, events, sidecarVars>>
<1> USE DEF RadiusTypeOK
<1>0. RadiusTypeOK
  BY DEF EventTypeOK
<1>1. CASE RadiusCrashes
  BY <1>0, <1>1, RadiusTypes DEF RadiusCrashes, StopsRadius
<1>2. CASE RadiusStarts
  BY <1>0, <1>2, RadiusTypes DEF RadiusStarts
<1>3. CASE RadminExits
  BY <1>0, <1>3 DEF RadminExits
<1>4. ASSUME NEW a \in Addresses, AddClient(a)
      PROVE  RadiusTypeOK' /\ UNCHANGED <<apiVars, events, sidecarVars>>
  BY <1>0, <1>4 DEF AddClient, Radius
<1>5. ASSUME NEW a \in Addresses, ExpireClient(a)
      PROVE  RadiusTypeOK' /\ UNCHANGED <<apiVars, events, sidecarVars>>
  BY <1>0, <1>5 DEF ExpireClient, Radius
<1>6. ASSUME NEW a \in Addresses, NEW c \in Clients, ReadClient(a, c)
      PROVE  RadiusTypeOK' /\ UNCHANGED <<apiVars, events, sidecarVars>>
  BY <1>0, <1>6 DEF ReadClient, Radius
<1> QED
  BY <1>1, <1>2, <1>3, <1>4, <1>5, <1>6 DEF RadiusNext

LEMMA SidecarTypes ==
  ASSUME EventTypeOK, WorkerInv, SidecarNext
  PROVE  RadiusTypeOK'
<1> USE DEF RadiusTypeOK
<1>0. RadiusTypeOK /\ worker \in Worker
  BY DEF EventTypeOK
<1>1. CASE WorkerStarts \/ WorkerCrashes \/ RadminSetup
  BY <1>0, <1>1 DEF WorkerStarts, WorkerCrashes, RadminSetup, radiusVars
<1>2. CASE Poll \/ Reconnect \/ TakeEvent \/ ReadLatest \/ Show \/ ClearedHosts \/ TruncateTrace
           \/ CommandRaises
  BY <1>0, <1>2 DEF Poll, Reconnect, TakeEvent, ReadLatest, Show, ClearedHosts, TruncateTrace,
                    CommandRaises, radiusVars
<1>3. CASE Terminate
  BY <1>0, <1>3, RadiusTypes DEF Terminate, StopsRadius, radiusVars
<1>4. CASE ClearHost
  <2>1. PICK a \in worker.todo :
          /\ Send([radius EXCEPT !.cached[a] = None])
          /\ due' = IF Attached /\ radius.reading[a] = None THEN due \ {a} ELSE due
    BY <1>4 DEF ClearHost
  <2>2. [radius EXCEPT !.cached[a] = None] \in Radius
    BY <1>0 DEF Radius
  <2> QED
    BY <1>0, <1>4, <2>1, <2>2 DEF ClearHost, Send
<1>5. CASE ResetDebug \/ StopDebug
  <2>1. [radius EXCEPT !.condition = None] \in Radius
    BY <1>0 DEF Radius
  <2> QED
    BY <1>0, <1>5, <2>1 DEF ResetDebug, StopDebug, Send
<1>6. CASE SetDebug
  <2>1. worker.current \in Event /\ worker.current.command = "DEBUG_START"
    BY <1>0, <1>6 DEF SetDebug, WorkerInv, Between, Worker
  <2>2. [radius EXCEPT !.condition = worker.current.payload] \in Radius
    BY <1>0, <2>1, EventFields DEF Radius
  <2> QED
    BY <1>0, <1>6, <2>2 DEF SetDebug, Send
<1> QED
  BY <1>1, <1>2, <1>3, <1>4, <1>5, <1>6 DEF SidecarNext, WorkerStep

LEMMA SidecarStep ==
  ASSUME EventInv, SidecarNext
  PROVE  EventInv'
<1>0. EventTypeOK /\ WorkerInv
  BY DEF EventInv
<1>1. RadiusTypeOK'
  BY <1>0, SidecarTypes
<1>2. /\ UNCHANGED <<clock, posting, overlapped, events>>
      /\ since' \in Nat
  BY <1>0 DEF EventTypeOK, SidecarNext, WorkerStep, WorkerStarts, WorkerCrashes, RadminSetup,
     Poll, Reconnect, TakeEvent, ReadLatest, Show, Terminate, ClearHost, ClearedHosts,
     ResetDebug, SetDebug, StopDebug, TruncateTrace, CommandRaises, apiVars
<1>3. /\ worker' \in Worker /\ executed' \in Seq(Nat)
      /\ WorkerInv' /\ TimesInv' /\ ExecutedInv' /\ MissedInv'
  <2>1. CASE Poll
    BY <2>1, <1>0, PollStep DEF Poll, EventTypeOK
  <2>2. CASE TakeEvent
    BY <2>2, TakeStep
  <2>3. CASE ~ Poll /\ ~ TakeEvent
    <3>1. Quiet /\ UNCHANGED <<apiVars, events, executed, since>>
      BY <1>0, <2>3, QuietStep DEF SidecarNext, WorkerStep
    <3> QED
      BY <1>0, <3>1, QuietWorker, QuietKeeps DEF EventTypeOK
  <2> QED
    BY <2>1, <2>2, <2>3
<1> QED
  BY <1>0, <1>1, <1>2, <1>3 DEF EventInv, EventTypeOK, RadiusTypeOK

LEMMA EventInitInv == EventInit => EventInv
<1> SUFFICES ASSUME EventInit PROVE EventInv
  OBVIOUS
<1>1. EventTypeOK
  BY RadiusTypes, StoppedType DEF EventInit, EventTypeOK
<1>2. WorkerInv /\ TimesInv
  BY DEF EventInit, Stopped, WorkerInv, Between, TimesInv, Everywhere, InHand
<1>3. ExecutedInv /\ MissedInv
  BY DEF EventInit, Stopped, ExecutedInv, ExecutedInOrder, InHand, MissedInv,
         MissedOnlyIfOverlapped
<1> QED
  BY <1>1, <1>2, <1>3 DEF EventInv

\* Every step keeps the invariant.
LEMMA EventStep ==
  ASSUME EventInv, [EventNext]_eventVars
  PROVE  EventInv'
<1>1. ASSUME NEW e \in Event, Begin(e)
      PROVE  EventInv'
  BY <1>1, BeginStep
<1>2. ASSUME NEW e \in posting, Commit(e) \/ Rollback(e)
      PROVE  EventInv'
  BY <1>2, CommitStep, FewerEvents DEF Rollback
<1>3. CASE PruneRadiusAdminEvents
  BY <1>3, FewerEvents DEF PruneRadiusAdminEvents, apiVars
<1>4. CASE RadiusNext \/ \E a \in Addresses, c \in Clients : ReadClient(a, c)
  <2>1. EventTypeOK
    BY DEF EventInv
  <2>2. RadiusTypeOK' /\ UNCHANGED <<apiVars, events, sidecarVars>>
    BY <1>4, <2>1, RadiusStep
  <2> QED
    BY <2>1, <2>2, NothingPosted
       DEF EventInv, EventTypeOK, RadiusTypeOK, apiVars, sidecarVars
<1>5. CASE SidecarNext
  BY <1>5, SidecarStep
<1>6. CASE UNCHANGED eventVars
  BY <1>6, NothingPosted
     DEF EventInv, EventTypeOK, eventVars, apiVars, sidecarVars, radiusVars
<1> QED
  BY <1>1, <1>2, <1>3, <1>4, <1>5, <1>6 DEF EventNext

LEMMA EventInvariance == EventSpec => []EventInv
  BY EventStep, EventInitInv, PTL DEF EventSpec

-----------------------------------------------------------------------------
(* The reconciliation of the debugging *)

\* What is looked up switches debugging, so only the steps of a switch come of it.
RoundInv ==
  /\ worker.pc = "show" => worker.current.command \in {"DEBUG_START", "DEBUG_STOP"}
  /\ worker.pc = "stop" => worker.current.command = "DEBUG_STOP"
  /\ worker.pc \in {"terminate", "clear", "truncate"} => worker.current \in worker.batch

\* The step an event begins with, and what the command of the event is then.
LEMMA FirstStep ==
  ASSUME NEW e \in Event
  PROVE  /\ StepOf(e) # "show"
         /\ StepOf(e) = "stop" => e.command = "DEBUG_STOP"
         /\ e.command \in {"DEBUG_START", "DEBUG_STOP"} => StepOf(e) \in {"reset", "stop"}
  BY DEF StepOf, Event, DebugStart, DebugOther, ClearClient

LEMMA RoundStep ==
  ASSUME EventInv, RoundInv, [EventNext]_eventVars
  PROVE  RoundInv'
<1>0. WorkerInv /\ worker \in Worker /\ worker.batch \subseteq Event /\ events \subseteq Event
  BY DEF EventInv, EventTypeOK, Worker
<1>1. CASE UNCHANGED worker
  BY <1>1 DEF RoundInv
<1>2. CASE WorkerStarts \/ WorkerCrashes \/ RadminSetup \/ Reconnect \/ Poll
  <2>1. CASE WorkerStarts \/ WorkerCrashes
    BY <2>1 DEF WorkerStarts, WorkerCrashes, Stopped, RoundInv
  <2>2. CASE RadminSetup \/ Reconnect
    BY <1>0, <2>2 DEF RadminSetup, Reconnect, Worker, RoundInv
  <2>3. CASE Poll
    <3>1. worker'.pc = "execute"
      BY <1>0, <2>3 DEF Poll, Worker
    <3> QED
      BY <3>1 DEF RoundInv
  <2> QED
    BY <1>2, <2>1, <2>2, <2>3
<1>3. CASE TakeEvent
  <2>1. PICK e \in worker.batch :
          worker' = [worker EXCEPT !.pc = StepOf(e), !.current = e, !.todo = Hosts(e)]
    BY <1>3 DEF TakeEvent
  <2>2. worker'.pc = StepOf(e) /\ worker'.current = e /\ worker'.batch = worker.batch
    BY <1>0, <2>1 DEF Worker
  <2> QED
    BY <1>0, <2>1, <2>2, FirstStep DEF RoundInv
<1>4. CASE ReadLatest
  <2>1. CASE worker' = [worker EXCEPT !.pc = "poll"]
    BY <1>0, <2>1 DEF RoundInv, Worker
  <2>2. ASSUME NEW e \in Switches, worker' = [worker EXCEPT !.pc = "show", !.current = e]
        PROVE  RoundInv'
    BY <1>0, <2>2 DEF RoundInv, Worker, Switches
  <2> QED
    BY <1>4, <2>1, <2>2 DEF ReadLatest
<1>5. CASE worker.current # None /\ worker' = Done(worker)
  <2>1. worker'.pc \in {"execute", "poll"}
    BY <1>0, <1>5, DoneType DEF InHand
  <2> QED
    BY <2>1 DEF RoundInv
<1>6. CASE Show
  <2>1. /\ worker.current \in Event /\ worker.current # None
        /\ worker.current.command \in {"DEBUG_START", "DEBUG_STOP"}
    BY <1>0, <1>6 DEF Show, WorkerInv, Worker, Between, RoundInv
  <2>2. CASE worker' = [worker EXCEPT !.pc = StepOf(worker.current)]
    <3>1. worker'.pc = StepOf(worker.current) /\ worker'.current = worker.current
      BY <1>0, <2>2 DEF Worker
    <3> QED
      BY <2>1, <3>1, FirstStep DEF RoundInv
  <2> QED
    BY <1>5, <1>6, <2>1, <2>2 DEF Show
<1>7. CASE Terminate \/ ClearedHosts \/ SetDebug \/ StopDebug \/ TruncateTrace
  BY <1>0, <1>5, <1>7
     DEF Terminate, ClearedHosts, SetDebug, StopDebug, TruncateTrace, WorkerInv, Between
<1>8. CASE ClearHost \/ ResetDebug
  BY <1>0, <1>8 DEF ClearHost, ResetDebug, RoundInv, Worker
<1>9. CASE CommandRaises
  <2>1. CASE worker' = [worker EXCEPT !.pc = "setup", !.current = None]
    BY <1>0, <2>1 DEF RoundInv, Worker
  <2>2. worker.current # None
    BY <1>0, <1>9 DEF CommandRaises, WorkerInv, Between
  <2> QED
    BY <1>5, <1>9, <2>1, <2>2 DEF CommandRaises
<1>10. UNCHANGED worker \/ SidecarNext
  BY DEF EventNext, RadiusNext, Begin, Commit, Rollback, PruneRadiusAdminEvents, ReadClient,
         RadiusCrashes, RadiusStarts, RadminExits, AddClient, ExpireClient,
         eventVars, sidecarVars
<1> QED
  BY <1>1, <1>2, <1>3, <1>4, <1>6, <1>7, <1>8, <1>9, <1>10 DEF SidecarNext, WorkerStep

\* The end of a reconciliation: what "show" found was right, or the command that set it right
\* was carried out, or radmin is gone.
LEMMA RoundEnds ==
  ASSUME EventInv, RoundInv, [EventNext]_eventVars,
         Reconciling, worker'.pc = "poll", radmin' = "attached"
  PROVE  (radius'.condition # None) <=> worker.current.command = "DEBUG_START"
<1>0. /\ WorkerInv /\ worker \in Worker /\ radius \in Radius
      /\ worker.current \in Event /\ worker.pc \notin Between
  BY DEF EventInv, EventTypeOK, WorkerInv, Worker, Reconciling
<1>1. worker.pc # "poll"
  BY <1>0 DEF Between
<1>2. SidecarNext
  BY <1>1 DEF EventNext, RadiusNext, Begin, Commit, Rollback, PruneRadiusAdminEvents, ReadClient,
         RadiusCrashes, RadiusStarts, RadminExits, AddClient, ExpireClient,
         eventVars, sidecarVars
<1>3. Show \/ SetDebug \/ StopDebug
  <2>1. ~ (WorkerStarts \/ RadminSetup \/ Poll \/ Reconnect \/ TakeEvent \/ ReadLatest)
    BY <1>0 DEF WorkerStarts, RadminSetup, Poll, Reconnect, TakeEvent, ReadLatest, Between
  <2>2. ~ WorkerCrashes
    BY DEF WorkerCrashes
  <2>3. ~ (Terminate \/ ClearHost \/ ClearedHosts \/ TruncateTrace)
    BY DEF Terminate, ClearHost, ClearedHosts, TruncateTrace, RoundInv, Reconciling
  <2>4. ~ ResetDebug
    BY <1>0 DEF ResetDebug, Worker
  <2>5. ~ CommandRaises
    BY DEF CommandRaises, Attached, radiusVars
  <2> QED
    BY <1>2, <2>1, <2>2, <2>3, <2>4, <2>5 DEF SidecarNext, WorkerStep
<1>4. CASE Show
  <2>1. worker' # [worker EXCEPT !.pc = StepOf(worker.current)]
    BY <1>0, <1>1, EventFields DEF Worker, Between
  <2> QED
    BY <1>4, <2>1 DEF Show, Attached, radiusVars
<1>5. CASE SetDebug
  <2>1. worker.current.command = "DEBUG_START" /\ worker.current.payload # None
    BY <1>0, <1>5, EventFields, EventNoneAssumption DEF SetDebug, WorkerInv
  <2>2. radius' = [radius EXCEPT !.condition = worker.current.payload]
    BY <1>5 DEF SetDebug, Send, Attached
  <2> QED
    BY <1>0, <2>1, <2>2 DEF Radius
<1>6. CASE StopDebug
  <2>1. radius' = [radius EXCEPT !.condition = None] /\ worker.current.command = "DEBUG_STOP"
    BY <1>6 DEF StopDebug, Send, Attached, RoundInv
  <2> QED
    BY <1>0, <2>1 DEF Radius
<1> QED
  BY <1>3, <1>4, <1>5, <1>6

-----------------------------------------------------------------------------
(* The theorems *)

\* Every reachable state is of its type.
THEOREM EventTypes == EventSpec => []EventTypeOK
  BY EventInvariance, PTL DEF EventInv

\* Events are carried out in the order of their transactions' beginnings, none twice.
THEOREM InOrder == EventSpec => []ExecutedInOrder
<1>1. EventInv => ExecutedInOrder
  BY DEF EventInv, ExecutedInv
<1> QED
  BY <1>1, EventInvariance, PTL

\* An event is missed only if its transaction was overlapped, or the sidecar was not there.
THEOREM NoneMissed == EventSpec => []MissedOnlyIfOverlapped
<1>1. EventInv => MissedOnlyIfOverlapped
  BY DEF EventInv, MissedInv
<1> QED
  BY <1>1, EventInvariance, PTL

\* A reconciliation that ends with radmin attached leaves debugging as what it looked up says.
THEOREM RoundsSettle == EventSpec => ReconciledAsRead
<1>1. EventInit => RoundInv
  BY DEF EventInit, Stopped, RoundInv
<1>2. EventInv /\ RoundInv /\ [EventNext]_eventVars => RoundInv'
  BY RoundStep
<1>3. EventInv /\ RoundInv /\ [EventNext]_eventVars =>
        [Reconciling /\ worker'.pc = "poll" /\ radmin' = "attached" =>
           ((radius'.condition # None) <=> worker.current.command = "DEBUG_START")]_eventVars
  BY RoundEnds
<1> QED
  BY <1>1, <1>2, <1>3, EventInvariance, PTL DEF EventSpec, ReconciledAsRead

-----------------------------------------------------------------------------
(* The table of clients *)

NasRows == {None} \cup NasRow

\* A session of PUT that changes the secret, and one of DELETE, has an event for the network.
SessionOK(s) ==
  /\ s \in Session
  /\ s.loaded = None => s.row # None /\ s.event = None
  /\ s.loaded # None /\ s.row # None =>
       /\ s.row.id = s.loaded.id
       /\ NetworkFixed => s.row.network = s.loaded.network
       /\ s.row.secret # s.loaded.secret => s.event # None /\ s.event.payload = s.row.network
  /\ s.row = None => s.event # None /\ s.event.payload = s.loaded.network

\* The types, with what relates the parts of a session.
TablesInv == ClientTypeOK /\ \A s \in saving : SessionOK(s)

\* The rows that are in the table, in a session or in FreeRADIUS.
Known(r) ==
  \/ r \in nas
  \/ \E s \in saving : r = s.loaded \/ r = s.row
  \/ \E a \in Addresses : r = radius.cached[a] \/ r = radius.reading[a]

\* The network of a client is always the same.
NetworksInv ==
  /\ \A r, q \in NasRow : Known(r) /\ Known(q) /\ r.id = q.id => r.network = q.network
  /\ \A r \in NasRow : Known(r) => r.id \in used

\* No row of the table has the id and the secret of c.
Gone(c) == ~ \E r \in nas : r.id = c.id /\ r.secret = c.secret

\* What FreeRADIUS has of an address, or has read and is about to have, is due if it is gone.
DueInv ==
  \A a \in Addresses :
    /\ radius.cached[a] # None => radius.reading[a] = None
    /\ \A c \in {radius.cached[a], radius.reading[a]} \ {None} :
         Gone(c) /\ a \in HostsOf[c.network] => a \in due

FixedInv == NetworksInv /\ DueInv

-----------------------------------------------------------------------------
(* Types, and the events *)

\* A row that a session writes.
LEMMA WrittenType ==
  ASSUME NEW s, SessionOK(s), s.loaded # None, s.row # None, NEW r \in NasRow
  PROVE  /\ Written(s, r) \in NasRow /\ Written(s, r).id = r.id
         /\ Written(s, r).secret = r.secret \/ (s.event # None /\ s.event.payload = s.row.network)
         /\ NetworkFixed => Written(s, r).network = r.network
<1>1. s.loaded \in NasRow /\ s.row \in NasRow
  BY DEF SessionOK, Session
<1>2. /\ s.row.network \in Networks /\ s.row.secret \in Secrets
      /\ r.network \in Networks /\ r.secret \in Secrets /\ r.id \in ClientIds
  BY <1>1 DEF NasRow
<1> DEFINE network == IF s.row.network # s.loaded.network THEN s.row.network ELSE r.network
           secret == IF s.row.secret # s.loaded.secret THEN s.row.secret ELSE r.secret
<1>3. network \in Networks /\ secret \in Secrets
  BY <1>2
<1>4. Written(s, r) = [r EXCEPT !.network = network, !.secret = secret]
  BY DEF Written
<1> HIDE DEF network, secret
<1>5. /\ Written(s, r) \in NasRow /\ Written(s, r).id = r.id
      /\ Written(s, r).network = network /\ Written(s, r).secret = secret
  BY <1>2, <1>3, <1>4 DEF NasRow
<1> QED
  BY <1>5 DEF SessionOK, network, secret

\* A clear event is one.
LEMMA ClearType ==
  ASSUME clock \in Nat, NEW network \in Networks
  PROVE  /\ Clear(network) \in ClearClient /\ Clear(network) \in Event
         /\ Clear(network) # None /\ Clear(network).payload = network
  BY EventNoneAssumption DEF Clear, ClearClient, Event

\* A session that begins, and the tables as they were.
LEMMA Saving ==
  ASSUME TablesInv, NEW s, SessionOK(s), saving' = saving \cup {s}, UNCHANGED nas,
         used' \subseteq ClientIds
  PROVE  TablesInv'
  BY DEF TablesInv, ClientTypeOK, SessionOK, Storable

\* A session that ends, and what it leaves in the table.
LEMMA Saved ==
  ASSUME TablesInv, saving' \subseteq saving, UNCHANGED used,
         nas' \subseteq NasRow, Storable(nas')
  PROVE  TablesInv'
  BY DEF TablesInv, ClientTypeOK, SessionOK, Storable

\* The three requests begin with a session.
LEMMA PostBegins ==
  ASSUME TablesInv, NEW row \in NasRow, BeginPostRadiusClient(row)
  PROVE  TablesInv' /\ UNCHANGED eventVars
<1> DEFINE s == [loaded |-> None, row |-> row, event |-> None]
<1>1. SessionOK(s)
  BY ClientsAssumption, EventNoneAssumption DEF SessionOK, Session
<1>2. used' \subseteq ClientIds
  BY DEF BeginPostRadiusClient, TablesInv, ClientTypeOK, NasRow
<1> QED
  BY <1>1, <1>2, Saving DEF BeginPostRadiusClient

LEMMA PutBegins ==
  ASSUME TablesInv, clock \in Nat, NEW loaded \in nas, NEW row \in NasRow,
         BeginPutRadiusClient(loaded, row)
  PROVE  TablesInv' /\ (UNCHANGED eventVars \/ \E e \in Event : Begin(e))
<1> DEFINE event == IF row.secret # loaded.secret THEN Clear(row.network) ELSE None
           s == [loaded |-> loaded, row |-> row, event |-> event]
<1>1. /\ loaded \in NasRow /\ row.network \in Networks /\ row # None /\ loaded # None
      /\ row.id = loaded.id /\ (NetworkFixed => row.network = loaded.network)
  BY ClientsAssumption, EventNoneAssumption
     DEF TablesInv, ClientTypeOK, NasRow, BeginPutRadiusClient
<1>2. /\ event \in ClearClient \cup {None} /\ event \in Event \cup {None}
      /\ row.secret # loaded.secret => event # None /\ event.payload = row.network
  BY <1>1, ClearType
<1>3. /\ saving' = saving \cup {s} /\ UNCHANGED <<nas, used>>
      /\ IF event # None THEN Begin(event) ELSE UNCHANGED eventVars
  BY DEF BeginPutRadiusClient
<1> HIDE DEF event
<1>4. SessionOK(s)
  BY <1>1, <1>2 DEF SessionOK, Session
<1>5. used' \subseteq ClientIds
  BY <1>3 DEF TablesInv, ClientTypeOK
<1> QED
  BY <1>2, <1>3, <1>4, <1>5, Saving

LEMMA DeleteBegins ==
  ASSUME TablesInv, clock \in Nat, NEW loaded \in nas, BeginDeleteRadiusClient(loaded)
  PROVE  TablesInv' /\ (\E e \in Event : Begin(e))
<1> DEFINE event == Clear(loaded.network)
           s == [loaded |-> loaded, row |-> None, event |-> event]
<1>1. loaded \in NasRow /\ loaded.network \in Networks /\ loaded # None
  BY ClientsAssumption, EventNoneAssumption DEF TablesInv, ClientTypeOK, NasRow
<1>2. event \in ClearClient /\ event \in Event /\ event # None /\ event.payload = loaded.network
  BY <1>1, ClearType
<1>3. saving' = saving \cup {s} /\ UNCHANGED <<nas, used>> /\ Begin(event)
  BY DEF BeginDeleteRadiusClient
<1> HIDE DEF event
<1>4. SessionOK(s)
  BY <1>1, <1>2 DEF SessionOK, Session
<1>5. used' \subseteq ClientIds
  BY <1>3 DEF TablesInv, ClientTypeOK
<1> QED
  BY <1>2, <1>3, <1>4, <1>5, Saving

\* The rows a PUT or a DELETE would leave.
OldsOf(s) == {r \in nas : r.id = s.loaded.id}
RowsAfter(s) ==
  (nas \ OldsOf(s)) \cup (IF s.row = None THEN {} ELSE {Written(s, r) : r \in OldsOf(s)})

LEMMA CommitEnds ==
  ASSUME TablesInv, NEW s \in saving, CommitRadiusClient(s)
  PROVE  /\ TablesInv'
         /\ UNCHANGED eventVars \/ Commit(s.event) \/ Rollback(s.event)
<1> DEFINE succeeds == s.row = None \/ (OldsOf(s) # {} /\ Storable(RowsAfter(s)))
<1>1. /\ SessionOK(s) /\ s.loaded # None /\ nas \subseteq NasRow /\ Storable(nas)
      /\ saving' = saving \ {s} /\ UNCHANGED used
      /\ nas' = IF succeeds THEN RowsAfter(s) ELSE nas
      /\ IF s.event = None THEN UNCHANGED eventVars
         ELSE IF succeeds THEN Commit(s.event) ELSE Rollback(s.event)
  BY DEF TablesInv, ClientTypeOK, CommitRadiusClient, RowsAfter, OldsOf
<1>2. RowsAfter(s) \subseteq NasRow
  BY <1>1, WrittenType DEF RowsAfter, OldsOf
<1>3. s.row = None => Storable(RowsAfter(s))
  BY <1>1 DEF RowsAfter, Storable
<1>4. nas' \subseteq NasRow /\ Storable(nas')
  BY <1>1, <1>2, <1>3
<1> QED
  BY <1>1, <1>4, Saved

LEMMA PostEnds ==
  ASSUME TablesInv, NEW s \in saving, CommitPostRadiusClient(s)
  PROVE  TablesInv' /\ UNCHANGED eventVars
<1>1. s.row \in NasRow
  BY DEF TablesInv, SessionOK, Session, CommitPostRadiusClient
<1>2. nas' \subseteq NasRow /\ Storable(nas')
  BY <1>1 DEF TablesInv, ClientTypeOK, CommitPostRadiusClient
<1> QED
  BY <1>2, Saved DEF CommitPostRadiusClient

LEMMA SessionDies ==
  ASSUME TablesInv, NEW s \in saving, AbandonRadiusClient(s)
  PROVE  TablesInv' /\ (UNCHANGED eventVars \/ Rollback(s.event))
  BY Saved DEF TablesInv, ClientTypeOK, AbandonRadiusClient

\* Steps that leave the clients alone.
LEMMA TablesKept ==
  ASSUME TablesInv, UNCHANGED clientVars
  PROVE  TablesInv'
  BY DEF TablesInv, ClientTypeOK, SessionOK, Storable, clientVars

\* To AdminEvents, every step is one of its own or none.
LEMMA StepIsEventStep ==
  ASSUME TablesInv, EventInv, [Next]_vars
  PROVE  TablesInv' /\ [EventNext]_eventVars
<1>0. clock \in Nat /\ nas \subseteq Clients /\ \A s \in saving : SessionOK(s)
  BY ClientsAssumption DEF EventInv, EventTypeOK, TablesInv, ClientTypeOK
<1>1. ASSUME NEW row \in NasRow, BeginPostRadiusClient(row)
      PROVE  TablesInv' /\ [EventNext]_eventVars
  BY <1>1, PostBegins
<1>2. ASSUME NEW loaded \in nas, NEW row \in NasRow, BeginPutRadiusClient(loaded, row)
      PROVE  TablesInv' /\ [EventNext]_eventVars
  BY <1>0, <1>2, PutBegins DEF EventNext
<1>3. ASSUME NEW loaded \in nas, BeginDeleteRadiusClient(loaded)
      PROVE  TablesInv' /\ [EventNext]_eventVars
  BY <1>0, <1>3, DeleteBegins DEF EventNext
<1>4. ASSUME NEW s \in saving, CommitPostRadiusClient(s)
      PROVE  TablesInv' /\ [EventNext]_eventVars
  BY <1>4, PostEnds
<1>5. ASSUME NEW s \in saving, CommitRadiusClient(s) \/ AbandonRadiusClient(s)
      PROVE  TablesInv' /\ [EventNext]_eventVars
  <2>1. TablesInv' /\ (UNCHANGED eventVars \/ Commit(s.event) \/ Rollback(s.event))
    BY <1>5, CommitEnds, SessionDies
  <2>2. Commit(s.event) \/ Rollback(s.event) => s.event \in posting
    BY DEF Commit, Rollback
  <2> QED
    BY <2>1, <2>2 DEF EventNext
<1>6. ASSUME NEW a \in Addresses, LookUpClient(a)
      PROVE  TablesInv' /\ [EventNext]_eventVars
  BY <1>0, <1>6, TablesKept DEF LookUpClient, EventNext
<1>7. ASSUME NEW e \in DebugRequests(clock + 1), BeginDebug(e)
      PROVE  TablesInv' /\ [EventNext]_eventVars
  BY <1>7, TablesKept DEF BeginDebug, EventNext, Event
<1>8. ASSUME NEW e \in posting, EndDebug(e)
      PROVE  TablesInv' /\ [EventNext]_eventVars
  BY <1>8, TablesKept DEF EndDebug, EventNext
<1>9. CASE (PruneRadiusAdminEvents \/ RadiusNext \/ SidecarNext) /\ UNCHANGED clientVars
  BY <1>9, TablesKept DEF EventNext
<1>10. CASE UNCHANGED vars
  BY <1>10, TablesKept DEF vars
<1> QED
  BY <1>1, <1>2, <1>3, <1>4, <1>5, <1>6, <1>7, <1>8, <1>9, <1>10 DEF Next

LEMMA InitTables == Init => TablesInv /\ EventInv
  BY EventInitInv DEF Init, TablesInv, ClientTypeOK, Storable

LEMMA TablesInvariance == Spec => [](TablesInv /\ EventInv)
<1>1. TablesInv /\ EventInv /\ [Next]_vars => (TablesInv /\ EventInv)'
  BY StepIsEventStep, EventStep
<1> QED
  BY <1>1, InitTables, PTL DEF Spec

-----------------------------------------------------------------------------
(* What FreeRADIUS has cached *)

\* A step that is not a packet of an unknown address: what is cached was cached or read, and
\* what is not due any more is in FreeRADIUS no more.
CachesShrink ==
  \A a \in Addresses :
    /\ radius'.cached[a] \in {None, radius.cached[a], radius.reading[a]}
    /\ radius'.reading[a] \in {None, radius.reading[a]}
    /\ radius'.cached[a] # None => radius'.reading[a] = None
    /\ a \in due /\ a \notin due' => radius'.cached[a] = None /\ radius'.reading[a] = None

CachesApart == \A a \in Addresses : radius.cached[a] # None => radius.reading[a] = None

LEMMA SameCaches ==
  ASSUME CachesApart, due \subseteq due',
         radius'.cached = radius.cached, radius'.reading = radius.reading
  PROVE  CachesShrink
  BY DEF CachesApart, CachesShrink

LEMMA EmptyCaches ==
  ASSUME radius' = EmptyRadius \/ radius' = [EmptyRadius EXCEPT !.up = FALSE]
  PROVE  CachesShrink
<1>1. radius'.cached = NoClients /\ radius'.reading = NoClients
  BY DEF EmptyRadius
<1> QED
  BY <1>1 DEF NoClients, CachesShrink

LEMMA RadiusShrinks ==
  ASSUME EventTypeOK, CachesApart, RadiusNext
  PROVE  CachesShrink
<1>0. /\ radius \in Radius
      /\ radius.cached \in [Addresses -> Clients \cup {None}]
      /\ radius.reading \in [Addresses -> Clients \cup {None}]
  BY DEF EventTypeOK, Radius
<1>1. CASE RadiusCrashes \/ RadiusStarts
  BY <1>1, EmptyCaches DEF RadiusCrashes, StopsRadius, RadiusStarts
<1>2. CASE RadminExits
  BY <1>2, SameCaches DEF RadminExits
<1>3. ASSUME NEW a \in Addresses, AddClient(a)
      PROVE  CachesShrink
  <2>1. /\ radius'.cached = [radius.cached EXCEPT ![a] = radius.reading[a]]
        /\ radius'.reading = [radius.reading EXCEPT ![a] = None]
        /\ due' = due
    BY <1>0, <1>3 DEF AddClient, Radius
  <2>2. \A b \in Addresses \ {a} : /\ radius'.cached[b] = radius.cached[b]
                                   /\ radius'.reading[b] = radius.reading[b]
    BY <1>0, <2>1
  <2>3. radius'.cached[a] = radius.reading[a] /\ radius'.reading[a] = None
    BY <1>0, <2>1
  <2> QED
    BY <2>1, <2>2, <2>3 DEF CachesShrink, CachesApart
<1>4. ASSUME NEW a \in Addresses, ExpireClient(a)
      PROVE  CachesShrink
  <2>1. /\ radius'.cached = [radius.cached EXCEPT ![a] = None]
        /\ radius'.reading = radius.reading
        /\ due' = due \ {a} /\ radius.cached[a] # None
    BY <1>0, <1>4 DEF ExpireClient, Radius
  <2>2. \A b \in Addresses \ {a} : radius'.cached[b] = radius.cached[b]
    BY <1>0, <2>1
  <2>3. radius'.cached[a] = None
    BY <1>0, <2>1
  <2> QED
    BY <2>1, <2>2, <2>3 DEF CachesShrink, CachesApart
<1> QED
  BY <1>1, <1>2, <1>3, <1>4 DEF RadiusNext

LEMMA SidecarShrinks ==
  ASSUME EventTypeOK, CachesApart, SidecarNext
  PROVE  CachesShrink
<1>0. /\ radius \in Radius
      /\ radius.cached \in [Addresses -> Clients \cup {None}]
      /\ radius.reading \in [Addresses -> Clients \cup {None}]
  BY DEF EventTypeOK, Radius
<1>1. CASE WorkerStarts \/ WorkerCrashes \/ RadminSetup
  BY <1>1, SameCaches DEF WorkerStarts, WorkerCrashes, RadminSetup, radiusVars
<1>2. CASE Poll \/ Reconnect \/ TakeEvent \/ ReadLatest \/ Show \/ ClearedHosts \/ TruncateTrace
           \/ CommandRaises
  BY <1>2, SameCaches DEF Poll, Reconnect, TakeEvent, ReadLatest, Show, ClearedHosts,
                          TruncateTrace, CommandRaises, radiusVars
<1>3. CASE Terminate
  BY <1>3, SameCaches, EmptyCaches DEF Terminate, StopsRadius, radiusVars
<1>4. CASE ClearHost
  <2>1. PICK a \in worker.todo :
          /\ Send([radius EXCEPT !.cached[a] = None])
          /\ due' = IF Attached /\ radius.reading[a] = None THEN due \ {a} ELSE due
    BY <1>4 DEF ClearHost
  <2>2. CASE ~ Attached
    BY <2>1, <2>2, SameCaches DEF Send
  <2>3. CASE Attached
    <3>1. /\ radius'.cached = [radius.cached EXCEPT ![a] = None]
          /\ radius'.reading = radius.reading
      BY <1>0, <2>1, <2>3 DEF Send, Radius
    <3>2. \A b \in Addresses \ {a} : radius'.cached[b] = radius.cached[b]
      BY <1>0, <3>1
    <3>3. a \in Addresses => radius'.cached[a] = None
      BY <1>0, <3>1
    <3> QED
      BY <2>1, <3>1, <3>2, <3>3 DEF CachesShrink, CachesApart
  <2> QED
    BY <2>2, <2>3
<1>5. CASE ResetDebug \/ SetDebug \/ StopDebug
  <2>1. PICK c : \/ UNCHANGED radius
                 \/ radius' = [radius EXCEPT !.condition = c]
    BY <1>5 DEF ResetDebug, SetDebug, StopDebug, Send
  <2>2. radius'.cached = radius.cached /\ radius'.reading = radius.reading
    BY <1>0, <2>1 DEF Radius
  <2>3. due' = due
    BY <1>5 DEF ResetDebug, SetDebug, StopDebug
  <2> QED
    BY <2>2, <2>3, SameCaches
<1> QED
  BY <1>1, <1>2, <1>3, <1>4, <1>5 DEF SidecarNext, WorkerStep

-----------------------------------------------------------------------------
(* A changed or deleted client *)

\* Fewer rows are known when FreeRADIUS reads none, and none comes to the clients.
LEMMA ShrinkingCaches ==
  ASSUME FixedInv, CachesShrink, UNCHANGED clientVars
  PROVE  FixedInv'
<1>1. UNCHANGED <<nas, saving, used>>
  BY DEF clientVars
<1>2. ASSUME NEW r \in NasRow, Known(r)'
      PROVE  Known(r)
  BY <1>1, <1>2, ClientsAssumption, EventNoneAssumption DEF Known, CachesShrink
<1>3. NetworksInv'
  BY <1>1, <1>2 DEF FixedInv, NetworksInv
<1>4. DueInv'
  <2>1. ASSUME NEW a \in Addresses,
               NEW c \in {radius'.cached[a], radius'.reading[a]} \ {None},
               Gone(c)', a \in HostsOf[c.network]
        PROVE  a \in due'
    <3>1. c \in {radius.cached[a], radius.reading[a]} \ {None}
      BY <2>1 DEF CachesShrink
    <3>2. Gone(c)
      BY <1>1, <2>1 DEF Gone
    <3>3. a \in due
      BY <2>1, <3>1, <3>2 DEF FixedInv, DueInv
    <3> QED
      BY <2>1, <3>3 DEF CachesShrink
  <2> QED
    BY <2>1 DEF DueInv, CachesShrink
<1> QED
  BY <1>3, <1>4 DEF FixedInv

\* An address FreeRADIUS reads a client for: one of the table.
LEMMA ReadKept ==
  ASSUME FixedInv, EventTypeOK, NEW a \in Addresses, NEW c \in nas, ReadClient(a, c),
         UNCHANGED clientVars
  PROVE  FixedInv'
<1>1. UNCHANGED <<nas, saving, used>>
  BY DEF clientVars
<1>2. /\ radius.cached \in [Addresses -> Clients \cup {None}]
      /\ radius.reading \in [Addresses -> Clients \cup {None}]
      /\ radius'.cached = radius.cached
      /\ radius'.reading = [radius.reading EXCEPT ![a] = c]
      /\ radius.cached[a] = None /\ due' = due
  BY DEF ReadClient, EventTypeOK, Radius
<1>3. /\ \A b \in Addresses \ {a} : radius'.reading[b] = radius.reading[b]
      /\ radius'.reading[a] = c
  BY <1>2
<1>4. ASSUME NEW r \in NasRow, Known(r)'
      PROVE  Known(r)
  BY <1>1, <1>2, <1>3, <1>4 DEF Known
<1>5. NetworksInv'
  BY <1>1, <1>4 DEF FixedInv, NetworksInv
<1>6. ~ Gone(c)
  BY DEF Gone
<1>7. DueInv'
  <2>1. ASSUME NEW b \in Addresses,
               NEW d \in {radius'.cached[b], radius'.reading[b]} \ {None},
               Gone(d)', b \in HostsOf[d.network]
        PROVE  b \in due'
    <3>1. Gone(d)
      BY <1>1, <2>1 DEF Gone
    <3>2. d \in {radius.cached[b], radius.reading[b]} \ {None}
      BY <1>2, <1>3, <1>6, <2>1, <3>1
    <3> QED
      BY <1>2, <2>1, <3>1, <3>2 DEF FixedInv, DueInv
  <2> QED
    BY <1>2, <1>3, <2>1 DEF FixedInv, DueInv
<1> QED
  BY <1>5, <1>7 DEF FixedInv

\* Rows that come to be known have the network of one that was.
LEMMA SameNetworks ==
  ASSUME NetworksInv, UNCHANGED used,
         \A r \in NasRow : Known(r)' =>
           \E q \in NasRow : Known(q) /\ q.id = r.id /\ q.network = r.network
  PROVE  NetworksInv'
<1>1. \A r \in NasRow : Known(r)' => r.id \in used'
  BY DEF NetworksInv
<1>2. ASSUME NEW r \in NasRow, NEW p \in NasRow, Known(r)', Known(p)', r.id = p.id
      PROVE  r.network = p.network
  BY <1>2 DEF NetworksInv
<1> QED
  BY <1>1, <1>2 DEF NetworksInv

\* Clients that go from the table are due wherever FreeRADIUS has them.
LEMMA MoreDue ==
  ASSUME DueInv, EventTypeOK, UNCHANGED radius, due \subseteq due',
         \A c \in NasRow, a \in Addresses :
           Known(c) /\ Gone(c)' /\ a \in HostsOf[c.network] => Gone(c) \/ a \in due'
  PROVE  DueInv'
<1>1. ASSUME NEW a \in Addresses,
             NEW c \in {radius.cached[a], radius.reading[a]} \ {None},
             Gone(c)', a \in HostsOf[c.network]
      PROVE  a \in due'
  <2>1. c \in NasRow
    BY ClientsAssumption DEF EventTypeOK, Radius
  <2>2. Known(c)
    BY DEF Known
  <2> QED
    BY <1>1, <2>1, <2>2 DEF DueInv
<1> QED
  BY <1>1 DEF DueInv

\* What the transactions of events leave of FreeRADIUS.
LEMMA TransactionKeeps ==
  ASSUME UNCHANGED eventVars \/ (\E e : Begin(e) \/ Commit(e) \/ Rollback(e))
  PROVE  UNCHANGED radius /\ due \subseteq due'
  BY DEF eventVars, Begin, Commit, Rollback, radiusVars

\* The steps of a session that leave the table as it is.
LEMMA SessionKept ==
  ASSUME FixedInv, EventTypeOK, UNCHANGED nas,
         UNCHANGED eventVars \/ (\E e : Begin(e) \/ Commit(e) \/ Rollback(e))
  PROVE  DueInv'
  BY TransactionKeeps, MoreDue DEF FixedInv, Gone

LEMMA PostKeeps ==
  ASSUME FixedInv, EventTypeOK, NEW row \in NasRow, BeginPostRadiusClient(row)
  PROVE  FixedInv'
<1>1. /\ saving' = saving \cup {[loaded |-> None, row |-> row, event |-> None]}
      /\ used' = used \cup {row.id} /\ row.id \notin used /\ UNCHANGED <<nas, eventVars>>
  BY DEF BeginPostRadiusClient
<1>2. radius' = radius /\ None \notin NasRow
  BY <1>1, TransactionKeeps, ClientsAssumption, EventNoneAssumption
<1>3. ASSUME NEW r \in NasRow, Known(r)'
      PROVE  Known(r) \/ r = row
  BY <1>1, <1>2, <1>3 DEF Known
<1>4. \A r \in NasRow : Known(r) => r.id # row.id
  BY <1>1 DEF FixedInv, NetworksInv
<1>5. NetworksInv'
  <2>1. \A r \in NasRow : Known(r)' => r.id \in used'
    BY <1>1, <1>3 DEF FixedInv, NetworksInv
  <2>2. ASSUME NEW r \in NasRow, NEW q \in NasRow, Known(r)', Known(q)', r.id = q.id
        PROVE  r.network = q.network
    BY <1>3, <1>4, <2>2 DEF FixedInv, NetworksInv
  <2> QED
    BY <2>1, <2>2 DEF NetworksInv
<1> QED
  BY <1>1, <1>5, SessionKept DEF FixedInv

LEMMA PutKeeps ==
  ASSUME FixedInv, EventTypeOK, TablesInv, NetworkFixed, NEW loaded \in nas, NEW row \in NasRow,
         BeginPutRadiusClient(loaded, row)
  PROVE  FixedInv'
<1> DEFINE event == IF row.secret # loaded.secret THEN Clear(row.network) ELSE None
<1>1. /\ saving' = saving \cup {[loaded |-> loaded, row |-> row, event |-> event]}
      /\ UNCHANGED <<nas, used>>
      /\ row.id = loaded.id /\ row.network = loaded.network
      /\ IF event # None THEN Begin(event) ELSE UNCHANGED eventVars
  BY DEF BeginPutRadiusClient
<1> HIDE DEF event
<1>2. radius' = radius /\ loaded \in NasRow /\ Known(loaded)
  BY <1>1, TransactionKeeps DEF TablesInv, ClientTypeOK, Known
<1>3. ASSUME NEW r \in NasRow, Known(r)'
      PROVE  Known(r) \/ r = row
  BY <1>1, <1>2, <1>3 DEF Known
<1>4. NetworksInv'
  BY <1>1, <1>2, <1>3, SameNetworks DEF FixedInv
<1> QED
  BY <1>1, <1>4, SessionKept DEF FixedInv

LEMMA DeleteKeeps ==
  ASSUME FixedInv, EventTypeOK, NEW loaded \in nas, BeginDeleteRadiusClient(loaded)
  PROVE  FixedInv'
<1>1. /\ saving' = saving \cup
           {[loaded |-> loaded, row |-> None, event |-> Clear(loaded.network)]}
      /\ UNCHANGED <<nas, used>> /\ Begin(Clear(loaded.network))
  BY DEF BeginDeleteRadiusClient
<1>2. radius' = radius /\ None \notin NasRow
  BY <1>1, TransactionKeeps, ClientsAssumption, EventNoneAssumption
<1>3. ASSUME NEW r \in NasRow, Known(r)'
      PROVE  Known(r)
  BY <1>1, <1>2, <1>3 DEF Known
<1>4. NetworksInv'
  BY <1>1, <1>3, SameNetworks DEF FixedInv
<1> QED
  BY <1>1, <1>4, SessionKept DEF FixedInv

LEMMA EndKeeps ==
  ASSUME FixedInv, EventTypeOK, TablesInv, NEW s \in saving,
         CommitPostRadiusClient(s) \/ AbandonRadiusClient(s)
  PROVE  FixedInv'
<1>1. /\ saving' = saving \ {s} /\ used' = used
      /\ nas \subseteq nas' /\ nas' \subseteq nas \cup {s.row}
      /\ UNCHANGED eventVars \/ (\E e : Begin(e) \/ Commit(e) \/ Rollback(e))
  BY DEF CommitPostRadiusClient, AbandonRadiusClient
<1>2. radius' = radius /\ due \subseteq due'
  BY <1>1, TransactionKeeps
<1>3. ASSUME NEW r \in NasRow, Known(r)'
      PROVE  Known(r)
  BY <1>1, <1>2, <1>3 DEF Known
<1>4. NetworksInv'
  BY <1>1, <1>3, SameNetworks DEF FixedInv
<1>5. DueInv'
  BY <1>1, <1>2, MoreDue DEF FixedInv, Gone
<1> QED
  BY <1>4, <1>5 DEF FixedInv

\* A PUT or a DELETE that takes an id and secret from the table commits an event for the network
\* of the client with them.
LEMMA CommitKeeps ==
  ASSUME FixedInv, EventTypeOK, TablesInv, NetworkFixed, NEW s \in saving, CommitRadiusClient(s)
  PROVE  FixedInv'
<1> DEFINE succeeds == s.row = None \/ (OldsOf(s) # {} /\ Storable(RowsAfter(s)))
<1>1. /\ SessionOK(s) /\ s.loaded # None /\ nas \subseteq NasRow
      /\ saving' = saving \ {s} /\ UNCHANGED used
      /\ nas' = IF succeeds THEN RowsAfter(s) ELSE nas
      /\ IF s.event = None THEN UNCHANGED eventVars
         ELSE IF succeeds THEN Commit(s.event) ELSE Rollback(s.event)
  BY DEF TablesInv, ClientTypeOK, CommitRadiusClient, RowsAfter, OldsOf
<1> HIDE DEF succeeds
<1>2. radius' = radius /\ due \subseteq due'
  BY <1>1, TransactionKeeps
<1>3. /\ s.loaded \in NasRow /\ s.row \in NasRow \cup {None} /\ None \notin NasRow
      /\ Known(s.loaded) /\ (s.row # None => Known(s.row))
  BY <1>1, ClientsAssumption, EventNoneAssumption DEF SessionOK, Session, Known
<1>4. \A q \in nas' : q \in nas \/ (s.row # None /\ \E r \in OldsOf(s) : q = Written(s, r))
  BY <1>1 DEF RowsAfter
<1>5. NetworksInv'
  <2>1. ASSUME NEW r \in NasRow, Known(r)'
        PROVE  \E q \in NasRow : Known(q) /\ q.id = r.id /\ q.network = r.network
    <3>1. CASE r \in nas'
      <4>1. CASE r \in nas
        BY <4>1 DEF Known
      <4>2. CASE s.row # None /\ \E q \in OldsOf(s) : r = Written(s, q)
        BY <1>1, <4>2, WrittenType DEF OldsOf, Known
      <4> QED
        BY <1>4, <3>1, <4>1, <4>2
    <3>2. CASE r \notin nas'
      BY <1>1, <1>2, <2>1, <3>2 DEF Known
    <3> QED
      BY <3>1, <3>2
  <2> QED
    BY <1>1, <2>1, SameNetworks DEF FixedInv
<1>6. DueInv'
  <2>1. ASSUME NEW c \in NasRow, NEW a \in Addresses,
               Known(c), Gone(c)', ~ Gone(c), a \in HostsOf[c.network]
        PROVE  a \in due'
    <3>1. PICK r \in nas : r.id = c.id /\ r.secret = c.secret
      BY <2>1 DEF Gone
    <3>2. succeeds /\ r \notin nas'
      BY <1>1, <2>1, <3>1 DEF Gone
    <3>3. r \in OldsOf(s)
      BY <1>1, <3>2 DEF RowsAfter
    <3>4. c.id = s.loaded.id /\ c.network = s.loaded.network
      BY <1>3, <2>1, <3>1, <3>3 DEF OldsOf, FixedInv, NetworksInv
    <3>5. s.event # None /\ s.event.payload = s.loaded.network
      <4>1. CASE s.row = None
        BY <1>1, <4>1 DEF SessionOK
      <4>2. CASE s.row # None
        <5>1. Written(s, r) \in nas'
          BY <1>1, <3>2, <3>3, <4>2 DEF RowsAfter
        <5>2. Written(s, r).secret # r.secret /\ r \in NasRow
          BY <1>1, <2>1, <3>1, <4>2, <5>1, WrittenType DEF Gone
        <5> QED
          BY <1>1, <4>2, <5>2, WrittenType DEF SessionOK
      <4> QED
        BY <4>1, <4>2
    <3>6. /\ Commit(s.event) /\ s.event \in ClearClient
      BY <1>1, <3>2, <3>5 DEF SessionOK, Session
    <3>7. Hosts(s.event) = HostsOf[s.loaded.network]
      BY <3>5, <3>6 DEF Hosts, ClearClient
    <3> QED
      BY <2>1, <3>4, <3>6, <3>7 DEF Commit
  <2> QED
    BY <1>2, <2>1, MoreDue DEF FixedInv
<1> QED
  BY <1>5, <1>6 DEF FixedInv

LEMMA FixedStep ==
  ASSUME NetworkFixed, FixedInv, TablesInv, EventInv, [Next]_vars
  PROVE  FixedInv'
<1>0. EventTypeOK /\ CachesApart
  BY DEF EventInv, FixedInv, DueInv, CachesApart
<1>1. ASSUME NEW row \in NasRow, BeginPostRadiusClient(row)
      PROVE  FixedInv'
  BY <1>0, <1>1, PostKeeps
<1>2. ASSUME NEW loaded \in nas, NEW row \in NasRow, BeginPutRadiusClient(loaded, row)
      PROVE  FixedInv'
  BY <1>0, <1>2, PutKeeps
<1>3. ASSUME NEW loaded \in nas, BeginDeleteRadiusClient(loaded)
      PROVE  FixedInv'
  BY <1>0, <1>3, DeleteKeeps
<1>4. ASSUME NEW s \in saving,
             CommitPostRadiusClient(s) \/ CommitRadiusClient(s) \/ AbandonRadiusClient(s)
      PROVE  FixedInv'
  BY <1>0, <1>4, EndKeeps, CommitKeeps
<1>5. ASSUME NEW a \in Addresses, LookUpClient(a)
      PROVE  FixedInv'
  BY <1>0, <1>5, ReadKept DEF LookUpClient
<1>6. ASSUME NEW e, BeginDebug(e) \/ EndDebug(e)
      PROVE  FixedInv'
  <2>1. UNCHANGED clientVars /\ UNCHANGED radius /\ due \subseteq due'
    BY <1>6, TransactionKeeps DEF BeginDebug, EndDebug
  <2> QED
    BY <1>0, <2>1, SameCaches, ShrinkingCaches
<1>7. CASE (PruneRadiusAdminEvents \/ RadiusNext \/ SidecarNext) /\ UNCHANGED clientVars
  <2>1. PruneRadiusAdminEvents => CachesShrink
    BY <1>0, SameCaches DEF PruneRadiusAdminEvents, radiusVars
  <2> QED
    BY <1>0, <1>7, <2>1, RadiusShrinks, SidecarShrinks, ShrinkingCaches
<1>8. CASE UNCHANGED vars
  <2>1. UNCHANGED clientVars /\ UNCHANGED <<radius, due>>
    BY <1>8 DEF vars, eventVars, radiusVars
  <2> QED
    BY <1>0, <2>1, SameCaches, ShrinkingCaches
<1> QED
  BY <1>1, <1>2, <1>3, <1>4, <1>5, <1>6, <1>7, <1>8 DEF Next

LEMMA InitFixed == Init => FixedInv
<1> SUFFICES ASSUME Init PROVE FixedInv
  OBVIOUS
<1>1. nas = {} /\ saving = {} /\ radius.cached = NoClients /\ radius.reading = NoClients
  BY DEF Init, EventInit, EmptyRadius
<1>2. \A r \in NasRow : ~ Known(r)
  BY <1>1, ClientsAssumption, EventNoneAssumption DEF Known, NoClients
<1> QED
  BY <1>1, <1>2 DEF FixedInv, NetworksInv, DueInv, NoClients

-----------------------------------------------------------------------------
(* The theorems *)

\* The composition implements AdminEvents: what clients and sessions do is, to the events,
\* transactions that begin, commit or roll back.
THEOREM ImplementsEvents == Spec => EventSpec
<1>1. Init => EventInit
  BY DEF Init
<1>2. TablesInv /\ EventInv /\ [Next]_vars => [EventNext]_eventVars
  BY StepIsEventStep
<1> QED
  BY <1>1, <1>2, TablesInvariance, PTL DEF Spec, EventSpec

\* Every reachable state of the table of clients and of its sessions is of its type; no two
\* rows have one network.
THEOREM ClientTypes == Spec => []ClientTypeOK
<1>1. TablesInv => ClientTypeOK
  BY DEF TablesInv
<1> QED
  BY <1>1, TablesInvariance, PTL

\* In the composition, too, the order of events is kept.
THEOREM ClientsInOrder == Spec => []ExecutedInOrder
  BY ImplementsEvents, InOrder, PTL

\* In the composition, too, none is missed but those excused.
THEOREM ClientsNoneMissed == Spec => []MissedOnlyIfOverlapped
  BY ImplementsEvents, NoneMissed, PTL

\* In the composition, too, reconciliations end with debugging as it was read to be.
THEOREM ClientsRoundsSettle == Spec => ReconciledAsRead
  BY ImplementsEvents, RoundsSettle, PTL

\* Where no PUT changes a network, a client that was changed or deleted is still to be cleared
\* as long as FreeRADIUS has it.
THEOREM StaleIsDue ==
  ASSUME NetworkFixed
  PROVE  Spec => []StaleClientIsDue
<1>1. FixedInv => StaleClientIsDue
  BY DEF FixedInv, DueInv, Gone, StaleClientIsDue, Stale
<1>2. FixedInv /\ TablesInv /\ EventInv /\ [Next]_vars => FixedInv'
  BY FixedStep
<1> QED
  BY <1>1, <1>2, InitFixed, TablesInvariance, PTL DEF Spec
=============================================================================
