----------------------- MODULE CcuConnectionProofs -------------------------
(***************************************************************************)
(* Proofs about CcuConnection, for every number of interfaces, every       *)
(* watchdog setting and every bound on concurrent re-subscriptions.        *)
(***************************************************************************)
EXTENDS CcuConnection, TLAPS

\* How the phases of start() and stop() fit the server, the watchdog and the map.
PhaseInv ==
  /\ startPhase \in {"off", "binding", "failed"} => server = "down"
  /\ startPhase \in {"ports", "addresses", "subscribing"} =>
       server = "listening" /\ ~started /\ ~Stopping
  /\ startPhase = "running" => (started <=> ~Stopping)
  /\ started => startPhase = "running" /\ server = "listening"
  /\ timer <=> started
  /\ Stopping => startPhase = "running"
  /\ rpcClients # {} => startPhase \in {"subscribing", "running"}
  /\ stopPhase = "unsubscribing" =>
       /\ server = "listening" /\ leaving # {} /\ leaving \subseteq rpcClients
       /\ unsubStage # "none"
  /\ stopPhase # "unsubscribing" => leaving = {} /\ unsubStage = "none"
  /\ stopPhase \in {"closing", "stopped"} => rpcClients = {}
  /\ stopPhase = "closing" => server = "closing"

\* start() subscribes one interface at a time; later calls in progress are
\* the watchdog's, for clients of the map, or were overtaken by stop().
FlightInv ==
  /\ startPhase \notin {"subscribing", "running"} =>
       \A i \in Interface : Flights(i) = 0
  /\ startPhase = "subscribing" =>
       /\ cursor \in Interface /\ Flights(cursor) = 1
       /\ \A i \in Interface : i # cursor => Flights(i) = 0
       /\ \A i \in rpcClients : i < cursor
  /\ startPhase = "running" /\ ~Stopping =>
       \A i \in Interface : Flights(i) > 0 => i \in rpcClients
  /\ Stopping => \A i \in Interface : Flights(i) > 0 => i \in overtaken
  /\ ~Stopping => \A i \in rpcClients : subscribed[i]

\* Where a subscription the CCU holds is accounted for.
Accounted(i) ==
  ccuSub[i] /\ i \notin lost \cup overtaken =>
    \/ ~Stopping /\ i \in rpcClients
    \/ startPhase = "subscribing" /\ replyDue[i] > 0
    \/ i \in leaving /\ ~(unsubStage = "answered" /\ StopAwaits(i))

AccountInv ==
  /\ ~Stopping => overtaken = {}
  /\ \A i \in Interface : Accounted(i)

\* The time to the next tick never lets the silence grow by a second interval.
ClockInv == timer => elapsed + untilTick <= WatchdogTime + WatchdogInterval

IInv == TypeOK /\ PhaseInv /\ FlightInv /\ AccountInv /\ ClockInv

-----------------------------------------------------------------------------
(* Type correctness                                                        *)

\* The watchdog interval is a length of time.
LEMMA IntervalType == WatchdogInterval \in Nat
BY TimeAssumption DEF WatchdogInterval

\* One more turn of the loop of start() keeps the variables it assigns typed.
LEMMA ContinueStartType ==
  ASSUME TypeOK, NEW i \in 1..(N + 1), NEW p \in [Interface -> Nat], ContinueStart(i, p)
  PROVE  /\ startPhase' \in StartPhases /\ cursor' \in 1..(N + 1)
         /\ probing' \in [Interface -> Nat]
         /\ started' \in BOOLEAN /\ timer' \in BOOLEAN
         /\ elapsed' \in Nat /\ untilTick' \in Nat
<1>1. CASE i <= N
  <2>1. i \in Interface
    BY <1>1, NAssumption DEF Interface
  <2>2. /\ startPhase' = "subscribing" /\ cursor' = i
        /\ probing' = [p EXCEPT ![i] = @ + 1]
        /\ started' = started /\ timer' = timer
        /\ elapsed' = elapsed /\ untilTick' = untilTick
    BY <1>1, NAssumption DEF ContinueStart, clockVars
  <2>3. QED
    BY <2>1, <2>2 DEF TypeOK, StartPhases
<1>2. CASE i > N
  <2>1. /\ startPhase' = "running" /\ cursor' = i /\ probing' = p
        /\ started' = TRUE /\ timer' = TRUE
        /\ elapsed' = 0 /\ untilTick' = WatchdogInterval
    BY <1>2, NAssumption DEF ContinueStart
  <2>2. started' \in BOOLEAN /\ timer' \in BOOLEAN
    BY <2>1, Zenon
  <2>3. QED
    BY <2>1, <2>2, IntervalType DEF StartPhases
<1>3. QED
  BY <1>1, <1>2, NAssumption

\* So does a rejected subscribe().
LEMMA RejectedType ==
  ASSUME TypeOK, NEW i \in Interface, NEW p \in [Interface -> Nat], Rejected(i, p)
  PROVE  /\ startPhase' \in StartPhases /\ cursor' \in 1..(N + 1)
         /\ probing' \in [Interface -> Nat]
         /\ started' \in BOOLEAN /\ timer' \in BOOLEAN
         /\ elapsed' \in Nat /\ untilTick' \in Nat
<1>1. i + 1 \in 1..(N + 1)
  BY NAssumption DEF Interface
<1>2. CASE StartAwaits(i) /\ ContinueStart(i + 1, p)
  BY <1>1, <1>2, ContinueStartType
<1>3. CASE ~StartAwaits(i) /\ probing' = p /\ UNCHANGED <<startVars, started, clockVars>>
  BY <1>3 DEF TypeOK, startVars, clockVars
<1>4. QED
  BY <1>2, <1>3 DEF Rejected

\* The loop of stop() keeps the variables it assigns typed.
LEMMA ContinueStopType ==
  ASSUME TypeOK, NEW left \in SUBSET Interface, ContinueStop(left)
  PROVE  /\ leaving' \subseteq Interface /\ stopPhase' \in StopPhases
         /\ unsubStage' \in {"none", "sent", "answered"}
         /\ rpcClients' \subseteq Interface
         /\ server' \in {"down", "listening", "closing"}
BY DEF ContinueStop, TypeOK, StopPhases

\* Every step keeps the variables typed.
LEMMA TypeStep == TypeOK /\ [Next]_vars => TypeOK'
<1> SUFFICES ASSUME TypeOK, [Next]_vars PROVE TypeOK'
  OBVIOUS
<1> USE DEF startVars, stopVars, clockVars, callVars, history
<1>1. CASE Launch
  BY <1>1 DEF Launch, TypeOK, StartPhases
<1>2. CASE EventServerListens
  BY <1>2 DEF EventServerListens, TypeOK, StartPhases
<1>3. CASE EventServerFails
  BY <1>3 DEF EventServerFails, TypeOK, StartPhases
<1>4. CASE PortsRefreshed
  BY <1>4 DEF PortsRefreshed, TypeOK, StartPhases
<1>5. CASE AddressesRefreshed
  <2>1. 1 \in 1..(N + 1) /\ probing \in [Interface -> Nat]
    BY NAssumption DEF TypeOK
  <2>2. QED
    BY <1>5, <2>1, ContinueStartType DEF AddressesRefreshed, TypeOK
<1>6. ASSUME NEW i \in Interface, ProbeSucceeds(i) PROVE TypeOK'
  BY <1>6 DEF ProbeSucceeds, TypeOK
<1>7. ASSUME NEW i \in Interface, ProbeFails(i) PROVE TypeOK'
  <2>1. [probing EXCEPT ![i] = @ - 1] \in [Interface -> Nat]
    BY <1>7 DEF ProbeFails, TypeOK
  <2>2. QED
    BY <1>7, <2>1, RejectedType DEF ProbeFails, TypeOK
<1>8. ASSUME NEW i \in Interface, CcuAccepts(i) PROVE TypeOK'
  BY <1>8 DEF CcuAccepts, TypeOK
<1>9. ASSUME NEW i \in Interface, InitFails(i) PROVE TypeOK'
  <2>1. initSent' \in [Interface -> Nat]
    BY <1>9 DEF InitFails, TypeOK
  <2>2. QED
    BY <1>9, <2>1, RejectedType DEF InitFails, TypeOK
<1>10. ASSUME NEW i \in Interface, ReplyLost(i) PROVE TypeOK'
  <2>1. replyDue' \in [Interface -> Nat] /\ lost' \subseteq Interface
    BY <1>10 DEF ReplyLost, TypeOK
  <2>2. QED
    BY <1>10, <2>1, RejectedType DEF ReplyLost, TypeOK
<1>11. ASSUME NEW i \in Interface, SubscribeResolves(i) PROVE TypeOK'
  <2>1. /\ replyDue' \in [Interface -> Nat] /\ subscribed' \in [Interface -> BOOLEAN]
        /\ i + 1 \in 1..(N + 1)
    BY <1>11, NAssumption DEF SubscribeResolves, TypeOK, Interface
  <2>2. CASE StartAwaits(i)
    BY <1>11, <2>1, <2>2, ContinueStartType DEF SubscribeResolves, TypeOK
  <2>3. CASE ~StartAwaits(i)
    BY <1>11, <2>1, <2>3 DEF SubscribeResolves, TypeOK
  <2>4. QED
    BY <2>2, <2>3
<1>12. CASE ClockTicks
  BY <1>12 DEF ClockTicks, TypeOK
<1>13. CASE WatchdogContent
  BY <1>13, IntervalType DEF WatchdogContent, TypeOK
<1>14. CASE WatchdogFires
  BY <1>14, IntervalType DEF WatchdogFires, TypeOK
<1>15. ASSUME NEW i \in Interface, EventArrives(i) \/ CcuForgets(i) PROVE TypeOK'
  <2>1. CASE EventArrives(i)
    BY <2>1 DEF EventArrives, TypeOK
  <2>2. CASE CcuForgets(i)
    BY <2>2 DEF CcuForgets, TypeOK
  <2>3. QED
    BY <1>15, <2>1, <2>2
<1>16. CASE ShutdownSkipped
  BY <1>16 DEF ShutdownSkipped, TypeOK, StopPhases
<1>17. CASE Shutdown
  <2>1. {i \in rpcClients : subscribed[i]} \in SUBSET Interface
    BY DEF TypeOK
  <2>2. QED
    BY <1>17, <2>1, ContinueStopType DEF Shutdown, TypeOK
<1>18. ASSUME NEW i \in Interface, CcuReleases(i) PROVE TypeOK'
  BY <1>18 DEF CcuReleases, TypeOK
<1>19. ASSUME NEW i \in Interface, UnsubscribeReturns(i) PROVE TypeOK'
  <2>1. /\ leaving \ {i} \in SUBSET Interface /\ lost' \subseteq Interface
        /\ subscribed' \in [Interface -> BOOLEAN]
    BY <1>19 DEF UnsubscribeReturns, TypeOK
  <2>2. QED
    BY <1>19, <2>1, ContinueStopType DEF UnsubscribeReturns, TypeOK
<1>20. CASE EventServerClosed
  BY <1>20 DEF EventServerClosed, TypeOK, StopPhases
<1>21. CASE Exit
  <2>1. 1 \in 1..(N + 1) /\ None \in [Interface -> Nat]
    BY NAssumption DEF None
  <2>2. QED
    BY <1>21, <2>1 DEF Exit, TypeOK, StartPhases, StopPhases
<1>22. CASE UNCHANGED vars
  BY <1>22 DEF vars, TypeOK
<1>23. QED
  BY <1>1, <1>2, <1>3, <1>4, <1>5, <1>6, <1>7, <1>8, <1>9, <1>10, <1>11, <1>12,
     <1>13, <1>14, <1>15, <1>16, <1>17, <1>18, <1>19, <1>20, <1>21, <1>22 DEF Next

\* So does the start of the process.
LEMMA InitType == Init => TypeOK
<1> SUFFICES ASSUME Init PROVE TypeOK
  OBVIOUS
<1>1. 1 \in 1..(N + 1) /\ None \in [Interface -> Nat]
  BY NAssumption DEF None
<1>2. QED
  BY <1>1 DEF Init, TypeOK, StartPhases, StopPhases

\* The variables keep to their types whatever the CCU and Homebridge do.
THEOREM TypeCorrect == Spec => []TypeOK
BY InitType, TypeStep, PTL DEF Spec

-----------------------------------------------------------------------------
(* The phases of start() and stop()                                        *)

\* A turn of the loop of start(), taken where it may be, keeps the phases in
\* order if the step leaves stop() and the server alone.
LEMMA ContinueStartPhase ==
  ASSUME TypeOK, PhaseInv, startPhase \in {"addresses", "subscribing"},
         NEW i \in 1..(N + 1), NEW p, ContinueStart(i, p),
         UNCHANGED <<stopPhase, leaving, unsubStage, server>>
  PROVE  PhaseInv'
<1>1. server = "listening" /\ ~started /\ ~Stopping /\ ~timer
  BY DEF PhaseInv
<1>2. CASE i <= N
  <2>1. startPhase' = "subscribing" /\ started' = started /\ timer' = timer
    BY <1>2, NAssumption DEF ContinueStart, clockVars
  <2>2. QED
    BY <1>1, <2>1 DEF PhaseInv, Stopping
<1>3. CASE i > N
  <2>1. startPhase' = "running" /\ started' = TRUE /\ timer' = TRUE
    BY <1>3, NAssumption DEF ContinueStart
  <2>2. QED
    BY <1>1, <2>1 DEF PhaseInv, Stopping
<1>4. QED
  BY <1>2, <1>3, NAssumption

\* A rejected subscribe() keeps the phases in order.
LEMMA RejectedPhase ==
  ASSUME TypeOK, PhaseInv, NEW i \in Interface, NEW p, Rejected(i, p),
         UNCHANGED <<stopPhase, leaving, unsubStage, server, rpcClients>>
  PROVE  PhaseInv'
<1>1. CASE StartAwaits(i) /\ ContinueStart(i + 1, p)
  <2>1. i + 1 \in 1..(N + 1) /\ startPhase = "subscribing"
    BY <1>1, NAssumption DEF Interface, StartAwaits
  <2>2. QED
    BY <1>1, <2>1, ContinueStartPhase
<1>2. CASE ~StartAwaits(i) /\ UNCHANGED <<startVars, started, clockVars>>
  BY <1>2 DEF PhaseInv, Stopping, startVars, clockVars
<1>3. QED
  BY <1>1, <1>2 DEF Rejected

\* A turn of the loop of stop() keeps the phases in order.
LEMMA ContinueStopPhase ==
  ASSUME TypeOK, PhaseInv, startPhase = "running", NEW left, left \subseteq rpcClients,
         server = "listening", ContinueStop(left), startPhase' = startPhase,
         started' = FALSE, timer' = FALSE
  PROVE  PhaseInv'
<1>1. CASE left # {}
  BY <1>1 DEF ContinueStop, PhaseInv, Stopping
<1>2. CASE left = {}
  BY <1>2 DEF ContinueStop, PhaseInv, Stopping
<1>3. QED
  BY <1>1, <1>2

\* Every step keeps start(), stop(), the timer and the server in order.
LEMMA PhaseStep == TypeOK /\ PhaseInv /\ [Next]_vars => PhaseInv'
<1> SUFFICES ASSUME TypeOK, PhaseInv, [Next]_vars PROVE PhaseInv'
  OBVIOUS
<1> USE DEF startVars, stopVars, clockVars, callVars, history
<1>1. CASE Launch
  BY <1>1 DEF Launch, PhaseInv, Stopping
<1>2. CASE EventServerListens
  BY <1>2 DEF EventServerListens, PhaseInv, Stopping
<1>3. CASE EventServerFails
  BY <1>3 DEF EventServerFails, PhaseInv, Stopping
<1>4. CASE PortsRefreshed
  BY <1>4 DEF PortsRefreshed, PhaseInv, Stopping
<1>5. CASE AddressesRefreshed
  <2>1. 1 \in 1..(N + 1)
    BY NAssumption
  <2>2. QED
    BY <1>5, <2>1, ContinueStartPhase DEF AddressesRefreshed
<1>6. ASSUME NEW i \in Interface,
             ProbeSucceeds(i) \/ CcuAccepts(i) \/ EventArrives(i) \/ CcuForgets(i)
      PROVE  PhaseInv'
  BY <1>6 DEF ProbeSucceeds, CcuAccepts, EventArrives, CcuForgets, PhaseInv, Stopping
<1>7. ASSUME NEW i \in Interface, ProbeFails(i) \/ InitFails(i) \/ ReplyLost(i)
      PROVE  PhaseInv'
  BY <1>7, RejectedPhase DEF ProbeFails, InitFails, ReplyLost
<1>8. ASSUME NEW i \in Interface, SubscribeResolves(i) PROVE PhaseInv'
  <2>1. i + 1 \in 1..(N + 1)
    BY NAssumption DEF Interface
  <2>2. CASE StartAwaits(i)
    BY <1>8, <2>1, <2>2, ContinueStartPhase DEF SubscribeResolves, StartAwaits
  <2>3. CASE ~StartAwaits(i)
    BY <1>8, <2>3 DEF SubscribeResolves, PhaseInv, Stopping
  <2>4. QED
    BY <2>2, <2>3
<1>9. CASE ClockTicks \/ WatchdogContent \/ WatchdogFires
  BY <1>9 DEF ClockTicks, WatchdogContent, WatchdogFires, PhaseInv, Stopping
<1>10. CASE ShutdownSkipped
  BY <1>10 DEF ShutdownSkipped, PhaseInv, Stopping
<1>11. CASE Shutdown
  <2>1. {i \in rpcClients : subscribed[i]} \subseteq rpcClients
    OBVIOUS
  <2>2. startPhase = "running" /\ server = "listening"
    BY <1>11 DEF Shutdown, PhaseInv
  <2>3. startPhase' = startPhase /\ started' = FALSE /\ timer' = FALSE
    BY <1>11 DEF Shutdown
  <2>4. QED
    BY <1>11, <2>1, <2>2, <2>3, ContinueStopPhase DEF Shutdown
<1>12. ASSUME NEW i \in Interface, CcuReleases(i) PROVE PhaseInv'
  BY <1>12 DEF CcuReleases, PhaseInv, Stopping
<1>13. ASSUME NEW i \in Interface, UnsubscribeReturns(i) PROVE PhaseInv'
  <2>1. i \in leaving /\ stopPhase = "unsubscribing"
    BY <1>13 DEF UnsubscribeReturns, StopAwaits, PhaseInv
  <2>2. /\ leaving \ {i} \subseteq rpcClients /\ server = "listening"
        /\ startPhase = "running" /\ ~started /\ ~timer
    BY <2>1 DEF PhaseInv, Stopping
  <2>3. startPhase' = startPhase /\ started' = FALSE /\ timer' = FALSE
    BY <1>13, <2>2 DEF UnsubscribeReturns, TypeOK
  <2>4. QED
    BY <1>13, <2>2, <2>3, ContinueStopPhase DEF UnsubscribeReturns
<1>14. CASE EventServerClosed
  BY <1>14 DEF EventServerClosed, PhaseInv, Stopping
<1>15. CASE Exit
  BY <1>15 DEF Exit, PhaseInv, Stopping
<1>16. CASE UNCHANGED vars
  BY <1>16 DEF vars, PhaseInv, Stopping
<1>17. QED
  BY <1>1, <1>2, <1>3, <1>4, <1>5, <1>6, <1>7, <1>8, <1>9, <1>10, <1>11, <1>12,
     <1>13, <1>14, <1>15, <1>16 DEF Next

-----------------------------------------------------------------------------
(* The subscribe() calls in progress                                       *)

\* start() goes on to interface i when no call is in progress any more and
\* the map holds only interfaces before i.
LEMMA ContinueStartFlight ==
  ASSUME TypeOK, ~Stopping, stopPhase' = stopPhase,
         NEW i \in 1..(N + 1), NEW p \in [Interface -> Nat], ContinueStart(i, p),
         initSent' \in [Interface -> Nat], replyDue' \in [Interface -> Nat],
         \A j \in Interface : p[j] = 0 /\ initSent'[j] = 0 /\ replyDue'[j] = 0,
         \A j \in rpcClients' : j \in Interface /\ j < i /\ subscribed'[j]
  PROVE  FlightInv'
<1>1. CASE i <= N
  <2>1. i \in Interface
    BY <1>1, NAssumption DEF Interface
  <2>2. startPhase' = "subscribing" /\ cursor' = i /\ probing' = [p EXCEPT ![i] = @ + 1]
    BY <1>1, NAssumption DEF ContinueStart
  <2>3. Flights(i)' = 1
    BY <2>1, <2>2 DEF Flights
  <2>4. \A j \in Interface : j # i => Flights(j)' = 0
    BY <2>1, <2>2 DEF Flights
  <2>5. QED
    BY <2>1, <2>2, <2>3, <2>4 DEF FlightInv, Stopping
<1>2. CASE i > N
  <2>1. startPhase' = "running" /\ probing' = p
    BY <1>2, NAssumption DEF ContinueStart
  <2>2. \A j \in Interface : Flights(j)' = 0
    BY <2>1 DEF Flights
  <2>3. QED
    BY <2>1, <2>2 DEF FlightInv, Stopping
<1>3. QED
  BY <1>1, <1>2, NAssumption

\* While the loop of start() is not waiting for i, a call of i in progress
\* means that the plugin runs or stops.
LEMMA FlightOfWatchdog ==
  ASSUME TypeOK, FlightInv, NEW i \in Interface, Flights(i) > 0
  PROVE  \/ StartAwaits(i) /\ Flights(i) = 1
         \/ ~StartAwaits(i) /\ startPhase = "running"
BY DEF FlightInv, StartAwaits

\* The single call of start() leaves no other call in progress.
LEMMA FlightOfStart ==
  ASSUME TypeOK, FlightInv, NEW i \in Interface, StartAwaits(i)
  PROVE  \A j \in Interface :
           /\ j # i => probing[j] = 0 /\ initSent[j] = 0 /\ replyDue[j] = 0
           /\ probing[i] + initSent[i] + replyDue[i] = 1
BY DEF FlightInv, StartAwaits, TypeOK, Flights

\* While the plugin runs or stops, calls may end and clients be re-marked.
LEMMA FlightsShrink ==
  ASSUME TypeOK, FlightInv, startPhase = "running",
         UNCHANGED <<startPhase, stopPhase, rpcClients, overtaken>>,
         \A j \in Interface : Flights(j) \in Nat /\ Flights(j)' \in Nat /\ Flights(j)' <= Flights(j),
         ~Stopping => \A j \in rpcClients : subscribed[j] => subscribed'[j]
  PROVE  FlightInv'
BY DEF FlightInv, Stopping

\* A subscribe() of i that rejects, whoever called it.
LEMMA RejectedFlight ==
  ASSUME TypeOK, PhaseInv, FlightInv, NEW i \in Interface, NEW p \in [Interface -> Nat],
         Flights(i) > 0, Rejected(i, p),
         UNCHANGED <<stopPhase, rpcClients, subscribed, overtaken>>,
         initSent' \in [Interface -> Nat], replyDue' \in [Interface -> Nat],
         p[i] + initSent'[i] + replyDue'[i] = Flights(i) - 1,
         \A j \in Interface : j # i =>
           p[j] = probing[j] /\ initSent'[j] = initSent[j] /\ replyDue'[j] = replyDue[j]
  PROVE  FlightInv'
<1>1. CASE StartAwaits(i)
  <2>1. ContinueStart(i + 1, p) /\ i + 1 \in 1..(N + 1) /\ ~Stopping
    BY <1>1, NAssumption DEF Rejected, PhaseInv, StartAwaits, Interface
  <2>2. Flights(i) = 1
    BY <1>1, FlightOfWatchdog
  <2>3. \A j \in Interface : p[j] = 0 /\ initSent'[j] = 0 /\ replyDue'[j] = 0
    <3>1. p[i] = 0 /\ initSent'[i] = 0 /\ replyDue'[i] = 0
      BY <2>2
    <3>2. QED
      BY <1>1, <3>1, FlightOfStart
  <2>4. \A j \in rpcClients' : j \in Interface /\ j < i + 1 /\ subscribed'[j]
    BY <1>1, <2>1 DEF FlightInv, StartAwaits, TypeOK, Interface
  <2>5. QED
    BY <2>1, <2>3, <2>4, ContinueStartFlight
<1>2. CASE ~StartAwaits(i)
  <2>1. startPhase = "running" /\ startPhase' = startPhase /\ probing' = p
    BY <1>2, FlightOfWatchdog DEF Rejected, startVars
  <2>2. \A j \in Interface :
           Flights(j) \in Nat /\ Flights(j)' \in Nat /\ Flights(j)' <= Flights(j)
    BY <2>1 DEF Flights, TypeOK
  <2>3. QED
    BY <2>1, <2>2, FlightsShrink
<1>3. QED
  BY <1>1, <1>2

\* Every step keeps the account of the subscribe() calls in progress.
LEMMA FlightStep == TypeOK /\ PhaseInv /\ FlightInv /\ [Next]_vars => FlightInv'
<1> SUFFICES ASSUME TypeOK, PhaseInv, FlightInv, [Next]_vars PROVE FlightInv'
  OBVIOUS
<1> USE DEF startVars, stopVars, clockVars, callVars, history
<1>1. CASE Launch
  BY <1>1 DEF Launch, FlightInv, Flights, Stopping, PhaseInv
<1>2. CASE EventServerListens \/ EventServerFails \/ PortsRefreshed
  BY <1>2 DEF EventServerListens, EventServerFails, PortsRefreshed,
              FlightInv, Flights, Stopping, PhaseInv
<1>3. CASE AddressesRefreshed
  <2>1. 1 \in 1..(N + 1) /\ ~Stopping /\ rpcClients' = {}
    BY <1>3, NAssumption DEF AddressesRefreshed, PhaseInv
  <2>2. \A j \in Interface : probing[j] = 0 /\ initSent[j] = 0 /\ replyDue[j] = 0
    BY <1>3 DEF AddressesRefreshed, FlightInv, Flights, TypeOK
  <2>3. QED
    BY <1>3, <2>1, <2>2, ContinueStartFlight DEF AddressesRefreshed, TypeOK
<1>4. ASSUME NEW i \in Interface, ProbeSucceeds(i) \/ CcuAccepts(i) PROVE FlightInv'
  <2>1. \A j \in Interface : Flights(j)' = Flights(j)
    BY <1>4 DEF ProbeSucceeds, CcuAccepts, Flights, TypeOK
  <2>2. UNCHANGED <<startPhase, cursor, stopPhase, rpcClients, subscribed, overtaken>>
    BY <1>4 DEF ProbeSucceeds, CcuAccepts
  <2>3. QED
    BY <2>1, <2>2 DEF FlightInv, Stopping
<1>5. ASSUME NEW i \in Interface, ProbeFails(i) PROVE FlightInv'
  <2> DEFINE p == [probing EXCEPT ![i] = @ - 1]
  <2>1. p \in [Interface -> Nat] /\ Flights(i) > 0
    BY <1>5 DEF ProbeFails, TypeOK, Flights
  <2>2. /\ p[i] + initSent'[i] + replyDue'[i] = Flights(i) - 1
        /\ \A j \in Interface : j # i =>
             p[j] = probing[j] /\ initSent'[j] = initSent[j] /\ replyDue'[j] = replyDue[j]
    BY <1>5 DEF ProbeFails, TypeOK, Flights
  <2>3. /\ UNCHANGED <<stopPhase, rpcClients, subscribed, overtaken>> /\ Rejected(i, p)
        /\ initSent' \in [Interface -> Nat] /\ replyDue' \in [Interface -> Nat]
    BY <1>5 DEF ProbeFails, TypeOK
  <2>4. QED
    BY <2>1, <2>2, <2>3, RejectedFlight
<1>6. ASSUME NEW i \in Interface, InitFails(i) \/ ReplyLost(i) PROVE FlightInv'
  <2>1. probing \in [Interface -> Nat] /\ Flights(i) > 0
    BY <1>6 DEF InitFails, ReplyLost, TypeOK, Flights
  <2>2. /\ probing[i] + initSent'[i] + replyDue'[i] = Flights(i) - 1
        /\ \A j \in Interface : j # i =>
             initSent'[j] = initSent[j] /\ replyDue'[j] = replyDue[j]
    BY <1>6 DEF InitFails, ReplyLost, TypeOK, Flights
  <2>3. /\ UNCHANGED <<stopPhase, rpcClients, subscribed, overtaken>> /\ Rejected(i, probing)
        /\ initSent' \in [Interface -> Nat] /\ replyDue' \in [Interface -> Nat]
    BY <1>6 DEF InitFails, ReplyLost, TypeOK
  <2>4. QED
    BY <2>1, <2>2, <2>3, RejectedFlight
<1>7. ASSUME NEW i \in Interface, SubscribeResolves(i) PROVE FlightInv'
  <2>1. Flights(i) > 0 /\ stopPhase' = stopPhase /\ overtaken' = overtaken
    BY <1>7 DEF SubscribeResolves, TypeOK, Flights
  <2>2. /\ initSent' \in [Interface -> Nat] /\ replyDue' \in [Interface -> Nat]
        /\ subscribed' = [subscribed EXCEPT ![i] = TRUE]
    BY <1>7 DEF SubscribeResolves, TypeOK
  <2>3. CASE StartAwaits(i)
    <3>1. ContinueStart(i + 1, probing) /\ i + 1 \in 1..(N + 1) /\ ~Stopping
      BY <1>7, <2>3, NAssumption DEF SubscribeResolves, PhaseInv, StartAwaits, Interface
    <3>2. \A j \in Interface : probing[j] = 0 /\ initSent'[j] = 0 /\ replyDue'[j] = 0
      <4>1. probing[i] + initSent[i] + replyDue[i] = 1
        BY <2>3, FlightOfStart
      <4>2. /\ replyDue[i] > 0 /\ initSent' = initSent
            /\ replyDue' = [replyDue EXCEPT ![i] = @ - 1]
        BY <1>7 DEF SubscribeResolves
      <4>3. probing[i] = 0 /\ initSent'[i] = 0 /\ replyDue'[i] = 0
        <5>1. probing[i] \in Nat /\ initSent[i] \in Nat /\ replyDue[i] \in Nat
          BY DEF TypeOK
        <5>2. replyDue'[i] = replyDue[i] - 1
          BY <4>2 DEF TypeOK
        <5>3. replyDue[i] > 0 /\ initSent'[i] = initSent[i]
          BY <4>2
        <5>4. probing[i] = 0 /\ initSent[i] = 0 /\ replyDue[i] = 1
          BY <4>1, <5>1, <5>3
        <5>5. QED
          BY <5>2, <5>3, <5>4
      <4>4. ASSUME NEW j \in Interface, j # i
            PROVE  probing[j] = 0 /\ initSent'[j] = 0 /\ replyDue'[j] = 0
        BY <2>3, <4>2, <4>4, FlightOfStart DEF TypeOK
      <4>5. QED
        BY <4>3, <4>4
    <3>3. rpcClients' = rpcClients \cup {i}
      BY <1>7, <2>3 DEF SubscribeResolves
    <3>4. \A j \in rpcClients' : j \in Interface /\ j < i + 1 /\ subscribed'[j]
      BY <2>2, <2>3, <3>1, <3>3 DEF FlightInv, StartAwaits, TypeOK, Interface
    <3>5. QED
      BY <2>1, <2>2, <3>1, <3>2, <3>4, ContinueStartFlight DEF TypeOK
  <2>4. CASE ~StartAwaits(i)
    <3>1. startPhase = "running" /\ UNCHANGED <<startPhase, rpcClients, probing>>
      BY <1>7, <2>1, <2>4, FlightOfWatchdog DEF SubscribeResolves
    <3>2. \A j \in Interface :
             Flights(j) \in Nat /\ Flights(j)' \in Nat /\ Flights(j)' <= Flights(j)
      BY <1>7, <3>1 DEF SubscribeResolves, Flights, TypeOK
    <3>3. \A j \in rpcClients : subscribed[j] => subscribed'[j]
      BY <2>2 DEF TypeOK
    <3>4. QED
      BY <2>1, <3>1, <3>2, <3>3, FlightsShrink
  <2>5. QED
    BY <2>3, <2>4
<1>8. CASE ClockTicks \/ WatchdogContent
  BY <1>8 DEF ClockTicks, WatchdogContent, FlightInv, Flights, Stopping
<1>9. CASE WatchdogFires
  <2>1. startPhase = "running" /\ ~Stopping
    BY <1>9 DEF WatchdogFires, PhaseInv
  <2>2. \A j \in Interface : j \notin rpcClients => Flights(j)' = Flights(j)
    BY <1>9 DEF WatchdogFires, Flights
  <2>3. UNCHANGED <<startPhase, stopPhase, rpcClients, subscribed>>
    BY <1>9 DEF WatchdogFires
  <2>4. QED
    BY <2>1, <2>2, <2>3 DEF FlightInv, Stopping
<1>10. ASSUME NEW i \in Interface, EventArrives(i) \/ CcuForgets(i) \/ CcuReleases(i)
       PROVE  FlightInv'
  <2>1. UNCHANGED <<startPhase, cursor, stopPhase, rpcClients, subscribed, overtaken,
                    probing, initSent, replyDue>>
    BY <1>10 DEF EventArrives, CcuForgets, CcuReleases
  <2>2. QED
    BY <2>1 DEF FlightInv, Flights, Stopping
<1>11. CASE ShutdownSkipped
  BY <1>11 DEF ShutdownSkipped, FlightInv, Flights, Stopping
<1>12. CASE Shutdown
  <2>1. startPhase = "running" /\ startPhase' = startPhase /\ Stopping'
    BY <1>12 DEF Shutdown, PhaseInv, ContinueStop, Stopping
  <2>2. \A j \in Interface : Flights(j)' > 0 => j \in overtaken'
    BY <1>12 DEF Shutdown, Flights
  <2>3. QED
    BY <2>1, <2>2 DEF FlightInv
<1>13. ASSUME NEW i \in Interface, UnsubscribeReturns(i) PROVE FlightInv'
  <2>1. stopPhase = "unsubscribing" /\ startPhase = "running" /\ Stopping
    BY <1>13 DEF UnsubscribeReturns, StopAwaits, PhaseInv, Stopping
  <2>2. startPhase' = startPhase /\ Stopping' /\ overtaken' = overtaken
    BY <1>13 DEF UnsubscribeReturns, ContinueStop, Stopping
  <2>3. \A j \in Interface : Flights(j)' = Flights(j)
    BY <1>13 DEF UnsubscribeReturns, Flights
  <2>4. QED
    BY <2>1, <2>2, <2>3 DEF FlightInv
<1>14. CASE EventServerClosed
  BY <1>14 DEF EventServerClosed, FlightInv, Flights, Stopping, PhaseInv
<1>15. CASE Exit
  <2>1. startPhase' = "off" /\ stopPhase' = "idle" /\ rpcClients' = {}
    BY <1>15 DEF Exit
  <2>2. \A j \in Interface : Flights(j)' = 0
    BY <1>15 DEF Exit, Flights, None
  <2>3. QED
    BY <2>1, <2>2 DEF FlightInv, Stopping
<1>16. CASE UNCHANGED vars
  BY <1>16 DEF vars, FlightInv, Flights, Stopping
<1>17. QED
  BY <1>1, <1>2, <1>3, <1>4, <1>5, <1>6, <1>7, <1>8, <1>9, <1>10, <1>11, <1>12,
     <1>13, <1>14, <1>15, <1>16 DEF Next

-----------------------------------------------------------------------------
(* The subscriptions the CCU holds                                         *)

\* Steps that touch neither the CCU's table nor what accounts for it.
LEMMA AccountFrame ==
  ASSUME AccountInv, Stopping' <=> Stopping,
         startPhase' = "subscribing" <=> startPhase = "subscribing",
         UNCHANGED <<overtaken, lost, ccuSub, rpcClients, replyDue, leaving, unsubStage>>
  PROVE  AccountInv'
BY DEF AccountInv, Accounted, StopAwaits

\* When a call of start() ends, no other reply is due.
LEMMA AccountOfRejected ==
  ASSUME TypeOK, PhaseInv, FlightInv, AccountInv,
         NEW i \in Interface, NEW p, Rejected(i, p), Flights(i) > 0,
         UNCHANGED <<stopPhase, overtaken, ccuSub, rpcClients, leaving, unsubStage>>,
         \A j \in Interface : j # i => replyDue'[j] = replyDue[j] /\ (j \in lost' <=> j \in lost),
         \/ replyDue'[i] = replyDue[i] /\ (i \in lost' <=> i \in lost)
              /\ (StartAwaits(i) => replyDue[i] = 0)
         \/ StartAwaits(i) /\ i \in lost'
         \/ ~StartAwaits(i) /\ lost' = lost
  PROVE  AccountInv'
<1>1. Stopping' <=> Stopping
  BY DEF Stopping
<1>2. ASSUME NEW j \in Interface PROVE Accounted(j)'
  <2>1. CASE StartAwaits(i)
    <3>1. j # i => replyDue[j] = 0
      BY <2>1, FlightOfStart
    <3>2. Accounted(j)
      BY DEF AccountInv
    <3>3. QED
      BY <1>1, <2>1, <3>1, <3>2 DEF Accounted, StopAwaits
  <2>2. CASE ~StartAwaits(i)
    <3>1. startPhase = "running" /\ startPhase' = startPhase
      BY <2>2, FlightOfWatchdog DEF Rejected, startVars
    <3>2. j \in lost' <=> j \in lost
      BY <2>2
    <3>3. Accounted(j)
      BY DEF AccountInv
    <3>4. QED
      BY <1>1, <3>1, <3>2, <3>3 DEF Accounted, StopAwaits
  <2>3. QED
    BY <2>1, <2>2
<1>3. QED
  BY <1>1, <1>2 DEF AccountInv

\* Every step keeps each subscription of the CCU accounted for.
LEMMA AccountStep ==
  TypeOK /\ PhaseInv /\ FlightInv /\ AccountInv /\ [Next]_vars => AccountInv'
<1> SUFFICES ASSUME TypeOK, PhaseInv, FlightInv, AccountInv, [Next]_vars PROVE AccountInv'
  OBVIOUS
<1> USE DEF startVars, stopVars, clockVars, callVars, history
<1>1. CASE Launch \/ EventServerListens \/ EventServerFails \/ PortsRefreshed
  BY <1>1, AccountFrame
     DEF Launch, EventServerListens, EventServerFails, PortsRefreshed, Stopping
<1>2. CASE AddressesRefreshed
  <2>1. startPhase # "subscribing" /\ (Stopping' <=> Stopping)
    BY <1>2 DEF AddressesRefreshed, Stopping
  <2>2. UNCHANGED <<overtaken, lost, ccuSub, rpcClients, replyDue, leaving, unsubStage>>
    BY <1>2 DEF AddressesRefreshed
  <2>3. QED
    BY <2>1, <2>2 DEF AccountInv, Accounted, StopAwaits
<1>3. ASSUME NEW i \in Interface, ProbeSucceeds(i) \/ EventArrives(i) PROVE AccountInv'
  BY <1>3, AccountFrame DEF ProbeSucceeds, EventArrives, Stopping
<1>4. ASSUME NEW i \in Interface, ProbeFails(i) \/ InitFails(i) PROVE AccountInv'
  <2>1. probing[i] > 0 \/ initSent[i] > 0
    BY <1>4 DEF ProbeFails, InitFails
  <2>2. Flights(i) > 0
    BY <2>1 DEF Flights, TypeOK
  <2>3. StartAwaits(i) => replyDue[i] = 0
    BY <2>1, FlightOfStart DEF TypeOK
  <2>4. PICK p : Rejected(i, p)
    BY <1>4 DEF ProbeFails, InitFails
  <2>5. UNCHANGED <<stopPhase, overtaken, ccuSub, rpcClients, leaving, unsubStage,
                    replyDue, lost>>
    BY <1>4 DEF ProbeFails, InitFails
  <2>6. QED
    BY <2>2, <2>3, <2>4, <2>5, AccountOfRejected
<1>5. ASSUME NEW i \in Interface, CcuAccepts(i) PROVE AccountInv'
  <2>1. /\ UNCHANGED <<startPhase, stopPhase, overtaken, lost, rpcClients, leaving, unsubStage>>
        /\ ccuSub' = [ccuSub EXCEPT ![i] = TRUE] /\ replyDue' = [replyDue EXCEPT ![i] = @ + 1]
    BY <1>5 DEF CcuAccepts
  <2>2. Flights(i) > 0
    BY <1>5 DEF CcuAccepts, Flights, TypeOK
  <2>3. replyDue'[i] > 0
    BY <2>1 DEF TypeOK
  <2>4. startPhase = "subscribing" \/ startPhase = "running"
    BY <2>2, FlightOfWatchdog DEF StartAwaits
  <2>5. Accounted(i)'
    BY <2>1, <2>2, <2>3, <2>4 DEF Accounted, FlightInv, Stopping
  <2>6. ASSUME NEW j \in Interface, j # i PROVE Accounted(j)'
    <3>1. ccuSub'[j] = ccuSub[j] /\ replyDue'[j] = replyDue[j]
      BY <2>1, <2>6 DEF TypeOK
    <3>2. QED
      BY <2>1, <3>1 DEF AccountInv, Accounted, Stopping, StopAwaits
  <2>7. QED
    BY <2>1, <2>5, <2>6 DEF AccountInv, Stopping
<1>6. ASSUME NEW i \in Interface, ReplyLost(i) PROVE AccountInv'
  <2>1. Flights(i) > 0
    BY <1>6 DEF ReplyLost, Flights, TypeOK
  <2>2. \A j \in Interface : j # i => replyDue'[j] = replyDue[j] /\ (j \in lost' <=> j \in lost)
    BY <1>6 DEF ReplyLost, TypeOK
  <2>3. \/ StartAwaits(i) /\ i \in lost'
        \/ ~StartAwaits(i) /\ lost' = lost
    BY <1>6 DEF ReplyLost
  <2>4. /\ Rejected(i, probing)
        /\ UNCHANGED <<stopPhase, overtaken, ccuSub, rpcClients, leaving, unsubStage>>
    BY <1>6 DEF ReplyLost
  <2>5. QED
    BY <2>1, <2>2, <2>3, <2>4, AccountOfRejected
<1>7. ASSUME NEW i \in Interface, SubscribeResolves(i) PROVE AccountInv'
  <2>1. /\ UNCHANGED <<stopPhase, overtaken, ccuSub, leaving, unsubStage>>
        /\ Flights(i) > 0
    BY <1>7 DEF SubscribeResolves, Flights, TypeOK
  <2>2. CASE StartAwaits(i)
    <3>1. rpcClients' = rpcClients \cup {i} /\ lost' = lost \ {i} /\ ~Stopping
      BY <1>7, <2>2 DEF SubscribeResolves, PhaseInv, StartAwaits
    <3>2. ASSUME NEW j \in Interface, j # i PROVE Accounted(j)'
      <4>1. replyDue[j] = 0
        BY <2>2, <3>2, FlightOfStart
      <4>2. Accounted(j)
        BY DEF AccountInv
      <4>3. QED
        BY <2>1, <3>1, <3>2, <4>1, <4>2 DEF Accounted, Stopping, StopAwaits
    <3>3. Accounted(i)'
      BY <2>1, <3>1 DEF Accounted, Stopping
    <3>4. QED
      BY <2>1, <3>1, <3>2, <3>3 DEF AccountInv, Stopping
  <2>3. CASE ~StartAwaits(i)
    <3>1. startPhase = "running" /\ UNCHANGED <<startPhase, rpcClients, lost>>
      BY <1>7, <2>1, <2>3, FlightOfWatchdog DEF SubscribeResolves
    <3>2. QED
      BY <2>1, <3>1 DEF AccountInv, Accounted, Stopping, StopAwaits
  <2>4. QED
    BY <2>2, <2>3
<1>8. CASE ClockTicks \/ WatchdogContent \/ WatchdogFires
  BY <1>8, AccountFrame DEF ClockTicks, WatchdogContent, WatchdogFires, Stopping
<1>9. ASSUME NEW i \in Interface, CcuForgets(i) PROVE AccountInv'
  <2>1. /\ UNCHANGED <<startPhase, stopPhase, overtaken, lost, rpcClients, replyDue, leaving,
                        unsubStage>>
        /\ ccuSub' = [ccuSub EXCEPT ![i] = FALSE]
    BY <1>9 DEF CcuForgets
  <2>2. \A j \in Interface : ccuSub'[j] => ccuSub[j]
    BY <2>1 DEF TypeOK
  <2>3. QED
    BY <2>1, <2>2 DEF AccountInv, Accounted, Stopping, StopAwaits
<1>10. CASE ShutdownSkipped
  BY <1>10, AccountFrame DEF ShutdownSkipped, Stopping
<1>11. CASE Shutdown
  <2> DEFINE left == {i \in rpcClients : subscribed[i]}
  <2>1. ~Stopping /\ startPhase = "running" /\ started
    BY <1>11 DEF Shutdown, Stopping, PhaseInv
  <2>2. UNCHANGED <<lost, ccuSub>> /\ ContinueStop(left)
    BY <1>11 DEF Shutdown
  <2>3. Stopping'
    BY <2>2 DEF ContinueStop, Stopping
  <2>4. ASSUME NEW j \in Interface PROVE Accounted(j)'
    <3>1. SUFFICES ASSUME ccuSub[j], j \notin lost
                   PROVE  j \in leaving' /\ unsubStage' = "sent"
      BY <2>2 DEF Accounted
    <3>2. leaving = {} /\ overtaken = {}
      BY <2>1 DEF PhaseInv, AccountInv, Stopping
    <3>3. Accounted(j)
      BY DEF AccountInv
    <3>4. j \in rpcClients
      BY <2>1, <3>1, <3>2, <3>3 DEF Accounted
    <3>5. j \in left
      BY <2>1, <3>4 DEF FlightInv
    <3>6. QED
      BY <2>2, <3>5 DEF ContinueStop
  <2>5. QED
    BY <2>3, <2>4 DEF AccountInv
<1>12. ASSUME NEW i \in Interface, CcuReleases(i) PROVE AccountInv'
  <2>1. /\ UNCHANGED <<startPhase, stopPhase, overtaken, lost, rpcClients, replyDue, leaving>>
        /\ StopAwaits(i) /\ unsubStage = "sent" /\ ccuSub' = [ccuSub EXCEPT ![i] = FALSE]
    BY <1>12 DEF CcuReleases
  <2>2. ~ccuSub'[i]
    BY <2>1 DEF TypeOK
  <2>3. ASSUME NEW j \in Interface, j # i PROVE Accounted(j)'
    <3>1. ccuSub'[j] = ccuSub[j]
      BY <2>1, <2>3 DEF TypeOK
    <3>2. ~StopAwaits(j)'
      BY <2>1, <2>3 DEF StopAwaits, Interface
    <3>3. QED
      BY <2>1, <3>1, <3>2 DEF AccountInv, Accounted, Stopping
  <2>4. QED
    BY <2>1, <2>2, <2>3 DEF AccountInv, Accounted, Stopping
<1>13. ASSUME NEW i \in Interface, UnsubscribeReturns(i) PROVE AccountInv'
  <2>1. i \in leaving /\ Stopping /\ startPhase = "running"
    BY <1>13 DEF UnsubscribeReturns, StopAwaits, PhaseInv, Stopping
  <2>2. UNCHANGED <<ccuSub, overtaken>> /\ ContinueStop(leaving \ {i}) /\ StopAwaits(i)
    BY <1>13 DEF UnsubscribeReturns
  <2>3. lost' = IF unsubStage = "sent" THEN lost \cup {i} ELSE lost
    BY <1>13 DEF UnsubscribeReturns
  <2>4. unsubStage \in {"sent", "answered"}
    BY <2>1 DEF PhaseInv, TypeOK
  <2>5. ASSUME NEW j \in Interface PROVE Accounted(j)'
    <3>1. SUFFICES ASSUME ccuSub[j], j \notin lost', j \notin overtaken
                   PROVE  j \in leaving' /\ unsubStage' = "sent"
      BY <2>2 DEF Accounted
    <3>2. Accounted(j) /\ j \notin lost
      BY <2>3, <3>1 DEF AccountInv
    <3>3. j \in leaving /\ ~(unsubStage = "answered" /\ StopAwaits(j))
      BY <2>1, <3>1, <3>2 DEF Accounted
    <3>4. j # i
      BY <2>2, <2>3, <2>4, <3>1, <3>3
    <3>5. QED
      BY <2>2, <3>3, <3>4 DEF ContinueStop
  <2>6. Stopping'
    BY <2>2 DEF ContinueStop, Stopping
  <2>7. QED
    BY <2>5, <2>6 DEF AccountInv
<1>14. CASE EventServerClosed
  BY <1>14, AccountFrame DEF EventServerClosed, Stopping
<1>15. CASE Exit
  BY <1>15 DEF Exit, AccountInv, Accounted
<1>16. CASE UNCHANGED vars
  BY <1>16, AccountFrame DEF vars, Stopping
<1>17. QED
  BY <1>1, <1>2, <1>3, <1>4, <1>5, <1>6, <1>7, <1>8, <1>9, <1>10, <1>11, <1>12,
     <1>13, <1>14, <1>15, <1>16 DEF Next

-----------------------------------------------------------------------------
(* The watchdog's clock                                                    *)

\* Arming or leaving alone keeps the clock within its bound.
LEMMA ContinueStartClock ==
  ASSUME ClockInv, NEW i, NEW p, ContinueStart(i, p)
  PROVE  ClockInv'
<1>1. WatchdogInterval \in Nat /\ WatchdogTime \in Nat
  BY IntervalType, TimeAssumption
<1>2. UNCHANGED clockVars \/ (elapsed' = 0 /\ untilTick' = WatchdogInterval)
  BY DEF ContinueStart, clockVars
<1>3. CASE UNCHANGED clockVars
  BY <1>3 DEF ClockInv, clockVars
<1>4. CASE elapsed' = 0 /\ untilTick' = WatchdogInterval
  <2>1. 0 + WatchdogInterval <= WatchdogTime + WatchdogInterval
    BY <1>1
  <2>2. QED
    BY <1>4, <2>1 DEF ClockInv
<1>5. QED
  BY <1>2, <1>3, <1>4

\* Every step keeps the watchdog's clock within its bound.
LEMMA ClockStep == TypeOK /\ ClockInv /\ [Next]_vars => ClockInv'
<1> SUFFICES ASSUME TypeOK, ClockInv, [Next]_vars PROVE ClockInv'
  OBVIOUS
<1> USE DEF startVars, stopVars, clockVars, callVars, history
<1>a. WatchdogInterval \in Nat /\ WatchdogTime \in Nat
  BY IntervalType, TimeAssumption
<1>1. CASE UNCHANGED clockVars
  BY <1>1 DEF ClockInv
<1>2. CASE Launch \/ EventServerListens \/ EventServerFails \/ PortsRefreshed
  BY <1>1, <1>2 DEF Launch, EventServerListens, EventServerFails, PortsRefreshed
<1>3. CASE AddressesRefreshed
  BY <1>3, ContinueStartClock DEF AddressesRefreshed
<1>4. ASSUME NEW i \in Interface,
             ProbeFails(i) \/ InitFails(i) \/ ReplyLost(i) \/ SubscribeResolves(i)
      PROVE  ClockInv'
  <2>1. UNCHANGED clockVars \/ \E p : ContinueStart(i + 1, p)
    BY <1>4 DEF ProbeFails, InitFails, ReplyLost, SubscribeResolves, Rejected
  <2>2. QED
    BY <1>1, <2>1, ContinueStartClock
<1>5. ASSUME NEW i \in Interface,
             ProbeSucceeds(i) \/ CcuAccepts(i) \/ CcuForgets(i) \/ CcuReleases(i)
               \/ UnsubscribeReturns(i)
      PROVE  ClockInv'
  BY <1>1, <1>5 DEF ProbeSucceeds, CcuAccepts, CcuForgets, CcuReleases, UnsubscribeReturns
<1>6. ASSUME NEW i \in Interface, EventArrives(i) PROVE ClockInv'
  BY <1>6, <1>a DEF EventArrives, ClockInv, TypeOK
<1>7. CASE ClockTicks
  BY <1>7, <1>a DEF ClockTicks, ClockInv, TypeOK
<1>8. CASE WatchdogContent
  BY <1>8, <1>a DEF WatchdogContent, ClockInv, TypeOK
<1>9. CASE WatchdogFires
  BY <1>9, <1>a DEF WatchdogFires, ClockInv, TypeOK
<1>10. CASE ShutdownSkipped \/ EventServerClosed
  BY <1>1, <1>10 DEF ShutdownSkipped, EventServerClosed
<1>11. CASE Shutdown \/ Exit
  BY <1>11 DEF Shutdown, Exit, ClockInv
<1>12. CASE UNCHANGED vars
  BY <1>1, <1>12 DEF vars
<1>13. QED
  BY <1>2, <1>3, <1>4, <1>5, <1>6, <1>7, <1>8, <1>9, <1>10, <1>11, <1>12 DEF Next

-----------------------------------------------------------------------------
(* The theorems                                                            *)

\* The inductive invariant holds when the process starts.
LEMMA InitInv == Init => IInv
<1> SUFFICES ASSUME Init PROVE IInv
  OBVIOUS
<1>1. TypeOK
  BY InitType
<1>2. PhaseInv
  BY DEF Init, PhaseInv, Stopping
<1>3. FlightInv
  BY DEF Init, FlightInv, Flights, None, Stopping
<1>4. AccountInv
  BY DEF Init, AccountInv, Accounted
<1>5. ClockInv
  BY Zenon DEF Init, ClockInv
<1>6. QED
  BY <1>1, <1>2, <1>3, <1>4, <1>5 DEF IInv

\* The inductive invariant holds throughout.
THEOREM Inductive == Spec => []IInv
<1>1. IInv /\ [Next]_vars => IInv'
  BY TypeStep, PhaseStep, FlightStep, AccountStep, ClockStep DEF IInv
<1>2. QED
  BY InitInv, <1>1, PTL DEF Spec

\* The callback server listens for as long as anything may rely on it.
THEOREM Served == Spec => []ServedWhileRegistered
<1>1. IInv => ServedWhileRegistered
  <2> SUFFICES ASSUME IInv PROVE ServedWhileRegistered
    OBVIOUS
  <2>1. CASE rpcClients # {}
    BY <2>1 DEF IInv, PhaseInv, TypeOK, StopPhases, Stopping, ServedWhileRegistered
  <2>2. CASE ~Stopping /\ \E i \in Interface : Flights(i) > 0
    <3>1. startPhase \in {"subscribing", "running"}
      BY <2>2 DEF IInv, FlightInv
    <3>2. QED
      BY <2>2, <3>1 DEF IInv, PhaseInv, ServedWhileRegistered
  <2>3. QED
    BY <2>1, <2>2 DEF ServedWhileRegistered
<1>2. QED
  BY Inductive, <1>1, PTL

\* What stop() leaves behind on the CCU is only what a fault or a
\* re-subscription in progress explains.
THEOREM Unregisters == Spec => []StopUnregisters
<1>1. IInv => StopUnregisters
  BY DEF IInv, AccountInv, Accounted, PhaseInv, Stopping, StopUnregisters
<1>2. QED
  BY Inductive, <1>1, PTL

\* Silence is noticed within watchdogSeconds and one interval.
THEOREM SilenceNoticed == Spec => []SilenceBounded
<1>1. IInv => SilenceBounded
  <2> SUFFICES ASSUME IInv, timer PROVE elapsed <= WatchdogTime + WatchdogInterval
    BY DEF SilenceBounded
  <2>1. /\ elapsed \in Nat /\ untilTick \in Nat
        /\ elapsed + untilTick <= WatchdogTime + WatchdogInterval
    BY DEF IInv, TypeOK, ClockInv
  <2>2. QED
    BY <2>1, IntervalType, TimeAssumption
<1>2. QED
  BY Inductive, <1>1, PTL

\* No subscribe() is started once stop() is under way.
THEOREM NoLateSubscribe == Spec => NoSubscribeAfterStop
<1>1. IInv /\ [Next]_vars =>
        [Stopping => \A i \in Interface : probing'[i] <= probing[i]]_vars
  <2> SUFFICES ASSUME IInv, Next, Stopping, NEW j \in Interface
               PROVE  probing'[j] <= probing[j]
    OBVIOUS
  <2> USE DEF startVars, stopVars, clockVars, callVars, history
  <2>1. startPhase = "running" /\ ~timer /\ ~started
    BY DEF IInv, PhaseInv
  <2>2. probing \in [Interface -> Nat]
    BY DEF IInv, TypeOK
  <2>3. ASSUME UNCHANGED probing PROVE probing'[j] <= probing[j]
    BY <2>2, <2>3
  <2>4. ASSUME NEW i \in Interface PROVE ~StartAwaits(i)
    BY <2>1 DEF StartAwaits
  <2>5. ASSUME NEW i \in Interface, ProbeSucceeds(i) \/ ProbeFails(i)
        PROVE  probing'[j] <= probing[j]
    <3>1. probing' = [probing EXCEPT ![i] = @ - 1]
      BY <2>4, <2>5 DEF ProbeSucceeds, ProbeFails, Rejected
    <3>2. QED
      BY <2>2, <3>1
  <2>6. ASSUME NEW i \in Interface,
               \/ CcuAccepts(i) \/ InitFails(i) \/ ReplyLost(i) \/ SubscribeResolves(i)
               \/ EventArrives(i) \/ CcuForgets(i) \/ CcuReleases(i) \/ UnsubscribeReturns(i)
        PROVE  probing'[j] <= probing[j]
    BY <2>3, <2>4, <2>6
       DEF CcuAccepts, InitFails, ReplyLost, SubscribeResolves, EventArrives, CcuForgets,
           CcuReleases, UnsubscribeReturns, Rejected
  <2>7. CASE Exit
    <3>1. probing'[j] = 0 /\ probing[j] \in Nat
      BY <2>2, <2>7 DEF Exit, None
    <3>2. QED
      BY <3>1
  <2>8. CASE Launch \/ EventServerListens \/ EventServerFails \/ PortsRefreshed
             \/ AddressesRefreshed \/ ClockTicks \/ WatchdogContent \/ WatchdogFires
    BY <2>1, <2>8 DEF Launch, EventServerListens, EventServerFails, PortsRefreshed,
                      AddressesRefreshed, ClockTicks, WatchdogContent, WatchdogFires
  <2>9. CASE ShutdownSkipped \/ Shutdown \/ EventServerClosed
    BY <2>3, <2>9 DEF ShutdownSkipped, Shutdown, EventServerClosed
  <2>10. QED
    BY <2>5, <2>6, <2>7, <2>8, <2>9 DEF Next
<1>2. QED
  BY Inductive, <1>1, PTL DEF Spec, NoSubscribeAfterStop
=============================================================================
