--------------------------- MODULE CcuConnection ---------------------------
(***************************************************************************)
(* The connection between the plugin and the CCU: CcuClient.start/stop and *)
(* its watchdog (src/ccu/CcuClient.ts), one RpcClient per enabled          *)
(* interface (src/ccu/RpcClient.ts), the callback server                   *)
(* (src/ccu/EventServer.ts) and the two Homebridge events that drive them  *)
(* (src/platform.ts).  Every `await` of that code is a point where other   *)
(* callbacks run, so the code between two awaits is one action.            *)
(*                                                                         *)
(* The CCU is external: per interface process it remembers whether it      *)
(* pushes events to our callback URL (ccuSub).                             *)
(*                                                                         *)
(* Abstracted: ports, URLs and the address index (data no step here reads),*)
(* the transport object RpcClient re-creates on demand, and the JSON-RPC   *)
(* session that stop() drops last (module JsonRpcSession).                 *)
(***************************************************************************)
EXTENDS Naturals

CONSTANTS
  N,              \* number of enabled interfaces, numbered in the order of ENABLED_INTERFACES
  WatchdogTime,   \* eventServer.watchdogSeconds, in clock ticks
  MinInterval,    \* the 30 s floor of the watchdog interval, in clock ticks
  MaxFlights      \* bound: subscribe() calls of one interface in progress at once

ASSUME NAssumption == N \in Nat
ASSUME TimeAssumption == WatchdogTime \in Nat /\ MinInterval \in Nat \ {0}
ASSUME FlightsAssumption == MaxFlights \in Nat \ {0}

Interface == 1..N

\* The period of the watchdog's setInterval.
WatchdogInterval ==
  IF WatchdogTime \div 3 > MinInterval THEN WatchdogTime \div 3 ELSE MinInterval

VARIABLES
  startPhase,   \* where didFinishLaunching / CcuClient.start() is suspended
  cursor,       \* the interface the loop of start() is at
  stopPhase,    \* where shutdown / CcuClient.stop() is suspended
  leaving,      \* the clients the loop of stop() has still to unsubscribe
  unsubStage,   \* the init(url, '') request for the first of them
  started,      \* CcuClient.started
  rpcClients,   \* the keys of CcuClient.rpcClients
  subscribed,   \* RpcClient.subscribed of each interface's client
  server,       \* the callback server
  timer,        \* whether the watchdog interval is armed
  elapsed,      \* time since lastEventAt, counted while the watchdog is armed
  untilTick,    \* time until the watchdog's next tick
  probing,      \* subscribe() calls per interface that await the TCP probe
  initSent,     \* ... whose init request the CCU has not processed
  replyDue,     \* ... whose init request the CCU has processed, reply under way
  ccuSub,       \* external: the CCU's interface process pushes events to us
  lost,         \* history: a fault made the two sides disagree on this interface
  overtaken     \* history: stop() began while a subscribe() of it was in progress

startVars == <<startPhase, cursor>>
stopVars  == <<stopPhase, leaving, unsubStage>>
clockVars == <<timer, elapsed, untilTick>>
callVars  == <<probing, initSent, replyDue>>
history   == <<lost, overtaken>>
vars == <<startVars, stopVars, started, rpcClients, subscribed, server,
          clockVars, callVars, ccuSub, history>>

StartPhases == {"off", "binding", "ports", "addresses", "subscribing", "running", "failed"}
StopPhases  == {"idle", "skipped", "unsubscribing", "closing", "stopped"}

Flights(i) == probing[i] + initSent[i] + replyDue[i]

\* stop() has passed its `if (!this.started) return`.
Stopping == stopPhase \in {"unsubscribing", "closing", "stopped"}

None == [i \in Interface |-> 0]

\* The process has not been launched, and the CCU has never heard of it.
Init ==
  /\ startPhase = "off" /\ cursor = 1
  /\ stopPhase = "idle" /\ leaving = {} /\ unsubStage = "none"
  /\ started = FALSE /\ rpcClients = {} /\ subscribed = [i \in Interface |-> FALSE]
  /\ server = "down"
  /\ timer = FALSE /\ elapsed = 0 /\ untilTick = 0
  /\ probing = None /\ initSent = None /\ replyDue = None
  /\ ccuSub = [i \in Interface |-> FALSE]
  /\ lost = {} /\ overtaken = {}

-----------------------------------------------------------------------------
(* CcuClient.start()                                                       *)

\* didFinishLaunching calls start(), which binds the callback server first.
Launch ==
  /\ startPhase = "off"
  /\ startPhase' = "binding"
  /\ UNCHANGED <<cursor, stopVars, started, rpcClients, subscribed, server,
                 clockVars, callVars, ccuSub, history>>

EventServerListens ==
  /\ startPhase = "binding"
  /\ startPhase' = "ports"
  /\ server' = "listening"
  /\ UNCHANGED <<cursor, stopVars, started, rpcClients, subscribed,
                 clockVars, callVars, ccuSub, history>>

\* EADDRINUSE and the like reject start(); the platform logs "Startup failed".
EventServerFails ==
  /\ startPhase = "binding"
  /\ startPhase' = "failed"
  /\ UNCHANGED <<cursor, stopVars, started, rpcClients, subscribed, server,
                 clockVars, callVars, ccuSub, history>>

\* listInterfaces settled, either way.
PortsRefreshed ==
  /\ startPhase = "ports"
  /\ startPhase' = "addresses"
  /\ UNCHANGED <<cursor, stopVars, started, rpcClients, subscribed, server,
                 clockVars, callVars, ccuSub, history>>

\* The loop of start() reaches interface i: either it calls subscribe() on a
\* new client, or all are done and the watchdog is armed.  p is `probing` as
\* the rest of the step leaves it.
ContinueStart(i, p) ==
  \/ /\ i <= N
     /\ startPhase' = "subscribing"
     /\ cursor' = i
     /\ probing' = [p EXCEPT ![i] = @ + 1]
     /\ UNCHANGED <<started, clockVars>>
  \/ /\ i > N
     /\ startPhase' = "running"
     /\ cursor' = i
     /\ probing' = p
     /\ started' = TRUE
     /\ timer' = TRUE
     /\ elapsed' = 0
     /\ untilTick' = WatchdogInterval

\* listDevices settled, either way; the loop over the interfaces begins.
AddressesRefreshed ==
  /\ startPhase = "addresses"
  /\ ContinueStart(1, probing)
  /\ UNCHANGED <<stopVars, rpcClients, subscribed, server, initSent, replyDue,
                 ccuSub, history>>

-----------------------------------------------------------------------------
(* RpcClient.subscribe(), called by start() and by the watchdog            *)

StartAwaits(i) == startPhase = "subscribing" /\ cursor = i

\* subscribe() of i rejects: start() warns and goes on, without the client;
\* the watchdog's catch only warns.
Rejected(i, p) ==
  \/ StartAwaits(i) /\ ContinueStart(i + 1, p)
  \/ ~StartAwaits(i) /\ probing' = p /\ UNCHANGED <<startVars, started, clockVars>>

\* Fault: the probe lacks `if (settled) return`.
ProbeSucceedsAgain(i) ==
  /\ probing' = [probing EXCEPT ![i] = @ - 1]
  /\ initSent' = [initSent EXCEPT ![i] = @ + 1]
  /\ UNCHANGED <<startVars, stopVars, started, rpcClients, subscribed, server,
                 clockVars, replyDue, ccuSub, history>>

ProbeSucceeds(i) ==
  /\ probing[i] > 0
  /\ probing' = [probing EXCEPT ![i] = @ - 1]
  /\ initSent' = [initSent EXCEPT ![i] = @ + 1]
  /\ UNCHANGED <<startVars, stopVars, started, rpcClients, subscribed, server,
                 clockVars, replyDue, ccuSub, history>>

\* Connection refused, or the 5 s probe timeout.
ProbeFails(i) ==
  /\ probing[i] > 0
  /\ Rejected(i, [probing EXCEPT ![i] = @ - 1])
  /\ UNCHANGED <<stopVars, rpcClients, subscribed, server, initSent, replyDue,
                 ccuSub, history>>

\* External: the interface process handles init(url, id).
CcuAccepts(i) ==
  /\ initSent[i] > 0
  /\ initSent' = [initSent EXCEPT ![i] = @ - 1]
  /\ replyDue' = [replyDue EXCEPT ![i] = @ + 1]
  /\ ccuSub' = [ccuSub EXCEPT ![i] = TRUE]
  /\ UNCHANGED <<startVars, stopVars, started, rpcClients, subscribed, server,
                 clockVars, probing, history>>

\* The request never reached the CCU, or it answered with a fault.
InitFails(i) ==
  /\ initSent[i] > 0
  /\ initSent' = [initSent EXCEPT ![i] = @ - 1]
  /\ Rejected(i, probing)
  /\ UNCHANGED <<stopVars, rpcClients, subscribed, server, replyDue, ccuSub, history>>

\* The CCU registered us, but its reply is lost or unreadable.
ReplyLost(i) ==
  /\ replyDue[i] > 0
  /\ replyDue' = [replyDue EXCEPT ![i] = @ - 1]
  /\ Rejected(i, probing)
  /\ lost' = IF StartAwaits(i) THEN lost \cup {i} ELSE lost
  /\ UNCHANGED <<stopVars, rpcClients, subscribed, server, initSent, ccuSub, overtaken>>

\* subscribe() resolves; start() keeps the client and takes the next interface.
SubscribeResolves(i) ==
  /\ replyDue[i] > 0
  /\ replyDue' = [replyDue EXCEPT ![i] = @ - 1]
  /\ subscribed' = [subscribed EXCEPT ![i] = TRUE]
  /\ \/ /\ StartAwaits(i)
        /\ rpcClients' = rpcClients \cup {i}
        /\ lost' = lost \ {i}
        /\ ContinueStart(i + 1, probing)
     \/ /\ ~StartAwaits(i)
        /\ UNCHANGED <<startVars, started, clockVars, probing, rpcClients, lost>>
  /\ UNCHANGED <<stopVars, server, initSent, ccuSub, overtaken>>

-----------------------------------------------------------------------------
(* The watchdog and the events that feed it                                *)

ClockTicks ==
  /\ timer /\ untilTick > 0
  /\ elapsed' = elapsed + 1
  /\ untilTick' = untilTick - 1
  /\ UNCHANGED <<startVars, stopVars, started, rpcClients, subscribed, server,
                 timer, callVars, ccuSub, history>>

\* Fault: the tick allows one interval more than configured.
WatchdogContentLax ==
  /\ timer /\ untilTick = 0
  /\ elapsed <= WatchdogTime + WatchdogInterval
  /\ untilTick' = WatchdogInterval
  /\ UNCHANGED <<startVars, stopVars, started, rpcClients, subscribed, server,
                 timer, elapsed, callVars, ccuSub, history>>

\* The tick finds an event recent enough.
WatchdogContent ==
  /\ timer /\ untilTick = 0
  /\ elapsed <= WatchdogTime
  /\ untilTick' = WatchdogInterval
  /\ UNCHANGED <<startVars, stopVars, started, rpcClients, subscribed, server,
                 timer, elapsed, callVars, ccuSub, history>>

\* Fault: the tick spares the clients it believes subscribed.
WatchdogFiresIfUnsubscribed ==
  /\ timer /\ untilTick = 0
  /\ elapsed > WatchdogTime
  /\ \A i \in rpcClients : Flights(i) < MaxFlights
  /\ probing' = [i \in Interface |->
                   IF i \in rpcClients /\ ~subscribed[i] THEN probing[i] + 1 ELSE probing[i]]
  /\ elapsed' = 0
  /\ untilTick' = WatchdogInterval
  /\ UNCHANGED <<startVars, stopVars, started, rpcClients, subscribed, server,
                 timer, initSent, replyDue, ccuSub, history>>

\* The tick re-subscribes every client of the map, awaiting none of the calls.
WatchdogFires ==
  /\ timer /\ untilTick = 0
  /\ elapsed > WatchdogTime
  /\ \A i \in rpcClients : Flights(i) < MaxFlights
  /\ probing' = [i \in Interface |->
                   IF i \in rpcClients THEN probing[i] + 1 ELSE probing[i]]
  /\ elapsed' = 0
  /\ untilTick' = WatchdogInterval
  /\ UNCHANGED <<startVars, stopVars, started, rpcClients, subscribed, server,
                 timer, initSent, replyDue, ccuSub, history>>

\* The CCU posts an event; connections it holds open outlive server.close().
EventArrives(i) ==
  /\ ccuSub[i] /\ server # "down"
  /\ elapsed' = 0
  /\ UNCHANGED <<startVars, stopVars, started, rpcClients, subscribed, server,
                 timer, untilTick, callVars, ccuSub, history>>

\* External: the CCU restarts, or drops a client it could not reach.
CcuForgets(i) ==
  /\ ccuSub[i]
  /\ ccuSub' = [ccuSub EXCEPT ![i] = FALSE]
  /\ UNCHANGED <<startVars, stopVars, started, rpcClients, subscribed, server,
                 clockVars, callVars, history>>

-----------------------------------------------------------------------------
(* CcuClient.stop(), called once by the platform's shutdown                *)

\* Fault: stop() closes the server before it unsubscribes.
ContinueStopClosed(left) ==
  /\ leaving' = left
  /\ server' = "closing"
  /\ \/ left # {} /\ stopPhase' = "unsubscribing" /\ unsubStage' = "sent" /\ UNCHANGED rpcClients
     \/ left = {} /\ stopPhase' = "closing" /\ unsubStage' = "none" /\ rpcClients' = {}

\* The loop of stop() has the clients in `left` to go: it sends init(url, '')
\* to the first, or clears the map and closes the server.
ContinueStop(left) ==
  /\ leaving' = left
  /\ \/ /\ left # {}
        /\ stopPhase' = "unsubscribing"
        /\ unsubStage' = "sent"
        /\ UNCHANGED <<rpcClients, server>>
     \/ /\ left = {}
        /\ stopPhase' = "closing"
        /\ unsubStage' = "none"
        /\ rpcClients' = {}
        /\ server' = "closing"

\* stop() while start() has not finished: it returns at once.
ShutdownSkipped ==
  /\ startPhase # "off" /\ stopPhase = "idle"
  /\ ~started
  /\ stopPhase' = "skipped"
  /\ UNCHANGED <<startVars, leaving, unsubStage, started, rpcClients, subscribed, server,
                 clockVars, callVars, ccuSub, history>>

\* Fault: stop() forgets clearInterval.
ShutdownKeepsTimer ==
  /\ stopPhase = "idle"
  /\ started
  /\ started' = FALSE
  /\ ContinueStop({i \in rpcClients : subscribed[i]})
  /\ overtaken' = {i \in Interface : Flights(i) > 0}
  /\ UNCHANGED <<startVars, subscribed, clockVars, callVars, ccuSub, lost>>

Shutdown ==
  /\ stopPhase = "idle"
  /\ started
  /\ started' = FALSE
  /\ timer' = FALSE
  /\ ContinueStop({i \in rpcClients : subscribed[i]})
  /\ overtaken' = {i \in Interface : Flights(i) > 0}
  /\ UNCHANGED <<startVars, subscribed, elapsed, untilTick, callVars, ccuSub, lost>>

\* The client stop() awaits: the first of those left.
StopAwaits(i) == i \in leaving /\ \A j \in leaving : i <= j

\* External: the interface process handles init(url, '').
CcuReleases(i) ==
  /\ unsubStage = "sent" /\ StopAwaits(i)
  /\ unsubStage' = "answered"
  /\ ccuSub' = [ccuSub EXCEPT ![i] = FALSE]
  /\ UNCHANGED <<startVars, stopPhase, leaving, started, rpcClients, subscribed, server,
                 clockVars, callVars, history>>

\* Fault: an error of one unsubscribe() ends the loop of stop().
UnsubscribeThrows(i) ==
  /\ StopAwaits(i)
  /\ subscribed' = [subscribed EXCEPT ![i] = FALSE]
  /\ lost' = IF unsubStage = "sent" THEN lost \cup {i} ELSE lost
  /\ ContinueStop(IF unsubStage = "sent" THEN {} ELSE leaving \ {i})
  /\ UNCHANGED <<startVars, started, clockVars, callVars, ccuSub, overtaken>>

\* Fault: unsubscribe() returns only once the CCU has answered.
UnsubscribeAwaitsAnswer(i) ==
  /\ StopAwaits(i) /\ unsubStage = "answered"
  /\ subscribed' = [subscribed EXCEPT ![i] = FALSE]
  /\ ContinueStop(leaving \ {i})
  /\ UNCHANGED <<startVars, started, clockVars, callVars, ccuSub, history>>

\* unsubscribe() returns: errors are swallowed, so a request that never
\* reached the CCU looks like one that did.
UnsubscribeReturns(i) ==
  /\ StopAwaits(i)
  /\ subscribed' = [subscribed EXCEPT ![i] = FALSE]
  /\ lost' = IF unsubStage = "sent" THEN lost \cup {i} ELSE lost
  /\ ContinueStop(leaving \ {i})
  /\ UNCHANGED <<startVars, started, clockVars, callVars, ccuSub, overtaken>>

EventServerClosed ==
  /\ stopPhase = "closing"
  /\ stopPhase' = "stopped"
  /\ server' = "down"
  /\ UNCHANGED <<startVars, leaving, unsubStage, started, rpcClients, subscribed,
                 clockVars, callVars, ccuSub, history>>

-----------------------------------------------------------------------------
\* The process ends, orderly or not, at any point.  The CCU keeps what it has
\* and may still handle the requests that were under way.
Exit ==
  /\ startPhase # "off"
  /\ startPhase' = "off" /\ cursor' = 1
  /\ stopPhase' = "idle" /\ leaving' = {} /\ unsubStage' = "none"
  /\ started' = FALSE /\ rpcClients' = {} /\ subscribed' = [i \in Interface |-> FALSE]
  /\ server' = "down"
  /\ timer' = FALSE /\ elapsed' = 0 /\ untilTick' = 0
  /\ probing' = None /\ initSent' = None /\ replyDue' = None
  /\ overtaken' = {}
  /\ ccuSub' \in [Interface -> BOOLEAN]
  /\ \A i \in Interface :
       \/ ccuSub'[i] = ccuSub[i]
       \/ ccuSub'[i] /\ initSent[i] > 0
       \/ ~ccuSub'[i] /\ unsubStage = "sent" /\ StopAwaits(i)
  /\ lost' = {i \in Interface : ccuSub'[i]}

Next ==
  \/ Launch \/ EventServerListens \/ EventServerFails
  \/ PortsRefreshed \/ AddressesRefreshed
  \/ \E i \in Interface :
       \/ ProbeSucceeds(i) \/ ProbeFails(i)
       \/ CcuAccepts(i) \/ InitFails(i) \/ ReplyLost(i) \/ SubscribeResolves(i)
       \/ EventArrives(i) \/ CcuForgets(i)
       \/ CcuReleases(i) \/ UnsubscribeReturns(i)
  \/ ClockTicks \/ WatchdogContent \/ WatchdogFires
  \/ ShutdownSkipped \/ Shutdown \/ EventServerClosed
  \/ Exit

Spec == Init /\ [][Next]_vars

\* What the code and its environment owe us.  Node runs due callbacks and
\* timers; listen() and the JSON-RPC requests settle (30 s idle timeout); the
\* TCP probe settles within 5 s.  init has no timeout of its own: that it
\* settles is a promise of the CCU and of the TCP stack.
Progress ==
  /\ WF_vars(EventServerListens \/ EventServerFails)
  /\ WF_vars(PortsRefreshed)
  /\ WF_vars(AddressesRefreshed)
  /\ WF_vars(ClockTicks)
  /\ WF_vars(WatchdogContent)
  /\ WF_vars(WatchdogFires)
  /\ WF_vars(EventServerClosed)
  /\ \A i \in Interface :
       /\ WF_vars(ProbeSucceeds(i) \/ ProbeFails(i))
       /\ WF_vars(CcuAccepts(i) \/ InitFails(i))
       /\ WF_vars(ReplyLost(i) \/ SubscribeResolves(i))
       /\ WF_vars(UnsubscribeReturns(i))

\* The CCU is not out of reach for ever: an interface that is tried again and
\* again is reached in the end.
Reachable == \A i \in Interface : SF_vars(ProbeSucceeds(i)) /\ SF_vars(CcuAccepts(i))

FairSpec == Spec /\ Progress /\ Reachable

-----------------------------------------------------------------------------
(* Properties                                                              *)

\* Every variable keeps to the values the code can give it.
TypeOK ==
  /\ startPhase \in StartPhases /\ cursor \in 1..(N + 1)
  /\ stopPhase \in StopPhases /\ leaving \subseteq Interface
  /\ unsubStage \in {"none", "sent", "answered"}
  /\ started \in BOOLEAN /\ rpcClients \subseteq Interface
  /\ subscribed \in [Interface -> BOOLEAN]
  /\ server \in {"down", "listening", "closing"}
  /\ timer \in BOOLEAN /\ elapsed \in Nat /\ untilTick \in Nat
  /\ probing \in [Interface -> Nat]
  /\ initSent \in [Interface -> Nat]
  /\ replyDue \in [Interface -> Nat]
  /\ ccuSub \in [Interface -> BOOLEAN]
  /\ lost \subseteq Interface /\ overtaken \subseteq Interface

\* The callback server listens for as long as a client is in the map
\* (setValue and the watchdog use it) and, until stop() is under way, for as
\* long as some subscribe() is: start() binds it before the first init and
\* stop() closes it after the last unsubscribe.
ServedWhileRegistered ==
  \/ rpcClients # {}
  \/ ~Stopping /\ \E i \in Interface : Flights(i) > 0
  => server = "listening"

\* When stop() is over, the CCU pushes no interface's events to the closed
\* server, but for those whose request or reply was lost (unsubscribe swallows
\* errors, a failed subscribe is forgotten) or that a re-subscription in
\* progress overtook.  It needs the map of start(), the watchdog and the loop
\* of stop() to agree on every interface.
StopUnregisters ==
  stopPhase = "stopped" =>
    \A i \in Interface : ccuSub[i] => i \in lost \cup overtaken

\* Silence is noticed at the latest one interval after watchdogSeconds: the
\* strict comparison at a tick and the re-arming never add a second interval.
SilenceBounded == timer => elapsed <= WatchdogTime + WatchdogInterval

\* Once stop() has begun, nothing starts another subscribe(): the loop of
\* start() is over and the watchdog is disarmed in the same step.
NoSubscribeAfterStop ==
  [][Stopping => \A i \in Interface : probing'[i] <= probing[i]]_vars

\* When the CCU has lost every subscription (it restarted) and the plugin knows
\* a client, the watchdog restores a subscription, or the plugin stops.  One
\* interface that still pushes is enough to keep the watchdog quiet: the
\* timestamp is shared by all of them.
SilenceRecovers ==
  (timer /\ rpcClients # {} /\ \A i \in Interface : ~ccuSub[i])
    ~> (~timer \/ \E i \in rpcClients : ccuSub[i])

\* start() and stop() end whatever the interfaces answer: start() skips an interface
\* that fails, and stop() closes the server after the last one.
StartAndStopEnd ==
  /\ startPhase = "binding" ~> startPhase \in {"running", "failed", "off"}
  /\ stopPhase = "unsubscribing" ~>
       (stopPhase = "stopped" /\ server = "down") \/ startPhase = "off"
=============================================================================
