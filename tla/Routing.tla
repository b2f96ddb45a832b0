------------------------------- MODULE Routing -------------------------------
(***************************************************************************)
(* Which interface of the CCU a read or a write goes to, under which name, *)
(* and which listeners the event of a write finds (CcuClient.ts, which     *)
(* keys them by address and datapoint).  Addresses are                     *)
(* configured with or without an interface before the dot; the index of    *)
(* interfaces by address is a snapshot of the CCU's list taken at start.   *)
(* XML-RPC carries a request if the interface was subscribed, JSON-RPC     *)
(* otherwise.  The CCU pairs and removes devices all the time.             *)
(***************************************************************************)
EXTENDS Integers, FiniteSets

CONSTANTS
  Serials,      \* the devices, by serial number
  Home,         \* of each device: the CCU's name of the interface it is at
  Prefix,       \* of each device: what the CCU writes before its serial number
  Numbered,     \* of each device: the channels in the CCU's list
  Contains,     \* of an interface's name: the fragment asInterfaceId finds in it
  Begins,       \* of a serial number or prefix: what it begins with
  Enabled,      \* the interfaces enabled in the configuration
  Handlers,     \* the configured channels
  Configured,   \* of each handler: its address
  Kind,         \* of each handler: its class
  MaxUnderway   \* bound: requests under way, and events, when HomeKit writes

Interfaces == {"BidCos-RF", "HmIP-RF", "BidCos-Wired", "VirtualDevices", "CUxD"}

NoPrefix == "none"
NoChannel == -1

\* An address: <prefix>.<serial>:<channel>, where prefix and channel may be missing.
Bare(a) == [a EXCEPT !.prefix = NoPrefix]
DeviceOf(a) == [a EXCEPT !.channel = NoChannel]

IsAddress(a) ==
  /\ a = [prefix |-> a.prefix, serial |-> a.serial, channel |-> a.channel]
  /\ a.serial \in Serials /\ a.channel \in Nat \cup {NoChannel}

\* Classes that differ in what they read, hear and write: switches, locks, dimmers
\* and blinds are "switch", those that sense and have a battery "sensor".
Kinds == {"switch", "colorTemp", "sensor", "thermostat", "garage", "opener"}

ASSUME KindsAssumption == Kind \in [Handlers -> Kinds]
ASSUME AddressAssumption == \A h \in Handlers : IsAddress(Configured[h])

VARIABLES
  paired,            \* the CCU: the devices it has
  subscribed,        \* the CCU: the interfaces that send the plugin events
  phase,             \* of start() and stop()
  waiting,           \* the interfaces that start() or stop() has yet to come to
  addressInterface,  \* the index
  listed,            \* history: the devices of the list it was made from
  rpcClients,        \* the interfaces with an XML-RPC client
  lifecycle,         \* of each handler
  underway,          \* requests that the CCU has yet to answer
  events,            \* events that the plugin has yet to handle
  missed             \* history: events, each with a listener it was not given to

vars == <<paired, subscribed, phase, waiting, addressInterface, listed, rpcClients,
          lifecycle, underway, events, missed>>

ccu == <<paired, subscribed>>
starting == <<phase, waiting, addressInterface, listed, rpcClients>>
traffic == <<underway, events, missed>>

-----------------------------------------------------------------------------
(* The index                                                               *)

\* The supported interface that a name of the CCU's is taken for.
asInterfaceId(name) ==
  IF name \in Interfaces THEN name
  ELSE CASE Contains[name] = "hmip"  -> "HmIP-RF"
         [] Contains[name] = "cux"   -> "CUxD"
         [] Contains[name] = "virt"  -> "VirtualDevices"
         [] Contains[name] = "wired" -> "BidCos-Wired"
         [] OTHER                    -> "BidCos-RF"

\* The addresses that the CCU's list gives a device: its own and its channels'.
Listing(s) == [prefix : {Prefix[s]}, serial : {s}, channel : Numbered[s] \cup {NoChannel}]

\* Each is indexed twice, with and without an interface before it.
Remembered(s) ==
  Listing(s) \cup
    (IF Prefix[s] # NoPrefix THEN {Bare(a) : a \in Listing(s)}
     ELSE {[a EXCEPT !.prefix = asInterfaceId(Home[s])] : a \in Listing(s)})

\* An address belongs to one device, so no entry overwrites another's.
Index(devices) ==
  [a \in UNION {Remembered(s) : s \in devices} |-> asInterfaceId(Home[a.serial])]

\* What the address itself suggests.
Guess(a) ==
  LET name == IF a.prefix = NoPrefix THEN a.serial ELSE a.prefix
  IN  IF name \in Interfaces THEN name
      ELSE CASE Begins[name] = "HmIP"         -> "HmIP-RF"
             [] Begins[name] = "CUX"          -> "CUxD"
             [] Begins[name] = "BidCos-Wired" -> "BidCos-Wired"
             [] OTHER                         -> "BidCos-RF"

\* Fault: a channel that the list does not have is guessed.
NoDeviceLookup(a) ==
  IF a \in DOMAIN addressInterface THEN addressInterface[a] ELSE Guess(a)

interfaceForAddress(a) ==
  IF a \in DOMAIN addressInterface THEN addressInterface[a]
  ELSE IF DeviceOf(a) \in DOMAIN addressInterface THEN addressInterface[DeviceOf(a)]
  ELSE Guess(a)

-----------------------------------------------------------------------------
(* Start and stop                                                          *)

Init ==
  /\ paired \in SUBSET Serials
  /\ subscribed = {}
  /\ phase = "listing" /\ waiting = {}
  /\ addressInterface = Index({}) /\ listed = {}
  /\ rpcClients = {}
  /\ lifecycle = [h \in Handlers |-> "new"]
  /\ underway = {} /\ events = {} /\ missed = {}

\* The CCU's list is indexed; without it the index stays empty.
refreshAddressInterfaceMap ==
  /\ phase = "listing"
  /\ phase' = "subscribing" /\ waiting' = Enabled
  /\ listed' \in {paired, {}}
  /\ addressInterface' = Index(listed')
  /\ UNCHANGED <<ccu, rpcClients, lifecycle, traffic>>

\* An interface is subscribed, or fails; a failure may have reached the CCU.
Subscribe(i) ==
  /\ phase = "subscribing" /\ i \in waiting
  /\ waiting' = waiting \ {i}
  /\ \/ rpcClients' = rpcClients \cup {i} /\ subscribed' = subscribed \cup {i}
     \/ UNCHANGED rpcClients /\ subscribed' \in {subscribed, subscribed \cup {i}}
  /\ UNCHANGED <<paired, phase, addressInterface, listed, lifecycle, traffic>>

Started ==
  /\ phase = "subscribing" /\ waiting = {}
  /\ phase' = "started"
  /\ UNCHANGED <<ccu, waiting, addressInterface, listed, rpcClients, lifecycle, traffic>>

\* The platform disposes its handlers and stops the client, ...
Shutdown ==
  /\ phase = "started"
  /\ phase' = "stopping" /\ waiting' = rpcClients
  /\ lifecycle' = [h \in Handlers |->
       IF lifecycle[h] = "attached" THEN "disposed" ELSE lifecycle[h]]
  /\ UNCHANGED <<ccu, addressInterface, listed, rpcClients, traffic>>

\* ... which unsubscribes one interface after the other, whatever comes of it, ...
Unsubscribe(i) ==
  /\ phase = "stopping" /\ i \in waiting
  /\ waiting' = waiting \ {i}
  /\ subscribed' \in {subscribed, subscribed \ {i}}
  /\ UNCHANGED <<paired, phase, addressInterface, listed, rpcClients, lifecycle, traffic>>

\* ... and then forgets them.
Stopped ==
  /\ phase = "stopping" /\ waiting = {}
  /\ phase' = "stopped" /\ rpcClients' = {}
  /\ UNCHANGED <<ccu, waiting, addressInterface, listed, lifecycle, traffic>>

Pair(s) ==
  /\ paired' = IF s \in paired THEN paired \ {s} ELSE paired \cup {s}
  /\ UNCHANGED <<subscribed, starting, lifecycle, traffic>>

-----------------------------------------------------------------------------
(* Reads, writes and events                                                *)

Point(a, dp) == [address |-> a, datapoint |-> dp]

\* The maintenance channel of the device, for a battery; one datapoint stands for two.
Battery(h) == Point([Configured[h] EXCEPT !.channel = 0], "LOW_BAT")

\* The next channel, for a colour temperature; without a channel there is none.
ColorTemp(h) ==
  IF Configured[h].channel = NoChannel THEN {}
  ELSE {Point([Configured[h] EXCEPT !.channel = @ + 1], "LEVEL")}

\* The points that a handler registers a listener for and reads when it attaches.  Of
\* datapoints of one kind one stands for all; those only heard (buttons) are left out.
Heard(h) ==
  LET own(dp) == Point(Configured[h], dp)
  IN  CASE Kind[h] = "switch"     -> {own("STATE")}
        [] Kind[h] = "colorTemp"  -> {own("LEVEL")} \cup ColorTemp(h)
        [] Kind[h] = "sensor"     -> {own("STATE"), Battery(h)}
        [] Kind[h] = "thermostat" -> {own("SET_TEMPERATURE"), Battery(h)}
        [] Kind[h] = "garage"     -> {own("DOOR_STATE")}
        [] Kind[h] = "opener"     -> {}

\* Those it writes, which need not be among them.
Written(h) ==
  LET own(dp) == Point(Configured[h], dp)
  IN  CASE Kind[h] \in {"switch", "colorTemp"} -> Heard(h)
        [] Kind[h] = "sensor"     -> {}
        [] Kind[h] = "thermostat" -> {own("SET_TEMPERATURE"), own("AUTO_MODE")}
        [] Kind[h] = "garage"     -> {own("DOOR_COMMAND")}
        [] Kind[h] = "opener"     -> {own("STATE")}

Way(i) == IF i \in rpcClients THEN "XML-RPC" ELSE "JSON-RPC"

\* Fault: the address is stripped on neither way.
NeverStripped(h, p, op) ==
  LET i == interfaceForAddress(p.address)
  IN  [handler |-> h, op |-> op, point |-> p, interface |-> i, via |-> Way(i),
       name |-> p.address]

\* Fault: the address is stripped on both ways.
AlwaysStripped(h, p, op) ==
  LET i == interfaceForAddress(p.address)
  IN  [handler |-> h, op |-> op, point |-> p, interface |-> i, via |-> Way(i),
       name |-> Bare(p.address)]

\* What getValue and setValue send for a point: XML-RPC is given its address as it
\* was configured, JSON-RPC without what is before the dot.
Request(h, p, op) ==
  LET i == interfaceForAddress(p.address)
  IN  [handler |-> h, op |-> op, point |-> p, interface |-> i, via |-> Way(i),
       name |-> IF Way(i) = "XML-RPC" THEN p.address ELSE Bare(p.address)]

\* A handler registers its listeners and reads what it shows.
Attach(h) ==
  /\ phase \in {"started", "stopping", "stopped"} /\ lifecycle[h] = "new"
  /\ lifecycle' = [lifecycle EXCEPT ![h] = "attached"]
  /\ underway' = underway \cup {Request(h, p, "read") : p \in Heard(h)}
  /\ UNCHANGED <<ccu, starting, events, missed>>

\* HomeKit sets a characteristic: handlers that were disposed still write.
setValue(h, p) ==
  /\ lifecycle[h] # "new"
  /\ Cardinality(underway) + Cardinality(events) < MaxUnderway
  /\ underway' = underway \cup {Request(h, p, "write")}
  /\ UNCHANGED <<ccu, starting, lifecycle, events, missed>>

\* The CCU's own name of an address, in its list, its XML-RPC and its events.
Called(a) == [a EXCEPT !.prefix = Prefix[a.serial]]

\* The CCU finds what a request names: JSON-RPC takes the address without prefix.
Reaches(q) ==
  LET a == q.point.address
  IN  /\ q.interface = Home[a.serial]
      /\ q.name = IF q.via = "XML-RPC" THEN Called(a) ELSE Bare(a)

\* The CCU answers a request, in any order; a write that is carried out causes an
\* event if its interface is subscribed.
Answer(q) ==
  /\ q \in underway
  /\ underway' = underway \ {q}
  /\ events' = events \cup
       (IF /\ q.op = "write" /\ Reaches(q)
           /\ q.point.address.serial \in paired /\ q.interface \in subscribed
          THEN {[name |-> Called(q.point.address), written |-> q.point, via |-> q.via]}
          ELSE {})
  /\ UNCHANGED <<ccu, starting, lifecycle, missed>>

\* Who has a listener for a point.
Listeners(p) == {h \in Handlers : lifecycle[h] = "attached" /\ p \in Heard(h)}

\* The event is given to those who listen to its datapoint at the address it comes
\* with.  Of the others who listen to what was written, the history keeps record.
handleEvent(e) ==
  /\ e \in events
  /\ events' = events \ {e}
  /\ LET given == Listeners(Point(e.name, e.written.datapoint))
     IN  missed' = missed \cup {[event |-> e, handler |-> h] : h \in Listeners(e.written) \ given}
  /\ UNCHANGED <<ccu, starting, lifecycle, underway>>

Next ==
  \/ refreshAddressInterfaceMap \/ Started \/ Shutdown \/ Stopped
  \/ \E i \in Interfaces : Subscribe(i) \/ Unsubscribe(i)
  \/ \E s \in Serials : Pair(s)
  \/ \E h \in Handlers : Attach(h) \/ \E p \in Written(h) : setValue(h, p)
  \/ \E q \in underway : Answer(q)
  \/ \E e \in events : handleEvent(e)

Spec == Init /\ [][Next]_vars

-----------------------------------------------------------------------------
(* Properties                                                              *)

TypeOK ==
  /\ paired \subseteq Serials /\ listed \subseteq Serials
  /\ subscribed \subseteq Interfaces /\ rpcClients \subseteq Enabled
  /\ waiting \subseteq Enabled
  /\ phase \in {"listing", "subscribing", "started", "stopping", "stopped"}
  /\ \A a \in DOMAIN addressInterface : addressInterface[a] \in Interfaces
  /\ lifecycle \in [Handlers -> {"new", "attached", "disposed"}]
  /\ \A q \in underway : q.handler \in Handlers /\ q.interface \in Interfaces

\* A channel configured under the CCU's own name is reached, whichever of the two
\* ways carries the request and whatever is paired or removed meanwhile, if the CCU
\* listed its device when the client started or if its name tells its interface:
\* of the addresses of one device all are, those that the list left out too.
RequestsReachTheirDevice ==
  \A q \in underway :
    LET a == q.point.address
    IN  /\ a.prefix = Prefix[a.serial] /\ Home[a.serial] \in Interfaces
        /\ a.serial \in listed \/ Guess(a) = Home[a.serial]
        => Reaches(q)

\* All that one handler reads and writes (its channel, its battery, its colour
\* temperature), and all handlers of a device that is addressed alike, go to one
\* interface, before a shutdown, during it and after it.
OneInterfacePerDevice ==
  \A q, r \in underway :
    DeviceOf(q.point.address) = DeviceOf(r.point.address) => q.interface = r.interface

\* "setValue HAS to go through XML-RPC because that's the path the CCU also pushes
\* events back from": if XML-RPC carried a write out, its event is given to every
\* handler that listens, when it comes, to the point that was written, in whatever
\* form its address is configured.  Only JSON-RPC, which takes what is before the dot
\* off, can carry out a write whose event then goes past the listeners.
WritesComeBack == \A m \in missed : m.event.via = "JSON-RPC"
=============================================================================
