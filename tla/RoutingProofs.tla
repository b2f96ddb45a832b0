---------------------------- MODULE RoutingProofs ----------------------------
(***************************************************************************)
(* Where requests go, for any CCU, list, addresses and handlers: to their  *)
(* device if the CCU listed it, and to one interface for all that a device *)
(* is asked; and which events reach the listeners of what was written.  It *)
(* rests on what the index holds: a look-up depends on the device alone.   *)
(***************************************************************************)
EXTENDS Routing, TLAPS

-----------------------------------------------------------------------------
(* The index                                                               *)

\* What may stand before the address of a device in the index.
IndexedPrefixes(s) ==
  {Prefix[s]} \cup (IF Prefix[s] # NoPrefix THEN {NoPrefix} ELSE {asInterfaceId(Home[s])})

\* Whatever the CCU or an address says, the interface is one of the five.
LEMMA InterfacesAreKnown ==
  /\ \A name : asInterfaceId(name) \in Interfaces
  /\ \A a : Guess(a) \in Interfaces
<1>1. \A name : asInterfaceId(name) \in Interfaces
  BY DEF asInterfaceId, Interfaces
<1>2. \A a : Guess(a) \in Interfaces
  BY DEF Guess, Interfaces
<1> QED
  BY <1>1, <1>2

\* A device is indexed with each of its channels and without any.
LEMMA RememberedIs ==
  ASSUME NEW s
  PROVE  Remembered(s) =
           [prefix : IndexedPrefixes(s), serial : {s}, channel : Numbered[s] \cup {NoChannel}]
<1> DEFINE C == Numbered[s] \cup {NoChannel}
           Of(P) == [prefix : P, serial : {s}, channel : C]
           id == asInterfaceId(Home[s])
           With(p) == {[a EXCEPT !.prefix = p] : a \in Listing(s)}
<1>1. Listing(s) = Of({Prefix[s]})
  BY DEF Listing
<1>2. ASSUME NEW p
      PROVE  With(p) = Of({p})
  <2>1. \A a \in Listing(s) :
          [a EXCEPT !.prefix = p] = [prefix |-> p, serial |-> s, channel |-> a.channel]
    BY <1>1
  <2>2. ASSUME NEW x \in Of({p})
        PROVE  x \in With(p)
    <3> DEFINE a == [prefix |-> Prefix[s], serial |-> s, channel |-> x.channel]
    <3>1. a \in Listing(s) /\ [a EXCEPT !.prefix = p] = x
      BY <1>1, <2>1
    <3> QED
      BY <3>1
  <2>3. ASSUME NEW x \in With(p)
        PROVE  x \in Of({p})
    BY <2>1, <1>1
  <2> QED
    BY <2>2, <2>3
<1>3. ASSUME NEW p, NEW q
      PROVE  Of({p}) \cup Of({q}) = Of({p, q})
  OBVIOUS
<1>4. Remembered(s) =
        Listing(s) \cup (IF Prefix[s] # NoPrefix THEN With(NoPrefix) ELSE With(id))
  BY DEF Remembered, Bare
<1>5. IndexedPrefixes(s) =
        IF Prefix[s] # NoPrefix THEN {Prefix[s], NoPrefix} ELSE {Prefix[s], id}
  BY DEF IndexedPrefixes
<1> HIDE DEF Of, With, id
<1>6. Remembered(s) = Of(IndexedPrefixes(s))
  <2>1. CASE Prefix[s] # NoPrefix
    BY <2>1, <1>1, <1>2, <1>3, <1>4, <1>5
  <2>2. CASE Prefix[s] = NoPrefix
    BY <2>2, <1>1, <1>2, <1>3, <1>4, <1>5
  <2> QED
    BY <2>1, <2>2
<1> QED
  BY <1>6 DEF Of

\* What the index holds: the addresses of the devices it was made from.
LEMMA IndexHolds ==
  ASSUME NEW S, NEW a
  PROVE  /\ a \in DOMAIN Index(S) <=> \E s \in S : a \in Remembered(s)
         /\ a \in DOMAIN Index(S) => Index(S)[a] = asInterfaceId(Home[a.serial])
BY DEF Index

\* An address is looked up as its device is.
LEMMA LookedUpByDevice ==
  ASSUME NEW S, NEW a, IsAddress(a), addressInterface = Index(S)
  PROVE  LET d == DeviceOf(a)
         IN  /\ d.serial = a.serial /\ d.prefix = a.prefix
             /\ interfaceForAddress(a) =
                  IF d \in DOMAIN Index(S) THEN asInterfaceId(Home[a.serial]) ELSE Guess(a)
             /\ Guess(a) = Guess(d)
             /\ d \in DOMAIN Index(S) <=> a.serial \in S /\ a.prefix \in IndexedPrefixes(a.serial)
<1> DEFINE d == DeviceOf(a)
<1>1. d = [prefix |-> a.prefix, serial |-> a.serial, channel |-> NoChannel]
  BY DEF IsAddress, DeviceOf
<1>2. d \in DOMAIN Index(S) <=> a.serial \in S /\ a.prefix \in IndexedPrefixes(a.serial)
  <2>1. \A s : d \in Remembered(s) <=> s = a.serial /\ a.prefix \in IndexedPrefixes(s)
    <3> SUFFICES ASSUME NEW s
                 PROVE  d \in Remembered(s) <=> s = a.serial /\ a.prefix \in IndexedPrefixes(s)
      OBVIOUS
    <3>1. Remembered(s) = [prefix : IndexedPrefixes(s), serial : {s},
                             channel : Numbered[s] \cup {NoChannel}]
      BY RememberedIs
    <3> HIDE DEF d
    <3> QED
      BY <1>1, <3>1
  <2> QED
    BY <2>1, IndexHolds
<1>3. a \in DOMAIN Index(S) => d \in DOMAIN Index(S)
  <2> SUFFICES ASSUME NEW s \in S, a \in Remembered(s)
               PROVE  a.serial \in S /\ a.prefix \in IndexedPrefixes(a.serial)
    BY <1>2, IndexHolds
  <2> QED
    BY RememberedIs
<1>4. Guess(a) = Guess(d)
  BY <1>1 DEF Guess
<1>5. d.serial = a.serial /\ d.prefix = a.prefix
  BY <1>1
<1>6. interfaceForAddress(a) =
        IF d \in DOMAIN Index(S) THEN asInterfaceId(Home[a.serial]) ELSE Guess(a)
  BY <1>3, <1>5, IndexHolds DEF interfaceForAddress
<1> QED
  BY <1>2, <1>4, <1>5, <1>6

-----------------------------------------------------------------------------
(* The invariant and its steps                                             *)

\* Of the client: the index is made from the devices that were listed, ...
ClientOK ==
  /\ paired \subseteq Serials /\ listed \subseteq Serials
  /\ subscribed \subseteq Interfaces /\ rpcClients \subseteq Enabled /\ waiting \subseteq Enabled
  /\ phase \in {"listing", "subscribing", "started", "stopping", "stopped"}
  /\ addressInterface = Index(listed)
  /\ lifecycle \in [Handlers -> {"new", "attached", "disposed"}]

\* ... and nothing is sent or handled before that.
NothingEarly ==
  phase \in {"listing", "subscribing"} =>
    /\ \A h \in Handlers : lifecycle[h] = "new"
    /\ underway = {}

\* What a handler asks for, or listens to, is one of its points.
IsOwn(h, p) == h \in Handlers /\ p \in Heard(h) \cup Written(h)

\* Of each request: it goes where its address is looked up, under one of two names.
RequestOK(q) ==
  /\ IsOwn(q.handler, q.point) /\ q.via \in {"XML-RPC", "JSON-RPC"}
  /\ q.interface = interfaceForAddress(q.point.address)
  /\ q.name = IF q.via = "XML-RPC" THEN q.point.address ELSE Bare(q.point.address)

\* Of each event: XML-RPC wrote to the very point that the event names.
EventOK(e) ==
  /\ e.via \in {"XML-RPC", "JSON-RPC"}
  /\ e.via = "XML-RPC" => e.written = Point(e.name, e.written.datapoint)

RouteInv ==
  /\ ClientOK /\ NothingEarly
  /\ \A q \in underway : RequestOK(q)
  /\ \A e \in events : EventOK(e)
  /\ WritesComeBack

\* The points of a handler are at its address, its device's maintenance channel or
\* the channel next to its own.
LEMMA PointsAreAddresses ==
  ASSUME NEW h, NEW p, IsOwn(h, p)
  PROVE  IsAddress(p.address) /\ p = Point(p.address, p.datapoint)
<1> DEFINE c == Configured[h]
           At(a) == \E dp : p = Point(a, dp)
<1>1. c = [prefix |-> c.prefix, serial |-> c.serial, channel |-> c.channel]
      /\ c.serial \in Serials /\ c.channel \in Nat \cup {NoChannel}
  BY AddressAssumption DEF IsAddress, IsOwn
<1>2. At(c) \/ At([c EXCEPT !.channel = 0])
        \/ (c.channel # NoChannel /\ At([c EXCEPT !.channel = c.channel + 1]))
  <2>1. p \in Heard(h) \/ p \in Written(h)
    BY DEF IsOwn
  <2>2. Kind[h] \in Kinds
    BY KindsAssumption DEF IsOwn
  <2>3. p \in ColorTemp(h) => c.channel # NoChannel /\ At([c EXCEPT !.channel = c.channel + 1])
    BY DEF ColorTemp
  <2>4. p = Battery(h) => At([c EXCEPT !.channel = 0])
    BY DEF Battery
  <2>5. p \in Heard(h) => p \in ColorTemp(h) \/ p = Battery(h) \/ At(c)
    BY <2>2 DEF Heard, Kinds
  <2>6. p \in Written(h) => p \in Heard(h) \/ At(c)
    BY <2>2 DEF Written, Kinds
  <2> QED
    BY <2>1, <2>3, <2>4, <2>5, <2>6
<1>3. ASSUME NEW a, At(a), IsAddress(a)
      PROVE  IsAddress(p.address) /\ p = Point(p.address, p.datapoint)
  BY <1>3 DEF Point
<1> HIDE DEF c, At
<1>4. IsAddress(c)
  BY <1>1 DEF IsAddress
<1>5. ASSUME NEW n \in Nat
      PROVE  IsAddress([c EXCEPT !.channel = n])
  <2>1. [c EXCEPT !.channel = n] = [prefix |-> c.prefix, serial |-> c.serial, channel |-> n]
    BY <1>1
  <2> QED
    BY <1>1, <2>1 DEF IsAddress
<1>6. c.channel # NoChannel => c.channel + 1 \in Nat
  BY <1>1
<1> QED
  BY <1>2, <1>3, <1>4, <1>5, <1>6

\* As long as the index stays, requests stay right.
LEMMA TrafficStays ==
  ASSUME addressInterface' = addressInterface
  PROVE  /\ \A q : RequestOK(q) => RequestOK(q)'
         /\ \A e : EventOK(e) => EventOK(e)'
BY DEF RequestOK, EventOK, IsOwn, interfaceForAddress, Heard, Written, Battery, ColorTemp, Point, Bare

LEMMA RouteInit == Init => RouteInv
<1> SUFFICES ASSUME Init
             PROVE  RouteInv
  OBVIOUS
<1>1. /\ paired \subseteq Serials /\ listed = {} /\ subscribed = {} /\ rpcClients = {} /\ waiting = {}
      /\ phase = "listing" /\ addressInterface = Index(listed)
      /\ lifecycle = [h \in Handlers |-> "new"]
      /\ underway = {} /\ events = {} /\ missed = {}
  BY DEF Init
<1> QED
  BY <1>1 DEF RouteInv, ClientOK, NothingEarly, WritesComeBack

\* start() and stop(), and the pairing of devices, leave the traffic alone.
LEMMA LifeStep ==
  ASSUME RouteInv,
         \/ refreshAddressInterfaceMap \/ Started \/ Shutdown \/ Stopped
         \/ \E i \in Interfaces : Subscribe(i) \/ Unsubscribe(i)
         \/ \E s \in Serials : Pair(s)
  PROVE  RouteInv'
<1>1. UNCHANGED <<underway, events, missed>>
  BY DEF refreshAddressInterfaceMap, Started, Shutdown, Stopped, Subscribe,
         Unsubscribe, Pair, traffic
<1>2. ClientOK /\ NothingEarly
  BY DEF RouteInv
<1>3. CASE refreshAddressInterfaceMap
  <2>1. /\ phase = "listing" /\ phase' = "subscribing" /\ waiting' = Enabled
        /\ listed' \in {paired, {}} /\ addressInterface' = Index(listed')
        /\ UNCHANGED <<paired, subscribed, rpcClients, lifecycle>>
    BY <1>3 DEF refreshAddressInterfaceMap, ccu
  <2>2. ClientOK'
    BY <1>2, <2>1 DEF ClientOK
  <2>3. NothingEarly'
    BY <1>2, <1>1, <2>1 DEF NothingEarly
  <2>4. underway = {}
    BY <1>2, <2>1 DEF NothingEarly
  <2> QED
    BY <1>1, <2>2, <2>3, <2>4 DEF RouteInv, EventOK, Point, WritesComeBack
<1>4. ASSUME ClientOK', NothingEarly', addressInterface' = addressInterface
      PROVE  RouteInv'
  BY <1>1, <1>4, TrafficStays DEF RouteInv, WritesComeBack
<1>5. CASE Started
  <2>1. /\ phase' = "started" /\ UNCHANGED <<paired, subscribed, waiting, addressInterface,
                                             listed, rpcClients, lifecycle>>
    BY <1>5 DEF Started, ccu
  <2> QED
    BY <1>2, <1>4, <2>1 DEF ClientOK, NothingEarly
<1>6. CASE Shutdown
  <2>1. /\ phase' = "stopping" /\ waiting' = rpcClients
        /\ lifecycle' = [h \in Handlers |->
             IF lifecycle[h] = "attached" THEN "disposed" ELSE lifecycle[h]]
        /\ UNCHANGED <<paired, subscribed, addressInterface, listed, rpcClients>>
    BY <1>6 DEF Shutdown, ccu
  <2>2. ClientOK'
    BY <1>2, <2>1 DEF ClientOK
  <2> QED
    BY <1>2, <1>4, <2>1, <2>2 DEF ClientOK, NothingEarly
<1>7. CASE Stopped
  <2>1. /\ phase' = "stopped" /\ rpcClients' = {}
        /\ UNCHANGED <<paired, subscribed, waiting, addressInterface, listed, lifecycle>>
    BY <1>7 DEF Stopped, ccu
  <2> QED
    BY <1>2, <1>4, <2>1 DEF ClientOK, NothingEarly
<1>8. CASE \E i \in Interfaces : Subscribe(i)
  <2>1. PICK i \in Interfaces : Subscribe(i)
    BY <1>8
  <2>2. /\ i \in waiting /\ waiting' = waiting \ {i}
        /\ rpcClients' \in {rpcClients, rpcClients \cup {i}}
        /\ subscribed' \in {subscribed, subscribed \cup {i}}
        /\ UNCHANGED <<paired, phase, addressInterface, listed, lifecycle, underway>>
    BY <2>1, <1>1 DEF Subscribe
  <2>3. ClientOK'
    BY <1>2, <2>2 DEF ClientOK
  <2> QED
    BY <1>2, <1>4, <2>2, <2>3 DEF NothingEarly
<1>9. CASE \E i \in Interfaces : Unsubscribe(i)
  <2>1. PICK i \in Interfaces : Unsubscribe(i)
    BY <1>9
  <2>2. /\ waiting' = waiting \ {i} /\ subscribed' \in {subscribed, subscribed \ {i}}
        /\ UNCHANGED <<paired, phase, addressInterface, listed, rpcClients, lifecycle, underway>>
    BY <2>1, <1>1 DEF Unsubscribe
  <2>3. ClientOK'
    BY <1>2, <2>2 DEF ClientOK
  <2> QED
    BY <1>2, <1>4, <2>2, <2>3 DEF NothingEarly
<1>10. CASE \E s \in Serials : Pair(s)
  <2>1. PICK s \in Serials : Pair(s)
    BY <1>10
  <2>2. /\ paired' = IF s \in paired THEN paired \ {s} ELSE paired \cup {s}
        /\ UNCHANGED <<subscribed, phase, waiting, addressInterface, listed, rpcClients, lifecycle,
                       underway>>
    BY <2>1, <1>1 DEF Pair, starting
  <2>3. ClientOK'
    BY <1>2, <2>2 DEF ClientOK
  <2> QED
    BY <1>2, <1>4, <2>2, <2>3 DEF NothingEarly
<1> QED
  BY <1>3, <1>5, <1>6, <1>7, <1>8, <1>9, <1>10

\* What is sent is right.
LEMMA RequestsAreRight ==
  ASSUME NEW h \in Handlers, NEW p \in Heard(h) \cup Written(h), NEW op
  PROVE  RequestOK(Request(h, p, op))
<1>1. /\ Request(h, p, op).handler = h /\ Request(h, p, op).point = p
      /\ Request(h, p, op).interface = interfaceForAddress(p.address)
      /\ Request(h, p, op).via = Way(interfaceForAddress(p.address))
      /\ Request(h, p, op).name =
           IF Request(h, p, op).via = "XML-RPC" THEN p.address ELSE Bare(p.address)
  BY DEF Request
<1>2. Way(interfaceForAddress(p.address)) \in {"XML-RPC", "JSON-RPC"}
  BY DEF Way
<1> QED
  BY <1>1, <1>2 DEF RequestOK, IsOwn

LEMMA AttachStep ==
  ASSUME RouteInv, NEW h \in Handlers, Attach(h)
  PROVE  RouteInv'
<1>1. /\ phase \in {"started", "stopping", "stopped"} /\ lifecycle[h] = "new"
      /\ lifecycle' = [lifecycle EXCEPT ![h] = "attached"]
      /\ underway' = underway \cup {Request(h, p, "read") : p \in Heard(h)}
      /\ UNCHANGED <<paired, subscribed, phase, waiting, addressInterface, listed, rpcClients,
                     events, missed>>
  BY DEF Attach, ccu, starting
<1>2. ClientOK
  BY DEF RouteInv
<1>3. ClientOK' /\ NothingEarly'
  BY <1>1, <1>2 DEF ClientOK, NothingEarly
<1>4. \A q \in underway' : RequestOK(q)
  BY <1>1, RequestsAreRight DEF RouteInv
<1>5. /\ \A q : RequestOK(q) => RequestOK(q)'
      /\ \A e : EventOK(e) => EventOK(e)'
  BY <1>1, TrafficStays
<1> QED
  BY <1>1, <1>3, <1>4, <1>5 DEF RouteInv, WritesComeBack

LEMMA setValueStep ==
  ASSUME RouteInv, NEW h \in Handlers, NEW p \in Written(h), setValue(h, p)
  PROVE  RouteInv'
<1>1. /\ lifecycle[h] # "new" /\ underway' = underway \cup {Request(h, p, "write")}
      /\ UNCHANGED <<paired, subscribed, phase, waiting, addressInterface, listed, rpcClients,
                     lifecycle, events, missed>>
  BY DEF setValue, ccu, starting
<1>2. ClientOK /\ NothingEarly
  BY DEF RouteInv
<1>3. ClientOK' /\ NothingEarly'
  BY <1>1, <1>2 DEF ClientOK, NothingEarly
<1>4. \A q \in underway' : RequestOK(q)
  BY <1>1, RequestsAreRight DEF RouteInv
<1>5. /\ \A q : RequestOK(q) => RequestOK(q)'
      /\ \A e : EventOK(e) => EventOK(e)'
  BY <1>1, TrafficStays
<1> QED
  BY <1>1, <1>3, <1>4, <1>5 DEF RouteInv, WritesComeBack

\* XML-RPC carries a write out only if the CCU calls the address as it was configured.
LEMMA AnswerStep ==
  ASSUME RouteInv, NEW q \in underway, Answer(q)
  PROVE  RouteInv'
<1> DEFINE e == [name |-> Called(q.point.address), written |-> q.point, via |-> q.via]
<1>1. /\ underway' = underway \ {q}
      /\ events' = events \/ (events' = events \cup {e} /\ Reaches(q))
      /\ UNCHANGED <<paired, subscribed, phase, waiting, addressInterface, listed, rpcClients,
                     lifecycle, missed>>
  BY DEF Answer, ccu, starting
<1>2. ClientOK /\ NothingEarly /\ RequestOK(q)
  BY DEF RouteInv
<1>3. ClientOK' /\ NothingEarly'
  BY <1>1, <1>2 DEF ClientOK, NothingEarly
<1>4. ASSUME Reaches(q)
      PROVE  EventOK(e)
  <2>1. q.point = Point(q.point.address, q.point.datapoint)
    BY <1>2, PointsAreAddresses DEF RequestOK
  <2>2. q.via = "XML-RPC" => Called(q.point.address) = q.point.address
    BY <1>2, <1>4 DEF Reaches, RequestOK
  <2>3. e.name = Called(q.point.address) /\ e.written = q.point /\ e.via = q.via
    OBVIOUS
  <2> HIDE DEF e
  <2> QED
    BY <1>2, <2>1, <2>2, <2>3 DEF RequestOK, EventOK
<1> HIDE DEF e
<1>5. \A x \in events' : EventOK(x)
  BY <1>1, <1>4 DEF RouteInv
<1>6. /\ \A x : RequestOK(x) => RequestOK(x)'
      /\ \A x : EventOK(x) => EventOK(x)'
  BY <1>1, TrafficStays
<1> QED
  BY <1>1, <1>3, <1>5, <1>6 DEF RouteInv, WritesComeBack

\* The event of a write by XML-RPC is given to all who listen to what was written.
LEMMA handleEventStep ==
  ASSUME RouteInv, NEW e \in events, handleEvent(e)
  PROVE  RouteInv'
<1> DEFINE named == Point(e.name, e.written.datapoint)
<1>1. /\ events' = events \ {e}
      /\ missed' = missed \cup
           {[event |-> e, handler |-> h] : h \in Listeners(e.written) \ Listeners(named)}
      /\ UNCHANGED <<paired, subscribed, phase, waiting, addressInterface, listed, rpcClients,
                     lifecycle, underway>>
  BY DEF handleEvent, ccu, starting
<1>2. ClientOK /\ NothingEarly /\ EventOK(e)
  BY DEF RouteInv
<1>3. ClientOK' /\ NothingEarly'
  BY <1>1, <1>2 DEF ClientOK, NothingEarly
<1>4. e.via = "JSON-RPC" \/ Listeners(e.written) \ Listeners(named) = {}
  BY <1>2 DEF EventOK
<1> HIDE DEF named
<1>5. WritesComeBack'
  BY <1>1, <1>4 DEF RouteInv, WritesComeBack
<1>6. /\ \A x : RequestOK(x) => RequestOK(x)'
      /\ \A x : EventOK(x) => EventOK(x)'
  BY <1>1, TrafficStays
<1> QED
  BY <1>1, <1>3, <1>5, <1>6 DEF RouteInv

LEMMA RouteNext == RouteInv /\ [Next]_vars => RouteInv'
<1> SUFFICES ASSUME RouteInv, [Next]_vars
             PROVE  RouteInv'
  OBVIOUS
<1>1. CASE UNCHANGED vars
  <2>1. UNCHANGED <<paired, subscribed, phase, waiting, addressInterface, listed, rpcClients,
                    lifecycle, underway, events, missed>>
    BY <1>1 DEF vars
  <2>2. ClientOK' /\ NothingEarly'
    BY <2>1 DEF RouteInv, ClientOK, NothingEarly
  <2> QED
    BY <2>1, <2>2, TrafficStays DEF RouteInv, WritesComeBack
<1>2. CASE \E h \in Handlers : Attach(h) \/ \E p \in Written(h) : setValue(h, p)
  BY <1>2, AttachStep, setValueStep
<1>3. CASE \E q \in underway : Answer(q)
  BY <1>3, AnswerStep
<1>4. CASE \E e \in events : handleEvent(e)
  BY <1>4, handleEventStep
<1> QED
  BY <1>1, <1>2, <1>3, <1>4, LifeStep DEF Next

LEMMA RouteInvariance == Spec => []RouteInv
<1>1. Init => RouteInv
  BY RouteInit
<1>2. RouteInv /\ [Next]_vars => RouteInv'
  BY RouteNext
<1> QED
  BY <1>1, <1>2, PTL DEF Spec

-----------------------------------------------------------------------------
(* Requests: the theorems                                                  *)

\* The client's state has its types: in particular every address in the index, and
\* every request, has an interface of the five, whatever the CCU calls its own.
THEOREM TypeCorrect == Spec => []TypeOK
<1>1. RouteInv => TypeOK
  <2> SUFFICES ASSUME RouteInv
               PROVE  TypeOK
    OBVIOUS
  <2>1. ClientOK
    BY DEF RouteInv
  <2>2. \A a \in DOMAIN addressInterface : addressInterface[a] \in Interfaces
    BY <2>1, IndexHolds, InterfacesAreKnown DEF ClientOK
  <2>3. ASSUME NEW q \in underway
        PROVE  q.handler \in Handlers /\ q.interface \in Interfaces
    <3>1. q.handler \in Handlers /\ q.interface = interfaceForAddress(q.point.address)
      BY DEF RouteInv, RequestOK, IsOwn
    <3> QED
      BY <3>1, <2>2, InterfacesAreKnown DEF interfaceForAddress
  <2> QED
    BY <2>1, <2>2, <2>3 DEF ClientOK, TypeOK
<1> QED
  BY <1>1, RouteInvariance, PTL

\* A channel that is configured as the CCU calls it is reached if the CCU listed its
\* device at start, or if its address tells the interface.
THEOREM RequestsArrive == Spec => []RequestsReachTheirDevice
<1>1. RouteInv => RequestsReachTheirDevice
  <2> SUFFICES ASSUME RouteInv, NEW q \in underway,
                      q.point.address.prefix = Prefix[q.point.address.serial],
                      Home[q.point.address.serial] \in Interfaces,
                      q.point.address.serial \in listed
                        \/ Guess(q.point.address) = Home[q.point.address.serial]
               PROVE  Reaches(q)
    BY DEF RequestsReachTheirDevice
  <2> DEFINE a == q.point.address
             d == DeviceOf(a)
  <2>1. /\ addressInterface = Index(listed) /\ RequestOK(q)
        /\ asInterfaceId(Home[a.serial]) = Home[a.serial]
    BY DEF RouteInv, ClientOK, asInterfaceId
  <2>2. IsAddress(a)
    BY <2>1, PointsAreAddresses DEF RequestOK
  <2>3. a.prefix \in IndexedPrefixes(a.serial)
    BY DEF IndexedPrefixes
  <2>4. q.interface = Home[a.serial]
    BY <2>1, <2>2, <2>3, LookedUpByDevice DEF RequestOK
  <2>5. Called(a) = a
    BY <2>2 DEF Called, IsAddress
  <2> QED
    BY <2>1, <2>4, <2>5 DEF Reaches, RequestOK
<1> QED
  BY <1>1, RouteInvariance, PTL

\* All requests for one device under one prefix go to one interface.
THEOREM DevicesStayTogether == Spec => []OneInterfacePerDevice
<1>1. RouteInv => OneInterfacePerDevice
  <2> SUFFICES ASSUME RouteInv, NEW q \in underway, NEW r \in underway,
                      DeviceOf(q.point.address) = DeviceOf(r.point.address)
               PROVE  q.interface = r.interface
    BY DEF OneInterfacePerDevice
  <2>1. addressInterface = Index(listed) /\ RequestOK(q) /\ RequestOK(r)
    BY DEF RouteInv, ClientOK
  <2>2. IsAddress(q.point.address) /\ IsAddress(r.point.address)
    BY <2>1, PointsAreAddresses DEF RequestOK
  <2>3. interfaceForAddress(q.point.address) = interfaceForAddress(r.point.address)
    BY <2>1, <2>2, LookedUpByDevice
  <2> QED
    BY <2>1, <2>3 DEF RequestOK
<1> QED
  BY <1>1, RouteInvariance, PTL

\* An event that went past a handler listening to what was written is of a write by
\* JSON-RPC, for any addresses and classes of handlers: where XML-RPC carried a write
\* out, the CCU calls the point as the listeners do.
THEOREM XmlWritesComeBack == Spec => []WritesComeBack
<1>1. RouteInv => WritesComeBack
  BY DEF RouteInv
<1> QED
  BY <1>1, RouteInvariance, PTL
=============================================================================
