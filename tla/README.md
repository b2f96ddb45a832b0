# Verification of homebridge-homematic-hap

Homebridge-Homematic-HAP is a Homebridge platform plugin: it shows the devices,
variables and programs of a Homematic CCU to Apple HomeKit. It is one Node
process per bridge. Everything happens in callbacks, so a step is never
interrupted, but between any two steps that an `await` separates, every other
callback may run: timers, events the CCU pushes, HomeKit's reads and writes, and
Homebridge's shutdown. That, the network, and the CCU's own restarts are what is
hard here. A settings page, which runs in the browser inside Homebridge's UI,
edits the plugin's configuration; there the user is one more process, who goes
on clicking while requests are under way.

## 1. Inventory

| Part | Source | State it keeps | Operations | Module |
|---|---|---|---|---|
| CCU connection | `ccu/CcuClient.ts`, `ccu/RpcClient.ts`, `ccu/EventServer.ts` | `started`, `rpcClients`, `lastEventAt`, the watchdog interval, each client's `subscribed`, the callback server | `start`, `stop`, watchdog tick, `subscribe`, `unsubscribe` | `CcuConnection` |
| JSON-RPC session | `ccu/CcuJsonRpcClient.ts` | the cached session id | `call` with one renewal, `setVariable`, `runProgram`, `invalidateSession` | `JsonRpcSession`, `RemoteOperation` |
| platform | `platform.ts` | `cached` and `managed` accessories; Homebridge's own store | restore, attach loop, removal of stale accessories, shutdown | `Platform` |
| datapoint routing | `CcuClient.handleEvent/registerListener/setValue/getValue`, `EventServer.handleRequest/dispatch`, `AccessoryBase` | listeners per datapoint, request bodies, `addressInterface` | receive, dispatch, multicall, deliver, register, dispose; index the devices, look up an interface, read, write | `CallbackServer` with `XmlRpc`; `Routing`; reads and writes in `Handlers` |
| XML-RPC codec | `ccu/xmlRpc.ts` | none | parse, serialise | operators of `XmlRpc` |
| stateful handlers | `services/impl/{Switch,Contact,Motion,Smoke,Leak,Lock,Blind,SlatBlind,Dimmer,ColorTempDimmer,RgbLight,Thermostat,WeatherStation,PowerMeter}…`, `AccessoryBase.attachBattery` | cached values | event listener, initial pull, onSet, onGet | `Handlers` |
| timed handlers | `services/impl/{GarageDoor,DoorOpener,Program}…` | cached values, a timeout | the same, and timer, `dispose` | `TimedHandlers` |
| variables | `services/impl/Variable…` | cached value, poll interval | poll, onSet, `dispose` | `Variables` |
| coercion | `util/sanitize.ts` | none | `normalizeLevelToPercent`, … | operators of `Handlers` |
| custom UI | `homebridge-ui/public/app.js`, `homebridge-ui/server.src.js` | `state.blocks`, `otherBlocks`, `nav`, `discovered`, requests under way; what the host has staged | load, open, edit, add and remove bridges, propagate settings, discover, test, import, stage | `ConfigUi` |
| importer | `import/HapHomematicImporter.ts` | none | read a backup, map it, split it into bridges | operators of `ConfigUi` |
| registry, address parser | `services/registry.ts`, `util/address.ts` | none | pure functions | not modelled |
| configuration, storage, logging | `util/…`, `config.schema.json` | none of several steps | | not modelled |

How they interact. Homebridge constructs the platform, hands it the accessories
it restored, and emits `didFinishLaunching` and `shutdown`. The platform calls
`CcuClient.start()`, lists devices, variables and programs by JSON-RPC, and
builds one handler per mapping. A handler registers listeners with `CcuClient`,
pulls initial values and writes through `setValue`; the CCU pushes events to
the callback server, which emits them to `CcuClient.handleEvent`. The
handler's cache is the only state of a datapoint in the process. The settings
page talks to its host (`getPluginConfig`, `updatePluginConfig`, the spinner) and
through it to the plugin's UI server, which asks the CCU or reads a backup; what
the host's Save button writes is what the platform is constructed with next time.

What makes each part correct:

* connection: the server listens while anybody is registered; after `stop()`
  the CCU pushes to nobody; silence is noticed and repaired; `start()` and
  `stop()` end whatever the interfaces do;
* routing: an event reaches each of its listeners once, in order, whatever else
  its batch contains, whichever listener throws and whatever registers or is disposed
  of between chunks and requests; a request reaches its device by whichever of two
  ways it goes, and what XML-RPC wrote comes back to those who listen to it;
* session: a call is renewed once, an operation takes effect at most once;
* platform: what is configured stays in HomeKit whatever fails, what is not
  configured goes, and each attached handler is disposed of;
* handlers: pulls, events and writes in any order settle on the device's
  state, and HomeKit holds the same without asking;
* timed handlers: no passing state dangles, no report is contradicted;
* variables: the value is caught up with;
* custom UI: nothing the user did not remove vanishes, other platforms' blocks
  survive every save, what is shown is what Save would write, an import lands
  whole, and the bridges go on sharing their settings.

The hazards, each at its line, are listed in `PROJECT.json`.

## 2. The modules and the code

An action is the code between two awaits of one function, or one callback. A
definition marked *External* stands for the CCU, a device or Homebridge,
modelled by what the code relies on. *History* variables are read by no action
guard that models code: they state properties. Definitions marked *Fault* are
not part of `Next`; they are the plausible bugs used to see that a property
can fail.

### CcuConnection

`startPhase`/`cursor` are where `start()` is suspended (`didFinishLaunching` →
bind the server → refresh ports → refresh addresses → subscribe one interface
after the other → running), `stopPhase`/`leaving` where `stop()` is. A
`subscribe()` has three stages: it awaits the TCP probe (`probing`), its `init`
has not been processed by the CCU (`initSent`), or its reply is under way
(`replyDue`). They are counters, because the watchdog starts a new `subscribe()`
without waiting for the last. `ccuSub` is what the CCU remembers. Lost requests
(`InitFails`), lost replies (`ReplyLost`), a CCU restart (`CcuForgets`),
shutdown before, during and after `start()`, and the end of the process at any
point (`Exit`, after which the CCU may still handle what was under way) are all
actions. Ports and URLs are left out; the index of addresses is `Routing`'s.

### JsonRpcSession and RemoteOperation

Each operation is one call, or a look-up followed by the call that acts. They
share `sessionId`; `ensureSession` does not wait for a login under way, and a
refused call drops whatever id is cached by now. `RemoteOperation` is the
abstract promise (an operation takes effect at most once, and succeeds only if
it did); `ImplementsPromise` is the refinement, mapping each operation's
position to idle / open / ok / error and the CCU's executions to effects.

### Platform

One boot after the other with any of the configurations, in which the platform
mirrors what Homebridge stores. The attach loop awaits the CCU for each
mapping; a failing attach is skipped, a shutdown clears `managed` while the
loop runs on, and the process may end anywhere.

### Handlers

One accessory's handler between HomeKit and the CCU, its class chosen at the
start. Each class is a table: what it listens to and pulls (`Listened`,
`Pulled`), how a value changes the cache (`Switch`, `Lock`, …), what it pushes
(`Pushed`), what HomeKit may set, and which write that sends (`Sets`). The
initial pull is a stage per datapoint (asked, answered, done), writes are a
set, and events a queue that may lose its head. `shown` is what HomeKit was
last told, by a push or by the user's own set. `form` is how the firmware sends
values; the boolean handlers take every text for true (`Read`). Levels are
counted in hundredths, temperatures in half degrees; the module's head lists the
other units, chosen so that every conversion and rounding of the code is exact
integer arithmetic. `"rgb"` and `"bsl"` are the two variants of the coloured
light, `"battery"` is `attachBattery`, and `"weather"` also stands for the
temperature and humidity sensors. `excused` is the history
of datapoints on which the cache may be wrong: an event was lost, a write
failed, nothing has been learnt yet, or the answer to the initial pull arrived
after a later event. That last case is real behaviour of the code, for which no
document promises better: `Converges` says exactly how far it goes. Two equal
writes under way at once count as one.

### TimedHandlers

The garage door arms its travel timer before it awaits the command; the door
opener and the program arm theirs after it. `commands` are the setters that
await, `timers` the timeouts armed. Durations are left out: an armed timer may
fire at any moment, so what is proved does not rest on 25 s being long enough.
The initial pull may answer during a travel; as in the code it ends the travel
but not the timer, which then reports STOPPED.

### Variables

`polls` are the `getVariable` calls under way (the interval does not wait for
the last one), `writes` the `setVariable` calls. The calls' own steps are in
`JsonRpcSession`.

### CallbackServer and XmlRpc

A request of the CCU is *open* while its body comes in chunks, other requests
arrive, and listeners are registered and disposed of. `BodyEnds` parses,
dispatches and answers in one step, as the code's synchronous path does. What
this step makes of a body is the parameter `Handled`, and what the body contains
the parameter `Events`: so the server can be proved about, although the parser and
the dispatch of nested batches are recursive. `XmlRpc` provides both (`handle`,
`EventsOf`), and `MCCallbackServer` puts the two together. In `XmlRpc`, bodies are trees of tagged XML values (`parseValue`, `serializeValue`); a JavaScript
value is a pair of its type and content, so that `undefined ?? []`, destructuring
of what is no array and a `methodName` that is no string do what they do in the
code. `dispatch` runs a batch in order and turns the error of one call into its
result. Left out: white space, entities, and the text of numbers.

### Routing

An address is a record: what stands before the dot (or `NoPrefix`), the serial
number, and the channel (or `NoChannel`); a *device address* has no channel. What
the code asks about the text of a name is data of the instance: `Contains` is the
fragment that `asInterfaceId` finds in an interface's name, `Begins` what a serial
number or prefix begins with. `start()` takes the CCU's list once
(`refreshAddressInterfaceMap`, which may fail and leave the index empty) and
subscribes one enabled interface after the other; an interface that failed has no
client. The index (`addressInterface`) maps each listed address, with and without
something before the dot, to an interface (`Remembered`, `Index`), and
`interfaceForAddress` falls back from the channel to the device and then to what
the address looks like (`Guess`). `Request` is what `getValue` and `setValue` send:
by XML-RPC under the configured name if there is a client, otherwise by JSON-RPC
under the name without prefix. A *point* is an address with a datapoint, which is
what listeners are registered under and events looked up by. Of each class of
handlers (`Kind`) `Heard` are the points that it listens to and reads when it
attaches (its channel, the maintenance channel of the device for a battery, the next
channel for a colour temperature), and `Written` those it writes, which need not be
the same: an opener listens to nothing, and a thermostat does not hear of the mode it
writes. Handlers attach once the client has started, write, and are disposed by
`Shutdown`, after which `stop()` goes on unsubscribing while reads and writes are
under way. `handleEvent` gives an event to the `Listeners` of the point that it
names; the history `missed` keeps those who listen to the point that was written and
were passed over. *External* are the devices the CCU has (`Pair`), where each of them
is (`Home`), the CCU's own name of an address (`Called`), whether a request finds its
device (`Reaches`), and the event that a write causes, under the CCU's own name
(`Answer`).

Left out: datapoints that are only heard (buttons, `WORKING`) and second ones of a
kind, ports and their discovery, `resolveCallbackHost`, the types that JSON-RPC is told, an explicit `coltempAddress`, and subscriptions that the CCU forgets and
the watchdog renews, which are `CcuConnection`'s.

### ConfigUi

`page` is where `init()` is suspended, `blocks` and `otherBlocks` what it read,
`staged` what the host would save, `disk` what it has saved. `view` and `form` are
the page's navigation: the views that list things are one view (`"lists"`) beside
`"import"` and `"settings"`, and a form holds what its closure has captured: the
target's index, the item's entry, the block's position. `screen` is what the
rows were drawn from, which differs from the state after a handler threw
half-way. A block is its bridge, its name, the CCU's address, which stands for
every setting that the Settings view propagates, and its items; an item's entry is
*rich* if it has settings that its form does not show. Each handler is one action,
with its `pushConfig()` and its `rerender()` inside; `Stage` and `Lose` are the
change that reaches its `pushConfig()` and the one whose handler throws before it.
`pushConfig` itself has two outcomes: the host takes the blocks, or it refuses them,
which the code shows as an error and goes on, so that a refused change is on the page
and not staged (a promise that the host rejects later is not even awaited, with the
same outcome).

The spinner's wrapper swallows failures and blocks nothing, so discovery, the
connection test and the import are requests in `calls` whose replies land in
whatever view the user is by then. An import is a request, and with one bridge per
instance a second one (`split`). What the importer does with a backup is `Mapped`,
`Warnings`, `ReportedItems`, `TargetFor` and `Split`. Searching, sorting, paging
and wording are left out, as are `mergeIntoConfig`, which only tests call, and the
built `server.js`, which repeats `server.src.js`. An identity is opaque: the code
draws it from the time and a random number, or hashes an instance's name.

The code does lose things, and the properties say exactly which. A handler that
throws half-way leaves a change unstaged, and so does a host that refuses it, until
the next change is staged and takes it along (`StagedIsShown`). A removal form keeps
the position of its bridge: when a split import replaces the blocks under it and its
handler throws, the form still shows the old bridge and its accessories, and
confirming it removes the imported bridge at that position (`NothingVanishes` allows
this and, in every other case, only the accessories that the form was drawn with;
`BridgeForm.items` and `screen.replaced`). The Save button of an
editor whose bridge was replaced takes its item off every bridge, and then fails
(`NothingVanishes`). The editors of variables and programs write a name only, so
that other settings go. A merge looks at the main bridge only, so that an item of
a child bridge comes to be on two (`OneBridgeEach`). Child bridges copy the event
server's port, of which only one process can have it (section 3).

## 3. What is checked

| Run | Module | Shows |
|---|---|---|
| `connection` | `MCCcuConnection` | two interfaces: `ServedWhileRegistered`, `StopUnregisters`, `SilenceBounded`, `NoSubscribeAfterStop`, `SilenceRecovers`, `StartAndStopEnd` |
| `json_rpc_session` | `MCJsonRpcSession` | a read and a look-up-then-write: `RenewedOnce`, `ImplementsPromise`, `EveryOperationSettles` |
| `platform` | `MCPlatform` | five configurations in any order of boots: `CacheMirrorsHomebridge`, `LoopIsComplete`, `ShutdownDisposes`, `ConfiguredAccessoriesStay` |
| `callback_server` | `MCCallbackServer` | two requests, three listeners: `DispatchIsComplete` (for each set of listeners), `EachEventOnce`, `RepliesReadBack` |
| `config_ui` | `MCConfigUi` | two bridges, three items, two backups: `StagedIsShown`, `OthersRoundTrip`, `NothingVanishes`, `ImportLandsWhole`, `OneBridgeEach`, `SettingsStayCommon`, `SpinnerEnds` |
| `handlers` | `MCHandlers` | thirteen classes: `Converges`, `HomeKitIsToldOfChanges` |
| `routing` | `MCRouting` | a thermostat and a lamp of one device, and a group: `RequestsReachTheirDevice`, `OneInterfacePerDevice`, `WritesComeBack` |
| `timed_handlers` | `MCTimedHandlers` | three classes: `NothingDangles`, `StoppedMeansSilence`, `DoorIsBelieved`, `DisposeDisarms`, `PassingEnds` |
| `variables` | `MCVariables` | three classes: `CatchesUp` |

Three further runs state a claim of the repository that the code does not keep,
and end with TLC's counterexample (`findings` in `PROJECT.json`):

| Run | The claim that fails |
|---|---|
| `connection_shutdown` | shutdown closes the callback server (not while `start()` still awaits: `stop()` returns early and `start()` goes on) |
| `handlers_level` | a HomeKit percentage is written as its fraction (1 % becomes 100 %) |
| `config_ui_import` | "Existing accessories are kept" (not by an import with one bridge per instance, which replaces all blocks) |
Further divergences are known and have no run of their own; all but the last are in
the models.

* A variable's configured subtype never reaches its accessory's context
  (`platform.ts:244`; `Subtype` in `Platform`).
* A thermostat's SET_TEMPERATURE event does not push CurrentHeatingCoolingState
  (`ThermostatAccessory.ts:85`; `Pushed` in `Handlers`).
* The boolean handlers take every text for true, `"false"` included
  (`ContactAccessory.ts:61`; `Read` in `Handlers`).
* An interface whose first `subscribe()` fails never enters `rpcClients`
  (`CcuClient.ts:136`; `Rejected` in `CcuConnection`), so the watchdog never tries it
  again, although "every interface re-issues `init`" (`docs/ARCHITECTURE.md:180`).
* XML-RPC is sent an address as it was configured (`CcuClient.ts:279`; `Request` in
  `Routing`). `docs/INTEGRATION.md:99` configures `HmIP.000ABCDEF12345:1`, which is
  no name that the CCU lists; only JSON-RPC is given the bare one, and the event of
  what it writes then goes past the listeners, which have the documented name.
  `RequestsReachTheirDevice` is therefore about the CCU's own names, and
  `WritesComeBack` says that nothing but a write by JSON-RPC is missed.
* `asInterfaceId` takes any unknown interface for BidCos-RF
  (`CcuJsonRpcClient.ts:450`; in `Routing`), so a device of CCU-Jack is indexed
  there, although the index "always tells the truth" (`CcuClient.ts:322`).
* The removal form says "This bridge has N accessories. Removing it deletes all of
  them" (`app.js:1374`), but removes what is at its position when it is confirmed
  (`app.js:1387`), which after a split import that threw half-way is another bridge
  (`ConfirmRemove` in `ConfigUi`).
* Every block of the settings page is given the main bridge's event server port
  (`app.js:727`, `:858`, `:1454`). A child bridge is a process of its own, so its
  event server cannot listen, its start fails and it attaches nothing until the user
  edits the port in config.json. Processes beside one another are not modelled.

Bounds, and why they are enough:

* `N = 2` interfaces: all interaction between interfaces goes through the shared
  timestamp, the order of the loop and the map, for which one before and one
  after suffice. `WatchdogTime = 2`, `MinInterval = 1`: the tick is shorter than
  the timeout, as with 300 s and 100 s, and the strict comparison matters.
  `MaxFlights = 2`: a re-subscription overtakes the one before.
* two operations, one with a look-up: each can drop or replace the session of
  the other at every await; the bound on sessions follows from one renewal per
  call.
* five configurations over two identifiers: added, dropped, duplicated and
  unknown mappings, and a changed subtype.
* `Level = {0, 1, 100}`: off, the value that a percentage and a fraction share,
  full. `Temp = {9, 44}`: the CCU's "off" and a heating temperature, on both
  sides of the default. `MaxPending = 2` writes and events under way: a write
  against an event, two events, two writes, each against a pull per datapoint.
* `Groups`: a tilt, colour or colour temperature shares no field and no
  characteristic with the LEVEL beside it, nor do the measurements of a weather
  station, meter or battery with each other, so a behaviour exercises one of
  them; what crosses is the pull, the events and the writes of one datapoint.
  The values of these are few: the ends, one that has to be rounded, and one
  outside the range where the code clamps. `Hue = {0, 120}`: the hue of
  a discrete colour, and one between two of them.
* `MaxCommands = 3`, `MaxEvents = 2`: a second and third command while a timer
  is armed; a report behind another.
* `CallbackServer`: two requests cross in every order with the registering and
  disposing of three listeners, of which two share a datapoint and one throws.
  Fourteen bodies: single events, batches with failing, nested and nameless calls,
  a number that is none, a DTD, a body cut short, one over the limit
  (`MaxBytes = 2` chunks), the other methods, and no POST.
* `ConfigUi`: an item of each kind; a disk without blocks, and one with a main and a
  child bridge that hold an item each, next to another platform's block; a
  backup of two instances with an unknown instance and a warning, and one without
  instances. A backup that cannot be read does what a request does that fails.
  `MaxBlocks = 2`: a bridge is added to a main bridge, and removed; `MaxCalls = 2`
  requests cross; `MaxEdits = 2`: a change under a form, a request or a reply, and
  another one after it. After the last change no form is opened and no request
  sent, for nothing could come of it. `config_ui_import` has `MaxBlocks = 3` and
  `MaxCalls = 1`.
* `Routing`: a device that the CCU lists bare and without its maintenance channel,
  so that one request is looked up by channel and another by device, and a group
  with a prefix and no listed channel. The thermostat is configured in the documented
  form, so that its writes by JSON-RPC do go past its listener; it hears one of the
  two points it writes. `MaxUnderway = 2`: HomeKit writes while at most one request
  or event is under way, besides the reads of attaching.
* `MaxCalls = 2` polls and writes: a poll overtaken by a later poll and a write.

No state constraint is used; every bound is a guard of an external action or of
HomeKit's or the user's, never of the plugin's own continuation, except
`MaxFlights`, which holds the watchdog's tick back, `MaxCalls` of `Variables`, which
skips a poll, and `MaxEdits`, which also holds the reply of an import back.

Fairness. `CcuConnection`: Node runs due callbacks and timers, `listen()` and
the requests settle by their timeouts, and an interface tried again and again is
reached in the end (strong fairness, stated apart as `Reachable`); `init` has no
timeout of its own, so that it settles is the TCP stack's promise.
`JsonRpcSession`: the idle timeout of `postJson` and Node's callbacks.
`TimedHandlers`: an armed timer fires and an awaited command settles;
`PassingEnds` is stated for the time after HomeKit's last command, because
commands repeated within the travel time re-arm the timer for ever.
`Variables`: the interval fires, calls settle, and a CCU that is asked again and
again answers some poll; `CatchesUp` is stated for the time after the last
change. `ConfigUi`: some request under way ends, since the UI server answers each
and its calls to the CCU time out; the user need do nothing. `Handlers`,
`Platform`, `CallbackServer` and `Routing` have no liveness property.

`json_rpc_session`, `timed_handlers` and `callback_server` do not check deadlock:
all operations or requests may be over, and Homebridge may have shut down.

## 4. What is proved

TLAPS checks the following for every value of the constants.

`CcuConnectionProofs` (any number of interfaces, any watchdog setting, any bound
on flights; assumptions `NAssumption`, `TimeAssumption`, `FlightsAssumption`):
`TypeCorrect`, `Served` (`ServedWhileRegistered`), `Unregisters`
(`StopUnregisters`), `SilenceNoticed` (`SilenceBounded`) and `NoLateSubscribe`
(`NoSubscribeAfterStop`). `StopUnregisters` is not inductive: that nothing is
left registered after `stop()` depends on where each subscription is accounted
for before it. The invariant has four parts. `PhaseInv` ties the positions of
`start()` and `stop()` to the server, the watchdog and the map. `FlightInv` says
who owns each `subscribe()` in progress: the loop of `start()` has exactly one,
later ones belong to clients of the map or were overtaken by `stop()`.
`AccountInv` says that each subscription of the CCU belongs to a client of the
map, to a reply under way, or to a client still to be unsubscribed, unless a
lost message or an overtaking explains it. `ClockInv` adds the time to the next
tick to the silence so far. Each action preserves each part; lemmas cover the
loop of `start()`, its rejection path and the loop of `stop()`, which several
actions share.

`JsonRpcSessionProofs` (any set of operations): `TypeCorrect`, `OneRenewal`
(`RenewedOnce`) and `Implements` (`ImplementsPromise`). `PostsInv` counts the
posts by position: before a request is out, only the attempt before the renewal
counts. `EffectInv` says that the acting call has been carried out exactly when
it has been answered, and at most once ever. The shared session appears in
neither: whatever other operations do to it only decides whether an attempt
logs in, and that is the reason why the theorem holds. Each step is then a step
of `RemoteOperation` or a stutter.

`TimedHandlersProofs` (any bound on commands, timers and events): `TypeCorrect`,
`NeverDangles` (`NothingDangles`), `Silence` (`StoppedMeansSilence`), `Disarms`
(`DisposeDisarms`) and `DoorBelieved` (`DoorIsBelieved`). The strengthening says
that a report of the door and `dispose()` leave its timer disarmed, that a
disposed opener without an awaited pulse has neither timer nor command, and that
only the garage door hears of its channel. For `DoorIsBelieved` it is that the
last event pushed is the door's state: an event that empties the queue therefore
tells the truth, and one that was heard leaves no timer to overwrite it. For the
types it is that a program's timers and commands together stay within the bound,
and that a command finds a free number while there is room (`NumberLeft`, from the
pigeonhole principle).

Its last part is about `Variables` (`V == INSTANCE Variables`; nothing is shared with
the other handlers): `VariablesTypeCorrect` says `V!Spec => []V!TypeOK` for any set of
natural numbers with 0 and 1 in it and any bound. The type invariant is inductive
here. That a value is a number and that both booleans are values is the module's
`ValuesAssumption`; it is a hypothesis, as an instance does not hand its assumptions
on.

`PlatformProofs` (any set of configurations that `ConfigsAssumption` allows):
`TypeCorrect`, `CacheMirrors` (`CacheMirrorsHomebridge`), `LoopCompletes`
(`LoopIsComplete`), `Disposes` (`ShutdownDisposes`) and `ConfiguredStay`
(`ConfiguredAccessoriesStay`), all from one invariant, `Inductive`. `Progress` says
that the cursor determines what has been seen and bounds what was skipped.
`Tracked` says which handlers there are, and that `managed` leads to each of them
or another mapping of the same accessory has taken its place: without it nothing
would follow from shutdown disposing of what `managed` leads to. One lemma covers
the loop for all three actions that run it. The handler that `managed` keeps for
an accessory is the last of its mappings; that there is a last one
(`LargestOf`) is shown from the well-foundedness of the numbers.

`HandlersProofs` (any choice of the thirteen classes, any levels in 0..100, any
temperatures and hues, any bound on messages; assumptions `KindsAssumption`,
`LevelAssumption`, `TempAssumption`, `HueAssumption`): `TypeCorrect`,
`CacheConverges` (`Converges`) and `HomeKitIsTold` (`HomeKitIsToldOfChanges`).
`Converges` speaks of the moment when nothing is under way; the invariant has to
say what is under way before that, and why it will do. `LastTells`: the last event
queued for a datapoint is the device's value. `AnswerTells`: so is the answer to a
pull, unless an event overtook it or is about to. `Settled`: the cache says what the
device holds, unless the datapoint is *open* (an event or a write is under way, or
the difference is excused). `Told`: HomeKit holds what a read would answer, unless
a datapoint that pushes this characteristic is open. A step that takes an event,
an answer or a write away must therefore settle its datapoint or leave it open.
`Types` bounds every number in cache, device, messages and HomeKit; it is what makes
roundings and clamps exact. The classes enter through a few lemmas: what a value
leaves in the cache (`HandleSays`), that it disturbs no other datapoint
(`HandleKeeps`), that what a read answers changes only where it is pushed
(`ChangesArePushed`), and that every set sends legal writes (`SetsAreGood`). The
hardest cases are the blind, whose WORKING event pushes what only LEVEL changes
(`Working`), and the light of discrete colours: the hue that it snaps to exists
because a finite ring of distances has a least one (`LeastOf`).

`ConfigUiProofs` (any configuration, backup and bound): `SavesKeepOtherPlatforms`
(`OthersRoundTrip`), `WhatIsStagedIsShown` (`StagedIsShown`), `TypeCorrect`,
`OnlyWhatIsRemovedVanishes` (`NothingVanishes`), `BridgesShareSettings`
(`SettingsStayCommon`), `WhatIsImportedIsConfigured` (`ImportLandsWhole`) and
`OneBridgeAtATime` (`OneBridgeEach`). The first two rest on `Quiet` (form and
requests belong to the ready page), `Trip` (nothing is staged before the
configuration is read, and all copies of the other platforms' blocks agree
afterwards) and `Shown` (nothing counts as changed before that). Every action of the
ready page either stages, is refused, loses or changes nothing (`Kinds`,
`StageEffect`). `OnlyWhatIsRemovedVanishes` needs `Counted` besides: a removal form is
never the main bridge's, and unless the blocks were replaced under it, it counts what
the bridge at its position has, for the one change that is not drawn, a merge whose
handler throws, concerns the main bridge (`MergeSpares`). The others rest on
assumptions about what a saved block and a backup may hold (`SavedAssumption`,
`BackupsAssumption`: fields may be missing, and a backup's instances need not be
those of its items) and on `Sound`: the blocks are a list with a main bridge, what
is staged and saved can be read again, an open editor shows an item, and a request
under way carries a backup. Lemmas without states say what each handler makes of
*any* list of blocks: which accessories it keeps (`Edited`) and on which bridges
(`HeldAfter...`); every step is one of these (`Fate`, `Spread`). An editor has an
entry to show because an item that is held has a first holder (`FirstOf`), and the
bridges behind a removed one move up by a bijection (`HeldAfterSplice`).

`CallbackServerProofs` (any requests, bodies, listeners and limit; assumptions
`LimitAssumption`, `KeyAssumption`, and `AnswerAssumption`, that every body is
answered by a response or a fault): `TypeCorrect` and `EventsReachTheirListeners`
(`EachEventOnce`). The invariant is that the map of listeners is exactly that of the
registered ones (`ListenersOK`), whatever order they came and went in: that the
disposer deletes a set only with its last listener is what keeps it
(`IndexLoses`). The theorem is `Spec /\ []DispatchIsComplete => EachEventOnce`: if the
dispatch of a body reaches every listener in the map it is given, whatever the map,
then events reach those registered when their body ends. Its hypothesis is a
statement about the recursive `handle` of `XmlRpc`, for which a proof would need
induction over bodies; TLC checks it as an invariant in `callback_server`.

`RoutingProofs` (any devices, prefixes, lists and handlers; `AddressAssumption`: a
configured address has the three parts it is read into; `KindsAssumption`: each
handler is of one of the classes): `TypeCorrect`,
`RequestsArrive` (`RequestsReachTheirDevice`), `DevicesStayTogether` (`OneInterfacePerDevice`) and
`XmlWritesComeBack` (`WritesComeBack`). The invariant `RouteInv` says that the index is the
one made of the listed devices and stays so, that nothing is sent before it is
there, that each request is for one of its handler's points, goes where that address
is looked up, and bears one of two names, and that an event of a write by XML-RPC
names the very point that was written: XML-RPC is given the configured address, so
only if the CCU calls it the same is the write carried out. What is left is about the index
alone: an address is in it exactly if its device was listed, under a prefix that is
indexed and a channel that is listed (`RememberedIs`, `IndexHolds`), and a look-up
depends on the device only, whichever of the three ways it goes
(`LookedUpByDevice`). So requests of one device agree although some of its channels
are listed and others are not, and although clients come and go between them.

Only model-checked: every liveness property (out of TLAPS's reach), and what the
recursive definitions of `XmlRpc` compute (`DispatchIsComplete`, `RepliesReadBack`).
The properties of every run that is proved were checked by TLC first. The type
invariants of `Platform`, `JsonRpcSession` and `Routing` are proved and, as they
are lemmas for every value of the constants, in no run.

## 5. Not modelled, and why

The registry is a table that decides which handler is built; `Platform` and
`Handlers` start from that result. `util/address.ts` has no caller but the tests:
the addresses that count are read in `CcuClient.ts` (`Routing`). Configuration, storage and logging have no behaviour of
several steps. The device, variable and program lists are read once, and a failure
is `Platform`'s *Skipped*. The stateless button pushes each press and keeps a time
only. The second spelling of a datapoint (`LOWBAT`, `BRIGHTNESS`,
`ACTUAL_TEMPERATURE` of a weather station) runs the first one's listener.
hap-nodejs is not modelled: a push or a set changes HomeKit's value at once,
although hap-nodejs stores a set only when its handler resolves. A set after
`dispose()` is modelled as a request (`Routing`) and not in what HomeKit shows
(`Handlers`). The ports that the importer derives from a hash are opaque: two of
them can be equal whatever the code does.

Observed and not made a run, for want of a sentence that promises otherwise: a
lock's JAMMED is ended by the next STATE event and by nothing else; a
thermostat's mode is never read back; two mappings of one accessory build two
handlers, of which only the last is disposed of; a light variable's On is
pushed only when a poll finds a new brightness; HomeKit sets a colour's hue and
saturation one by one, and if the COLOR event of the first write comes before
the second set, it resets the hue that the second write then sends.

## 6. Plan

Done, in this order: `CcuConnection`, `JsonRpcSession` against `RemoteOperation`,
`Platform`, `Handlers`, `TimedHandlers`, `Variables`, `ConfigUi`,
`CallbackServer`, `Routing`, and the proofs of all of them. Open:

1. The registry's choice of a handler against a reference definition.
2. `CcuConnection` composed with a handler: an abstract *datapoint mirror* that
   `Handlers` implements, fed by events that arrive only while subscribed.
