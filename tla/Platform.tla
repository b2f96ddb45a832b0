------------------------------ MODULE Platform ------------------------------
(***************************************************************************)
(* HomematicPlatform (src/platform.ts): the accessories Homebridge         *)
(* restores from disk, the attach loop that didFinishLaunching runs over   *)
(* the configured channels, variables and programs, and shutdown, which    *)
(* Homebridge may emit while that loop awaits the CCU.  The program runs   *)
(* again and again, each time with the configuration the user left.        *)
(*                                                                         *)
(* A mapping of the configuration is a record of its kind, its id          *)
(* (address or name) and its subtype; the UUID is a hash of kind and id.   *)
(* A handler is known by the position of its mapping in the configuration. *)
(* Homebridge is external: `registered` is the accessories it keeps on     *)
(* disk.  Display names and service keys are left out, and the connection  *)
(* to the CCU is module CcuConnection.                                     *)
(***************************************************************************)
EXTENDS Naturals, Sequences, FiniteSetsExt

CONSTANTS
  Ids,       \* addresses and names
  Subtypes,  \* the variants of a service; "none" stands for `undefined`
  Configs    \* the configurations the user may leave: sequences of mappings

Kinds == {"channel", "variable", "program"}
Mapping == [kind : Kinds, id : Ids, subtype : Subtypes]

\* didFinishLaunching takes the channels first, then the variables, then the programs.
Rank == [channel |-> 1, variable |-> 2, program |-> 3]

ASSUME ConfigsAssumption ==
  /\ Configs \subseteq Seq(Mapping)
  /\ \A c \in Configs : \A j, k \in DOMAIN c :
       j < k => Rank[c[j].kind] <= Rank[c[k].kind]

VARIABLES
  phase,       \* where didFinishLaunching is suspended
  config,      \* the resolved configuration of this process
  cursor,      \* the mapping whose attach call is awaited
  seen,        \* the UUIDs the loop has met
  cached,      \* the keys of cachedAccessories
  managed,     \* HomematicPlatform.managed: UUID to handler
  handlers,    \* the handlers that are attached and not disposed
  stopped,     \* shutdown() has run
  registered,  \* external: the accessories Homebridge keeps
  context,     \* accessory.context.subtype of each of them
  skipped,     \* history: the mappings whose attach call failed
  cutoff       \* history: the mapping awaited when shutdown() ran, or 0

vars == <<phase, config, cursor, seen, cached, managed, handlers, stopped,
          registered, context, skipped, cutoff>>

Phases == {"down", "idle", "starting", "attaching", "done", "failed"}

Uuid(m) == <<m.kind, m.id>>
Uuids(c, K) == {Uuid(c[k]) : k \in K}
Configured == Uuids(config, DOMAIN config)

NoMap == [u \in {} |-> 0]

\* The first installation: Homebridge has never met the plugin.
Init ==
  /\ phase = "down" /\ config = <<>> /\ cursor = 0
  /\ seen = {} /\ cached = {} /\ managed = NoMap /\ handlers = {}
  /\ stopped = FALSE
  /\ registered = {} /\ context = NoMap
  /\ skipped = {} /\ cutoff = 0

-----------------------------------------------------------------------------
(* Homebridge starts the process                                           *)

\* The constructor accepts the configuration, configureAccessory remembers
\* every accessory on disk, and didFinishLaunching awaits ccu.start().
Boot(c) ==
  /\ phase = "down"
  /\ phase' = "starting"
  /\ config' = c
  /\ cached' = registered
  /\ UNCHANGED <<cursor, seen, managed, handlers, stopped, registered, context, skipped, cutoff>>

\* resolveConfig throws a ConfigError: no CCU client, no listeners.
BootIdle ==
  /\ phase = "down"
  /\ phase' = "idle"
  /\ cached' = registered
  /\ UNCHANGED <<config, cursor, seen, managed, handlers, stopped, registered, context,
                 skipped, cutoff>>

\* ccu.start() or ensureRoot rejects: "Startup failed", and nothing else is done.
StartupFails ==
  /\ phase = "starting"
  /\ phase' = "failed"
  /\ UNCHANGED <<config, cursor, seen, cached, managed, handlers, stopped, registered,
                 context, skipped, cutoff>>

-----------------------------------------------------------------------------
(* The attach loop of didFinishLaunching                                   *)

\* The mapping's attach call awaits the CCU.  attachProgram awaits nothing, so
\* the programs, which come last, are attached without a pause.
Awaits(k) == k <= Len(config) /\ config[k].kind # "program"

\* attachVariable passes no subtype on: a cached accessory keeps its own.
Subtype(k, u) ==
  CASE config[k].kind = "channel"                      -> config[k].subtype
    [] config[k].kind # "channel" /\ u \in registered  -> context[u]
    [] OTHER                                           -> "none"

\* The handler that `managed` holds for u once those of K have been attached.
LastOf(u, K) == Max({k \in K : Uuid(config[k]) = u})

\* Fault: the loop forgets cachedAccessories.delete.
ContinueKeepsStale(K, next) ==
  LET attached == Uuids(config, K)
      stale    == IF phase' = "done" THEN cached \ seen' ELSE {}
  IN  /\ handlers' = handlers \cup K
      /\ managed' = [u \in DOMAIN managed \cup attached |->
                       IF u \in attached THEN LastOf(u, K) ELSE managed[u]]
      /\ cached' = cached \cup attached
      /\ registered' = (registered \cup attached) \ stale
      /\ context' = [u \in registered' |->
                       IF u \in attached THEN Subtype(LastOf(u, K), u) ELSE context[u]]
      /\ cursor' = next

\* Every handler of K is built, attached and put into the map, in order, each
\* on the accessory of its UUID, which is created unless it is cached; then the
\* loop awaits mapping `next`, or drops the cached accessories it has not seen.
Continue(K, next) ==
  LET attached == Uuids(config, K)
      stale    == IF phase' = "done" THEN cached \ seen' ELSE {}
  IN  /\ handlers' = handlers \cup K
      /\ managed' = [u \in DOMAIN managed \cup attached |->
                       IF u \in attached THEN LastOf(u, K) ELSE managed[u]]
      /\ cached' = (cached \cup attached) \ stale
      /\ registered' = (registered \cup attached) \ stale
      /\ context' = [u \in registered' |->
                       IF u \in attached THEN Subtype(LastOf(u, K), u) ELSE context[u]]
      /\ cursor' = next

\* Fault: a UUID is seen only once its attach call has succeeded.
LoopSeesLate(ok, next) ==
  \/ /\ Awaits(next)
     /\ phase' = "attaching"
     /\ seen' = seen \cup Uuids(config, ok)
     /\ Continue(ok, next)
  \/ /\ ~Awaits(next)
     /\ phase' = "done"
     /\ seen' = seen \cup Uuids(config, ok \cup next..Len(config))
     /\ Continue(ok \cup next..Len(config), Len(config) + 1)

\* From mapping `next` on: with `ok` the handlers to attach before it.
Loop(ok, next) ==
  \/ /\ Awaits(next)
     /\ phase' = "attaching"
     /\ seen' = seen \cup {Uuid(config[next])}
     /\ Continue(ok, next)
  \/ /\ ~Awaits(next)
     /\ phase' = "done"
     /\ seen' = seen \cup Uuids(config, next..Len(config))
     /\ Continue(ok \cup next..Len(config), Len(config) + 1)

Connected ==
  /\ phase = "starting"
  /\ Loop({}, 1)
  /\ UNCHANGED <<config, stopped, skipped, cutoff>>

\* listDevices or listVariables answers, and the handler is attached (to a
\* stub if the CCU does not list the channel).
Attached ==
  /\ phase = "attaching"
  /\ Loop({cursor}, cursor + 1)
  /\ UNCHANGED <<config, stopped, skipped, cutoff>>

\* Fault: a failing call ends the loop.
SkippedEndsLoop ==
  /\ phase = "attaching"
  /\ phase' = "done"
  /\ seen' = seen
  /\ Continue({}, Len(config) + 1)
  /\ skipped' = skipped \cup {cursor}
  /\ UNCHANGED <<config, stopped, cutoff>>

\* The call fails, or the service or the variable is unknown: "Skipping".
Skipped ==
  /\ phase = "attaching"
  /\ Loop({}, cursor + 1)
  /\ skipped' = skipped \cup {cursor}
  /\ UNCHANGED <<config, stopped, cutoff>>

-----------------------------------------------------------------------------
\* Fault: the handlers are dropped undisposed.
ShutdownLeaks ==
  /\ phase \in {"starting", "attaching", "done", "failed"} /\ ~stopped
  /\ stopped' = TRUE
  /\ managed' = NoMap
  /\ cutoff' = cursor
  /\ UNCHANGED <<phase, config, cursor, seen, cached, handlers, registered, context, skipped>>

\* Homebridge emits SHUTDOWN once; the loop, if it has not ended, goes on.
\* (BootIdle registered no listener for it.)
Shutdown ==
  /\ phase \in {"starting", "attaching", "done", "failed"} /\ ~stopped
  /\ stopped' = TRUE
  /\ handlers' = handlers \ {managed[u] : u \in DOMAIN managed}
  /\ managed' = NoMap
  /\ cutoff' = cursor
  /\ UNCHANGED <<phase, config, cursor, seen, cached, registered, context, skipped>>

\* The process ends, orderly or not.
Exit ==
  /\ phase # "down"
  /\ phase' = "down" /\ config' = <<>> /\ cursor' = 0
  /\ seen' = {} /\ cached' = {} /\ managed' = NoMap /\ handlers' = {}
  /\ stopped' = FALSE /\ skipped' = {} /\ cutoff' = 0
  /\ UNCHANGED <<registered, context>>

Next ==
  \/ \E c \in Configs : Boot(c)
  \/ BootIdle \/ StartupFails
  \/ Connected \/ Attached \/ Skipped
  \/ Shutdown \/ Exit

Spec == Init /\ [][Next]_vars

-----------------------------------------------------------------------------
(* Properties                                                              *)

\* Every variable keeps to the values the code can give it.
TypeOK ==
  /\ phase \in Phases
  /\ config \in Configs \cup {<<>>}
  /\ cursor \in 0..(Len(config) + 1)
  /\ seen \subseteq Configured
  /\ handlers \subseteq DOMAIN config
  /\ DOMAIN managed \subseteq Configured
  /\ \A u \in DOMAIN managed : managed[u] \in handlers /\ Uuid(config[managed[u]]) = u
  /\ stopped \in BOOLEAN
  /\ DOMAIN context = registered
  /\ skipped \subseteq DOMAIN config
  /\ cutoff \in 0..(Len(config) + 1)

\* The plugin's map of accessories and Homebridge's never differ, whatever
\* step the loop is at: so no UUID is registered twice, which Homebridge
\* refuses, and none is updated or removed that Homebridge does not know.
CacheMirrorsHomebridge == phase # "down" => cached = registered

\* An accessory that is still configured is never removed from HomeKit (where
\* its room, name and automations would be lost), even when its attach call
\* fails, start() rejects, the configuration is refused, or the process ends.
ConfiguredAccessoriesStay ==
  [][\A u \in registered \cap Configured : u \in registered']_vars

\* When the loop has ended, HomeKit shows no accessory that is not configured,
\* and each mapping has its handler unless its own attach call failed: one
\* failing mapping costs no other its handler or its removal.
LoopIsComplete ==
  phase = "done" =>
    /\ registered \subseteq Configured
    /\ ~stopped => handlers = DOMAIN config \ skipped

\* After shutdown, a handler is left attached only if the loop attached it
\* later, or if it had lost its place in the map to another mapping of the same
\* accessory.
ShutdownDisposes ==
  stopped => \A k \in handlers :
    \/ cutoff <= k
    \/ \E j \in DOMAIN config \ {k} : Uuid(config[j]) = Uuid(config[k])
=============================================================================
