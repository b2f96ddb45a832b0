--------------------------- MODULE PlatformProofs ---------------------------
(***************************************************************************)
(* What the attach loop and shutdown() promise, for every configuration    *)
(* the user may leave.  A handler is tracked while the map of accessories  *)
(* leads to it or another mapping of its accessory has taken its place;    *)
(* shutdown() disposes what the map leads to, and later handlers belong to *)
(* mappings that the loop had not finished by then.                        *)
(***************************************************************************)
EXTENDS Platform, TLAPS, WellFoundedInduction

Less == {p \in Nat \X Nat : p[1] < p[2]}

\* The numbers are well-founded, as a relation that the provers can read.
LEMMA LessWellFounded == IsWellFoundedOn(Less, Nat)
BY NatLessThanWellFounded DEF OpToRel, Less

\* Every set of numbers has a smallest one.
LEMMA SmallestOf ==
  ASSUME NEW T \in SUBSET Nat, T # {}
  PROVE  \E m \in T : \A k \in T : m <= k
<1>1. \E m \in T : \A k \in T : ~(<<k, m>> \in Less)
  BY LessWellFounded, WFMin
<1>2. PICK m \in T : \A k \in T : ~(<<k, m>> \in Less)
  BY <1>1
<1>3. ASSUME NEW k \in T
      PROVE  m <= k
  <2>1. <<k, m>> \notin Less /\ k \in Nat /\ m \in Nat
    BY <1>2, <1>3
  <2>2. ~(k < m)
    BY <2>1 DEF Less
  <2> QED
    BY <2>1, <2>2
<1> QED
  BY <1>3

\* Every set of positions has a last one.
LEMMA LargestOf ==
  ASSUME NEW n \in Nat, NEW K \in SUBSET (1..n), K # {}
  PROVE  Max(K) \in K
<1> DEFINE T == {n - k : k \in K}
<1>1. T \in SUBSET Nat /\ T # {}
  <2>1. \A k \in K : n - k \in Nat
    OBVIOUS
  <2> QED
    BY <2>1
<1>2. PICK m \in T : \A k \in T : m <= k
  BY <1>1, SmallestOf
<1> HIDE DEF T
<1>3. PICK x \in K : m = n - x
  BY <1>2 DEF T
<1>4. ASSUME NEW y \in K
      PROVE  x >= y
  <2>1. n - y \in T
    BY DEF T
  <2>2. n - x <= n - y
    BY <1>2, <1>3, <2>1
  <2> QED
    BY <2>2
<1> QED
  BY <1>4 DEF Max

-----------------------------------------------------------------------------

\* Where the loop is, and what it has seen and skipped by then.
Progress ==
  /\ phase \in {"down", "idle", "starting", "failed"} =>
       cursor = 0 /\ seen = {} /\ managed = NoMap /\ handlers = {} /\ skipped = {}
  /\ phase \in {"down", "idle"} => ~stopped /\ cutoff = 0
  /\ phase = "attaching" => /\ cursor \in DOMAIN config
                            /\ seen = Uuids(config, 1..cursor)
  /\ phase = "done" => /\ cursor = Len(config) + 1
                       /\ seen = Configured /\ registered \subseteq Configured
  /\ skipped \subseteq 1..(cursor - 1)

SameAccessory(k) == \E j \in DOMAIN config \ {k} : Uuid(config[j]) = Uuid(config[k])

\* The map leads to each handler, or another mapping of its accessory has taken
\* its place; after shutdown() this may fail for what it has left.
Tracked ==
  /\ ~stopped => \A k \in handlers : 
       \/ Uuid(config[k]) \in DOMAIN managed /\ managed[Uuid(config[k])] = k
       \/ SameAccessory(k)
  /\ ~stopped => handlers = (1..(cursor - 1)) \ skipped
  /\ stopped => cutoff <= cursor /\ \A k \in handlers : cutoff <= k \/ SameAccessory(k)

IInv == TypeOK /\ Progress /\ Tracked /\ CacheMirrorsHomebridge

\* A configuration is a sequence.
LEMMA ConfigType == TypeOK => config \in Seq(Mapping) /\ Len(config) \in Nat /\ DOMAIN config = 1..Len(config)
<1> SUFFICES ASSUME TypeOK
             PROVE  config \in Seq(Mapping)
  OBVIOUS
<1>1. Configs \subseteq Seq(Mapping)
  BY Zenon, ConfigsAssumption
<1>2. config \in Configs \cup {<<>>}
  BY Zenon DEF TypeOK
<1>3. <<>> \in Seq(Mapping)
  OBVIOUS
<1> QED
  BY <1>1, <1>2, <1>3

\* The handler that the map holds for an accessory is the last of the
\* accessory's mappings.
LEMMA LastOfType ==
  ASSUME TypeOK, NEW K \in SUBSET DOMAIN config, NEW u \in Uuids(config, K)
  PROVE  LastOf(u, K) \in K /\ Uuid(config[LastOf(u, K)]) = u
<1> DEFINE Q == {k \in K : Uuid(config[k]) = u}
<1>1. Q # {} /\ Q \in SUBSET (1..Len(config)) /\ Len(config) \in Nat
  BY ConfigType DEF Uuids
<1>2. Max(Q) \in Q
  BY <1>1, LargestOf
<1>3. LastOf(u, K) = Max(Q)
  BY DEF LastOf
<1> QED
  BY <1>2, <1>3

-----------------------------------------------------------------------------

\* The handlers and the maps once the handlers of K have been attached.
LEMMA ContinueStep ==
  ASSUME TypeOK, Tracked, NEW K \in SUBSET DOMAIN config, NEW next, Continue(K, next),
         config' = config
  PROVE  /\ handlers' = handlers \cup K /\ cursor' = next
         /\ DOMAIN managed' \subseteq Configured
         /\ \A u \in DOMAIN managed' : managed'[u] \in handlers' /\ Uuid(config[managed'[u]]) = u
         /\ ~stopped => \A k \in handlers' :
              \/ Uuid(config[k]) \in DOMAIN managed' /\ managed'[Uuid(config[k])] = k
              \/ SameAccessory(k)
         /\ DOMAIN context' = registered'
         /\ cached = registered => cached' = registered'
         /\ registered' = (registered \cup Uuids(config, K))
                            \ (IF phase' = "done" THEN cached \ seen' ELSE {})
<1> DEFINE attached == Uuids(config, K)
<1>1. /\ handlers' = handlers \cup K /\ cursor' = next
      /\ managed' = [u \in DOMAIN managed \cup attached |->
                       IF u \in attached THEN LastOf(u, K) ELSE managed[u]]
      /\ DOMAIN context' = registered'
      /\ cached' = (cached \cup attached) \ (IF phase' = "done" THEN cached \ seen' ELSE {})
      /\ registered' = (registered \cup attached) \ (IF phase' = "done" THEN cached \ seen' ELSE {})
  BY DEF Continue
<1>2. /\ handlers \subseteq DOMAIN config /\ DOMAIN managed \subseteq Configured
      /\ \A u \in DOMAIN managed : managed[u] \in handlers /\ Uuid(config[managed[u]]) = u
  BY DEF TypeOK
<1>3. attached \subseteq Configured /\ \A k \in K : Uuid(config[k]) \in attached
  BY DEF Uuids, Configured
<1>4. \A u \in attached : LastOf(u, K) \in K /\ Uuid(config[LastOf(u, K)]) = u
  BY LastOfType
<1> HIDE DEF attached
<1>5. DOMAIN managed' \subseteq Configured
  BY <1>1, <1>2, <1>3
<1>6. ASSUME NEW u \in DOMAIN managed'
      PROVE  managed'[u] \in handlers' /\ Uuid(config[managed'[u]]) = u
  <2>1. CASE u \in attached
    BY <2>1, <1>1, <1>4
  <2>2. CASE u \notin attached
    BY <2>2, <1>1, <1>2
  <2> QED
    BY <2>1, <2>2
<1>7. ASSUME ~stopped, NEW k \in handlers'
      PROVE  \/ Uuid(config[k]) \in DOMAIN managed' /\ managed'[Uuid(config[k])] = k
             \/ SameAccessory(k)
  <2> DEFINE u == Uuid(config[k])
  <2>1. CASE u \in attached
    <3>1. managed'[u] = LastOf(u, K) /\ u \in DOMAIN managed'
      BY <2>1, <1>1
    <3>2. LastOf(u, K) \in DOMAIN config /\ Uuid(config[LastOf(u, K)]) = Uuid(config[k])
      BY <2>1, <1>4
    <3> QED
      BY <3>1, <3>2 DEF SameAccessory
  <2>2. CASE u \notin attached
    <3>1. k \in handlers
      BY <2>2, <1>1, <1>3
    <3>2. (u \in DOMAIN managed /\ managed[u] = k) \/ SameAccessory(k)
      BY <1>7, <3>1 DEF Tracked
    <3> QED
      BY <2>2, <3>2, <1>1
  <2> QED
    BY <2>1, <2>2
<1>8. cached = registered => cached' = registered'
  BY <1>1
<1> QED
  BY <1>1, <1>5, <1>6, <1>7, <1>8 DEF attached

\* The loop, from its start or from the answer to an attach call: with `ok` the
\* handlers to attach and `lost` the mappings to skip before mapping `next`.
LEMMA LoopStep ==
  ASSUME IInv, NEW ok, NEW lost, NEW next \in 1..(Len(config) + 1),
         Loop(ok, next), UNCHANGED <<config, stopped, cutoff>>, skipped' = skipped \cup lost,
         \/ phase = "starting" /\ next = 1 /\ ok = {} /\ lost = {}
         \/ /\ phase = "attaching" /\ next = cursor + 1
            /\ \/ ok = {cursor} /\ lost = {}
               \/ ok = {} /\ lost = {cursor}
  PROVE  IInv' /\ \A u \in registered \cap Configured : u \in registered'
<1> DEFINE K == IF phase' = "done" THEN ok \cup next..Len(config) ELSE ok
           end == IF phase' = "done" THEN Len(config) + 1 ELSE next
<1>1. /\ TypeOK /\ Tracked /\ Progress /\ CacheMirrorsHomebridge
      /\ Len(config) \in Nat /\ DOMAIN config = 1..Len(config)
  BY ConfigType DEF IInv
<1>2. cursor \in Nat /\ skipped \subseteq 1..(cursor - 1) /\ cursor < next
  BY <1>1 DEF Progress
<1>3. Continue(K, end) /\ phase' \in {"attaching", "done"}
  BY DEF Loop
<1>4. K \in SUBSET DOMAIN config
  BY <1>1, <1>2 DEF Progress
<1>5. /\ phase' = "attaching" => next \in DOMAIN config /\ seen' = Uuids(config, 1..next)
      /\ phase' = "done" => seen' = Configured
  <2>1. seen = Uuids(config, 1..(next - 1))
    BY <1>1, <1>2 DEF Progress, Uuids
  <2>2. CASE phase' = "attaching"
    <3>1. seen' = seen \cup {Uuid(config[next])} /\ Awaits(next)
      BY <2>2 DEF Loop
    <3>2. 1..next = 1..(next - 1) \cup {next}
      OBVIOUS
    <3> QED
      BY <2>1, <2>2, <3>1, <3>2, <1>1 DEF Awaits, Uuids
  <2>3. CASE phase' = "done"
    <3>1. seen' = seen \cup Uuids(config, next..Len(config))
      BY <2>3 DEF Loop
    <3>2. DOMAIN config = 1..(next - 1) \cup next..Len(config)
      BY <1>1
    <3> QED
      BY <2>1, <2>3, <3>1, <3>2 DEF Uuids, Configured
  <2> QED
    BY <2>2, <2>3, <1>3
<1> HIDE DEF K, end
<1>6. Configured' = Configured /\ \A k : SameAccessory(k)' <=> SameAccessory(k)
  BY DEF Configured, SameAccessory
<1>7. /\ handlers' = handlers \cup K /\ cursor' = end
      /\ DOMAIN managed' \subseteq Configured
      /\ \A u \in DOMAIN managed' : managed'[u] \in handlers' /\ Uuid(config[managed'[u]]) = u
      /\ ~stopped => \A k \in handlers' :
           \/ Uuid(config[k]) \in DOMAIN managed' /\ managed'[Uuid(config[k])] = k
           \/ SameAccessory(k)
      /\ DOMAIN context' = registered'
      /\ cached = registered => cached' = registered'
      /\ registered' = (registered \cup Uuids(config, K))
                         \ (IF phase' = "done" THEN cached \ seen' ELSE {})
  BY <1>1, <1>3, <1>4, ContinueStep
<1>8. cached' = registered'
  BY <1>1, <1>7 DEF CacheMirrorsHomebridge
<1>9. end \in 1..(Len(config) + 1) /\ cursor < end /\ next <= end
  BY <1>1, <1>2 DEF end
<1>10. TypeOK'
  <2>1. seen' \subseteq Configured
    BY <1>1, <1>3, <1>5 DEF Uuids, Configured
  <2>2. handlers' \subseteq DOMAIN config /\ skipped' \subseteq DOMAIN config
    BY <1>1, <1>2, <1>4, <1>7 DEF TypeOK, Progress
  <2>3. cursor' \in 0..(Len(config) + 1) /\ phase' \in Phases
    BY <1>1, <1>3, <1>7, <1>9 DEF Phases
  <2>4. /\ config' = config /\ config \in Configs \cup {<<>>} /\ stopped' \in BOOLEAN
        /\ cutoff' \in 0..(Len(config) + 1)
    BY Zenon, <1>1 DEF TypeOK
  <2> QED
    BY <1>6, <1>7, <2>1, <2>2, <2>3, <2>4 DEF TypeOK
<1>11. registered' \subseteq Configured \/ phase' # "done"
  <2>1. Uuids(config, K) \subseteq Configured
    BY <1>4 DEF Uuids, Configured
  <2> QED
    BY <2>1, <1>1, <1>5, <1>7 DEF CacheMirrorsHomebridge
<1>12. Progress'
  <2>1. skipped' \subseteq 1..(end - 1)
    <3>1. lost \subseteq 1..cursor
      BY <1>1, <1>2 DEF Progress
    <3>2. skipped \subseteq 1..cursor
      BY <1>2
    <3>3. 1..cursor \subseteq 1..(end - 1)
      BY <1>1, <1>2, <1>9
    <3> QED
      BY <3>1, <3>2, <3>3
  <2>2. phase' = "attaching" => end = next
    BY DEF end
  <2>3. phase' = "done" => end = Len(config) + 1
    BY DEF end
  <2>4. cursor' = end /\ config' = config /\ Configured' = Configured
    BY <1>6, <1>7
  <2>5. phase' = "attaching" => cursor' \in DOMAIN config' /\ seen' = Uuids(config, 1..cursor)'
    BY <1>5, <2>2, <2>4 DEF Uuids, Uuid
  <2>6. phase' = "done" => /\ cursor' = (Len(config) + 1)'
                           /\ seen' = Configured' /\ registered' \subseteq Configured'
    BY <1>5, <1>11, <2>3, <2>4
  <2> QED
    BY <2>1, <2>4, <2>5, <2>6, <1>3 DEF Progress
<1>13. K = ((cursor..(end - 1)) \ {0}) \ lost
  BY <1>1, <1>2, <1>3 DEF K, end, Progress
<1>14. Tracked'
  <2>1. ~stopped => handlers' = (1..(end - 1)) \ skipped'
    <3> SUFFICES ASSUME ~stopped
                 PROVE  handlers' = (1..(end - 1)) \ skipped'
      OBVIOUS
    <3>1. handlers = (1..(cursor - 1)) \ skipped
      BY <1>1 DEF Tracked
    <3>2. lost \subseteq (cursor..(end - 1)) \ {0}
      BY <1>1, <1>2, <1>9 DEF Progress
    <3> QED
      BY <3>1, <3>2, <1>2, <1>7, <1>9, <1>13
  <2>2. stopped => cutoff <= end /\ \A k \in handlers' : cutoff <= k \/ SameAccessory(k)
    <3> SUFFICES ASSUME stopped
                 PROVE  cutoff <= end /\ \A k \in handlers' : cutoff <= k \/ SameAccessory(k)
      OBVIOUS
    <3>1. cutoff <= cursor /\ cutoff \in Nat /\ \A k \in handlers : cutoff <= k \/ SameAccessory(k)
      BY <1>1 DEF Tracked, TypeOK
    <3>2. \A k \in K : cutoff <= k
      BY <3>1, <1>2, <1>9, <1>13
    <3> QED
      BY <3>1, <3>2, <1>2, <1>7, <1>9
  <2>3. config' = config /\ stopped' = stopped /\ cutoff' = cutoff /\ cursor' = end
    BY <1>7
  <2>4. ~stopped => \A k \in handlers' :
          \/ Uuid(config[k])' \in DOMAIN managed' /\ managed'[Uuid(config[k])'] = k
          \/ SameAccessory(k)'
    BY <2>3, <1>6, <1>7 DEF Uuid
  <2>5. stopped => cutoff <= end /\ \A k \in handlers' : cutoff <= k \/ SameAccessory(k)'
    BY <2>2, <1>6
  <2> QED
    BY <2>1, <2>3, <2>4, <2>5 DEF Tracked
<1>15. CacheMirrorsHomebridge'
  BY <1>8 DEF CacheMirrorsHomebridge
<1>16. \A u \in registered \cap Configured : u \in registered'
  BY <1>5, <1>7
<1> QED
  BY <1>10, <1>12, <1>14, <1>15, <1>16 DEF IInv

\* The loop's actions.
LEMMA LoopSteps ==
  ASSUME IInv, Connected \/ Attached \/ Skipped
  PROVE  IInv' /\ \A u \in registered \cap Configured : u \in registered'
<1>1. Len(config) \in Nat /\ DOMAIN config = 1..Len(config)
  BY ConfigType DEF IInv
<1>2. CASE Connected
  <2>1. /\ Loop({}, 1) /\ UNCHANGED <<config, stopped, cutoff>> /\ skipped' = skipped \cup {}
        /\ phase = "starting"
    BY <1>2 DEF Connected
  <2>2. 1 \in 1..(Len(config) + 1)
    BY <1>1
  <2> QED
    BY Zenon, <2>1, <2>2, LoopStep
<1>3. ASSUME Attached \/ Skipped
      PROVE  cursor \in DOMAIN config /\ cursor + 1 \in 1..(Len(config) + 1) /\ phase = "attaching"
  BY <1>1, <1>3 DEF IInv, Progress, Attached, Skipped
<1>4. CASE Attached
  <2>1. /\ Loop({cursor}, cursor + 1) /\ UNCHANGED <<config, stopped, cutoff>>
        /\ skipped' = skipped \cup {}
    BY <1>4 DEF Attached
  <2> QED
    BY <2>1, <1>3, <1>4, LoopStep
<1>5. CASE Skipped
  <2>1. /\ Loop({}, cursor + 1) /\ UNCHANGED <<config, stopped, cutoff>>
        /\ skipped' = skipped \cup {cursor}
    BY <1>5 DEF Skipped
  <2> QED
    BY <2>1, <1>3, <1>5, LoopStep
<1> QED
  BY <1>2, <1>4, <1>5

\* shutdown() disposes what the map leads to.
LEMMA ShutdownStep ==
  ASSUME IInv, Shutdown
  PROVE  IInv'
<1>1. /\ TypeOK /\ Progress /\ Tracked /\ CacheMirrorsHomebridge
  BY DEF IInv
<1>2. /\ UNCHANGED <<phase, config, cursor, seen, cached, registered, context, skipped>>
      /\ managed' = NoMap /\ stopped' = TRUE /\ ~stopped /\ cutoff' = cursor
      /\ handlers' = handlers \ {managed[u] : u \in DOMAIN managed}
      /\ phase \in {"starting", "attaching", "done", "failed"}
  BY DEF Shutdown
<1>3. DOMAIN managed' = {}
  BY <1>2 DEF NoMap
<1>4. TypeOK'
  <2>1. handlers' \subseteq DOMAIN config
    BY <1>1, <1>2 DEF TypeOK
  <2> QED
    BY <1>1, <1>2, <1>3, <2>1 DEF TypeOK, Configured, Uuids, Uuid
<1>5. Progress'
  BY <1>1, <1>2 DEF Progress, Configured, Uuids, Uuid
<1>6. ASSUME NEW k \in handlers'
      PROVE  SameAccessory(k)'
  <2>1. k \in handlers /\ k \notin {managed[u] : u \in DOMAIN managed}
    BY <1>2
  <2>2. SameAccessory(k)
    BY <2>1, <1>1, <1>2 DEF Tracked
  <2> QED
    BY <2>2, <1>2 DEF SameAccessory, Uuid
<1>7. Tracked'
  <2>1. cutoff' <= cursor'
    BY <1>1, <1>2, ConfigType DEF TypeOK
  <2> QED
    BY <2>1, <1>2, <1>6 DEF Tracked
<1> QED
  BY <1>1, <1>2, <1>4, <1>5, <1>7 DEF IInv, CacheMirrorsHomebridge

\* Starting, failing to start and ending leave what Homebridge keeps alone.
LEMMA ProcessStep ==
  ASSUME IInv, (\E c \in Configs : Boot(c)) \/ BootIdle \/ StartupFails \/ Exit
  PROVE  IInv' /\ registered' = registered
<1>1. TypeOK /\ Progress /\ Tracked /\ CacheMirrorsHomebridge
  BY DEF IInv
<1>2. CASE \E c \in Configs : Boot(c)
  <2>1. PICK c \in Configs : Boot(c)
    BY <1>2
  <2>2. /\ phase = "down" /\ phase' = "starting" /\ config' = c /\ cached' = registered
        /\ UNCHANGED <<cursor, seen, managed, handlers, stopped, registered, context, skipped, cutoff>>
    BY <2>1 DEF Boot
  <2>3. cursor = 0 /\ seen = {} /\ managed = NoMap /\ handlers = {} /\ skipped = {} /\ ~stopped
    BY <1>1, <2>2 DEF Progress
  <2>4. config' \in Seq(Mapping) /\ Len(config') \in Nat /\ DOMAIN config' = 1..Len(config')
    BY <2>2, ConfigsAssumption
  <2>5. TypeOK'
    <3>1. DOMAIN context = registered
      BY <1>1 DEF TypeOK
    <3>2. cutoff' \in 0..(Len(config') + 1)
      BY <2>2, <2>4, <1>1 DEF Progress
    <3>3. cursor' \in 0..(Len(config') + 1)
      BY <2>2, <2>3, <2>4
    <3>4. DOMAIN managed' = {}
      BY <2>2, <2>3 DEF NoMap
    <3>5. stopped' \in BOOLEAN
      BY Zenon, <2>2, <1>1 DEF TypeOK
    <3> QED
      BY <2>2, <2>3, <3>1, <3>2, <3>3, <3>4, <3>5 DEF TypeOK, Phases
  <2>6. Progress'
    BY <2>2, <2>3 DEF Progress
  <2>7. Tracked'
    BY <2>2, <2>3 DEF Tracked
  <2> QED
    BY <2>2, <2>5, <2>6, <2>7 DEF IInv, CacheMirrorsHomebridge
<1>3. CASE BootIdle \/ StartupFails
  <2>1. /\ phase \in {"down", "starting"} /\ phase' \in {"idle", "failed"}
        /\ phase' = "idle" => phase = "down"
        /\ cached' = registered
        /\ UNCHANGED <<config, cursor, seen, managed, handlers, stopped, registered, context,
                       skipped, cutoff>>
    BY <1>1, <1>3 DEF BootIdle, StartupFails, CacheMirrorsHomebridge
  <2>2. TypeOK'
    BY <1>1, <2>1 DEF TypeOK, Phases, Configured, Uuids, Uuid
  <2>3. Progress'
    BY <1>1, <2>1 DEF Progress
  <2>4. Tracked'
    BY <1>1, <2>1 DEF Tracked, SameAccessory, Uuid
  <2> QED
    BY <2>1, <2>2, <2>3, <2>4 DEF IInv, CacheMirrorsHomebridge
<1>4. CASE Exit
  <2>1. /\ phase' = "down" /\ config' = <<>> /\ cursor' = 0
        /\ seen' = {} /\ cached' = {} /\ managed' = NoMap /\ handlers' = {}
        /\ stopped' = FALSE /\ skipped' = {} /\ cutoff' = 0
        /\ UNCHANGED <<registered, context>>
    BY <1>4 DEF Exit
  <2>2. TypeOK'
    <3>1. DOMAIN context' = registered'
      BY <1>1, <2>1 DEF TypeOK
    <3>2. Len(config') = 0 /\ DOMAIN managed' = {}
      BY <2>1 DEF NoMap
    <3>3. cursor' \in 0..(Len(config') + 1) /\ cutoff' \in 0..(Len(config') + 1)
      BY <2>1, <3>2
    <3>4. stopped' \in BOOLEAN /\ config' \in Configs \cup {<<>>} /\ phase' \in Phases
      BY Zenon, <2>1 DEF Phases
    <3> QED
      BY <2>1, <3>1, <3>2, <3>3, <3>4 DEF TypeOK
  <2>3. Progress' /\ Tracked'
    BY <2>1 DEF Progress, Tracked
  <2> QED
    BY <2>1, <2>2, <2>3 DEF IInv, CacheMirrorsHomebridge
<1> QED
  BY <1>2, <1>3, <1>4

\* Every step keeps the invariant, and keeps what is configured in HomeKit.
LEMMA NextStep ==
  ASSUME IInv, [Next]_vars
  PROVE  IInv' /\ \A u \in registered \cap Configured : u \in registered'
<1>1. CASE Connected \/ Attached \/ Skipped
  BY <1>1, LoopSteps
<1>2. CASE Shutdown
  BY <1>2, ShutdownStep DEF Shutdown
<1>3. CASE (\E c \in Configs : Boot(c)) \/ BootIdle \/ StartupFails \/ Exit
  BY <1>3, ProcessStep
<1>4. CASE UNCHANGED vars
  BY <1>4 DEF vars, IInv, TypeOK, Progress, Tracked, CacheMirrorsHomebridge, SameAccessory,
              Configured, Uuids, Uuid
<1> QED
  BY <1>1, <1>2, <1>3, <1>4 DEF Next

\* The invariant: where the loop is, what it has attached and skipped by then,
\* and how each handler is tracked.
THEOREM Inductive == Spec => []IInv
<1>1. Init => IInv
  <2> SUFFICES ASSUME Init
               PROVE  IInv
    OBVIOUS
  <2>1. TypeOK
    <3>1. /\ phase = "down" /\ config = <<>> /\ cursor = 0 /\ seen = {} /\ managed = NoMap
          /\ handlers = {} /\ stopped = FALSE /\ skipped = {} /\ cutoff = 0
      BY DEF Init
    <3>2. Len(config) = 0 /\ DOMAIN managed = {} /\ DOMAIN context = registered
      BY DEF Init, NoMap
    <3>3. cursor \in 0..(Len(config) + 1) /\ cutoff \in 0..(Len(config) + 1)
      BY <3>1, <3>2
    <3>4. stopped \in BOOLEAN /\ config \in Configs \cup {<<>>} /\ phase \in Phases
      BY Zenon, <3>1 DEF Phases
    <3> QED
      BY <3>1, <3>2, <3>3, <3>4 DEF TypeOK
  <2>2. Progress /\ Tracked
    BY DEF Init, Progress, Tracked
  <2> QED
    BY <2>1, <2>2 DEF Init, IInv, CacheMirrorsHomebridge
<1>2. IInv /\ [Next]_vars => IInv'
  BY NextStep
<1> QED
  BY <1>1, <1>2, PTL DEF Spec

\* The platform's state keeps to its types, for every set of configurations.
THEOREM TypeCorrect == Spec => []TypeOK
<1>1. IInv => TypeOK
  BY DEF IInv
<1> QED
  BY <1>1, Inductive, PTL

\* The plugin and Homebridge always agree on the accessories there are.
THEOREM CacheMirrors == Spec => []CacheMirrorsHomebridge
<1>1. IInv => CacheMirrorsHomebridge
  BY DEF IInv
<1> QED
  BY <1>1, Inductive, PTL

\* Once the attach loop has ended, exactly what is configured is in HomeKit and
\* has its handler, but for the mappings whose own attach call failed.
THEOREM LoopCompletes == Spec => []LoopIsComplete
<1>1. IInv => LoopIsComplete
  <2> SUFFICES ASSUME IInv, phase = "done"
               PROVE  registered \subseteq Configured /\ (~stopped => handlers = DOMAIN config \ skipped)
    BY DEF LoopIsComplete
  <2>1. TypeOK /\ Progress /\ Tracked
    BY DEF IInv
  <2>2. Len(config) \in Nat /\ DOMAIN config = 1..Len(config) /\ cursor = Len(config) + 1
    BY <2>1, ConfigType DEF Progress
  <2> QED
    BY <2>1, <2>2 DEF Progress, Tracked
<1> QED
  BY <1>1, Inductive, PTL

\* shutdown() leaves no handler but those of mappings that were attached later
\* or that share their accessory.
THEOREM Disposes == Spec => []ShutdownDisposes
<1>1. IInv => ShutdownDisposes
  BY DEF IInv, Tracked, ShutdownDisposes, SameAccessory
<1> QED
  BY <1>1, Inductive, PTL

\* No step takes an accessory that is still configured out of HomeKit.
THEOREM ConfiguredStay == Spec => ConfiguredAccessoriesStay
<1>1. IInv /\ [Next]_vars => [\A u \in registered \cap Configured : u \in registered']_vars
  BY NextStep
<1> QED
  BY <1>1, Inductive, PTL DEF Spec, ConfiguredAccessoriesStay
=============================================================================
