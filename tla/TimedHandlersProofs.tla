------------------------- MODULE TimedHandlersProofs ------------------------
(***************************************************************************)
(* Proofs about TimedHandlers, for every mix of handlers and every bound   *)
(* on commands, timers and events under way; and, in the last part, about  *)
(* the handlers that poll a variable.                                      *)
(***************************************************************************)
EXTENDS TimedHandlers, FiniteSetTheorems, TLAPS

\* Only the program may have several timers, and only the garage door hears
\* of its channel.
TimersInv ==
  /\ kind \in {"garage", "opener", "program"}
  /\ timers \in Nat /\ (kind # "program" => timers <= 1)
  /\ disposed \in BOOLEAN /\ unsettled \in BOOLEAN
  /\ kind # "garage" => events = <<>> /\ pull = "done" /\ heard = "nothing"

\* A report ends the travel, and nothing but the next command arms the timer.
ReportInv ==
  /\ kind = "garage" /\ heard # "nothing" => timers = 0
  /\ StoppedMeansSilence

\* What is left once dispose() has run.
DisposeInv ==
  /\ disposed /\ kind = "garage" => timers = 0
  /\ disposed /\ kind = "opener" /\ ~unsettled => timers = 0 /\ commands = {}

\* What the door pushes are its states.
EventsInv == events \in Seq(DoorStates)

IInv == TimersInv /\ ReportInv /\ DisposeInv /\ NothingDangles

-----------------------------------------------------------------------------
\* The initial states satisfy the invariant.
LEMMA InvInit == Init => IInv
<1> SUFFICES ASSUME Init PROVE IInv
  OBVIOUS
<1>1. kind \in {"garage", "opener", "program"}
  BY KindsAssumption DEF Init
<1>2. current \notin {"OPENING", "CLOSING", "STOPPED"} /\ (kind = "opener" => current = "SECURED")
      /\ (kind = "opener" => target = "SECURED") /\ (kind = "program" => target = "OFF")
  BY <1>1 DEF Init, Rest
<1>3. disposed \in BOOLEAN /\ unsettled \in BOOLEAN
  BY Zenon DEF Init
<1>4. TimersInv
  BY <1>1, <1>3 DEF Init, TimersInv
<1>5. QED
  BY <1>1, <1>2, <1>4 DEF Init, IInv, ReportInv, DisposeInv, StoppedMeansSilence,
                          NothingDangles, Passing

\* HomeKit's setter, up to its await: it arms the door's timer or leaves a
\* command under way that will arm one.
LEMMA SetStep ==
  ASSUME IInv, NEW v \in {Rest, Asked}, HomeKitSets(v)
  PROVE  IInv'
<1> USE DEF IInv, TimersInv
<1>1. CASE kind = "garage"
  <2>1. /\ kind' = kind /\ timers' = 1 /\ current' \in {"OPENING", "CLOSING"}
        /\ heard' = "nothing"
    BY <1>1 DEF HomeKitSets
  <2>2. ~disposed' /\ disposed' \in BOOLEAN /\ unsettled' \in BOOLEAN
    BY Zenon DEF HomeKitSets
  <2>3. QED
    BY <1>1, <2>1, <2>2 DEF ReportInv, DisposeInv, StoppedMeansSilence, NothingDangles
<1>2. CASE kind # "garage"
  <2>1. /\ kind' = kind /\ timers' = timers /\ current' = current /\ target' = v
        /\ heard' = "nothing" /\ disposed' = disposed /\ disposed = FALSE /\ unsettled' = FALSE
        /\ events' = events /\ pull' = pull
    BY <1>2 DEF HomeKitSets, outside
  <2>2. CASE v = Asked
    <3>1. commands' # {}
      BY <2>2 DEF HomeKitSets
    <3>2. QED
      BY <1>2, <2>1, <3>1 DEF ReportInv, DisposeInv, StoppedMeansSilence, NothingDangles
  <2>3. CASE v # Asked
    <3>1. v = Rest /\ commands' = commands
      BY <1>2, <2>3 DEF HomeKitSets
    <3>2. (kind = "opener" => v = "SECURED") /\ (kind = "program" => v = "OFF")
      BY <3>1 DEF Rest
    <3>3. QED
      BY <1>2, <2>1, <3>1, <3>2 DEF ReportInv, DisposeInv, StoppedMeansSilence,
                                    NothingDangles, Passing
  <2>4. QED
    BY <2>2, <2>3
<1>3. QED
  BY <1>1, <1>2

\* The setter goes on after its await, which armed the timer or told HomeKit.
LEMMA AwaitStep ==
  ASSUME IInv, NEW c \in commands, NEW ok \in BOOLEAN,
         commands' = commands \ {c}, AfterAwait(ok),
         UNCHANGED <<kind, target, disposed, heard>>, UNCHANGED outside
  PROVE  IInv'
<1> USE DEF IInv, TimersInv, outside
<1>1. CASE kind = "garage"
  <2>1. UNCHANGED <<current, timers, unsettled>>
    BY <1>1 DEF AfterAwait
  <2>2. QED
    BY <1>1, <2>1 DEF ReportInv, DisposeInv, StoppedMeansSilence, NothingDangles, Passing
<1>2. CASE kind = "opener"
  <2>1. current' = "UNSECURED" /\ timers' = 1 /\ unsettled' = unsettled
    BY <1>2 DEF AfterAwait
  <2>2. disposed => unsettled
    BY <1>2 DEF DisposeInv
  <2>3. QED
    BY <1>2, <2>1, <2>2 DEF ReportInv, DisposeInv, StoppedMeansSilence, NothingDangles
<1>3. CASE kind = "program"
  <2>1. /\ current' = current
        /\ (timers' = timers + 1 /\ unsettled' = unsettled) \/ (timers' = timers /\ unsettled' = TRUE)
    BY <1>3 DEF AfterAwait
  <2>2. unsettled' \in BOOLEAN
    BY <2>1, Zenon
  <2>3. timers' \in Nat /\ (timers' > 0 \/ unsettled')
    BY <2>1
  <2>4. QED
    BY <1>3, <2>1, <2>2, <2>3 DEF ReportInv, DisposeInv, StoppedMeansSilence, NothingDangles
<1>4. QED
  BY <1>1, <1>2, <1>3

\* A report of the door, pushed or pulled, shows it open or closed, or nothing new.
LEMMA ReportedStates ==
  ASSUME NEW s \in DoorStates, Reported(s)
  PROVE  \/ mapCcuToHap(s) = "SKIP" /\ UNCHANGED <<current, target>>
         \/ mapCcuToHap(s) # "SKIP" /\ current' \in {"OPEN", "CLOSED"}
BY DEF Reported, mapCcuToHap, DoorStates

\* Every step preserves the invariant.
LEMMA InvStep == IInv /\ EventsInv /\ [Next]_vars => IInv'
<1> SUFFICES ASSUME IInv, EventsInv, [Next]_vars PROVE IInv'
  OBVIOUS
<1> USE DEF IInv, TimersInv
<1>1. ASSUME NEW v \in {Rest, Asked}, HomeKitSets(v) PROVE IInv'
  BY <1>1, SetStep
<1>2. ASSUME NEW c \in commands, CommandCarriedOut(c) PROVE IInv'
  <2>1. commands' # {} /\ UNCHANGED <<kind, current, target, timers, pull, disposed, heard, unsettled>>
    BY <1>2 DEF CommandCarriedOut
  <2>2. kind # "garage" => events' = events
    BY <1>2 DEF CommandCarriedOut
  <2>3. QED
    BY <1>2, <2>1, <2>2 DEF ReportInv, DisposeInv, StoppedMeansSilence, NothingDangles, Passing
<1>3. ASSUME NEW c \in commands, CommandReturns(c) PROVE IInv'
  BY <1>3, AwaitStep DEF CommandReturns
<1>4. ASSUME NEW c \in commands, CommandFails(c) PROVE IInv'
  BY <1>4, AwaitStep DEF CommandFails
<1>5. CASE TimerFires
  <2>1. /\ timers > 0 /\ timers' = timers - 1
        /\ UNCHANGED <<kind, commands, disposed, heard, unsettled, pull, events>>
    BY <1>5 DEF TimerFires, outside
  <2>2. CASE kind = "garage"
    <3>1. current' = "STOPPED" /\ target' = target
      BY <1>5, <2>2 DEF TimerFires
    <3>2. QED
      BY <2>1, <2>2, <3>1 DEF ReportInv, DisposeInv, StoppedMeansSilence, NothingDangles, Passing
  <2>3. CASE kind # "garage"
    <3>1. current' = Rest /\ target' = Rest
      BY <1>5, <2>3 DEF TimerFires
    <3>2. (kind = "opener" => Rest = "SECURED") /\ (kind = "program" => Rest = "OFF")
      BY DEF Rest
    <3>3. QED
      BY <2>1, <2>3, <3>1, <3>2 DEF ReportInv, DisposeInv, StoppedMeansSilence,
                                    NothingDangles, Passing
  <2>4. QED
    BY <2>2, <2>3
<1>6. CASE Dispose
  <2>1. /\ disposed' = TRUE /\ unsettled' = (commands # {})
        /\ timers' = IF kind = "program" THEN timers ELSE 0
        /\ UNCHANGED <<kind, current, target, commands, heard, pull, events>>
    BY <1>6 DEF Dispose, outside
  <2>2. disposed' /\ disposed' \in BOOLEAN /\ unsettled' \in BOOLEAN
    BY <2>1, Zenon
  <2>3. ~unsettled' => commands = {}
    BY <2>1, Zenon
  <2>4. QED
    BY <2>1, <2>2, <2>3 DEF ReportInv, DisposeInv, StoppedMeansSilence, NothingDangles
<1>7. CASE CcuAnswers \/ PullFails
  <2>1. kind = "garage" /\ UNCHANGED <<kind, current, target, timers, commands, disposed, heard, unsettled>>
    BY <1>7 DEF CcuAnswers, PullFails
  <2>2. QED
    BY <2>1 DEF ReportInv, DisposeInv, StoppedMeansSilence, NothingDangles, Passing
<1>8. CASE PullSettles
  <2>1. kind = "garage"
    BY <1>8 DEF PullSettles, DoorStates
  <2>2. /\ heard' = IF heard = "door" THEN "stale" ELSE heard
        /\ UNCHANGED <<kind, timers, commands, disposed, unsettled>>
    BY <1>8 DEF PullSettles
  <2>3. current' = current \/ current' \in {"OPEN", "CLOSED"}
    BY <1>8, ReportedStates DEF PullSettles
  <2>4. QED
    BY <2>1, <2>2, <2>3 DEF ReportInv, DisposeInv, StoppedMeansSilence, NothingDangles, Passing
<1>9. ASSUME NEW s \in DoorStates, DoorChanges(s) PROVE IInv'
  BY <1>9 DEF DoorChanges, ReportInv, DisposeInv, StoppedMeansSilence, NothingDangles, Passing
<1>10. CASE EventArrives
  <2>1. /\ kind = "garage"
        /\ UNCHANGED <<kind, commands, pull, disposed, unsettled>>
    BY <1>10 DEF EventArrives
  <2>2. CASE disposed
    BY <1>10, <2>1, <2>2 DEF EventArrives, ReportInv, DisposeInv, StoppedMeansSilence, NothingDangles
  <2>3. CASE ~disposed
    <3>1. Head(events) \in DoorStates
      BY <1>10 DEF EventArrives, EventsInv
    <3>2. /\ Reported(Head(events))
          /\ timers' = IF mapCcuToHap(Head(events)) = "SKIP" THEN timers ELSE 0
          /\ heard' = IF mapCcuToHap(Head(events)) = "SKIP" THEN heard ELSE "door"
      BY <1>10, <2>3 DEF EventArrives
    <3>3. \/ UNCHANGED <<current, target, timers, heard>>
          \/ current' \in {"OPEN", "CLOSED"} /\ timers' = 0 /\ heard' = "door"
      BY <3>1, <3>2, ReportedStates
    <3>4. QED
      BY <2>1, <2>3, <3>3 DEF ReportInv, DisposeInv, StoppedMeansSilence, NothingDangles, Passing
  <2>4. QED
    BY <2>2, <2>3
<1>11. CASE EventLost
  <2>1. /\ kind = "garage" /\ heard' = IF heard = "door" THEN "stale" ELSE heard
        /\ UNCHANGED <<kind, current, target, timers, commands, disposed, unsettled>>
    BY <1>11 DEF EventLost
  <2>2. QED
    BY <2>1 DEF ReportInv, DisposeInv, StoppedMeansSilence, NothingDangles, Passing
<1>12. CASE UNCHANGED vars
  BY <1>12 DEF vars, ReportInv, DisposeInv, StoppedMeansSilence, NothingDangles, Passing
<1>13. QED
  BY <1>1, <1>2, <1>3, <1>4, <1>5, <1>6, <1>7, <1>8, <1>9, <1>10, <1>11, <1>12 DEF Next

\* Nothing has been pushed when attach() has run.
LEMMA EventsInit == Init => EventsInv
BY DEF Init, EventsInv

\* The queue only ever grows by one of them.
LEMMA EventsStep == EventsInv /\ [Next]_vars => EventsInv'
<1> SUFFICES ASSUME EventsInv, [Next]_vars PROVE EventsInv'
  OBVIOUS
<1>1. \/ events' = events
      \/ events' = Append(events, "UNKNOWN")
      \/ \E s \in DoorStates : events' = Append(events, s)
      \/ events # <<>> /\ events' = Tail(events)
  BY DEF Next, vars, outside, HomeKitSets, CommandCarriedOut, CommandReturns, CommandFails,
         TimerFires, Dispose, CcuAnswers, PullSettles, PullFails, DoorChanges, EventArrives,
         EventLost
<1>2. "UNKNOWN" \in DoorStates
  BY DEF DoorStates
<1>3. QED
  BY <1>1, <1>2 DEF EventsInv

\* The inductive invariant holds of every behaviour.
THEOREM Inductive == Spec => []IInv
<1>1. Init /\ [][Next]_vars => []EventsInv
  BY EventsInit, EventsStep, PTL
<1>2. QED
  BY <1>1, InvInit, InvStep, PTL DEF Spec

\* No passing state dangles, for any number of commands and timers.
THEOREM NeverDangles == Spec => []NothingDangles
<1>1. IInv => NothingDangles
  BY DEF IInv
<1>2. QED
  BY <1>1, Inductive, PTL

\* A door that reported is never called stopped.
THEOREM Silence == Spec => []StoppedMeansSilence
<1>1. IInv => StoppedMeansSilence
  BY DEF IInv, ReportInv
<1>2. QED
  BY <1>1, Inductive, PTL

\* dispose() leaves no timer but a program's or an awaited pulse's.
THEOREM Disarms == Spec => []DisposeDisarms
<1>1. IInv => DisposeDisarms
  BY DEF IInv, TimersInv, DisposeInv, DisposeDisarms
<1>2. QED
  BY <1>1, Inductive, PTL

-----------------------------------------------------------------------------

\* The door's state is the last that was pushed of it, and once that has been
\* heard it is what HomeKit sees.
DoorInv ==
  /\ events # <<>> => events[Len(events)] = door
  /\ DoorIsBelieved

\* No event is on its way when attach() has run, and none has been heard.
LEMMA DoorInit == Init => DoorInv
BY DEF Init, DoorInv, DoorIsBelieved

\* The empty queue's length.
LEMMA EmptyLength == Len(<<>>) = 0
OBVIOUS

\* What a queue's last entry is after one was added or removed.
LEMMA QueueEnds ==
  ASSUME NEW q \in Seq(DoorStates), NEW s \in DoorStates
  PROVE  /\ Append(q, s) # <<>> /\ Append(q, s)[Len(Append(q, s))] = s
         /\ q # <<>> /\ Tail(q) = <<>> => Head(q) = q[Len(q)]
         /\ q # <<>> /\ Tail(q) # <<>> => Tail(q)[Len(Tail(q))] = q[Len(q)]
<1>1. Append(q, s) # <<>> /\ Append(q, s)[Len(Append(q, s))] = s
  OBVIOUS
<1>2. ASSUME q # <<>>, Tail(q) = <<>>
      PROVE  Head(q) = q[Len(q)]
  <2>1. Len(Tail(q)) = Len(q) - 1 /\ Len(q) \in Nat
    BY <1>2
  <2>2. Len(Tail(q)) = Len(<<>>) /\ Len(<<>>) = 0
    BY Zenon, <1>2, EmptyLength
  <2>3. Len(q) = 1
    BY <2>1, <2>2
  <2> QED
    BY <2>3, <1>2
<1>3. ASSUME q # <<>>, Tail(q) # <<>>
      PROVE  Tail(q)[Len(Tail(q))] = q[Len(q)]
  <2>1. Len(Tail(q)) = Len(q) - 1 /\ Len(q) \in Nat /\ Tail(q) \in Seq(DoorStates)
    BY <1>3
  <2>2. Len(Tail(q)) \in 1..Len(Tail(q))
    BY <2>1, <1>3
  <2> QED
    BY <2>1, <2>2, <1>3
<1> QED
  BY <1>1, <1>2, <1>3

\* A step either leaves the queue and the door alone, or pushes the door's new
\* state, or takes the oldest event away.
LEMMA DoorStep == IInv /\ EventsInv /\ DoorInv /\ [Next]_vars => DoorInv'
<1> SUFFICES ASSUME IInv, EventsInv, DoorInv, [Next]_vars PROVE DoorInv'
  OBVIOUS
<1> USE DEF IInv, TimersInv, ReportInv, EventsInv
<1>1. ASSUME UNCHANGED <<door, events, disposed>>,
             heard' # "door" \/ UNCHANGED <<current, target, heard>>
      PROVE  DoorInv'
  BY <1>1 DEF DoorInv, DoorIsBelieved, mapCcuToHap
<1>2. ASSUME NEW s \in DoorStates, door' = s, events' = Append(events, s)
      PROVE  DoorInv'
  <2>1. events' # <<>> /\ events'[Len(events')] = door'
    BY <1>2, QueueEnds
  <2> QED
    BY <2>1 DEF DoorInv, DoorIsBelieved
<1>3. ASSUME NEW v \in {Rest, Asked}, HomeKitSets(v) PROVE DoorInv'
  BY <1>1, <1>3 DEF HomeKitSets, outside
<1>4. ASSUME NEW c \in commands, CommandCarriedOut(c) PROVE DoorInv'
  <2>1. \/ UNCHANGED <<door, events>>
        \/ door' = "UNKNOWN" /\ events' = Append(events, "UNKNOWN")
    BY <1>4 DEF CommandCarriedOut
  <2>2. UNCHANGED <<disposed, current, target, heard>>
    BY <1>4 DEF CommandCarriedOut
  <2>3. "UNKNOWN" \in DoorStates
    BY DEF DoorStates
  <2> QED
    BY <1>1, <1>2, <2>1, <2>2, <2>3
<1>5. ASSUME NEW c \in commands, CommandReturns(c) \/ CommandFails(c) PROVE DoorInv'
  <2>1. UNCHANGED <<door, events, disposed, heard, target>>
    BY <1>5 DEF CommandReturns, CommandFails, outside
  <2>2. heard = "door" => current' = current
    BY <1>5 DEF CommandReturns, CommandFails, AfterAwait
  <2> QED
    BY <1>1, <2>1, <2>2
<1>6. CASE TimerFires
  <2>1. heard # "door"
    BY <1>6 DEF TimerFires
  <2> QED
    BY <1>1, <1>6, <2>1 DEF TimerFires, outside
<1>7. CASE Dispose
  BY <1>7 DEF Dispose, outside, DoorInv, DoorIsBelieved
<1>8. CASE CcuAnswers \/ PullFails
  BY <1>1, <1>8 DEF CcuAnswers, PullFails
<1>9. CASE PullSettles
  BY <1>1, <1>9 DEF PullSettles
<1>10. ASSUME NEW s \in DoorStates, DoorChanges(s) PROVE DoorInv'
  BY <1>2, <1>10 DEF DoorChanges
<1>11. ASSUME events # <<>>, events' = Tail(events), UNCHANGED <<door, disposed>>,
              heard' # "door" \/ disposed \/ Reported(Head(events))
       PROVE  DoorInv'
  <2>1. events' # <<>> => events'[Len(events')] = door'
    BY <1>11, QueueEnds DEF DoorInv, DoorStates
  <2>2. events' = <<>> => Head(events) = door
    BY <1>11, QueueEnds DEF DoorInv, DoorStates
  <2>3. DoorIsBelieved'
    BY <1>11, <2>2 DEF DoorIsBelieved, Reported, mapCcuToHap
  <2> QED
    BY <2>1, <2>3 DEF DoorInv
<1>12. CASE EventArrives
  BY <1>11, <1>12 DEF EventArrives
<1>13. CASE EventLost
  BY <1>11, <1>13 DEF EventLost
<1>14. CASE UNCHANGED vars
  BY <1>1, <1>14 DEF vars
<1> QED
  BY <1>3, <1>4, <1>5, <1>6, <1>7, <1>8, <1>9, <1>10, <1>12, <1>13, <1>14 DEF Next

\* Once the door's last report has been heard, HomeKit shows it.
THEOREM DoorBelieved == Spec => []DoorIsBelieved
<1>1. Init /\ [][Next]_vars => []EventsInv
  BY EventsInit, EventsStep, PTL
<1>2. DoorInv => DoorIsBelieved
  BY DEF DoorInv
<1> QED
  BY <1>1, <1>2, Inductive, DoorInit, DoorStep, PTL DEF Spec

-----------------------------------------------------------------------------

\* The commands under way are numbered apart, and a program has room for the
\* timers they will arm.
CommandsInv ==
  /\ IsFiniteSet(commands)
  /\ commands \subseteq [n : 1..MaxCommands, to : {Rest, Asked}, done : BOOLEAN]
  /\ \A c, d \in commands : c.n = d.n => c = d
  /\ kind = "program" => timers + Cardinality(commands) <= MaxCommands

\* One command fewer.
LEMMA FewerCommands ==
  ASSUME CommandsInv, NEW c \in commands
  PROVE  /\ IsFiniteSet(commands \ {c}) /\ Cardinality(commands \ {c}) + 1 = Cardinality(commands)
         /\ Cardinality(commands \ {c}) \in Nat /\ Cardinality(commands) \in Nat
<1>1. IsFiniteSet(commands)
  BY DEF CommandsInv
<1>2. IsFiniteSet(commands \ {c}) /\ Cardinality(commands \ {c}) = Cardinality(commands) - 1
  BY <1>1, FS_RemoveElement
<1>3. Cardinality(commands \ {c}) \in Nat /\ Cardinality(commands) \in Nat
  BY <1>1, <1>2, FS_CardinalityType
<1> QED
  BY <1>2, <1>3

\* The types of the handler's own fields, and of the door's channel.
Fields ==
  /\ current \in States /\ target \in {Rest, Asked}
  /\ timers \in 0..MaxCommands
  /\ kind # "program" => timers <= 1
  /\ disposed \in BOOLEAN /\ unsettled \in BOOLEAN
  /\ heard \in {"nothing", "door", "stale"}

Channel ==
  /\ pull \in {"asked", "done"} \cup DoorStates /\ door \in DoorStates
  /\ events \in Seq(DoorStates) /\ Len(events) <= MaxEvents

Types == kind \in Kinds /\ Fields /\ Channel /\ CommandsInv

\* The parts together say what TypeOK says.
LEMMA TypesSuffice == Types => TypeOK
BY DEF Types, Fields, Channel, CommandsInv, TypeOK

\* attach() leaves everything in its type.
LEMMA TypesInit == Init => Types
<1> SUFFICES ASSUME Init
             PROVE  Types
  OBVIOUS
<1>1. kind \in Kinds /\ current \in States /\ target \in {Rest, Asked}
  BY KindsAssumption DEF Init, States, Rest, Asked
<1>2. disposed \in BOOLEAN /\ unsettled \in BOOLEAN
  BY Zenon DEF Init
<1>3. Fields
  BY <1>1, <1>2, BoundsAssumption DEF Init, Fields
<1>4. Channel
  <2>1. Len(events) = 0 /\ events \in Seq(DoorStates)
    BY EmptyLength DEF Init
  <2> QED
    BY <2>1, BoundsAssumption DEF Init, Channel, DoorStates
<1>5. CommandsInv
  BY FS_EmptySet, BoundsAssumption DEF Init, CommandsInv
<1> QED
  BY <1>1, <1>3, <1>4, <1>5 DEF Types

\* How many numbers there are.
LEMMA Numbers == \A m \in Nat : IsFiniteSet(1..m) /\ Cardinality(1..m) = m
<1> TAKE m \in Nat
<1>1. IsFiniteSet(1..m) /\ Cardinality(1..m) = IF 1 > m THEN 0 ELSE m - 1 + 1
  BY FS_Interval
<1> QED
  BY <1>1

\* A number is left for one more call while there are fewer calls than numbers.
LEMMA NumberLeft ==
  ASSUME NEW C, NEW m \in Nat, IsFiniteSet(C), Cardinality(C) < m
  PROVE  \E n \in 1..m : \A c \in C : c.n # n
<1> DEFINE f == [n \in 1..m |-> CHOOSE c \in C : c.n = n]
<1>1. ASSUME \A n \in 1..m : \E c \in C : c.n = n
      PROVE  f \in [1..m -> C] /\ \A n \in 1..m : f[n].n = n
  BY Zenon, <1>1
<1>2. IsFiniteSet(1..m) /\ Cardinality(C) < Cardinality(1..m)
  BY Numbers
<1> HIDE DEF f
<1>3. ASSUME f \in [1..m -> C]
      PROVE  \E x, y \in 1..m : x # y /\ f[x] = f[y]
  BY Zenon, <1>2, <1>3, FS_PigeonHole
<1> QED
  BY Zenon, <1>1, <1>3

\* The setter takes a number that no command under way has.
LEMMA SetCommands ==
  ASSUME Types, NEW v \in {Rest, Asked}, timers + Cardinality(commands) < MaxCommands
  PROVE  LET new == commands \cup {[n |-> Unused, to |-> v, done |-> FALSE]}
         IN  /\ IsFiniteSet(new) /\ Cardinality(new) <= Cardinality(commands) + 1
             /\ new \subseteq [n : 1..MaxCommands, to : {Rest, Asked}, done : BOOLEAN]
             /\ \A c, d \in new : c.n = d.n => c = d
<1> DEFINE r == [n |-> Unused, to |-> v, done |-> FALSE]
           new == commands \cup {r}
<1>1. IsFiniteSet(commands) /\ timers \in Nat /\ MaxCommands \in Nat
  BY BoundsAssumption DEF Types, Fields, CommandsInv
<1>2. Cardinality(commands) \in Nat
  BY <1>1, FS_CardinalityType
<1>3. Cardinality(commands) < MaxCommands
  BY <1>1, <1>2
<1>4. \E n \in 1..MaxCommands : \A c \in commands : c.n # n
  BY <1>1, <1>3, NumberLeft
<1>5. Unused \in 1..MaxCommands /\ \A c \in commands : c.n # Unused
  BY Zenon, <1>4 DEF Unused
<1>6. IsFiniteSet(new) /\ Cardinality(new) <= Cardinality(commands) + 1
  <2>1. /\ IsFiniteSet(new)
        /\ Cardinality(new) = IF r \in commands THEN Cardinality(commands) ELSE Cardinality(commands) + 1
    BY <1>1, FS_AddElement
  <2> QED
    BY <1>2, <2>1
<1>7. new \subseteq [n : 1..MaxCommands, to : {Rest, Asked}, done : BOOLEAN]
  <2>1. r \in [n : 1..MaxCommands, to : {Rest, Asked}, done : BOOLEAN]
    BY Zenon, <1>5
  <2>2. commands \subseteq [n : 1..MaxCommands, to : {Rest, Asked}, done : BOOLEAN]
    BY Zenon DEF Types, CommandsInv
  <2> HIDE DEF r
  <2> QED
    BY Zenon, <2>1, <2>2
<1>8. \A c, d \in new : c.n = d.n => c = d
  <2>1. r.n = Unused /\ \A c, d \in commands : c.n = d.n => c = d
    BY DEF Types, CommandsInv
  <2> HIDE DEF r
  <2> QED
    BY Zenon, <1>5, <2>1
<1> QED
  BY <1>6, <1>7, <1>8

\* Marking a command changes nothing else of it.
LEMMA MarkedDone ==
  ASSUME NEW S, NEW T, NEW U, NEW c \in [n : S, to : T, done : U], NEW u \in U
  PROVE  [c EXCEPT !.done = u] \in [n : S, to : T, done : U] /\ [c EXCEPT !.done = u].n = c.n
OBVIOUS

\* The command that the CCU carried out keeps its number.
LEMMA CarriedOutCommands ==
  ASSUME Types, NEW c \in commands, UNCHANGED <<kind, timers>>,
         commands' = (commands \ {c}) \cup {[c EXCEPT !.done = TRUE]}
  PROVE  CommandsInv'
<1> DEFINE r == [c EXCEPT !.done = TRUE]
<1>1. timers \in Nat /\ CommandsInv
  BY BoundsAssumption DEF Types, Fields
<1>2. c \in [n : 1..MaxCommands, to : {Rest, Asked}, done : BOOLEAN]
  BY <1>1 DEF CommandsInv
<1>3. r \in [n : 1..MaxCommands, to : {Rest, Asked}, done : BOOLEAN] /\ r.n = c.n
  <2>1. TRUE \in BOOLEAN
    BY Zenon
  <2> QED
    BY Zenon, <1>2, <2>1, MarkedDone
<1>4. /\ IsFiniteSet(commands \ {c}) /\ Cardinality(commands \ {c}) + 1 = Cardinality(commands)
      /\ Cardinality(commands \ {c}) \in Nat
  BY <1>1, FewerCommands
<1> HIDE DEF r
<1>5. /\ IsFiniteSet(commands')
      /\ Cardinality(commands') <= Cardinality(commands)
      /\ Cardinality(commands') \in Nat
  <2>1. /\ IsFiniteSet((commands \ {c}) \cup {r})
        /\ Cardinality((commands \ {c}) \cup {r})
             = IF r \in commands \ {c} THEN Cardinality(commands \ {c}) ELSE Cardinality(commands \ {c}) + 1
    BY <1>4, FS_AddElement
  <2>2. commands' = (commands \ {c}) \cup {r}
    BY DEF r
  <2> QED
    BY <1>4, <2>1, <2>2
<1>6. commands' \subseteq [n : 1..MaxCommands, to : {Rest, Asked}, done : BOOLEAN]'
  <2>1. commands' = (commands \ {c}) \cup {r}
    BY DEF r
  <2> QED
    BY <1>1, <1>3, <2>1 DEF CommandsInv, Rest, Asked
<1>7. \A d, e \in commands' : d.n = e.n => d = e
  <2>1. commands' = (commands \ {c}) \cup {r} /\ \A d, e \in commands : d.n = e.n => d = e
    BY <1>1 DEF r, CommandsInv
  <2> QED
    BY Zenon, <1>3, <2>1
<1>8. kind' = "program" => timers' + Cardinality(commands') <= MaxCommands
  <2>1. Cardinality(commands) \in Nat
    BY <1>1, FS_CardinalityType DEF CommandsInv
  <2>2. kind = "program" => timers + Cardinality(commands) <= MaxCommands
    BY <1>1 DEF CommandsInv
  <2> QED
    BY <1>1, <1>5, <2>1, <2>2, BoundsAssumption
<1> QED
  BY <1>5, <1>6, <1>7, <1>8 DEF CommandsInv

\* The setter goes on after its await: the room its command took is its timer's.
LEMMA AwaitTypes ==
  ASSUME Types, kind \in {"garage", "opener", "program"}, NEW c \in commands, NEW ok \in BOOLEAN,
         commands' = commands \ {c}, AfterAwait(ok),
         UNCHANGED <<kind, target, disposed, heard>>, UNCHANGED outside
  PROVE  Types'
<1>1. /\ IsFiniteSet(commands \ {c}) /\ Cardinality(commands \ {c}) + 1 = Cardinality(commands)
      /\ Cardinality(commands \ {c}) \in Nat
  BY FewerCommands DEF Types
<1>2. timers \in Nat /\ MaxCommands \in Nat \ {0} /\ timers <= MaxCommands
  BY BoundsAssumption DEF Types, Fields
<1>3. /\ timers' \in 0..MaxCommands /\ (kind # "program" => timers' <= 1)
      /\ kind = "program" => timers' + Cardinality(commands') <= MaxCommands
  <2>1. kind = "program" => timers + Cardinality(commands) <= MaxCommands
    BY DEF Types, CommandsInv
  <2>2. /\ kind = "garage" => timers' = timers
        /\ kind = "opener" => timers' = 1
        /\ kind = "program" => timers' = timers + 1 \/ timers' = timers
    BY DEF AfterAwait
  <2>3. kind # "program" => timers <= 1
    BY DEF Types, Fields
  <2> QED
    BY <1>1, <1>2, <2>1, <2>2, <2>3
<1>4. Rest' = Rest /\ Asked' = Asked /\ States' = States
  BY DEF Rest, Asked, States
<1>5. current' \in States'
  BY <1>4 DEF AfterAwait, Types, Fields, States, Asked
<1>6. unsettled' \in BOOLEAN /\ disposed' \in BOOLEAN
  BY Zenon DEF AfterAwait, Types, Fields
<1>7. Fields'
  BY <1>3, <1>4, <1>5, <1>6 DEF Types, Fields
<1>8. CommandsInv'
  BY <1>1, <1>3, <1>4 DEF Types, CommandsInv
<1>9. Channel' /\ kind' \in Kinds
  BY DEF Types, Channel, outside
<1> QED
  BY <1>7, <1>8, <1>9 DEF Types

\* HomeKit's setter up to its await.
LEMMA SetTypes ==
  ASSUME Types, kind \in {"garage", "opener", "program"}, NEW v \in {Rest, Asked}, HomeKitSets(v)
  PROVE  Types'
<1>1. UNCHANGED <<kind, disposed, pull, door, events>> /\ target' = v /\ heard' = "nothing" /\ unsettled' = FALSE
  BY DEF HomeKitSets, outside
<1>2. Rest' = Rest /\ Asked' = Asked /\ States' = States
  BY <1>1 DEF Rest, Asked, States
<1>3. MaxCommands \in Nat \ {0} /\ timers \in 0..MaxCommands
  BY BoundsAssumption DEF Types, Fields
<1>4. CommandsInv' /\ timers' \in 0..MaxCommands /\ (kind # "program" => timers' <= 1)
  <2>1. CASE kind = "garage" \/ v = Asked
    <3> DEFINE new == commands \cup {[n |-> Unused, to |-> v, done |-> FALSE]}
    <3>1. timers + Cardinality(commands) < MaxCommands /\ commands' = new
      BY <2>1 DEF HomeKitSets
    <3>2. /\ IsFiniteSet(new) /\ Cardinality(new) <= Cardinality(commands) + 1
          /\ new \subseteq [n : 1..MaxCommands, to : {Rest, Asked}, done : BOOLEAN]
          /\ \A c, d \in new : c.n = d.n => c = d
      BY <3>1, SetCommands
    <3> HIDE DEF new
    <3>3. Cardinality(new) \in Nat /\ Cardinality(commands) \in Nat
      BY <3>2, FS_CardinalityType DEF Types, CommandsInv
    <3>4. (kind = "garage" /\ timers' = 1) \/ (kind # "garage" /\ timers' = timers)
      BY DEF HomeKitSets
    <3>5. timers' \in 0..MaxCommands /\ (kind # "program" => timers' <= 1)
      BY <1>3, <3>4 DEF Types, Fields
    <3>6. kind' = "program" => timers' + Cardinality(commands') <= MaxCommands
      BY <1>1, <1>3, <3>1, <3>2, <3>3, <3>4
    <3> QED
      BY <1>2, <3>1, <3>2, <3>5, <3>6 DEF CommandsInv
  <2>2. CASE ~(kind = "garage" \/ v = Asked)
    <3>1. commands' = commands /\ timers' = timers
      BY <2>2 DEF HomeKitSets
    <3> QED
      BY <1>1, <1>2, <3>1 DEF Types, Fields, CommandsInv
  <2> QED
    BY <2>1, <2>2
<1>5. current' \in States'
  BY <1>2 DEF HomeKitSets, Types, Fields, States
<1>6. unsettled' \in BOOLEAN /\ disposed' \in BOOLEAN
  BY Zenon, <1>1 DEF Types, Fields
<1>7. Fields'
  BY <1>1, <1>2, <1>4, <1>5, <1>6 DEF Fields
<1> QED
  BY <1>1, <1>4, <1>7 DEF Types, Channel

\* What a report of the door shows is one of the garage door's states.
LEMMA ReportTypes ==
  ASSUME Types, kind = "garage", NEW s \in DoorStates, Reported(s)
  PROVE  current' \in States /\ target' \in {Rest, Asked}
BY DEF Types, Fields, Reported, mapCcuToHap, DoorStates, States, Rest, Asked

\* Every step keeps the types.
LEMMA TypesStep == IInv /\ Types /\ [Next]_vars => Types'
<1> SUFFICES ASSUME IInv, Types, [Next]_vars
             PROVE  Types'
  OBVIOUS
<1>1. kind \in {"garage", "opener", "program"} /\ (kind # "garage" => events = <<>> /\ pull = "done")
  BY DEF IInv, TimersInv
<1>2. ASSUME UNCHANGED <<kind, commands>>, timers' \in 0..timers, Fields', Channel'
      PROVE  Types'
  <2>1. timers \in Nat /\ MaxCommands \in Nat /\ Cardinality(commands) \in Nat
    BY BoundsAssumption, FS_CardinalityType DEF Types, Fields, CommandsInv
  <2>2. kind = "program" => timers' + Cardinality(commands) <= MaxCommands
    BY <1>2, <2>1 DEF Types, CommandsInv
  <2> QED
    BY <1>2, <2>2 DEF Types, CommandsInv, Rest, Asked
<1>3. timers \in 0..timers
  BY DEF Types, Fields
<1>4. ASSUME kind' = kind
      PROVE  Rest' = Rest /\ Asked' = Asked /\ States' = States
  BY <1>4 DEF Rest, Asked, States
<1>5. ASSUME NEW c \in commands, CommandCarriedOut(c)
      PROVE  Types'
  <2>1. UNCHANGED <<kind, current, target, timers, pull, disposed, heard, unsettled>>
    BY <1>5 DEF CommandCarriedOut
  <2>2. CommandsInv'
    BY <1>5, <2>1, CarriedOutCommands DEF CommandCarriedOut
  <2>3. Fields'
    BY <2>1, <1>4 DEF Types, Fields
  <2>4. Channel'
    <3>1. "UNKNOWN" \in DoorStates
      BY DEF DoorStates
    <3>2. \/ UNCHANGED <<door, events>>
          \/ Len(events) < MaxEvents /\ door' = "UNKNOWN" /\ events' = Append(events, "UNKNOWN")
      BY <1>5 DEF CommandCarriedOut
    <3> QED
      BY <2>1, <3>1, <3>2, BoundsAssumption DEF Types, Channel
  <2> QED
    BY <2>1, <2>2, <2>3, <2>4 DEF Types
<1>6. CASE TimerFires
  <2>1. /\ timers > 0 /\ timers' = timers - 1
        /\ UNCHANGED <<kind, commands, disposed, heard, unsettled, pull, door, events>>
        /\ current' = IF kind = "garage" THEN "STOPPED" ELSE Rest
        /\ target' = IF kind = "garage" THEN target ELSE Rest
    BY <1>6 DEF TimerFires, outside
  <2>2. timers' \in 0..timers /\ timers' \in 0..MaxCommands /\ (kind # "program" => timers' <= 1)
    BY <2>1, BoundsAssumption DEF Types, Fields
  <2>3. current' \in States' /\ target' \in {Rest', Asked'}
    BY <2>1, <1>4 DEF Types, Fields, States
  <2>4. Fields'
    BY <2>1, <2>2, <2>3 DEF Types, Fields
  <2> QED
    BY <1>2, <2>1, <2>2, <2>4 DEF Types, Channel
<1>7. CASE Dispose
  <2>1. /\ disposed' = TRUE /\ unsettled' = (commands # {})
        /\ timers' = IF kind = "program" THEN timers ELSE 0
        /\ UNCHANGED <<kind, current, target, commands, heard, pull, door, events>>
    BY <1>7 DEF Dispose, outside
  <2>2. disposed' \in BOOLEAN /\ unsettled' \in BOOLEAN
    BY Zenon, <2>1
  <2>3. timers' \in 0..timers /\ timers' \in 0..MaxCommands /\ (kind # "program" => timers' <= 1)
    BY <2>1, BoundsAssumption DEF Types, Fields
  <2>4. Fields'
    BY <2>1, <2>2, <2>3, <1>4 DEF Types, Fields
  <2> QED
    BY <1>2, <2>1, <2>3, <2>4 DEF Types, Channel
<1>8. CASE CcuAnswers \/ PullFails
  <2>1. UNCHANGED <<kind, current, target, timers, commands, door, events, disposed, heard, unsettled>>
    BY <1>8 DEF CcuAnswers, PullFails
  <2>2. Fields'
    BY <2>1, <1>4 DEF Types, Fields
  <2>3. Channel'
    BY <1>8, <2>1 DEF CcuAnswers, PullFails, Types, Channel
  <2> QED
    BY <1>2, <1>3, <2>1, <2>2, <2>3
<1>9. CASE PullSettles
  <2>1. kind = "garage"
    BY <1>1, <1>9 DEF PullSettles, DoorStates
  <2>2. UNCHANGED <<kind, timers, commands, door, events, disposed, unsettled>> /\ pull' = "done"
    BY <1>9 DEF PullSettles
  <2>3. current' \in States' /\ target' \in {Rest', Asked'}
    BY <1>4, <1>9, <2>1, <2>2, ReportTypes DEF PullSettles
  <2>4. heard' \in {"nothing", "door", "stale"}
    BY <1>9 DEF PullSettles, Types, Fields
  <2>5. Fields'
    BY <2>2, <2>3, <2>4 DEF Types, Fields
  <2> QED
    BY <1>2, <1>3, <2>2, <2>5 DEF Types, Channel
<1>10. ASSUME NEW s \in DoorStates, DoorChanges(s)
       PROVE  Types'
  <2>1. UNCHANGED <<kind, current, target, timers, commands, pull, disposed, heard, unsettled>>
    BY <1>10 DEF DoorChanges
  <2>2. Fields'
    BY <2>1, <1>4 DEF Types, Fields
  <2>3. Channel'
    BY <1>10, <2>1, BoundsAssumption DEF DoorChanges, Types, Channel
  <2> QED
    BY <1>2, <1>3, <2>1, <2>2, <2>3
<1>11. ASSUME events # <<>>, events' = Tail(events)
       PROVE  events' \in Seq(DoorStates) /\ Len(events') <= MaxEvents /\ Head(events) \in DoorStates
  <2>1. events \in Seq(DoorStates) /\ Len(events) <= MaxEvents /\ MaxEvents \in Nat
    BY BoundsAssumption DEF Types, Channel
  <2>2. Len(Tail(events)) = Len(events) - 1 /\ Len(events) \in Nat
    BY <1>11, <2>1
  <2> QED
    BY <1>11, <2>1, <2>2
<1>12. CASE EventArrives
  <2>1. kind = "garage" /\ UNCHANGED <<kind, commands, pull, door, disposed, unsettled>>
    BY <1>1, <1>12 DEF EventArrives
  <2>2. Channel'
    BY <1>11, <1>12, <2>1 DEF EventArrives, Types, Channel
  <2>3. timers' \in 0..timers /\ timers' \in 0..MaxCommands /\ timers' <= 1
    BY <1>12, <2>1, BoundsAssumption DEF EventArrives, Types, Fields
  <2>4. heard' \in {"nothing", "door", "stale"}
    BY <1>12 DEF EventArrives, Types, Fields
  <2>5. current' \in States /\ target' \in {Rest, Asked}
    <3>1. CASE disposed
      BY <1>12, <3>1 DEF EventArrives, Types, Fields
    <3>2. CASE ~disposed
      BY <1>11, <1>12, <2>1, <3>2, ReportTypes DEF EventArrives
    <3> QED
      BY <3>1, <3>2
  <2>6. Fields'
    BY <1>4, <2>1, <2>3, <2>4, <2>5 DEF Types, Fields
  <2> QED
    BY <1>2, <2>1, <2>2, <2>3, <2>6
<1>13. CASE EventLost
  <2>1. UNCHANGED <<kind, current, target, timers, commands, pull, door, disposed, unsettled>>
    BY <1>13 DEF EventLost
  <2>2. Channel'
    BY <1>11, <1>13, <2>1 DEF EventLost, Types, Channel
  <2>3. heard' \in {"nothing", "door", "stale"}
    BY <1>13 DEF EventLost, Types, Fields
  <2>4. Fields'
    BY <1>4, <2>1, <2>3 DEF Types, Fields
  <2> QED
    BY <1>2, <1>3, <2>1, <2>2, <2>4
<1>14. CASE UNCHANGED vars
  BY <1>2, <1>3, <1>4, <1>14 DEF vars, Types, Fields, Channel
<1>15. ASSUME NEW c \in commands, CommandReturns(c) \/ CommandFails(c)
       PROVE  Types'
  BY <1>1, <1>15, AwaitTypes DEF CommandReturns, CommandFails
<1>16. ASSUME NEW v \in {Rest, Asked}, HomeKitSets(v)
       PROVE  Types'
  BY <1>1, <1>16, SetTypes
<1> QED
  BY <1>5, <1>6, <1>7, <1>8, <1>9, <1>10, <1>12, <1>13, <1>14, <1>15, <1>16 DEF Next

\* Every variable keeps to its type; above all, garage door and opener never
\* have a second timer, whatever commands, reports and the initial pull do.
THEOREM TypeCorrect == Spec => []TypeOK
BY Inductive, TypesInit, TypesStep, TypesSuffice, PTL DEF Spec
-----------------------------------------------------------------------------
(* The handler of a variable: its types, for every set of values and every *)
(* bound on the calls under way.  Each poll and each write keeps a number  *)
(* of its own, and no interval outlives its handler.  Nothing is shared    *)
(* with the handlers above; an instance does not hand on the assumptions   *)
(* on its constants, so they are hypotheses here.                          *)

CONSTANTS VariableKinds, Values, MaxCalls
VARIABLES variableKind, value, shown, interval, polls, writes, variable, over

V == INSTANCE Variables WITH Kinds <- VariableKinds, kind <- variableKind, disposed <- over

PollType == [n : V!Calls, at : {"sent", "read"}, v : V!Domain]
WriteType == [n : V!Calls, v : V!Domain]

\* Numbered calls of a type.
Numbered(C, T) == C \subseteq T /\ \A c, d \in C : c.n = d.n => c = d

\* The invariant by its parts.
LEMMA VariablesParts ==
  V!TypeOK <=>
    /\ variableKind \in VariableKinds
    /\ value \in V!Domain /\ shown \in V!Domain /\ variable \in V!Domain
    /\ interval \in BOOLEAN /\ over \in BOOLEAN /\ (over => ~interval)
    /\ Numbered(polls, PollType) /\ Numbered(writes, WriteType)
BY Zenon DEF V!TypeOK, Numbered, PollType, WriteType

\* There is a number for one more call.
LEMMA UnusedNumber ==
  ASSUME NEW C, V!Room(C)
  PROVE  V!Unused(C) \in V!Calls /\ \A c \in C : c.n # V!Unused(C)
BY Zenon DEF V!Room, V!Unused, V!IsUnused

\* A call with a number of its own may join.
LEMMA CallJoins ==
  ASSUME NEW C, NEW T, Numbered(C, T), NEW r \in T, \A c \in C : c.n # r.n
  PROVE  Numbered(C \cup {r}, T)
BY Zenon DEF Numbered

\* A call may end.
LEMMA CallEnds ==
  ASSUME NEW C, NEW T, Numbered(C, T), NEW c \in C
  PROVE  Numbered(C \ {c}, T) /\ \A d \in C \ {c} : d.n # c.n
BY Zenon DEF Numbered

\* Booleans are among the values of every variable.
LEMMA ZeroInDomain == V!ValuesAreNumbers => 0 \in V!Domain
BY DEF V!ValuesAreNumbers, V!Domain

\* attach() leaves everything in its type.
LEMMA VariablesInit ==
  ASSUME V!ValuesAreNumbers, V!Init
  PROVE  V!TypeOK
<1>1. /\ variableKind \in VariableKinds
      /\ variable \in V!Domain /\ value \in V!Domain /\ shown \in V!Domain
  BY DEF V!ValuesAreNumbers, V!Init, V!Domain
<1>2. interval \in BOOLEAN /\ over \in BOOLEAN /\ (over => ~interval)
  BY Zenon DEF V!Init
<1>3. Numbered(polls, PollType) /\ Numbered(writes, WriteType)
  BY DEF V!Init, Numbered
<1> QED
  BY Zenon, <1>1, <1>2, <1>3, VariablesParts

\* Every step keeps the types.
LEMMA VariablesStep ==
  ASSUME V!ValuesAreNumbers, V!TypeOK, [V!Next]_(V!vars)
  PROVE  V!TypeOK'
<1>1. /\ variableKind \in VariableKinds
      /\ value \in V!Domain /\ shown \in V!Domain /\ variable \in V!Domain
      /\ interval \in BOOLEAN /\ over \in BOOLEAN /\ (over => ~interval)
      /\ Numbered(polls, PollType) /\ Numbered(writes, WriteType)
  BY Zenon, VariablesParts
<1>2. variableKind' = variableKind
  BY DEF V!Next, V!vars, V!Poll, V!Dispose, V!CcuReads, V!PollSettles, V!PollFails,
         V!HomeKitSets, V!VariableChanges, V!WriteTakesEffect, V!WriteFails
<1>3. V!Domain' = V!Domain /\ PollType' = PollType /\ WriteType' = WriteType
  BY <1>2 DEF V!Domain, PollType, WriteType
<1>4. ASSUME value' \in V!Domain, shown' \in V!Domain, variable' \in V!Domain,
             \/ interval' = interval /\ over' = over
             \/ interval' = FALSE /\ over' = TRUE,
             Numbered(polls', PollType), Numbered(writes', WriteType)
      PROVE  V!TypeOK'
  <2>1. interval' \in BOOLEAN /\ over' \in BOOLEAN /\ (over' => ~interval')
    <3>1. CASE interval' = interval /\ over' = over
      BY Zenon, <1>1, <3>1
    <3>2. CASE interval' = FALSE /\ over' = TRUE
      BY Zenon, <3>2
    <3> QED
      BY Zenon, <1>4, <3>1, <3>2
  <2>2. /\ variableKind' \in VariableKinds
        /\ value' \in V!Domain' /\ shown' \in V!Domain' /\ variable' \in V!Domain'
    BY Zenon, <1>1, <1>2, <1>3, <1>4
  <2>3. Numbered(polls', PollType') /\ Numbered(writes', WriteType')
    BY Zenon, <1>3, <1>4
  <2> QED
    BY Zenon, <2>1, <2>2, <2>3 DEF V!TypeOK, Numbered, PollType, WriteType
<1>5. CASE V!Poll
  <2> DEFINE r == [n |-> V!Unused(polls), at |-> "sent", v |-> 0]
  <2>1. V!Room(polls) /\ polls' = polls \cup {r}
        /\ UNCHANGED <<variableKind, value, shown, interval, writes, variable, over>>
    BY <1>5 DEF V!Poll
  <2>2. V!Unused(polls) \in V!Calls /\ \A c \in polls : c.n # V!Unused(polls)
    BY <1>1, <2>1, UnusedNumber DEF Numbered
  <2>3. r \in PollType /\ r.n = V!Unused(polls)
    BY <2>2, ZeroInDomain DEF PollType
  <2> HIDE DEF r
  <2>4. Numbered(polls', PollType)
    BY Zenon, <1>1, <2>1, <2>2, <2>3, CallJoins
  <2> QED
    BY <1>1, <1>4, <2>1, <2>4
<1>6. CASE V!Dispose
  BY <1>1, <1>4, <1>6 DEF V!Dispose
<1>7. ASSUME NEW p \in polls, V!CcuReads(p)
      PROVE  V!TypeOK'
  <2> DEFINE r == [p EXCEPT !.at = "read", !.v = variable]
  <2>1. polls' = (polls \ {p}) \cup {r}
        /\ UNCHANGED <<variableKind, value, shown, interval, writes, variable, over>>
    BY <1>7 DEF V!CcuReads
  <2>2. r \in PollType /\ r.n = p.n
    <3>1. p \in PollType /\ variable \in V!Domain
      BY Zenon, <1>1 DEF Numbered
    <3> QED
      BY <3>1 DEF PollType
  <2> HIDE DEF r
  <2>3. Numbered(polls \ {p}, PollType) /\ \A d \in polls \ {p} : d.n # r.n
    BY Zenon, <1>1, <2>2, CallEnds
  <2>4. Numbered((polls \ {p}) \cup {r}, PollType)
    BY Zenon, <2>2, <2>3, CallJoins
  <2> QED
    BY <1>1, <1>4, <2>1, <2>4
<1>8. ASSUME NEW p \in polls, V!PollSettles(p) \/ V!PollFails(p)
      PROVE  V!TypeOK'
  <2>1. Numbered(polls \ {p}, PollType)
    BY <1>1, CallEnds
  <2>2. p.v \in V!Domain
    BY <1>1 DEF Numbered, PollType
  <2> QED
    BY <1>1, <1>4, <1>8, <2>1, <2>2 DEF V!PollSettles, V!PollFails
<1>9. ASSUME NEW v \in V!Domain, V!HomeKitSets(v)
      PROVE  V!TypeOK'
  <2> DEFINE r == [n |-> V!Unused(writes), v |-> v]
  <2>1. V!Room(writes) /\ writes' = writes \cup {r} /\ value' = v /\ shown' = v
        /\ UNCHANGED <<variableKind, interval, polls, variable, over>>
    BY <1>9 DEF V!HomeKitSets
  <2>2. V!Unused(writes) \in V!Calls /\ \A c \in writes : c.n # V!Unused(writes)
    BY <1>1, <2>1, UnusedNumber DEF Numbered
  <2>3. r \in WriteType /\ r.n = V!Unused(writes)
    BY <2>2 DEF WriteType
  <2> HIDE DEF r
  <2>4. Numbered(writes', WriteType)
    BY Zenon, <1>1, <2>1, <2>2, <2>3, CallJoins
  <2> QED
    BY <1>1, <1>4, <2>1, <2>4
<1>10. ASSUME NEW v \in V!Domain, V!VariableChanges(v)
       PROVE  V!TypeOK'
  BY <1>1, <1>4, <1>10 DEF V!VariableChanges
<1>11. ASSUME NEW w \in writes, V!WriteTakesEffect(w) \/ V!WriteFails(w)
       PROVE  V!TypeOK'
  <2>1. Numbered(writes \ {w}, WriteType)
    BY <1>1, CallEnds
  <2>2. w.v \in V!Domain
    BY <1>1 DEF Numbered, WriteType
  <2> QED
    BY <1>1, <1>4, <1>11, <2>1, <2>2 DEF V!WriteTakesEffect, V!WriteFails
<1>12. CASE UNCHANGED V!vars
  BY <1>1, <1>4, <1>12 DEF V!vars
<1> QED
  BY <1>5, <1>6, <1>7, <1>8, <1>9, <1>10, <1>11, <1>12 DEF V!Next

\* Every variable keeps to its values, the calls under way keep their numbers
\* apart, and a handler disposed of has no interval.
THEOREM VariablesTypeCorrect ==
  ASSUME V!ValuesAreNumbers
  PROVE  V!Spec => []V!TypeOK
<1>1. V!Init => V!TypeOK
  BY VariablesInit
<1>2. V!TypeOK /\ [V!Next]_(V!vars) => V!TypeOK'
  BY VariablesStep
<1> QED
  BY <1>1, <1>2, PTL DEF V!Spec
=============================================================================
