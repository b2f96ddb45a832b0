---------------------------- MODULE TimedHandlers ----------------------------
(***************************************************************************)
(* The handlers that show HomeKit a passing state and take it back by a    *)
(* timer: the garage door (OPENING and CLOSING until the door reports, or  *)
(* STOPPED once travelSeconds are over), the door opener (UNSECURED for    *)
(* PULSE_MS) and the program (On for a second).  The timer races the       *)
(* command that HomeKit awaits, further commands, the door's events, the   *)
(* late answer to the initial pull, and dispose().                         *)
(*                                                                         *)
(* Time is left out: an armed timer may fire at any moment.  HomeKit sets  *)
(* nothing after dispose(), which Homebridge calls when it shuts down.     *)
(***************************************************************************)
EXTENDS Naturals, Sequences, FiniteSets

CONSTANTS
  Kinds,       \* the handlers to model
  MaxCommands, \* bound: commands under way and timers they left behind
  MaxEvents    \* bound: events of the door on their way

ASSUME KindsAssumption == Kinds \subseteq {"garage", "opener", "program"}
ASSUME BoundsAssumption == MaxCommands \in Nat \ {0} /\ MaxEvents \in Nat

VARIABLES
  kind,      \* the handler's class
  current,   \* the state the handler reports
  target,    \* the state it is asked for
  timers,    \* timeouts armed
  commands,  \* writes under way: their number, what they ask, carried out or not
  pull,      \* garage door: the initial getValue
  door,      \* external: DOOR_STATE
  events,    \* external: values of DOOR_STATE pushed, oldest first
  disposed,  \* dispose() has run
  heard,     \* history: what the door reported since the last command
  unsettled  \* history: an error went to HomeKit, or dispose() met a command

vars == <<kind, current, target, timers, commands, pull, door, events, disposed,
          heard, unsettled>>

outside == <<pull, door, events>>

DoorStates == {"CLOSED", "OPEN", "VENTILATION", "UNKNOWN"}

\* What the handler shows when nothing is going on, and what HomeKit asks for.
Rest == [garage |-> "CLOSED", opener |-> "SECURED", program |-> "OFF"][kind]
Asked == [garage |-> "OPEN", opener |-> "UNSECURED", program |-> "ON"][kind]

\* "SKIP" stands for undefined: an unknown position changes nothing.
mapCcuToHap(s) ==
  [CLOSED |-> "CLOSED", OPEN |-> "OPEN", VENTILATION |-> "OPEN", UNKNOWN |-> "SKIP"][s]

-----------------------------------------------------------------------------
(* Commands                                                                *)

\* attach() has run, for a door in any state.
Init ==
  /\ kind \in Kinds
  /\ current = Rest /\ target = Rest
  /\ timers = 0 /\ commands = {}
  /\ pull = IF kind = "garage" THEN "asked" ELSE "done"
  /\ door \in IF kind = "garage" THEN DoorStates ELSE {"UNKNOWN"}
  /\ events = <<>>
  /\ disposed = FALSE /\ heard = "nothing" /\ unsettled = FALSE

Unused == CHOOSE n \in 1..MaxCommands : \A c \in commands : c.n # n

\* HomeKit sets a state; the setter runs up to its await.
HomeKitSets(v) ==
  /\ ~disposed
  /\ target' = v
  /\ IF kind = "garage" \/ v = Asked
       THEN /\ timers + Cardinality(commands) < MaxCommands
            /\ commands' = commands \cup {[n |-> Unused, to |-> v, done |-> FALSE]}
       ELSE UNCHANGED commands
  /\ IF kind = "garage"
       THEN /\ current' = IF v = "OPEN" THEN "OPENING" ELSE "CLOSING"
            /\ timers' = 1
       ELSE UNCHANGED <<current, timers>>
  /\ heard' = "nothing"
  /\ unsettled' = FALSE
  /\ UNCHANGED <<kind, disposed>> /\ UNCHANGED outside

\* External: the CCU carries a command out.  A door that is not there yet
\* leaves its position.
CommandCarriedOut(c) ==
  /\ ~c.done
  /\ commands' = (commands \ {c}) \cup {[c EXCEPT !.done = TRUE]}
  /\ IF kind = "garage" /\ mapCcuToHap(door) # c.to
       THEN /\ Len(events) < MaxEvents
            /\ door' = "UNKNOWN"
            /\ events' = Append(events, "UNKNOWN")
       ELSE UNCHANGED <<door, events>>
  /\ UNCHANGED <<kind, current, target, timers, pull, disposed, heard, unsettled>>

\* Fault: a pulse that failed leaves the setter early.
AfterAwaitOnSuccess(ok) ==
  \/ (kind = "garage" \/ (kind = "opener" /\ ~ok))
     /\ UNCHANGED <<current, timers, unsettled>>
  \/ kind = "opener" /\ ok /\ current' = "UNSECURED" /\ timers' = 1 /\ UNCHANGED unsettled
  \/ kind = "program" /\ ok /\ timers' = timers + 1 /\ UNCHANGED <<current, unsettled>>
  \/ kind = "program" /\ ~ok /\ unsettled' = TRUE /\ UNCHANGED <<current, timers>>

\* Fault: the timer of the pulse before is not disarmed.
AfterAwaitTwoTimers(ok) ==
  \/ kind = "garage" /\ UNCHANGED <<current, timers, unsettled>>
  \/ kind = "opener" /\ current' = "UNSECURED" /\ timers' = timers + 1 /\ UNCHANGED unsettled
  \/ kind = "program" /\ ok /\ timers' = timers + 1 /\ UNCHANGED <<current, unsettled>>
  \/ kind = "program" /\ ~ok /\ unsettled' = TRUE /\ UNCHANGED <<current, timers>>

\* The setter after its await.  The garage door has nothing left to do and the
\* opener goes on after an error, which the program hands to HomeKit.
AfterAwait(ok) ==
  \/ kind = "garage" /\ UNCHANGED <<current, timers, unsettled>>
  \/ kind = "opener" /\ current' = "UNSECURED" /\ timers' = 1 /\ UNCHANGED unsettled
  \/ kind = "program" /\ ok /\ timers' = timers + 1 /\ UNCHANGED <<current, unsettled>>
  \/ kind = "program" /\ ~ok /\ unsettled' = TRUE /\ UNCHANGED <<current, timers>>

CommandReturns(c) ==
  /\ c.done
  /\ commands' = commands \ {c}
  /\ AfterAwait(TRUE)
  /\ UNCHANGED <<kind, target, disposed, heard>> /\ UNCHANGED outside

\* The request or its reply is lost, or the CCU answers with an error.
CommandFails(c) ==
  /\ commands' = commands \ {c}
  /\ AfterAwait(FALSE)
  /\ UNCHANGED <<kind, target, disposed, heard>> /\ UNCHANGED outside

TimerFires ==
  /\ timers > 0
  /\ timers' = timers - 1
  /\ current' = IF kind = "garage" THEN "STOPPED" ELSE Rest
  /\ target' = IF kind = "garage" THEN target ELSE Rest
  /\ UNCHANGED <<kind, commands, disposed, heard, unsettled>> /\ UNCHANGED outside

\* Fault: dispose() of the base class only.
DisposeBase ==
  /\ ~disposed
  /\ disposed' = TRUE
  /\ unsettled' = (commands # {})
  /\ UNCHANGED <<kind, current, target, timers, commands, heard>> /\ UNCHANGED outside

\* The program has no dispose() of its own.
Dispose ==
  /\ ~disposed
  /\ disposed' = TRUE
  /\ timers' = IF kind = "program" THEN timers ELSE 0
  /\ unsettled' = (commands # {})
  /\ UNCHANGED <<kind, current, target, commands, heard>> /\ UNCHANGED outside

-----------------------------------------------------------------------------
(* The door reports                                                        *)

\* Fault: the target stays what HomeKit asked for.
ReportedCurrent(s) ==
  IF mapCcuToHap(s) = "SKIP" THEN UNCHANGED <<current, target>>
  ELSE current' = mapCcuToHap(s) /\ UNCHANGED target

\* The fields after DOOR_STATE s was read: target is CLOSED or OPEN alike.
Reported(s) ==
  IF mapCcuToHap(s) = "SKIP" THEN UNCHANGED <<current, target>>
  ELSE current' = mapCcuToHap(s) /\ target' = mapCcuToHap(s)

\* External: the CCU reads DOOR_STATE for the initial pull.
CcuAnswers ==
  /\ pull = "asked"
  /\ pull' = door
  /\ UNCHANGED <<kind, current, target, timers, commands, door, events, disposed,
                 heard, unsettled>>

\* Its answer arrives, at any time: it ends no travel timer.
PullSettles ==
  /\ pull \in DoorStates
  /\ Reported(pull)
  /\ heard' = IF heard = "door" THEN "stale" ELSE heard
  /\ pull' = "done"
  /\ UNCHANGED <<kind, timers, commands, door, events, disposed, unsettled>>

PullFails ==
  /\ pull # "done"
  /\ pull' = "done"
  /\ UNCHANGED <<kind, current, target, timers, commands, door, events, disposed,
                 heard, unsettled>>

\* External: the door moves, is moved, or gets stuck; the CCU pushes its state.
DoorChanges(s) ==
  /\ kind = "garage" /\ s # door
  /\ Len(events) < MaxEvents
  /\ door' = s
  /\ events' = Append(events, s)
  /\ UNCHANGED <<kind, current, target, timers, commands, pull, disposed, heard, unsettled>>

\* Fault: the timer is disarmed before the unknown position is skipped.
EventDisarms ==
  /\ events # <<>>
  /\ events' = Tail(events)
  /\ IF disposed THEN UNCHANGED <<current, target, timers, heard>>
     ELSE /\ Reported(Head(events))
          /\ timers' = 0
          /\ heard' = IF mapCcuToHap(Head(events)) = "SKIP" THEN heard ELSE "door"
  /\ UNCHANGED <<kind, commands, pull, door, disposed, unsettled>>

\* Fault: the report leaves the travel timer armed.
EventKeepsTimer ==
  /\ events # <<>>
  /\ events' = Tail(events)
  /\ IF disposed THEN UNCHANGED <<current, target, timers, heard>>
     ELSE /\ Reported(Head(events))
          /\ timers' = timers
          /\ heard' = IF mapCcuToHap(Head(events)) = "SKIP" THEN heard ELSE "door"
  /\ UNCHANGED <<kind, commands, pull, door, disposed, unsettled>>

\* The DOOR_STATE listener, until dispose() removes it.
EventArrives ==
  /\ events # <<>>
  /\ events' = Tail(events)
  /\ IF disposed THEN UNCHANGED <<current, target, timers, heard>>
     ELSE /\ Reported(Head(events))
          /\ timers' = IF mapCcuToHap(Head(events)) = "SKIP" THEN timers ELSE 0
          /\ heard' = IF mapCcuToHap(Head(events)) = "SKIP" THEN heard ELSE "door"
  /\ UNCHANGED <<kind, commands, pull, door, disposed, unsettled>>

\* External: the CCU cannot deliver the event and drops it.
EventLost ==
  /\ events # <<>>
  /\ events' = Tail(events)
  /\ heard' = IF heard = "door" THEN "stale" ELSE heard
  /\ UNCHANGED <<kind, current, target, timers, commands, pull, door, disposed, unsettled>>

Next ==
  \/ \E v \in {Rest, Asked} : HomeKitSets(v)
  \/ \E c \in commands : CommandCarriedOut(c) \/ CommandReturns(c) \/ CommandFails(c)
  \/ TimerFires \/ Dispose
  \/ CcuAnswers \/ PullSettles \/ PullFails
  \/ \E s \in DoorStates : DoorChanges(s)
  \/ EventArrives \/ EventLost

\* Node runs an expired timer, and RpcClient's and postJson's timeouts end
\* every request.
Fairness ==
  /\ WF_vars(TimerFires)
  /\ \A n \in 1..MaxCommands :
       WF_vars(\E c \in commands : c.n = n /\ (CommandReturns(c) \/ CommandFails(c)))

Spec == Init /\ [][Next]_vars /\ Fairness

-----------------------------------------------------------------------------
(* Properties                                                              *)

States == IF kind = "garage" THEN {"OPEN", "CLOSED", "OPENING", "CLOSING", "STOPPED"}
                             ELSE {Rest, Asked}

\* Every variable keeps to its values, and garage door and opener never have
\* two timers at once, of which only the last could be disarmed.
TypeOK ==
  /\ kind \in Kinds
  /\ current \in States /\ target \in {Rest, Asked}
  /\ timers \in 0..MaxCommands
  /\ kind # "program" => timers <= 1
  /\ commands \subseteq [n : 1..MaxCommands, to : {Rest, Asked}, done : BOOLEAN]
  /\ \A c, d \in commands : c.n = d.n => c = d
  /\ pull \in {"asked", "done"} \cup DoorStates /\ door \in DoorStates
  /\ events \in Seq(DoorStates) /\ Len(events) <= MaxEvents
  /\ disposed \in BOOLEAN /\ unsettled \in BOOLEAN
  /\ heard \in {"nothing", "door", "stale"}

\* What HomeKit shows is a passing state.
Passing ==
  \/ kind = "garage" /\ current \in {"OPENING", "CLOSING"}
  \/ kind = "opener" /\ (current = "UNSECURED" \/ target = "UNSECURED")
  \/ kind = "program" /\ target = "ON"

\* A passing state never dangles: while the handler lives, there is a timer
\* that will end it, or a command still awaited that will arm one; except
\* that HomeKit was handed the error of a failed program.
NothingDangles ==
  Passing /\ ~disposed =>
    \/ timers > 0
    \/ kind # "garage" /\ commands # {}
    \/ kind = "program" /\ unsettled

\* Once HomeKit sets nothing more, no passing state lasts.
PassingEnds ==
  <>[][\A v \in {Rest, Asked} : ~HomeKitSets(v)]_vars
    => []<>(~Passing \/ disposed \/ unsettled)

\* "STOPPED" is the handler's word for a door that pushed no position since
\* the last command; a door that did is never called stopped.
StoppedMeansSilence == current = "STOPPED" => heard = "nothing"

\* Commands, reports and the initial pull settle on the door's own state, if
\* it reported since the last command, no later report was lost, and the
\* initial pull did not come last.
DoorIsBelieved ==
  events = <<>> /\ heard = "door" /\ ~disposed /\ mapCcuToHap(door) # "SKIP" =>
    current = mapCcuToHap(door) /\ target = mapCcuToHap(door)

\* dispose() leaves no timer of a garage door, and one of a door opener only
\* if a pulse was still awaited.
DisposeDisarms ==
  disposed /\ timers > 0 => kind = "program" \/ (kind = "opener" /\ unsettled)
=============================================================================
