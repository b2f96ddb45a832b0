----------------------------- MODULE Variables -----------------------------
(***************************************************************************)
(* The handler of one CCU variable: a switch, a light or a numeric sensor. *)
(* Variables push no events, so the handler polls: an interval sends a     *)
(* getVariable, whose answer may come back after a later poll's, after the *)
(* user's own write, or after dispose().  A write goes into the cached     *)
(* value before the two JSON-RPC calls that carry it out.                  *)
(*                                                                         *)
(* Booleans are 0 and 1.  Of a light only the brightness is modelled.      *)
(***************************************************************************)
EXTENDS Naturals

CONSTANTS
  Kinds,     \* the handlers to model
  Values,    \* the variable's values
  MaxCalls   \* bound: polls under way, and writes under way

ValuesAreNumbers == Values \subseteq Nat /\ {0, 1} \subseteq Values

ASSUME ValuesAssumption == ValuesAreNumbers
ASSUME BoundAssumption == MaxCalls \in Nat \ {0}

VARIABLES
  kind,      \* the handler's class
  value,     \* its cached value
  shown,     \* what HomeKit was told, or told us
  interval,  \* the poll interval is armed
  polls,     \* getVariable calls under way: sent, or answered with a value
  writes,    \* setVariable calls under way
  variable,  \* external: the CCU's value
  disposed   \* dispose() has run

vars == <<kind, value, shown, interval, polls, writes, variable, disposed>>

Domain == IF kind = "switch" THEN {0, 1} ELSE Values

Calls == 1..MaxCalls
IsUnused(n, calls) == \A c \in calls : c.n # n
Room(calls) == \E n \in Calls : IsUnused(n, calls)
Unused(calls) == CHOOSE n \in Calls : IsUnused(n, calls)

-----------------------------------------------------------------------------
(* The steps                                                               *)

\* attach(): the value of the list of variables.  The switch takes any text
\* for true, and a light or a sensor a value it cannot read for 0.
Init ==
  /\ kind \in Kinds
  /\ variable \in Domain
  /\ value \in {variable, IF kind = "switch" THEN 1 ELSE 0}
  /\ shown = value
  /\ interval = TRUE /\ polls = {} /\ writes = {} /\ disposed = FALSE

\* The interval fires, whether or not the poll before was answered.
Poll ==
  /\ interval
  /\ Room(polls)
  /\ polls' = polls \cup {[n |-> Unused(polls), at |-> "sent", v |-> 0]}
  /\ UNCHANGED <<kind, value, shown, interval, writes, variable, disposed>>

\* External: the CCU reads the variable for a poll.
CcuReads(p) ==
  /\ p.at = "sent"
  /\ polls' = (polls \ {p}) \cup {[p EXCEPT !.at = "read", !.v = variable]}
  /\ UNCHANGED <<kind, value, shown, interval, writes, variable, disposed>>

\* Fault: HomeKit is not told.
PollSettlesSilently(p) ==
  /\ p.at = "read"
  /\ polls' = polls \ {p}
  /\ value' = p.v
  /\ UNCHANGED <<kind, shown, interval, writes, variable, disposed>>

PollSettles(p) ==
  /\ p.at = "read"
  /\ polls' = polls \ {p}
  /\ value' = p.v
  /\ shown' = IF p.v # value THEN p.v ELSE shown
  /\ UNCHANGED <<kind, interval, writes, variable, disposed>>

\* Fault: an error ends the polling.
PollFailsForGood(p) ==
  /\ polls' = polls \ {p}
  /\ interval' = FALSE
  /\ UNCHANGED <<kind, value, shown, writes, variable, disposed>>

\* "Ignored - next poll will retry."
PollFails(p) ==
  /\ polls' = polls \ {p}
  /\ UNCHANGED <<kind, value, shown, interval, writes, variable, disposed>>

\* HomeKit sets the value: the setter runs up to its await.
HomeKitSets(v) ==
  /\ ~disposed /\ kind # "sensor"
  /\ Room(writes)
  /\ value' = v /\ shown' = v
  /\ writes' = writes \cup {[n |-> Unused(writes), v |-> v]}
  /\ UNCHANGED <<kind, interval, polls, variable, disposed>>

\* External: the CCU carries a write out.
WriteTakesEffect(w) ==
  /\ variable' = w.v
  /\ writes' = writes \ {w}
  /\ UNCHANGED <<kind, value, shown, interval, polls, disposed>>

\* The write fails and HomeKit is told; the cached value stays.
WriteFails(w) ==
  /\ writes' = writes \ {w}
  /\ UNCHANGED <<kind, value, shown, interval, polls, variable, disposed>>

\* External: a program or another client sets the variable.
VariableChanges(v) ==
  /\ variable' = v
  /\ UNCHANGED <<kind, value, shown, interval, polls, writes, disposed>>

\* Fault: the interval outlives the handler.
DisposeKeepsPolling ==
  /\ ~disposed
  /\ disposed' = TRUE
  /\ UNCHANGED <<kind, value, shown, interval, polls, writes, variable>>

Dispose ==
  /\ ~disposed
  /\ disposed' = TRUE
  /\ interval' = FALSE
  /\ UNCHANGED <<kind, value, shown, polls, writes, variable>>

Next ==
  \/ Poll \/ Dispose
  \/ \E p \in polls : CcuReads(p) \/ PollSettles(p) \/ PollFails(p)
  \/ \E v \in Domain : HomeKitSets(v) \/ VariableChanges(v)
  \/ \E w \in writes : WriteTakesEffect(w) \/ WriteFails(w)

\* The interval keeps firing; a call's timeout ends it, and a CCU that answers
\* now and then answers some poll.
Fairness ==
  /\ WF_vars(Poll)
  /\ \A n \in Calls :
       /\ WF_vars(\E p \in polls : p.n = n /\ (CcuReads(p) \/ PollFails(p)))
       /\ WF_vars(\E p \in polls : p.n = n /\ (PollSettles(p) \/ PollFails(p)))
       /\ SF_vars(\E p \in polls : p.n = n /\ CcuReads(p))
       /\ SF_vars(\E p \in polls : p.n = n /\ PollSettles(p))
       /\ WF_vars(\E w \in writes : w.n = n /\ (WriteTakesEffect(w) \/ WriteFails(w)))

Spec == Init /\ [][Next]_vars /\ Fairness

-----------------------------------------------------------------------------
(* Properties                                                              *)

\* Every variable keeps to its values, and a handler disposed of polls no
\* more: only the answers to polls already sent still arrive.
TypeOK ==
  /\ kind \in Kinds
  /\ value \in Domain /\ shown \in Domain /\ variable \in Domain
  /\ interval \in BOOLEAN /\ disposed \in BOOLEAN /\ (disposed => ~interval)
  /\ polls \subseteq [n : Calls, at : {"sent", "read"}, v : Domain]
  /\ writes \subseteq [n : Calls, v : Domain]
  /\ \A p, q \in polls : p.n = q.n => p = q
  /\ \A w, x \in writes : w.n = x.n => w = x

\* Once nobody sets the variable any more, the cache and HomeKit come to hold
\* its value and keep it: whatever order polls and writes were answered in,
\* and whichever failed, no stale answer lasts.
CatchesUp ==
  <>[][variable' = variable /\ (\A v \in Domain : ~HomeKitSets(v))]_vars
    => <>[](disposed \/ (value = variable /\ shown = variable))
=============================================================================
