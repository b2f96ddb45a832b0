-------------------------- MODULE RemoteOperation --------------------------
(***************************************************************************)
(* What the accessories are promised by an operation on the CCU (a         *)
(* variable write, a program run, a datapoint read): however often the     *)
(* transport logs in, is refused and tries again, the operation takes      *)
(* effect at most once, and reports success only if it took effect.        *)
(* An operation that reports an error may have taken effect.               *)
(***************************************************************************)
EXTENDS Naturals

CONSTANT Op        \* the operations

VARIABLES
  status,    \* "idle", "open", or how the operation's promise settled
  effects    \* how often the CCU carried the operation out

vars == <<status, effects>>

Init ==
  /\ status = [o \in Op |-> "idle"]
  /\ effects = [o \in Op |-> 0]

Invoke(o) ==
  /\ status[o] = "idle"
  /\ status' = [status EXCEPT ![o] = "open"]
  /\ UNCHANGED effects

TakeEffect(o) ==
  /\ status[o] = "open" /\ effects[o] = 0
  /\ effects' = [effects EXCEPT ![o] = 1]
  /\ UNCHANGED status

Succeed(o) ==
  /\ status[o] = "open" /\ effects[o] = 1
  /\ status' = [status EXCEPT ![o] = "ok"]
  /\ UNCHANGED effects

Fail(o) ==
  /\ status[o] \in {"idle", "open"}
  /\ status' = [status EXCEPT ![o] = "error"]
  /\ UNCHANGED effects

Next == \E o \in Op : Invoke(o) \/ TakeEffect(o) \/ Succeed(o) \/ Fail(o)

Spec == Init /\ [][Next]_vars
=============================================================================
