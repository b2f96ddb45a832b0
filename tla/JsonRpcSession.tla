--------------------------- MODULE JsonRpcSession --------------------------
(***************************************************************************)
(* CcuJsonRpcClient (src/ccu/CcuJsonRpcClient.ts): operations that run     *)
(* concurrently in one process and share one cached session id.            *)
(* ensureSession does not wait for a login already under way, an expired   *)
(* session is renewed once per call, and one call's renewal drops the id   *)
(* the others cached.  Every `await` is a point where other calls run.     *)
(*                                                                         *)
(* An operation is one call, or a look-up call followed by the call that   *)
(* acts (setVariable, runProgram).  The CCU is external: it issues         *)
(* sessions and ends them when it likes.  Session ids are numbered in the  *)
(* order they are issued; 0 stands for `undefined`.  Payloads are left out.*)
(***************************************************************************)
EXTENDS Naturals

CONSTANTS
  Op,       \* the operations, each invoked at most once
  LookUp    \* those that look their object up by name before they act

ASSUME LookUpAssumption == LookUp \subseteq Op

VARIABLES
  auth,        \* whether credentials are configured
  sessionId,   \* CcuJsonRpcClient.sessionId
  pc,          \* where each operation is suspended
  step,        \* 1: the look-up, 2: the call that acts
  sid,         \* the session id that the request or reply under way carries
  retried,     \* the argument of callOnce
  issued,      \* external: sessions issued so far
  live,        \* external: sessions the CCU still honours
  executed,    \* history: how often the CCU carried the acting call out
  posts        \* history: how often the current call was posted

client == <<auth, sessionId, pc, step, sid, retried>>
vars == <<client, issued, live, executed, posts>>

Phases == {"idle", "login", "granted", "posted", "answered", "faulted",
           "refused", "ok", "error"}

Init ==
  /\ auth \in BOOLEAN
  /\ sessionId = 0
  /\ pc = [o \in Op |-> "idle"]
  /\ step = [o \in Op |-> IF o \in LookUp THEN 1 ELSE 2]
  /\ sid = [o \in Op |-> 0]
  /\ retried = [o \in Op |-> FALSE]
  /\ issued = 0
  /\ live = {}
  /\ executed = [o \in Op |-> 0]
  /\ posts = [o \in Op |-> 0]

\* callOnce from its start to its first await: with a cached session (or none
\* needed) the request is posted at once, else ensureSession logs in first.
Attempt(o, cached) ==
  IF auth /\ cached = 0
    THEN /\ pc' = [pc EXCEPT ![o] = "login"]
         /\ sid' = [sid EXCEPT ![o] = 0]
    ELSE /\ pc' = [pc EXCEPT ![o] = "posted"]
         /\ sid' = [sid EXCEPT ![o] = cached]

Posted(o, cached, n) == IF auth /\ cached = 0 THEN n ELSE n + 1

Invoke(o) ==
  /\ pc[o] = "idle"
  /\ Attempt(o, sessionId)
  /\ posts' = [posts EXCEPT ![o] = Posted(o, sessionId, 0)]
  /\ UNCHANGED <<auth, sessionId, step, retried, issued, live, executed>>

\* isSafeIdentifier refuses the name before any call is made.
RefuseName(o) ==
  /\ pc[o] = "idle"
  /\ pc' = [pc EXCEPT ![o] = "error"]
  /\ UNCHANGED <<auth, sessionId, step, sid, retried, issued, live, executed, posts>>

\* External: the CCU opens a session.
CcuGrants(o) ==
  /\ pc[o] = "login"
  /\ issued' = issued + 1
  /\ live' = live \cup {issued + 1}
  /\ sid' = [sid EXCEPT ![o] = issued + 1]
  /\ pc' = [pc EXCEPT ![o] = "granted"]
  /\ UNCHANGED <<auth, sessionId, step, retried, executed, posts>>

\* The login reply arrives: its id replaces whatever is cached by now.
LoggedIn(o) ==
  /\ pc[o] = "granted"
  /\ sessionId' = sid[o]
  /\ pc' = [pc EXCEPT ![o] = "posted"]
  /\ posts' = [posts EXCEPT ![o] = @ + 1]
  /\ UNCHANGED <<auth, step, sid, retried, issued, live, executed>>

\* External: the CCU carries the call out.
CcuExecutes(o) ==
  /\ pc[o] = "posted"
  /\ auth => sid[o] \in live
  /\ pc' = [pc EXCEPT ![o] = "answered"]
  /\ executed' = IF step[o] = 2 THEN [executed EXCEPT ![o] = @ + 1] ELSE executed
  /\ UNCHANGED <<auth, sessionId, step, sid, retried, issued, live, posts>>

\* External: the CCU answers with an error that does not speak of the session.
CcuFaults(o) ==
  /\ pc[o] = "posted"
  /\ pc' = [pc EXCEPT ![o] = "faulted"]
  /\ UNCHANGED <<auth, sessionId, step, sid, retried, issued, live, executed, posts>>

\* External: 401, 403 or "session" in the message.  A CCU that demands a
\* session also refuses a client without credentials.
CcuRefuses(o) ==
  /\ pc[o] = "posted"
  /\ sid[o] \notin live
  /\ pc' = [pc EXCEPT ![o] = "refused"]
  /\ UNCHANGED <<auth, sessionId, step, sid, retried, issued, live, executed, posts>>

\* The look-up returns and finds its object: the call that acts follows.
Found(o) ==
  /\ pc[o] = "answered" /\ step[o] = 1
  /\ step' = [step EXCEPT ![o] = 2]
  /\ retried' = [retried EXCEPT ![o] = FALSE]
  /\ Attempt(o, sessionId)
  /\ posts' = [posts EXCEPT ![o] = Posted(o, sessionId, 0)]
  /\ UNCHANGED <<auth, sessionId, issued, live, executed>>

\* ... or does not find it.
NotFound(o) ==
  /\ pc[o] = "answered" /\ step[o] = 1
  /\ pc' = [pc EXCEPT ![o] = "error"]
  /\ UNCHANGED <<auth, sessionId, step, sid, retried, issued, live, executed, posts>>

Return(o) ==
  /\ pc[o] = "answered" /\ step[o] = 2
  /\ pc' = [pc EXCEPT ![o] = "ok"]
  /\ UNCHANGED <<auth, sessionId, step, sid, retried, issued, live, executed, posts>>

\* Fault: callOnce renews without looking at `retried`.
RenewAlways(o) ==
  /\ pc[o] = "refused"
  /\ auth
  /\ sessionId' = 0
  /\ retried' = [retried EXCEPT ![o] = TRUE]
  /\ Attempt(o, 0)
  /\ UNCHANGED <<auth, step, issued, live, executed, posts>>

\* The first refusal: the cached id is dropped, whichever it is by now, and
\* the second attempt logs in, all before any other callback runs.
Renew(o) ==
  /\ pc[o] = "refused"
  /\ auth /\ ~retried[o]
  /\ sessionId' = 0
  /\ retried' = [retried EXCEPT ![o] = TRUE]
  /\ Attempt(o, 0)
  /\ UNCHANGED <<auth, step, issued, live, executed, posts>>

GiveUp(o) ==
  /\ \/ pc[o] = "faulted"
     \/ pc[o] = "refused" /\ (retried[o] \/ ~auth)
  /\ pc' = [pc EXCEPT ![o] = "error"]
  /\ UNCHANGED <<auth, sessionId, step, sid, retried, issued, live, executed, posts>>

\* Fault: a call whose reply is lost is posted once more.
PostFailsRetried(o) ==
  /\ pc[o] \in {"posted", "answered"} /\ ~retried[o]
  /\ retried' = [retried EXCEPT ![o] = TRUE]
  /\ Attempt(o, sessionId)
  /\ posts' = [posts EXCEPT ![o] = @ + 1]
  /\ UNCHANGED <<auth, sessionId, step, issued, live, executed>>

\* Fault: a login request has no timeout.
PostFailsNoTimeout(o) ==
  /\ pc[o] \in {"granted", "posted", "answered", "faulted", "refused"}
  /\ pc' = [pc EXCEPT ![o] = "error"]
  /\ UNCHANGED <<auth, sessionId, step, sid, retried, issued, live, executed, posts>>

\* postJson rejects: the idle timeout, a broken connection, a non-2xx status,
\* or a reply that cannot be used.  The CCU may or may not have acted.
PostFails(o) ==
  /\ pc[o] \in {"login", "granted", "posted", "answered", "faulted", "refused"}
  /\ pc' = [pc EXCEPT ![o] = "error"]
  /\ UNCHANGED <<auth, sessionId, step, sid, retried, issued, live, executed, posts>>

\* External: a session times out on the CCU, or the CCU restarts.
CcuExpires(s) ==
  /\ s \in live
  /\ live' = live \ {s}
  /\ UNCHANGED <<client, issued, executed, posts>>

\* CcuClient.stop() drops the id; the CCU is not told.
invalidateSession ==
  /\ sessionId # 0
  /\ sessionId' = 0
  /\ UNCHANGED <<auth, pc, step, sid, retried, issued, live, executed, posts>>

Next ==
  \/ \E o \in Op :
       \/ Invoke(o) \/ RefuseName(o)
       \/ CcuGrants(o) \/ LoggedIn(o)
       \/ CcuExecutes(o) \/ CcuFaults(o) \/ CcuRefuses(o)
       \/ Found(o) \/ NotFound(o) \/ Return(o)
       \/ Renew(o) \/ GiveUp(o) \/ PostFails(o)
  \/ \E s \in live : CcuExpires(s)
  \/ invalidateSession

Spec == Init /\ [][Next]_vars

\* postJson's idle timeout settles every request the CCU leaves open, and Node
\* runs the callback of every reply that arrived.
FairSpec ==
  /\ Spec
  /\ \A o \in Op :
       WF_vars(LoggedIn(o) \/ Found(o) \/ NotFound(o) \/ Return(o)
               \/ Renew(o) \/ GiveUp(o) \/ PostFails(o))

-----------------------------------------------------------------------------
(* Properties                                                              *)

\* Every variable keeps to the values the code can give it.
TypeOK ==
  /\ auth \in BOOLEAN
  /\ issued \in Nat
  /\ sessionId \in 0..issued
  /\ pc \in [Op -> Phases]
  /\ step \in [Op -> {1, 2}]
  /\ sid \in [Op -> 0..issued]
  /\ retried \in [Op -> BOOLEAN]
  /\ live \subseteq 1..issued
  /\ executed \in [Op -> Nat]
  /\ posts \in [Op -> Nat]

\* "Renews the session once": whatever the other calls do to the shared id, no
\* call is posted more than twice.
RenewedOnce == \A o \in Op : posts[o] <= 2

\* The shared session implements the promise of RemoteOperation.
statusOf ==
  [o \in Op |-> IF pc[o] \in {"idle", "ok", "error"} THEN pc[o] ELSE "open"]

Promise == INSTANCE RemoteOperation WITH status <- statusOf, effects <- executed

\* Refinement: an operation takes effect at most once and succeeds only if it
\* did, although concurrent calls drop and replace each other's session.
ImplementsPromise == Promise!Spec

\* Every operation settles, however often sessions end under it.
EveryOperationSettles ==
  \A o \in Op : pc[o] \notin {"idle", "ok", "error"} ~> pc[o] \in {"ok", "error"}
=============================================================================
