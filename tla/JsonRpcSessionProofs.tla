------------------------ MODULE JsonRpcSessionProofs -----------------------
(***************************************************************************)
(* Proofs about JsonRpcSession, for every set of operations that share the *)
(* session: types, the single renewal, and that each operation keeps the   *)
(* promise of RemoteOperation.                                             *)
(***************************************************************************)
EXTENDS JsonRpcSession, TLAPS

\* How often the call of operation o may have been posted, by where it is:
\* before its request is out, only the attempt before the renewal counts.
PostsInv(o) ==
  /\ pc[o] = "idle" => posts[o] = 0 /\ ~retried[o]
  /\ pc[o] \in {"login", "granted"} => posts[o] <= IF retried[o] THEN 1 ELSE 0
  /\ pc[o] \in {"posted", "answered", "faulted", "refused"} =>
       posts[o] <= IF retried[o] THEN 2 ELSE 1
  /\ pc[o] \in {"ok", "error"} => posts[o] <= 2

\* The acting call has succeeded, as far as the plugin can tell.
Acted(o) == pc[o] = "ok" \/ (pc[o] = "answered" /\ step[o] = 2)

\* It is carried out exactly when it is answered; after an error, nobody knows.
EffectInv(o) ==
  /\ executed[o] \in {0, 1}
  /\ Acted(o) => executed[o] = 1
  /\ pc[o] # "error" /\ ~Acted(o) => executed[o] = 0

IInv == TypeOK /\ (\A o \in Op : PostsInv(o)) /\ (\A o \in Op : EffectInv(o))

-----------------------------------------------------------------------------
(* Type correctness                                                        *)

\* One attempt of callOnce leaves the operation logging in or posted.
LEMMA AttemptType ==
  ASSUME TypeOK, NEW o \in Op, NEW cached \in 0..issued, Attempt(o, cached)
  PROVE  pc' \in [Op -> Phases] /\ sid' \in [Op -> 0..issued]
<1>1. CASE auth /\ cached = 0
  <2>1. /\ pc' = [pc EXCEPT ![o] = "login"]
        /\ sid' = [sid EXCEPT ![o] = 0]
    BY <1>1 DEF Attempt
  <2>2. QED
    BY <2>1 DEF TypeOK, Phases
<1>2. CASE ~(auth /\ cached = 0)
  <2>1. /\ pc' = [pc EXCEPT ![o] = "posted"]
        /\ sid' = [sid EXCEPT ![o] = cached]
    BY <1>2 DEF Attempt
  <2>2. QED
    BY <2>1 DEF TypeOK, Phases
<1>3. QED
  BY <1>1, <1>2

\* The initial state is typed.
LEMMA TypeInit == Init => TypeOK
BY DEF Init, TypeOK, Phases

\* Every step keeps the variables typed.
LEMMA TypeStep == TypeOK /\ [Next]_vars => TypeOK'
<1> SUFFICES ASSUME TypeOK, [Next]_vars PROVE TypeOK'
  OBVIOUS
<1>1. ASSUME NEW o \in Op, Invoke(o) PROVE TypeOK'
  <2>1. sessionId \in 0..issued
    BY DEF TypeOK
  <2>2. pc' \in [Op -> Phases] /\ sid' \in [Op -> 0..issued]
    BY <1>1, <2>1, AttemptType DEF Invoke
  <2>3. posts' \in [Op -> Nat]
    BY <1>1 DEF Invoke, Posted, TypeOK
  <2>4. QED
    BY <1>1, <2>2, <2>3 DEF Invoke, TypeOK
<1>2. ASSUME NEW o \in Op, Found(o) PROVE TypeOK'
  <2>1. sessionId \in 0..issued
    BY DEF TypeOK
  <2>2. pc' \in [Op -> Phases] /\ sid' \in [Op -> 0..issued]
    BY <1>2, <2>1, AttemptType DEF Found
  <2>3. posts' \in [Op -> Nat]
    BY <1>2 DEF Found, Posted, TypeOK
  <2>4. step' \in [Op -> {1, 2}] /\ retried' \in [Op -> BOOLEAN]
    BY <1>2 DEF Found, TypeOK
  <2>5. QED
    BY <1>2, <2>2, <2>3, <2>4 DEF Found, TypeOK
<1>3. ASSUME NEW o \in Op, Renew(o) PROVE TypeOK'
  <2>1. 0 \in 0..issued
    BY DEF TypeOK
  <2>2. pc' \in [Op -> Phases] /\ sid' \in [Op -> 0..issued]
    BY <1>3, <2>1, AttemptType DEF Renew
  <2>3. retried' \in [Op -> BOOLEAN]
    BY <1>3 DEF Renew, TypeOK
  <2>4. QED
    BY <1>3, <2>1, <2>2, <2>3 DEF Renew, TypeOK
<1>4. ASSUME NEW o \in Op, CcuGrants(o) PROVE TypeOK'
  BY <1>4 DEF CcuGrants, TypeOK, Phases
<1>5. ASSUME NEW o \in Op, LoggedIn(o) PROVE TypeOK'
  BY <1>5 DEF LoggedIn, TypeOK, Phases
<1>6. ASSUME NEW o \in Op, CcuExecutes(o) PROVE TypeOK'
  BY <1>6 DEF CcuExecutes, TypeOK, Phases
<1>7. ASSUME NEW o \in Op,
             RefuseName(o) \/ CcuFaults(o) \/ CcuRefuses(o) \/ NotFound(o)
               \/ Return(o) \/ GiveUp(o) \/ PostFails(o)
      PROVE  TypeOK'
  BY <1>7 DEF RefuseName, CcuFaults, CcuRefuses, NotFound, Return, GiveUp, PostFails,
              TypeOK, Phases
<1>8. ASSUME NEW s \in live, CcuExpires(s) PROVE TypeOK'
  BY <1>8 DEF CcuExpires, client, TypeOK
<1>9. CASE invalidateSession
  BY <1>9 DEF invalidateSession, TypeOK
<1>10. CASE UNCHANGED vars
  BY <1>10 DEF vars, client, TypeOK
<1>11. QED
  BY <1>1, <1>2, <1>3, <1>4, <1>5, <1>6, <1>7, <1>8, <1>9, <1>10 DEF Next

-----------------------------------------------------------------------------
(* The inductive invariant                                                 *)

\* What a step leaves of the operations it does not concern.
LEMMA Others ==
  ASSUME NEW p \in Op, PostsInv(p), EffectInv(p),
         pc'[p] = pc[p], step'[p] = step[p], retried'[p] = retried[p],
         posts'[p] = posts[p], executed'[p] = executed[p]
  PROVE  PostsInv(p)' /\ EffectInv(p)'
BY DEF PostsInv, EffectInv, Acted

\* A step of operation o keeps the invariant of every operation.
LEMMA OperationStep ==
  ASSUME IInv, NEW o \in Op, NEW p \in Op,
         \/ Invoke(o) \/ RefuseName(o)
         \/ CcuGrants(o) \/ LoggedIn(o)
         \/ CcuExecutes(o) \/ CcuFaults(o) \/ CcuRefuses(o)
         \/ Found(o) \/ NotFound(o) \/ Return(o)
         \/ Renew(o) \/ GiveUp(o) \/ PostFails(o)
  PROVE  PostsInv(p)' /\ EffectInv(p)'
<1> USE DEF IInv
<1>1. CASE p # o
  <2>1. /\ pc'[p] = pc[p] /\ step'[p] = step[p] /\ retried'[p] = retried[p]
        /\ posts'[p] = posts[p] /\ executed'[p] = executed[p]
    BY <1>1 DEF Invoke, RefuseName, CcuGrants, LoggedIn, CcuExecutes, CcuFaults, CcuRefuses,
                Found, NotFound, Return, Renew, GiveUp, PostFails, Attempt, TypeOK
  <2>2. QED
    BY <2>1, Others
<1>2. CASE p = o
  <2> SUFFICES PostsInv(o)' /\ EffectInv(o)'
    BY <1>2
  <2> USE DEF TypeOK, PostsInv, EffectInv, Acted
  <2>1. CASE Invoke(o)
    BY <2>1 DEF Invoke, Attempt, Posted
  <2>2. CASE RefuseName(o)
    BY <2>2 DEF RefuseName
  <2>3. CASE CcuGrants(o)
    BY <2>3 DEF CcuGrants
  <2>4. CASE LoggedIn(o)
    BY <2>4 DEF LoggedIn
  <2>5. CASE CcuExecutes(o)
    BY <2>5 DEF CcuExecutes
  <2>6. CASE CcuFaults(o) \/ CcuRefuses(o)
    BY <2>6 DEF CcuFaults, CcuRefuses
  <2>7. CASE Found(o)
    BY <2>7 DEF Found, Attempt, Posted
  <2>8. CASE NotFound(o)
    BY <2>8 DEF NotFound
  <2>9. CASE Return(o)
    BY <2>9 DEF Return
  <2>10. CASE Renew(o)
    BY <2>10 DEF Renew, Attempt
  <2>11. CASE GiveUp(o)
    BY <2>11 DEF GiveUp
  <2>12. CASE PostFails(o)
    BY <2>12 DEF PostFails
  <2>13. QED
    BY <2>1, <2>2, <2>3, <2>4, <2>5, <2>6, <2>7, <2>8, <2>9, <2>10, <2>11, <2>12
<1>3. QED
  BY <1>1, <1>2

\* The initial state satisfies the invariant.
LEMMA InvInit == Init => IInv
<1> SUFFICES ASSUME Init PROVE IInv
  OBVIOUS
<1>1. TypeOK
  BY TypeInit
<1>2. \A o \in Op : PostsInv(o) /\ EffectInv(o)
  BY DEF Init, PostsInv, EffectInv, Acted
<1>3. QED
  BY <1>1, <1>2 DEF IInv

\* Every step preserves it: the CCU's ending of a session and stop() concern
\* no operation, whatever their next attempt will meet.
LEMMA InvStep == IInv /\ [Next]_vars => IInv'
<1> SUFFICES ASSUME IInv, [Next]_vars PROVE IInv'
  OBVIOUS
<1>1. TypeOK'
  BY TypeStep DEF IInv
<1>2. ASSUME NEW p \in Op PROVE PostsInv(p)' /\ EffectInv(p)'
  <2>1. CASE \E o \in Op :
               \/ Invoke(o) \/ RefuseName(o)
               \/ CcuGrants(o) \/ LoggedIn(o)
               \/ CcuExecutes(o) \/ CcuFaults(o) \/ CcuRefuses(o)
               \/ Found(o) \/ NotFound(o) \/ Return(o)
               \/ Renew(o) \/ GiveUp(o) \/ PostFails(o)
    BY <2>1, OperationStep
  <2>2. CASE (\E s \in live : CcuExpires(s)) \/ invalidateSession \/ UNCHANGED vars
    <3>1. UNCHANGED <<pc, step, retried, posts, executed>>
      BY <2>2 DEF CcuExpires, invalidateSession, client, vars
    <3>2. QED
      BY <3>1, Others DEF IInv
  <2>3. QED
    BY <2>1, <2>2 DEF Next
<1>3. QED
  BY <1>1, <1>2 DEF IInv

\* The inductive invariant holds of every behaviour.
THEOREM Inductive == Spec => []IInv
BY InvInit, InvStep, PTL DEF Spec

\* The session's variables keep to their types for every set of operations.
THEOREM TypeCorrect == Spec => []TypeOK
<1>1. IInv => TypeOK
  BY DEF IInv
<1>2. QED
  BY <1>1, Inductive, PTL

\* However the operations drop and replace each other's session, none posts a
\* call more than twice.
THEOREM OneRenewal == Spec => []RenewedOnce
<1>1. ASSUME IInv, NEW o \in Op PROVE posts[o] <= 2
  <2>1. pc[o] \in Phases /\ posts[o] \in Nat /\ retried[o] \in BOOLEAN
    BY <1>1 DEF IInv, TypeOK
  <2>2. PostsInv(o)
    BY <1>1 DEF IInv
  <2>3. QED
    BY <2>1, <2>2 DEF PostsInv, Phases
<1>2. IInv => RenewedOnce
  BY <1>1 DEF RenewedOnce
<1>3. QED
  BY <1>2, Inductive, PTL

-----------------------------------------------------------------------------
(* The session implements RemoteOperation                                  *)

\* The initial states map to initial states.
LEMMA PromiseInit == Init => Promise!Init
BY DEF Init, Promise!Init, statusOf

\* The status the promise sees after one operation moved.
LEMMA StatusMoves ==
  ASSUME TypeOK, NEW o \in Op, NEW phase \in Phases, pc' = [pc EXCEPT ![o] = phase]
  PROVE  statusOf' = [statusOf EXCEPT ![o] =
           IF phase \in {"idle", "ok", "error"} THEN phase ELSE "open"]
BY DEF statusOf, TypeOK

\* Every step of an operation is a step of the promise, or none at all: the
\* logins, refusals and renewals are hidden, and the CCU acts only once.
LEMMA PromiseOperation ==
  ASSUME IInv, NEW o \in Op,
         \/ Invoke(o) \/ RefuseName(o)
         \/ CcuGrants(o) \/ LoggedIn(o)
         \/ CcuExecutes(o) \/ CcuFaults(o) \/ CcuRefuses(o)
         \/ Found(o) \/ NotFound(o) \/ Return(o)
         \/ Renew(o) \/ GiveUp(o) \/ PostFails(o)
  PROVE  Promise!Next \/ UNCHANGED <<statusOf, executed>>
<1> USE DEF IInv, Phases
<1>1. executed \in [Op -> Nat] /\ pc \in [Op -> Phases] /\ sessionId \in 0..issued
  BY DEF TypeOK
<1>2. ASSUME NEW phase \in {"login", "granted", "posted", "answered", "faulted", "refused"},
             pc' = [pc EXCEPT ![o] = phase],
             pc[o] \notin {"idle", "ok", "error"}, executed' = executed
      PROVE  UNCHANGED <<statusOf, executed>>
  BY <1>1, <1>2 DEF statusOf
<1>3. CASE Invoke(o)
  <2>1. PICK phase \in {"login", "posted"} : pc' = [pc EXCEPT ![o] = phase]
    BY <1>3 DEF Invoke, Attempt
  <2>2. statusOf' = [statusOf EXCEPT ![o] = "open"]
    BY <2>1, StatusMoves
  <2>3. statusOf[o] = "idle" /\ executed' = executed
    BY <1>3 DEF Invoke, statusOf
  <2>4. Promise!Invoke(o)
    BY <2>2, <2>3 DEF Promise!Invoke
  <2>5. QED
    BY <2>4 DEF Promise!Next
<1>4. CASE RefuseName(o) \/ NotFound(o) \/ GiveUp(o) \/ PostFails(o)
  <2>1. /\ pc' = [pc EXCEPT ![o] = "error"] /\ pc[o] \notin {"ok", "error"}
        /\ executed' = executed
    BY <1>4 DEF RefuseName, NotFound, GiveUp, PostFails
  <2>2. statusOf' = [statusOf EXCEPT ![o] = "error"]
    BY <2>1, StatusMoves
  <2>3. statusOf[o] \in {"idle", "open"}
    BY <2>1 DEF statusOf
  <2>4. Promise!Fail(o)
    BY <2>1, <2>2, <2>3 DEF Promise!Fail
  <2>5. QED
    BY <2>4 DEF Promise!Next
<1>5. CASE Return(o)
  <2>1. /\ pc' = [pc EXCEPT ![o] = "ok"] /\ pc[o] = "answered" /\ step[o] = 2
        /\ executed' = executed
    BY <1>5 DEF Return
  <2>2. statusOf' = [statusOf EXCEPT ![o] = "ok"]
    BY <2>1, StatusMoves
  <2>3. statusOf[o] = "open" /\ executed[o] = 1
    BY <2>1 DEF statusOf, EffectInv, Acted
  <2>4. Promise!Succeed(o)
    BY <2>1, <2>2, <2>3 DEF Promise!Succeed
  <2>5. QED
    BY <2>4 DEF Promise!Next
<1>6. CASE CcuExecutes(o)
  <2>1. pc' = [pc EXCEPT ![o] = "answered"] /\ pc[o] = "posted"
    BY <1>6 DEF CcuExecutes
  <2>2. statusOf' = statusOf /\ statusOf[o] = "open"
    BY <1>1, <2>1 DEF statusOf
  <2>3. executed[o] = 0
    BY <2>1 DEF EffectInv, Acted
  <2>4. CASE step[o] = 2
    <3>1. executed' = [executed EXCEPT ![o] = 1]
      BY <1>6, <2>3, <2>4 DEF CcuExecutes
    <3>2. Promise!TakeEffect(o)
      BY <2>2, <2>3, <3>1 DEF Promise!TakeEffect
    <3>3. QED
      BY <3>2 DEF Promise!Next
  <2>5. CASE step[o] # 2
    BY <1>6, <2>2, <2>5 DEF CcuExecutes
  <2>6. QED
    BY <2>4, <2>5
<1>7. CASE CcuGrants(o) \/ LoggedIn(o) \/ CcuFaults(o) \/ CcuRefuses(o)
  BY <1>2, <1>7 DEF CcuGrants, LoggedIn, CcuFaults, CcuRefuses
<1>8. CASE Found(o) \/ Renew(o)
  BY <1>2, <1>8 DEF Found, Renew, Attempt
<1>9. QED
  BY <1>3, <1>4, <1>5, <1>6, <1>7, <1>8

\* So is every step of the system.
LEMMA PromiseStep == IInv /\ [Next]_vars => [Promise!Next]_(Promise!vars)
<1> SUFFICES ASSUME IInv, [Next]_vars PROVE Promise!Next \/ UNCHANGED <<statusOf, executed>>
  BY DEF Promise!vars
<1>1. CASE \E o \in Op :
             \/ Invoke(o) \/ RefuseName(o)
             \/ CcuGrants(o) \/ LoggedIn(o)
             \/ CcuExecutes(o) \/ CcuFaults(o) \/ CcuRefuses(o)
             \/ Found(o) \/ NotFound(o) \/ Return(o)
             \/ Renew(o) \/ GiveUp(o) \/ PostFails(o)
  BY <1>1, PromiseOperation
<1>2. CASE (\E s \in live : CcuExpires(s)) \/ invalidateSession \/ UNCHANGED vars
  BY <1>2 DEF CcuExpires, invalidateSession, client, vars, statusOf
<1>3. QED
  BY <1>1, <1>2 DEF Next

\* The shared session keeps the promise of RemoteOperation, for every set of
\* operations: each takes effect at most once, and succeeds only if it did.
THEOREM Implements == Spec => ImplementsPromise
<1>1. Init => Promise!Init
  BY PromiseInit
<1>2. IInv /\ [Next]_vars => [Promise!Next]_(Promise!vars)
  BY PromiseStep
<1>3. QED
  BY <1>1, <1>2, Inductive, PTL DEF Spec, ImplementsPromise, Promise!Spec
=============================================================================
