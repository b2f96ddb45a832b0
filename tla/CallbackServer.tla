--------------------------- MODULE CallbackServer ---------------------------
(***************************************************************************)
(* How an event of the CCU reaches its listeners: the HTTP server that the *)
(* CCU calls back (EventServer.ts) and the listeners by datapoint          *)
(* (CcuClient.ts).  Bodies arrive in chunks while other requests come and  *)
(* listeners are registered and disposed; a body that has ended is parsed, *)
(* dispatched and answered in one step.  What that step makes of the body  *)
(* is a parameter, which XmlRpc provides.                                  *)
(***************************************************************************)
EXTENDS Naturals, Sequences, FiniteSets

CONSTANTS
  Requests,       \* the CCU's requests
  Bodies,         \* what they may be
  Listeners,      \* the handlers' callbacks
  KeyOf,          \* Listeners -> the address and datapoint each listens to
  MaxBytes,       \* the limit of a body, in chunks
  Handled(_, _),  \* what a body does, given the listeners by datapoint: the
                  \* values that each of them is called with, and the answer
  Events(_)       \* the events in a body, each a key and a value, in order

\* The map that holds the listeners `live` and no others.
IndexOf(live) == [key \in {KeyOf[l] : l \in live} |-> {l \in live : KeyOf[l] = key}]

ASSUME LimitAssumption == MaxBytes \in Nat \ {0}
ASSUME KeyAssumption == DOMAIN KeyOf = Listeners
ASSUME AnswerAssumption ==
  \A b \in Bodies, live \in SUBSET Listeners :
    Handled(b, IndexOf(live)).response.kind \in {"response", "fault"}

VARIABLES
  stage,      \* of each request
  body,       \* what it is
  received,   \* chunks of its body so far
  response,   \* what it was answered
  listening,  \* datapointListeners: the sets by address and datapoint
  status,     \* history: of each listener
  heard       \* history: the values each listener was called with

vars == <<stage, body, received, response, listening, status, heard>>

-----------------------------------------------------------------------------
(* Requests and listeners                                                  *)

NoResponse == [kind |-> "none"]
NoBody == [verb |-> "none"]

Init ==
  /\ stage = [r \in Requests |-> "unsent"]
  /\ body = [r \in Requests |-> NoBody]
  /\ received = [r \in Requests |-> 0]
  /\ response = [r \in Requests |-> NoResponse]
  /\ listening = [k \in {} |-> {}]
  /\ status = [l \in Listeners |-> "new"]
  /\ heard = [l \in Listeners |-> <<>>]

\* Anything but a POST is refused before its body is read.
RequestArrives(r, b) ==
  /\ stage[r] = "unsent"
  /\ body' = [body EXCEPT ![r] = b]
  /\ IF b.verb # "POST"
       THEN /\ stage' = [stage EXCEPT ![r] = "answered"]
            /\ response' = [response EXCEPT ![r] = [kind |-> "refused"]]
       ELSE /\ stage' = [stage EXCEPT ![r] = "open"]
            /\ UNCHANGED response
  /\ UNCHANGED <<received, listening, status, heard>>

\* A chunk over the limit destroys the connection.
ChunkArrives(r) ==
  /\ stage[r] = "open" /\ received[r] < body[r].bytes
  /\ received' = [received EXCEPT ![r] = @ + 1]
  /\ stage' = [stage EXCEPT ![r] = IF received[r] = MaxBytes THEN "gone" ELSE "open"]
  /\ UNCHANGED <<body, response, listening, status, heard>>

BodyEnds(r) ==
  /\ stage[r] = "open" /\ received[r] = body[r].bytes
  /\ stage' = [stage EXCEPT ![r] = "answered"]
  /\ LET out == Handled(body[r], listening)
     IN  /\ heard' = [l \in Listeners |->
              IF l \in DOMAIN out.heard THEN heard[l] \o out.heard[l] ELSE heard[l]]
         /\ response' = [response EXCEPT ![r] = out.response]
  /\ UNCHANGED <<body, received, listening, status>>

\* The connection ends before the body.
ConnectionLost(r) ==
  /\ stage[r] = "open"
  /\ stage' = [stage EXCEPT ![r] = "gone"]
  /\ UNCHANGED <<body, received, response, listening, status, heard>>

registerListener(l) ==
  /\ status[l] = "new"
  /\ status' = [status EXCEPT ![l] = "live"]
  /\ listening' = [k \in DOMAIN listening \cup {KeyOf[l]} |->
       (IF k \in DOMAIN listening THEN listening[k] ELSE {}) \cup (IF k = KeyOf[l] THEN {l} ELSE {})]
  /\ UNCHANGED <<stage, body, received, response, heard>>

\* Fault: an empty set is kept for ever.
DisposeKeepsSet(l) ==
  /\ status[l] = "live"
  /\ status' = [status EXCEPT ![l] = "disposed"]
  /\ listening' = [listening EXCEPT ![KeyOf[l]] = @ \ {l}]
  /\ UNCHANGED <<stage, body, received, response, heard>>

\* Fault: the set is dropped with its first listener.
DisposeDropsSet(l) ==
  /\ status[l] = "live"
  /\ status' = [status EXCEPT ![l] = "disposed"]
  /\ listening' = [k \in DOMAIN listening \ {KeyOf[l]} |-> listening[k]]
  /\ UNCHANGED <<stage, body, received, response, heard>>

\* The disposer that registerListener returns; a handler runs it once.
Dispose(l) ==
  /\ status[l] = "live"
  /\ status' = [status EXCEPT ![l] = "disposed"]
  /\ LET rest == listening[KeyOf[l]] \ {l} IN
       listening' = IF rest = {} THEN [k \in DOMAIN listening \ {KeyOf[l]} |-> listening[k]]
                    ELSE [listening EXCEPT ![KeyOf[l]] = rest]
  /\ UNCHANGED <<stage, body, received, response, heard>>

Next ==
  \/ \E r \in Requests, b \in Bodies : RequestArrives(r, b)
  \/ \E r \in Requests : ChunkArrives(r) \/ BodyEnds(r) \/ ConnectionLost(r)
  \/ \E l \in Listeners : registerListener(l) \/ Dispose(l)

Spec == Init /\ [][Next]_vars

-----------------------------------------------------------------------------
(* Properties                                                              *)

\* No body over the limit is kept, and no set of listeners outlives them.
TypeOK ==
  /\ \A r \in Requests :
       /\ stage[r] \in {"unsent", "open", "gone", "answered"}
       /\ received[r] \in 0..(MaxBytes + 1) /\ (stage[r] = "open" => received[r] <= MaxBytes)
       /\ (stage[r] = "answered") = (response[r] # NoResponse)
  /\ \A k \in DOMAIN listening : listening[k] # {} /\ listening[k] \subseteq Listeners
  /\ status \in [Listeners -> {"new", "live", "disposed"}]

\* The values that a body has for a listener.
ValuesFor(l, b) ==
  LET mine == SelectSeq(Events(b), LAMBDA e : e.key = KeyOf[l])
  IN  [n \in DOMAIN mine |-> mine[n].value]

\* Whoever is registered when it ends: a body that is being read will hand every
\* event in it, once and in its order, to every listener; no failing call of the
\* batch and no throwing listener takes one away.  An unreadable body hands over
\* nothing.
DispatchIsComplete ==
  \A r \in Requests, live \in SUBSET Listeners :
    stage[r] = "open" =>
      Handled(body[r], IndexOf(live)).heard = [l \in live |-> ValuesFor(l, body[r])]

\* So it does when it ends, to every listener that is registered and not
\* disposed by then; the disposal of another listener of the same datapoint
\* takes nothing away.  Nothing else is delivered: no event of a body that is
\* unreadable, over the limit or cut short.
EachEventOnce ==
  [][\A l \in Listeners :
       LET ended == {r \in Requests : stage[r] = "open" /\ stage'[r] = "answered"}
       IN  heard'[l] = IF ended = {} \/ status[l] # "live" THEN heard[l]
                       ELSE heard[l] \o ValuesFor(l, body[CHOOSE r \in ended : TRUE])]_vars
=============================================================================
