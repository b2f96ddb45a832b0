------------------------ MODULE CallbackServerProofs ------------------------
(***************************************************************************)
(* That the server bounds what it reads and answers what has ended, and    *)
(* that a body in chunks delivers what it would at once, for any requests, *)
(* bodies and listeners.  What a single body does is taken from Handled.   *)
(***************************************************************************)
EXTENDS CallbackServer, TLAPS

\* The listeners that are registered and not disposed.
Live == {l \in Listeners : status[l] = "live"}

Stages == {"unsent", "open", "gone", "answered"}

\* Of each request: a body that is still read is one of the CCU's and within
\* the limit, and exactly the answered requests have an answer.
RequestsOK ==
  /\ stage \in [Requests -> Stages]
  /\ body = [r \in Requests |-> body[r]] /\ response = [r \in Requests |-> response[r]]
  /\ received \in [Requests -> 0..(MaxBytes + 1)]
  /\ \A r \in Requests :
       /\ stage[r] = "open" => body[r] \in Bodies
       /\ stage[r] \in {"unsent", "open"} => received[r] <= MaxBytes
       /\ stage[r] = "answered" <=> response[r] # NoResponse

\* Of the listeners: the map holds those that are live, under their keys, and
\* nothing else.
ListenersOK ==
  /\ status \in [Listeners -> {"new", "live", "disposed"}]
  /\ listening = IndexOf(Live)

Inv == RequestsOK /\ ListenersOK

-----------------------------------------------------------------------------
(* The map of listeners                                                    *)

\* What registering l makes of a map, and disposing it.
Gains(i, l) ==
  [k \in DOMAIN i \cup {KeyOf[l]} |->
     (IF k \in DOMAIN i THEN i[k] ELSE {}) \cup (IF k = KeyOf[l] THEN {l} ELSE {})]

Loses(i, l) ==
  IF i[KeyOf[l]] \ {l} = {} THEN [k \in DOMAIN i \ {KeyOf[l]} |-> i[k]]
  ELSE [i EXCEPT ![KeyOf[l]] = i[KeyOf[l]] \ {l}]

\* What the map holds under a key.
LEMMA IndexIs ==
  ASSUME NEW L
  PROVE  /\ IndexOf(L) = [k \in DOMAIN IndexOf(L) |-> IndexOf(L)[k]]
         /\ \A k : k \in DOMAIN IndexOf(L) <=> \E x \in L : KeyOf[x] = k
         /\ \A k \in DOMAIN IndexOf(L) : \A x : x \in IndexOf(L)[k] <=> x \in L /\ KeyOf[x] = k
BY DEF IndexOf

\* A map with the same listeners under the same keys is the same.
LEMMA SameIndex ==
  ASSUME NEW L, NEW f, f = [k \in DOMAIN f |-> f[k]],
         \A k : k \in DOMAIN f <=> \E x \in L : KeyOf[x] = k,
         \A k \in DOMAIN f : \A x : x \in f[k] <=> x \in L /\ KeyOf[x] = k
  PROVE  f = IndexOf(L)
<1>1. DOMAIN f = {KeyOf[x] : x \in L}
  OBVIOUS
<1>2. \A k \in DOMAIN f : f[k] = {x \in L : KeyOf[x] = k}
  OBVIOUS
<1> QED
  BY <1>1, <1>2 DEF IndexOf

\* Registering puts a listener into the map ...
LEMMA IndexGains ==
  ASSUME NEW L, NEW l, NEW i, i = IndexOf(L)
  PROVE  Gains(i, l) = IndexOf(L \cup {l})
<1> DEFINE M == L \cup {l}
           f == Gains(i, l)
<1>1. /\ \A k : k \in DOMAIN i <=> \E x \in L : KeyOf[x] = k
      /\ \A k \in DOMAIN i : \A x : x \in i[k] <=> x \in L /\ KeyOf[x] = k
  BY IndexIs
<1>2. \A x : x \in M <=> x \in L \/ x = l
  OBVIOUS
<1>3. /\ f = [k \in DOMAIN f |-> f[k]] /\ DOMAIN f = DOMAIN i \cup {KeyOf[l]}
      /\ \A k \in DOMAIN f :
           f[k] = (IF k \in DOMAIN i THEN i[k] ELSE {}) \cup (IF k = KeyOf[l] THEN {l} ELSE {})
  BY DEF Gains
<1> HIDE DEF f, M
<1>4. \A k : k \in DOMAIN f <=> \E x \in M : KeyOf[x] = k
  BY <1>1, <1>2, <1>3
<1>5. \A k \in DOMAIN f : \A x : x \in f[k] <=> x \in M /\ KeyOf[x] = k
  BY <1>1, <1>2, <1>3
<1>6. f = IndexOf(M)
  BY <1>3, <1>4, <1>5, SameIndex
<1> QED
  BY <1>6 DEF f, M

\* ... and disposing takes it out, with the set if it was its last.
LEMMA IndexLoses ==
  ASSUME NEW L, NEW l \in L, NEW i, i = IndexOf(L)
  PROVE  Loses(i, l) = IndexOf(L \ {l})
<1> DEFINE M == L \ {l}
           rest == i[KeyOf[l]] \ {l}
           f == Loses(i, l)
<1>1. /\ i = [k \in DOMAIN i |-> i[k]]
      /\ \A k : k \in DOMAIN i <=> \E x \in L : KeyOf[x] = k
      /\ \A k \in DOMAIN i : \A x : x \in i[k] <=> x \in L /\ KeyOf[x] = k
  BY IndexIs
<1>2. \A x : x \in M <=> x \in L /\ x # l
  OBVIOUS
<1>f. /\ rest = {} => f = [k \in DOMAIN i \ {KeyOf[l]} |-> i[k]]
      /\ rest # {} => f = [i EXCEPT ![KeyOf[l]] = rest]
  BY DEF Loses
<1>r. \A x : x \in rest <=> x \in i[KeyOf[l]] /\ x # l
  OBVIOUS
<1> HIDE DEF M, f, rest
<1>3. KeyOf[l] \in DOMAIN i /\ \A x : x \in rest <=> x \in M /\ KeyOf[x] = KeyOf[l]
  BY <1>1, <1>2, <1>r
<1>4. /\ f = [k \in DOMAIN f |-> f[k]]
      /\ \A k : k \in DOMAIN f <=> \E x \in M : KeyOf[x] = k
      /\ \A k \in DOMAIN f : \A x : x \in f[k] <=> x \in M /\ KeyOf[x] = k
  <2>1. CASE rest = {}
    <3>1. f = [k \in DOMAIN i \ {KeyOf[l]} |-> i[k]]
      BY <1>f, <2>1
    <3>2. f = [k \in DOMAIN f |-> f[k]] /\ DOMAIN f = DOMAIN i \ {KeyOf[l]}
          /\ \A k \in DOMAIN f : f[k] = i[k]
      BY <3>1
    <3>3. \A x \in M : KeyOf[x] # KeyOf[l]
      BY <1>3, <2>1
    <3>4. \A k : k \in DOMAIN f <=> \E x \in M : KeyOf[x] = k
      BY Zenon, <1>1, <1>2, <3>2, <3>3
    <3>5. \A k \in DOMAIN f : \A x : x \in f[k] <=> x \in M /\ KeyOf[x] = k
      <4> SUFFICES ASSUME NEW k \in DOMAIN f, NEW x
                   PROVE  x \in f[k] <=> x \in M /\ KeyOf[x] = k
        OBVIOUS
      <4>1. k # KeyOf[l] /\ (x \in f[k] <=> x \in L /\ KeyOf[x] = k)
        BY Zenon, <1>1, <3>2
      <4> QED
        BY <1>2, <4>1
    <3> QED
      BY <3>2, <3>4, <3>5
  <2>2. CASE rest # {}
    <3>1. f = [i EXCEPT ![KeyOf[l]] = rest]
      BY <1>f, <2>2
    <3>2. DOMAIN f = DOMAIN i /\ f[KeyOf[l]] = rest /\ \A k \in DOMAIN i \ {KeyOf[l]} : f[k] = i[k]
      BY <1>1, <1>3, <3>1
    <3>3. f = [k \in DOMAIN f |-> f[k]]
      BY <1>1, <3>1
    <3>4. \A k : k \in DOMAIN f <=> \E x \in M : KeyOf[x] = k
      BY <1>1, <1>2, <1>3, <2>2, <3>2
    <3> QED
      BY <1>1, <1>2, <1>3, <3>2, <3>3, <3>4
  <2> QED
    BY <2>1, <2>2
<1>5. f = [k \in DOMAIN f |-> f[k]]
  BY Zenon, <1>4
<1>6. \A k : k \in DOMAIN f <=> \E x \in M : KeyOf[x] = k
  BY Zenon, <1>4
<1>7. \A k \in DOMAIN f : \A x : x \in f[k] <=> x \in M /\ KeyOf[x] = k
  BY Zenon, <1>4
<1>8. f = IndexOf(M)
  BY <1>5, <1>6, <1>7, SameIndex
<1> QED
  BY <1>8 DEF M, f

-----------------------------------------------------------------------------
(* The steps keep the invariant                                            *)

LEMMA InitInv == Init => Inv
<1> SUFFICES ASSUME Init
             PROVE  Inv
  OBVIOUS
<1> USE DEF Init
<1>1. RequestsOK
  BY LimitAssumption DEF RequestsOK, Stages
<1>2. Live = {}
  BY DEF Live
<1>3. listening = IndexOf({})
  BY DEF IndexOf
<1> QED
  BY <1>1, <1>2, <1>3 DEF Inv, ListenersOK

\* A request's step leaves the listeners alone.
LEMMA ListenersStay ==
  ASSUME ListenersOK, UNCHANGED <<listening, status>>
  PROVE  ListenersOK'
BY DEF ListenersOK, Live

\* And a listener's the requests.
LEMMA RequestsStay ==
  ASSUME RequestsOK, UNCHANGED <<stage, body, received, response>>
  PROVE  RequestsOK'
BY DEF RequestsOK

\* A step of request r concerns no other.
LEMMA OneRequest ==
  ASSUME RequestsOK, NEW r \in Requests, NEW s \in Stages, NEW b, NEW n \in 0..(MaxBytes + 1), NEW a,
         stage' = [stage EXCEPT ![r] = s], body' = [body EXCEPT ![r] = b],
         received' = [received EXCEPT ![r] = n], response' = [response EXCEPT ![r] = a],
         s = "open" => b \in Bodies, s \in {"unsent", "open"} => n <= MaxBytes,
         s = "answered" <=> a # NoResponse
  PROVE  RequestsOK'
BY DEF RequestsOK

\* A function with a value put where it was is the same.
LEMMA PutBack ==
  ASSUME NEW f, NEW D, f = [x \in D |-> f[x]], NEW d \in D
  PROVE  [f EXCEPT ![d] = f[d]] = f
OBVIOUS

LEMMA RequestArrivesStep ==
  ASSUME Inv, NEW r \in Requests, NEW b \in Bodies, RequestArrives(r, b)
  PROVE  Inv'
<1>1. /\ received' = [received EXCEPT ![r] = received[r]] /\ received[r] \in 0..(MaxBytes + 1)
      /\ response = [response EXCEPT ![r] = response[r]]
      /\ stage[r] = "unsent" /\ response[r] = NoResponse
  BY PutBack DEF RequestArrives, Inv, RequestsOK
<1>2. RequestsOK /\ body' = [body EXCEPT ![r] = b] /\ ListenersOK'
  BY ListenersStay DEF RequestArrives, Inv
<1>3. CASE b.verb # "POST"
  <2> DEFINE a == [kind |-> "refused"]
  <2>1. a # NoResponse
    BY DEF NoResponse
  <2>2. stage' = [stage EXCEPT ![r] = "answered"] /\ response' = [response EXCEPT ![r] = a]
    BY <1>3 DEF RequestArrives
  <2> HIDE DEF a
  <2>3. RequestsOK'
    <3> DEFINE n == received[r]
    <3>1. received' = [received EXCEPT ![r] = n] /\ n \in 0..(MaxBytes + 1)
      BY <1>1
    <3>2. "answered" \in Stages
      BY DEF Stages
    <3> HIDE DEF n
    <3> QED
      BY <1>2, <2>1, <2>2, <3>1, <3>2, OneRequest
  <2> QED
    BY <1>2, <2>3 DEF Inv
<1>4. CASE b.verb = "POST"
  <2>1. received[r] <= MaxBytes
    BY <1>1, <1>2 DEF RequestsOK
  <2> DEFINE a == response[r]
  <2>2. /\ stage' = [stage EXCEPT ![r] = "open"] /\ response' = [response EXCEPT ![r] = a]
        /\ a = NoResponse
    BY <1>1, <1>4 DEF RequestArrives
  <2> HIDE DEF a
  <2>3. RequestsOK'
    <3> DEFINE n == received[r]
    <3>1. received' = [received EXCEPT ![r] = n] /\ n \in 0..(MaxBytes + 1) /\ n <= MaxBytes
      BY <1>1, <2>1
    <3>2. /\ body' = [body EXCEPT ![r] = b] /\ stage' = [stage EXCEPT ![r] = "open"]
          /\ response' = [response EXCEPT ![r] = a]
      BY <1>2, <2>2
    <3>3. "open" \in Stages /\ ("open" = "answered" <=> a # NoResponse)
      BY <2>2 DEF Stages
    <3> HIDE DEF n
    <3> QED
      BY <1>2, <3>1, <3>2, <3>3, OneRequest
  <2> QED
    BY <1>2, <2>3 DEF Inv
<1> QED
  BY <1>3, <1>4

LEMMA ChunkArrivesStep ==
  ASSUME Inv, NEW r \in Requests, ChunkArrives(r)
  PROVE  Inv'
<1> DEFINE s == IF received[r] = MaxBytes THEN "gone" ELSE "open"
           n == received[r] + 1
           b == body[r]
           a == response[r]
<1>1. RequestsOK /\ ListenersOK'
  BY ListenersStay DEF ChunkArrives, Inv
<1>2. /\ stage' = [stage EXCEPT ![r] = s] /\ received' = [received EXCEPT ![r] = n]
      /\ body' = [body EXCEPT ![r] = b] /\ response' = [response EXCEPT ![r] = a]
  BY PutBack DEF ChunkArrives, Inv, RequestsOK
<1>3. b \in Bodies /\ a = NoResponse /\ received[r] \in 0..(MaxBytes + 1) /\ received[r] <= MaxBytes
  BY DEF ChunkArrives, Inv, RequestsOK
<1>4. n \in 0..(MaxBytes + 1) /\ (s \in {"unsent", "open"} => n <= MaxBytes)
  BY <1>3, LimitAssumption
<1>5. s \in Stages /\ (s = "open" => b \in Bodies) /\ (s = "answered" <=> a # NoResponse)
  BY <1>3 DEF Stages
<1> HIDE DEF s, n, b, a
<1>6. RequestsOK'
  BY <1>1, <1>2, <1>4, <1>5, OneRequest
<1> QED
  BY <1>1, <1>6 DEF Inv

\* An answer is never mistaken for none.
LEMMA BodyEndsStep ==
  ASSUME Inv, NEW r \in Requests, BodyEnds(r)
  PROVE  Inv'
<1> DEFINE n == received[r]
           b == body[r]
           a == Handled(body[r], listening).response
<1>1. RequestsOK /\ ListenersOK'
  BY ListenersStay DEF BodyEnds, Inv
<1>2. /\ stage' = [stage EXCEPT ![r] = "answered"] /\ received' = [received EXCEPT ![r] = n]
      /\ body' = [body EXCEPT ![r] = b] /\ response' = [response EXCEPT ![r] = a]
  BY PutBack DEF BodyEnds, Inv, RequestsOK
<1>3. b \in Bodies /\ n \in 0..(MaxBytes + 1)
  BY DEF BodyEnds, Inv, RequestsOK
<1>4. Live \in SUBSET Listeners /\ listening = IndexOf(Live)
  BY DEF Inv, ListenersOK, Live
<1>5. a.kind \in {"response", "fault"}
  BY <1>3, <1>4, AnswerAssumption
<1> HIDE DEF n, b, a
<1>6. a # NoResponse
  BY <1>5 DEF NoResponse
<1>7. RequestsOK'
  BY <1>1, <1>2, <1>3, <1>6, OneRequest DEF Stages
<1> QED
  BY <1>1, <1>7 DEF Inv

LEMMA ConnectionLostStep ==
  ASSUME Inv, NEW r \in Requests, ConnectionLost(r)
  PROVE  Inv'
<1> DEFINE n == received[r]
           b == body[r]
           a == response[r]
<1>1. RequestsOK /\ ListenersOK'
  BY ListenersStay DEF ConnectionLost, Inv
<1>2. /\ stage' = [stage EXCEPT ![r] = "gone"] /\ received' = [received EXCEPT ![r] = n]
      /\ body' = [body EXCEPT ![r] = b] /\ response' = [response EXCEPT ![r] = a]
  BY PutBack DEF ConnectionLost, Inv, RequestsOK
<1>3. a = NoResponse /\ n \in 0..(MaxBytes + 1)
  BY DEF ConnectionLost, Inv, RequestsOK
<1> HIDE DEF n, b, a
<1>4. RequestsOK'
  BY <1>1, <1>2, <1>3, OneRequest DEF Stages
<1> QED
  BY <1>1, <1>4 DEF Inv

LEMMA registerListenerStep ==
  ASSUME Inv, NEW l \in Listeners, registerListener(l)
  PROVE  Inv'
<1> USE DEF registerListener, Inv
<1>1. RequestsOK'
  BY RequestsStay
<1>2. status' \in [Listeners -> {"new", "live", "disposed"}]
  BY DEF ListenersOK
<1>3. Live' = Live \cup {l}
  BY DEF ListenersOK, Live
<1>4. listening' = Gains(listening, l)
  BY DEF Gains
<1>5. listening' = IndexOf(Live \cup {l})
  BY <1>4, IndexGains DEF ListenersOK
<1> QED
  BY <1>1, <1>2, <1>3, <1>5 DEF ListenersOK, IndexOf

LEMMA DisposeStep ==
  ASSUME Inv, NEW l \in Listeners, Dispose(l)
  PROVE  Inv'
<1> USE DEF Dispose, Inv
<1>1. RequestsOK'
  BY RequestsStay
<1>2. status' \in [Listeners -> {"new", "live", "disposed"}]
  BY DEF ListenersOK
<1>3. Live' = Live \ {l} /\ l \in Live
  BY DEF ListenersOK, Live
<1>4. listening' = Loses(listening, l)
  BY DEF Loses
<1>5. listening' = IndexOf(Live \ {l})
  BY <1>3, <1>4, IndexLoses DEF ListenersOK
<1> QED
  BY <1>1, <1>2, <1>3, <1>5 DEF ListenersOK, IndexOf

LEMMA NextInv == Inv /\ [Next]_vars => Inv'
<1> SUFFICES ASSUME Inv, [Next]_vars
             PROVE  Inv'
  OBVIOUS
<1>1. CASE UNCHANGED vars
  BY <1>1, RequestsStay, ListenersStay DEF vars, Inv
<1>2. CASE Next
  BY <1>2, RequestArrivesStep, ChunkArrivesStep, BodyEndsStep, ConnectionLostStep,
     registerListenerStep, DisposeStep
     DEF Next
<1> QED
  BY <1>1, <1>2

LEMMA Invariance == Spec => []Inv
BY InitInv, NextInv, PTL DEF Spec

-----------------------------------------------------------------------------
(* The theorems                                                            *)

\* However requests and listeners come and go: no body over the limit is kept,
\* exactly the answered requests have an answer, and no set of listeners
\* outlives its listeners.
THEOREM TypeCorrect == Spec => []TypeOK
<1>1. Inv => TypeOK
  <2> SUFFICES ASSUME Inv
               PROVE  TypeOK
    OBVIOUS
  <2>1. \A r \in Requests :
          /\ stage[r] \in {"unsent", "open", "gone", "answered"}
          /\ received[r] \in 0..(MaxBytes + 1) /\ (stage[r] = "open" => received[r] <= MaxBytes)
          /\ (stage[r] = "answered") = (response[r] # NoResponse)
    BY DEF Inv, RequestsOK, Stages
  <2>2. \A k \in DOMAIN listening : listening[k] # {} /\ listening[k] \subseteq Listeners
    <3>1. /\ \A k : k \in DOMAIN listening <=> \E x \in Live : KeyOf[x] = k
          /\ \A k \in DOMAIN listening : \A x : x \in listening[k] <=> x \in Live /\ KeyOf[x] = k
      BY IndexIs DEF Inv, ListenersOK
    <3>2. Live \subseteq Listeners
      BY DEF Live
    <3> QED
      BY <3>1, <3>2
  <2> QED
    BY <2>1, <2>2 DEF TypeOK, Inv, ListenersOK
<1> QED
  BY <1>1, Invariance, PTL

\* A step that ends no body calls no listener.
LEMMA NothingHeard ==
  ASSUME Inv, UNCHANGED heard, \A r \in Requests : stage[r] = "open" => stage'[r] # "answered"
  PROVE  \A l \in Listeners :
           LET ended == {r \in Requests : stage[r] = "open" /\ stage'[r] = "answered"}
           IN  heard'[l] = IF ended = {} \/ status[l] # "live" THEN heard[l]
                           ELSE heard[l] \o ValuesFor(l, body[CHOOSE r \in ended : TRUE])
<1>1. {r \in Requests : stage[r] = "open" /\ stage'[r] = "answered"} = {}
  OBVIOUS
<1> QED
  BY <1>1

\* If the dispatch of a body reaches every listener in the map in full, events
\* reach their listeners once, while bodies come in chunks and listeners are
\* registered and disposed: what the map holds when a body ends is what is
\* registered then.
THEOREM EventsReachTheirListeners == Spec /\ []DispatchIsComplete => EachEventOnce
<1> DEFINE ended == {r \in Requests : stage[r] = "open" /\ stage'[r] = "answered"}
           Delivered == \A l \in Listeners :
             heard'[l] = IF ended = {} \/ status[l] # "live" THEN heard[l]
                         ELSE heard[l] \o ValuesFor(l, body[CHOOSE r \in ended : TRUE])
<1>1. ASSUME Inv, DispatchIsComplete, [Next]_vars
      PROVE  Delivered \/ UNCHANGED vars
  <2>1. ASSUME NEW r \in Requests, NEW b \in Bodies, RequestArrives(r, b)
        PROVE  Delivered
    BY <1>1, <2>1, NothingHeard DEF RequestArrives, Inv, RequestsOK
  <2>2. ASSUME NEW r \in Requests, ChunkArrives(r) \/ ConnectionLost(r)
        PROVE  Delivered
    BY <1>1, <2>2, NothingHeard DEF ChunkArrives, ConnectionLost, Inv, RequestsOK
  <2>3. ASSUME NEW r \in Requests, BodyEnds(r)
        PROVE  Delivered
    <3>1. ended = {r}
      BY <1>1, <2>3 DEF BodyEnds, Inv, RequestsOK
    <3>2. (CHOOSE q \in ended : TRUE) = r
      BY <3>1
    <3>3. body[r] \in Bodies /\ Live \in SUBSET Listeners /\ listening = IndexOf(Live)
      BY <1>1, <2>3 DEF BodyEnds, Inv, RequestsOK, ListenersOK, Live
    <3> DEFINE told == Handled(body[r], listening).heard
    <3>4. told = [l \in Live |-> ValuesFor(l, body[r])]
      BY <1>1, <2>3, <3>3 DEF DispatchIsComplete, BodyEnds
    <3>5. heard' = [l \in Listeners |-> IF l \in DOMAIN told THEN heard[l] \o told[l] ELSE heard[l]]
      BY <2>3 DEF BodyEnds
    <3> HIDE DEF told, ended
    <3>6. ASSUME NEW l \in Listeners
          PROVE  heard'[l] = IF ended = {} \/ status[l] # "live" THEN heard[l]
                             ELSE heard[l] \o ValuesFor(l, body[CHOOSE q \in ended : TRUE])
      BY <3>1, <3>2, <3>4, <3>5 DEF Live
    <3> QED
      BY <3>6 DEF ended
  <2>4. ASSUME NEW l \in Listeners, registerListener(l) \/ Dispose(l)
        PROVE  Delivered
    BY <1>1, <2>4, NothingHeard DEF registerListener, Dispose
  <2> QED
    BY <1>1, <2>1, <2>2, <2>3, <2>4 DEF Next
<1>2. Spec /\ []DispatchIsComplete => [][Delivered]_vars
  BY <1>1, Invariance, PTL DEF Spec
<1> QED
  BY <1>2 DEF EachEventOnce
=============================================================================
