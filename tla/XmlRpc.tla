------------------------------- MODULE XmlRpc -------------------------------
(***************************************************************************)
(* What becomes of a body that the CCU has sent: the XML-RPC codec         *)
(* (xmlRpc.ts), the dispatch of its calls (EventServer.ts) and the call of *)
(* the listeners (CcuClient.ts).  All of it runs without an await.         *)
(*                                                                         *)
(* A body is its prolog, its method and its parameters, as trees of tagged *)
(* XML values.  The text of a value is what it reads as; "" for a number   *)
(* stands for text that is none.  Entities, white space and the exact XML  *)
(* are left out.  A JavaScript value is a pair of its type and content.    *)
(*                                                                         *)
(* `index` is datapointListeners: the sets of listeners by the address and *)
(* datapoint they are registered for.                                      *)
(***************************************************************************)
EXTENDS Naturals, Sequences, FiniteSets, SequencesExt

CONSTANT Throwing   \* the listeners that throw

Undefined == <<"undefined", "">>
Str(s) == <<"string", s>>
Arr(s) == <<"array", s>>

\* value.name, value[n] and the ?? operator.
Field(v, name) ==
  IF v[1] = "object" /\ name \in DOMAIN v[2] THEN v[2][name] ELSE Undefined
Element(v, n) == IF v[1] = "array" /\ n \in DOMAIN v[2] THEN v[2][n] ELSE Undefined
Default(v, d) == IF v[1] \in {"undefined", "null"} THEN d ELSE v

-----------------------------------------------------------------------------
(* xmlRpc.ts                                                               *)

Unreadable == <<"error", "">>
AllRead(values) == \A n \in DOMAIN values : values[n] # Unreadable

ScalarType == [string |-> "string", untyped |-> "string", int |-> "number", i4 |-> "number",
               double |-> "number", boolean |-> "boolean", base64 |-> "buffer",
               dateTime |-> "string", nil |-> "null"]

\* parseValue: a value of a type that is not known, or a number that is none,
\* makes the whole body unreadable.  Of equal names in a struct the last counts.
RECURSIVE parseValue(_)
parseValue(x) ==
  CASE x.tag = "array" ->
         LET items == [n \in DOMAIN x.items |-> parseValue(x.items[n])]
         IN  IF AllRead(items) THEN Arr(items) ELSE Unreadable
    [] x.tag = "struct" ->
         LET read == [n \in DOMAIN x.members |-> parseValue(x.members[n].value)]
             names == {x.members[n].name : n \in DOMAIN x.members}
             last(m) == CHOOSE n \in DOMAIN read :
                          /\ x.members[n].name = m
                          /\ \A k \in DOMAIN read : x.members[k].name = m => k <= n
         IN  IF AllRead(read) THEN <<"object", [m \in names |-> read[last(m)]]>> ELSE Unreadable
    [] x.tag \in DOMAIN ScalarType ->
         IF x.text = "" /\ x.tag \in {"int", "i4", "double"} THEN Unreadable
         ELSE <<ScalarType[x.tag], x.text>>
    [] OTHER -> Unreadable

\* A DTD is refused, as is a body cut short.
parseXml(b) ==
  LET params == [n \in DOMAIN b.params |-> parseValue(b.params[n])]
  IN  [ok |-> b.prolog # "dtd" /\ b.complete /\ AllRead(params),
       method |-> b.method, params |-> Arr(params)]

\* serializeValue, for the values that dispatch returns and for faults.
RECURSIVE serializeValue(_)
serializeValue(v) ==
  CASE v[1] = "array" ->
         [tag |-> "array", items |-> [n \in DOMAIN v[2] |-> serializeValue(v[2][n])]]
    [] v[1] = "object" ->
         [tag |-> "struct",
          members |-> LET names == SetToSeq(DOMAIN v[2])
                      IN  [n \in DOMAIN names |->
                             [name |-> names[n], value |-> serializeValue(v[2][names[n]])]]]
    [] v[1] = "number" -> [tag |-> "i4", text |-> v[2]]
    [] v[1] = "string" -> [tag |-> "string", text |-> v[2]]

serializeResponse(v) == [kind |-> "response", value |-> serializeValue(v)]
serializeFault(code, message) ==
  [kind |-> "fault",
   value |-> serializeValue(<<"object", [faultCode |-> <<"number", code>>, faultString |-> Str(message)]>>)]

-----------------------------------------------------------------------------
(* Dispatch                                                                *)

\* Fault: a listener that throws ends the loop.
StopsAtError(index, h, key, v) ==
  LET called == IF key \in DOMAIN index THEN index[key] ELSE {}
      served == IF called \cap Throwing = {} THEN called ELSE called \cap Throwing
  IN  [heard |-> [l \in DOMAIN h |-> IF l \in served THEN Append(h[l], v) ELSE h[l]],
       result |-> Str(""), threw |-> called \cap Throwing # {}]

\* Every listener is called, whichever throw.
handleEvent(index, h, key, v) ==
  LET called == IF key \in DOMAIN index THEN index[key] ELSE {}
  IN  [heard |-> [l \in DOMAIN h |-> IF l \in called THEN Append(h[l], v) ELSE h[l]],
       result |-> Str(""), threw |-> FALSE]

Answer(h, v) == [heard |-> h, result |-> v, threw |-> FALSE]
TypeError(h) == [heard |-> h, result |-> Undefined, threw |-> TRUE]

Methods == <<"event", "system.multicall", "newDevices", "listDevices", "system.listMethods">>

\* Fault: a call without a name has no result.
LeftOut(done) == done

\* A call of a batch that has no name.
Nameless(done) == [done EXCEPT !.results = Append(@, Str(""))]

\* The calls of a batch run in order; the error of one is its result "" and
\* concerns no other.  Destructuring parameters that are no array, or a batch
\* that is none, throws.  (A text in their place is left out.)
RECURSIVE dispatch(_, _, _, _)
dispatch(method, params, index, h) ==
  CASE method = "event" ->
         IF params[1] # "array" THEN TypeError(h)
         ELSE handleEvent(index, h, <<Element(params, 2), Element(params, 3)>>, Element(params, 4))
    [] method = "system.multicall" ->
         LET batch == Default(Element(params, 1), Arr(<<>>))
             Step(done, call) ==
               LET name == Field(call, "methodName")
                   sub == dispatch(name[2], Default(Field(call, "params"), Arr(<<>>)), index, done.heard)
               IN  IF name[1] # "string" THEN Nameless(done)
                   ELSE [heard |-> sub.heard,
                         results |-> Append(done.results, IF sub.threw THEN Str("") ELSE sub.result)]
             all == FoldLeft(Step, [heard |-> h, results |-> <<>>], batch[2])
         IN  IF batch[1] # "array" THEN TypeError(h) ELSE Answer(all.heard, Arr(all.results))
    [] method = "newDevices" -> IF params[1] # "array" THEN TypeError(h) ELSE Answer(h, Str(""))
    [] method = "listDevices" -> Answer(h, Arr(<<>>))
    [] method = "system.listMethods" -> Answer(h, Arr([n \in DOMAIN Methods |-> Str(Methods[n])]))
    [] OTHER -> Answer(h, Str(""))

\* The body has ended: it is parsed, dispatched and answered.
handle(b, index) ==
  LET call == parseXml(b)
      none == [l \in UNION {index[key] : key \in DOMAIN index} |-> <<>>]
      out == IF call.ok THEN dispatch(call.method, call.params, index, none) ELSE TypeError(none)
  IN  [heard |-> out.heard,
       response |-> IF out.threw THEN serializeFault("-1", "message") ELSE serializeResponse(out.result)]

-----------------------------------------------------------------------------
(* What is expected of it                                                  *)

\* The events of a call and, depth first, of the calls of a batch.
RECURSIVE EventsIn(_, _)
EventsIn(method, params) ==
  IF method = "event" THEN
    IF params[1] = "array"
      THEN <<[key |-> <<Element(params, 2), Element(params, 3)>>, value |-> Element(params, 4)]>>
      ELSE <<>>
  ELSE IF method = "system.multicall" /\ Element(params, 1)[1] = "array" THEN
    LET batch == Element(params, 1)[2]
        Of(call) == EventsIn(Field(call, "methodName")[2], Default(Field(call, "params"), Arr(<<>>)))
    IN  FlattenSeq([n \in DOMAIN batch |-> Of(batch[n])])
  ELSE <<>>

\* The events of a body that can be read.
EventsOf(b) ==
  LET call == parseXml(b)
  IN  IF call.ok THEN EventsIn(call.method, call.params) ELSE <<>>

\* An answer to b can be read back, and the answer to a batch has a result for
\* each of its calls, as the CCU matches them by position.
ReadsBack(b, answer) ==
  LET call == parseXml(b)
      reply == parseValue(answer)
  IN  /\ reply # Unreadable
      /\ call.method = "system.multicall" =>
           reply[1] = "array"
           /\ Len(reply[2]) = Len(Default(Element(call.params, 1), Arr(<<>>))[2])

\* A fault is read as a struct of its two members.
FaultReadsBack(answer) ==
  LET reply == parseValue(answer)
  IN  reply[1] = "object" /\ DOMAIN reply[2] = {"faultCode", "faultString"}
=============================================================================
