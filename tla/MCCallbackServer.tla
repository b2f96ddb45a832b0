-------------------------- MODULE MCCallbackServer --------------------------
(* Two requests of fourteen bodies: single events, a batch with failing and
   nested calls, and bodies that are unreadable, too long or no POST.  Two
   listeners share a datapoint, one of them throws, a third has its own.     *)
EXTENDS CallbackServer, XmlRpc

MCListeners == {"throws", "shares", "other"}
MCThrowing == {"throws"}
MCKeyOf == [l \in MCListeners |-> <<Str("CH"), Str(IF l = "other" THEN "LEVEL" ELSE "STATE")>>]

String(s) == [tag |-> "string", text |-> s]
Struct(members) == [tag |-> "struct", members |-> members]
Array(items) == [tag |-> "array", items |-> items]
Member(name, value) == [name |-> name, value |-> value]

EventOf(datapoint, value) == <<String("cb"), [tag |-> "untyped", text |-> "CH"], String(datapoint), value>>
Call(method, params) == Struct(<<Member("methodName", String(method)), Member("params", params)>>)
EventCall(datapoint, value) == Call("event", Array(EventOf(datapoint, value)))

On == [tag |-> "boolean", text |-> "1"]
Half == [tag |-> "double", text |-> "0.5"]
NaN == [tag |-> "double", text |-> ""]

Body(method, params, bytes) ==
  [verb |-> "POST", prolog |-> "xml", complete |-> TRUE, method |-> method, params |-> params, bytes |-> bytes]

Batch(calls) == Body("system.multicall", <<Array(calls)>>, 2)

\* A batch whose first, second and third call fail: no name, parameters that are
\* no array, a nested batch that is none.
Mixed == Batch(<<Struct(<<Member("params", Array(<<>>))>>),
                 Call("event", Struct(<<>>)),
                 Call("system.multicall", Array(<<[tag |-> "i4", text |-> "1"]>>)),
                 EventCall("STATE", On), EventCall("LEVEL", Half),
                 Call("system.multicall", Array(<<Array(<<EventCall("STATE", Half)>>)>>)),
                 Call("system.listMethods", [tag |-> "nil", text |-> ""]),
                 Struct(<<Member("methodName", String("event")),
                          Member("params", Array(<<>>)),
                          Member("params", Array(EventOf("STATE", On)))>>)>>)

MCBodies == {
  Body("event", EventOf("STATE", On), 1),
  Body("event", EventOf("GONE", On), 1),
  Mixed,
  Batch(<<EventCall("STATE", On), EventCall("STATE", NaN)>>),
  Body("system.multicall", <<Struct(<<>>)>>, 1),
  Body("system.multicall", <<>>, 1),
  Body("system.listMethods", <<>>, 1),
  Body("listDevices", <<String("cb")>>, 1),
  Body("newDevices", <<String("cb"), Array(<<>>)>>, 1),
  Body("reportValueUsage", <<[tag |-> "unheard", text |-> "of"]>>, 1),
  [Body("event", EventOf("STATE", On), 1) EXCEPT !.prolog = "dtd"],
  [Body("event", EventOf("LEVEL", Half), 2) EXCEPT !.complete = FALSE],
  Body("event", EventOf("LEVEL", Half), 3),
  [Body("event", EventOf("STATE", On), 1) EXCEPT !.verb = "GET"]}

\* Every answer that the server gives to a body can be read back: a response as a value,
\* which for a batch has a result for each of its calls, and a fault as its two members.
RepliesReadBack ==
  \A r \in Requests :
    /\ response[r].kind = "response" => ReadsBack(body[r], response[r].value)
    /\ response[r].kind = "fault" => FaultReadsBack(response[r].value)

=============================================================================
