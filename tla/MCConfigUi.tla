----------------------------- MODULE MCConfigUi -----------------------------
(* A channel, a variable and a program; a configuration that has none of the
   plugin's blocks, and one whose bridges hold one item each; a backup of two
   instances, one of whose items has an unknown instance and a warning, and a
   clean one without instances.  A backup that cannot be read does what a
   request does that fails (CallFails), and is left out of the instance.      *)
EXTENDS ConfigUi, TLC

MCItems == {"CH", "VAR", "PRG"}
MCKindOf == [i \in MCItems |-> CASE i = "CH" -> "channel" [] i = "VAR" -> "variable" [] i = "PRG" -> "program"]
MCHosts == {"", "ccu1"}
MCIdentities == {"id1"}
MCOthers == {"none", "foreign"}

\* As the schema form writes it, without a bridge of its own.
Main == [name |-> "own", ccu |-> "ccu1", items |-> "CH" :> "rich"]
Child == [bridge |-> "id0", name |-> "child", ccu |-> "ccu1",
          items |-> "VAR" :> "rich"]

MCSaved == {[others |-> "foreign", ours |-> <<>>],
            [others |-> "foreign", ours |-> <<Main, Child>>]}

Mapping(service, instance, entry) == [service |-> service, instance |-> instance, entry |-> entry]

Rooms == [entries |-> <<"json">>, ccu |-> "ccu1", instances |-> <<"i1", "i2">>,
          mappings |-> ("CH" :> Mapping("known", "i2", "rich"))
                       @@ ("VAR" :> Mapping("unknown", "gone", "rich"))]
Flat == [entries |-> <<"json", "broken">>, ccu |-> "ccu1", instances |-> <<>>,
         mappings |-> "PRG" :> Mapping("none", "none", "plain")]

MCBackups == {Rooms, Flat}
=============================================================================
