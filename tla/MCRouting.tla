------------------------------ MODULE MCRouting ------------------------------
(***************************************************************************)
(* The instance of Routing that TLC checks: a HomeMatic IP device that the *)
(* CCU lists without a prefix and not with all of its channels, and a      *)
(* group that it lists with a prefix and no channel of.  The thermostat    *)
(* has the form of address that docs/INTEGRATION.md gives.                 *)
(***************************************************************************)
EXTENDS Routing, TLC

MCHome == "0001D7" :> "HmIP-RF" @@ "INT01" :> "VirtualDevices"
MCPrefix == "0001D7" :> NoPrefix @@ "INT01" :> "VirtualDevices"
MCNumbered == "0001D7" :> {3} @@ "INT01" :> {}
MCBegins == "0001D7" :> "other" @@ "INT01" :> "other" @@ "HmIP" :> "HmIP"

\* The CCU names its interfaces as the plugin does.
MCContains == [name \in {} |-> name]

Address(p, s, c) == [prefix |-> p, serial |-> s, channel |-> c]

\* A thermostat and a lamp of one device, and a group with its prefix.
MCConfigured ==
  "thermostat" :> Address("HmIP", "0001D7", 1) @@ "lamp" :> Address(NoPrefix, "0001D7", 3)
  @@ "group" :> Address("VirtualDevices", "INT01", 1)
MCKind == "thermostat" :> "thermostat" @@ "lamp" :> "colorTemp" @@ "group" :> "switch"
=============================================================================
