---------------------------- MODULE MCPlatform -----------------------------
(***************************************************************************)
(* The instance of Platform that TLC checks.                               *)
(***************************************************************************)
EXTENDS Platform

Map(kind, id, subtype) == [kind |-> kind, id |-> id, subtype |-> subtype]

switch  == Map("channel", "switch", "none")
outlet  == Map("channel", "switch", "outlet")
dimmer  == Map("channel", "dimmer", "none")
boiler  == Map("variable", "boiler", "humidity")
scene   == Map("program", "scene", "none")
holiday == Map("program", "holiday", "none")

MCIds == {"switch", "dimmer", "boiler", "scene", "holiday"}
MCSubtypes == {"none", "outlet", "humidity"}

\* An empty configuration, a full one, one that lost and changed accessories,
\* and two that name an accessory twice.
MCConfigs ==
  {<<>>, <<switch, dimmer, boiler, scene, holiday>>, <<dimmer, scene>>,
   <<outlet, switch, boiler>>, <<boiler, scene, scene>>}

=============================================================================
