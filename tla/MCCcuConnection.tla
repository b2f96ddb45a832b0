-------------------------- MODULE MCCcuConnection --------------------------
(***************************************************************************)
(* The instance of CcuConnection that TLC checks, and a claim of the       *)
(* repository's documentation that the code does not keep.                 *)
(***************************************************************************)
EXTENDS CcuConnection

\* docs/ARCHITECTURE.md, Lifecycle 4: "On shutdown, CcuClient.stop()
\* unregisters from every interface, closes the EventServer, ...".  Stated
\* once both start() and stop() have returned.
ShutdownClosesServer ==
  stopPhase \in {"skipped", "stopped"} /\ startPhase \in {"running", "failed"}
    => server = "down" /\ ~timer
=============================================================================
