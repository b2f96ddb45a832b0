-------------------------- MODULE MCTimedHandlers --------------------------
(* The instance of TimedHandlers that TLC checks.                          *)
EXTENDS TimedHandlers
=============================================================================
