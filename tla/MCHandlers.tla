---------------------------- MODULE MCHandlers -----------------------------
(***************************************************************************)
(* The instance of Handlers that TLC checks, and a claim of the repository *)
(* that the code does not keep.                                            *)
(***************************************************************************)
EXTENDS Handlers

\* src/util/sanitize.ts, percentToLevelFraction: "convert a HomeKit percentage
\* (0..100) into the CCU's native 0..1 LEVEL representation".
PercentageIsWritten ==
  \A w \in writes : w.char \in {"Brightness", "TargetPosition"} => w.raw = w.asked

=============================================================================
