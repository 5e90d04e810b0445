--------------------------- MODULE MCBullWorkflow ---------------------------
(* Two processes, two executions of one workflow: with a key one step,       *)
(* without one a step before a group of two parallel steps; a and b can be   *)
(* undone, b can outlast its timeout, and nobody handles d.                  *)
EXTENDS BullWorkflow, TLC

CONSTANTS k1, f1, f2

TwoPlaces ==
  (k1 :> <<<<"a">>>>) @@ (f1 :> <<<<"a">>, <<"b", "c">>>>) @@ (f2 :> <<<<"a", "d">>>>)
=============================================================================
