------------------------------- MODULE MCHttp -------------------------------
(* One global guard and interceptor, one more of each, an array of one; a    *)
(* path of every kind of route; two workflows of the same groups, one of     *)
(* whose consumers has no handler for the second step.                       *)
EXTENDS Http

CONSTANTS Gg, Gx, Ga, Ig, Ix, Ia, S1, S2, S3, S4, E1, E2

MCGlobal == [k \in Kinds |-> IF k = "guards" THEN <<Gg>> ELSE <<Ig>>]
MCExtra == [k \in Kinds |-> IF k = "guards" THEN {Gx} ELSE {Ix}]
MCGiven == [k \in Kinds |-> IF k = "guards" THEN <<Ga>> ELSE <<Ia>>]

Plain == [method |-> "GET", static |-> FALSE, schema |-> "none", defer |-> FALSE, flows |-> FALSE,
          named |-> TRUE]

MCRouteKinds ==
  {Plain, [Plain EXCEPT !.static = TRUE], [Plain EXCEPT !.defer = TRUE, !.flows = TRUE],
   [Plain EXCEPT !.method = "POST", !.schema = "body", !.named = FALSE]}

MCGroups == <<[parallel |-> FALSE, steps |-> <<S1, S2>>],
              [parallel |-> TRUE, steps |-> <<S3, S4>>]>>

MCHandled == [e \in {E1, E2} |-> IF e = E1 THEN {S1, S2, S3, S4} ELSE {S1, S3, S4}]
=============================================================================
