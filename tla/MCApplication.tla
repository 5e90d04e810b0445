--------------------------- MODULE MCApplication ---------------------------
(* Three providers in every graph whose dependency lists have at most two   *)
(* entries, without events; and a few graphs with a budget of them.         *)
EXTENDS Application

CONSTANTS A, B, C, L, E, W, T, Budget

Classes == {A, B, C, L, E, W}
MCArity == [s \in Classes |-> IF s = C THEN 1 ELSE 0]

\* Dependency lists of at most two different keys, in one order.
Lists == {SetToSeq(K) : K \in {S \in SUBSET {A, B, C, T} : Cardinality(S) <= 2}}

Wiring(deps, token, late, eager, async, events) ==
  [deps |-> deps, token |-> token, eager |-> eager, async |-> async, installed |-> TRUE,
   controller |-> late, consumer |-> <<>>, matching |-> TRUE, uses |-> {"events"},
   factory |-> FALSE, handling |-> TRUE, budget |-> events]

\* A may be left out; C needs one argument.
EveryGraph ==
  {Wiring(deps, token, <<A>>, {B}, {}, 0) :
     deps \in [{A, B, C} -> Lists] \cup [{B, C} -> Lists], token \in BOOLEAN}

Chain == (A :> <<B>>) @@ (B :> <<C>>) @@ (C :> <<T>>)
Fork == (A :> <<B, C>>) @@ (B :> <<T>>) @@ (C :> <<T>>)
Shared == (A :> <<B, C>>) @@ (B :> <<C>>) @@ (C :> <<T>>)
Twice == (A :> <<B, B>>) @@ (B :> <<C>>) @@ (C :> <<T>>)

Full == [Wiring(Chain, TRUE, <<A>>, {B}, {}, Budget) EXCEPT !.uses = Systems]

StudiedGraphs ==
  {Wiring(deps, TRUE, <<T>>, {}, async, Budget) :
     deps \in {Chain, Fork, Shared, Twice}, async \in {{}, {C}}}
  \cup {Wiring(Chain, TRUE, <<A>>, {B}, {C}, Budget),
        [Full EXCEPT !.installed = FALSE], [Full EXCEPT !.matching = FALSE],
        [Full EXCEPT !.consumer = <<W>>]}
  \cup {[Full EXCEPT !.factory = factory, !.handling = handling] :
          factory, handling \in BOOLEAN}

MCWirings == EveryGraph \cup StudiedGraphs
=============================================================================
