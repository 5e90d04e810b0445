---------------------------- MODULE EventRequest ----------------------------
(***************************************************************************)
(* What an event provider promises about one emission, whatever queue or   *)
(* timer carries it: the emitter's subscription is settled at most once,   *)
(* the first handler runs at most once for it, and an emission that was    *)
(* withdrawn while it waited is never handled.  It also says what is not   *)
(* promised: an emission that waits may be dropped without an answer.      *)
(***************************************************************************)
CONSTANT Emissions

VARIABLE phase

Phases == {"unsent", "waiting", "handled", "answered", "withdrawn", "dropped"}

Moves(e, from, to) ==
  /\ phase[e] \in from
  /\ phase' = [phase EXCEPT ![e] = to]

Init == phase = [e \in Emissions |-> "unsent"]

Schedule(e) == Moves(e, {"unsent"}, "waiting")
Handle(e) == Moves(e, {"unsent", "waiting"}, "handled")
\* The handler's outcome, or no outcome at all: nobody listens, or a duplicate.
Answer(e) == Moves(e, {"unsent", "waiting", "handled"}, "answered")
Withdraw(e) == Moves(e, {"waiting", "dropped"}, "withdrawn")

\* Stopping a provider takes away any number of waiting emissions at once.
StopWaiting ==
  \E gone \in SUBSET {e \in Emissions : phase[e] = "waiting"},
     told \in SUBSET {e \in Emissions : phase[e] \in {"waiting", "dropped"}} :
    phase' = [e \in Emissions |-> IF e \in told THEN "withdrawn"
                                  ELSE IF e \in gone THEN "dropped"
                                  ELSE phase[e]]

Next ==
  \/ \E e \in Emissions : Schedule(e) \/ Handle(e) \/ Answer(e) \/ Withdraw(e)
  \/ StopWaiting

Spec == Init /\ [][Next]_phase
=============================================================================
