----------------------------- MODULE TestEvents -----------------------------
(***************************************************************************)
(* The test event provider (packages/events/src/test-event-provider.ts):   *)
(* every emission is delivered by a timer, a keyed one can be cancelled    *)
(* until then, and stop() drops what is pending.  One event.               *)
(***************************************************************************)
EXTENDS Integers

CONSTANTS
  MaxEmissions,     \* bound: calls of emit()
  EventKeys,        \* idempotency keys
  ProcessingDelay,  \* processingDelay, in ticks
  MaxDelay,         \* bound: the delay an emission asks for
  NoKey

Emissions == 1 .. MaxEmissions

ASSUME EmissionAssumption ==
  /\ MaxEmissions \in Nat /\ ProcessingDelay \in Nat /\ MaxDelay \in Nat
  /\ NoKey \notin EventKeys \union Emissions

VARIABLES
  emission,            \* per emission: what its timer and its subscription are doing
  pendingTimeouts,     \* the timers the provider knows
  pendingDelayedByKey, \* per key: the emission cancel() would find
  handlers             \* how many handlers are registered

testVars == <<emission, pendingTimeouts, pendingDelayedByKey, handlers>>

\* `alone` is history: no other emission of its key was pending while it was.
Unemitted == [stage |-> "none", key |-> NoKey, left |-> 0, alone |-> TRUE]

TestInit ==
  /\ emission = [e \in Emissions |-> Unemitted]
  /\ pendingTimeouts = {}
  /\ pendingDelayedByKey = [k \in EventKeys |-> NoKey]
  /\ handlers = 0

Scheduled == {e \in Emissions : emission[e].stage = "scheduled"}

\* Names the key for an emission, or takes the name from it.
Named(k, e) ==
  IF k = NoKey THEN pendingDelayedByKey ELSE [pendingDelayedByKey EXCEPT ![k] = e]

EmitDelayed(e, k, delay) ==
  LET sharers == {x \in Scheduled : k # NoKey /\ emission[x].key = k} IN
  /\ emission[e].stage = "none" /\ \A x \in 1 .. e - 1 : emission[x].stage # "none"
  /\ emission' = [x \in Emissions |->
       IF x = e THEN [stage |-> "scheduled", key |-> k, left |-> delay + ProcessingDelay,
                      alone |-> sharers = {}]
       ELSE [emission[x] EXCEPT !.alone = @ /\ x \notin sharers]]
  /\ pendingTimeouts' = pendingTimeouts \union {e}
  /\ pendingDelayedByKey' = Named(k, e)
  /\ UNCHANGED handlers

\* deliver(): without handlers the subscription resolves at once.
Delivered == IF handlers = 0 THEN "resolved" ELSE "handling"

\* Mutant: a delivered emission keeps its key.
FireKeepingKey(e) ==
  /\ e \in Scheduled /\ emission[e].left = 0
  /\ emission' = [emission EXCEPT ![e].stage = Delivered]
  /\ pendingTimeouts' = pendingTimeouts \ {e}
  /\ UNCHANGED <<pendingDelayedByKey, handlers>>

\* The timer takes the name from its key, whichever emission has it now, and delivers.
Fire(e) ==
  /\ e \in Scheduled /\ emission[e].left = 0
  /\ emission' = [emission EXCEPT ![e].stage = Delivered]
  /\ pendingTimeouts' = pendingTimeouts \ {e}
  /\ pendingDelayedByKey' = Named(emission[e].key, NoKey)
  /\ UNCHANGED handlers

\* The first handler settles the subscription; what the others do is only logged.
HandlerSettles(e) ==
  /\ emission[e].stage = "handling"
  /\ \E outcome \in {"resolved", "rejected"} :
       emission' = [emission EXCEPT ![e].stage = outcome]
  /\ UNCHANGED <<pendingTimeouts, pendingDelayedByKey, handlers>>

Cleared(timers) ==
  [e \in Emissions |-> IF e \in timers THEN [emission[e] EXCEPT !.stage = "cleared"] ELSE emission[e]]

\* cancel() of a key that has an emission; for another it answers false.
CancelKey(k) ==
  LET e == pendingDelayedByKey[k] IN
  /\ e # NoKey
  /\ emission' = Cleared({e})
  /\ pendingDelayedByKey' = Named(k, NoKey)
  /\ pendingTimeouts' = pendingTimeouts \ {e}
  /\ UNCHANGED handlers

\* stop(): what is pending never settles; start() only raises a flag that nobody reads.
StopTests ==
  /\ emission' = Cleared(pendingTimeouts)
  /\ pendingTimeouts' = {}
  /\ pendingDelayedByKey' = [k \in EventKeys |-> NoKey]
  /\ UNCHANGED handlers

SubscribeHandler ==
  /\ handlers < 2
  /\ handlers' = handlers + 1
  /\ UNCHANGED <<emission, pendingTimeouts, pendingDelayedByKey>>

\* Timers may be late: time does not wait for those that are due.
TimersTick ==
  /\ \E e \in Scheduled : emission[e].left > 0
  /\ emission' = [e \in Emissions |->
       IF emission[e].left > 0 THEN [emission[e] EXCEPT !.left = @ - 1] ELSE emission[e]]
  /\ UNCHANGED <<pendingTimeouts, pendingDelayedByKey, handlers>>

TestNext ==
  \/ \E e \in Emissions :
       \/ \E k \in EventKeys \union {NoKey}, delay \in 0 .. MaxDelay : EmitDelayed(e, k, delay)
       \/ Fire(e) \/ HandlerSettles(e)
  \/ \E k \in EventKeys : CancelKey(k)
  \/ StopTests \/ SubscribeHandler \/ TimersTick

TestSpec == TestInit /\ [][TestNext]_testVars

-----------------------------------------------------------------------------
(* Properties. *)

\* cancel() and stop() reach what is pending and nothing else: the provider knows exactly
\* the armed timers (getPendingCount), a key names an emission of its own that has not been
\* delivered, and a keyed emission can be cancelled until it is delivered, unless another
\* of its key was pending with it: then the earlier timer takes the later one's name.
PendingIsKnown ==
  /\ pendingTimeouts = Scheduled
  /\ \A k \in EventKeys :
       LET e == pendingDelayedByKey[k] IN e # NoKey => e \in Scheduled /\ emission[e].key = k
  /\ \A e \in Scheduled :
       LET k == emission[e].key IN k # NoKey /\ emission[e].alone => pendingDelayedByKey[k] = e
=============================================================================
