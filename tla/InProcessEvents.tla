-------------------------- MODULE InProcessEvents --------------------------
(***************************************************************************)
(* The in-process event provider (packages/events/src): emit() with an     *)
(* optional delay and idempotency key (in-process-orchestrator.ts), the    *)
(* delivery to the handlers (event-delivery.ts) and the subscription that  *)
(* the emitter listens to or awaits (event-subscription.ts).               *)
(*                                                                         *)
(* All emissions are of one event: idempotency keys are global and nothing *)
(* else relates two events.  A chained emission, made by a handler through *)
(* its context, is an emission without a key.  Time advances in ticks that *)
(* age the keys and the timers; due timers run before the clock moves on,  *)
(* as they do in the event loop.                                           *)
(***************************************************************************)
EXTENDS Integers, FiniteSets

CONSTANTS
  Keys,         \* idempotency keys
  MaxEmissions, \* bound: calls of emit() in a behaviour
  MaxHandlers,  \* bound: handlers subscribed to the event
  MaxStops,     \* bound: calls of stop()
  Delays,       \* the delays callers ask for, in ticks
  TTL,          \* idempotencyKeyTtlMs, in ticks
  Throws,       \* emissions whose subscribe and catch callbacks throw
  None

Emissions == 1 .. MaxEmissions

ASSUME EventAssumption ==
  /\ MaxEmissions \in Nat /\ MaxHandlers \in Nat /\ MaxStops \in Nat
  /\ Delays \subseteq Nat \ {0}
  /\ TTL \in Nat
  /\ Throws \subseteq Emissions
  /\ None \notin Keys \union Nat

VARIABLES
  started,       \* the provider's flag
  interval,      \* is the interval that cleans up expired keys alive?
  handlers,      \* how many handlers the registry holds
  keyOf,         \* per emission: its idempotency key, or None
  subscription,  \* per emission: "unsent", "pending" or how it was settled
  timers,        \* pendingTimeouts: ticks until the delivery of an emission, or None
  delayedByKey,  \* pendingDelayedByKey: the emission a key stands for, or None
  keyAge,        \* processedIdempotencyKeys: the age of a known key, or None
  tasks,         \* handler calls that have not ended: <<emission, position>>
  waiter,        \* per emission: what became of a call of toPromise()
  stops,         \* how often stop() was called
  stopFailed     \* did a call of stop() reject?

provider == <<started, interval, handlers, stops, stopFailed>>
vars == <<started, interval, handlers, keyOf, subscription, timers, delayedByKey,
          keyAge, tasks, waiter, stops, stopFailed>>

Resolved == {"result", "undefined"}
Rejected == {"error", "cancelled", "stopped"}
Settled == Resolved \union Rejected
Waiting == {"open", "timed"}

Init ==
  /\ started = FALSE
  /\ interval = TRUE
  /\ handlers = 0
  /\ keyOf = [e \in Emissions |-> None]
  /\ subscription = [e \in Emissions |-> "unsent"]
  /\ timers = [e \in Emissions |-> None]
  /\ delayedByKey = [k \in Keys |-> None]
  /\ keyAge = [k \in Keys |-> None]
  /\ tasks = {}
  /\ waiter = [e \in Emissions |-> "none"]
  /\ stops = 0
  /\ stopFailed = FALSE

-----------------------------------------------------------------------------
(* The subscription. *)

\* _resolve and _reject of the subscriptions in E: ignored when settled; a callback
\* that throws keeps them from reaching the promise behind toPromise().
Settle(E, outcome) ==
  LET first == {e \in E : subscription[e] = "pending"} IN
  /\ subscription' = [e \in Emissions |-> IF e \in first THEN outcome ELSE subscription[e]]
  /\ waiter' = [e \in Emissions |->
                  IF e \in first \ Throws /\ waiter[e] \in Waiting
                  THEN IF outcome \in Resolved THEN "value" ELSE "error"
                  ELSE waiter[e]]

\* Mutant: toPromise() stores its handlers without a look at the state.
ToPromiseBlind(e, timed) ==
  /\ subscription[e] # "unsent" /\ waiter[e] = "none"
  /\ waiter' = [waiter EXCEPT ![e] = IF timed THEN "timed" ELSE "open"]
  /\ UNCHANGED <<provider, keyOf, subscription, timers, delayedByKey, keyAge, tasks>>

\* The emitter awaits the outcome, with or without a timeout.
ToPromise(e, timed) ==
  /\ subscription[e] # "unsent" /\ waiter[e] = "none"
  /\ waiter' = [waiter EXCEPT ![e] =
                  IF subscription[e] \in Resolved THEN "value"
                  ELSE IF subscription[e] \in Rejected THEN "error"
                  ELSE IF timed THEN "timed" ELSE "open"]
  /\ UNCHANGED <<provider, keyOf, subscription, timers, delayedByKey, keyAge, tasks>>

\* The timeout of toPromise(): it fires once, and rejects an unsettled wait only.
ToPromiseTimeout(e) ==
  /\ waiter[e] = "timed"
  /\ waiter' = [waiter EXCEPT ![e] = IF subscription[e] = "pending" THEN "timeout" ELSE "open"]
  /\ UNCHANGED <<provider, keyOf, subscription, timers, delayedByKey, keyAge, tasks>>

-----------------------------------------------------------------------------
(* Emitting and delivering. *)

Subscribe ==
  /\ handlers < MaxHandlers
  /\ handlers' = handlers + 1
  /\ UNCHANGED <<started, interval, keyOf, subscription, timers, delayedByKey, keyAge,
                 tasks, waiter, stops, stopFailed>>

IsNext(e) == subscription[e] = "unsent" /\ \A d \in 1 .. e - 1 : subscription[d] # "unsent"

HandlerTasks(e) == {e} \X (1 .. handlers)

Known(k) == k # None /\ keyAge[k] # None

\* The body of emit() up to the duplicate check, shared by its three outcomes.
EmitAs(e, k, state) ==
  /\ IsNext(e)
  /\ keyOf' = [keyOf EXCEPT ![e] = k]
  /\ subscription' = [subscription EXCEPT ![e] = state]

MarkProcessed(k) == keyAge' = IF k = None THEN keyAge ELSE [keyAge EXCEPT ![k] = 0]

EmitDuplicate(e, k) ==
  /\ Known(k)
  /\ EmitAs(e, k, "undefined")
  /\ UNCHANGED <<provider, timers, delayedByKey, keyAge, tasks, waiter>>

EmitNow(e, k) ==
  /\ ~Known(k)
  /\ EmitAs(e, k, IF handlers = 0 THEN "undefined" ELSE "pending")
  /\ MarkProcessed(k)
  /\ tasks' = tasks \union HandlerTasks(e)
  /\ UNCHANGED <<provider, timers, delayedByKey, waiter>>

EmitDelayed(e, k, delay) ==
  /\ ~Known(k)
  /\ EmitAs(e, k, "pending")
  /\ MarkProcessed(k)
  /\ timers' = [timers EXCEPT ![e] = delay]
  /\ delayedByKey' = IF k = None THEN delayedByKey ELSE [delayedByKey EXCEPT ![k] = e]
  /\ UNCHANGED <<provider, tasks, waiter>>

\* The timer of a delayed emission: whatever entry its key has is deleted.
DeliverDelayed(e) ==
  /\ timers[e] = 0
  /\ timers' = [timers EXCEPT ![e] = None]
  /\ delayedByKey' = IF keyOf[e] = None THEN delayedByKey
                     ELSE [delayedByKey EXCEPT ![keyOf[e]] = None]
  /\ tasks' = tasks \union HandlerTasks(e)
  /\ IF handlers = 0 THEN Settle({e}, "undefined") ELSE UNCHANGED <<subscription, waiter>>
  /\ UNCHANGED <<provider, keyOf, keyAge>>

\* A handler call ends; only the first handler's outcome reaches the subscription.
HandlerEnds(e, i, outcome) ==
  /\ <<e, i>> \in tasks
  /\ tasks' = tasks \ {<<e, i>>}
  /\ IF i = 1 THEN Settle({e}, outcome) ELSE UNCHANGED <<subscription, waiter>>
  /\ UNCHANGED <<provider, keyOf, timers, delayedByKey, keyAge>>

HandlerReturns(e, i) == HandlerEnds(e, i, "result")
HandlerThrows(e, i) == HandlerEnds(e, i, "error")

-----------------------------------------------------------------------------
(* Cancelling, expiry and the life of the provider. *)

CallbackThrows(e) == e \in Throws /\ subscription[e] = "pending"

\* Mutant: the timer is left running.
CancelKeepingTimer(k) ==
  LET e == delayedByKey[k] IN
  /\ e # None
  /\ delayedByKey' = [delayedByKey EXCEPT ![k] = None]
  /\ Settle({e}, "cancelled")
  /\ keyAge' = IF CallbackThrows(e) THEN keyAge ELSE [keyAge EXCEPT ![k] = None]
  /\ UNCHANGED <<provider, keyOf, timers, tasks>>

\* cancel() of a key with a pending delayed event.  When the emitter's callback throws,
\* the rejection leaves cancel() before the idempotency key is forgotten.
Cancel(k) ==
  LET e == delayedByKey[k] IN
  /\ e # None
  /\ timers' = [timers EXCEPT ![e] = None]
  /\ delayedByKey' = [delayedByKey EXCEPT ![k] = None]
  /\ Settle({e}, "cancelled")
  /\ keyAge' = IF CallbackThrows(e) THEN keyAge ELSE [keyAge EXCEPT ![k] = None]
  /\ UNCHANGED <<provider, keyOf, tasks>>

\* Mutant: keys are forgotten when their age reaches the TTL.
ExpiredEarly == {k \in Keys : keyAge[k] # None /\ keyAge[k] >= TTL}

Expired == {k \in Keys : keyAge[k] # None /\ keyAge[k] > TTL}

CleanupExpiredKeys ==
  /\ interval
  /\ Expired # {}
  /\ keyAge' = [k \in Keys |-> IF k \in Expired THEN None ELSE keyAge[k]]
  /\ UNCHANGED <<provider, keyOf, subscription, timers, delayedByKey, tasks, waiter>>

Start ==
  /\ started' = TRUE
  /\ UNCHANGED <<interval, handlers, keyOf, subscription, timers, delayedByKey, keyAge,
                 tasks, waiter, stops, stopFailed>>

\* What the loop of stop() reaches: every entry, or, in some order of the entries,
\* those up to the first one whose callback throws, which leaves stop().
ReachedByStop ==
  LET entries == {delayedByKey[k] : k \in Keys} \ {None}
      throwers == {e \in entries : CallbackThrows(e)}
  IN  IF throwers = {} THEN {entries}
      ELSE {E \in SUBSET entries : Cardinality(E \cap throwers) = 1}

Stop ==
  /\ stops < MaxStops
  /\ stops' = stops + 1
  /\ timers' = [e \in Emissions |-> None]
  /\ \E reached \in ReachedByStop :
       LET failed == \E e \in reached : CallbackThrows(e) IN
       /\ Settle(reached, "stopped")
       /\ stopFailed' = (stopFailed \/ failed)
       /\ delayedByKey' = IF failed THEN delayedByKey ELSE [k \in Keys |-> None]
       /\ keyAge' = IF failed THEN keyAge ELSE [k \in Keys |-> None]
       /\ interval' = (interval /\ failed)
       /\ started' = (started /\ failed)
  /\ UNCHANGED <<handlers, keyOf, tasks>>

\* A tick of the clock; a timer that is due runs first.
Tick ==
  /\ 0 \notin {timers[e] : e \in Emissions}
  /\ timers' = [e \in Emissions |-> IF timers[e] = None THEN None ELSE timers[e] - 1]
  /\ keyAge' = [k \in Keys |-> IF keyAge[k] = None \/ keyAge[k] > TTL THEN keyAge[k]
                               ELSE keyAge[k] + 1]
  /\ UNCHANGED <<provider, keyOf, subscription, delayedByKey, tasks, waiter>>

Emit(e) ==
  \E k \in Keys \union {None} :
    \/ EmitDuplicate(e, k)
    \/ EmitNow(e, k)
    \/ \E delay \in Delays : EmitDelayed(e, k, delay)

HandlerSettles(e, i) == HandlerReturns(e, i) \/ HandlerThrows(e, i)

Next ==
  \/ \E e \in Emissions :
       \/ Emit(e)
       \/ \E timed \in BOOLEAN : ToPromise(e, timed)
       \/ ToPromiseTimeout(e)
       \/ DeliverDelayed(e)
       \/ \E i \in 1 .. MaxHandlers : HandlerSettles(e, i)
  \/ \E k \in Keys : Cancel(k)
  \/ CleanupExpiredKeys
  \/ Subscribe
  \/ Start
  \/ Stop
  \/ Tick

Spec == Init /\ [][Next]_vars

\* Time passes, timers fire and handlers settle.  The last is an assumption on the
\* application, whose handlers the provider never interrupts.
Fairness ==
  /\ WF_vars(Tick)
  /\ WF_vars(\E e \in Emissions : \/ DeliverDelayed(e) \/ ToPromiseTimeout(e)
                                  \/ \E i \in 1 .. MaxHandlers : HandlerSettles(e, i))

FairSpec == Spec /\ Fairness

-----------------------------------------------------------------------------
(* Properties. *)

\* Types: what emit(), the timers, cancel(), stop() and the handlers leave in the maps.
TypeOK ==
  /\ started \in BOOLEAN /\ interval \in BOOLEAN /\ stopFailed \in BOOLEAN
  /\ handlers \in 0 .. MaxHandlers
  /\ stops \in 0 .. MaxStops
  /\ keyOf \in [Emissions -> Keys \union {None}]
  /\ subscription \in [Emissions -> Settled \union {"unsent", "pending"}]
  /\ timers \in [Emissions -> Nat \union {None}]
  /\ delayedByKey \in [Keys -> Emissions \union {None}]
  /\ keyAge \in [Keys -> Nat \union {None}]
  /\ tasks \subseteq Emissions \X (1 .. MaxHandlers)
  /\ waiter \in [Emissions -> Waiting \union {"none", "value", "error", "timeout"}]

\* While the timer of a keyed emission runs, its key stands for that emission, so
\* cancel() and stop() reach it (pendingDelayedByKey).  It takes delays no longer than
\* the TTL: see DelaysWithinTTL.
DelaysWithinTTL == \A delay \in Delays : delay <= TTL
DelayedIsCancellable ==
  DelaysWithinTTL =>
    \A e \in Emissions :
      timers[e] # None /\ keyOf[e] # None => delayedByKey[keyOf[e]] = e

\* cancel() and stop() only ever settle subscriptions of emissions that wait: no handler
\* of a cancelled or stopped emission runs, and none ran before.
Phase(e) ==
  IF <<e, 1>> \in tasks THEN "handled"
  ELSE IF subscription[e] = "unsent" THEN "unsent"
  ELSE IF subscription[e] \in {"cancelled", "stopped"} THEN "withdrawn"
  ELSE IF subscription[e] \in Settled THEN "answered"
  ELSE IF timers[e] # None THEN "waiting"
  ELSE "dropped"

Promise == INSTANCE EventRequest WITH phase <- [e \in Emissions |-> Phase(e)]

\* The provider is an implementation of the event request: each emission is handled at
\* most once, settled at most once, and never handled once it is withdrawn.
ImplementsRequest == Promise!Spec

\* Again and again nothing is left open: an emission that is in a handler's hands, or
\* that has a key, is settled in the end, unless a stop() was cut short by a callback
\* (deliver(), cancel(), stop()); and whoever awaits a settled subscription is told,
\* unless a callback of the same subscription threw (_resolve and toPromise()).
Answered == []<>(\A e \in Emissions :
  /\ subscription[e] = "pending" => (keyOf[e] = None /\ <<e, 1>> \notin tasks) \/ stopFailed
  /\ subscription[e] \in Settled /\ waiter[e] \in Waiting => e \in Throws)
=============================================================================
