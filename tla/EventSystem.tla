---------------------------- MODULE EventSystem ----------------------------
(***************************************************************************)
(* Events as an application sees them: createEventSystem() with its late   *)
(* and early handlers (packages/events/src/events.ts), or the consumers of *)
(* an application (packages/core/src/event-coordinator.ts), whose startup  *)
(* is in Application; the handlers wrapped around an application's code    *)
(* with schemas and hooks; the in-memory tracker of processed events       *)
(* (event-idempotency.ts) that a handler may put around its work; and the  *)
(* events that handlers emit, and may wait for.                            *)
(*                                                                         *)
(* The provider is the queue of BullEvents, seen from here: a subscription *)
(* takes time and may fail, a worker has a number of slots, failed events  *)
(* are tried again, and so are those whose attempt has stalled although it *)
(* may still run.  All messages are of one event.                          *)
(***************************************************************************)
EXTENDS Integers, FiniteSets, SequencesExt

CONSTANTS
  Handlers,     \* calls of onEvent()
  MaxMessages,  \* bound: emissions in a behaviour
  MaxPlain,     \* bound: those of a behaviour with createEventSystem
  MaxAttempts,  \* the attempts of a message
  Slots,        \* the concurrency of the worker
  MaxSize,      \* maxSize of the tracker
  MaxStarts,    \* bound: calls of start() that find the system at rest
  MaxLeaves,    \* bound: how often a message's mark gets too old or is cleared
  None

Messages == 1 .. MaxMessages
Attempts == 1 .. MaxAttempts

ASSUME EventSystemAssumption ==
  /\ MaxMessages \in Nat /\ MaxPlain \in Nat /\ MaxAttempts \in Nat \ {0}
  /\ Slots \in Nat \ {0} /\ MaxSize \in Nat \ {0}
  /\ MaxStarts \in Nat /\ MaxLeaves \in Nat
  /\ None \notin Nat \union {"early", "gap", "late"}

VARIABLES
  host,      \* "system" (createEventSystem) or "application"
  system,    \* the closure of createEventSystem, see NewSystem
  handler,   \* per handler: "none", "subscribing", "subscribed" or "failed"
  when,      \* per handler, when it was registered: "early", "gap", "late" or None
  told,      \* the handlers whose failure start() threw or the application was told of
  processed, \* the marks of the tracker, in the order of the map
  old,       \* the marks that are older than the tracker's TTL
  message,   \* per message: see Unsent
  run,       \* per message and attempt: what the wrapped handler is doing
  bodies,    \* per message: how often the work inside processOnce() has begun
  left       \* per message: how often its mark left the tracker

tracker == <<processed, old, left>>
registry == <<system, handler, when, told>>
vars == <<host, system, handler, when, told, processed, old, message, run, bodies, left>>

\* started and startPromise, by the point the latter has reached; pendingSubscriptions;
\* what a round of drainPending() awaits; subscriptionErrors; has the provider started?
NewSystem == [started |-> FALSE, at |-> "rest", pending |-> {}, batch |-> {}, errors |-> {},
              starts |-> 0, up |-> FALSE]

\* answer is the state of the subscription; parent awaits it when waited is TRUE.
Unsent == [state |-> "unsent", valid |-> TRUE, attempt |-> 0, answer |-> "none",
           parent |-> None, waited |-> FALSE]

Init ==
  /\ host \in {"system", "application"}
  /\ system = IF host = "system" THEN NewSystem
              ELSE [NewSystem EXCEPT !.started = TRUE, !.up = TRUE]
  /\ handler = [h \in Handlers |-> IF host = "system" THEN "none" ELSE "subscribed"]
  /\ when = [h \in Handlers |-> None]
  /\ told = {}
  /\ processed = << >> /\ old = {}
  /\ message = [m \in Messages |-> Unsent]
  /\ run = [m \in Messages |-> [a \in Attempts |-> "none"]]
  /\ bodies = [m \in Messages |-> 0]
  /\ left = [m \in Messages |-> 0]

-----------------------------------------------------------------------------
(* onEvent(), start() and stop() of createEventSystem. *)

At(place) == system.at = place
work == <<host, tracker, message, run, bodies>>

OnEvent(h) ==
  /\ host = "system" /\ handler[h] = "none"
  /\ handler' = [handler EXCEPT ![h] = "subscribing"]
  /\ when' = [when EXCEPT ![h] = IF system.started THEN "late"
                                 ELSE IF At("settling") THEN "gap" ELSE "early"]
  /\ system' = IF system.started THEN system ELSE [system EXCEPT !.pending = @ \union {h}]
  /\ UNCHANGED <<work, told>>

\* trackSubscription() collects the error of an early one; that of a late one goes to the
\* logger, or else to onRegistrationError.
SubscriptionFails(h) ==
  /\ handler[h] = "subscribing"
  /\ handler' = [handler EXCEPT ![h] = "failed"]
  /\ IF when[h] = "late" THEN told' = told \union {h} /\ UNCHANGED system
     ELSE system' = [system EXCEPT !.errors = @ \union {h}] /\ UNCHANGED told
  /\ UNCHANGED <<work, when>>

Subscribed(h) ==
  /\ handler[h] = "subscribing"
  /\ handler' = [handler EXCEPT ![h] = "subscribed"]
  /\ UNCHANGED <<work, system, when, told>>

SubscriptionEnds(h) == Subscribed(h) \/ SubscriptionFails(h)

Moves(changed) ==
  /\ system' = changed
  /\ UNCHANGED <<work, handler, when, told>>

\* start(): nothing once the system has started, and one promise for all calls before.
Start ==
  /\ host = "system" /\ ~system.started /\ At("rest") /\ system.starts < MaxStarts
  /\ Moves([system EXCEPT !.at = "first drain", !.starts = @ + 1])

Draining == At("first drain") \/ At("second drain")
BatchSettled == \A h \in system.batch : handler[h] # "subscribing"

\* A round of drainPending(): what was awaited has settled, and there is more.
DrainsOn ==
  /\ Draining /\ BatchSettled /\ system.pending # {}
  /\ Moves([system EXCEPT !.batch = system.pending, !.pending = {}])

\* Nothing is left; the caller of drainPending() goes on in a later microtask.
Drained ==
  /\ Draining /\ BatchSettled /\ system.pending = {} /\ system.errors = {}
  /\ Moves([system EXCEPT !.at = IF At("first drain") THEN "drained" ELSE "settling",
                          !.batch = {}])

\* The collected errors make start() reject; it may be called again.
DrainFails ==
  /\ Draining /\ BatchSettled /\ system.pending = {} /\ system.errors # {}
  /\ system' = [system EXCEPT !.at = "rest", !.batch = {}, !.errors = {}]
  /\ told' = told \union system.errors
  /\ UNCHANGED <<work, handler, when>>

ProviderStarts == At("drained") /\ Moves([system EXCEPT !.at = "provider"])

ProviderFails == At("provider") /\ Moves([system EXCEPT !.at = "rest"])

\* Mutant: what was registered while the provider started is not drained.
ProviderStartedAtOnce ==
  At("provider") /\ Moves([system EXCEPT !.at = "settling", !.up = TRUE])

ProviderStarted == At("provider") /\ Moves([system EXCEPT !.at = "second drain", !.up = TRUE])

Started == At("settling") /\ Moves([system EXCEPT !.at = "rest", !.started = TRUE])

\* stop() is the provider's, also in the middle of a start(): its workers end.  A system
\* that has started still counts as started, so that start() does nothing from then on.
Stop ==
  /\ system.up
  /\ system' = [system EXCEPT !.up = FALSE]
  /\ handler' = [h \in Handlers |-> IF handler[h] = "subscribed" THEN "closed" ELSE handler[h]]
  /\ UNCHANGED <<work, when, told>>

-----------------------------------------------------------------------------
(* The tracker. *)

Marked(m) == m \in ToSet(processed)

\* evictOldest(): the marks go in the order of the map.
Kept(marks) == IF Len(marks) > MaxSize THEN Tail(marks) ELSE marks

\* Map.set(): a mark that is there keeps its place.
WithMark(marks, m) == IF m \in ToSet(marks) THEN marks ELSE Append(marks, m)

Leaves(gone) == left' = [m \in Messages |-> IF m \in gone THEN left[m] + 1 ELSE left[m]]

\* The map becomes marks, with a new stamp for those in fresh; some are gone, at least
\* for a moment.
Marks(marks, fresh, gone) ==
  /\ processed' = marks
  /\ old' = (old \intersect ToSet(marks)) \ fresh
  /\ Leaves(gone \union (ToSet(processed) \ ToSet(marks)))

\* The marks that are not gone, in their order.
Without(gone) ==
  LET kept[n \in 0 .. Len(processed)] ==
        IF n = 0 THEN << >>
        ELSE IF processed[n] \in gone THEN kept[n - 1] ELSE Append(kept[n - 1], processed[n])
  IN kept[Len(processed)]

\* cleanExpired()
Clean == Without(old)

Ages(m) ==
  /\ Marked(m) /\ m \notin old /\ left[m] < MaxLeaves
  /\ old' = old \union {m}
  /\ UNCHANGED <<host, registry, processed, left, message, run, bodies>>

\* markProcessed() of a message that was handled elsewhere.
MarkProcessed(m) ==
  /\ message[m].state = "waiting" /\ left[m] < MaxLeaves
  /\ Marks(Kept(WithMark(processed, m)), {m}, {})
  /\ UNCHANGED <<host, registry, message, run, bodies>>

\* isProcessed() forgets a mark that is too old.
IsProcessed(m) ==
  /\ m \in old
  /\ Marks(Without({m}), {}, {})
  /\ UNCHANGED <<host, registry, message, run, bodies>>

Clear ==
  /\ processed # << >> /\ \A m \in ToSet(processed) : left[m] < MaxLeaves
  /\ Marks(<< >>, {}, {})
  /\ UNCHANGED <<host, registry, message, run, bodies>>

-----------------------------------------------------------------------------
(* Emitting. *)

IsNext(m) ==
  /\ message[m].state = "unsent" /\ (host = "system" => m <= MaxPlain)
  /\ \A n \in 1 .. m - 1 : message[n].state # "unsent"

New(valid, parent, waited) ==
  [Unsent EXCEPT !.state = "waiting", !.answer = "pending", !.valid = valid,
                 !.parent = parent, !.waited = waited]

\* emit() of a request, which validates the payload, or of the event system, which leaves
\* that to the handler.
Emit(m) ==
  /\ IsNext(m)
  /\ message' = [message EXCEPT ![m] = New(TRUE, None, FALSE)]
  /\ UNCHANGED <<host, registry, tracker, run, bodies>>

Current(m) == run[m][message[m].attempt]
Awaits(m) == {c \in Messages : message[c].parent = m /\ message[c].waited
                                /\ message[c].answer = "pending"}

\* emit() of the handler's context: the payload is not validated here.
Chains(m, c, valid, waited) ==
  /\ message[m].attempt > 0 /\ Current(m) = "body" /\ Awaits(m) = {}
  /\ IsNext(c)
  /\ message' = [message EXCEPT ![c] = New(valid, m, waited)]
  /\ UNCHANGED <<host, registry, tracker, run, bodies>>

Settles(m, answer) == IF message[m].answer = "pending" THEN answer ELSE message[m].answer

\* Mutant: the wait of an emitter has no limit.
NeverTimesOut(m) ==
  /\ FALSE
  /\ UNCHANGED vars

\* The provider's limit on the wait of an emitter; the message stays in the queue.
TimesOut(m) ==
  /\ message[m].answer = "pending"
  /\ message' = [message EXCEPT ![m].answer = "timeout"]
  /\ UNCHANGED <<host, registry, tracker, run, bodies>>

-----------------------------------------------------------------------------
(* Handling: the wrapped handler of a message, and its attempts. *)

InHand == {"body", "skipped", "onSuccess", "onError"}
Busy == {p \in Messages \X Attempts : run[p[1]][p[2]] \in InHand}
HasHandler == \E h \in Handlers : handler[h] = "subscribed"

\* An attempt ends.  That of an attempt the provider has given up changes nothing.
AttemptEnds(m, a, answer) ==
  /\ run' = [run EXCEPT ![m][a] = "ended"]
  /\ message' = IF a # message[m].attempt \/ message[m].state # "active" THEN message
                ELSE [message EXCEPT
                        ![m].state = IF answer = "error" /\ a < MaxAttempts THEN "waiting"
                                     ELSE "finished",
                        ![m].answer = IF answer = "error" /\ a < MaxAttempts THEN @
                                      ELSE Settles(m, answer)]

Phase(m, a, phase) == run' = [run EXCEPT ![m][a] = phase] /\ UNCHANGED message

CanTake(m) ==
  /\ message[m].state = "waiting" /\ message[m].attempt < MaxAttempts
  /\ HasHandler /\ Cardinality(Busy) < Slots

\* The payload's schema is a consumer's affair.
Accepted(m) == message[m].valid \/ host = "system"

Takes(m, phase) ==
  /\ message' = [message EXCEPT ![m].state = "active", ![m].attempt = @ + 1]
  /\ run' = [run EXCEPT ![m][message[m].attempt + 1] = phase]

\* The handler is called and comes to processOnce(), which finds a mark.
TakeSkips(m) ==
  /\ CanTake(m) /\ Accepted(m)
  /\ Marks(Clean, {}, {}) /\ m \in ToSet(Clean)
  /\ Takes(m, "skipped")
  /\ UNCHANGED <<host, registry, bodies>>

\* Mutant: the message is marked only when its work is done.
TakeWorksUnmarked(m) ==
  /\ CanTake(m) /\ Accepted(m)
  /\ Marks(Clean, {}, {}) /\ m \notin ToSet(Clean)
  /\ bodies' = [bodies EXCEPT ![m] = @ + 1]
  /\ Takes(m, "body")
  /\ UNCHANGED <<host, registry>>

\* No mark: the message is marked and its work begins.
TakeWorks(m) ==
  /\ CanTake(m) /\ Accepted(m) /\ m \notin ToSet(Clean)
  /\ Marks(Kept(WithMark(Clean, m)), {m}, old)
  /\ bodies' = [bodies EXCEPT ![m] = @ + 1]
  /\ Takes(m, "body")
  /\ UNCHANGED <<host, registry>>

\* A payload that fails the schema of a consumer: no hook is called.
TakeRejects(m) ==
  /\ CanTake(m) /\ ~Accepted(m)
  /\ LET last == message[m].attempt + 1 = MaxAttempts IN
     message' = [message EXCEPT ![m].attempt = @ + 1,
                                ![m].state = IF last THEN "finished" ELSE "waiting",
                                ![m].answer = IF last THEN Settles(m, "error") ELSE @]
  /\ UNCHANGED <<host, registry, tracker, run, bodies>>

Take(m) == TakeSkips(m) \/ TakeWorks(m) \/ TakeRejects(m)

\* The handler of createWrappedHandler(): the provider hears what it returned or threw.
PlainEnds(m, a, answer) == host = "system" /\ AttemptEnds(m, a, answer)

\* What follows the handler of a consumer: the check of its response and a hook.
HookRuns(m, a, hook) == host = "application" /\ Phase(m, a, hook)

\* onEvent() returns; an application checks the response and calls onSuccess.
Returns(m, a) ==
  /\ run[m][a] \in {"body", "skipped"} /\ Awaits(m) = {}
  /\ HookRuns(m, a, "onSuccess") \/ PlainEnds(m, a, "result")
  /\ UNCHANGED <<host, registry, tracker, bodies>>

\* onEvent() or onSuccess throws, or the response fails the schema.
Throws(m, a) ==
  /\ run[m][a] \in {"body", "skipped", "onSuccess"} /\ Awaits(m) = {}
  /\ run[m][a] = "skipped" => host = "application"
  /\ HookRuns(m, a, "onError") \/ PlainEnds(m, a, "error")
  /\ UNCHANGED <<host, registry, tracker, bodies>>

HooksEnd(m, a) ==
  /\ \/ run[m][a] = "onSuccess" /\ AttemptEnds(m, a, "result")
     \/ run[m][a] = "onError" /\ AttemptEnds(m, a, "error")
  /\ UNCHANGED <<host, registry, tracker, bodies>>

\* The provider takes an attempt for dead, and the message for one to be tried again.
Stalls(m) ==
  /\ message[m].state = "active" /\ message[m].attempt < MaxAttempts
  /\ message' = [message EXCEPT ![m].state = "waiting"]
  /\ UNCHANGED <<host, registry, tracker, run, bodies>>

-----------------------------------------------------------------------------
Starts ==
  \/ DrainsOn \/ Drained \/ DrainFails
  \/ ProviderStarts \/ ProviderFails \/ ProviderStarted \/ Started

Handles(m, a) == Returns(m, a) \/ Throws(m, a) \/ HooksEnd(m, a)

Next ==
  \/ \E h \in Handlers : OnEvent(h) \/ SubscriptionEnds(h)
  \/ Start \/ Starts \/ Stop
  \/ \E m \in Messages :
       \/ Emit(m) \/ TimesOut(m) \/ Take(m) \/ Stalls(m)
       \/ \E c \in Messages, valid \in BOOLEAN, waited \in BOOLEAN : Chains(m, c, valid, waited)
       \/ \E a \in Attempts : Handles(m, a)
       \/ Ages(m) \/ MarkProcessed(m) \/ IsProcessed(m)
  \/ Clear

Spec == Init /\ [][Next]_vars

\* Subscriptions and starts settle, workers take what waits, waits have a limit, and
\* what an application does in its handlers and hooks ends.
Fairness ==
  /\ WF_vars(Starts)
  /\ \A h \in Handlers : WF_vars(SubscriptionEnds(h))
  /\ \A m \in Messages :
       /\ WF_vars(TimesOut(m)) /\ WF_vars(Take(m))
       /\ \A a \in Attempts : WF_vars(Handles(m, a))

FairSpec == Spec /\ Fairness

-----------------------------------------------------------------------------
(* Properties. *)

\* Once start() has resolved, every handler registered before is subscribed, or its
\* failure was thrown: also one registered while the provider started.  Only a handler
\* that comes in the microtask between the last look at the list and the flag is neither
\* awaited nor heard of (start(), drainPending()).
StartedMeansSubscribed ==
  system.started =>
    \A h \in Handlers :
      when[h] = "early" => handler[h] \in {"subscribed", "closed"} \/ h \in told

\* The work on a message begins once for every time its mark is in the tracker, although
\* the message may be delivered again while it is handled, and the tracker keeps no more
\* than maxSize marks (processOnce(), evictOldest(), cleanExpired()).
OncePerMark ==
  /\ Len(processed) <= MaxSize
  /\ \A m \in Messages : bodies[m] <= 1 + left[m]

\* Handlers that wait for events of a worker whose slots they hold do not stop it for
\* good: once no more is emitted and started, every message is finished, unless the
\* provider has no handler for it, and no start() is left waiting (wait(), drainPending()).
EverythingEnds ==
  <>[](At("rest") /\ \A m \in Messages : message[m].state \in {"waiting", "active"} => ~HasHandler)
=============================================================================
