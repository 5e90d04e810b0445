--------------------------- MODULE RequestProofs ----------------------------
(***************************************************************************)
(* Proofs about what one process owes the one who asks it: an emission of  *)
(* the in-process event provider, for any number of keys, emissions,       *)
(* handlers and stops, any delays and any set of callbacks that throw; and *)
(* a request to the server with the workflows that its handler awaits, for *)
(* any controllers, calls of their builders, routes and definitions.       *)
(*                                                                         *)
(* What the event provider promises of one emission rests on three of its  *)
(* maps agreeing (RequestInv); that cancel() finds a delayed emission      *)
(* rests on a race between two clocks that start together (KeyInv).        *)
(*                                                                         *)
(* An execution of ctx.app.workflows is a saga because what it has         *)
(* completed is in the order of the definition and is all of the groups    *)
(* behind it, and of the current one what was looked at (FlowOK); what a   *)
(* fold over a group and the recursion over the groups amount to is shown  *)
(* by taking the least group, or the least number of steps, for which it   *)
(* would fail.                                                             *)
(*                                                                         *)
(* A guard is not skipped because of what the builders do to arrays they   *)
(* share: whichever of them replaces or lengthens a list, what a route was *)
(* asked to have is in its list, in order (Holds, BuilderOK), so it is in  *)
(* the table (SiteOK), and the pipeline counts through it (RequestOK).     *)
(***************************************************************************)
EXTENDS InProcessEvents, Http, SequenceTheorems, FiniteSetTheorems, WellFoundedInduction,
        TLAPS

(* An emission in the first handler's hands is unsettled and has no timer, a timer runs *)
(* for an unsettled one only, and an entry of pendingDelayedByKey is of an emission of  *)
(* its key that no handler has: one that waits, or that a failed stop() has rejected.   *)
RequestInv ==
  /\ \A e \in Emissions :
       /\ <<e, 1>> \in tasks => subscription[e] = "pending" /\ timers[e] = None
       /\ timers[e] # None => subscription[e] = "pending"
  /\ \A k \in Keys : delayedByKey[k] # None =>
       LET e == delayedByKey[k]
       IN  keyOf[e] = k /\ <<e, 1>> \notin tasks /\ subscription[e] \in {"pending", "stopped"}

IInv == TypeOK /\ RequestInv

-----------------------------------------------------------------------------
(* Settling subscriptions. *)

LEMMA SettleOK ==
  ASSUME TypeOK, NEW E \in SUBSET Emissions, NEW outcome \in Settled, Settle(E, outcome)
  PROVE  /\ subscription' \in [Emissions -> Settled \union {"unsent", "pending"}]
         /\ waiter' \in [Emissions -> Waiting \union {"none", "value", "error", "timeout"}]
         /\ \A e \in Emissions :
              subscription'[e] = IF e \in E /\ subscription[e] = "pending"
                                 THEN outcome ELSE subscription[e]
<1> DEFINE first == {e \in E : subscription[e] = "pending"}
<1>1. /\ subscription' = [e \in Emissions |-> IF e \in first THEN outcome ELSE subscription[e]]
      /\ waiter' = [e \in Emissions |->
                      IF e \in first \ Throws /\ waiter[e] \in Waiting
                      THEN IF outcome \in Resolved THEN "value" ELSE "error"
                      ELSE waiter[e]]
  BY DEF Settle
<1>2. subscription' \in [Emissions -> Settled \union {"unsent", "pending"}]
  BY <1>1 DEF TypeOK
<1>3. waiter' \in [Emissions -> Waiting \union {"none", "value", "error", "timeout"}]
  BY <1>1 DEF TypeOK
<1> QED BY <1>1, <1>2, <1>3

(* The first handler's call is among those of an emission exactly when there is one. *)
LEMMA FirstTask ==
  ASSUME TypeOK, NEW e \in Emissions
  PROVE  /\ HandlerTasks(e) \subseteq Emissions \X (1 .. MaxHandlers)
         /\ <<e, 1>> \in HandlerTasks(e) <=> handlers # 0
         /\ \A d \in Emissions : d # e => <<d, 1>> \notin HandlerTasks(e)
BY EventAssumption DEF TypeOK, HandlerTasks

-----------------------------------------------------------------------------
(* The inductive invariant. *)

LEMMA InitIInv == Init => IInv
<1> SUFFICES ASSUME Init PROVE IInv
  OBVIOUS
<1>1. TypeOK
  <2>1. 0 \in 0 .. MaxHandlers /\ 0 \in 0 .. MaxStops
    BY EventAssumption
  <2> QED BY <2>1 DEF Init, TypeOK
<1>2. RequestInv
  BY DEF Init, RequestInv
<1> QED BY <1>1, <1>2 DEF IInv

LEMMA EmitIInv ==
  ASSUME IInv, NEW e \in Emissions, Emit(e)
  PROVE  IInv'
<1> USE DEF IInv
<1>1. PICK k \in Keys \union {None} :
        EmitDuplicate(e, k) \/ EmitNow(e, k) \/ \E delay \in Delays : EmitDelayed(e, k, delay)
  BY DEF Emit
<1>2. /\ subscription[e] = "unsent" /\ timers[e] = None /\ <<e, 1>> \notin tasks
      /\ \A j \in Keys : delayedByKey[j] # e
  BY <1>1, EventAssumption
     DEF EmitDuplicate, EmitNow, EmitDelayed, EmitAs, IsNext, TypeOK, RequestInv, Emissions
<1>3. \A state \in Settled \union {"pending"} : EmitAs(e, k, state) =>
        /\ subscription' = [subscription EXCEPT ![e] = state]
        /\ subscription' \in [Emissions -> Settled \union {"unsent", "pending"}]
        /\ keyOf' = [keyOf EXCEPT ![e] = k]
        /\ keyOf' \in [Emissions -> Keys \union {None}]
  BY DEF EmitAs, TypeOK
<1>4. CASE EmitDuplicate(e, k)
  <2>1. EmitAs(e, k, "undefined") /\ "undefined" \in Settled \union {"pending"}
    BY <1>4 DEF EmitDuplicate, Settled, Resolved
  <2>2. TypeOK'
    BY <1>3, <1>4, <2>1 DEF EmitDuplicate, provider, TypeOK
  <2>3. \A d \in Emissions \ {e} : subscription'[d] = subscription[d] /\ keyOf'[d] = keyOf[d]
    BY <1>3, <2>1 DEF TypeOK
  <2>4. UNCHANGED <<tasks, timers, delayedByKey>>
    BY <1>4 DEF EmitDuplicate
  <2>5. RequestInv'
    BY <1>2, <2>3, <2>4 DEF TypeOK, RequestInv
  <2> QED BY <2>2, <2>5
<1>5. CASE EmitNow(e, k)
  <2> DEFINE state == IF handlers = 0 THEN "undefined" ELSE "pending"
  <2>1. EmitAs(e, k, state) /\ state \in Settled \union {"pending"}
    BY <1>5 DEF EmitNow, Settled, Resolved
  <2>2. keyAge' \in [Keys -> Nat \union {None}]
    BY <1>5 DEF EmitNow, MarkProcessed, TypeOK
  <2>3. TypeOK'
    BY <1>3, <1>5, <2>1, <2>2, FirstTask DEF EmitNow, provider, TypeOK
  <2>4. \A d \in Emissions \ {e} : /\ subscription'[d] = subscription[d] /\ keyOf'[d] = keyOf[d]
                                   /\ <<d, 1>> \in tasks' <=> <<d, 1>> \in tasks
    BY <1>3, <1>5, <2>1, FirstTask DEF EmitNow, TypeOK
  <2>5. <<e, 1>> \in tasks' => subscription'[e] = "pending"
    <3>1. subscription'[e] = state
      BY <1>3, <2>1 DEF TypeOK
    <3>2. <<e, 1>> \in tasks' => handlers # 0
      BY <1>2, <1>5, FirstTask DEF EmitNow
    <3> QED BY <3>1, <3>2
  <2>6. UNCHANGED <<timers, delayedByKey>>
    BY <1>5 DEF EmitNow
  <2>7. RequestInv'
    BY <1>2, <2>4, <2>5, <2>6 DEF TypeOK, RequestInv
  <2> QED BY <2>3, <2>7
<1>6. ASSUME NEW delay \in Delays, EmitDelayed(e, k, delay) PROVE IInv'
  <2>1. EmitAs(e, k, "pending")
    BY <1>6 DEF EmitDelayed
  <2>2. keyAge' \in [Keys -> Nat \union {None}]
    BY <1>6 DEF EmitDelayed, MarkProcessed, TypeOK
  <2>3. /\ timers' \in [Emissions -> Nat \union {None}]
        /\ delayedByKey' \in [Keys -> Emissions \union {None}]
    BY <1>6, EventAssumption DEF EmitDelayed, TypeOK
  <2>4. TypeOK'
    BY <1>3, <1>6, <2>1, <2>2, <2>3 DEF EmitDelayed, provider, TypeOK
  <2>5. \A d \in Emissions : /\ timers'[d] = IF d = e THEN delay ELSE timers[d]
                             /\ subscription'[d] = IF d = e THEN "pending" ELSE subscription[d]
                             /\ keyOf'[d] = IF d = e THEN k ELSE keyOf[d]
    BY <1>3, <1>6, <2>1 DEF EmitDelayed, TypeOK
  <2>6. \A j \in Keys : delayedByKey'[j] = IF j = k THEN e ELSE delayedByKey[j]
    BY <1>6, EventAssumption DEF EmitDelayed, TypeOK
  <2>7. tasks' = tasks
    BY <1>6 DEF EmitDelayed
  <2>8. RequestInv'
    BY <1>2, <2>5, <2>6, <2>7 DEF TypeOK, RequestInv
  <2> QED BY <2>4, <2>8
<1> QED BY <1>1, <1>4, <1>5, <1>6

LEMMA NextIInv == IInv /\ [Next]_vars => IInv'
<1> SUFFICES ASSUME IInv, [Next]_vars PROVE IInv'
  OBVIOUS
<1> USE DEF IInv
<1>1. ASSUME NEW e \in Emissions, Emit(e) PROVE IInv'
  BY <1>1, EmitIInv
<1>2. ASSUME NEW e \in Emissions,
             ToPromiseTimeout(e) \/ \E timed \in BOOLEAN : ToPromise(e, timed)
      PROVE  IInv'
  <2>1. /\ UNCHANGED <<provider, keyOf, subscription, timers, delayedByKey, keyAge, tasks>>
        /\ waiter' \in [Emissions -> Waiting \union {"none", "value", "error", "timeout"}]
    BY <1>2 DEF ToPromise, ToPromiseTimeout, TypeOK, Waiting
  <2> QED BY <2>1 DEF provider, TypeOK, RequestInv
<1>3. ASSUME NEW e \in Emissions, DeliverDelayed(e) PROVE IInv'
  <2>1. timers[e] # None /\ subscription[e] = "pending" /\ <<e, 1>> \notin tasks
    BY <1>3, EventAssumption DEF DeliverDelayed, RequestInv
  <2>2. /\ timers' = [timers EXCEPT ![e] = None]
        /\ timers' \in [Emissions -> Nat \union {None}]
    BY <1>3 DEF DeliverDelayed, TypeOK
  <2>3. /\ delayedByKey' \in [Keys -> Emissions \union {None}]
        /\ \A j \in Keys : delayedByKey'[j] = IF j = keyOf[e] THEN None ELSE delayedByKey[j]
    BY <1>3, EventAssumption DEF DeliverDelayed, TypeOK
  <2>4. tasks' = tasks \union HandlerTasks(e) /\ UNCHANGED <<provider, keyOf, keyAge>>
    BY <1>3 DEF DeliverDelayed
  <2>5. /\ subscription' \in [Emissions -> Settled \union {"unsent", "pending"}]
        /\ waiter' \in [Emissions -> Waiting \union {"none", "value", "error", "timeout"}]
        /\ \A d \in Emissions \ {e} : subscription'[d] = subscription[d]
        /\ handlers # 0 => subscription'[e] = "pending"
    <3>1. CASE handlers = 0
      BY <1>3, <3>1, SettleOK DEF DeliverDelayed, Settled, Resolved
    <3>2. CASE handlers # 0
      BY <1>3, <2>1, <3>2 DEF DeliverDelayed, TypeOK
    <3> QED BY <3>1, <3>2
  <2>6. TypeOK'
    BY <2>2, <2>3, <2>4, <2>5, FirstTask DEF provider, TypeOK
  <2>7. /\ \A d \in Emissions \ {e} : <<d, 1>> \in tasks' <=> <<d, 1>> \in tasks
        /\ <<e, 1>> \in tasks' => subscription'[e] = "pending"
    BY <2>1, <2>4, <2>5, FirstTask
  <2>8. \A j \in Keys : delayedByKey'[j] # None =>
          delayedByKey'[j] = delayedByKey[j] /\ delayedByKey[j] \in Emissions \ {e}
    <3> SUFFICES ASSUME NEW j \in Keys, delayedByKey'[j] # None
                 PROVE  delayedByKey'[j] = delayedByKey[j] /\ delayedByKey[j] \in Emissions \ {e}
      OBVIOUS
    <3>1. j # keyOf[e] /\ delayedByKey'[j] = delayedByKey[j]
      BY <2>3
    <3>2. delayedByKey[j] # None
      BY <3>1
    <3>3. delayedByKey[j] \in Emissions
      BY <3>2 DEF TypeOK
    <3>4. keyOf[delayedByKey[j]] = j
      BY <3>2 DEF RequestInv
    <3> QED BY <3>1, <3>3, <3>4
  <2>9. /\ timers'[e] = None /\ \A d \in Emissions \ {e} : timers'[d] = timers[d]
        /\ keyOf' = keyOf
    BY <2>2, <2>4 DEF TypeOK
  <2>10. RequestInv'
    BY <2>5, <2>7, <2>8, <2>9 DEF RequestInv
  <2> QED BY <2>6, <2>10
<1>4. ASSUME NEW e \in Emissions, NEW i \in 1 .. MaxHandlers, HandlerSettles(e, i) PROVE IInv'
  <2>1. PICK outcome \in {"result", "error"} : HandlerEnds(e, i, outcome)
    BY <1>4 DEF HandlerSettles, HandlerReturns, HandlerThrows
  <2>2. /\ tasks' = tasks \ {<<e, i>>} /\ <<e, i>> \in tasks
        /\ UNCHANGED <<provider, keyOf, timers, delayedByKey, keyAge>>
    BY <2>1 DEF HandlerEnds
  <2>3. /\ subscription' \in [Emissions -> Settled \union {"unsent", "pending"}]
        /\ waiter' \in [Emissions -> Waiting \union {"none", "value", "error", "timeout"}]
        /\ \A d \in Emissions : d # e \/ i # 1 => subscription'[d] = subscription[d]
    <3>1. CASE i = 1
      BY <2>1, <3>1, SettleOK DEF HandlerEnds, Settled, Resolved, Rejected
    <3>2. CASE i # 1
      BY <2>1, <3>2 DEF HandlerEnds, TypeOK
    <3> QED BY <3>1, <3>2
  <2>4. TypeOK'
    BY <2>2, <2>3 DEF provider, TypeOK
  <2>5. RequestInv'
    BY <2>2, <2>3, EventAssumption DEF TypeOK, RequestInv
  <2> QED BY <2>4, <2>5
<1>5. ASSUME NEW k \in Keys, Cancel(k) PROVE IInv'
  <2> DEFINE e == delayedByKey[k]
  <2>1. e \in Emissions /\ keyOf[e] = k /\ <<e, 1>> \notin tasks
    BY <1>5 DEF Cancel, TypeOK, RequestInv
  <2>2. /\ timers' = [timers EXCEPT ![e] = None]
        /\ delayedByKey' = [delayedByKey EXCEPT ![k] = None]
        /\ Settle({e}, "cancelled") /\ UNCHANGED <<provider, keyOf, tasks>>
    BY <1>5 DEF Cancel
  <2> HIDE DEF e
  <2>3. /\ subscription' \in [Emissions -> Settled \union {"unsent", "pending"}]
        /\ waiter' \in [Emissions -> Waiting \union {"none", "value", "error", "timeout"}]
        /\ \A d \in Emissions : d # e => subscription'[d] = subscription[d]
    <3>1. {e} \in SUBSET Emissions /\ "cancelled" \in Settled
      BY <2>1 DEF Settled, Rejected
    <3> QED BY <2>2, <3>1, SettleOK
  <2>4. keyAge' \in [Keys -> Nat \union {None}]
    BY <1>5 DEF Cancel, TypeOK
  <2>5. TypeOK'
    BY <2>1, <2>2, <2>3, <2>4 DEF provider, TypeOK
  <2>6. \A j \in Keys \ {k} : delayedByKey[j] # e
    BY <2>1, EventAssumption DEF RequestInv, TypeOK, Emissions
  <2>7. RequestInv'
    BY <2>1, <2>2, <2>3, <2>6 DEF TypeOK, RequestInv
  <2> QED BY <2>5, <2>7
<1>6. CASE CleanupExpiredKeys
  BY <1>6 DEF CleanupExpiredKeys, provider, TypeOK, RequestInv
<1>7. CASE Subscribe
  BY <1>7, EventAssumption DEF Subscribe, TypeOK, RequestInv
<1>8. CASE Start
  BY <1>8 DEF Start, TypeOK, RequestInv
<1>9. CASE Stop
  <2>1. PICK reached \in ReachedByStop :
          LET failed == \E e \in reached : CallbackThrows(e) IN
          /\ Settle(reached, "stopped")
          /\ stopFailed' = (stopFailed \/ failed)
          /\ delayedByKey' = IF failed THEN delayedByKey ELSE [k \in Keys |-> None]
          /\ keyAge' = IF failed THEN keyAge ELSE [k \in Keys |-> None]
          /\ interval' = (interval /\ failed)
          /\ started' = (started /\ failed)
    BY <1>9 DEF Stop
  <2>2. /\ timers' = [e \in Emissions |-> None] /\ UNCHANGED <<handlers, keyOf, tasks>>
        /\ stops' \in 0 .. MaxStops
    BY <1>9, EventAssumption DEF Stop, TypeOK
  <2>3. reached \subseteq {delayedByKey[k] : k \in Keys} \ {None}
    BY DEF ReachedByStop
  <2>4. reached \in SUBSET Emissions /\ \A e \in reached : <<e, 1>> \notin tasks
    BY <2>3 DEF TypeOK, RequestInv
  <2>5. /\ subscription' \in [Emissions -> Settled \union {"unsent", "pending"}]
        /\ waiter' \in [Emissions -> Waiting \union {"none", "value", "error", "timeout"}]
        /\ \A e \in Emissions :
             subscription'[e] = IF e \in reached /\ subscription[e] = "pending"
                                THEN "stopped" ELSE subscription[e]
    BY <2>1, <2>4, SettleOK DEF Settled, Rejected
  <2>6. /\ stopFailed' \in BOOLEAN /\ interval' \in BOOLEAN /\ started' \in BOOLEAN
        /\ delayedByKey' \in {delayedByKey, [k \in Keys |-> None]}
        /\ keyAge' \in {keyAge, [k \in Keys |-> None]}
    BY <2>1 DEF TypeOK
  <2>7. TypeOK'
    BY <2>2, <2>5, <2>6 DEF TypeOK
  <2>8. RequestInv'
    BY <2>2, <2>4, <2>5, <2>6 DEF TypeOK, RequestInv
  <2> QED BY <2>7, <2>8
<1>10. CASE Tick
  <2>1. /\ timers' = [e \in Emissions |-> IF timers[e] = None THEN None ELSE timers[e] - 1]
        /\ timers' \in [Emissions -> Nat \union {None}]
    BY <1>10 DEF Tick, TypeOK
  <2>2. keyAge' \in [Keys -> Nat \union {None}]
    BY <1>10 DEF Tick, TypeOK
  <2>3. UNCHANGED <<provider, keyOf, subscription, delayedByKey, tasks, waiter>>
    BY <1>10 DEF Tick
  <2>4. \A e \in Emissions : timers'[e] # None => timers[e] # None
    BY <2>1
  <2> QED BY <2>1, <2>2, <2>3, <2>4 DEF provider, TypeOK, RequestInv
<1>11. CASE UNCHANGED vars
  BY <1>11 DEF vars, TypeOK, RequestInv
<1> QED BY <1>1, <1>2, <1>3, <1>4, <1>5, <1>6, <1>7, <1>8, <1>9, <1>10, <1>11 DEF Next

THEOREM IInvHolds == Spec => []IInv
<1> QED BY InitIInv, NextIInv, PTL DEF Spec

(* The provider's maps keep their types. *)
THEOREM TypeCorrect == Spec => []TypeOK
<1>1. IInv => TypeOK
  BY DEF IInv
<1> QED BY <1>1, IInvHolds, PTL

-----------------------------------------------------------------------------
(* cancel() finds a delayed emission by its key. *)

(* The age of the key and the timer start together and move together, so the key is not *)
(* yet forgotten while the timer runs: nobody can have taken it over.                   *)
KeyInv ==
  DelaysWithinTTL =>
    \A e \in Emissions : timers[e] # None /\ keyOf[e] # None =>
      /\ delayedByKey[keyOf[e]] = e
      /\ keyAge[keyOf[e]] # None /\ keyAge[keyOf[e]] + timers[e] <= TTL

LEMMA NextKeyInv == IInv /\ KeyInv /\ [Next]_vars => KeyInv'
<1> SUFFICES ASSUME IInv, KeyInv, [Next]_vars, DelaysWithinTTL PROVE KeyInv'
  BY DEF KeyInv, DelaysWithinTTL
<1>t. /\ timers \in [Emissions -> Nat \union {None}] /\ keyOf \in [Emissions -> Keys \union {None}]
      /\ keyAge \in [Keys -> Nat \union {None}] /\ TTL \in Nat
      /\ delayedByKey \in [Keys -> Emissions \union {None}]
      /\ None \notin Keys /\ None \notin Nat /\ None \notin Emissions
  BY EventAssumption DEF IInv, TypeOK, Emissions
<1>k. \A d \in Emissions : timers[d] # None /\ keyOf[d] # None =>
        /\ keyOf[d] \in Keys /\ timers[d] \in Nat /\ keyAge[keyOf[d]] \in Nat
        /\ delayedByKey[keyOf[d]] = d /\ keyAge[keyOf[d]] + timers[d] <= TTL
  BY <1>t DEF KeyInv
<1>1. ASSUME NEW e \in Emissions, Emit(e) PROVE KeyInv'
  <2>1. PICK k \in Keys \union {None} :
          EmitDuplicate(e, k) \/ EmitNow(e, k) \/ \E delay \in Delays : EmitDelayed(e, k, delay)
    BY <1>1 DEF Emit
  <2>2. timers[e] = None
    BY <2>1 DEF EmitDuplicate, EmitNow, EmitDelayed, EmitAs, IsNext, IInv, RequestInv
  <2>3. \A d \in Emissions : keyOf'[d] = IF d = e THEN k ELSE keyOf[d]
    BY <1>t, <2>1 DEF EmitDuplicate, EmitNow, EmitDelayed, EmitAs
  <2>4. CASE EmitDuplicate(e, k)
    BY <2>2, <2>3, <2>4 DEF EmitDuplicate, KeyInv
  <2>5. ~Known(k) => \A d \in Emissions : timers[d] # None /\ keyOf[d] # None => keyOf[d] # k
    BY <1>k, <1>t DEF Known
  <2>6. CASE EmitNow(e, k)
    <3>1. /\ UNCHANGED <<timers, delayedByKey>> /\ ~Known(k)
          /\ \A j \in Keys : j # k => keyAge'[j] = keyAge[j]
      BY <1>t, <2>6 DEF EmitNow, MarkProcessed
    <3> QED BY <1>k, <2>2, <2>3, <2>5, <3>1 DEF KeyInv
  <2>7. ASSUME NEW delay \in Delays, EmitDelayed(e, k, delay) PROVE KeyInv'
    <3>1. /\ ~Known(k) /\ delay \in Nat /\ delay <= TTL
          /\ \A d \in Emissions : timers'[d] = IF d = e THEN delay ELSE timers[d]
          /\ \A j \in Keys : /\ keyAge'[j] = IF j = k THEN 0 ELSE keyAge[j]
                             /\ delayedByKey'[j] = IF j = k THEN e ELSE delayedByKey[j]
      BY <1>t, <2>7, EventAssumption DEF EmitDelayed, MarkProcessed, DelaysWithinTTL
    <3> SUFFICES ASSUME NEW d \in Emissions, timers'[d] # None, keyOf'[d] # None
                 PROVE  /\ delayedByKey'[keyOf'[d]] = d /\ keyAge'[keyOf'[d]] # None
                        /\ keyAge'[keyOf'[d]] + timers'[d] <= TTL
      BY DEF KeyInv
    <3>2. CASE d = e
      BY <1>t, <2>3, <3>1, <3>2
    <3>3. CASE d # e
      BY <1>t, <1>k, <2>3, <2>5, <3>1, <3>3
    <3> QED BY <3>2, <3>3
  <2> QED BY <2>1, <2>4, <2>6, <2>7
<1>2. ASSUME NEW e \in Emissions, DeliverDelayed(e) PROVE KeyInv'
  <2>1. /\ \A d \in Emissions : timers'[d] = IF d = e THEN None ELSE timers[d]
        /\ \A j \in Keys : j # keyOf[e] => delayedByKey'[j] = delayedByKey[j]
        /\ UNCHANGED <<keyOf, keyAge>> /\ timers[e] # None
    BY <1>2, <1>t DEF DeliverDelayed
  <2> QED BY <1>k, <2>1 DEF KeyInv
<1>3. ASSUME NEW k \in Keys, Cancel(k) PROVE KeyInv'
  <2>1. /\ \A d \in Emissions : timers'[d] = IF d = delayedByKey[k] THEN None ELSE timers[d]
        /\ \A j \in Keys : j # k => delayedByKey'[j] = delayedByKey[j] /\ keyAge'[j] = keyAge[j]
        /\ UNCHANGED keyOf
    BY <1>3, <1>t DEF Cancel
  <2> QED BY <1>k, <2>1 DEF KeyInv
<1>4. CASE CleanupExpiredKeys
  <2>1. /\ \A j \in Keys : keyAge'[j] = IF keyAge[j] # None /\ keyAge[j] > TTL THEN None
                                        ELSE keyAge[j]
        /\ UNCHANGED <<timers, keyOf, delayedByKey>>
    BY <1>4, <1>t DEF CleanupExpiredKeys, Expired
  <2>2. \A d \in Emissions : timers[d] # None /\ keyOf[d] # None => ~(keyAge[keyOf[d]] > TTL)
    BY <1>k, <1>t
  <2> QED BY <1>k, <2>1, <2>2 DEF KeyInv
<1>5. CASE Stop
  <2>1. \A d \in Emissions : timers'[d] = None
    BY <1>5 DEF Stop
  <2> QED BY <2>1 DEF KeyInv
<1>6. CASE Tick
  <2>1. /\ \A d \in Emissions : timers'[d] = IF timers[d] = None THEN None ELSE timers[d] - 1
        /\ \A j \in Keys : keyAge'[j] = IF keyAge[j] = None \/ keyAge[j] > TTL THEN keyAge[j]
                                        ELSE keyAge[j] + 1
        /\ UNCHANGED <<keyOf, delayedByKey>>
    BY <1>6, <1>t DEF Tick
  <2> SUFFICES ASSUME NEW d \in Emissions, timers'[d] # None, keyOf'[d] # None
               PROVE  /\ delayedByKey'[keyOf'[d]] = d /\ keyAge'[keyOf'[d]] # None
                      /\ keyAge'[keyOf'[d]] + timers'[d] <= TTL
    BY DEF KeyInv
  <2>2. /\ timers[d] # None /\ timers'[d] = timers[d] - 1 /\ timers[d] \in Nat
        /\ keyOf[d] \in Keys /\ delayedByKey[keyOf[d]] = d
        /\ keyAge[keyOf[d]] \in Nat /\ keyAge[keyOf[d]] + timers[d] <= TTL
    BY <1>k, <2>1
  <2>3. timers[d] # 0
    BY <1>6 DEF Tick
  <2>4. keyAge'[keyOf[d]] \in {keyAge[keyOf[d]], keyAge[keyOf[d]] + 1}
    BY <2>1, <2>2
  <2> QED BY <1>t, <2>1, <2>2, <2>3, <2>4
<1>7. (\/ CleanupExpiredKeys \/ Subscribe \/ Start \/ UNCHANGED vars
       \/ \E e \in Emissions : \/ ToPromiseTimeout(e)
                               \/ \E timed \in BOOLEAN : ToPromise(e, timed)
                               \/ \E i \in 1 .. MaxHandlers : HandlerSettles(e, i))
        => CleanupExpiredKeys \/ UNCHANGED <<timers, keyOf, delayedByKey, keyAge>>
  BY DEF Subscribe, Start, vars, ToPromiseTimeout, ToPromise, HandlerSettles, HandlerReturns,
         HandlerThrows, HandlerEnds
<1>8. CASE UNCHANGED <<timers, keyOf, delayedByKey, keyAge>>
  BY <1>8 DEF KeyInv
<1> QED BY <1>1, <1>2, <1>3, <1>4, <1>5, <1>6, <1>7, <1>8 DEF Next

(* As long as no delay exceeds the TTL, cancel() and stop() find every keyed emission *)
(* whose timer runs, however emissions, cancellations and the cleanup interleave.     *)
THEOREM DelayedIsFound == Spec => []DelayedIsCancellable
<1>1. Init => KeyInv
  BY DEF Init, KeyInv
<1>2. IInv /\ KeyInv /\ [Next]_vars => KeyInv'
  BY NextKeyInv
<1>3. KeyInv => DelayedIsCancellable
  BY DEF KeyInv, DelayedIsCancellable
<1> QED BY <1>1, <1>2, <1>3, IInvHolds, PTL DEF Spec

-----------------------------------------------------------------------------
(* The provider implements EventRequest. *)

PhaseMap == [e \in Emissions |-> Phase(e)]

(* The phase of an emission follows from three things, and only their change moves it. *)
SameFacts(e) ==
  /\ <<e, 1>> \in tasks' <=> <<e, 1>> \in tasks
  /\ subscription'[e] = subscription[e]
  /\ timers'[e] # None <=> timers[e] # None

LEMMA SamePhase ==
  ASSUME NEW e \in Emissions, SameFacts(e)
  PROVE  Phase(e)' = Phase(e)
BY DEF SameFacts, Phase

LEMMA MovesAtOne ==
  ASSUME NEW e \in Emissions, \A d \in Emissions \ {e} : SameFacts(d)
  PROVE  PhaseMap' = [PhaseMap EXCEPT ![e] = Phase(e)'] /\ PhaseMap[e] = Phase(e)
BY SamePhase DEF PhaseMap

LEMMA NothingMoves ==
  ASSUME \A e \in Emissions : SameFacts(e)
  PROVE  [Promise!Next]_PhaseMap
<1>1. PhaseMap' = PhaseMap
  BY SamePhase DEF PhaseMap
<1> QED BY <1>1

LEMMA EmitMoves ==
  ASSUME IInv, NEW e \in Emissions, Emit(e)
  PROVE  [Promise!Next]_PhaseMap
<1> USE DEF IInv
<1>1. PICK k \in Keys \union {None} :
        EmitDuplicate(e, k) \/ EmitNow(e, k) \/ \E delay \in Delays : EmitDelayed(e, k, delay)
  BY DEF Emit
<1>2. /\ subscription[e] = "unsent" /\ timers[e] = None /\ <<e, 1>> \notin tasks
      /\ Phase(e) = "unsent"
  BY <1>1 DEF EmitDuplicate, EmitNow, EmitDelayed, EmitAs, IsNext, RequestInv, Phase
<1>3. \A d \in Emissions \ {e} : subscription'[d] = subscription[d]
  BY <1>1 DEF EmitDuplicate, EmitNow, EmitDelayed, EmitAs, TypeOK
<1>4. CASE EmitDuplicate(e, k)
  <2>1. UNCHANGED <<tasks, timers>> /\ subscription'[e] = "undefined"
    BY <1>4 DEF EmitDuplicate, EmitAs, TypeOK
  <2>2. \A d \in Emissions \ {e} : SameFacts(d)
    BY <1>3, <2>1 DEF SameFacts
  <2>3. Phase(e)' = "answered"
    BY <1>2, <2>1 DEF Phase, Settled, Resolved
  <2>4. Promise!Answer(e)
    BY <1>2, <2>2, <2>3, MovesAtOne DEF Promise!Answer, Promise!Moves, PhaseMap
  <2> QED BY <2>4 DEF Promise!Next
<1>5. CASE EmitNow(e, k)
  <2>1. /\ tasks' = tasks \union HandlerTasks(e) /\ UNCHANGED timers
        /\ subscription'[e] = IF handlers = 0 THEN "undefined" ELSE "pending"
    BY <1>5 DEF EmitNow, EmitAs, provider, TypeOK
  <2>2. /\ \A d \in Emissions \ {e} : <<d, 1>> \in tasks' <=> <<d, 1>> \in tasks
        /\ <<e, 1>> \in tasks' <=> handlers # 0
    BY <1>2, <2>1, FirstTask
  <2>3. \A d \in Emissions \ {e} : SameFacts(d)
    BY <1>3, <2>1, <2>2 DEF SameFacts
  <2>4. Phase(e)' = IF handlers = 0 THEN "answered" ELSE "handled"
    BY <1>2, <2>1, <2>2 DEF Phase, Settled, Resolved
  <2>5. Promise!Answer(e) \/ Promise!Handle(e)
    BY <1>2, <2>3, <2>4, MovesAtOne
       DEF Promise!Answer, Promise!Handle, Promise!Moves, PhaseMap
  <2> QED BY <2>5 DEF Promise!Next
<1>6. ASSUME NEW delay \in Delays, EmitDelayed(e, k, delay) PROVE [Promise!Next]_PhaseMap
  <2>1. /\ UNCHANGED tasks /\ subscription'[e] = "pending"
        /\ \A d \in Emissions : timers'[d] = IF d = e THEN delay ELSE timers[d]
    BY <1>6 DEF EmitDelayed, EmitAs, TypeOK
  <2>2. \A d \in Emissions \ {e} : SameFacts(d)
    BY <1>3, <2>1 DEF SameFacts
  <2>3. Phase(e)' = "waiting"
    BY <1>2, <2>1, EventAssumption DEF Phase, Settled, Resolved, Rejected
  <2>4. Promise!Schedule(e)
    BY <1>2, <2>2, <2>3, MovesAtOne DEF Promise!Schedule, Promise!Moves, PhaseMap
  <2> QED BY <2>4 DEF Promise!Next
<1> QED BY <1>1, <1>4, <1>5, <1>6

LEMMA StopMoves ==
  ASSUME IInv, Stop
  PROVE  [Promise!Next]_PhaseMap
<1> USE DEF IInv
<1>1. PICK reached \in ReachedByStop : Settle(reached, "stopped")
  BY DEF Stop
<1>2. /\ \A e \in Emissions : timers'[e] = None
      /\ UNCHANGED tasks
  BY DEF Stop
<1>3. reached \in SUBSET Emissions /\ \A e \in reached : <<e, 1>> \notin tasks
  <2>1. reached \subseteq {delayedByKey[k] : k \in Keys} \ {None}
    BY DEF ReachedByStop
  <2> QED BY <2>1 DEF TypeOK, RequestInv
<1>4. \A e \in Emissions : subscription'[e] = IF e \in reached /\ subscription[e] = "pending"
                                              THEN "stopped" ELSE subscription[e]
  BY <1>1, <1>3, SettleOK DEF Settled, Rejected
<1> DEFINE told == {e \in reached : subscription[e] = "pending"}
           gone == {e \in Emissions : PhaseMap[e] = "waiting"}
<1>5. \A e \in told : PhaseMap[e] \in {"waiting", "dropped"}
  BY <1>3 DEF PhaseMap, Phase, Settled, Resolved, Rejected
<1>6. \A e \in told : Phase(e)' = "withdrawn"
  BY <1>2, <1>3, <1>4 DEF Phase
<1>7. \A e \in Emissions \ told :
        Phase(e)' = IF PhaseMap[e] = "waiting" THEN "dropped" ELSE PhaseMap[e]
  <2> SUFFICES ASSUME NEW e \in Emissions \ told
               PROVE  Phase(e)' = IF Phase(e) = "waiting" THEN "dropped" ELSE Phase(e)
    BY DEF PhaseMap
  <2>1. /\ subscription'[e] = subscription[e] /\ timers'[e] = None
        /\ <<e, 1>> \in tasks' <=> <<e, 1>> \in tasks
    BY <1>2, <1>4
  <2> QED BY <2>1 DEF Phase
<1>8. PhaseMap' = [e \in Emissions |-> IF e \in told THEN "withdrawn"
                                       ELSE IF e \in gone THEN "dropped"
                                       ELSE PhaseMap[e]]
  BY <1>3, <1>6, <1>7 DEF PhaseMap
<1>9. /\ gone \in SUBSET {e \in Emissions : PhaseMap[e] = "waiting"}
      /\ told \in SUBSET {e \in Emissions : PhaseMap[e] \in {"waiting", "dropped"}}
  BY <1>3, <1>5
<1> HIDE DEF told, gone
<1>10. Promise!StopWaiting
  BY <1>8, <1>9 DEF Promise!StopWaiting, PhaseMap
<1> QED BY <1>10 DEF Promise!Next

LEMMA NextMoves ==
  ASSUME IInv, [Next]_vars
  PROVE  [Promise!Next]_PhaseMap
<1> USE DEF IInv
<1>1. ASSUME NEW e \in Emissions, DeliverDelayed(e) PROVE [Promise!Next]_PhaseMap
  <2>1. timers[e] # None /\ subscription[e] = "pending" /\ <<e, 1>> \notin tasks
    BY <1>1, EventAssumption DEF DeliverDelayed, RequestInv
  <2>2. /\ \A d \in Emissions : timers'[d] = IF d = e THEN None ELSE timers[d]
        /\ tasks' = tasks \union HandlerTasks(e)
    BY <1>1 DEF DeliverDelayed, TypeOK
  <2>3. /\ \A d \in Emissions \ {e} : subscription'[d] = subscription[d]
        /\ subscription'[e] = IF handlers = 0 THEN "undefined" ELSE "pending"
    <3>1. CASE handlers = 0
      <4>1. {e} \in SUBSET Emissions /\ "undefined" \in Settled /\ Settle({e}, "undefined")
        BY <1>1, <3>1 DEF DeliverDelayed, Settled, Resolved
      <4> QED BY <2>1, <3>1, <4>1, SettleOK
    <3>2. CASE handlers # 0
      BY <1>1, <2>1, <3>2 DEF DeliverDelayed
    <3> QED BY <3>1, <3>2
  <2>4. /\ \A d \in Emissions \ {e} : <<d, 1>> \in tasks' <=> <<d, 1>> \in tasks
        /\ <<e, 1>> \in tasks' <=> handlers # 0
    BY <2>1, <2>2, FirstTask
  <2>5. \A d \in Emissions \ {e} : SameFacts(d)
    BY <2>2, <2>3, <2>4 DEF SameFacts
  <2>6. /\ Phase(e) = "waiting"
        /\ Phase(e)' = IF handlers = 0 THEN "answered" ELSE "handled"
    BY <2>1, <2>3, <2>4 DEF Phase, Settled, Resolved, Rejected
  <2>7. Promise!Answer(e) \/ Promise!Handle(e)
    BY <2>5, <2>6, MovesAtOne DEF Promise!Answer, Promise!Handle, Promise!Moves, PhaseMap
  <2> QED BY <2>7 DEF Promise!Next
<1>2. ASSUME NEW e \in Emissions, NEW i \in 1 .. MaxHandlers, HandlerSettles(e, i)
      PROVE  [Promise!Next]_PhaseMap
  <2>1. PICK outcome \in {"result", "error"} : HandlerEnds(e, i, outcome)
    BY <1>2 DEF HandlerSettles, HandlerReturns, HandlerThrows
  <2>2. UNCHANGED timers /\ tasks' = tasks \ {<<e, i>>} /\ <<e, i>> \in tasks
    BY <2>1 DEF HandlerEnds
  <2>3. CASE i = 1
    <3>1. {e} \in SUBSET Emissions /\ outcome \in Settled /\ Settle({e}, outcome)
      BY <2>1, <2>3 DEF HandlerEnds, Settled, Resolved, Rejected
    <3>2. /\ \A d \in Emissions \ {e} : subscription'[d] = subscription[d]
          /\ subscription[e] = "pending" /\ subscription'[e] = outcome /\ timers[e] = None
      <4>1. subscription[e] = "pending" /\ timers[e] = None
        BY <2>2, <2>3 DEF RequestInv
      <4> QED BY <3>1, <4>1, SettleOK
    <3>3. \A d \in Emissions \ {e} : SameFacts(d)
      BY <2>2, <3>2 DEF SameFacts
    <3>4. Phase(e) = "handled" /\ Phase(e)' = "answered"
      BY <2>2, <2>3, <3>2 DEF Phase, Settled, Resolved, Rejected
    <3>5. Promise!Answer(e)
      BY <3>3, <3>4, MovesAtOne DEF Promise!Answer, Promise!Moves, PhaseMap
    <3> QED BY <3>5 DEF Promise!Next
  <2>4. CASE i # 1
    <3>1. \A d \in Emissions : <<d, 1>> \in tasks' <=> <<d, 1>> \in tasks
      BY <2>2, <2>4
    <3>2. UNCHANGED subscription
      BY <2>1, <2>4 DEF HandlerEnds
    <3>3. \A d \in Emissions : SameFacts(d)
      BY <2>2, <3>1, <3>2 DEF SameFacts
    <3> QED BY <3>3, NothingMoves
  <2> QED BY <2>3, <2>4
<1>3. ASSUME NEW k \in Keys, Cancel(k) PROVE [Promise!Next]_PhaseMap
  <2>e. PICK e \in Emissions : e = delayedByKey[k]
    BY <1>3 DEF Cancel, TypeOK
  <2>1. /\ <<e, 1>> \notin tasks /\ subscription[e] \in {"pending", "stopped"}
        /\ subscription[e] = "stopped" => timers[e] = None
    BY <1>3, <2>e DEF Cancel, RequestInv
  <2>2. /\ \A d \in Emissions : timers'[d] = IF d = e THEN None ELSE timers[d]
        /\ UNCHANGED tasks /\ Settle({e}, "cancelled")
    BY <1>3, <2>e DEF Cancel, TypeOK
  <2>3. \A d \in Emissions : subscription'[d] = IF d = e /\ subscription[d] = "pending"
                                                THEN "cancelled" ELSE subscription[d]
    <3>1. {e} \in SUBSET Emissions /\ "cancelled" \in Settled
      BY <2>1 DEF Settled, Rejected
    <3> QED BY <2>2, <3>1, SettleOK
  <2>4. \A d \in Emissions \ {e} : SameFacts(d)
    BY <2>2, <2>3 DEF SameFacts
  <2>5. CASE subscription[e] = "stopped"
    <3>1. \A d \in Emissions : SameFacts(d)
      BY <2>1, <2>2, <2>3, <2>5 DEF SameFacts
    <3> QED BY <3>1, NothingMoves
  <2>6. CASE subscription[e] = "pending"
    <3>1. Phase(e) \in {"waiting", "dropped"} /\ Phase(e)' = "withdrawn"
      BY <2>1, <2>2, <2>3, <2>6 DEF Phase, Settled, Resolved, Rejected
    <3>2. Promise!Withdraw(e)
      BY <2>1, <2>4, <3>1, MovesAtOne DEF Promise!Withdraw, Promise!Moves, PhaseMap
    <3> QED BY <2>1, <3>2 DEF Promise!Next
  <2> QED BY <2>1, <2>5, <2>6
<1>4. CASE Tick
  <2>1. /\ UNCHANGED <<tasks, subscription>>
        /\ \A e \in Emissions : timers'[e] # None <=> timers[e] # None
    <3>1. \A e \in Emissions : timers[e] # None => timers[e] \in Nat /\ timers[e] # 0
      BY <1>4 DEF Tick, TypeOK
    <3>2. /\ \A e \in Emissions : timers'[e] = IF timers[e] = None THEN None ELSE timers[e] - 1
          /\ UNCHANGED <<tasks, subscription>>
      BY <1>4 DEF Tick
    <3>3. \A e \in Emissions : timers[e] # None => timers[e] - 1 \in Nat
      BY <3>1
    <3> QED BY <3>2, <3>3, EventAssumption
  <2>2. \A e \in Emissions : SameFacts(e)
    BY <2>1 DEF SameFacts
  <2> QED BY <2>2, NothingMoves
<1>5. CASE \/ CleanupExpiredKeys \/ Subscribe \/ Start \/ UNCHANGED vars
           \/ \E e \in Emissions : \/ ToPromiseTimeout(e)
                                   \/ \E timed \in BOOLEAN : ToPromise(e, timed)
  <2>1. UNCHANGED <<timers, subscription, tasks>>
    BY <1>5 DEF CleanupExpiredKeys, Subscribe, Start, vars, ToPromiseTimeout, ToPromise
  <2>2. \A e \in Emissions : SameFacts(e)
    BY <2>1 DEF SameFacts
  <2> QED BY <2>2, NothingMoves
<1> QED BY <1>1, <1>2, <1>3, <1>4, <1>5, EmitMoves, StopMoves DEF Next

(* Every provider with these handlers, keys and delays keeps the promise of an event  *)
(* request: an emission reaches the first handler at most once, is settled at most    *)
(* once, and no handler runs for one that cancel() or stop() has withdrawn.           *)
THEOREM RefinesRequest == Spec => ImplementsRequest
<1>1. Init => Promise!Init
  BY DEF Init, Promise!Init, Phase
<1>2. IInv /\ [Next]_vars => [Promise!Next]_([e \in Emissions |-> Phase(e)])
  BY NextMoves DEF PhaseMap
<1> QED BY <1>1, <1>2, IInvHolds, PTL DEF Spec, ImplementsRequest, Promise!Spec

-----------------------------------------------------------------------------
(* Requests, and the workflows their handlers await. *)

\* A set of numbers has a least one: what the inductions of this module rest on.
LEMMA LeastNumber ==
  ASSUME NEW T \in SUBSET Nat, T # {}
  PROVE  \E n \in T : \A m \in T : n <= m
<1>1. PICK n \in T : \A m \in T : ~ (<<m, n>> \in OpToRel(<, Nat))
  BY WFMin, NatLessThanWellFounded, Zenon
<1>2. \A m \in T : ~ (m < n)
  BY <1>1, Zenon DEF OpToRel
<1> QED
  BY <1>2

\* A bounded set of numbers has a greatest one, and Max() is it.
LEMMA MaxBounded ==
  ASSUME NEW b \in Nat, NEW T \in SUBSET (0 .. b), T # {}
  PROVE  Max(T) \in T /\ \A y \in T : y <= Max(T)
<1> DEFINE D == {b - y : y \in T}
<1>0. \A y \in T : y \in 0 .. b /\ b - y \in Nat
  OBVIOUS
<1>1. D \in SUBSET Nat /\ D # {}
  BY <1>0
<1>2. PICK n \in D : \A m \in D : n <= m
  BY ONLY <1>1, LeastNumber
<1>3. PICK x \in T : n = b - x
  BY <1>2
<1>4. \A y \in T : x >= y
  BY <1>2, <1>3
<1> QED
  BY <1>3, <1>4 DEF Max

-----------------------------------------------------------------------------
(* The places of the steps. *)

At(g) == Groups[g].steps

Size(g) == IF Groups[g].parallel THEN 1 ELSE Len(At(g))

LEMMA GroupFacts ==
  /\ Len(Groups) \in Nat /\ DOMAIN Groups = 1 .. Len(Groups)
  /\ \A g \in DOMAIN Groups :
       /\ g \in Nat /\ g - 1 \in 0 .. Len(Groups) /\ Groups[g].parallel \in BOOLEAN
       /\ At(g) \in Seq(Steps) /\ Len(At(g)) \in Nat /\ DOMAIN At(g) = 1 .. Len(At(g))
       /\ Size(g) \in Nat \ {0}
       /\ \A k \in DOMAIN At(g) : At(g)[k] \in Steps
<1>1. /\ Groups \in Seq([parallel : BOOLEAN, steps : Seq(Steps)])
      /\ Len(Groups) \in Nat /\ DOMAIN Groups = 1 .. Len(Groups)
  BY GroupsAssumption
<1>2. ASSUME NEW g \in DOMAIN Groups
      PROVE  /\ g \in Nat /\ g - 1 \in 0 .. Len(Groups) /\ Groups[g].parallel \in BOOLEAN
             /\ At(g) \in Seq(Steps) /\ Len(At(g)) \in Nat /\ DOMAIN At(g) = 1 .. Len(At(g))
             /\ Size(g) \in Nat \ {0}
             /\ \A k \in DOMAIN At(g) : At(g)[k] \in Steps
  <2>1. Groups[g] \in [parallel : BOOLEAN, steps : Seq(Steps)]
    BY <1>1, ElementOfSeq
  <2>2. At(g) \in Seq(Steps) /\ Groups[g].parallel \in BOOLEAN
    BY <2>1 DEF At
  <2>3. /\ Len(At(g)) \in Nat /\ DOMAIN At(g) = 1 .. Len(At(g))
        /\ \A k \in DOMAIN At(g) : At(g)[k] \in Steps
    BY <2>2
  <2>4. Groups[g].parallel \/ Len(At(g)) # 0
    BY <2>2, GroupsAssumption, EmptySeq DEF At
  <2> QED
    BY <1>1, <2>2, <2>3, <2>4 DEF Size
<1> QED
  BY <1>1, <1>2

\* A step has one place in the definition.
LEMMA OnePlace ==
  \A g, h \in DOMAIN Groups : \A i \in DOMAIN At(g), j \in DOMAIN At(h) :
    At(g)[i] = At(h)[j] => g = h /\ i = j
BY GroupsAssumption DEF At

\* The places of the first groups, as the recursion says it.
LEMMA PlacesAre ==
  \A g \in 0 .. Len(Groups) :
    Places[g] = IF g = 0 THEN 0 ELSE Places[g - 1] + Size(g)
<1> DEFINE L == Len(Groups)
           Body(f, g) == IF g = 0 THEN 0 ELSE f[g - 1] + Size(g)
           Solves(f, n) == f = [g \in 0 .. n |-> Body(f, g)]
<1>1. L \in Nat
  BY GroupFacts
<1>2. \A n \in 0 .. L : \E f : Solves(f, n)
  <2> DEFINE T == {n \in 0 .. L : ~ \E f : Solves(f, n)}
  <2> SUFFICES ASSUME T # {} PROVE FALSE
    OBVIOUS
  <2>1. PICK n \in T : \A m \in T : n <= m
    <3>1. T \in SUBSET Nat
      BY <1>1
    <3> QED
      BY ONLY <3>1, T # {}, LeastNumber
  <2>2. n \in 0 .. L /\ \A m \in 0 .. L : m < n => \E f : Solves(f, m)
    <3> HIDE DEF Solves
    <3>1. \A m \in 0 .. L : ~ (\E f : Solves(f, m)) => n <= m
      BY <2>1
    <3> QED
      BY <3>1, <1>1
  <2>3. CASE n = 0
    <3>1. Solves([g \in 0 .. 0 |-> 0], 0)
      OBVIOUS
    <3> QED
      BY <3>1, <2>1, <2>3
  <2>4. CASE n # 0
    <3>1. n - 1 \in 0 .. L /\ n - 1 < n
      BY <2>2, <2>4, <1>1
    <3>2. PICK f : Solves(f, n - 1)
      BY <3>1, <2>2
    <3> DEFINE h == [g \in 0 .. n |-> IF g < n THEN f[g] ELSE Body(f, n)]
    <3>3. \A g \in 0 .. n : g # 0 => g - 1 \in 0 .. n /\ g - 1 < n /\ h[g - 1] = f[g - 1]
      BY <2>2
    <3>4. \A g \in 0 .. n - 1 : f[g] = Body(f, g)
      BY <3>2
    <3>5. \A g \in 0 .. n : h[g] = Body(h, g)
      <4> TAKE g \in 0 .. n
      <4>1. Body(h, g) = Body(f, g)
        BY <3>3
      <4>2. h[g] = Body(f, g)
        BY <3>4, <2>2
      <4> QED
        BY <4>1, <4>2
    <3>6. Solves(h, n)
      <4>1. h = [g \in 0 .. n |-> h[g]]
        OBVIOUS
      <4> HIDE DEF h, Body
      <4> QED
        BY <4>1, <3>5
    <3> QED
      BY <3>6, <2>1
  <2> QED
    BY <2>3, <2>4
<1>3. Solves(Places, L)
  <2> DEFINE p == CHOOSE f : Solves(f, L)
  <2>1. \E x : Solves(x, L)
    BY <1>1, <1>2
  <2>2. Places = p
    BY DEF Places, Size, At
  <2> QED
    BY <2>1, <2>2
<1> QED
  BY <1>3

LEMMA PlacesType == \A g \in 0 .. Len(Groups) : Places[g] \in Nat
<1> DEFINE T == {g \in 0 .. Len(Groups) : Places[g] \notin Nat}
<1> SUFFICES ASSUME T # {} PROVE FALSE
  OBVIOUS
<1>1. PICK n \in T : \A m \in T : n <= m
  <2>1. T \in SUBSET Nat
    BY GroupFacts
  <2> QED
    BY ONLY <2>1, T # {}, LeastNumber
<1>2. n \in 0 .. Len(Groups) /\ n \in Nat /\ Places[n] \notin Nat
  BY <1>1, GroupFacts
<1>3. CASE n = 0
  BY <1>2, <1>3, PlacesAre
<1>4. CASE n # 0
  <2>1. n - 1 \in 0 .. Len(Groups) /\ ~ (n <= n - 1) /\ n \in DOMAIN Groups
    BY <1>2, <1>4, GroupFacts
  <2>2. Places[n - 1] \in Nat
    BY <1>1, <2>1
  <2>3. Size(n) \in Nat
    BY <2>1, GroupFacts
  <2> QED
    BY <1>2, <1>4, <2>2, <2>3, PlacesAre
<1> QED
  BY <1>3, <1>4

\* A later group has later places.
LEMMA PlacesGrow ==
  \A g, h \in DOMAIN Groups : g < h => Places[g - 1] + Size(g) <= Places[h - 1]
<1> SUFFICES ASSUME NEW g \in DOMAIN Groups,
                    \E h \in DOMAIN Groups : g < h /\ ~ (Places[g - 1] + Size(g) <= Places[h - 1])
             PROVE  FALSE
  OBVIOUS
<1> DEFINE T == {h \in DOMAIN Groups : g < h /\ ~ (Places[g - 1] + Size(g) <= Places[h - 1])}
<1>1. PICK h \in T : \A m \in T : h <= m
  <2>1. T \in SUBSET Nat /\ T # {}
    BY GroupFacts
  <2> QED
    BY ONLY <2>1, LeastNumber
<1>2. /\ h \in DOMAIN Groups /\ h \in Nat /\ g \in Nat /\ g < h /\ h - 1 \in 0 .. Len(Groups)
      /\ g - 1 \in 0 .. Len(Groups) /\ g \in 0 .. Len(Groups) /\ g # 0
      /\ ~ (Places[g - 1] + Size(g) <= Places[h - 1])
  BY <1>1, GroupFacts
<1>3. Places[g] = Places[g - 1] + Size(g) /\ Places[g] \in Nat
  BY <1>2, PlacesAre, PlacesType
<1>4. CASE h = g + 1
  BY <1>2, <1>3, <1>4
<1>5. CASE h # g + 1
  <2>0. PICK n \in Nat : DOMAIN Groups = 1 .. n
    BY GroupFacts
  <2>1. h - 1 \in DOMAIN Groups /\ g < h - 1 /\ ~ (h <= h - 1) /\ h - 1 # 0
    BY <1>2, <1>5, <2>0
  <2>2. Places[g - 1] + Size(g) <= Places[(h - 1) - 1]
    BY <1>1, <2>1
  <2>3. Places[h - 1] = Places[(h - 1) - 1] + Size(h - 1)
    BY <1>2, <2>1, PlacesAre
  <2>4. Size(h - 1) \in Nat /\ Places[(h - 1) - 1] \in Nat
    BY <2>1, GroupFacts, PlacesType
  <2> QED
    BY <1>2, <1>3, <2>2, <2>3, <2>4, SMTT(30)
<1> QED
  BY <1>4, <1>5

LEMMA PlaceOf ==
  \A g \in DOMAIN Groups : \A k \in DOMAIN At(g) :
    /\ Place(At(g)[k]) = PlaceIn(g, k) /\ PlaceIn(g, k) \in Nat
    /\ Places[g - 1] < PlaceIn(g, k) /\ PlaceIn(g, k) <= Places[g - 1] + Size(g)
<1> SUFFICES ASSUME NEW g \in DOMAIN Groups, NEW k \in DOMAIN At(g)
             PROVE  /\ Place(At(g)[k]) = PlaceIn(g, k) /\ PlaceIn(g, k) \in Nat
                    /\ Places[g - 1] < PlaceIn(g, k) /\ PlaceIn(g, k) <= Places[g - 1] + Size(g)
  OBVIOUS
<1> DEFINE s == At(g)[k]
           h == CHOOSE i \in DOMAIN Groups : s \in Range(Groups[i].steps)
           j == CHOOSE i \in DOMAIN Groups[h].steps : Groups[h].steps[i] = s
<1>1. \A i \in DOMAIN Groups : s \in Range(Groups[i].steps) <=> i = g
  <2> TAKE i \in DOMAIN Groups
  <2>1. s \in Range(Groups[g].steps)
    BY DEF Range, At
  <2>2. ASSUME s \in Range(Groups[i].steps) PROVE i = g
    <3>1. PICK n \in DOMAIN Groups[i].steps : Groups[i].steps[n] = s
      BY <2>2 DEF Range
    <3> QED
      BY <3>1, GroupsAssumption DEF At
  <2> QED
    BY <2>1, <2>2
<1>2. h = g
  BY <1>1
<1>3. \A i \in DOMAIN Groups[g].steps : Groups[g].steps[i] = s <=> i = k
  BY GroupsAssumption DEF At
<1>4. j = k
  BY <1>2, <1>3 DEF At
<1>5. Place(s) = PlaceIn(h, j)
  BY DEF Place
<1>6. /\ Places[g - 1] \in Nat /\ k \in 1 .. Len(At(g)) /\ Len(At(g)) \in Nat
      /\ Groups[g].parallel \in BOOLEAN
  BY GroupFacts, PlacesType
<1> HIDE DEF h, j
<1>7. /\ PlaceIn(g, k) \in Nat /\ Places[g - 1] < PlaceIn(g, k)
      /\ PlaceIn(g, k) <= Places[g - 1] + Size(g)
  BY <1>6 DEF PlaceIn, Size
<1> QED
  BY <1>2, <1>4, <1>5, <1>7

LEMMA StepIs ==
  ASSUME NEW s \in Steps
  PROVE  \E g \in DOMAIN Groups : \E k \in DOMAIN At(g) : s = At(g)[k]
BY DEF Steps, Range, At

\* The order of the places is the order of the definition; a parallel group has one.
LEMMA PlaceOrder ==
  ASSUME NEW g \in DOMAIN Groups, NEW k \in DOMAIN At(g),
         NEW h \in DOMAIN Groups, NEW j \in DOMAIN At(h)
  PROVE  /\ Place(At(g)[k]) \in Nat
         /\ g < h => Place(At(g)[k]) < Place(At(h)[j])
         /\ g = h /\ Groups[g].parallel => Place(At(g)[k]) = Place(At(h)[j])
         /\ g = h /\ ~ Groups[g].parallel => (Place(At(g)[k]) < Place(At(h)[j]) <=> k < j)
<1>1. /\ Place(At(g)[k]) = PlaceIn(g, k) /\ PlaceIn(g, k) \in Nat
      /\ Place(At(h)[j]) = PlaceIn(h, j) /\ PlaceIn(h, j) \in Nat
      /\ Places[h - 1] < PlaceIn(h, j) /\ PlaceIn(g, k) <= Places[g - 1] + Size(g)
  BY PlaceOf
<1>2. g \in Nat /\ h \in Nat /\ g - 1 \in 0 .. Len(Groups) /\ h - 1 \in 0 .. Len(Groups)
      /\ Size(g) \in Nat /\ k \in Nat /\ j \in Nat
  BY GroupFacts
<1>3. Places[g - 1] \in Nat /\ Places[h - 1] \in Nat
  BY <1>2, PlacesType
<1>4. g < h => Places[g - 1] + Size(g) <= Places[h - 1]
  BY PlacesGrow
<1>5. g < h => Place(At(g)[k]) < Place(At(h)[j])
  BY <1>1, <1>2, <1>3, <1>4, SMTT(30)
<1>6. g = h /\ Groups[g].parallel => Place(At(g)[k]) = Place(At(h)[j])
  BY <1>1 DEF PlaceIn
<1>7. g = h /\ ~ Groups[g].parallel => (Place(At(g)[k]) < Place(At(h)[j]) <=> k < j)
  BY <1>1, <1>2, <1>3 DEF PlaceIn
<1> QED
  BY <1>1, <1>5, <1>6, <1>7

\* The steps of the groups before g.
Earlier(g) == {s \in Steps : \E h \in DOMAIN Groups : h < g /\ s \in Range(At(h))}

LEMMA EarlierGrows ==
  /\ Earlier(1) = {}
  /\ \A g \in DOMAIN Groups : Earlier(g + 1) = Earlier(g) \union Range(At(g))
  /\ Earlier(Len(Groups) + 1) = Steps
<1>1. PICK n \in Nat : DOMAIN Groups = 1 .. n /\ n = Len(Groups)
  BY GroupFacts
<1>2. Earlier(1) = {}
  BY <1>1 DEF Earlier
<1>3. ASSUME NEW g \in DOMAIN Groups
      PROVE  Earlier(g + 1) = Earlier(g) \union Range(At(g))
  <2>1. \A h \in DOMAIN Groups : h < g + 1 <=> h < g \/ h = g
    BY <1>1
  <2>2. Range(At(g)) \in SUBSET Steps
    BY DEF Steps, At
  <2> QED
    BY <2>1, <2>2 DEF Earlier
<1>4. Earlier(Len(Groups) + 1) = Steps
  <2>1. \A h \in DOMAIN Groups : h < Len(Groups) + 1
    BY <1>1
  <2> QED
    BY <2>1 DEF Earlier, Steps, At
<1> QED
  BY <1>2, <1>3, <1>4

-----------------------------------------------------------------------------
(* The completed steps. *)

\* They are in the order of the definition, each once.
InOrder(c) ==
  \A i, j \in DOMAIN c : i < j => Place(c[i]) <= Place(c[j]) /\ c[i] # c[j]

Longer(c, s, d) ==
  /\ Len(d) = Len(c) + 1 /\ DOMAIN d = DOMAIN c \union {Len(c) + 1}
  /\ Len(c) \in Nat /\ DOMAIN c = 1 .. Len(c)
  /\ d[Len(c) + 1] = s /\ \A i \in DOMAIN c : d[i] = c[i]
  /\ Range(d) = Range(c) \union {s}

LEMMA AppendRange ==
  ASSUME NEW S, NEW c \in Seq(S), NEW s \in S
  PROVE  Append(c, s) \in Seq(S) /\ Longer(c, s, Append(c, s))
<1> DEFINE d == Append(c, s)
<1>1. /\ d \in Seq(S) /\ Len(d) = Len(c) + 1 /\ Len(c) \in Nat /\ DOMAIN c = 1 .. Len(c)
      /\ DOMAIN d = 1 .. Len(c) + 1
      /\ d[Len(c) + 1] = s /\ \A i \in DOMAIN c : d[i] = c[i]
  OBVIOUS
<1> HIDE DEF d
<1>2. DOMAIN d = DOMAIN c \union {Len(c) + 1}
  BY <1>1
<1>3. Range(d) = Range(c) \union {s}
  BY <1>1, <1>2 DEF Range
<1>4. Longer(c, s, d)
  BY <1>1, <1>2, <1>3 DEF Longer
<1> QED
  BY <1>1, <1>4 DEF d

LEMMA AppendInOrder ==
  ASSUME NEW c \in Seq(Steps), InOrder(c), NEW s \in Steps, s \notin Range(c),
         \A t \in Range(c) : Place(t) <= Place(s),
         NEW d, d = Append(c, s)
  PROVE  InOrder(d) /\ d \in Seq(Steps) /\ Range(d) = Range(c) \union {s}
<1>0. d \in Seq(Steps) /\ Longer(c, s, d)
  BY AppendRange
<1>1. /\ d \in Seq(Steps) /\ DOMAIN d = DOMAIN c \union {Len(c) + 1} /\ Len(c) \in Nat
      /\ DOMAIN c = 1 .. Len(c)
      /\ d[Len(c) + 1] = s /\ \A i \in DOMAIN c : d[i] = c[i]
      /\ Range(d) = Range(c) \union {s}
  BY <1>0 DEF Longer
<1>2. \A i \in DOMAIN c : Place(c[i]) <= Place(s) /\ c[i] # s
  BY DEF Range
<1>3. \A i, j \in DOMAIN d : i < j =>
        i \in DOMAIN c /\ (j \in DOMAIN c \/ j = Len(c) + 1)
  BY <1>1
<1> QED
  BY <1>1, <1>2, <1>3 DEF InOrder

\* c is what is completed when, of a parallel group, the first n steps were looked at.
Looked(completed, g, done, n, c) ==
  /\ c \in Seq(Steps) /\ InOrder(c)
  /\ Range(c) = Range(completed) \union {At(g)[i] : i \in {k \in 1 .. n : At(g)[k] \in done}}

LEMMA CompletedWithAll ==
  ASSUME NEW g \in DOMAIN Groups, Groups[g].parallel, NEW done \in SUBSET Range(At(g)),
         NEW completed \in Seq(Steps), InOrder(completed), Range(completed) = Earlier(g),
         NEW c, c = CompletedWith(completed, At(g), done)
  PROVE  c \in Seq(Steps) /\ InOrder(c) /\ Range(c) = Range(completed) \union done
<1> DEFINE L == Len(At(g))
           Body(f, T) == IF T = {} THEN completed
                         ELSE IF At(g)[Max(T)] \in done
                              THEN Append(f[T \ {Max(T)}], At(g)[Max(T)])
                              ELSE f[T \ {Max(T)}]
           Solves(f, n) == f = [T \in SUBSET (1 .. n) |-> Body(f, T)]
<1>1. L \in Nat /\ DOMAIN At(g) = 1 .. L
  BY GroupFacts
<1> HIDE DEF L
<1>2. \A n \in Nat : \A T \in SUBSET (1 .. n) :
        T # {} => /\ n - 1 \in Nat /\ n # 0
                  /\ T \ {Max(T)} \in SUBSET (1 .. n - 1)
                  /\ T \ {Max(T)} \in SUBSET (1 .. n)
  <2> TAKE n \in Nat
  <2> TAKE T \in SUBSET (1 .. n)
  <2> SUFFICES ASSUME T # {}
               PROVE  /\ n - 1 \in Nat /\ n # 0
                      /\ T \ {Max(T)} \in SUBSET (1 .. n - 1)
                      /\ T \ {Max(T)} \in SUBSET (1 .. n)
    OBVIOUS
  <2>1. T \in SUBSET (0 .. n)
    OBVIOUS
  <2>2. PICK m \in T : m = Max(T) /\ \A y \in T : y <= m
    BY <2>1, MaxBounded
  <2>3. \A y \in T : y # m => y \in 1 .. n - 1
    BY <2>2
  <2>4. n - 1 \in Nat /\ n # 0
    BY <2>2
  <2> QED
    BY <2>2, <2>3, <2>4
<1>3. \A n \in Nat : \E f : Solves(f, n)
  <2> DEFINE N == {n \in Nat : ~ \E f : Solves(f, n)}
  <2> SUFFICES ASSUME N # {} PROVE FALSE
    <3> HIDE DEF Solves
    <3> QED
      OBVIOUS
  <2>1. PICK n \in N : \A m \in N : n <= m
    <3>1. N \in SUBSET Nat
      OBVIOUS
    <3> QED
      BY ONLY <3>1, N # {}, LeastNumber
  <2>2. n \in Nat /\ \A m \in Nat : m < n => \E f : Solves(f, m)
    <3> HIDE DEF Solves
    <3>1. \A m \in Nat : ~ (\E f : Solves(f, m)) => n <= m
      BY <2>1
    <3> QED
      BY <3>1
  <2>3. CASE n = 0
    <3> DEFINE h == [T \in SUBSET (1 .. 0) |-> completed]
    <3>1. \A T \in SUBSET (1 .. 0) : T = {}
      OBVIOUS
    <3>2. Solves(h, 0)
      BY <3>1
    <3> QED
      BY <3>2, <2>1, <2>3
  <2>4. CASE n # 0
    <3>1. n - 1 \in Nat /\ n - 1 < n
      BY <2>2, <2>4
    <3>2. PICK f : Solves(f, n - 1)
      BY <3>1, <2>2
    <3> DEFINE h == [T \in SUBSET (1 .. n) |->
                       IF T \in SUBSET (1 .. n - 1) THEN f[T] ELSE Body(f, T)]
    <3>3. \A T \in SUBSET (1 .. n) : T # {} => h[T \ {Max(T)}] = f[T \ {Max(T)}]
      BY <1>2, <2>2
    <3>4. \A T \in SUBSET (1 .. n - 1) : f[T] = Body(f, T)
      BY <3>2
    <3>5. \A T \in SUBSET (1 .. n) : h[T] = Body(f, T)
      <4> HIDE DEF Body
      <4> QED
        BY <3>4
    <3>6. \A T \in SUBSET (1 .. n) : h[T] = Body(h, T)
      <4> HIDE DEF h
      <4> QED
        BY <3>3, <3>5
    <3>7. Solves(h, n)
      <4>1. h = [T \in SUBSET (1 .. n) |-> h[T]]
        OBVIOUS
      <4> HIDE DEF h, Body
      <4> QED
        BY <4>1, <3>6
    <3> QED
      BY <3>7, <2>1
  <2> QED
    BY <2>3, <2>4
<1> DEFINE f == CHOOSE x : x = [T \in SUBSET (1 .. L) |-> Body(x, T)]
<1>4. f = [T \in SUBSET (1 .. L) |-> Body(f, T)]
  <2> HIDE DEF Body
  <2>1. \E x : x = [T \in SUBSET (1 .. L) |-> Body(x, T)]
    BY <1>1, <1>3
  <2> QED
    BY <2>1
<1>5. c = f[1 .. L]
  <2> DEFINE q == At(g)
  <2>1. DOMAIN q = 1 .. L
    BY <1>1
  <2>2. c = FoldLeft(LAMBDA x, s : IF s \in done THEN Append(x, s) ELSE x, completed, q)
    BY DEF CompletedWith
  <2> HIDE DEF q
  <2>3. c = (CHOOSE x : x = [T \in SUBSET (1 .. L) |->
                 IF T = {} THEN completed
                 ELSE IF q[Max(T)] \in done THEN Append(x[T \ {Max(T)}], q[Max(T)])
                      ELSE x[T \ {Max(T)}]])[1 .. L]
    BY <2>1, <2>2 DEF FoldLeft, MapThenFoldSet
  <2> QED
    BY <2>3 DEF q
<1> HIDE DEF f
<1>6. \A n \in 0 .. L : Looked(completed, g, done, n, f[1 .. n])
  <2> DEFINE N == {n \in 0 .. L : ~ Looked(completed, g, done, n, f[1 .. n])}
  <2> SUFFICES ASSUME N # {} PROVE FALSE
    OBVIOUS
  <2>1. PICK n \in N : \A m \in N : n <= m
    <3>1. N \in SUBSET Nat
      BY <1>1
    <3> QED
      BY ONLY <3>1, N # {}, LeastNumber
  <2>2. n \in 0 .. L /\ n \in Nat /\ ~ Looked(completed, g, done, n, f[1 .. n])
    BY <2>1, <1>1
  <2>3. CASE n = 0
    <3>1. f[1 .. 0] = completed
      BY <1>1, <1>4
    <3>2. {At(g)[i] : i \in {k \in 1 .. 0 : At(g)[k] \in done}} = {}
      OBVIOUS
    <3> QED
      BY <2>2, <2>3, <3>1, <3>2 DEF Looked
  <2>4. CASE n # 0
    <3>1. n - 1 \in 0 .. L /\ ~ (n <= n - 1) /\ n \in 1 .. L
      BY <1>1, <2>2, <2>4
    <3> DEFINE b == f[1 .. n - 1]
               s == At(g)[n]
    <3>2. Looked(completed, g, done, n - 1, b)
      <4> HIDE DEF b
      <4>1. ~ Looked(completed, g, done, n - 1, f[1 .. n - 1]) => n <= n - 1
        BY <2>1, <3>1
      <4> QED
        BY <3>1, <4>1 DEF b
    <3>3. f[1 .. n] = IF s \in done THEN Append(b, s) ELSE b
      <4>1. Max(1 .. n) = n
        <5>0. n \in Nat /\ n # 0
          BY <2>2, <2>4
        <5>1. n \in 1 .. n /\ \A x \in 1 .. n : x \in 0 .. n
          BY ONLY <5>0
        <5>2. PICK m : m = Max(1 .. n)
          OBVIOUS
        <5>3. m \in 1 .. n /\ n <= m
          BY <5>0, <5>1, <5>2, MaxBounded
        <5> QED
          BY <2>2, <5>2, <5>3
      <4>2. (1 .. n) \ {n} = 1 .. n - 1
        BY <2>2
      <4>3. 1 .. n \in SUBSET (1 .. L) /\ 1 .. n # {}
        <5>1. L \in Nat /\ n \in 1 .. L
          BY <1>1, <3>1
        <5>2. n \in 1 .. n /\ \A x \in 1 .. n : x \in 1 .. L
          BY ONLY <5>1
        <5> QED
          BY ONLY <5>2
      <4>4. f[1 .. n] = Body(f, 1 .. n)
        BY <1>4, <4>3
      <4> QED
        BY <4>1, <4>2, <4>3, <4>4
    <3>4. {k \in 1 .. n : At(g)[k] \in done} =
            {k \in 1 .. n - 1 : At(g)[k] \in done} \union (IF s \in done THEN {n} ELSE {})
      BY <3>1, <1>1
    <3>5. b \in Seq(Steps) /\ InOrder(b) /\ s \in Steps
          /\ Range(b) = Range(completed)
                        \union {At(g)[i] : i \in {k \in 1 .. n - 1 : At(g)[k] \in done}}
      BY <1>1, <3>1, <3>2, GroupFacts DEF Looked
    <3> HIDE DEF b
    <3>6. CASE s \notin done
      BY <2>2, <3>3, <3>4, <3>5, <3>6 DEF Looked
    <3>7. CASE s \in done
      <4>1. s \notin Range(b)
        <5>0. n \in DOMAIN At(g) /\ \A k \in 1 .. n - 1 : k \in DOMAIN At(g) /\ k # n
          BY <1>1, <3>1
        <5>1. s \notin Earlier(g)
          <6>1. \A h \in DOMAIN Groups : h < g => h # g
            BY GroupFacts
          <6> QED
            BY <5>0, <6>1, OnePlace DEF Earlier, Range
        <5>2. \A k \in 1 .. n - 1 : At(g)[k] # s
          BY <5>0, OnePlace
        <5> QED
          BY <3>5, <5>1, <5>2
      <4>2. \A t \in Range(b) : Place(t) <= Place(s)
        <5> TAKE t \in Range(b)
        <5>1. CASE t \in Earlier(g)
          <6>1. PICK h \in DOMAIN Groups : h < g /\ t \in Range(At(h))
            BY <5>1 DEF Earlier
          <6>2. PICK j \in DOMAIN At(h) : t = At(h)[j]
            BY <6>1 DEF Range
          <6>3. Place(t) \in Nat /\ Place(s) \in Nat /\ Place(t) < Place(s)
            BY <1>1, <3>1, <6>1, <6>2, PlaceOrder
          <6> QED
            BY <6>3
        <5>2. CASE t \notin Earlier(g)
          <6>1. PICK k \in 1 .. n - 1 : t = At(g)[k]
            BY <3>5, <5>2
          <6>2. Place(t) \in Nat /\ Place(t) = Place(s)
            BY <1>1, <3>1, <6>1, PlaceOrder
          <6> QED
            BY <6>2
        <5> QED
          BY <5>1, <5>2
      <4>3. f[1 .. n] = Append(b, s)
        BY <3>3, <3>7
      <4>4. /\ InOrder(f[1 .. n]) /\ f[1 .. n] \in Seq(Steps)
            /\ Range(f[1 .. n]) = Range(b) \union {s}
        BY <3>5, <4>1, <4>2, <4>3, AppendInOrder
      <4>5. {At(g)[i] : i \in {k \in 1 .. n : At(g)[k] \in done}} =
              {At(g)[i] : i \in {k \in 1 .. n - 1 : At(g)[k] \in done}} \union {s}
        BY <3>4, <3>7
      <4> QED
        BY <2>2, <3>5, <4>4, <4>5 DEF Looked
    <3> QED
      BY <3>6, <3>7
  <2> QED
    BY <2>3, <2>4
<1>7. L \in 0 .. L /\ Looked(completed, g, done, L, c)
  BY <1>1, <1>5, <1>6
<1>8. {At(g)[i] : i \in {k \in 1 .. L : At(g)[k] \in done}} = done
  BY <1>1 DEF Range
<1> QED
  BY <1>7, <1>8 DEF Looked

-----------------------------------------------------------------------------
(* The executions of ctx.app.workflows. *)

FlowRecords ==
  [at : {"none", "step", "parallel", "complete", "rollback", "end", "escaped"}, group : Nat,
   step : Nat, running : SUBSET Steps, fulfilled : SUBSET Steps, completed : Seq(Steps),
   undoing : SUBSET Nat, undone : SUBSET Steps, out : {"pending", "resolved", "rejected"}]

\* The steps of a sequential group before its step n.
Before(g, n) == {At(g)[i] : i \in 1 .. n - 1}

\* What was undone: what could be, of the completed steps the rollback is past.
Passed(f) ==
  {f.completed[i] : i \in {j \in DOMAIN f.completed :
                             j \notin f.undoing /\ f.completed[j] \in Undoable}}

FlowOK(f) ==
  /\ f \in FlowRecords
  /\ InOrder(f.completed)
  /\ f.at \notin {"end", "escaped"} => f.out = "pending"
  /\ f.at # "parallel" => f.running = {}
  /\ f.at \notin {"rollback", "end"} => f.undone = {}
  /\ f.at = "none" => Range(f.completed) = {} /\ f.fulfilled = {}
  /\ f.at = "step" =>
       /\ f.group \in DOMAIN Groups /\ ~ Groups[f.group].parallel
       /\ f.step \in DOMAIN At(f.group) /\ f.fulfilled = {}
       /\ Range(f.completed) = Earlier(f.group) \union Before(f.group, f.step)
  /\ f.at = "parallel" =>
       /\ f.group \in DOMAIN Groups /\ Groups[f.group].parallel
       /\ Range(f.completed) = Earlier(f.group)
       /\ f.running \in SUBSET Range(At(f.group)) /\ f.fulfilled \in SUBSET Range(At(f.group))
       /\ f.running \intersect f.fulfilled = {}
  /\ f.at = "complete" => Range(f.completed) = Steps
  /\ f.at = "rollback" =>
       /\ f.fulfilled \in SUBSET Range(f.completed)
       /\ f.undoing \in SUBSET DOMAIN f.completed
       /\ \A i \in f.undoing : f.completed[i] \in Undoable
       /\ f.undone = Passed(f)
  /\ f.at = "end" =>
       /\ f.out # "pending"
       /\ f.out = "rejected" /\ Applied(f) # Steps => Applied(f) \intersect Undoable = f.undone
  /\ f.at = "escaped" => f.out = "rejected"

\* A group begins, or the definition is through.
LEMMA EnterOK ==
  ASSUME NEW f \in FlowRecords, NEW g \in 1 .. Len(Groups) + 1,
         InOrder(f.completed), Range(f.completed) = Earlier(g), f.out = "pending",
         f.undone = {}, f.running = {}, f.fulfilled \in SUBSET Range(f.completed),
         NEW k, k = Enter(f, g)
  PROVE  /\ FlowOK(k) /\ k.at \in {"step", "parallel", "complete"}
         /\ Applied(k) = Applied(f) /\ k.undone = f.undone /\ k.out = f.out
<1>1. g \in Nat /\ (g > Len(Groups) <=> g \notin DOMAIN Groups) /\ Len(Groups) \in Nat
      /\ (g \notin DOMAIN Groups => g = Len(Groups) + 1)
  BY GroupFacts
<1>2. CASE g \notin DOMAIN Groups
  <2>1. k = [f EXCEPT !.at = "complete", !.group = g]
    BY <1>1, <1>2 DEF Enter
  <2>2. /\ k \in FlowRecords /\ k.at = "complete" /\ k.completed = f.completed
        /\ k.running = {} /\ k.fulfilled = f.fulfilled /\ k.undone = {} /\ k.out = "pending"
    BY <1>1, <2>1 DEF FlowRecords
  <2>3. Range(k.completed) = Steps
    BY <1>1, <1>2, <2>2, EarlierGrows
  <2> QED
    BY <2>2, <2>3 DEF FlowOK, Applied
<1>3. CASE g \in DOMAIN Groups
  <2>0. /\ Groups[g].parallel \in BOOLEAN /\ Range(At(g)) \in SUBSET Steps
        /\ (~ Groups[g].parallel => 1 \in DOMAIN At(g))
    <3>1. Groups[g].parallel \in BOOLEAN /\ (~ Groups[g].parallel => 1 \in DOMAIN At(g))
      BY <1>3, GroupFacts DEF Size
    <3>2. Range(At(g)) \in SUBSET Steps
      BY <1>3 DEF Steps, At
    <3> QED
      BY <3>1, <3>2
  <2>1. k = [f EXCEPT !.group = g,
                      !.at = IF Groups[g].parallel THEN "parallel" ELSE "step",
                      !.step = 1,
                      !.running = IF Groups[g].parallel THEN Range(At(g)) ELSE {},
                      !.fulfilled = {}]
    BY <1>1, <1>3 DEF Enter, At
  <2>2. /\ k \in FlowRecords /\ k.completed = f.completed
        /\ k.fulfilled = {} /\ k.undone = {} /\ k.out = "pending" /\ k.group = g /\ k.step = 1
        /\ k.at = (IF Groups[g].parallel THEN "parallel" ELSE "step")
        /\ k.running = (IF Groups[g].parallel THEN Range(At(g)) ELSE {})
    <3>1. PICK a \in {"parallel", "step"} : a = IF Groups[g].parallel THEN "parallel" ELSE "step"
      OBVIOUS
    <3>2. PICK r \in SUBSET Steps : r = IF Groups[g].parallel THEN Range(At(g)) ELSE {}
      BY <2>0
    <3>3. k = [f EXCEPT !.group = g, !.at = a, !.step = 1, !.running = r, !.fulfilled = {}]
      BY <2>1, <3>1, <3>2
    <3>4. /\ k \in FlowRecords /\ k.completed = f.completed
          /\ k.fulfilled = {} /\ k.undone = {} /\ k.out = "pending" /\ k.group = g /\ k.step = 1
          /\ k.at = a /\ k.running = r
      <4>1. k = [at |-> a, group |-> g, step |-> 1, running |-> r, fulfilled |-> {},
                 completed |-> f.completed, undoing |-> f.undoing, undone |-> f.undone,
                 out |-> f.out]
        BY <3>3 DEF FlowRecords
      <4>2. /\ a \in {"none", "step", "parallel", "complete", "rollback", "end", "escaped"}
            /\ g \in Nat /\ 1 \in Nat /\ {} \in SUBSET Steps
        BY <1>1, <3>1
      <4>3. /\ f.completed \in Seq(Steps) /\ f.undoing \in SUBSET Nat /\ f.undone \in SUBSET Steps
            /\ f.out \in {"pending", "resolved", "rejected"}
        BY DEF FlowRecords
      <4>4. k \in FlowRecords
        BY <4>1, <4>2, <4>3 DEF FlowRecords
      <4> QED
        BY <4>1, <4>4
    <3> QED
      BY <3>1, <3>2, <3>4
  <2>3. Before(g, 1) = {}
    BY DEF Before
  <2>4. FlowOK(k)
    BY <1>3, <2>0, <2>2, <2>3 DEF FlowOK
  <2>5. Applied(k) = Applied(f)
    BY <2>2 DEF Applied
  <2> QED
    BY <2>0, <2>2, <2>4, <2>5
<1> QED
  BY <1>2, <1>3

\* A rollback begins.
LEMMA RollbackOK ==
  ASSUME NEW f \in FlowRecords, InOrder(f.completed), f.out = "pending", f.undone = {},
         f.running = {}, f.fulfilled \in SUBSET Range(f.completed),
         NEW k, k = ExecuteRollbacks(f)
  PROVE  /\ FlowOK(k) /\ k.at = "rollback"
         /\ Applied(k) = Applied(f) /\ k.undone = f.undone /\ k.out = f.out
<1>1. DOMAIN f.completed \in SUBSET Nat
  BY DEF FlowRecords
<1>2. /\ k \in FlowRecords /\ k.at = "rollback" /\ k.completed = f.completed
      /\ k.running = {} /\ k.fulfilled = f.fulfilled /\ k.undone = {} /\ k.out = "pending"
      /\ k.undoing = {i \in DOMAIN f.completed : f.completed[i] \in Undoable}
  BY <1>1 DEF FlowRecords, ExecuteRollbacks
<1>3. Passed(k) = {}
  BY <1>2 DEF Passed
<1> QED
  BY <1>2, <1>3 DEF FlowOK, Applied

(* The steps of Saga, said of an execution before and after. *)
Same(f, k) == Applied(k) = Applied(f) /\ k.undone = f.undone

MoveBegin(f, k) ==
  PhaseOf(f.at) = "new" /\ PhaseOf(k.at) = "forward" /\ Same(f, k) /\ k.out = f.out

MoveAbort(f, k) ==
  PhaseOf(f.at) = "forward" /\ PhaseOf(k.at) = "backward" /\ Same(f, k) /\ k.out = f.out

MoveApply(f, k, s) ==
  /\ PhaseOf(f.at) = "forward" /\ PhaseOf(k.at) = "forward"
  /\ f.undone = {} /\ s \notin Applied(f)
  /\ \A t \in Steps : Place(t) < Place(s) => t \in Applied(f)
  /\ Applied(k) = Applied(f) \union {s} /\ k.undone = f.undone /\ k.out = f.out

ToUndo(f) == (Applied(f) \intersect Undoable) \ f.undone

MoveUndo(f, k, s) ==
  /\ PhaseOf(f.at) = "backward" /\ PhaseOf(k.at) = "backward"
  /\ s \in ToUndo(f) /\ \A t \in ToUndo(f) : Place(t) <= Place(s)
  /\ Applied(k) = Applied(f) /\ k.undone = f.undone \union {s} /\ k.out = f.out

MoveCommit(f, k) ==
  /\ PhaseOf(f.at) = "forward" /\ PhaseOf(k.at) = "done" /\ Same(f, k)
  /\ Applied(f) = Steps /\ f.out = "pending" /\ k.out = "resolved"

MoveFail(f, k) ==
  /\ \/ PhaseOf(f.at) = "forward" /\ Applied(f) = Steps
     \/ PhaseOf(f.at) = "backward" /\ ToUndo(f) = {}
  /\ PhaseOf(k.at) = "done" /\ Same(f, k) /\ f.out = "pending" /\ k.out = "rejected"

\* Execution e ends at a step that has been reached and has no handler.
MoveEscape(e, k) ==
  LET f == flow[e] IN
  /\ PhaseOf(f.at) = "forward"
  /\ \E s \in Unhandled(e) \ Applied(f) :
       \A t \in Steps : Place(t) < Place(s) => t \in Applied(f)
  /\ PhaseOf(k.at) = "done" /\ Same(f, k) /\ f.out = "pending" /\ k.out = "rejected"

MoveNothing(f, k) == PhaseOf(k.at) = PhaseOf(f.at) /\ Same(f, k) /\ k.out = f.out

Moves(f, k) ==
  \/ MoveBegin(f, k) \/ MoveAbort(f, k) \/ MoveCommit(f, k) \/ MoveFail(f, k)
  \/ MoveNothing(f, k) \/ \E s \in Steps : MoveApply(f, k, s) \/ MoveUndo(f, k, s)

PhasesMap == [e \in Execs |-> PhaseOf(flow[e].at)]
AppliedMap == [e \in Execs |-> Applied(flow[e])]
UndoneMap == [e \in Execs |-> flow[e].undone]
OutcomeMap == [e \in Execs |-> flow[e].out]

LEMMA MovesMap ==
  ASSUME NEW e \in Execs, flow \in [Execs -> FlowRecords], NEW k,
         flow' = [flow EXCEPT ![e] = k], Moves(flow[e], k) \/ MoveEscape(e, k)
  PROVE  [DirectSaga!Next]_DirectSaga!vars
<1> USE DEF PhasesMap, AppliedMap, UndoneMap, OutcomeMap
<1>0. flow'[e] = k /\ \A d \in Execs \ {e} : flow'[d] = flow[d]
  OBVIOUS
<1>a. /\ PhasesMap' = [PhasesMap EXCEPT ![e] = PhaseOf(k.at)]
      /\ AppliedMap' = [AppliedMap EXCEPT ![e] = Applied(k)]
      /\ UndoneMap' = [UndoneMap EXCEPT ![e] = k.undone]
      /\ OutcomeMap' = [OutcomeMap EXCEPT ![e] = k.out]
  BY <1>0
<1>b. /\ PhasesMap[e] = PhaseOf(flow[e].at) /\ AppliedMap[e] = Applied(flow[e])
      /\ UndoneMap[e] = flow[e].undone /\ OutcomeMap[e] = flow[e].out
  OBVIOUS
<1>c. /\ Same(flow[e], k) => AppliedMap' = AppliedMap /\ UndoneMap' = UndoneMap
      /\ PhaseOf(k.at) = PhaseOf(flow[e].at) => PhasesMap' = PhasesMap
      /\ k.out = flow[e].out => OutcomeMap' = OutcomeMap
      /\ Applied(k) = Applied(flow[e]) => AppliedMap' = AppliedMap
      /\ k.undone = flow[e].undone => UndoneMap' = UndoneMap
  BY <1>a, <1>b DEF Same
<1>1. ASSUME MoveBegin(flow[e], k) PROVE DirectSaga!Begin(e)
  BY <1>1, <1>a, <1>b, <1>c DEF MoveBegin, DirectSaga!Begin
<1>2. ASSUME MoveAbort(flow[e], k) PROVE DirectSaga!Abort(e)
  BY <1>2, <1>a, <1>b, <1>c DEF MoveAbort, DirectSaga!Abort
<1>3. ASSUME MoveCommit(flow[e], k) PROVE DirectSaga!Commit(e)
  BY <1>3, <1>a, <1>b, <1>c DEF MoveCommit, DirectSaga!Commit
<1>4. ASSUME MoveFail(flow[e], k) PROVE DirectSaga!Fail(e)
  BY <1>4, <1>a, <1>b, <1>c DEF MoveFail, ToUndo, DirectSaga!Fail, DirectSaga!Remaining
<1>8. ASSUME MoveEscape(e, k) PROVE DirectSaga!Fail(e)
  <2>1. [d \in Execs |-> Unhandled(d)][e] = Unhandled(e)
    OBVIOUS
  <2>2. PICK s \in Unhandled(e) \ Applied(flow[e]) :
          \A t \in Steps : Place(t) < Place(s) => t \in Applied(flow[e])
    BY <1>8 DEF MoveEscape
  <2>3. s \in Steps
    BY <2>2 DEF Unhandled
  <2>4. DirectSaga!Reached(e, s)
    BY <2>2, <2>3, <1>b DEF DirectSaga!Reached
  <2> QED
    BY <1>8, <1>a, <1>b, <1>c, <2>1, <2>2, <2>3, <2>4 DEF MoveEscape, DirectSaga!Fail
<1>5. ASSUME MoveNothing(flow[e], k) PROVE UNCHANGED DirectSaga!vars
  BY <1>5, <1>a, <1>b, <1>c DEF MoveNothing, DirectSaga!vars
<1>6. ASSUME NEW s \in Steps, MoveApply(flow[e], k, s) PROVE DirectSaga!Apply(e, s)
  BY <1>6, <1>a, <1>b, <1>c DEF MoveApply, DirectSaga!Apply, DirectSaga!Reached
<1>7. ASSUME NEW s \in Steps, MoveUndo(flow[e], k, s) PROVE DirectSaga!Undo(e, s)
  <2>1. Undoable \subseteq Steps
    BY GroupsAssumption
  <2> QED
    BY <1>7, <1>a, <1>b, <1>c, <2>1 DEF MoveUndo, ToUndo, DirectSaga!Undo, DirectSaga!Remaining
<1> QED
  BY <1>1, <1>2, <1>3, <1>4, <1>5, <1>6, <1>7, <1>8 DEF Moves, DirectSaga!Next

FlowType ==
  /\ flow \in [Execs -> FlowRecords] /\ \A e \in Execs : FlowOK(flow[e])
  /\ handle \in [Execs -> {"none", "running", "completed", "failed"}]

\* A step of execution e is a step of Saga, or none, and keeps what is known of e.
FlowMove(e) ==
  \E k : /\ flow' = [flow EXCEPT ![e] = k]
         /\ FlowOK(k) /\ (Moves(flow[e], k) \/ MoveEscape(e, k))

LEMMA ExecuteMoves ==
  ASSUME FlowType, NEW e \in Execs, Execute(e) PROVE FlowMove(e)
<1> DEFINE f == flow[e]
<1>1. f \in FlowRecords /\ FlowOK(f) /\ f.at = "none"
  BY DEF FlowType, Execute
<1>2. PICK k : k = Enter(f, 1) /\ flow' = [flow EXCEPT ![e] = k]
  BY DEF Execute
<1> HIDE DEF f
<1>3. /\ InOrder(f.completed) /\ Range(f.completed) = Earlier(1) /\ f.out = "pending"
      /\ f.undone = {} /\ f.running = {} /\ f.fulfilled \in SUBSET Range(f.completed)
      /\ 1 \in 1 .. Len(Groups) + 1
  <2>1. 1 \in 1 .. Len(Groups) + 1
    BY GroupFacts
  <2>2. Range(f.completed) = Earlier(1) /\ f.fulfilled \in SUBSET Range(f.completed)
    BY <1>1, EarlierGrows DEF FlowOK
  <2> QED
    BY <1>1, <2>1, <2>2 DEF FlowOK
<1>4. /\ FlowOK(k) /\ k.at \in {"step", "parallel", "complete"}
      /\ Applied(k) = Applied(f) /\ k.undone = f.undone /\ k.out = f.out
  BY <1>1, <1>2, <1>3, EnterOK
<1>5. MoveBegin(f, k)
  BY <1>1, <1>4 DEF MoveBegin, Same, PhaseOf
<1> QED
  BY <1>2, <1>4, <1>5 DEF FlowMove, Moves, f

\* A step of a sequential group is the next one of its place.
LEMMA StepPlace ==
  ASSUME NEW f, FlowOK(f), f.at = "step"
  PROVE  /\ Current(f) \in Steps /\ Current(f) \notin Range(f.completed)
         /\ \A t \in Range(f.completed) : Place(t) <= Place(Current(f))
         /\ \A t \in Steps : Place(t) < Place(Current(f)) => t \in Range(f.completed)
         /\ Current(f) = At(f.group)[f.step]
<1> DEFINE g == f.group
           n == f.step
           s == At(g)[n]
<1>1. /\ g \in DOMAIN Groups /\ ~ Groups[g].parallel /\ n \in DOMAIN At(g)
      /\ Range(f.completed) = Earlier(g) \union Before(g, n)
      /\ Current(f) = s
  BY DEF FlowOK, Current, At
<1> HIDE DEF g, n
<1>2. /\ s \in Steps /\ n \in Nat /\ DOMAIN At(g) = 1 .. Len(At(g)) /\ Len(At(g)) \in Nat
  BY <1>1, GroupFacts
<1>3. \A t \in Earlier(g) : \E h \in DOMAIN Groups, j \in Nat :
        h < g /\ j \in DOMAIN At(h) /\ t = At(h)[j]
  BY GroupFacts DEF Earlier, Range
<1>4. \A t \in Before(g, n) : \E j \in DOMAIN At(g) : j < n /\ t = At(g)[j]
  BY <1>1, <1>2 DEF Before
<1>5. \A t \in Earlier(g) : Place(t) < Place(s) /\ Place(t) \in Nat /\ t # s
  <2> TAKE t \in Earlier(g)
  <2>1. PICK h \in DOMAIN Groups, j \in Nat : h < g /\ j \in DOMAIN At(h) /\ t = At(h)[j]
    BY <1>3
  <2>2. Place(t) < Place(s) /\ Place(t) \in Nat
    BY <1>1, <2>1, PlaceOrder
  <2>3. h # g
    BY <1>1, <2>1, GroupFacts
  <2> QED
    BY <1>1, <2>1, <2>2, <2>3, OnePlace
<1>6. \A t \in Before(g, n) : Place(t) < Place(s) /\ Place(t) \in Nat /\ t # s
  <2> TAKE t \in Before(g, n)
  <2>1. PICK j \in DOMAIN At(g) : j < n /\ t = At(g)[j]
    BY <1>4
  <2>2. Place(t) < Place(s) /\ Place(t) \in Nat
    BY <1>1, <2>1, PlaceOrder
  <2> QED
    BY <1>1, <1>2, <2>1, <2>2, OnePlace
<1>7. Place(s) \in Nat
  BY <1>1, PlaceOrder
<1>8. ASSUME NEW t \in Steps, Place(t) < Place(s), t \notin Range(f.completed)
      PROVE  FALSE
  <2>1. PICK h \in DOMAIN Groups : \E j \in DOMAIN At(h) : t = At(h)[j]
    BY StepIs
  <2>2. PICK j \in DOMAIN At(h) : t = At(h)[j]
    BY <2>1
  <2>3. Place(t) \in Nat
    BY <2>2, PlaceOrder
  <2>4. ~ (g < h)
    BY <1>1, <1>7, <1>8, <2>2, <2>3, PlaceOrder
  <2>5. ~ (h < g)
    BY <1>1, <1>8, <2>2 DEF Earlier, Range
  <2>6. h = g
    BY <1>1, <2>4, <2>5, GroupFacts
  <2>7. j < n
    BY <1>1, <1>8, <2>2, <2>6, PlaceOrder
  <2>8. t \in Before(g, n)
    BY <1>2, <2>2, <2>6, <2>7 DEF Before
  <2> QED
    BY <1>1, <1>8, <2>8
<1>9. \A t \in Range(f.completed) : Place(t) <= Place(s) /\ t # s
  BY <1>1, <1>5, <1>6, <1>7
<1> QED
  BY <1>1, <1>2, <1>8, <1>9 DEF g, n

\* A step without a handler ends the execution where it is.
LEMMA HandlerMissingMoves ==
  ASSUME FlowType, NEW e \in Execs, HandlerMissing(e) PROVE FlowMove(e)
<1> DEFINE f == flow[e]
           s == Current(f)
<1>1. f \in FlowRecords /\ FlowOK(f) /\ f.at = "step" /\ s \notin Handled[e]
  BY DEF FlowType, HandlerMissing
<1>2. PICK k : /\ k = [f EXCEPT !.at = "escaped", !.out = "rejected"]
               /\ flow' = [flow EXCEPT ![e] = k]
  BY <1>1 DEF HandlerMissing
<1>3. /\ s \in Steps /\ s \notin Range(f.completed) /\ s = At(f.group)[f.step]
      /\ \A t \in Steps : Place(t) < Place(s) => t \in Range(f.completed)
  BY <1>1, StepPlace
<1>4. /\ f.group \in DOMAIN Groups /\ ~ Groups[f.group].parallel
      /\ f.step \in DOMAIN At(f.group) /\ f.fulfilled = {} /\ f.running = {} /\ f.undone = {}
      /\ f.out = "pending" /\ InOrder(f.completed)
  BY <1>1 DEF FlowOK
<1> HIDE DEF f, s
<1>5. s \in Unhandled(e)
  <2>1. s \in Range(Groups[f.group].steps)
    BY <1>3, <1>4 DEF Range, At
  <2> QED
    BY <1>1, <1>3, <1>4, <2>1 DEF Unhandled
<1>6. /\ k \in FlowRecords /\ k.at = "escaped" /\ k.out = "rejected" /\ k.completed = f.completed
      /\ k.fulfilled = f.fulfilled /\ k.undone = f.undone /\ k.running = f.running
  BY <1>1, <1>2 DEF FlowRecords
<1>7. FlowOK(k)
  BY <1>4, <1>6 DEF FlowOK
<1>8. Applied(f) = Range(f.completed) /\ Same(f, k)
  BY <1>4, <1>6 DEF Applied, Same
<1>9. PhaseOf(f.at) = "forward" /\ PhaseOf(k.at) = "done"
  BY <1>1, <1>6 DEF PhaseOf
<1>10. MoveEscape(e, k)
  BY <1>3, <1>4, <1>5, <1>6, <1>8, <1>9 DEF MoveEscape, f
<1> QED
  BY <1>2, <1>7, <1>10 DEF FlowMove

LEMMA StepEndsMoves ==
  ASSUME FlowType, NEW e \in Execs, StepEnds(e) PROVE FlowMove(e)
<1> DEFINE f == flow[e]
           g == f.group
           n == f.step
           s == Current(f)
           d == Append(f.completed, s)
           b == [f EXCEPT !.completed = d]
<1>1. f \in FlowRecords /\ FlowOK(f) /\ f.at = "step"
  BY DEF FlowType, StepEnds
<1>2. PICK k : /\ k = (IF n < Len(At(g)) THEN [b EXCEPT !.step = n + 1] ELSE Enter(b, g + 1))
               /\ flow' = [flow EXCEPT ![e] = k]
  BY <1>1 DEF StepEnds, At, FlowRecords
<1> HIDE DEF f
<1>3. /\ s \in Steps /\ s \notin Range(f.completed) /\ s = At(g)[n]
      /\ \A t \in Range(f.completed) : Place(t) <= Place(s)
      /\ \A t \in Steps : Place(t) < Place(s) => t \in Range(f.completed)
  BY <1>1, StepPlace
<1> HIDE DEF s
<1>4. f.completed \in Seq(Steps) /\ InOrder(f.completed)
  BY <1>1 DEF FlowOK, FlowRecords
<1>5. InOrder(d) /\ d \in Seq(Steps) /\ Range(d) = Range(f.completed) \union {s}
  BY <1>3, <1>4, AppendInOrder
<1> HIDE DEF d
<1>6. /\ b \in FlowRecords /\ b.completed = d /\ b.at = "step" /\ b.group = g /\ b.step = n
      /\ b.running = {} /\ b.fulfilled = {} /\ b.undone = {} /\ b.out = "pending"
  BY <1>1, <1>5 DEF FlowRecords, FlowOK
<1> HIDE DEF b
<1>7. /\ g \in DOMAIN Groups /\ ~ Groups[g].parallel /\ n \in DOMAIN At(g)
      /\ Range(f.completed) = Earlier(g) \union Before(g, n) /\ f.fulfilled = {}
      /\ f.undone = {} /\ f.out = "pending"
  BY <1>1 DEF FlowOK
<1> HIDE DEF g, n
<1>8. n \in Nat /\ Len(At(g)) \in Nat /\ DOMAIN At(g) = 1 .. Len(At(g)) /\ g \in Nat
      /\ Len(Groups) \in Nat /\ DOMAIN Groups = 1 .. Len(Groups)
  BY <1>7, GroupFacts
<1>9. Before(g, n + 1) = Before(g, n) \union {s}
  <2>1. \A i : i \in 1 .. (n + 1) - 1 <=> i \in 1 .. n - 1 \/ i = n
    BY <1>7, <1>8
  <2> QED
    BY <1>3, <2>1 DEF Before
<1>10. Applied(f) = Range(f.completed) /\ Applied(b) = Range(d)
  BY <1>6, <1>7 DEF Applied
<1>11. /\ FlowOK(k) /\ k.at \in {"step", "parallel", "complete"}
       /\ Applied(k) = Range(d) /\ k.undone = {} /\ k.out = "pending"
  <2>1. CASE n < Len(At(g))
    <3>1. k = [b EXCEPT !.step = n + 1]
      BY <1>2, <2>1
    <3>2. /\ k \in FlowRecords /\ k.completed = d /\ k.at = "step" /\ k.group = g
          /\ k.step = n + 1 /\ k.running = {} /\ k.fulfilled = {} /\ k.undone = {}
          /\ k.out = "pending"
      <4>1. k = [at |-> b.at, group |-> b.group, step |-> n + 1, running |-> b.running,
                 fulfilled |-> b.fulfilled, completed |-> b.completed, undoing |-> b.undoing,
                 undone |-> b.undone, out |-> b.out]
        BY <1>6, <3>1 DEF FlowRecords
      <4>2. n + 1 \in Nat
        BY <1>8
      <4>3. k \in FlowRecords
        BY <1>6, <4>1, <4>2 DEF FlowRecords
      <4> QED
        BY <1>6, <4>1, <4>3
    <3>3. n + 1 \in DOMAIN At(g)
      BY <1>7, <1>8, <2>1
    <3>4. Range(d) = Earlier(g) \union Before(g, n + 1)
      BY <1>5, <1>7, <1>9
    <3>5. FlowOK(k)
      BY <1>5, <1>7, <3>2, <3>3, <3>4 DEF FlowOK
    <3> QED
      BY <3>2, <3>5 DEF Applied
  <2>2. CASE ~ (n < Len(At(g)))
    <3>1. k = Enter(b, g + 1)
      BY <1>2, <2>2
    <3>2. g + 1 \in 1 .. Len(Groups) + 1
      BY <1>7, <1>8
    <3>3. Before(g, n + 1) = Range(At(g))
      <4>0. n = Len(At(g)) /\ (n + 1) - 1 = n
        <5>1. n \in 1 .. Len(At(g)) /\ Len(At(g)) \in Nat
          BY <1>7, <1>8
        <5> QED
          BY <5>1, <2>2
      <4>1. 1 .. (n + 1) - 1 = DOMAIN At(g)
        BY <1>8, <4>0
      <4> QED
        BY <4>1 DEF Before, Range
    <3>4. Range(b.completed) = Earlier(g + 1)
      <4>1. Earlier(g + 1) = Earlier(g) \union Range(At(g))
        BY <1>7, EarlierGrows
      <4>2. Range(d) = (Earlier(g) \union Before(g, n)) \union {s}
        BY <1>5, <1>7
      <4> QED
        BY <1>6, <1>9, <3>3, <4>1, <4>2
    <3>5. InOrder(b.completed) /\ b.fulfilled \in SUBSET Range(b.completed)
      BY <1>5, <1>6
    <3> QED
      BY <1>6, <1>10, <3>1, <3>2, <3>4, <3>5, EnterOK
  <2> QED
    BY <2>1, <2>2
<1>12. PhaseOf(f.at) = "forward" /\ PhaseOf(k.at) = "forward"
  BY <1>1, <1>11 DEF PhaseOf
<1>13. MoveApply(f, k, s)
  BY <1>3, <1>5, <1>7, <1>10, <1>11, <1>12 DEF MoveApply
<1> QED
  BY <1>2, <1>3, <1>11, <1>13 DEF FlowMove, Moves, f

LEMMA StepFailsMoves ==
  ASSUME FlowType, NEW e \in Execs, StepFails(e) PROVE FlowMove(e)
<1> DEFINE f == flow[e]
<1>1. f \in FlowRecords /\ FlowOK(f) /\ f.at = "step"
  BY DEF FlowType, StepFails
<1>2. PICK k : k = ExecuteRollbacks(f) /\ flow' = [flow EXCEPT ![e] = k]
  BY DEF StepFails
<1> HIDE DEF f
<1>3. /\ InOrder(f.completed) /\ f.out = "pending" /\ f.undone = {}
      /\ f.running = {} /\ f.fulfilled \in SUBSET Range(f.completed)
  BY <1>1 DEF FlowOK
<1>4. /\ FlowOK(k) /\ k.at = "rollback"
      /\ Applied(k) = Applied(f) /\ k.undone = f.undone /\ k.out = f.out
  BY <1>1, <1>2, <1>3, RollbackOK
<1>5. MoveAbort(f, k)
  BY <1>1, <1>4 DEF MoveAbort, Same, PhaseOf
<1> QED
  BY <1>2, <1>4, <1>5 DEF FlowMove, Moves, f

LEMMA SettlesMoves ==
  ASSUME FlowType, NEW e \in Execs, NEW s \in Steps, NEW ok \in BOOLEAN, Settles(e, s, ok)
  PROVE  FlowMove(e)
<1> DEFINE f == flow[e]
           done == IF ok THEN f.fulfilled \union {s} ELSE f.fulfilled
<1>1. f \in FlowRecords /\ FlowOK(f) /\ s \in f.running /\ f.at = "parallel"
  BY DEF FlowType, Settles, FlowOK
<1>2. PICK k : /\ k = [f EXCEPT !.running = f.running \ {s}, !.fulfilled = done]
               /\ flow' = [flow EXCEPT ![e] = k]
  BY <1>1 DEF Settles, FlowRecords
<1> HIDE DEF f
<1>3. done \in SUBSET Steps
  BY <1>1 DEF FlowRecords
<1> HIDE DEF done
<1>4. /\ k \in FlowRecords /\ k.at = "parallel" /\ k.group = f.group
      /\ k.completed = f.completed /\ k.running = f.running \ {s} /\ k.fulfilled = done
      /\ k.undone = f.undone /\ k.out = f.out
  BY <1>1, <1>2, <1>3 DEF FlowRecords
<1>5. /\ f.group \in DOMAIN Groups /\ Groups[f.group].parallel
      /\ Range(f.completed) = Earlier(f.group)
      /\ f.running \in SUBSET Range(At(f.group)) /\ f.fulfilled \in SUBSET Range(At(f.group))
      /\ f.running \intersect f.fulfilled = {} /\ f.undone = {} /\ InOrder(f.completed)
      /\ f.out = "pending"
  BY <1>1 DEF FlowOK
<1>6. done \in SUBSET Range(At(f.group)) /\ (f.running \ {s}) \intersect done = {}
  BY <1>1, <1>5 DEF done
<1>7. FlowOK(k)
  BY <1>4, <1>5, <1>6 DEF FlowOK
<1>8. PhaseOf(f.at) = "forward" /\ PhaseOf(k.at) = "forward"
  BY <1>1, <1>4 DEF PhaseOf
<1>9. Applied(k) = Range(f.completed) \union done
  BY <1>4 DEF Applied
<1>10. CASE ~ ok
  <2>1. Same(f, k)
    BY <1>4, <1>9, <1>10 DEF done, Applied, Same
  <2>2. MoveNothing(f, k)
    BY <1>4, <1>8, <2>1 DEF MoveNothing
  <2> QED
    BY <1>2, <1>7, <2>2 DEF FlowMove, Moves, f
<1>11. CASE ok
  <2>1. Applied(k) = Applied(f) \union {s}
    BY <1>9, <1>11 DEF Applied, done
  <2>2. PICK i \in DOMAIN At(f.group) : s = At(f.group)[i]
    BY <1>1, <1>5 DEF Range
  <2>3. s \notin Earlier(f.group)
    <3>1. \A h \in DOMAIN Groups : h < f.group => h # f.group
      BY <1>5, GroupFacts
    <3> QED
      BY <1>5, <2>2, <3>1, OnePlace DEF Earlier, Range
  <2>4. s \notin Applied(f)
    BY <1>1, <1>5, <2>3 DEF Applied
  <2>5. ASSUME NEW t \in Steps, Place(t) < Place(s) PROVE t \in Applied(f)
    <3>1. PICK h \in DOMAIN Groups : \E j \in DOMAIN At(h) : t = At(h)[j]
      BY StepIs
    <3>2. PICK j \in DOMAIN At(h) : t = At(h)[j]
      BY <3>1
    <3>3. Place(t) \in Nat /\ Place(s) \in Nat
      BY <1>5, <2>2, <3>2, PlaceOrder
    <3>4. h # f.group
      BY <1>5, <2>2, <2>5, <3>2, <3>3, PlaceOrder
    <3>5. ~ (f.group < h)
      BY <1>5, <2>2, <2>5, <3>2, <3>3, PlaceOrder
    <3>6. h < f.group
      BY <1>5, <3>4, <3>5, GroupFacts
    <3> QED
      BY <1>5, <3>2, <3>6 DEF Applied, Earlier, Range
  <2>6. MoveApply(f, k, s)
    BY <1>4, <1>5, <1>8, <2>1, <2>4, <2>5 DEF MoveApply
  <2> QED
    BY <1>2, <1>7, <2>6 DEF FlowMove, Moves, f
<1> QED
  BY <1>10, <1>11

LEMMA AllSettledMoves ==
  ASSUME FlowType, NEW e \in Execs, AllSettled(e) PROVE FlowMove(e)
<1> DEFINE f == flow[e]
           g == f.group
           done == f.fulfilled
<1>1. f \in FlowRecords /\ FlowOK(f) /\ f.at = "parallel" /\ f.running = {}
  BY DEF FlowType, AllSettled
<1>2. PICK c : c = CompletedWith(f.completed, At(g), done)
  OBVIOUS
<1> DEFINE b == [f EXCEPT !.completed = c]
<1>3. PICK k : /\ k = IF done = Range(At(g)) THEN Enter(b, g + 1) ELSE ExecuteRollbacks(b)
               /\ flow' = [flow EXCEPT ![e] = k]
  BY <1>1, <1>2 DEF AllSettled, At, FlowRecords
<1> HIDE DEF f
<1>4. /\ g \in DOMAIN Groups /\ Groups[g].parallel /\ Range(f.completed) = Earlier(g)
      /\ done \in SUBSET Range(At(g)) /\ f.undone = {} /\ f.out = "pending"
      /\ InOrder(f.completed) /\ f.completed \in Seq(Steps)
  BY <1>1 DEF FlowOK, FlowRecords
<1>5. c \in Seq(Steps) /\ InOrder(c) /\ Range(c) = Range(f.completed) \union done
  <2> DEFINE d == f.completed
  <2>1. /\ d \in Seq(Steps) /\ InOrder(d) /\ Range(d) = Earlier(g)
        /\ g \in DOMAIN Groups /\ Groups[g].parallel /\ done \in SUBSET Range(At(g))
        /\ c = CompletedWith(d, At(g), done)
    BY <1>2, <1>4
  <2> HIDE DEF d, g, done
  <2>2. c \in Seq(Steps) /\ InOrder(c) /\ Range(c) = Range(d) \union done
    BY ONLY <2>1, CompletedWithAll
  <2> QED
    BY <2>2 DEF d
<1>6. /\ b \in FlowRecords /\ b.completed = c /\ b.fulfilled = done /\ b.running = {}
      /\ b.undone = {} /\ b.out = "pending" /\ Applied(b) = Applied(f)
  BY <1>1, <1>4, <1>5 DEF FlowRecords, Applied
<1> HIDE DEF b, g, done
<1>7. PhaseOf(f.at) = "forward"
  BY <1>1 DEF PhaseOf
<1>8. CASE done = Range(At(g))
  <2>1. k = Enter(b, g + 1)
    BY <1>3, <1>8
  <2>2. g + 1 \in 1 .. Len(Groups) + 1
    BY <1>4, GroupFacts
  <2>3. Range(b.completed) = Earlier(g + 1)
    <3>1. Earlier(g + 1) = Earlier(g) \union Range(At(g))
      BY <1>4, EarlierGrows
    <3> QED
      BY <1>4, <1>5, <1>6, <1>8, <3>1
  <2>4. InOrder(b.completed) /\ b.fulfilled \in SUBSET Range(b.completed)
    BY <1>5, <1>6
  <2>5. /\ FlowOK(k) /\ k.at \in {"step", "parallel", "complete"}
        /\ Applied(k) = Applied(b) /\ k.undone = b.undone /\ k.out = b.out
    BY <1>6, <2>1, <2>2, <2>3, <2>4, EnterOK
  <2>6. PhaseOf(k.at) = "forward"
    BY <2>5 DEF PhaseOf
  <2>7. MoveNothing(f, k)
    BY <1>4, <1>6, <1>7, <2>5, <2>6 DEF MoveNothing, Same
  <2> QED
    BY <1>3, <2>5, <2>7 DEF FlowMove, Moves, f
<1>9. CASE done # Range(At(g))
  <2>1. k = ExecuteRollbacks(b)
    BY <1>3, <1>9
  <2>2. InOrder(b.completed) /\ b.fulfilled \in SUBSET Range(b.completed)
    BY <1>5, <1>6
  <2>3. /\ FlowOK(k) /\ k.at = "rollback"
        /\ Applied(k) = Applied(b) /\ k.undone = b.undone /\ k.out = b.out
    BY <1>6, <2>1, <2>2, RollbackOK
  <2>4. MoveAbort(f, k)
    BY <1>4, <1>6, <1>7, <2>3 DEF MoveAbort, Same, PhaseOf
  <2> QED
    BY <1>3, <2>3, <2>4 DEF FlowMove, Moves, f
<1> QED
  BY <1>8, <1>9

LEMMA RollbackEndsMoves ==
  ASSUME FlowType, NEW e \in Execs, RollbackEnds(e) PROVE FlowMove(e)
<1> DEFINE f == flow[e]
           c == f.completed
<1>1. f \in FlowRecords /\ FlowOK(f) /\ f.at = "rollback" /\ f.undoing # {}
  BY DEF FlowType, RollbackEnds
<1>2. PICK i : i = Max(f.undoing)
  OBVIOUS
<1>3. PICK k : /\ k = [f EXCEPT !.undone = @ \union {c[i]}, !.undoing = @ \ {i}]
               /\ flow' = [flow EXCEPT ![e] = k]
  BY <1>2 DEF RollbackEnds, UndoneAt
<1> HIDE DEF f
<1>4. /\ c \in Seq(Steps) /\ f.fulfilled \in SUBSET Range(c) /\ f.undoing \in SUBSET DOMAIN c
      /\ (\A j \in f.undoing : c[j] \in Undoable) /\ f.undone = Passed(f) /\ InOrder(c)
      /\ f.running = {} /\ f.out = "pending"
  BY <1>1 DEF FlowOK, FlowRecords
<1>5. Len(c) \in Nat /\ DOMAIN c = 1 .. Len(c) /\ f.undoing \in SUBSET (0 .. Len(c))
  BY <1>4
<1>6. i \in f.undoing /\ \A j \in f.undoing : j <= i
  BY <1>1, <1>2, <1>5, MaxBounded
<1>7. i \in DOMAIN c /\ c[i] \in Steps /\ c[i] \in Undoable
  BY <1>4, <1>6
<1>8. /\ k \in FlowRecords /\ k.at = "rollback" /\ k.completed = c /\ k.running = {}
      /\ k.fulfilled = f.fulfilled /\ k.out = "pending"
      /\ k.undone = f.undone \union {c[i]} /\ k.undoing = f.undoing \ {i}
  BY <1>1, <1>3, <1>4, <1>7 DEF FlowRecords
<1>9. k.undone = Passed(k)
  <2>1. \A j : j \in DOMAIN c /\ j \notin k.undoing <=> j \in DOMAIN c /\ (j \notin f.undoing \/ j = i)
    BY <1>8
  <2>2. Passed(k) = Passed(f) \union {c[i]}
    BY <1>7, <1>8, <2>1 DEF Passed
  <2> QED
    BY <1>4, <1>8, <2>2
<1>10. FlowOK(k)
  <2>1. k.undoing \in SUBSET DOMAIN c /\ \A j \in k.undoing : c[j] \in Undoable
    BY <1>4, <1>8
  <2> QED
    BY <1>4, <1>8, <1>9, <2>1 DEF FlowOK
<1>11. \A j, m \in DOMAIN c : c[j] = c[m] => j = m
  BY <1>4, <1>5 DEF InOrder
<1>12. Applied(f) = Range(c) /\ Applied(k) = Range(c)
  BY <1>4, <1>8 DEF Applied
<1>13. ToUndo(f) = {c[j] : j \in f.undoing}
  <2>1. ASSUME NEW t \in ToUndo(f) PROVE t \in {c[j] : j \in f.undoing}
    <3>1. t \in Range(c) /\ t \in Undoable /\ t \notin Passed(f)
      BY <1>4, <1>12, <2>1 DEF ToUndo
    <3>2. PICK j \in DOMAIN c : t = c[j]
      BY <3>1 DEF Range
    <3> QED
      BY <3>1, <3>2 DEF Passed
  <2>2. ASSUME NEW j \in f.undoing PROVE c[j] \in ToUndo(f)
    <3>1. c[j] \in Range(c) /\ c[j] \in Undoable
      BY <1>4 DEF Range
    <3>2. c[j] \notin Passed(f)
      BY <1>4, <1>11 DEF Passed
    <3> QED
      BY <1>4, <1>12, <3>1, <3>2 DEF ToUndo
  <2> QED
    BY <2>1, <2>2
<1>14. \A t \in ToUndo(f) : Place(t) <= Place(c[i])
  <2> TAKE t \in ToUndo(f)
  <2>1. PICK j \in f.undoing : t = c[j]
    BY <1>13
  <2>2. CASE j = i
    <3>1. PICK g \in DOMAIN Groups : \E n \in DOMAIN At(g) : c[i] = At(g)[n]
      BY <1>7, StepIs
    <3>2. Place(c[i]) \in Nat
      BY <3>1, PlaceOrder
    <3> QED
      BY <2>1, <2>2, <3>2
  <2>3. CASE j # i
    BY <1>4, <1>5, <1>6, <2>1, <2>3 DEF InOrder
  <2> QED
    BY <2>2, <2>3
<1>15. PhaseOf(f.at) = "backward" /\ PhaseOf(k.at) = "backward"
  BY <1>1, <1>8 DEF PhaseOf
<1>16. MoveUndo(f, k, c[i])
  BY <1>4, <1>6, <1>8, <1>12, <1>13, <1>14, <1>15 DEF MoveUndo
<1> QED
  BY <1>3, <1>7, <1>10, <1>16 DEF FlowMove, Moves, f

LEMMA RethrownMoves ==
  ASSUME FlowType, NEW e \in Execs, Rethrown(e) PROVE FlowMove(e)
<1> DEFINE f == flow[e]
<1>1. f \in FlowRecords /\ FlowOK(f) /\ f.at = "rollback" /\ f.undoing = {}
  BY DEF FlowType, Rethrown
<1>2. PICK k : /\ k = [f EXCEPT !.at = "end", !.out = "rejected"]
               /\ flow' = [flow EXCEPT ![e] = k]
  BY <1>1 DEF Rethrown
<1> HIDE DEF f
<1>3. /\ k \in FlowRecords /\ k.at = "end" /\ k.out = "rejected" /\ k.completed = f.completed
      /\ k.fulfilled = f.fulfilled /\ k.undone = f.undone /\ k.running = f.running
  BY <1>1, <1>2 DEF FlowRecords
<1>4. /\ f.fulfilled \in SUBSET Range(f.completed) /\ f.undone = Passed(f)
      /\ InOrder(f.completed) /\ f.running = {} /\ f.out = "pending"
  BY <1>1 DEF FlowOK
<1>5. Applied(f) = Range(f.completed) /\ Applied(k) = Applied(f)
  BY <1>3, <1>4 DEF Applied
<1>6. Passed(f) = Applied(f) \intersect Undoable
  BY <1>1, <1>5 DEF Passed, Range
<1>7. FlowOK(k)
  BY <1>3, <1>4, <1>5, <1>6 DEF FlowOK
<1>8. PhaseOf(f.at) = "backward" /\ PhaseOf(k.at) = "done"
  BY <1>1, <1>3 DEF PhaseOf
<1>9. MoveFail(f, k)
  BY <1>3, <1>4, <1>5, <1>6, <1>8 DEF MoveFail, ToUndo, Same
<1> QED
  BY <1>2, <1>7, <1>9 DEF FlowMove, Moves, f

LEMMA CompletesMoves ==
  ASSUME FlowType, NEW e \in Execs, NEW ok \in BOOLEAN, Completes(e, ok) PROVE FlowMove(e)
<1> DEFINE f == flow[e]
<1>1. f \in FlowRecords /\ FlowOK(f) /\ f.at = "complete"
  BY DEF FlowType, Completes
<1>2. PICK out \in {"resolved", "rejected"} : out = IF ok THEN "resolved" ELSE "rejected"
  OBVIOUS
<1>3. PICK k : /\ k = [f EXCEPT !.at = "end", !.out = out]
               /\ flow' = [flow EXCEPT ![e] = k]
  BY <1>1, <1>2 DEF Completes
<1> HIDE DEF f
<1>4. /\ k \in FlowRecords /\ k.at = "end" /\ k.out = out /\ k.completed = f.completed
      /\ k.fulfilled = f.fulfilled /\ k.undone = f.undone /\ k.running = f.running
  BY <1>1, <1>3 DEF FlowRecords
<1>5. /\ Range(f.completed) = Steps /\ InOrder(f.completed) /\ f.running = {}
      /\ f.out = "pending" /\ f.fulfilled \in SUBSET Steps
  BY <1>1 DEF FlowOK, FlowRecords
<1>6. Applied(f) = Steps /\ Applied(k) = Steps
  BY <1>4, <1>5 DEF Applied
<1>7. FlowOK(k)
  BY <1>2, <1>4, <1>5, <1>6 DEF FlowOK
<1>8. PhaseOf(f.at) = "forward" /\ PhaseOf(k.at) = "done"
  BY <1>1, <1>4 DEF PhaseOf
<1>9. MoveCommit(f, k) \/ MoveFail(f, k)
  BY <1>2, <1>4, <1>5, <1>6, <1>8 DEF MoveCommit, MoveFail, Same
<1> QED
  BY <1>3, <1>7, <1>9 DEF FlowMove, Moves, f

LEMMA MoveKeeps ==
  ASSUME FlowType, NEW e \in Execs, FlowMove(e)
  PROVE  /\ flow' \in [Execs -> FlowRecords] /\ \A d \in Execs : FlowOK(flow'[d])
         /\ [DirectSaga!Next]_DirectSaga!vars
         /\ \A d \in Execs \ {e} : flow'[d] = flow[d]
<1>1. PICK k : /\ flow' = [flow EXCEPT ![e] = k] /\ FlowOK(k)
               /\ Moves(flow[e], k) \/ MoveEscape(e, k)
  BY DEF FlowMove
<1>2. k \in FlowRecords
  BY <1>1 DEF FlowOK
<1>3. [DirectSaga!Next]_DirectSaga!vars
  BY <1>1, MovesMap DEF FlowType
<1> QED
  BY <1>1, <1>2, <1>3 DEF FlowType

\* What is over has no further step.
AtRest(e) == ~ Pending(e)

Stays(e) == flow'[e] = flow[e] /\ handle'[e] = handle[e]

LEMMA FlowStepKeeps ==
  ASSUME FlowType, NEW e \in Execs, FlowStep(e)
  PROVE  /\ FlowType' /\ [DirectSaga!Next]_DirectSaga!vars
         /\ \A d \in Execs : AtRest(d) => Stays(d)
<1>1. CASE \E ok \in BOOLEAN : BoundCompletes(e, ok)
  <2>1. PICK ok \in BOOLEAN : BoundCompletes(e, ok)
    BY <1>1
  <2>2. /\ flow' = flow /\ handle[e] = "running"
        /\ handle' = [handle EXCEPT ![e] = IF ok THEN "completed" ELSE "failed"]
    BY <2>1 DEF BoundCompletes
  <2>3. FlowType'
    BY <2>2 DEF FlowType
  <2>4. UNCHANGED DirectSaga!vars
    BY <2>2 DEF DirectSaga!vars
  <2>5. \A d \in Execs : AtRest(d) => Stays(d)
    BY <2>2 DEF AtRest, Pending, Stays, FlowType
  <2> QED
    BY <2>3, <2>4, <2>5
<1>2. CASE \/ HandlerMissing(e) \/ StepEnds(e) \/ StepFails(e) \/ AllSettled(e)
           \/ \E s \in Steps, ok \in BOOLEAN : Settles(e, s, ok)
           \/ RollbackEnds(e) \/ Rethrown(e) \/ \E ok \in BOOLEAN : Completes(e, ok)
  <2>1. FlowMove(e)
    BY <1>2, HandlerMissingMoves, StepEndsMoves, StepFailsMoves, AllSettledMoves, SettlesMoves,
       RollbackEndsMoves, RethrownMoves, CompletesMoves
  <2>2. flow[e].at \notin {"none", "end", "escaped"} /\ handle' = handle
    BY <1>2 DEF HandlerMissing, StepEnds, StepFails, AllSettled, Settles, RollbackEnds, Rethrown, Completes,
       FlowType, FlowOK
  <2>3. /\ flow' \in [Execs -> FlowRecords] /\ \A d \in Execs : FlowOK(flow'[d])
        /\ [DirectSaga!Next]_DirectSaga!vars
        /\ \A d \in Execs \ {e} : flow'[d] = flow[d]
    BY <2>1, MoveKeeps
  <2>4. FlowType'
    BY <2>2, <2>3 DEF FlowType
  <2>5. \A d \in Execs : AtRest(d) => Stays(d)
    BY <2>2, <2>3 DEF AtRest, Pending, Stays
  <2> QED
    BY <2>3, <2>4, <2>5
<1> QED
  BY <1>1, <1>2 DEF FlowStep

LEMMA HandlerKeeps ==
  ASSUME FlowType, HandlerExecutes \/ HandlerExecutesBound
  PROVE  /\ FlowType' /\ [DirectSaga!Next]_DirectSaga!vars
<1>1. CASE UNCHANGED <<flow, handle>>
  <2>1. UNCHANGED DirectSaga!vars
    BY <1>1 DEF DirectSaga!vars
  <2> QED
    BY <1>1, <2>1 DEF FlowType
<1>2. ASSUME NEW e \in Execs, Execute(e)
      PROVE  FlowType' /\ [DirectSaga!Next]_DirectSaga!vars
  <2>3. FlowMove(e)
    BY <1>2, ExecuteMoves
  <2>4. handle' = handle
    BY <1>2 DEF Execute
  <2> QED
    BY <2>3, <2>4, MoveKeeps DEF FlowType
<1>3. ASSUME NEW e \in Execs, BoundExecute(e)
      PROVE  FlowType' /\ [DirectSaga!Next]_DirectSaga!vars
  <2>2. flow' = flow /\ handle' = [handle EXCEPT ![e] = "running"]
    BY <1>3 DEF BoundExecute
  <2>3. UNCHANGED DirectSaga!vars
    BY <2>2 DEF DirectSaga!vars
  <2> QED
    BY <2>2, <2>3 DEF FlowType
<1> QED
  BY <1>1, <1>2, <1>3 DEF HandlerExecutes, HandlerExecutesBound, Unused

\* The actions that leave the workflows alone.
LEMMA OthersKeep ==
  ASSUME \/ Configure \/ (\E p \in Paths, method \in {"GET", "POST", "OPTIONS"} : Receive(p, method))
         \/ Begin \/ GuardPasses \/ GuardRejects \/ Intercept \/ Unwind
         \/ (\E ok \in BOOLEAN : ValidateParams(ok) \/ ValidateRequest(ok))
         \/ RouteReturns \/ RunDeferredGuards \/ WorkflowSettled
  PROVE  UNCHANGED <<flow, handle>>
<1>1. ASSUME Configure PROVE UNCHANGED <<flow, handle>>
  <2>1. \A b, g : Call(b, g) => UNCHANGED <<flow, handle>>
    BY DEF Call
  <2>2. ASSUME NEW k \in Kinds, Replace(k) \/ Clear(k) \/ \E m \in Extra[k] : Add(k, m)
        PROVE  UNCHANGED <<flow, handle>>
    BY <2>1, <2>2 DEF Replace, Clear, Add
  <2>3. ASSUME ReplaceGlobalGuardsWith \/ Param \/ SetData PROVE UNCHANGED <<flow, handle>>
    BY <2>1, <2>3 DEF ReplaceGlobalGuardsWith, Param, SetData
  <2>4. ASSUME NEW p \in Paths, NEW r \in RouteKinds, AddRoute(p, r)
        PROVE  UNCHANGED <<flow, handle>>
    BY <2>1, <2>4 DEF AddRoute
  <2> QED
    BY <1>1, <2>2, <2>3, <2>4 DEF Configure, EndController, GenerateBunRoutes
<1> QED
  BY <1>1 DEF Receive, Begin, GuardPasses, GuardRejects, Intercept, Unwind, ValidateParams,
     ValidateRequest, RouteReturns, RunDeferredGuards, WorkflowSettled

LEMMA NextFlow ==
  ASSUME FlowType, [HttpNext]_httpVars
  PROVE  FlowType' /\ [DirectSaga!Next]_DirectSaga!vars
<1>1. ASSUME UNCHANGED <<flow, handle>>
      PROVE  FlowType' /\ [DirectSaga!Next]_DirectSaga!vars
  <2>1. UNCHANGED DirectSaga!vars
    BY <1>1 DEF DirectSaga!vars
  <2> QED
    BY <1>1, <2>1 DEF FlowType
<1>2. ASSUME WorkflowStep
      PROVE  FlowType' /\ [DirectSaga!Next]_DirectSaga!vars
  BY <1>2, FlowStepKeeps DEF WorkflowStep
<1>3. UNCHANGED httpVars => UNCHANGED <<flow, handle>>
  BY DEF httpVars
<1> QED
  BY <1>1, <1>2, <1>3, HandlerKeeps, OthersKeep DEF HttpNext

LEMMA InitFlow == HttpInit => FlowType /\ DirectSaga!Init
<1> SUFFICES ASSUME HttpInit PROVE FlowType /\ DirectSaga!Init
  OBVIOUS
<1> DEFINE f == [at |-> "none", group |-> 0, step |-> 0, running |-> {}, fulfilled |-> {},
                 completed |-> <<>>, undoing |-> {}, undone |-> {}, out |-> "pending"]
<1>1. flow = [e \in Execs |-> f] /\ handle = [e \in Execs |-> "none"]
  BY DEF HttpInit, FlowInit
<1>2. f \in FlowRecords
  BY DEF FlowRecords
<1>3. Range(f.completed) = {} /\ InOrder(f.completed)
  BY DEF Range, InOrder
<1>4. FlowOK(f)
  BY <1>2, <1>3 DEF FlowOK
<1>5. Applied(f) = {} /\ PhaseOf(f.at) = "new"
  BY <1>3 DEF Applied, PhaseOf
<1>6. FlowType
  BY <1>1, <1>2, <1>4 DEF FlowType
<1>7. DirectSaga!Init
  BY <1>1, <1>5 DEF DirectSaga!Init
<1> QED
  BY <1>6, <1>7

\* An execution of ctx.app.workflows is a saga, for every definition with groups that
\* are sequential or parallel and any number of executions: its steps are applied group by
\* group, a failure undoes what was applied in reverse, also when it struck in the
\* middle of a parallel group, and success means that nothing is missing; it is
\* abandoned half-way only at a sequential step that its consumer has no handler for.
THEOREM DirectIsSaga == HttpSpec => DirectImplementsSaga
<1>1. HttpSpec => []FlowType
  BY InitFlow, NextFlow, PTL DEF HttpSpec
<1> QED
  BY <1>1, InitFlow, NextFlow, PTL DEF HttpSpec, DirectImplementsSaga, DirectSaga!Spec

-----------------------------------------------------------------------------
(* What the route builders do with the lists of middleware. *)

LEMMA WithinEmpty == ASSUME NEW l PROVE IsWithin(<<>>, l)
<1>1. DOMAIN <<>> = {}
  OBVIOUS
<1>2. [i \in DOMAIN <<>> |-> i] \in [DOMAIN <<>> -> DOMAIN l]
  BY <1>1
<1> QED
  BY <1>1, <1>2 DEF IsWithin

LEMMA WithinItself == ASSUME NEW S, NEW w \in Seq(S) PROVE IsWithin(w, w)
<1> DEFINE at == [i \in DOMAIN w |-> i]
<1>1. at \in [DOMAIN w -> DOMAIN w] /\ \A i \in DOMAIN w : at[i] = i
  OBVIOUS
<1> HIDE DEF at
<1>2. /\ \A i, j \in DOMAIN w : i < j => at[i] < at[j]
      /\ \A i \in DOMAIN w : w[at[i]] = w[i]
  BY <1>1
<1> QED
  BY <1>1, <1>2 DEF IsWithin

\* What is added to a list takes nothing out of it, and is in it.
LEMMA WithinAppend ==
  ASSUME NEW S, NEW w \in Seq(S), NEW l \in Seq(S), NEW m \in S, IsWithin(w, l)
  PROVE  IsWithin(w, Append(l, m)) /\ IsWithin(Append(w, m), Append(l, m))
<1>1. PICK at \in [DOMAIN w -> DOMAIN l] :
        /\ \A i, j \in DOMAIN w : i < j => at[i] < at[j]
        /\ \A i \in DOMAIN w : l[at[i]] = w[i]
  BY DEF IsWithin
<1>2. PICK d : d = Append(l, m) /\ Longer(l, m, d)
  BY AppendRange
<1>3. PICK v : v = Append(w, m) /\ Longer(w, m, v)
  BY AppendRange
<1>4. /\ DOMAIN d = DOMAIN l \union {Len(l) + 1} /\ Len(l) \in Nat /\ DOMAIN l = 1 .. Len(l)
      /\ d[Len(l) + 1] = m /\ \A i \in DOMAIN l : d[i] = l[i]
  BY <1>2 DEF Longer
<1>5. /\ DOMAIN v = DOMAIN w \union {Len(w) + 1} /\ Len(w) \in Nat /\ DOMAIN w = 1 .. Len(w)
      /\ v[Len(w) + 1] = m /\ \A i \in DOMAIN w : v[i] = w[i]
  BY <1>3 DEF Longer
<1>6. IsWithin(w, d)
  <2>1. at \in [DOMAIN w -> DOMAIN d]
    BY <1>4
  <2>2. \A i \in DOMAIN w : d[at[i]] = w[i]
    BY <1>1, <1>4
  <2> QED
    BY <1>1, <2>1, <2>2 DEF IsWithin
<1>7. IsWithin(v, d)
  <2> DEFINE to == [i \in DOMAIN v |-> IF i \in DOMAIN w THEN at[i] ELSE Len(l) + 1]
  <2>1. to \in [DOMAIN v -> DOMAIN d]
    BY <1>4
  <2>2. ASSUME NEW i \in DOMAIN v, NEW j \in DOMAIN v, i < j PROVE to[i] < to[j]
    <3>1. i \in DOMAIN w /\ at[i] \in 1 .. Len(l)
      BY <1>4, <1>5, <2>2
    <3>2. CASE j \in DOMAIN w
      BY <1>1, <2>2, <3>1, <3>2
    <3>3. CASE j \notin DOMAIN w
      BY <1>4, <3>1, <3>3
    <3> QED
      BY <3>2, <3>3
  <2>3. ASSUME NEW i \in DOMAIN v PROVE d[to[i]] = v[i]
    BY <1>1, <1>4, <1>5
  <2> HIDE DEF to
  <2> QED
    BY <2>1, <2>2, <2>3 DEF IsWithin
<1> QED
  BY <1>2, <1>3, <1>6, <1>7

LEMMA ConcatAppend ==
  ASSUME NEW S, NEW a \in Seq(S), NEW b \in Seq(S), NEW m \in S
  PROVE  a \o Append(b, m) = Append(a \o b, m) /\ a \o b \in Seq(S) /\ <<>> \o b = b
<1>1. Append(b, m) = b \o <<m>> /\ <<m>> \in Seq(S) /\ a \o b \in Seq(S) /\ <<>> \o b = b
  BY AppendIsConcat, ConcatEmptySeq, ConcatProperties
<1>2. Append(a \o b, m) = (a \o b) \o <<m>>
  BY <1>1, AppendIsConcat
<1>3. (a \o b) \o <<m>> = a \o (b \o <<m>>)
  BY <1>1, ConcatAssociative
<1> QED
  BY <1>1, <1>2, <1>3

Lists == [own : Seq(Middleware), given : BOOLEAN]

Wanted == [Kinds -> Seq(Middleware)]

Methods == {"GET", "POST", "OPTIONS"}

Schemas == {"none", "query", "body"}

BuiltRoutes ==
  [path : Paths, mw : [Kinds -> Lists], want : Wanted, method : Methods, static : BOOLEAN,
   schema : Schemas, defer : BOOLEAN, flows : BOOLEAN, validators : BOOLEAN, data : BOOLEAN]

TableRoutes ==
  [path : Paths, mw : Wanted, want : Wanted, method : Methods, static : BOOLEAN,
   schema : Schemas, defer : BOOLEAN, flows : BOOLEAN, validators : BOOLEAN, data : BOOLEAN]

Builders ==
  [inherited : Wanted, own : [Kinds -> Lists], over : [Kinds -> BOOLEAN], cur : BOOLEAN,
   params : BOOLEAN, data : BOOLEAN, routes : Seq(BuiltRoutes), want : Wanted]

\* The middleware that a route was asked to have is in its lists, in order.
Holds(r, given) == \A k \in Kinds : IsWithin(r.want[k], Items(r.mw[k], k, given))

AllHold(rs, given) == \A i \in DOMAIN rs : Holds(rs[i], given)

OwnHold(b, given) ==
  \A k \in Kinds : IsWithin(b.want[k], b.inherited[k] \o Items(b.own[k], k, given))

\* A route whose lists are not its own yet was asked to have what its controller has.
LastOf(b) == b.routes[Len(b.routes)]

BuilderOK(b, given) ==
  /\ b \in Builders /\ OwnHold(b, given) /\ AllHold(b.routes, given)
  /\ b.cur => Len(b.routes) \in DOMAIN b.routes
  /\ b.cur => \A k \in Kinds : ~ b.over[k] => LastOf(b).want[k] = b.want[k]

\* The program's arrays only get longer.
Longest(g, h) ==
  \A k \in Kinds : h[k] = g[k] \/ \E m \in Middleware : h[k] = Append(g[k], m)

LEMMA ItemsType ==
  ASSUME NEW l \in Lists, NEW k \in Kinds, NEW g \in Wanted
  PROVE  Items(l, k, g) \in Seq(Middleware)
BY DEF Lists, Wanted, Items

LEMMA ItemsLonger ==
  ASSUME NEW l \in Lists, NEW k \in Kinds, NEW g \in Wanted, NEW h \in Wanted, Longest(g, h),
         NEW w \in Seq(Middleware), NEW a \in Seq(Middleware)
  PROVE  /\ IsWithin(w, Items(l, k, g)) => IsWithin(w, Items(l, k, h))
         /\ IsWithin(w, a \o Items(l, k, g)) => IsWithin(w, a \o Items(l, k, h))
<1>1. CASE Items(l, k, h) = Items(l, k, g)
  BY <1>1
<1>2. CASE Items(l, k, h) # Items(l, k, g)
  <2>1. l.given /\ Items(l, k, g) = g[k] /\ Items(l, k, h) = h[k] /\ h[k] # g[k]
    BY <1>2 DEF Items
  <2>2. PICK m \in Middleware : h[k] = Append(g[k], m)
    BY <2>1 DEF Longest
  <2>3. PICK b \in Seq(Middleware) : b = g[k]
    BY DEF Wanted
  <2>4. a \o Append(b, m) = Append(a \o b, m) /\ a \o b \in Seq(Middleware)
    BY ConcatAppend
  <2>5. IsWithin(w, b) => IsWithin(w, Append(b, m))
    BY WithinAppend
  <2>6. PICK c \in Seq(Middleware) : c = a \o b
    BY <2>4
  <2>7. IsWithin(w, c) => IsWithin(w, Append(c, m))
    BY WithinAppend
  <2> QED
    BY <2>1, <2>2, <2>3, <2>4, <2>5, <2>6, <2>7
<1> QED
  BY <1>1, <1>2

LEMMA RouteType ==
  ASSUME NEW rs \in Seq(BuiltRoutes), NEW i \in DOMAIN rs
  PROVE  /\ rs[i] \in BuiltRoutes
         /\ \A k \in Kinds : rs[i].mw[k] \in Lists /\ rs[i].want[k] \in Seq(Middleware)
<1>1. rs[i] \in BuiltRoutes
  BY ElementOfSeq
<1> QED
  BY <1>1 DEF BuiltRoutes, Wanted

LEMMA HoldLonger ==
  ASSUME NEW g \in Wanted, NEW h \in Wanted, Longest(g, h), NEW rs \in Seq(BuiltRoutes),
         AllHold(rs, g)
  PROVE  AllHold(rs, h)
<1> SUFFICES ASSUME NEW i \in DOMAIN rs, NEW k \in Kinds
             PROVE  IsWithin(rs[i].want[k], Items(rs[i].mw[k], k, h))
  BY DEF AllHold, Holds
<1>1. PICK l \in Lists, w \in Seq(Middleware) : l = rs[i].mw[k] /\ w = rs[i].want[k]
  BY RouteType
<1>2. IsWithin(w, Items(l, k, g))
  BY <1>1 DEF AllHold, Holds
<1>3. <<>> \in Seq(Middleware)
  OBVIOUS
<1>4. IsWithin(w, Items(l, k, h))
  BY <1>2, <1>3, ItemsLonger
<1> QED
  BY <1>1, <1>4

LEMMA OwnLonger ==
  ASSUME NEW g \in Wanted, NEW h \in Wanted, Longest(g, h), NEW b \in Builders, OwnHold(b, g)
  PROVE  OwnHold(b, h)
<1> SUFFICES ASSUME NEW k \in Kinds
             PROVE  IsWithin(b.want[k], b.inherited[k] \o Items(b.own[k], k, h))
  BY DEF OwnHold
<1>1. PICK l \in Lists, w \in Seq(Middleware), a \in Seq(Middleware) :
        l = b.own[k] /\ w = b.want[k] /\ a = b.inherited[k]
  BY DEF Builders, Wanted
<1>2. IsWithin(w, a \o Items(l, k, g))
  BY <1>1 DEF OwnHold
<1>3. IsWithin(w, a \o Items(l, k, h))
  BY <1>2, ItemsLonger
<1> QED
  BY <1>1, <1>3

\* One more middleware at the end of a list, which may be the program's array.
LongerList(l, m) == IF l.given THEN l ELSE Own(Append(l.own, m))

LongerGiven(l, k, m, g) == IF l.given THEN [g EXCEPT ![k] = Append(@, m)] ELSE g

LEMMA AddToList ==
  ASSUME NEW l \in Lists, NEW k \in Kinds, NEW m \in Middleware, NEW g \in Wanted,
         NEW n, n = LongerList(l, m), NEW h, h = LongerGiven(l, k, m, g)
  PROVE  /\ n \in Lists /\ h \in Wanted /\ Longest(g, h)
         /\ Items(n, k, h) = Append(Items(l, k, g), m)
<1>1. l.own \in Seq(Middleware) /\ l.given \in BOOLEAN /\ g[k] \in Seq(Middleware)
      /\ DOMAIN g = Kinds /\ g = [j \in Kinds |-> g[j]]
  BY DEF Lists, Wanted
<1>2. CASE l.given
  <2>1. n = l /\ h = [g EXCEPT ![k] = Append(@, m)]
    BY <1>2 DEF LongerList, LongerGiven
  <2>2. Append(g[k], m) \in Seq(Middleware)
    BY <1>1
  <2>3. h \in Wanted /\ h[k] = Append(g[k], m) /\ \A j \in Kinds : j # k => h[j] = g[j]
    BY <1>1, <2>1, <2>2 DEF Wanted
  <2> QED
    BY <1>2, <2>1, <2>3 DEF Longest, Items
<1>3. CASE ~ l.given
  <2>1. n = [own |-> Append(l.own, m), given |-> FALSE] /\ h = g
    BY <1>3 DEF LongerList, LongerGiven, Own
  <2>2. Append(l.own, m) \in Seq(Middleware)
    BY <1>1
  <2>3. n \in Lists /\ Items(n, k, h) = Append(l.own, m) /\ Items(l, k, g) = l.own
    BY <1>3, <2>1, <2>2 DEF Lists, Items
  <2> QED
    BY <2>1, <2>3 DEF Longest
<1> QED
  BY <1>2, <1>3

Sites ==
  [stage : {"configure", "serving"}, given : Wanted, builder : Builders, calls : Nat,
   compiled : Seq(BuiltRoutes), table : Seq(TableRoutes), headers : BOOLEAN]

TableHolds(r) == \A k \in Kinds : IsWithin(r.want[k], r.mw[k])

SiteOK ==
  /\ site \in Sites
  /\ site.stage = "configure" =>
       /\ \A k \in Kinds : IsWithin(Given[k], site.given[k])
       /\ BuilderOK(site.builder, site.given)
       /\ AllHold(site.compiled, site.given)
  /\ \A i \in DOMAIN site.table : TableHolds(site.table[i])

LEMMA GivenType == Global \in Wanted /\ Given \in Wanted
BY HttpAssumption DEF Wanted

LEMMA CallOK ==
  ASSUME SiteOK, NEW b, NEW h \in Wanted, Call(b, h), Longest(site.given, h), BuilderOK(b, h)
  PROVE  SiteOK' /\ site'.headers = site.headers
<1>1. /\ site \in Sites /\ site.stage = "configure" /\ b \in Builders
      /\ \A k \in Kinds : IsWithin(Given[k], site.given[k])
      /\ AllHold(site.compiled, site.given)
  BY DEF SiteOK, Call, BuilderOK
<1>2. /\ site.given \in Wanted /\ site.compiled \in Seq(BuiltRoutes) /\ site.calls + 1 \in Nat
  BY <1>1 DEF Sites
<1>3. site' = [site EXCEPT !.builder = b, !.given = h, !.calls = @ + 1]
  BY DEF Call
<1>4. /\ site' \in Sites /\ site'.stage = "configure" /\ site'.builder = b /\ site'.given = h
      /\ site'.compiled = site.compiled /\ site'.table = site.table
      /\ site'.headers = site.headers
  BY <1>1, <1>2, <1>3 DEF Sites
<1>5. AllHold(site.compiled, h)
  BY <1>1, <1>2, HoldLonger
<1>6. \A k \in Kinds : IsWithin(Given[k], h[k])
  <2> TAKE k \in Kinds
  <2>1. CASE h[k] = site.given[k]
    BY <1>1, <2>1
  <2>2. CASE h[k] # site.given[k]
    <3>1. PICK m \in Middleware : h[k] = Append(site.given[k], m)
      BY <2>2 DEF Longest
    <3>2. Given[k] \in Seq(Middleware) /\ site.given[k] \in Seq(Middleware)
      BY <1>2, GivenType DEF Wanted
    <3> QED
      BY <1>1, <3>1, <3>2, WithinAppend
  <2> QED
    BY <2>1, <2>2
<1> QED
  BY <1>4, <1>5, <1>6 DEF SiteOK

\* The last route is given a list of its own.
LEMMA SetRouteOK ==
  ASSUME NEW b \in Builders, NEW g \in Wanted, BuilderOK(b, g), b.cur,
         NEW h \in Wanted, Longest(g, h), NEW k \in Kinds, NEW l \in Lists,
         NEW w \in Seq(Middleware), IsWithin(w, Items(l, k, h)),
         NEW c, c = [b EXCEPT !.over[k] = TRUE,
                              !.routes[Len(b.routes)] = [@ EXCEPT !.mw[k] = l, !.want[k] = w]]
  PROVE  BuilderOK(c, h)
<1> DEFINE n == Len(b.routes)
           last == b.routes[n]
<1>1. /\ n \in DOMAIN b.routes /\ b.routes \in Seq(BuiltRoutes) /\ last \in BuiltRoutes
      /\ OwnHold(b, g) /\ AllHold(b.routes, g)
      /\ \A j \in Kinds : ~ b.over[j] => last.want[j] = b.want[j]
  <2>1. /\ n \in DOMAIN b.routes /\ b.routes \in Seq(BuiltRoutes)
        /\ OwnHold(b, g) /\ AllHold(b.routes, g)
        /\ \A j \in Kinds : ~ b.over[j] => last.want[j] = b.want[j]
    BY DEF BuilderOK, Builders, LastOf
  <2> QED
    BY <2>1, RouteType
<1>2. PICK r : r = [last EXCEPT !.mw[k] = l, !.want[k] = w]
  OBVIOUS
<1>3. PICK rs : rs = [b.routes EXCEPT ![n] = r]
  OBVIOUS
<1>4. PICK o : o = [b.over EXCEPT ![k] = TRUE]
  OBVIOUS
<1>5. c = [b EXCEPT !.over = o, !.routes = rs]
  BY <1>2, <1>3, <1>4 DEF Builders
<1> HIDE DEF last
<1>6. /\ last.mw \in [Kinds -> Lists] /\ last.want \in [Kinds -> Seq(Middleware)]
  BY <1>1 DEF BuiltRoutes, Wanted
<1>7. /\ r \in BuiltRoutes /\ r.mw[k] = l /\ r.want[k] = w
      /\ \A j \in Kinds : j # k => r.mw[j] = last.mw[j] /\ r.want[j] = last.want[j]
  <2>1. PICK mw : mw = [last.mw EXCEPT ![k] = l]
    OBVIOUS
  <2>2. PICK want : want = [last.want EXCEPT ![k] = w]
    OBVIOUS
  <2>3. mw \in [Kinds -> Lists] /\ mw[k] = l /\ \A j \in Kinds : j # k => mw[j] = last.mw[j]
    BY <1>6, <2>1
  <2>4. want \in Wanted /\ want[k] = w /\ \A j \in Kinds : j # k => want[j] = last.want[j]
    BY <1>6, <2>2 DEF Wanted
  <2>5. r = [last EXCEPT !.mw = mw, !.want = want]
    BY <1>1, <1>2, <2>1, <2>2 DEF BuiltRoutes
  <2>6. r \in BuiltRoutes /\ r.mw = mw /\ r.want = want
    BY <1>1, <2>3, <2>4, <2>5 DEF BuiltRoutes
  <2> QED
    BY <2>3, <2>4, <2>6
<1>8. /\ rs \in Seq(BuiltRoutes) /\ Len(rs) = n /\ DOMAIN rs = DOMAIN b.routes /\ rs[n] = r
      /\ \A i \in DOMAIN b.routes : i # n => rs[i] = b.routes[i]
  BY <1>1, <1>3, <1>7
<1>9. o \in [Kinds -> BOOLEAN] /\ o[k] /\ \A j \in Kinds : j # k => o[j] = b.over[j]
  BY <1>4 DEF Builders
<1>10. /\ c \in Builders /\ c.over = o /\ c.routes = rs /\ c.own = b.own /\ c.want = b.want
       /\ c.inherited = b.inherited /\ c.cur = b.cur
  BY <1>5, <1>8, <1>9 DEF Builders
<1>11. OwnHold(c, h)
  <2>1. OwnHold(b, h)
    BY <1>1, OwnLonger
  <2> QED
    BY <1>10, <2>1 DEF OwnHold
<1>12. AllHold(b.routes, h)
  BY <1>1, HoldLonger
<1>13. AllHold(rs, h)
  <2>1. ASSUME NEW j \in Kinds PROVE IsWithin(r.want[j], Items(r.mw[j], j, h))
    <3>1. CASE j = k
      BY <1>7, <3>1
    <3>2. CASE j # k
      <4>1. IsWithin(last.want[j], Items(last.mw[j], j, h))
        BY <1>1, <1>12 DEF AllHold, Holds, last
      <4> QED
        BY <1>7, <3>2, <4>1
    <3> QED
      BY <3>1, <3>2
  <2> QED
    BY <1>8, <1>12, <2>1 DEF AllHold, Holds
<1>14. \A j \in Kinds : ~ o[j] => r.want[j] = b.want[j]
  BY <1>1, <1>7, <1>9
<1> QED
  BY <1>1, <1>8, <1>10, <1>11, <1>13, <1>14, ZenonT(60) DEF BuilderOK, LastOf

\* The controller is given a list, or one with more.
LEMMA SetOwnOK ==
  ASSUME NEW b \in Builders, NEW g \in Wanted, BuilderOK(b, g), ~ b.cur,
         NEW h \in Wanted, Longest(g, h), NEW k \in Kinds, NEW l \in Lists,
         NEW a \in Seq(Middleware), NEW w \in Seq(Middleware), IsWithin(w, a \o Items(l, k, h)),
         NEW c, c = [b EXCEPT !.inherited[k] = a, !.own[k] = l, !.want[k] = w]
  PROVE  BuilderOK(c, h)
<1>1. PICK i : i = [b.inherited EXCEPT ![k] = a]
  OBVIOUS
<1>2. PICK o : o = [b.own EXCEPT ![k] = l]
  OBVIOUS
<1>3. PICK v : v = [b.want EXCEPT ![k] = w]
  OBVIOUS
<1>4. c = [b EXCEPT !.inherited = i, !.own = o, !.want = v]
  BY <1>1, <1>2, <1>3 DEF Builders
<1>5. i \in Wanted /\ i[k] = a /\ \A j \in Kinds : j # k => i[j] = b.inherited[j]
  BY <1>1 DEF Builders, Wanted
<1>6. o \in [Kinds -> Lists] /\ o[k] = l /\ \A j \in Kinds : j # k => o[j] = b.own[j]
  BY <1>2 DEF Builders
<1>7. v \in Wanted /\ v[k] = w /\ \A j \in Kinds : j # k => v[j] = b.want[j]
  BY <1>3 DEF Builders, Wanted
<1>8. /\ c \in Builders /\ c.inherited = i /\ c.own = o /\ c.want = v /\ c.routes = b.routes
      /\ c.cur = b.cur
  BY <1>4, <1>5, <1>6, <1>7 DEF Builders
<1>9. OwnHold(b, g) /\ AllHold(b.routes, g) /\ b.routes \in Seq(BuiltRoutes)
  BY DEF BuilderOK, Builders
<1>10. OwnHold(b, h) /\ AllHold(b.routes, h)
  BY <1>9, OwnLonger, HoldLonger
<1>11. OwnHold(c, h)
  <2> SUFFICES ASSUME NEW j \in Kinds PROVE IsWithin(v[j], i[j] \o Items(o[j], j, h))
    BY <1>8 DEF OwnHold
  <2>1. CASE j = k
    BY <1>5, <1>6, <1>7, <2>1
  <2>2. CASE j # k
    <3>1. IsWithin(b.want[j], b.inherited[j] \o Items(b.own[j], j, h))
      BY <1>10 DEF OwnHold
    <3> QED
      BY <1>5, <1>6, <1>7, <2>2, <3>1
  <2> QED
    BY <2>1, <2>2
<1> QED
  BY <1>8, <1>10, <1>11 DEF BuilderOK

LEMMA LongestSame == ASSUME NEW g PROVE Longest(g, g)
BY DEF Longest

LEMMA BuilderFacts ==
  ASSUME NEW b \in Builders, NEW k \in Kinds
  PROVE  /\ b.inherited[k] \in Seq(Middleware) /\ b.own[k] \in Lists
         /\ b.want[k] \in Seq(Middleware) /\ b.over[k] \in BOOLEAN /\ b.cur \in BOOLEAN
         /\ b.routes \in Seq(BuiltRoutes) /\ b.inherited \in [Kinds -> Seq(Middleware)]
         /\ b.want \in [Kinds -> Seq(Middleware)] /\ b.own \in [Kinds -> Lists]
<1>1. /\ b.inherited \in Wanted /\ b.own \in [Kinds -> Lists] /\ b.want \in Wanted
      /\ b.over \in [Kinds -> BOOLEAN] /\ b.cur \in BOOLEAN /\ b.routes \in Seq(BuiltRoutes)
  BY DEF Builders
<1> QED
  BY <1>1 DEF Wanted

\* The list of the current route, its own or what it would begin with.
LEMMA CurrentList ==
  ASSUME NEW b \in Builders, NEW g \in Wanted, BuilderOK(b, g), b.cur, NEW k \in Kinds,
         NEW l, l = IF b.over[k] THEN LastOf(b).mw[k]
                    ELSE Own(b.inherited[k] \o Items(b.own[k], k, g))
  PROVE  /\ l \in Lists /\ LastOf(b).want[k] \in Seq(Middleware)
         /\ IsWithin(LastOf(b).want[k], Items(l, k, g))
<1> DEFINE n == Len(b.routes)
           last == b.routes[n]
<1>1. n \in DOMAIN b.routes /\ b.routes \in Seq(BuiltRoutes) /\ OwnHold(b, g)
      /\ IsWithin(last.want[k], Items(last.mw[k], k, g))
      /\ (~ b.over[k] => last.want[k] = b.want[k])
  BY BuilderFacts DEF BuilderOK, AllHold, Holds, LastOf
<1>2. last.mw[k] \in Lists /\ last.want[k] \in Seq(Middleware)
  BY <1>1, RouteType
<1>3. CASE b.over[k]
  <2>1. l = last.mw[k]
    BY <1>3 DEF LastOf
  <2> QED
    BY <1>1, <1>2, <2>1 DEF LastOf
<1>4. CASE ~ b.over[k]
  <2>1. PICK e : e = b.inherited[k] \o Items(b.own[k], k, g)
    OBVIOUS
  <2>2. e \in Seq(Middleware)
    <3>1. b.inherited[k] \in Seq(Middleware) /\ b.own[k] \in Lists
      BY BuilderFacts
    <3>2. Items(b.own[k], k, g) \in Seq(Middleware)
      BY <3>1, ItemsType
    <3> QED
      BY <2>1, <3>1, <3>2, ConcatProperties
  <2>3. l = [own |-> e, given |-> FALSE]
    BY <1>4, <2>1 DEF Own
  <2>4. l \in Lists /\ Items(l, k, g) = e
    BY ONLY <2>2, <2>3 DEF Lists, Items
  <2>5. IsWithin(b.want[k], e)
    BY <1>1, <2>1 DEF OwnHold
  <2> QED
    BY <1>1, <1>2, <1>4, <2>4, <2>5 DEF LastOf
<1> QED
  BY <1>3, <1>4

LEMMA AddOK ==
  ASSUME SiteOK, NEW k \in Kinds, NEW m \in Extra[k], Add(k, m)
  PROVE  SiteOK' /\ site'.headers = site.headers
<1> DEFINE b == site.builder
           g == site.given
           last == b.routes[Len(b.routes)]
<1>1. PICK l : l = IF ~ b.cur THEN b.own[k]
                   ELSE IF b.over[k] THEN last.mw[k]
                   ELSE Own(b.inherited[k] \o Items(b.own[k], k, g))
  OBVIOUS
<1>2. PICK n : n = LongerList(l, m)
  OBVIOUS
<1>3. PICK h : h = LongerGiven(l, k, m, g)
  OBVIOUS
<1>4. PICK c : c = IF b.cur THEN SetRoute(k, n, Append(last.want[k], m))
                   ELSE [b EXCEPT !.own[k] = n, !.want[k] = Append(@, m)]
  OBVIOUS
<1>5. Call(c, h)
  BY <1>1, <1>2, <1>3, <1>4 DEF Add, B, Effective, LongerList, LongerGiven
<1>6. b \in Builders /\ g \in Wanted /\ BuilderOK(b, g) /\ m \in Middleware
  <2>1. m \in Middleware
    BY DEF Middleware
  <2> QED
    BY <1>5, <2>1 DEF SiteOK, Sites, Call
<1>7. l \in Lists
  BY <1>1, <1>6, BuilderFacts, CurrentList DEF LastOf
<1>8. n \in Lists /\ h \in Wanted /\ Longest(g, h) /\ Items(n, k, h) = Append(Items(l, k, g), m)
  BY <1>2, <1>3, <1>6, <1>7, AddToList
<1>9. Items(l, k, g) \in Seq(Middleware)
  BY <1>6, <1>7, ItemsType
<1>10. CASE b.cur
  <2>1. PICK w : w = Append(last.want[k], m)
    OBVIOUS
  <2>2. last.want[k] \in Seq(Middleware) /\ IsWithin(last.want[k], Items(l, k, g))
    BY <1>1, <1>6, <1>10, CurrentList DEF LastOf
  <2>3. w \in Seq(Middleware) /\ IsWithin(w, Items(n, k, h))
    BY <1>6, <1>8, <1>9, <2>1, <2>2, WithinAppend, SMTT(30)
  <2>4. c = [b EXCEPT !.over[k] = TRUE,
                      !.routes[Len(b.routes)] = [@ EXCEPT !.mw[k] = n, !.want[k] = w]]
    BY <1>4, <1>10, <2>1 DEF SetRoute, B
  <2>5. BuilderOK(c, h)
    BY <1>6, <1>8, <1>10, <2>3, <2>4, SetRouteOK
  <2> QED
    BY <1>5, <1>8, <2>5, CallOK
<1>11. CASE ~ b.cur
  <2>1. PICK w : w = Append(b.want[k], m)
    OBVIOUS
  <2>2. PICK a : a = b.inherited[k]
    OBVIOUS
  <2>3. /\ a \in Seq(Middleware) /\ b.want[k] \in Seq(Middleware) /\ l = b.own[k]
        /\ b.inherited \in [Kinds -> Seq(Middleware)] /\ b.own \in [Kinds -> Lists]
        /\ b.want \in [Kinds -> Seq(Middleware)]
    BY <1>1, <1>6, <1>11, <2>2, BuilderFacts
  <2>4. IsWithin(b.want[k], a \o Items(l, k, g))
    BY <1>6, <2>2, <2>3 DEF BuilderOK, OwnHold
  <2>5. a \o Items(n, k, h) = Append(a \o Items(l, k, g), m) /\ a \o Items(l, k, g) \in Seq(Middleware)
    BY <1>6, <1>8, <1>9, <2>3, ConcatAppend
  <2>6. w \in Seq(Middleware) /\ IsWithin(w, a \o Items(n, k, h))
    <3>1. PICK q \in Seq(Middleware) : q = a \o Items(l, k, g)
      BY <2>5
    <3>2. PICK v \in Seq(Middleware) : v = b.want[k]
      BY <2>3
    <3>3. IsWithin(v, q)
      BY <2>4, <3>1, <3>2
    <3>4. IsWithin(Append(v, m), Append(q, m))
      BY <1>6, <3>3, WithinAppend
    <3>5. w = Append(v, m) /\ w \in Seq(Middleware)
      BY <1>6, <2>1, <3>2
    <3>6. a \o Items(n, k, h) = Append(q, m)
      BY <2>5, <3>1
    <3> QED
      BY <3>4, <3>5, <3>6
  <2>7. c = [b EXCEPT !.inherited[k] = a, !.own[k] = n, !.want[k] = w]
    <3>1. [b.inherited EXCEPT ![k] = a] = b.inherited
      BY <2>2, <2>3
    <3>2. c = [b EXCEPT !.own[k] = n, !.want[k] = w]
      BY <1>4, <1>11, <2>1
    <3>3. b = [b EXCEPT !.inherited[k] = a]
      BY <1>6, <3>1 DEF Builders
    <3> QED
      BY <1>6, <3>2, <3>3 DEF Builders
  <2>8. BuilderOK(c, h)
    BY <1>6, <1>8, <1>11, <2>3, <2>6, <2>7, SetOwnOK
  <2> QED
    BY <1>5, <1>8, <2>8, CallOK
<1> QED
  BY <1>10, <1>11

\* A list is replaced, by the program's array or by nothing.
LEMMA InsteadOK ==
  ASSUME SiteOK, NEW k \in Kinds, NEW l \in Lists, NEW w \in Seq(Middleware),
         IsWithin(w, Items(l, k, site.given)), NEW c,
         c = IF B.cur THEN SetRoute(k, l, w) ELSE SetController(k, l, w),
         Call(c, site.given)
  PROVE  SiteOK' /\ site'.headers = site.headers
<1>b. PICK b : b = site.builder
  OBVIOUS
<1>g. PICK g : g = site.given
  OBVIOUS
<1>1. /\ b \in Builders /\ g \in Wanted /\ BuilderOK(b, g) /\ Longest(g, g)
      /\ IsWithin(w, Items(l, k, g)) /\ Call(c, g)
  BY <1>b, <1>g, LongestSame DEF SiteOK, Sites, Call
<1>2. CASE b.cur
  <2>1. c = [b EXCEPT !.over[k] = TRUE,
                      !.routes[Len(b.routes)] = [@ EXCEPT !.mw[k] = l, !.want[k] = w]]
    BY <1>b, <1>2 DEF SetRoute, B
  <2>2. BuilderOK(c, g)
    BY ONLY <1>1, <1>2, <2>1, k \in Kinds, l \in Lists, w \in Seq(Middleware), SetRouteOK
  <2> QED
    BY <1>1, <1>g, <2>2, CallOK
<1>3. CASE ~ b.cur
  <2>1. c = [b EXCEPT !.inherited[k] = <<>>, !.own[k] = l, !.want[k] = w]
    <3>1. c = SetController(k, l, w)
      BY <1>b, <1>3 DEF B
    <3> QED
      BY <1>b, <3>1 DEF SetController, B
  <2>2. PICK a \in Seq(Middleware) : a = <<>>
    <3>1. <<>> \in Seq(Middleware)
      OBVIOUS
    <3> QED
      BY <3>1
  <2>3. a \o Items(l, k, g) = Items(l, k, g)
    <3>1. Items(l, k, g) \in Seq(Middleware)
      BY <1>1, ItemsType
    <3> QED
      BY <2>2, <3>1, ConcatEmptySeq
  <2>4. BuilderOK(c, g)
    BY ONLY <1>1, <1>3, <2>1, <2>2, <2>3, k \in Kinds, l \in Lists, w \in Seq(Middleware),
       SetOwnOK
  <2> QED
    BY <1>1, <1>g, <2>4, CallOK
<1> QED
  BY <1>2, <1>3

LEMMA TheGivenHolds ==
  ASSUME SiteOK, site.stage = "configure", NEW k \in Kinds
  PROVE  /\ TheGiven \in Lists /\ Given[k] \in Seq(Middleware)
         /\ IsWithin(Given[k], Items(TheGiven, k, site.given))
         /\ Own(<<>>) \in Lists /\ IsWithin(<<>>, Items(Own(<<>>), k, site.given))
<1>1. TheGiven \in Lists /\ Items(TheGiven, k, site.given) = site.given[k]
  BY DEF TheGiven, Lists, Items
<1>2. Own(<<>>) \in Lists
  BY DEF Own, Lists
<1>3. Given[k] \in Seq(Middleware) /\ IsWithin(Given[k], site.given[k])
  BY GivenType DEF SiteOK, Wanted
<1> QED
  BY <1>1, <1>2, <1>3, WithinEmpty

LEMMA ReplaceClearOK ==
  ASSUME SiteOK, NEW k \in Kinds, Replace(k) \/ Clear(k)
  PROVE  SiteOK' /\ site'.headers = site.headers
<1>1. site.stage = "configure"
  BY DEF Replace, Clear, Call
<1>2. /\ TheGiven \in Lists /\ Given[k] \in Seq(Middleware)
      /\ IsWithin(Given[k], Items(TheGiven, k, site.given))
      /\ Own(<<>>) \in Lists /\ IsWithin(<<>>, Items(Own(<<>>), k, site.given))
  BY <1>1, TheGivenHolds
<1>3. CASE Replace(k)
  <2>1. PICK c : /\ c = IF B.cur THEN SetRoute(k, TheGiven, Given[k])
                        ELSE SetController(k, TheGiven, Given[k])
                 /\ Call(c, site.given)
    BY <1>3 DEF Replace
  <2> QED
    BY <1>2, <2>1, InsteadOK
<1>4. CASE Clear(k)
  <2>1. PICK c : /\ c = IF B.cur THEN SetRoute(k, Own(<<>>), <<>>)
                        ELSE SetController(k, Own(<<>>), <<>>)
                 /\ Call(c, site.given)
    BY <1>4 DEF Clear
  <2>2. PICK l \in Lists : l = Own(<<>>)
    BY <1>2
  <2>3. PICK w \in Seq(Middleware) : w = <<>>
    <3>1. <<>> \in Seq(Middleware)
      OBVIOUS
    <3> QED
      BY <3>1
  <2> QED
    BY <1>2, <2>1, <2>2, <2>3, InsteadOK
<1> QED
  BY <1>3, <1>4

LEMMA ReplaceGlobalOK ==
  ASSUME SiteOK, ReplaceGlobalGuardsWith
  PROVE  SiteOK' /\ site'.headers = site.headers
<1>1. PICK k \in Kinds : k = "guards"
  BY DEF Kinds
<1>2. PICK c : c = SetController(k, TheGiven, Given[k]) /\ Call(c, site.given) /\ ~ B.cur
  BY <1>1 DEF ReplaceGlobalGuardsWith
<1>3. site.stage = "configure"
  BY <1>2 DEF Call
<1>4. c = IF B.cur THEN SetRoute(k, TheGiven, Given[k]) ELSE SetController(k, TheGiven, Given[k])
  BY <1>2
<1> QED
  BY <1>2, <1>3, <1>4, TheGivenHolds, InsteadOK

\* Data of the route, of the controller, and parameters change no list.
LEMMA ParamDataOK ==
  ASSUME SiteOK, Param \/ SetData
  PROVE  SiteOK' /\ site'.headers = site.headers
<1> DEFINE b == site.builder
           g == site.given
           n == Len(b.routes)
<1>1. PICK c : /\ Call(c, g)
               /\ \/ c = [b EXCEPT !.params = TRUE] \/ c = [b EXCEPT !.data = TRUE]
                  \/ b.cur /\ c = [b EXCEPT !.routes[n].data = TRUE]
  BY DEF Param, SetData, B
<1>2. b \in Builders /\ g \in Wanted /\ BuilderOK(b, g) /\ Longest(g, g)
  BY <1>1, LongestSame DEF SiteOK, Sites, Call
<1>3. CASE c = [b EXCEPT !.params = TRUE] \/ c = [b EXCEPT !.data = TRUE]
  <2>1. /\ c \in Builders /\ c.inherited = b.inherited /\ c.own = b.own /\ c.want = b.want
        /\ c.over = b.over /\ c.cur = b.cur /\ c.routes = b.routes
    BY <1>2, <1>3 DEF Builders
  <2>2. BuilderOK(c, g)
    BY <1>2, <2>1 DEF BuilderOK, OwnHold, LastOf
  <2> QED
    BY <1>1, <1>2, <2>2, CallOK
<1>4. CASE b.cur /\ c = [b EXCEPT !.routes[n].data = TRUE]
  <2>1. n \in DOMAIN b.routes /\ b.routes \in Seq(BuiltRoutes)
    BY <1>2, <1>4 DEF BuilderOK, Builders
  <2>2. b.routes[n] \in BuiltRoutes
    BY <2>1, RouteType
  <2>3. PICK r : r = [b.routes[n] EXCEPT !.data = TRUE]
    OBVIOUS
  <2>4. PICK rs : rs = [b.routes EXCEPT ![n] = r]
    OBVIOUS
  <2>5. c = [b EXCEPT !.routes = rs]
    BY <1>4, <2>3, <2>4
  <2>6. r \in BuiltRoutes /\ r.mw = b.routes[n].mw /\ r.want = b.routes[n].want
    BY <2>2, <2>3 DEF BuiltRoutes
  <2>7. /\ rs \in Seq(BuiltRoutes) /\ Len(rs) = n /\ DOMAIN rs = DOMAIN b.routes
        /\ \A i \in DOMAIN b.routes : rs[i].mw = b.routes[i].mw /\ rs[i].want = b.routes[i].want
    BY <2>1, <2>4, <2>6
  <2>8. /\ c \in Builders /\ c.inherited = b.inherited /\ c.own = b.own /\ c.want = b.want
        /\ c.over = b.over /\ c.cur = b.cur /\ c.routes = rs
    BY <1>2, <2>5, <2>7 DEF Builders
  <2>9. OwnHold(c, g) /\ AllHold(rs, g)
    BY <1>2, <2>7, <2>8 DEF BuilderOK, OwnHold, AllHold, Holds
  <2>10. BuilderOK(c, g)
    BY <1>2, <2>1, <2>7, <2>8, <2>9 DEF BuilderOK, LastOf
  <2> QED
    BY <1>1, <1>2, <2>10, CallOK
<1> QED
  BY <1>1, <1>3, <1>4

\* A route begins with the lists of its controller.
LEMMA AddRouteOK ==
  ASSUME SiteOK, NEW p \in Paths, NEW r \in RouteKinds, AddRoute(p, r)
  PROVE  SiteOK' /\ site'.headers = site.headers
<1>b. PICK b : b = site.builder
  OBVIOUS
<1>g. PICK g : g = site.given
  OBVIOUS
<1> DEFINE lists == [k \in Kinds |-> Own(b.inherited[k] \o Items(b.own[k], k, g))]
           none == [k \in Kinds |-> FALSE]
<1>1. PICK v \in BOOLEAN : v = (b.params /\ r.named)
  OBVIOUS
<1>2. PICK t : t = [path |-> p, mw |-> lists, want |-> b.want, method |-> r.method,
                    static |-> r.static, schema |-> r.schema, defer |-> r.defer,
                    flows |-> r.flows, validators |-> v, data |-> b.data]
  OBVIOUS
<1>3. PICK c : c = [b EXCEPT !.cur = TRUE, !.over = none, !.routes = Append(@, t)]
  OBVIOUS
<1>4. Call(c, g)
  BY <1>b, <1>g, <1>1, <1>2, <1>3 DEF AddRoute, B, Effective
<1>5. /\ b \in Builders /\ g \in Wanted /\ BuilderOK(b, g) /\ Longest(g, g)
  BY <1>4, <1>b, <1>g, LongestSame DEF SiteOK, Sites, Call
<1>6. ASSUME NEW k \in Kinds
      PROVE  /\ b.inherited[k] \o Items(b.own[k], k, g) \in Seq(Middleware)
             /\ lists[k] \in Lists
             /\ Items(lists[k], k, g) = b.inherited[k] \o Items(b.own[k], k, g)
  <2>1. b.inherited[k] \in Seq(Middleware) /\ b.own[k] \in Lists
    BY <1>5, BuilderFacts
  <2>2. Items(b.own[k], k, g) \in Seq(Middleware)
    BY <1>5, <2>1, ItemsType
  <2>3. PICK e \in Seq(Middleware) : e = b.inherited[k] \o Items(b.own[k], k, g)
    BY <2>1, <2>2, ConcatProperties
  <2>4. lists[k] = [own |-> e, given |-> FALSE]
    BY <2>3 DEF Own
  <2>5. PICK l : l = lists[k]
    OBVIOUS
  <2>6. l \in Lists /\ Items(l, k, g) = e
    <3>1. e \in Seq(Middleware) /\ l = [own |-> e, given |-> FALSE]
      BY <2>3, <2>4, <2>5
    <3> QED
      BY ONLY <3>1 DEF Lists, Items
  <2> QED
    BY <2>3, <2>5, <2>6
<1>7. lists \in [Kinds -> Lists]
  BY <1>6
<1> HIDE DEF lists
<1>8. /\ r.method \in Methods /\ r.static \in BOOLEAN /\ r.schema \in Schemas
      /\ r.defer \in BOOLEAN /\ r.flows \in BOOLEAN
  BY HttpAssumption DEF Methods, Schemas
<1>9. b.want \in Wanted /\ b.data \in BOOLEAN /\ b.routes \in Seq(BuiltRoutes)
  BY <1>5 DEF Builders
<1>10. t \in BuiltRoutes /\ t.mw = lists /\ t.want = b.want
  BY ONLY <1>2, <1>7, <1>8, <1>9, p \in Paths, v \in BOOLEAN DEF BuiltRoutes
<1>11. PICK rs : rs = Append(b.routes, t) /\ Longer(b.routes, t, rs) /\ rs \in Seq(BuiltRoutes)
  BY <1>9, <1>10, AppendRange
<1>12. c = [b EXCEPT !.cur = TRUE, !.over = none, !.routes = rs]
  BY <1>3, <1>11
<1>13. none \in [Kinds -> BOOLEAN]
  OBVIOUS
<1> HIDE DEF none
<1>14. /\ c \in Builders /\ c.inherited = b.inherited /\ c.own = b.own /\ c.want = b.want
       /\ c.cur = TRUE /\ c.over = none /\ c.routes = rs
  BY ONLY <1>5, <1>11, <1>12, <1>13 DEF Builders
<1>15. Holds(t, g)
  BY <1>5, <1>6, <1>10 DEF BuilderOK, OwnHold, Holds
<1>16. /\ DOMAIN rs = DOMAIN b.routes \union {Len(b.routes) + 1}
       /\ rs[Len(b.routes) + 1] = t /\ \A i \in DOMAIN b.routes : rs[i] = b.routes[i]
       /\ Len(rs) = Len(b.routes) + 1
  BY <1>11 DEF Longer
<1>17. AllHold(rs, g)
  BY <1>5, <1>15, <1>16 DEF BuilderOK, AllHold
<1>18. OwnHold(c, g)
  BY <1>5, <1>14 DEF BuilderOK, OwnHold
<1>19. Len(rs) \in DOMAIN rs /\ LastOf(c) = t
  BY <1>14, <1>16 DEF LastOf
<1>20. BuilderOK(c, g)
  BY <1>10, <1>14, <1>17, <1>18, <1>19 DEF BuilderOK
<1> QED
  BY <1>4, <1>5, <1>g, <1>20, CallOK

LEMMA BuilderIsOK ==
  ASSUME NEW g \in Wanted, \A k \in Kinds : IsWithin(Given[k], g[k])
  PROVE  Builder \in Builders /\ BuilderOK(Builder, g)
<1> DEFINE o == [k \in Kinds |-> Own(<<>>)]
           none == [k \in Kinds |-> FALSE]
<1>1. Builder = [inherited |-> Global, own |-> o, over |-> none, cur |-> FALSE,
                 params |-> FALSE, data |-> FALSE, routes |-> <<>>, want |-> Global]
  BY DEF Builder
<1>2. Own(<<>>) = [own |-> <<>>, given |-> FALSE]
  BY DEF Own
<1>3. o \in [Kinds -> Lists] /\ \A k \in Kinds : Items(o[k], k, g) = <<>>
  <2>1. PICK l : l = Own(<<>>)
    OBVIOUS
  <2>2. <<>> \in Seq(Middleware)
    OBVIOUS
  <2>3. l \in Lists /\ l.own = <<>> /\ l.given = FALSE
    <3>1. PICK e \in Seq(Middleware) : e = <<>>
      BY <2>2
    <3>2. l = [own |-> e, given |-> FALSE]
      BY <1>2, <2>1, <3>1
    <3>3. l \in Lists /\ l.own = e /\ l.given = FALSE
      BY ONLY <3>2, e \in Seq(Middleware) DEF Lists
    <3> QED
      BY <3>1, <3>3
  <2>4. \A k \in Kinds : o[k] = l
    BY <2>1
  <2> QED
    BY <2>3, <2>4 DEF Items
<1>4. none \in [Kinds -> BOOLEAN] /\ Global \in Wanted /\ <<>> \in Seq(BuiltRoutes)
  BY GivenType
<1> HIDE DEF o, none
<1>5. Builder \in Builders
  BY ONLY <1>1, <1>3, <1>4 DEF Builders
<1>6. ASSUME NEW k \in Kinds PROVE IsWithin(Global[k], Global[k] \o Items(o[k], k, g))
  <2>1. PICK w \in Seq(Middleware) : w = Global[k]
    BY GivenType DEF Wanted
  <2>2. w \o <<>> = w
    BY ConcatEmptySeq
  <2>3. IsWithin(w, w)
    BY WithinItself
  <2> QED
    BY <1>3, <2>1, <2>2, <2>3
<1>7. OwnHold(Builder, g)
  BY <1>1, <1>6 DEF OwnHold
<1>8. AllHold(Builder.routes, g)
  BY <1>1 DEF AllHold
<1> QED
  BY <1>1, <1>5, <1>7, <1>8 DEF BuilderOK

LEMMA EndControllerOK ==
  ASSUME SiteOK, EndController
  PROVE  SiteOK' /\ site'.headers = site.headers
<1>b. PICK b : b = site.builder
  OBVIOUS
<1>g. PICK g : g = site.given
  OBVIOUS
<1>1. PICK cs, rs : cs = site.compiled /\ rs = cs \o b.routes
  OBVIOUS
<1>2. site' = [site EXCEPT !.compiled = rs, !.builder = Builder] /\ site.stage = "configure"
  BY <1>b, <1>1 DEF EndController, B
<1>3. /\ site \in Sites /\ b \in Builders /\ g \in Wanted /\ BuilderOK(b, g)
      /\ AllHold(cs, g) /\ cs \in Seq(BuiltRoutes)
      /\ \A k \in Kinds : IsWithin(Given[k], g[k])
  BY <1>1, <1>2, <1>b, <1>g DEF SiteOK, Sites
<1>4. Builder \in Builders /\ BuilderOK(Builder, g)
  BY <1>3, BuilderIsOK
<1>5. AllHold(b.routes, g) /\ b.routes \in Seq(BuiltRoutes)
  BY <1>3 DEF BuilderOK, Builders
<1>6. rs \in Seq(BuiltRoutes) /\ AllHold(rs, g)
  <2>1. /\ rs \in Seq(BuiltRoutes) /\ Len(rs) = Len(cs) + Len(b.routes)
        /\ \A i \in 1 .. Len(rs) : rs[i] = IF i <= Len(cs) THEN cs[i]
                                           ELSE b.routes[i - Len(cs)]
    <3>1. PICK ds \in Seq(BuiltRoutes) : ds = b.routes
      BY <1>5
    <3>2. cs \in Seq(BuiltRoutes) /\ rs = cs \o ds
      BY <1>1, <1>3, <3>1
    <3>3. /\ rs \in Seq(BuiltRoutes) /\ Len(rs) = Len(cs) + Len(ds)
          /\ \A i \in 1 .. Len(rs) : rs[i] = IF i <= Len(cs) THEN cs[i] ELSE ds[i - Len(cs)]
      BY ONLY <3>2, ds \in Seq(BuiltRoutes), ConcatProperties
    <3> QED
      BY <3>1, <3>3
  <2>2. /\ Len(cs) \in Nat /\ DOMAIN cs = 1 .. Len(cs)
        /\ Len(b.routes) \in Nat /\ DOMAIN b.routes = 1 .. Len(b.routes)
        /\ DOMAIN rs = 1 .. Len(rs)
    BY <1>3, <1>5, <2>1
  <2>3. ASSUME NEW i \in DOMAIN rs PROVE Holds(rs[i], g)
    <3>0. i \in 1 .. Len(cs) + Len(b.routes)
      BY <2>1, <2>2
    <3>1. CASE i <= Len(cs)
      <4>1. i \in DOMAIN cs /\ rs[i] = cs[i]
        BY <2>1, <2>2, <3>0, <3>1
      <4> QED
        BY <1>3, <4>1 DEF AllHold
    <3>2. CASE ~ (i <= Len(cs))
      <4>1. i - Len(cs) \in DOMAIN b.routes
        BY <2>2, <3>0, <3>2
      <4>2. rs[i] = b.routes[i - Len(cs)]
        BY <2>1, <2>2, <3>2
      <4> QED
        BY <1>5, <4>1, <4>2 DEF AllHold
    <3> QED
      BY <3>1, <3>2
  <2> QED
    BY <2>1, <2>3 DEF AllHold
<1>7. /\ site' \in Sites /\ site'.stage = "configure" /\ site'.given = g
      /\ site'.builder = Builder /\ site'.compiled = rs /\ site'.table = site.table
      /\ site'.headers = site.headers
  BY <1>2, <1>3, <1>4, <1>6, <1>g DEF Sites
<1> QED
  BY <1>3, <1>4, <1>6, <1>7 DEF SiteOK

LEMMA GenerateOK ==
  ASSUME SiteOK, GenerateBunRoutes
  PROVE  SiteOK' /\ site'.headers = site.headers
<1>1. PICK rs, g : rs = site.compiled /\ g = site.given
  OBVIOUS
<1> DEFINE list(r) == [k \in Kinds |-> Items(r.mw[k], k, g)]
<1>2. PICK t : t = [i \in DOMAIN rs |-> [rs[i] EXCEPT !.mw = list(rs[i])]]
  OBVIOUS
<1>3. /\ site' = [site EXCEPT !.stage = "serving", !.calls = 0, !.given = Given,
                              !.compiled = <<>>, !.table = t]
      /\ site.stage = "configure"
  BY <1>1, <1>2 DEF GenerateBunRoutes
<1>4. site \in Sites /\ g \in Wanted /\ rs \in Seq(BuiltRoutes) /\ AllHold(rs, g)
  BY <1>1, <1>3 DEF SiteOK, Sites
<1>5. ASSUME NEW i \in DOMAIN rs
      PROVE  t[i] \in TableRoutes /\ TableHolds(t[i])
  <2>1. PICK r : r = rs[i]
    OBVIOUS
  <2>2. r \in BuiltRoutes /\ \A k \in Kinds : r.mw[k] \in Lists
    BY <1>4, <2>1, RouteType
  <2>3. PICK l : l = list(r)
    OBVIOUS
  <2>4. l \in Wanted /\ \A k \in Kinds : l[k] = Items(r.mw[k], k, g)
    BY <1>4, <2>2, <2>3, ItemsType DEF Wanted
  <2>5. t[i] = [r EXCEPT !.mw = l]
    BY <1>2, <2>1, <2>3
  <2>6. t[i] \in TableRoutes /\ t[i].mw = l /\ t[i].want = r.want
    BY <2>2, <2>4, <2>5 DEF BuiltRoutes, TableRoutes
  <2> QED
    BY <1>4, <2>1, <2>4, <2>6 DEF AllHold, Holds, TableHolds
<1>6. t \in Seq(TableRoutes) /\ DOMAIN t = DOMAIN rs
  <2>1. Len(rs) \in Nat /\ DOMAIN rs = 1 .. Len(rs)
    BY <1>4
  <2>2. t = [i \in 1 .. Len(rs) |-> t[i]]
    BY <1>2, <2>1
  <2> QED
    BY <1>5, <2>1, <2>2, IsASeq
<1>7. <<>> \in Seq(BuiltRoutes) /\ Given \in Wanted
  BY GivenType
<1>8. /\ site' \in Sites /\ site'.stage = "serving" /\ site'.table = t
      /\ site'.headers = site.headers
  BY <1>3, <1>4, <1>6, <1>7 DEF Sites
<1> QED
  BY <1>5, <1>6, <1>8 DEF SiteOK

LEMMA ConfigureOK ==
  ASSUME SiteOK, Configure
  PROVE  SiteOK' /\ site'.headers = site.headers
BY AddOK, ReplaceClearOK, ReplaceGlobalOK, ParamDataOK, AddRouteOK, EndControllerOK, GenerateOK
   DEF Configure

-----------------------------------------------------------------------------
(* What a request is, whatever it awaits. *)

Answers ==
  [kind : {"none", "static", "preflight", "unmatched", "ok", "thrown", "error", "refused",
           "invalid"},
   dressed : BOOLEAN, extra : BOOLEAN]

Requests ==
  [at : {"none", "begin", "guards", "validate", "request", "intercept", "handler", "deferred",
         "unwind", "workflow", "end"},
   route : TableRoutes \union {<<>>}, n : Int, passed : Seq(Middleware), valid : BOOLEAN,
   runner : BOOLEAN, guarded : {"no", "running", "yes"},
   body : {"unread", "text", "json", "valid"}, extra : BOOLEAN,
   result : {"none", "response", "thrown", "error"}, again : Nat, exec : SUBSET Execs,
   answer : Answers]

GuardsOf(q) == q.route.mw["guards"]

\* The guards before the n-th have let the request pass.
Passing(q) ==
  /\ q.n \in 1 .. Len(GuardsOf(q)) /\ Len(q.passed) = q.n - 1
  /\ \A i \in 1 .. q.n - 1 : q.passed[i] = GuardsOf(q)[i]

\* All of them have, unless they are deferred and did not; then there are some.
GuardsOK(q) ==
  /\ ~ q.route.defer \/ q.guarded = "yes" => q.passed = GuardsOf(q)
  /\ q.runner => q.route.defer /\ GuardsOf(q) # <<>>
  /\ q.runner /\ q.guarded = "no" => q.passed = <<>>

Checked(q) ==
  /\ q.route.validators \/ q.route.schema # "none" => q.valid
  /\ q.route.schema = "body" => q.body = "valid"

OnRoute(q) == q.route \in TableRoutes /\ TableHolds(q.route)

\* An answer has the headers of the site and those of the request only if it is the handler's.
AnswerOK(a) ==
  /\ a.kind \notin {"none", "unmatched"} => a.dressed = site.headers
  /\ a.extra => a.kind = "ok"

RequestOK(q) ==
  /\ q \in Requests /\ AnswerOK(q.answer)
  /\ q.at \notin {"none", "end"} => OnRoute(q)
  /\ q.at = "begin" => q.passed = <<>> /\ q.guarded = "no" /\ ~ q.runner
  /\ q.at = "guards" => Passing(q) /\ ~ q.route.defer /\ q.guarded = "no" /\ ~ q.runner
  /\ q.at = "deferred" => Passing(q) /\ q.route.defer /\ q.guarded = "running" /\ Checked(q)
  /\ q.at \in {"validate", "request"} \union TheirOwn => GuardsOK(q)
  /\ q.at \in TheirOwn => Checked(q)
  /\ q.at # "end" => q.answer = NoAnswer

\* What the pipeline goes on with.
Ready(q) == q \in Requests /\ OnRoute(q) /\ GuardsOK(q) /\ Checked(q) /\ q.answer = NoAnswer

LEMMA AnswerIsOK ==
  ASSUME site \in Sites, NEW q \in Requests, NEW extra \in BOOLEAN,
         NEW kind \in {"static", "preflight", "unmatched", "ok", "thrown", "error", "refused",
                       "invalid"},
         extra => kind = "ok", NEW a, a = Answer(q, kind, extra)
  PROVE  RequestOK(a) /\ a.exec = q.exec /\ a.at = "end"
<1>1. PICK h \in BOOLEAN : h = site.headers
  BY DEF Sites
<1>2. PICK v : v = [kind |-> kind, dressed |-> h, extra |-> extra]
  OBVIOUS
<1>3. a = [q EXCEPT !.at = "end", !.n = 0, !.answer = v]
  BY <1>1, <1>2 DEF Answer
<1>4. v \in Answers
  BY <1>2 DEF Answers
<1>5. a \in Requests /\ a.at = "end" /\ a.answer = v /\ a.exec = q.exec
  <2>1. a = [at |-> "end", route |-> q.route, n |-> 0, passed |-> q.passed, valid |-> q.valid,
             runner |-> q.runner, guarded |-> q.guarded, body |-> q.body, extra |-> q.extra,
             result |-> q.result, again |-> q.again, exec |-> q.exec, answer |-> v]
    BY <1>3 DEF Requests
  <2>2. /\ q.route \in TableRoutes \union {<<>>} /\ q.passed \in Seq(Middleware)
        /\ q.valid \in BOOLEAN /\ q.runner \in BOOLEAN /\ q.extra \in BOOLEAN
        /\ q.guarded \in {"no", "running", "yes"} /\ q.body \in {"unread", "text", "json", "valid"}
        /\ q.result \in {"none", "response", "thrown", "error"} /\ q.again \in Nat
        /\ q.exec \in SUBSET Execs
    BY DEF Requests
  <2>3. a \in Requests
    BY ONLY <1>4, <2>1, <2>2 DEF Requests
  <2> QED
    BY <2>1, <2>3
<1>6. AnswerOK(v)
  BY <1>1, <1>2 DEF AnswerOK
<1> QED
  BY <1>5, <1>6 DEF RequestOK, TheirOwn

LEMMA CaughtOK ==
  ASSUME site \in Sites, NEW q \in Requests, NEW a, a = Caught(q)
  PROVE  RequestOK(a) /\ a.exec = q.exec /\ a.at = "end"
<1>1. q.extra \in BOOLEAN
  BY DEF Requests
<1>2. PICK extra \in BOOLEAN, kind \in {"ok", "thrown", "error"} :
        (extra => kind = "ok") /\ a = Answer(q, kind, extra)
  BY <1>1 DEF Caught
<1> QED
  BY <1>2, AnswerIsOK

\* The request goes on within the interceptors.
Onward(q, x, m, result, again) ==
  [q EXCEPT !.at = x, !.n = m, !.result = result, !.again = again]

Back(q, result, m) == [q EXCEPT !.result = result, !.n = m]

Unwound(back, m) == IF m = 0 THEN Caught(back) ELSE [back EXCEPT !.at = "unwind"]

LEMMA GoesOn ==
  ASSUME NEW q, Ready(q), NEW x \in TheirOwn, NEW m \in Int, NEW again \in Nat,
         NEW result \in {"none", "response", "thrown", "error"},
         NEW a, a = Onward(q, x, m, result, again)
  PROVE  RequestOK(a) /\ Ready(a) /\ a.exec = q.exec /\ a.at = x /\ a.n = m
         /\ a.route = q.route
<1>1. q \in Requests
  BY DEF Ready
<1>2. /\ a \in Requests /\ a.at = x /\ a.exec = q.exec /\ a.route = q.route
      /\ a.passed = q.passed /\ a.valid = q.valid /\ a.runner = q.runner
      /\ a.guarded = q.guarded /\ a.body = q.body /\ a.answer = q.answer /\ a.n = m
  BY <1>1 DEF Requests, TheirOwn, Onward
<1>3. OnRoute(a) /\ GuardsOK(a) /\ Checked(a) /\ a.answer = NoAnswer
  BY <1>2 DEF Ready, OnRoute, GuardsOK, Checked, GuardsOf
<1>4. AnswerOK(a.answer)
  BY <1>3 DEF AnswerOK, NoAnswer
<1> QED
  BY <1>2, <1>3, <1>4 DEF RequestOK, TheirOwn, Ready

LEMMA DeeperOK ==
  ASSUME NEW q, Ready(q), NEW a, a = Deeper(q)
  PROVE  RequestOK(a) /\ a.exec = q.exec /\ a.at \in {"intercept", "handler"}
<1>1. q \in Requests
  BY DEF Ready
<1>2. PICK x \in {"intercept", "handler"} : a = [q EXCEPT !.n = @ + 1, !.at = x]
  BY DEF Deeper
<1>3. /\ q.n + 1 \in Int /\ q.again \in Nat
      /\ q.result \in {"none", "response", "thrown", "error"} /\ x \in TheirOwn
  BY <1>1 DEF Requests, TheirOwn
<1>4. PICK m \in Int, again \in Nat, result \in {"none", "response", "thrown", "error"} :
        m = q.n + 1 /\ again = q.again /\ result = q.result
  BY <1>3
<1>5. a = Onward(q, x, m, result, again)
  BY <1>1, <1>2, <1>4 DEF Requests, Onward
<1>6. RequestOK(a) /\ a.exec = q.exec /\ a.at = x
  BY ONLY Ready(q), <1>3, <1>5, m \in Int, again \in Nat,
     result \in {"none", "response", "thrown", "error"}, GoesOn
<1> QED
  BY <1>6

\* The result of the handler or of an interceptor goes to the one outside of it.
LEMMA UnwindOK ==
  ASSUME site \in Sites, NEW q, Ready(q), NEW m \in Int,
         NEW result \in {"response", "thrown", "error"},
         NEW back, back = Back(q, result, m), NEW a, a = Unwound(back, m)
  PROVE  RequestOK(a) /\ a.exec = q.exec /\ a.at \in {"unwind", "end"}
<1>1. q \in Requests
  BY DEF Ready
<1>2. back \in Requests /\ back.exec = q.exec
  BY <1>1 DEF Requests, Back
<1>3. CASE m = 0
  BY <1>2, <1>3, CaughtOK DEF Unwound
<1>4. CASE m # 0
  <2>1. PICK again \in Nat : again = q.again
    BY <1>1 DEF Requests
  <2>2. PICK x \in TheirOwn : x = "unwind"
    BY DEF TheirOwn
  <2>3. PICK r \in {"none", "response", "thrown", "error"} : r = result
    OBVIOUS
  <2>4. a = Onward(q, x, m, r, again)
    BY <1>1, <1>4, <2>1, <2>2, <2>3 DEF Requests, Onward, Unwound, Back
  <2>5. RequestOK(a) /\ a.exec = q.exec /\ a.at = x
    BY ONLY Ready(q), <2>4, m \in Int, again \in Nat, x \in TheirOwn,
       r \in {"none", "response", "thrown", "error"}, GoesOn
  <2> QED
    BY <2>2, <2>5
<1> QED
  BY <1>3, <1>4

LEMMA ReturnOK ==
  ASSUME site \in Sites, NEW q, Ready(q), OnRoute(req),
         NEW result \in {"response", "thrown", "error"}, NEW a, a = Return(q, result)
  PROVE  RequestOK(a) /\ a.exec = q.exec /\ a.at \in {"unwind", "end"}
<1>1. PICK m : m = Len(R.mw["interceptors"])
  OBVIOUS
<1>2. m \in Int
  <2>1. R.mw \in Wanted /\ "interceptors" \in Kinds
    BY DEF OnRoute, R, TableRoutes, Kinds
  <2>2. R.mw["interceptors"] \in Seq(Middleware)
    BY <2>1 DEF Wanted
  <2> QED
    BY <1>1, <2>2, LenProperties
<1>3. PICK back : back = Back(q, result, m)
  OBVIOUS
<1>4. back.n = m
  BY <1>3 DEF Ready, Requests, Back
<1>5. a = Unwound(back, m)
  BY <1>1, <1>3, <1>4 DEF Return, Back, Unwound
<1> QED
  BY ONLY site \in Sites, Ready(q), result \in {"response", "thrown", "error"},
     <1>2, <1>3, <1>5, UnwindOK

LEMMA AfterGuardsOK ==
  ASSUME NEW q \in Requests, OnRoute(q), q.route = R, GuardsOK(q), q.answer = NoAnswer,
         NEW a, a = AfterGuards(q)
  PROVE  RequestOK(a) /\ a.exec = q.exec /\ a.at \in {"validate", "intercept", "handler"}
<1>1. CASE R.validators \/ R.schema # "none"
  <2>1. a = [q EXCEPT !.at = "validate"]
    BY <1>1 DEF AfterGuards
  <2>2. /\ a \in Requests /\ a.at = "validate" /\ a.exec = q.exec /\ a.route = q.route
        /\ a.passed = q.passed /\ a.runner = q.runner /\ a.guarded = q.guarded
        /\ a.answer = NoAnswer
    BY <2>1 DEF Requests
  <2>3. AnswerOK(a.answer) /\ OnRoute(a) /\ GuardsOK(a)
    BY <2>2 DEF AnswerOK, NoAnswer, OnRoute, GuardsOK, GuardsOf
  <2> QED
    BY <2>2, <2>3 DEF RequestOK, TheirOwn
<1>2. CASE ~ (R.validators \/ R.schema # "none")
  <2>1. PICK b : b = [q EXCEPT !.n = 0]
    OBVIOUS
  <2>2. a = Deeper(b)
    BY <1>2, <2>1 DEF AfterGuards
  <2>3. /\ b \in Requests /\ b.exec = q.exec /\ b.route = q.route
        /\ b.passed = q.passed /\ b.runner = q.runner /\ b.guarded = q.guarded
        /\ b.answer = NoAnswer
    BY <2>1 DEF Requests
  <2>4. OnRoute(b) /\ GuardsOK(b) /\ Checked(b)
    BY <1>2, <2>3 DEF OnRoute, GuardsOK, Checked, GuardsOf
  <2>5. Ready(b)
    BY <2>3, <2>4 DEF Ready
  <2> QED
    BY <2>2, <2>3, <2>5, DeeperOK
<1> QED
  BY <1>1, <1>2

RequestState == site \in Sites /\ RequestOK(req)

\* A step of the request alone, and where it is afterwards.
Stepped == RequestOK(req') /\ req'.exec = req.exec /\ req'.at # "workflow"

LEMMA BeginOK == ASSUME RequestState, Begin PROVE Stepped
<1>1. /\ req \in Requests /\ OnRoute(req) /\ req.passed = <<>> /\ req.guarded = "no"
      /\ ~ req.runner /\ req.answer = NoAnswer /\ req.at = "begin"
  BY DEF RequestState, RequestOK, Begin
<1>2. PICK g \in Seq(Middleware) : g = R.mw["guards"]
  <2>1. R.mw \in Wanted /\ "guards" \in Kinds
    BY <1>1 DEF OnRoute, R, TableRoutes, Kinds
  <2> QED
    BY <2>1 DEF Wanted
<1>3. CASE g = <<>>
  <2>1. GuardsOK(req) /\ req.route = R
    BY <1>1, <1>2, <1>3 DEF GuardsOK, GuardsOf, R
  <2>2. req' = AfterGuards(req)
    BY <1>2, <1>3 DEF Begin
  <2>3. RequestOK(req') /\ req'.exec = req.exec /\ req'.at \in {"validate", "intercept", "handler"}
    BY <1>1, <2>1, <2>2, AfterGuardsOK
  <2> QED
    BY <2>3 DEF Stepped
<1>4. CASE g # <<>> /\ R.defer
  <2>1. PICK b : b = [req EXCEPT !.runner = TRUE]
    OBVIOUS
  <2>2. /\ b \in Requests /\ b.exec = req.exec /\ b.route = req.route /\ b.runner
        /\ b.passed = <<>> /\ b.guarded = "no" /\ b.answer = NoAnswer
    BY <1>1, <2>1 DEF Requests
  <2>3. GuardsOK(b) /\ OnRoute(b) /\ b.route = R
    BY <1>1, <1>2, <1>4, <2>2 DEF GuardsOK, GuardsOf, R, OnRoute
  <2>4. req' = AfterGuards(b)
    BY <1>2, <1>4, <2>1 DEF Begin
  <2>5. RequestOK(req') /\ req'.exec = b.exec /\ req'.at \in {"validate", "intercept", "handler"}
    BY <2>2, <2>3, <2>4, AfterGuardsOK
  <2> QED
    BY <2>2, <2>5 DEF Stepped
<1>5. CASE g # <<>> /\ ~ R.defer
  <2>1. req' = [req EXCEPT !.at = "guards", !.n = 1]
    BY <1>2, <1>5 DEF Begin
  <2>2. /\ req' \in Requests /\ req'.at = "guards" /\ req'.n = 1 /\ req'.exec = req.exec
        /\ req'.route = req.route /\ req'.runner = req.runner /\ req'.passed = req.passed
        /\ req'.guarded = req.guarded /\ req'.answer = req.answer
    <3>1. PICK q : q = req
      OBVIOUS
    <3>2. req' = [at |-> "guards", route |-> q.route, n |-> 1, passed |-> q.passed,
                  valid |-> q.valid, runner |-> q.runner, guarded |-> q.guarded,
                  body |-> q.body, extra |-> q.extra, result |-> q.result,
                  again |-> q.again, exec |-> q.exec, answer |-> q.answer]
      BY <1>1, <2>1, <3>1 DEF Requests
    <3>3. q \in Requests /\ 1 \in Int
      BY <1>1, <3>1
    <3>4. req' \in Requests
      BY ONLY <3>2, <3>3 DEF Requests
    <3> QED
      BY <3>1, <3>2, <3>4
  <2>3. Len(g) \in Nat /\ Len(g) # 0
    BY <1>5, EmptySeq, LenProperties
  <2>4. GuardsOf(req') = g /\ ~ req'.route.defer
    BY <1>2, <1>5, <2>2 DEF GuardsOf, R
  <2>5. Passing(req')
    <3>1. Len(<<>>) = 0
      OBVIOUS
    <3> QED
      BY <1>1, <2>2, <2>3, <2>4, <3>1 DEF Passing
  <2>6. OnRoute(req') /\ AnswerOK(req'.answer)
    BY <1>1, <2>2 DEF OnRoute, AnswerOK, NoAnswer
  <2>7. RequestOK(req')
    BY <1>1, <2>2, <2>4, <2>5, <2>6 DEF RequestOK, TheirOwn
  <2> QED
    BY <2>2, <2>7 DEF Stepped
<1> QED
  BY <1>3, <1>4, <1>5

\* What a guard does to the context is none of what counts here.
Alike(t, q) ==
  /\ t \in Requests /\ t.at = q.at /\ t.route = q.route /\ t.n = q.n /\ t.passed = q.passed
  /\ t.valid = q.valid /\ t.runner = q.runner /\ t.guarded = q.guarded /\ t.exec = q.exec
  /\ t.answer = q.answer /\ (q.body = "valid" => t.body = "valid")

LEMMA TouchedAlike ==
  ASSUME NEW q \in Requests, NEW t \in Touched(q)
  PROVE  Alike(t, q)
<1>1. CASE t = q
  BY <1>1 DEF Alike
<1>2. CASE t # q
  <2>1. PICK kind \in {"text", "json"} : t = ReadAs(q, kind)
    BY <1>2 DEF Touched
  <2>2. PICK b \in {"unread", "text", "json", "valid"} :
          b = (IF q.body = "unread" THEN kind ELSE q.body)
    BY DEF Requests
  <2>3. t = [q EXCEPT !.body = b]
    BY <2>1, <2>2 DEF ReadAs
  <2> QED
    BY <2>2, <2>3 DEF Alike, Requests
<1> QED
  BY <1>1, <1>2

LEMMA TouchesAlike ==
  ASSUME NEW q \in Requests, NEW t \in Touched(q) \union Touched(SetResponseHeader(q))
  PROVE  Alike(t, q)
<1>1. PICK s : s = SetResponseHeader(q)
  OBVIOUS
<1>2. s \in Requests /\ Alike(s, q)
  BY <1>1 DEF SetResponseHeader, Requests, Alike
<1>3. CASE t \in Touched(q)
  BY <1>3, TouchedAlike
<1>4. CASE t \in Touched(s)
  <2>1. Alike(t, s)
    BY <1>2, <1>4, TouchedAlike
  <2> QED
    BY <1>2, <2>1 DEF Alike
<1> QED
  BY <1>1, <1>3, <1>4

LEMMA GuardsType ==
  ASSUME NEW q, OnRoute(q)
  PROVE  /\ GuardsOf(q) \in Seq(Middleware) /\ Len(GuardsOf(q)) \in Nat
         /\ DOMAIN GuardsOf(q) = 1 .. Len(GuardsOf(q))
         /\ q.route.mw["interceptors"] \in Seq(Middleware)
         /\ Len(q.route.mw["interceptors"]) \in Int
<1>1. q.route.mw \in Wanted /\ "guards" \in Kinds /\ "interceptors" \in Kinds
  BY DEF OnRoute, TableRoutes, Kinds
<1>2. GuardsOf(q) \in Seq(Middleware) /\ q.route.mw["interceptors"] \in Seq(Middleware)
  BY <1>1 DEF Wanted, GuardsOf
<1> QED
  BY <1>2, LenProperties

\* One more guard has let the request pass.
LEMMA PassesOne ==
  ASSUME NEW q \in Requests, OnRoute(q), Passing(q), NEW p,
         p = Append(q.passed, GuardsOf(q)[q.n])
  PROVE  /\ p \in Seq(Middleware) /\ Len(p) = q.n /\ \A i \in 1 .. q.n : p[i] = GuardsOf(q)[i]
         /\ q.n = Len(GuardsOf(q)) => p = GuardsOf(q)
<1> DEFINE g == GuardsOf(q)
           m == g[q.n]
<1>1. /\ g \in Seq(Middleware) /\ Len(g) \in Nat /\ DOMAIN g = 1 .. Len(g)
      /\ q.passed \in Seq(Middleware) /\ q.n \in 1 .. Len(g) /\ q.n \in Int
      /\ Len(q.passed) = q.n - 1 /\ \A i \in 1 .. q.n - 1 : q.passed[i] = g[i]
  BY GuardsType DEF Passing, Requests
<1> HIDE DEF g
<1>2. m \in Middleware
  BY <1>1, ElementOfSeq
<1>3. p \in Seq(Middleware) /\ Longer(q.passed, m, p)
  BY <1>1, <1>2, AppendRange DEF g
<1>4. /\ Len(p) = q.n /\ p[q.n] = m /\ \A i \in 1 .. q.n - 1 : p[i] = q.passed[i]
  BY <1>1, <1>3 DEF Longer
<1>5. \A i \in 1 .. q.n : p[i] = g[i]
  BY <1>1, <1>4
<1>6. q.n = Len(g) => p = g
  BY <1>1, <1>3, <1>4, <1>5, SeqEqual
<1> QED
  BY <1>3, <1>4, <1>5, <1>6 DEF g

LEMMA GuardPassesOK == ASSUME RequestState, GuardPasses PROVE Stepped
<1>1. /\ req \in Requests /\ OnRoute(req) /\ Passing(req) /\ req.answer = NoAnswer
      /\ req.at \in {"guards", "deferred"}
      /\ req.at = "guards" => ~ req.route.defer /\ req.guarded = "no" /\ ~ req.runner
      /\ req.at = "deferred" => req.route.defer /\ req.guarded = "running" /\ Checked(req)
  BY DEF RequestState, RequestOK, GuardPasses
<1>2. PICK t \in Touched(req) \union Touched(SetResponseHeader(req)) :
        LET q == [t EXCEPT !.passed = Append(@, R.mw["guards"][req.n])]
        IN  req' = IF req.n < Len(R.mw["guards"]) THEN [q EXCEPT !.n = @ + 1]
                   ELSE IF req.at = "guards" THEN AfterGuards(q)
                   ELSE [q EXCEPT !.at = "handler", !.guarded = "yes",
                                  !.n = Len(R.mw["interceptors"]) + 1]
  BY DEF GuardPasses
<1>3. PICK p : p = Append(req.passed, GuardsOf(req)[req.n])
  OBVIOUS
<1>4. Alike(t, req)
  BY <1>1, TouchesAlike
<1>5. PICK q : q = [t EXCEPT !.passed = p]
  OBVIOUS
<1>6. /\ p \in Seq(Middleware) /\ Len(p) = req.n /\ \A i \in 1 .. req.n : p[i] = GuardsOf(req)[i]
      /\ req.n = Len(GuardsOf(req)) => p = GuardsOf(req)
  BY <1>1, <1>3, PassesOne
<1>7. /\ q \in Requests /\ q.at = req.at /\ q.route = req.route /\ q.n = req.n
      /\ q.passed = p /\ q.valid = req.valid /\ q.runner = req.runner
      /\ q.guarded = req.guarded /\ q.exec = req.exec /\ q.answer = NoAnswer
      /\ (req.body = "valid" => q.body = "valid")
  <2>1. t \in Requests
    BY <1>4 DEF Alike
  <2>2. /\ q \in Requests /\ q.at = t.at /\ q.route = t.route /\ q.n = t.n
        /\ q.passed = p /\ q.valid = t.valid /\ q.runner = t.runner
        /\ q.guarded = t.guarded /\ q.exec = t.exec /\ q.answer = t.answer /\ q.body = t.body
    BY <1>5, <1>6, <2>1 DEF Requests
  <2> QED
    BY <1>1, <1>4, <2>2 DEF Alike
<1>8. req' = IF req.n < Len(GuardsOf(req)) THEN [q EXCEPT !.n = @ + 1]
             ELSE IF req.at = "guards" THEN AfterGuards(q)
             ELSE [q EXCEPT !.at = "handler", !.guarded = "yes",
                            !.n = Len(R.mw["interceptors"]) + 1]
  BY <1>2, <1>3, <1>4, <1>5 DEF GuardsOf, R, Alike
<1>9. /\ OnRoute(q) /\ GuardsOf(q) = GuardsOf(req) /\ q.route = R /\ AnswerOK(q.answer)
      /\ (Checked(req) => Checked(q))
  BY <1>1, <1>7 DEF OnRoute, GuardsOf, R, Checked, AnswerOK, NoAnswer
<1>10. req.n \in 1 .. Len(GuardsOf(req)) /\ Len(GuardsOf(req)) \in Nat /\ req.n \in Int
  BY <1>1, GuardsType DEF Passing, Requests
<1>11. CASE req.n < Len(GuardsOf(req))
  <2>1. PICK m \in Int : m = req.n + 1
    BY <1>10
  <2>2. req' = [q EXCEPT !.n = m]
    BY <1>7, <1>8, <1>11, <2>1
  <2>3. /\ req' \in Requests /\ req'.at = req.at /\ req'.route = req.route /\ req'.n = m
        /\ req'.passed = p /\ req'.valid = req.valid /\ req'.runner = req.runner
        /\ req'.guarded = req.guarded /\ req'.exec = req.exec /\ req'.answer = NoAnswer
        /\ req'.body = q.body
    BY <1>7, <2>2 DEF Requests
  <2>4. GuardsOf(req') = GuardsOf(req) /\ OnRoute(req') /\ AnswerOK(req'.answer)
        /\ (Checked(q) => Checked(req'))
    BY <1>1, <1>7, <1>9, <2>3 DEF OnRoute, GuardsOf, Checked
  <2>5. Passing(req')
    <3>1. m \in 1 .. Len(GuardsOf(req)) /\ m - 1 = req.n
      BY <1>10, <1>11, <2>1
    <3> QED
      BY <1>6, <2>3, <2>4, <3>1 DEF Passing
  <2>6. RequestOK(req')
    BY <1>1, <1>9, <2>3, <2>4, <2>5 DEF RequestOK, TheirOwn
  <2> QED
    BY <1>1, <2>3, <2>6 DEF Stepped
<1>12. CASE ~ (req.n < Len(GuardsOf(req)))
  <2>1. p = GuardsOf(q)
    BY <1>6, <1>9, <1>10, <1>12
  <2>2. CASE req.at = "guards"
    <3>1. req' = AfterGuards(q)
      BY <1>8, <1>12, <2>2
    <3>2. GuardsOK(q)
      BY <1>1, <1>7, <2>1, <2>2 DEF GuardsOK
    <3>3. RequestOK(req') /\ req'.exec = q.exec /\ req'.at \in {"validate", "intercept", "handler"}
      BY <1>7, <1>9, <3>1, <3>2, AfterGuardsOK
    <3> QED
      BY <1>7, <3>3 DEF Stepped
  <2>3. CASE req.at = "deferred"
    <3>1. PICK m \in Int : m = Len(R.mw["interceptors"]) + 1
      BY <1>1, GuardsType DEF R
    <3>2. req' = [q EXCEPT !.at = "handler", !.guarded = "yes", !.n = m]
      BY <1>8, <1>12, <2>3, <3>1
    <3>3. req' = [at |-> "handler", route |-> q.route, n |-> m, passed |-> q.passed,
                  valid |-> q.valid, runner |-> q.runner, guarded |-> "yes",
                  body |-> q.body, extra |-> q.extra, result |-> q.result,
                  again |-> q.again, exec |-> q.exec, answer |-> q.answer]
      BY <1>7, <3>2 DEF Requests
    <3>4. req' \in Requests
      BY ONLY <1>7, <3>3, m \in Int DEF Requests
    <3>5. OnRoute(req') /\ GuardsOf(req') = GuardsOf(q) /\ Checked(req') /\ AnswerOK(req'.answer)
      BY <1>1, <1>9, <2>3, <3>3 DEF OnRoute, GuardsOf, Checked
    <3>6. GuardsOK(req')
      <4>1. GuardsOf(req') # <<>>
        BY <1>9, <1>10, <3>5, EmptySeq
      <4> QED
        BY <1>1, <1>7, <2>1, <2>3, <3>3, <3>5, <4>1 DEF GuardsOK
    <3>7. RequestOK(req')
      BY <1>7, <3>3, <3>4, <3>5, <3>6 DEF RequestOK, TheirOwn
    <3> QED
      BY <1>7, <3>3, <3>7 DEF Stepped
  <2> QED
    BY <1>1, <2>2, <2>3
<1> QED
  BY <1>11, <1>12

LEMMA GuardRejectsOK == ASSUME RequestState, GuardRejects PROVE Stepped
<1>1. /\ req \in Requests /\ OnRoute(req) /\ Passing(req) /\ req.answer = NoAnswer
      /\ site \in Sites
      /\ req.at = "deferred" => req.route.defer /\ req.guarded = "running" /\ Checked(req)
  BY DEF RequestState, RequestOK, GuardRejects
<1>2. CASE req.at = "deferred" /\ req' \in {Return(req, "thrown"), Return(req, "error")}
  <2>1. PICK result \in {"response", "thrown", "error"} : req' = Return(req, result)
    BY <1>2
  <2>2. GuardsOf(req) # <<>>
    BY <1>1, GuardsType, EmptySeq DEF Passing
  <2>3. Ready(req)
    BY <1>1, <1>2, <2>2 DEF Ready, GuardsOK
  <2>4. RequestOK(req') /\ req'.exec = req.exec /\ req'.at \in {"unwind", "end"}
    BY <1>1, <2>1, <2>3, ReturnOK
  <2> QED
    BY <2>4 DEF Stepped
<1>3. CASE req' = Answer(req, "refused", FALSE)
  <2>1. RequestOK(req') /\ req'.exec = req.exec /\ req'.at = "end"
    BY <1>1, <1>3, AnswerIsOK, ZenonT(60)
  <2> QED
    BY <2>1 DEF Stepped
<1>4. CASE req' \in {Fail(req, "thrown"), Fail(req, "error")}
  <2>0. PICK result \in {"thrown", "error"} : req' = Caught([req EXCEPT !.result = result])
    BY <1>4 DEF Fail
  <2>1. PICK q : q = [req EXCEPT !.result = result] /\ req' = Caught(q)
    BY <2>0
  <2>2. q \in Requests /\ q.exec = req.exec
    BY <1>1, <2>1 DEF Requests
  <2>3. RequestOK(req') /\ req'.exec = q.exec /\ req'.at = "end"
    BY <1>1, <2>1, <2>2, CaughtOK
  <2> QED
    BY <2>2, <2>3 DEF Stepped
<1> QED
  BY <1>2, <1>3, <1>4 DEF GuardRejects

LEMMA AnswersInvalid ==
  ASSUME RequestState, req' = Answer(req, "invalid", FALSE) PROVE Stepped
<1>1. req \in Requests /\ site \in Sites
  BY DEF RequestState, RequestOK
<1>2. RequestOK(req') /\ req'.exec = req.exec /\ req'.at = "end"
  BY <1>1, AnswerIsOK
<1> QED
  BY <1>2 DEF Stepped

LEMMA ValidateParamsOK ==
  ASSUME RequestState, NEW ok \in BOOLEAN, ValidateParams(ok) PROVE Stepped
<1>1. /\ req \in Requests /\ OnRoute(req) /\ GuardsOK(req) /\ req.answer = NoAnswer
      /\ AnswerOK(req.answer)
  BY DEF RequestState, RequestOK, ValidateParams
<1>2. CASE R.schema = "none" /\ req' = Deeper([req EXCEPT !.n = 0, !.valid = TRUE])
  <2>0. PICK m \in Int : m = 0
    OBVIOUS
  <2>1. PICK q : q = [req EXCEPT !.n = m, !.valid = TRUE]
    OBVIOUS
  <2>2. /\ q \in Requests /\ q.route = req.route /\ q.passed = req.passed /\ q.valid = TRUE
        /\ q.runner = req.runner /\ q.guarded = req.guarded /\ q.exec = req.exec
        /\ q.answer = NoAnswer
    BY <1>1, <2>1 DEF Requests
  <2>3. OnRoute(q) /\ GuardsOK(q) /\ Checked(q)
    BY <1>1, <1>2, <2>2 DEF OnRoute, GuardsOK, GuardsOf, Checked, R
  <2>4. Ready(q) /\ req' = Deeper(q)
    BY <1>2, <2>0, <2>1, <2>2, <2>3 DEF Ready
  <2>5. RequestOK(req') /\ req'.exec = q.exec /\ req'.at \in {"intercept", "handler"}
    BY <2>4, DeeperOK
  <2> QED
    BY <2>2, <2>5 DEF Stepped
<1>3. CASE req' = [req EXCEPT !.at = "request"]
  <2>1. /\ req' \in Requests /\ req'.at = "request" /\ req'.route = req.route
        /\ req'.passed = req.passed /\ req'.runner = req.runner
        /\ req'.guarded = req.guarded /\ req'.exec = req.exec /\ req'.answer = NoAnswer
    BY <1>1, <1>3 DEF Requests
  <2>2. OnRoute(req') /\ GuardsOK(req') /\ AnswerOK(req'.answer)
    BY <1>1, <2>1 DEF OnRoute, GuardsOK, GuardsOf
  <2>3. RequestOK(req')
    BY <2>1, <2>2 DEF RequestOK, TheirOwn
  <2> QED
    BY <2>1, <2>3 DEF Stepped
<1> QED
  BY <1>2, <1>3, AnswersInvalid DEF ValidateParams

LEMMA ValidateRequestOK ==
  ASSUME RequestState, NEW ok \in BOOLEAN, ValidateRequest(ok) PROVE Stepped
<1>1. req \in Requests /\ OnRoute(req) /\ GuardsOK(req) /\ req.answer = NoAnswer
  BY DEF RequestState, RequestOK, ValidateRequest
<1>2. CASE req' = Deeper(Validated(req))
  <2>1. PICK b \in {"unread", "text", "json", "valid"} :
          b = (IF R.schema = "body" THEN "valid" ELSE req.body)
    BY <1>1 DEF Requests
  <2>2. PICK q : q = Validated(req)
    OBVIOUS
  <2>0. PICK m \in Int : m = 0
    OBVIOUS
  <2>3. q = [req EXCEPT !.n = m, !.valid = TRUE, !.body = b]
    BY <2>0, <2>1, <2>2 DEF Validated
  <2>4. /\ q \in Requests /\ q.route = req.route /\ q.passed = req.passed /\ q.valid = TRUE
        /\ q.runner = req.runner /\ q.guarded = req.guarded /\ q.exec = req.exec
        /\ q.answer = NoAnswer /\ q.body = b
    BY <1>1, <2>3 DEF Requests
  <2>5. OnRoute(q) /\ GuardsOK(q) /\ Checked(q)
    BY <1>1, <2>1, <2>4 DEF OnRoute, GuardsOK, GuardsOf, Checked, R
  <2>6. Ready(q) /\ req' = Deeper(q)
    BY <1>2, <2>2, <2>4, <2>5 DEF Ready
  <2>7. RequestOK(req') /\ req'.exec = q.exec /\ req'.at \in {"intercept", "handler"}
    BY <2>6, DeeperOK
  <2> QED
    BY <2>4, <2>7 DEF Stepped
<1> QED
  BY <1>2, AnswersInvalid DEF ValidateRequest

LEMMA TheirOwnIsReady ==
  ASSUME RequestState, req.at \in TheirOwn
  PROVE  Ready(req) /\ req \in Requests /\ OnRoute(req) /\ site \in Sites
BY DEF RequestState, RequestOK, Ready, TheirOwn

LEMMA InterceptUnwindOK == ASSUME RequestState, Intercept \/ Unwind PROVE Stepped
<1>1. Ready(req) /\ req \in Requests /\ OnRoute(req) /\ site \in Sites
  BY TheirOwnIsReady DEF Intercept, Unwind, TheirOwn
<1>2. CASE Intercept /\ req' = Deeper(req)
  <2>1. RequestOK(req') /\ req'.exec = req.exec /\ req'.at \in {"intercept", "handler"}
    BY <1>1, <1>2, DeeperOK
  <2> QED
    BY <2>1 DEF Stepped
<1>3. ASSUME NEW result \in {"response", "thrown", "error"}, NEW back,
             back = [req EXCEPT !.result = result, !.n = @ - 1],
             req' = (IF back.n = 0 THEN Caught(back) ELSE [back EXCEPT !.at = "unwind"])
             \/ (req.at = "unwind" /\ req' = IF back.n = 0 THEN Caught(back) ELSE back)
      PROVE  Stepped
  <2>1. PICK m \in Int : m = req.n - 1
    BY <1>1 DEF Requests
  <2>2. back = Back(req, result, m) /\ back.n = m
    BY <1>1, <1>3, <2>1 DEF Back, Requests
  <2>3. req.at = "unwind" => back = [back EXCEPT !.at = "unwind"]
    BY <1>1, <1>3 DEF Requests
  <2>4. req' = Unwound(back, m)
    BY <1>3, <2>2, <2>3 DEF Unwound
  <2>5. RequestOK(req') /\ req'.exec = req.exec /\ req'.at \in {"unwind", "end"}
    BY ONLY <1>1, <2>2, <2>4, m \in Int, result \in {"response", "thrown", "error"}, UnwindOK
  <2> QED
    BY <2>5 DEF Stepped
<1>4. CASE Unwind /\ req' = Deeper([req EXCEPT !.again = @ + 1, !.result = "none"])
  <2>1. PICK a \in Nat : a = req.again + 1
    BY <1>1 DEF Requests
  <2>2. PICK q : q = [req EXCEPT !.again = a, !.result = "none"]
    OBVIOUS
  <2>3. /\ q \in Requests /\ q.route = req.route /\ q.passed = req.passed
        /\ q.valid = req.valid /\ q.runner = req.runner /\ q.guarded = req.guarded
        /\ q.exec = req.exec /\ q.answer = req.answer /\ q.body = req.body
    BY <1>1, <2>2 DEF Requests
  <2>4. Ready(q)
    BY <1>1, <2>3 DEF Ready, OnRoute, GuardsOK, GuardsOf, Checked
  <2>5. req' = Deeper(q)
    BY <1>4, <2>1, <2>2
  <2>6. RequestOK(req') /\ req'.exec = q.exec /\ req'.at \in {"intercept", "handler"}
    BY <2>4, <2>5, DeeperOK
  <2> QED
    BY <2>3, <2>6 DEF Stepped
<1>5. CASE Intercept
  BY <1>2, <1>3, <1>5 DEF Intercept
<1>6. CASE Unwind
  <2>1. req.at = "unwind"
    BY <1>6 DEF Unwind
  <2> QED
    BY <1>3, <1>4, <1>6, <2>1 DEF Unwind
<1> QED
  BY <1>5, <1>6

LEMMA HandlerReturnsOK == ASSUME RequestState, RouteReturns PROVE Stepped
<1>1. Ready(req) /\ req \in Requests /\ OnRoute(req) /\ site \in Sites
  BY TheirOwnIsReady DEF RouteReturns, TheirOwn
<1>2. PICK result \in {"response", "thrown", "error"} : req' = Return(req, result)
  BY DEF RouteReturns
<1>3. RequestOK(req') /\ req'.exec = req.exec /\ req'.at \in {"unwind", "end"}
  BY <1>1, <1>2, ReturnOK
<1> QED
  BY <1>3 DEF Stepped

LEMMA ReturnsError == ASSUME RequestState, req.at \in TheirOwn, req' = Return(req, "error") PROVE Stepped
<1>1. Ready(req) /\ req \in Requests /\ OnRoute(req) /\ site \in Sites
  BY TheirOwnIsReady
<1>2. PICK result \in {"response", "thrown", "error"} : req' = Return(req, result)
  OBVIOUS
<1>3. RequestOK(req') /\ req'.exec = req.exec /\ req'.at \in {"unwind", "end"}
  BY <1>1, <1>2, ReturnOK
<1> QED
  BY <1>3 DEF Stepped

LEMMA RunDeferredGuardsOK == ASSUME RequestState, RunDeferredGuards PROVE Stepped
<1>1. /\ Ready(req) /\ req \in Requests /\ OnRoute(req) /\ GuardsOK(req) /\ Checked(req)
      /\ req.answer = NoAnswer /\ req.at \in TheirOwn
  BY TheirOwnIsReady DEF RunDeferredGuards, TheirOwn, Ready
<1>2. CASE req.runner /\ req.guarded = "no"
  <2>1. req' = [req EXCEPT !.at = "deferred", !.n = 1, !.guarded = "running"]
    BY <1>2 DEF RunDeferredGuards
  <2>2. req' = [at |-> "deferred", route |-> req.route, n |-> 1, passed |-> req.passed,
                valid |-> req.valid, runner |-> req.runner, guarded |-> "running",
                body |-> req.body, extra |-> req.extra, result |-> req.result,
                again |-> req.again, exec |-> req.exec, answer |-> req.answer]
    BY <1>1, <2>1 DEF Requests
  <2>3. req \in Requests /\ 1 \in Int
    BY <1>1
  <2>4. req' \in Requests
    BY ONLY <2>2, <2>3 DEF Requests
  <2>5. OnRoute(req') /\ Checked(req') /\ AnswerOK(req'.answer) /\ GuardsOf(req') = GuardsOf(req)
    BY <1>1, <2>2 DEF OnRoute, Checked, AnswerOK, NoAnswer, GuardsOf
  <2>6. /\ GuardsOf(req) # <<>> /\ req.route.defer /\ req.passed = <<>>
    BY <1>1, <1>2 DEF GuardsOK
  <2>7. Passing(req')
    <3>1. Len(GuardsOf(req)) # 0 /\ Len(GuardsOf(req)) \in Nat
      BY <1>1, <2>6, GuardsType, EmptySeq
    <3>2. Len(<<>>) = 0
      OBVIOUS
    <3> QED
      BY <2>2, <2>5, <2>6, <3>1, <3>2 DEF Passing
  <2>8. RequestOK(req')
    BY <1>1, <2>2, <2>4, <2>5, <2>6, <2>7 DEF RequestOK, TheirOwn
  <2> QED
    BY <2>2, <2>8 DEF Stepped
<1>3. CASE ~ (req.runner /\ req.guarded = "no")
  <2>1. req' = Return(req, "error")
    BY <1>3 DEF RunDeferredGuards
  <2> QED
    BY <1>1, <2>1, ReturnsError
<1> QED
  BY <1>2, <1>3

\* The route that a request is given is one of the table.
LEMMA RouteIsOfTable ==
  ASSUME site \in Sites, NEW p, NEW method, Dispatch(p, method) = "route"
  PROVE  \E i \in DOMAIN site.table : RouteFor(p, method) = site.table[i]
<1> DEFINE t == site.table
           fit == {i \in OfPath(p) : t[i].method = method}
<1>1. t \in Seq(TableRoutes)
  BY DEF Sites
<1>2. fit # {}
  BY DEF Dispatch
<1>3. Len(t) \in Nat /\ DOMAIN t = 1 .. Len(t)
  BY <1>1
<1>4. fit \in SUBSET (0 .. Len(t)) /\ fit \in SUBSET DOMAIN t
  BY <1>3 DEF OfPath
<1> HIDE DEF fit
<1>5. Max(fit) \in fit /\ \A y \in fit : y <= Max(fit)
  BY <1>2, <1>3, <1>4, MaxBounded
<1>6. \E i \in OfPath(p) :
        t[i].method = method /\ \A j \in OfPath(p) : t[j].method = method => j <= i
  BY <1>5 DEF fit
<1>7. PICK c : c = CHOOSE i \in OfPath(p) :
        t[i].method = method /\ \A j \in OfPath(p) : t[j].method = method => j <= i
  OBVIOUS
<1>8. c \in OfPath(p)
  BY <1>6, <1>7
<1>9. RouteFor(p, method) = t[c]
  BY <1>7 DEF RouteFor
<1> QED
  BY <1>8, <1>9 DEF OfPath

LEMMA ReceiveOK ==
  ASSUME SiteOK, RequestState, NEW p \in Paths, NEW method \in Methods, Receive(p, method)
  PROVE  SiteOK' /\ site'.headers = site.headers /\ RequestOK(req') /\ req'.exec = {}
<1>1. site \in Sites /\ site.stage = "serving" /\ site' = [site EXCEPT !.table = <<>>]
  BY DEF RequestState, Receive
<1>2. /\ site' \in Sites /\ site'.stage = "serving" /\ site'.table = <<>>
      /\ site'.headers = site.headers
  <2>1. PICK t \in Seq(TableRoutes) : t = <<>>
    <3>1. <<>> \in Seq(TableRoutes)
      OBVIOUS
    <3> QED
      BY <3>1
  <2>2. site' = [site EXCEPT !.table = t]
    BY <1>1, <2>1
  <2> QED
    BY <1>1, <2>1, <2>2 DEF Sites
<1>3. SiteOK'
  BY <1>2 DEF SiteOK
<1>4. NoAnswer \in Answers /\ AnswerOK(NoAnswer)
  BY DEF NoAnswer, Answers, AnswerOK
<1>5. Request = [at |-> "none", route |-> <<>>, n |-> 0, passed |-> <<>>, valid |-> FALSE,
                 runner |-> FALSE, guarded |-> "no", body |-> "unread", extra |-> FALSE,
                 result |-> "none", again |-> 0, exec |-> {}, answer |-> NoAnswer]
  BY DEF Request
<1>6. PICK e \in Seq(Middleware), n \in Int : e = <<>> /\ n = 0
  <2>1. <<>> \in Seq(Middleware) /\ 0 \in Int
    OBVIOUS
  <2> QED
    BY <2>1
<1>7. CASE Dispatch(p, method) = "route"
  <2>1. PICK i \in DOMAIN site.table : RouteFor(p, method) = site.table[i]
    BY <1>1, <1>7, RouteIsOfTable
  <2>2. PICK r : r = site.table[i]
    OBVIOUS
  <2>3. r \in TableRoutes /\ TableHolds(r)
    <3>1. site.table \in Seq(TableRoutes)
      BY <1>1 DEF Sites
    <3>2. site.table[i] \in TableRoutes
      BY <3>1, ElementOfSeq
    <3> QED
      BY <2>2, <3>2 DEF SiteOK
  <2>4. req' = [at |-> "begin", route |-> r, n |-> n, passed |-> e, valid |-> FALSE,
                runner |-> FALSE, guarded |-> "no", body |-> "unread", extra |-> FALSE,
                result |-> "none", again |-> 0, exec |-> {}, answer |-> NoAnswer]
    BY <1>5, <1>6, <1>7, <2>1, <2>2 DEF Receive
  <2>5. req' \in Requests
    BY ONLY <1>4, <2>3, <2>4, e \in Seq(Middleware), n \in Int DEF Requests
  <2>6. OnRoute(req')
    BY <2>3, <2>4 DEF OnRoute
  <2>7. RequestOK(req')
    BY <1>4, <1>6, <2>4, <2>5, <2>6 DEF RequestOK, TheirOwn
  <2> QED
    BY <1>2, <1>3, <2>4, <2>7
<1>8. CASE Dispatch(p, method) # "route"
  <2>1. PICK kind \in {"static", "preflight", "unmatched"} : kind = Dispatch(p, method)
    BY <1>8 DEF Dispatch
  <2>2. PICK d \in BOOLEAN : d = (site.headers /\ kind # "unmatched")
    OBVIOUS
  <2>3. PICK a : a = [kind |-> kind, dressed |-> d, extra |-> FALSE]
    OBVIOUS
  <2>4. req' = [Request EXCEPT !.at = "end", !.answer = a]
    BY <1>8, <2>1, <2>2, <2>3 DEF Receive
  <2>5. req' = [at |-> "end", route |-> <<>>, n |-> n, passed |-> e, valid |-> FALSE,
                runner |-> FALSE, guarded |-> "no", body |-> "unread", extra |-> FALSE,
                result |-> "none", again |-> 0, exec |-> {}, answer |-> a]
    BY <1>5, <1>6, <2>4
  <2>6. a \in Answers
    BY <2>1, <2>3 DEF Answers
  <2>7. req' \in Requests
    BY ONLY <2>5, <2>6, e \in Seq(Middleware), n \in Int DEF Requests
  <2>8. AnswerOK(a)
    BY <1>1, <2>1, <2>2, <2>3 DEF AnswerOK, Sites
  <2>9. RequestOK(req')
    BY <2>5, <2>7, <2>8 DEF RequestOK, TheirOwn
  <2> QED
    BY <1>2, <1>3, <2>5, <2>9
<1> QED
  BY <1>7, <1>8

\* The handler awaits an execution it has begun.
LEMMA HandlerAwaitsOK ==
  ASSUME RequestState, HandlerExecutes \/ HandlerExecutesBound
  PROVE  \/ Stepped /\ UNCHANGED <<flow, handle>>
         \/ RequestOK(req') /\ req'.at = "workflow" /\ req'.exec \in SUBSET Execs
<1>1. /\ Ready(req) /\ req \in Requests /\ req.at \in TheirOwn
  BY TheirOwnIsReady DEF HandlerExecutes, HandlerExecutesBound, TheirOwn
<1>2. CASE req' = Return(req, "error") /\ UNCHANGED <<flow, handle>>
  BY <1>1, <1>2, ReturnsError
<1>3. ASSUME NEW e \in Execs, req' = [req EXCEPT !.at = "workflow", !.exec = @ \cup {e}]
      PROVE  RequestOK(req') /\ req'.at = "workflow" /\ req'.exec \in SUBSET Execs
  <2>1. PICK x \in SUBSET Execs : x = req.exec \cup {e}
    BY <1>1 DEF Requests
  <2>2. req' = [req EXCEPT !.at = "workflow", !.exec = x]
    BY <1>3, <2>1
  <2>3. /\ req' \in Requests /\ req'.at = "workflow" /\ req'.exec = x
        /\ req'.route = req.route /\ req'.passed = req.passed /\ req'.valid = req.valid
        /\ req'.runner = req.runner /\ req'.guarded = req.guarded /\ req'.body = req.body
        /\ req'.answer = req.answer
    BY <1>1, <2>2 DEF Requests
  <2>4. /\ OnRoute(req') /\ GuardsOK(req') /\ Checked(req') /\ AnswerOK(req'.answer)
        /\ req'.answer = NoAnswer
    BY <1>1, <2>3 DEF Ready, OnRoute, GuardsOK, GuardsOf, Checked, AnswerOK, NoAnswer
  <2>5. RequestOK(req')
    BY <2>3, <2>4 DEF RequestOK, TheirOwn
  <2> QED
    BY <2>3, <2>5
<1> QED
  BY <1>2, <1>3 DEF HandlerExecutes, HandlerExecutesBound, Unused

LEMMA WorkflowSettledOK == ASSUME RequestState, WorkflowSettled PROVE Stepped
<1>1. Ready(req) /\ req \in Requests /\ req.at \in TheirOwn
  BY TheirOwnIsReady DEF WorkflowSettled, TheirOwn
<1>2. CASE req' = [req EXCEPT !.at = "handler"]
  <2>1. PICK x \in TheirOwn : x = "handler"
    BY DEF TheirOwn
  <2>2. PICK n \in Int, again \in Nat, result \in {"none", "response", "thrown", "error"} :
          n = req.n /\ again = req.again /\ result = req.result
    BY <1>1 DEF Requests
  <2>3. req' = Onward(req, x, n, result, again)
    BY <1>1, <1>2, <2>1, <2>2 DEF Requests, Onward
  <2>4. RequestOK(req') /\ req'.exec = req.exec /\ req'.at = x
    BY ONLY <1>1, <2>3, x \in TheirOwn, n \in Int, again \in Nat,
       result \in {"none", "response", "thrown", "error"}, GoesOn
  <2> QED
    BY <2>1, <2>4 DEF Stepped
<1>3. CASE req' = Return(req, "error")
  BY <1>1, <1>3, ReturnsError
<1> QED
  BY <1>2, <1>3 DEF WorkflowSettled

-----------------------------------------------------------------------------
(* The invariant. *)

\* Where the handler is at work, or the request is over, what it began is over.
ExecOK == req.at # "workflow" => \A e \in req.exec : AtRest(e)

HttpInv == FlowType /\ SiteOK /\ RequestOK(req) /\ ExecOK

LEMMA RequestNext ==
  ASSUME RequestOK(req'), site'.headers = site.headers PROVE RequestOK(req)'
BY DEF RequestOK, AnswerOK, Passing, GuardsOK, Checked, OnRoute, GuardsOf

LEMMA SettledStays ==
  ASSUME ExecOK, req'.exec = req.exec, req.at # "workflow", UNCHANGED <<flow, handle>>
  PROVE  ExecOK'
BY DEF ExecOK, AtRest, Pending

LEMMA SteppedOK ==
  ASSUME HttpInv, Stepped, UNCHANGED <<flow, handle, site>>,
         req.at = "workflow" => \A e \in req.exec : ~ Pending(e)
  PROVE  HttpInv'
<1>1. RequestOK(req)'
  BY RequestNext DEF Stepped
<1>2. ExecOK'
  BY DEF HttpInv, ExecOK, AtRest, Pending, Stepped
<1>3. FlowType' /\ SiteOK'
  BY DEF HttpInv, FlowType, SiteOK
<1> QED
  BY <1>1, <1>2, <1>3 DEF HttpInv

LEMMA ConfigureKeeps == ASSUME Configure PROVE UNCHANGED <<flow, handle, req>>
<1>1. \A b, g : Call(b, g) => UNCHANGED <<flow, handle, req>>
  BY DEF Call
<1>2. ASSUME NEW k \in Kinds, Replace(k) \/ Clear(k) \/ \E m \in Extra[k] : Add(k, m)
      PROVE  UNCHANGED <<flow, handle, req>>
  BY <1>1, <1>2 DEF Replace, Clear, Add
<1>3. ASSUME ReplaceGlobalGuardsWith \/ Param \/ SetData
      PROVE  UNCHANGED <<flow, handle, req>>
  BY <1>1, <1>3 DEF ReplaceGlobalGuardsWith, Param, SetData
<1>4. ASSUME NEW p \in Paths, NEW r \in RouteKinds, AddRoute(p, r)
      PROVE  UNCHANGED <<flow, handle, req>>
  BY <1>1, <1>4 DEF AddRoute
<1> QED
  BY <1>2, <1>3, <1>4 DEF Configure, EndController, GenerateBunRoutes

LEMMA NextInv == ASSUME HttpInv, [HttpNext]_httpVars PROVE HttpInv'
<1>0. FlowType /\ SiteOK /\ RequestOK(req) /\ ExecOK /\ RequestState
  BY DEF HttpInv, RequestState, SiteOK
<1>1. CASE Configure
  <2>1. SiteOK' /\ site'.headers = site.headers /\ UNCHANGED <<flow, handle, req>>
    BY <1>0, <1>1, ConfigureOK, ConfigureKeeps
  <2>2. RequestOK(req)'
    BY <1>0, <2>1, RequestNext
  <2>3. FlowType' /\ ExecOK'
    BY <1>0, <2>1 DEF FlowType, ExecOK, AtRest, Pending
  <2> QED
    BY <2>1, <2>2, <2>3 DEF HttpInv
<1>2. ASSUME NEW p \in Paths, NEW method \in {"GET", "POST", "OPTIONS"}, Receive(p, method)
      PROVE  HttpInv'
  <2>1. SiteOK' /\ site'.headers = site.headers /\ RequestOK(req') /\ req'.exec = {}
    BY <1>0, <1>2, ReceiveOK DEF Methods
  <2>2. RequestOK(req)' /\ ExecOK'
    BY <2>1, RequestNext DEF ExecOK
  <2>3. FlowType'
    BY <1>0, <1>2 DEF Receive, FlowType
  <2> QED
    BY <2>1, <2>2, <2>3 DEF HttpInv
<1>3. CASE \/ Begin \/ GuardPasses \/ GuardRejects \/ Intercept \/ Unwind
           \/ (\E ok \in BOOLEAN : ValidateParams(ok) \/ ValidateRequest(ok))
           \/ RouteReturns \/ RunDeferredGuards \/ WorkflowSettled
  <2>1. Stepped
    BY <1>0, <1>3, BeginOK, GuardPassesOK, GuardRejectsOK, InterceptUnwindOK, ValidateParamsOK,
       ValidateRequestOK, HandlerReturnsOK, RunDeferredGuardsOK, WorkflowSettledOK
  <2>2. UNCHANGED <<flow, handle, site>>
    BY <1>3 DEF Begin, GuardPasses, GuardRejects, Intercept, Unwind, ValidateParams,
       ValidateRequest, RouteReturns, RunDeferredGuards, WorkflowSettled
  <2>3. req.at = "workflow" => \A e \in req.exec : ~ Pending(e)
    BY <1>3 DEF Begin, GuardPasses, GuardRejects, Intercept, Unwind, ValidateParams,
       ValidateRequest, RouteReturns, RunDeferredGuards, WorkflowSettled
  <2> QED
    BY <2>1, <2>2, <2>3, SteppedOK
<1>4. CASE HandlerExecutes \/ HandlerExecutesBound
  <2>1. CASE Stepped /\ UNCHANGED <<flow, handle>>
    BY <1>4, <2>1, SteppedOK DEF HandlerExecutes, HandlerExecutesBound
  <2>2. CASE RequestOK(req') /\ req'.at = "workflow" /\ req'.exec \in SUBSET Execs
    <3>1. site' = site /\ FlowType'
      BY <1>0, <1>4, HandlerKeeps DEF HandlerExecutes, HandlerExecutesBound
    <3>2. RequestOK(req)' /\ ExecOK' /\ SiteOK'
      BY <1>0, <2>2, <3>1, RequestNext DEF ExecOK, SiteOK
    <3> QED
      BY <3>1, <3>2 DEF HttpInv
  <2> QED
    BY <1>0, <1>4, <2>1, <2>2, HandlerAwaitsOK
<1>5. CASE WorkflowStep
  <2>1. PICK e \in Execs : FlowStep(e)
    BY <1>5 DEF WorkflowStep
  <2>2. FlowType' /\ (\A d \in Execs : AtRest(d) => Stays(d)) /\ UNCHANGED <<site, req>>
    BY <1>0, <1>5, <2>1, FlowStepKeeps DEF WorkflowStep
  <2>3. req.exec \in SUBSET Execs
    BY <1>0 DEF RequestOK, Requests
  <2>4. ExecOK'
    BY <1>0, <2>2, <2>3 DEF ExecOK, AtRest, Pending, Stays
  <2>5. SiteOK' /\ RequestOK(req)'
    BY <1>0, <2>2, RequestNext DEF SiteOK
  <2> QED
    BY <2>2, <2>4, <2>5 DEF HttpInv
<1>6. CASE UNCHANGED httpVars
  <2>1. UNCHANGED <<flow, handle, site, req>>
    BY <1>6 DEF httpVars
  <2>2. FlowType' /\ SiteOK' /\ ExecOK'
    BY <1>0, <2>1 DEF FlowType, SiteOK, ExecOK, AtRest, Pending
  <2>3. RequestOK(req)'
    BY <1>0, <2>1, RequestNext
  <2> QED
    BY <2>2, <2>3 DEF HttpInv
<1> QED
  BY <1>1, <1>2, <1>3, <1>4, <1>5, <1>6 DEF HttpNext

LEMMA InitInv == HttpInit => HttpInv
<1> SUFFICES ASSUME HttpInit PROVE HttpInv
  OBVIOUS
<1>1. FlowType
  BY InitFlow
<1>2. PICK headers \in BOOLEAN :
        site = [stage |-> "configure", given |-> Given, builder |-> Builder, calls |-> 0,
                compiled |-> <<>>, table |-> <<>>, headers |-> headers]
  BY DEF HttpInit
<1>3. \A k \in Kinds : IsWithin(Given[k], Given[k])
  <2> TAKE k \in Kinds
  <2>1. Given[k] \in Seq(Middleware)
    BY GivenType DEF Wanted
  <2> QED
    BY <2>1, WithinItself
<1>4. Builder \in Builders /\ BuilderOK(Builder, Given) /\ Given \in Wanted
  BY <1>3, GivenType, BuilderIsOK
<1>5. PICK cs \in Seq(BuiltRoutes), ts \in Seq(TableRoutes), c \in Nat :
        cs = <<>> /\ ts = <<>> /\ c = 0
  <2>1. <<>> \in Seq(BuiltRoutes) /\ <<>> \in Seq(TableRoutes) /\ 0 \in Nat
    OBVIOUS
  <2> QED
    BY <2>1
<1>6. PICK b : b = Builder
  OBVIOUS
<1>7. site = [stage |-> "configure", given |-> Given, builder |-> b, calls |-> c,
              compiled |-> cs, table |-> ts, headers |-> headers]
  BY <1>2, <1>5, <1>6
<1>8. site \in Sites
  <2>1. b \in Builders /\ Given \in Wanted
    BY <1>4, <1>6
  <2> QED
    BY ONLY <1>7, <2>1, cs \in Seq(BuiltRoutes), ts \in Seq(TableRoutes), c \in Nat,
       headers \in BOOLEAN DEF Sites
<1>9. SiteOK
  <2>1. AllHold(cs, Given) /\ DOMAIN ts = {}
    BY <1>5 DEF AllHold
  <2> QED
    BY <1>3, <1>4, <1>6, <1>7, <1>8, <2>1 DEF SiteOK
<1>10. NoAnswer \in Answers /\ AnswerOK(NoAnswer)
  BY DEF NoAnswer, Answers, AnswerOK
<1>11. PICK e \in Seq(Middleware), n \in Int : e = <<>> /\ n = 0
  <2>1. <<>> \in Seq(Middleware) /\ 0 \in Int
    OBVIOUS
  <2> QED
    BY <2>1
<1>12. req = [at |-> "none", route |-> <<>>, n |-> n, passed |-> e, valid |-> FALSE,
              runner |-> FALSE, guarded |-> "no", body |-> "unread", extra |-> FALSE,
              result |-> "none", again |-> 0, exec |-> {}, answer |-> NoAnswer]
  BY <1>11 DEF HttpInit, Request
<1>13. req \in Requests
  BY ONLY <1>10, <1>12, e \in Seq(Middleware), n \in Int DEF Requests
<1>14. RequestOK(req)
  BY <1>10, <1>12, <1>13 DEF RequestOK, TheirOwn
<1>15. ExecOK
  BY <1>12 DEF ExecOK
<1> QED
  BY <1>1, <1>9, <1>14, <1>15 DEF HttpInv

\* What the two below rest on: it holds of every reachable state of the builders, the
\* request and the workflows it awaits.
THEOREM HttpInvHolds == HttpSpec => []HttpInv
BY InitInv, NextInv, PTL DEF HttpSpec

LEMMA KindsAre == "guards" \in Kinds
BY DEF Kinds

\* For any controllers, any calls of their builders and any arrays that they share:
\* when the interceptors and the handler of a route have their turn, every guard the
\* program asked for has let the request pass, in its order, and so has every validation;
\* on a route that defers its guards this holds once ctx.guards() has returned.
THEOREM GuardsAreNeverSkipped == HttpSpec => []GuardsHold
<1>1. HttpInv => GuardsHold
  <2> SUFFICES ASSUME HttpInv, req.at \in TheirOwn
               PROVE  /\ (~ R.defer \/ req.guarded = "yes") => IsWithin(R.want["guards"], req.passed)
                      /\ (R.validators \/ R.schema # "none") => req.valid
                      /\ R.schema = "body" => req.body = "valid"
    BY DEF GuardsHold
  <2>1. OnRoute(req) /\ GuardsOK(req) /\ Checked(req)
    BY DEF HttpInv, RequestOK, TheirOwn
  <2>2. IsWithin(R.want["guards"], R.mw["guards"])
    BY <2>1, KindsAre DEF OnRoute, TableHolds, R
  <2>3. (~ R.defer \/ req.guarded = "yes") => req.passed = R.mw["guards"]
    BY <2>1 DEF GuardsOK, GuardsOf, R
  <2> QED
    BY <2>1, <2>2, <2>3 DEF Checked, R
<1> QED
  BY <1>1, HttpInvHolds, PTL

\* For any definition of a workflow and whichever way a request ends: its answer carries
\* the headers of the site, the request's own only if it is the handler's, and it is not
\* sent before what the handler awaited is over and, if a step failed, compensated: all
\* but a workflow that ended at a sequential step without a handler.
THEOREM AnswersAreWhole == HttpSpec => []AnswersAreComplete
<1>1. HttpInv => AnswersAreComplete
  <2> SUFFICES ASSUME HttpInv, req.answer.kind \notin {"none", "unmatched"}
               PROVE  /\ req.answer.dressed = site.headers
                      /\ \A e \in req.exec :
                           /\ ~ Pending(e)
                           /\ (/\ flow[e].out = "rejected" /\ flow[e].at # "escaped"
                               /\ Applied(flow[e]) # Steps) =>
                                Applied(flow[e]) \cap Undoable = flow[e].undone
                      /\ req.answer.extra => req.answer.kind = "ok"
    BY DEF AnswersAreComplete
  <2>1. AnswerOK(req.answer) /\ req.at = "end" /\ req.exec \in SUBSET Execs
    BY DEF HttpInv, RequestOK, Requests, NoAnswer
  <2>2. \A e \in req.exec : ~ Pending(e) /\ FlowOK(flow[e])
    BY <2>1 DEF HttpInv, ExecOK, AtRest, FlowType
  <2>3. \A e \in req.exec :
          (/\ flow[e].out = "rejected" /\ flow[e].at # "escaped"
           /\ Applied(flow[e]) # Steps) =>
            Applied(flow[e]) \cap Undoable = flow[e].undone
    BY <2>2 DEF FlowOK
  <2> QED
    BY <2>1, <2>2, <2>3 DEF AnswerOK
<1> QED
  BY <1>1, HttpInvHolds, PTL
=============================================================================
