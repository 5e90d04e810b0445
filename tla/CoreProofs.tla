----------------------------- MODULE CoreProofs -----------------------------
(***************************************************************************)
(* Proofs about two parts of the core that keep registrations: the event   *)
(* system, for any handlers, calls of start() and deliveries and any size  *)
(* of the tracker, and a client with its socket server, for any sockets,   *)
(* rooms, topics and attempts.                                             *)
(*                                                                         *)
(* That start() has subscribed every early handler needs to know where     *)
(* each of them is while it awaits: on the list, in the round it awaits,   *)
(* or settled (StartInv).  That a message is worked on once per mark needs *)
(* that a mark only goes by being counted (MarkInv).                       *)
(*                                                                         *)
(* A client that says "connected" is usable because it has one socket at a *)
(* time, unless connect() overtook a close (ClientInv); the server is      *)
(* sound because whatever a handler or a close does to the books of one    *)
(* socket keeps the three tables in agreement about it and leaves every    *)
(* other socket's alone (ServerInv, with Agree for any books).  What       *)
(* removeConnection() and the tracker's deletions amount to is folded over *)
(* a set or a sequence, and shown by taking the least number of elements   *)
(* for which it would fail.                                                *)
(***************************************************************************)
EXTENDS EventSystem, WsSession, SequenceTheorems, FiniteSetTheorems,
        WellFoundedInduction, TLAPS

\* A set of numbers has a least one: what the inductions of this module rest on.
LEMMA LeastNumber ==
  ASSUME NEW T \in SUBSET Nat, T # {}
  PROVE  \E n \in T : \A m \in T : n <= m
<1>1. PICK n \in T : \A m \in T : ~ (<<m, n>> \in OpToRel(<, Nat))
  BY WFMin, NatLessThanWellFounded, Zenon
<1>2. \A m \in T : ~ (m < n)
  BY <1>1, Zenon DEF OpToRel
<1> QED
  BY <1>2

-----------------------------------------------------------------------------
(* What removing marks leaves. *)

\* An Append adds its element to a sequence's set.
LEMMA AppendSet ==
  ASSUME NEW S, NEW s \in Seq(S), NEW e \in S
  PROVE  /\ Append(s, e) \in Seq(S) /\ Len(Append(s, e)) = Len(s) + 1
         /\ ToSet(Append(s, e)) = ToSet(s) \union {e}
         /\ Append(s, e)[Len(s) + 1] = e
<1>1. /\ Append(s, e) \in Seq(S) /\ Len(Append(s, e)) = Len(s) + 1 /\ Len(s) \in Nat
      /\ \A i \in 1 .. Len(s) : Append(s, e)[i] = s[i]
      /\ Append(s, e)[Len(s) + 1] = e
  OBVIOUS
<1>2. DOMAIN Append(s, e) = 1 .. Len(s) + 1 /\ DOMAIN s = 1 .. Len(s)
  BY <1>1
<1>3. 1 .. Len(s) + 1 = 1 .. Len(s) \union {Len(s) + 1}
  BY <1>1
<1>4. ToSet(Append(s, e)) = {Append(s, e)[i] : i \in 1 .. Len(s)} \union {e}
  BY <1>1, <1>2, <1>3 DEF ToSet
<1>5. {Append(s, e)[i] : i \in 1 .. Len(s)} = ToSet(s)
  BY <1>1, <1>2 DEF ToSet
<1> QED
  BY <1>1, <1>4, <1>5

\* Without() is what its name says: the rest, and it is no longer than the whole.
LEMMA WithoutMarks ==
  ASSUME processed \in Seq(Messages), NEW gone
  PROVE  /\ Without(gone) \in Seq(Messages)
         /\ Len(Without(gone)) <= Len(processed)
         /\ ToSet(Without(gone)) = ToSet(processed) \ gone
<1> DEFINE Kept1(g, i) ==
             IF i = 0 THEN << >>
             ELSE IF processed[i] \in gone THEN g[i - 1] ELSE Append(g[i - 1], processed[i])
           Solves(g, n) == g = [i \in 0 .. n |-> Kept1(g, i)]
           L == Len(processed)
           Prefix(i) == {processed[j] : j \in 1 .. i} \ gone
           Good(s, i) == s \in Seq(Messages) /\ Len(s) <= i /\ ToSet(s) = Prefix(i)
<1>1. L \in Nat /\ \A i \in 1 .. L : processed[i] \in Messages
  BY ElementOfSeq, LenProperties
<1>2. \A n \in 0 .. L : \E g : Solves(g, n)
  <2> DEFINE T == {n \in 0 .. L : ~ \E g : Solves(g, n)}
  <2> SUFFICES ASSUME T # {} PROVE FALSE
    OBVIOUS
  <2>1. PICK n \in T : \A m \in T : n <= m
    <3>1. T \in SUBSET Nat
      BY <1>1
    <3> QED
      BY ONLY <3>1, T # {}, LeastNumber
  <2>2. n \in 0 .. L /\ \A m \in 0 .. L : m < n => \E g : Solves(g, m)
    <3> HIDE DEF Solves
    <3>1. \A m \in 0 .. L : ~ (\E g : Solves(g, m)) => n <= m
      BY <2>1
    <3> QED
      BY <3>1, <1>1
  <2>3. CASE n = 0
    <3>1. Solves([i \in 0 .. 0 |-> << >>], 0)
      OBVIOUS
    <3> QED
      BY <3>1, <2>1, <2>3
  <2>4. CASE n # 0
    <3>1. n - 1 \in 0 .. L /\ n - 1 < n
      BY <2>2, <2>4, <1>1
    <3>2. PICK g : Solves(g, n - 1)
      BY <3>1, <2>2
    <3> DEFINE h == [i \in 0 .. n |-> IF i < n THEN g[i] ELSE Kept1(g, n)]
    <3>3. \A i \in 0 .. n : i # 0 => i - 1 \in 0 .. n /\ i - 1 < n /\ h[i - 1] = g[i - 1]
      BY <2>2
    <3>4. \A i \in 0 .. n - 1 : g[i] = Kept1(g, i)
      BY <3>2
    <3>5. \A i \in 0 .. n : h[i] = Kept1(h, i)
      <4> TAKE i \in 0 .. n
      <4>1. Kept1(h, i) = Kept1(g, i)
        BY <3>3
      <4>2. h[i] = Kept1(g, i)
        BY <3>4, <2>2
      <4> QED
        BY <4>1, <4>2
    <3>6. Solves(h, n)
      <4>1. h = [i \in 0 .. n |-> h[i]]
        OBVIOUS
      <4> HIDE DEF h, Kept1
      <4> QED
        BY <4>1, <3>5
    <3> QED
      BY <3>6, <2>1
  <2> QED
    BY <2>3, <2>4
<1> DEFINE f == CHOOSE g : Solves(g, L)
<1>3. Solves(f, L)
  <2>1. \E g : Solves(g, L)
    BY <1>1, <1>2
  <2> QED
    BY <2>1
<1>4. Without(gone) = f[L]
  BY DEF Without
<1> HIDE DEF f
<1>5. \A i \in 0 .. L : f[i] = Kept1(f, i)
  BY <1>3
<1>6. \A i \in 0 .. L : Good(f[i], i)
  <2> DEFINE T == {i \in 0 .. L : ~ Good(f[i], i)}
  <2> SUFFICES ASSUME T # {} PROVE FALSE
    OBVIOUS
  <2>1. PICK n \in T : \A m \in T : n <= m
    <3>1. T \in SUBSET Nat
      BY <1>1
    <3> QED
      BY ONLY <3>1, T # {}, LeastNumber
  <2>2. n \in 0 .. L /\ ~ Good(f[n], n) /\ \A m \in 0 .. L : m < n => Good(f[m], m)
    <3> HIDE DEF Good
    <3>1. \A m \in 0 .. L : ~ Good(f[m], m) => n <= m
      BY <2>1
    <3> QED
      BY <3>1, <1>1
  <2> HIDE DEF T, Good
  <2>3. CASE n = 0
    <3>1. f[0] = << >>
      BY <1>5, <2>2, <2>3
    <3>2. Good(<< >>, 0)
      BY DEF ToSet, Good
    <3> QED
      BY <3>1, <3>2, <2>2, <2>3
  <2>4. CASE n # 0
    <3>1. n \in 1 .. L /\ n - 1 \in 0 .. L /\ n - 1 < n
      BY <2>2, <2>4, <1>1
    <3>2. Good(f[n - 1], n - 1)
      BY <3>1, <2>2
    <3>3. {processed[j] : j \in 1 .. n} = {processed[j] : j \in 1 .. n - 1} \union {processed[n]}
      <4>1. 1 .. n = 1 .. n - 1 \union {n}
        BY <3>1, <1>1
      <4> QED
        BY <4>1
    <3>4. f[n] = IF processed[n] \in gone THEN f[n - 1] ELSE Append(f[n - 1], processed[n])
      BY <1>5, <2>2, <2>4
    <3>5. processed[n] \in Messages
      BY <1>1, <3>1
    <3>6. CASE processed[n] \in gone
      <4>1. f[n] = f[n - 1]
        BY <3>4, <3>6
      <4>2. Prefix(n) = Prefix(n - 1)
        BY <3>3, <3>6
      <4> HIDE DEF Prefix
      <4>3. f[n] \in Seq(Messages) /\ Len(f[n]) <= n - 1 /\ ToSet(f[n]) = Prefix(n)
        BY <3>2, <4>1, <4>2 DEF Good
      <4>4. Len(f[n]) <= n
        BY <4>3, <3>1
      <4> QED
        BY <4>3, <4>4, <2>2 DEF Good
    <3>7. CASE processed[n] \notin gone
      <4>1. f[n] = Append(f[n - 1], processed[n])
        BY <3>4, <3>7
      <4>2. f[n - 1] \in Seq(Messages)
        BY <3>2 DEF Good
      <4>3. f[n] \in Seq(Messages) /\ Len(f[n]) = Len(f[n - 1]) + 1
            /\ ToSet(f[n]) = ToSet(f[n - 1]) \union {processed[n]}
        BY <4>1, <4>2, <3>5, AppendSet
      <4>4. Len(f[n]) <= n
        BY <4>3, <4>2, <3>2, <3>1 DEF Good
      <4>5. ToSet(f[n]) = Prefix(n)
        BY <4>3, <3>2, <3>3, <3>7 DEF Good
      <4> QED
        BY <4>3, <4>4, <4>5, <2>2 DEF Good
    <3> QED
      BY <3>6, <3>7, <2>2
  <2> QED
    BY <2>3, <2>4
<1>7. ToSet(processed) = {processed[j] : j \in 1 .. L}
  BY LenProperties DEF ToSet
<1>8. Good(f[L], L)
  <2>1. L \in 0 .. L
    BY <1>1
  <2> HIDE DEF Good, L
  <2> QED
    BY <2>1, <1>6
<1>9. Prefix(L) = ToSet(processed) \ gone
  BY <1>7
<1> HIDE DEF Prefix
<1> QED
  BY <1>4, <1>8, <1>9 DEF Good

-----------------------------------------------------------------------------
(* onEvent() and start(). *)

Places == {"rest", "first drain", "drained", "provider", "second drain", "settling"}

RegistryTypeOK ==
  /\ host \in {"system", "application"}
  /\ system \in [started : BOOLEAN, at : Places, pending : SUBSET Handlers,
                 batch : SUBSET Handlers, errors : SUBSET Handlers, starts : Nat, up : BOOLEAN]
  /\ handler \in [Handlers -> {"none", "subscribing", "subscribed", "failed", "closed"}]
  /\ when \in [Handlers -> {"early", "gap", "late", None}]
  /\ told \in SUBSET Handlers

EarlyAreSettled ==
  \A h \in Handlers :
    when[h] = "early" => handler[h] \in {"subscribed", "closed"} \/ h \in told

\* An early handler that is not settled is on the list, in the round that is awaited, or its
\* error is collected; and past the second drain every early one is settled.
StartInv ==
  /\ \A h \in Handlers : when[h] = "early" =>
       /\ handler[h] # "none"
       /\ handler[h] = "subscribing" => h \in system.pending \union system.batch
       /\ handler[h] = "failed" => h \in system.errors \union told
  /\ system.started \/ At("settling") => EarlyAreSettled

\* What a step may do to the list and to the handlers.
RegistryStep ==
  \/ \E h \in Handlers : OnEvent(h) \/ Subscribed(h) \/ SubscriptionFails(h)
  \/ Start \/ Starts \/ Stop

LEMMA OtherStepsKeepRegistry ==
  ASSUME [Next]_vars
  PROVE  RegistryStep \/ UNCHANGED <<host, registry>>
BY ZenonT(30) DEF Next, vars, registry, RegistryStep, SubscriptionEnds, Emit, TimesOut, Take, TakeSkips,
       TakeWorks, TakeRejects, Stalls, Chains, Handles, Returns, Throws, HooksEnd, Ages,
       MarkProcessed, IsProcessed, Clear

LEMMA StartInvInit ==
  ASSUME Init
  PROVE  RegistryTypeOK /\ StartInv
<1>1. RegistryTypeOK
  BY DEF Init, RegistryTypeOK, NewSystem, Places
<1>2. \A h \in Handlers : when[h] = None
  BY DEF Init
<1> QED
  BY <1>1, <1>2, EventSystemAssumption DEF StartInv, EarlyAreSettled

LEMMA StartInvStep ==
  ASSUME RegistryTypeOK, StartInv, RegistryStep
  PROVE  RegistryTypeOK' /\ StartInv'
<1> USE DEF RegistryTypeOK, StartInv, EarlyAreSettled, At
<1>1. ASSUME NEW h \in Handlers, OnEvent(h)
      PROVE  RegistryTypeOK' /\ StartInv'
  <2>1. /\ system.started => system' = system
        /\ ~ system.started => system' = [system EXCEPT !.pending = @ \union {h}]
        /\ told' = told /\ host' = host /\ handler[h] = "none"
    BY <1>1 DEF OnEvent, work
  <2>2. \A g \in Handlers :
          /\ handler'[g] = IF g = h THEN "subscribing" ELSE handler[g]
          /\ when'[g] = IF g # h THEN when[g] ELSE IF system.started THEN "late"
                        ELSE IF At("settling") THEN "gap" ELSE "early"
    BY <1>1 DEF OnEvent
  <2>3. RegistryTypeOK'
    <3>1. handler' \in [Handlers -> {"none", "subscribing", "subscribed", "failed", "closed"}]
      BY <1>1 DEF OnEvent
    <3>2. when' \in [Handlers -> {"early", "gap", "late", None}]
      BY <1>1 DEF OnEvent
    <3> QED
      BY <3>1, <3>2, <2>1
  <2>4. /\ system'.started = system.started /\ system'.at = system.at
        /\ system'.batch = system.batch /\ system'.errors = system.errors
        /\ system'.pending \subseteq system.pending \union {h}
        /\ system.pending \subseteq system'.pending
        /\ ~ system.started => h \in system'.pending
    BY <2>1
  <2> QED
    BY <2>1, <2>2, <2>3, <2>4, EventSystemAssumption
<1>2. ASSUME NEW h \in Handlers, Subscribed(h)
      PROVE  RegistryTypeOK' /\ StartInv'
  BY <1>2 DEF Subscribed, work
<1>3. ASSUME NEW h \in Handlers, SubscriptionFails(h)
      PROVE  RegistryTypeOK' /\ StartInv'
  <2>1. \A g \in Handlers : handler'[g] = IF g = h THEN "failed" ELSE handler[g]
    BY <1>3 DEF SubscriptionFails
  <2>2. /\ system'.started = system.started /\ system'.at = system.at
        /\ system'.batch = system.batch /\ system'.pending = system.pending
        /\ system'.errors = IF when[h] = "late" THEN system.errors ELSE system.errors \union {h}
        /\ told' = IF when[h] = "late" THEN told \union {h} ELSE told
        /\ when' = when /\ host' = host /\ handler[h] = "subscribing"
    BY <1>3 DEF SubscriptionFails, work
  <2>3. RegistryTypeOK'
    BY <1>3 DEF SubscriptionFails, work
  <2> QED
    BY <2>1, <2>2, <2>3
<1>4. CASE Start
  <2>1. PICK n \in Nat : n = system.starts + 1
    OBVIOUS
  <2>2. system' = [system EXCEPT !.at = "first drain", !.starts = n]
        /\ UNCHANGED <<host, handler, when, told>> /\ ~ system.started
    BY <1>4, <2>1 DEF Start, Moves, work
  <2> QED
    BY <2>2 DEF Places
<1>5. CASE DrainsOn
  BY <1>5 DEF DrainsOn, Moves, work, BatchSettled
<1>6. CASE Drained
  <2>1. /\ system.pending = {} /\ system.errors = {}
        /\ \A h \in system.batch : handler[h] # "subscribing"
        /\ system' = [system EXCEPT !.at = IF At("first drain") THEN "drained" ELSE "settling",
                                    !.batch = {}]
        /\ UNCHANGED <<host, handler, when, told>>
    BY <1>6 DEF Drained, Moves, work, BatchSettled
  <2>2. RegistryTypeOK'
    BY <2>1 DEF Places
  <2>3. EarlyAreSettled
    BY <2>1
  <2> QED
    BY <2>1, <2>2, <2>3
<1>7. CASE DrainFails
  BY <1>7 DEF DrainFails, work, BatchSettled, Places
<1>8. CASE ProviderStarts
  BY <1>8 DEF ProviderStarts, Moves, work, Places
<1>9. CASE ProviderFails
  BY <1>9 DEF ProviderFails, Moves, work, Places
<1>10. CASE ProviderStarted
  BY <1>10 DEF ProviderStarted, Moves, work, Places
<1>11. CASE Started
  BY <1>11 DEF Started, Moves, work, Places
<1>12. CASE Stop
  BY <1>12 DEF Stop, work
<1> QED
  BY <1>1, <1>2, <1>3, <1>4, <1>5, <1>6, <1>7, <1>8, <1>9, <1>10, <1>11, <1>12
     DEF RegistryStep, Starts

\* Once start() has resolved, every handler registered before is subscribed, or its failure
\* was thrown, for any handlers and calls of start(), in any order (start(), drainPending()).
THEOREM StartIsComplete == Spec => []StartedMeansSubscribed
<1>1. Init => RegistryTypeOK /\ StartInv
  BY StartInvInit
<1>2. RegistryTypeOK /\ StartInv /\ [Next]_vars => RegistryTypeOK' /\ StartInv'
  <2> SUFFICES ASSUME RegistryTypeOK, StartInv, [Next]_vars
               PROVE  RegistryTypeOK' /\ StartInv'
    OBVIOUS
  <2>1. CASE RegistryStep
    BY <2>1, StartInvStep
  <2>2. CASE UNCHANGED <<host, registry>>
    BY <2>2 DEF registry, RegistryTypeOK, StartInv, EarlyAreSettled, At
  <2> QED
    BY <2>1, <2>2, OtherStepsKeepRegistry
<1>3. StartInv => StartedMeansSubscribed
  BY DEF StartInv, EarlyAreSettled, StartedMeansSubscribed
<1> QED
  BY <1>1, <1>2, <1>3, PTL DEF Spec

-----------------------------------------------------------------------------
(* The tracker. *)

TrackerTypeOK ==
  /\ processed \in Seq(Messages)
  /\ bodies \in [Messages -> Nat] /\ left \in [Messages -> Nat]

\* The work on a message without a mark has not begun since its mark left.
MarkInv ==
  /\ Len(processed) <= MaxSize
  /\ \A m \in Messages : bodies[m] <= IF Marked(m) THEN 1 + left[m] ELSE left[m]

\* A mark that is set is the last one, and at most the first one has to go for it.
LEMMA MarkIsKept ==
  ASSUME NEW s \in Seq(Messages), NEW m \in Messages
  PROVE  /\ Kept(WithMark(s, m)) \in Seq(Messages)
         /\ Len(s) <= MaxSize => Len(Kept(WithMark(s, m))) <= MaxSize
         /\ m \notin ToSet(s) => m \in ToSet(Kept(WithMark(s, m)))
<1> DEFINE w == WithMark(s, m)
<1>1. /\ w \in Seq(Messages) /\ Len(s) \in Nat
      /\ Len(w) = IF m \in ToSet(s) THEN Len(s) ELSE Len(s) + 1
      /\ m \notin ToSet(s) => w[Len(w)] = m
  BY AppendSet DEF WithMark
<1> HIDE DEF w
<1>2. CASE Len(w) > MaxSize
  <2>1. Kept(w) = Tail(w)
    BY <1>2 DEF Kept
  <2>2. Len(w) \in Nat /\ Len(w) > 1
    BY <1>1, <1>2, EventSystemAssumption
  <2>3. w # << >>
    BY <2>2
  <2>4. Tail(w) \in Seq(Messages) /\ Len(Tail(w)) = Len(w) - 1
        /\ \A i \in 1 .. Len(Tail(w)) : Tail(w)[i] = w[i + 1]
    BY <1>1, <2>3, HeadTailProperties
  <2>5. Tail(w)[Len(w) - 1] = w[Len(w)] /\ Len(w) - 1 \in DOMAIN Tail(w)
    BY <2>2, <2>4
  <2>6. m \notin ToSet(s) => m \in ToSet(Tail(w))
    BY <2>5, <1>1 DEF ToSet
  <2> QED
    BY <1>1, <2>1, <2>2, <2>4, <2>6, EventSystemAssumption DEF w
<1>3. CASE ~ (Len(w) > MaxSize)
  <2>1. Kept(w) = w
    BY <1>3 DEF Kept
  <2>2. m \notin ToSet(s) => Len(w) \in DOMAIN w
    BY <1>1
  <2>3. m \notin ToSet(s) => m \in ToSet(w)
    BY <1>1, <2>2 DEF ToSet
  <2> QED
    BY <1>1, <1>3, <2>1, <2>3, EventSystemAssumption DEF w
<1> QED
  BY <1>2, <1>3

\* Whatever replaces the marks, a mark that goes is counted.
LEMMA MarksCounted ==
  ASSUME TrackerTypeOK, NEW marks \in Seq(Messages), NEW fresh, NEW gone,
         Marks(marks, fresh, gone)
  PROVE  /\ processed' = marks
         /\ left' \in [Messages -> Nat]
         /\ \A m \in Messages : /\ left[m] <= left'[m]
                                /\ m \in gone => left'[m] = left[m] + 1
                                /\ Marked(m) /\ m \notin ToSet(marks) => left'[m] = left[m] + 1
BY DEF Marks, Leaves, Marked, TrackerTypeOK

\* Marks that are replaced while no work begins.
LEMMA MarksAlone ==
  ASSUME TrackerTypeOK, MarkInv, NEW marks \in Seq(Messages), Len(marks) <= MaxSize,
         NEW fresh, NEW gone, Marks(marks, fresh, gone), UNCHANGED bodies
  PROVE  TrackerTypeOK' /\ MarkInv'
<1>1. TrackerTypeOK'
  BY MarksCounted DEF TrackerTypeOK
<1>2. ASSUME NEW m \in Messages
      PROVE  bodies[m] <= IF m \in ToSet(marks) THEN 1 + left'[m] ELSE left'[m]
  <2>1. /\ bodies[m] \in Nat /\ left[m] \in Nat /\ left'[m] \in Nat /\ left[m] <= left'[m]
        /\ Marked(m) /\ m \notin ToSet(marks) => left'[m] = left[m] + 1
    BY MarksCounted DEF TrackerTypeOK
  <2>2. bodies[m] <= IF Marked(m) THEN 1 + left[m] ELSE left[m]
    BY DEF MarkInv
  <2> QED
    BY <2>1, <2>2
<1> QED
  BY <1>1, <1>2, MarksCounted DEF MarkInv, Marked

LEMMA TakeWorksIsCounted ==
  ASSUME TrackerTypeOK, MarkInv, NEW m \in Messages, TakeWorks(m)
  PROVE  TrackerTypeOK' /\ MarkInv'
<1> DEFINE marks == Kept(WithMark(Clean, m))
<1>1. /\ Clean \in Seq(Messages) /\ Len(Clean) <= Len(processed)
      /\ ToSet(Clean) = ToSet(processed) \ old
  BY WithoutMarks DEF Clean, TrackerTypeOK
<1>2. m \notin ToSet(Clean) /\ Marks(marks, {m}, old)
      /\ \A n \in Messages : bodies'[n] = IF n = m THEN bodies[n] + 1 ELSE bodies[n]
  BY DEF TakeWorks, TrackerTypeOK
<1>3. bodies' \in [Messages -> Nat]
  BY DEF TakeWorks, TrackerTypeOK
<1>4. Len(Clean) <= MaxSize
  BY <1>1, EventSystemAssumption, LenProperties DEF MarkInv, TrackerTypeOK
<1>5. marks \in Seq(Messages) /\ Len(marks) <= MaxSize /\ m \in ToSet(marks)
  BY <1>1, <1>2, <1>4, MarkIsKept
<1> HIDE DEF marks
<1>6. /\ processed' = marks
      /\ left' \in [Messages -> Nat]
      /\ \A n \in Messages : /\ left[n] <= left'[n]
                             /\ n \in old => left'[n] = left[n] + 1
                             /\ Marked(n) /\ n \notin ToSet(marks) => left'[n] = left[n] + 1
  BY <1>2, <1>5, MarksCounted
<1>7. TrackerTypeOK'
  BY <1>3, <1>5, <1>6 DEF TrackerTypeOK
<1>8. ASSUME NEW n \in Messages
      PROVE  bodies'[n] <= IF n \in ToSet(marks) THEN 1 + left'[n] ELSE left'[n]
  <2>1. bodies[n] \in Nat /\ left[n] \in Nat /\ left'[n] \in Nat
    BY <1>6 DEF TrackerTypeOK
  <2>2. bodies[n] <= IF Marked(n) THEN 1 + left[n] ELSE left[n]
    BY DEF MarkInv
  <2>3. CASE n = m
    <3>1. Marked(m) => m \in old
      BY <1>1, <1>2 DEF Marked
    <3> QED
      BY <2>1, <2>2, <2>3, <3>1, <1>2, <1>5, <1>6
  <2>4. CASE n # m
    BY <2>1, <2>2, <2>4, <1>2, <1>6
  <2> QED
    BY <2>3, <2>4
<1> QED
  BY <1>5, <1>6, <1>7, <1>8 DEF MarkInv, Marked

\* The steps that touch the tracker or begin work.
TrackerStep ==
  \/ \E m \in Messages : MarkProcessed(m) \/ IsProcessed(m) \/ TakeSkips(m) \/ TakeWorks(m)
  \/ Clear

LEMMA OtherStepsKeepTracker ==
  ASSUME [Next]_vars
  PROVE  TrackerStep \/ UNCHANGED <<processed, left, bodies>>
BY ZenonT(60) DEF Next, vars, tracker, work, TrackerStep, OnEvent, Subscribed, SubscriptionFails,
       SubscriptionEnds, Start, Starts, Stop, DrainsOn, Drained, DrainFails, ProviderStarts,
       ProviderFails, ProviderStarted, Started, Moves, Emit, TimesOut, Take, TakeRejects, Stalls,
       Chains, Handles, Returns, Throws, HooksEnd, Ages

\* However often a message is delivered, its work begins once for every time its mark is in
\* the tracker, and the tracker keeps no more than maxSize marks (processOnce(),
\* evictOldest(), cleanExpired()).
THEOREM WorkOncePerMark == Spec => []OncePerMark
<1>1. Init => TrackerTypeOK /\ MarkInv
  <2>1. Init => processed = << >> /\ Len(processed) = 0 /\ TrackerTypeOK
                /\ \A m \in Messages : bodies[m] = 0 /\ left[m] = 0
    BY EmptySeq DEF Init, TrackerTypeOK
  <2> QED
    BY <2>1, EventSystemAssumption DEF MarkInv
<1>2. TrackerTypeOK /\ MarkInv /\ [Next]_vars => TrackerTypeOK' /\ MarkInv'
  <2> SUFFICES ASSUME TrackerTypeOK, MarkInv, [Next]_vars
               PROVE  TrackerTypeOK' /\ MarkInv'
    OBVIOUS
  <2>1. Len(processed) \in Nat /\ Len(processed) <= MaxSize /\ processed \in Seq(Messages)
    BY LenProperties DEF TrackerTypeOK, MarkInv
  <2>2. ASSUME NEW m \in Messages, MarkProcessed(m)
        PROVE  TrackerTypeOK' /\ MarkInv'
    <3> DEFINE marks == Kept(WithMark(processed, m))
    <3>1. marks \in Seq(Messages) /\ Len(marks) <= MaxSize
      BY <2>1, MarkIsKept
    <3>2. Marks(marks, {m}, {}) /\ UNCHANGED bodies
      BY <2>2 DEF MarkProcessed
    <3> HIDE DEF marks
    <3> QED
      BY <3>1, <3>2, MarksAlone
  <2>3. ASSUME NEW gone, Marks(Without(gone), {}, {}), UNCHANGED bodies
        PROVE  TrackerTypeOK' /\ MarkInv'
    <3>1. Without(gone) \in Seq(Messages) /\ Len(Without(gone)) <= Len(processed)
      BY <2>1, WithoutMarks
    <3>2. Len(Without(gone)) <= MaxSize
      BY <2>1, <3>1, LenProperties, EventSystemAssumption
    <3> QED
      BY <2>3, <3>1, <3>2, MarksAlone
  <2>4. ASSUME NEW m \in Messages, IsProcessed(m)
        PROVE  TrackerTypeOK' /\ MarkInv'
    BY <2>3, <2>4 DEF IsProcessed
  <2>5. ASSUME NEW m \in Messages, TakeSkips(m)
        PROVE  TrackerTypeOK' /\ MarkInv'
    BY <2>3, <2>5 DEF TakeSkips, Clean
  <2>6. ASSUME NEW m \in Messages, TakeWorks(m)
        PROVE  TrackerTypeOK' /\ MarkInv'
    BY <2>6, TakeWorksIsCounted
  <2>7. CASE Clear
    <3>1. << >> \in Seq(Messages) /\ Len(<< >>) <= MaxSize
      BY EmptySeq, EventSystemAssumption
    <3>2. Marks(<< >>, {}, {}) /\ UNCHANGED bodies
      BY <2>7 DEF Clear
    <3> QED
      BY <3>1, <3>2, MarksAlone
  <2>8. CASE UNCHANGED <<processed, left, bodies>>
    BY <2>8 DEF TrackerTypeOK, MarkInv, Marked
  <2> QED
    BY <2>2, <2>4, <2>5, <2>6, <2>7, <2>8, OtherStepsKeepTracker DEF TrackerStep
<1>3. TrackerTypeOK /\ MarkInv => OncePerMark
  BY DEF TrackerTypeOK, MarkInv, OncePerMark
<1> QED
  BY <1>1, <1>2, <1>3, PTL DEF Spec

-----------------------------------------------------------------------------
(* The server's books. *)

Message == [type : {"join", "leave"}, room : Rooms] \union {App}

SocketType ==
  [connected : BOOLEAN, guards : {"none", "running", "passed", "rejected"}, state : BOOLEAN,
   topics : SUBSET Topics, native : SUBSET Topics, handlers : SUBSET Message]

BooksType ==
  [server : [Sockets -> SocketType], subscriptions : [Topics -> SUBSET Sockets],
   provider : [localSubscriptions : [Topics -> SUBSET Sockets],
               socketTopics : [Sockets -> SUBSET Topics], connectedSockets : SUBSET Sockets]]

\* The books b and c agree but for what is said of socket s.
SameForOthers(b, c, s) ==
  /\ \A x \in Sockets \ {s} : /\ c.server[x] = b.server[x]
                              /\ c.provider.socketTopics[x] = b.provider.socketTopics[x]
  /\ c.provider.connectedSockets \ {s} = b.provider.connectedSockets \ {s}
  /\ c.server[s].guards = b.server[s].guards /\ c.server[s].state = b.server[s].state
  /\ c.server[s].handlers = b.server[s].handlers

\* c is what the books b become when socket s subscribes to topic t.
Adds(b, s, t, c) ==
  /\ c \in BooksType /\ SameForOthers(b, c, s)
  /\ c.server[s].connected
  /\ c.server[s].topics = b.server[s].topics \union {t}
  /\ c.server[s].native = b.server[s].native \union {t}
  /\ c.provider.socketTopics[s] = b.provider.socketTopics[s] \union {t}
  /\ c.provider.connectedSockets = b.provider.connectedSockets \union {s}
  /\ \A u \in Topics :
       /\ c.subscriptions[u] = IF u = t THEN b.subscriptions[u] \union {s}
                               ELSE b.subscriptions[u]
       /\ c.provider.localSubscriptions[u] =
            IF u = t THEN b.provider.localSubscriptions[u] \union {s}
            ELSE b.provider.localSubscriptions[u]

LEMMA SubscribeToTopicEffect ==
  ASSUME NEW b \in BooksType, NEW s \in Sockets, NEW t \in Topics,
         b.server[s].connected, s \notin b.subscriptions[t],
         NEW c, c = SubscribeToTopic(b, s, t)
  PROVE  Adds(b, s, t, c)
<1>1. c = [server |-> [b.server EXCEPT ![s] = WithTopic(b.server[s], t)],
           subscriptions |-> [b.subscriptions EXCEPT ![t] = b.subscriptions[t] \union {s}],
           provider |-> ProviderSubscribe(b.provider, s, t)]
  BY DEF SubscribeToTopic
<1> DEFINE p == b.provider
           q == c.provider
<1>a. /\ b.subscriptions \in [Topics -> SUBSET Sockets]
      /\ p.localSubscriptions \in [Topics -> SUBSET Sockets]
      /\ p.socketTopics \in [Sockets -> SUBSET Topics]
      /\ p.connectedSockets \in SUBSET Sockets
  BY DEF BooksType
<1>b. /\ c.subscriptions = [b.subscriptions EXCEPT ![t] = b.subscriptions[t] \union {s}]
      /\ q = ProviderSubscribe(b.provider, s, t)
  BY <1>1
<1>c. q = [localSubscriptions |-> [p.localSubscriptions EXCEPT ![t] = p.localSubscriptions[t] \union {s}],
           socketTopics |-> [p.socketTopics EXCEPT ![s] = p.socketTopics[s] \union {t}],
           connectedSockets |-> p.connectedSockets \union {s}]
  BY <1>b DEF ProviderSubscribe
<1>d. /\ q.localSubscriptions = [p.localSubscriptions EXCEPT ![t] = p.localSubscriptions[t] \union {s}]
      /\ q.socketTopics = [p.socketTopics EXCEPT ![s] = p.socketTopics[s] \union {t}]
  BY <1>c
<1>e. /\ b.subscriptions[t] \union {s} \in SUBSET Sockets
      /\ p.localSubscriptions[t] \union {s} \in SUBSET Sockets
      /\ p.socketTopics[s] \union {t} \in SUBSET Topics
  BY <1>a
<1>2. /\ WithTopic(b.server[s], t) \in SocketType
      /\ WithTopic(b.server[s], t).topics = b.server[s].topics \union {t}
      /\ WithTopic(b.server[s], t).native = b.server[s].native \union {t}
      /\ WithTopic(b.server[s], t).connected
      /\ WithTopic(b.server[s], t).guards = b.server[s].guards
      /\ WithTopic(b.server[s], t).state = b.server[s].state
      /\ WithTopic(b.server[s], t).handlers = b.server[s].handlers
  BY ZenonT(30) DEF WithTopic, SocketType, BooksType
<1>3. c.server \in [Sockets -> SocketType]
      /\ \A x \in Sockets : c.server[x] = IF x = s THEN WithTopic(b.server[s], t) ELSE b.server[x]
  BY <1>1, <1>2 DEF BooksType
<1>4. c.subscriptions \in [Topics -> SUBSET Sockets]
      /\ \A u \in Topics : c.subscriptions[u] = IF u = t THEN b.subscriptions[u] \union {s}
                                                ELSE b.subscriptions[u]
  BY <1>a, <1>b, <1>e, ZenonT(30)
<1>5. /\ c.provider.localSubscriptions \in [Topics -> SUBSET Sockets]
      /\ \A u \in Topics : c.provider.localSubscriptions[u] =
           IF u = t THEN b.provider.localSubscriptions[u] \union {s}
           ELSE b.provider.localSubscriptions[u]
  <2>1. PICK f \in [Topics -> SUBSET Sockets] : f = p.localSubscriptions
    BY <1>a
  <2>2. PICK g : g = q.localSubscriptions
    OBVIOUS
  <2>3. g = [f EXCEPT ![t] = f[t] \union {s}] /\ f[t] \union {s} \in SUBSET Sockets
    BY <2>1, <2>2, <1>d, <1>e
  <2>4. g \in [Topics -> SUBSET Sockets]
        /\ \A u \in Topics : g[u] = IF u = t THEN f[u] \union {s} ELSE f[u]
    BY ONLY <2>3, f \in [Topics -> SUBSET Sockets], t \in Topics
  <2> QED
    BY <2>1, <2>2, <2>4
<1>6. /\ c.provider.socketTopics \in [Sockets -> SUBSET Topics]
      /\ \A x \in Sockets : c.provider.socketTopics[x] =
           IF x = s THEN b.provider.socketTopics[x] \union {t} ELSE b.provider.socketTopics[x]
  <2>1. PICK f \in [Sockets -> SUBSET Topics] : f = p.socketTopics
    BY <1>a
  <2>2. PICK g : g = q.socketTopics
    OBVIOUS
  <2>3. g = [f EXCEPT ![s] = f[s] \union {t}] /\ f[s] \union {t} \in SUBSET Topics
    BY <2>1, <2>2, <1>d, <1>e
  <2>4. g \in [Sockets -> SUBSET Topics]
        /\ \A x \in Sockets : g[x] = IF x = s THEN f[x] \union {t} ELSE f[x]
    BY ONLY <2>3, f \in [Sockets -> SUBSET Topics], s \in Sockets
  <2> QED
    BY <2>1, <2>2, <2>4
<1>7. c.provider.connectedSockets = b.provider.connectedSockets \union {s}
  BY <1>c
<1>8. c \in BooksType
  <2>1. c.provider = [localSubscriptions |-> c.provider.localSubscriptions,
                      socketTopics |-> c.provider.socketTopics,
                      connectedSockets |-> c.provider.connectedSockets]
    BY <1>c
  <2>2. c.provider.connectedSockets \in SUBSET Sockets
    BY <1>7 DEF BooksType
  <2>3. c = [server |-> c.server, subscriptions |-> c.subscriptions, provider |-> c.provider]
    BY <1>1
  <2> QED
    BY <1>3, <1>4, <1>5, <1>6, <2>1, <2>2, <2>3 DEF BooksType
<1> QED
  BY <1>2, <1>3, <1>4, <1>5, <1>6, <1>7, <1>8 DEF SameForOthers, Adds

\* c is what the books b become when socket s leaves topic t.
Drops(b, s, t, c) ==
  /\ c \in BooksType /\ SameForOthers(b, c, s)
  /\ c.server[s].connected
  /\ c.server[s].topics = b.server[s].topics \ {t}
  /\ c.server[s].native = b.server[s].native \ {t}
  /\ c.provider.socketTopics[s] = b.provider.socketTopics[s] \ {t}
  /\ c.provider.connectedSockets =
       IF b.provider.socketTopics[s] # {} /\ b.provider.socketTopics[s] \subseteq {t}
       THEN b.provider.connectedSockets \ {s} ELSE b.provider.connectedSockets
  /\ \A u \in Topics :
       /\ c.subscriptions[u] = IF u = t THEN b.subscriptions[u] \ {s}
                               ELSE b.subscriptions[u]
       /\ c.provider.localSubscriptions[u] =
            IF u = t THEN b.provider.localSubscriptions[u] \ {s}
            ELSE b.provider.localSubscriptions[u]

LEMMA UnsubscribeEffect ==
  ASSUME NEW b \in BooksType, NEW s \in Sockets, NEW t \in Topics,
         b.server[s].connected, NEW c, c = UnsubscribeFromTopic(b, s, t)
  PROVE  Drops(b, s, t, c)
<1>1. c = [server |-> [b.server EXCEPT ![s] = WithoutTopic(b.server[s], t)],
           subscriptions |-> [b.subscriptions EXCEPT ![t] = b.subscriptions[t] \ {s}],
           provider |-> ProviderUnsubscribe(b.provider, s, t)]
  BY DEF UnsubscribeFromTopic
<1> DEFINE p == b.provider
           q == c.provider
<1>a. /\ b.subscriptions \in [Topics -> SUBSET Sockets]
      /\ p.localSubscriptions \in [Topics -> SUBSET Sockets]
      /\ p.socketTopics \in [Sockets -> SUBSET Topics]
      /\ p.connectedSockets \in SUBSET Sockets
  BY DEF BooksType
<1>b. /\ c.subscriptions = [b.subscriptions EXCEPT ![t] = b.subscriptions[t] \ {s}]
      /\ q = ProviderUnsubscribe(b.provider, s, t)
  BY <1>1
<1>c. q = [localSubscriptions |-> [p.localSubscriptions EXCEPT ![t] = p.localSubscriptions[t] \ {s}],
           socketTopics |-> [p.socketTopics EXCEPT ![s] = p.socketTopics[s] \ {t}],
           connectedSockets |-> IF p.socketTopics[s] # {} /\ p.socketTopics[s] \ {t} = {}
                                THEN p.connectedSockets \ {s} ELSE p.connectedSockets]
  BY <1>b DEF ProviderUnsubscribe
<1>d. /\ q.localSubscriptions = [p.localSubscriptions EXCEPT ![t] = p.localSubscriptions[t] \ {s}]
      /\ q.socketTopics = [p.socketTopics EXCEPT ![s] = p.socketTopics[s] \ {t}]
  BY <1>c
<1>e. /\ b.subscriptions[t] \ {s} \in SUBSET Sockets
      /\ p.localSubscriptions[t] \ {s} \in SUBSET Sockets
      /\ p.socketTopics[s] \ {t} \in SUBSET Topics
  BY <1>a
<1>2. /\ WithoutTopic(b.server[s], t) \in SocketType
      /\ WithoutTopic(b.server[s], t).topics = b.server[s].topics \ {t}
      /\ WithoutTopic(b.server[s], t).native = b.server[s].native \ {t}
      /\ WithoutTopic(b.server[s], t).connected
      /\ WithoutTopic(b.server[s], t).guards = b.server[s].guards
      /\ WithoutTopic(b.server[s], t).state = b.server[s].state
      /\ WithoutTopic(b.server[s], t).handlers = b.server[s].handlers
  BY DEF WithoutTopic, SocketType, BooksType
<1>3. c.server \in [Sockets -> SocketType]
      /\ \A x \in Sockets : c.server[x] = IF x = s THEN WithoutTopic(b.server[s], t) ELSE b.server[x]
  BY <1>1, <1>2 DEF BooksType
<1>4. c.subscriptions \in [Topics -> SUBSET Sockets]
      /\ \A u \in Topics : c.subscriptions[u] = IF u = t THEN b.subscriptions[u] \ {s}
                                                ELSE b.subscriptions[u]
  BY <1>a, <1>b, <1>e, ZenonT(30)
<1>5. /\ c.provider.localSubscriptions \in [Topics -> SUBSET Sockets]
      /\ \A u \in Topics : c.provider.localSubscriptions[u] =
           IF u = t THEN b.provider.localSubscriptions[u] \ {s}
           ELSE b.provider.localSubscriptions[u]
  <2>1. PICK f \in [Topics -> SUBSET Sockets] : f = p.localSubscriptions
    BY <1>a
  <2>2. PICK g : g = q.localSubscriptions
    OBVIOUS
  <2>3. g = [f EXCEPT ![t] = f[t] \ {s}] /\ f[t] \ {s} \in SUBSET Sockets
    BY <2>1, <2>2, <1>d, <1>e
  <2>4. g \in [Topics -> SUBSET Sockets]
        /\ \A u \in Topics : g[u] = IF u = t THEN f[u] \ {s} ELSE f[u]
    BY ONLY <2>3, f \in [Topics -> SUBSET Sockets], t \in Topics
  <2> QED
    BY <2>1, <2>2, <2>4
<1>6. /\ c.provider.socketTopics \in [Sockets -> SUBSET Topics]
      /\ \A x \in Sockets : c.provider.socketTopics[x] =
           IF x = s THEN b.provider.socketTopics[x] \ {t} ELSE b.provider.socketTopics[x]
  <2>1. PICK f \in [Sockets -> SUBSET Topics] : f = p.socketTopics
    BY <1>a
  <2>2. PICK g : g = q.socketTopics
    OBVIOUS
  <2>3. g = [f EXCEPT ![s] = f[s] \ {t}] /\ f[s] \ {t} \in SUBSET Topics
    BY <2>1, <2>2, <1>d, <1>e
  <2>4. g \in [Sockets -> SUBSET Topics]
        /\ \A x \in Sockets : g[x] = IF x = s THEN f[x] \ {t} ELSE f[x]
    BY ONLY <2>3, f \in [Sockets -> SUBSET Topics], s \in Sockets
  <2> QED
    BY <2>1, <2>2, <2>4
<1>7. c.provider.connectedSockets =
        IF b.provider.socketTopics[s] # {} /\ b.provider.socketTopics[s] \subseteq {t}
        THEN b.provider.connectedSockets \ {s} ELSE b.provider.connectedSockets
  <2>1. b.provider.socketTopics[s] \ {t} = {} <=> b.provider.socketTopics[s] \subseteq {t}
    OBVIOUS
  <2> QED
    BY <1>c, <2>1
<1>8. c \in BooksType
  <2>1. c.provider = [localSubscriptions |-> c.provider.localSubscriptions,
                      socketTopics |-> c.provider.socketTopics,
                      connectedSockets |-> c.provider.connectedSockets]
    BY <1>c
  <2>2. c.provider.connectedSockets \in SUBSET Sockets
    BY <1>7 DEF BooksType
  <2>3. c = [server |-> c.server, subscriptions |-> c.subscriptions, provider |-> c.provider]
    BY <1>1
  <2> QED
    BY <1>3, <1>4, <1>5, <1>6, <2>1, <2>2, <2>3 DEF BooksType
<1> QED
  BY <1>2, <1>3, <1>4, <1>5, <1>6, <1>7, <1>8 DEF SameForOthers, Drops

-----------------------------------------------------------------------------
(* removeConnection() unsubscribes a socket from one topic after the other.  Its loop is a *)
(* fold over the topics; what it amounts to is shown by induction on how many are left.    *)

\* c is what the books b become once socket s is unsubscribed from the topics in T.
Unsubscribed(b, s, T, c) ==
  /\ c \in BooksType /\ SameForOthers(b, c, s)
  /\ c.server[s].connected = b.server[s].connected
  /\ c.server[s].topics = b.server[s].topics \ T
  /\ c.server[s].native = b.server[s].native \ T
  /\ c.provider.socketTopics[s] = b.provider.socketTopics[s] \ T
  /\ s \in c.provider.connectedSockets <=> c.provider.socketTopics[s] # {}
  /\ \A u \in Topics :
       /\ c.subscriptions[u] = IF u \in T THEN b.subscriptions[u] \ {s} ELSE b.subscriptions[u]
       /\ c.provider.localSubscriptions[u] =
            IF u \in T THEN b.provider.localSubscriptions[u] \ {s}
            ELSE b.provider.localSubscriptions[u]

LEMMA UnsubscribeOne ==
  ASSUME NEW b \in BooksType, NEW s \in Sockets, NEW T \in SUBSET Topics, NEW t \in Topics,
         b.server[s].connected, NEW c, Unsubscribed(b, s, T, c), NEW d, d = UnsubscribeFromTopic(c, s, t)
  PROVE  Unsubscribed(b, s, T \union {t}, d)
<1>1. c \in BooksType /\ c.server[s].connected /\ d = UnsubscribeFromTopic(c, s, t)
  BY DEF Unsubscribed
<1>a. Drops(c, s, t, d)
  BY <1>1, UnsubscribeEffect
<1>2. /\ d \in BooksType /\ SameForOthers(c, d, s)
      /\ d.server[s].connected
      /\ d.server[s].topics = c.server[s].topics \ {t}
      /\ d.server[s].native = c.server[s].native \ {t}
      /\ d.provider.socketTopics[s] = c.provider.socketTopics[s] \ {t}
      /\ d.provider.connectedSockets =
           IF c.provider.socketTopics[s] # {} /\ c.provider.socketTopics[s] \subseteq {t}
           THEN c.provider.connectedSockets \ {s} ELSE c.provider.connectedSockets
  BY <1>a DEF Drops
<1>3. \A u \in Topics :
        /\ d.subscriptions[u] = IF u = t THEN c.subscriptions[u] \ {s} ELSE c.subscriptions[u]
        /\ d.provider.localSubscriptions[u] =
             IF u = t THEN c.provider.localSubscriptions[u] \ {s}
             ELSE c.provider.localSubscriptions[u]
  BY <1>a DEF Drops
<1>4. \A u \in Topics :
        /\ d.subscriptions[u] =
             IF u \in T \union {t} THEN b.subscriptions[u] \ {s} ELSE b.subscriptions[u]
        /\ d.provider.localSubscriptions[u] =
             IF u \in T \union {t} THEN b.provider.localSubscriptions[u] \ {s}
             ELSE b.provider.localSubscriptions[u]
  BY <1>3 DEF Unsubscribed
<1>5. s \in d.provider.connectedSockets <=> d.provider.socketTopics[s] # {}
  <2>1. s \in c.provider.connectedSockets <=> c.provider.socketTopics[s] # {}
    BY DEF Unsubscribed
  <2> QED
    BY <1>2, <2>1
<1>6. SameForOthers(b, d, s)
  <2>1. SameForOthers(b, c, s)
    BY DEF Unsubscribed
  <2>2. d.provider.connectedSockets \ {s} = c.provider.connectedSockets \ {s}
    BY <1>2 DEF SameForOthers
  <2> QED
    BY <1>2, <2>1, <2>2 DEF SameForOthers
<1> QED
  BY <1>2, <1>4, <1>5, <1>6 DEF Unsubscribed

LEMMA UnsubscribedAll ==
  ASSUME NEW b \in BooksType, NEW s \in Sockets,
         b.server[s].topics # {} => b.server[s].connected,
         b.provider.socketTopics[s] = b.server[s].topics,
         s \in b.provider.connectedSockets <=> b.server[s].topics # {},
         IsFiniteSet(b.server[s].topics)
  PROVE  Unsubscribed(b, s, b.server[s].topics,
                      FoldSet(LAMBDA t, c : UnsubscribeFromTopic(c, s, t), b, b.server[s].topics))
<1> DEFINE All == b.server[s].topics
           One(T) == CHOOSE x \in T : TRUE
           Body(g, T) == IF T = {} THEN b ELSE UnsubscribeFromTopic(g[T \ {One(T)}], s, One(T))
           Upto(n) == {T \in SUBSET All : Cardinality(T) <= n}
           Solves(g, n) == g = [T \in Upto(n) |-> Body(g, T)]
<1>1. \A T \in SUBSET All : /\ IsFiniteSet(T) /\ Cardinality(T) \in Nat
                            /\ T # {} => /\ One(T) \in T
                                         /\ T \ {One(T)} \in SUBSET All
                                         /\ Cardinality(T \ {One(T)}) = Cardinality(T) - 1
  <2> TAKE T \in SUBSET All
  <2>1. IsFiniteSet(T)
    BY FS_Subset
  <2>2. Cardinality(T) \in Nat
    BY <2>1, FS_CardinalityType
  <2>3. ASSUME T # {}
        PROVE  /\ One(T) \in T
               /\ T \ {One(T)} \in SUBSET All
               /\ Cardinality(T \ {One(T)}) = Cardinality(T) - 1
    <3>1. PICK x : x = One(T) /\ x \in T
      BY <2>3
    <3>2. Cardinality(T \ {x}) = Cardinality(T) - 1
      BY <2>1, <3>1, FS_RemoveElement
    <3> QED
      BY <3>1, <3>2
  <2> QED
    BY <2>1, <2>2, <2>3
<1>2. All \in SUBSET Topics
  BY DEF BooksType, SocketType
<1> DEFINE L == Cardinality(All)
<1>3. L \in Nat /\ \A T \in SUBSET All : Cardinality(T) <= L
  BY <1>1, FS_Subset
<1>4. Upto(L) = SUBSET All
  BY <1>3
<1>5. \A T \in SUBSET All : T # {} => One(T) \in Topics
  BY <1>1, <1>2
<1> HIDE DEF One, L
<1>6. \A n \in Nat : \E g : Solves(g, n)
  <2> DEFINE N == {n \in Nat : ~ \E g : Solves(g, n)}
  <2> SUFFICES ASSUME N # {} PROVE FALSE
    OBVIOUS
  <2>1. PICK n \in N : \A m \in N : n <= m
    <3>1. N \in SUBSET Nat
      OBVIOUS
    <3> QED
      BY ONLY <3>1, N # {}, LeastNumber
  <2>2. n \in Nat /\ \A m \in Nat : m < n => \E g : Solves(g, m)
    <3> HIDE DEF Solves
    <3>1. \A m \in Nat : ~ (\E g : Solves(g, m)) => n <= m
      BY <2>1
    <3> QED
      BY <3>1
  <2>3. CASE n = 0
    <3> DEFINE h == [T \in Upto(0) |-> b]
    <3>1. \A T \in Upto(0) : T = {}
      <4> TAKE T \in Upto(0)
      <4>1. T \in SUBSET All /\ Cardinality(T) <= 0
        OBVIOUS
      <4>2. IsFiniteSet(T) /\ Cardinality(T) \in Nat
        BY <1>1, <4>1
      <4> QED
        BY <4>1, <4>2, FS_EmptySet
    <3>2. Solves(h, 0)
      BY <3>1
    <3> QED
      BY <3>2, <2>1, <2>3
  <2>4. CASE n # 0
    <3>1. n - 1 \in Nat /\ n - 1 < n
      BY <2>2, <2>4
    <3>2. PICK g : Solves(g, n - 1)
      BY <3>1, <2>2
    <3> DEFINE h == [T \in Upto(n) |-> IF T \in Upto(n - 1) THEN g[T] ELSE Body(g, T)]
    <3>3. \A T \in Upto(n) : T # {} => T \ {One(T)} \in Upto(n) /\ T \ {One(T)} \in Upto(n - 1)
      BY <1>1, <2>2
    <3>4. \A T \in Upto(n) : T # {} => h[T \ {One(T)}] = g[T \ {One(T)}]
      BY <3>3
    <3>5. \A T \in Upto(n - 1) : g[T] = Body(g, T)
      BY <3>2
    <3>6. \A T \in Upto(n) : h[T] = Body(g, T)
      <4> HIDE DEF Body
      <4> QED
        BY <3>5
    <3>7. \A T \in Upto(n) : h[T] = Body(h, T)
      <4> HIDE DEF h, Upto
      <4> QED
        BY <3>4, <3>6
    <3>8. Solves(h, n)
      <4>1. h = [T \in Upto(n) |-> h[T]]
        OBVIOUS
      <4> HIDE DEF h, Body, Upto
      <4> QED
        BY <4>1, <3>7
    <3> QED
      BY <3>8, <2>1
  <2> QED
    BY <2>3, <2>4
<1> DEFINE f == CHOOSE g : g = [T \in SUBSET All |-> Body(g, T)]
<1>7. f = [T \in SUBSET All |-> Body(f, T)]
  <2> HIDE DEF Body
  <2>1. \E g : g = [T \in SUBSET All |-> Body(g, T)]
    <3>1. PICK g : Solves(g, L)
      BY <1>3, <1>6
    <3> QED
      BY <3>1, <1>4
  <2> QED
    BY <2>1
<1>8. FoldSet(LAMBDA t, c : UnsubscribeFromTopic(c, s, t), b, All) = f[All]
  BY DEF FoldSet, MapThenFoldSet, One
<1> HIDE DEF f
<1>9. \A T \in SUBSET All : Unsubscribed(b, s, T, f[T])
  <2> DEFINE N == {n \in Nat : \E T \in SUBSET All : Cardinality(T) = n /\ ~ Unsubscribed(b, s, T, f[T])}
  <2> SUFFICES ASSUME N # {} PROVE FALSE
    BY <1>1
  <2>1. PICK n \in N : \A m \in N : n <= m
    <3>1. N \in SUBSET Nat
      OBVIOUS
    <3> QED
      BY ONLY <3>1, N # {}, LeastNumber
  <2>2. PICK T \in SUBSET All : Cardinality(T) = n /\ ~ Unsubscribed(b, s, T, f[T])
    OBVIOUS
  <2>3. \A U \in SUBSET All : Cardinality(U) = n - 1 => Unsubscribed(b, s, U, f[U])
    <3>1. \A U \in SUBSET All : ~ Unsubscribed(b, s, U, f[U]) => n <= Cardinality(U)
      BY <2>1, <1>1
    <3>2. n \in Nat /\ ~ (n <= n - 1)
      OBVIOUS
    <3> QED
      BY <3>1, <3>2
  <2>4. CASE T = {}
    <3>1. f[T] = b
      BY <1>7, <2>4
    <3>2. Unsubscribed(b, s, {}, b)
      BY DEF Unsubscribed, SameForOthers
    <3> QED
      BY <2>2, <2>4, <3>1, <3>2
  <2>5. CASE T # {}
    <3> DEFINE x == One(T)
               U == T \ {x}
    <3>1. x \in T /\ x \in Topics /\ U \in SUBSET All /\ Cardinality(U) = n - 1
      BY <1>1, <1>5, <2>2, <2>5
    <3>2. f[T] = UnsubscribeFromTopic(f[U], s, x)
      BY <1>7, <2>5
    <3>3. Unsubscribed(b, s, U, f[U]) /\ U \in SUBSET Topics /\ b.server[s].connected
      BY <3>1, <2>3, <1>2
    <3>4. U \union {x} = T
      BY <3>1
    <3> HIDE DEF x, U
    <3>5. Unsubscribed(b, s, U \union {x}, f[T])
      BY <3>1, <3>2, <3>3, UnsubscribeOne
    <3> QED
      BY <3>4, <3>5, <2>2
  <2> QED
    BY <2>4, <2>5
<1> QED
  BY <1>8, <1>9

\* d is what the books b become when socket s is forgotten, its topics and Bun's
\* subscriptions with it, and nothing else.
Removed(b, s, d) ==
  /\ d \in BooksType /\ SameForOthers(b, d, s)
  /\ ~ d.server[s].connected
  /\ d.server[s].topics = {} /\ d.server[s].native = {}
  /\ d.provider.socketTopics[s] = {} /\ s \notin d.provider.connectedSockets
  /\ \A u \in Topics :
       /\ d.subscriptions[u] = IF u \in b.server[s].topics THEN b.subscriptions[u] \ {s}
                               ELSE b.subscriptions[u]
       /\ d.provider.localSubscriptions[u] =
            IF u \in b.server[s].topics THEN b.provider.localSubscriptions[u] \ {s}
            ELSE b.provider.localSubscriptions[u]

LEMMA RemoveConnectionEffect ==
  ASSUME NEW b \in BooksType, NEW s \in Sockets,
         b.server[s].topics # {} => b.server[s].connected,
         b.provider.socketTopics[s] = b.server[s].topics,
         s \in b.provider.connectedSockets <=> b.server[s].topics # {},
         IsFiniteSet(b.server[s].topics),
         NEW d, d = RemoveConnection(b, s)
  PROVE  Removed(b, s, d)
<1> DEFINE c == FoldSet(LAMBDA t, e : UnsubscribeFromTopic(e, s, t), b, b.server[s].topics)
<1>1. d = [c EXCEPT !.server[s] = [@ EXCEPT !.connected = FALSE, !.native = {}]]
  BY DEF RemoveConnection
<1>2. /\ c \in BooksType /\ SameForOthers(b, c, s)
      /\ c.server[s].topics = {} /\ c.provider.socketTopics[s] = {}
      /\ s \notin c.provider.connectedSockets
  <2>1. Unsubscribed(b, s, b.server[s].topics, c)
    BY UnsubscribedAll
  <2> HIDE DEF c
  <2>2. c.server[s].topics = {} /\ c.provider.socketTopics[s] = {}
    BY <2>1 DEF Unsubscribed
  <2> QED
    BY <2>1, <2>2 DEF Unsubscribed
<1>3. \A u \in Topics :
        /\ c.subscriptions[u] = IF u \in b.server[s].topics THEN b.subscriptions[u] \ {s}
                                ELSE b.subscriptions[u]
        /\ c.provider.localSubscriptions[u] =
             IF u \in b.server[s].topics THEN b.provider.localSubscriptions[u] \ {s}
             ELSE b.provider.localSubscriptions[u]
  <2>1. Unsubscribed(b, s, b.server[s].topics, c)
    BY UnsubscribedAll
  <2> HIDE DEF c
  <2> QED
    BY <2>1 DEF Unsubscribed
<1> HIDE DEF c
<1>0. PICK o \in SocketType : o = c.server[s]
  BY <1>2 DEF BooksType
<1>4. PICK v \in SocketType : v = [o EXCEPT !.connected = FALSE, !.native = {}]
  BY DEF SocketType
<1>5. /\ v.connected = FALSE /\ v.native = {} /\ v.topics = {}
      /\ v.guards = b.server[s].guards /\ v.state = b.server[s].state
      /\ v.handlers = b.server[s].handlers
  BY <1>2, <1>0, <1>4 DEF SocketType, SameForOthers
<1>6. d = [c EXCEPT !.server[s] = v]
  BY <1>1, <1>0, <1>4
<1>7. /\ d.subscriptions = c.subscriptions /\ d.provider = c.provider
      /\ d.server = [c.server EXCEPT ![s] = v]
      /\ d = [server |-> d.server, subscriptions |-> d.subscriptions, provider |-> d.provider]
  BY <1>2, <1>6 DEF BooksType
<1>8. /\ d.server \in [Sockets -> SocketType]
      /\ \A x \in Sockets : d.server[x] = IF x = s THEN v ELSE c.server[x]
  BY <1>2, <1>7 DEF BooksType
<1>9. d \in BooksType
  BY <1>2, <1>7, <1>8 DEF BooksType
<1>10. SameForOthers(b, d, s)
  BY <1>2, <1>5, <1>7, <1>8 DEF SameForOthers
<1>11. d.server[s] = v
  BY <1>8
<1> QED
  BY <1>2, <1>3, <1>5, <1>7, <1>9, <1>10, <1>11 DEF Removed

-----------------------------------------------------------------------------
(* The link. *)

LinkType ==
  [client : {"unused", "connecting", "open", "closing", "closed"},
   server : {"none", "open", "closing", "closed"}, alive : BOOLEAN, rejected : BOOLEAN,
   up : Seq(Message)]

Links == [Sockets -> LinkType]

LEMMA SocketsAreNumbers ==
  \A s \in Sockets : s \in Nat /\ s # NoSocket
BY SocketsAssumption DEF Sockets, NoSocket

\* From l to k the server's end stays as it is.
ServerEndStays(l, k) ==
  /\ k \in Links
  /\ \A x \in Sockets : k[x].server = l[x].server

LEMMA OpeningLink ==
  ASSUME NEW l \in Links, NEW s \in Sockets, NEW o \in BOOLEAN, NEW k, k = Opening(l, s, o)
  PROVE  /\ ServerEndStays(l, k)
         /\ \A x \in Sockets : k[x].client = IF x = s THEN "connecting" ELSE l[x].client
<1>1. PICK v \in LinkType : v = [l[s] EXCEPT !.client = "connecting", !.alive = o]
  BY DEF Links, LinkType
<1>2. v.client = "connecting" /\ v.server = l[s].server
  BY <1>1 DEF Links, LinkType
<1>3. k = [l EXCEPT ![s] = v]
  BY <1>1 DEF Opening
<1> QED
  BY <1>2, <1>3 DEF ServerEndStays, Links

LEMMA ClosingLink ==
  ASSUME NEW l \in Links, NEW w \in Sockets \union {NoSocket}, NEW k, k = Closing(l, w)
  PROVE  /\ ServerEndStays(l, k)
         /\ \A x \in Sockets : k[x].client =
              IF x = w /\ l[x].client \in {"connecting", "open"} THEN "closing" ELSE l[x].client
<1>1. CASE w # NoSocket /\ l[w].client \in {"connecting", "open"}
  <2>1. w \in Sockets /\ k = [l EXCEPT ![w].client = "closing"]
    BY <1>1 DEF Closing
  <2>2. PICK v \in LinkType : v = [l[w] EXCEPT !.client = "closing"]
    BY <2>1, SMTT(30) DEF Links, LinkType
  <2>3. v.client = "closing" /\ v.server = l[w].server
    BY <2>1, <2>2 DEF Links, LinkType
  <2>4. k = [l EXCEPT ![w] = v]
    BY <2>1, <2>2
  <2> QED
    BY <1>1, <2>1, <2>3, <2>4 DEF ServerEndStays, Links
<1>2. CASE ~ (w # NoSocket /\ l[w].client \in {"connecting", "open"})
  <2>1. k = l
    BY <1>2 DEF Closing
  <2> QED
    BY <1>2, <2>1, SocketsAreNumbers DEF ServerEndStays
<1> QED
  BY <1>1, <1>2

LEMMA SentLink ==
  ASSUME NEW l \in Links, NEW w \in Sockets \union {NoSocket}, NEW ms \in Seq(Message),
         NEW k, k = Sent(l, w, ms)
  PROVE  /\ ServerEndStays(l, k)
         /\ \A x \in Sockets : k[x].client = l[x].client
<1>1. CASE w # NoSocket /\ l[w].client = "open"
  <2>1. w \in Sockets /\ k = [l EXCEPT ![w].up = l[w].up \o ms]
    BY <1>1 DEF Sent
  <2>2. l[w].up \in Seq(Message)
    BY <2>1 DEF Links, LinkType
  <2>3. PICK q \in Seq(Message) : q = l[w].up \o ms
    BY <2>2, ConcatProperties
  <2>4. PICK v \in LinkType : v = [l[w] EXCEPT !.up = q]
    BY <2>1, ZenonT(30) DEF Links, LinkType
  <2>5. v.client = l[w].client /\ v.server = l[w].server
    BY <2>1, <2>4 DEF Links, LinkType
  <2>6. k = [l EXCEPT ![w] = v]
    BY <2>1, <2>3, <2>4
  <2> QED
    BY <2>1, <2>5, <2>6 DEF ServerEndStays, Links
<1>2. CASE ~ (w # NoSocket /\ l[w].client = "open")
  <2>1. k = l
    BY <1>2 DEF Sent
  <2> QED
    BY <2>1 DEF ServerEndStays
<1> QED
  BY <1>1, <1>2

LEMMA SeveredLink ==
  ASSUME NEW l \in Links, NEW k, k = Severed(l)
  PROVE  /\ ServerEndStays(l, k)
         /\ \A x \in Sockets : k[x].client = l[x].client
<1>1. \A x \in Sockets : [l[x] EXCEPT !.alive = FALSE] \in LinkType
                         /\ [l[x] EXCEPT !.alive = FALSE].client = l[x].client
                         /\ [l[x] EXCEPT !.alive = FALSE].server = l[x].server
  BY DEF Links, LinkType
<1>2. k \in Links
  BY <1>1 DEF Severed, Links
<1>3. \A x \in Sockets : k[x] = [l[x] EXCEPT !.alive = FALSE] \/ k[x] = l[x]
  BY DEF Severed
<1> QED
  BY <1>1, <1>2, <1>3 DEF ServerEndStays

\* What rejoinRooms() and flushSendBuffer() send are messages.
LEMMA OnOpenSendsMessages ==
  ASSUME NEW rooms \in SUBSET Rooms, IsFiniteSet(rooms), NEW n \in Nat
  PROVE  Joins(rooms) \o [i \in 1 .. n |-> App] \in Seq(Message)
<1> DEFINE list == SetToSeq(rooms)
           N == Cardinality(rooms)
<1>1. N \in Nat /\ list \in [1 .. N -> rooms]
  <2>1. N \in Nat /\ ExistsBijection(1 .. N, rooms)
    BY FS_CardinalityType
  <2>2. \E f \in [1 .. N -> rooms] : IsInjective(f)
    BY <2>1 DEF ExistsBijection, Bijection, Injection, Surjection, IsInjective
  <2> QED
    BY <2>1, <2>2 DEF SetToSeq
<1> HIDE DEF list, N
<1>2. Joins(rooms) = [i \in 1 .. N |-> Join(list[i])]
  <2>1. DOMAIN list = 1 .. N
    BY <1>1
  <2> QED
    BY <2>1 DEF Joins, list
<1>3. \A i \in 1 .. N : Join(list[i]) \in Message
  BY <1>1 DEF Join, Message
<1>4. Joins(rooms) \in Seq(Message)
  <2>1. Joins(rooms) \in [1 .. N -> Message]
    BY <1>2, <1>3
  <2> QED
    BY <1>1, <2>1, SeqDef
<1>5. [i \in 1 .. n |-> App] \in Seq(Message)
  <2>1. [i \in 1 .. n |-> App] \in [1 .. n -> Message]
    BY DEF Message
  <2> QED
    BY <2>1, SeqDef
<1> QED
  BY <1>4, <1>5, ConcatProperties

-----------------------------------------------------------------------------
(* The client. *)

ClientType ==
  [state : {"disconnected", "connecting", "connected", "reconnecting"},
   ws : Sockets \union {NoSocket}, rooms : SUBSET Rooms, skipReconnect : BOOLEAN,
   reconnecting : BOOLEAN, reconnectTimer : BOOLEAN, connectionTimer : BOOLEAN,
   backoffResetTimer : BOOLEAN, attempts : Nat, pageHidden : BOOLEAN,
   deviceWentOffline : BOOLEAN, listeners : BOOLEAN, heartbeat : {"off", "on", "waiting"},
   sendBuffer : Nat]

ClientTypeOK ==
  /\ link \in Links
  /\ client \in ClientType /\ IsFiniteSet(client.rooms)
  /\ online \in BOOLEAN /\ budget \in Nat /\ overtaken \in BOOLEAN

\* Unless connect() overtook something, there is one socket at a time: the client's own, or
\* one that it is closing; and a client that is connected can use it.
OneSocket ==
  ~overtaken =>
    /\ \A s \in Sockets : Live(s) => client.ws = s \/ link[s].client = "closing"
    /\ \A s, t \in Sockets : Live(s) /\ Live(t) => s = t
    /\ client.ws # NoSocket => Live(client.ws)
    /\ client.state = "connected" =>
         /\ client.ws # NoSocket /\ link[client.ws].client \in {"open", "closing"}
         /\ client.heartbeat # "off" /\ client.sendBuffer = 0

ClientInv == ClientTypeOK /\ OneSocket

\* A step of the client that leaves the invariant true, does not touch the server's end of
\* the link, and uses a new socket only if it may.
ClientStepOK(mayOpen) ==
  /\ ClientTypeOK' /\ OneSocket'
  /\ ServerEndStays(link, link')
  /\ Used' = Used \/ mayOpen

\* A step after which the client's states of the sockets are the same, or only some are
\* closing that were opening or open, and the client's fields that matter are kept.
LEMMA QuietStep ==
  ASSUME ClientInv, ServerEndStays(link, link'), ClientTypeOK', overtaken' = overtaken,
         \A x \in Sockets : \/ link'[x].client = link[x].client
                            \/ link[x].client \in {"connecting", "open"} /\ link'[x].client = "closing",
         client'.ws = client.ws,
         client'.state = "connected" =>
           /\ client.state = "connected"
           /\ client'.heartbeat # "off" \/ client'.heartbeat = client.heartbeat
           /\ client'.sendBuffer = client.sendBuffer
  PROVE  ClientStepOK(FALSE)
<1>1. \A x \in Sockets : /\ Live(x)' <=> Live(x)
                         /\ link[x].client = "closing" => link'[x].client = "closing"
                         /\ link'[x].client = "unused" <=> link[x].client = "unused"
                         /\ link[x].client \in {"open", "closing"} => link'[x].client \in {"open", "closing"}
  BY DEF Live
<1>2. Used' = Used
  BY <1>1 DEF Used
<1>3. client'.ws \in Sockets \union {NoSocket}
  BY DEF ClientTypeOK, ClientType
<1>4. OneSocket'
  <2> SUFFICES ASSUME ~ overtaken'
               PROVE  /\ \A s \in Sockets : Live(s)' => client'.ws = s \/ link'[s].client = "closing"
                      /\ \A s, t \in Sockets : Live(s)' /\ Live(t)' => s = t
                      /\ client'.ws # NoSocket => Live(client.ws)'
                      /\ client'.state = "connected" =>
                           /\ client'.ws # NoSocket /\ link'[client'.ws].client \in {"open", "closing"}
                           /\ client'.heartbeat # "off" /\ client'.sendBuffer = 0
    BY DEF OneSocket
  <2>1. /\ \A s \in Sockets : Live(s) => client.ws = s \/ link[s].client = "closing"
        /\ \A s, t \in Sockets : Live(s) /\ Live(t) => s = t
        /\ client.ws # NoSocket => Live(client.ws)
        /\ client.state = "connected" =>
             /\ client.ws # NoSocket /\ link[client.ws].client \in {"open", "closing"}
             /\ client.heartbeat # "off" /\ client.sendBuffer = 0
    BY DEF ClientInv, OneSocket
  <2>2. client'.ws # NoSocket => Live(client.ws)'
    BY <1>1, <1>3, <2>1 DEF Live
  <2> QED
    BY <1>1, <1>3, <2>1, <2>2
<1> QED
  BY <1>2, <1>4 DEF ClientStepOK

\* Connecting() opens a socket, when no other is there or for a client that is overtaken, or
\* keeps what the caller has done.
LEMMA ConnectingStep ==
  ASSUME ClientInv, NEW c \in ClientType, IsFiniteSet(c.rooms),
         c.ws = client.ws, c.state = client.state, c.heartbeat = client.heartbeat,
         c.sendBuffer = client.sendBuffer,
         online' \in BOOLEAN, budget' \in Nat, Connecting(c)
  PROVE  ClientStepOK(TRUE)
<1>1. CASE c.state \in {"connected", "connecting"}
  <2>1. client' = c /\ link' = link /\ overtaken' = overtaken
    BY <1>1 DEF Connecting
  <2>2. ClientTypeOK' /\ ServerEndStays(link, link')
    BY <2>1 DEF ClientInv, ClientTypeOK, ServerEndStays
  <2>3. ClientStepOK(FALSE)
    BY <2>1, <2>2, QuietStep
  <2> QED
    BY <2>3 DEF ClientStepOK
<1>2. CASE c.state \notin {"connected", "connecting"}
  <2>1. PICK s \in Sockets \ Used :
          /\ client' = [c EXCEPT !.skipReconnect = FALSE, !.deviceWentOffline = FALSE,
                                 !.state = "connecting", !.ws = s, !.connectionTimer = TRUE]
          /\ link' = Opening(link, s, online')
          /\ overtaken' = (overtaken \/ c.reconnectTimer \/ \E t \in Sockets : Live(t))
    BY <1>2 DEF Connecting
  <2>2. ServerEndStays(link, link')
        /\ \A x \in Sockets : link'[x].client = IF x = s THEN "connecting" ELSE link[x].client
    <3>1. PICK o \in BOOLEAN : o = online'
      OBVIOUS
    <3>2. PICK k : k = link'
      OBVIOUS
    <3>3. PICK l \in Links : l = link
      BY DEF ClientInv, ClientTypeOK
    <3>4. k = Opening(l, s, o) /\ s \in Sockets
      BY <2>1, <3>1, <3>2, <3>3
    <3>5. ServerEndStays(l, k)
          /\ \A x \in Sockets : k[x].client = IF x = s THEN "connecting" ELSE l[x].client
      BY <3>4, OpeningLink
    <3> QED
      BY <3>2, <3>3, <3>5
  <2>3. /\ client' \in ClientType /\ client'.rooms = c.rooms /\ client'.ws = s
        /\ client'.state = "connecting"
    BY <2>1 DEF ClientType
  <2>4. ClientTypeOK'
    <3>1. overtaken' \in BOOLEAN
      BY <2>1
    <3>2. link' \in Links
      BY <2>2 DEF ServerEndStays
    <3> QED
      BY <2>3, <3>1, <3>2 DEF ClientTypeOK
  <2>5. OneSocket'
    <3> SUFFICES ASSUME ~ overtaken'
                 PROVE  /\ \A x \in Sockets : Live(x)' => x = s
                        /\ Live(s)'
      BY <2>3 DEF OneSocket
    <3>1. \A x \in Sockets : ~ Live(x)
      BY <2>1
    <3> QED
      BY <2>1, <2>2, <3>1 DEF Live
  <2> QED
    BY <2>2, <2>4, <2>5 DEF ClientStepOK
<1> QED
  BY <1>1, <1>2

\* The same facts about the client's socket in a step.
OnlyCloses ==
  \A x \in Sockets : \/ link'[x].client = link[x].client
                     \/ link[x].client \in {"connecting", "open"} /\ link'[x].client = "closing"

LEMMA ClosingStep ==
  ASSUME ClientTypeOK, link' = Closing(link, client.ws)
  PROVE  ServerEndStays(link, link') /\ OnlyCloses
<1>1. PICK l \in Links : l = link
  BY DEF ClientTypeOK
<1>2. PICK w \in Sockets \union {NoSocket} : w = client.ws
  BY DEF ClientTypeOK, ClientType
<1>3. PICK k : k = link'
  OBVIOUS
<1>4. k = Closing(l, w)
  BY <1>1, <1>2, <1>3
<1>5. /\ ServerEndStays(l, k)
      /\ \A x \in Sockets : k[x].client =
           IF x = w /\ l[x].client \in {"connecting", "open"} THEN "closing" ELSE l[x].client
  BY <1>4, ClosingLink
<1> QED
  BY <1>1, <1>3, <1>5 DEF OnlyCloses

LEMMA SendingStep ==
  ASSUME ClientTypeOK, NEW m \in Message, link' = Sent(link, client.ws, <<m>>)
  PROVE  ServerEndStays(link, link') /\ OnlyCloses
<1>1. PICK l \in Links : l = link
  BY DEF ClientTypeOK
<1>2. PICK w \in Sockets \union {NoSocket} : w = client.ws
  BY DEF ClientTypeOK, ClientType
<1>3. PICK k : k = link'
  OBVIOUS
<1>4. k = Sent(l, w, <<m>>) /\ <<m>> \in Seq(Message)
  BY <1>1, <1>2, <1>3
<1>5. /\ ServerEndStays(l, k)
      /\ \A x \in Sockets : k[x].client = l[x].client
  BY <1>4, SentLink, ZenonT(30)
<1> QED
  BY <1>1, <1>3, <1>5 DEF OnlyCloses

LEMMA LinkStays ==
  ASSUME ClientTypeOK, link' = link
  PROVE  ServerEndStays(link, link') /\ OnlyCloses
BY DEF ClientTypeOK, ServerEndStays, OnlyCloses

LEMMA SpendIsNat ==
  ASSUME ClientTypeOK, Spend \/ UNCHANGED budget
  PROVE  budget' \in Nat
BY DEF ClientTypeOK, Spend

\* The client's state in a quiet step, from what the handlers assign.
LEMMA QuietFields ==
  ASSUME ClientInv, ServerEndStays(link, link'), OnlyCloses, Spend \/ UNCHANGED budget,
         overtaken' = overtaken, online' \in BOOLEAN,
         client' \in ClientType, IsFiniteSet(client'.rooms),
         client'.ws = client.ws,
         client'.state = "connected" =>
           /\ client.state = "connected"
           /\ client'.heartbeat # "off" \/ client'.heartbeat = client.heartbeat
           /\ client'.sendBuffer = client.sendBuffer
  PROVE  ClientStepOK(FALSE)
<1>1. ClientTypeOK'
  BY SpendIsNat DEF ClientInv, ClientTypeOK, ServerEndStays
<1> QED
  BY <1>1, QuietStep DEF OnlyCloses

LEMMA OnOpenStep ==
  ASSUME ClientInv, NEW s \in Sockets, OnOpen(s)
  PROVE  ClientStepOK(FALSE)
<1>1. PICK l \in Links : l = link
  BY DEF ClientInv, ClientTypeOK
<1>2. PICK w \in Sockets \union {NoSocket} : w = client.ws
  BY DEF ClientInv, ClientTypeOK, ClientType
<1>3. PICK o \in Links : o = [l EXCEPT ![s].client = "open"]
  BY DEF Links, LinkType
<1>4. PICK ms \in Seq(Message) : ms = OnOpenSends(client)
  <2>1. client.rooms \in SUBSET Rooms /\ IsFiniteSet(client.rooms) /\ client.sendBuffer \in Nat
    BY DEF ClientInv, ClientTypeOK, ClientType
  <2>2. OnOpenSends(client) \in Seq(Message)
    BY <2>1, OnOpenSendsMessages DEF OnOpenSends
  <2> QED
    BY <2>2
<1>5. PICK k : k = link'
  OBVIOUS
<1>6. k = Sent(o, w, ms)
  BY <1>1, <1>2, <1>3, <1>4, <1>5 DEF OnOpen
<1>7. ServerEndStays(o, k) /\ \A x \in Sockets : k[x].client = o[x].client
  BY <1>6, SentLink
<1>8. \A x \in Sockets : o[x].client = (IF x = s THEN "open" ELSE l[x].client)
                         /\ o[x].server = l[x].server
  BY <1>3 DEF Links, LinkType
<1>9. /\ link' \in Links /\ \A x \in Sockets : link'[x].server = link[x].server
      /\ \A x \in Sockets : link'[x].client = IF x = s THEN "open" ELSE link[x].client
  BY <1>1, <1>5, <1>7, <1>8 DEF ServerEndStays
<1>10. /\ client' \in ClientType /\ client'.rooms = client.rooms /\ client'.ws = client.ws
       /\ client'.heartbeat = "on" /\ client'.sendBuffer = 0
       /\ link[s].client = "connecting"
       /\ UNCHANGED <<online, budget, overtaken>>
  BY DEF OnOpen, ClientInv, ClientTypeOK, ClientType
<1>11. ClientTypeOK'
  BY <1>9, <1>10 DEF ClientInv, ClientTypeOK
<1>12. Used' = Used
  BY <1>9, <1>10 DEF Used
<1>13. OneSocket'
  <2> SUFFICES ASSUME ~ overtaken' PROVE OneSocket'
    BY DEF OneSocket
  <2>1. /\ \A x \in Sockets : Live(x) => client.ws = x \/ link[x].client = "closing"
        /\ \A x, y \in Sockets : Live(x) /\ Live(y) => x = y
        /\ client.ws # NoSocket => Live(client.ws)
    BY <1>10 DEF ClientInv, OneSocket
  <2>2. Live(s) /\ client.ws = s /\ s # NoSocket
    BY <1>10, <2>1, SocketsAreNumbers DEF Live
  <2>3. \A x \in Sockets : Live(x)' <=> Live(x)
    BY <1>9, <1>10 DEF Live
  <2>4. \A x \in Sockets : Live(x) => x = s
    BY <2>1, <2>2
  <2>5. Live(s)'
    BY <2>2, <2>3
  <2> QED
    BY <1>9, <1>10, <2>2, <2>3, <2>4, <2>5 DEF OneSocket
<1> QED
  BY <1>9, <1>11, <1>12, <1>13 DEF ClientStepOK, ServerEndStays

LEMMA OnCloseStep ==
  ASSUME ClientInv, NEW s \in Sockets, OnClose(s)
  PROVE  ClientStepOK(FALSE)
<1>1. link[s].client \in {"connecting", "open", "closing"}
  BY DEF OnClose, CloseIsDue
<1>2. /\ link' \in Links /\ \A x \in Sockets : link'[x].server = link[x].server
      /\ \A x \in Sockets : link'[x].client = IF x = s THEN "closed" ELSE link[x].client
  <2>1. PICK l \in Links : l = link
    BY DEF ClientInv, ClientTypeOK
  <2>2. PICK u \in Seq(Message) : u = IF l[s].alive THEN l[s].up ELSE << >>
    BY EmptySeq DEF Links, LinkType
  <2>3. PICK v \in LinkType : v = [l[s] EXCEPT !.client = "closed", !.up = u]
    BY DEF Links, LinkType
  <2>4. v.client = "closed" /\ v.server = l[s].server
    BY <2>3 DEF Links, LinkType
  <2>5. link' = [l EXCEPT ![s] = v]
    BY <2>1, <2>2, <2>3 DEF OnClose
  <2> QED
    BY <2>1, <2>4, <2>5 DEF Links
<1> DEFINE closed == [client EXCEPT !.connectionTimer = FALSE, !.backoffResetTimer = FALSE,
                                    !.ws = NoSocket, !.heartbeat = "off",
                                    !.state = "disconnected"]
<1>3. PICK c \in ClientType : c = closed
  BY DEF ClientInv, ClientTypeOK, ClientType
<1>4. c.ws = NoSocket /\ c.state = "disconnected" /\ c.rooms = client.rooms
  BY <1>3 DEF ClientInv, ClientTypeOK, ClientType
<1>5. client' = c \/ client' = MaybeReconnect(c)
  BY <1>3 DEF OnClose
<1>6. /\ MaybeReconnect(c) \in ClientType /\ MaybeReconnect(c).ws = NoSocket
      /\ MaybeReconnect(c).state # "connected" /\ MaybeReconnect(c).rooms = client.rooms
  <2>1. PICK n \in Nat : n = c.attempts + 1
    BY DEF ClientType
  <2>2. MaybeReconnect(c) \in {c, [c EXCEPT !.deviceWentOffline = TRUE],
                               [c EXCEPT !.reconnecting = TRUE, !.state = "reconnecting",
                                         !.attempts = n, !.reconnectTimer = TRUE]}
    BY <2>1 DEF MaybeReconnect
  <2> QED
    BY <2>2, <1>4, ZenonT(30) DEF ClientType
<1>7. /\ client' \in ClientType /\ client'.ws = NoSocket /\ client'.state # "connected"
      /\ client'.rooms = client.rooms
  BY <1>4, <1>5, <1>6
<1>8. ClientTypeOK'
  BY <1>2, <1>7 DEF ClientInv, ClientTypeOK, OnClose
<1>9. OneSocket'
  <2>1. ~ overtaken =>
          /\ \A x \in Sockets : Live(x) => client.ws = x \/ link[x].client = "closing"
          /\ \A x, y \in Sockets : Live(x) /\ Live(y) => x = y
    BY DEF ClientInv, OneSocket
  <2>2. ~ overtaken => \A x \in Sockets : ~ Live(x)'
    BY <1>1, <1>2, <2>1 DEF Live
  <2> QED
    BY <1>7, <2>2 DEF OneSocket, OnClose
<1>10. Used' = Used
  BY <1>1, <1>2 DEF Used
<1> QED
  BY <1>2, <1>8, <1>9, <1>10 DEF ClientStepOK, ServerEndStays

\* What the client holds after disconnect().
LEMMA DisconnectedFields ==
  ASSUME ClientTypeOK
  PROVE  /\ Disconnected(client) \in ClientType
         /\ [Disconnected(client) EXCEPT !.listeners = FALSE] \in ClientType
         /\ Disconnected(client).ws = NoSocket /\ Disconnected(client).state = "disconnected"
         /\ Disconnected(client).rooms = client.rooms
BY DEF Disconnected, ClientTypeOK, ClientType

\* The client gives its socket up: it is closing, and the next one is the client's own.
LEMMA GivingUpStep ==
  ASSUME ClientInv, Spend, UNCHANGED <<online, overtaken>>, link' = Closing(link, client.ws),
         client' \in ClientType, client'.rooms = client.rooms,
         client'.ws = NoSocket, client'.state = "disconnected"
  PROVE  ClientStepOK(FALSE)
<1>1. ServerEndStays(link, link') /\ OnlyCloses
  BY ClosingStep DEF ClientInv
<1>2. ClientTypeOK'
  BY <1>1, SpendIsNat DEF ClientInv, ClientTypeOK, ServerEndStays
<1>3. Used' = Used
  BY <1>1 DEF OnlyCloses, Used
<1>4. \A x \in Sockets : Live(x)' <=> Live(x)
  BY <1>1 DEF OnlyCloses, Live
<1>5. ~ overtaken => \A x \in Sockets : Live(x) => link'[x].client = "closing"
  <2> SUFFICES ASSUME ~ overtaken, NEW x \in Sockets, Live(x)
               PROVE  link'[x].client = "closing"
    OBVIOUS
  <2>1. client.ws = x \/ link[x].client = "closing"
    BY DEF ClientInv, OneSocket
  <2>2. CASE link[x].client = "closing"
    BY <1>1, <2>2 DEF OnlyCloses
  <2>3. CASE client.ws = x /\ link[x].client # "closing"
    <3>1. PICK l \in Links : l = link
      BY DEF ClientInv, ClientTypeOK
    <3>2. PICK k : k = link'
      OBVIOUS
    <3>3. k = Closing(l, x) /\ l[x].client \in {"connecting", "open"}
      BY <2>3, <3>1, <3>2 DEF Live
    <3>4. k[x].client = "closing"
      BY <3>3, ClosingLink
    <3> QED
      BY <3>2, <3>4
  <2> QED
    BY <2>1, <2>2, <2>3
<1>6. OneSocket'
  BY <1>4, <1>5 DEF ClientInv, OneSocket
<1> QED
  BY <1>1, <1>2, <1>3, <1>6 DEF ClientStepOK

LEMMA TimerSteps ==
  ASSUME ClientInv
  PROVE  /\ ConnectionTimeout => ClientStepOK(FALSE)
         /\ BackoffReset => ClientStepOK(FALSE)
         /\ SendPing => ClientStepOK(FALSE)
         /\ HandlePongTimeout => ClientStepOK(FALSE)
         /\ \A s \in Sockets : HandlePong(s) => ClientStepOK(FALSE)
<1> USE DEF ClientInv, ClientTypeOK, ClientType
<1>1. ASSUME ConnectionTimeout PROVE ClientStepOK(FALSE)
  <2>1. link' = link \/ link' = Closing(link, client.ws)
    BY <1>1 DEF ConnectionTimeout
  <2>2. ServerEndStays(link, link') /\ OnlyCloses
    BY <2>1, ClosingStep, LinkStays
  <2>3. /\ Spend \/ UNCHANGED budget
        /\ client' = [client EXCEPT !.connectionTimer = FALSE] /\ UNCHANGED <<online, overtaken>>
    BY <1>1 DEF ConnectionTimeout
  <2> QED
    BY <2>2, <2>3, QuietFields
<1>2. ASSUME BackoffReset PROVE ClientStepOK(FALSE)
  <2>1. ServerEndStays(link, link') /\ OnlyCloses
    BY <1>2, LinkStays DEF BackoffReset
  <2>2. client' = [client EXCEPT !.backoffResetTimer = FALSE, !.attempts =
                     IF client.state = "connected" THEN 0 ELSE client.attempts]
        /\ UNCHANGED <<online, budget, overtaken>>
    BY <1>2 DEF BackoffReset
  <2> QED
    BY <2>1, <2>2, QuietFields
<1>3. ASSUME SendPing PROVE ClientStepOK(FALSE)
  <2>1. ServerEndStays(link, link') /\ OnlyCloses
    BY <1>3, LinkStays DEF SendPing
  <2> QED
    BY <1>3, <2>1, QuietFields DEF SendPing
<1>4. ASSUME HandlePongTimeout PROVE ClientStepOK(FALSE)
  <2>1. ServerEndStays(link, link') /\ OnlyCloses
    BY <1>4, ClosingStep DEF HandlePongTimeout
  <2>2. /\ Spend \/ UNCHANGED budget
        /\ client' = [client EXCEPT !.heartbeat = "on"] /\ UNCHANGED <<online, overtaken>>
    BY <1>4 DEF HandlePongTimeout
  <2> QED
    BY <2>1, <2>2, QuietFields
<1>5. ASSUME NEW s \in Sockets, HandlePong(s) PROVE ClientStepOK(FALSE)
  <2>1. ServerEndStays(link, link') /\ OnlyCloses
    BY <1>5, LinkStays DEF HandlePong
  <2> QED
    BY <1>5, <2>1, QuietFields DEF HandlePong
<1> QED
  BY <1>1, <1>2, <1>3, <1>4, <1>5

\* A connected client has a socket: nothing is buffered.
LEMMA ConnectedHasSocket ==
  ASSUME ClientInv, ~ overtaken, client.state = "connected"
  PROVE  client.ws # NoSocket
BY DEF ClientInv, OneSocket

\* Once overtaken, only the types are left to say.
LEMMA OvertakenFields ==
  ASSUME ClientInv, ServerEndStays(link, link'), OnlyCloses, Spend \/ UNCHANGED budget,
         overtaken' = overtaken, overtaken, online' \in BOOLEAN,
         client' \in ClientType, IsFiniteSet(client'.rooms)
  PROVE  ClientStepOK(FALSE)
<1>1. ClientTypeOK'
  BY SpendIsNat DEF ClientInv, ClientTypeOK, ServerEndStays
<1>2. Used' = Used
  BY DEF OnlyCloses, Used
<1> QED
  BY <1>1, <1>2 DEF ClientStepOK, OneSocket

LEMMA RoomMessageStep ==
  ASSUME ClientInv, NEW c \in ClientType, NEW m \in Message, Spend,
         IsFiniteSet(c.rooms), c = [client EXCEPT !.rooms = c.rooms], RoomMessage(c, m)
  PROVE  ClientStepOK(FALSE)
<1>1. c.ws = client.ws /\ c.state = client.state /\ c.heartbeat = client.heartbeat
      /\ c.sendBuffer = client.sendBuffer
  BY DEF ClientInv, ClientTypeOK, ClientType
<1>2. link' = link \/ link' = Sent(link, client.ws, <<m>>)
  BY <1>1 DEF RoomMessage
<1>3. ServerEndStays(link, link') /\ OnlyCloses
  BY <1>2, SendingStep, LinkStays DEF ClientInv
<1>4. UNCHANGED <<online, overtaken>> /\ online \in BOOLEAN /\ overtaken \in BOOLEAN
  BY DEF RoomMessage, ClientInv, ClientTypeOK
<1>5. CASE c.state = "connected" /\ c.ws = NoSocket
  <2>1. PICK n \in Nat : n = c.sendBuffer + 1
    BY DEF ClientType
  <2>2. client' = [c EXCEPT !.sendBuffer = n]
    BY <1>5, <2>1 DEF RoomMessage
  <2>3. client' \in ClientType /\ client'.rooms = c.rooms
    BY <2>2 DEF ClientType
  <2>4. overtaken
    BY <1>1, <1>5, ConnectedHasSocket, <1>4
  <2> QED
    BY <1>3, <1>4, <2>3, <2>4, OvertakenFields
<1>6. CASE ~ (c.state = "connected" /\ c.ws = NoSocket)
  <2>1. client' = c
    BY <1>6 DEF RoomMessage
  <2> QED
    BY <1>1, <1>3, <1>4, <2>1, QuietFields
<1> QED
  BY <1>5, <1>6

LEMMA CallSteps ==
  ASSUME ClientInv
  PROVE  /\ Send => ClientStepOK(FALSE)
         /\ ClearRooms => ClientStepOK(FALSE)
         /\ Disconnect => ClientStepOK(FALSE)
         /\ Destroy => ClientStepOK(FALSE)
         /\ \A r \in Rooms : JoinRoom(r) \/ LeaveRoom(r) => ClientStepOK(FALSE)
<1>1. ASSUME Send PROVE ClientStepOK(FALSE)
  <2>1. CASE HasSocket
    <3>1. link' = Sent(link, client.ws, <<App>>) /\ client' = client
      BY <1>1, <2>1 DEF Send
    <3>2. ServerEndStays(link, link') /\ OnlyCloses
      BY <3>1, SendingStep DEF ClientInv, Message
    <3> QED
      BY <1>1, <3>1, <3>2, QuietFields DEF Send, ClientInv, ClientTypeOK
  <2>2. CASE ~ HasSocket
    <3>1. PICK n \in Nat : n = client.sendBuffer + 1
      BY DEF ClientInv, ClientTypeOK, ClientType
    <3>2. client' = [client EXCEPT !.sendBuffer = n] /\ link' = link
          /\ UNCHANGED <<online, overtaken>> /\ Spend
      BY <1>1, <2>2, <3>1 DEF Send
    <3>3. ServerEndStays(link, link') /\ OnlyCloses
      BY <3>2, LinkStays DEF ClientInv
    <3>4. /\ client' \in ClientType /\ client'.rooms = client.rooms /\ client'.ws = client.ws
          /\ client'.state = client.state
      BY <3>2 DEF ClientInv, ClientTypeOK, ClientType
    <3>5. CASE overtaken
      BY <3>2, <3>3, <3>4, <3>5, OvertakenFields DEF ClientInv, ClientTypeOK
    <3>6. CASE ~ overtaken
      <4>1. client.state # "connected"
        BY <2>2, <3>6, ConnectedHasSocket DEF HasSocket
      <4> QED
        BY <3>2, <3>3, <3>4, <4>1, QuietFields DEF ClientInv, ClientTypeOK
    <3> QED
      BY <3>5, <3>6
  <2> QED
    BY <2>1, <2>2
<1>2. ASSUME ClearRooms PROVE ClientStepOK(FALSE)
  <2>1. ServerEndStays(link, link') /\ OnlyCloses
    BY <1>2, LinkStays DEF ClearRooms, ClientInv
  <2>2. client' = [client EXCEPT !.rooms = {}] /\ Spend /\ UNCHANGED <<online, overtaken>>
    BY <1>2 DEF ClearRooms
  <2>3. /\ client' \in ClientType /\ client'.rooms = {} /\ client'.ws = client.ws
        /\ client'.state = client.state /\ client'.heartbeat = client.heartbeat
        /\ client'.sendBuffer = client.sendBuffer
    BY <2>2 DEF ClientInv, ClientTypeOK, ClientType
  <2> QED
    BY <2>1, <2>2, <2>3, FS_EmptySet, QuietFields DEF ClientInv, ClientTypeOK
<1>3. ASSUME Disconnect PROVE ClientStepOK(FALSE)
  <2>1. client' = Disconnected(client)
    BY <1>3 DEF Disconnect
  <2>2. /\ client' \in ClientType /\ client'.rooms = client.rooms
        /\ client'.ws = NoSocket /\ client'.state = "disconnected"
    BY <2>1, DisconnectedFields DEF ClientInv
  <2> QED
    BY <1>3, <2>2, GivingUpStep DEF Disconnect
<1>4. ASSUME Destroy PROVE ClientStepOK(FALSE)
  <2>1. PICK c \in ClientType : c = Disconnected(client)
    BY DisconnectedFields DEF ClientInv
  <2>2. client' = [c EXCEPT !.listeners = FALSE]
    BY <1>4, <2>1 DEF Destroy
  <2>3. /\ client' \in ClientType /\ client'.rooms = client.rooms
        /\ client'.ws = NoSocket /\ client'.state = "disconnected"
    BY <2>1, <2>2, DisconnectedFields DEF ClientInv, ClientType
  <2> QED
    BY <1>4, <2>3, GivingUpStep DEF Destroy
<1>5. ASSUME NEW r \in Rooms, JoinRoom(r) \/ LeaveRoom(r) PROVE ClientStepOK(FALSE)
  <2> DEFINE more == [client EXCEPT !.rooms = client.rooms \union {r}]
             less == [client EXCEPT !.rooms = client.rooms \ {r}]
  <2>1. /\ more \in ClientType /\ more.rooms = client.rooms \union {r}
        /\ less \in ClientType /\ less.rooms = client.rooms \ {r}
    BY DEF ClientInv, ClientTypeOK, ClientType
  <2>2. IsFiniteSet(client.rooms \union {r}) /\ IsFiniteSet(client.rooms \ {r})
    BY FS_AddElement, FS_RemoveElement DEF ClientInv, ClientTypeOK
  <2>3. PICK c \in ClientType : c = more
    BY <2>1
  <2>4. PICK d \in ClientType : d = less
    BY <2>1
  <2>5. Join(r) \in Message /\ Leave(r) \in Message
    BY DEF Join, Leave, Message
  <2>6. CASE JoinRoom(r)
    <3>1. RoomMessage(c, Join(r)) /\ Spend
      BY <2>3, <2>6 DEF JoinRoom
    <3>2. c = [client EXCEPT !.rooms = c.rooms] /\ IsFiniteSet(c.rooms)
      BY <2>1, <2>2, <2>3
    <3> QED
      BY <2>5, <3>1, <3>2, RoomMessageStep
  <2>7. CASE LeaveRoom(r)
    <3>1. RoomMessage(d, Leave(r)) /\ Spend
      BY <2>4, <2>7 DEF LeaveRoom
    <3>2. d = [client EXCEPT !.rooms = d.rooms] /\ IsFiniteSet(d.rooms)
      BY <2>1, <2>2, <2>4
    <3> QED
      BY <2>5, <3>1, <3>2, RoomMessageStep
  <2> QED
    BY <1>5, <2>6, <2>7
<1> QED
  BY <1>1, <1>2, <1>3, <1>4, <1>5

\* What a timer or a browser event has done to the client before it calls connect(): only
\* flags that no invariant is about.
Prepared(c) ==
  /\ c \in ClientType /\ c.rooms = client.rooms /\ c.ws = client.ws /\ c.state = client.state
  /\ c.heartbeat = client.heartbeat /\ c.sendBuffer = client.sendBuffer

LEMMA PreparedConnecting ==
  ASSUME ClientInv, NEW c, Prepared(c), online' \in BOOLEAN, budget' \in Nat, Connecting(c)
  PROVE  ClientStepOK(TRUE)
BY ConnectingStep DEF Prepared, ClientInv, ClientTypeOK

LEMMA PreparedStays ==
  ASSUME ClientInv, NEW c, Prepared(c), online' \in BOOLEAN, Spend \/ UNCHANGED budget,
         client' = c, UNCHANGED <<link, overtaken>>
  PROVE  ClientStepOK(FALSE)
<1>1. ServerEndStays(link, link') /\ OnlyCloses
  BY LinkStays DEF ClientInv
<1> QED
  BY <1>1, QuietFields DEF Prepared, ClientInv, ClientTypeOK

LEMMA ConnectStep ==
  ASSUME ClientInv, Connect
  PROVE  ClientStepOK(TRUE)
<1>1. Prepared(client)
  BY DEF Prepared, ClientInv, ClientTypeOK
<1>2. Connecting(client) /\ online' \in BOOLEAN /\ budget' \in Nat
  BY SpendIsNat DEF Connect, ClientInv, ClientTypeOK
<1> QED
  BY <1>1, <1>2, PreparedConnecting

LEMMA ReconnectTimerStep ==
  ASSUME ClientInv, ReconnectTimer
  PROVE  ClientStepOK(~ client.skipReconnect)
<1> DEFINE c == [client EXCEPT !.reconnectTimer = FALSE, !.reconnecting = FALSE]
<1>1. Prepared(c) /\ c.skipReconnect = client.skipReconnect
  BY DEF Prepared, ClientInv, ClientTypeOK, ClientType
<1>2. online' \in BOOLEAN /\ budget' = budget /\ budget' \in Nat
  BY DEF ReconnectTimer, ClientInv, ClientTypeOK
<1>3. \/ client' = c /\ UNCHANGED <<link, overtaken>>
      \/ ~ c.skipReconnect /\ Connecting(c)
  BY DEF ReconnectTimer
<1> HIDE DEF c
<1> QED
  BY <1>1, <1>2, <1>3, PreparedConnecting, PreparedStays DEF ClientStepOK

LEMMA OnlineStep ==
  ASSUME ClientInv, Online
  PROVE  ClientStepOK(~ client.skipReconnect)
<1> DEFINE c == [client EXCEPT !.deviceWentOffline = FALSE, !.reconnectTimer = FALSE]
           d == [c EXCEPT !.reconnecting = FALSE]
<1>1. Prepared(c) /\ Prepared(d) /\ Prepared(client)
  BY DEF Prepared, ClientInv, ClientTypeOK, ClientType
<1>2. online' \in BOOLEAN /\ budget' = budget /\ budget' \in Nat
  BY DEF Online, ClientInv, ClientTypeOK
<1>3. \/ client' = c /\ UNCHANGED <<link, overtaken>>
      \/ client' = client /\ UNCHANGED <<link, overtaken>>
      \/ ~ client.skipReconnect /\ Connecting(d)
  BY DEF Online
<1> HIDE DEF c, d
<1> QED
  BY <1>1, <1>2, <1>3, PreparedConnecting, PreparedStays DEF ClientStepOK

LEMMA ShowStep ==
  ASSUME ClientInv, Show
  PROVE  ClientStepOK(~ client.skipReconnect)
<1> DEFINE c == [client EXCEPT !.pageHidden = FALSE]
           d == [c EXCEPT !.reconnectTimer = FALSE, !.reconnecting = FALSE]
<1>1. Prepared(c) /\ Prepared(d) /\ c.skipReconnect = client.skipReconnect
  BY DEF Prepared, ClientInv, ClientTypeOK, ClientType
<1>2. online' \in BOOLEAN /\ budget' = budget /\ budget' \in Nat
  BY DEF Show, ClientInv, ClientTypeOK
<1>3. \/ client' = c /\ UNCHANGED <<link, overtaken>>
      \/ ~ c.skipReconnect /\ Connecting(d)
  BY DEF Show
<1> HIDE DEF c, d
<1> QED
  BY <1>1, <1>2, <1>3, PreparedConnecting, PreparedStays DEF ClientStepOK

LEMMA HideStep ==
  ASSUME ClientInv, Hide
  PROVE  ClientStepOK(FALSE)
<1> DEFINE c == [client EXCEPT !.pageHidden = TRUE]
<1>1. Prepared(c)
  BY DEF Prepared, ClientInv, ClientTypeOK, ClientType
<1>2. /\ client' = c /\ UNCHANGED <<link, overtaken>> /\ Spend /\ online' \in BOOLEAN
  BY DEF Hide, ClientInv, ClientTypeOK
<1> HIDE DEF c
<1> QED
  BY <1>1, <1>2, PreparedStays

LEMMA OfflineStep ==
  ASSUME ClientInv, Offline
  PROVE  ClientStepOK(FALSE)
<1>1. PICK l \in Links : l = link
  BY DEF ClientInv, ClientTypeOK
<1>2. PICK w \in Sockets \union {NoSocket} : w = client.ws
  BY DEF ClientInv, ClientTypeOK, ClientType
<1>3. PICK k : k = link'
  OBVIOUS
<1>4. PICK m : m = Closing(l, w)
  OBVIOUS
<1>5. /\ ServerEndStays(l, m)
      /\ \A x \in Sockets : m[x].client =
           IF x = w /\ l[x].client \in {"connecting", "open"} THEN "closing" ELSE l[x].client
  BY <1>4, ClosingLink
<1>6. PICK n \in Links : (n = l \/ n = m) /\ k = Severed(n)
  BY <1>1, <1>2, <1>3, <1>4, <1>5 DEF Offline, ServerEndStays
<1>7. ServerEndStays(n, k) /\ \A x \in Sockets : k[x].client = n[x].client
  BY <1>6, SeveredLink
<1>8. ServerEndStays(link, link') /\ OnlyCloses
  BY <1>1, <1>3, <1>5, <1>6, <1>7 DEF ServerEndStays, OnlyCloses
<1>9. client' = client \/ client' = [client EXCEPT !.deviceWentOffline = TRUE]
  BY DEF Offline
<1>10. Prepared(client')
  BY <1>9 DEF Prepared, ClientInv, ClientTypeOK, ClientType
<1>11. online' \in BOOLEAN /\ Spend /\ overtaken' = overtaken
  BY DEF Offline
<1> QED
  BY <1>8, <1>10, <1>11, QuietFields DEF Prepared, ClientInv, ClientTypeOK

LEMMA BreakStep ==
  ASSUME ClientInv, NEW s \in Sockets, Break(s)
  PROVE  ClientStepOK(FALSE)
<1>1. PICK l \in Links : l = link
  BY DEF ClientInv, ClientTypeOK
<1>2. PICK v \in LinkType : v = [l[s] EXCEPT !.alive = FALSE]
  BY DEF Links, LinkType
<1>3. v.client = l[s].client /\ v.server = l[s].server
  BY <1>2 DEF Links, LinkType
<1>4. link' = [l EXCEPT ![s] = v]
  BY <1>1, <1>2 DEF Break
<1>5. ServerEndStays(link, link') /\ OnlyCloses
  BY <1>1, <1>3, <1>4 DEF ServerEndStays, OnlyCloses, Links
<1> QED
  BY <1>5, QuietFields DEF Break, ClientInv, ClientTypeOK

\* Every step of the client keeps the invariant, leaves the server's end of the link alone,
\* and opens a socket after disconnect() only if it is connect().
LEMMA ClientNextStep ==
  ASSUME ClientInv, ClientNext
  PROVE  ClientStepOK(Connect \/ ~ client.skipReconnect)
<1>1. CASE Connect
  BY <1>1, ConnectStep DEF ClientStepOK
<1>2. CASE ReconnectTimer \/ Online \/ Show
  BY <1>2, ReconnectTimerStep, OnlineStep, ShowStep DEF ClientStepOK
<1>3. CASE Disconnect \/ Destroy \/ Send \/ ClearRooms
  BY <1>3, CallSteps DEF ClientStepOK
<1>4. CASE ConnectionTimeout \/ BackoffReset \/ SendPing \/ HandlePongTimeout
  BY <1>4, TimerSteps DEF ClientStepOK
<1>5. CASE Offline \/ Hide
  BY <1>5, OfflineStep, HideStep DEF ClientStepOK
<1>6. CASE \E s \in Sockets : OnOpen(s) \/ OnClose(s) \/ HandlePong(s) \/ Break(s)
  BY <1>6, OnOpenStep, OnCloseStep, TimerSteps, BreakStep DEF ClientStepOK
<1>7. CASE \E r \in Rooms : JoinRoom(r) \/ LeaveRoom(r)
  BY <1>7, CallSteps DEF ClientStepOK
<1> QED
  BY <1>1, <1>2, <1>3, <1>4, <1>5, <1>6, <1>7 DEF ClientNext

\* A step in which the client's fields are left alone and the link keeps the client's states.
LEMMA ServerSideStep ==
  ASSUME ClientInv, link' \in Links, \A x \in Sockets : link'[x].client = link[x].client,
         UNCHANGED <<client, online, overtaken>>, Spend \/ UNCHANGED budget
  PROVE  ClientInv' /\ Used' = Used
<1>1. ClientTypeOK'
  BY SpendIsNat DEF ClientInv, ClientTypeOK
<1>2. \A x \in Sockets : Live(x)' <=> Live(x)
  BY DEF Live
<1>3. client.ws \in Sockets \union {NoSocket}
  BY DEF ClientInv, ClientTypeOK, ClientType
<1>4. OneSocket'
  <2> SUFFICES ASSUME ~ overtaken'
               PROVE  /\ \A s \in Sockets : Live(s)' => client'.ws = s \/ link'[s].client = "closing"
                      /\ \A s, t \in Sockets : Live(s)' /\ Live(t)' => s = t
                      /\ client'.ws # NoSocket => Live(client.ws)'
                      /\ client'.state = "connected" =>
                           /\ client'.ws # NoSocket /\ link'[client'.ws].client \in {"open", "closing"}
                           /\ client'.heartbeat # "off" /\ client'.sendBuffer = 0
    BY DEF OneSocket
  <2>1. /\ \A s \in Sockets : Live(s) => client.ws = s \/ link[s].client = "closing"
        /\ \A s, t \in Sockets : Live(s) /\ Live(t) => s = t
        /\ client.ws # NoSocket => Live(client.ws)
        /\ client.state = "connected" =>
             /\ client.ws # NoSocket /\ link[client.ws].client \in {"open", "closing"}
             /\ client.heartbeat # "off" /\ client.sendBuffer = 0
    BY DEF ClientInv, OneSocket
  <2> QED
    BY <1>2, <1>3, <2>1
<1>5. Used' = Used
  BY DEF Used
<1> QED
  BY <1>1, <1>4, <1>5 DEF ClientInv

-----------------------------------------------------------------------------
(* The server.  What is said of the books is said of any books b, so that the parts of a   *)
(* step can be followed one after the other.                                               *)

\* The provider and socket s agree on its topics, and it has some only while the coordinator
\* knows it.  A room message is in a handler only if room messages are routed.
AgreesFor(b, routed, s) ==
  /\ b.provider.socketTopics[s] = b.server[s].topics
  /\ s \in b.provider.connectedSockets <=> b.server[s].topics # {}
  /\ b.server[s].topics # {} => b.server[s].connected
  /\ IsFiniteSet(b.server[s].topics)
  /\ ~ routed => b.server[s].topics = b.server[s].native
  /\ \A m \in b.server[s].handlers : m.type # "app" => routed

\* The coordinator, the provider and the sockets agree.
Agree(b, routed) ==
  /\ b \in BooksType
  /\ \A t \in Topics : /\ b.subscriptions[t] = {s \in Sockets : t \in b.server[s].topics}
                       /\ b.provider.localSubscriptions[t] = b.subscriptions[t]
  /\ \A s \in Sockets : AgreesFor(b, routed, s)

\* What GuardedFirst says of socket s.
Guarded(b, routers, s) ==
  routers /\ b.server[s].guards # "passed" =>
    /\ Broadcast \notin b.server[s].topics /\ Broadcast \notin b.server[s].native
    /\ b.server[s].handlers = {} /\ ~ b.server[s].state

\* What the state of the link at the server's end says of socket s.
AtEnd(b, end, s) ==
  /\ end = "none" =>
       /\ ~ b.server[s].connected /\ ~ b.server[s].state /\ b.server[s].guards = "none"
       /\ b.server[s].topics = {} /\ b.server[s].native = {} /\ b.server[s].handlers = {}
  /\ end = "closed" =>
       /\ ~ b.server[s].connected /\ b.server[s].topics = {} /\ b.server[s].native = {}
       /\ b.server[s].state => b.server[s].guards = "passed"

SetupType == [routers : BOOLEAN, roomsRouted : BOOLEAN]

ServerInv ==
  /\ setup \in SetupType /\ (setup.roomsRouted => setup.routers)
  /\ mishandled \in SUBSET Sockets
  /\ Agree(Books, setup.roomsRouted)
  /\ \A s \in Sockets : /\ Guarded(Books, setup.routers, s)
                        /\ AtEnd(Books, link[s].server, s)

LEMMA OthersAgree ==
  ASSUME NEW b, NEW routed \in BOOLEAN, Agree(b, routed), NEW s \in Sockets,
         NEW c, SameForOthers(b, c, s), AgreesFor(c, routed, s)
  PROVE  \A x \in Sockets : AgreesFor(c, routed, x)
<1> TAKE x \in Sockets
<1>1. CASE x = s
  BY <1>1
<1>2. CASE x # s
  <2>1. AgreesFor(b, routed, x)
    BY DEF Agree, AgreesFor
  <2>2. /\ c.server[x] = b.server[x]
        /\ c.provider.socketTopics[x] = b.provider.socketTopics[x]
        /\ x \in c.provider.connectedSockets <=> x \in b.provider.connectedSockets
    BY <1>2 DEF SameForOthers
  <2> QED
    BY <2>1, <2>2 DEF AgreesFor
<1> QED
  BY <1>1, <1>2

LEMMA SubscribeKeeps ==
  ASSUME NEW b, NEW routed \in BOOLEAN, Agree(b, routed), NEW s \in Sockets, NEW t \in Topics,
         NEW c, c = SubscribeToTopic(b, s, t)
  PROVE  Agree(c, routed) /\ (c = b \/ Adds(b, s, t, c))
<1>1. CASE ~ b.server[s].connected \/ s \in b.subscriptions[t]
  BY <1>1 DEF SubscribeToTopic
<1>2. CASE ~ (~ b.server[s].connected \/ s \in b.subscriptions[t])
  <2>1. Adds(b, s, t, c)
    BY <1>2, SubscribeToTopicEffect DEF Agree
  <2>2. c \in BooksType /\ SameForOthers(b, c, s)
    BY <2>1 DEF Adds
  <2>3. /\ c.server[s].connected
        /\ c.server[s].topics = b.server[s].topics \union {t}
        /\ c.server[s].native = b.server[s].native \union {t}
        /\ c.provider.socketTopics[s] = b.provider.socketTopics[s] \union {t}
        /\ c.provider.connectedSockets = b.provider.connectedSockets \union {s}
        /\ c.server[s].handlers = b.server[s].handlers
    BY <2>1 DEF Adds, SameForOthers
  <2>4. \A x \in Sockets \ {s} : /\ c.server[x] = b.server[x]
                                 /\ c.provider.socketTopics[x] = b.provider.socketTopics[x]
    BY <2>2 DEF SameForOthers
  <2>5. \A u \in Topics :
          /\ c.subscriptions[u] = IF u = t THEN b.subscriptions[u] \union {s}
                                  ELSE b.subscriptions[u]
          /\ c.provider.localSubscriptions[u] =
               IF u = t THEN b.provider.localSubscriptions[u] \union {s}
               ELSE b.provider.localSubscriptions[u]
    BY <2>1 DEF Adds
  <2>6. \A u \in Topics : /\ c.subscriptions[u] = {x \in Sockets : u \in c.server[x].topics}
                          /\ c.provider.localSubscriptions[u] = c.subscriptions[u]
    <3> TAKE u \in Topics
    <3>1. /\ b.subscriptions[u] = {x \in Sockets : u \in b.server[x].topics}
          /\ b.provider.localSubscriptions[u] = b.subscriptions[u]
      BY DEF Agree
    <3>2. \A x \in Sockets : u \in c.server[x].topics <=>
                               u \in b.server[x].topics \/ (x = s /\ u = t)
      BY <2>3, <2>4
    <3> QED
      BY <2>5, <3>1, <3>2
  <2>7. IsFiniteSet(c.server[s].topics)
    BY <2>3, FS_AddElement DEF Agree, AgreesFor
  <2>8. AgreesFor(c, routed, s)
    <3>1. AgreesFor(b, routed, s)
      BY DEF Agree, AgreesFor
    <3> QED
      BY <2>3, <2>7, <3>1 DEF AgreesFor
  <2>9. \A x \in Sockets : AgreesFor(c, routed, x)
    BY <2>2, <2>8, OthersAgree
  <2> QED
    BY <2>1, <2>2, <2>6, <2>9 DEF Agree, AgreesFor
<1> QED
  BY <1>1, <1>2

LEMMA UnsubscribeKeeps ==
  ASSUME NEW b, NEW routed \in BOOLEAN, Agree(b, routed), NEW s \in Sockets, NEW t \in Topics,
         NEW c, c = UnsubscribeFromTopic(b, s, t)
  PROVE  Agree(c, routed) /\ (c = b \/ Drops(b, s, t, c))
<1>1. CASE ~ b.server[s].connected
  BY <1>1 DEF UnsubscribeFromTopic
<1>2. CASE b.server[s].connected
  <2>1. Drops(b, s, t, c)
    BY <1>2, UnsubscribeEffect DEF Agree
  <2>2. c \in BooksType /\ SameForOthers(b, c, s)
    BY <2>1 DEF Drops
  <2>3. /\ c.server[s].connected
        /\ c.server[s].topics = b.server[s].topics \ {t}
        /\ c.server[s].native = b.server[s].native \ {t}
        /\ c.provider.socketTopics[s] = b.provider.socketTopics[s] \ {t}
        /\ c.provider.connectedSockets =
             IF b.provider.socketTopics[s] # {} /\ b.provider.socketTopics[s] \subseteq {t}
             THEN b.provider.connectedSockets \ {s} ELSE b.provider.connectedSockets
        /\ c.server[s].handlers = b.server[s].handlers
    BY <2>1 DEF Drops, SameForOthers
  <2>4. \A x \in Sockets \ {s} : /\ c.server[x] = b.server[x]
                                 /\ c.provider.socketTopics[x] = b.provider.socketTopics[x]
    BY <2>2 DEF SameForOthers
  <2>5. \A u \in Topics :
          /\ c.subscriptions[u] = IF u = t THEN b.subscriptions[u] \ {s}
                                  ELSE b.subscriptions[u]
          /\ c.provider.localSubscriptions[u] =
               IF u = t THEN b.provider.localSubscriptions[u] \ {s}
               ELSE b.provider.localSubscriptions[u]
    BY <2>1 DEF Drops
  <2>6. \A u \in Topics : /\ c.subscriptions[u] = {x \in Sockets : u \in c.server[x].topics}
                          /\ c.provider.localSubscriptions[u] = c.subscriptions[u]
    <3> TAKE u \in Topics
    <3>1. /\ b.subscriptions[u] = {x \in Sockets : u \in b.server[x].topics}
          /\ b.provider.localSubscriptions[u] = b.subscriptions[u]
      BY DEF Agree
    <3>2. \A x \in Sockets : u \in c.server[x].topics <=>
                               u \in b.server[x].topics /\ ~ (x = s /\ u = t)
      BY <2>3, <2>4
    <3> QED
      BY <2>5, <3>1, <3>2, ZenonT(30)
  <2>7. IsFiniteSet(c.server[s].topics)
    BY <2>3, FS_RemoveElement DEF Agree, AgreesFor
  <2>8. s \in c.provider.connectedSockets <=> c.server[s].topics # {}
    <3>1. /\ b.provider.socketTopics[s] = b.server[s].topics
          /\ s \in b.provider.connectedSockets <=> b.server[s].topics # {}
      BY DEF Agree, AgreesFor
    <3>2. b.server[s].topics \ {t} = {} <=> b.server[s].topics \subseteq {t}
      OBVIOUS
    <3> QED
      BY <2>3, <3>1, <3>2
  <2>9. AgreesFor(c, routed, s)
    <3>1. AgreesFor(b, routed, s)
      BY DEF Agree, AgreesFor
    <3> QED
      BY <2>3, <2>7, <2>8, <3>1 DEF AgreesFor
  <2>10. \A x \in Sockets : AgreesFor(c, routed, x)
    BY <2>2, <2>9, OthersAgree
  <2> QED
    BY <2>1, <2>2, <2>6, <2>10 DEF Agree, AgreesFor
<1> QED
  BY <1>1, <1>2

\* Books that differ only in what they say of socket s, but not in its topics.
OneSocketChanged(b, s, v, c) ==
  /\ c.subscriptions = b.subscriptions /\ c.provider = b.provider
  /\ c.server = [b.server EXCEPT ![s] = v]
  /\ c = [server |-> c.server, subscriptions |-> c.subscriptions, provider |-> c.provider]

LEMMA ChangeKeeps ==
  ASSUME NEW b, NEW routed \in BOOLEAN, Agree(b, routed), NEW s \in Sockets,
         NEW v \in SocketType, v.topics = b.server[s].topics,
         v.topics # {} => v.connected, ~ routed => v.topics = v.native,
         \A m \in v.handlers : m.type # "app" => routed,
         NEW c, OneSocketChanged(b, s, v, c)
  PROVE  /\ Agree(c, routed) /\ c.server[s] = v
         /\ \A x \in Sockets \ {s} : c.server[x] = b.server[x]
<1>1. b \in BooksType /\ b.server \in [Sockets -> SocketType]
  BY DEF Agree, BooksType
<1>2. /\ c.server \in [Sockets -> SocketType]
      /\ \A x \in Sockets : c.server[x] = IF x = s THEN v ELSE b.server[x]
  BY <1>1 DEF OneSocketChanged
<1>3. c \in BooksType
  BY <1>1, <1>2 DEF OneSocketChanged, BooksType
<1>4. \A u \in Topics : /\ c.subscriptions[u] = {x \in Sockets : u \in c.server[x].topics}
                        /\ c.provider.localSubscriptions[u] = c.subscriptions[u]
  BY <1>2 DEF OneSocketChanged, Agree
<1>5. \A x \in Sockets :
        /\ c.provider.socketTopics[x] = c.server[x].topics
        /\ x \in c.provider.connectedSockets <=> c.server[x].topics # {}
        /\ c.server[x].topics # {} => c.server[x].connected
        /\ IsFiniteSet(c.server[x].topics)
        /\ ~ routed => c.server[x].topics = c.server[x].native
        /\ \A m \in c.server[x].handlers : m.type # "app" => routed
  BY <1>2 DEF OneSocketChanged, Agree, AgreesFor
<1> QED
  BY <1>2, <1>3, <1>4, <1>5 DEF Agree, AgreesFor

LEMMA RemoveKeeps ==
  ASSUME NEW b, NEW routed \in BOOLEAN, Agree(b, routed), NEW s \in Sockets,
         NEW d, d = RemoveConnection(b, s)
  PROVE  /\ Agree(d, routed) /\ Removed(b, s, d)
<1>1. Removed(b, s, d)
  BY RemoveConnectionEffect DEF Agree, AgreesFor
<1>2. d \in BooksType /\ SameForOthers(b, d, s)
  BY <1>1 DEF Removed
<1>3. /\ ~ d.server[s].connected
      /\ d.server[s].topics = {} /\ d.server[s].native = {}
      /\ d.provider.socketTopics[s] = {} /\ s \notin d.provider.connectedSockets
      /\ d.server[s].handlers = b.server[s].handlers
  BY <1>1 DEF Removed, SameForOthers
<1>4. /\ \A x \in Sockets \ {s} : /\ d.server[x] = b.server[x]
                                  /\ d.provider.socketTopics[x] = b.provider.socketTopics[x]
      /\ d.provider.connectedSockets \ {s} = b.provider.connectedSockets \ {s}
  BY <1>2 DEF SameForOthers
<1>5. \A u \in Topics :
        /\ d.subscriptions[u] = IF u \in b.server[s].topics THEN b.subscriptions[u] \ {s}
                                ELSE b.subscriptions[u]
        /\ d.provider.localSubscriptions[u] =
             IF u \in b.server[s].topics THEN b.provider.localSubscriptions[u] \ {s}
             ELSE b.provider.localSubscriptions[u]
  BY <1>1 DEF Removed
<1>6. \A u \in Topics : /\ d.subscriptions[u] = {x \in Sockets : u \in d.server[x].topics}
                        /\ d.provider.localSubscriptions[u] = d.subscriptions[u]
  <2> TAKE u \in Topics
  <2>1. /\ b.subscriptions[u] = {x \in Sockets : u \in b.server[x].topics}
        /\ b.provider.localSubscriptions[u] = b.subscriptions[u]
    BY DEF Agree
  <2>2. \A x \in Sockets : u \in d.server[x].topics <=> u \in b.server[x].topics /\ x # s
    BY <1>3, <1>4
  <2> QED
    BY <1>5, <2>1, <2>2, ZenonT(30)
<1>7. AgreesFor(d, routed, s)
  <2>1. AgreesFor(b, routed, s)
    BY DEF Agree, AgreesFor
  <2> QED
    BY <1>3, <2>1, FS_EmptySet DEF AgreesFor
<1>8. \A x \in Sockets : AgreesFor(d, routed, x)
  BY <1>2, <1>7, OthersAgree
<1> QED
  BY <1>1, <1>2, <1>6, <1>8 DEF Agree, AgreesFor

LEMMA SetBooksSets ==
  ASSUME NEW c \in BooksType, SetBooks(c)
  PROVE  Books' = c
BY DEF SetBooks, Books, BooksType

LEMMA BooksFields ==
  ASSUME ServerInv
  PROVE  /\ Books.server = server /\ Books.subscriptions = topicSubscriptions
         /\ Books.provider = provider /\ Books \in BooksType
         /\ server \in [Sockets -> SocketType]
BY DEF ServerInv, Agree, Books, BooksType

\* What has to be seen of a step of the server for socket s.
LEMMA ServerInvKept ==
  ASSUME ServerInv, UNCHANGED setup, mishandled' \in SUBSET Sockets, NEW s \in Sockets,
         NEW c, Books' = c, Agree(c, setup.roomsRouted),
         \A x \in Sockets \ {s} : /\ c.server[x] = server[x]
                                  /\ link'[x].server = link[x].server,
         Guarded(c, setup.routers, s), AtEnd(c, link'[s].server, s)
  PROVE  ServerInv'
<1>1. \A x \in Sockets \ {s} : /\ Guarded(Books, setup.routers, x)
                               /\ AtEnd(Books, link[x].server, x)
                               /\ Books.server[x] = c.server[x]
  BY BooksFields DEF ServerInv
<1>2. \A x \in Sockets : Guarded(c, setup.routers, x) /\ AtEnd(c, link'[x].server, x)
  <2> TAKE x \in Sockets
  <2>1. CASE x = s
    BY <2>1
  <2>2. CASE x # s
    BY <1>1, <2>2 DEF Guarded, AtEnd
  <2> QED
    BY <2>1, <2>2
<1> QED
  BY <1>2 DEF ServerInv

\* The server does to the link what happens at its own end of one socket, which is then end.
LinkAt(s, end) ==
  /\ link' \in Links /\ link'[s].server = end
  /\ \A x \in Sockets : /\ link'[x].client = link[x].client
                        /\ x # s => link'[x].server = link[x].server

LEMMA ServerLink ==
  ASSUME link \in Links, NEW s \in Sockets
  PROVE  /\ Open(s) => LinkAt(s, "open")
         /\ GuardsPass(s) \/ HandlerEnds(s) => LinkAt(s, link[s].server)
         /\ Receive(s) => LinkAt(s, link[s].server) /\ link[s].server = "open"
         /\ ServerClose(s) => LinkAt(s, "closed")
         /\ Refuse(s) => LinkAt(s, "closed") /\ link[s].server = "none"
         /\ Hangup(s) => LinkAt(s, "closing")
         /\ GuardsReject(s) => \/ LinkAt(s, link[s].server)
                               \/ link[s].server = "open" /\ LinkAt(s, "closing")
<1>1. PICK l \in Links : l = link
  OBVIOUS
<1>2. PICK v \in LinkType : v = l[s]
  BY DEF Links
<1>3. \A w \in LinkType : w.client = v.client /\ link' = [l EXCEPT ![s] = w]
                            => LinkAt(s, w.server)
  BY <1>1, <1>2 DEF Links, LinkAt
<1>0. link' = link => LinkAt(s, link[s].server)
  BY DEF LinkAt
<1>4. ASSUME Open(s) PROVE LinkAt(s, "open")
  <2>1. PICK w \in LinkType : w = [v EXCEPT !.server = "open"]
    BY DEF LinkType
  <2>2. link' = [l EXCEPT ![s] = w] /\ w.client = v.client /\ w.server = "open"
    BY <1>1, <1>2, <1>4, <2>1 DEF Open, LinkType
  <2> QED
    BY <1>3, <2>2
<1>5. ASSUME GuardsPass(s) \/ HandlerEnds(s) PROVE LinkAt(s, link[s].server)
  BY <1>0, <1>5 DEF GuardsPass, HandlerEnds
<1>6. ASSUME Receive(s) PROVE LinkAt(s, link[s].server) /\ link[s].server = "open"
  <2>1. v.up \in Seq(Message) /\ v.up # << >> /\ v.server = "open"
    BY <1>1, <1>2, <1>6 DEF Receive, Received, LinkType
  <2>2. PICK q \in Seq(Message) : q = Tail(v.up)
    BY <2>1, HeadTailProperties
  <2>3. PICK w \in LinkType : w = [v EXCEPT !.up = q]
    BY <2>2 DEF LinkType
  <2>4. link' = [l EXCEPT ![s] = w] /\ w.client = v.client /\ w.server = v.server
    BY <1>1, <1>2, <1>6, <2>1, <2>2, <2>3 DEF Receive, Received, LinkType
  <2>5. LinkAt(s, w.server)
    BY <1>3, <2>4
  <2> QED
    BY <1>1, <1>2, <2>1, <2>4, <2>5
<1>8. ASSUME ServerClose(s) PROVE LinkAt(s, "closed")
  <2>1. PICK w \in LinkType : w = [v EXCEPT !.server = "closed", !.up = << >>]
    BY EmptySeq DEF LinkType
  <2>2. link' = [l EXCEPT ![s] = w] /\ w.client = v.client /\ w.server = "closed"
    BY <1>1, <1>2, <1>8, <2>1 DEF ServerClose, LinkType
  <2> QED
    BY <1>3, <2>2
<1>9. ASSUME Refuse(s) PROVE LinkAt(s, "closed") /\ link[s].server = "none"
  <2>1. PICK w \in LinkType : w = [v EXCEPT !.server = "closed"]
    BY DEF LinkType
  <2>2. link' = [l EXCEPT ![s] = w] /\ w.client = v.client /\ w.server = "closed"
    BY <1>1, <1>2, <1>9, <2>1 DEF Refuse, LinkType
  <2> QED
    BY <1>3, <1>9, <2>2 DEF Refuse
<1>10. ASSUME Hangup(s) PROVE LinkAt(s, "closing")
  <2>1. PICK w \in LinkType : w = [v EXCEPT !.server = "closing"]
    BY DEF LinkType
  <2>2. link' = [l EXCEPT ![s] = w] /\ w.client = v.client /\ w.server = "closing"
    BY <1>1, <1>2, <1>10, <2>1 DEF Hangup, LinkType
  <2> QED
    BY <1>3, <2>2
<1>11. ASSUME GuardsReject(s)
       PROVE  LinkAt(s, link[s].server) \/ (link[s].server = "open" /\ LinkAt(s, "closing"))
  <2>1. PICK w \in LinkType : w = [v EXCEPT !.server = "closing", !.rejected = TRUE]
    BY DEF LinkType
  <2>2. w.client = v.client /\ w.server = "closing"
    BY <2>1 DEF LinkType
  <2>3. link' = link \/ (link[s].server = "open" /\ link' = [l EXCEPT ![s] = w])
    BY <1>1, <1>2, <1>11, <2>1 DEF GuardsReject
  <2>4. link' = [l EXCEPT ![s] = w] => LinkAt(s, "closing")
    BY <1>3, <2>2
  <2> QED
    BY <1>0, <2>3, <2>4
<1> QED
  BY <1>4, <1>5, <1>6, <1>8, <1>9, <1>10, <1>11

LEMMA ChangeIsOne ==
  ASSUME NEW b \in BooksType, NEW s \in Sockets, NEW v, NEW c, c = [b EXCEPT !.server[s] = v]
  PROVE  OneSocketChanged(b, s, v, c)
BY DEF OneSocketChanged, BooksType

LEMMA OpenStep ==
  ASSUME ServerInv, link \in Links, NEW s \in Sockets, Open(s)
  PROVE  ServerInv'
<1>1. LinkAt(s, "open") /\ link[s].server = "none"
  BY ServerLink DEF Open
<1>2. PICK b \in BooksType : b = Books
  BY BooksFields
<1>3. Agree(b, setup.roomsRouted) /\ AtEnd(b, "none", s) /\ setup \in SetupType
  BY <1>1, <1>2 DEF ServerInv
<1>4. PICK o \in SocketType : o = b.server[s]
  BY DEF BooksType
<1>5. PICK v \in SocketType : v = [o EXCEPT !.connected = TRUE]
  BY DEF SocketType
<1>6. PICK k : k = [b EXCEPT !.server[s] = v]
  OBVIOUS
<1>7. k = AddConnection(b, s)
  BY <1>4, <1>5, <1>6 DEF AddConnection
<1>8. /\ v.connected /\ v.topics = {} /\ v.native = {} /\ v.handlers = {} /\ ~ v.state
      /\ v.guards = "none" /\ v.topics = b.server[s].topics
  BY <1>3, <1>4, <1>5 DEF AtEnd, SocketType
<1>9. /\ Agree(k, setup.roomsRouted) /\ k.server[s] = v
      /\ \A x \in Sockets \ {s} : k.server[x] = b.server[x]
  <2>1. OneSocketChanged(b, s, v, k)
    BY <1>6, ChangeIsOne
  <2>2. setup.roomsRouted \in BOOLEAN
    BY <1>3 DEF SetupType
  <2>3. /\ v.topics = b.server[s].topics /\ (v.topics # {} => v.connected)
        /\ ~ setup.roomsRouted => v.topics = v.native
        /\ \A m \in v.handlers : m.type # "app" => setup.roomsRouted
    BY <1>8
  <2> QED
    BY <1>3, <2>1, <2>2, <2>3, ChangeKeeps
<1>10. UNCHANGED <<setup, mishandled>> /\ mishandled' \in SUBSET Sockets
  BY DEF Open, ServerInv
<1>11. CASE setup.routers
  <2>1. PICK w \in SocketType : w = [v EXCEPT !.guards = "running"]
    BY DEF SocketType
  <2>2. PICK d : d = [k EXCEPT !.server[s] = w]
    OBVIOUS
  <2>3. /\ w.connected /\ w.topics = {} /\ w.native = {} /\ w.handlers = {} /\ ~ w.state
        /\ w.topics = k.server[s].topics
    BY <1>8, <1>9, <2>1 DEF SocketType
  <2>4. OneSocketChanged(k, s, w, d) /\ setup.roomsRouted \in BOOLEAN
    BY <1>3, <1>9, <2>2, ChangeIsOne DEF Agree, SetupType
  <2>5. /\ Agree(d, setup.roomsRouted) /\ d.server[s] = w
        /\ \A x \in Sockets \ {s} : d.server[x] = k.server[x]
    <3>1. /\ w.topics = k.server[s].topics /\ (w.topics # {} => w.connected)
          /\ ~ setup.roomsRouted => w.topics = w.native
          /\ \A m \in w.handlers : m.type # "app" => setup.roomsRouted
      BY <2>3
    <3> QED
      BY <1>9, <2>4, <3>1, ChangeKeeps
  <2>6. SetBooks(d)
    BY <1>2, <1>7, <1>9, <1>11, <2>1, <2>2 DEF Open
  <2>7. Books' = d
    BY <2>5, <2>6, SetBooksSets DEF Agree
  <2>8. Guarded(d, setup.routers, s) /\ AtEnd(d, "open", s)
    BY <2>3, <2>5 DEF Guarded, AtEnd
  <2>9. \A x \in Sockets \ {s} : d.server[x] = server[x] /\ link'[x].server = link[x].server
    BY <1>1, <1>2, <1>9, <2>5, BooksFields DEF LinkAt
  <2> QED
    BY <1>1, <1>10, <2>5, <2>7, <2>8, <2>9, ServerInvKept DEF LinkAt
<1>12. CASE ~ setup.routers
  <2>1. PICK d : d = SubscribeToTopic(k, s, Broadcast)
    OBVIOUS
  <2>2. SetBooks(d) /\ Broadcast \in Topics /\ setup.roomsRouted \in BOOLEAN
    BY <1>2, <1>3, <1>7, <1>12, <2>1, TopicsAssumption DEF Open, SetupType
  <2>3. Agree(d, setup.roomsRouted) /\ (d = k \/ Adds(k, s, Broadcast, d))
    BY <1>9, <2>1, <2>2, SubscribeKeeps
  <2>4. Books' = d
    BY <2>2, <2>3, SetBooksSets DEF Agree
  <2>5. \A x \in Sockets \ {s} : d.server[x] = k.server[x]
    BY <2>3 DEF Adds, SameForOthers
  <2>6. Guarded(d, setup.routers, s) /\ AtEnd(d, "open", s)
    BY <1>12 DEF Guarded, AtEnd
  <2>7. \A x \in Sockets \ {s} : d.server[x] = server[x] /\ link'[x].server = link[x].server
    BY <1>1, <1>2, <1>9, <2>5, BooksFields DEF LinkAt
  <2> QED
    BY <1>1, <1>10, <2>3, <2>4, <2>6, <2>7, ServerInvKept DEF LinkAt
<1> QED
  BY <1>11, <1>12

LEMMA GuardsPassStep ==
  ASSUME ServerInv, link \in Links, NEW s \in Sockets, GuardsPass(s)
  PROVE  ServerInv'
<1>1. LinkAt(s, link[s].server) /\ server[s].guards = "running"
  BY ServerLink DEF GuardsPass
<1>2. PICK b \in BooksType : b = Books
  BY BooksFields
<1>3. /\ Agree(b, setup.roomsRouted) /\ AtEnd(b, link[s].server, s) /\ setup \in SetupType
      /\ b.server[s].guards = "running"
  BY <1>1, <1>2, BooksFields DEF ServerInv
<1>4. PICK o \in SocketType : o = b.server[s]
  BY DEF BooksType
<1>5. PICK v \in SocketType : v = [o EXCEPT !.guards = "passed", !.state = TRUE]
  BY DEF SocketType
<1>6. PICK k : k = [b EXCEPT !.server[s] = v]
  OBVIOUS
<1>8. /\ v.connected = o.connected /\ v.topics = o.topics /\ v.native = o.native
      /\ v.handlers = o.handlers /\ v.guards = "passed"
  BY <1>5 DEF SocketType
<1>9. /\ Agree(k, setup.roomsRouted) /\ k.server[s] = v
      /\ \A x \in Sockets \ {s} : k.server[x] = b.server[x]
  <2>1. OneSocketChanged(b, s, v, k)
    BY <1>6, ChangeIsOne
  <2>2. setup.roomsRouted \in BOOLEAN
    BY <1>3 DEF SetupType
  <2>3. AgreesFor(b, setup.roomsRouted, s)
    BY <1>3 DEF Agree
  <2>4. /\ v.topics = b.server[s].topics /\ (v.topics # {} => v.connected)
        /\ ~ setup.roomsRouted => v.topics = v.native
        /\ \A m \in v.handlers : m.type # "app" => setup.roomsRouted
    BY <1>4, <1>8, <2>3 DEF AgreesFor
  <2> QED
    BY <1>3, <2>1, <2>2, <2>4, ChangeKeeps
<1>10. UNCHANGED <<setup, mishandled>> /\ mishandled' \in SUBSET Sockets
  BY DEF GuardsPass, ServerInv
<1> DEFINE d == SubscribeToTopic(k, s, Broadcast)
<1>11. SetBooks(d) /\ Broadcast \in Topics /\ setup.roomsRouted \in BOOLEAN
  BY <1>2, <1>3, <1>4, <1>5, <1>6, TopicsAssumption DEF GuardsPass, SetupType
<1>12. Agree(d, setup.roomsRouted) /\ (d = k \/ Adds(k, s, Broadcast, d))
  BY <1>9, <1>11, SubscribeKeeps
<1> HIDE DEF d
<1>13. Books' = d
  BY <1>11, <1>12, SetBooksSets DEF Agree
<1>14. \A x \in Sockets \ {s} : d.server[x] = k.server[x]
  BY <1>12 DEF Adds, SameForOthers
<1>15. d.server[s].guards = "passed"
  BY <1>8, <1>9, <1>12 DEF Adds, SameForOthers
<1>16. CASE ~ v.connected
  <2>1. d = k
    BY <1>9, <1>16 DEF d, SubscribeToTopic
  <2>2. Guarded(d, setup.routers, s)
    BY <1>15 DEF Guarded
  <2>3. AtEnd(d, link'[s].server, s)
    BY <1>1, <1>3, <1>4, <1>8, <1>9, <2>1 DEF AtEnd, LinkAt
  <2>4. \A x \in Sockets \ {s} : d.server[x] = server[x] /\ link'[x].server = link[x].server
    BY <1>1, <1>2, <1>9, <1>14, BooksFields DEF LinkAt
  <2> QED
    BY <1>10, <1>12, <1>13, <2>2, <2>3, <2>4, ServerInvKept
<1>17. CASE v.connected
  <2>1. link'[s].server \notin {"none", "closed"}
    BY <1>1, <1>3, <1>4, <1>8, <1>17 DEF AtEnd, LinkAt
  <2>2. Guarded(d, setup.routers, s) /\ AtEnd(d, link'[s].server, s)
    BY <1>15, <2>1 DEF Guarded, AtEnd
  <2>4. \A x \in Sockets \ {s} : d.server[x] = server[x] /\ link'[x].server = link[x].server
    BY <1>1, <1>2, <1>9, <1>14, BooksFields DEF LinkAt
  <2> QED
    BY <1>10, <1>12, <1>13, <2>2, <2>4, ServerInvKept
<1> QED
  BY <1>16, <1>17

LEMMA ReceiveStep ==
  ASSUME ServerInv, link \in Links, NEW s \in Sockets, Receive(s)
  PROVE  ServerInv'
<1>1. LinkAt(s, link[s].server) /\ link[s].server = "open"
  BY ServerLink
<1>2. PICK b \in BooksType : b = Books
  BY BooksFields
<1>3. /\ Agree(b, setup.roomsRouted) /\ setup \in SetupType
      /\ setup.roomsRouted => setup.routers
      /\ Guarded(b, setup.routers, s)
  BY <1>2 DEF ServerInv
<1>4. PICK m \in Range(link[s].up) :
        /\ Received(s, m)
        /\ MessageRefused(s, m) \/ MessageRouted(s, m) \/ MessageUnrouted(s, m)
  BY DEF Receive
<1>5. m \in Message
  <2>1. link[s].up \in Seq(Message) /\ link[s].up # << >>
    BY <1>4 DEF Received, Links, LinkType
  <2> QED
    BY <1>4, <2>1, HeadTailProperties DEF Received
<1>6. UNCHANGED setup
  BY <1>4 DEF Received
<1>7. mishandled' \in SUBSET Sockets
  BY <1>4 DEF MessageRefused, MessageRouted, MessageUnrouted, ServerInv
<1>8. \A x \in Sockets \ {s} : link'[x].server = link[x].server
  BY <1>1 DEF LinkAt
<1>9. link'[s].server = "open"
  BY <1>1 DEF LinkAt
<1>10. \A c : AtEnd(c, link'[s].server, s)
  BY <1>9 DEF AtEnd
<1>11. CASE MessageRefused(s, m)
  <2>1. Books' = b
    BY <1>2, <1>11 DEF MessageRefused, Books
  <2> QED
    BY <1>2, <1>3, <1>6, <1>7, <1>8, <1>10, <2>1, BooksFields, ServerInvKept
<1>12. CASE MessageRouted(s, m)
  <2>1. PICK o \in SocketType : o = b.server[s]
    BY DEF BooksType
  <2>2. PICK v \in SocketType : v = [o EXCEPT !.handlers = o.handlers \union {m}]
    BY <1>5 DEF SocketType
  <2>3. PICK k : k = [b EXCEPT !.server[s] = v]
    OBVIOUS
  <2>4. /\ v.connected = o.connected /\ v.topics = o.topics /\ v.native = o.native
        /\ v.handlers = o.handlers \union {m} /\ v.guards = o.guards /\ v.state = o.state
    BY <2>2 DEF SocketType
  <2>5. setup.routers /\ (m.type # "app" => setup.roomsRouted) /\ o.state
    BY <1>2, <1>12, <2>1, BooksFields DEF MessageRouted, IsRouted
  <2>6. AgreesFor(b, setup.roomsRouted, s) /\ setup.roomsRouted \in BOOLEAN
    BY <1>3 DEF Agree, SetupType
  <2>7. /\ v.topics = b.server[s].topics /\ (v.topics # {} => v.connected)
        /\ ~ setup.roomsRouted => v.topics = v.native
        /\ \A h \in v.handlers : h.type # "app" => setup.roomsRouted
    BY <2>1, <2>4, <2>5, <2>6 DEF AgreesFor
  <2>8. OneSocketChanged(b, s, v, k)
    BY <2>3, ChangeIsOne
  <2>9. /\ Agree(k, setup.roomsRouted) /\ k.server[s] = v
        /\ \A x \in Sockets \ {s} : k.server[x] = b.server[x]
    BY <1>3, <2>6, <2>7, <2>8, ChangeKeeps
  <2>10. Books' = k
    <3>1. server' = [server EXCEPT ![s] = v]
      <4>1. server[s] = o
        BY <1>2, <2>1, BooksFields
      <4> QED
        BY <1>12, <2>2, <4>1 DEF MessageRouted
    <3>2. /\ k.server = server' /\ k.subscriptions = topicSubscriptions' /\ k.provider = provider'
      BY <1>2, <1>12, <2>8, <3>1, BooksFields DEF MessageRouted, OneSocketChanged
    <3> QED
      BY <2>8, <3>2 DEF OneSocketChanged, Books
  <2>11. v.guards = "passed"
    BY <1>3, <2>1, <2>4, <2>5 DEF Guarded
  <2>12. Guarded(k, setup.routers, s)
    BY <2>9, <2>11 DEF Guarded
  <2>13. \A x \in Sockets \ {s} : k.server[x] = server[x] /\ link'[x].server = link[x].server
    BY <1>2, <1>8, <2>9, BooksFields
  <2> QED
    BY <1>6, <1>7, <1>10, <2>9, <2>10, <2>12, <2>13, ServerInvKept
<1>13. CASE MessageUnrouted(s, m)
  <2>1. setup.roomsRouted \in BOOLEAN
    BY <1>3 DEF SetupType
  <2>2. PICK d : d = Handled(s, m)
    OBVIOUS
  <2>3. m.type # "app" => m.room \in Rooms /\ m.room \in Topics /\ m.room # Broadcast
    BY <1>5, TopicsAssumption DEF Message, App
  <2>4. \/ m.type = "join" /\ d = SubscribeToTopic(b, s, m.room)
        \/ m.type = "leave" /\ d = UnsubscribeFromTopic(b, s, m.room)
        \/ d = b
    BY <1>2, <1>5, <2>2 DEF Handled, Wrapped, Message, App
  <2>5. /\ Agree(d, setup.roomsRouted)
        /\ \/ d = b
           \/ m.type = "join" /\ Adds(b, s, m.room, d)
           \/ m.type = "leave" /\ Drops(b, s, m.room, d)
    BY <1>3, <2>1, <2>3, <2>4, SubscribeKeeps, UnsubscribeKeeps
  <2>6. Books' = d
    BY <1>13, <2>2, <2>5, SetBooksSets DEF MessageUnrouted, Agree
  <2>7. \A x \in Sockets \ {s} : d.server[x] = b.server[x]
    BY <2>5 DEF Adds, Drops, SameForOthers
  <2>8. \/ d = b
        \/ /\ d.server[s].guards = b.server[s].guards /\ d.server[s].state = b.server[s].state
           /\ d.server[s].handlers = b.server[s].handlers
           /\ Broadcast \in d.server[s].topics => Broadcast \in b.server[s].topics
           /\ Broadcast \in d.server[s].native => Broadcast \in b.server[s].native
    BY <2>3, <2>5, SMTT(60) DEF Adds, Drops, SameForOthers
  <2>9. Guarded(d, setup.routers, s)
    BY <1>3, <2>8 DEF Guarded
  <2>10. \A x \in Sockets \ {s} : d.server[x] = server[x] /\ link'[x].server = link[x].server
    BY <1>2, <1>8, <2>7, BooksFields
  <2> QED
    BY <1>6, <1>7, <1>10, <2>5, <2>6, <2>9, <2>10, ServerInvKept
<1> QED
  BY <1>4, <1>11, <1>12, <1>13

LEMMA HandlerEndsStep ==
  ASSUME ServerInv, link \in Links, NEW s \in Sockets, HandlerEnds(s)
  PROVE  ServerInv'
<1>1. LinkAt(s, link[s].server)
  BY ServerLink
<1>2. PICK b \in BooksType : b = Books
  BY BooksFields
<1>3. /\ Agree(b, setup.roomsRouted) /\ setup \in SetupType
      /\ Guarded(b, setup.routers, s) /\ AtEnd(b, link[s].server, s)
  BY <1>2 DEF ServerInv
<1>4. PICK m \in server[s].handlers :
        server' = [server EXCEPT ![s].handlers = server[s].handlers \ {m},
                                 ![s].native = NativeAfter(s, m)]
  BY DEF HandlerEnds
<1>5. UNCHANGED <<setup, topicSubscriptions, provider, mishandled>>
      /\ mishandled' \in SUBSET Sockets
  BY DEF HandlerEnds, ServerInv
<1>6. PICK o \in SocketType : o = b.server[s] /\ o = server[s]
  BY <1>2, BooksFields DEF BooksType
<1>7. m \in Message /\ m \in o.handlers
  BY <1>4, <1>6 DEF SocketType
<1>8. m.type # "app" => m.room \in Topics /\ m.room # Broadcast
  BY <1>7, TopicsAssumption DEF Message, App
<1>9. AgreesFor(b, setup.roomsRouted, s) /\ setup.roomsRouted \in BOOLEAN
  BY <1>3 DEF Agree, SetupType
<1>10. PICK n \in SUBSET Topics : n = NativeAfter(s, m)
  BY <1>6, <1>8 DEF NativeAfter, SocketType
<1>11. /\ Broadcast \in n => Broadcast \in o.native
       /\ ~ setup.roomsRouted => n = o.native
       /\ link[s].server # "open" => n = o.native
  BY <1>6, <1>7, <1>8, <1>9, <1>10 DEF NativeAfter, AgreesFor
<1>12. PICK v \in SocketType : v = [o EXCEPT !.handlers = o.handlers \ {m}, !.native = n]
  BY <1>10 DEF SocketType
<1>13. /\ v.connected = o.connected /\ v.topics = o.topics /\ v.native = n
       /\ v.handlers = o.handlers \ {m} /\ v.guards = o.guards /\ v.state = o.state
  BY <1>12 DEF SocketType
<1>14. server' = [server EXCEPT ![s] = v]
  <2>1. PICK f \in [Sockets -> SocketType] : f = server
    BY BooksFields
  <2>2. server' = [f EXCEPT ![s].handlers = o.handlers \ {m}, ![s].native = n] /\ f[s] = o
    BY <1>4, <1>6, <1>10, <2>1
  <2>3. server' = [f EXCEPT ![s] = [o EXCEPT !.handlers = o.handlers \ {m}, !.native = n]]
    BY ONLY <2>2, f \in [Sockets -> SocketType], s \in Sockets
  <2> QED
    BY <1>12, <2>1, <2>3
<1>15. PICK k : k = [b EXCEPT !.server[s] = v]
  OBVIOUS
<1>16. OneSocketChanged(b, s, v, k)
  BY <1>15, ChangeIsOne
<1>17. /\ v.topics = b.server[s].topics /\ (v.topics # {} => v.connected)
       /\ ~ setup.roomsRouted => v.topics = v.native
       /\ \A h \in v.handlers : h.type # "app" => setup.roomsRouted
  BY <1>6, <1>9, <1>11, <1>13 DEF AgreesFor
<1>18. /\ Agree(k, setup.roomsRouted) /\ k.server[s] = v
       /\ \A x \in Sockets \ {s} : k.server[x] = b.server[x]
  BY <1>3, <1>9, <1>16, <1>17, ChangeKeeps
<1>19. Books' = k
  <2>1. /\ k.server = server' /\ k.subscriptions = topicSubscriptions' /\ k.provider = provider'
    BY <1>2, <1>5, <1>14, <1>16, BooksFields DEF OneSocketChanged
  <2> QED
    BY <1>16, <2>1 DEF OneSocketChanged, Books
<1>20. Guarded(k, setup.routers, s)
  BY <1>3, <1>6, <1>7, <1>18, <1>13 DEF Guarded
<1>21. AtEnd(k, link'[s].server, s)
  BY <1>1, <1>3, <1>6, <1>7, <1>11, <1>13, <1>18 DEF AtEnd, LinkAt
<1>22. \A x \in Sockets \ {s} : k.server[x] = server[x] /\ link'[x].server = link[x].server
  BY <1>1, <1>2, <1>18, BooksFields DEF LinkAt
<1> QED
  BY <1>5, <1>18, <1>19, <1>20, <1>21, <1>22, ServerInvKept

LEMMA ServerCloseStep ==
  ASSUME ServerInv, link \in Links, NEW s \in Sockets, ServerClose(s)
  PROVE  ServerInv'
<1>1. LinkAt(s, "closed")
  BY ServerLink
<1>2. PICK b \in BooksType : b = Books
  BY BooksFields
<1>3. /\ Agree(b, setup.roomsRouted) /\ setup \in SetupType
      /\ Guarded(b, setup.routers, s)
  BY <1>2 DEF ServerInv
<1>4. PICK o \in SocketType : o = b.server[s]
  BY DEF BooksType
<1>5. PICK v \in SocketType : v = [o EXCEPT !.state = FALSE]
  BY DEF SocketType
<1>6. PICK k : k = [b EXCEPT !.server[s] = v]
  OBVIOUS
<1>7. k = HandleDisconnection(b, s)
  BY <1>4, <1>5, <1>6 DEF HandleDisconnection
<1>8. /\ v.connected = o.connected /\ v.topics = o.topics /\ v.native = o.native
      /\ v.handlers = o.handlers /\ v.guards = o.guards /\ ~ v.state
  BY <1>5 DEF SocketType
<1>9. AgreesFor(b, setup.roomsRouted, s) /\ setup.roomsRouted \in BOOLEAN
  BY <1>3 DEF Agree, SetupType
<1>10. /\ v.topics = b.server[s].topics /\ (v.topics # {} => v.connected)
       /\ ~ setup.roomsRouted => v.topics = v.native
       /\ \A h \in v.handlers : h.type # "app" => setup.roomsRouted
  BY <1>4, <1>8, <1>9 DEF AgreesFor
<1>11. OneSocketChanged(b, s, v, k)
  BY <1>6, ChangeIsOne
<1>12. /\ Agree(k, setup.roomsRouted) /\ k.server[s] = v
       /\ \A x \in Sockets \ {s} : k.server[x] = b.server[x]
  BY <1>3, <1>9, <1>10, <1>11, ChangeKeeps
<1> DEFINE d == RemoveConnection(k, s)
<1>13. Agree(d, setup.roomsRouted) /\ Removed(k, s, d)
  BY <1>9, <1>12, RemoveKeeps
<1>14. SetBooks(d) /\ UNCHANGED <<setup, mishandled>> /\ mishandled' \in SUBSET Sockets
  BY <1>2, <1>7 DEF ServerClose, ServerInv
<1> HIDE DEF d
<1>15. Books' = d
  BY <1>13, <1>14, SetBooksSets DEF Agree
<1>16. /\ ~ d.server[s].connected /\ d.server[s].topics = {} /\ d.server[s].native = {}
       /\ ~ d.server[s].state /\ d.server[s].guards = o.guards /\ d.server[s].handlers = o.handlers
       /\ \A x \in Sockets \ {s} : d.server[x] = k.server[x]
  BY <1>8, <1>12, <1>13 DEF Removed, SameForOthers
<1>17. Guarded(d, setup.routers, s)
  BY <1>3, <1>4, <1>16 DEF Guarded
<1>18. AtEnd(d, link'[s].server, s)
  BY <1>1, <1>16 DEF AtEnd, LinkAt
<1>19. \A x \in Sockets \ {s} : d.server[x] = server[x] /\ link'[x].server = link[x].server
  BY <1>1, <1>2, <1>12, <1>16, BooksFields DEF LinkAt
<1> QED
  BY <1>13, <1>14, <1>15, <1>17, <1>18, <1>19, ServerInvKept

\* The faults, and every step of the client, leave the books alone but for the guards.
LEMMA BooksStay ==
  ASSUME ServerInv, UNCHANGED serverVars,
         \A x \in Sockets : \/ link'[x].server = link[x].server
                            \/ link'[x].server = "closing"
                            \/ link[x].server = "none" /\ link'[x].server = "closed"
  PROVE  ServerInv'
<1>1. Books' = Books
  BY DEF serverVars, Books
<1>2. \A x \in Sockets : AtEnd(Books, link'[x].server, x)
  BY DEF ServerInv, AtEnd
<1> QED
  BY <1>1, <1>2 DEF ServerInv, serverVars

LEMMA ServerFaultStep ==
  ASSUME ServerInv, link \in Links, NEW s \in Sockets, ServerFault(s)
  PROVE  ServerInv'
<1>1. CASE Refuse(s)
  <2>1. LinkAt(s, "closed") /\ link[s].server = "none"
    BY <1>1, ServerLink
  <2>2. UNCHANGED serverVars
    BY <1>1 DEF Refuse
  <2> QED
    BY <2>1, <2>2, BooksStay DEF LinkAt
<1>2. CASE Hangup(s)
  <2>1. LinkAt(s, "closing")
    BY <1>2, ServerLink
  <2>2. UNCHANGED serverVars
    BY <1>2 DEF Hangup
  <2> QED
    BY <2>1, <2>2, BooksStay DEF LinkAt
<1>3. CASE GuardsReject(s)
  <2>1. \/ LinkAt(s, link[s].server)
        \/ link[s].server = "open" /\ LinkAt(s, "closing")
    BY <1>3, ServerLink
  <2>2. PICK b \in BooksType : b = Books
    BY BooksFields
  <2>3. /\ Agree(b, setup.roomsRouted) /\ setup \in SetupType
        /\ Guarded(b, setup.routers, s) /\ AtEnd(b, link[s].server, s)
    BY <2>2 DEF ServerInv
  <2>4. PICK o \in SocketType : o = b.server[s] /\ o = server[s]
    BY <2>2, BooksFields DEF BooksType
  <2>5. PICK v \in SocketType : v = [o EXCEPT !.guards = "rejected"]
    BY DEF SocketType
  <2>6. /\ v.connected = o.connected /\ v.topics = o.topics /\ v.native = o.native
        /\ v.handlers = o.handlers /\ v.guards = "rejected" /\ v.state = o.state
        /\ o.guards = "running"
    BY <1>3, <2>4, <2>5 DEF SocketType, GuardsReject
  <2>7. PICK k : k = [b EXCEPT !.server[s] = v]
    OBVIOUS
  <2>8. OneSocketChanged(b, s, v, k)
    BY <2>7, ChangeIsOne
  <2>9. AgreesFor(b, setup.roomsRouted, s) /\ setup.roomsRouted \in BOOLEAN
    BY <2>3 DEF Agree, SetupType
  <2>10. /\ v.topics = b.server[s].topics /\ (v.topics # {} => v.connected)
         /\ ~ setup.roomsRouted => v.topics = v.native
         /\ \A h \in v.handlers : h.type # "app" => setup.roomsRouted
    BY <2>4, <2>6, <2>9 DEF AgreesFor
  <2>11. /\ Agree(k, setup.roomsRouted) /\ k.server[s] = v
         /\ \A x \in Sockets \ {s} : k.server[x] = b.server[x]
    BY <2>3, <2>8, <2>9, <2>10, ChangeKeeps
  <2>12. UNCHANGED <<setup, topicSubscriptions, provider, mishandled>>
         /\ mishandled' \in SUBSET Sockets
    BY <1>3 DEF GuardsReject, ServerInv
  <2>13. server' = [server EXCEPT ![s] = v]
    <3>1. PICK f \in [Sockets -> SocketType] : f = server
      BY BooksFields
    <3>2. server' = [f EXCEPT ![s].guards = "rejected"] /\ f[s] = o
      BY <1>3, <2>4, <3>1 DEF GuardsReject
    <3> QED
      BY <2>5, <3>1, <3>2
  <2>14. Books' = k
    <3>1. /\ k.server = server' /\ k.subscriptions = topicSubscriptions' /\ k.provider = provider'
      BY <2>2, <2>8, <2>12, <2>13, BooksFields DEF OneSocketChanged
    <3> QED
      BY <2>8, <3>1 DEF OneSocketChanged, Books
  <2>15. Guarded(k, setup.routers, s)
    BY <2>3, <2>4, <2>6, <2>11 DEF Guarded
  <2>16. AtEnd(k, link'[s].server, s)
    BY <2>1, <2>3, <2>4, <2>6, <2>11 DEF AtEnd, LinkAt
  <2>17. \A x \in Sockets \ {s} : k.server[x] = server[x] /\ link'[x].server = link[x].server
    BY <2>1, <2>2, <2>11, BooksFields DEF LinkAt
  <2> QED
    BY <2>11, <2>12, <2>14, <2>15, <2>16, <2>17, ServerInvKept
<1> QED
  BY <1>1, <1>2, <1>3 DEF ServerFault

LEMMA ServerStepKeeps ==
  ASSUME ServerInv, link \in Links, NEW s \in Sockets, ServerStep(s)
  PROVE  ServerInv'
BY OpenStep, GuardsPassStep, ReceiveStep, HandlerEndsStep, ServerCloseStep DEF ServerStep

-----------------------------------------------------------------------------
(* The session. *)

SessionInv == ClientInv /\ ServerInv

LEMMA SessionInitially ==
  ASSUME SessionInit PROVE SessionInv
<1>1. Unused \in LinkType /\ link = [s \in Sockets |-> Unused]
  BY EmptySeq DEF SessionInit, Unused, LinkType
<1>2. link \in Links /\ \A s \in Sockets : link[s].client = "unused" /\ link[s].server = "none"
  <2>1. Unused.client = "unused" /\ Unused.server = "none"
    BY DEF Unused
  <2> QED
    BY <1>1, <2>1 DEF Links
<1>3. ClientTypeOK
  <2>1. client \in ClientType /\ client.rooms = {}
    BY DEF SessionInit, ClientInit, ClientType
  <2> QED
    BY <1>2, <2>1, FS_EmptySet, ClientAssumption DEF ClientTypeOK, SessionInit, ClientInit
<1>4. OneSocket
  <2>1. client.ws = NoSocket /\ client.state = "disconnected"
    BY DEF SessionInit, ClientInit
  <2> QED
    BY <1>2, <2>1 DEF OneSocket, Live
<1>5. /\ setup \in SetupType /\ (setup.roomsRouted => setup.routers)
      /\ mishandled \in SUBSET Sockets
  BY DEF SessionInit, ServerInit, SetupType
<1>6. /\ NewSocket \in SocketType /\ ~ NewSocket.connected /\ NewSocket.guards = "none"
      /\ ~ NewSocket.state /\ NewSocket.topics = {} /\ NewSocket.native = {}
      /\ NewSocket.handlers = {}
  BY DEF NewSocket, SocketType
<1>7. /\ Books.server = [s \in Sockets |-> NewSocket]
      /\ Books.subscriptions = [t \in Topics |-> {}]
      /\ Books.provider.localSubscriptions = [t \in Topics |-> {}]
      /\ Books.provider.socketTopics = [s \in Sockets |-> {}]
      /\ Books.provider.connectedSockets = {}
      /\ Books = [server |-> Books.server, subscriptions |-> Books.subscriptions,
                  provider |-> Books.provider]
      /\ Books.provider = [localSubscriptions |-> Books.provider.localSubscriptions,
                           socketTopics |-> Books.provider.socketTopics,
                           connectedSockets |-> Books.provider.connectedSockets]
  BY DEF SessionInit, ServerInit, Books
<1>8. \A s \in Sockets : Books.server[s] = NewSocket
  BY <1>7
<1>9. Agree(Books, setup.roomsRouted)
  <2>1. Books \in BooksType
    BY <1>6, <1>7 DEF BooksType
  <2>2. \A t \in Topics : /\ Books.subscriptions[t] = {s \in Sockets : t \in Books.server[s].topics}
                          /\ Books.provider.localSubscriptions[t] = Books.subscriptions[t]
    BY <1>6, <1>7, <1>8
  <2>3. \A s \in Sockets : AgreesFor(Books, setup.roomsRouted, s)
    BY <1>6, <1>7, <1>8, FS_EmptySet DEF AgreesFor
  <2> QED
    BY <2>1, <2>2, <2>3 DEF Agree
<1>10. \A s \in Sockets : Guarded(Books, setup.routers, s) /\ AtEnd(Books, link[s].server, s)
  BY <1>2, <1>6, <1>8 DEF Guarded, AtEnd
<1> QED
  BY <1>3, <1>4, <1>5, <1>9, <1>10 DEF SessionInv, ClientInv, ServerInv

\* Every step keeps the invariant, and opens a socket after disconnect() only if it is
\* connect().
LEMMA SessionStep ==
  ASSUME SessionInv, [SessionNext]_sessionVars
  PROVE  SessionInv' /\ (client.skipReconnect /\ Used' # Used => Connect)
<1>1. CASE ClientNext /\ UNCHANGED serverVars
  <2>1. ClientStepOK(Connect \/ ~ client.skipReconnect)
    BY <1>1, ClientNextStep DEF SessionInv
  <2>2. ServerInv'
    BY <1>1, <2>1, BooksStay DEF SessionInv, ClientStepOK, ServerEndStays
  <2> QED
    BY <2>1, <2>2 DEF SessionInv, ClientInv, ClientStepOK
<1>2. ASSUME NEW s \in Sockets,
             \/ ServerStep(s) /\ UNCHANGED clientVars
             \/ ServerFault(s) /\ Spend /\ UNCHANGED <<client, online, overtaken>>
      PROVE  SessionInv' /\ Used' = Used
  <2>1. link \in Links
    BY DEF SessionInv, ClientInv, ClientTypeOK
  <2>2. link' \in Links /\ \A x \in Sockets : link'[x].client = link[x].client
    BY <1>2, <2>1, ServerLink DEF ServerStep, ServerFault, LinkAt
  <2>3. UNCHANGED <<client, online, overtaken>> /\ (Spend \/ UNCHANGED budget)
    BY <1>2 DEF clientVars
  <2>4. ClientInv' /\ Used' = Used
    BY <2>2, <2>3, ServerSideStep DEF SessionInv
  <2>5. ServerInv'
    BY <1>2, <2>1, ServerStepKeeps, ServerFaultStep DEF SessionInv
  <2> QED
    BY <2>4, <2>5 DEF SessionInv
<1>3. CASE UNCHANGED sessionVars
  <2>1. link' = link /\ UNCHANGED clientVars /\ UNCHANGED serverVars
    BY <1>3 DEF sessionVars
  <2>2. link' \in Links /\ \A x \in Sockets : link'[x].client = link[x].client
    BY <2>1 DEF SessionInv, ClientInv, ClientTypeOK
  <2>3. UNCHANGED <<client, online, overtaken>> /\ (Spend \/ UNCHANGED budget)
    BY <2>1 DEF clientVars
  <2>4. ClientInv' /\ Used' = Used
    BY <2>2, <2>3, ServerSideStep DEF SessionInv
  <2>5. ServerInv'
    BY <2>1, BooksStay DEF SessionInv
  <2> QED
    BY <2>4, <2>5 DEF SessionInv
<1> QED
  BY <1>1, <1>2, <1>3 DEF SessionNext

LEMMA ServerInvSound ==
  ASSUME ServerInv
  PROVE  ServerIsSound
<1>1. Agree(Books, setup.roomsRouted)
  BY DEF ServerInv
<1>2. /\ \A t \in Topics : /\ topicSubscriptions[t] = {s \in Sockets : t \in server[s].topics}
                           /\ provider.localSubscriptions[t] = topicSubscriptions[t]
      /\ \A s \in Sockets :
           /\ provider.socketTopics[s] = server[s].topics
           /\ s \in provider.connectedSockets <=> server[s].topics # {}
           /\ ~ setup.roomsRouted => server[s].topics = server[s].native
  BY <1>1, BooksFields DEF Agree, AgreesFor
<1>3. \A s \in Sockets : /\ Guarded(Books, setup.routers, s)
                         /\ AtEnd(Books, link[s].server, s)
  BY DEF ServerInv
<1>4. BooksAgree
  <2>1. \A s \in Sockets : link[s].server = "closed" =>
            /\ ~server[s].connected /\ server[s].topics = {} /\ server[s].native = {}
            /\ server[s].state => server[s].guards = "passed"
    BY <1>3, BooksFields DEF AtEnd
  <2> QED
    BY <1>2, <2>1 DEF BooksAgree
<1>5. GuardedFirst
  <2>1. \A s \in Sockets : setup.routers /\ server[s].guards # "passed" =>
          /\ Broadcast \notin server[s].topics /\ Broadcast \notin server[s].native
          /\ server[s].handlers = {} /\ ~ server[s].state
    BY <1>3, BooksFields DEF Guarded
  <2> QED
    BY <1>2, <2>1, TopicsAssumption DEF GuardedFirst
<1> QED
  BY <1>4, <1>5 DEF ServerIsSound

LEMMA OneSocketUsable ==
  ASSUME ClientInv
  PROVE  ConnectedIsUsable
<1> SUFFICES ASSUME ~ overtaken, client.state = "connected"
             PROVE  /\ client.ws # NoSocket
                    /\ link[client.ws].client \in {"open", "closing"}
                    /\ client.heartbeat # "off" /\ client.sendBuffer = 0
                    /\ \A s \in Sockets \ {client.ws} : ~ Live(s)
  BY DEF ConnectedIsUsable
<1>1. /\ \A s, t \in Sockets : Live(s) /\ Live(t) => s = t
      /\ client.ws # NoSocket => Live(client.ws)
      /\ client.ws # NoSocket /\ link[client.ws].client \in {"open", "closing"}
      /\ client.heartbeat # "off" /\ client.sendBuffer = 0
  BY DEF ClientInv, OneSocket
<1>2. client.ws \in Sockets
  BY <1>1 DEF ClientInv, ClientTypeOK, ClientType
<1> QED
  BY <1>1, <1>2

\* What the three below rest on: it holds of every reachable state of client and server.
THEOREM SessionIsInvariant == SessionSpec => []SessionInv
<1>1. SessionInit => SessionInv
  BY SessionInitially
<1>2. SessionInv /\ [SessionNext]_sessionVars => SessionInv'
  BY SessionStep
<1> QED
  BY <1>1, <1>2, PTL DEF SessionSpec

\* A client that says "connected" has a socket that opened and that its heartbeat watches, and
\* has nothing left to send, whatever the network, the browser and the server did and in
\* whatever order: maybeReconnect(), the timers and the callbacks of socket-client.ts.
THEOREM ClientIsUsable == SessionSpec => []ConnectedIsUsable
<1>1. SessionInv => ConnectedIsUsable
  BY OneSocketUsable DEF SessionInv
<1> QED
  BY <1>1, SessionIsInvariant, PTL

\* After disconnect() no timer, socket or browser event of the client opens a socket: only
\* connect() does.
THEOREM DisconnectLasts == SessionSpec => DisconnectIsFinal
<1>1. SessionInv /\ [SessionNext]_sessionVars => [client.skipReconnect /\ Used' # Used => Connect]_sessionVars
  BY SessionStep
<1> QED
  BY <1>1, SessionIsInvariant, PTL DEF SessionSpec, DisconnectIsFinal

\* The coordinator's, the provider's and Bun's own tables agree about every socket, a socket
\* that closed has left all of them, and nobody hears a broadcast or has a routed handler run
\* before the connection guards let it in.
THEOREM ServerStaysSound == SessionSpec => []ServerIsSound
<1>1. SessionInv => ServerIsSound
  BY ServerInvSound DEF SessionInv
<1> QED
  BY <1>1, SessionIsInvariant, PTL
=============================================================================
