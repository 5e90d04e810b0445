----------------------------- MODULE Container -----------------------------
(* The dependency container of the core (container.ts), the validator of    *)
(* its graph (dependency-validator.ts) and the registration of providers    *)
(* (provider-coordinator.ts).                                               *)
(*                                                                          *)
(* A synchronous resolution is one step.  An asynchronous one keeps a frame *)
(* per service under construction: entering a service enters, in the same   *)
(* turn of the event loop, every dependency that is not there yet, and each *)
(* construction and each rejection is a step of its own.  `di` is the       *)
(* container's state; `wiring` is what the program registers, chosen in the *)
(* initial state; `asked` is how the latest resolveAsync() of a service     *)
(* ended.                                                                   *)
EXTENDS Integers, Sequences, FiniteSets, SequencesExt

CONSTANTS
  Services,     \* classes
  Token,        \* a symbol under which only an instance can be registered
  Arity,        \* Function.length of each class
  NoParent      \* the caller is not a frame

ASSUME ContainerAssumption ==
  /\ IsFiniteSet(Services) /\ Token \notin Services /\ NoParent \notin Services

VARIABLES di, wiring, asked

Keys == Services \cup {Token}

Idle == [at |-> "none", left |-> {}, bad |-> "", parent |-> NoParent]

Empty == [registry |-> <<>>, instances |-> {}, resolving |-> {},
          frames |-> [s \in Services |-> Idle], built |-> [s \in Services |-> 0],
          wasted |-> {}]

\* What the function f makes of a, for one key after the other.
Folded(f, a, keys) == FoldLeft(LAMBDA b, k : f[b][k], a, keys)

-----------------------------------------------------------------------------
(* Registration.                                                            *)

\* A registry with more entries set in it.
Extended(reg, more) ==
  [k \in DOMAIN reg \cup DOMAIN more |-> IF k \in DOMAIN more THEN more[k] ELSE reg[k]]

Register(st, s, deps) == [st EXCEPT !.registry = Extended(@, [k \in {s} |-> deps])]

RegisterInstance(st, k) ==
  [Register(st, k, <<>>) EXCEPT !.instances = @ \cup {k}]

\* providerInstance() at once, the providers at bootstrap.
RegisterProviders(st) ==
  LET given == IF wiring.token THEN RegisterInstance(st, Token) ELSE st
  IN  [given EXCEPT !.registry = Extended(@, wiring.deps)]

-----------------------------------------------------------------------------
(* Validation: missing dependencies, short dependency lists, cycles.        *)

Checked(st) == (DOMAIN st.registry \cap Services) \ st.instances

Missing(st) ==
  \E s \in Checked(st) : ~ (Range(st.registry[s]) \subseteq DOMAIN st.registry)

Short(st) == \E s \in Checked(st) : Len(st.registry[s]) < Arity[s]

\* The state of a search, without its stack.
Searches == [visited : SUBSET Services, cycle : BOOLEAN]

\* detectCycleFrom(), for a stack: from[t] is the same for a stack t.
Visit(reg, from, stack) ==
  [a \in Searches |-> [s \in Keys |->
     IF s \notin Services \cap DOMAIN reg THEN a
     ELSE IF s \in stack THEN [a EXCEPT !.cycle = TRUE]
     ELSE IF s \in a.visited THEN a
     ELSE Folded(from[stack \cup {s}], [a EXCEPT !.visited = @ \cup {s}], reg[s])]]

Circular(reg) ==
  LET from[stack \in SUBSET Services] == Visit(reg, from, stack)
  IN  Folded(from[{}], [visited |-> {}, cycle |-> FALSE],
             SetToSeq(DOMAIN reg \cap Services)).cycle

Validates(st) ==
  /\ ~ Missing(st)
  /\ ~ Short(st)
  /\ ~ Circular(st.registry)
  /\ wiring.installed

-----------------------------------------------------------------------------
(* Resolution.                                                              *)

\* What the beginning of a resolution finds: an instance, an error, or
\* something to construct.
Finds(reg, instances, resolving, k) ==
  IF k \in instances THEN "ok"
  ELSE IF k \notin Services THEN "missing"
  ELSE IF k \in resolving THEN "circular"
  ELSE IF k \notin DOMAIN reg THEN "missing"
  ELSE "new"

Found(st, k) == Finds(st.registry, st.instances, st.resolving, k)

\* How constructors end in one call of resolve(): the constructor that returns a
\* promise has run when that is noticed, and what it builds is thrown away.
Endings == [Services -> {"ok", "threw", "async"}]

Ends(throwing) ==
  [s \in Services |-> IF s \in throwing THEN "threw"
                      ELSE IF s \in wiring.async THEN "async" ELSE "ok"]

\* What a resolution has come to: built counts the constructions of an instance
\* that is kept, wasted has the services whose constructor ran for nothing.
Progress == [instances : SUBSET Keys, built : [Services -> Nat], wasted : SUBSET Services,
             out : {"ok", "missing", "circular", "threw", "async"}]

\* The constructor of k, if its dependencies are there.
Built(a, k, ending) ==
  IF a.out # "ok" THEN a
  ELSE IF ending = "async" THEN [a EXCEPT !.out = ending, !.wasted = @ \cup {k}]
  ELSE IF ending = "threw" THEN [a EXCEPT !.out = ending]
  ELSE [a EXCEPT !.instances = @ \cup {k}, !.built[k] = @ + 1]

\* resolve(), for a set of services being resolved: within[r] is the same for a
\* set r.  What throws ends the whole call.
Resolution(reg, ends, within, resolving) ==
  [a \in Progress |-> [k \in Keys |->
     LET found == Finds(reg, a.instances, resolving, k)
     IN  IF a.out # "ok" \/ found = "ok" THEN a
         ELSE IF found # "new" THEN [a EXCEPT !.out = found]
         ELSE Built(Folded(within[resolving \cup {k}], a, reg[k]), k, ends[k])]]

\* Calls of resolve() for keys in a row, until one of them throws.
Resolve(st, keys, ends) ==
  LET within[r \in SUBSET Services] == Resolution(st.registry, ends, within, r)
      done == Folded(within[st.resolving],
                     [instances |-> st.instances, built |-> st.built, wasted |-> st.wasted,
                      out |-> "ok"], keys)
  IN  [st  |-> [st EXCEPT !.instances = done.instances, !.built = done.built,
                          !.wasted = done.wasted],
       out |-> done.out]

\* A frame of resolveAsync(): what it still awaits, the first error it met, the
\* frame that awaits it.
Frames == [at : {"none", "deps", "ctor"}, left : SUBSET Services,
           bad : {"", "missing", "circular", "threw"}, parent : Services \cup {NoParent}]

Entrances == [resolving : SUBSET Services, frames : [Services -> Frames]]

\* A frame for s begins.
Begun(a, s, parent) ==
  [resolving |-> a.resolving \cup {s},
   frames |-> [a.frames EXCEPT
     ![s] = [at |-> "deps", left |-> {}, bad |-> "", parent |-> parent]]]

\* The frame of s has met an error.
Blamed(frames, s, error) ==
  [frames EXCEPT ![s] = [frames[s] EXCEPT
     !.bad = IF frames[s].bad = "" THEN error ELSE frames[s].bad]]

\* The frame of s awaits d.
Awaits(frames, s, d) == [frames EXCEPT ![s] = [frames[s] EXCEPT !.left = frames[s].left \cup {d}]]

\* The first part of resolveAsync() for a dependency of s, below a path of frames
\* that begin in the same turn, all of which are marked as resolving: below[q] is
\* the same for a path q.
Entrance(reg, instances, below, path) ==
  [s \in Services |->
     [a \in Entrances |-> [d \in Keys |->
        LET found == Finds(reg, instances, path \cup a.resolving, d)
        IN  IF found = "ok" THEN a
            ELSE IF found # "new"
            THEN [resolving |-> a.resolving, frames |-> Blamed(a.frames, s, found)]
            ELSE Folded(below[path \cup {d}][d],
                        Begun([resolving |-> a.resolving, frames |-> Awaits(a.frames, s, d)], d, s),
                        reg[d])]]]

\* resolveAsync(): the part up to the first await, for the service and, in
\* order, for every dependency that has to be constructed.
Enter(st, s) ==
  LET below[path \in SUBSET Services] == Entrance(st.registry, st.instances, below, path)
      start == Begun([resolving |-> st.resolving, frames |-> st.frames], s, NoParent)
      entered == Folded(below[{s}][s], start, st.registry[s])
  IN  [st EXCEPT !.resolving = entered.resolving, !.frames = entered.frames]

\* The end of a frame: the finally block, the instance, the waiting parent.
Leave(st, s, out) ==
  LET p == st.frames[s].parent
      frames == [st.frames EXCEPT ![s] = Idle]
      told == [frames EXCEPT ![p] = [frames[p] EXCEPT !.left = frames[p].left \ {s}]]
  IN  [st EXCEPT !.resolving = st.resolving \ {s},
                 !.instances = IF out = "ok" THEN st.instances \cup {s} ELSE st.instances,
                 !.frames = IF p = NoParent \/ s \notin st.frames[p].left THEN frames
                            ELSE IF out = "ok" THEN told ELSE Blamed(told, p, out)]

Answer(s, out) ==
  asked' = IF di.frames[s].parent = NoParent /\ asked[s].out = "pending"
           THEN [asked EXCEPT ![s].out = out] ELSE asked

\* S has, with a service that is still to be constructed, what that one depends on.
Closed(st, S) ==
  \A k \in (S \cap DOMAIN st.registry) \ st.instances : Range(st.registry[k]) \subseteq S

\* Everything at or below s that is still to be constructed.
Below(st, s) ==
  {d \in Services \ st.instances : \A S \in SUBSET Keys : s \in S /\ Closed(st, S) => d \in S}

\* No service below s is named twice as a dependency: nothing is shared.
IsTree(st, s) ==
  LET todo == Below(st, s) \cap DOMAIN st.registry
  IN  \A k, l \in todo : \A i \in DOMAIN st.registry[k], j \in DOMAIN st.registry[l] :
        st.registry[k][i] = st.registry[l][j] /\ st.registry[k][i] \in Below(st, s)
          => k = l /\ i = j

\* A call of resolveAsync(), by a hook or by code that was given the context.
ResolveAsync(s) ==
  LET found == Found(di, s) IN
  /\ asked' = [asked EXCEPT ![s] =
       [out   |-> IF found = "new" THEN "pending" ELSE found,
        alone |-> di.resolving = {} /\ (found = "new" => IsTree(di, s))]]
  /\ di' = IF found = "new" THEN Enter(di, s) ELSE di

\* One dependency was rejected: Promise.all rejects, whatever the others do.
Rejected(s) ==
  /\ di.frames[s].at = "deps"
  /\ di.frames[s].bad # ""
  /\ Answer(s, di.frames[s].bad)
  /\ di' = Leave(di, s, di.frames[s].bad)

\* Mutant: the promise of an asynchronous constructor is not awaited inside
\* the try block, so its service counts as resolved at once.
ConstructUnawaited(s) ==
  /\ di.frames[s].at = "deps"
  /\ di.frames[s].bad = ""
  /\ di.frames[s].left = {}
  /\ IF s \in wiring.async
     THEN /\ di' = [di EXCEPT !.frames[s].at = "ctor", !.resolving = @ \ {s}]
          /\ UNCHANGED asked
     ELSE /\ Answer(s, "ok")
          /\ di' = Leave([di EXCEPT !.built[s] = @ + 1], s, "ok")

\* All dependencies are there: the constructor runs.
Construct(s) ==
  /\ di.frames[s].at = "deps"
  /\ di.frames[s].bad = ""
  /\ di.frames[s].left = {}
  /\ IF s \in wiring.async
     THEN /\ di' = [di EXCEPT !.frames[s].at = "ctor"]
          /\ UNCHANGED asked
     ELSE /\ Answer(s, "ok")
          /\ di' = Leave([di EXCEPT !.built[s] = @ + 1], s, "ok")

\* The promise of an asynchronous constructor is fulfilled.
Constructed(s) ==
  /\ di.frames[s].at = "ctor"
  /\ Answer(s, "ok")
  /\ di' = Leave([di EXCEPT !.built[s] = @ + 1], s, "ok")

\* A constructor throws, or its promise is rejected.
ConstructorFails(s) ==
  /\ \/ di.frames[s].at = "ctor"
     \/ di.frames[s].at = "deps" /\ di.frames[s].bad = "" /\ di.frames[s].left = {}
  /\ Answer(s, "threw")
  /\ di' = Leave(di, s, "threw")

ResolutionStep ==
  \E s \in Services : Rejected(s) \/ Construct(s) \/ Constructed(s)

-----------------------------------------------------------------------------
\* A container on which nothing has been resolved, with the same registrations.
Fresh == RegisterProviders(Empty)

\* validate() accepts a graph exactly when every service in it can be resolved
\* by itself, if no constructor fails, and is given enough arguments: the
\* depth-first search of the validator and the recursion of resolve() agree on
\* every graph.
ValidationIsExact ==
  LET none == [s \in Services |-> "ok"]
      resolves(k) == Resolve(Fresh, <<k>>, none).out = "ok"
  IN  Validates(Fresh) <=> /\ \A k \in DOMAIN Fresh.registry : resolves(k)
                           /\ ~ Short(Fresh)
                           /\ wiring.installed

\* A service is constructed at most once however calls overlap, but for those
\* whose constructor returns a promise: resolve() runs it every time it is asked
\* for one that is not there yet, and throws the result away.  A service is
\* marked as resolving exactly while its frame is alive, so that a failure
\* leaves no mark that would refuse every later call as circular; and a call
\* that shares no dependency with another is never refused as circular.
Singletons ==
  /\ \A s \in Services : di.built[s] <= 1
  /\ di.wasted \subseteq wiring.async
  /\ di.resolving = {s \in Services : di.frames[s].at # "none"}
  /\ \A s \in Services : asked[s].alone /\ Validates(Fresh) => asked[s].out # "circular"

\* The container accepts what it can build, and keeps one instance of it.
ContainerIsSound == ValidationIsExact /\ Singletons
=============================================================================
