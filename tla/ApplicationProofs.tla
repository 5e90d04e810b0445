-------------------------- MODULE ApplicationProofs --------------------------
(***************************************************************************)
(* Proofs about the application and its dependency container, for every    *)
(* wiring: any registry of services, extensions, hooks, systems and        *)
(* budgets, however resolutions, failures, stops, signals and timeouts     *)
(* interleave.                                                             *)
(*                                                                         *)
(* The validator is exact: it walks the graph of dependencies with one set *)
(* of visited services and a stack, resolve() walks it again while it      *)
(* builds.  Both are recursions over the services that are left            *)
(* (RecursionExists); a service is Grounded when whatever it needs can be  *)
(* had without it.  A search without a cycle leaves only such services     *)
(* behind (FromExplores) and reports none where there are only such        *)
(* (FromAcquits); resolve() builds what is grounded (WithinSucceeds) and   *)
(* nothing else (WithinSound).                                             *)
(*                                                                         *)
(* That a caller who is alone is never told of a cycle is not inductive:   *)
(* nothing below it may have met a service under way (Pure).  Alive says   *)
(* which frame awaits which, and in a tree of dependencies, which is what  *)
(* being alone means, no service is met twice (BeneathStays).              *)
(*                                                                         *)
(* Orderly says little of the time before the server is open.  Course says *)
(* which stages of listen(), of the shutdown and of a call of stop() can   *)
(* be met together, and what is up by then; Filled says what the container *)
(* holds at each stage of listen().                                        *)
(***************************************************************************)
EXTENDS Application, SequenceTheorems, FiniteSetTheorems, WellFoundedInduction, TLAPS

\* A set of numbers that is not empty has a least one.
LEMMA LeastNumber ==
  ASSUME NEW T \in SUBSET Nat, T # {}
  PROVE  \E n \in T : \A m \in T : n <= m
<1>1. PICK n \in T : \A m \in T : ~ (<<m, n>> \in OpToRel(<, Nat))
  BY WFMin, NatLessThanWellFounded, Zenon
<1>2. \A m \in T : ~ (m < n)
  BY <1>1, Zenon DEF OpToRel
<1> QED
  BY <1>2

LEMMA MaxBounded ==
  ASSUME NEW b \in Nat, NEW T \in SUBSET (0 .. b), T # {}
  PROVE  Max(T) \in T /\ \A y \in T : y <= Max(T)
<1> DEFINE D == {b - y : y \in T}
<1>0. \A y \in T : y \in 0 .. b /\ b - y \in Nat
  OBVIOUS
<1>1. D \in SUBSET Nat /\ D # {}
  BY <1>0
<1>2. PICK n \in D : \A m \in D : n <= m
  BY ONLY <1>1, LeastNumber
<1>3. PICK x \in T : n = b - x
  BY <1>2
<1>4. \A y \in T : x >= y
  BY <1>2, <1>3
<1> QED
  BY <1>3, <1>4 DEF Max

-----------------------------------------------------------------------------
(* Folds, recursion over sets of services, and sequences of a set. *)

\* What Folded() goes through: from a, one key after the other.
IsPath(t, h, a, keys, A) ==
  /\ t \in [0 .. Len(keys) -> A] /\ t[0] = a
  /\ \A i \in 1 .. Len(keys) : t[i] = h[t[i - 1]][keys[i]]

\* Folded() is the end of such a path.
LEMMA FoldedPath ==
  ASSUME NEW A, NEW K, NEW h \in [A -> [K -> A]], NEW keys \in Seq(K), NEW a \in A
  PROVE  \E t : IsPath(t, h, a, keys, A) /\ Folded(h, a, keys) = t[Len(keys)]
<1> DEFINE L == Len(keys)
           Body(f, T) == IF T = {} THEN a ELSE h[f[T \ {Max(T)}]][keys[Max(T)]]
           Solves(f, n) == f = [T \in SUBSET (1 .. n) |-> Body(f, T)]
<1>1. L \in Nat /\ DOMAIN keys = 1 .. L /\ \A i \in 1 .. L : keys[i] \in K
  OBVIOUS
<1>c. Folded(h, a, keys) = FoldLeft(LAMBDA b, k : h[b][k], a, keys)
  BY DEF Folded
<1> HIDE DEF L
<1>0. 1 .. 0 = {}
  OBVIOUS
<1>2. \A n \in Nat : \A T \in SUBSET (1 .. n) :
        T # {} => /\ n - 1 \in Nat /\ n # 0
                  /\ T \ {Max(T)} \in SUBSET (1 .. n - 1)
                  /\ T \ {Max(T)} \in SUBSET (1 .. n)
  <2> TAKE n \in Nat
  <2> TAKE T \in SUBSET (1 .. n)
  <2> SUFFICES ASSUME T # {}
               PROVE  /\ n - 1 \in Nat /\ n # 0
                      /\ T \ {Max(T)} \in SUBSET (1 .. n - 1)
                      /\ T \ {Max(T)} \in SUBSET (1 .. n)
    OBVIOUS
  <2>1. T \in SUBSET (0 .. n)
    OBVIOUS
  <2>2. PICK m \in T : m = Max(T) /\ \A y \in T : y <= m
    BY <2>1, MaxBounded
  <2>3. \A y \in T : y # m => y \in 1 .. n - 1
    BY <2>2
  <2>4. n - 1 \in Nat /\ n # 0
    BY <2>2
  <2> QED
    BY <2>2, <2>3, <2>4
<1>3. \A n \in Nat : \E f : Solves(f, n)
  <2> DEFINE N == {n \in Nat : ~ \E f : Solves(f, n)}
  <2> SUFFICES ASSUME N # {} PROVE FALSE
    <3> HIDE DEF Solves
    <3> QED
      OBVIOUS
  <2>1. PICK n \in N : \A m \in N : n <= m
    <3>1. N \in SUBSET Nat
      OBVIOUS
    <3> QED
      BY ONLY <3>1, N # {}, LeastNumber
  <2>2. n \in Nat /\ \A m \in Nat : m < n => \E f : Solves(f, m)
    <3> HIDE DEF Solves
    <3>1. \A m \in Nat : ~ (\E f : Solves(f, m)) => n <= m
      BY <2>1
    <3> QED
      BY <3>1
  <2>3. CASE n = 0
    <3> DEFINE g == [T \in SUBSET (1 .. 0) |-> a]
    <3>1. \A T \in SUBSET (1 .. 0) : T = {}
      BY ONLY <1>0, Zenon
    <3>2. Solves(g, 0)
      BY <3>1
    <3> QED
      BY <3>2, <2>1, <2>3
  <2>4. CASE n # 0
    <3>1. n - 1 \in Nat /\ n - 1 < n
      <4> HIDE DEF N, Solves, Body
      <4> QED
        BY <2>2, <2>4
    <3>2. PICK f : Solves(f, n - 1)
      BY <3>1, <2>2
    <3> DEFINE g == [T \in SUBSET (1 .. n) |->
                       IF T \in SUBSET (1 .. n - 1) THEN f[T] ELSE Body(f, T)]
    <3>3. \A T \in SUBSET (1 .. n) : T # {} => g[T \ {Max(T)}] = f[T \ {Max(T)}]
      BY <1>2, <2>2
    <3>4. \A T \in SUBSET (1 .. n - 1) : f[T] = Body(f, T)
      BY <3>2
    <3>5. \A T \in SUBSET (1 .. n) : g[T] = Body(f, T)
      <4> HIDE DEF Body
      <4> QED
        BY <3>4
    <3>6. \A T \in SUBSET (1 .. n) : g[T] = Body(g, T)
      <4> HIDE DEF g
      <4> QED
        BY <3>3, <3>5
    <3>7. Solves(g, n)
      <4>1. g = [T \in SUBSET (1 .. n) |-> g[T]]
        OBVIOUS
      <4> HIDE DEF g, Body
      <4> QED
        BY <4>1, <3>6
    <3> QED
      BY <3>7, <2>1
  <2> QED
    BY <2>3, <2>4
<1> DEFINE f == CHOOSE x : x = [T \in SUBSET (1 .. L) |-> Body(x, T)]
<1>4. f = [T \in SUBSET (1 .. L) |-> Body(f, T)]
  <2> HIDE DEF Body
  <2>1. \E x : x = [T \in SUBSET (1 .. L) |-> Body(x, T)]
    BY <1>1, <1>3
  <2> QED
    BY <2>1
<1>5. Folded(h, a, keys) = f[1 .. L]
  BY <1>1, <1>c DEF FoldLeft, MapThenFoldSet
<1> HIDE DEF f
<1>6. \A i \in 1 .. L : f[1 .. i] = h[f[1 .. i - 1]][keys[i]]
  <2> TAKE i \in 1 .. L
  <2>1. i \in Nat /\ 1 .. i \in SUBSET (1 .. L) /\ 1 .. i \in SUBSET (0 .. i) /\ i \in 1 .. i
    BY <1>1
  <2>2. Max(1 .. i) \in 1 .. i /\ \A y \in 1 .. i : y <= Max(1 .. i)
    BY <2>1, MaxBounded
  <2>3. Max(1 .. i) = i
    BY <2>1, <2>2
  <2>a. i \in Nat /\ i \in 1 .. i
    BY <2>1
  <2>b. \A y : y \in 1 .. i - 1 <=> y \in 1 .. i /\ y # i
    BY ONLY <2>a
  <2>4. (1 .. i) \ {i} = 1 .. i - 1 /\ 1 .. i # {}
    BY ONLY <2>a, <2>b, Zenon
  <2>5. 1 .. i \in SUBSET (1 .. L)
    BY <2>1
  <2>6. f[1 .. i] = Body(f, 1 .. i)
    <3> HIDE DEF Body
    <3> QED
      BY ONLY <1>4, <2>5
  <2>7. Body(f, 1 .. i) = h[f[1 .. i - 1]][keys[i]]
    BY ONLY <2>3, <2>4 DEF Body
  <2> QED
    BY ONLY <2>6, <2>7
<1>7. f[1 .. 0] = a
  <2>1. 1 .. 0 \in SUBSET (1 .. L)
    BY <1>0
  <2> QED
    BY <1>0, <1>4, <2>1
<1>8. \A i \in 0 .. L : f[1 .. i] \in A
  <2> DEFINE N == {i \in 0 .. L : f[1 .. i] \notin A}
  <2> SUFFICES ASSUME N # {} PROVE FALSE
    OBVIOUS
  <2>1. PICK n \in N : \A m \in N : n <= m
    <3>1. N \in SUBSET Nat
      BY <1>1
    <3> QED
      BY ONLY <3>1, N # {}, LeastNumber
  <2>2. n # 0
    BY <1>7, <2>1
  <2>3. n - 1 \in 0 .. L /\ n \in 1 .. L /\ ~ (n <= n - 1)
    BY <1>1, <2>1, <2>2
  <2>4. f[1 .. n - 1] \in A /\ keys[n] \in K
    BY <1>1, <2>1, <2>3
  <2> QED
    BY <1>6, <2>1, <2>3, <2>4
<1> DEFINE t == [i \in 0 .. L |-> f[1 .. i]]
<1>9. \A i \in 1 .. L : i \in 0 .. L /\ i - 1 \in 0 .. L
  BY <1>1
<1>10. L \in 0 .. L /\ 0 \in 0 .. L
  BY <1>1
<1>11. IsPath(t, h, a, keys, A)
  BY <1>6, <1>7, <1>8, <1>9, <1>10 DEF IsPath, L
<1> QED
  BY <1>5, <1>10, <1>11 DEF L

\* A claim that holds of a, and of each step of the path, holds at the end of it.  (Every
\* number for which it does not has a least one below it.)
LEMMA LeastStep ==
  ASSUME NEW n \in Nat, NEW T \in SUBSET (0 .. n), 0 \notin T, T # {}
  PROVE  \E i \in 1 .. n : i \in T /\ i - 1 \in 0 .. n /\ i - 1 \notin T
<1>1. T \in SUBSET Nat
  OBVIOUS
<1>2. PICK i \in T : \A m \in T : i <= m
  BY ONLY <1>1, T # {}, LeastNumber
<1>3. i \in 1 .. n /\ i - 1 \in 0 .. n /\ ~ (i <= i - 1)
  BY <1>2
<1> QED
  BY <1>2, <1>3

\* What is not in R yet: recursion over a growing set of services ends with it.
Left(R) == Cardinality(Services \ R)

LEMMA LeftShrinks ==
  ASSUME NEW R \in SUBSET Services
  PROVE  Left(R) \in Nat /\ \A s \in Services \ R : Left(R \union {s}) < Left(R)
<1>1. IsFiniteSet(Services \ R)
  BY ContainerAssumption, FS_Subset
<1>2. Left(R) \in Nat
  BY <1>1, FS_CardinalityType DEF Left
<1>3. ASSUME NEW s \in Services \ R PROVE Left(R \union {s}) < Left(R)
  <2>1. Services \ (R \union {s}) = (Services \ R) \ {s}
    OBVIOUS
  <2>2. Left(R \union {s}) = Left(R) - 1
    BY <1>1, <2>1, FS_RemoveElement DEF Left
  <2> QED
    BY <1>2, <2>2
<1> QED
  BY <1>2, <1>3

\* Of sets of which a claim fails there is one whose larger ones it holds of.
LEMMA LargestFirst ==
  ASSUME NEW T \in SUBSET (SUBSET Services), T # {}
  PROVE  \E R \in T : \A s \in Services \ R : R \union {s} \notin T
<1> DEFINE N == {Left(R) : R \in T}
<1>1. N \in SUBSET Nat /\ N # {}
  BY LeftShrinks
<1>2. PICK n \in N : \A m \in N : n <= m
  BY ONLY <1>1, LeastNumber
<1>3. PICK R \in T : n = Left(R)
  BY <1>2
<1>4. ASSUME NEW s \in Services \ R PROVE R \union {s} \notin T
  <2>1. Left(R) \in Nat /\ Left(R \union {s}) \in Nat /\ Left(R \union {s}) < Left(R)
    BY LeftShrinks
  <2>2. R \union {s} \in T => n <= Left(R \union {s})
    BY <1>2
  <2> QED
    BY <1>3, <2>1, <2>2
<1> QED
  BY <1>4

\* The value G gives a function for a set needs only its values for larger ones.
Growing(V, G) ==
  /\ G \in [(SUBSET Services) \X [SUBSET Services -> V] -> V]
  /\ \A R \in SUBSET Services : \A f, g \in [SUBSET Services -> V] :
       (\A s \in Services \ R : f[R \union {s}] = g[R \union {s}]) => G[R, f] = G[R, g]

HasSolution(V, G) ==
  \E f \in [SUBSET Services -> V] : \A R \in SUBSET Services : f[R] = G[R, f]

\* A function whose value for a set needs only those for larger ones can be defined.
LEMMA RecursionExists ==
  ASSUME NEW V, NEW v, v \in V, NEW G, Growing(V, G)
  PROVE  HasSolution(V, G)
<1> DEFINE All == SUBSET Services
           Solves(f, n) == \A R \in All : Left(R) < n => f[R] = G[R, f]
           Solvable(n) == \E f \in [All -> V] : Solves(f, n)
<1>0. /\ G \in [All \X [All -> V] -> V]
      /\ \A R \in All : \A f, g \in [All -> V] :
           (\A s \in Services \ R : f[R \union {s}] = g[R \union {s}]) => G[R, f] = G[R, g]
  BY DEF Growing
<1>1. \A n \in Nat : Solvable(n)
  <2> HIDE DEF Solvable
  <2> DEFINE N == {n \in Nat : ~ Solvable(n)}
  <2> SUFFICES ASSUME N # {} PROVE FALSE
    OBVIOUS
  <2>1. PICK n \in N : \A m \in N : n <= m
    <3>1. N \in SUBSET Nat
      OBVIOUS
    <3> QED
      BY ONLY <3>1, N # {}, LeastNumber
  <2>2. n \in Nat /\ ~ Solvable(n) /\ \A m \in Nat : m < n => Solvable(m)
    BY ONLY <2>1
  <2> HIDE DEF N
  <2>3. CASE n = 0
    <3>1. [R \in All |-> v] \in [All -> V]
      OBVIOUS
    <3>2. \A R \in All : ~ (Left(R) < 0)
      BY ONLY LeftShrinks
    <3>3. Solvable(0)
      BY <3>1, <3>2 DEF Solvable
    <3> QED
      BY <2>2, <2>3, <3>3
  <2>4. CASE n # 0
    <3>1. n - 1 \in Nat /\ n - 1 < n
      BY ONLY <2>2, <2>4
    <3>2. PICK f \in [All -> V] : Solves(f, n - 1)
      BY <2>2, <3>1 DEF Solvable
    <3> DEFINE g == [R \in All |-> IF Left(R) < n - 1 THEN f[R] ELSE G[R, f]]
    <3>3. g \in [All -> V]
      BY <1>0
    <3>4. \A R \in All : g[R] = G[R, f]
      BY <3>2
    <3>5. ASSUME NEW R \in All, Left(R) < n PROVE g[R] = G[R, g]
      <4>1. ASSUME NEW s \in Services \ R PROVE f[R \union {s}] = g[R \union {s}]
        <5>0. Left(R) \in Nat /\ Left(R \union {s}) \in Nat /\ Left(R \union {s}) < Left(R)
          BY LeftShrinks
        <5>1. R \union {s} \in All /\ Left(R \union {s}) < n - 1
          BY ONLY <2>2, <3>5, <5>0
        <5> QED
          BY <5>1
      <4> HIDE DEF g
      <4>2. G[R, f] = G[R, g]
        BY <1>0, <3>3, <4>1
      <4> QED
        BY <3>4, <4>2
    <3> HIDE DEF g
    <3>6. Solves(g, n)
      BY <3>5
    <3>7. Solvable(n)
      BY <3>3, <3>6 DEF Solvable
    <3> QED
      BY <2>2, <3>7
  <2> QED
    BY <2>3, <2>4
<1>2. Left({}) + 1 \in Nat /\ \A R \in All : Left(R) < Left({}) + 1
  <2>1. ASSUME NEW R \in All PROVE Left(R) <= Left({})
    <3>1. IsFiniteSet(Services) /\ Services \ R \in SUBSET Services /\ Services \ {} = Services
      BY ContainerAssumption
    <3> QED
      BY ONLY <3>1, FS_Subset DEF Left
  <2>2. \A R \in All : Left(R) \in Nat
    BY LeftShrinks
  <2>3. {} \in All
    OBVIOUS
  <2> HIDE DEF All
  <2> QED
    BY ONLY <2>1, <2>2, <2>3
<1>3. PICK f \in [All -> V] : Solves(f, Left({}) + 1)
  <2>1. Solvable(Left({}) + 1)
    BY <1>1, <1>2
  <2> QED
    BY <2>1
<1> QED
  BY <1>2, <1>3 DEF HasSolution

\* The sequence of a set has just its elements.
LEMMA SeqOfSet ==
  ASSUME NEW S, IsFiniteSet(S)
  PROVE  SetToSeq(S) \in Seq(S) /\ Range(SetToSeq(S)) = S
<1> DEFINE n == Cardinality(S)
<1>1. n \in Nat /\ ExistsBijection(1 .. n, S)
  BY FS_CardinalityType
<1>2. PICK b : b \in Bijection(1 .. n, S)
  BY <1>1 DEF ExistsBijection
<1>3. b \in [1 .. n -> S] /\ IsInjective(b)
  BY <1>2 DEF Bijection, Injection, IsInjective
<1>4. PICK q : q = SetToSeq(S)
  OBVIOUS
<1>5. q \in [1 .. n -> S] /\ IsInjective(q)
  BY <1>3, <1>4 DEF SetToSeq
<1>6. q \in Injection(1 .. n, S)
  BY <1>5 DEF Injection, IsInjective
<1>7. IsFiniteSet(1 .. n) /\ Cardinality(1 .. n) = n
  BY <1>1, FS_Interval
<1>8. q \in Surjection(1 .. n, S)
  BY <1>6, <1>7, FS_Injection
<1>9. \A s \in S : \E i \in 1 .. n : q[i] = s
  BY <1>8 DEF Surjection
<1>10. Range(q) = S
  BY <1>5, <1>9 DEF Range
<1>11. q \in Seq(S)
  BY <1>1, <1>5
<1> QED
  BY <1>4, <1>10, <1>11

-----------------------------------------------------------------------------
(* resolve(). *)

\* What the container knows: of each key, the list of what it depends on.
Registry(reg) == DOMAIN reg \subseteq Keys /\ reg \in [DOMAIN reg -> Seq(Keys)]

Resolvers == [Progress -> [Keys -> Progress]]

LEMMA ProgressPath ==
  ASSUME NEW h \in Resolvers, NEW keys \in Seq(Keys), NEW a \in Progress
  PROVE  /\ \E t : IsPath(t, h, a, keys, Progress) /\ Folded(h, a, keys) = t[Len(keys)]
         /\ Folded(h, a, keys) \in Progress
<1>0. h \in [Progress -> [Keys -> Progress]]
  BY DEF Resolvers
<1>1. \E t : IsPath(t, h, a, keys, Progress) /\ Folded(h, a, keys) = t[Len(keys)]
  BY ONLY <1>0, keys \in Seq(Keys), a \in Progress, FoldedPath
<1>2. Len(keys) \in 0 .. Len(keys)
  OBVIOUS
<1> QED
  BY <1>1, <1>2 DEF IsPath

\* What resolveInternalSync() does with a key it looks at.
LEMMA ResolutionAt ==
  ASSUME NEW reg, NEW ends, NEW f, NEW R, NEW a \in Progress, NEW k \in Keys,
         NEW found, found = Finds(reg, a.instances, R, k)
  PROVE  Resolution(reg, ends, f, R)[a][k] =
           IF a.out # "ok" \/ found = "ok" THEN a
           ELSE IF found # "new" THEN [a EXCEPT !.out = found]
           ELSE Built(Folded(f[R \union {k}], a, reg[k]), k, ends[k])
BY DEF Resolution

\* What a constructor is looked for: a registered class that is not there yet.
LEMMA FindsNew ==
  ASSUME NEW reg, NEW instances, NEW R, NEW k, Finds(reg, instances, R, k) = "new"
  PROVE  k \in Services \ R /\ k \in DOMAIN reg /\ k \notin instances
BY DEF Finds

LEMMA FindsOk ==
  ASSUME NEW reg, NEW instances, NEW R, NEW k
  PROVE  /\ Finds(reg, instances, R, k) \in {"ok", "missing", "circular", "new"}
         /\ Finds(reg, instances, R, k) = "ok" <=> k \in instances
BY DEF Finds

LEMMA BuiltType ==
  ASSUME NEW a \in Progress, NEW k \in Services, NEW e \in {"ok", "threw", "async"}
  PROVE  /\ Built(a, k, e) \in Progress
         /\ Built(a, k, e).out = "ok" => a.out = "ok" /\ e = "ok"
         /\ a.out = "ok" /\ e = "ok" =>
              /\ Built(a, k, e).out = "ok"
              /\ Built(a, k, e).instances = a.instances \union {k}
              /\ Built(a, k, e).built = [a.built EXCEPT ![k] = @ + 1]
         /\ ~ (a.out = "ok" /\ e = "ok") =>
              Built(a, k, e).instances = a.instances /\ Built(a, k, e).built = a.built
         /\ Built(a, k, e).wasted \subseteq
              a.wasted \union (IF e = "async" THEN {k} ELSE {})
<1>1. /\ a.instances \in SUBSET Keys /\ a.built \in [Services -> Nat] /\ k \in Keys
      /\ a.wasted \in SUBSET Services
      /\ a.out \in {"ok", "missing", "circular", "threw", "async"}
      /\ a = [instances |-> a.instances, built |-> a.built, wasted |-> a.wasted, out |-> a.out]
  BY DEF Progress, Keys
<1>2. CASE a.out # "ok"
  BY <1>1, <1>2 DEF Built
<1>3. CASE a.out = "ok" /\ e # "ok"
  <2>1. Built(a, k, e) = [instances |-> a.instances, built |-> a.built,
                         wasted |-> IF e = "async" THEN a.wasted \cup {k} ELSE a.wasted, out |-> e]
    BY <1>1, <1>3 DEF Built
  <2> QED
    BY <1>1, <1>3, <2>1 DEF Progress
<1>4. CASE a.out = "ok" /\ e = "ok"
  <2> DEFINE b == [a.built EXCEPT ![k] = @ + 1]
  <2>1. Built(a, k, e) = [instances |-> a.instances \union {k}, built |-> b, wasted |-> a.wasted, out |-> "ok"]
    BY <1>1, <1>4 DEF Built
  <2>2. b \in [Services -> Nat]
    BY <1>1
  <2>3. a.instances \union {k} \in SUBSET Keys
    BY <1>1
  <2> HIDE DEF b
  <2>4. Built(a, k, e) \in Progress
    BY <2>1, <2>2, <2>3 DEF Progress
  <2> QED
    BY <1>4, <2>1, <2>4 DEF b
<1> QED
  BY <1>2, <1>3, <1>4

LEMMA ResolutionType ==
  ASSUME NEW reg, Registry(reg), NEW ends \in Endings, NEW R \in SUBSET Services,
         NEW f, \A s \in Services \ R : f[R \union {s}] \in Resolvers
  PROVE  Resolution(reg, ends, f, R) \in Resolvers
<1> DEFINE r == Resolution(reg, ends, f, R)
<1>1. ASSUME NEW a \in Progress, NEW k \in Keys PROVE r[a][k] \in Progress
  <2>1. PICK found : found = Finds(reg, a.instances, R, k)
    OBVIOUS
  <2>2. r[a][k] = IF a.out # "ok" \/ found = "ok" THEN a
                  ELSE IF found # "new" THEN [a EXCEPT !.out = found]
                  ELSE Built(Folded(f[R \union {k}], a, reg[k]), k, ends[k])
    BY <2>1, ResolutionAt
  <2> HIDE DEF r
  <2>3. CASE a.out # "ok" \/ found = "ok"
    BY <2>2, <2>3
  <2>4. CASE a.out = "ok" /\ found \notin {"ok", "new"}
    <3>1. r[a][k] = [a EXCEPT !.out = found]
      BY <2>2, <2>4
    <3>2. found \in {"missing", "circular"}
      BY <2>1, <2>4, FindsOk
    <3> QED
      BY <3>1, <3>2 DEF Progress
  <2>5. CASE a.out = "ok" /\ found = "new"
    <3>0. Finds(reg, a.instances, R, k) = "new"
      BY <2>1, <2>5
    <3>1. k \in Services \ R /\ k \in DOMAIN reg
      BY ONLY <3>0, FindsNew
    <3>2. PICK g, q, b : g = f[R \union {k}] /\ q = reg[k] /\ b = Folded(g, a, q)
      OBVIOUS
    <3>3. g \in Resolvers /\ q \in Seq(Keys)
      BY <3>1, <3>2 DEF Registry
    <3>4. Folded(g, a, q) \in Progress
      BY ONLY <3>3, a \in Progress, ProgressPath
    <3>5. b \in Progress
      BY <3>2, <3>4
    <3>6. ends[k] \in {"ok", "threw", "async"}
      BY <3>1 DEF Endings
    <3>7. r[a][k] = Built(b, k, ends[k])
      BY <2>2, <2>5, <3>2
    <3>8. Built(b, k, ends[k]) \in Progress
      BY ONLY <3>1, <3>5, <3>6, BuiltType
    <3> QED
      BY ONLY <3>7, <3>8
  <2> QED
    BY <2>3, <2>4, <2>5
<1>2. r = [a \in Progress |-> [k \in Keys |-> r[a][k]]]
  BY DEF Resolution
<1> HIDE DEF r
<1>3. [a \in Progress |-> [k \in Keys |-> r[a][k]]] \in Resolvers
  BY <1>1 DEF Resolvers
<1> QED
  BY <1>2, <1>3 DEF r

\* A resolution looks at the resolutions with one more service under way only.
LEMMA ResolutionSame ==
  ASSUME NEW reg, NEW ends, NEW R \in SUBSET Services, NEW f, NEW g,
         \A s \in Services \ R : f[R \union {s}] = g[R \union {s}]
  PROVE  Resolution(reg, ends, f, R) = Resolution(reg, ends, g, R)
<1>1. \A a \in Progress, k \in Keys :
        Finds(reg, a.instances, R, k) = "new" => f[R \union {k}] = g[R \union {k}]
  BY FindsNew
<1> QED
  BY <1>1 DEF Resolution

\* The recursion of resolve() has a solution, and TLA+ takes one.
Within(reg, ends) == CHOOSE f : f = [r \in SUBSET Services |-> Resolution(reg, ends, f, r)]

\* The recursion of resolve() has a solution, which is of its type.
LEMMA WithinIs ==
  ASSUME NEW reg, Registry(reg), NEW ends \in Endings, NEW w,
         w = Within(reg, ends)
  PROVE  /\ w \in [SUBSET Services -> Resolvers]
         /\ \A r \in SUBSET Services : w[r] = Resolution(reg, ends, w, r)
<1> DEFINE All == SUBSET Services
           G == [x \in All \X [All -> Resolvers] |-> Resolution(reg, ends, x[2], x[1])]
<1>1. ASSUME NEW R \in All, NEW f \in [All -> Resolvers]
      PROVE  Resolution(reg, ends, f, R) \in Resolvers
  <2>1. \A s \in Services \ R : f[R \union {s}] \in Resolvers
    OBVIOUS
  <2> QED
    BY <2>1, ResolutionType
<1>2. \A R \in All, f \in [All -> Resolvers] : G[R, f] = Resolution(reg, ends, f, R)
  OBVIOUS
<1>3. G \in [All \X [All -> Resolvers] -> Resolvers]
  BY <1>1
<1> HIDE DEF G
<1>4. ASSUME NEW R \in All, NEW f \in [All -> Resolvers], NEW g \in [All -> Resolvers],
             \A s \in Services \ R : f[R \union {s}] = g[R \union {s}]
      PROVE  G[R, f] = G[R, g]
  <2>1. Resolution(reg, ends, f, R) = Resolution(reg, ends, g, R)
    BY ONLY R \in SUBSET Services, <1>4, ResolutionSame
  <2> QED
    BY <1>2, <2>1
<1>5. PICK v : v \in Resolvers
  <2>1. [a \in Progress |-> [k \in Keys |-> a]] \in Resolvers
    BY DEF Resolvers
  <2> QED
    BY <2>1
<1>6. \E f \in [All -> Resolvers] : \A R \in All : f[R] = G[R, f]
  <2>1. PICK V, H : V = Resolvers /\ H = G
    OBVIOUS
  <2>2. v \in V
    BY <1>5, <2>1
  <2>3. Growing(V, H)
    <3>1. H \in [All \X [All -> V] -> V]
      BY <1>3, <2>1
    <3>2. ASSUME NEW R \in All, NEW f \in [All -> V], NEW g \in [All -> V],
                 \A s \in Services \ R : f[R \union {s}] = g[R \union {s}]
          PROVE  H[R, f] = H[R, g]
      <4>1. f \in [All -> Resolvers] /\ g \in [All -> Resolvers]
        BY ONLY <2>1, f \in [All -> V], g \in [All -> V]
      <4>2. G[R, f] = G[R, g]
        BY ONLY <1>4, <3>2, <4>1
      <4> QED
        BY ONLY <2>1, <4>2
    <3> QED
      BY ONLY <3>1, <3>2, Zenon DEF Growing
  <2>4. HasSolution(V, H)
    BY ONLY <2>2, <2>3, RecursionExists
  <2> QED
    BY <2>1, <2>4 DEF HasSolution
<1>7. PICK f \in [All -> Resolvers] : \A R \in All : f[R] = Resolution(reg, ends, f, R)
  BY <1>2, <1>6
<1>8. f = [r \in All |-> Resolution(reg, ends, f, r)]
  BY <1>7
<1>9. w = [r \in All |-> Resolution(reg, ends, w, r)]
  BY <1>8 DEF Within
<1>10. \A R \in All : w[R] = Resolution(reg, ends, w, R)
  BY <1>9
<1>11. \A R \in All : w[R] \in Resolvers
  <2> DEFINE T == {R \in All : w[R] \notin Resolvers}
  <2> SUFFICES ASSUME T # {} PROVE FALSE
    OBVIOUS
  <2>1. PICK R \in T : \A s \in Services \ R : R \union {s} \notin T
    <3>1. T \in SUBSET (SUBSET Services)
      OBVIOUS
    <3> QED
      BY ONLY <3>1, T # {}, LargestFirst
  <2>2. \A s \in Services \ R : w[R \union {s}] \in Resolvers
    BY <2>1
  <2>3. Resolution(reg, ends, w, R) \in Resolvers
    BY <2>1, <2>2, ResolutionType
  <2> QED
    BY <1>10, <2>1, <2>3
<1>12. DOMAIN w = All
  BY <1>9
<1> QED
  BY <1>9, <1>10, <1>11, <1>12

\* The members of A need nothing that is not in A.
ClosedIn(reg, A) == A \subseteq DOMAIN reg /\ \A x \in A : Range(reg[x]) \subseteq A

\* Whatever v needs can be had without v.
Grounded(reg, v) ==
  \E A \in SUBSET Keys : ClosedIn(reg, A) /\ v \notin A /\ Range(reg[v]) \subseteq A

\* The members of I have in I all that they depend on, and are grounded.
Settled(reg, I) == ClosedIn(reg, I) /\ \A x \in I \intersect Services : Grounded(reg, x)

\* Each constructor ran once where there is an instance, and else never.
OnceBuilt(a) == \A s \in Services : a.built[s] = IF s \in a.instances THEN 1 ELSE 0

\* Only a constructor that returns a promise ends as one does.
OnlyAsync(ends) == \A x \in Services : ends[x] = "async" => x \in wiring.async

\* b is what resolutions may make of a while those of R are under way.
Follows(reg, R, a, b) ==
  /\ a.instances \subseteq b.instances /\ b.instances \intersect R \subseteq a.instances
  /\ b.out = "ok" => a.out = "ok"
  /\ OnceBuilt(a) => OnceBuilt(b)
  /\ b.wasted \subseteq a.wasted \union wiring.async
  /\ Settled(reg, a.instances) => Settled(reg, b.instances)

Resolves(reg, R, h) ==
  \A a \in Progress : \A k \in Keys :
    Follows(reg, R, a, h[a][k]) /\ (h[a][k].out = "ok" => k \in h[a][k].instances)

LEMMA FollowsTwice ==
  ASSUME NEW reg, NEW R, NEW a, NEW b, NEW c, Follows(reg, R, a, b), Follows(reg, R, b, c)
  PROVE  Follows(reg, R, a, c)
BY DEF Follows

\* A list of dependencies that is resolved in order leaves what one of them leaves.
LEMMA FoldedFollows ==
  ASSUME NEW reg, NEW R, NEW h \in Resolvers, Resolves(reg, R, h),
         NEW keys \in Seq(Keys), NEW a \in Progress, NEW b, b = Folded(h, a, keys)
  PROVE  /\ b \in Progress /\ Follows(reg, R, a, b)
         /\ b.out = "ok" => Range(keys) \subseteq b.instances
<1> DEFINE n == Len(keys)
<1>1. n \in Nat /\ DOMAIN keys = 1 .. n /\ \A i \in 1 .. n : keys[i] \in Keys
  OBVIOUS
<1>2. PICK t : IsPath(t, h, a, keys, Progress) /\ b = t[n]
  BY ProgressPath
<1> HIDE DEF n
<1>3. /\ t \in [0 .. n -> Progress] /\ t[0] = a
      /\ \A i \in 1 .. n : t[i] = h[t[i - 1]][keys[i]]
  BY <1>2 DEF IsPath, n
<1> DEFINE Good(i) == /\ Follows(reg, R, a, t[i])
                      /\ t[i].out = "ok" => \A j \in 1 .. i : keys[j] \in t[i].instances
           T == {i \in 0 .. n : ~ Good(i)}
<1>4. T = {}
  <2> SUFFICES ASSUME T # {} PROVE FALSE
    OBVIOUS
  <2>1. Good(0)
    BY <1>3 DEF Follows
  <2>2. PICK i \in 1 .. n : i \in T /\ i - 1 \in 0 .. n /\ i - 1 \notin T
    <3>1. T \in SUBSET (0 .. n) /\ 0 \notin T
      BY <2>1
    <3> HIDE DEF T
    <3> QED
      BY <1>1, <3>1, LeastStep
  <2>3. Good(i - 1) /\ ~ Good(i)
    BY <2>2
  <2>4. t[i] = h[t[i - 1]][keys[i]] /\ t[i - 1] \in Progress /\ keys[i] \in Keys
    BY <1>1, <1>3, <2>2
  <2>5. Follows(reg, R, t[i - 1], t[i]) /\ (t[i].out = "ok" => keys[i] \in t[i].instances)
    BY <2>4 DEF Resolves
  <2>6. Follows(reg, R, a, t[i])
    BY <2>3, <2>5, FollowsTwice
  <2>7. ASSUME t[i].out = "ok", NEW j \in 1 .. i PROVE keys[j] \in t[i].instances
    <3>1. t[i - 1].out = "ok" /\ t[i - 1].instances \subseteq t[i].instances
      BY <2>5, <2>7 DEF Follows
    <3>2. j = i \/ j \in 1 .. i - 1
      BY <1>1, <2>2
    <3> QED
      BY <2>3, <2>5, <2>7, <3>1, <3>2
  <2> QED
    BY <2>3, <2>6, <2>7
<1>5. n \in 0 .. n
  BY <1>1
<1>6. Good(n) /\ t[n] \in Progress
  BY <1>3, <1>4, <1>5
<1> QED
  BY <1>1, <1>2, <1>6 DEF Range


\* The constructor of k after its dependencies.
LEMMA BuiltFollows ==
  ASSUME NEW reg, Registry(reg), NEW R \in SUBSET Services, NEW a \in Progress, NEW c \in Progress,
         NEW k \in Services \ R, k \in DOMAIN reg, k \notin a.instances,
         Follows(reg, R \union {k}, a, c),
         c.out = "ok" => Range(reg[k]) \subseteq c.instances,
         NEW e \in {"ok", "threw", "async"}, e = "async" => k \in wiring.async
  PROVE  /\ Follows(reg, R, a, Built(c, k, e))
         /\ Built(c, k, e).out = "ok" => k \in Built(c, k, e).instances
<1> PICK b : b = Built(c, k, e)
  OBVIOUS
<1>0. /\ b \in Progress
      /\ b.out = "ok" => c.out = "ok" /\ e = "ok"
      /\ c.out = "ok" /\ e = "ok" =>
           b.instances = c.instances \union {k} /\ b.built = [c.built EXCEPT ![k] = @ + 1]
      /\ ~ (c.out = "ok" /\ e = "ok") => b.instances = c.instances /\ b.built = c.built
      /\ b.wasted \subseteq c.wasted \union (IF e = "async" THEN {k} ELSE {})
  BY BuiltType
<1>1. /\ Follows(reg, R, a, c) /\ k \notin c.instances
      /\ b.wasted \subseteq a.wasted \union wiring.async
  BY <1>0 DEF Follows
<1>2. CASE ~ (c.out = "ok" /\ e = "ok")
  <2>1. b.out # "ok" /\ b.instances = c.instances /\ b.built = c.built
    BY <1>0, <1>2
  <2> QED
    BY <1>1, <2>1 DEF Follows, OnceBuilt
<1>3. CASE c.out = "ok" /\ e = "ok"
  <2>1. b.instances = c.instances \union {k} /\ b.built = [c.built EXCEPT ![k] = @ + 1]
    BY <1>0, <1>3
  <2>2. OnceBuilt(a) => OnceBuilt(b)
    <3> SUFFICES ASSUME OnceBuilt(a) PROVE OnceBuilt(b)
      OBVIOUS
    <3>1. OnceBuilt(c)
      BY <1>1 DEF Follows
    <3>2. c.built \in [Services -> Nat] /\ c.built[k] = 0
      BY <1>1, <3>1 DEF OnceBuilt, Progress
    <3> QED
      BY <2>1, <3>1, <3>2 DEF OnceBuilt
  <2>3. Settled(reg, a.instances) => Settled(reg, b.instances)
    <3> SUFFICES ASSUME Settled(reg, a.instances) PROVE Settled(reg, b.instances)
      OBVIOUS
    <3>1. Settled(reg, c.instances) /\ Range(reg[k]) \subseteq c.instances
      BY <1>1, <1>3 DEF Follows
    <3>2. c.instances \subseteq Keys
      BY DEF Progress
    <3>3. Grounded(reg, k)
      BY <1>1, <3>1, <3>2 DEF Settled, Grounded
    <3>4. ClosedIn(reg, b.instances)
      BY <2>1, <3>1 DEF Settled, ClosedIn
    <3>5. \A x \in b.instances \intersect Services : Grounded(reg, x)
      BY <2>1, <3>1, <3>3 DEF Settled
    <3> QED
      BY <3>4, <3>5 DEF Settled
  <2> QED
    BY <1>1, <1>3, <2>1, <2>2, <2>3 DEF Follows
<1> QED
  BY <1>2, <1>3

\* Every resolution below a set of services leaves those of the set alone, and gives what it
\* is asked for an instance or throws.
LEMMA WithinSound ==
  ASSUME NEW reg, Registry(reg), NEW ends \in Endings, OnlyAsync(ends), NEW w,
         w = Within(reg, ends)
  PROVE  /\ w \in [SUBSET Services -> Resolvers]
         /\ \A R \in SUBSET Services : Resolves(reg, R, w[R])
<1>0. /\ w \in [SUBSET Services -> Resolvers]
      /\ \A r \in SUBSET Services : w[r] = Resolution(reg, ends, w, r)
  BY WithinIs
<1> DEFINE T == {R \in SUBSET Services : ~ Resolves(reg, R, w[R])}
<1> SUFFICES ASSUME T # {} PROVE FALSE
  BY <1>0
<1>1. PICK R \in T : \A s \in Services \ R : R \union {s} \notin T
  <2>1. T \in SUBSET (SUBSET Services)
    OBVIOUS
  <2> QED
    BY ONLY <2>1, T # {}, LargestFirst
<1>2. R \in SUBSET Services /\ \A s \in Services \ R : Resolves(reg, R \union {s}, w[R \union {s}])
  BY <1>1
<1>3. ASSUME NEW a \in Progress, NEW k \in Keys
      PROVE  /\ Follows(reg, R, a, w[R][a][k])
             /\ w[R][a][k].out = "ok" => k \in w[R][a][k].instances
  <2>1. PICK found, b : found = Finds(reg, a.instances, R, k) /\ b = w[R][a][k]
    OBVIOUS
  <2>2. b = IF a.out # "ok" \/ found = "ok" THEN a
            ELSE IF found # "new" THEN [a EXCEPT !.out = found]
            ELSE Built(Folded(w[R \union {k}], a, reg[k]), k, ends[k])
    <3>1. w[R] = Resolution(reg, ends, w, R)
      BY <1>0, <1>2
    <3> QED
      BY <2>1, <3>1, ResolutionAt
  <2>3. found \in {"ok", "missing", "circular", "new"} /\ (found = "ok" <=> k \in a.instances)
    BY <2>1, FindsOk
  <2>4. CASE a.out # "ok" \/ found = "ok"
    <3>1. b = a /\ (a.out = "ok" => k \in a.instances)
      BY <2>2, <2>3, <2>4
    <3> QED
      BY <2>1, <3>1 DEF Follows
  <2>5. CASE a.out = "ok" /\ found \in {"missing", "circular"}
    <3>1. b = [a EXCEPT !.out = found]
      BY <2>2, <2>5
    <3>2. /\ b.instances = a.instances /\ b.built = a.built /\ b.out = found /\ found # "ok"
          /\ b.wasted = a.wasted
      BY <2>5, <3>1 DEF Progress
    <3> QED
      BY <2>1, <3>2 DEF Follows, OnceBuilt
  <2>6. CASE a.out = "ok" /\ found = "new"
    <3>0. Finds(reg, a.instances, R, k) = "new"
      BY <2>1, <2>6
    <3>1. k \in Services \ R /\ k \in DOMAIN reg /\ k \notin a.instances
      BY ONLY <3>0, FindsNew
    <3>2. PICK g, q, c, S : g = w[S] /\ q = reg[k] /\ c = Folded(g, a, q) /\ S = R \union {k}
      OBVIOUS
    <3>3. g \in Resolvers /\ q \in Seq(Keys) /\ Resolves(reg, S, g)
      BY <1>0, <1>2, <3>1, <3>2 DEF Registry
    <3>4. c \in Progress /\ Follows(reg, S, a, c) /\ (c.out = "ok" => Range(q) \subseteq c.instances)
      BY ONLY <3>2, <3>3, a \in Progress, FoldedFollows
    <3>5. ends[k] \in {"ok", "threw", "async"} /\ (ends[k] = "async" => k \in wiring.async)
      BY <3>1 DEF Endings, OnlyAsync
    <3>6. b = Built(c, k, ends[k])
      BY <2>2, <2>6, <3>2
    <3>7. /\ Follows(reg, R, a, Built(c, k, ends[k]))
          /\ Built(c, k, ends[k]).out = "ok" => k \in Built(c, k, ends[k]).instances
      <4>1. /\ Registry(reg) /\ R \in SUBSET Services /\ a \in Progress /\ c \in Progress
            /\ k \in Services \ R /\ k \in DOMAIN reg /\ k \notin a.instances
            /\ Follows(reg, R \union {k}, a, c)
            /\ c.out = "ok" => Range(reg[k]) \subseteq c.instances
        BY <1>2, <3>1, <3>2, <3>4
      <4> QED
        BY ONLY <4>1, <3>5, BuiltFollows
    <3> QED
      BY <2>1, <3>6, <3>7
  <2> QED
    BY <2>3, <2>4, <2>5, <2>6
<1>4. Resolves(reg, R, w[R])
  BY <1>3 DEF Resolves
<1> QED
  BY <1>1, <1>4

\* A state of the container that resolve() can be called in.
Holds(st) ==
  /\ Registry(st.registry) /\ st.instances \in SUBSET Keys /\ st.built \in [Services -> Nat]
  /\ st.resolving \in SUBSET Services /\ st.wasted \in SUBSET Services

ProgressOf(st) ==
  [instances |-> st.instances, built |-> st.built, wasted |-> st.wasted, out |-> "ok"]

\* Calls of resolve() change nothing but the instances there are and the record of what
\* was constructed.
LEMMA ResolveSound ==
  ASSUME NEW st, Holds(st), NEW keys \in Seq(Keys), NEW ends \in Endings, OnlyAsync(ends)
  PROVE  \E done \in Progress :
           /\ Follows(st.registry, st.resolving, ProgressOf(st), done)
           /\ done.out = "ok" => Range(keys) \subseteq done.instances
           /\ Resolve(st, keys, ends) =
                [st  |-> [st EXCEPT !.instances = done.instances, !.built = done.built,
                                    !.wasted = done.wasted],
                 out |-> done.out]
<1>1. PICK w, a, R, reg : /\ reg = st.registry /\ R = st.resolving /\ a = ProgressOf(st)
                          /\ w = Within(reg, ends)
  OBVIOUS
<1>2. PICK done : done = Folded(w[R], a, keys)
  OBVIOUS
<1>3. Registry(reg) /\ R \in SUBSET Services /\ a \in Progress
  BY <1>1 DEF Holds, ProgressOf, Progress
<1>4. /\ w \in [SUBSET Services -> Resolvers]
      /\ \A r \in SUBSET Services : Resolves(reg, r, w[r])
  BY ONLY <1>1, <1>3, ends \in Endings, OnlyAsync(ends), WithinSound
<1>5. w[R] \in Resolvers /\ Resolves(reg, R, w[R])
  BY <1>3, <1>4
<1>6. /\ done \in Progress /\ Follows(reg, R, a, done)
      /\ done.out = "ok" => Range(keys) \subseteq done.instances
  BY ONLY <1>2, <1>3, <1>5, keys \in Seq(Keys), FoldedFollows
<1>7. Resolve(st, keys, ends) =
        [st  |-> [st EXCEPT !.instances = done.instances, !.built = done.built,
                                    !.wasted = done.wasted],
         out |-> done.out]
  BY <1>1, <1>2 DEF Resolve, ProgressOf, Within
<1> QED
  BY <1>1, <1>6, <1>7
-----------------------------------------------------------------------------
(* The validator. *)

Searchers == [Searches -> [Keys -> Searches]]

LEMMA SearchPath ==
  ASSUME NEW h \in Searchers, NEW keys \in Seq(Keys), NEW a \in Searches
  PROVE  /\ \E t : IsPath(t, h, a, keys, Searches) /\ Folded(h, a, keys) = t[Len(keys)]
         /\ Folded(h, a, keys) \in Searches
<1>0. h \in [Searches -> [Keys -> Searches]]
  BY DEF Searchers
<1>1. \E t : IsPath(t, h, a, keys, Searches) /\ Folded(h, a, keys) = t[Len(keys)]
  BY ONLY <1>0, keys \in Seq(Keys), a \in Searches, FoldedPath
<1>2. Len(keys) \in 0 .. Len(keys)
  OBVIOUS
<1> QED
  BY <1>1, <1>2 DEF IsPath

Mark(a, s) == [a EXCEPT !.visited = @ \cup {s}]
Cycled(a) == [a EXCEPT !.cycle = TRUE]

LEMMA VisitAt ==
  ASSUME NEW reg, NEW f, NEW T, NEW a \in Searches, NEW s \in Keys
  PROVE  Visit(reg, f, T)[a][s] =
           IF s \notin Services \cap DOMAIN reg THEN a
           ELSE IF s \in T THEN Cycled(a)
           ELSE IF s \in a.visited THEN a
           ELSE Folded(f[T \union {s}], Mark(a, s), reg[s])
BY DEF Visit, Mark, Cycled

LEMMA MarkType ==
  ASSUME NEW a \in Searches, NEW s \in Services
  PROVE  /\ Mark(a, s) \in Searches /\ Mark(a, s).visited = a.visited \union {s}
         /\ Mark(a, s).cycle = a.cycle
<1>1. a = [visited |-> a.visited, cycle |-> a.cycle] /\ a.visited \subseteq Services
      /\ a.cycle \in BOOLEAN
  BY DEF Searches
<1>2. Mark(a, s) = [visited |-> a.visited \union {s}, cycle |-> a.cycle]
  BY <1>1 DEF Mark
<1> QED
  BY <1>1, <1>2 DEF Searches

LEMMA CycleType ==
  ASSUME NEW a \in Searches
  PROVE  Cycled(a) \in Searches /\ Cycled(a).cycle /\ Cycled(a).visited = a.visited
BY DEF Searches, Cycled

LEMMA VisitType ==
  ASSUME NEW reg, Registry(reg), NEW T \in SUBSET Services,
         NEW f, \A s \in Services \ T : f[T \union {s}] \in Searchers
  PROVE  Visit(reg, f, T) \in Searchers
<1> DEFINE r == Visit(reg, f, T)
<1>1. ASSUME NEW a \in Searches, NEW s \in Keys PROVE r[a][s] \in Searches
  <2>2. r[a][s] = IF s \notin Services \cap DOMAIN reg THEN a
                  ELSE IF s \in T THEN Cycled(a)
                  ELSE IF s \in a.visited THEN a
                  ELSE Folded(f[T \union {s}], Mark(a, s), reg[s])
    BY VisitAt
  <2> HIDE DEF r
  <2>3. CASE s \notin Services \cap DOMAIN reg \/ s \in T \/ s \in a.visited
    BY <2>2, <2>3, CycleType
  <2>4. CASE s \in Services \cap DOMAIN reg /\ s \notin T /\ s \notin a.visited
    <3>1. PICK g, q, m : g = f[T \union {s}] /\ q = reg[s] /\ m = Mark(a, s)
      OBVIOUS
    <3>2. g \in Searchers /\ q \in Seq(Keys) /\ m \in Searches
      BY <2>4, <3>1, MarkType DEF Registry
    <3>3. Folded(g, m, q) \in Searches
      BY ONLY <3>2, SearchPath
    <3> QED
      BY <2>2, <2>4, <3>1, <3>3
  <2> QED
    BY <2>3, <2>4
<1>2. r = [a \in Searches |-> [s \in Keys |-> r[a][s]]]
  BY DEF Visit
<1> HIDE DEF r
<1>3. [a \in Searches |-> [s \in Keys |-> r[a][s]]] \in Searchers
  BY <1>1 DEF Searchers
<1> QED
  BY <1>2, <1>3 DEF r

\* A visit looks at the visits with one more service on the stack only.
LEMMA VisitSame ==
  ASSUME NEW reg, NEW T \in SUBSET Services, NEW f, NEW g,
         \A s \in Services \ T : f[T \union {s}] = g[T \union {s}]
  PROVE  Visit(reg, f, T) = Visit(reg, g, T)
BY DEF Visit

\* The recursion of the search has a solution, and TLA+ takes one.
From(reg) == CHOOSE f : f = [T \in SUBSET Services |-> Visit(reg, f, T)]

\* The recursion of detectCycles() has a solution, which is of its type.
LEMMA FromIs ==
  ASSUME NEW reg, Registry(reg), NEW w, w = From(reg)
  PROVE  /\ w \in [SUBSET Services -> Searchers]
         /\ \A T \in SUBSET Services : w[T] = Visit(reg, w, T)
<1> DEFINE All == SUBSET Services
           G == [x \in All \X [All -> Searchers] |-> Visit(reg, x[2], x[1])]
<1>1. ASSUME NEW T \in All, NEW f \in [All -> Searchers]
      PROVE  Visit(reg, f, T) \in Searchers
  <2>1. \A s \in Services \ T : f[T \union {s}] \in Searchers
    OBVIOUS
  <2> QED
    BY <2>1, VisitType
<1>2. \A T \in All, f \in [All -> Searchers] : G[T, f] = Visit(reg, f, T)
  OBVIOUS
<1>3. G \in [All \X [All -> Searchers] -> Searchers]
  BY <1>1
<1> HIDE DEF G
<1>4. ASSUME NEW T \in All, NEW f \in [All -> Searchers], NEW g \in [All -> Searchers],
             \A s \in Services \ T : f[T \union {s}] = g[T \union {s}]
      PROVE  G[T, f] = G[T, g]
  <2>1. Visit(reg, f, T) = Visit(reg, g, T)
    BY ONLY T \in SUBSET Services, <1>4, VisitSame
  <2> QED
    BY <1>2, <2>1
<1>5. PICK v : v \in Searchers
  <2>1. [a \in Searches |-> [k \in Keys |-> a]] \in Searchers
    BY DEF Searchers
  <2> QED
    BY <2>1
<1>6. \E f \in [All -> Searchers] : \A T \in All : f[T] = G[T, f]
  <2>1. PICK V, H : V = Searchers /\ H = G
    OBVIOUS
  <2>2. v \in V
    BY <1>5, <2>1
  <2>3. Growing(V, H)
    <3>1. H \in [All \X [All -> V] -> V]
      BY <1>3, <2>1
    <3>2. ASSUME NEW T \in All, NEW f \in [All -> V], NEW g \in [All -> V],
                 \A s \in Services \ T : f[T \union {s}] = g[T \union {s}]
          PROVE  H[T, f] = H[T, g]
      <4>1. f \in [All -> Searchers] /\ g \in [All -> Searchers]
        BY ONLY <2>1, f \in [All -> V], g \in [All -> V]
      <4>2. G[T, f] = G[T, g]
        BY ONLY <1>4, <3>2, <4>1
      <4> QED
        BY ONLY <2>1, <4>2
    <3> QED
      BY ONLY <3>1, <3>2, Zenon DEF Growing
  <2>4. HasSolution(V, H)
    BY ONLY <2>2, <2>3, RecursionExists
  <2> QED
    BY <2>1, <2>4 DEF HasSolution
<1>7. PICK f \in [All -> Searchers] : \A T \in All : f[T] = Visit(reg, f, T)
  BY <1>2, <1>6
<1>8. f = [T \in All |-> Visit(reg, f, T)]
  BY <1>7
<1>9. w = [T \in All |-> Visit(reg, w, T)]
  BY <1>8 DEF From
<1>10. \A T \in All : w[T] = Visit(reg, w, T)
  BY <1>9
<1>11. \A T \in All : w[T] \in Searchers
  <2> DEFINE Bad == {T \in All : w[T] \notin Searchers}
  <2> SUFFICES ASSUME Bad # {} PROVE FALSE
    OBVIOUS
  <2>1. PICK T \in Bad : \A s \in Services \ T : T \union {s} \notin Bad
    <3>1. Bad \in SUBSET (SUBSET Services)
      OBVIOUS
    <3> QED
      BY ONLY <3>1, Bad # {}, LargestFirst
  <2>2. \A s \in Services \ T : w[T \union {s}] \in Searchers
    BY <2>1
  <2>3. Visit(reg, w, T) \in Searchers
    BY <2>1, <2>2, VisitType
  <2> QED
    BY <1>10, <2>1, <2>3
<1>12. DOMAIN w = All
  BY <1>9
<1> QED
  BY <1>9, <1>10, <1>11, <1>12

\* What holds at the start and after each key holds at the end.
LEMMA FoldedKeeps ==
  ASSUME NEW A, NEW K, NEW h \in [A -> [K -> A]], NEW keys \in Seq(K), NEW a \in A,
         NEW Good, <<0, a>> \in Good,
         \A i \in 1 .. Len(keys) : \A b \in A :
           <<i - 1, b>> \in Good => <<i, h[b][keys[i]]>> \in Good
  PROVE  Folded(h, a, keys) \in A /\ <<Len(keys), Folded(h, a, keys)>> \in Good
<1> DEFINE n == Len(keys)
<1>1. n \in Nat
  OBVIOUS
<1>2. PICK t : IsPath(t, h, a, keys, A) /\ Folded(h, a, keys) = t[n]
  BY FoldedPath
<1>3. /\ t \in [0 .. n -> A] /\ t[0] = a
      /\ \A i \in 1 .. n : t[i] = h[t[i - 1]][keys[i]]
  BY <1>2 DEF IsPath
<1> DEFINE T == {i \in 0 .. n : <<i, t[i]>> \notin Good}
<1> HIDE DEF n
<1>4. T = {}
  <2> SUFFICES ASSUME T # {} PROVE FALSE
    OBVIOUS
  <2>1. T \in SUBSET (0 .. n) /\ 0 \notin T
    BY <1>3
  <2>2. PICK i \in 1 .. n : i \in T /\ i - 1 \in 0 .. n /\ i - 1 \notin T
    <3> HIDE DEF T
    <3> QED
      BY <1>1, <2>1, LeastStep
  <2>3. <<i - 1, t[i - 1]>> \in Good /\ <<i, t[i]>> \notin Good
    BY <2>2
  <2>4. t[i - 1] \in A /\ t[i] = h[t[i - 1]][keys[i]]
    BY <1>3, <2>2
  <2>5. \A b \in A : <<i - 1, b>> \in Good => <<i, h[b][keys[i]]>> \in Good
    BY <2>2 DEF n
  <2> QED
    BY ONLY <2>3, <2>4, <2>5
<1>5. n \in 0 .. n
  BY <1>1
<1>6. <<n, t[n]>> \in Good /\ t[n] \in A
  BY <1>3, <1>4, <1>5
<1> QED
  BY <1>2, <1>6 DEF n

-----------------------------------------------------------------------------
(* A search that reports no cycle has visited only services that can be had. *)

\* What the search is through with: visited, and not on its stack.
Finished(reg, T, a) == (a.visited \ T) \union (DOMAIN reg \ Services)

\* What a search that finds no cycle adds is grounded.
Progresses(reg, T, a, b) ==
  /\ a.visited \subseteq b.visited /\ (a.cycle => b.cycle)
  /\ ~ b.cycle /\ Settled(reg, Finished(reg, T, a)) => Settled(reg, Finished(reg, T, b))

Explores(reg, T, h) ==
  \A a \in Searches : \A s \in Keys :
    /\ Progresses(reg, T, a, h[a][s])
    /\ ~ h[a][s].cycle /\ s \in DOMAIN reg => s \in Finished(reg, T, h[a][s])

LEMMA FoldedExplores ==
  ASSUME NEW reg, NEW T, NEW h \in Searchers, Explores(reg, T, h),
         NEW keys \in Seq(Keys), Range(keys) \subseteq DOMAIN reg,
         NEW a \in Searches, NEW b, b = Folded(h, a, keys)
  PROVE  /\ b \in Searches /\ Progresses(reg, T, a, b)
         /\ ~ b.cycle => Range(keys) \subseteq Finished(reg, T, b)
<1> DEFINE n == Len(keys)
           Good == {x \in Nat \X Searches :
                      /\ Progresses(reg, T, a, x[2])
                      /\ ~ x[2].cycle =>
                           \A j \in 1 .. x[1] : keys[j] \in Finished(reg, T, x[2])}
<1>1. n \in Nat /\ \A i \in 1 .. n : i \in Nat /\ i - 1 \in Nat /\ keys[i] \in Keys /\ keys[i] \in DOMAIN reg
  BY DEF Range
<1>2. <<0, a>> \in Good
  BY DEF Progresses
<1>3. ASSUME NEW i \in 1 .. n, NEW c \in Searches, <<i - 1, c>> \in Good
      PROVE  <<i, h[c][keys[i]]>> \in Good
  <2>1. PICK d : d = h[c][keys[i]]
    OBVIOUS
  <2>2. d \in Searches /\ keys[i] \in Keys /\ keys[i] \in DOMAIN reg
    BY <1>1, <2>1 DEF Searchers
  <2>3. /\ Progresses(reg, T, c, d)
        /\ ~ d.cycle => keys[i] \in Finished(reg, T, d)
    BY <2>1, <2>2 DEF Explores
  <2>4. /\ Progresses(reg, T, a, c)
        /\ ~ c.cycle => \A j \in 1 .. i - 1 : keys[j] \in Finished(reg, T, c)
    BY <1>3
  <2>5. Progresses(reg, T, a, d)
    BY <2>3, <2>4 DEF Progresses
  <2>6. ASSUME ~ d.cycle, NEW j \in 1 .. i PROVE keys[j] \in Finished(reg, T, d)
    <3>1. ~ c.cycle /\ c.visited \subseteq d.visited
      BY <2>3, <2>6 DEF Progresses
    <3>2. j = i \/ j \in 1 .. i - 1
      OBVIOUS
    <3> QED
      BY <2>3, <2>4, <2>6, <3>1, <3>2 DEF Finished
  <2>7. i \in Nat
    BY <1>1
  <2> QED
    BY <2>1, <2>2, <2>5, <2>6, <2>7
<1> HIDE DEF Good
<1>4. h \in [Searches -> [Keys -> Searches]]
  BY DEF Searchers
<1>5. b \in Searches /\ <<n, b>> \in Good
  BY <1>2, <1>3, <1>4, FoldedKeeps
<1>6. Progresses(reg, T, a, b) /\ (~ b.cycle => \A j \in 1 .. n : keys[j] \in Finished(reg, T, b))
  BY <1>5 DEF Good
<1> QED
  BY <1>5, <1>6 DEF Range

\* A registry without missing dependencies.
Complete(reg) == Registry(reg) /\ \A x \in DOMAIN reg : Range(reg[x]) \subseteq DOMAIN reg

\* A search without a cycle leaves only grounded services behind.
LEMMA FromExplores ==
  ASSUME NEW reg, Complete(reg), NEW w, w = From(reg)
  PROVE  \A T \in SUBSET Services : Explores(reg, T, w[T])
<1>0. /\ w \in [SUBSET Services -> Searchers]
      /\ \A T \in SUBSET Services : w[T] = Visit(reg, w, T)
  BY FromIs DEF Complete
<1> DEFINE Bad == {T \in SUBSET Services : ~ Explores(reg, T, w[T])}
<1> SUFFICES ASSUME Bad # {} PROVE FALSE
  OBVIOUS
<1>1. PICK T \in Bad : \A s \in Services \ T : T \union {s} \notin Bad
  <2>1. Bad \in SUBSET (SUBSET Services)
    OBVIOUS
  <2> QED
    BY ONLY <2>1, Bad # {}, LargestFirst
<1>2. T \in SUBSET Services /\ \A s \in Services \ T : Explores(reg, T \union {s}, w[T \union {s}])
  BY <1>1
<1>3. ASSUME NEW a \in Searches, NEW s \in Keys
      PROVE  /\ Progresses(reg, T, a, w[T][a][s])
             /\ ~ w[T][a][s].cycle /\ s \in DOMAIN reg => s \in Finished(reg, T, w[T][a][s])
  <2>1. PICK b : b = w[T][a][s]
    OBVIOUS
  <2>2. b = IF s \notin Services \cap DOMAIN reg THEN a
            ELSE IF s \in T THEN Cycled(a)
            ELSE IF s \in a.visited THEN a
            ELSE Folded(w[T \union {s}], Mark(a, s), reg[s])
    <3>1. w[T] = Visit(reg, w, T)
      BY <1>0, <1>2
    <3> QED
      BY <2>1, <3>1, VisitAt
  <2>3. CASE s \notin Services \cap DOMAIN reg
    <3>1. b = a
      BY <2>2, <2>3
    <3> QED
      BY <2>1, <2>3, <3>1 DEF Progresses, Finished
  <2>4. CASE s \in Services \cap DOMAIN reg /\ s \in T
    <3>1. b.cycle /\ b.visited = a.visited
      BY <2>2, <2>4, CycleType
    <3> QED
      BY <2>1, <3>1 DEF Progresses
  <2>5. CASE s \in Services \cap DOMAIN reg /\ s \notin T /\ s \in a.visited
    <3>1. b = a
      BY <2>2, <2>5
    <3> QED
      BY <2>1, <2>5, <3>1 DEF Progresses, Finished
  <2>6. CASE s \in Services \cap DOMAIN reg /\ s \notin T /\ s \notin a.visited
    <3>1. PICK g, q, m, S : g = w[S] /\ q = reg[s] /\ m = Mark(a, s) /\ S = T \union {s}
      OBVIOUS
    <3>2. g \in Searchers /\ q \in Seq(Keys) /\ Explores(reg, S, g) /\ Range(q) \subseteq DOMAIN reg
      BY <1>0, <1>2, <2>6, <3>1 DEF Complete, Registry
    <3>3. m \in Searches /\ m.visited = a.visited \union {s} /\ m.cycle = a.cycle
      BY <2>6, <3>1, MarkType
    <3>4. b = Folded(g, m, q)
      BY <2>2, <2>6, <3>1
    <3>5. /\ b \in Searches /\ Progresses(reg, S, m, b)
          /\ ~ b.cycle => Range(q) \subseteq Finished(reg, S, b)
      BY ONLY <3>2, <3>3, <3>4, FoldedExplores
    <3>6. a.visited \subseteq b.visited /\ s \in b.visited /\ (a.cycle => b.cycle)
      BY <3>3, <3>5 DEF Progresses
    <3>7. Finished(reg, S, m) = Finished(reg, T, a)
      BY <2>6, <3>1, <3>3 DEF Finished
    <3>8. Finished(reg, T, b) = Finished(reg, S, b) \union {s} /\ s \notin Finished(reg, S, b)
      BY <2>6, <3>1, <3>6 DEF Finished
    <3>9. ASSUME ~ b.cycle, Settled(reg, Finished(reg, T, a))
          PROVE  Settled(reg, Finished(reg, T, b))
      <4>1. PICK F : F = Finished(reg, S, b)
        OBVIOUS
      <4>2. Settled(reg, F) /\ Range(reg[s]) \subseteq F /\ s \notin F
        BY <3>1, <3>5, <3>7, <3>8, <3>9, <4>1 DEF Progresses
      <4>3. F \subseteq Keys
        BY <4>2 DEF Settled, ClosedIn, Complete, Registry
      <4>4. Grounded(reg, s)
        BY <4>2, <4>3 DEF Settled, Grounded
      <4>5. Settled(reg, F \union {s})
        BY <2>6, <4>2, <4>4 DEF Settled, ClosedIn
      <4> QED
        BY <3>8, <4>1, <4>5
    <3>10. Progresses(reg, T, a, b)
      BY <3>6, <3>9 DEF Progresses
    <3> QED
      BY <2>1, <2>6, <3>6, <3>10 DEF Finished
  <2> QED
    BY <2>3, <2>4, <2>5, <2>6
<1>4. Explores(reg, T, w[T])
  BY <1>3 DEF Explores
<1> QED
  BY <1>1, <1>4

-----------------------------------------------------------------------------
(* If everything can be had, the search finds no cycle and resolve() succeeds. *)

\* Whatever is in T, s can be had without it.
Safe(reg, T, s) ==
  \A r \in T : \E A \in SUBSET Keys : ClosedIn(reg, A) /\ s \in A /\ r \notin A

AllGrounded(reg) == Complete(reg) /\ \A x \in DOMAIN reg \intersect Services : Grounded(reg, x)

LEMMA SafeBelow ==
  ASSUME NEW reg, AllGrounded(reg), NEW T, NEW s \in DOMAIN reg \intersect Services,
         Safe(reg, T, s), NEW d \in Range(reg[s])
  PROVE  Safe(reg, T \union {s}, d) /\ d \in DOMAIN reg
<1>1. ASSUME NEW r \in T
      PROVE  \E A \in SUBSET Keys : ClosedIn(reg, A) /\ d \in A /\ r \notin A
  <2>1. PICK A \in SUBSET Keys : ClosedIn(reg, A) /\ s \in A /\ r \notin A
    BY DEF Safe
  <2> QED
    BY <2>1 DEF ClosedIn
<1>2. \E A \in SUBSET Keys : ClosedIn(reg, A) /\ d \in A /\ s \notin A
  BY DEF AllGrounded, Grounded
<1>3. d \in DOMAIN reg
  BY DEF AllGrounded, Complete
<1> QED
  BY <1>1, <1>2, <1>3 DEF Safe

LEMMA SafeApart ==
  ASSUME NEW reg, NEW T, NEW s, Safe(reg, T, s) PROVE s \notin T
BY DEF Safe

\* A search above grounded services reports no cycle.
Acquits(reg, T, h) ==
  \A a \in Searches : \A s \in DOMAIN reg : Safe(reg, T, s) /\ ~ a.cycle => ~ h[a][s].cycle

LEMMA FoldedAcquits ==
  ASSUME NEW reg, NEW T, NEW h \in Searchers, Acquits(reg, T, h),
         NEW keys \in Seq(Keys), \A k \in Range(keys) : k \in DOMAIN reg /\ Safe(reg, T, k),
         NEW a \in Searches, ~ a.cycle
  PROVE  ~ Folded(h, a, keys).cycle
<1> DEFINE Good == {x \in Nat \X Searches : ~ x[2].cycle}
<1>1. \A i \in 1 .. Len(keys) :
        i \in Nat /\ keys[i] \in Keys /\ keys[i] \in DOMAIN reg /\ Safe(reg, T, keys[i])
  BY DEF Range
<1>2. ASSUME NEW i \in 1 .. Len(keys), NEW c \in Searches, <<i - 1, c>> \in Good
      PROVE  <<i, h[c][keys[i]]>> \in Good
  <2>1. h[c][keys[i]] \in Searches
    BY <1>1 DEF Searchers
  <2>2. ~ h[c][keys[i]].cycle
    BY <1>1, <1>2 DEF Acquits
  <2> QED
    BY <1>1, <2>1, <2>2
<1>3. <<0, a>> \in Good
  OBVIOUS
<1> HIDE DEF Good
<1>4. h \in [Searches -> [Keys -> Searches]]
  BY DEF Searchers
<1>5. <<Len(keys), Folded(h, a, keys)>> \in Good
  BY <1>2, <1>3, <1>4, FoldedKeeps
<1> QED
  BY <1>5 DEF Good

LEMMA FromAcquits ==
  ASSUME NEW reg, AllGrounded(reg), NEW w, w = From(reg)
  PROVE  \A T \in SUBSET Services : Acquits(reg, T, w[T])
<1>0. /\ w \in [SUBSET Services -> Searchers]
      /\ \A T \in SUBSET Services : w[T] = Visit(reg, w, T)
  BY FromIs DEF AllGrounded, Complete
<1> DEFINE Bad == {T \in SUBSET Services : ~ Acquits(reg, T, w[T])}
<1> SUFFICES ASSUME Bad # {} PROVE FALSE
  OBVIOUS
<1>1. PICK T \in Bad : \A s \in Services \ T : T \union {s} \notin Bad
  <2>1. Bad \in SUBSET (SUBSET Services)
    OBVIOUS
  <2> QED
    BY ONLY <2>1, Bad # {}, LargestFirst
<1>2. T \in SUBSET Services /\ \A s \in Services \ T : Acquits(reg, T \union {s}, w[T \union {s}])
  BY <1>1
<1>3. ASSUME NEW a \in Searches, NEW s \in DOMAIN reg, Safe(reg, T, s), ~ a.cycle
      PROVE  ~ w[T][a][s].cycle
  <2>0. s \in Keys /\ s \notin T
    BY <1>3, SafeApart DEF AllGrounded, Complete, Registry
  <2>1. PICK b : b = w[T][a][s]
    OBVIOUS
  <2>2. b = IF s \notin Services \cap DOMAIN reg THEN a
            ELSE IF s \in T THEN Cycled(a)
            ELSE IF s \in a.visited THEN a
            ELSE Folded(w[T \union {s}], Mark(a, s), reg[s])
    <3>1. w[T] = Visit(reg, w, T)
      BY <1>0, <1>2
    <3> QED
      BY <2>0, <2>1, <3>1, VisitAt
  <2>3. CASE s \notin Services \/ s \in a.visited
    BY <1>3, <2>0, <2>1, <2>2, <2>3
  <2>4. CASE s \in Services /\ s \notin a.visited
    <3>1. PICK g, q, m, S : g = w[S] /\ q = reg[s] /\ m = Mark(a, s) /\ S = T \union {s}
      OBVIOUS
    <3>2. g \in Searchers /\ q \in Seq(Keys) /\ Acquits(reg, S, g)
      BY <1>0, <1>2, <2>0, <2>4, <3>1 DEF AllGrounded, Complete, Registry
    <3>3. m \in Searches /\ ~ m.cycle
      BY <1>3, <2>4, <3>1, MarkType
    <3>4. \A k \in Range(q) : k \in DOMAIN reg /\ Safe(reg, S, k)
      BY <1>3, <2>4, <3>1, SafeBelow
    <3>5. ~ Folded(g, m, q).cycle
      BY ONLY <3>2, <3>3, <3>4, FoldedAcquits
    <3> QED
      BY <2>0, <2>1, <2>2, <2>4, <3>1, <3>5
  <2> QED
    BY <2>3, <2>4
<1>4. Acquits(reg, T, w[T])
  BY <1>3 DEF Acquits
<1> QED
  BY <1>1, <1>4

\* A service that can be had is resolved if constructors do not fail.
Succeeds(reg, R, h) ==
  \A a \in Progress : \A k \in DOMAIN reg :
    Safe(reg, R, k) /\ a.out = "ok" /\ DOMAIN reg \ Services \subseteq a.instances
      => h[a][k].out = "ok"

LEMMA FoldedSucceeds ==
  ASSUME NEW reg, NEW R, NEW h \in Resolvers, Resolves(reg, R, h), Succeeds(reg, R, h),
         NEW keys \in Seq(Keys), \A k \in Range(keys) : k \in DOMAIN reg /\ Safe(reg, R, k),
         NEW a \in Progress, a.out = "ok", DOMAIN reg \ Services \subseteq a.instances
  PROVE  Folded(h, a, keys).out = "ok"
<1> DEFINE Good == {x \in Nat \X Progress :
                      x[2].out = "ok" /\ DOMAIN reg \ Services \subseteq x[2].instances}
<1>1. \A i \in 1 .. Len(keys) :
        i \in Nat /\ keys[i] \in Keys /\ keys[i] \in DOMAIN reg /\ Safe(reg, R, keys[i])
  BY DEF Range
<1>2. ASSUME NEW i \in 1 .. Len(keys), NEW c \in Progress, <<i - 1, c>> \in Good
      PROVE  <<i, h[c][keys[i]]>> \in Good
  <2>0. PICK d : d = h[c][keys[i]]
    OBVIOUS
  <2>1. d \in Progress
    BY <1>1, <2>0 DEF Resolvers
  <2>2. d.out = "ok"
    BY <1>1, <1>2, <2>0 DEF Succeeds
  <2>3. c.instances \subseteq d.instances
    BY <1>1, <2>0 DEF Resolves, Follows
  <2> QED
    BY <1>1, <1>2, <2>0, <2>1, <2>2, <2>3
<1>3. <<0, a>> \in Good
  OBVIOUS
<1> HIDE DEF Good
<1>4. h \in [Progress -> [Keys -> Progress]]
  BY DEF Resolvers
<1>5. <<Len(keys), Folded(h, a, keys)>> \in Good
  BY <1>2, <1>3, <1>4, FoldedKeeps
<1> QED
  BY <1>5 DEF Good

LEMMA WithinSucceeds ==
  ASSUME NEW reg, AllGrounded(reg), NEW ends \in Endings, \A s \in Services : ends[s] = "ok",
         NEW w, w = Within(reg, ends)
  PROVE  \A R \in SUBSET Services : Succeeds(reg, R, w[R])
<1>r. Registry(reg)
  BY DEF AllGrounded, Complete
<1>0. /\ w \in [SUBSET Services -> Resolvers]
      /\ \A R \in SUBSET Services : w[R] = Resolution(reg, ends, w, R)
  BY ONLY <1>r, ends \in Endings, w = Within(reg, ends), WithinIs
<1>e. OnlyAsync(ends)
  BY DEF OnlyAsync
<1>s. \A R \in SUBSET Services : Resolves(reg, R, w[R])
  BY ONLY <1>r, <1>e, ends \in Endings, w = Within(reg, ends), WithinSound
<1> DEFINE Bad == {R \in SUBSET Services : ~ Succeeds(reg, R, w[R])}
<1> SUFFICES ASSUME Bad # {} PROVE FALSE
  OBVIOUS
<1>1. PICK R \in Bad : \A s \in Services \ R : R \union {s} \notin Bad
  <2>1. Bad \in SUBSET (SUBSET Services)
    OBVIOUS
  <2> QED
    BY ONLY <2>1, Bad # {}, LargestFirst
<1>2. R \in SUBSET Services /\ \A s \in Services \ R : Succeeds(reg, R \union {s}, w[R \union {s}])
  BY <1>1
<1>3. ASSUME NEW a \in Progress, NEW k \in DOMAIN reg, Safe(reg, R, k), a.out = "ok",
             DOMAIN reg \ Services \subseteq a.instances
      PROVE  w[R][a][k].out = "ok"
  <2>0. k \in Keys /\ k \notin R
    BY <1>3, <1>r, SafeApart DEF Registry
  <2>1. PICK found, b : found = Finds(reg, a.instances, R, k) /\ b = w[R][a][k]
    OBVIOUS
  <2>2. b = IF a.out # "ok" \/ found = "ok" THEN a
            ELSE IF found # "new" THEN [a EXCEPT !.out = found]
            ELSE Built(Folded(w[R \union {k}], a, reg[k]), k, ends[k])
    <3>1. w[R] = Resolution(reg, ends, w, R)
      BY <1>0, <1>2
    <3> QED
      BY <2>0, <2>1, <3>1, ResolutionAt
  <2>3. CASE k \in a.instances
    <3>1. found = "ok"
      BY <2>1, <2>3 DEF Finds
    <3> QED
      BY <1>3, <2>1, <2>2, <3>1
  <2>4. CASE k \notin a.instances
    <3>0. k \in Services /\ found = "new"
      BY <1>3, <2>0, <2>1, <2>4 DEF Finds
    <3>1. PICK g, q, c, S : g = w[S] /\ q = reg[k] /\ c = Folded(g, a, q) /\ S = R \union {k}
      OBVIOUS
    <3>2. S \in SUBSET Services
      BY <1>2, <3>0, <3>1
    <3>3. g \in Resolvers /\ q \in Seq(Keys) /\ Resolves(reg, S, g) /\ Succeeds(reg, S, g)
      BY <1>0, <1>2, <1>r, <1>s, <2>0, <3>0, <3>1, <3>2 DEF Registry
    <3>4. \A d \in Range(q) : d \in DOMAIN reg /\ Safe(reg, S, d)
      BY <1>3, <3>0, <3>1, SafeBelow
    <3>a. a \in Progress /\ a.out = "ok" /\ DOMAIN reg \ Services \subseteq a.instances
      BY <1>3
    <3>b. Folded(g, a, q).out = "ok"
      BY ONLY <3>a, <3>3, <3>4, FoldedSucceeds
    <3>5. c.out = "ok"
      BY <3>1, <3>b
    <3>6. c \in Progress
      BY ONLY <1>3, <3>1, <3>3, ProgressPath
    <3>7. b = Built(c, k, ends[k]) /\ ends[k] = "ok" /\ ends[k] \in {"ok", "threw", "async"}
      BY <1>3, <2>2, <3>0, <3>1
    <3>8. Built(c, k, ends[k]).out = "ok"
      BY ONLY <3>0, <3>5, <3>6, <3>7, BuiltType
    <3> QED
      BY <2>1, <3>7, <3>8
  <2> QED
    BY <2>3, <2>4
<1>4. Succeeds(reg, R, w[R])
  BY <1>3 DEF Succeeds
<1> QED
  BY <1>1, <1>4

-----------------------------------------------------------------------------
(* validate() accepts what resolve() can build. *)

LEMMA ExtendedIs ==
  ASSUME NEW reg, NEW more, NEW to, to = Extended(reg, more)
  PROVE  /\ DOMAIN to = DOMAIN reg \union DOMAIN more
         /\ \A x \in DOMAIN more : to[x] = more[x]
         /\ \A x \in DOMAIN reg \ DOMAIN more : to[x] = reg[x]
         /\ to = [x \in DOMAIN to |-> to[x]]
BY DEF Extended

\* What the program registers before listen() is a registry without instances of services.
LEMMA FreshHolds ==
  ASSUME wiring \in Wirings
  PROVE  /\ Registry(Fresh.registry) /\ Fresh.instances = DOMAIN Fresh.registry \ Services
         /\ Fresh.instances \in SUBSET Keys /\ Fresh.resolving = {}
         /\ Fresh.built = [s \in Services |-> 0]
         /\ Fresh.frames = [s \in Services |-> Idle] /\ Fresh.wasted = {}
         /\ Settled(Fresh.registry, Fresh.instances)
         /\ Holds(Fresh)
<1>1. PICK deps : deps = wiring.deps
  OBVIOUS
<1>2. DOMAIN deps \subseteq Services /\ deps \in [DOMAIN deps -> Seq(Keys)] /\ wiring.token \in BOOLEAN
  BY <1>1, ApplicationAssumption
<1>3. Token \notin Services /\ <<>> \in Seq(Keys)
  BY ContainerAssumption
<1>e. PICK none : none = << >>
  OBVIOUS
<1>n. DOMAIN none = {} /\ none \in Seq(Keys) /\ Range(none) = {}
  BY <1>e DEF Range
<1>f. PICK frames, built : /\ frames = [s \in Services |-> Idle]
                           /\ built = [s \in Services |-> 0]
  OBVIOUS
<1>g. Empty = [registry |-> none, instances |-> {}, resolving |-> {},
               frames |-> frames, built |-> built, wasted |-> {}]
  BY <1>e, <1>f DEF Empty
<1>h. built \in [Services -> Nat]
  BY <1>f
<1>4. CASE wiring.token
  <2>1. PICK one, two, reg : one = [k \in {Token} |-> none] /\ two = Extended(none, one)
                         /\ reg = Extended(two, deps)
    OBVIOUS
  <2>a. DOMAIN one = {Token} /\ one[Token] = none
    BY <2>1
  <2>b. DOMAIN two = {Token} /\ two[Token] = none
    BY <1>n, <2>1, <2>a DEF Extended
  <2>c. Token \notin DOMAIN deps
    BY <1>2, <1>3
  <2>2. DOMAIN reg = DOMAIN deps \union {Token} /\ reg[Token] = none
        /\ \A s \in DOMAIN deps : reg[s] = deps[s]
    BY <2>1, <2>b, <2>c, ExtendedIs
  <2>3. reg = [k \in DOMAIN reg |-> reg[k]]
    BY <2>1 DEF Extended
  <2>d. RegisterInstance(Empty, Token) =
          [registry |-> two, instances |-> {Token}, resolving |-> {},
           frames |-> frames, built |-> built, wasted |-> {}]
    <3>1. Register(Empty, Token, none) =
            [registry |-> two, instances |-> {}, resolving |-> {},
             frames |-> frames, built |-> built, wasted |-> {}]
      BY <1>g, <2>1 DEF Register
    <3>2. RegisterInstance(Empty, Token) =
            [Register(Empty, Token, none) EXCEPT !.instances = @ \cup {Token}]
      BY <1>e DEF RegisterInstance
    <3>3. {} \union {Token} = {Token}
      OBVIOUS
    <3> QED
      BY <3>1, <3>2, <3>3
  <2>4. Fresh = [registry |-> reg, instances |-> {Token}, resolving |-> {},
                 frames |-> frames, built |-> built, wasted |-> {}]
    BY <1>1, <1>4, <2>1, <2>d DEF Fresh, RegisterProviders
  <2>5. \A k \in DOMAIN reg : k \in Keys /\ reg[k] \in Seq(Keys)
    BY <1>2, <1>n, <2>2 DEF Keys
  <2>6. Registry(reg)
    BY <2>3, <2>5 DEF Registry
  <2>7. Settled(reg, {Token})
    BY <1>3, <1>n, <2>2 DEF Settled, ClosedIn
  <2>8. {Token} = DOMAIN reg \ Services /\ {Token} \in SUBSET Keys
    BY <1>2, <1>3, <2>2 DEF Keys
  <2> QED
    BY <1>f, <1>h, <2>4, <2>6, <2>7, <2>8 DEF Holds
<1>5. CASE ~ wiring.token
  <2>1. PICK reg : reg = Extended(none, deps)
    OBVIOUS
  <2>2. DOMAIN reg = DOMAIN deps /\ \A s \in DOMAIN deps : reg[s] = deps[s]
    BY <1>n, <2>1 DEF Extended
  <2>3. reg = [k \in DOMAIN reg |-> reg[k]]
    BY <2>1 DEF Extended
  <2>4. Fresh = [registry |-> reg, instances |-> {}, resolving |-> {},
                 frames |-> frames, built |-> built, wasted |-> {}]
    BY <1>1, <1>5, <1>g, <2>1 DEF Fresh, RegisterProviders
  <2>5. \A k \in DOMAIN reg : k \in Keys /\ reg[k] \in Seq(Keys)
    BY <1>2, <2>2 DEF Keys
  <2>6. Registry(reg)
    BY <2>3, <2>5 DEF Registry
  <2>7. Settled(reg, {})
    BY DEF Settled, ClosedIn
  <2>8. {} = DOMAIN reg \ Services
    BY <1>2, <2>2
  <2> QED
    BY <1>f, <1>h, <2>4, <2>6, <2>7, <2>8 DEF Holds
<1> QED
  BY <1>2, <1>4, <1>5

\* What the search from every service, on a stack of its own, comes to.
LEMMA CircularIs ==
  ASSUME NEW reg, Registry(reg), NEW w, w = From(reg)
  PROVE  \E keys \in Seq(Keys) : \E a \in Searches :
           /\ Range(keys) = DOMAIN reg \intersect Services
           /\ a.visited = {} /\ ~ a.cycle
           /\ Circular(reg) = Folded(w[{}], a, keys).cycle
<1>1. PICK S, keys : S = DOMAIN reg \intersect Services /\ keys = SetToSeq(S)
  OBVIOUS
<1>2. IsFiniteSet(S) /\ S \subseteq Keys
  BY <1>1, ContainerAssumption, FS_Subset DEF Keys
<1>3. keys \in Seq(S) /\ Range(keys) = S
  BY <1>1, <1>2, SeqOfSet
<1>4. keys \in Seq(Keys)
  BY <1>2, <1>3
<1>5. PICK a : a = [visited |-> {}, cycle |-> FALSE]
  OBVIOUS
<1>6. a \in Searches /\ a.visited = {} /\ ~ a.cycle
  BY <1>5 DEF Searches
<1>7. Circular(reg) = Folded(w[{}], a, keys).cycle
  BY <1>1, <1>5 DEF Circular, From
<1> QED
  BY <1>1, <1>3, <1>4, <1>6, <1>7

\* detectCycles() reports a cycle exactly when some service is not grounded.
LEMMA CircularIsExact ==
  ASSUME NEW reg, Complete(reg), Settled(reg, DOMAIN reg \ Services)
  PROVE  ~ Circular(reg) <=> AllGrounded(reg)
<1>0. Registry(reg)
  BY DEF Complete
<1>1. PICK w : w = From(reg)
  OBVIOUS
<1>2. w \in [SUBSET Services -> Searchers]
  BY ONLY <1>0, <1>1, FromIs
<1>3. PICK keys \in Seq(Keys), a \in Searches :
        /\ Range(keys) = DOMAIN reg \intersect Services
        /\ a.visited = {} /\ ~ a.cycle
        /\ Circular(reg) = Folded(w[{}], a, keys).cycle
  BY ONLY <1>0, <1>1, CircularIs
<1>4. PICK h, b : h = w[{}] /\ b = Folded(h, a, keys)
  OBVIOUS
<1>5. h \in Searchers /\ Circular(reg) = b.cycle
  BY <1>2, <1>3, <1>4
<1>6. ASSUME ~ Circular(reg) PROVE AllGrounded(reg)
  <2>1. PICK T : T = {}
    OBVIOUS
  <2>2. Explores(reg, T, h)
    BY <1>1, <1>4, <2>1, FromExplores
  <2>3. Range(keys) \subseteq DOMAIN reg
    BY <1>3
  <2>4. /\ Progresses(reg, T, a, b)
        /\ ~ b.cycle => Range(keys) \subseteq Finished(reg, T, b)
    BY ONLY <1>3, <1>4, <1>5, <2>2, <2>3, FoldedExplores
  <2>5. Finished(reg, T, a) = DOMAIN reg \ Services
    BY <1>3, <2>1 DEF Finished
  <2>6. Settled(reg, Finished(reg, T, b)) /\ Range(keys) \subseteq Finished(reg, T, b)
    BY <1>5, <1>6, <2>4, <2>5 DEF Progresses
  <2> QED
    BY <1>3, <2>6 DEF AllGrounded, Settled
<1>7. ASSUME AllGrounded(reg) PROVE ~ Circular(reg)
  <2>1. PICK T : T = {}
    OBVIOUS
  <2>2. Acquits(reg, T, h)
    BY <1>1, <1>4, <1>7, <2>1, FromAcquits
  <2>3. \A k \in Range(keys) : k \in DOMAIN reg /\ Safe(reg, T, k)
    BY <1>3, <2>1 DEF Safe
  <2>4. ~ Folded(h, a, keys).cycle
    BY ONLY <1>3, <1>5, <2>2, <2>3, FoldedAcquits
  <2> QED
    BY <1>4, <1>5, <2>4
<1> QED
  BY <1>6, <1>7

LEMMA ResolveSucceeds ==
  ASSUME NEW st, Holds(st), AllGrounded(st.registry), st.resolving = {},
         DOMAIN st.registry \ Services \subseteq st.instances,
         NEW keys \in Seq(Keys), Range(keys) \subseteq DOMAIN st.registry,
         NEW ends \in Endings, \A s \in Services : ends[s] = "ok"
  PROVE  Resolve(st, keys, ends).out = "ok"
<1>1. PICK w, a, R, reg, h : /\ reg = st.registry /\ R = st.resolving /\ a = ProgressOf(st)
                             /\ w = Within(reg, ends) /\ h = w[R]
  OBVIOUS
<1>2. /\ Registry(reg) /\ AllGrounded(reg) /\ R \in SUBSET Services /\ a \in Progress
      /\ a.out = "ok" /\ DOMAIN reg \ Services \subseteq a.instances
  BY <1>1 DEF Holds, ProgressOf, Progress
<1>e. OnlyAsync(ends)
  BY DEF OnlyAsync
<1>3. /\ w \in [SUBSET Services -> Resolvers]
      /\ \A r \in SUBSET Services : Resolves(reg, r, w[r])
  BY ONLY <1>1, <1>2, <1>e, ends \in Endings, WithinSound
<1>4. \A r \in SUBSET Services : Succeeds(reg, r, w[r])
  BY <1>1, <1>2, WithinSucceeds
<1>5. h \in Resolvers /\ Resolves(reg, R, h) /\ Succeeds(reg, R, h)
  BY <1>1, <1>2, <1>3, <1>4
<1>6. \A k \in Range(keys) : k \in DOMAIN reg /\ Safe(reg, R, k)
  BY <1>1 DEF Safe
<1>7. Folded(h, a, keys).out = "ok"
  BY ONLY <1>2, <1>5, <1>6, keys \in Seq(Keys), FoldedSucceeds
<1>8. Resolve(st, keys, ends).out = Folded(h, a, keys).out
  BY <1>1 DEF Resolve, ProgressOf, Within
<1> QED
  BY <1>7, <1>8

LEMMA NoneMissing ==
  ASSUME wiring \in Wirings
  PROVE  ~ Missing(Fresh) <=> Complete(Fresh.registry)
<1>1. PICK reg, I : reg = Fresh.registry /\ I = Fresh.instances
  OBVIOUS
<1>2. Registry(reg) /\ I = DOMAIN reg \ Services /\ Settled(reg, I)
  BY <1>1, FreshHolds
<1>3. Missing(Fresh) <=> \E s \in (DOMAIN reg \cap Services) \ I : ~ (Range(reg[s]) \subseteq DOMAIN reg)
  BY <1>1 DEF Missing, Checked
<1>4. \A x \in DOMAIN reg \ Services : Range(reg[x]) \subseteq DOMAIN reg
  BY <1>2 DEF Settled, ClosedIn
<1> QED
  BY <1>1, <1>2, <1>3, <1>4 DEF Complete

\* Without constructors that fail, what a program registers can be resolved, one service
\* by itself, exactly when everything in it can be had without itself.
LEMMA AllResolve ==
  ASSUME wiring \in Wirings, NEW ends, ends = [s \in Services |-> "ok"]
  PROVE  (\A k \in DOMAIN Fresh.registry : Resolve(Fresh, <<k>>, ends).out = "ok")
           <=> AllGrounded(Fresh.registry)
<1>0. ends \in Endings /\ \A s \in Services : ends[s] = "ok"
  BY DEF Endings
<1>e. OnlyAsync(ends)
  BY <1>0 DEF OnlyAsync
<1>1. PICK st, reg : st = Fresh /\ reg = Fresh.registry
  OBVIOUS
<1>2. /\ Holds(st) /\ st.registry = reg /\ st.resolving = {} /\ Registry(reg)
      /\ st.instances = DOMAIN reg \ Services
      /\ Settled(reg, st.instances)
  BY <1>1, FreshHolds
<1>3. ASSUME NEW k \in DOMAIN reg
      PROVE  <<k>> \in Seq(Keys) /\ Range(<<k>>) = {k}
  BY <1>2 DEF Registry, Range
<1>4. ASSUME AllGrounded(reg), NEW k \in DOMAIN reg
      PROVE  Resolve(st, <<k>>, ends).out = "ok"
  <2>1. PICK keys : keys = <<k>>
    OBVIOUS
  <2>2. keys \in Seq(Keys) /\ Range(keys) \subseteq DOMAIN st.registry
        /\ DOMAIN st.registry \ Services \subseteq st.instances /\ AllGrounded(st.registry)
    BY <1>2, <1>3, <1>4, <2>1
  <2>3. Resolve(st, keys, ends).out = "ok"
    BY ONLY <1>0, <1>2, <2>2, ResolveSucceeds
  <2> QED
    BY <2>1, <2>3
<1>5. ASSUME NEW k \in DOMAIN reg, Resolve(st, <<k>>, ends).out = "ok"
      PROVE  Range(reg[k]) \subseteq DOMAIN reg /\ (k \in Services => Grounded(reg, k))
  <2>1. PICK keys : keys = <<k>> /\ keys \in Seq(Keys) /\ Range(keys) = {k}
    BY <1>3
  <2>2. PICK done \in Progress :
          /\ Follows(st.registry, st.resolving, ProgressOf(st), done)
          /\ done.out = "ok" => Range(keys) \subseteq done.instances
          /\ Resolve(st, keys, ends) =
                [st  |-> [st EXCEPT !.instances = done.instances, !.built = done.built,
                                    !.wasted = done.wasted],
                 out |-> done.out]
    BY ONLY <1>0, <1>e, <1>2, <2>1, ResolveSound
  <2>3. done.out = "ok"
    BY <1>5, <2>1, <2>2
  <2>4. ProgressOf(st).instances = st.instances
    BY DEF ProgressOf
  <2>5. k \in done.instances /\ Settled(reg, done.instances)
    BY <1>2, <2>1, <2>2, <2>3, <2>4 DEF Follows
  <2> QED
    BY <2>5 DEF Settled, ClosedIn
<1> QED
  BY <1>1, <1>2, <1>4, <1>5 DEF AllGrounded, Complete

\* The validator and resolve() agree on every graph that a program may register
\* (DependencyValidator.validate, Container.resolve).
THEOREM ValidatorIsExact ==
  ASSUME wiring \in Wirings
  PROVE  ValidationIsExact
<1>1. PICK ends, reg : ends = [s \in Services |-> "ok"] /\ reg = Fresh.registry
  OBVIOUS
<1>2. Settled(reg, DOMAIN reg \ Services)
  BY <1>1, FreshHolds
<1>3. ~ Missing(Fresh) /\ ~ Circular(reg) <=> AllGrounded(reg)
  BY <1>1, <1>2, NoneMissing, CircularIsExact DEF AllGrounded
<1>4. (\A k \in DOMAIN Fresh.registry : Resolve(Fresh, <<k>>, ends).out = "ok")
        <=> AllGrounded(reg)
  BY <1>1, AllResolve
<1> QED
  BY <1>1, <1>3, <1>4 DEF ValidationIsExact, Validates

-----------------------------------------------------------------------------
(* resolveAsync(): the frames that begin in one turn. *)

Enterers == [Services -> [Entrances -> [Keys -> Entrances]]]

\* s has met an error, or awaits a frame for d that begins.
Failing(a, s, found) == [resolving |-> a.resolving, frames |-> Blamed(a.frames, s, found)]
Child(a, s, d) == Begun([resolving |-> a.resolving, frames |-> Awaits(a.frames, s, d)], d, s)

\* One field of one frame changes.
LEMMA BlamedIs ==
  ASSUME NEW frames \in [Services -> Frames], NEW s \in Services,
         NEW e \in {"missing", "circular", "threw"}, NEW f, f = Blamed(frames, s, e)
  PROVE  /\ f \in [Services -> Frames]
         /\ \A x \in Services : x # s => f[x] = frames[x]
         /\ f[s].at = frames[s].at /\ f[s].left = frames[s].left /\ f[s].parent = frames[s].parent
         /\ f[s].bad \in {frames[s].bad, e}
<1>1. PICK g, b, h : /\ g = frames[s] /\ b = IF g.bad = "" THEN e ELSE g.bad
                     /\ h = [g EXCEPT !.bad = b]
  OBVIOUS
<1>2. g \in Frames /\ b \in {"", "missing", "circular", "threw"} /\ b \in {g.bad, e}
  BY <1>1 DEF Frames
<1>3. h \in Frames /\ h.at = g.at /\ h.left = g.left /\ h.parent = g.parent /\ h.bad = b
  BY <1>1, <1>2 DEF Frames
<1>4. f = [frames EXCEPT ![s] = h]
  BY <1>1 DEF Blamed
<1> QED
  BY <1>1, <1>2, <1>3, <1>4

\* Promise.all() over the dependencies: the frame awaits one more.
LEMMA AwaitsIs ==
  ASSUME NEW frames \in [Services -> Frames], NEW s \in Services, NEW d \in Services,
         NEW f, f = Awaits(frames, s, d)
  PROVE  /\ f \in [Services -> Frames]
         /\ \A x \in Services : x # s => f[x] = frames[x]
         /\ f[s].at = frames[s].at /\ f[s].bad = frames[s].bad /\ f[s].parent = frames[s].parent
         /\ f[s].left = frames[s].left \union {d}
<1>1. PICK g, b, h : /\ g = frames[s] /\ b = g.left \union {d} /\ h = [g EXCEPT !.left = b]
  OBVIOUS
<1>2. g \in Frames /\ b \in SUBSET Services
  BY <1>1 DEF Frames
<1>3. h \in Frames /\ h.at = g.at /\ h.left = b /\ h.parent = g.parent /\ h.bad = g.bad
  BY <1>1, <1>2 DEF Frames
<1>4. f = [frames EXCEPT ![s] = h]
  BY <1>1 DEF Awaits
<1> QED
  BY <1>1, <1>2, <1>3, <1>4

\* A call of resolveInternalAsync() that begins.
NewFrame(parent) == [at |-> "deps", left |-> {}, bad |-> "", parent |-> parent]

LEMMA NewFrameIs ==
  ASSUME NEW p
  PROVE  /\ NewFrame(p).at = "deps" /\ NewFrame(p).left = {} /\ NewFrame(p).bad = ""
         /\ NewFrame(p).parent = p
         /\ p \in Services \union {NoParent} => NewFrame(p) \in Frames
BY DEF NewFrame, Frames

LEMMA BegunIs ==
  ASSUME NEW a, a.resolving \in SUBSET Services, a.frames \in [Services -> Frames],
         NEW d \in Services, NEW p \in Services \union {NoParent}, NEW b, b = Begun(a, d, p)
  PROVE  /\ b \in Entrances
         /\ b.resolving = a.resolving \union {d}
         /\ b.frames[d] = NewFrame(p)
         /\ \A x \in Services : x # d => b.frames[x] = a.frames[x]
<1>1. PICK g, h, r : /\ g = NewFrame(p) /\ h = [a.frames EXCEPT ![d] = g]
                     /\ r = a.resolving \union {d}
  OBVIOUS
<1>2. g \in Frames
  BY <1>1, NewFrameIs
<1>3. h \in [Services -> Frames] /\ h[d] = g /\ \A x \in Services : x # d => h[x] = a.frames[x]
  BY <1>1, <1>2
<1>4. b = [resolving |-> r, frames |-> h]
  BY <1>1 DEF Begun, NewFrame
<1>5. r \in SUBSET Services
  BY <1>1
<1>6. b \in Entrances /\ b.resolving = r /\ b.frames = h
  BY <1>3, <1>4, <1>5 DEF Entrances
<1> QED
  BY <1>1, <1>3, <1>6

LEMMA EntranceParts ==
  ASSUME NEW a \in Entrances
  PROVE  a.resolving \in SUBSET Services /\ a.frames \in [Services -> Frames]
BY DEF Entrances

\* b is a, except for the error of s.
HasFailed(a, s, e, b) ==
  /\ b \in Entrances
  /\ b.resolving = a.resolving
  /\ \A x \in Services : x # s => b.frames[x] = a.frames[x]
  /\ b.frames[s].at = a.frames[s].at /\ b.frames[s].left = a.frames[s].left
  /\ b.frames[s].parent = a.frames[s].parent
  /\ b.frames[s].bad \in {a.frames[s].bad, e}

\* b is a, except that s awaits d, whose frame is new.
HasChild(a, s, d, b) ==
  /\ b \in Entrances
  /\ b.resolving = a.resolving \union {d}
  /\ b.frames[d] = NewFrame(s)
  /\ \A x \in Services : x # s /\ x # d => b.frames[x] = a.frames[x]
  /\ s # d =>
       /\ b.frames[s].at = a.frames[s].at
       /\ b.frames[s].left = a.frames[s].left \union {d}
       /\ b.frames[s].bad = a.frames[s].bad
       /\ b.frames[s].parent = a.frames[s].parent

LEMMA FailingIs ==
  ASSUME NEW a \in Entrances, NEW s \in Services, NEW e \in {"missing", "circular"}
  PROVE  HasFailed(a, s, e, Failing(a, s, e))
<1> PICK b : b = Failing(a, s, e)
  OBVIOUS
<1>1. PICK f, g, r : f = a.frames /\ g = Blamed(f, s, e) /\ r = a.resolving
  OBVIOUS
<1>2. r \in SUBSET Services /\ f \in [Services -> Frames]
  BY <1>1, EntranceParts
<1>3. /\ g \in [Services -> Frames]
      /\ \A x \in Services : x # s => g[x] = f[x]
      /\ g[s].at = f[s].at /\ g[s].left = f[s].left /\ g[s].parent = f[s].parent
      /\ g[s].bad \in {f[s].bad, e}
  BY <1>1, <1>2, BlamedIs
<1>4. b = [resolving |-> r, frames |-> g]
  BY <1>1 DEF Failing
<1>5. b \in Entrances /\ b.resolving = r /\ b.frames = g
  BY <1>2, <1>3, <1>4 DEF Entrances
<1> QED
  BY <1>1, <1>3, <1>5 DEF HasFailed

LEMMA ChildIs ==
  ASSUME NEW a \in Entrances, NEW s \in Services, NEW d \in Services
  PROVE  HasChild(a, s, d, Child(a, s, d))
<1> PICK b : b = Child(a, s, d)
  OBVIOUS
<1>1. PICK f, g, r, c : f = a.frames /\ g = Awaits(f, s, d) /\ r = a.resolving
                        /\ c = [resolving |-> r, frames |-> g]
  OBVIOUS
<1>2. r \in SUBSET Services /\ f \in [Services -> Frames]
  BY <1>1, EntranceParts
<1>3. /\ g \in [Services -> Frames]
      /\ \A x \in Services : x # s => g[x] = f[x]
      /\ g[s].at = f[s].at /\ g[s].bad = f[s].bad /\ g[s].parent = f[s].parent
      /\ g[s].left = f[s].left \union {d}
  BY <1>1, <1>2, AwaitsIs
<1>4. c.resolving = r /\ c.frames = g
  BY <1>1
<1>5. b = Begun(c, d, s)
  BY <1>1 DEF Child
<1>6. c.resolving \in SUBSET Services /\ c.frames \in [Services -> Frames]
  BY <1>2, <1>3, <1>4
<1>7. /\ b \in Entrances /\ b.resolving = c.resolving \union {d} /\ b.frames[d] = NewFrame(s)
      /\ \A x \in Services : x # d => b.frames[x] = c.frames[x]
  BY ONLY <1>5, <1>6, d \in Services, s \in Services, BegunIs
<1> QED
  BY <1>1, <1>3, <1>4, <1>7 DEF HasChild

LEMMA EntrancePath ==
  ASSUME NEW h \in [Entrances -> [Keys -> Entrances]], NEW keys \in Seq(Keys), NEW a \in Entrances
  PROVE  Folded(h, a, keys) \in Entrances
<1>1. PICK t : IsPath(t, h, a, keys, Entrances) /\ Folded(h, a, keys) = t[Len(keys)]
  BY FoldedPath
<1>2. Len(keys) \in 0 .. Len(keys)
  OBVIOUS
<1> QED
  BY <1>1, <1>2 DEF IsPath

LEMMA EntranceType ==
  ASSUME NEW reg, Registry(reg), NEW I, NEW P \in SUBSET Services,
         NEW f, \A d \in Services \ P : f[P \union {d}] \in Enterers
  PROVE  Entrance(reg, I, f, P) \in Enterers
<1> DEFINE r == Entrance(reg, I, f, P)
<1>1. ASSUME NEW s \in Services, NEW a \in Entrances, NEW d \in Keys PROVE r[s][a][d] \in Entrances
  <2>1. PICK found : found = Finds(reg, I, P \cup a.resolving, d)
    OBVIOUS
  <2>2. r[s][a][d] = IF found = "ok" THEN a
                     ELSE IF found # "new" THEN Failing(a, s, found)
                     ELSE Folded(f[P \union {d}][d], Child(a, s, d), reg[d])
    <3>1. s \in Services /\ a \in Entrances /\ d \in Keys
      OBVIOUS
    <3>2. Entrance(reg, I, f, P)[s][a][d] =
            IF found = "ok" THEN a
            ELSE IF found # "new" THEN Failing(a, s, found)
            ELSE Folded(f[P \union {d}][d], Child(a, s, d), reg[d])
      BY ONLY <2>1, <3>1 DEF Entrance, Failing, Child
    <3> QED
      BY <3>2
  <2> HIDE DEF r
  <2>3. CASE found = "ok"
    BY <2>2, <2>3
  <2>4. CASE found \in {"missing", "circular"}
    BY <2>2, <2>4, FailingIs DEF HasFailed
  <2>5. CASE found = "new"
    <3>0. Finds(reg, I, P \union a.resolving, d) = "new"
      BY <2>1, <2>5
    <3>1. d \in Services \ (P \union a.resolving) /\ d \in DOMAIN reg
      BY ONLY <3>0, FindsNew
    <3>2. PICK e, g, q, c : /\ e = f[P \union {d}] /\ g = e[d] /\ q = reg[d]
                            /\ c = Child(a, s, d)
      OBVIOUS
    <3>3. e \in Enterers /\ q \in Seq(Keys)
      BY <3>1, <3>2 DEF Registry
    <3>4. g \in [Entrances -> [Keys -> Entrances]]
      BY <3>1, <3>2, <3>3 DEF Enterers
    <3>5. c \in Entrances
      BY <3>1, <3>2, ChildIs DEF HasChild
    <3>6. Folded(g, c, q) \in Entrances
      BY ONLY <3>3, <3>4, <3>5, EntrancePath
    <3> QED
      BY <2>2, <2>5, <3>2, <3>6
  <2>6. found \in {"ok", "missing", "circular", "new"}
    BY <2>1, FindsOk
  <2> QED
    BY <2>3, <2>4, <2>5, <2>6
<1>2. r = [s \in Services |-> [a \in Entrances |-> [d \in Keys |-> r[s][a][d]]]]
  BY DEF Entrance
<1> HIDE DEF r
<1>3. [s \in Services |-> [a \in Entrances |-> [d \in Keys |-> r[s][a][d]]]] \in Enterers
  BY <1>1 DEF Enterers
<1> QED
  BY <1>2, <1>3 DEF r

LEMMA EntranceSame ==
  ASSUME NEW reg, NEW I, NEW P \in SUBSET Services, NEW f, NEW g,
         \A d \in Services \ P : f[P \union {d}] = g[P \union {d}]
  PROVE  Entrance(reg, I, f, P) = Entrance(reg, I, g, P)
<1>1. \A a \in Entrances, d \in Keys :
        Finds(reg, I, P \cup a.resolving, d) = "new" => f[P \union {d}] = g[P \union {d}]
  <2> TAKE a \in Entrances, d \in Keys
  <2>1. Finds(reg, I, P \cup a.resolving, d) = "new" => d \in Services \ (P \cup a.resolving)
    BY FindsNew
  <2> QED
    BY <2>1
<1> QED
  BY ONLY <1>1, ZenonT(30) DEF Entrance

\* The recursion of resolveAsync() has a solution, and TLA+ takes one.
Beneath(reg, I) == CHOOSE f : f = [P \in SUBSET Services |-> Entrance(reg, I, f, P)]

LEMMA BeneathIs ==
  ASSUME NEW reg, Registry(reg), NEW I, NEW w, w = Beneath(reg, I)
  PROVE  /\ w \in [SUBSET Services -> Enterers]
         /\ \A P \in SUBSET Services : w[P] = Entrance(reg, I, w, P)
<1> DEFINE All == SUBSET Services
           G == [x \in All \X [All -> Enterers] |-> Entrance(reg, I, x[2], x[1])]
<1>1. ASSUME NEW P \in All, NEW f \in [All -> Enterers]
      PROVE  Entrance(reg, I, f, P) \in Enterers
  <2>1. \A d \in Services \ P : f[P \union {d}] \in Enterers
    OBVIOUS
  <2> QED
    BY <2>1, EntranceType
<1>2. \A P \in All, f \in [All -> Enterers] : G[P, f] = Entrance(reg, I, f, P)
  OBVIOUS
<1>3. G \in [All \X [All -> Enterers] -> Enterers]
  BY <1>1
<1> HIDE DEF G
<1>4. ASSUME NEW P \in All, NEW f \in [All -> Enterers], NEW g \in [All -> Enterers],
             \A d \in Services \ P : f[P \union {d}] = g[P \union {d}]
      PROVE  G[P, f] = G[P, g]
  <2>1. Entrance(reg, I, f, P) = Entrance(reg, I, g, P)
    BY ONLY P \in SUBSET Services, <1>4, EntranceSame
  <2> QED
    BY <1>2, <2>1
<1>5. PICK v : v \in Enterers
  <2>1. [s \in Services |-> [a \in Entrances |-> [k \in Keys |-> a]]] \in Enterers
    BY DEF Enterers
  <2> QED
    BY <2>1
<1>6. \E f \in [All -> Enterers] : \A P \in All : f[P] = G[P, f]
  <2>1. PICK V, H : V = Enterers /\ H = G
    OBVIOUS
  <2>2. v \in V
    BY <1>5, <2>1
  <2>3. Growing(V, H)
    <3>1. H \in [All \X [All -> V] -> V]
      BY <1>3, <2>1
    <3>2. ASSUME NEW P \in All, NEW f \in [All -> V], NEW g \in [All -> V],
                 \A s \in Services \ P : f[P \union {s}] = g[P \union {s}]
          PROVE  H[P, f] = H[P, g]
      <4>1. f \in [All -> Enterers] /\ g \in [All -> Enterers]
        BY ONLY <2>1, f \in [All -> V], g \in [All -> V]
      <4>2. G[P, f] = G[P, g]
        BY ONLY <1>4, <3>2, <4>1
      <4> QED
        BY ONLY <2>1, <4>2
    <3> QED
      BY ONLY <3>1, <3>2, Zenon DEF Growing
  <2>4. HasSolution(V, H)
    BY ONLY <2>2, <2>3, RecursionExists
  <2> QED
    BY <2>1, <2>4 DEF HasSolution
<1>7. PICK f \in [All -> Enterers] : \A P \in All : f[P] = Entrance(reg, I, f, P)
  BY <1>2, <1>6
<1>8. f = [P \in All |-> Entrance(reg, I, f, P)]
  BY <1>7
<1>9. w = [P \in All |-> Entrance(reg, I, w, P)]
  BY <1>8 DEF Beneath
<1>10. \A P \in All : w[P] = Entrance(reg, I, w, P)
  BY <1>9
<1>11. \A P \in All : w[P] \in Enterers
  <2> DEFINE Bad == {P \in All : w[P] \notin Enterers}
  <2> SUFFICES ASSUME Bad # {} PROVE FALSE
    OBVIOUS
  <2>1. PICK P \in Bad : \A s \in Services \ P : P \union {s} \notin Bad
    <3>1. Bad \in SUBSET (SUBSET Services)
      OBVIOUS
    <3> QED
      BY ONLY <3>1, Bad # {}, LargestFirst
  <2>2. \A s \in Services \ P : w[P \union {s}] \in Enterers
    <3>1. P \in SUBSET Services
      OBVIOUS
    <3> QED
      BY ONLY <2>1, <3>1
  <2>3. Entrance(reg, I, w, P) \in Enterers
    BY <2>1, <2>2, EntranceType
  <2> QED
    BY <1>10, <2>1, <2>3
<1>12. DOMAIN w = All
  BY <1>9
<1> QED
  BY <1>9, <1>10, <1>11, <1>12

\* The frames that are alive are those of the services marked as resolving, none of which
\* has an instance; and what a frame awaits is alive and answers to it.
Alive(I, a) ==
  /\ a.resolving \intersect I = {}
  /\ \A x \in Services : x \in a.resolving <=> a.frames[x].at # "none"
  /\ \A x \in Services : x \notin a.resolving => a.frames[x] = Idle
  /\ \A x \in Services : \A d \in a.frames[x].left :
       d \in a.resolving /\ a.frames[d].parent = x /\ d # x

\* What frames that begin below s leave alone.
Keeps(a, b, s) ==
  /\ a.resolving \subseteq b.resolving
  /\ \A x \in a.resolving : x # s => b.frames[x] = a.frames[x]
  /\ b.frames[s].at = a.frames[s].at /\ b.frames[s].parent = a.frames[s].parent

Enters(I, s, h) ==
  \A a \in Entrances : \A d \in Keys :
    s \in a.resolving /\ Alive(I, a) => Alive(I, h[a][d]) /\ Keeps(a, h[a][d], s)

LEMMA KeepsTwice ==
  ASSUME NEW s, NEW a, NEW b, NEW c, s \in a.resolving, Keeps(a, b, s), Keeps(b, c, s)
  PROVE  Keeps(a, c, s)
BY DEF Keeps

LEMMA FoldedEnters ==
  ASSUME NEW I, NEW s \in Services, NEW h \in [Entrances -> [Keys -> Entrances]], Enters(I, s, h),
         NEW keys \in Seq(Keys), NEW a \in Entrances, s \in a.resolving, Alive(I, a),
         NEW b, b = Folded(h, a, keys)
  PROVE  b \in Entrances /\ Alive(I, b) /\ Keeps(a, b, s)
<1> DEFINE Good == {x \in Nat \X Entrances : Alive(I, x[2]) /\ Keeps(a, x[2], s)}
<1>1. \A i \in 1 .. Len(keys) : i \in Nat /\ keys[i] \in Keys
  OBVIOUS
<1>2. <<0, a>> \in Good
  BY DEF Keeps
<1>3. ASSUME NEW i \in 1 .. Len(keys), NEW c \in Entrances, <<i - 1, c>> \in Good
      PROVE  <<i, h[c][keys[i]]>> \in Good
  <2>1. PICK d : d = h[c][keys[i]]
    OBVIOUS
  <2>2. d \in Entrances
    BY <1>1, <2>1
  <2>3. Alive(I, c) /\ Keeps(a, c, s)
    BY <1>3
  <2>4. s \in c.resolving
    BY <2>3 DEF Keeps
  <2>5. Alive(I, d) /\ Keeps(c, d, s)
    BY <1>1, <2>1, <2>3, <2>4 DEF Enters
  <2>6. Keeps(a, d, s)
    BY <2>3, <2>5, KeepsTwice
  <2> QED
    BY <1>1, <2>1, <2>2, <2>5, <2>6
<1> HIDE DEF Good
<1>4. b \in Entrances /\ <<Len(keys), b>> \in Good
  BY <1>2, <1>3, FoldedKeeps
<1> QED
  BY <1>4 DEF Good

\* A frame that begins below another one.
LEMMA ChildAlive ==
  ASSUME NEW I, NEW a \in Entrances, Alive(I, a), NEW s \in a.resolving,
         NEW d \in Services, d \notin a.resolving, d \notin I, NEW b, b = Child(a, s, d)
  PROVE  Alive(I, b) /\ Keeps(a, b, s) /\ d \in b.resolving
<1>0. s \in Services /\ s # d
  BY DEF Entrances
<1>1. /\ b \in Entrances
      /\ b.resolving = a.resolving \union {d}
      /\ b.frames[d] = NewFrame(s)
      /\ \A x \in Services : x # s /\ x # d => b.frames[x] = a.frames[x]
      /\ b.frames[s].at = a.frames[s].at
      /\ b.frames[s].left = a.frames[s].left \union {d}
      /\ b.frames[s].parent = a.frames[s].parent
  <2>1. HasChild(a, s, d, Child(a, s, d))
    BY <1>0, ChildIs
  <2> QED
    BY <1>0, <2>1 DEF HasChild
<1>2. NewFrame(s).at = "deps" /\ NewFrame(s).left = {} /\ NewFrame(s).parent = s
  BY NewFrameIs
<1>3. Keeps(a, b, s)
  <2>1. a.resolving \in SUBSET Services
    BY EntranceParts
  <2> QED
    BY <1>1, <2>1 DEF Keeps
<1>4. b.resolving \intersect I = {}
  BY <1>1 DEF Alive
<1>5. ASSUME NEW x \in Services
      PROVE  /\ x \in b.resolving <=> b.frames[x].at # "none"
             /\ x \notin b.resolving => b.frames[x] = Idle
  <2>1. CASE x = d
    BY <1>1, <1>2, <2>1
  <2>2. CASE x = s
    BY <1>1, <2>2 DEF Alive
  <2>3. CASE x # d /\ x # s
    BY <1>1, <2>3 DEF Alive
  <2> QED
    BY <2>1, <2>2, <2>3
<1>6. ASSUME NEW x \in Services, NEW e \in b.frames[x].left
      PROVE  e \in b.resolving /\ b.frames[e].parent = x /\ e # x
  <2>1. CASE x = d
    BY <1>1, <1>2, <1>6, <2>1
  <2>2. CASE x # d
    <3>1. CASE e \in a.frames[x].left
      <4>1. e \in a.resolving /\ a.frames[e].parent = x /\ e # x /\ e # d /\ e \in Services
        BY <3>1, EntranceParts DEF Alive
      <4> QED
        BY <1>1, <4>1
    <3>2. CASE e \notin a.frames[x].left
      <4>1. x = s /\ e = d
        BY <1>1, <1>6, <2>2, <3>2
      <4> QED
        BY <1>0, <1>1, <1>2, <4>1
    <3> QED
      BY <3>1, <3>2
  <2> QED
    BY <2>1, <2>2
<1> QED
  BY <1>1, <1>3, <1>4, <1>5, <1>6 DEF Alive

LEMMA FailingAlive ==
  ASSUME NEW I, NEW a \in Entrances, Alive(I, a), NEW s \in a.resolving,
         NEW e \in {"missing", "circular"}, NEW b, b = Failing(a, s, e)
  PROVE  Alive(I, b) /\ Keeps(a, b, s)
<1>0. s \in Services /\ a.resolving \in SUBSET Services
  BY DEF Entrances
<1>1. /\ b \in Entrances
      /\ b.resolving = a.resolving
      /\ \A x \in Services : x # s => b.frames[x] = a.frames[x]
      /\ b.frames[s].at = a.frames[s].at /\ b.frames[s].left = a.frames[s].left
      /\ b.frames[s].parent = a.frames[s].parent
  <2>1. HasFailed(a, s, e, Failing(a, s, e))
    BY <1>0, FailingIs
  <2> QED
    BY <2>1 DEF HasFailed
<1>2. Keeps(a, b, s)
  BY <1>0, <1>1 DEF Keeps
<1>3. \A x \in Services : /\ b.frames[x].at = a.frames[x].at /\ b.frames[x].left = a.frames[x].left
                          /\ b.frames[x].parent = a.frames[x].parent
  BY <1>1
<1>4. \A x \in Services : x \notin b.resolving => b.frames[x] = Idle
  BY <1>1 DEF Alive
<1>5. \A x \in Services : \A d \in b.frames[x].left :
        d \in b.resolving /\ b.frames[d].parent = x /\ d # x
  <2> TAKE x \in Services
  <2> TAKE d \in b.frames[x].left
  <2>1. d \in a.resolving /\ a.frames[d].parent = x /\ d # x
    BY <1>3 DEF Alive
  <2> QED
    BY <1>0, <1>1, <1>3, <2>1
<1> QED
  BY <1>1, <1>2, <1>3, <1>4, <1>5 DEF Alive

\* What a frame does with one dependency: `found` says which of the four it is.
IsEntrance(reg, I, w, P, s, a, d, b, found) ==
  /\ found = "ok" => b = a
  /\ found \in {"missing", "circular"} => b = Failing(a, s, found)
  /\ found = "new" =>
       /\ d \in Services \ (P \union a.resolving) /\ d \in DOMAIN reg /\ d \notin I
       /\ reg[d] \in Seq(Keys)
       /\ w[P \union {d}][d] \in [Entrances -> [Keys -> Entrances]]
       /\ b = Folded(w[P \union {d}][d], Child(a, s, d), reg[d])
  /\ found \in {"ok", "missing", "circular", "new"}

LEMMA BeneathAt ==
  ASSUME NEW reg, Registry(reg), NEW I, NEW w, w = Beneath(reg, I),
         NEW P \in SUBSET Services, NEW s \in Services, NEW a \in Entrances, NEW d \in Keys
  PROVE  IsEntrance(reg, I, w, P, s, a, d, w[P][s][a][d], Finds(reg, I, P \cup a.resolving, d))
<1>0. PICK b, found : b = w[P][s][a][d] /\ found = Finds(reg, I, P \cup a.resolving, d)
  OBVIOUS
<1>1. /\ w \in [SUBSET Services -> Enterers]
      /\ \A Q \in SUBSET Services : w[Q] = Entrance(reg, I, w, Q)
  BY BeneathIs
<1>2. b = IF found = "ok" THEN a
          ELSE IF found # "new" THEN Failing(a, s, found)
          ELSE Folded(w[P \union {d}][d], Child(a, s, d), reg[d])
  <2>1. w[P] = Entrance(reg, I, w, P)
    BY <1>1
  <2>2. Entrance(reg, I, w, P)[s][a][d] =
          IF found = "ok" THEN a
          ELSE IF found # "new" THEN Failing(a, s, found)
          ELSE Folded(w[P \union {d}][d], Child(a, s, d), reg[d])
    BY <1>0 DEF Entrance, Failing, Child
  <2> QED
    BY ONLY <1>0, <2>1, <2>2
<1>3. CASE found = "new"
  <2>0. Finds(reg, I, P \union a.resolving, d) = "new"
    BY <1>0, <1>3
  <2>1. d \in Services \ (P \union a.resolving) /\ d \in DOMAIN reg /\ d \notin I
    BY ONLY <2>0, FindsNew
  <2>2. w[P \union {d}] \in Enterers
    BY <1>1, <2>1
  <2>3. w[P \union {d}][d] \in [Entrances -> [Keys -> Entrances]]
    BY <2>1, <2>2 DEF Enterers
  <2>4. reg[d] \in Seq(Keys)
    BY <2>1 DEF Registry
  <2> QED
    BY ONLY <1>0, <1>2, <1>3, <2>1, <2>3, <2>4 DEF IsEntrance
<1>4. found \in {"ok", "missing", "circular", "new"}
  BY <1>0, FindsOk
<1> QED
  BY ONLY <1>0, <1>2, <1>3, <1>4 DEF IsEntrance

\* Whatever begins below a frame leaves the container in order.
LEMMA BeneathEnters ==
  ASSUME NEW reg, Registry(reg), NEW I, NEW w, w = Beneath(reg, I)
  PROVE  \A P \in SUBSET Services : \A s \in Services : Enters(I, s, w[P][s])
<1> DEFINE Bad == {P \in SUBSET Services : ~ \A s \in Services : Enters(I, s, w[P][s])}
<1> SUFFICES ASSUME Bad # {} PROVE FALSE
  OBVIOUS
<1>1. PICK P \in Bad : \A s \in Services \ P : P \union {s} \notin Bad
  <2>1. Bad \in SUBSET (SUBSET Services)
    OBVIOUS
  <2> QED
    BY ONLY <2>1, Bad # {}, LargestFirst
<1>2. /\ P \in SUBSET Services
      /\ \A d \in Services \ P : \A s \in Services : Enters(I, s, w[P \union {d}][s])
  BY <1>1
<1> HIDE DEF Bad
<1>3. ASSUME NEW s \in Services, NEW a \in Entrances, NEW d \in Keys, s \in a.resolving, Alive(I, a)
      PROVE  Alive(I, w[P][s][a][d]) /\ Keeps(a, w[P][s][a][d], s)
  <2>1. PICK b, found : b = w[P][s][a][d] /\ found = Finds(reg, I, P \cup a.resolving, d)
    OBVIOUS
  <2>2. /\ found = "ok" => b = a
        /\ found \in {"missing", "circular"} => b = Failing(a, s, found)
        /\ found = "new" =>
             /\ d \in Services \ (P \union a.resolving) /\ d \in DOMAIN reg /\ d \notin I
             /\ reg[d] \in Seq(Keys)
             /\ w[P \union {d}][d] \in [Entrances -> [Keys -> Entrances]]
             /\ b = Folded(w[P \union {d}][d], Child(a, s, d), reg[d])
        /\ found \in {"ok", "missing", "circular", "new"}
    <3>1. IsEntrance(reg, I, w, P, s, a, d, b, found)
      <4>1. IsEntrance(reg, I, w, P, s, a, d, w[P][s][a][d],
                       Finds(reg, I, P \cup a.resolving, d))
        BY ONLY Registry(reg), w = Beneath(reg, I), <1>2, s \in Services, a \in Entrances,
                d \in Keys, BeneathAt
      <4> QED
        BY ONLY <4>1, <2>1
    <3> QED
      BY <3>1 DEF IsEntrance
  <2>3. CASE found = "ok"
    BY <1>3, <2>1, <2>2, <2>3 DEF Keeps
  <2>4. CASE found \in {"missing", "circular"}
    <3>1. b = Failing(a, s, found)
      BY <2>2, <2>4
    <3>2. Alive(I, b) /\ Keeps(a, b, s)
      BY <1>3, <2>4, <3>1, FailingAlive
    <3> QED
      BY <2>1, <3>2
  <2>5. CASE found = "new"
    <3>1. PICK h, c, q : h = w[P \union {d}][d] /\ c = Child(a, s, d) /\ q = reg[d]
      OBVIOUS
    <3>2. /\ d \in Services /\ d \notin P /\ d \notin a.resolving /\ d \notin I
          /\ q \in Seq(Keys) /\ h \in [Entrances -> [Keys -> Entrances]]
          /\ b = Folded(h, c, q)
      BY <2>2, <2>5, <3>1
    <3>3. Enters(I, d, h)
      BY <1>2, <3>1, <3>2
    <3>4. HasChild(a, s, d, c)
      BY <3>1, <3>2, ChildIs
    <3>5. c \in Entrances /\ s # d
      BY <1>3, <3>2, <3>4 DEF HasChild
    <3>6. Alive(I, c) /\ Keeps(a, c, s) /\ d \in c.resolving
      BY <1>3, <3>1, <3>2, ChildAlive
    <3>7. b \in Entrances /\ Alive(I, b) /\ Keeps(c, b, d)
      BY ONLY <3>2, <3>3, <3>5, <3>6, FoldedEnters
    <3>8. Keeps(a, b, s)
      <4>1. a.resolving \in SUBSET Services /\ s \in c.resolving
        BY <1>3, <3>6, EntranceParts DEF Keeps
      <4>2. c.resolving \subseteq b.resolving /\ \A x \in c.resolving : x # d => b.frames[x] = c.frames[x]
        BY <3>7 DEF Keeps
      <4>3. \A x \in a.resolving : x # d
        BY <3>2
      <4> QED
        BY <3>5, <3>6, <4>1, <4>2, <4>3 DEF Keeps
    <3> QED
      BY <2>1, <3>7, <3>8
  <2> QED
    BY <2>2, <2>3, <2>4, <2>5
<1>4. \A s \in Services : Enters(I, s, w[P][s])
  BY <1>3 DEF Enters
<1> QED
  BY <1>1, <1>4 DEF Bad

-----------------------------------------------------------------------------
(* A service below which nothing is shared. *)

\* The least set with what a closed one that has s has.
Closure(st, s) == {d \in Keys : \A S \in SUBSET Keys : s \in S /\ Closed(st, S) => d \in S}

LEMMA ClosureIs ==
  ASSUME NEW st, Registry(st.registry), NEW s \in Keys
  PROVE  /\ s \in Closure(st, s) /\ Closure(st, s) \in SUBSET Keys /\ Closed(st, Closure(st, s))
         /\ \A S \in SUBSET Keys : s \in S /\ Closed(st, S) => Closure(st, s) \subseteq S
         /\ Below(st, s) = (Closure(st, s) \intersect Services) \ st.instances
<1>1. \A k \in DOMAIN st.registry : k \in Keys /\ Range(st.registry[k]) \subseteq Keys
  BY DEF Registry, Range
<1>2. Closed(st, Closure(st, s))
  BY <1>1 DEF Closed, Closure
<1>3. Services \subseteq Keys
  BY DEF Keys
<1> QED
  BY <1>2, <1>3 DEF Closure, Below

\* A container whose services can be had without themselves.
Sound(st) ==
  /\ Registry(st.registry) /\ st.instances \in SUBSET Keys
  /\ DOMAIN st.registry \ Services \subseteq st.instances
  /\ \A d \in (DOMAIN st.registry \intersect Services) \ st.instances :
       \E A \in SUBSET Keys : Closed(st, A) /\ d \notin A /\ Range(st.registry[d]) \subseteq A

\* What there is below a dependency.
LEMMA BelowDependency ==
  ASSUME NEW st, Sound(st), NEW d \in (DOMAIN st.registry \intersect Services) \ st.instances,
         NEW u \in Range(st.registry[d])
  PROVE  /\ u \in Keys /\ Closure(st, u) \subseteq Closure(st, d) /\ d \notin Closure(st, u)
<1>0. Registry(st.registry) /\ d \in Keys
  BY DEF Sound, Keys
<1>1. u \in Keys
  BY <1>0 DEF Registry, Range
<1>2. /\ d \in Closure(st, d) /\ Closure(st, d) \in SUBSET Keys /\ Closed(st, Closure(st, d))
  BY <1>0, ClosureIs
<1>3. u \in Closure(st, d)
  BY <1>2 DEF Closed
<1>4. \A S \in SUBSET Keys : u \in S /\ Closed(st, S) => Closure(st, u) \subseteq S
  BY <1>0, <1>1, ClosureIs
<1>5. Closure(st, u) \subseteq Closure(st, d)
  BY <1>2, <1>3, <1>4
<1>6. d \notin Closure(st, u)
  BY <1>4 DEF Sound
<1> QED
  BY <1>1, <1>5, <1>6

\* Below whom something is that is not v itself.
LEMMA DependsBelow ==
  ASSUME NEW st, Sound(st), NEW v \in Keys, NEW x \in Closure(st, v), x # v
  PROVE  \E k \in (Closure(st, v) \intersect DOMAIN st.registry) \ st.instances :
           x \in Range(st.registry[k])
<1>0. /\ v \in Closure(st, v) /\ Closure(st, v) \in SUBSET Keys /\ Closed(st, Closure(st, v))
      /\ \A S \in SUBSET Keys : v \in S /\ Closed(st, S) => Closure(st, v) \subseteq S
  BY ClosureIs DEF Sound
<1> SUFFICES ASSUME \A k \in (Closure(st, v) \intersect DOMAIN st.registry) \ st.instances :
                      x \notin Range(st.registry[k])
             PROVE  FALSE
  OBVIOUS
<1>1. PICK S : S = Closure(st, v) \ {x}
  OBVIOUS
<1>2. S \in SUBSET Keys /\ v \in S /\ Closed(st, S)
  BY <1>0, <1>1 DEF Closed
<1> QED
  BY <1>0, <1>1, <1>2

\* Two dependencies of a service on a tree have nothing below them in common.
LEMMA Branches ==
  ASSUME NEW st, Sound(st), NEW r, IsTree(st, r),
         NEW d \in Below(st, r) \intersect DOMAIN st.registry,
         NEW i \in DOMAIN st.registry[d], NEW j \in DOMAIN st.registry[d], i # j,
         Closure(st, d) \intersect (Services \ st.instances) \subseteq Below(st, r)
  PROVE  Below(st, st.registry[d][i]) \intersect Below(st, st.registry[d][j]) = {}
<1> DEFINE reg == st.registry
           q == reg[d]
           C(x) == Closure(st, x)
           New == Services \ st.instances
<1>0. /\ Registry(reg) /\ d \in Services /\ d \in Keys /\ d \in DOMAIN reg /\ d \notin st.instances
      /\ \A k \in DOMAIN reg \ st.instances : k \in Services
  BY DEF Sound, Below, Keys
<1>1. PICK u, v : u = q[i] /\ v = q[j]
  OBVIOUS
<1>2. u \in Range(q) /\ v \in Range(q)
  BY <1>1 DEF Range
<1>3. /\ u \in Keys /\ C(u) \subseteq C(d) /\ d \notin C(u)
      /\ v \in Keys /\ C(v) \subseteq C(d) /\ d \notin C(v)
  BY <1>0, <1>2, BelowDependency
<1>4. \A k, l \in Below(st, r) \cap DOMAIN reg : \A m \in DOMAIN reg[k], n \in DOMAIN reg[l] :
        reg[k][m] = reg[l][n] /\ reg[k][m] \in Below(st, r) => k = l /\ m = n
  BY DEF IsTree
<1>5. ASSUME NEW k \in (C(d) \intersect DOMAIN reg) \ st.instances, NEW m \in {i, j},
             q[m] \in New, q[m] \in Range(reg[k])
      PROVE  k = d
  <2>1. k \in Below(st, r) /\ k \in DOMAIN reg
    BY <1>0
  <2>2. q[m] \in Below(st, r)
    <3>1. u \in C(u) /\ v \in C(v)
      BY <1>0, <1>3, ClosureIs
    <3>2. q[m] \in C(d)
      BY <1>1, <1>3, <1>5, <3>1
    <3> QED
      BY <1>5, <3>2
  <2>3. PICK n \in DOMAIN reg[k] : reg[k][n] = q[m]
    BY <1>5 DEF Range
  <2>4. m \in DOMAIN reg[d]
    BY <1>5
  <2> QED
    BY <1>4, <2>1, <2>2, <2>3, <2>4
<1> SUFFICES ASSUME NEW z \in Below(st, u) \intersect Below(st, v) PROVE FALSE
  BY <1>1
<1>6. /\ Below(st, u) = (C(u) \intersect Services) \ st.instances /\ Closed(st, C(u)) /\ u \in C(u)
      /\ C(u) \in SUBSET Keys
      /\ \A S \in SUBSET Keys : u \in S /\ Closed(st, S) => C(u) \subseteq S
  BY <1>0, <1>3, ClosureIs
<1>7. /\ Below(st, v) = (C(v) \intersect Services) \ st.instances /\ Closed(st, C(v)) /\ v \in C(v)
      /\ C(v) \in SUBSET Keys
  BY <1>0, <1>3, ClosureIs
<1>8. u \notin Below(st, v)
  <2> SUFFICES ASSUME u \in Below(st, v) PROVE FALSE
    OBVIOUS
  <2>1. u \in New /\ u \in C(v)
    BY <1>7
  <2>2. CASE u = v
    <3>1. u \in Below(st, r) /\ d \in Below(st, r)
      BY <1>3, <1>6, <2>1
    <3>2. reg[d][i] = reg[d][j] /\ reg[d][i] \in Below(st, r)
      BY <1>1, <2>2, <3>1
    <3> QED
      BY <1>0, <1>4, <3>1, <3>2
  <2>3. CASE u # v
    <3>1. PICK k \in (C(v) \intersect DOMAIN reg) \ st.instances : u \in Range(reg[k])
      BY <1>3, <2>1, <2>3, DependsBelow
    <3>2. k = d
      BY <1>1, <1>3, <1>5, <2>1, <3>1
    <3> QED
      BY <1>3, <3>1, <3>2
  <2> QED
    BY <2>2, <2>3
<1>9. PICK S : S = C(u) \ Below(st, v)
  OBVIOUS
<1>10. Closed(st, S)
  <2> SUFFICES ASSUME NEW k \in (S \intersect DOMAIN reg) \ st.instances,
                      NEW x \in Range(reg[k]), x \notin S
               PROVE  FALSE
    BY DEF Closed
  <2>1. k \in C(u) /\ k \notin Below(st, v) /\ k \in C(d)
    BY <1>3, <1>9
  <2>2. x \in C(u)
    BY <1>6, <2>1 DEF Closed
  <2>3. x \in Below(st, v)
    BY <1>9, <2>2
  <2>4. x \in New /\ x \in C(v)
    BY <1>7, <2>3
  <2>5. CASE x = v
    <3>1. k = d
      BY <1>1, <1>5, <2>1, <2>4, <2>5
    <3> QED
      BY <1>3, <2>1, <3>1
  <2>6. CASE x # v
    <3>1. PICK l \in (C(v) \intersect DOMAIN reg) \ st.instances : x \in Range(reg[l])
      BY <1>3, <2>4, <2>6, DependsBelow
    <3>2. l \in Below(st, r) /\ k \in Below(st, r) /\ x \in Below(st, r)
      BY <1>0, <1>3, <2>1, <2>4, <3>1
    <3>3. k = l
      <4>1. PICK m \in DOMAIN reg[k] : reg[k][m] = x
        BY DEF Range
      <4>2. PICK n \in DOMAIN reg[l] : reg[l][n] = x
        BY <3>1 DEF Range
      <4> QED
        BY <1>4, <3>1, <3>2, <4>1, <4>2
    <3>4. k \in Below(st, v)
      BY <1>0, <1>7, <3>1, <3>3
    <3> QED
      BY <2>1, <3>4
  <2> QED
    BY <2>5, <2>6
<1>11. S \in SUBSET Keys /\ u \in S
  BY <1>6, <1>8, <1>9
<1>12. C(u) \subseteq S
  BY <1>6, <1>10, <1>11
<1> QED
  BY <1>6, <1>9, <1>12

\* b is what frames that begin at or below members of X may make of a: none meets a
\* service that is being resolved.
Tame(a, b, X) ==
  /\ b.resolving \subseteq a.resolving \union X
  /\ \A x \in Services : b.frames[x].bad = "circular" => a.frames[x].bad = "circular"

\* The frames that begin at d below s begin at or below d only.
Stays(st, P, h, r) ==
  \A a \in Entrances : \A d \in Keys :
    (/\ P \subseteq a.resolving /\ Alive(st.instances, a)
     /\ Below(st, d) \subseteq Below(st, r) /\ Below(st, d) \intersect a.resolving = {})
      => Tame(a, h[a][d], Below(st, d))

LEMMA FoldedStays ==
  ASSUME NEW st, Sound(st), NEW r, IsTree(st, r),
         NEW d \in Below(st, r) \intersect DOMAIN st.registry, Below(st, d) \subseteq Below(st, r),
         NEW h \in [Entrances -> [Keys -> Entrances]],
         NEW P, d \in P, Enters(st.instances, d, h), Stays(st, P, h, r),
         NEW a \in Entrances, P \subseteq a.resolving, Alive(st.instances, a),
         Below(st, d) \intersect a.resolving = {d},
         NEW keys \in Seq(Keys), keys = st.registry[d], NEW b, b = Folded(h, a, keys)
  PROVE  Tame(a, b, Below(st, d))
<1> DEFINE I == st.instances
           n == Len(keys)
           Had(m) == UNION {Below(st, keys[j]) : j \in 1 .. m}
           Good == {x \in Nat \X Entrances :
                      Alive(I, x[2]) /\ P \subseteq x[2].resolving /\ Tame(a, x[2], Had(x[1]))}
<1>0. /\ n \in Nat /\ DOMAIN keys = 1 .. n
      /\ d \in (DOMAIN st.registry \intersect Services) \ st.instances /\ d \in Keys
      /\ \A i \in 1 .. n : i \in Nat /\ i - 1 \in Nat /\ keys[i] \in Keys /\ keys[i] \in Range(st.registry[d])
  BY DEF Below, Keys, Range
<1>1. \A i \in 1 .. n : Below(st, keys[i]) \subseteq Below(st, d) \ {d}
  <2> TAKE i \in 1 .. n
  <2>1. PICK u : u = keys[i]
    OBVIOUS
  <2>2. u \in Keys /\ Closure(st, u) \subseteq Closure(st, d) /\ d \notin Closure(st, u)
    BY <1>0, <2>1, BelowDependency
  <2>3. /\ Below(st, u) = (Closure(st, u) \intersect Services) \ st.instances
        /\ Below(st, d) = (Closure(st, d) \intersect Services) \ st.instances
    BY <1>0, <2>2, ClosureIs DEF Sound
  <2> QED
    BY <2>1, <2>2, <2>3
<1>2. ASSUME NEW i \in 1 .. n, NEW j \in 1 .. n, i # j
      PROVE  Below(st, keys[i]) \intersect Below(st, keys[j]) = {}
  <2>1. i \in DOMAIN st.registry[d] /\ j \in DOMAIN st.registry[d]
    BY <1>0
  <2>2. Below(st, d) = (Closure(st, d) \intersect Services) \ st.instances
    BY <1>0, ClosureIs DEF Sound
  <2>3. Closure(st, d) \intersect (Services \ st.instances) \subseteq Below(st, r)
    BY <2>2
  <2>4. Below(st, st.registry[d][i]) \intersect Below(st, st.registry[d][j]) = {}
    BY <1>2, <2>1, <2>3, Branches
  <2> QED
    BY <2>4
<1>3. <<0, a>> \in Good
  BY DEF Tame
<1>4. ASSUME NEW i \in 1 .. n, NEW c \in Entrances, <<i - 1, c>> \in Good
      PROVE  <<i, h[c][keys[i]]>> \in Good
  <2>1. PICK e, u : e = h[c][u] /\ u = keys[i]
    OBVIOUS
  <2>2. /\ e \in Entrances /\ u \in Keys /\ i \in Nat /\ i - 1 \in Nat
    BY <1>0, <2>1
  <2>3. Alive(I, c) /\ P \subseteq c.resolving /\ Tame(a, c, Had(i - 1))
    BY <1>4
  <2>4. Alive(I, e) /\ Keeps(c, e, d)
    BY <2>1, <2>2, <2>3 DEF Enters
  <2>5. P \subseteq e.resolving
    BY <2>3, <2>4 DEF Keeps
  <2>6. Below(st, u) \intersect Had(i - 1) = {}
    <3>1. n \in Nat /\ i \in 1 .. n
      BY <1>0
    <3> HIDE DEF n
    <3>2. \A j \in 1 .. i - 1 : j \in 1 .. n /\ i # j
      BY ONLY <3>1
    <3>3. \A j \in 1 .. n : i # j => Below(st, keys[i]) \intersect Below(st, keys[j]) = {}
      BY <1>2, <3>1
    <3> QED
      BY <2>1, <3>2, <3>3
  <2>7. Below(st, u) \intersect c.resolving = {}
    <3>1. Below(st, u) \subseteq Below(st, d) \ {d}
      BY <1>1, <2>1
    <3>2. c.resolving \subseteq a.resolving \union Had(i - 1)
      BY <2>3 DEF Tame
    <3> HIDE DEF Had
    <3> QED
      BY <2>6, <3>1, <3>2
  <2>8. Tame(c, e, Below(st, u))
    <3>1. Below(st, u) \subseteq Below(st, r)
      BY <1>1, <2>1
    <3> QED
      BY <2>1, <2>2, <2>3, <2>7, <3>1 DEF Stays
  <2>9. Had(i - 1) \union Below(st, u) \subseteq Had(i)
    <3>1. i \in 1 .. i /\ \A j \in 1 .. i - 1 : j \in 1 .. i
      BY <1>0
    <3> QED
      BY <2>1, <3>1
  <2>10. Tame(a, e, Had(i))
    <3> HIDE DEF Had
    <3> QED
      BY <2>3, <2>8, <2>9 DEF Tame
  <2> HIDE DEF Had
  <2> QED
    BY <2>1, <2>2, <2>4, <2>5, <2>10
<1>5. Had(n) \subseteq Below(st, d)
  BY <1>1
<1> HIDE DEF Good
<1>6. <<n, b>> \in Good
  <2> HIDE DEF Had
  <2>1. \A i \in 1 .. Len(keys) : \A c \in Entrances :
          <<i - 1, c>> \in Good => <<i, h[c][keys[i]]>> \in Good
    BY <1>4
  <2>2. /\ h \in [Entrances -> [Keys -> Entrances]] /\ keys \in Seq(Keys) /\ a \in Entrances
        /\ <<0, a>> \in Good
    BY <1>3
  <2>3. <<Len(keys), Folded(h, a, keys)>> \in Good
    BY ONLY <2>1, <2>2, FoldedKeeps
  <2> QED
    BY <2>3
<1>7. Tame(a, b, Had(n))
  BY <1>6 DEF Good
<1> HIDE DEF Had
<1> QED
  BY <1>5, <1>7 DEF Tame

\* In a tree nothing is reached twice, so what begins below a frame meets no service that is
\* being resolved.
LEMMA BeneathStays ==
  ASSUME NEW st, Sound(st), NEW r, IsTree(st, r),
         NEW w, w = Beneath(st.registry, st.instances)
  PROVE  \A P \in SUBSET Services : \A s \in P : Stays(st, P, w[P][s], r)
<1> DEFINE I == st.instances
           reg == st.registry
<1>r. Registry(reg)
  BY DEF Sound
<1> DEFINE Bad == {P \in SUBSET Services : ~ \A s \in P : Stays(st, P, w[P][s], r)}
<1> SUFFICES ASSUME Bad # {} PROVE FALSE
  OBVIOUS
<1>1. PICK P \in Bad : \A s \in Services \ P : P \union {s} \notin Bad
  <2>1. Bad \in SUBSET (SUBSET Services)
    OBVIOUS
  <2> QED
    BY ONLY <2>1, Bad # {}, LargestFirst
<1>2. /\ P \in SUBSET Services
      /\ \A d \in Services \ P : Stays(st, P \union {d}, w[P \union {d}][d], r)
  BY <1>1
<1> HIDE DEF Bad
<1>3. ASSUME NEW s \in P, NEW a \in Entrances, NEW d \in Keys,
             P \subseteq a.resolving, Alive(I, a),
             Below(st, d) \subseteq Below(st, r), Below(st, d) \intersect a.resolving = {}
      PROVE  Tame(a, w[P][s][a][d], Below(st, d))
  <2>0. s \in Services /\ s \in a.resolving /\ a.resolving \in SUBSET Services
    BY <1>2, <1>3, EntranceParts
  <2>1. PICK b, found : b = w[P][s][a][d] /\ found = Finds(reg, I, P \cup a.resolving, d)
    OBVIOUS
  <2>2. IsEntrance(reg, I, w, P, s, a, d, b, found)
    <3>1. IsEntrance(reg, I, w, P, s, a, d, w[P][s][a][d],
                     Finds(reg, I, P \cup a.resolving, d))
      BY ONLY <1>r, w = Beneath(reg, I), <1>2, <2>0, a \in Entrances, d \in Keys, BeneathAt
    <3> QED
      BY ONLY <3>1, <2>1
  <2>3. CASE found = "ok"
    <3>1. b = a
      BY <2>2, <2>3 DEF IsEntrance
    <3> QED
      BY <2>1, <3>1 DEF Tame
  <2>4. CASE found = "missing"
    <3>1. b = Failing(a, s, found)
      BY <2>2, <2>4 DEF IsEntrance
    <3>2. HasFailed(a, s, "missing", b)
      BY <2>0, <2>4, <3>1, FailingIs
    <3>3. /\ b.resolving = a.resolving
          /\ \A x \in Services : x # s => b.frames[x] = a.frames[x]
          /\ b.frames[s].bad \in {a.frames[s].bad, "missing"}
      BY <3>2 DEF HasFailed
    <3>4. \A x \in Services : b.frames[x].bad = "circular" => a.frames[x].bad = "circular"
      BY <3>3
    <3> QED
      BY <2>1, <3>3, <3>4, Zenon DEF Tame
  <2>5. CASE found = "circular"
    <3>1. d \in Services /\ d \notin I /\ d \in P \union a.resolving
      BY <2>1, <2>5 DEF Finds
    <3>2. d \in Below(st, d)
      BY <1>r, <3>1, ClosureIs
    <3> QED
      BY <1>3, <3>1, <3>2
  <2>6. CASE found = "new"
    <3>1. PICK h, c, q, Q : /\ h = w[P \union {d}][d] /\ c = Child(a, s, d) /\ q = reg[d]
                            /\ Q = P \union {d}
      OBVIOUS
    <3>2. /\ d \in Services /\ d \notin P /\ d \notin a.resolving /\ d \notin I /\ d \in DOMAIN reg
          /\ q \in Seq(Keys) /\ h \in [Entrances -> [Keys -> Entrances]]
          /\ b = Folded(h, c, q)
      BY <2>2, <2>6, <3>1 DEF IsEntrance
    <3>3. Enters(I, d, h) /\ Stays(st, Q, h, r)
      <4>1. Q \in SUBSET Services
        BY <1>2, <3>1, <3>2
      <4> QED
        BY <1>2, <1>r, <3>1, <3>2, <4>1, BeneathEnters
    <3>4. HasChild(a, s, d, c) /\ s # d
      BY <1>3, <2>0, <3>1, <3>2, ChildIs
    <3>5. /\ c \in Entrances /\ c.resolving = a.resolving \union {d}
          /\ \A x \in Services : c.frames[x].bad = "circular" => a.frames[x].bad = "circular"
      <4>1. /\ c \in Entrances /\ c.resolving = a.resolving \union {d}
            /\ c.frames[d] = NewFrame(s) /\ c.frames[s].bad = a.frames[s].bad
            /\ \A x \in Services : x # s /\ x # d => c.frames[x] = a.frames[x]
        BY <3>4 DEF HasChild
      <4>2. NewFrame(s).bad = ""
        BY NewFrameIs
      <4>3. \A x \in Services : c.frames[x].bad = "circular" => a.frames[x].bad = "circular"
        BY <4>1, <4>2
      <4> QED
        BY <4>1, <4>3
    <3>6. Alive(I, c)
      BY <1>3, <2>0, <3>1, <3>2, ChildAlive
    <3>7. d \in Below(st, d)
      BY <1>r, <3>2, ClosureIs
    <3>8. /\ d \in Q /\ Q \subseteq c.resolving
          /\ Below(st, d) \intersect c.resolving = {d}
          /\ d \in Below(st, r) \intersect DOMAIN st.registry
      BY <1>3, <3>1, <3>2, <3>5, <3>7
    <3>9. Tame(c, b, Below(st, d))
      BY <1>3, <3>1, <3>2, <3>3, <3>5, <3>6, <3>8, FoldedStays
    <3> QED
      BY <2>1, <3>5, <3>7, <3>9 DEF Tame
  <2>7. found \in {"ok", "missing", "circular", "new"}
    BY <2>1, FindsOk
  <2> QED
    BY <2>3, <2>4, <2>5, <2>6, <2>7
<1>4. \A s \in P : Stays(st, P, w[P][s], r)
  BY <1>3 DEF Stays
<1> QED
  BY <1>1, <1>4 DEF Bad

-----------------------------------------------------------------------------
(* The container from step to step. *)

\* The type of the container.
IsContainer(st) ==
  /\ st = [registry |-> st.registry, instances |-> st.instances, resolving |-> st.resolving,
           frames |-> st.frames, built |-> st.built, wasted |-> st.wasted]
  /\ Holds(st) /\ st.frames \in [Services -> Frames]

\* The container is in order between any two steps.
DiOK(st) == IsContainer(st) /\ Alive(st.instances, st) /\ OnceBuilt(st)

\* What resolveAsync() of s does when s has to be constructed.
IsEntered(st, s, e) ==
  /\ e.resolving \in SUBSET Services /\ e.frames \in [Services -> Frames]
  /\ Alive(st.instances, e)
  /\ st.resolving \union {s} \subseteq e.resolving
  /\ \A x \in st.resolving : e.frames[x] = st.frames[x]
  /\ e.frames[s].parent = NoParent
  /\ Sound(st) /\ IsTree(st, s) /\ st.resolving = {} =>
       \A x \in Services : e.frames[x].bad # "circular"

\* What resolveInternalAsync() has done when it first awaits.
LEMMA EnterIs ==
  ASSUME NEW st, DiOK(st), NEW s \in Services, Found(st, s) = "new"
  PROVE  \E e : IsEntered(st, s, e)
                /\ Enter(st, s) = [st EXCEPT !.resolving = e.resolving, !.frames = e.frames]
<1>1. PICK reg, I, w, a, h, q, c : /\ reg = st.registry /\ I = st.instances /\ w = Beneath(reg, I)
                                   /\ c = [resolving |-> st.resolving, frames |-> st.frames]
                                   /\ a = Begun(c, s, NoParent) /\ h = w[{s}][s] /\ q = reg[s]
  OBVIOUS
<1>2. PICK e : e = Folded(h, a, q)
  OBVIOUS
<1>3. /\ Registry(reg) /\ st.resolving \in SUBSET Services /\ st.frames \in [Services -> Frames]
      /\ Alive(I, st)
  BY <1>1 DEF DiOK, IsContainer, Holds
<1>4. /\ s \notin st.resolving /\ s \notin I /\ s \in DOMAIN reg /\ s \in Keys
  <2>1. Finds(reg, I, st.resolving, s) = "new"
    BY <1>1 DEF Found
  <2> QED
    BY <2>1, FindsNew DEF Keys
<1>5. c.resolving = st.resolving /\ c.frames = st.frames
  BY <1>1
<1>6. /\ a \in Entrances /\ a.resolving = st.resolving \union {s} /\ a.frames[s] = NewFrame(NoParent)
      /\ \A x \in Services : x # s => a.frames[x] = st.frames[x]
  <2>1. c.resolving \in SUBSET Services /\ c.frames \in [Services -> Frames] /\ a = Begun(c, s, NoParent)
    BY <1>1, <1>3, <1>5
  <2>2. NoParent \in Services \union {NoParent}
    OBVIOUS
  <2>3. /\ a \in Entrances /\ a.resolving = c.resolving \union {s} /\ a.frames[s] = NewFrame(NoParent)
        /\ \A x \in Services : x # s => a.frames[x] = c.frames[x]
    BY ONLY <2>1, <2>2, s \in Services, BegunIs
  <2> QED
    BY <1>5, <2>3
<1>7. /\ NewFrame(NoParent).at = "deps" /\ NewFrame(NoParent).left = {}
      /\ NewFrame(NoParent).bad = "" /\ NewFrame(NoParent).parent = NoParent
  BY NewFrameIs
<1>8. Alive(I, a)
  <2>1. a.resolving \intersect I = {}
    BY <1>3, <1>4, <1>6 DEF Alive
  <2>2. ASSUME NEW x \in Services
        PROVE  /\ x \in a.resolving <=> a.frames[x].at # "none"
               /\ x \notin a.resolving => a.frames[x] = Idle
    BY <1>3, <1>6, <1>7 DEF Alive
  <2>3. ASSUME NEW x \in Services, NEW d \in a.frames[x].left
        PROVE  d \in a.resolving /\ a.frames[d].parent = x /\ d # x
    <3>1. x # s /\ a.frames[x] = st.frames[x]
      BY <1>6, <1>7, <2>3
    <3>2. d \in st.resolving /\ st.frames[d].parent = x /\ d # x
      BY <1>3, <2>3, <3>1 DEF Alive
    <3> QED
      BY <1>3, <1>4, <1>6, <3>2
  <2> QED
    BY <2>1, <2>2, <2>3 DEF Alive
<1>9. w \in [SUBSET Services -> Enterers] /\ {s} \in SUBSET Services
  BY <1>1, <1>3, BeneathIs
<1>10. h \in [Entrances -> [Keys -> Entrances]] /\ q \in Seq(Keys)
  <2>1. q \in Seq(Keys)
    BY <1>1, <1>3, <1>4 DEF Registry
  <2>2. w[{s}] \in Enterers
    BY <1>9
  <2>3. w[{s}][s] \in [Entrances -> [Keys -> Entrances]]
    BY <2>2 DEF Enterers
  <2> QED
    BY <1>1, <2>1, <2>3
<1>11. Enters(I, s, h)
  BY <1>1, <1>3, <1>9, BeneathEnters
<1>12. e \in Entrances /\ Alive(I, e) /\ Keeps(a, e, s)
  <2>1. s \in a.resolving
    BY <1>6
  <2> QED
    BY ONLY <1>2, <1>6, <1>8, <1>10, <1>11, <2>1, s \in Services, FoldedEnters
<1>13. /\ st.resolving \union {s} \subseteq e.resolving
       /\ \A x \in st.resolving : e.frames[x] = st.frames[x]
       /\ e.frames[s].parent = NoParent
  BY <1>3, <1>4, <1>6, <1>7, <1>12 DEF Keeps
<1>14. ASSUME Sound(st), IsTree(st, s), st.resolving = {}
       PROVE  \A x \in Services : e.frames[x].bad # "circular"
  <2>1. PICK P : P = {s}
    OBVIOUS
  <2>2. Stays(st, P, h, s)
    BY <1>1, <1>9, <1>14, <2>1, BeneathStays
  <2>3. s \in Below(st, s)
    BY <1>1, <1>3, <1>4, ClosureIs
  <2>4. /\ s \in Below(st, s) \intersect DOMAIN st.registry /\ Below(st, s) \subseteq Below(st, s)
        /\ s \in P /\ P \subseteq a.resolving /\ Below(st, s) \intersect a.resolving = {s}
    BY <1>1, <1>4, <1>6, <1>14, <2>1, <2>3
  <2>5. q = st.registry[s] /\ I = st.instances
    BY <1>1
  <2>6. Tame(a, e, Below(st, s))
    BY ONLY <1>2, <1>6, <1>8, <1>10, <1>11, <1>14, <2>2, <2>4, <2>5, FoldedStays
  <2>7. \A x \in Services : a.frames[x].bad # "circular"
    <3>1. \A x \in Services : st.frames[x] = Idle
      BY <1>3, <1>14 DEF Alive
    <3>2. Idle.bad = ""
      BY DEF Idle
    <3> QED
      BY <1>6, <1>7, <3>1, <3>2
  <2> QED
    BY <2>6, <2>7 DEF Tame
<1>15. IsEntered(st, s, e)
  BY <1>1, <1>12, <1>13, <1>14, EntranceParts DEF IsEntered
<1>16. Enter(st, s) = [st EXCEPT !.resolving = e.resolving, !.frames = e.frames]
  BY <1>1, <1>2 DEF Enter, Beneath
<1> QED
  BY <1>15, <1>16

LEMMA EnterKeeps ==
  ASSUME NEW st, DiOK(st), NEW s \in Services, Found(st, s) = "new", NEW to, to = Enter(st, s)
  PROVE  /\ DiOK(to) /\ to.registry = st.registry /\ to.instances = st.instances
         /\ IsEntered(st, s, to) /\ to.wasted = st.wasted
<1>1. PICK e : IsEntered(st, s, e)
               /\ to = [st EXCEPT !.resolving = e.resolving, !.frames = e.frames]
  BY EnterIs
<1>2. st = [registry |-> st.registry, instances |-> st.instances, resolving |-> st.resolving,
            frames |-> st.frames, built |-> st.built, wasted |-> st.wasted]
  BY DEF DiOK, IsContainer
<1>3. to = [registry |-> st.registry, instances |-> st.instances, resolving |-> e.resolving,
            frames |-> e.frames, built |-> st.built, wasted |-> st.wasted]
  BY <1>1, <1>2
<1>4. /\ to.registry = st.registry /\ to.instances = st.instances /\ to.resolving = e.resolving
      /\ to.frames = e.frames /\ to.built = st.built /\ to.wasted = st.wasted
      /\ to = [registry |-> to.registry, instances |-> to.instances, resolving |-> to.resolving,
               frames |-> to.frames, built |-> to.built, wasted |-> to.wasted]
  BY <1>3
<1>5. IsEntered(st, s, to)
  BY <1>1, <1>4 DEF IsEntered, Alive
<1>6. IsContainer(to)
  BY <1>4, <1>5 DEF IsEntered, IsContainer, DiOK, Holds
<1>7. Alive(to.instances, to) /\ OnceBuilt(to)
  BY <1>4, <1>5 DEF IsEntered, DiOK, OnceBuilt
<1> QED
  BY <1>4, <1>5, <1>6, <1>7 DEF DiOK

\* How a resolution ends.
Outs == {"ok", "missing", "circular", "threw"}

\* The frame of s has ended with `out`; only the frame that awaited it is told.
IsLeft(st, s, out, to) ==
  /\ to.wasted = st.wasted
  /\ to.registry = st.registry /\ to.built = st.built /\ to.resolving = st.resolving \ {s}
  /\ to.instances = IF out = "ok" THEN st.instances \union {s} ELSE st.instances
  /\ \A x \in Services \ {s} :
       /\ to.frames[x].parent = st.frames[x].parent
       /\ to.frames[x].left = st.frames[x].left \ {s}
       /\ to.frames[x].bad = st.frames[x].bad
            \/ (s \in st.frames[x].left /\ to.frames[x].bad = out)

\* The end of a frame: its instance, and its `finally`.
LEMMA LeaveKeeps ==
  ASSUME NEW st, IsContainer(st), Alive(st.instances, st), NEW s \in st.resolving,
         NEW out \in Outs, NEW to, to = Leave(st, s, out)
  PROVE  IsContainer(to) /\ Alive(to.instances, to) /\ IsLeft(st, s, out, to)
<1>1. PICK p, f, g, h, F : /\ p = st.frames[s].parent /\ f = [st.frames EXCEPT ![s] = Idle]
                           /\ g = [f EXCEPT ![p] = [f[p] EXCEPT !.left = f[p].left \ {s}]]
                           /\ h = Blamed(g, p, out)
                           /\ F = IF p = NoParent \/ s \notin st.frames[p].left THEN f
                                  ELSE IF out = "ok" THEN g ELSE h
  OBVIOUS
<1>2. PICK I, R : /\ I = IF out = "ok" THEN st.instances \union {s} ELSE st.instances
                  /\ R = st.resolving \ {s}
  OBVIOUS
<1>3. st = [registry |-> st.registry, instances |-> st.instances, resolving |-> st.resolving,
            frames |-> st.frames, built |-> st.built, wasted |-> st.wasted]
  BY DEF IsContainer
<1>4. to = [registry |-> st.registry, instances |-> I, resolving |-> R, frames |-> F,
            built |-> st.built, wasted |-> st.wasted]
  <2>1. to = [st EXCEPT !.resolving = R, !.instances = I, !.frames = F]
    <3> DEFINE q == st.frames[s].parent
               f0 == [st.frames EXCEPT ![s] = Idle]
               g0 == [f0 EXCEPT ![q] = [f0[q] EXCEPT !.left = f0[q].left \ {s}]]
               F0 == IF q = NoParent \/ s \notin st.frames[q].left THEN f0
                     ELSE IF out = "ok" THEN g0 ELSE Blamed(g0, q, out)
               I0 == IF out = "ok" THEN st.instances \union {s} ELSE st.instances
    <3>1. to = [st EXCEPT !.resolving = st.resolving \ {s}, !.instances = I0, !.frames = F0]
      BY DEF Leave
    <3>2. q = p /\ f0 = f
      BY ONLY <1>1
    <3>3. g0 = g
      BY ONLY <1>1, <3>2, Zenon
    <3>4. F0 = F
      <4> HIDE DEF q, f0, g0
      <4>1. Blamed(g0, q, out) = h
        BY <1>1, <3>2, <3>3
      <4> QED
        BY ONLY <1>1, <3>2, <3>3, <4>1
    <3>5. I0 = I
      BY ONLY <1>2
    <3> HIDE DEF F0, I0
    <3> QED
      BY ONLY <1>2, <3>1, <3>4, <3>5
  <2>2. PICK reg, in, rs, fs, bt, ws :
          /\ reg = st.registry /\ in = st.instances /\ rs = st.resolving
          /\ fs = st.frames /\ bt = st.built /\ ws = st.wasted
    OBVIOUS
  <2>3. st = [registry |-> reg, instances |-> in, resolving |-> rs, frames |-> fs, built |-> bt,
             wasted |-> ws]
    BY ONLY <1>3, <2>2
  <2>4. to = [registry |-> reg, instances |-> I, resolving |-> R, frames |-> F, built |-> bt,
             wasted |-> ws]
    BY ONLY <2>1, <2>3
  <2> QED
    BY ONLY <2>2, <2>4, Zenon
<1>5. /\ to.registry = st.registry /\ to.instances = I /\ to.resolving = R
      /\ to.frames = F /\ to.built = st.built /\ to.wasted = st.wasted
      /\ to = [registry |-> to.registry, instances |-> to.instances, resolving |-> to.resolving,
               frames |-> to.frames, built |-> to.built, wasted |-> to.wasted]
  BY <1>4
<1>6. /\ s \in Services /\ st.frames \in [Services -> Frames] /\ p \in Services \union {NoParent}
      /\ Registry(st.registry) /\ st.instances \in SUBSET Keys /\ st.built \in [Services -> Nat]
      /\ st.resolving \in SUBSET Services /\ st.wasted \in SUBSET Services
  <2>1. /\ st.frames \in [Services -> Frames] /\ Registry(st.registry)
        /\ st.instances \in SUBSET Keys /\ st.built \in [Services -> Nat]
        /\ st.resolving \in SUBSET Services /\ st.wasted \in SUBSET Services
    BY DEF IsContainer, Holds
  <2>2. s \in Services
    BY <2>1
  <2>3. st.frames[s] \in Frames
    BY <2>1, <2>2
  <2> QED
    BY <1>1, <2>1, <2>2, <2>3 DEF Frames
<1>7. Idle \in Frames /\ Idle.at = "none" /\ Idle.left = {}
  BY DEF Idle, Frames
<1>8. f \in [Services -> Frames] /\ f[s] = Idle /\ \A x \in Services \ {s} : f[x] = st.frames[x]
  BY <1>1, <1>6, <1>7
<1>9. \A x \in Services : \A d \in st.frames[x].left : d \in st.resolving /\ st.frames[d].parent = x /\ d # x
  BY DEF Alive
<1>10. ASSUME p # NoParent, s \in st.frames[p].left
       PROVE  /\ p \in Services \ {s}
              /\ g \in [Services -> Frames] /\ \A x \in Services \ {p} : g[x] = f[x]
              /\ g[p].at = f[p].at /\ g[p].parent = f[p].parent /\ g[p].bad = f[p].bad
              /\ g[p].left = f[p].left \ {s}
  <2>1. p \in Services \ {s}
    BY <1>6, <1>9, <1>10
  <2>2. PICK u, v, l : u = f[p] /\ l = u.left \ {s} /\ v = [u EXCEPT !.left = l]
    OBVIOUS
  <2>3. u \in Frames /\ l \in SUBSET Services
    BY <1>8, <2>1, <2>2 DEF Frames
  <2>4. v \in Frames /\ v.at = u.at /\ v.parent = u.parent /\ v.bad = u.bad /\ v.left = l
    BY ONLY <2>2, <2>3 DEF Frames
  <2>5. g = [f EXCEPT ![p] = v]
    BY <1>1, <2>2
  <2> QED
    BY <1>8, <2>1, <2>2, <2>4, <2>5
<1>11. ASSUME p # NoParent, s \in st.frames[p].left, out # "ok"
       PROVE  /\ h \in [Services -> Frames] /\ \A x \in Services \ {p} : h[x] = g[x]
              /\ h[p].at = g[p].at /\ h[p].parent = g[p].parent /\ h[p].left = g[p].left
              /\ h[p].bad \in {g[p].bad, out}
  <2>1. p \in Services /\ g \in [Services -> Frames] /\ out \in {"missing", "circular", "threw"}
        /\ h = Blamed(g, p, out)
    BY <1>1, <1>10, <1>11 DEF Outs
  <2>2. /\ h \in [Services -> Frames] /\ \A x \in Services : x # p => h[x] = g[x]
        /\ h[p].at = g[p].at /\ h[p].left = g[p].left /\ h[p].parent = g[p].parent
        /\ h[p].bad \in {g[p].bad, out}
    BY ONLY <2>1, BlamedIs
  <2> QED
    BY ONLY <2>2, Zenon
<1>12. /\ F \in [Services -> Frames] /\ F[s] = Idle
       /\ \A x \in Services \ {s} :
            /\ F[x].at = st.frames[x].at /\ F[x].parent = st.frames[x].parent
            /\ F[x].left = st.frames[x].left \ {s}
            /\ F[x].bad = st.frames[x].bad \/ (s \in st.frames[x].left /\ F[x].bad = out)
            /\ s \notin st.frames[x].left => F[x] = st.frames[x]
  <2>1. CASE p = NoParent \/ s \notin st.frames[p].left
    <3>1. F = f
      BY <1>1, <2>1
    <3>2. \A x \in Services : s \notin st.frames[x].left
      <4>1. NoParent \notin Services
        BY ContainerAssumption
      <4> QED
        BY <1>1, <1>9, <2>1, <4>1
    <3>3. \A x \in Services : st.frames[x].left \ {s} = st.frames[x].left
      BY <3>2
    <3>4. ASSUME NEW x \in Services \ {s}
          PROVE  /\ F[x].at = st.frames[x].at /\ F[x].parent = st.frames[x].parent
                 /\ F[x].left = st.frames[x].left \ {s}
                 /\ F[x].bad = st.frames[x].bad \/ (s \in st.frames[x].left /\ F[x].bad = out)
                 /\ s \notin st.frames[x].left => F[x] = st.frames[x]
      <4>1. F[x] = st.frames[x] /\ st.frames[x].left \ {s} = st.frames[x].left
        BY <1>8, <3>1, <3>3
      <4> QED
        BY ONLY <4>1
    <3> QED
      BY <1>8, <3>1, <3>4
  <2>2. CASE p # NoParent /\ s \in st.frames[p].left
    <3>0. p \in Services \ {s} /\ \A x \in Services : x # p => s \notin st.frames[x].left
      BY <1>1, <1>9, <1>10, <2>2, Zenon
    <3>1. /\ F \in [Services -> Frames] /\ \A x \in Services \ {p} : F[x] = f[x]
          /\ F[p].at = f[p].at /\ F[p].parent = f[p].parent /\ F[p].left = f[p].left \ {s}
          /\ F[p].bad \in {f[p].bad, out}
      <4>1. CASE out = "ok"
        <5>1. F = g
          BY <1>1, <2>2, <4>1
        <5> QED
          BY <1>10, <2>2, <5>1
      <4>2. CASE out # "ok"
        <5>1. F = h
          BY <1>1, <2>2, <4>2
        <5> QED
          BY <1>10, <1>11, <2>2, <4>2, <5>1
      <4> QED
        BY <4>1, <4>2
    <3>2. ASSUME NEW x \in Services \ {s}
          PROVE  /\ F[x].at = st.frames[x].at /\ F[x].parent = st.frames[x].parent
                 /\ F[x].left = st.frames[x].left \ {s}
                 /\ F[x].bad = st.frames[x].bad \/ (s \in st.frames[x].left /\ F[x].bad = out)
                 /\ s \notin st.frames[x].left => F[x] = st.frames[x]
      <4>1. f[x] = st.frames[x]
        BY <1>8
      <4>2. CASE x = p
        <5>1. /\ F[x].at = f[x].at /\ F[x].parent = f[x].parent /\ F[x].left = f[x].left \ {s}
              /\ F[x].bad \in {f[x].bad, out} /\ s \in st.frames[x].left
          BY <2>2, <3>1, <4>2
        <5> QED
          BY ONLY <4>1, <5>1
      <4>3. CASE x # p
        <5>1. st.frames[x].left \ {s} = st.frames[x].left /\ F[x] = f[x]
          BY <3>0, <3>1, <4>3
        <5> QED
          BY ONLY <4>1, <5>1
      <4> QED
        BY <4>2, <4>3
    <3>3. F[s] = Idle
      <4>1. s \in Services \ {p} /\ f[s] = Idle
        BY <1>6, <1>8, <3>0
      <4>2. \A x \in Services \ {p} : F[x] = f[x]
        BY <3>1
      <4> QED
        BY ONLY <4>1, <4>2
    <3> QED
      BY ONLY <3>1, <3>2, <3>3
  <2> QED
    BY <2>1, <2>2
<1>13. IsLeft(st, s, out, to)
  BY <1>2, <1>5, <1>12 DEF IsLeft
<1>14. I \in SUBSET Keys /\ R \in SUBSET Services
  BY <1>2, <1>6 DEF Keys
<1>15. IsContainer(to)
  BY <1>5, <1>6, <1>12, <1>14 DEF IsContainer, Holds
<1>16. Alive(to.instances, to)
  <2>1. R \intersect I = {}
    BY <1>2 DEF Alive
  <2>2. ASSUME NEW x \in Services
        PROVE  (x \in R <=> F[x].at # "none") /\ (x \notin R => F[x] = Idle)
    <3>1. CASE x = s
      BY <1>2, <1>7, <1>12, <3>1
    <3>2. CASE x # s
      <4>1. F[x].at = st.frames[x].at /\ (s \notin st.frames[x].left => F[x] = st.frames[x])
        BY <1>12, <3>2
      <4>2. /\ x \in st.resolving <=> st.frames[x].at # "none"
            /\ x \notin st.resolving => st.frames[x] = Idle
        BY DEF Alive
      <4>3. x \in R <=> x \in st.resolving
        BY <1>2, <3>2
      <4> QED
        BY <1>7, <4>1, <4>2, <4>3
    <3> QED
      BY <3>1, <3>2
  <2>3. ASSUME NEW x \in Services, NEW d \in F[x].left
        PROVE  d \in R /\ F[d].parent = x /\ d # x
    <3>1. x # s
      BY <1>7, <1>12, <2>3
    <3>2. d \in st.frames[x].left /\ d # s
      BY <1>12, <2>3, <3>1
    <3>3. d \in st.resolving /\ st.frames[d].parent = x /\ d # x
      BY <1>9, <3>2
    <3> QED
      BY <1>2, <1>6, <1>12, <3>2, <3>3
  <2> QED
    BY <1>5, <2>1, <2>2, <2>3 DEF Alive
<1> QED
  BY <1>13, <1>15, <1>16

\* s is pending, and nothing it awaits, itself or through others, has met a service that is
\* being resolved.
Pure(st, s) ==
  \E X \in SUBSET st.resolving :
    /\ s \in X /\ st.frames[s].parent = NoParent
    /\ \A x \in X : st.frames[x].bad # "circular" /\ st.frames[x].left \subseteq X

Asks == [Services -> [out : {"no", "pending"} \union Outs, alone : BOOLEAN]]

\* A caller that was alone, in a program that was validated, is never refused as circular;
\* while it waits, nothing below it has been.
AskedOK(st, ask, valid) ==
  /\ ask \in Asks
  /\ \A s \in Services : ask[s].alone /\ valid =>
       ask[s].out # "circular" /\ (ask[s].out = "pending" => Pure(st, s))

\* Instances are never taken away.
Grown(st, to) ==
  /\ to.registry = st.registry /\ st.instances \subseteq to.instances
  /\ to.wasted \subseteq st.wasted \union wiring.async

LEMMA PureLeave ==
  ASSUME NEW st, IsContainer(st), Alive(st.instances, st), NEW s \in Services, Pure(st, s),
         NEW y \in st.resolving, y # s, NEW out, NEW to, IsLeft(st, y, out, to),
         out = "circular" => st.frames[y].bad = "circular"
  PROVE  Pure(to, s)
<1>0. st.resolving \in SUBSET Services
  BY DEF IsContainer, Holds
<1>1. PICK X \in SUBSET st.resolving :
        /\ s \in X /\ st.frames[s].parent = NoParent
        /\ \A x \in X : st.frames[x].bad # "circular" /\ st.frames[x].left \subseteq X
  BY DEF Pure
<1>2. PICK Y : Y = X \ {y}
  OBVIOUS
<1>3. Y \in SUBSET to.resolving /\ s \in Y
  BY <1>1, <1>2 DEF IsLeft
<1>4. to.frames[s].parent = NoParent
  BY <1>1 DEF IsLeft
<1>5. ASSUME NEW x \in Y
      PROVE  to.frames[x].bad # "circular" /\ to.frames[x].left \subseteq Y
  <2>1. x \in X /\ x \in Services \ {y}
    BY <1>0, <1>2
  <2>2. /\ to.frames[x].left = st.frames[x].left \ {y}
        /\ to.frames[x].bad = st.frames[x].bad \/ (y \in st.frames[x].left /\ to.frames[x].bad = out)
    BY <2>1 DEF IsLeft
  <2>3. st.frames[x].bad # "circular" /\ st.frames[x].left \subseteq X
    BY <1>1, <2>1
  <2>4. y \in st.frames[x].left => out # "circular"
    BY <1>1, <2>3
  <2> QED
    BY <1>2, <2>2, <2>3, <2>4
<1> QED
  BY <1>3, <1>4, <1>5 DEF Pure

LEMMA PureEntered ==
  ASSUME NEW st, NEW s, Pure(st, s), NEW y, NEW to, IsEntered(st, y, to)
  PROVE  Pure(to, s)
<1>1. PICK X \in SUBSET st.resolving :
        /\ s \in X /\ st.frames[s].parent = NoParent
        /\ \A x \in X : st.frames[x].bad # "circular" /\ st.frames[x].left \subseteq X
  BY DEF Pure
<1>2. X \in SUBSET to.resolving /\ \A x \in X : to.frames[x] = st.frames[x]
  BY DEF IsEntered
<1> QED
  BY <1>1, <1>2 DEF Pure

LEMMA PureNew ==
  ASSUME NEW st, Sound(st), NEW s, IsTree(st, s), st.resolving = {},
         NEW to, IsEntered(st, s, to)
  PROVE  Pure(to, s)
<1>1. to.resolving \in SUBSET Services /\ s \in to.resolving /\ to.frames[s].parent = NoParent
  BY DEF IsEntered
<1>2. \A x \in to.resolving : to.frames[x].bad # "circular" /\ to.frames[x].left \subseteq to.resolving
  BY <1>1 DEF IsEntered, Alive
<1> QED
  BY <1>1, <1>2 DEF Pure

IsAsked(ask, s, o, b, to) ==
  /\ to \in Asks /\ to[s].out = o /\ to[s].alone = b
  /\ \A x \in Services : x # s => to[x] = ask[x]

LEMMA AskedType ==
  ASSUME NEW ask \in Asks, NEW s \in Services, NEW o \in {"no", "pending"} \union Outs, NEW b \in BOOLEAN
  PROVE  IsAsked(ask, s, o, b, [ask EXCEPT ![s] = [out |-> o, alone |-> b]])
BY DEF Asks, IsAsked

IsAnswered(ask, s, o, to) ==
  /\ to \in Asks /\ to[s].out = o /\ to[s].alone = ask[s].alone
  /\ \A x \in Services : x # s => to[x] = ask[x]

LEMMA AnsweredType ==
  ASSUME NEW ask \in Asks, NEW s \in Services, NEW o \in Outs
  PROVE  IsAnswered(ask, s, o, [ask EXCEPT ![s].out = o])
<1> PICK to : to = [ask EXCEPT ![s].out = o]
  OBVIOUS
<1>1. PICK r : r = [ask[s] EXCEPT !.out = o]
  OBVIOUS
<1>2. r \in [out : {"no", "pending"} \union Outs, alone : BOOLEAN]
      /\ r.out = o /\ r.alone = ask[s].alone
  BY <1>1 DEF Asks
<1>3. to = [ask EXCEPT ![s] = r]
  BY <1>1
<1> QED
  BY <1>2, <1>3 DEF Asks, IsAnswered

\* A frame ends; st is the container, with the record of what its constructor did.
LEMMA FrameEnds ==
  ASSUME NEW valid, DiOK(di), AskedOK(di, asked, valid), NEW s \in di.resolving, NEW out \in Outs,
         NEW st, IsContainer(st), st.registry = di.registry, st.instances = di.instances,
         st.resolving = di.resolving, st.frames = di.frames, st.wasted = di.wasted,
         \A x \in Services : st.built[x] = IF x = s /\ out = "ok" THEN di.built[x] + 1 ELSE di.built[x],
         di' = Leave(st, s, out), Answer(s, out),
         out = "circular" => di.frames[s].bad = "circular"
  PROVE  DiOK(di') /\ AskedOK(di', asked', valid) /\ Grown(di, di')
<1>0. /\ Alive(st.instances, st) /\ s \in st.resolving /\ s \in Services /\ s \notin di.instances
      /\ OnceBuilt(di) /\ di.built \in [Services -> Nat]
  BY DEF DiOK, Alive, IsContainer, Holds
<1>1. PICK to : to = di'
  OBVIOUS
<1>2. IsContainer(to) /\ Alive(to.instances, to) /\ IsLeft(st, s, out, to)
  <2>1. to = Leave(st, s, out)
    BY <1>1
  <2> QED
    BY ONLY <1>0, <2>1, IsContainer(st), out \in Outs, LeaveKeeps
<1>3. OnceBuilt(to)
  <2> SUFFICES ASSUME NEW x \in Services PROVE to.built[x] = IF x \in to.instances THEN 1 ELSE 0
    BY DEF OnceBuilt
  <2>1. to.built[x] = st.built[x]
        /\ to.instances = IF out = "ok" THEN di.instances \union {s} ELSE di.instances
    BY <1>2 DEF IsLeft
  <2>2. di.built[x] = IF x \in di.instances THEN 1 ELSE 0
    BY <1>0 DEF OnceBuilt
  <2>3. CASE x = s /\ out = "ok"
    BY <1>0, <2>1, <2>2, <2>3
  <2>4. CASE ~ (x = s /\ out = "ok")
    BY <1>0, <2>1, <2>2, <2>4
  <2> QED
    BY <2>3, <2>4
<1>4. Grown(di, to)
  BY <1>2 DEF Grown, IsLeft
<1>5. PICK ask : ask = asked'
  OBVIOUS
<1>6. asked \in Asks
  BY DEF AskedOK
<1>7. ASSUME NEW x \in Services, asked[x].alone, valid, asked[x].out = "pending", x # s
      PROVE  Pure(to, x)
  <2>1. Pure(st, x)
    <3>1. Pure(di, x)
      BY <1>7 DEF AskedOK
    <3> QED
      BY <3>1 DEF Pure
  <2>2. out = "circular" => st.frames[s].bad = "circular"
    OBVIOUS
  <2> QED
    BY <1>0, <1>2, <1>7, <2>1, <2>2, PureLeave
<1>8. AskedOK(to, ask, valid)
  <2>1. CASE di.frames[s].parent = NoParent /\ asked[s].out = "pending"
    <3>1. ask = [asked EXCEPT ![s].out = out]
      BY <1>5, <2>1 DEF Answer
    <3>a. IsAnswered(asked, s, out, [asked EXCEPT ![s].out = out])
      BY ONLY <1>0, <1>6, out \in Outs, AnsweredType
    <3>2. /\ ask \in Asks /\ ask[s].out = out /\ ask[s].alone = asked[s].alone
          /\ \A x \in Services : x # s => ask[x] = asked[x]
      BY <3>1, <3>a DEF IsAnswered
    <3>3. asked[s].alone /\ valid => out # "circular"
      <4> SUFFICES ASSUME asked[s].alone, valid PROVE out # "circular"
        OBVIOUS
      <4>1. Pure(di, s)
        BY <1>0, <2>1 DEF AskedOK
      <4>2. di.frames[s].bad # "circular"
        BY <4>1 DEF Pure
      <4> QED
        BY <4>2
    <3>4. out # "pending"
      BY DEF Outs
    <3>5. ASSUME NEW x \in Services, ask[x].alone, valid
          PROVE  ask[x].out # "circular" /\ (ask[x].out = "pending" => Pure(to, x))
      <4>1. CASE x = s
        BY <3>2, <3>3, <3>4, <3>5, <4>1
      <4>2. CASE x # s
        <5>1. asked[x].out # "circular" /\ ask[x] = asked[x]
          BY <3>2, <3>5, <4>2 DEF AskedOK
        <5> QED
          BY <1>7, <3>5, <4>2, <5>1
      <4> QED
        BY <4>1, <4>2
    <3> QED
      BY <3>2, <3>5 DEF AskedOK
  <2>2. CASE ~ (di.frames[s].parent = NoParent /\ asked[s].out = "pending")
    <3>1. ask = asked
      BY <1>5, <2>2 DEF Answer
    <3>2. ASSUME NEW x \in Services, asked[x].alone, valid
          PROVE  asked[x].out # "circular" /\ (asked[x].out = "pending" => Pure(to, x))
      <4>1. asked[x].out # "circular" /\ (asked[x].out = "pending" => Pure(di, x))
        BY <3>2 DEF AskedOK
      <4>2. asked[s].out = "pending" /\ x = s => FALSE
        BY <2>2, <4>1 DEF Pure
      <4> QED
        BY <1>7, <3>2, <4>1, <4>2
    <3> QED
      BY <1>6, <3>1, <3>2 DEF AskedOK
  <2> QED
    BY <2>1, <2>2
<1> QED
  BY <1>1, <1>2, <1>3, <1>4, <1>5, <1>8 DEF DiOK

\* The call of resolveAsync().
LEMMA ResolveAsyncKeeps ==
  ASSUME NEW valid, DiOK(di), AskedOK(di, asked, valid), valid => Sound(di),
         NEW s \in Services, ResolveAsync(s)
  PROVE  DiOK(di') /\ AskedOK(di', asked', valid) /\ Grown(di, di')
<1>1. PICK found, b, to, ask : /\ found = Found(di, s) /\ to = di' /\ ask = asked'
                               /\ b = (di.resolving = {} /\ (found = "new" => IsTree(di, s)))
  OBVIOUS
<1>2. PICK o : o = IF found = "new" THEN "pending" ELSE found
  OBVIOUS
<1>3. found \in {"ok", "missing", "circular", "new"}
  BY <1>1, FindsOk DEF Found
<1>4. b \in BOOLEAN /\ o \in {"no", "pending"} \union Outs /\ asked \in Asks
  BY <1>1, <1>2, <1>3 DEF Outs, AskedOK
<1>5. ask = [asked EXCEPT ![s] = [out |-> o, alone |-> b]]
  BY <1>1, <1>2 DEF ResolveAsync
<1>6. IsAsked(asked, s, o, b, ask)
  BY <1>4, <1>5, AskedType
<1>7. found = "circular" => ~ b
  BY <1>1 DEF Found, Finds
<1>8. CASE found = "new"
  <2>1. to = Enter(di, s)
    BY <1>1, <1>8 DEF ResolveAsync
  <2>2. /\ DiOK(to) /\ to.registry = di.registry /\ to.instances = di.instances
        /\ IsEntered(di, s, to) /\ to.wasted = di.wasted
    BY <1>1, <1>8, <2>1, EnterKeeps
  <2>3. ASSUME NEW x \in Services, ask[x].alone, valid
        PROVE  ask[x].out # "circular" /\ (ask[x].out = "pending" => Pure(to, x))
    <3>1. CASE x = s
      <4>1. b /\ ask[x].out = "pending"
        BY <1>2, <1>6, <1>8, <2>3, <3>1 DEF IsAsked
      <4>2. di.resolving = {} /\ IsTree(di, s) /\ Sound(di)
        BY <1>1, <1>8, <2>3, <4>1
      <4>3. Pure(to, s)
        BY <2>2, <4>2, PureNew
      <4> QED
        BY <3>1, <4>1, <4>3
    <3>2. CASE x # s
      <4>1. ask[x] = asked[x]
        BY <1>6, <3>2 DEF IsAsked
      <4>2. asked[x].out # "circular" /\ (asked[x].out = "pending" => Pure(di, x))
        BY <2>3, <4>1 DEF AskedOK
      <4> QED
        BY <2>2, <4>1, <4>2, PureEntered
    <3> QED
      BY <3>1, <3>2
  <2> QED
    BY <1>1, <1>6, <2>2, <2>3 DEF AskedOK, IsAsked, Grown
<1>9. CASE found # "new"
  <2>1. to = di
    BY <1>1, <1>9 DEF ResolveAsync
  <2>2. ASSUME NEW x \in Services, ask[x].alone, valid
        PROVE  ask[x].out # "circular" /\ (ask[x].out = "pending" => Pure(to, x))
    <3>1. CASE x = s
      <4>1. b /\ ask[x].out = found
        BY <1>2, <1>6, <1>9, <2>2, <3>1 DEF IsAsked
      <4> QED
        BY <1>3, <1>7, <4>1
    <3>2. CASE x # s
      <4>1. ask[x] = asked[x]
        BY <1>6, <3>2 DEF IsAsked
      <4> QED
        BY <2>1, <2>2, <4>1 DEF AskedOK
    <3> QED
      BY <3>1, <3>2
  <2> QED
    BY <1>1, <1>6, <2>1, <2>2 DEF AskedOK, IsAsked, Grown
<1> QED
  BY <1>8, <1>9

\* A frame that is alive is one of a service marked as resolving.
LEMMA AliveAt ==
  ASSUME DiOK(di), NEW s \in Services, di.frames[s].at # "none"
  PROVE  s \in di.resolving
BY DEF DiOK, Alive

IsCounted(st, s, to) ==
  /\ IsContainer(to) /\ to.registry = st.registry /\ to.instances = st.instances
  /\ to.resolving = st.resolving /\ to.frames = st.frames /\ to.wasted = st.wasted
  /\ \A x \in Services : to.built[x] = IF x = s THEN st.built[x] + 1 ELSE st.built[x]

LEMMA ConstructsType ==
  ASSUME NEW st, IsContainer(st), NEW s \in Services
  PROVE  IsCounted(st, s, [st EXCEPT !.built[s] = @ + 1])
<1>0. PICK to : to = [st EXCEPT !.built[s] = @ + 1]
  OBVIOUS
<1>1. PICK b : b = [st.built EXCEPT ![s] = st.built[s] + 1]
  OBVIOUS
<1>2. /\ st = [registry |-> st.registry, instances |-> st.instances, resolving |-> st.resolving,
               frames |-> st.frames, built |-> st.built, wasted |-> st.wasted]
      /\ st.built \in [Services -> Nat]
  BY DEF IsContainer, Holds
<1>3. b \in [Services -> Nat] /\ \A x \in Services : b[x] = IF x = s THEN st.built[x] + 1 ELSE st.built[x]
  BY <1>1, <1>2
<1>4. to = [registry |-> st.registry, instances |-> st.instances, resolving |-> st.resolving,
            frames |-> st.frames, built |-> b, wasted |-> st.wasted]
  <2>1. to = [st EXCEPT !.built = b]
    BY ONLY <1>0, <1>1
  <2>2. PICK r, i, v, f, u, z :
          st = [registry |-> r, instances |-> i, resolving |-> v, frames |-> f, built |-> u, wasted |-> z]
    BY <1>2
  <2> QED
    BY ONLY <2>1, <2>2
<1>5. /\ to.registry = st.registry /\ to.instances = st.instances /\ to.resolving = st.resolving
      /\ to.frames = st.frames /\ to.built = b /\ to.wasted = st.wasted
  BY ONLY <1>4
<1>6. to = [registry |-> to.registry, instances |-> to.instances, resolving |-> to.resolving,
            frames |-> to.frames, built |-> to.built, wasted |-> to.wasted]
  BY ONLY <1>4, <1>5
<1>7. IsContainer(to)
  BY <1>3, <1>5, <1>6 DEF IsContainer, Holds
<1> QED
  BY <1>0, <1>3, <1>5, <1>7 DEF IsCounted

\* The constructor of s is over.
LEMMA ConstructedKeeps ==
  ASSUME NEW valid, DiOK(di), AskedOK(di, asked, valid), NEW s \in di.resolving,
         Answer(s, "ok"), di' = Leave([di EXCEPT !.built[s] = @ + 1], s, "ok")
  PROVE  DiOK(di') /\ AskedOK(di', asked', valid) /\ Grown(di, di')
<1>1. PICK st : st = [di EXCEPT !.built[s] = @ + 1]
  OBVIOUS
<1>2. IsContainer(di) /\ s \in Services
  BY DEF DiOK, IsContainer, Holds
<1>3. /\ IsContainer(st) /\ st.registry = di.registry /\ st.instances = di.instances
      /\ st.resolving = di.resolving /\ st.frames = di.frames /\ st.wasted = di.wasted
      /\ \A x \in Services : st.built[x] = IF x = s THEN di.built[x] + 1 ELSE di.built[x]
  <2>1. IsCounted(di, s, [di EXCEPT !.built[s] = @ + 1])
    BY ONLY <1>2, ConstructsType
  <2> QED
    BY <1>1, <2>1 DEF IsCounted
<1>4. PICK out : out = "ok"
  OBVIOUS
<1>5. /\ di' = Leave(st, s, out) /\ Answer(s, out) /\ out \in Outs
      /\ out = "circular" => di.frames[s].bad = "circular"
  BY <1>1, <1>4 DEF Outs
<1>6. \A x \in Services : st.built[x] = IF x = s /\ out = "ok" THEN di.built[x] + 1 ELSE di.built[x]
  BY <1>3, <1>4
<1> QED
  BY <1>3, <1>5, <1>6, FrameEnds

\* The frame of s ends with an error.
LEMMA FailedKeeps ==
  ASSUME NEW valid, DiOK(di), AskedOK(di, asked, valid), NEW s \in di.resolving,
         NEW out \in Outs \ {"ok"}, out = "circular" => di.frames[s].bad = "circular",
         Answer(s, out), di' = Leave(di, s, out)
  PROVE  DiOK(di') /\ AskedOK(di', asked', valid) /\ Grown(di, di')
<1>1. PICK st : st = di
  OBVIOUS
<1>2. /\ IsContainer(st) /\ st.registry = di.registry /\ st.instances = di.instances
      /\ st.resolving = di.resolving /\ st.frames = di.frames /\ st.wasted = di.wasted
      /\ \A x \in Services : st.built[x] = IF x = s /\ out = "ok" THEN di.built[x] + 1 ELSE di.built[x]
      /\ di' = Leave(st, s, out)
  BY <1>1 DEF DiOK
<1> QED
  BY <1>2, FrameEnds

LEMMA WaitsForConstructor ==
  ASSUME NEW valid, DiOK(di), AskedOK(di, asked, valid), NEW s \in di.resolving,
         di' = [di EXCEPT !.frames[s].at = "ctor"], UNCHANGED asked
  PROVE  DiOK(di') /\ AskedOK(di', asked', valid) /\ Grown(di, di')
<1>1. PICK to, f, F : /\ to = di' /\ f = [di.frames[s] EXCEPT !.at = "ctor"]
                      /\ F = [di.frames EXCEPT ![s] = f]
  OBVIOUS
<1>2. /\ di = [registry |-> di.registry, instances |-> di.instances, resolving |-> di.resolving,
               frames |-> di.frames, built |-> di.built, wasted |-> di.wasted]
      /\ Holds(di) /\ di.frames \in [Services -> Frames] /\ s \in Services
      /\ Alive(di.instances, di) /\ OnceBuilt(di) /\ di.resolving \in SUBSET Services
  BY DEF DiOK, IsContainer, Holds
<1>3. /\ f \in Frames /\ f.at = "ctor" /\ f.left = di.frames[s].left /\ f.bad = di.frames[s].bad
      /\ f.parent = di.frames[s].parent
  <2>1. PICK u : u = di.frames[s]
    OBVIOUS
  <2>2. u \in Frames /\ f = [u EXCEPT !.at = "ctor"]
    BY <1>1, <1>2, <2>1
  <2>3. f \in Frames /\ f.at = "ctor" /\ f.left = u.left /\ f.bad = u.bad /\ f.parent = u.parent
    BY ONLY <2>2 DEF Frames
  <2> QED
    BY <2>1, <2>3
<1>4. F \in [Services -> Frames] /\ F[s] = f /\ \A x \in Services : x # s => F[x] = di.frames[x]
  BY <1>1, <1>2, <1>3
<1>5. to = [registry |-> di.registry, instances |-> di.instances, resolving |-> di.resolving,
            frames |-> F, built |-> di.built, wasted |-> di.wasted]
  BY <1>1, <1>2
<1>6. /\ to.registry = di.registry /\ to.instances = di.instances /\ to.resolving = di.resolving
      /\ to.frames = F /\ to.built = di.built /\ to.wasted = di.wasted
      /\ to = [registry |-> to.registry, instances |-> to.instances, resolving |-> to.resolving,
               frames |-> to.frames, built |-> to.built, wasted |-> to.wasted]
  BY <1>5
<1>7. \A x \in Services : /\ F[x].left = di.frames[x].left /\ F[x].bad = di.frames[x].bad
                          /\ F[x].parent = di.frames[x].parent
                          /\ F[x].at = IF x = s THEN "ctor" ELSE di.frames[x].at
  BY <1>3, <1>4
<1>8. IsContainer(to) /\ OnceBuilt(to)
  BY <1>2, <1>4, <1>6 DEF IsContainer, Holds, OnceBuilt
<1>9. Alive(to.instances, to)
  <2>1. \A x \in Services : /\ x \in di.resolving <=> F[x].at # "none"
                            /\ x \notin di.resolving => F[x] = Idle
    BY <1>2, <1>4, <1>7 DEF Alive
  <2>2. \A x \in Services : \A d \in F[x].left : d \in di.resolving /\ F[d].parent = x /\ d # x
    <3> TAKE x \in Services
    <3> TAKE d \in F[x].left
    <3>1. d \in di.resolving /\ di.frames[d].parent = x /\ d # x
      BY <1>2, <1>7 DEF Alive
    <3> QED
      BY <1>2, <1>7, <3>1
  <2> QED
    BY <1>2, <1>6, <2>1, <2>2 DEF Alive
<1>10. ASSUME NEW x \in Services, Pure(di, x) PROVE Pure(to, x)
  BY <1>2, <1>6, <1>7, <1>10 DEF Pure
<1>11. AskedOK(to, asked, valid)
  BY <1>10 DEF AskedOK
<1> QED
  BY <1>1, <1>6, <1>8, <1>9, <1>11 DEF DiOK, Grown

\* Whatever step of an asynchronous resolution comes next.
LEMMA ResolutionKeeps ==
  ASSUME NEW valid, DiOK(di), AskedOK(di, asked, valid),
         \/ ResolutionStep
         \/ \E s \in Services : ConstructorFails(s)
  PROVE  DiOK(di') /\ AskedOK(di', asked', valid) /\ Grown(di, di')
<1>1. ASSUME NEW s \in Services, Rejected(s)
      PROVE  DiOK(di') /\ AskedOK(di', asked', valid) /\ Grown(di, di')
  <2>1. PICK out : out = di.frames[s].bad
    OBVIOUS
  <2>2. di.frames[s] \in Frames
    BY DEF DiOK, IsContainer
  <2>3. out \in Outs \ {"ok"} /\ (out = "circular" => di.frames[s].bad = "circular")
    BY <1>1, <2>1, <2>2 DEF Rejected, Frames, Outs
  <2>4. s \in di.resolving
    BY <1>1, AliveAt DEF Rejected
  <2>5. Answer(s, out) /\ di' = Leave(di, s, out)
    BY <1>1, <2>1 DEF Rejected
  <2> QED
    BY <2>3, <2>4, <2>5, FailedKeeps
<1>2. ASSUME NEW s \in Services, Construct(s)
      PROVE  DiOK(di') /\ AskedOK(di', asked', valid) /\ Grown(di, di')
  <2>1. s \in di.resolving
    BY <1>2, AliveAt DEF Construct
  <2>2. CASE s \in wiring.async
    <3>1. di' = [di EXCEPT !.frames[s].at = "ctor"] /\ UNCHANGED asked
      BY <1>2, <2>2 DEF Construct
    <3> QED
      BY <2>1, <3>1, WaitsForConstructor
  <2>3. CASE s \notin wiring.async
    <3>1. Answer(s, "ok") /\ di' = Leave([di EXCEPT !.built[s] = @ + 1], s, "ok")
      BY <1>2, <2>3 DEF Construct
    <3> QED
      BY <2>1, <3>1, ConstructedKeeps
  <2> QED
    BY <2>2, <2>3
<1>3. ASSUME NEW s \in Services, Constructed(s)
      PROVE  DiOK(di') /\ AskedOK(di', asked', valid) /\ Grown(di, di')
  <2>1. s \in di.resolving
    BY <1>3, AliveAt DEF Constructed
  <2>2. Answer(s, "ok") /\ di' = Leave([di EXCEPT !.built[s] = @ + 1], s, "ok")
    BY <1>3 DEF Constructed
  <2> QED
    BY <2>1, <2>2, ConstructedKeeps
<1>4. ASSUME NEW s \in Services, ConstructorFails(s)
      PROVE  DiOK(di') /\ AskedOK(di', asked', valid) /\ Grown(di, di')
  <2>1. s \in di.resolving
    BY <1>4, AliveAt DEF ConstructorFails
  <2>2. PICK out : out = "threw"
    OBVIOUS
  <2>3. /\ out \in Outs \ {"ok"} /\ (out = "circular" => di.frames[s].bad = "circular")
        /\ Answer(s, out) /\ di' = Leave(di, s, out)
    BY <1>4, <2>2 DEF ConstructorFails, Outs
  <2> QED
    BY <2>1, <2>3, FailedKeeps
<1> QED
  BY <1>1, <1>2, <1>3, <1>4 DEF ResolutionStep

-----------------------------------------------------------------------------
(* The application. *)

\* The stages of listen(), and where an application is before and after it.
Early == {"created", "config"}
Starting == {"subscribing", "startup"} \union Systems
Stages == Early \union Starting \union {"ready", "listening", "failed"}

\* The type of the fields of OriApplication, LifecycleManager and AppContext.
App == [stage : Stages, hook : Nat,
        phase : {"created", "bootstrapped", "starting", "ready", "stopping", "stopped"},
        deferred : Seq(Extensions), applied : SUBSET Extensions, used : SUBSET Extensions,
        late : SUBSET Extensions,
        up : SUBSET Systems, server : BOOLEAN, handlers : BOOLEAN, waiting : BOOLEAN,
        shutting : BOOLEAN, work : {"none", "hooks", "done", "failed"} \union Systems,
        todo : Nat, forced : BOOLEAN, process : {"alive", "killed", "exited"}]

\* The type of what the application keeps.
AppTypeOK == app \in App /\ wiring \in Wirings /\ budget \in Nat

\* What listen() has started when it is there.
UpTo(stage) == CASE stage = "workflows" -> {"events"}
                 [] stage = "websocket" -> {"events", "workflows"}
                 [] OTHER -> {}

\* Where listen(), the shutdown and a call of stop() can be at the same time.
Course(a) ==
  /\ a.stage = "startup" => a.hook > 0
  /\ a.stage \in Early \union Starting =>
       /\ ~ a.server /\ a.work = "none" /\ ~ a.shutting /\ ~ a.waiting /\ ~ a.handlers
       /\ a.up = UpTo(a.stage) \intersect wiring.uses
  /\ a.stage \in {"ready", "listening"} /\ a.work = "none" => a.server
  /\ a.server /\ ~ a.shutting => a.work = "none" /\ a.up = wiring.uses
  /\ a.shutting => a.server /\ a.work \in {"hooks"} \union Systems
  /\ a.work \in {"hooks"} \union Systems /\ ~ a.shutting => a.forced
  /\ a.work = "workflows" => "events" \notin a.up
  /\ a.work = "websocket" => a.up \subseteq {"websocket"}
  /\ a.work = "done" => a.up = {}
  /\ a.stage \in Early => a.used \subseteq a.applied \union Range(a.deferred)
  /\ a.stage \in Starting \/ a.server => a.used \subseteq a.applied \union a.late

\* The classes a server needs are there.
Ready(st) ==
  /\ wiring.eager \union {Controller} \subseteq st.instances
  /\ "events" \in wiring.uses => EventConsumer \in st.instances
  /\ "workflows" \in wiring.uses => WorkflowConsumer \in st.instances

\* What is still to be constructed is as the program registered it.
Registered(st) ==
  /\ DOMAIN st.registry \ Services \subseteq st.instances
  /\ \A k \in DOMAIN st.registry \ st.instances :
       k \in DOMAIN Fresh.registry /\ st.registry[k] = Fresh.registry[k]

\* Nobody has called resolveAsync().
Unasked == [s \in Services |-> [out |-> "no", alone |-> FALSE]]

\* What the container has come to when listen() is there.
Filled(a) ==
  /\ di.wasted \subseteq wiring.async
  /\ a.stage \in Early => di = Empty /\ asked = Unasked
  /\ a.stage \in {"subscribing", "startup"} => Registered(di)
  /\ a.stage \in Starting \/ a.server => Ready(di)

\* The inductive invariant.
AppInv ==
  /\ AppTypeOK
  /\ DiOK(di)
  /\ AskedOK(di, asked, Validates(Fresh))
  /\ Course(app)
  /\ Filled(app)

\* A call of resolve() leaves the container sound.
IsResolved(st, keys, done) ==
  /\ done = [st |-> done.st, out |-> done.out]
  /\ DiOK(done.st) /\ Grown(st, done.st)
  /\ done.st.resolving = st.resolving /\ done.st.frames = st.frames
  /\ done.out = "ok" => Range(keys) \subseteq done.st.instances

\* resolve() leaves the container in order, and resolves all of its list or says why not.
LEMMA ResolveKeeps ==
  ASSUME NEW st, DiOK(st), NEW keys \in Seq(Keys), NEW ends \in Endings, OnlyAsync(ends)
  PROVE  IsResolved(st, keys, Resolve(st, keys, ends))
<1>1. /\ st = [registry |-> st.registry, instances |-> st.instances, resolving |-> st.resolving,
               frames |-> st.frames, built |-> st.built, wasted |-> st.wasted]
      /\ Holds(st) /\ st.frames \in [Services -> Frames]
      /\ Alive(st.instances, st) /\ OnceBuilt(st)
  BY DEF DiOK, IsContainer
<1>2. PICK r : r = Resolve(st, keys, ends)
  OBVIOUS
<1>3. PICK done \in Progress :
        /\ Follows(st.registry, st.resolving, ProgressOf(st), done)
        /\ done.out = "ok" => Range(keys) \subseteq done.instances
        /\ Resolve(st, keys, ends) =
             [st  |-> [st EXCEPT !.instances = done.instances, !.built = done.built,
                                    !.wasted = done.wasted],
              out |-> done.out]
  BY ONLY <1>1, keys \in Seq(Keys), ends \in Endings, OnlyAsync(ends), ResolveSound
<1>4. PICK to : to = [st EXCEPT !.instances = done.instances, !.built = done.built, !.wasted = done.wasted]
  OBVIOUS
<1>5. r = [st |-> to, out |-> done.out]
  BY <1>2, <1>3, <1>4
<1>6. r.st = to /\ r.out = done.out /\ r = [st |-> r.st, out |-> r.out]
  BY ONLY <1>5
<1>7. to = [registry |-> st.registry, instances |-> done.instances, resolving |-> st.resolving,
            frames |-> st.frames, built |-> done.built, wasted |-> done.wasted]
  <2>1. PICK g, i, v, f, u, z :
          st = [registry |-> g, instances |-> i, resolving |-> v, frames |-> f, built |-> u, wasted |-> z]
    BY <1>1
  <2> QED
    BY ONLY <1>4, <2>1
<1>8. /\ to.registry = st.registry /\ to.instances = done.instances /\ to.resolving = st.resolving
      /\ to.frames = st.frames /\ to.built = done.built /\ to.wasted = done.wasted
  BY ONLY <1>7
<1>9. to = [registry |-> to.registry, instances |-> to.instances, resolving |-> to.resolving,
            frames |-> to.frames, built |-> to.built, wasted |-> to.wasted]
  BY ONLY <1>7, <1>8
<1>10. /\ done.instances \in SUBSET Keys /\ done.built \in [Services -> Nat]
       /\ done.wasted \in SUBSET Services
  BY DEF Progress
<1>11. /\ st.instances \subseteq done.instances
       /\ done.instances \intersect st.resolving \subseteq st.instances
       /\ OnceBuilt(done) /\ done.wasted \subseteq st.wasted \union wiring.async
  <2>1. PICK a : a = ProgressOf(st)
    OBVIOUS
  <2>2. a.instances = st.instances /\ a.built = st.built /\ a.wasted = st.wasted
    BY <2>1 DEF ProgressOf
  <2>3. OnceBuilt(a)
    BY <1>1, <2>2 DEF OnceBuilt
  <2>4. Follows(st.registry, st.resolving, a, done)
    BY <1>3, <2>1
  <2> QED
    BY <2>2, <2>3, <2>4 DEF Follows
<1>12. IsContainer(to)
  BY <1>1, <1>8, <1>9, <1>10 DEF IsContainer, Holds
<1>13. Alive(to.instances, to)
  BY <1>1, <1>8, <1>11 DEF Alive
<1>14. OnceBuilt(to)
  BY <1>8, <1>11 DEF OnceBuilt
<1>15. IsResolved(st, keys, r)
  BY <1>3, <1>6, <1>8, <1>11, <1>12, <1>13, <1>14 DEF IsResolved, DiOK, Grown
<1> QED
  BY <1>2, <1>15

\* A class is registered.
IsRegistered(st, s, deps, to) ==
  /\ DiOK(to) /\ to.instances = st.instances /\ to.resolving = st.resolving
  /\ to.frames = st.frames /\ to.wasted = st.wasted
  /\ DOMAIN to.registry = DOMAIN st.registry \union {s}
  /\ \A k \in DOMAIN st.registry \ {s} : to.registry[k] = st.registry[k]

LEMMA RegisterKeeps ==
  ASSUME NEW st, DiOK(st), NEW s \in Services, NEW deps \in Seq(Keys)
  PROVE  IsRegistered(st, s, deps, Register(st, s, deps))
<1>1. /\ st = [registry |-> st.registry, instances |-> st.instances, resolving |-> st.resolving,
               frames |-> st.frames, built |-> st.built, wasted |-> st.wasted]
      /\ Holds(st) /\ st.frames \in [Services -> Frames]
      /\ Alive(st.instances, st) /\ OnceBuilt(st)
  BY DEF DiOK, IsContainer
<1>2. PICK to, more, reg : /\ to = Register(st, s, deps) /\ more = [k \in {s} |-> deps]
                           /\ reg = Extended(st.registry, more)
  OBVIOUS
<1>3. DOMAIN more = {s} /\ more[s] = deps
  BY <1>2
<1>4. /\ DOMAIN reg = DOMAIN st.registry \union {s} /\ reg[s] = deps
      /\ \A k \in DOMAIN st.registry \ {s} : reg[k] = st.registry[k]
      /\ reg = [k \in DOMAIN reg |-> reg[k]]
  BY <1>2, <1>3 DEF Extended
<1>5. Registry(reg)
  <2>1. DOMAIN st.registry \subseteq Keys /\ \A k \in DOMAIN st.registry : st.registry[k] \in Seq(Keys)
    BY <1>1 DEF Holds, Registry
  <2>2. \A k \in DOMAIN reg : k \in Keys /\ reg[k] \in Seq(Keys)
    BY <1>4, <2>1 DEF Keys
  <2> QED
    BY <1>4, <2>2 DEF Registry
<1>6. to = [registry |-> reg, instances |-> st.instances, resolving |-> st.resolving,
            frames |-> st.frames, built |-> st.built, wasted |-> st.wasted]
  <2>1. to = [st EXCEPT !.registry = reg]
    BY <1>2 DEF Register
  <2>2. PICK g, i, v, f, u, z :
          st = [registry |-> g, instances |-> i, resolving |-> v, frames |-> f, built |-> u, wasted |-> z]
    BY <1>1
  <2> QED
    BY ONLY <2>1, <2>2
<1>7. /\ to.registry = reg /\ to.instances = st.instances /\ to.resolving = st.resolving
      /\ to.frames = st.frames /\ to.built = st.built /\ to.wasted = st.wasted
  BY ONLY <1>6
<1>8. to = [registry |-> to.registry, instances |-> to.instances, resolving |-> to.resolving,
            frames |-> to.frames, built |-> to.built, wasted |-> to.wasted]
  BY ONLY <1>6, <1>7
<1>9. IsContainer(to)
  BY <1>1, <1>5, <1>7, <1>8 DEF IsContainer, Holds
<1>10. Alive(to.instances, to) /\ OnceBuilt(to)
  BY <1>1, <1>7 DEF Alive, OnceBuilt
<1>11. IsRegistered(st, s, deps, to)
  BY <1>4, <1>7, <1>9, <1>10 DEF IsRegistered, DiOK
<1> QED
  BY <1>2, <1>11

\* What bootstrap() has come to: the classes of N are there, or it has failed.
Loaded(acc, N) ==
  /\ acc = [st |-> acc.st, out |-> acc.out]
  /\ DiOK(acc.st) /\ acc.st.resolving = {} /\ acc.st.wasted \subseteq wiring.async
  /\ acc.out = "ok" => Registered(acc.st) /\ N \subseteq acc.st.instances

LEMMA LateKeeps ==
  ASSUME NEW acc, NEW N, Loaded(acc, N), NEW s \in Services, NEW deps \in Seq(Keys),
         NEW ends \in Endings, OnlyAsync(ends)
  PROVE  Loaded(RegisterLate(acc, s, deps, ends), N \union {s})
<1>1. PICK done : done = RegisterLate(acc, s, deps, ends)
  OBVIOUS
<1>2. CASE acc.out # "ok"
  <2>1. done = acc
    BY <1>1, <1>2 DEF RegisterLate
  <2> QED
    BY <1>1, <1>2, <2>1 DEF Loaded
<1>3. CASE acc.out = "ok"
  <2>1. PICK old, st, keys : old = acc.st /\ st = Register(old, s, deps) /\ keys = <<s>>
    OBVIOUS
  <2>2. done = Resolve(st, keys, ends)
    BY <1>1, <1>3, <2>1 DEF RegisterLate
  <2>3. /\ DiOK(old) /\ old.resolving = {} /\ Registered(old) /\ N \subseteq old.instances
        /\ old.wasted \subseteq wiring.async
    BY <1>3, <2>1 DEF Loaded
  <2>4. IsRegistered(old, s, deps, st)
    BY <2>1, <2>3, RegisterKeeps
  <2>5. keys \in Seq(Keys) /\ Range(keys) = {s}
    BY <2>1 DEF Keys, Range
  <2>6. IsResolved(st, keys, done)
    BY <2>2, <2>4, <2>5, ResolveKeeps DEF IsRegistered
  <2>7. /\ done = [st |-> done.st, out |-> done.out] /\ DiOK(done.st)
        /\ done.st.registry = st.registry /\ st.instances \subseteq done.st.instances
        /\ done.st.resolving = st.resolving
        /\ done.st.wasted \subseteq st.wasted \union wiring.async
        /\ done.out = "ok" => s \in done.st.instances
    BY <2>5, <2>6 DEF IsResolved, Grown
  <2>8. /\ st.instances = old.instances /\ st.resolving = {} /\ st.wasted \subseteq wiring.async
        /\ DOMAIN st.registry = DOMAIN old.registry \union {s}
        /\ \A k \in DOMAIN old.registry \ {s} : st.registry[k] = old.registry[k]
    BY <2>3, <2>4 DEF IsRegistered
  <2>9. ASSUME done.out = "ok"
        PROVE  Registered(done.st) /\ N \union {s} \subseteq done.st.instances
    <3>1. s \in done.st.instances /\ old.instances \subseteq done.st.instances
      BY <2>7, <2>8, <2>9
    <3>2. DOMAIN done.st.registry \ Services \subseteq done.st.instances
      BY <2>3, <2>7, <2>8, <3>1 DEF Registered
    <3>3. ASSUME NEW k \in DOMAIN done.st.registry \ done.st.instances
          PROVE  k \in DOMAIN Fresh.registry /\ done.st.registry[k] = Fresh.registry[k]
      <4>1. k # s /\ k \in DOMAIN old.registry \ old.instances
        BY <2>7, <2>8, <3>1, <3>3
      <4>2. k \in DOMAIN Fresh.registry /\ old.registry[k] = Fresh.registry[k]
        BY <2>3, <4>1 DEF Registered
      <4>3. done.st.registry[k] = old.registry[k]
        BY <2>7, <2>8, <4>1
      <4> QED
        BY <4>2, <4>3
    <3> QED
      BY <2>3, <3>1, <3>2, <3>3 DEF Registered
  <2> QED
    BY <1>1, <2>7, <2>8, <2>9 DEF Loaded
<1> QED
  BY <1>2, <1>3

LEMMA EndsType ==
  ASSUME NEW throwing
  PROVE  Ends(throwing) \in Endings /\ OnlyAsync(Ends(throwing))
BY DEF Ends, Endings, OnlyAsync

LEMMA FreshLoads ==
  ASSUME wiring \in Wirings
  PROVE  DiOK(Fresh) /\ Fresh.resolving = {} /\ Fresh.wasted = {} /\ Registered(Fresh)
<1>1. PICK st : st = Fresh
  OBVIOUS
<1>2. /\ Holds(st) /\ st.resolving = {} /\ st.instances = DOMAIN st.registry \ Services
      /\ st.wasted = {}
      /\ st.frames = [s \in Services |-> Idle] /\ st.built = [s \in Services |-> 0]
  BY <1>1, FreshHolds
<1>3. st = [registry |-> st.registry, instances |-> st.instances, resolving |-> st.resolving,
            frames |-> st.frames, built |-> st.built, wasted |-> st.wasted]
  <2>1. PICK e, o : e = Empty /\ o = RegisterInstance(e, Token)
    OBVIOUS
  <2>2. e = [registry |-> e.registry, instances |-> e.instances, resolving |-> e.resolving,
             frames |-> e.frames, built |-> e.built, wasted |-> e.wasted]
    BY <2>1 DEF Empty
  <2>3. o = [registry |-> o.registry, instances |-> o.instances, resolving |-> o.resolving,
             frames |-> o.frames, built |-> o.built, wasted |-> o.wasted]
    BY <2>1, <2>2 DEF RegisterInstance, Register
  <2>4. PICK g : g = IF wiring.token THEN o ELSE e
    OBVIOUS
  <2>5. g = [registry |-> g.registry, instances |-> g.instances, resolving |-> g.resolving,
             frames |-> g.frames, built |-> g.built, wasted |-> g.wasted]
    BY <2>2, <2>3, <2>4
  <2>6. st = [g EXCEPT !.registry = Extended(@, wiring.deps)]
    BY <1>1, <2>1, <2>4 DEF Fresh, RegisterProviders
  <2> QED
    BY <2>5, <2>6
<1>4. Idle \in Frames /\ Idle.at = "none" /\ Idle.left = {}
  BY DEF Idle, Frames
<1>5. IsContainer(st)
  BY <1>2, <1>3, <1>4 DEF IsContainer
<1>6. Alive(st.instances, st)
  BY <1>2, <1>4 DEF Alive
<1>7. OnceBuilt(st)
  BY <1>2 DEF OnceBuilt
<1>8. Registered(st)
  BY <1>1, <1>2 DEF Registered
<1> QED
  BY <1>1, <1>2, <1>5, <1>6, <1>7, <1>8 DEF DiOK

\* The classes that are constructed at bootstrap.
LEMMA WiringType ==
  ASSUME wiring \in Wirings
  PROVE  /\ wiring.controller \in Seq(Keys) /\ wiring.consumer \in Seq(Keys)
         /\ wiring.eager \subseteq Services /\ wiring.uses \subseteq Systems
         /\ wiring.budget \in Nat /\ wiring.handling \in BOOLEAN /\ wiring.factory \in BOOLEAN
         /\ wiring.matching \in BOOLEAN
         /\ {Controller, EventConsumer, WorkflowConsumer} \subseteq Services
         /\ DOMAIN wiring.deps \subseteq Services
<1>1. PICK w \in Wirings : w = wiring
  OBVIOUS
<1> QED
  BY <1>1, ApplicationAssumption

\* bootstrap() leaves the container sound, and if it succeeds it has everything a server needs.
IsWired(wired) ==
  /\ DiOK(wired.st) /\ wired.st.resolving = {} /\ wired.st.wasted \subseteq wiring.async
  /\ wired.out = "ok" => Registered(wired.st) /\ Ready(wired.st)

\* What bootstrap() leaves of the container: order, and with success all that a server needs.
LEMMA WiredIs ==
  ASSUME wiring \in Wirings, di = Empty, NEW throwing
  PROVE  IsWired(Wired(throwing))
<1>1. PICK filled, ends, keys, eager, controllers, consumers, done, wired, matching :
        /\ filled = RegisterProviders(di) /\ ends = Ends(throwing)
        /\ keys = SetToSeq(wiring.eager) /\ eager = InstantiateEager(filled, ends)
        /\ controllers = RegisterControllers(eager, ends)
        /\ consumers = RegisterEventConsumers(controllers, ends)
        /\ done = RegisterWorkflowConsumers(consumers, ends)
        /\ wired = Wired(throwing) /\ matching = wiring.matching
  OBVIOUS
<1>2. wired = IF ~ Validates(filled) THEN [st |-> filled, out |-> "invalid"] ELSE done
  BY <1>1 DEF Wired
<1>3. /\ ends \in Endings /\ OnlyAsync(ends) /\ wiring.controller \in Seq(Keys) /\ wiring.consumer \in Seq(Keys)
      /\ Controller \in Services /\ EventConsumer \in Services /\ WorkflowConsumer \in Services
  BY <1>1, EndsType, WiringType
<1>4. DiOK(filled) /\ filled.resolving = {} /\ filled.wasted = {} /\ Registered(filled)
  BY <1>1, FreshLoads DEF Fresh
<1>5. keys \in Seq(Keys) /\ Range(keys) = wiring.eager
  <2>1. IsFiniteSet(wiring.eager) /\ wiring.eager \subseteq Keys
    BY WiringType, ContainerAssumption, FS_Subset DEF Keys
  <2>2. keys \in Seq(wiring.eager) /\ Range(keys) = wiring.eager
    BY <1>1, <2>1, SeqOfSet
  <2> QED
    BY <2>1, <2>2
<1>6. PICK N0, N1, N2 : /\ N0 = wiring.eager /\ N1 = N0 \union {Controller}
                        /\ N2 = IF "events" \in wiring.uses THEN N1 \union {EventConsumer} ELSE N1
  OBVIOUS
<1>7. Loaded(eager, N0)
  <2>1. IsResolved(filled, keys, eager)
    BY <1>1, <1>3, <1>4, <1>5, ResolveKeeps DEF InstantiateEager
  <2>2. /\ eager = [st |-> eager.st, out |-> eager.out] /\ DiOK(eager.st)
        /\ eager.st.registry = filled.registry /\ filled.instances \subseteq eager.st.instances
        /\ eager.st.resolving = {} /\ eager.st.wasted \subseteq wiring.async
        /\ eager.out = "ok" => N0 \subseteq eager.st.instances
    BY <1>4, <1>5, <1>6, <2>1 DEF IsResolved, Grown
  <2>3. Registered(eager.st)
    BY <1>4, <2>2 DEF Registered
  <2> QED
    BY <2>2, <2>3 DEF Loaded
<1>8. Loaded(controllers, N1)
  <2>1. controllers = RegisterLate(eager, Controller, wiring.controller, ends)
    BY <1>1 DEF RegisterControllers
  <2> QED
    BY <1>3, <1>6, <1>7, <2>1, LateKeeps
<1>9. Loaded(consumers, N2)
  <2>1. CASE "events" \in wiring.uses
    <3>1. consumers = RegisterLate(controllers, EventConsumer, wiring.consumer, ends)
      BY <1>1, <2>1 DEF RegisterEventConsumers
    <3> QED
      BY <1>3, <1>6, <1>8, <2>1, <3>1, LateKeeps
  <2>2. CASE "events" \notin wiring.uses
    BY <1>1, <1>6, <1>8, <2>2 DEF RegisterEventConsumers
  <2> QED
    BY <2>1, <2>2
<1>10. /\ DiOK(done.st) /\ done.st.resolving = {} /\ done.st.wasted \subseteq wiring.async
       /\ (done.out = "ok" => Registered(done.st) /\ Ready(done.st))
  <2>1. CASE "workflows" \notin wiring.uses
    <3>1. done = consumers
      BY <1>1, <2>1 DEF RegisterWorkflowConsumers
    <3> QED
      BY <1>6, <1>9, <2>1, <3>1 DEF Loaded, Ready
  <2>2. CASE "workflows" \in wiring.uses
    <3>1. PICK late : late = RegisterLate(consumers, WorkflowConsumer, wiring.consumer, ends)
      OBVIOUS
    <3>2. Loaded(late, N2 \union {WorkflowConsumer})
      BY <1>3, <1>9, <3>1, LateKeeps
    <3>3. done = [late EXCEPT !.out = IF late.out = "ok" /\ ~ matching THEN "mismatch" ELSE late.out]
      BY <1>1, <2>2, <3>1 DEF RegisterWorkflowConsumers
    <3>4. late = [st |-> late.st, out |-> late.out]
      BY <3>2 DEF Loaded
    <3>5. done.st = late.st /\ (done.out = "ok" => late.out = "ok")
      BY <3>3, <3>4
    <3> QED
      BY <1>6, <2>2, <3>2, <3>5 DEF Loaded, Ready
  <2> QED
    BY <2>1, <2>2
<1>11. IsWired(wired)
  <2>1. CASE Validates(filled)
    BY <1>2, <1>10, <2>1 DEF IsWired
  <2>2. CASE ~ Validates(filled)
    <3>1. wired.st = filled /\ wired.out = "invalid"
      BY <1>2, <2>2
    <3> QED
      BY <1>4, <3>1 DEF IsWired
  <2> QED
    BY <2>1, <2>2
<1> QED
  BY <1>1, <1>11

\* A container with a program's own registrations is one whose services can be had.
LEMMA RegisteredSound ==
  ASSUME wiring \in Wirings, NEW st, DiOK(st), Registered(st), Validates(Fresh)
  PROVE  Sound(st)
<1>1. PICK reg : reg = Fresh.registry
  OBVIOUS
<1>2. AllGrounded(reg)
  <2>1. Settled(reg, DOMAIN reg \ Services)
    BY <1>1, FreshHolds
  <2>2. Complete(reg) /\ ~ Circular(reg)
    BY <1>1, NoneMissing DEF Validates
  <2> QED
    BY <2>1, <2>2, CircularIsExact
<1>3. /\ Registry(st.registry) /\ st.instances \in SUBSET Keys
      /\ DOMAIN st.registry \ Services \subseteq st.instances
      /\ \A k \in DOMAIN st.registry \ st.instances : k \in DOMAIN reg /\ st.registry[k] = reg[k]
  BY <1>1 DEF DiOK, IsContainer, Holds, Registered
<1>4. ASSUME NEW d \in (DOMAIN st.registry \intersect Services) \ st.instances
      PROVE  \E A \in SUBSET Keys : Closed(st, A) /\ d \notin A /\ Range(st.registry[d]) \subseteq A
  <2>1. d \in DOMAIN reg \intersect Services /\ st.registry[d] = reg[d]
    BY <1>3
  <2>2. PICK A \in SUBSET Keys : ClosedIn(reg, A) /\ d \notin A /\ Range(reg[d]) \subseteq A
    BY <1>2, <2>1 DEF AllGrounded, Grounded
  <2>3. Closed(st, A)
    BY <1>3, <2>2 DEF Closed, ClosedIn
  <2> QED
    BY <2>1, <2>2, <2>3
<1> QED
  BY <1>3, <1>4 DEF Sound

-----------------------------------------------------------------------------
(* The steps of the application: what they do to its course. *)

\* The part of the invariant that does not concern the container.
AppFlow(a) == a \in App /\ Course(a)

LEMMA AppFields ==
  ASSUME NEW a, a \in App
  PROVE  /\ a.stage \in Stages /\ a.hook \in Nat /\ a.deferred \in Seq(Extensions)
         /\ a.applied \in SUBSET Extensions /\ a.used \in SUBSET Extensions
         /\ a.late \in SUBSET Extensions
         /\ a.up \in SUBSET Systems /\ a.server \in BOOLEAN /\ a.handlers \in BOOLEAN
         /\ a.waiting \in BOOLEAN /\ a.shutting \in BOOLEAN
         /\ a.work \in {"none", "hooks", "done", "failed"} \union Systems
         /\ a.todo \in Nat /\ a.forced \in BOOLEAN /\ a.process \in {"alive", "killed", "exited"}
BY DEF App

\* use(), at any time: after the deferred list has been gone through, what is kept counts as
\* late.
LEMMA UseFlows ==
  ASSUME AppTypeOK, Course(app), NEW e \in Extensions, Use(e)
  PROVE  AppTypeOK' /\ Course(app)' /\ app'.stage = app.stage /\ app'.server = app.server
<1>1. PICK b, l, d : /\ b = app' /\ l = IF ListAhead THEN app.late ELSE app.late \union {e}
                     /\ d = Append(app.deferred, e)
  OBVIOUS
<1>2. app \in App /\ wiring' = wiring /\ budget' = budget
  BY DEF Use, AppTypeOK
<1>3. /\ app.deferred \in Seq(Extensions) /\ app.late \in SUBSET Extensions
      /\ app.used \in SUBSET Extensions /\ app.applied \in SUBSET Extensions
  BY <1>2, AppFields
<1>4. /\ d \in Seq(Extensions) /\ Range(d) = Range(app.deferred) \union {e}
      /\ l \in SUBSET Extensions
  BY <1>1, <1>3 DEF Range
<1>5. \/ b = [app EXCEPT !.used = @ \cup {e}, !.deferred = d, !.late = l]
      \/ b = [app EXCEPT !.used = @ \cup {e}, !.applied = @ \cup {e}]
  <2>1. CASE wiring.factory
    <3>1. b = [app EXCEPT !.used = app.used \cup {e}, !.deferred = Append(app.deferred, e),
                          !.late = IF ListAhead THEN app.late ELSE app.late \cup {e}]
      BY <1>1, <2>1 DEF Use
    <3> QED
      BY <1>1, <3>1
  <2>2. CASE ~ wiring.factory
    BY <1>1, <2>2 DEF Use
  <2> QED
    BY <2>1, <2>2
<1>6. b \in App
  <2>1. CASE b = [app EXCEPT !.used = @ \cup {e}, !.deferred = d, !.late = l]
    BY <1>2, <1>4, <2>1 DEF App
  <2>2. CASE b = [app EXCEPT !.used = @ \cup {e}, !.applied = @ \cup {e}]
    BY <1>2, <2>2 DEF App
  <2> QED
    BY <1>5, <2>1, <2>2
<1>7. /\ b.stage = app.stage /\ b.server = app.server /\ b.work = app.work /\ b.shutting = app.shutting
      /\ b.waiting = app.waiting /\ b.handlers = app.handlers /\ b.up = app.up /\ b.hook = app.hook
      /\ b.forced = app.forced /\ b.used = app.used \union {e}
      /\ \/ b.deferred = d /\ b.applied = app.applied /\ b.late = l
         \/ b.deferred = app.deferred /\ b.applied = app.applied \union {e} /\ b.late = app.late
  BY <1>2, <1>5 DEF App
<1>8. b.stage \in Early => b.used \subseteq b.applied \union Range(b.deferred)
  <2> SUFFICES ASSUME app.stage \in Early PROVE b.used \subseteq b.applied \union Range(b.deferred)
    BY <1>7
  <2>1. app.used \subseteq app.applied \union Range(app.deferred)
    BY DEF Course
  <2> QED
    BY <1>4, <1>7, <2>1
<1>9. b.stage \in Starting \/ b.server => b.used \subseteq b.applied \union b.late
  <2> SUFFICES ASSUME app.stage \in Starting \/ app.server
               PROVE  b.used \subseteq b.applied \union b.late
    BY <1>7
  <2>1. app.used \subseteq app.applied \union app.late /\ ~ (app.stage \in Early)
    BY DEF Course, Early, Starting, Systems
  <2>2. l = app.late \union {e}
    BY <1>1, <2>1 DEF ListAhead, Early
  <2> QED
    BY <1>7, <2>1, <2>2
<1>10. Course(b)
  BY <1>7, <1>8, <1>9 DEF Course
<1>11. Course(app)'
  BY <1>1, <1>2, <1>10 DEF Course
<1> QED
  BY <1>1, <1>2, <1>6, <1>7, <1>11 DEF AppTypeOK

\* bootstrap() ends.
LEMMA BootstrapFlows ==
  ASSUME AppTypeOK, Course(app), app.stage \in Early, NEW throwing, Bootstrap(throwing),
         budget' \in Nat
  PROVE  AppTypeOK' /\ Course(app)' /\ app'.stage \in {"subscribing", "failed"} /\ ~ app'.server
         /\ (app'.stage = "subscribing" => Wired(throwing).out = "ok")
<1>1. PICK b, ap, stage :
        /\ b = app' /\ ap = app.applied \cup Range(app.deferred)
        /\ stage = IF Wired(throwing).out = "ok" THEN "subscribing" ELSE "failed"
  OBVIOUS
<1>2. app \in App /\ wiring' = wiring
  BY DEF Bootstrap, AppTypeOK
<1>3. b = [app EXCEPT !.applied = ap, !.phase = "bootstrapped", !.stage = stage]
  BY <1>1 DEF Bootstrap
<1>4. ap \in SUBSET Extensions /\ stage \in {"subscribing", "failed"}
  <2>1. app.deferred \in Seq(Extensions) /\ app.applied \in SUBSET Extensions
    BY <1>2, AppFields
  <2>2. Range(app.deferred) \subseteq Extensions
    BY <2>1 DEF Range
  <2> QED
    BY <1>1, <2>1, <2>2
<1>5. b \in App
  BY <1>2, <1>3, <1>4 DEF App, Stages, Starting
<1>6. /\ b.stage = stage /\ b.server = app.server /\ b.work = app.work /\ b.shutting = app.shutting
      /\ b.waiting = app.waiting /\ b.handlers = app.handlers /\ b.up = app.up
      /\ b.forced = app.forced /\ b.used = app.used /\ b.applied = ap /\ b.late = app.late
  BY <1>2, <1>3 DEF App
<1>7. /\ ~ app.server /\ app.work = "none" /\ ~ app.shutting /\ ~ app.waiting /\ ~ app.handlers
      /\ app.up = {} /\ app.used \subseteq ap
  BY <1>1 DEF Course, Early, UpTo
<1>8. Course(b)
  BY <1>4, <1>6, <1>7 DEF Course, UpTo, Early
<1>9. Course(app)'
  BY <1>1, <1>2, <1>8 DEF Course
<1> QED
  BY <1>1, <1>2, <1>4, <1>5, <1>6, <1>7, <1>9 DEF AppTypeOK

\* listen() waits for the config.
LEMMA ConfigFlows ==
  ASSUME AppTypeOK, Course(app), app.stage = "created", app' = [app EXCEPT !.stage = "config"],
         UNCHANGED <<wiring, budget>>
  PROVE  AppTypeOK' /\ Course(app)' /\ app'.stage = "config"
<1>1. PICK b : b = app'
  OBVIOUS
<1>2. app \in App /\ b = [app EXCEPT !.stage = "config"]
  BY <1>1 DEF AppTypeOK
<1>3. b \in App
  BY <1>2 DEF App, Stages, Early
<1>4. /\ b.stage = "config" /\ b.server = app.server /\ b.work = app.work /\ b.shutting = app.shutting
      /\ b.waiting = app.waiting /\ b.handlers = app.handlers /\ b.up = app.up
      /\ b.forced = app.forced /\ b.used = app.used /\ b.applied = app.applied /\ b.late = app.late
      /\ b.deferred = app.deferred
  BY <1>2 DEF App
<1>5. Course(b)
  BY <1>4 DEF Course, UpTo, Early, Starting, Systems
<1>6. Course(app)'
  BY <1>1, <1>5 DEF Course
<1> QED
  BY <1>1, <1>3, <1>4, <1>6 DEF AppTypeOK

\* listen() ends with an error.
LEMMA FailingFlows ==
  ASSUME AppTypeOK, Course(app), ListenFails
  PROVE  AppTypeOK' /\ Course(app)' /\ app'.stage = "failed" /\ app'.server = app.server
         /\ (app.stage \in Starting => ~ app.server)
<1>1. PICK b : b = app'
  OBVIOUS
<1>2. /\ app \in App /\ b = [app EXCEPT !.stage = "failed"] /\ wiring' = wiring /\ budget' \in Nat
      /\ app.stage \in {"config", "subscribing", "startup", "ready"} \cup Systems
  BY <1>1 DEF AppTypeOK, ListenFails, Spend
<1>3. b \in App
  BY <1>2 DEF App, Stages
<1>4. /\ b.stage = "failed" /\ b.server = app.server /\ b.work = app.work /\ b.shutting = app.shutting
      /\ b.waiting = app.waiting /\ b.handlers = app.handlers /\ b.up = app.up
      /\ b.forced = app.forced /\ b.used = app.used /\ b.applied = app.applied /\ b.late = app.late
  BY <1>2 DEF App
<1>5. Course(b)
  BY <1>4 DEF Course, Early, Starting, Systems
<1>6. Course(app)'
  BY <1>1, <1>2, <1>5 DEF Course
<1> QED
  BY <1>1, <1>2, <1>3, <1>4, <1>6 DEF AppTypeOK, Course

\* The startup hooks begin.
LEMMA SubscribedFlows ==
  ASSUME AppTypeOK, Course(app), Subscribed
  PROVE  AppTypeOK' /\ Course(app)' /\ app'.stage \in Starting /\ app.stage = "subscribing"
         /\ ~ app'.server
<1>1. PICK b, stage : b = app' /\ stage = IF StartupHooks = 0 THEN "events" ELSE "startup"
  OBVIOUS
<1>2. /\ app \in App /\ wiring' = wiring /\ budget' = budget /\ app.stage = "subscribing"
      /\ b = [app EXCEPT !.stage = stage, !.hook = StartupHooks, !.phase = "starting"]
  BY <1>1 DEF AppTypeOK, Subscribed, StartSystems
<1>3. StartupHooks \in Nat /\ stage \in {"events", "startup"} /\ (stage = "startup" => StartupHooks > 0)
  BY <1>1, ApplicationAssumption
<1>4. b \in App
  BY <1>2, <1>3 DEF App, Stages, Starting, Systems
<1>5. /\ b.stage = stage /\ b.server = app.server /\ b.work = app.work /\ b.shutting = app.shutting
      /\ b.waiting = app.waiting /\ b.handlers = app.handlers /\ b.up = app.up
      /\ b.forced = app.forced /\ b.used = app.used /\ b.applied = app.applied /\ b.late = app.late
      /\ b.hook = StartupHooks
  BY <1>2 DEF App
<1>6. Course(b)
  BY <1>2, <1>3, <1>5 DEF Course, UpTo, Early, Starting, Systems
<1>7. Course(app)'
  BY <1>1, <1>2, <1>6 DEF Course
<1> QED
  BY <1>1, <1>2, <1>3, <1>4, <1>5, <1>6, <1>7 DEF AppTypeOK, Course, Starting, Systems

\* A startup hook ends.
LEMMA StartupFlows ==
  ASSUME AppTypeOK, Course(app), StartupHook
  PROVE  AppTypeOK' /\ Course(app)' /\ app'.stage \in {"events", "startup"} /\ app.stage = "startup"
         /\ ~ app'.server
<1>1. PICK b, stage, hook : b = app' /\ stage = (IF app.hook = 1 THEN "events" ELSE "startup")
                            /\ hook = app.hook - 1
  OBVIOUS
<1>2. /\ app \in App /\ wiring' = wiring /\ budget' = budget /\ app.stage = "startup"
      /\ b = [app EXCEPT !.stage = stage, !.hook = hook]
  BY <1>1 DEF AppTypeOK, StartupHook
<1>3. hook \in Nat /\ stage \in {"events", "startup"} /\ (stage = "startup" => hook > 0)
  <2>1. app.hook \in Nat /\ app.hook > 0
    BY <1>2, AppFields DEF Course
  <2> QED
    BY <1>1, <2>1
<1>4. b \in App
  BY <1>2, <1>3 DEF App, Stages, Starting, Systems
<1>5. /\ b.stage = stage /\ b.server = app.server /\ b.work = app.work /\ b.shutting = app.shutting
      /\ b.waiting = app.waiting /\ b.handlers = app.handlers /\ b.up = app.up
      /\ b.forced = app.forced /\ b.used = app.used /\ b.applied = app.applied /\ b.late = app.late
      /\ b.hook = hook
  BY <1>2 DEF App
<1>6. Course(b)
  BY <1>2, <1>3, <1>5 DEF Course, UpTo, Early, Starting, Systems
<1>7. Course(app)'
  BY <1>1, <1>2, <1>6 DEF Course
<1> QED
  BY <1>1, <1>2, <1>3, <1>4, <1>5, <1>6, <1>7 DEF AppTypeOK, Course, Starting, Systems

\* A system has started.
LEMMA StartedFlows ==
  ASSUME AppTypeOK, Course(app), NEW sys \in Systems, Started(sys)
  PROVE  /\ AppTypeOK' /\ Course(app)' /\ app.stage \in Systems
         /\ app'.stage \in Systems \union {"ready"}
         /\ ~ app.server
<1>1. PICK b, stage, up, server :
        /\ b = app' /\ stage = IF After(sys) = "end" THEN "ready" ELSE After(sys)
        /\ up = app.up \union ({sys} \intersect wiring.uses)
        /\ server = (After(sys) = "end")
  OBVIOUS
<1>2. /\ app \in App /\ wiring' = wiring /\ budget' = budget /\ app.stage = sys
      /\ b = [[app EXCEPT !.up = @ \cup ({sys} \cap wiring.uses)] EXCEPT
               !.stage = stage, !.hook = ReadyHooks, !.server = server]
  BY <1>1 DEF AppTypeOK, Started, ProviderStarts
<1>a. b = [app EXCEPT !.up = up, !.stage = stage, !.hook = ReadyHooks, !.server = server]
  <2>1. PICK s, h, p, d, ap, us, la, u, sv, ha, wa, sh, wo, to, fo, pr :
          app = [stage |-> s, hook |-> h, phase |-> p, deferred |-> d, applied |-> ap, used |-> us, late |-> la,
                 up |-> u, server |-> sv, handlers |-> ha, waiting |-> wa, shutting |-> sh,
                 work |-> wo, todo |-> to, forced |-> fo, process |-> pr]
    BY <1>2 DEF App
  <2>2. [app EXCEPT !.up = @ \cup ({sys} \cap wiring.uses)] = [app EXCEPT !.up = up]
    BY <1>1
  <2> QED
    BY ONLY <1>2, <2>1, <2>2
<1>3. /\ ReadyHooks \in Nat /\ stage \in {"workflows", "websocket", "ready"} /\ up \in SUBSET Systems
      /\ server \in BOOLEAN /\ wiring.uses \subseteq Systems
  <2>1. app.up \in SUBSET Systems
    BY <1>2, AppFields
  <2>2. ReadyHooks \in Nat
    BY ApplicationAssumption
  <2>3. wiring.uses \subseteq Systems
    BY WiringType DEF AppTypeOK
  <2> QED
    BY <1>1, <2>1, <2>2, <2>3 DEF After, Systems
<1>4. b \in App
  <2>1. stage \in Stages
    BY <1>3 DEF Stages, Starting, Systems
  <2> QED
    BY ONLY <1>2, <1>3, <1>a, <2>1 DEF App
<1>5. /\ b.stage = stage /\ b.server = server /\ b.work = app.work /\ b.shutting = app.shutting
      /\ b.waiting = app.waiting /\ b.handlers = app.handlers /\ b.up = up
      /\ b.forced = app.forced /\ b.used = app.used /\ b.applied = app.applied /\ b.late = app.late
  BY <1>2, <1>a DEF App
<1>6. /\ ~ app.server /\ app.work = "none" /\ ~ app.shutting /\ ~ app.waiting /\ ~ app.handlers
      /\ app.up = UpTo(sys) \intersect wiring.uses /\ app.used \subseteq app.applied \union app.late
  BY <1>2 DEF Course, Starting
<1>7. ASSUME sys = "events" PROVE Course(b)
  <2>1. stage = "workflows" /\ ~ server /\ up = UpTo("workflows") \intersect wiring.uses
    BY <1>1, <1>6, <1>7 DEF After, UpTo
  <2>2. Course(b)
    BY <1>5, <1>6, <2>1 DEF Course, Early, Starting, Systems
  <2> QED
    BY <2>2
<1>8. ASSUME sys = "workflows" PROVE Course(b)
  <2>1. stage = "websocket" /\ ~ server /\ up = UpTo("websocket") \intersect wiring.uses
    BY <1>1, <1>6, <1>8 DEF After, UpTo
  <2>2. Course(b)
    BY <1>5, <1>6, <2>1 DEF Course, Early, Starting, Systems
  <2> QED
    BY <2>2
<1>9. ASSUME sys = "websocket" PROVE Course(b)
  <2>1. stage = "ready" /\ server /\ up = wiring.uses
    BY <1>1, <1>3, <1>6, <1>9 DEF After, UpTo, Systems
  <2>2. Course(b)
    BY <1>5, <1>6, <2>1 DEF Course, Early, Starting, Systems
  <2> QED
    BY <2>2
<1>10. Course(b)
  BY <1>7, <1>8, <1>9 DEF Systems
<1>11. Course(app)'
  BY <1>1, <1>2, <1>10 DEF Course
<1> QED
  BY <1>1, <1>2, <1>3, <1>4, <1>5, <1>6, <1>11 DEF AppTypeOK, Systems

\* The ready hooks, and the end of listen().
LEMMA ReadyFlows ==
  ASSUME AppTypeOK, Course(app), ReadyHook \/ Finalize
  PROVE  AppTypeOK' /\ Course(app)' /\ app'.stage \in {"ready", "listening"} /\ app'.server = app.server
<1>1. PICK b, hook, handling : b = app' /\ hook = app.hook - 1 /\ handling = wiring.handling
  OBVIOUS
<1>2. app \in App /\ wiring' = wiring /\ budget' = budget /\ app.stage = "ready" /\ handling \in BOOLEAN
  BY <1>1, WiringType DEF AppTypeOK, ReadyHook, Finalize
<1>3. CASE ReadyHook
  <2>1. b = [app EXCEPT !.hook = hook] /\ app.hook > 0 /\ app.hook \in Nat
    BY <1>1, <1>2, <1>3, AppFields DEF ReadyHook
  <2>2. hook \in Nat
    BY <1>1, <2>1
  <2>3. b \in App
    BY <1>2, <2>1, <2>2 DEF App
  <2>4. /\ b.stage = app.stage /\ b.server = app.server /\ b.work = app.work /\ b.shutting = app.shutting
        /\ b.waiting = app.waiting /\ b.handlers = app.handlers /\ b.up = app.up
        /\ b.forced = app.forced /\ b.used = app.used /\ b.applied = app.applied /\ b.late = app.late
    BY <1>2, <2>1 DEF App
  <2>5. Course(b)
    BY <1>2, <2>4 DEF Course, Early, Starting, Systems
  <2>6. Course(app)'
    BY <1>1, <1>2, <2>5 DEF Course
  <2> QED
    BY <1>1, <1>2, <2>3, <2>4, <2>6 DEF AppTypeOK
<1>4. CASE Finalize
  <2>1. b = [app EXCEPT !.handlers = handling, !.stage = "listening", !.phase = "ready"]
    <3>1. PICK s, h, p, d, ap, us, la, u, sv, ha, wa, sh, wo, to, fo, pr :
            app = [stage |-> s, hook |-> h, phase |-> p, deferred |-> d, applied |-> ap, used |-> us, late |-> la,
                   up |-> u, server |-> sv, handlers |-> ha, waiting |-> wa, shutting |-> sh,
                   work |-> wo, todo |-> to, forced |-> fo, process |-> pr]
      BY <1>2 DEF App
    <3>2. b = [[app EXCEPT !.handlers = handling] EXCEPT !.stage = "listening", !.phase = "ready"]
      BY <1>1, <1>4 DEF Finalize, RegisterSignalHandlers
    <3> QED
      BY ONLY <3>1, <3>2
  <2>2. b \in App
    BY <1>2, <2>1 DEF App, Stages
  <2>3. /\ b.stage = "listening" /\ b.server = app.server /\ b.work = app.work /\ b.shutting = app.shutting
        /\ b.waiting = app.waiting /\ b.up = app.up
        /\ b.forced = app.forced /\ b.used = app.used /\ b.applied = app.applied /\ b.late = app.late
    BY <1>2, <2>1 DEF App
  <2>4. Course(b)
    BY <1>2, <2>3 DEF Course, Early, Starting, Systems
  <2>5. Course(app)'
    BY <1>1, <1>2, <2>4 DEF Course
  <2> QED
    BY <1>1, <1>2, <2>2, <2>3, <2>5 DEF AppTypeOK
<1> QED
  BY <1>3, <1>4

\* stop() and the signal that calls it begin a shutdown.
LEMMA StopFlows ==
  ASSUME AppTypeOK, Course(app), Stop \/ Signal
  PROVE  AppTypeOK' /\ Course(app)' /\ app'.stage = app.stage /\ app'.server = app.server
<1>1. PICK b : b = app'
  OBVIOUS
<1>2. app \in App /\ wiring' = wiring /\ budget' \in Nat
  BY DEF AppTypeOK, Stop, Signal, Spend
<1>3. ShutdownHooks \in Nat
  BY ApplicationAssumption
<1>4. \/ Stops(app) /\ b = Stopping(app)
      \/ Stops(app) /\ app.handlers /\ b = [Stopping(app) EXCEPT !.waiting = TRUE]
      \/ ~ app.handlers /\ b = [app EXCEPT !.process = "killed"]
      \/ ~ Stops(app) /\ app.handlers /\ b = [app EXCEPT !.process = "exited"]
  BY <1>1 DEF Stop, Signal
<1>5. ASSUME Stops(app), \/ b = Stopping(app)
                         \/ app.handlers /\ b = [Stopping(app) EXCEPT !.waiting = TRUE]
      PROVE  b \in App /\ Course(b) /\ b.stage = app.stage /\ b.server = app.server
  <2>1. PICK s, h, p, d, ap, us, la, u, sv, ha, wa, sh, wo, to, fo, pr :
          app = [stage |-> s, hook |-> h, phase |-> p, deferred |-> d, applied |-> ap, used |-> us, late |-> la,
                 up |-> u, server |-> sv, handlers |-> ha, waiting |-> wa, shutting |-> sh,
                 work |-> wo, todo |-> to, forced |-> fo, process |-> pr]
    BY <1>2 DEF App
  <2>2. PICK waiting : b = [stage |-> s, hook |-> h, phase |-> "stopping", deferred |-> d,
                 applied |-> ap, used |-> us, late |-> la,
                 up |-> u, server |-> sv, handlers |-> ha, waiting |-> waiting, shutting |-> TRUE,
                 work |-> "hooks", todo |-> ShutdownHooks, forced |-> FALSE, process |-> pr]
                 /\ waiting \in BOOLEAN
    <3>1. PICK c : c = Stopping(app)
      OBVIOUS
    <3>2. c = [app EXCEPT !.shutting = TRUE, !.phase = "stopping", !.forced = FALSE,
                          !.work = "hooks", !.todo = ShutdownHooks]
      BY <3>1 DEF Stopping
    <3>3. c = [stage |-> s, hook |-> h, phase |-> "stopping", deferred |-> d,
                 applied |-> ap, used |-> us, late |-> la,
                 up |-> u, server |-> sv, handlers |-> ha, waiting |-> wa, shutting |-> TRUE,
                 work |-> "hooks", todo |-> ShutdownHooks, forced |-> FALSE, process |-> pr]
      BY ONLY <2>1, <3>2
    <3>4. wa \in BOOLEAN
      <4>1. app.waiting \in BOOLEAN /\ app.waiting = wa
        BY <1>2, <2>1, AppFields
      <4> QED
        BY <4>1
    <3>5. CASE b = c
      BY <3>3, <3>4, <3>5
    <3>6. CASE b = [c EXCEPT !.waiting = TRUE]
      BY <3>3, <3>6
    <3> QED
      BY <1>5, <3>1, <3>5, <3>6
  <2>3. /\ b.stage = app.stage /\ b.hook = app.hook /\ b.phase = "stopping"
        /\ b.deferred = app.deferred /\ b.applied = app.applied /\ b.used = app.used
        /\ b.late = app.late
        /\ b.up = app.up /\ b.server = app.server /\ b.handlers = app.handlers
        /\ b.waiting \in BOOLEAN /\ b.shutting = TRUE /\ b.work = "hooks"
        /\ b.todo = ShutdownHooks /\ b.forced = FALSE /\ b.process = app.process
    BY ONLY <2>1, <2>2
  <2>4. b = [stage |-> b.stage, hook |-> b.hook, phase |-> b.phase, deferred |-> b.deferred,
             applied |-> b.applied, used |-> b.used, late |-> b.late, up |-> b.up, server |-> b.server,
             handlers |-> b.handlers, waiting |-> b.waiting, shutting |-> b.shutting,
             work |-> b.work, todo |-> b.todo, forced |-> b.forced, process |-> b.process]
    BY ONLY <2>2
  <2>5. b \in App
    BY <1>2, <1>3, <2>3, <2>4, AppFields DEF App
  <2>6. app.server /\ ~ app.shutting
    BY <1>5 DEF Stops
  <2>7. app.stage \notin Early \union Starting /\ app.used \subseteq app.applied \union app.late
    BY <2>6 DEF Course
  <2>8. Course(b)
    BY <2>3, <2>6, <2>7 DEF Course, Starting, Systems
  <2> QED
    BY <2>3, <2>5, <2>8
<1>6. ASSUME \/ b = [app EXCEPT !.process = "killed"]
             \/ b = [app EXCEPT !.process = "exited"]
      PROVE  b \in App /\ Course(b) /\ b.stage = app.stage /\ b.server = app.server
  <2>1. b \in App
    BY <1>2, <1>6 DEF App
  <2>2. /\ b.stage = app.stage /\ b.server = app.server /\ b.work = app.work /\ b.shutting = app.shutting
        /\ b.waiting = app.waiting /\ b.up = app.up /\ b.hook = app.hook /\ b.handlers = app.handlers
        /\ b.forced = app.forced /\ b.used = app.used /\ b.applied = app.applied /\ b.late = app.late
        /\ b.deferred = app.deferred
    BY <1>2, <1>6 DEF App
  <2>3. Course(b)
    BY <2>2 DEF Course
  <2> QED
    BY <2>1, <2>2, <2>3
<1>7. b \in App /\ Course(b) /\ b.stage = app.stage /\ b.server = app.server
  BY <1>4, <1>5, <1>6
<1>8. Course(app)'
  BY <1>1, <1>2, <1>7 DEF Course
<1> QED
  BY <1>1, <1>2, <1>7, <1>8 DEF AppTypeOK

\* A shutdown hook ends.
LEMMA HookFlows ==
  ASSUME AppTypeOK, Course(app), ShutdownHook
  PROVE  AppTypeOK' /\ Course(app)' /\ app'.stage = app.stage /\ app'.server = app.server
<1>1. PICK b, todo : b = app' /\ todo = app.todo - 1
  OBVIOUS
<1>2. app \in App /\ wiring' = wiring /\ budget' = budget /\ app.work = "hooks"
  BY DEF AppTypeOK, ShutdownHook
<1>3. CASE app.todo > 1
  <2>1. b = [app EXCEPT !.todo = todo] /\ todo \in Nat
    BY <1>1, <1>2, <1>3, AppFields DEF ShutdownHook
  <2>2. b \in App
    BY <1>2, <2>1 DEF App
  <2>3. /\ b.stage = app.stage /\ b.server = app.server /\ b.work = app.work /\ b.shutting = app.shutting
        /\ b.waiting = app.waiting /\ b.up = app.up /\ b.hook = app.hook /\ b.handlers = app.handlers
        /\ b.forced = app.forced /\ b.used = app.used /\ b.applied = app.applied /\ b.late = app.late
        /\ b.deferred = app.deferred
    BY <1>2, <2>1 DEF App
  <2>4. Course(b)
    BY <2>3 DEF Course
  <2>5. Course(app)'
    BY <1>1, <1>2, <2>4 DEF Course
  <2> QED
    BY <1>1, <1>2, <2>2, <2>3, <2>5 DEF AppTypeOK
<1>4. CASE ~ (app.todo > 1)
  <2>1. b = [app EXCEPT !.todo = 0, !.work = "events", !.phase = "stopped"]
    BY <1>1, <1>4 DEF ShutdownHook
  <2>2. b \in App
    BY <1>2, <2>1 DEF App, Systems
  <2>3. /\ b.stage = app.stage /\ b.server = app.server /\ b.work = "events" /\ b.shutting = app.shutting
        /\ b.waiting = app.waiting /\ b.up = app.up /\ b.hook = app.hook /\ b.handlers = app.handlers
        /\ b.forced = app.forced /\ b.used = app.used /\ b.applied = app.applied /\ b.late = app.late
        /\ b.deferred = app.deferred
    BY <1>2, <2>1 DEF App
  <2>4. app.stage \notin Early \union Starting /\ (~ app.shutting => app.forced /\ ~ app.server)
    BY <1>2 DEF Course
  <2>5. Course(b)
    BY <1>2, <2>3, <2>4 DEF Course, Starting, Systems
  <2>6. Course(app)'
    BY <1>1, <1>2, <2>5 DEF Course
  <2> QED
    BY <1>1, <1>2, <2>2, <2>3, <2>6 DEF AppTypeOK
<1> QED
  BY <1>3, <1>4

\* The application with the shutdown at `work` and `up` running.
IsAt(a, work, up, b) ==
  /\ b \in App /\ b.work = work /\ b.up = up
  /\ b.stage = a.stage /\ b.server = a.server /\ b.shutting = a.shutting
  /\ b.waiting = a.waiting /\ b.hook = a.hook /\ b.handlers = a.handlers
  /\ b.forced = a.forced /\ b.used = a.used /\ b.applied = a.applied /\ b.late = a.late
  /\ b.deferred = a.deferred

LEMMA AtIs ==
  ASSUME NEW a \in App, NEW work \in {"done", "failed"} \union Systems, NEW sys
  PROVE  /\ IsAt(a, work, a.up \ {sys}, [ProviderStops(a, sys) EXCEPT !.work = work])
         /\ IsAt(a, work, a.up, [a EXCEPT !.work = work])
<1>1. PICK b, c, up : /\ b = [ProviderStops(a, sys) EXCEPT !.work = work]
                      /\ c = [a EXCEPT !.work = work] /\ up = a.up \ {sys}
  OBVIOUS
<1>2. c \in App
  BY <1>1 DEF App
<1>3. IsAt(a, work, a.up, c)
  BY <1>1, <1>2 DEF App, IsAt
<1>4. up \in SUBSET Systems
  BY <1>1, AppFields
<1>5. b = [a EXCEPT !.up = up, !.work = work]
  <2>1. PICK s, h, p, d, ap, us, la, u, sv, ha, wa, sh, wo, to, fo, pr :
          a = [stage |-> s, hook |-> h, phase |-> p, deferred |-> d, applied |-> ap, used |-> us, late |-> la,
               up |-> u, server |-> sv, handlers |-> ha, waiting |-> wa, shutting |-> sh,
               work |-> wo, todo |-> to, forced |-> fo, process |-> pr]
    BY DEF App
  <2>2. ProviderStops(a, sys) = [a EXCEPT !.up = up]
    BY <1>1 DEF ProviderStops
  <2>3. b = [[a EXCEPT !.up = up] EXCEPT !.work = work]
    BY <1>1, <2>2
  <2> QED
    BY ONLY <2>1, <2>3
<1>6. b \in App
  BY <1>4, <1>5 DEF App
<1>7. IsAt(a, work, up, b)
  BY <1>5, <1>6 DEF App, IsAt
<1> QED
  BY <1>1, <1>3, <1>7

\* The call of stop() is over.
IsEnded(a, b) ==
  /\ b \in App /\ ~ b.shutting /\ ~ b.server
  /\ b.stage = a.stage /\ b.work = a.work /\ b.up = a.up /\ b.waiting = a.waiting
  /\ b.hook = a.hook /\ b.forced = a.forced /\ b.used = a.used /\ b.applied = a.applied
  /\ b.late = a.late
  /\ b.deferred = a.deferred

LEMMA EndedIs ==
  ASSUME NEW a \in App
  PROVE  /\ IsEnded(a, Ended(a))
         /\ IsEnded([a EXCEPT !.forced = TRUE], Ended([a EXCEPT !.forced = TRUE]))
<1>1. ASSUME NEW c \in App PROVE IsEnded(c, Ended(c))
  <2>1. PICK b, process : /\ b = Ended(c)
                          /\ process = IF c.waiting THEN "exited" ELSE c.process
    OBVIOUS
  <2>2. process \in {"alive", "killed", "exited"}
    BY <2>1, AppFields
  <2>3. b = [c EXCEPT !.shutting = FALSE, !.handlers = FALSE, !.server = FALSE, !.process = process]
    BY <2>1 DEF Ended
  <2>4. b \in App
    BY <2>2, <2>3 DEF App
  <2>5. IsEnded(c, b)
    BY <2>3, <2>4 DEF App, IsEnded
  <2> QED
    BY <2>1, <2>5
<1>2. [a EXCEPT !.forced = TRUE] \in App
  BY DEF App
<1> QED
  BY <1>1, <1>2

\* The end of a shutdown that has come to `work`.
LEMMA WorkEndsFlows ==
  ASSUME AppTypeOK, Course(app), app.work \in Systems, NEW work \in {"done", "failed"}, NEW up,
         work = "done" => up = {},
         NEW c, IsAt(app, work, up, c), WorkEnds(c), UNCHANGED wiring, budget' \in Nat
  PROVE  AppTypeOK' /\ Course(app)' /\ app'.stage = app.stage /\ (app'.server => app.server)
<1>1. PICK b : b = app'
  OBVIOUS
<1>2. b = IF c.shutting THEN Ended(c) ELSE c
  BY <1>1 DEF WorkEnds
<1>3. app.stage \notin Early \union Starting
  BY DEF Course, Systems
<1>4. /\ c \in App /\ c.work = work /\ c.up = up /\ c.stage = app.stage
      /\ c.used = app.used /\ c.applied = app.applied /\ c.server = app.server
      /\ c.shutting = app.shutting
  BY DEF IsAt
<1>5. ~ app.shutting => ~ app.server
  BY DEF Course, Systems
<1>6. /\ b \in App /\ b.work = work /\ b.up = up /\ b.stage = app.stage
      /\ b.used = app.used /\ b.applied = app.applied /\ ~ b.server /\ ~ b.shutting
  <2>1. CASE c.shutting
    <3>1. IsEnded(c, b)
      BY <1>2, <1>4, <2>1, EndedIs
    <3> QED
      BY <1>4, <3>1 DEF IsEnded
  <2>2. CASE ~ c.shutting
    BY <1>2, <1>4, <1>5, <2>2
  <2> QED
    BY <2>1, <2>2
<1>7. Course(b)
  BY <1>3, <1>6 DEF Course, Early, Starting, Systems
<1>8. Course(app)'
  BY <1>1, <1>7 DEF Course
<1> QED
  BY <1>1, <1>6, <1>8 DEF AppTypeOK

\* A system has stopped, or would not.
LEMMA StoppedFlows ==
  ASSUME AppTypeOK, Course(app), NEW sys \in Systems, Stopped(sys) \/ StopFails(sys)
  PROVE  AppTypeOK' /\ Course(app)' /\ app'.stage = app.stage /\ (app'.server => app.server)
<1>1. app \in App /\ wiring' = wiring /\ budget' \in Nat /\ app.work = sys
  BY DEF AppTypeOK, Stopped, StopFails, Spend
<1>2. CASE StopFails(sys)
  <2>1. PICK c : c = [app EXCEPT !.work = "failed"]
    OBVIOUS
  <2>2. IsAt(app, "failed", app.up, c)
    BY <1>1, <2>1, AtIs
  <2>3. WorkEnds(c)
    BY <1>2, <2>1 DEF StopFails
  <2> QED
    BY <1>1, <2>2, <2>3, WorkEndsFlows
<1>3. CASE Stopped(sys) /\ After(sys) = "end"
  <2>1. PICK c : c = [ProviderStops(app, sys) EXCEPT !.work = "done"]
    OBVIOUS
  <2>2. IsAt(app, "done", app.up \ {sys}, c)
    BY <1>1, <2>1, AtIs
  <2>3. WorkEnds(c)
    BY <1>3, <2>1 DEF Stopped
  <2>4. app.up \ {sys} = {}
    <3>1. sys = "websocket"
      BY <1>3 DEF After, Systems
    <3> QED
      BY <1>1, <3>1 DEF Course
  <2> QED
    BY <1>1, <2>2, <2>3, <2>4, WorkEndsFlows
<1>4. CASE Stopped(sys) /\ After(sys) # "end"
  <2>1. PICK b, next, up : b = app' /\ next = After(sys) /\ up = app.up \ {sys}
    OBVIOUS
  <2>2. b = [ProviderStops(app, sys) EXCEPT !.work = next] /\ budget' = budget
    BY <1>4, <2>1 DEF Stopped
  <2>3. \/ sys = "events" /\ next = "workflows"
        \/ sys = "workflows" /\ next = "websocket"
    BY <1>4, <2>1 DEF After, Systems
  <2>4. next \in {"done", "failed"} \union Systems
    BY <2>3 DEF Systems
  <2>5. IsAt(app, next, up, b)
    <3>1. IsAt(app, next, app.up \ {sys}, [ProviderStops(app, sys) EXCEPT !.work = next])
      BY ONLY <1>1, <2>4, AtIs
    <3>2. b = [ProviderStops(app, sys) EXCEPT !.work = next] /\ up = app.up \ {sys}
      BY <2>1, <2>2
    <3> QED
      BY ONLY <3>1, <3>2
  <2>6. /\ b \in App /\ b.work = next /\ b.up = up
        /\ b.stage = app.stage /\ b.server = app.server /\ b.shutting = app.shutting
        /\ b.forced = app.forced /\ b.used = app.used /\ b.applied = app.applied /\ b.late = app.late
    BY <2>5 DEF IsAt
  <2>7. /\ app.stage \notin Early \union Starting /\ (~ app.shutting => app.forced /\ ~ app.server)
        /\ app.up \subseteq Systems /\ (app.work = "workflows" => "events" \notin app.up)
        /\ (app.server => app.used \subseteq app.applied \union app.late) /\ (app.shutting => app.server)
    BY <1>1, AppFields DEF Course, Systems
  <2>8. /\ next = "workflows" => "events" \notin up
        /\ next = "websocket" => up \subseteq {"websocket"}
    BY <1>1, <2>1, <2>3, <2>7 DEF Systems
  <2>9. Course(b)
    BY <2>3, <2>6, <2>7, <2>8 DEF Course, Early, Starting, Systems
  <2>10. Course(app)'
    BY <1>1, <2>1, <2>9 DEF Course
  <2> QED
    BY <1>1, <2>1, <2>2, <2>6, <2>10 DEF AppTypeOK
<1> QED
  BY <1>2, <1>3, <1>4

\* The shutdown takes too long.
LEMMA TimeoutFlows ==
  ASSUME AppTypeOK, Course(app), Timeout
  PROVE  AppTypeOK' /\ Course(app)' /\ app'.stage = app.stage /\ (app'.server => app.server)
<1>1. PICK b, c : b = app' /\ c = [app EXCEPT !.forced = TRUE]
  OBVIOUS
<1>2. app \in App /\ wiring' = wiring /\ budget' = budget /\ app.shutting /\ b = Ended(c)
  BY <1>1 DEF AppTypeOK, Timeout
<1>3. IsEnded(c, b)
  BY <1>1, <1>2, EndedIs
<1>4. /\ c.forced /\ c.stage = app.stage /\ c.work = app.work /\ c.up = app.up
      /\ c.used = app.used /\ c.applied = app.applied
  BY <1>1, <1>2 DEF App
<1>5. /\ b \in App /\ b.work = app.work /\ b.up = app.up /\ b.stage = app.stage
      /\ b.used = app.used /\ b.applied = app.applied /\ ~ b.server /\ ~ b.shutting /\ b.forced
  BY <1>3, <1>4 DEF IsEnded
<1>6. app.server /\ app.stage \notin Early \union Starting /\ app.work # "none"
  BY <1>2 DEF Course, Systems
<1>7. Course(b)
  BY <1>5, <1>6 DEF Course, Early, Starting, Systems
<1>8. Course(app)'
  <2>1. b = app' /\ wiring' = wiring
    BY <1>1, <1>2
  <2> QED
    BY ONLY <1>7, <2>1 DEF Course
<1> QED
  BY <1>1, <1>2, <1>5, <1>8 DEF AppTypeOK

-----------------------------------------------------------------------------
(* The whole invariant. *)

\* What the validator says depends on the wiring only.
LEMMA SameValidation ==
  ASSUME wiring' = wiring
  PROVE  Validates(Fresh)' = Validates(Fresh) /\ Fresh' = Fresh
BY DEF Validates, Fresh, RegisterProviders, RegisterInstance, Register, Extended, Empty, Idle,
       Missing, Short, Checked, Circular

LEMMA ReadyLasts ==
  ASSUME UNCHANGED wiring, Ready(di), Grown(di, di')
  PROVE  Ready(di)'
BY DEF Ready, Grown

LEMMA RegisteredLasts ==
  ASSUME UNCHANGED wiring, Registered(di), Grown(di, di')
  PROVE  Registered(di)'
<1>1. Fresh' = Fresh
  BY SameValidation
<1> QED
  BY <1>1 DEF Registered, Grown

LEMMA InitHolds ==
  ASSUME AppInit
  PROVE  AppInv
<1>1. wiring \in Wirings /\ di = Empty /\ budget = wiring.budget /\ asked = Unasked
  BY DEF AppInit, Unasked
<1>2. budget \in Nat
  BY <1>1, WiringType
<1>3. << >> \in Seq(Extensions) /\ {} \in SUBSET Extensions /\ {} \in SUBSET Systems
  OBVIOUS
<1>4. app \in App
  BY <1>3 DEF AppInit, App, Stages, Early
<1>5. Course(app)
  BY DEF AppInit, Course, UpTo, Early, Starting, Systems
<1>6. DiOK(di)
  <2>1. PICK st, none : st = di /\ none = << >>
    OBVIOUS
  <2>2. st = [registry |-> none, instances |-> {}, resolving |-> {},
              frames |-> [s \in Services |-> Idle], built |-> [s \in Services |-> 0],
              wasted |-> {}]
    BY <1>1, <2>1 DEF Empty
  <2>3. /\ st.registry = none /\ st.instances = {} /\ st.resolving = {}
        /\ st.frames = [s \in Services |-> Idle] /\ st.built = [s \in Services |-> 0]
        /\ st.wasted = {}
    BY ONLY <2>2
  <2>4. st = [registry |-> st.registry, instances |-> st.instances, resolving |-> st.resolving,
              frames |-> st.frames, built |-> st.built, wasted |-> st.wasted]
    BY ONLY <2>2, <2>3
  <2>5. Registry(none)
    BY <2>1 DEF Registry
  <2>6. Idle \in Frames /\ Idle.at = "none" /\ Idle.left = {}
    BY DEF Idle, Frames
  <2>7. IsContainer(st)
    BY <2>3, <2>4, <2>5, <2>6 DEF IsContainer, Holds
  <2>8. Alive(st.instances, st)
    BY <2>3, <2>6 DEF Alive
  <2>9. OnceBuilt(st)
    BY <2>3 DEF OnceBuilt
  <2> QED
    BY <2>1, <2>7, <2>8, <2>9 DEF DiOK
<1>7. PICK valid : valid = Validates(Fresh)
  OBVIOUS
<1>8. AskedOK(di, asked, valid)
  BY <1>1 DEF AskedOK, Unasked, Asks
<1>9. Filled(app)
  <2>1. app.stage = "created" /\ ~ app.server /\ di.wasted = {}
    BY <1>1 DEF AppInit, Empty
  <2> QED
    BY <1>1, <2>1 DEF Filled, Early, Starting, Systems
<1> QED
  BY <1>1, <1>2, <1>4, <1>5, <1>6, <1>7, <1>8, <1>9 DEF AppInv, AppTypeOK

\* A step that leaves the container alone and has listen() no further than it was, as far
\* as the container is concerned.
LEMMA ContainerRests ==
  ASSUME AppInv, UNCHANGED <<di, wiring, asked>>, AppTypeOK', Course(app)',
         app'.stage \in Early => app.stage \in Early,
         app'.stage \in {"subscribing", "startup"} => app.stage \in {"subscribing", "startup"},
         app'.stage \in Starting \/ app'.server => app.stage \in Starting \/ app.server
  PROVE  AppInv'
<1>1. PICK valid : valid = Validates(Fresh)
  OBVIOUS
<1>2. Validates(Fresh)' = valid /\ Fresh' = Fresh
  BY <1>1, SameValidation
<1>3. DiOK(di) /\ AskedOK(di, asked, valid) /\ Filled(app)
  BY <1>1 DEF AppInv
<1>4. DiOK(di)'
  BY <1>3 DEF DiOK, IsContainer, Holds, Registry, Alive, OnceBuilt
<1>5. AskedOK(di, asked, Validates(Fresh))'
  BY <1>2, <1>3 DEF AskedOK, Asks, Pure
<1>6. Filled(app)'
  <2>1. Ready(di) => Ready(di)'
    BY DEF Ready
  <2>2. Registered(di) => Registered(di)'
    BY <1>2 DEF Registered
  <2> QED
    BY <1>3, <2>1, <2>2 DEF Filled
<1> QED
  BY <1>4, <1>5, <1>6 DEF AppInv

\* A step of the container that leaves the application alone.
LEMMA ContainerMoves ==
  ASSUME AppInv, UNCHANGED <<wiring, app>>, budget' \in Nat, app.stage \notin Early,
         NEW valid, valid = Validates(Fresh),
         DiOK(di'), AskedOK(di', asked', valid), Grown(di, di')
  PROVE  AppInv'
<1>1. Validates(Fresh)' = valid /\ Fresh' = Fresh
  BY SameValidation
<1>2. AppTypeOK' /\ Course(app)'
  BY DEF AppInv, AppTypeOK, Course
<1>3. DiOK(di)'
  BY DEF DiOK, IsContainer, Holds, Registry, Alive, OnceBuilt
<1>4. AskedOK(di, asked, Validates(Fresh))'
  BY <1>1 DEF AskedOK, Asks, Pure
<1>5. Filled(app)'
  <2>1. Filled(app)
    BY DEF AppInv
  <2>2. Ready(di) => Ready(di)'
    BY ReadyLasts
  <2>3. Registered(di) => Registered(di)'
    BY RegisteredLasts
  <2> QED
    BY <2>1, <2>2, <2>3 DEF Filled, Grown
<1> QED
  BY <1>2, <1>3, <1>4, <1>5 DEF AppInv

\* bootstrap() fills the container.
LEMMA BootstrapHolds ==
  ASSUME AppInv, app.stage \in Early, NEW throwing, Bootstrap(throwing), budget' \in Nat
  PROVE  AppInv'
<1>1. PICK valid, wired : valid = Validates(Fresh) /\ wired = Wired(throwing)
  OBVIOUS
<1>2. Validates(Fresh)' = valid /\ Fresh' = Fresh /\ wiring' = wiring
  BY <1>1, SameValidation DEF Bootstrap
<1>3. AppTypeOK' /\ Course(app)' /\ app'.stage \in {"subscribing", "failed"} /\ ~ app'.server
      /\ (app'.stage = "subscribing" => wired.out = "ok")
  BY <1>1, BootstrapFlows DEF AppInv
<1>4. di = Empty /\ asked = Unasked /\ wiring \in Wirings
  BY DEF AppInv, Filled, AppTypeOK
<1>5. IsWired(wired)
  BY <1>1, <1>4, WiredIs
<1>6. di' = wired.st /\ asked' = Unasked
  BY <1>1, <1>4 DEF Bootstrap
<1>7. /\ DiOK(di') /\ (wired.out = "ok" => Registered(di') /\ Ready(di'))
      /\ di'.wasted \subseteq wiring.async
  BY <1>5, <1>6 DEF IsWired
<1>8. DiOK(di)'
  BY <1>7 DEF DiOK, IsContainer, Holds, Registry, Alive, OnceBuilt
<1>9. AskedOK(di, asked, Validates(Fresh))'
  BY <1>6 DEF AskedOK, Unasked, Asks
<1>10. Filled(app)'
  <2>1. Registered(di') => Registered(di)'
    BY <1>2 DEF Registered
  <2>2. Ready(di') => Ready(di)'
    BY <1>2 DEF Ready
  <2> QED
    BY <1>2, <1>3, <1>7, <2>1, <2>2 DEF Filled, Early, Starting, Systems
<1> QED
  BY <1>3, <1>8, <1>9, <1>10 DEF AppInv

\* Before bootstrap() no resolution is under way.
LEMMA NoneAlive ==
  ASSUME AppInv, app.stage \in Early
  PROVE  ~ ResolutionStep /\ ~ \E s \in Services : ConstructorFails(s)
<1>1. \A s \in Services : di.frames[s].at = "none"
  <2>1. di = Empty
    BY DEF AppInv, Filled
  <2>2. Empty.frames = [s \in Services |-> Idle] /\ Idle.at = "none"
    BY DEF Empty, Idle
  <2> QED
    BY <2>1, <2>2
<1> QED
  BY <1>1 DEF ResolutionStep, Rejected, Construct, Constructed, ConstructorFails

\* Steps of resolutions, at any time.
LEMMA ResolvingHolds ==
  ASSUME AppInv, Resolving
  PROVE  AppInv'
<1>1. PICK valid : valid = Validates(Fresh)
  OBVIOUS
<1>2. /\ ResolutionStep \/ \E s \in Services : ConstructorFails(s)
      /\ budget' \in Nat /\ UNCHANGED <<wiring, app>>
  BY DEF Resolving, Spend, AppInv, AppTypeOK
<1>3. app.stage \notin Early
  BY <1>2, NoneAlive
<1>4. DiOK(di) /\ AskedOK(di, asked, valid)
  BY <1>1 DEF AppInv
<1>5. DiOK(di') /\ AskedOK(di', asked', valid) /\ Grown(di, di')
  BY <1>2, <1>4, ResolutionKeeps
<1> QED
  BY <1>1, <1>2, <1>3, <1>5, ContainerMoves

\* Code that was given the context calls resolve().
LEMMA SyncKeeps ==
  ASSUME NEW valid, DiOK(di), AskedOK(di, asked, valid), NEW s \in Services,
         di' = Resolve(di, <<s>>, Ends({})).st, UNCHANGED asked
  PROVE  DiOK(di') /\ AskedOK(di', asked', valid) /\ Grown(di, di')
<1>1. PICK st, keys, ends, done : /\ st = di /\ keys = <<s>> /\ ends = Ends({})
                                  /\ done = Resolve(st, keys, ends)
  OBVIOUS
<1>2. keys \in Seq(Keys) /\ ends \in Endings /\ OnlyAsync(ends) /\ DiOK(st)
  BY <1>1, EndsType DEF Keys
<1>3. IsResolved(st, keys, done)
  BY <1>1, <1>2, ResolveKeeps
<1>4. PICK to : to = done.st
  OBVIOUS
<1>5. DiOK(to) /\ Grown(st, to) /\ to.resolving = st.resolving /\ to.frames = st.frames
  BY <1>3, <1>4 DEF IsResolved
<1>6. \A x \in Services : Pure(st, x) => Pure(to, x)
  BY <1>5 DEF Pure
<1>7. AskedOK(to, asked, valid)
  BY <1>1, <1>6 DEF AskedOK
<1> QED
  BY <1>1, <1>4, <1>5, <1>7

\* A startup hook resolves a service.
LEMMA HookHolds ==
  ASSUME AppInv, NEW s \in DOMAIN wiring.deps, HookResolves(s)
  PROVE  AppInv'
<1>1. PICK valid : valid = Validates(Fresh)
  OBVIOUS
<1>2. /\ app.stage = "startup" /\ budget' \in Nat /\ UNCHANGED <<wiring, app>>
      /\ ResolveAsync(s) \/ (di' = Resolve(di, <<s>>, Ends({})).st /\ UNCHANGED asked)
  BY DEF HookResolves, Spend, AppInv, AppTypeOK
<1>3. app.stage \notin Early /\ wiring \in Wirings
  BY <1>2 DEF Early, AppInv, AppTypeOK
<1>4. s \in Services
  BY <1>3, WiringType
<1>5. DiOK(di) /\ AskedOK(di, asked, valid) /\ Registered(di)
  BY <1>1, <1>2 DEF AppInv, Filled
<1>6. valid => Sound(di)
  BY <1>1, <1>3, <1>5, RegisteredSound
<1>7. DiOK(di') /\ AskedOK(di', asked', valid) /\ Grown(di, di')
  BY <1>2, <1>4, <1>5, <1>6, ResolveAsyncKeeps, SyncKeeps
<1> QED
  BY <1>1, <1>2, <1>3, <1>7, ContainerMoves

LEMMA UseHolds ==
  ASSUME AppInv, NEW e \in Extensions, Use(e)
  PROVE  AppInv'
<1>1. AppTypeOK' /\ Course(app)' /\ app'.stage = app.stage /\ app'.server = app.server
  BY UseFlows DEF AppInv
<1>2. UNCHANGED <<di, wiring, asked>>
  BY DEF Use
<1> QED
  BY <1>1, <1>2, ContainerRests

\* listen() up to its first await, and the end of the configuration factory.
LEMMA ListenHolds ==
  ASSUME AppInv, Listen \/ ConfigReady
  PROVE  AppInv'
<1>1. app.stage \in Early /\ AppTypeOK /\ Course(app)
  BY DEF Listen, ConfigReady, AppInv, Early
<1>2. ASSUME NEW throwing, Bootstrap(throwing), budget' \in Nat PROVE AppInv'
  BY <1>1, <1>2, BootstrapHolds
<1>3. CASE /\ app.stage = "created" /\ app' = [app EXCEPT !.stage = "config"]
           /\ UNCHANGED <<di, wiring, asked, budget>>
  <2>1. AppTypeOK' /\ Course(app)' /\ app'.stage = "config"
    BY <1>1, <1>3, ConfigFlows
  <2>2. app'.stage \in Early /\ app'.stage \notin Starting /\ ~ app'.server
        /\ app'.stage \notin {"subscribing", "startup"}
    BY <2>1 DEF Course, Early, Starting, Systems
  <2> QED
    BY <1>1, <1>3, <2>1, <2>2, ContainerRests
<1>4. UNCHANGED budget \/ Spend => budget' \in Nat
  BY <1>1 DEF AppTypeOK, Spend
<1>5. CASE Bootstrap({}) /\ UNCHANGED budget
  BY <1>2, <1>4, <1>5
<1>6. CASE Spend /\ \E s \in Services : Bootstrap({s})
  BY <1>2, <1>4, <1>6
<1> QED
  BY <1>3, <1>5, <1>6 DEF Listen, ConfigReady

LEMMA ListenFailsHolds ==
  ASSUME AppInv, ListenFails
  PROVE  AppInv'
<1>1. AppTypeOK' /\ Course(app)' /\ app'.stage = "failed" /\ app'.server = app.server
  BY FailingFlows DEF AppInv
<1>2. UNCHANGED <<di, wiring, asked>>
  BY DEF ListenFails
<1>3. app'.stage \notin Early \union Starting /\ app'.stage \notin {"subscribing", "startup"}
  BY <1>1 DEF Early, Starting, Systems
<1> QED
  BY <1>1, <1>2, <1>3, ContainerRests

\* The awaits of listen().
LEMMA StartHolds ==
  ASSUME AppInv, \/ Subscribed \/ StartupHook \/ ReadyHook \/ Finalize
                 \/ \E sys \in Systems : Started(sys)
  PROVE  AppInv'
<1>0. UNCHANGED <<di, wiring, asked>>
  BY DEF Subscribed, StartupHook, ReadyHook, Finalize, Started
<1>1. CASE Subscribed
  <2>1. AppTypeOK' /\ Course(app)' /\ app'.stage \in Starting /\ app.stage = "subscribing"
    BY <1>1, SubscribedFlows DEF AppInv
  <2>2. app'.stage \notin Early /\ app.stage \in Starting
    BY <2>1 DEF Early, Starting, Systems
  <2> QED
    BY <1>0, <2>1, <2>2, ContainerRests
<1>2. CASE StartupHook
  <2>1. AppTypeOK' /\ Course(app)' /\ app'.stage \in {"events", "startup"} /\ app.stage = "startup"
    BY <1>2, StartupFlows DEF AppInv
  <2>2. app'.stage \notin Early /\ app.stage \in Starting
    BY <2>1 DEF Early, Starting, Systems
  <2> QED
    BY <1>0, <2>1, <2>2, ContainerRests
<1>3. CASE ReadyHook \/ Finalize
  <2>1. AppTypeOK' /\ Course(app)' /\ app'.stage \in {"ready", "listening"} /\ app'.server = app.server
    BY <1>3, ReadyFlows DEF AppInv
  <2>2. app'.stage \notin Early \union Starting /\ app'.stage \notin {"subscribing", "startup"}
    BY <2>1 DEF Early, Starting, Systems
  <2> QED
    BY <1>0, <2>1, <2>2, ContainerRests
<1>4. CASE \E sys \in Systems : Started(sys)
  <2>1. AppTypeOK' /\ Course(app)' /\ app.stage \in Systems /\ app'.stage \in Systems \union {"ready"}
    BY <1>4, StartedFlows DEF AppInv
  <2>2. app'.stage \notin Early /\ app.stage \in Starting /\ app'.stage \notin {"subscribing", "startup"}
    BY <2>1 DEF Early, Starting, Systems
  <2> QED
    BY <1>0, <2>1, <2>2, ContainerRests
<1> QED
  BY <1>1, <1>2, <1>3, <1>4

\* Stop, signals, the shutdown and its timeout.
LEMMA StopHolds ==
  ASSUME AppInv, \/ Stop \/ Signal \/ ShutdownHook \/ Timeout
                 \/ \E sys \in Systems : Stopped(sys) \/ StopFails(sys)
  PROVE  AppInv'
<1>1. UNCHANGED <<di, wiring, asked>>
  BY DEF Stop, Signal, ShutdownHook, Timeout, Stopped, StopFails
<1>2. AppTypeOK' /\ Course(app)' /\ app'.stage = app.stage /\ (app'.server => app.server)
  BY StopFlows, HookFlows, TimeoutFlows, StoppedFlows DEF AppInv
<1> QED
  BY <1>1, <1>2, ContainerRests

\* Every step keeps the invariant.
LEMMA NextHolds ==
  ASSUME AppInv, AppNext \/ UNCHANGED appVars
  PROVE  AppInv'
<1>1. CASE UNCHANGED appVars
  <2>1. UNCHANGED <<di, wiring, asked, app, budget>>
    BY <1>1 DEF appVars
  <2>2. AppTypeOK' /\ Course(app)'
    BY <2>1 DEF AppInv, AppTypeOK, Course
  <2> QED
    BY <2>1, <2>2, ContainerRests
<1>2. CASE AppNext
  BY <1>2, UseHolds, ListenHolds, ListenFailsHolds, HookHolds, ResolvingHolds, StartHolds, StopHolds
     DEF AppNext, ListenStep
<1> QED
  BY <1>1, <1>2

\* The invariant holds in every behaviour: the container stays in order whatever resolutions
\* overlap, and listen(), stop(), signals and the timeout meet only as Course() says
\* (OriApplication,
\* LifecycleManager, Container).
THEOREM ApplicationInvariant == AppSpec => []AppInv
<1>1. AppInit => AppInv
  BY InitHolds
<1>2. AppInv /\ [AppNext]_appVars => AppInv'
  BY NextHolds
<1> QED
  BY <1>1, <1>2, PTL DEF AppSpec

\* Every reachable state of the application is well typed, for every wiring and budget
\* (OriApplication).
THEOREM ApplicationTypes == AppSpec => []AppTypeOK
<1>1. AppInv => AppTypeOK
  BY DEF AppInv
<1> QED
  BY <1>1, ApplicationInvariant, PTL

\* The validator accepts a graph exactly when resolve() can build each of its services; however
\* asynchronous resolutions overlap, a service is constructed once, but for those with an
\* asynchronous constructor that resolve() has run in vain, and one that nothing overlaps is
\* never refused as circular (DependencyValidator.validate, Container.resolve and resolveAsync).
THEOREM ContainerStaysSound == AppSpec => []ContainerIsSound
<1>1. ASSUME AppInv PROVE ContainerIsSound
  <2>1. ValidationIsExact
    BY <1>1, ValidatorIsExact DEF AppInv, AppTypeOK
  <2>2. Singletons
    <3>1. DiOK(di) /\ AskedOK(di, asked, Validates(Fresh))
      BY <1>1 DEF AppInv
    <3>2. \A s \in Services : di.built[s] <= 1
      BY <3>1 DEF DiOK, OnceBuilt
    <3>3. di.resolving = {s \in Services : di.frames[s].at # "none"}
      BY <3>1 DEF DiOK, Alive, IsContainer, Holds
    <3>4. \A s \in Services : asked[s].alone /\ Validates(Fresh) => asked[s].out # "circular"
      BY <3>1 DEF AskedOK
    <3>5. di.wasted \subseteq wiring.async
      BY <1>1 DEF AppInv, Filled
    <3> QED
      BY <3>2, <3>3, <3>4, <3>5 DEF Singletons
  <2> QED
    BY <2>1, <2>2 DEF ContainerIsSound
<1> QED
  BY <1>1, ApplicationInvariant, PTL

\* A server that is open is complete, but for extensions given to use() after the deferred ones
\* had run; a process does not go on half-started or half-stopped, and what shuts it down is a
\* call of stop() or a signal (OriApplication.listen, use and stop, LifecycleManager).
THEOREM StaysOrderly == AppSpec => []Orderly
<1>1. ASSUME AppInv PROVE Orderly
  <2>1. app \in App /\ Course(app) /\ Filled(app)
    BY <1>1 DEF AppInv, AppTypeOK
  <2>2. app.work \in {"none", "hooks", "done", "failed"} \union Systems /\ app.stage \in Stages
    BY <2>1, AppFields
  <2>3. ASSUME app.server, ~ app.shutting
        PROVE  /\ app.work = "none" /\ app.up = wiring.uses
               /\ app.used \subseteq app.applied \cup app.late
               /\ wiring.eager \cup {Controller} \subseteq di.instances
               /\ "events" \in wiring.uses => EventConsumer \in di.instances
               /\ "workflows" \in wiring.uses => WorkflowConsumer \in di.instances
    BY <2>1, <2>3 DEF Course, Filled, Ready
  <2>4. ASSUME app.up # {}, ~ app.server, app.stage \notin Systems, ~ Working, app.work # "failed"
        PROVE  app.stage = "failed" /\ app.work = "none"
    <3>1. app.work = "none"
      BY <2>1, <2>2, <2>4 DEF Working, Course
    <3>2. app.stage \notin Early \union {"subscribing", "startup"}
      BY <2>1, <2>4 DEF Course, UpTo, Early, Starting
    <3>3. app.stage \notin {"ready", "listening"}
      BY <2>1, <2>4, <3>1 DEF Course
    <3> QED
      BY <2>2, <2>4, <3>1, <3>2, <3>3 DEF Stages, Starting
  <2>5. Working => app.forced \/ app.shutting
    BY <2>1 DEF Course, Working
  <2> QED
    BY <2>3, <2>4, <2>5 DEF Orderly
<1> QED
  BY <1>1, ApplicationInvariant, PTL
=============================================================================
