---------------------------- MODULE RedisProofs -----------------------------
(***************************************************************************)
(* Proofs about the two parts that share state through Redis: the cache,   *)
(* and the topics of the WebSocket provider.                               *)
(*                                                                         *)
(* First what the keys of CacheKeys promise, for every registry and every  *)
(* call of dependsOn() that the builder accepts; then what the cache       *)
(* service promises on top of it (KeysMeet), for any number of processes,  *)
(* configs and updates and any lifetimes.  That nothing old is left but by *)
(* overlap is not inductive: an entry is deleted because it is found, so   *)
(* EntryOK keeps, for every entry that no invalidate() overlapped, that    *)
(* all of its meta keys have its name and outlive it, or that the process  *)
(* which stored it is still to write them.                                 *)
(*                                                                         *)
(* Then the topics.  Until the provider first stops, each topic is in one  *)
(* of four phases, and at most one command waits for an answer: the last   *)
(* one sent.  A topic that has sockets is either kept, or asked for, or    *)
(* will be asked for when its unsubscription is answered, or was given up. *)
(***************************************************************************)
EXTENDS CacheService, CacheKeys, RedisWs, SequenceTheorems, TLAPS

\* The parameters of a scope contain those of the scopes around it.
LEMMA ScopesNest ==
  ASSUME NEW s \in Scopes, NEW t \in Scopes, s <= t
  PROVE  ScopeParams(s) \subseteq ScopeParams(t)
<1>1. s \in Int /\ t \in Int
  BY RegistryAssumption DEF Scopes
<1>2. 1 .. s \subseteq 1 .. t
  BY <1>1
<1> QED
  BY <1>2 DEF ScopeParams

\* A dependency is on parameters that both sides have, whoever added it: the hierarchy, a
\* call of dependsOn() with parameters or one without. (buildDependsOn, dependsOn)
THEOREM DependenciesAreShared ==
  ASSUME NEW e \in Entities, NEW declared \in Declarations(e),
         NEW d \in DOMAIN Build(e, declared).dependsOn
  PROVE  /\ d \in Entities \ {e}
         /\ Build(e, declared).dependsOn[d] \subseteq EntityParams(e) \intersect EntityParams(d)
<1> DEFINE deps == DependsOn(e, declared)
<1>1. Build(e, declared).dependsOn = deps
  BY DEF Build
<1>2. d \in Hierarchy(e) \union DOMAIN declared
  BY <1>1 DEF DependsOn
<1>3. DOMAIN declared \subseteq Entities
  BY DEF Declarations
<1>4. \A f \in DOMAIN declared : MayDependOn(e, f, declared[f])
  BY DEF Declarations
<1>5. CASE d \in DOMAIN declared
  <2>1. deps[d] = DependencyParams(e, d, declared[d])
    BY <1>2, <1>5 DEF DependsOn
  <2>2. DependencyParams(e, d, declared[d]) \subseteq EntityParams(e) \intersect EntityParams(d)
    BY <1>4, <1>5 DEF DependencyParams, MayDependOn
  <2>3. d \in Entities \ {e}
    BY <1>3, <1>4, <1>5 DEF MayDependOn
  <2> QED
    BY <1>1, <2>1, <2>2, <2>3
<1>6. CASE d \notin DOMAIN declared
  <2>1. d \in Hierarchy(e)
    BY <1>2, <1>6
  <2>2. deps[d] = ScopeParams(ScopeOf[d])
    BY <1>2, <1>6 DEF DependsOn
  <2>3. d \in Entities \ {e} /\ ScopeOf[d] \in 1 .. ScopeOf[e]
    BY <2>1 DEF Hierarchy
  <2>4. ScopeOf[d] \in Scopes /\ ScopeOf[e] \in Scopes /\ ScopeOf[d] <= ScopeOf[e]
    BY <2>3, RegistryAssumption DEF Scopes
  <2>5. ScopeParams(ScopeOf[d]) \subseteq ScopeParams(ScopeOf[e])
    BY <2>4, ScopesNest
  <2> QED
    BY <1>1, <2>2, <2>3, <2>5 DEF EntityParams
<1> QED
  BY <1>5, <1>6

\* The cascade works whichever parameters the two sides are given: an entry of e is
\* written under the very meta key that invalidate(d) looks for in a process that knows
\* the config of e, when the two calls agree on the parameters the dependency is on.
\* (generateMetaKeys, addTrackedMetaKeys)
THEOREM CascadeKeysMeet ==
  ASSUME NEW e \in Entities, NEW declared \in Declarations(e),
         NEW Value,
         NEW P, EntityParams(e) \subseteq P, NEW p \in [P -> Value],
         NEW d \in Sources(Build(e, declared)),
         NEW Q, EntityParams(d) \subseteq Q, NEW q \in [Q -> Value],
         \A name \in Build(e, declared).dependsOn[d] : p[name] = q[name],
         NEW tags
  PROVE  EntryMetaKeys(Build(e, declared), p, tags)
           \intersect TrackedMetaKeys(d, q, Build(e, declared)) # {}
<1> DEFINE c == Build(e, declared)
           shared == c.dependsOn[d]
<1>1. d \in DOMAIN c.dependsOn
  BY DEF Sources
<1>2. shared \subseteq EntityParams(e) \intersect EntityParams(d)
  BY <1>1, DependenciesAreShared
<1>3. shared \intersect DOMAIN p = shared /\ shared \intersect DOMAIN q = shared
  BY <1>2
<1>4. Restrict(p, shared) = Restrict(q, shared)
  BY DEF Restrict
<1>5. SourceKey(c, d, p) = SourceKey(c, d, q)
  BY <1>3, <1>4 DEF SourceKey
<1>6. SourceKey(c, d, p) \in EntryMetaKeys(c, p, tags)
  BY DEF EntryMetaKeys
<1>7. SourceKey(c, d, q) \in TrackedMetaKeys(d, q, c)
  BY DEF TrackedMetaKeys
<1> QED
  BY <1>5, <1>6, <1>7

\* The same for an entity's own entries: invalidate(e), however many parameters it is
\* given beyond those of the scope, looks for the meta key of the config.
\* (generateConfigMetaKey, addTrackedMetaKeys)
THEOREM OwnKeysMeet ==
  ASSUME NEW e \in Entities, NEW declared \in Declarations(e),
         NEW Value,
         NEW P, EntityParams(e) \subseteq P, NEW p \in [P -> Value],
         NEW Q, ScopeParams(ScopeOf[e]) \subseteq Q, NEW q \in [Q -> Value],
         \A name \in ScopeParams(ScopeOf[e]) : p[name] = q[name],
         NEW tags
  PROVE  EntryMetaKeys(Build(e, declared), p, tags)
           \intersect TrackedMetaKeys(e, q, Build(e, declared)) # {}
<1> DEFINE c == Build(e, declared)
<1>1. c.entity = e /\ c.metaParams = ScopeParams(ScopeOf[e])
  BY DEF Build
<1>2. HasConfigMetaKey(c, q)
  BY <1>1 DEF HasConfigMetaKey
<1>3. Restrict(p, c.metaParams) = Restrict(q, c.metaParams)
  BY <1>1 DEF Restrict
<1>4. ConfigMetaKey(c, p) = ConfigMetaKey(c, q)
  BY <1>3 DEF ConfigMetaKey
<1>5. ConfigMetaKey(c, p) \in EntryMetaKeys(c, p, tags)
  BY DEF EntryMetaKeys
<1>6. ConfigMetaKey(c, q) \in TrackedMetaKeys(e, q, c)
  BY <1>1, <1>2 DEF TrackedMetaKeys
<1> QED
  BY <1>4, <1>5, <1>6

\* Two entries share a cache key only when they are of one entity and every parameter of
\* the entity has the same value in both: no caller is given another's entry.
\* (generateCacheKey, extractCacheParams)
THEOREM CacheKeysAreApart ==
  ASSUME NEW c, NEW d, NEW p, NEW q,
         HasCacheKey(c, p), HasCacheKey(d, q),
         CacheKey(c, p) = CacheKey(d, q)
  PROVE  /\ c.entity = d.entity
         /\ c.params = d.params
         /\ \A name \in c.params : p[name] = q[name]
<1>1. c.entity = d.entity /\ Restrict(p, c.params) = Restrict(q, d.params)
  BY DEF CacheKey
<1>2. DOMAIN Restrict(p, c.params) = c.params /\ DOMAIN Restrict(q, d.params) = d.params
  BY DEF Restrict
<1>3. c.params = d.params
  BY <1>1, <1>2
<1>4. ASSUME NEW name \in c.params  PROVE p[name] = q[name]
  <2>1. Restrict(p, c.params)[name] = p[name] /\ Restrict(q, d.params)[name] = q[name]
    BY <1>3 DEF Restrict
  <2> QED
    BY <1>1, <2>1
<1> QED
  BY <1>1, <1>3, <1>4

-----------------------------------------------------------------------------
(* The service. *)

(* What an operation holds is as new as the last invalidate() meant for its config, but *)
(* for the two exceptions.                                                              *)
OpOK(o) ==
  /\ o.stage = "track" => provider = "redis" /\ o.todo # {} /\ o.todo \subseteq MetaOf[o.config]
  /\ o.stage \in {"read", "track"} => o.value \in Values
  /\ o.stage # "idle" =>
       /\ o.config \in Configs /\ o.floor <= invalidated[o.config]
       /\ \A v \in {o.value, o.stale} \ {None} : Excused(v) \/ v.version >= invalidated[o.config]

(* The entry of c is in the set of m, which outlives it. *)
FoundAt(c, m) == c \in members[m] /\ metaTtl[m] >= entries[c].left

(* An operation is adding the entry to the sets: it is in those it has come past. *)
Tracking(c) ==
  \E p \in Procs : /\ At(p, "track") /\ op[p].config = c
                   /\ \A m \in MetaOf[c] : m \in op[p].todo \/ FoundAt(c, m)

Storing(c) == \E p \in Procs : At(p, "track") /\ op[p].config = c

Found(c) == \A m \in MetaOf[c] : FoundAt(c, m)

EntryOK(c) ==
  entries[c] # None =>
    /\ entries[c].left <= Ttl[c] + Grace[c]
    /\ \/ Excused(entries[c].value)
       \/ /\ entries[c].value.version >= invalidated[c]
          /\ provider = "redis" => Tracking(c) \/ Found(c)

IInv ==
  /\ TypeOK
  /\ \A p \in Procs : OpOK(op[p])
  /\ \A c \in Configs : EntryOK(c) /\ invalidated[c] <= db

LEMMA InitIInv == Init => IInv
<1> SUFFICES ASSUME Init PROVE IInv
  OBVIOUS
<1>1. Idle \in Operations /\ Idle.stage = "idle"
  BY ConfigAssumption DEF Idle, Operations, Stages, Versions
<1>2. TypeOK
  BY <1>1, ConfigAssumption DEF Init, TypeOK, Versions
<1>3. \A p \in Procs : OpOK(op[p])
  BY <1>1 DEF Init, OpOK
<1>4. \A c \in Configs : EntryOK(c) /\ invalidated[c] <= db
  BY DEF Init, EntryOK
<1> QED BY <1>2, <1>3, <1>4 DEF IInv

(* A step of one operation, outside of the pipeline. *)
LEMMA MovesOK ==
  ASSUME IInv, NEW p \in Procs, NEW o \in Operations, op' = [op EXCEPT ![p] = o],
         OpOK(o), op[p].stage # "track", o.stage # "track",
         UNCHANGED <<provider, db, redis, owes, invalidated>>,
         tracked' \in [Procs -> SUBSET Configs]
  PROVE  IInv'
<1>1. TypeOK /\ UNCHANGED <<provider, db, entries, members, metaTtl, owes, invalidated>>
  BY DEF IInv, redis
<1>2. TypeOK'
  BY <1>1 DEF TypeOK
<1>3. \A q \in Procs : op'[q] = IF q = p THEN o ELSE op[q]
  BY <1>1 DEF TypeOK
<1>4. \A q \in Procs : OpOK(op[q])'
  BY <1>1, <1>3 DEF IInv, OpOK
<1>5. \A c \in Configs : (EntryOK(c) /\ invalidated[c] <= db)'
  <2> TAKE c \in Configs
  <2>1. EntryOK(c) /\ invalidated[c] <= db
    BY DEF IInv
  <2>2. Tracking(c) => Tracking(c)'
    BY <1>1, <1>3 DEF Tracking, FoundAt, At
  <2> QED BY <1>1, <2>1, <2>2 DEF EntryOK, Found, FoundAt
<1> QED BY <1>2, <1>4, <1>5 DEF IInv

(* What every state gives of one operation and of the entry it is about. *)
LEMMA OperationOK ==
  ASSUME IInv, NEW p \in Procs
  PROVE  /\ op[p] \in Operations /\ OpOK(op[p])
         /\ op[p].stage # "idle" => op[p].config \in Configs
BY DEF IInv, TypeOK, OpOK

LEMMA EntryValueOK ==
  ASSUME IInv, NEW c \in Configs, entries[c] # None
  PROVE  /\ entries[c].value \in Values /\ entries[c].left \in Nat \ {0}
         /\ Excused(entries[c].value) \/ entries[c].value.version >= invalidated[c]
<1>1. entries[c] \in Entries /\ EntryOK(c)
  BY DEF IInv, TypeOK
<1> QED BY <1>1 DEF Entries, EntryOK

(* getOrSet() and set() begin. *)
LEMMA BeginInv ==
  ASSUME IInv, NEW p \in Procs, NEW c \in Configs, NEW stage \in {"lookup", "read"},
         NEW value \in Values \union {None}, stage = "read" => value \in Values,
         value # None => value.version >= invalidated[c],
         Begin(p, c, stage, value)
  PROVE  IInv'
<1>0. TypeOK
  BY DEF IInv
<1> PICK n \in Versions : n = invalidated[c]
  BY <1>0 DEF TypeOK
<1> PICK o : o = [Idle EXCEPT !.stage = stage, !.config = c, !.value = value, !.floor = n]
  OBVIOUS
<1>1. /\ o \in Operations /\ o.stage = stage /\ o.config = c /\ o.value = value
      /\ o.floor = n /\ o.stale = None
  BY DEF Idle, Operations, Stages
<1>2. /\ op' = [op EXCEPT ![p] = o] /\ op[p].stage = "idle"
      /\ tracked' = [tracked EXCEPT ![p] = @ \union {c}]
      /\ UNCHANGED <<provider, db, redis, owes, invalidated>>
  BY DEF Begin, At
<1>3. OpOK(o)
  <2>1. n \in Nat
    BY DEF Versions
  <2> QED BY <1>1, <2>1 DEF OpOK
<1>4. tracked' \in [Procs -> SUBSET Configs]
  BY <1>0, <1>2 DEF TypeOK
<1> QED BY <1>1, <1>2, <1>3, <1>4, MovesOK

LEMMA GetOrSetInv ==
  ASSUME IInv, NEW p \in Procs, NEW c \in Configs, GetOrSet(p, c)
  PROVE  IInv'
<1> PICK stage \in {"lookup", "read"} : stage = "lookup"
  OBVIOUS
<1> PICK value \in Values \union {None} : value = None
  OBVIOUS
<1> QED BY BeginInv DEF GetOrSet

(* What is read from the database now is new enough for every entry. *)
LEMMA ReadOK ==
  ASSUME IInv
  PROVE  \E v \in Values : /\ v = Read /\ v.version = db
                           /\ \A c \in Configs : v.version >= invalidated[c]
<1>1. db \in Versions /\ \A c \in Configs : invalidated[c] \in Versions /\ invalidated[c] <= db
  BY DEF IInv, TypeOK
<1>2. Read \in Values
  BY <1>1 DEF Values, Read
<1>3. Read.version = db
  BY DEF Read
<1> QED BY <1>1, <1>2, <1>3 DEF Versions

LEMMA SetInv ==
  ASSUME IInv, NEW p \in Procs, NEW c \in Configs, Set(p, c)
  PROVE  IInv'
<1> PICK stage \in {"lookup", "read"} : stage = "read"
  OBVIOUS
<1> PICK value \in Values : /\ value = Read
                            /\ value.version >= invalidated[c]
  BY ReadOK
<1> QED BY BeginInv DEF Set

LEMMA RegisterConfigInv ==
  ASSUME IInv, NEW p \in Procs, NEW c \in Configs, RegisterConfig(p, c)
  PROVE  IInv'
<1>1. /\ TypeOK /\ UNCHANGED <<provider, db, entries, members, metaTtl, op, owes, invalidated>>
      /\ tracked' = [tracked EXCEPT ![p] = @ \union {c}]
  BY DEF IInv, RegisterConfig, redis
<1>2. TypeOK'
  BY <1>1 DEF TypeOK
<1>3. \A q \in Procs : OpOK(op[q])'
  BY <1>1 DEF IInv, OpOK
<1>4. \A d \in Configs : (EntryOK(d) /\ invalidated[d] <= db)'
  BY <1>1 DEF IInv, EntryOK, Tracking, Found, FoundAt, At
<1> QED BY <1>2, <1>3, <1>4 DEF IInv

(* The steps of an operation up to its answer, without those that write. *)
LEMMA MovesInv ==
  ASSUME IInv, NEW p \in Procs, NEW o \in Operations, Moves(p, o), OpOK(o),
         op[p].stage # "track", o.stage # "track"
  PROVE  IInv'
BY MovesOK DEF Moves, IInv, TypeOK

LEMMA LookupHitsInv ==
  ASSUME IInv, NEW p \in Procs, LookupHits(p)
  PROVE  IInv'
<1>1. op[p].stage = "lookup" /\ op[p].config \in Configs /\ op[p] \in Operations /\ OpOK(op[p])
  BY OperationOK DEF LookupHits, At
<1> PICK c \in Configs : c = op[p].config
  BY <1>1
<1>2. entries[c] # None
  BY DEF LookupHits, IsFresh
<1> PICK v \in Values : v = entries[c].value /\ (Excused(v) \/ v.version >= invalidated[c])
  BY <1>2, EntryValueOK
<1> PICK o : o = [op[p] EXCEPT !.stage = "done", !.value = v]
  OBVIOUS
<1>3. /\ o \in Operations /\ o.stage = "done" /\ o.value = v /\ o.config = c
      /\ o.stale = op[p].stale /\ o.floor = op[p].floor
  BY <1>1 DEF Operations, Stages
<1>4. OpOK(o)
  BY <1>1, <1>3 DEF OpOK
<1>5. Moves(p, o)
  BY DEF LookupHits
<1> QED BY <1>1, <1>3, <1>4, <1>5, MovesInv

LEMMA LookupMissesInv ==
  ASSUME IInv, NEW p \in Procs, LookupMisses(p)
  PROVE  IInv'
<1>1. op[p].stage = "lookup" /\ op[p].config \in Configs /\ op[p] \in Operations /\ OpOK(op[p])
  BY OperationOK DEF LookupMisses, At
<1> PICK c \in Configs : c = op[p].config
  BY <1>1
<1> PICK v : v = IF InGrace(c) THEN entries[c].value ELSE None
  OBVIOUS
<1>2. v \in Values \union {None} /\ (v # None => Excused(v) \/ v.version >= invalidated[c])
  BY EntryValueOK DEF InGrace
<1> PICK o : o = [op[p] EXCEPT !.stage = "factory", !.stale = v]
  OBVIOUS
<1>3. /\ o \in Operations /\ o.stage = "factory" /\ o.stale = v /\ o.config = c
      /\ o.value = op[p].value /\ o.floor = op[p].floor
  BY <1>1, <1>2 DEF Operations, Stages
<1>4. OpOK(o)
  BY <1>1, <1>2, <1>3 DEF OpOK
<1>5. Moves(p, o)
  BY DEF LookupMisses
<1> QED BY <1>1, <1>3, <1>4, <1>5, MovesInv

LEMMA GetInv ==
  ASSUME IInv, NEW p \in Procs, NEW c \in Configs, Get(p, c)
  PROVE  IInv'
<1>1. op[p].stage = "idle" /\ entries[c] # None
  BY DEF Get, At, IsFresh, InGrace
<1> PICK v \in Values : v = entries[c].value /\ (Excused(v) \/ v.version >= invalidated[c])
  BY <1>1, EntryValueOK
<1> PICK n \in Versions : n = invalidated[c]
  BY DEF IInv, TypeOK
<1> PICK o : o = [Idle EXCEPT !.stage = "done", !.config = c, !.value = v, !.floor = n]
  OBVIOUS
<1>2. /\ o \in Operations /\ o.stage = "done" /\ o.value = v /\ o.config = c
      /\ o.stale = None /\ o.floor = n
  BY DEF Operations, Stages, Idle
<1>3. OpOK(o)
  BY <1>2 DEF OpOK, Versions
<1>4. Moves(p, o)
  BY DEF Get
<1> QED BY <1>1, <1>2, <1>3, <1>4, MovesInv

LEMMA FactoryReadsInv ==
  ASSUME IInv, NEW p \in Procs, FactoryReads(p)
  PROVE  IInv'
<1>1. op[p].stage = "factory" /\ op[p].config \in Configs /\ op[p] \in Operations /\ OpOK(op[p])
  BY OperationOK DEF FactoryReads, At
<1> PICK v \in Values : /\ v = Read
                        /\ \A c \in Configs : v.version >= invalidated[c]
  BY ReadOK
<1> PICK o : o = [op[p] EXCEPT !.stage = "read", !.value = v]
  OBVIOUS
<1>2. /\ o \in Operations /\ o.stage = "read" /\ o.value = v /\ o.config = op[p].config
      /\ o.stale = op[p].stale /\ o.floor = op[p].floor
  BY <1>1 DEF Operations, Stages
<1>3. OpOK(o)
  BY <1>1, <1>2 DEF OpOK
<1>4. Moves(p, o)
  BY DEF FactoryReads
<1> QED BY <1>1, <1>2, <1>3, <1>4, MovesInv

LEMMA EndsInv ==
  ASSUME IInv, NEW p \in Procs, FactoryGivesNothing(p) \/ Return(p)
  PROVE  IInv'
<1> PICK o : o = Idle
  OBVIOUS
<1>1. o \in Operations /\ o.stage = "idle"
  BY ConfigAssumption DEF Idle, Operations, Stages, Versions
<1>2. OpOK(o)
  BY <1>1 DEF OpOK
<1>3. Moves(p, o) /\ op[p].stage # "track"
  BY DEF FactoryGivesNothing, Return, At
<1> QED BY <1>1, <1>2, <1>3, MovesInv

LEMMA FactoryFallsBackInv ==
  ASSUME IInv, NEW p \in Procs, FactoryFallsBack(p)
  PROVE  IInv'
<1>1. /\ op[p].stage \in {"factory", "read"} /\ op[p].config \in Configs /\ op[p] \in Operations
      /\ OpOK(op[p]) /\ op[p].stale # None
  BY OperationOK DEF FactoryFallsBack
<1> PICK v \in Values : v = op[p].stale
  BY <1>1 DEF Operations
<1> PICK o : o = [op[p] EXCEPT !.stage = "done", !.value = v, !.stale = None]
  OBVIOUS
<1>2. /\ o \in Operations /\ o.stage = "done" /\ o.value = v /\ o.config = op[p].config
      /\ o.stale = None /\ o.floor = op[p].floor
  BY <1>1 DEF Operations, Stages
<1>3. OpOK(o)
  BY <1>1, <1>2 DEF OpOK
<1>4. Moves(p, o)
  BY DEF FactoryFallsBack
<1> QED BY <1>1, <1>2, <1>3, <1>4, MovesInv

-----------------------------------------------------------------------------
(* The pipeline. *)

(* An entry that is written, tracked or left untracked, of the config of one operation. *)
LEMMA WriteOK ==
  ASSUME IInv, NEW p \in Procs, NEW o \in Operations, op' = [op EXCEPT ![p] = o], OpOK(o),
         NEW c \in Configs, c = op[p].config, NEW e \in Entries \union {None},
         entries' = [entries EXCEPT ![c] = e], EntryOK(c)',
         members' \in [MetaKeys -> SUBSET Configs], metaTtl' \in [MetaKeys -> Nat],
         \A m \in MetaKeys : members[m] \subseteq members'[m] /\ metaTtl'[m] >= metaTtl[m],
         UNCHANGED <<provider, db, tracked, owes, invalidated>>
  PROVE  IInv'
<1>0. TypeOK
  BY DEF IInv
<1>2. TypeOK'
  BY <1>0 DEF TypeOK
<1>3. \A q \in Procs : op'[q] = IF q = p THEN o ELSE op[q]
  BY <1>0 DEF TypeOK
<1>4. \A q \in Procs : OpOK(op[q])'
  BY <1>3 DEF IInv, OpOK
<1>5. \A d \in Configs : (EntryOK(d) /\ invalidated[d] <= db)'
  <2> TAKE d \in Configs
  <2>1. EntryOK(d) /\ invalidated[d] <= db
    BY DEF IInv
  <2>2. CASE d = c
    BY <2>1, <2>2
  <2>3. CASE d # c
    <3>1. entries'[d] = entries[d]
      BY <1>0, <2>3 DEF TypeOK
    <3>2. ASSUME entries[d] # None, NEW m \in MetaOf[d], FoundAt(d, m)
          PROVE  FoundAt(d, m)'
      <4>1. m \in MetaKeys /\ metaTtl[m] \in Nat /\ metaTtl'[m] \in Nat
        BY <1>0, ConfigAssumption DEF TypeOK
      <4>2. entries[d].left \in Nat
        BY <3>2, EntryValueOK
      <4>3. d \in members[m] /\ metaTtl[m] >= entries[d].left
        BY <3>2 DEF FoundAt
      <4> QED BY <3>1, <4>1, <4>2, <4>3 DEF FoundAt
    <3>3. entries[d] # None /\ Found(d) => Found(d)'
      BY <3>2 DEF Found
    <3>4. entries[d] # None /\ Tracking(d) => Tracking(d)'
      <4> SUFFICES ASSUME entries[d] # None, NEW q \in Procs, At(q, "track"), op[q].config = d,
                          \A m \in MetaOf[d] : m \in op[q].todo \/ FoundAt(d, m)
                   PROVE  Tracking(d)'
        BY DEF Tracking
      <4>1. op'[q] = op[q]
        BY <1>3, <2>3
      <4>2. At(q, "track")' /\ op'[q].config = d
        BY <4>1 DEF At
      <4>3. \A m \in MetaOf[d] : m \in op'[q].todo \/ FoundAt(d, m)'
        BY <3>2, <4>1
      <4> QED BY <4>2, <4>3 DEF Tracking
    <3> QED BY <2>1, <3>1, <3>3, <3>4 DEF EntryOK
  <2> QED BY <2>2, <2>3
<1> QED BY <1>2, <1>4, <1>5 DEF IInv

LEMMA StoreInv ==
  ASSUME IInv, NEW p \in Procs, Store(p)
  PROVE  IInv'
<1>0. TypeOK
  BY DEF IInv
<1>1. /\ op[p].stage = "read" /\ op[p].config \in Configs /\ op[p] \in Operations
      /\ OpOK(op[p])
  BY OperationOK DEF Store, At
<1> PICK c \in Configs : c = op[p].config
  BY <1>1
<1> PICK v \in Values : v = op[p].value
  BY <1>1 DEF OpOK
<1>2. Excused(v) \/ v.version >= invalidated[c]
  BY <1>1, ConfigAssumption DEF OpOK
<1> PICK e : e = Entry(v, Ttl[c] + Grace[c])
  OBVIOUS
<1>3. e \in Entries /\ e.value = v /\ e.left = Ttl[c] + Grace[c] /\ e.left \in Nat
  <2>1. Ttl[c] \in Nat \ {0} /\ Grace[c] \in Nat
    BY ConfigAssumption
  <2> QED BY <2>1 DEF Entry, Entries
<1> PICK stage \in Stages : stage = IF provider = "redis" THEN "track" ELSE "done"
  BY DEF Stages
<1> PICK todo \in SUBSET MetaKeys : todo = IF provider = "redis" THEN MetaOf[c] ELSE {}
  BY ConfigAssumption
<1> PICK o : o = [op[p] EXCEPT !.stage = stage, !.todo = todo, !.stale = None]
  OBVIOUS
<1>4. /\ op' = [op EXCEPT ![p] = o] /\ entries' = [entries EXCEPT ![c] = e]
      /\ UNCHANGED <<provider, db, members, metaTtl, tracked, owes, invalidated>>
  BY <1>0 DEF Store, TypeOK
<1>5. /\ o \in Operations /\ o.stage = stage /\ o.value = v /\ o.config = c
      /\ o.stale = None /\ o.floor = op[p].floor /\ o.todo = todo
  BY <1>1 DEF Operations
<1>6. OpOK(o)
  <2>1. provider = "redis" => todo = MetaOf[c] /\ todo # {}
    BY KeysMeet
  <2> QED BY <1>1, <1>2, <1>5, <2>1 DEF OpOK
<1>7. EntryOK(c)'
  <2>1. entries'[c] = e /\ op'[p] = o
    BY <1>0, <1>4 DEF TypeOK
  <2>2. provider = "redis" => Tracking(c)'
    BY <1>5, <2>1 DEF Tracking, At
  <2> QED BY <1>2, <1>3, <1>4, <2>1, <2>2, SMTT(30) DEF EntryOK
<1>8. /\ members' \in [MetaKeys -> SUBSET Configs] /\ metaTtl' \in [MetaKeys -> Nat]
      /\ \A m \in MetaKeys : members[m] \subseteq members'[m] /\ metaTtl'[m] >= metaTtl[m]
  BY <1>0, <1>4 DEF TypeOK
<1> QED BY <1>1, <1>3, <1>4, <1>5, <1>6, <1>7, <1>8, WriteOK

(* The pipeline of an operation comes to the end of a meta key. *)
LEMMA PastOK ==
  ASSUME IInv, NEW p \in Procs, At(p, "track"), Past(p)
  PROVE  \E o \in Operations, m \in MetaOf[op[p].config] :
           /\ m = NextKey(p) /\ m \in MetaKeys
           /\ op' = [op EXCEPT ![p] = o] /\ o.config = op[p].config
           /\ o.todo = op[p].todo \ {m}
           /\ o.stage = IF o.todo = {} THEN "done" ELSE "track"
           /\ provider' = provider /\ invalidated' = invalidated => OpOK(o)
<1>1. /\ op[p] \in Operations /\ OpOK(op[p]) /\ op[p].stage = "track"
      /\ op[p].config \in Configs /\ op \in [Procs -> Operations]
  BY OperationOK DEF At, IInv, TypeOK
<1>2. op[p].todo # {} /\ op[p].todo \subseteq MetaOf[op[p].config]
  BY <1>1 DEF OpOK
<1> PICK m \in op[p].todo : m = NextKey(p)
  BY <1>2 DEF NextKey
<1>3. m \in MetaOf[op[p].config] /\ m \in MetaKeys
  BY <1>1, <1>2, ConfigAssumption
<1> PICK rest \in SUBSET MetaKeys : rest = op[p].todo \ {m}
  BY <1>1 DEF Operations
<1> PICK stage \in Stages : stage = IF rest = {} THEN "done" ELSE "track"
  BY DEF Stages
<1> PICK o : o = [op[p] EXCEPT !.todo = rest, !.stage = stage]
  OBVIOUS
<1>4. op' = [op EXCEPT ![p] = o]
  BY <1>1 DEF Past
<1>5. /\ o \in Operations /\ o.stage = stage /\ o.value = op[p].value /\ o.todo = rest
      /\ o.config = op[p].config /\ o.stale = op[p].stale /\ o.floor = op[p].floor
  BY <1>1 DEF Operations
<1>6. OpOK(o)
  BY <1>1, <1>2, <1>5 DEF OpOK
<1> QED BY <1>3, <1>4, <1>5, <1>6

LEMMA TrackInv ==
  ASSUME IInv, NEW p \in Procs, Track(p)
  PROVE  IInv'
<1>0. TypeOK
  BY DEF IInv
<1>1. /\ At(p, "track") /\ op[p].stage = "track" /\ op[p].config \in Configs
      /\ op[p] \in Operations /\ OpOK(op[p])
  BY OperationOK DEF Track, At
<1> PICK c \in Configs : c = op[p].config
  BY <1>1
<1> PICK o \in Operations, m \in MetaOf[c] :
      /\ m = NextKey(p) /\ m \in MetaKeys
      /\ op' = [op EXCEPT ![p] = o] /\ o.config = c /\ o.todo = op[p].todo \ {m}
      /\ o.stage = IF o.todo = {} THEN "done" ELSE "track"
      /\ OpOK(o)
  BY <1>1, PastOK DEF Track
<1> PICK new : new = Ttl[c] + Grace[c] + Buffer
  OBVIOUS
<1>2. /\ members' = [members EXCEPT ![m] = members[m] \union {c}]
      /\ metaTtl' = [metaTtl EXCEPT ![m] = RaisedExpiry(metaTtl[m], new)]
      /\ UNCHANGED <<provider, db, entries, tracked, owes, invalidated>>
  BY <1>0 DEF Track, TypeOK
<1> PICK e \in Entries \union {None} : e = entries[c]
  BY <1>0 DEF TypeOK
<1>3. entries' = [entries EXCEPT ![c] = e]
  BY <1>0, <1>2 DEF TypeOK
<1>4. new \in Nat /\ new >= Ttl[c] + Grace[c] /\ Ttl[c] + Grace[c] \in Nat
  <2>1. Ttl[c] \in Nat /\ Grace[c] \in Nat /\ Buffer \in Nat
    BY ConfigAssumption
  <2> QED BY <2>1
<1>5. /\ metaTtl[m] \in Nat /\ members[m] \in SUBSET Configs
      /\ RaisedExpiry(metaTtl[m], new) \in Nat
      /\ RaisedExpiry(metaTtl[m], new) >= metaTtl[m]
      /\ RaisedExpiry(metaTtl[m], new) >= new
  BY <1>0, <1>4 DEF TypeOK, RaisedExpiry
<1>6. \A n \in MetaKeys :
        /\ members'[n] = IF n = m THEN members[n] \union {c} ELSE members[n]
        /\ metaTtl'[n] = IF n = m THEN RaisedExpiry(metaTtl[m], new) ELSE metaTtl[n]
  BY <1>0, <1>2 DEF TypeOK
<1>7. /\ members' \in [MetaKeys -> SUBSET Configs] /\ metaTtl' \in [MetaKeys -> Nat]
      /\ \A n \in MetaKeys : members[n] \subseteq members'[n] /\ metaTtl'[n] >= metaTtl[n]
  <2>1. members' \in [MetaKeys -> SUBSET Configs]
    BY <1>0, <1>2, <1>5 DEF TypeOK
  <2>2. metaTtl' \in [MetaKeys -> Nat]
    BY <1>0, <1>2, <1>5 DEF TypeOK
  <2>3. \A n \in MetaKeys : members[n] \subseteq members'[n] /\ metaTtl'[n] >= metaTtl[n]
    <3> TAKE n \in MetaKeys
    <3>1. CASE n = m
      BY <1>5, <1>6, <3>1
    <3>2. CASE n # m
      <4>1. metaTtl[n] \in Nat /\ metaTtl'[n] = metaTtl[n] /\ members'[n] = members[n]
        BY <1>0, <1>6, <3>2 DEF TypeOK
      <4> QED BY <4>1
    <3> QED BY <3>1, <3>2
  <2> QED BY <2>1, <2>2, <2>3
<1>8. EntryOK(c)'
  <2>1. EntryOK(c) /\ entries'[c] = entries[c] /\ provider' = provider
        /\ invalidated'[c] = invalidated[c]
    BY <1>2 DEF IInv
  <2>2. ASSUME entries[c] # None
        PROVE  FoundAt(c, m)'
    <3>1. entries[c].left \in Nat /\ entries[c].left <= Ttl[c] + Grace[c]
      BY <2>1, <2>2, EntryValueOK DEF EntryOK
    <3>2. metaTtl'[m] >= new /\ metaTtl'[m] \in Nat /\ c \in members'[m]
      BY <1>5, <1>6
    <3> QED BY <1>4, <2>1, <3>1, <3>2 DEF FoundAt
  <2>3. ASSUME entries[c] # None, NEW n \in MetaOf[c], FoundAt(c, n)
        PROVE  FoundAt(c, n)'
    <3>1. n \in MetaKeys
      BY ConfigAssumption
    <3>2. metaTtl[n] \in Nat /\ metaTtl'[n] \in Nat /\ entries[c].left \in Nat
      BY <1>0, <1>7, <2>3, <3>1, EntryValueOK DEF TypeOK
    <3> QED BY <1>7, <2>1, <2>3, <3>1, <3>2 DEF FoundAt
  <2>4. entries[c] # None /\ Found(c) => Found(c)'
    BY <2>3 DEF Found
  <2>5. ASSUME entries[c] # None, Tracking(c)
        PROVE  Tracking(c)' \/ Found(c)'
    <3> PICK q \in Procs : /\ At(q, "track") /\ op[q].config = c
                           /\ \A n \in MetaOf[c] : n \in op[q].todo \/ FoundAt(c, n)
      BY <2>5 DEF Tracking
    <3>1. CASE q # p
      <4>1. op'[q] = op[q]
        BY <1>0, <3>1 DEF TypeOK
      <4>2. At(q, "track")' /\ op'[q].config = c
        BY <4>1 DEF At
      <4>3. \A n \in MetaOf[c] : n \in op'[q].todo \/ FoundAt(c, n)'
        BY <2>3, <2>5, <4>1
      <4> QED BY <4>2, <4>3 DEF Tracking
    <3>2. CASE q = p
      <4>1. op'[p] = o
        BY <1>0 DEF TypeOK
      <4>2. \A n \in MetaOf[c] : n \in o.todo \/ FoundAt(c, n)'
        BY <2>2, <2>3, <2>5, <3>2
      <4>3. CASE o.todo = {}
        BY <4>2, <4>3 DEF Found
      <4>4. CASE o.todo # {}
        <5>1. At(p, "track")' /\ op'[p].config = c
          BY <4>1, <4>4 DEF At
        <5> QED BY <4>1, <4>2, <5>1 DEF Tracking
      <4> QED BY <4>3, <4>4
    <3> QED BY <3>1, <3>2
  <2> QED BY <2>1, <2>4, <2>5 DEF EntryOK
<1> QED BY <1>2, <1>3, <1>7, <1>8, WriteOK

(* A value that an invalidate() need not find is one of the values. *)
LEMMA MissedOK ==
  ASSUME NEW v \in Values \union {None}
  PROVE  /\ Missed(v) \in Values \union {None} /\ (Missed(v) = None <=> v = None)
         /\ v \in Values => /\ Missed(v) \in Values /\ Excused(Missed(v))
                            /\ Missed(v).version = v.version
<1>1. CASE v = None
  BY <1>1, ConfigAssumption DEF Missed
<1>2. CASE v \in Values
  <2>1. v # None /\ None \notin Values
    BY <1>2, ConfigAssumption
  <2>2. Missed(v) = [v EXCEPT !.missed = TRUE]
    BY <2>1 DEF Missed
  <2>3. Missed(v) \in Values /\ Excused(Missed(v)) /\ Missed(v).version = v.version
    BY <1>2, <2>2 DEF Values, Excused
  <2> QED BY <2>1, <2>3
<1> QED BY <1>1, <1>2

LEMMA TrackFailsInv ==
  ASSUME IInv, NEW p \in Procs, TrackFails(p)
  PROVE  IInv'
<1>0. TypeOK
  BY DEF IInv
<1>1. /\ At(p, "track") /\ op[p].stage = "track" /\ op[p].config \in Configs
      /\ op[p] \in Operations /\ OpOK(op[p])
  BY OperationOK DEF TrackFails, At
<1> PICK c \in Configs : c = op[p].config
  BY <1>1
<1> PICK e : e = IF entries[c] = None THEN None
                 ELSE [entries[c] EXCEPT !.value = Missed(entries[c].value)]
  OBVIOUS
<1>2. /\ e \in Entries \union {None}
      /\ e # None => Excused(e.value) /\ e.left = entries[c].left /\ entries[c] # None
  <2>1. CASE entries[c] = None
    BY <2>1
  <2>2. CASE entries[c] # None
    <3> PICK v \in Values : v = entries[c].value
      BY <2>2, EntryValueOK
    <3>1. Missed(v) \in Values /\ Excused(Missed(v))
      BY MissedOK
    <3>2. entries[c] \in Entries /\ e = [entries[c] EXCEPT !.value = Missed(v)]
      BY <1>0, <2>2 DEF TypeOK
    <3> QED BY <2>2, <3>1, <3>2 DEF Entries
  <2> QED BY <2>1, <2>2
<1> PICK o \in Operations, m \in MetaOf[c] :
      op' = [op EXCEPT ![p] = o] /\ OpOK(o)
  BY <1>1, PastOK DEF TrackFails
<1>5. /\ entries' = [entries EXCEPT ![c] = e]
      /\ UNCHANGED <<provider, db, members, metaTtl, tracked, owes, invalidated>>
  BY <1>0, <1>1 DEF TrackFails, Unfound, TypeOK
<1>6. EntryOK(c)'
  <2>1. EntryOK(c) /\ entries'[c] = e
    BY <1>0, <1>5 DEF IInv, TypeOK
  <2> QED BY <1>2, <1>5, <2>1 DEF EntryOK
<1>7. /\ members' \in [MetaKeys -> SUBSET Configs] /\ metaTtl' \in [MetaKeys -> Nat]
      /\ \A n \in MetaKeys : members[n] \subseteq members'[n] /\ metaTtl'[n] >= metaTtl[n]
  BY <1>0, <1>5 DEF TypeOK
<1> QED BY <1>2, <1>5, <1>6, <1>7, WriteOK

-----------------------------------------------------------------------------
(* delete(), invalidate() and time. *)

(* Entries that go, or stay as they are. *)
LEMMA DeleteInv ==
  ASSUME IInv, NEW p \in Procs, NEW c \in Configs, Delete(p, c)
  PROVE  IInv'
<1>1. /\ TypeOK
      /\ UNCHANGED <<provider, db, members, metaTtl, tracked, op, owes, invalidated>>
  BY DEF IInv, Delete
<1>2. \A d \in Configs : entries'[d] = IF d = c THEN None ELSE entries[d]
  BY DEF Delete, Without
<1>3. entries' \in [Configs -> Entries \union {None}]
  BY <1>1 DEF Delete, Without, TypeOK
<1>4. TypeOK'
  BY <1>1, <1>3 DEF TypeOK
<1>5. \A q \in Procs : OpOK(op[q])'
  BY <1>1 DEF IInv, OpOK
<1>6. \A d \in Configs : (EntryOK(d) /\ invalidated[d] <= db)'
  BY <1>1, <1>2 DEF IInv, EntryOK, Tracking, Found, FoundAt, At
<1> QED BY <1>4, <1>5, <1>6 DEF IInv

LEMMA UpdateInv ==
  ASSUME IInv, NEW p \in Procs, Update(p)
  PROVE  IInv'
<1>1. /\ TypeOK
      /\ UNCHANGED <<provider, entries, members, metaTtl, tracked, op, invalidated>>
  BY DEF IInv, Update, redis
<1>2. db \in Nat /\ db' = db + 1 /\ db' \in Versions /\ owes' \in SUBSET Procs
  BY <1>1, ConfigAssumption DEF Update, TypeOK, Versions
<1>3. TypeOK'
  BY <1>1, <1>2 DEF TypeOK
<1>4. \A q \in Procs : OpOK(op[q])'
  BY <1>1 DEF IInv, OpOK
<1>5. \A d \in Configs : (EntryOK(d) /\ invalidated[d] <= db)'
  <2> TAKE d \in Configs
  <2>1. EntryOK(d) /\ invalidated[d] <= db /\ invalidated[d] \in Nat
    BY <1>1 DEF IInv, TypeOK, Versions
  <2> QED BY <1>1, <1>2, <2>1 DEF EntryOK, Tracking, Found, FoundAt, At
<1> QED BY <1>3, <1>4, <1>5 DEF IInv

LEMMA InvalidateFailsInv ==
  ASSUME IInv, NEW p \in Procs, InvalidateFails(p)
  PROVE  IInv'
<1>1. /\ TypeOK
      /\ UNCHANGED <<provider, db, entries, members, metaTtl, tracked, op, invalidated>>
      /\ owes' = owes \ {p}
  BY DEF IInv, InvalidateFails, redis
<1>2. TypeOK'
  BY <1>1 DEF TypeOK
<1>3. \A q \in Procs : OpOK(op[q])'
  BY <1>1 DEF IInv, OpOK
<1>4. \A d \in Configs : (EntryOK(d) /\ invalidated[d] <= db)'
  BY <1>1 DEF IInv, EntryOK, Tracking, Found, FoundAt, At
<1> QED BY <1>2, <1>3, <1>4 DEF IInv

(* An entry and the sets it is found through age together. *)
LEMMA TickInv ==
  ASSUME IInv, Tick
  PROVE  IInv'
<1>1. TypeOK /\ UNCHANGED <<provider, db, tracked, op, owes, invalidated>>
  BY DEF IInv, Tick
<1>2. \A c \in Configs : /\ entries[c] \in Entries \union {None}
                         /\ entries'[c] = Aged(entries[c])
  BY <1>1 DEF Tick, TypeOK
<1>3. \A m \in MetaKeys :
        /\ metaTtl[m] \in Nat
        /\ metaTtl'[m] = IF metaTtl[m] = 0 THEN 0 ELSE metaTtl[m] - 1
        /\ members'[m] = IF metaTtl[m] = 1 THEN {} ELSE members[m]
  BY <1>1 DEF Tick, TypeOK
<1>4. \A c \in Configs :
        /\ Aged(entries[c]) \in Entries \union {None}
        /\ Aged(entries[c]) # None =>
             /\ entries[c] # None /\ entries[c].left > 1 /\ entries[c].left \in Nat
             /\ Aged(entries[c]).value = entries[c].value
             /\ Aged(entries[c]).left = entries[c].left - 1
  <2> TAKE c \in Configs
  <2>1. CASE entries[c] = None \/ entries[c].left = 1
    BY <2>1 DEF Aged
  <2>2. CASE entries[c] # None /\ entries[c].left # 1
    <3>1. entries[c] \in Entries /\ entries[c].left \in Nat \ {0, 1}
      BY <1>2, <2>2 DEF Entries
    <3> PICK n \in Nat \ {0} : n = entries[c].left - 1
      BY <3>1
    <3>2. Aged(entries[c]) = [entries[c] EXCEPT !.left = n]
      BY <2>2 DEF Aged
    <3>3. /\ Aged(entries[c]) \in Entries /\ Aged(entries[c]).value = entries[c].value
          /\ Aged(entries[c]).left = n
      BY <3>1, <3>2 DEF Entries
    <3> QED BY <2>2, <3>1, <3>3
  <2> QED BY <2>1, <2>2
<1>5. TypeOK'
  <2>1. entries' \in [Configs -> Entries \union {None}]
    BY <1>4 DEF Tick
  <2>2. metaTtl' \in [MetaKeys -> Nat]
    <3>1. \A m \in MetaKeys : metaTtl'[m] \in Nat
      BY <1>3
    <3>2. metaTtl' = [m \in MetaKeys |-> metaTtl'[m]]
      BY DEF Tick
    <3> QED BY <3>1, <3>2
  <2>3. members' \in [MetaKeys -> SUBSET Configs]
    BY <1>1 DEF Tick, TypeOK
  <2> QED BY <1>1, <2>1, <2>2, <2>3 DEF TypeOK
<1>6. \A q \in Procs : OpOK(op[q])'
  BY <1>1 DEF IInv, OpOK
<1>7. \A c \in Configs : (EntryOK(c) /\ invalidated[c] <= db)'
  <2> TAKE c \in Configs
  <2>1. EntryOK(c) /\ invalidated[c] <= db
    BY DEF IInv
  <2>2. CASE entries'[c] = None
    BY <1>1, <2>1, <2>2 DEF EntryOK
  <2>3. CASE entries'[c] # None
    <3>1. /\ entries[c] # None /\ entries[c].left > 1 /\ entries[c].left \in Nat
          /\ entries'[c].value = entries[c].value /\ entries'[c].left = entries[c].left - 1
      BY <1>2, <1>4, <2>3
    <3>2. entries'[c].left <= Ttl[c] + Grace[c]
      <4>1. Ttl[c] + Grace[c] \in Nat /\ entries[c].left <= Ttl[c] + Grace[c]
        BY <2>1, <3>1, ConfigAssumption DEF EntryOK
      <4> QED BY <3>1, <4>1
    <3>3. ASSUME NEW m \in MetaOf[c], FoundAt(c, m)
          PROVE  FoundAt(c, m)'
      <4>1. m \in MetaKeys
        BY ConfigAssumption
      <4>2. c \in members[m] /\ metaTtl[m] >= entries[c].left
        BY <3>3 DEF FoundAt
      <4>3. metaTtl[m] \in Nat /\ metaTtl[m] # 0 /\ metaTtl[m] # 1
        BY <1>3, <3>1, <4>1, <4>2
      <4>4. members'[m] = members[m] /\ metaTtl'[m] = metaTtl[m] - 1
        BY <1>3, <4>1, <4>3
      <4> QED BY <3>1, <4>2, <4>3, <4>4 DEF FoundAt
    <3>4. Found(c) => Found(c)'
      BY <3>3 DEF Found
    <3>5. Tracking(c) => Tracking(c)'
      BY <1>1, <3>3 DEF Tracking, At
    <3> QED BY <1>1, <2>1, <3>1, <3>2, <3>4, <3>5 DEF EntryOK
  <2> QED BY <2>2, <2>3
<1> QED BY <1>5, <1>6, <1>7 DEF IInv

(* An entry that an invalidate() does not know of stays an entry. *)
LEMMA OverlookedOK ==
  ASSUME NEW e \in Entries, e # None
  PROVE  /\ Overlooked(e) \in Entries /\ Overlooked(e).left = e.left
         /\ Excused(Overlooked(e).value)
<1> PICK v \in Values, n \in Nat \ {0} : e = [value |-> v, left |-> n]
  BY DEF Entries
<1> PICK w : w = [v EXCEPT !.overlooked = TRUE]
  OBVIOUS
<1>1. w \in Values /\ w.overlooked
  BY DEF Values
<1>2. e.value = v
  OBVIOUS
<1>3. Overlooked(e) = [e EXCEPT !.value = w]
  BY <1>2 DEF Overlooked
<1> QED BY <1>1, <1>3 DEF Entries, Excused

(* What invalidate() leaves: of the entries whose tracking is under way, and of the *)
(* operations, it leaves values it need not find.                                   *)
LEMMA InvalidateInv ==
  ASSUME IInv, NEW p \in Procs, NEW cascade \in BOOLEAN, Invalidate(p, cascade)
  PROVE  IInv'
<1>0. TypeOK
  BY DEF IInv
<1>1. UNCHANGED <<provider, db, tracked>> /\ owes' = owes \ {p}
  BY DEF Invalidate
<1> PICK gone : gone = Deleted(p, cascade)
  OBVIOUS
<1> PICK meant : meant = MeantFor(p, cascade)
  OBVIOUS
<1> PICK over : over = meant \ Known(p, cascade)
  OBVIOUS
<1>2. \A c \in Configs :
        entries'[c] = IF c \in gone \/ entries[c] = None THEN None
                      ELSE IF Storing(c) THEN [entries[c] EXCEPT !.value = Missed(entries[c].value)]
                      ELSE IF c \in over THEN Overlooked(entries[c])
                      ELSE entries[c]
  <2> TAKE c \in Configs
  <2>1. c \in {op[q].config : q \in {q \in Procs : At(q, "track")}} <=> Storing(c)
    BY DEF Storing
  <2>2. /\ Unfound(Without(gone)[c]) = IF c \in gone \/ entries[c] = None THEN None
                          ELSE [entries[c] EXCEPT !.value = Missed(entries[c].value)]
        /\ Overlooked(Without(gone)[c]) = IF c \in gone \/ entries[c] = None THEN None
                                          ELSE Overlooked(entries[c])
        /\ Without(gone)[c] = IF c \in gone THEN None ELSE entries[c]
    BY DEF Unfound, Overlooked, Without
  <2>3. entries'[c] = IF c \in {op[q].config : q \in {q \in Procs : At(q, "track")}}
                      THEN Unfound(Without(gone)[c])
                      ELSE IF c \in over THEN Overlooked(Without(gone)[c]) ELSE Without(gone)[c]
    BY DEF Invalidate
  <2> QED BY <2>1, <2>2, <2>3
<1>3. \A c \in Configs : invalidated'[c] = IF c \in meant THEN db ELSE invalidated[c]
  BY DEF Invalidate
<1>4. \A q \in Procs :
        op'[q] = [op[q] EXCEPT !.value = Missed(op[q].value), !.stale = Missed(op[q].stale)]
  BY DEF Invalidate
<1>5. \A m \in MetaKeys :
        IF cascade /\ provider = "redis" /\ m \in MetaKeysFor(p)
        THEN members'[m] = {} /\ metaTtl'[m] = 0
        ELSE members'[m] = members[m] /\ metaTtl'[m] = metaTtl[m]
  BY DEF Invalidate
<1>6. \A q \in Procs :
        /\ op'[q] \in Operations /\ op'[q].stage = op[q].stage /\ op'[q].config = op[q].config
        /\ op'[q].floor = op[q].floor /\ op'[q].todo = op[q].todo
        /\ op[q].value \in Values => op'[q].value \in Values
        /\ \A v \in {op'[q].value, op'[q].stale} \ {None} : Excused(v)
  <2> TAKE q \in Procs
  <2>1. op[q] \in Operations
    BY <1>0 DEF TypeOK
  <2> PICK v \in Values \union {None} : v = op[q].value
    BY <2>1 DEF Operations
  <2> PICK w \in Values \union {None} : w = op[q].stale
    BY <2>1 DEF Operations
  <2> PICK x \in Values \union {None} : x = Missed(v) /\ (v \in Values => x \in Values)
                                        /\ (x # None => Excused(x))
    BY MissedOK
  <2> PICK y \in Values \union {None} : y = Missed(w) /\ (y # None => Excused(y))
    BY MissedOK
  <2>2. op'[q] = [op[q] EXCEPT !.value = x, !.stale = y]
    BY <1>4
  <2>3. /\ op'[q] \in Operations /\ op'[q].stage = op[q].stage
        /\ op'[q].config = op[q].config /\ op'[q].floor = op[q].floor
        /\ op'[q].todo = op[q].todo /\ op'[q].value = x /\ op'[q].stale = y
    BY <2>1, <2>2 DEF Operations
  <2> QED BY <2>3
<1>7. \A c \in Configs :
        /\ entries'[c] \in Entries \union {None}
        /\ entries'[c] # None =>
             /\ entries[c] # None /\ c \notin gone /\ entries'[c].left = entries[c].left
             /\ IF Storing(c) \/ c \in over THEN Excused(entries'[c].value)
                ELSE entries'[c].value = entries[c].value
  <2> TAKE c \in Configs
  <2>1. entries[c] \in Entries \union {None}
    BY <1>0 DEF TypeOK
  <2>2. CASE c \in gone \/ entries[c] = None
    BY <1>2, <2>2
  <2>3. CASE c \notin gone /\ entries[c] # None /\ ~Storing(c) /\ c \notin over
    BY <1>2, <2>1, <2>3
  <2>5. CASE c \notin gone /\ entries[c] # None /\ ~Storing(c) /\ c \in over
    <3>1. entries'[c] = Overlooked(entries[c]) /\ entries[c] \in Entries
      BY <1>2, <2>1, <2>5
    <3> QED BY <2>5, <3>1, OverlookedOK
  <2>4. CASE c \notin gone /\ entries[c] # None /\ Storing(c)
    <3> PICK v \in Values : v = entries[c].value
      BY <2>4, EntryValueOK
    <3> PICK x \in Values : x = Missed(v) /\ Excused(x)
      BY MissedOK
    <3>1. entries'[c] = [entries[c] EXCEPT !.value = x]
      BY <1>2, <2>4
    <3>2. /\ entries'[c] \in Entries /\ entries'[c].value = x
          /\ entries'[c].left = entries[c].left
      BY <2>1, <2>4, <3>1 DEF Entries
    <3> QED BY <2>4, <3>2
  <2> QED BY <2>2, <2>3, <2>4, <2>5
<1>8. TypeOK'
  <2>1. entries' \in [Configs -> Entries \union {None}]
    <3>1. entries' = [c \in Configs |-> entries'[c]]
      BY DEF Invalidate
    <3> QED BY <1>7, <3>1
  <2>2. op' \in [Procs -> Operations]
    <3>1. op' = [q \in Procs |-> op'[q]]
      BY DEF Invalidate
    <3> QED BY <1>6, <3>1
  <2>3. members' \in [MetaKeys -> SUBSET Configs]
    BY <1>0 DEF Invalidate, TypeOK
  <2>4. metaTtl' \in [MetaKeys -> Nat]
    <3>1. \A m \in MetaKeys : metaTtl'[m] \in Nat
      BY <1>0, <1>5 DEF TypeOK
    <3>2. metaTtl' = [m \in MetaKeys |-> metaTtl'[m]]
      BY <1>0 DEF Invalidate, TypeOK
    <3> QED BY <3>1, <3>2
  <2>5. invalidated' \in [Configs -> Versions]
    BY <1>0 DEF Invalidate, TypeOK
  <2>6. owes' \in SUBSET Procs
    BY <1>0, <1>1 DEF TypeOK
  <2> QED BY <1>0, <1>1, <2>1, <2>2, <2>3, <2>4, <2>5, <2>6 DEF TypeOK
<1>9. \A c \in Configs : /\ invalidated[c] \in Nat /\ invalidated'[c] \in Nat
                         /\ invalidated[c] <= invalidated'[c] /\ invalidated'[c] <= db
  BY <1>0, <1>3 DEF IInv, TypeOK, Versions
<1>10. \A q \in Procs : OpOK(op[q])'
  <2> TAKE q \in Procs
  <2>1. op[q] \in Operations /\ OpOK(op[q]) /\ op[q].floor \in Nat
    BY <1>0 DEF IInv, TypeOK, Operations, Versions
  <2> QED BY <1>1, <1>6, <1>9, <2>1 DEF OpOK
<1>11. \A c \in Configs : (EntryOK(c) /\ invalidated[c] <= db)'
  <2> TAKE c \in Configs
  <2>1. CASE entries'[c] = None
    BY <1>1, <1>9, <2>1 DEF EntryOK
  <2>2. CASE entries'[c] # None
    <3>1. /\ entries[c] # None /\ c \notin gone /\ entries'[c].left = entries[c].left
          /\ IF Storing(c) \/ c \in over THEN Excused(entries'[c].value)
             ELSE entries'[c].value = entries[c].value
      BY <1>7, <2>2
    <3>2. EntryOK(c)
      BY DEF IInv
    <3>3. CASE Excused(entries'[c].value)
      BY <1>1, <1>9, <3>1, <3>2, <3>3 DEF EntryOK
    <3>4. CASE ~Excused(entries'[c].value)
      <4>1. ~Storing(c) /\ c \notin over /\ entries'[c].value = entries[c].value
        BY <3>1, <3>4
      <4>2. /\ entries[c].value.version >= invalidated[c]
            /\ provider = "redis" => Found(c)
        BY <3>1, <3>2, <3>4, <4>1 DEF EntryOK, Tracking, Storing
      <4>3. c \notin meant /\ (provider = "redis" => Found(c)')
        <5>1. CASE cascade /\ provider = "redis"
          <6>1. gone = UNION {members[m] : m \in MetaKeysFor(p)}
            BY <5>1 DEF Deleted
          <6>2. \A m \in MetaOf[c] : c \in members[m] /\ metaTtl[m] >= entries[c].left
            BY <4>2, <5>1 DEF Found, FoundAt
          <6>3. \A m \in MetaOf[c] : m \in MetaKeys /\ m \notin MetaKeysFor(p)
            BY <3>1, <6>1, <6>2, ConfigAssumption
          <6>4. c \notin meant
            <7>1. c \notin Known(p, cascade)
              BY <5>1, <6>3, KeysMeet DEF Known, MetaKeysFor
            <7> QED BY <4>1, <7>1
          <6>5. Found(c)'
            BY <1>5, <3>1, <6>2, <6>3 DEF Found, FoundAt
          <6> QED BY <6>4, <6>5
        <5>2. CASE ~(cascade /\ provider = "redis")
          <6>1. c \notin meant
            BY <3>1, <4>1, <5>2 DEF Known, Deleted
          <6>2. Found(c) => Found(c)'
            BY <1>5, <3>1, <5>2, ConfigAssumption DEF Found, FoundAt
          <6> QED BY <4>2, <6>1, <6>2
        <5> QED BY <5>1, <5>2
      <4> QED BY <1>1, <1>3, <1>9, <3>1, <3>2, <4>1, <4>2, <4>3 DEF EntryOK
    <3> QED BY <3>3, <3>4
  <2> QED BY <2>1, <2>2
<1> QED BY <1>8, <1>10, <1>11 DEF IInv

-----------------------------------------------------------------------------
(* The invariant, and what follows. *)

LEMMA StutterInv == IInv /\ UNCHANGED vars => IInv'
BY DEF IInv, vars, redis, TypeOK, OpOK, EntryOK, Tracking, Found, FoundAt, At

LEMMA NextIInv == IInv /\ [Next]_vars => IInv'
<1> SUFFICES ASSUME IInv, [Next]_vars PROVE IInv'
  OBVIOUS
<1>1. ASSUME NEW p \in Procs, NEW c \in Uses[p],
             \/ GetOrSet(p, c) \/ Get(p, c) \/ Set(p, c) \/ Delete(p, c)
             \/ RegisterConfig(p, c)
      PROVE  IInv'
  <2>1. c \in Configs
    BY ConfigAssumption
  <2> QED BY <1>1, <2>1, GetOrSetInv, GetInv, SetInv, DeleteInv, RegisterConfigInv
<1>2. ASSUME NEW p \in Procs, Continues(p)
      PROVE  IInv'
  BY <1>2, LookupHitsInv, LookupMissesInv, FactoryReadsInv, EndsInv, FactoryFallsBackInv,
     StoreInv, TrackInv, TrackFailsInv DEF Continues
<1>3. ASSUME NEW p \in Procs, NEW cascade \in BOOLEAN, Invalidate(p, cascade)
      PROVE  IInv'
  BY <1>3, InvalidateInv
<1> QED BY <1>1, <1>2, <1>3, UpdateInv, InvalidateFailsInv, TickInv, StutterInv DEF Next

(* The entries of a live cache are where an invalidate() looks for them, unless it need *)
(* not find them: in every state, whatever the processes, their configs and their keys. *)
THEOREM IInvHolds == Spec => []IInv
<1> QED BY InitIInv, NextIInv, PTL DEF Spec

(* Every variable of the cache stays in its type. *)
THEOREM TypeCorrect == Spec => []TypeOK
<1>1. IInv => TypeOK
  BY DEF IInv
<1> QED BY <1>1, IInvHolds, PTL

(* Neither the cache nor an answer is older than the last invalidate() meant for it, but  *)
(* where the call overlapped the operation, a tracking command failed, or the process     *)
(* that called it did not know the config. (setWithMeta, addTrackedMetaKeys,              *)
(* delByMetaMany, getOrSet)                                                               *)
THEOREM FreshButForOverlap == Spec => []OldOnlyByOverlap
<1>1. IInv => OldOnlyByOverlap
  <2> SUFFICES ASSUME IInv PROVE StaleOnlyByOverlap /\ ServedFresh
    BY DEF OldOnlyByOverlap
  <2>1. StaleOnlyByOverlap
    <3> SUFFICES ASSUME NEW c \in Configs, entries[c] # None,
                        entries[c].value.version < invalidated[c]
                 PROVE  Excused(entries[c].value)
      BY DEF StaleOnlyByOverlap
    <3> PICK v \in Values : v = entries[c].value
      BY EntryValueOK
    <3>1. v.version \in Nat /\ invalidated[c] \in Nat
      BY DEF IInv, TypeOK, Values, Versions
    <3> QED BY <3>1, EntryValueOK
  <2>2. ServedFresh
    <3> SUFFICES ASSUME NEW p \in Procs, At(p, "done"), op[p].value # None, ~Excused(op[p].value)
                 PROVE  op[p].value.version >= op[p].floor
      BY DEF ServedFresh
    <3>1. op[p] \in Operations /\ OpOK(op[p])
      BY OperationOK
    <3> PICK v \in Values : v = op[p].value
      BY <3>1 DEF Operations
    <3> PICK c \in Configs : c = op[p].config
      BY <3>1 DEF OpOK, At
    <3>2. /\ v.version \in Nat /\ op[p].floor \in Nat /\ invalidated[c] \in Nat
      BY <3>1 DEF IInv, TypeOK, Operations, Values, Versions
    <3>3. op[p].floor <= invalidated[c] /\ v.version >= invalidated[c]
      BY <3>1, ConfigAssumption DEF OpOK, At
    <3> QED BY <3>2, <3>3
  <2> QED BY <2>1, <2>2
<1> QED BY <1>1, IInvHolds, PTL

-----------------------------------------------------------------------------
(* The topics of the WebSocket provider. *)

Silent(w) == \A i \in 1 .. Len(w) : ~w[i].waiting

LastWaits(w, cmd) ==
  /\ Len(w) > 0 /\ w[Len(w)].cmd = cmd /\ w[Len(w)].waiting
  /\ \A i \in 1 .. Len(w) - 1 : ~w[i].waiting

Resting(x) ==
  /\ ~x.subscribed /\ ~x.subscribing /\ ~x.unsubscribing /\ ~x.resubscribe
  /\ x.retries = {} /\ Silent(x.wire)
  /\ x.sockets # {} => x.gaveUp
  /\ ~x.rejected => x.wire = <<>> /\ ~x.heard

Asking(x) ==
  /\ ~x.subscribed /\ x.subscribing /\ ~x.unsubscribing /\ ~x.resubscribe
  /\ \/ x.retries = {} /\ LastWaits(x.wire, "subscribe")
     \/ x.rejected /\ Silent(x.wire) /\ \E a \in 1 .. MaxAttempts : x.retries = {a}

Kept(x) ==
  /\ x.subscribed /\ ~x.subscribing /\ ~x.unsubscribing /\ ~x.resubscribe
  /\ x.retries = {} /\ Silent(x.wire) /\ x.heard /\ x.sockets # {}
  /\ \A i \in 1 .. Len(x.wire) : x.wire[i].cmd = "resubscribe"

GivingUp(x) ==
  /\ ~x.subscribed /\ ~x.subscribing /\ x.unsubscribing
  /\ x.retries = {} /\ LastWaits(x.wire, "unsubscribe")
  /\ x.sockets # {} => x.resubscribe

Phase(x) == Resting(x) \/ Asking(x) \/ Kept(x) \/ GivingUp(x)

PhaseInv == stops = 0 => life = "running" /\ \A t \in Topics : Phase(topic[t])

TopicInv == RedisTypeOK /\ PhaseInv

-----------------------------------------------------------------------------
(* Queues of commands. *)

\* What Append() does to a queue that no command, or only the last one, waits in.
LEMMA AppendWire ==
  ASSUME NEW w \in Seq(Commands), NEW c \in Commands
  PROVE  /\ Append(w, c) \in Seq(Commands)
         /\ Silent(w) /\ c.waiting => LastWaits(Append(w, c), c.cmd)
         /\ Silent(w) /\ ~c.waiting => Silent(Append(w, c))
         /\ Len(Append(w, c)) = Len(w) + 1
         /\ Append(w, c)[Len(w) + 1] = c
         /\ \A i \in 1 .. Len(w) : Append(w, c)[i] = w[i]
<1> DEFINE v == Append(w, c)
<1>1. v \in Seq(Commands) /\ Len(v) = Len(w) + 1 /\ v[Len(w) + 1] = c
  OBVIOUS
<1>2. \A i \in 1 .. Len(w) : v[i] = w[i]
  OBVIOUS
<1> HIDE DEF v
<1>3. Len(w) \in Nat
  OBVIOUS
<1>4. Silent(w) /\ c.waiting => LastWaits(v, c.cmd)
  BY <1>1, <1>2, <1>3 DEF Silent, LastWaits
<1>5. Silent(w) /\ ~c.waiting => Silent(v)
  BY <1>1, <1>2, <1>3 DEF Silent
<1> QED  BY <1>1, <1>2, <1>4, <1>5 DEF v

\* What Tail() does to it.
LEMMA TailWire ==
  ASSUME NEW w \in Seq(Commands), w # <<>>
  PROVE  /\ Tail(w) \in Seq(Commands) /\ Head(w) \in Commands /\ Head(w) = w[1]
         /\ Len(w) > 0
         /\ Silent(w) => Silent(Tail(w)) /\ ~Head(w).waiting
         /\ \A cmd : LastWaits(w, cmd) =>
              /\ Head(w).waiting => Head(w).cmd = cmd /\ Tail(w) = <<>>
              /\ ~Head(w).waiting => LastWaits(Tail(w), cmd)
         /\ \A i \in 1 .. Len(Tail(w)) : i + 1 \in 1 .. Len(w) /\ Tail(w)[i] = w[i + 1]
<1> DEFINE v == Tail(w)
<1>1. v \in Seq(Commands) /\ Len(v) = Len(w) - 1 /\ Head(w) = w[1] /\ Head(w) \in Commands
  OBVIOUS
<1>2. Len(w) \in Nat /\ Len(w) > 0
  OBVIOUS
<1>3. \A i \in 1 .. Len(v) : i + 1 \in 1 .. Len(w) /\ v[i] = w[i + 1]
  BY <1>1, <1>2
<1>4. Len(v) = 0 => v = <<>>
  BY <1>1, EmptySeq
<1> HIDE DEF v
<1>5. Silent(w) => Silent(v) /\ ~Head(w).waiting
  BY <1>1, <1>2, <1>3 DEF Silent
<1>6. ASSUME NEW cmd, LastWaits(w, cmd)
      PROVE  /\ Head(w).waiting => Head(w).cmd = cmd /\ v = <<>>
             /\ ~Head(w).waiting => LastWaits(v, cmd)
  <2>1. CASE Len(w) = 1
    BY <2>1, <1>1, <1>4, <1>6 DEF LastWaits
  <2>2. CASE Len(w) > 1
    <3>1. ~Head(w).waiting
      BY <2>2, <1>1, <1>2, <1>6 DEF LastWaits
    <3>2. v[Len(v)] = w[Len(w)] /\ Len(v) > 0
      BY <2>2, <1>1, <1>2, <1>3
    <3>3. \A i \in 1 .. Len(v) - 1 : ~v[i].waiting
      BY <1>1, <1>2, <1>3, <1>6 DEF LastWaits
    <3> QED  BY <3>1, <3>2, <3>3, <1>6 DEF LastWaits
  <2>3. Len(w) = 1 \/ Len(w) > 1
    BY <1>2
  <2> QED  BY <2>1, <2>2, <2>3, Zenon
<1> QED  BY <1>1, <1>2, <1>3, <1>5, <1>6 DEF v

\* What the time limit of command i does to it.
LEMMA LimitWire ==
  ASSUME NEW w \in Seq(Commands), NEW i \in 1 .. Len(w), w[i].waiting
  PROVE  LET v == [w EXCEPT ![i] = [w[i] EXCEPT !.waiting = FALSE]]
         IN  /\ v \in Seq(Commands)
             /\ ~Silent(w)
             /\ \A cmd : LastWaits(w, cmd) => w[i].cmd = cmd /\ Silent(v)
<1> DEFINE v == [w EXCEPT ![i] = [w[i] EXCEPT !.waiting = FALSE]]
<1>0. w[i] \in Commands
  OBVIOUS
<1>1. [w[i] EXCEPT !.waiting = FALSE] \in Commands /\ ~[w[i] EXCEPT !.waiting = FALSE].waiting
  BY <1>0 DEF Commands
<1>2. v \in Seq(Commands) /\ Len(v) = Len(w) /\ Len(w) \in Nat
  BY <1>0, <1>1
<1>3. ~v[i].waiting /\ \A j \in 1 .. Len(w) : j # i => v[j] = w[j]
  BY <1>1
<1>4. ~Silent(w)
  BY DEF Silent
<1>5. ASSUME NEW cmd, LastWaits(w, cmd)
      PROVE  w[i].cmd = cmd /\ Silent(v)
  <2>1. i = Len(w)
    BY <1>2, <1>5 DEF LastWaits
  <2> QED  BY <2>1, <1>2, <1>3, <1>5 DEF LastWaits, Silent
<1> QED  BY <1>2, <1>4, <1>5

-----------------------------------------------------------------------------
(* What the provider does for a topic keeps its record well typed and, while *)
(* the provider runs, in one of the four phases.                             *)

LEMMA SendOk ==
  ASSUME NEW x \in TopicRecords, NEW c \in Commands
  PROVE  /\ Append(x.wire, c) \in Seq(Commands)
         /\ [x EXCEPT !.wire = Append(x.wire, c)] \in TopicRecords
<1>1. x.wire \in Seq(Commands)
  BY DEF TopicRecords
<1>2. Append(x.wire, c) \in Seq(Commands)
  BY <1>1, AppendWire
<1> QED  BY <1>2 DEF TopicRecords

LEMMA SubscribeOk ==
  ASSUME NEW x \in TopicRecords, NEW attempt \in 1 .. MaxAttempts
  PROVE  /\ SubscribeWithRetry(x, attempt) \in TopicRecords
         /\ /\ life = "running" /\ Silent(x.wire) /\ x.retries = {} /\ x.subscribing
            /\ ~x.subscribed /\ ~x.unsubscribing /\ ~x.resubscribe
            => Asking(SubscribeWithRetry(x, attempt))
<1> DEFINE c == [cmd |-> "subscribe", attempt |-> attempt, waiting |-> TRUE]
           y == [x EXCEPT !.wire = Append(x.wire, c)]
<1>0. MaxAttempts \in Nat
  BY RedisWsAssumption
<1>1. /\ Send(x, "subscribe", attempt, TRUE) = y /\ y \in TopicRecords
      /\ Append(x.wire, c) \in Seq(Commands) /\ c \in Commands
  <2>1. c \in Commands
    BY <1>0 DEF Commands
  <2>2. Send(x, "subscribe", attempt, TRUE) = y
    BY DEF Send
  <2>3. y \in TopicRecords /\ Append(x.wire, c) \in Seq(Commands)
    BY <2>1, SendOk
  <2> QED  BY <2>1, <2>2, <2>3
<1>2. [x EXCEPT !.subscribing = FALSE] \in TopicRecords
  BY DEF TopicRecords
<1>3. x.wire \in Seq(Commands)
  BY DEF TopicRecords
<1>4. Silent(x.wire) => LastWaits(y.wire, "subscribe")
  BY <1>1, <1>3, AppendWire DEF TopicRecords
<1>5. /\ y.retries = x.retries /\ y.subscribing = x.subscribing /\ y.subscribed = x.subscribed
      /\ y.unsubscribing = x.unsubscribing /\ y.resubscribe = x.resubscribe
  BY DEF TopicRecords
<1> HIDE DEF y
<1> QED  BY <1>1, <1>2, <1>4, <1>5 DEF SubscribeWithRetry, Asking

LEMMA StartOk ==
  ASSUME NEW x \in TopicRecords
  PROVE  /\ StartSubscribing(x) \in TopicRecords
         /\ /\ life = "running" /\ Silent(x.wire) /\ x.retries = {}
            /\ ~x.subscribed /\ ~x.unsubscribing /\ ~x.resubscribe
            => Asking(StartSubscribing(x))
<1> DEFINE y == [x EXCEPT !.subscribing = TRUE, !.gaveUp = FALSE]
<1>1. y \in TopicRecords /\ y.wire = x.wire /\ y.retries = x.retries /\ y.subscribing
      /\ y.subscribed = x.subscribed /\ y.unsubscribing = x.unsubscribing
      /\ y.resubscribe = x.resubscribe
  BY DEF TopicRecords
<1>2. 1 \in 1 .. MaxAttempts
  BY RedisWsAssumption
<1>3. StartSubscribing(x) = SubscribeWithRetry(y, 1)
  BY DEF StartSubscribing
<1> HIDE DEF y
<1> QED  BY <1>1, <1>2, <1>3, SubscribeOk

LEMMA UnsubscribeOk ==
  ASSUME NEW x \in TopicRecords
  PROVE  /\ UnsubscribeTracked(x) \in TopicRecords
         /\ /\ life = "running" /\ Silent(x.wire) /\ x.retries = {}
            /\ ~x.subscribed /\ ~x.subscribing /\ x.sockets = {}
            => GivingUp(UnsubscribeTracked(x))
<1> DEFINE c == [cmd |-> "unsubscribe", attempt |-> 0, waiting |-> TRUE]
           z == [x EXCEPT !.unsubscribing = TRUE]
           y == [z EXCEPT !.wire = Append(z.wire, c)]
<1>0. 0 \in 0 .. MaxAttempts
  BY RedisWsAssumption
<1>1. z \in TopicRecords /\ z.wire = x.wire /\ z.unsubscribing
      /\ z.retries = x.retries /\ z.sockets = x.sockets
      /\ z.subscribed = x.subscribed /\ z.subscribing = x.subscribing
  BY DEF TopicRecords
<1>2. x.wire \in Seq(Commands)
  BY DEF TopicRecords
<1>3. UnsubscribeTracked(x) = IF life = "running" THEN Send(z, "unsubscribe", 0, TRUE) ELSE x
  BY DEF UnsubscribeTracked
<1> HIDE DEF z
<1>4. /\ Send(z, "unsubscribe", 0, TRUE) = y /\ y \in TopicRecords /\ c \in Commands
  <2>1. c \in Commands
    BY <1>0 DEF Commands
  <2>2. Send(z, "unsubscribe", 0, TRUE) = y
    BY DEF Send
  <2>3. y \in TopicRecords
    BY <2>1, <1>1, SendOk
  <2> QED  BY <2>1, <2>2, <2>3
<1>5. Silent(x.wire) => LastWaits(y.wire, "unsubscribe")
  BY <1>1, <1>2, <1>4, AppendWire DEF TopicRecords
<1>6. /\ y.retries = x.retries /\ y.sockets = x.sockets /\ y.unsubscribing
      /\ y.subscribed = x.subscribed /\ y.subscribing = x.subscribing
  BY <1>1 DEF TopicRecords
<1> HIDE DEF y
<1> QED  BY <1>3, <1>4, <1>5, <1>6 DEF GivingUp

LEMMA JoinedOk ==
  ASSUME NEW x \in TopicRecords, NEW s \in Sockets
  PROVE  /\ Joined(x, s) \in TopicRecords
         /\ life = "running" /\ Phase(x) => Phase(Joined(x, s))
<1> DEFINE y == [x EXCEPT !.sockets = @ \union {s}]
           z == [y EXCEPT !.resubscribe = TRUE]
<1>1. y \in TopicRecords /\ y.sockets = x.sockets \union {s} /\ y.wire = x.wire
      /\ y.subscribed = x.subscribed /\ y.subscribing = x.subscribing
      /\ y.unsubscribing = x.unsubscribing /\ y.resubscribe = x.resubscribe
      /\ y.retries = x.retries /\ y.heard = x.heard /\ y.gaveUp = x.gaveUp
      /\ y.rejected = x.rejected
  BY DEF TopicRecords
<1>2. /\ x.sockets # {} => Joined(x, s) = y
      /\ x.sockets = {} /\ x.unsubscribing => Joined(x, s) = z
      /\ x.sockets = {} /\ ~x.unsubscribing /\ (x.subscribed \/ x.subscribing)
           => Joined(x, s) = y
      /\ x.sockets = {} /\ ~x.unsubscribing /\ ~x.subscribed /\ ~x.subscribing
           => Joined(x, s) = StartSubscribing(y)
  BY DEF Joined
<1> HIDE DEF y
<1>3. z \in TopicRecords /\ z.sockets = y.sockets /\ z.wire = y.wire
      /\ z.subscribed = y.subscribed /\ z.subscribing = y.subscribing
      /\ z.unsubscribing = y.unsubscribing /\ z.resubscribe
      /\ z.retries = y.retries
  BY <1>1 DEF TopicRecords
<1> HIDE DEF z
<1>4. Joined(x, s) \in TopicRecords
  BY <1>1, <1>2, <1>3, StartOk
<1>5. ASSUME life = "running", Phase(x)
      PROVE  Phase(Joined(x, s))
  <2>1. CASE Resting(x)
    <3>1. x.sockets # {} => Resting(y)
      BY <2>1, <1>1 DEF Resting
    <3>2. x.sockets = {} => Asking(StartSubscribing(y))
      BY <2>1, <1>1, <1>5, StartOk DEF Resting
    <3> QED  BY <3>1, <3>2, <2>1, <1>2 DEF Phase, Resting
  <2>2. CASE Asking(x)
    BY <2>2, <1>1, <1>2 DEF Asking, Phase
  <2>3. CASE Kept(x)
    BY <2>3, <1>1, <1>2 DEF Kept, Phase
  <2>4. CASE GivingUp(x)
    <3>1. x.sockets # {} => GivingUp(y)
      BY <2>4, <1>1 DEF GivingUp
    <3>2. GivingUp(z)
      BY <2>4, <1>1, <1>3 DEF GivingUp
    <3> QED  BY <3>1, <3>2, <2>4, <1>2 DEF Phase, GivingUp
  <2> QED  BY <2>1, <2>2, <2>3, <2>4, <1>5 DEF Phase
<1> QED  BY <1>4, <1>5

LEMMA LeftOk ==
  ASSUME NEW x \in TopicRecords, NEW s \in Sockets
  PROVE  /\ Left(x, s) \in TopicRecords
         /\ life = "running" /\ Phase(x) => Phase(Left(x, s))
<1> DEFINE y == [x EXCEPT !.sockets = @ \ {s}]
           z == [y EXCEPT !.subscribed = FALSE]
<1>1. y \in TopicRecords /\ y.sockets = x.sockets \ {s} /\ y.wire = x.wire
      /\ y.subscribed = x.subscribed /\ y.subscribing = x.subscribing
      /\ y.unsubscribing = x.unsubscribing /\ y.resubscribe = x.resubscribe
      /\ y.retries = x.retries /\ y.heard = x.heard /\ y.gaveUp = x.gaveUp
      /\ y.rejected = x.rejected
  BY DEF TopicRecords
<1>2. /\ y.sockets = {} /\ x.subscribed => Left(x, s) = UnsubscribeTracked(z)
      /\ ~(y.sockets = {} /\ x.subscribed) => Left(x, s) = y
  BY DEF Left
<1> HIDE DEF y
<1>3. z \in TopicRecords /\ z.sockets = y.sockets /\ z.wire = y.wire
      /\ ~z.subscribed /\ z.subscribing = y.subscribing /\ z.retries = y.retries
  BY <1>1 DEF TopicRecords
<1> HIDE DEF z
<1>4. Left(x, s) \in TopicRecords
  BY <1>1, <1>2, <1>3, UnsubscribeOk
<1>5. ASSUME life = "running", Phase(x)
      PROVE  Phase(Left(x, s))
  <2>1. CASE Resting(x)
    BY <2>1, <1>1, <1>2 DEF Resting, Phase
  <2>2. CASE Asking(x)
    BY <2>2, <1>1, <1>2 DEF Asking, Phase
  <2>3. CASE Kept(x)
    <3>1. y.sockets = {} => GivingUp(UnsubscribeTracked(z))
      BY <2>3, <1>1, <1>3, <1>5, UnsubscribeOk DEF Kept
    <3>2. y.sockets # {} => Kept(y)
      BY <2>3, <1>1 DEF Kept
    <3> QED  BY <3>1, <3>2, <2>3, <1>2 DEF Phase, Kept
  <2>4. CASE GivingUp(x)
    BY <2>4, <1>1, <1>2 DEF GivingUp, Phase
  <2> QED  BY <2>1, <2>2, <2>3, <2>4, <1>5 DEF Phase
<1> QED  BY <1>4, <1>5

LEMMA SubscribedOk ==
  ASSUME NEW x \in TopicRecords
  PROVE  /\ Subscribed(x) \in TopicRecords
         /\ /\ life = "running" /\ x.wire = <<>> /\ x.heard /\ x.retries = {}
            /\ ~x.subscribed /\ ~x.unsubscribing /\ ~x.resubscribe
            => Phase(Subscribed(x))
<1> DEFINE y == [x EXCEPT !.subscribing = FALSE]
           z == [y EXCEPT !.subscribed = TRUE]
<1>1. y \in TopicRecords /\ y.sockets = x.sockets /\ y.wire = x.wire
      /\ y.subscribed = x.subscribed /\ ~y.subscribing
      /\ y.unsubscribing = x.unsubscribing /\ y.resubscribe = x.resubscribe
      /\ y.retries = x.retries /\ y.heard = x.heard
  BY DEF TopicRecords
<1>2. /\ x.sockets = {} => Subscribed(x) = UnsubscribeTracked(y)
      /\ x.sockets # {} => Subscribed(x) = z
  BY DEF Subscribed
<1> HIDE DEF y
<1>3. z \in TopicRecords /\ z.sockets = y.sockets /\ z.wire = y.wire
      /\ z.subscribed /\ z.subscribing = y.subscribing
      /\ z.unsubscribing = y.unsubscribing /\ z.resubscribe = y.resubscribe
      /\ z.retries = y.retries /\ z.heard = y.heard
  BY <1>1 DEF TopicRecords
<1> HIDE DEF z
<1>4. x.wire = <<>> => Silent(x.wire) /\ Len(x.wire) = 0
  BY DEF Silent
<1>5. ASSUME life = "running", x.wire = <<>>, x.heard, x.retries = {},
             ~x.subscribed, ~x.unsubscribing, ~x.resubscribe
      PROVE  Phase(Subscribed(x))
  <2>1. x.sockets = {} => GivingUp(UnsubscribeTracked(y))
    BY <1>1, <1>4, <1>5, UnsubscribeOk
  <2>2. x.sockets # {} => Kept(z)
    BY <1>1, <1>3, <1>4, <1>5 DEF Kept
  <2> QED  BY <2>1, <2>2, <1>2 DEF Phase
<1> QED  BY <1>1, <1>2, <1>3, <1>5, UnsubscribeOk

LEMMA UnsubscribedOk ==
  ASSUME NEW x \in TopicRecords
  PROVE  /\ Unsubscribed(x) \in TopicRecords
         /\ /\ life = "running" /\ Silent(x.wire) /\ x.retries = {}
            /\ ~x.subscribed /\ ~x.subscribing
            /\ x.sockets # {} => x.resubscribe
            /\ ~x.rejected => x.wire = <<>> /\ ~x.heard
            => Phase(Unsubscribed(x))
<1> DEFINE y == [x EXCEPT !.unsubscribing = FALSE, !.resubscribe = FALSE]
<1>1. y \in TopicRecords /\ y.sockets = x.sockets /\ y.wire = x.wire
      /\ y.subscribed = x.subscribed /\ y.subscribing = x.subscribing
      /\ ~y.unsubscribing /\ ~y.resubscribe /\ y.rejected = x.rejected
      /\ y.retries = x.retries /\ y.heard = x.heard
  BY DEF TopicRecords
<1>2. /\ x.resubscribe /\ x.sockets # {} => Unsubscribed(x) = StartSubscribing(y)
      /\ ~(x.resubscribe /\ x.sockets # {}) => Unsubscribed(x) = y
  BY DEF Unsubscribed
<1> HIDE DEF y
<1>3. ASSUME life = "running", Silent(x.wire), x.retries = {}, ~x.subscribed,
             ~x.subscribing, x.sockets # {} => x.resubscribe,
             ~x.rejected => x.wire = <<>> /\ ~x.heard
      PROVE  Phase(Unsubscribed(x))
  <2>1. Asking(StartSubscribing(y))
    BY <1>1, <1>3, StartOk
  <2>2. x.sockets = {} => Resting(y)
    BY <1>1, <1>3 DEF Resting
  <2> QED  BY <2>1, <2>2, <1>2, <1>3 DEF Phase
<1> QED  BY <1>1, <1>2, <1>3, StartOk

LEMMA NotSubscribedOk ==
  ASSUME NEW x \in TopicRecords, NEW attempt \in 0 .. MaxAttempts
  PROVE  /\ NotSubscribed(x, attempt) \in TopicRecords
         /\ /\ Silent(x.wire) /\ x.retries = {} /\ x.subscribing
            /\ ~x.subscribed /\ ~x.unsubscribing /\ ~x.resubscribe
            => Phase(NotSubscribed(x, attempt))
<1> DEFINE y == [x EXCEPT !.retries = @ \union {attempt + 1}, !.rejected = TRUE]
           z == [x EXCEPT !.subscribing = FALSE, !.gaveUp = TRUE, !.rejected = TRUE]
<1>0. MaxAttempts \in Nat
  BY RedisWsAssumption
<1>1. attempt < MaxAttempts => attempt + 1 \in 1 .. MaxAttempts
  BY <1>0
<1>2. attempt < MaxAttempts =>
        /\ y \in TopicRecords /\ y.retries = x.retries \union {attempt + 1} /\ y.rejected
        /\ y.wire = x.wire /\ y.subscribing = x.subscribing
        /\ y.subscribed = x.subscribed /\ y.unsubscribing = x.unsubscribing
        /\ y.resubscribe = x.resubscribe
  BY <1>1 DEF TopicRecords
<1>3. /\ z \in TopicRecords /\ z.retries = x.retries /\ z.rejected /\ z.gaveUp
      /\ z.wire = x.wire /\ ~z.subscribing
      /\ z.subscribed = x.subscribed /\ z.unsubscribing = x.unsubscribing
      /\ z.resubscribe = x.resubscribe
  BY DEF TopicRecords
<1>4. NotSubscribed(x, attempt) = IF attempt < MaxAttempts THEN y ELSE z
  BY DEF NotSubscribed
<1> HIDE DEF y, z
<1>5. ASSUME Silent(x.wire), x.retries = {}, x.subscribing,
             ~x.subscribed, ~x.unsubscribing, ~x.resubscribe
      PROVE  Phase(NotSubscribed(x, attempt))
  <2>1. attempt < MaxAttempts => y.retries = {attempt + 1}
    BY <1>2, <1>5
  <2>2. attempt < MaxAttempts => Asking(y)
    BY <2>1, <1>1, <1>2, <1>5 DEF Asking
  <2>3. Resting(z)
    BY <1>3, <1>5 DEF Resting
  <2> QED  BY <2>2, <2>3, <1>4 DEF Phase
<1> QED  BY <1>2, <1>3, <1>4, <1>5

\* A command that is answered.
LEMMA ExecuteOk ==
  ASSUME NEW x \in TopicRecords, x.wire # <<>>,
         NEW y, y = [x EXCEPT !.wire = Tail(@), !.heard = Subscribes(Head(x.wire))]
  PROVE  /\ y \in TopicRecords /\ Answered(y, Head(x.wire)) \in TopicRecords
         /\ life = "running" /\ Phase(x) => Phase(Answered(y, Head(x.wire)))
<1> DEFINE c == Head(x.wire)
<1>1. x.wire \in Seq(Commands)
  BY DEF TopicRecords
<1>2. /\ Tail(x.wire) \in Seq(Commands) /\ c \in Commands /\ c = x.wire[1] /\ Len(x.wire) > 0
      /\ Silent(x.wire) => Silent(Tail(x.wire)) /\ ~c.waiting
      /\ \A cmd : LastWaits(x.wire, cmd) =>
           /\ c.waiting => c.cmd = cmd /\ Tail(x.wire) = <<>>
           /\ ~c.waiting => LastWaits(Tail(x.wire), cmd)
      /\ \A i \in 1 .. Len(Tail(x.wire)) :
           i + 1 \in 1 .. Len(x.wire) /\ Tail(x.wire)[i] = x.wire[i + 1]
  BY <1>1, TailWire
<1>3. Subscribes(c) \in BOOLEAN
  BY DEF Subscribes
<1> HIDE DEF c
<1>4. y = [x EXCEPT !.wire = Tail(x.wire), !.heard = Subscribes(c)]
  BY DEF c
<1>5. y \in TopicRecords /\ y.wire = Tail(x.wire) /\ (y.heard <=> Subscribes(c))
      /\ y.sockets = x.sockets /\ y.subscribed = x.subscribed
      /\ y.subscribing = x.subscribing /\ y.unsubscribing = x.unsubscribing
      /\ y.resubscribe = x.resubscribe /\ y.retries = x.retries
      /\ y.gaveUp = x.gaveUp /\ y.rejected = x.rejected
  BY <1>2, <1>3, <1>4 DEF TopicRecords
<1>6. /\ ~c.waiting => Answered(y, c) = y
      /\ c.waiting /\ c.cmd = "subscribe" => Answered(y, c) = Subscribed(y)
      /\ c.waiting /\ c.cmd = "unsubscribe" => Answered(y, c) = Unsubscribed(y)
      /\ c.waiting /\ c.cmd \notin {"subscribe", "unsubscribe"} => Answered(y, c) = y
  BY DEF Answered
<1>7. Answered(y, c) \in TopicRecords
  BY <1>5, <1>6, SubscribedOk, UnsubscribedOk
<1>8. ASSUME life = "running", Phase(x)
      PROVE  Phase(Answered(y, c))
  <2>1. CASE Resting(x)
    <3>1. Resting(y) /\ ~c.waiting
      BY <2>1, <1>2, <1>5 DEF Resting
    <3> QED  BY <3>1, <1>6 DEF Phase
  <2>2. CASE Asking(x) /\ ~c.waiting
    <3>1. Asking(y)
      BY <2>2, <1>2, <1>5 DEF Asking
    <3> QED  BY <3>1, <2>2, <1>6 DEF Phase
  <2>3. CASE Asking(x) /\ c.waiting
    <3>1. c.cmd = "subscribe" /\ y.wire = <<>> /\ x.retries = {}
      BY <2>3, <1>2, <1>5 DEF Asking
    <3>2. y.heard
      BY <3>1, <1>5 DEF Subscribes
    <3>3. Phase(Subscribed(y))
      BY <2>3, <3>1, <3>2, <1>5, <1>8, SubscribedOk DEF Asking
    <3> QED  BY <3>1, <3>3, <2>3, <1>6
  <2>4. CASE Kept(x)
    <3>1. c.cmd = "resubscribe" /\ ~c.waiting
      BY <2>4, <1>1, <1>2 DEF Kept
    <3>2. y.heard
      BY <3>1, <1>5 DEF Subscribes
    <3>3. Kept(y)
      BY <2>4, <3>2, <1>2, <1>5 DEF Kept
    <3> QED  BY <3>1, <3>3, <1>6 DEF Phase
  <2>5. CASE GivingUp(x) /\ ~c.waiting
    <3>1. GivingUp(y)
      BY <2>5, <1>2, <1>5 DEF GivingUp
    <3> QED  BY <3>1, <2>5, <1>6 DEF Phase
  <2>6. CASE GivingUp(x) /\ c.waiting
    <3>1. c.cmd = "unsubscribe" /\ y.wire = <<>>
      BY <2>6, <1>2, <1>5 DEF GivingUp
    <3>2. ~y.heard /\ Silent(y.wire)
      BY <3>1, <1>5 DEF Subscribes, Silent
    <3>3. Phase(Unsubscribed(y))
      BY <2>6, <3>1, <3>2, <1>5, <1>8, UnsubscribedOk DEF GivingUp
    <3> QED  BY <3>1, <3>3, <2>6, <1>6
  <2> QED  BY <2>1, <2>2, <2>3, <2>4, <2>5, <2>6, <1>8 DEF Phase
<1> QED  BY <1>5, <1>7, <1>8 DEF c

\* A command that is rejected while it waits, and that either leaves the queue or stays in
\* it: y is the topic without it, or with it waiting no more.
LEMMA RefusedOk ==
  ASSUME NEW x \in TopicRecords, NEW y \in TopicRecords, NEW c \in Commands, c.waiting,
         y = [x EXCEPT !.wire = y.wire]
  PROVE  /\ Refused(y, c) \in TopicRecords
         /\ /\ life = "running" /\ Phase(x) /\ ~Silent(x.wire) /\ Silent(y.wire)
            /\ \A cmd : LastWaits(x.wire, cmd) => c.cmd = cmd
            => Phase(Refused(y, c))
<1> DEFINE z == [y EXCEPT !.rejected = TRUE]
<1>1. y.sockets = x.sockets /\ y.subscribed = x.subscribed /\ y.heard = x.heard
      /\ y.subscribing = x.subscribing /\ y.unsubscribing = x.unsubscribing
      /\ y.resubscribe = x.resubscribe /\ y.retries = x.retries
      /\ y.gaveUp = x.gaveUp /\ y.rejected = x.rejected
  BY DEF TopicRecords
<1>2. z \in TopicRecords /\ z.rejected /\ z.wire = y.wire /\ z.sockets = y.sockets
      /\ z.subscribed = y.subscribed /\ z.subscribing = y.subscribing
      /\ z.resubscribe = y.resubscribe /\ z.retries = y.retries
  BY DEF TopicRecords
<1>3. c.attempt \in 0 .. MaxAttempts
  BY DEF Commands
<1>4. /\ c.cmd = "subscribe" => Refused(y, c) = NotSubscribed(y, c.attempt)
      /\ c.cmd = "unsubscribe" => Refused(y, c) = Unsubscribed(z)
      /\ c.cmd \notin {"subscribe", "unsubscribe"} => Refused(y, c) = z
  BY DEF Refused
<1> HIDE DEF z
<1>5. Refused(y, c) \in TopicRecords
  BY <1>2, <1>3, <1>4, NotSubscribedOk, UnsubscribedOk
<1>6. ASSUME life = "running", Phase(x), ~Silent(x.wire), Silent(y.wire),
             \A cmd : LastWaits(x.wire, cmd) => c.cmd = cmd
      PROVE  Phase(Refused(y, c))
  <2>1. CASE Asking(x)
    <3>1. c.cmd = "subscribe" /\ x.retries = {}
      BY <2>1, <1>6 DEF Asking
    <3>2. Phase(NotSubscribed(y, c.attempt))
      BY <2>1, <3>1, <1>1, <1>3, <1>6, NotSubscribedOk DEF Asking
    <3> QED  BY <3>1, <3>2, <1>4
  <2>2. CASE GivingUp(x)
    <3>1. c.cmd = "unsubscribe"
      BY <2>2, <1>6 DEF GivingUp
    <3>2. Phase(Unsubscribed(z))
      BY <2>2, <1>1, <1>2, <1>6, UnsubscribedOk DEF GivingUp
    <3> QED  BY <3>1, <3>2, <1>4
  <2> QED  BY <2>1, <2>2, <1>6 DEF Phase, Resting, Kept
<1> QED  BY <1>5, <1>6

\* A command whose time limit runs out stays in the queue.
LEMMA LimitOk ==
  ASSUME NEW x \in TopicRecords, NEW i \in DOMAIN x.wire, x.wire[i].waiting,
         NEW y, y = [x EXCEPT !.wire[i].waiting = FALSE]
  PROVE  /\ Refused(y, x.wire[i]) \in TopicRecords
         /\ life = "running" /\ Phase(x) => Phase(Refused(y, x.wire[i]))
<1> DEFINE v == [x.wire EXCEPT ![i] = [x.wire[i] EXCEPT !.waiting = FALSE]]
<1>1. x.wire \in Seq(Commands) /\ i \in 1 .. Len(x.wire)
  BY DEF TopicRecords
<1>2. x.wire[i] \in Commands
  BY <1>1
<1>3. v \in Seq(Commands) /\ ~Silent(x.wire)
      /\ \A cmd : LastWaits(x.wire, cmd) => x.wire[i].cmd = cmd /\ Silent(v)
  BY <1>1, LimitWire
<1>4. y = [x EXCEPT !.wire = v]
  BY DEF TopicRecords
<1> HIDE DEF v
<1>5. y \in TopicRecords /\ y.wire = v
  BY <1>3, <1>4 DEF TopicRecords
<1>6. Phase(x) => Silent(v)
  BY <1>3 DEF Phase, Resting, Asking, Kept, GivingUp
<1>7. y = [x EXCEPT !.wire = y.wire]
  BY <1>4, <1>5
<1>8. Phase(x) => \A cmd : LastWaits(x.wire, cmd) => x.wire[i].cmd = cmd
  BY <1>3
<1> QED  BY <1>2, <1>3, <1>5, <1>6, <1>7, <1>8, RefusedOk

\* A command that is dropped leaves it.
LEMMA DropOk ==
  ASSUME NEW x \in TopicRecords, x.wire # <<>>,
         NEW y, y = [x EXCEPT !.wire = Tail(@)]
  PROVE  /\ Refused(y, Head(x.wire)) \in TopicRecords
         /\ life = "running" /\ Phase(x) => Phase(Refused(y, Head(x.wire)))
<1> DEFINE c == Head(x.wire)
<1>1. x.wire \in Seq(Commands)
  BY DEF TopicRecords
<1>2. /\ Tail(x.wire) \in Seq(Commands) /\ c \in Commands /\ c = x.wire[1] /\ Len(x.wire) > 0
      /\ Silent(x.wire) => Silent(Tail(x.wire)) /\ ~c.waiting
      /\ \A cmd : LastWaits(x.wire, cmd) =>
           /\ c.waiting => c.cmd = cmd /\ Tail(x.wire) = <<>>
           /\ ~c.waiting => LastWaits(Tail(x.wire), cmd)
      /\ \A i \in 1 .. Len(Tail(x.wire)) :
           i + 1 \in 1 .. Len(x.wire) /\ Tail(x.wire)[i] = x.wire[i + 1]
  BY <1>1, TailWire
<1>3. y = [x EXCEPT !.wire = Tail(x.wire)]
  OBVIOUS
<1> HIDE DEF c
<1>4. y \in TopicRecords /\ y.wire = Tail(x.wire)
      /\ y.sockets = x.sockets /\ y.subscribed = x.subscribed /\ y.heard = x.heard
      /\ y.subscribing = x.subscribing /\ y.unsubscribing = x.unsubscribing
      /\ y.resubscribe = x.resubscribe /\ y.retries = x.retries
      /\ y.gaveUp = x.gaveUp /\ y.rejected = x.rejected
  BY <1>2, <1>3 DEF TopicRecords
<1>5. CASE ~c.waiting
  <2>1. Refused(y, c) = y
    BY <1>5 DEF Refused
  <2>2. Resting(x) => Resting(y)
    BY <1>2, <1>4 DEF Resting
  <2>3. Asking(x) => Asking(y)
    BY <1>2, <1>4, <1>5 DEF Asking
  <2>4. Kept(x) => Kept(y)
    BY <1>2, <1>4 DEF Kept
  <2>5. GivingUp(x) => GivingUp(y)
    BY <1>2, <1>4, <1>5 DEF GivingUp
  <2> QED  BY <2>1, <2>2, <2>3, <2>4, <2>5, <1>4 DEF Phase, c
<1>6. CASE c.waiting
  <2>1. ~Silent(x.wire) /\ \A cmd : LastWaits(x.wire, cmd) => c.cmd = cmd /\ Tail(x.wire) = <<>>
    BY <1>2, <1>6
  <2>2. Phase(x) => Silent(y.wire)
    BY <2>1, <1>4 DEF Phase, Resting, Asking, Kept, GivingUp, Silent
  <2> QED  BY <2>1, <2>2, <1>2, <1>3, <1>4, <1>6, RefusedOk DEF c
<1> QED  BY <1>5, <1>6

\* The subscription after a reconnection. (resubscribeAll)
LEMMA ResubscribeOk ==
  ASSUME NEW x \in TopicRecords
  PROVE  /\ Send(x, "resubscribe", 0, FALSE) \in TopicRecords
         /\ Phase(x) /\ x.subscribed => Phase(Send(x, "resubscribe", 0, FALSE))
<1> DEFINE c == [cmd |-> "resubscribe", attempt |-> 0, waiting |-> FALSE]
           y == [x EXCEPT !.wire = Append(x.wire, c)]
<1>1. c \in Commands /\ ~c.waiting /\ c.cmd = "resubscribe"
  BY RedisWsAssumption DEF Commands
<1>2. Send(x, "resubscribe", 0, FALSE) = y
  BY DEF Send
<1>3. x.wire \in Seq(Commands)
  BY DEF TopicRecords
<1> HIDE DEF c
<1>4. y \in TopicRecords
  BY <1>1, SendOk
<1>5. y.wire = Append(x.wire, c)
      /\ y.sockets = x.sockets /\ y.subscribed = x.subscribed /\ y.heard = x.heard
      /\ y.subscribing = x.subscribing /\ y.unsubscribing = x.unsubscribing
      /\ y.resubscribe = x.resubscribe /\ y.retries = x.retries
  BY DEF TopicRecords
<1>6. /\ Silent(x.wire) => Silent(y.wire)
      /\ Len(y.wire) = Len(x.wire) + 1 /\ Len(x.wire) \in Nat
      /\ y.wire[Len(x.wire) + 1] = c
      /\ \A i \in 1 .. Len(x.wire) : y.wire[i] = x.wire[i]
  BY <1>1, <1>3, <1>5, AppendWire
<1> HIDE DEF y
<1>7. Kept(x) => \A i \in 1 .. Len(y.wire) : y.wire[i].cmd = "resubscribe"
  BY <1>1, <1>6, SMTT(30) DEF Kept
<1>8. Kept(x) => Kept(y)
  BY <1>5, <1>6, <1>7 DEF Kept
<1> QED  BY <1>2, <1>4, <1>8 DEF Phase, Resting, Asking, GivingUp

\* A timer that fires.
LEMMA RetryOk ==
  ASSUME NEW x \in TopicRecords, NEW attempt \in x.retries,
         NEW y, y = [x EXCEPT !.retries = @ \ {attempt}]
  PROVE  /\ SubscribeWithRetry(y, attempt) \in TopicRecords
         /\ life = "running" /\ Phase(x) => Phase(SubscribeWithRetry(y, attempt))
<1>1. attempt \in 1 .. MaxAttempts
  BY DEF TopicRecords
<1>2. y \in TopicRecords /\ y.wire = x.wire /\ y.retries = x.retries \ {attempt}
      /\ y.subscribed = x.subscribed /\ y.subscribing = x.subscribing
      /\ y.unsubscribing = x.unsubscribing /\ y.resubscribe = x.resubscribe
  BY DEF TopicRecords
<1>3. Phase(x) => Asking(x) /\ Silent(x.wire) /\ y.retries = {}
  BY <1>2 DEF Phase, Resting, Asking, Kept, GivingUp
<1> QED  BY <1>1, <1>2, <1>3, SubscribeOk DEF Asking, Phase

\* stop()'s unsubscription, and what it clears.
LEMMA StopOk ==
  ASSUME NEW x \in TopicRecords
  PROVE  /\ Send(x, "leave", 0, TRUE) \in TopicRecords
         /\ Cleared(x) \in TopicRecords
         /\ [x EXCEPT !.sockets = {}, !.heard = FALSE] \in TopicRecords
<1>1. [cmd |-> "leave", attempt |-> 0, waiting |-> TRUE] \in Commands
  BY RedisWsAssumption DEF Commands
<1>2. Send(x, "leave", 0, TRUE) \in TopicRecords
  BY <1>1, SendOk DEF Send
<1>3. Cleared(x) \in TopicRecords
  BY DEF Cleared, TopicRecords
<1> QED  BY <1>2, <1>3 DEF TopicRecords

-----------------------------------------------------------------------------
(* The invariant. *)

LEMMA InitOk == RedisInit => TopicInv
<1> SUFFICES ASSUME RedisInit PROVE TopicInv
  OBVIOUS
<1>1. NoTopic \in TopicRecords
  BY EmptySeq DEF NoTopic, TopicRecords
<1>2. Resting(NoTopic)
  BY DEF NoTopic, Resting, Silent
<1>3. RedisTypeOK
  <2>1. topic \in [Topics -> TopicRecords]
    BY <1>1 DEF RedisInit
  <2>2. faults \in 0 .. MaxFaults /\ stops \in 0 .. MaxStops
    BY RedisWsAssumption DEF RedisInit
  <2> QED  BY <2>1, <2>2 DEF RedisInit, RedisTypeOK
<1> QED  BY <1>2, <1>3 DEF RedisInit, TopicInv, PhaseInv, Phase

\* A step that changes one topic, and nothing of the provider's life.
LEMMA ChangeOk ==
  ASSUME TopicInv, NEW t \in Topics, NEW x \in TopicRecords, Change(t, x),
         life = "running" /\ Phase(topic[t]) => Phase(x),
         UNCHANGED <<life, online, stops>>, faults' \in 0 .. MaxFaults
  PROVE  TopicInv'
<1>1. RedisTypeOK'
  BY DEF TopicInv, RedisTypeOK, Change
<1>2. topic'[t] = x /\ \A u \in Topics : u # t => topic'[u] = topic[u]
  BY DEF TopicInv, RedisTypeOK, Change
<1>3. stops' = 0 => stops = 0 /\ life' = life /\ life = "running" /\ \A u \in Topics : Phase(topic[u])
  BY DEF TopicInv, PhaseInv
<1>4. PhaseInv'
  BY <1>2, <1>3 DEF PhaseInv
<1> QED  BY <1>1, <1>4 DEF TopicInv

\* A step that changes every topic, and nothing of the provider's life.
LEMMA ChangeAllOk ==
  ASSUME TopicInv, UNCHANGED <<life, stops>>, online' \in BOOLEAN, faults' \in 0 .. MaxFaults,
         DOMAIN topic' = Topics, topic' = [t \in Topics |-> topic'[t]],
         \A t \in Topics : topic'[t] \in TopicRecords
                         /\ (life = "running" /\ Phase(topic[t]) => Phase(topic'[t]))
  PROVE  TopicInv'
<1>1. RedisTypeOK'
  BY DEF TopicInv, RedisTypeOK
<1>2. stops' = 0 => stops = 0 /\ life' = life /\ life = "running" /\ \A u \in Topics : Phase(topic[u])
  BY DEF TopicInv, PhaseInv
<1>3. PhaseInv'
  BY <1>2 DEF PhaseInv
<1> QED  BY <1>1, <1>3 DEF TopicInv

LEMMA NextOk == TopicInv /\ [RedisNext]_redisVars => TopicInv'
<1> SUFFICES ASSUME TopicInv, [RedisNext]_redisVars PROVE TopicInv'
  OBVIOUS
<1> USE RedisWsAssumption
<1>0. /\ topic \in [Topics -> TopicRecords] /\ faults \in 0 .. MaxFaults /\ stops \in 0 .. MaxStops
      /\ \A t \in Topics : topic[t] \in TopicRecords
  BY DEF TopicInv, RedisTypeOK
<1>1. ASSUME NEW s \in Sockets, NEW t \in Topics, Join(s, t) PROVE TopicInv'
  <2>1. Change(t, Joined(topic[t], s)) /\ UNCHANGED <<life, online, faults, stops>>
    BY <1>1 DEF Join
  <2> QED  BY <2>1, <1>0, JoinedOk, ChangeOk
<1>2. ASSUME NEW s \in Sockets, NEW t \in Topics, Leave(s, t) PROVE TopicInv'
  <2>1. Change(t, Left(topic[t], s)) /\ UNCHANGED <<life, online, faults, stops>>
    BY <1>2 DEF Leave
  <2> QED  BY <2>1, <1>0, LeftOk, ChangeOk
<1>3. ASSUME NEW s \in Sockets, Disconnect(s) PROVE TopicInv'
  <2>1. UNCHANGED <<life, online, faults, stops>> /\ online \in BOOLEAN
    BY <1>3 DEF Disconnect, TopicInv, RedisTypeOK
  <2>2. topic' = [t \in Topics |-> IF s \in topic[t].sockets THEN Left(topic[t], s) ELSE topic[t]]
    BY <1>3 DEF Disconnect
  <2>3. DOMAIN topic' = Topics /\ topic' = [t \in Topics |-> topic'[t]]
    BY <2>2
  <2>4. \A t \in Topics : topic'[t] \in TopicRecords
                        /\ (life = "running" /\ Phase(topic[t]) => Phase(topic'[t]))
    BY <2>2, <1>0, LeftOk
  <2> QED  BY <2>1, <2>3, <2>4, <1>0, ChangeAllOk
<1>4. ASSUME NEW t \in Topics, Execute(t) PROVE TopicInv'
  <2> DEFINE y == [topic[t] EXCEPT !.wire = Tail(@), !.heard = Subscribes(Head(topic[t].wire))]
  <2>1. topic[t].wire # <<>> /\ Change(t, Answered(y, Head(topic[t].wire)))
        /\ UNCHANGED <<life, online, faults, stops>>
    BY <1>4 DEF Execute
  <2>2. Answered(y, Head(topic[t].wire)) \in TopicRecords
        /\ (life = "running" /\ Phase(topic[t]) => Phase(Answered(y, Head(topic[t].wire))))
    BY <2>1, <1>0, ExecuteOk
  <2> HIDE DEF y
  <2> QED  BY <2>1, <2>2, <1>0, ChangeOk
<1>5. ASSUME NEW t \in Topics, TimeLimit(t) PROVE TopicInv'
  <2>1. PICK i \in DOMAIN topic[t].wire :
          topic[t].wire[i].waiting
          /\ Change(t, Refused([topic[t] EXCEPT !.wire[i].waiting = FALSE], topic[t].wire[i]))
    BY <1>5 DEF TimeLimit
  <2> DEFINE y == [topic[t] EXCEPT !.wire[i].waiting = FALSE]
  <2>2. UNCHANGED <<life, online, stops>> /\ faults' \in 0 .. MaxFaults
    BY <1>5, <1>0 DEF TimeLimit
  <2>3. Refused(y, topic[t].wire[i]) \in TopicRecords
        /\ (life = "running" /\ Phase(topic[t]) => Phase(Refused(y, topic[t].wire[i])))
    BY <2>1, <1>0, LimitOk
  <2> HIDE DEF y
  <2>4. Change(t, Refused(y, topic[t].wire[i]))
    BY <2>1 DEF y
  <2> QED  BY <2>2, <2>3, <2>4, ChangeOk
<1>6. ASSUME NEW t \in Topics, Drop(t) PROVE TopicInv'
  <2> DEFINE y == [topic[t] EXCEPT !.wire = Tail(@)]
  <2>1. topic[t].wire # <<>> /\ Change(t, Refused(y, Head(topic[t].wire)))
        /\ UNCHANGED <<life, online, stops>> /\ faults' \in 0 .. MaxFaults
    BY <1>6, <1>0 DEF Drop
  <2>2. Refused(y, Head(topic[t].wire)) \in TopicRecords
        /\ (life = "running" /\ Phase(topic[t]) => Phase(Refused(y, Head(topic[t].wire))))
    BY <2>1, <1>0, DropOk
  <2> HIDE DEF y
  <2> QED  BY <2>1, <2>2, ChangeOk
<1>7. ASSUME NEW t \in Topics, Retry(t) PROVE TopicInv'
  <2>1. PICK attempt \in topic[t].retries :
          Change(t, SubscribeWithRetry([topic[t] EXCEPT !.retries = @ \ {attempt}], attempt))
    BY <1>7 DEF Retry
  <2>2. UNCHANGED <<life, online, faults, stops>>
    BY <1>7 DEF Retry
  <2> DEFINE y == [topic[t] EXCEPT !.retries = @ \ {attempt}]
  <2>3. SubscribeWithRetry(y, attempt) \in TopicRecords
        /\ (life = "running" /\ Phase(topic[t]) => Phase(SubscribeWithRetry(y, attempt)))
    BY <1>0, RetryOk
  <2> HIDE DEF y
  <2>4. Change(t, SubscribeWithRetry(y, attempt))
    BY <2>1 DEF y
  <2> QED  BY <2>2, <2>3, <2>4, <1>0, ChangeOk
<1>8. CASE LoseConnection
  <2>1. UNCHANGED <<topic, life, stops>> /\ online' \in BOOLEAN
    BY <1>8 DEF LoseConnection
  <2>2. faults' \in 0 .. MaxFaults
    BY <1>8, <1>0 DEF LoseConnection
  <2> QED  BY <2>1, <2>2, <1>0, ChangeAllOk
<1>9. CASE Ready
  <2>1. UNCHANGED <<life, faults, stops>> /\ online' \in BOOLEAN
    BY <1>9 DEF Ready
  <2>2. topic' = [t \in Topics |-> IF life = "running" /\ topic[t].subscribed
                                   THEN Send(topic[t], "resubscribe", 0, FALSE) ELSE topic[t]]
    BY <1>9 DEF Ready
  <2>3. DOMAIN topic' = Topics /\ topic' = [t \in Topics |-> topic'[t]]
    BY <2>2
  <2>4. \A t \in Topics : topic'[t] \in TopicRecords
                        /\ (life = "running" /\ Phase(topic[t]) => Phase(topic'[t]))
    BY <2>2, <1>0, ResubscribeOk
  <2> QED  BY <2>1, <2>3, <2>4, <1>0, ChangeAllOk
<1>10. CASE StopBegins
  <2>1. stops' \in 0 .. MaxStops /\ stops' # 0
    BY <1>10, <1>0 DEF StopBegins
  <2>2. topic' \in [Topics -> TopicRecords]
    BY <1>10, <1>0, StopOk DEF StopBegins
  <2>3. RedisTypeOK'
    BY <1>10, <2>1, <2>2 DEF StopBegins, TopicInv, RedisTypeOK
  <2> QED  BY <2>1, <2>3 DEF TopicInv, PhaseInv
<1>11. CASE StopClears
  <2>1. RedisTypeOK'
    BY <1>11, <1>0, StopOk DEF StopClears, TopicInv, RedisTypeOK
  <2> QED  BY <2>1, <1>11 DEF StopClears, TopicInv, PhaseInv
<1>12. CASE StopEnds
  <2>1. RedisTypeOK'
    BY <1>12, <1>0, StopOk DEF StopEnds, TopicInv, RedisTypeOK
  <2> QED  BY <2>1, <1>12 DEF StopEnds, TopicInv, PhaseInv
<1>13. CASE Start
  BY <1>13 DEF Start, TopicInv, PhaseInv, RedisTypeOK
<1>14. CASE UNCHANGED redisVars
  BY <1>14 DEF redisVars, TopicInv, PhaseInv, RedisTypeOK
<1> QED
  BY <1>1, <1>2, <1>3, <1>4, <1>5, <1>6, <1>7, <1>8, <1>9, <1>10, <1>11, <1>12, <1>13, <1>14
  DEF RedisNext

\* The inductive invariant holds in every state of every behaviour: each topic is idle, asked
\* for, kept or given up by whom subscribe(), unsubscribe() and their answers left it to.
THEOREM TopicInvHolds == RedisSpec => []TopicInv
<1> QED  BY InitOk, NextOk, PTL DEF RedisSpec

-----------------------------------------------------------------------------
(* What it implies. *)

\* The provider's entries have their types, and no attempt is beyond SUBSCRIBE_MAX_RETRIES.
THEOREM TopicTypeCorrect == RedisSpec => []RedisTypeOK
<1>1. TopicInv => RedisTypeOK
  BY DEF TopicInv
<1> QED  BY <1>1, TopicInvHolds, PTL

\* No order of joins, leaves, answers, rejections and reconnections leaves a topic that has
\* sockets deaf, unless all attempts to subscribe failed. (subscribe, unsubscribeTracked)
THEOREM TopicsStayHeard == RedisSpec => []NeverDeaf
<1>1. TopicInv => NeverDeaf
  <2> SUFFICES ASSUME TopicInv, stops = 0, NEW t \in Topics,
                      topic[t].sockets # {}, ~topic[t].gaveUp
               PROVE  WillHear(topic[t]) \/ topic[t].resubscribe \/ topic[t].retries # {}
    BY DEF NeverDeaf
  <2> DEFINE x == topic[t]
  <2>1. Phase(x) /\ x.wire \in Seq(Commands)
    BY DEF TopicInv, PhaseInv, RedisTypeOK, TopicRecords
  <2>2. x.wire # <<>> => Len(x.wire) \in 1 .. Len(x.wire)
    BY <2>1, EmptySeq
  <2> HIDE DEF x
  <2>3. CASE Resting(x)
    BY <2>3 DEF Resting, x
  <2>4. CASE Asking(x)
    <3>1. LastWaits(x.wire, "subscribe") => WillHear(x)
      BY <2>1 DEF LastWaits, WillHear, Subscribes
    <3> QED  BY <2>4, <3>1 DEF Asking, x
  <2>5. CASE Kept(x)
    <3>1. WillHear(x)
      BY <2>2, <2>5 DEF Kept, WillHear, Subscribes
    <3> QED  BY <3>1 DEF x
  <2>6. CASE GivingUp(x)
    BY <2>6 DEF GivingUp, x
  <2> QED  BY <2>1, <2>3, <2>4, <2>5, <2>6 DEF Phase
<1> QED  BY <1>1, TopicInvHolds, PTL

\* What is subscribed for a socket that left meanwhile is given back, unless a command is
\* rejected. (the then of subscribeWithRetry)
THEOREM NothingIsOrphaned == RedisSpec => []NoOrphans
<1>1. TopicInv => NoOrphans
  <2> SUFFICES ASSUME TopicInv, stops = 0, NEW t \in Topics, topic[t].sockets = {},
                      topic[t].wire = <<>>, ~topic[t].rejected
               PROVE  ~topic[t].heard
    BY DEF NoOrphans
  <2>1. Phase(topic[t])
    BY DEF TopicInv, PhaseInv
  <2>2. Resting(topic[t])
    BY <2>1 DEF Phase, Asking, Kept, GivingUp, LastWaits
  <2> QED  BY <2>2 DEF Resting
<1> QED  BY <1>1, TopicInvHolds, PTL
=============================================================================
