----------------------------- MODULE CacheKeys -----------------------------
(***************************************************************************)
(* The keys of the cache (packages/cache/src): the entities and scopes of  *)
(* the registry (entity-registry.ts), the configs that the cache builder   *)
(* makes of them (cache-builder.ts), and the cache and meta keys that an   *)
(* entry is stored under and that invalidate() looks for                   *)
(* (key-generator.ts, cache.ts).                                           *)
(*                                                                         *)
(* Scopes are numbered from the outermost one.  A key is the tuple that    *)
(* the code hashes: hashes are taken to be injective, and no parameter is  *)
(* named "entity" (generateMetaKey() would put it over the entity's name). *)
(***************************************************************************)
EXTENDS Integers, Functions

CONSTANTS
  Entities,
  Params,       \* the names of parameters
  Depth,        \* the scopes are 1 .. Depth
  OwnParams,    \* OwnParams[s]: what the call of scope() adds to those before it
  ScopeOf,      \* ScopeOf[e], UniqueKeys[e]: the call of entity()
  UniqueKeys,
  NamedAfter,   \* NamedAfter[s]: the entity whose name is the scope's, or NotGiven
  NotGiven      \* no parameters given

Scopes == 1 .. Depth

ASSUME RegistryAssumption ==
  /\ Depth \in Nat
  /\ OwnParams \in [Scopes -> SUBSET Params]
  /\ ScopeOf \in [Entities -> Scopes]
  /\ UniqueKeys \in [Entities -> SUBSET Params]
  /\ NamedAfter \in [Scopes -> Entities \union {NotGiven}]
  /\ NotGiven \notin Entities

-----------------------------------------------------------------------------
(* The registry. *)

\* scope() starts from the parameters of the scope before.
ScopeParams(s) == UNION {OwnParams[t] : t \in 1 .. s}

EntityParams(e) == ScopeParams(ScopeOf[e]) \union UniqueKeys[e]

-----------------------------------------------------------------------------
(* The builder. *)

\* dependsOn() throws for anything else: the entity itself, a source of a deeper scope, or
\* parameters that one of the two does not have.
MayDependOn(e, d, given) ==
  /\ d # e
  /\ ScopeOf[d] <= ScopeOf[e]
  /\ given # NotGiven => given \subseteq EntityParams(e) \intersect EntityParams(d)

\* Without parameters, those of the source that the dependent has as well.
DependencyParams(e, d, given) ==
  IF given = NotGiven THEN EntityParams(d) \intersect EntityParams(e) ELSE given

\* The entities that the scopes of e are named after.
Hierarchy(e) ==
  {d \in Entities \ {e} : \E s \in 1 .. ScopeOf[e] : NamedAfter[s] = d /\ ScopeOf[d] = s}

\* A call of dependsOn() replaces what the hierarchy says.
DependsOn(e, declared) ==
  [d \in Hierarchy(e) \union DOMAIN declared |->
     IF d \in DOMAIN declared THEN DependencyParams(e, d, declared[d])
     ELSE ScopeParams(ScopeOf[d])]

\* for(e), the calls of dependsOn() and build()
Build(e, declared) ==
  [entity |-> e, params |-> EntityParams(e), metaParams |-> ScopeParams(ScopeOf[e]),
   dependsOn |-> DependsOn(e, declared)]

\* The calls of dependsOn() that the builder of e accepts.
Declarations(e) ==
  {declared \in UNION {[D -> SUBSET Params \union {NotGiven}] : D \in SUBSET Entities} :
     \A d \in DOMAIN declared : MayDependOn(e, d, declared[d])}

-----------------------------------------------------------------------------
(* The keys.  Parameters are a function from their names to values. *)

\* generateCacheKey() and extractCacheParams(): all of the config's parameters are needed.
HasCacheKey(c, p) == c.params \subseteq DOMAIN p
CacheKey(c, p) == <<"cache", c.entity, Restrict(p, c.params)>>

MetaKey(e, p) == <<"meta", e, p>>
TagKey(tag) == <<"tag", tag>>

HasConfigMetaKey(c, p) == c.metaParams \subseteq DOMAIN p
ConfigMetaKey(c, p) == MetaKey(c.entity, Restrict(p, c.metaParams))

Sources(c) == {d \in DOMAIN c.dependsOn : c.dependsOn[d] # {}}

\* Undefined parameters are left out.
SourceKey(c, d, p) == MetaKey(d, Restrict(p, c.dependsOn[d] \intersect DOMAIN p))

\* generateMetaKeys(): the meta keys of an entry of c.
EntryMetaKeys(c, p, tags) ==
  {ConfigMetaKey(c, p)} \union {SourceKey(c, d, p) : d \in Sources(c)}
    \union {TagKey(tag) : tag \in tags}

\* What invalidate() computes without any config.
BaseMetaKeys(e, p, tags) == {MetaKey(e, p)} \union {TagKey(tag) : tag \in tags}

\* What addTrackedMetaKeys() adds to it for a config c of this process.
TrackedMetaKeys(e, p, c) ==
  {k \in {ConfigMetaKey(c, p)} : c.entity = e /\ HasConfigMetaKey(c, p)}
    \union {SourceKey(c, d, p) : d \in Sources(c) \intersect {e}}
=============================================================================
