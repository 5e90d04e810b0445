---------------------------- MODULE CacheService ----------------------------
(***************************************************************************)
(* The cache service (packages/cache/src/cache.ts) in several processes    *)
(* over one provider: Redis with meta keys                                 *)
(* (packages/cache-redis/src/redis-cache.ts) or the in-memory one, which   *)
(* knows no meta keys.  A process runs getOrSet(), set(), delete() and     *)
(* invalidate() for an entity whose data, in the database, it may update.  *)
(*                                                                         *)
(* A config stands for the one cache key that its parameters give; the     *)
(* value of an entry is the version of the data it was computed from.  The *)
(* callers that share a flight are in Singleflight: here a process runs    *)
(* one operation at a time.  Redis executes one command, script or         *)
(* pipeline step after the other; a pipeline is no transaction.            *)
(***************************************************************************)
EXTENDS Integers, FiniteSets

CONSTANTS
  Procs,
  Configs,      \* the cache configs, built by the cache builder
  Uses,         \* Uses[p]: the configs whose entries process p asks for
  Own,          \* the configs of the updated entity; the others depend on it
  MetaKeys,
  MetaOf,       \* MetaOf[c]: the meta keys that generateMetaKeys() gives an entry of c
  BaseMeta,     \* the meta keys invalidate() computes from its arguments alone
  TrackedMeta,  \* TrackedMeta[c]: those addTrackedMetaKeys() adds when c is tracked
  Ttl,          \* Ttl[c] and Grace[c], in ticks
  Grace,
  Buffer,       \* META_KEY_TTL_BUFFER_SECONDS, in ticks
  MaxUpdates,   \* bound: updates of the data
  None

Versions == 0 .. MaxUpdates

\* A value, and why an invalidate() need not have found it.  missed: one came after it was
\* read from the database and before its entry was stored and tracked, or a command that
\* tracked it failed or came too late.  overlooked: one came from a process that did not
\* know the config.
Values == [version : Versions, missed : BOOLEAN, overlooked : BOOLEAN]

ASSUME ConfigAssumption ==
  /\ Own \subseteq Configs /\ Uses \in [Procs -> SUBSET Configs]
  /\ MetaOf \in [Configs -> SUBSET MetaKeys]
  /\ BaseMeta \subseteq MetaKeys
  /\ TrackedMeta \in [Configs -> SUBSET MetaKeys]
  /\ Ttl \in [Configs -> Nat \ {0}] /\ Grace \in [Configs -> Nat]
  /\ Buffer \in Nat /\ MaxUpdates \in Nat
  /\ None \notin Nat \union Values

\* An entry is written under a key that the invalidation looks for when it knows the
\* config: what OwnKeysMeet and CascadeKeysMeet prove of the keys of CacheKeys.
ASSUME KeysMeet == \A c \in Configs : TrackedMeta[c] \intersect MetaOf[c] # {}

VARIABLES
  provider,    \* "redis" or "memory"
  db,          \* the version of the entity's data
  entries,     \* per config: its entry, or None: [value, left]
  members,     \* per meta key: the cache keys in its set
  metaTtl,     \* per meta key: ticks until it expires, 0 when there is none
  tracked,     \* per process: the configs it has tracked
  op,          \* per process: the operation it runs
  owes,        \* the processes that updated the data and have not invalidated it yet
  invalidated  \* per config: the version of the data at the last invalidate() meant for it

redis == <<entries, members, metaTtl>>
vars == <<provider, db, entries, members, metaTtl, tracked, op, owes, invalidated>>

\* Ghost: an invalidate() need not find this value any more.
Missed(v) == IF v = None THEN None ELSE [v EXCEPT !.missed = TRUE]

\* Ghost: nor this entry.
Unfound(e) == IF e = None THEN None ELSE [e EXCEPT !.value = Missed(@)]

\* Ghost: this entry an invalidate() did not know of.
Overlooked(e) ==
  IF e = None THEN None
  ELSE LET v == e.value IN [e EXCEPT !.value = [v EXCEPT !.overlooked = TRUE]]

\* todo: the meta keys that the pipeline has not come to.
Stages == {"idle", "lookup", "factory", "read", "track", "done"}
Idle == [stage |-> "idle", config |-> None, stale |-> None, value |-> None, floor |-> 0,
         todo |-> {}]

Init ==
  /\ provider \in {"redis", "memory"}
  /\ db = 0
  /\ entries = [c \in Configs |-> None]
  /\ members = [m \in MetaKeys |-> {}]
  /\ metaTtl = [m \in MetaKeys |-> 0]
  /\ tracked = [p \in Procs |-> {}]
  /\ op = [p \in Procs |-> Idle]
  /\ owes = {}
  /\ invalidated = [c \in Configs |-> 0]

At(p, stage) == op[p].stage = stage

-----------------------------------------------------------------------------
(* getOrSet() and set(). *)

Begin(p, c, stage, value) ==
  /\ At(p, "idle")
  /\ op' = [op EXCEPT ![p] = [Idle EXCEPT !.stage = stage, !.config = c, !.value = value,
                                          !.floor = invalidated[c]]]
  /\ tracked' = [tracked EXCEPT ![p] = @ \union {c}]
  /\ UNCHANGED <<provider, db, redis, owes, invalidated>>

GetOrSet(p, c) == Begin(p, c, "lookup", None)

\* What is read from the database now.
Read == [version |-> db, missed |-> FALSE, overlooked |-> FALSE]

\* set(): the caller has read the data itself.
Set(p, c) == Begin(p, c, "read", Read)

Moves(p, o) ==
  /\ op' = [op EXCEPT ![p] = o]
  /\ UNCHANGED <<provider, db, redis, tracked, owes, invalidated>>

\* registerConfig(): the process will invalidate what others write.
RegisterConfig(p, c) ==
  /\ tracked' = [tracked EXCEPT ![p] = @ \union {c}]
  /\ UNCHANGED <<provider, db, redis, op, owes, invalidated>>

IsFresh(c) == entries[c] # None /\ entries[c].left > Grace[c]
InGrace(c) == entries[c] # None /\ ~IsFresh(c)

\* getEntry(): a fresh entry is the answer; a stale one is kept as the fallback.
LookupHits(p) ==
  LET c == op[p].config IN
  /\ At(p, "lookup") /\ IsFresh(c)
  /\ Moves(p, [op[p] EXCEPT !.stage = "done", !.value = entries[c].value])

LookupMisses(p) ==
  LET c == op[p].config IN
  /\ At(p, "lookup") /\ ~IsFresh(c)
  /\ Moves(p, [op[p] EXCEPT !.stage = "factory",
                            !.stale = IF InGrace(c) THEN entries[c].value ELSE None])

\* get(): what there is, in its grace period too, and no factory.
Get(p, c) ==
  /\ At(p, "idle") /\ (IsFresh(c) \/ InGrace(c))
  /\ Moves(p, [Idle EXCEPT !.stage = "done", !.config = c, !.value = entries[c].value,
                           !.floor = invalidated[c]])

FactoryReads(p) ==
  /\ At(p, "factory")
  /\ Moves(p, [op[p] EXCEPT !.stage = "read", !.value = Read])

\* skip(), an error without a fallback, or, also in set(), a null that is not cached:
\* nothing is stored and nothing answered.
FactoryGivesNothing(p) ==
  /\ op[p].stage \in {"factory", "read"}
  /\ Moves(p, Idle)

\* fail() or the timeout, with a stale value; a late result of the factory is dropped.
FactoryFallsBack(p) ==
  /\ op[p].stage \in {"factory", "read"} /\ op[p].stale # None
  /\ Moves(p, [op[p] EXCEPT !.stage = "done", !.value = op[p].stale, !.stale = None])

\* The answer reaches the caller.
Return(p) ==
  /\ At(p, "done")
  /\ Moves(p, Idle)

Entry(value, lifetime) == [value |-> value, left |-> lifetime]

\* The factory has returned, or set() was called with the value: set of the in-memory
\* provider, or PSETEX, the first command of setWithMeta's pipeline.
Store(p) ==
  LET c == op[p].config IN
  /\ At(p, "read")
  /\ entries' = [entries EXCEPT ![c] = Entry(op[p].value, Ttl[c] + Grace[c])]
  /\ op' = [op EXCEPT ![p].stage = IF provider = "redis" THEN "track" ELSE "done",
                      ![p].todo = IF provider = "redis" THEN MetaOf[c] ELSE {},
                      ![p].stale = None]
  /\ UNCHANGED <<provider, db, members, metaTtl, tracked, owes, invalidated>>

\* Mutant: the expiry of the meta key is only set when there is none.
ExpiryIfNone(ttl, new) == IF ttl = 0 THEN new ELSE ttl

\* EXPIRE NX, then EXPIRE GT.
RaisedExpiry(ttl, new) == IF ttl = 0 \/ new > ttl THEN new ELSE ttl

\* The commands for the meta keys follow, one key after the other; those of other clients
\* may come in between.
NextKey(p) == CHOOSE m \in op[p].todo : TRUE

\* The pipeline has come to the end of a meta key.
Past(p) ==
  LET rest == op[p].todo \ {NextKey(p)} IN
  op' = [op EXCEPT ![p].todo = rest, ![p].stage = IF rest = {} THEN "done" ELSE "track"]

\* SADD and EXPIRE for a meta key.
Track(p) ==
  LET c == op[p].config
      m == NextKey(p) IN
  /\ At(p, "track")
  /\ members' = [members EXCEPT ![m] = @ \union {c}]
  /\ metaTtl' = [metaTtl EXCEPT ![m] = RaisedExpiry(@, Ttl[c] + Grace[c] + Buffer)]
  /\ Past(p)
  /\ UNCHANGED <<provider, db, entries, tracked, owes, invalidated>>

\* A command fails, which is logged, or the set expires between the SADD and the EXPIRE:
\* the entry stays, and is not, or not for long enough, where an invalidate() looks.
TrackFails(p) ==
  LET c == op[p].config IN
  /\ At(p, "track")
  /\ entries' = [entries EXCEPT ![c] = Unfound(@)]
  /\ Past(p)
  /\ UNCHANGED <<provider, db, members, metaTtl, tracked, owes, invalidated>>

-----------------------------------------------------------------------------
(* delete() and invalidate(). *)

\* del() and delMany().
Without(keys) == [c \in Configs |-> IF c \in keys THEN None ELSE entries[c]]

\* delete() takes the entry only; the meta keys keep its name.
Delete(p, c) ==
  /\ At(p, "idle")
  /\ entries' = Without({c})
  /\ UNCHANGED <<provider, db, members, metaTtl, tracked, op, owes, invalidated>>

Update(p) ==
  /\ db < MaxUpdates
  /\ db' = db + 1
  /\ owes' = owes \union {p}
  /\ UNCHANGED <<provider, redis, tracked, op, invalidated>>

\* The meta keys of invalidate(): its own and, from addTrackedMetaKeys(), those of the
\* configs this process has seen.
MetaKeysFor(p) == BaseMeta \union UNION {TrackedMeta[c] : c \in tracked[p]}

\* Without cascade, and in memory, a call takes what its process has tracked of the
\* entity itself.
Direct(p) == tracked[p] \cap Own

\* What a call is meant to take: the entity's own entries and, with the cascade, those of
\* everything that depends on it.
MeantFor(p, cascade) == IF cascade /\ provider = "redis" THEN Configs ELSE Own

\* What the process can take: what it has tracked, and what has a meta key that follows
\* from the arguments of the call.
Known(p, cascade) ==
  IF cascade /\ provider = "redis"
  THEN {c \in Configs : c \in tracked[p] \/ MetaOf[c] \cap BaseMeta # {}}
  ELSE Direct(p)

Deleted(p, cascade) ==
  IF cascade /\ provider = "redis" THEN UNION {members[m] : m \in MetaKeysFor(p)}
  ELSE Direct(p)

\* The Lua script of delByMetaMany, or delMany.
Invalidate(p, cascade) ==
  LET storing == {op[q].config : q \in {q \in Procs : At(q, "track")}}
      overlooked == MeantFor(p, cascade) \ Known(p, cascade)
      left == Without(Deleted(p, cascade)) IN
  /\ p \in owes
  /\ owes' = owes \ {p}
  /\ entries' = [c \in Configs |->
                   IF c \in storing THEN Unfound(left[c])
                   ELSE IF c \in overlooked THEN Overlooked(left[c]) ELSE left[c]]
  /\ IF cascade /\ provider = "redis"
     THEN /\ members' = [m \in MetaKeys |-> IF m \in MetaKeysFor(p) THEN {} ELSE members[m]]
          /\ metaTtl' = [m \in MetaKeys |-> IF m \in MetaKeysFor(p) THEN 0 ELSE metaTtl[m]]
     ELSE UNCHANGED <<members, metaTtl>>
  /\ op' = [q \in Procs |-> [op[q] EXCEPT !.value = Missed(@), !.stale = Missed(@)]]
  /\ invalidated' = [c \in Configs |-> IF c \in MeantFor(p, cascade) THEN db ELSE invalidated[c]]
  /\ UNCHANGED <<provider, db, tracked>>

\* The script fails, which is logged and answered with 0.
InvalidateFails(p) ==
  /\ p \in owes /\ provider = "redis"
  /\ owes' = owes \ {p}
  /\ UNCHANGED <<provider, db, redis, tracked, op, invalidated>>

-----------------------------------------------------------------------------
\* Mutant: a stale entry is kept for good.
AgedToStale(e) == IF e = None \/ e.left = 1 THEN e ELSE [e EXCEPT !.left = @ - 1]

\* An entry whose time is over is not there: Redis drops it, the in-memory provider
\* when it is asked for.
Aged(e) == IF e = None \/ e.left = 1 THEN None ELSE [e EXCEPT !.left = @ - 1]

Tick ==
  /\ entries' = [c \in Configs |-> Aged(entries[c])]
  /\ metaTtl' = [m \in MetaKeys |-> IF metaTtl[m] = 0 THEN 0 ELSE metaTtl[m] - 1]
  /\ members' = [m \in MetaKeys |-> IF metaTtl[m] = 1 THEN {} ELSE members[m]]
  /\ UNCHANGED <<provider, db, tracked, op, owes, invalidated>>

\* What brings an operation to its end.
Continues(p) ==
  \/ LookupHits(p) \/ LookupMisses(p)
  \/ FactoryReads(p) \/ FactoryGivesNothing(p) \/ FactoryFallsBack(p)
  \/ Store(p) \/ Track(p) \/ TrackFails(p) \/ Return(p)

Next ==
  \/ \E p \in Procs :
       \/ \E c \in Uses[p] :
            \/ GetOrSet(p, c) \/ Get(p, c) \/ Set(p, c) \/ Delete(p, c)
            \/ RegisterConfig(p, c)
       \/ Continues(p)
       \/ Update(p)
       \/ \E cascade \in BOOLEAN : Invalidate(p, cascade)
       \/ InvalidateFails(p)
  \/ Tick

Spec == Init /\ [][Next]_vars

\* Time passes.  Nothing is assumed of the operations: one that hangs stores nothing.
FairSpec == Spec /\ WF_vars(Tick)

-----------------------------------------------------------------------------
(* Properties. *)

Entries == [value : Values, left : Nat \ {0}]
Operations ==
  [stage : Stages, config : Configs \union {None}, stale : Values \union {None},
   value : Values \union {None}, floor : Versions, todo : SUBSET MetaKeys]

\* Types: what the operations of all processes, failing commands and time leave in the
\* provider.
TypeOK ==
  /\ provider \in {"redis", "memory"}
  /\ db \in Versions
  /\ entries \in [Configs -> Entries \union {None}]
  /\ members \in [MetaKeys -> SUBSET Configs]
  /\ metaTtl \in [MetaKeys -> Nat]
  /\ tracked \in [Procs -> SUBSET Configs]
  /\ op \in [Procs -> Operations]
  /\ owes \in SUBSET Procs
  /\ invalidated \in [Configs -> Versions]

\* A value may be older than an invalidate() that was meant for it in two cases.
Excused(v) == v.missed \/ v.overlooked

\* After invalidate(), the cache holds older data only where the call overlapped the
\* operation that stored it, tracking it failed, or the invalidating process knew
\* neither the config nor a meta key of it: every other entry is found through the meta
\* keys, whichever process wrote it. (setWithMeta, addTrackedMetaKeys, delByMetaMany)
StaleOnlyByOverlap ==
  \A c \in Configs :
    entries[c] # None /\ entries[c].value.version < invalidated[c]
      => Excused(entries[c].value)

\* What a caller is given is no older than the last invalidate() before its call, with
\* the same exceptions. (getOrSet)
ServedFresh ==
  \A p \in Procs :
    At(p, "done") /\ op[p].value # None
      => op[p].value.version >= op[p].floor \/ Excused(op[p].value)

\* Neither the cache nor an answer is older than the last invalidate() that was meant for
\* it, with or without the cascade, but for what Excused names.
OldOnlyByOverlap == StaleOnlyByOverlap /\ ServedFresh

\* Stale data that slipped past an invalidate() does not stay: once the updates end, the
\* TTLs leave only current data. (setEntry: totalTtl)
EventuallyCurrent ==
  <>[](\A c \in Configs : entries[c] = None \/ entries[c].value.version = db)
=============================================================================
