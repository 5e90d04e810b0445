--------------------------- MODULE MCCacheService ---------------------------
(* Two processes over orders and, in one of them, the reports that depend   *)
(* on them, with different lifetimes.  An order has the parameters of its   *)
(* project and one of its own, which a report does not have; invalidate()   *)
(* is given all of them, and a tag.  The keys are those of CacheKeys.       *)
EXTENDS CacheService, CacheKeys, TLC

MCOwnParams == <<{"account"}, {"project"}>>
MCScopeOf == [e \in Entities |-> 2]
MCUniqueKeys == [e \in Entities |-> IF e = "Order" THEN {"order"} ELSE {"report"}]
MCNamedAfter == <<NotGiven, NotGiven>>

Values1 == [name \in Params |-> 1]
Config(c) == IF c = "self" THEN Build("Order", << >>)
             ELSE Build("Report", [d \in {"Order"} |-> NotGiven])
Tags(c) == IF c = "self" THEN {"urgent"} ELSE {}
OfOrder == Restrict(Values1, EntityParams("Order"))

KeysOf(c) == EntryMetaKeys(Config(c), Restrict(Values1, Config(c).params), Tags(c))
Base == BaseMetaKeys("Order", OfOrder, {"urgent"})
Tracked(c) == TrackedMetaKeys("Order", OfOrder, Config(c))

\* The keys are numbered, those that some invalidate() of an order asks for.
Keys == Base \union UNION {Tracked(c) : c \in Configs}
KeyNumbers == 1 .. Cardinality(Keys)
Number == CHOOSE f \in [Keys -> KeyNumbers] : \A k, l \in Keys : f[k] = f[l] => k = l
Numbers(S) == {Number[k] : k \in S \cap Keys}

\* TLC evaluates what replaces a constant again at each use, but not the definitions it names.
EntryMeta == "self" :> Numbers(KeysOf("self")) @@ "dependent" :> Numbers(KeysOf("dependent"))
Tracks == "self" :> Numbers(Tracked("self")) @@ "dependent" :> Numbers(Tracked("dependent"))
BaseNumbers == Numbers(Base)
MCMetaKeys == KeyNumbers
MCMetaOf == EntryMeta
MCBaseMeta == BaseNumbers
MCTrackedMeta == Tracks
Everything == CHOOSE p \in Procs : TRUE
MCUses == [p \in Procs |-> IF p = Everything THEN Configs ELSE Own]
MCTtl == [c \in Configs |-> 1]
MCGrace == [c \in Configs |-> IF c = "self" THEN 0 ELSE 1]
=============================================================================
