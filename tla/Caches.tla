------------------------------- MODULE Caches -------------------------------
(* Two caches that are filled across an await: FactoryModule's pair         *)
(* addresses (modules/factory.ts), with a time to live, and the token       *)
(* decimals of DecimalsResolver (utils/decimals-resolver.ts), a bounded     *)
(* least-recently-used list.  Every other call, invalidation and clear can  *)
(* run between a miss and the write of what was read.  A pair cache has one *)
(* entry here: keys do not interact.  A read lasts at most LongestRead.     *)
EXTENDS Naturals, Sequences, SequencesExt

CONSTANTS
    Lookups,      \* getPairAddress calls that can be under way
    CacheTtl,     \* cacheTtlMs
    LongestRead,  \* how long a read of the chain takes at most
    LastTick,     \* bound on the clock
    Resolves,     \* resolve calls that can be under way
    TokenKeys,    \* token addresses
    Capacity      \* DecimalsResolverOptions.capacity

ASSUME CachesAssumption ==
    CacheTtl \in Nat \ {0} /\ LongestRead \in Nat /\ Capacity \in Nat \ {0}

VARIABLES
    tick,       \* Date.now()
    deployed,   \* the factory knows the pair (external)
    cached,     \* FactoryModule.cache: at most one entry
    lookup,     \* the getPairAddress calls
    lru,        \* DecimalsResolver's list, most recently used first
    resolve,    \* the resolve calls
    recent      \* (history) tokens used and not dropped since, latest first

pairVars == <<tick, deployed, cached, lookup>>
resolverVars == <<lru, resolve, recent>>
cachesVars == <<pairVars, resolverVars>>
NotAsked == [pc |-> "idle"]
-----------------------------------------------------------------------------
(* FactoryModule.  asOf is history: when the factory gave the answer.       *)

Entry(answer) == <<[found |-> answer.found, asOf |-> answer.asOf, expiresAt |-> tick + CacheTtl]>>
Told(found, asOf) == [pc |-> "told", found |-> found, asOf |-> asOf]

TickPasses ==
    /\ tick < LastTick /\ tick' = tick + 1
    /\ \A c \in Lookups : lookup[c].pc = "read" => tick < lookup[c].asOf + LongestRead
    /\ lookup' = [c \in Lookups |-> IF lookup[c].pc = "told" THEN NotAsked ELSE lookup[c]]
    /\ UNCHANGED <<deployed, cached>>

PairDeployed == ~deployed /\ deployed' = TRUE /\ UNCHANGED <<tick, cached, lookup>>

\* A live entry answers at once, an answer of null too; otherwise the
\* factory is read.
GetPairAddress(c, bypassCache) ==
    LET live == ~bypassCache /\ cached # <<>> /\ tick < Head(cached).expiresAt IN
    /\ lookup[c].pc = "idle"
    /\ lookup' = [lookup EXCEPT ![c] =
                    IF live THEN Told(Head(cached).found, Head(cached).asOf)
                    ELSE [pc |-> "read", found |-> deployed, asOf |-> tick]]
    /\ UNCHANGED <<tick, deployed, cached>>

\* The answer is stored whatever the cache holds, or was cleared of, by now.
PairAddressRead(c) ==
    /\ lookup[c].pc = "read"
    /\ cached' = Entry(lookup[c])
    /\ lookup' = [lookup EXCEPT ![c] = Told(lookup[c].found, lookup[c].asOf)]
    /\ UNCHANGED <<tick, deployed>>

PairReadFails(c) ==
    /\ lookup[c].pc = "read" /\ lookup' = [lookup EXCEPT ![c] = NotAsked]
    /\ UNCHANGED <<tick, deployed, cached>>

\* Of one pair: an entry that says there is none has no address to match.
InvalidatePair ==
    /\ cached # <<>> /\ Head(cached).found /\ cached' = <<>>
    /\ UNCHANGED <<tick, deployed, lookup>>

\* invalidateCache(), clearCache() of the application and of setNetwork.
ClearPairs == cached # <<>> /\ cached' = <<>> /\ UNCHANGED <<tick, deployed, lookup>>

\* The application preloads an address it knows.
PreLoadPairs ==
    /\ deployed /\ cached' = Entry([found |-> TRUE, asOf |-> tick])
    /\ UNCHANGED <<tick, deployed, lookup>>

PairCacheNext ==
    \/ TickPasses \/ PairDeployed \/ InvalidatePair \/ ClearPairs \/ PreLoadPairs
    \/ \E c \in Lookups :
          \/ \E bypass \in BOOLEAN : GetPairAddress(c, bypass)
          \/ PairAddressRead(c) \/ PairReadFails(c)
-----------------------------------------------------------------------------
(* DecimalsResolver.  Which entries are past their time is left open: an    *)
(* expired one is dropped when it is asked for.                             *)

Dropped(list, key) == RemoveFirst(list, key)
MovedToFront(list, key) == <<key>> \o Dropped(list, key)

\* get
Resolve(c, key, expired) ==
    LET hit == Contains(lru, key) /\ ~expired IN
    /\ resolve[c].pc = "idle" /\ (expired => Contains(lru, key))
    /\ lru' = IF hit THEN MovedToFront(lru, key) ELSE Dropped(lru, key)
    /\ recent' = IF hit THEN MovedToFront(recent, key)
                 ELSE IF expired THEN Dropped(recent, key) ELSE recent
    /\ resolve' = IF hit THEN resolve ELSE [resolve EXCEPT ![c] = [pc |-> "read", key |-> key]]

\* Mutant: set trusts the miss that was seen before the await.
Stored_Unchecked(key) ==
    <<key>> \o (IF Len(lru) >= Capacity THEN Front(lru) ELSE lru)

\* set: an entry another call has stored meanwhile is moved, a new one goes
\* to the front and the last one makes room for it.
Stored(key) ==
    IF Contains(lru, key) THEN MovedToFront(lru, key)
    ELSE <<key>> \o (IF Len(lru) >= Capacity THEN Front(lru) ELSE lru)

Resolved(c) ==
    /\ resolve[c].pc = "read"
    /\ lru' = Stored(resolve[c].key)
    /\ recent' = MovedToFront(recent, resolve[c].key)
    /\ resolve' = [resolve EXCEPT ![c] = NotAsked]

\* 7 is answered and not stored.
ResolveFails(c) ==
    /\ resolve[c].pc = "read" /\ resolve' = [resolve EXCEPT ![c] = NotAsked]
    /\ UNCHANGED <<lru, recent>>

ClearResolver == lru # <<>> /\ lru' = <<>> /\ recent' = <<>> /\ UNCHANGED resolve

ResolverNext ==
    \/ \E c \in Resolves, key \in TokenKeys, expired \in BOOLEAN : Resolve(c, key, expired)
    \/ \E c \in Resolves : Resolved(c) \/ ResolveFails(c)
    \/ ClearResolver
-----------------------------------------------------------------------------
CachesInit ==
    /\ tick = 1 /\ deployed = FALSE /\ cached = <<>> /\ lookup = [c \in Lookups |-> NotAsked]
    /\ lru = <<>> /\ resolve = [c \in Resolves |-> NotAsked] /\ recent = <<>>

CachesNext ==
    \/ PairCacheNext /\ UNCHANGED resolverVars
    \/ ResolverNext /\ UNCHANGED pairVars
-----------------------------------------------------------------------------
(* Whatever reads, hits and invalidations overlap, also when an older read  *)
(* overwrites a newer one, an application is never told what the factory    *)
(* said longer ago than the time to live and one read (factory.ts:131-142). *)
PairAnswerFresh ==
    \A c \in Lookups : lookup[c].pc = "told" => tick < lookup[c].asOf + CacheTtl + LongestRead + 1

(* The resolver never holds more than its capacity, and never evicts a      *)
(* token that was used after one it keeps, although lookups of one token    *)
(* overlap (decimals-resolver.ts:197-251).                                  *)
MostRecentKept == Len(lru) <= Capacity /\ IsPrefix(lru, recent)

(* What the caches keep is what they promise to keep. *)
CachesSound == PairAnswerFresh /\ MostRecentKept
=============================================================================
