---------------------------- MODULE ResolverCache ----------------------------
(***************************************************************************)
(* The cache of the DID, profile and post-text resolvers.  A caller looks  *)
(* under the read lock, fetches without a lock, and stores under the write *)
(* lock; callers of one key do not wait for each other.  What a fetch read *)
(* is known by the time at which the source (PLC directory, AppView:       *)
(* external) said so.  Time is discrete.                                   *)
(*   did       CacheFailures = FALSE: an error is returned, not cached     *)
(*   posttext  CacheFailures = TRUE, NegativeTTL < TTL                     *)
(*   profile   CacheFailures = TRUE, NegativeTTL = TTL                     *)
(***************************************************************************)
EXTENDS Eviction, Integers, FiniteSets

CONSTANTS Keys, Callers, None,
          MaxSize,        \* maxCacheSize
          Share,          \* one entry in so many is evicted: 4
          TTL, NegativeTTL,
          Timeout,        \* of the HTTP client
          CacheFailures,
          Failing,        \* bound: the keys whose lookup may fail
          MaxTime         \* bound: the last tick of the clock

ASSUME CacheAssumption ==
    /\ None \notin Keys
    /\ MaxSize \in Nat \ {0} /\ Share \in Nat \ {0} /\ MaxTime \in Nat
    /\ TTL \in Nat /\ NegativeTTL \in 0..TTL /\ Timeout \in Nat
    /\ CacheFailures \in BOOLEAN /\ Failing \subseteq Keys

VARIABLES
    now,
    cache,   \* the map: an entry for some of the keys
    pc,      \* the next step of each caller
    call     \* its key, when it began to fetch, and what it fetched

vars == <<now, cache, pc, call>>

Times   == 0..MaxTime
Cached  == DOMAIN cache
NoCall  == [key |-> None, began |-> 0, asOf |-> 0, negative |-> FALSE]

Init ==
    /\ now = 0
    /\ cache = [k \in {} |-> [asOf |-> 0, negative |-> FALSE, cachedAt |-> 0]]
    /\ pc = [c \in Callers |-> "idle"] /\ call = [c \in Callers |-> NoCall]

\* Time passes; the HTTP client ends a fetch at its timeout, and the lock is free soon.
Tick ==
    /\ now < MaxTime
    /\ \A c \in Callers : pc[c] # "idle" => now - call[c].began < Timeout
    /\ now' = now + 1
    /\ UNCHANGED <<cache, pc, call>>

ServableMutLate(k) ==
    k \in Cached /\ now - cache[k].cachedAt <= IF cache[k].negative THEN NegativeTTL ELSE TTL
Servable(k) ==
    k \in Cached /\ now - cache[k].cachedAt < IF cache[k].negative THEN NegativeTTL ELSE TTL

\* A hit, for positive and negative entries alike, changes nothing.
Hit(c, k) ==
    /\ pc[c] = "idle" /\ Servable(k)
    /\ UNCHANGED vars

Miss(c, k) ==
    /\ pc[c] = "idle" /\ ~Servable(k)
    /\ pc'   = [pc EXCEPT ![c] = "fetch"]
    /\ call' = [call EXCEPT ![c] = [key |-> k, began |-> now, asOf |-> 0, negative |-> FALSE]]
    /\ UNCHANGED <<now, cache>>

\* The source answers, or the fetch fails.
Fetch(c) ==
    /\ pc[c] = "fetch"
    /\ \E failed \in BOOLEAN :
          /\ failed => call[c].key \in Failing
          /\ IF failed /\ ~CacheFailures
             THEN /\ pc'   = [pc EXCEPT ![c] = "idle"]
                  /\ call' = [call EXCEPT ![c] = NoCall]
             ELSE /\ pc'   = [pc EXCEPT ![c] = "store"]
                  /\ call' = [call EXCEPT ![c] = [key |-> call[c].key, asOf |-> now,
                                                  began |-> call[c].began, negative |-> failed]]
    /\ UNCHANGED <<now, cache>>

\* The sets of entries that may go before one is stored, one for each order in which
\* the map may be walked.  The key's own old entry counts as any other: a refresh of a
\* full cache evicts too.
EvictedMutFull ==
    IF Cardinality(Cached) <= MaxSize THEN {{}}
    ELSE {EvictOldest([k \in Cached |-> cache[k].cachedAt], walk, Share) :
             walk \in SetToSeqs(Cached)}
Evicted ==
    IF Cardinality(Cached) < MaxSize THEN {{}}
    ELSE {EvictOldest([k \in Cached |-> cache[k].cachedAt], walk, Share) :
             walk \in SetToSeqs(Cached)}

Store(c) ==
    /\ pc[c] = "store"
    /\ \E E \in Evicted :
          cache' = [k \in (Cached \ E) \cup {call[c].key} |->
                      IF k = call[c].key
                      THEN [asOf |-> call[c].asOf, negative |-> call[c].negative,
                            cachedAt |-> now]
                      ELSE cache[k]]
    /\ pc'   = [pc EXCEPT ![c] = "idle"]
    /\ call' = [call EXCEPT ![c] = NoCall]
    /\ UNCHANGED now

Next ==
    \/ Tick
    \/ \E c \in Callers : Fetch(c) \/ Store(c) \/ \E k \in Keys : Hit(c, k) \/ Miss(c, k)

Spec == Init /\ [][Next]_vars

-----------------------------------------------------------------------------
\* The state has its types and the cache never exceeds its size, however many callers
\* store at once.
TypeOK ==
    /\ now \in Times
    /\ Cached \subseteq Keys /\ Cardinality(Cached) <= MaxSize
    /\ \A k \in Cached :
          cache[k].asOf \in Times /\ cache[k].negative \in BOOLEAN /\ cache[k].cachedAt \in Times
    /\ pc \in [Callers -> {"idle", "fetch", "store"}]
    /\ call \in [Callers -> [key : Keys \cup {None}, began : Times, asOf : Times,
                             negative : BOOLEAN]]

\* What is served was true less than its TTL and one fetch ago, also when a slow fetch
\* overwrote a faster and younger one: how long a rotated signing key, an old name or
\* a failed lookup can live on (ResolveDID, ResolveProfile, ResolveText).
FreshnessBound ==
    \A k \in Keys : Servable(k) =>
        now - cache[k].asOf < Timeout + IF cache[k].negative THEN NegativeTTL ELSE TTL

\* No entry goes while an older one stays, in whatever order the map is walked and
\* whoever stores at the same time; and a new key in a full cache makes room for a whole
\* share, so that a flood of new keys does not evict each time (evictOldest).
OldestGoFirst ==
    [][LET gone == Cached \ DOMAIN cache'
           kept == {k \in Cached \cap DOMAIN cache' : cache'[k] = cache[k]} IN
       /\ \A e \in gone, k \in kept : cache[e].cachedAt <= cache[k].cachedAt
       /\ DOMAIN cache' \ Cached # {} /\ Cardinality(Cached) = MaxSize =>
            Cardinality(gone) = ToEvict(MaxSize, Share)]_vars
=============================================================================
