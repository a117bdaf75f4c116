--------------------------- MODULE ServiceAuthProofs ---------------------------
(* Theorems about modules ResolverCache and ServiceAuth, which reads its keys through the
   cache, for every value of their constants. *)
EXTENDS ServiceAuth, FiniteSetTheorems, SequenceTheorems, WellFoundedInduction, TLAPS

\* What the source said is as old as the fetch that brought it was long, at most, when it
\* is stored, and a fetch lasts as long as the timeout, at most.
CacheInv ==
    /\ now \in Times
    /\ Cached \subseteq Keys
    /\ \A k \in Cached :
          /\ cache[k].asOf \in Times /\ cache[k].cachedAt \in Times
          /\ cache[k].asOf <= cache[k].cachedAt /\ cache[k].cachedAt <= now
          /\ cache[k].cachedAt - cache[k].asOf <= Timeout
    /\ pc \in [Callers -> {"idle", "fetch", "store"}]
    /\ call \in [Callers -> [key : Keys \cup {None}, began : Times, asOf : Times,
                             negative : BOOLEAN]]
    /\ \A c \in Callers :
          /\ pc[c] # "idle" => /\ call[c].key \in Keys
                               /\ call[c].began <= now /\ now - call[c].began <= Timeout
          /\ pc[c] = "store" => call[c].began <= call[c].asOf /\ call[c].asOf <= now

\* The clock counts up from 0.
LEMMA TimesAreNaturals == Times \subseteq Nat /\ 0 \in Times /\ Timeout \in Nat /\ TTL \in Nat
  BY CacheAssumption DEF Times

LEMMA CacheInit ==
    ASSUME Init
    PROVE  CacheInv
<1>1. Cached = {}
  BY DEF Init, Cached
<1> QED BY <1>1, TimesAreNaturals DEF Init, CacheInv, NoCall

\* Each action keeps CacheInv; which entries are evicted does not matter.
LEMMA TickKeeps ==
    ASSUME CacheInv, Tick
    PROVE  CacheInv'
<1>1. now' \in Times /\ now' = now + 1 /\ now \in Nat /\ UNCHANGED <<cache, pc, call>>
  BY CacheAssumption DEF Tick, CacheInv, Times
<1>2. ASSUME NEW k \in Cached
      PROVE  /\ cache[k].cachedAt <= now'
             /\ cache[k].asOf <= cache[k].cachedAt /\ cache[k].cachedAt - cache[k].asOf <= Timeout
  <2>1. /\ cache[k].cachedAt \in Nat /\ cache[k].cachedAt <= now
        /\ cache[k].asOf <= cache[k].cachedAt /\ cache[k].cachedAt - cache[k].asOf <= Timeout
    BY TimesAreNaturals DEF CacheInv
  <2> QED BY <1>1, <2>1
<1>3. ASSUME NEW c \in Callers
      PROVE  /\ pc[c] # "idle" => call[c].began <= now' /\ now' - call[c].began <= Timeout
             /\ pc[c] = "store" => call[c].asOf <= now'
  <2>1. call[c].began \in Nat /\ call[c].asOf \in Nat /\ Timeout \in Nat
    BY TimesAreNaturals DEF CacheInv
  <2>2. /\ pc[c] # "idle" => call[c].began <= now /\ now - call[c].began < Timeout
        /\ pc[c] = "store" => call[c].asOf <= now
    BY DEF CacheInv, Tick
  <2> QED BY <1>1, <2>1, <2>2
<1> QED BY <1>1, <1>2, <1>3 DEF CacheInv, Cached

LEMMA MissKeeps ==
    ASSUME CacheInv, NEW c \in Callers, NEW k \in Keys, Miss(c, k)
    PROVE  CacheInv'
<1>1. /\ pc' = [pc EXCEPT ![c] = "fetch"] /\ UNCHANGED <<now, cache>>
      /\ call' = [call EXCEPT ![c] = [key |-> k, began |-> now, asOf |-> 0, negative |-> FALSE]]
  BY DEF Miss
<1> QED BY <1>1, TimesAreNaturals DEF CacheInv, Cached

LEMMA FetchKeeps ==
    ASSUME CacheInv, NEW c \in Callers, Fetch(c)
    PROVE  CacheInv'
<1>1. pc[c] = "fetch" /\ UNCHANGED <<now, cache>>
  BY DEF Fetch
<1>2. CASE pc' = [pc EXCEPT ![c] = "idle"] /\ call' = [call EXCEPT ![c] = NoCall]
  BY <1>1, <1>2, TimesAreNaturals DEF CacheInv, Cached, NoCall
<1>3. ASSUME NEW failed \in BOOLEAN, pc' = [pc EXCEPT ![c] = "store"],
             call' = [call EXCEPT ![c] = [key |-> call[c].key, asOf |-> now,
                                          began |-> call[c].began, negative |-> failed]]
      PROVE  CacheInv'
  BY <1>1, <1>3, TimesAreNaturals DEF CacheInv, Cached
<1> QED BY <1>2, <1>3 DEF Fetch

LEMMA StoreKeeps ==
    ASSUME CacheInv, NEW c \in Callers, Store(c)
    PROVE  CacheInv'
<1>1. /\ pc[c] = "store" /\ UNCHANGED now
      /\ pc' = [pc EXCEPT ![c] = "idle"] /\ call' = [call EXCEPT ![c] = NoCall]
  BY DEF Store
<1>2. PICK E \in Evicted :
          cache' = [k \in (Cached \ E) \cup {call[c].key} |->
                      IF k = call[c].key
                      THEN [asOf |-> call[c].asOf, negative |-> call[c].negative,
                            cachedAt |-> now]
                      ELSE cache[k]]
  BY DEF Store
<1>3. /\ Cached' \subseteq Keys
      /\ \A k \in Cached' :
            \/ cache'[k].asOf = call[c].asOf /\ cache'[k].cachedAt = now
            \/ k \in Cached /\ cache'[k] = cache[k]
  BY <1>1, <1>2 DEF CacheInv, Cached
<1>4. /\ call[c].asOf \in Times /\ call[c].asOf <= now /\ now - call[c].asOf <= Timeout
      /\ now \in Nat
  BY <1>1, TimesAreNaturals DEF CacheInv
<1>5. ASSUME NEW k \in Cached'
      PROVE  /\ cache'[k].asOf \in Times /\ cache'[k].cachedAt \in Times
             /\ cache'[k].asOf <= cache'[k].cachedAt /\ cache'[k].cachedAt <= now
             /\ cache'[k].cachedAt - cache'[k].asOf <= Timeout
  BY <1>3, <1>4 DEF CacheInv
<1> QED BY <1>1, <1>3, <1>5, TimesAreNaturals DEF CacheInv, NoCall

LEMMA CacheUnchanged ==
    ASSUME CacheInv, UNCHANGED vars
    PROVE  CacheInv'
  BY DEF CacheInv, vars, Cached

\* CacheInv bounds the age of what is served.
LEMMA InvIsFresh ==
    ASSUME CacheInv
    PROVE  FreshnessBound
<1> SUFFICES ASSUME NEW k \in Keys, Servable(k)
             PROVE  now - cache[k].asOf < Timeout + IF cache[k].negative THEN NegativeTTL ELSE TTL
  BY DEF FreshnessBound
<1>1. /\ cache[k].asOf \in Nat /\ cache[k].cachedAt \in Nat /\ now \in Nat
      /\ cache[k].cachedAt - cache[k].asOf <= Timeout
  BY TimesAreNaturals DEF CacheInv, Servable
<1>2. NegativeTTL \in Nat /\ TTL \in Nat /\ Timeout \in Nat
  BY CacheAssumption
<1> QED BY <1>1, <1>2 DEF Servable

\* What any of the caches serves was true less than its TTL and one fetch ago, for any
\* number of keys and callers and in whatever way entries are evicted.
THEOREM Fresh == Spec => []FreshnessBound
<1>1. Init => CacheInv
  BY CacheInit
<1>2. CacheInv /\ [Next]_vars => CacheInv'
  BY TickKeeps, MissKeeps, FetchKeeps, StoreKeeps, CacheUnchanged DEF Next, Hit
<1>3. CacheInv => FreshnessBound
  BY InvIsFresh
<1> QED BY <1>1, <1>2, <1>3, PTL DEF Spec

-----------------------------------------------------------------------------
(***************************************************************************)
(* What evictOldest removes.                                               *)
(***************************************************************************)

\* The library's well-foundedness of <, as a least element.
LEMMA LeastNat ==
    ASSUME NEW T, T \subseteq Nat, T # {}
    PROVE  \E x \in T : \A y \in T : x <= y
<1>1. PICK x \in T : \A y \in T : ~ (<<y, x>> \in OpToRel(<, Nat))
  BY NatLessThanWellFounded, WFMin, Zenon
<1>2. \A y \in T : ~(y < x)
  BY <1>1 DEF OpToRel
<1> QED
  BY <1>2

\* A share of the entries is at least one of them and at most all.
LEMMA ToEvictFits ==
    ASSUME NEW n \in Nat \ {0}, NEW share \in Nat \ {0}
    PROVE  ToEvict(n, share) \in 1..n
  BY DEF ToEvict

\* The loop's equation: were it false, it would have a least number of turns where it is.
LEMMA TurnsAre ==
    ASSUME NEW at, NEW walk, NEW n \in Nat
    PROVE  Turns(at, walk, n) = [i \in 0..n |-> IF i = 0 THEN [entries |-> walk, gone |-> {}]
                                 ELSE EvictOne(at, Turns(at, walk, n)[i - 1])]
<1> DEFINE G(st, m) == [i \in 0..m |-> IF i = 0 THEN [entries |-> walk, gone |-> {}]
                                       ELSE EvictOne(at, st[i - 1])]
           Bad == {m \in Nat : ~ \E st : st = G(st, m)}
<1>1. Bad = {}
  <2> SUFFICES ASSUME Bad # {} PROVE FALSE
    OBVIOUS
  <2>1. PICK m \in Bad : \A k \in Bad : m <= k
    BY LeastNat
  <2>2. CASE m = 0
    <3> DEFINE z == [i \in 0..0 |-> [entries |-> walk, gone |-> {}]]
    <3>1. \A i \in 0..0 : i = 0
      OBVIOUS
    <3>2. z = G(z, 0)
      BY <3>1
    <3>3. \E st : st = G(st, 0)
      <4> HIDE DEF z
      <4> QED
        BY <3>2
    <3> QED
      BY <2>1, <2>2, <3>3
  <2>3. CASE m # 0
    <3>0. m \in Nat /\ m - 1 \in Nat /\ ~(m <= m - 1)
      BY <2>1, <2>3
    <3>5. m - 1 \notin Bad
      BY <2>1, <3>0
    <3>1. PICK st : st = G(st, m - 1)
      <4> HIDE DEF G
      <4> QED
        BY <3>0, <3>5
    <3> DEFINE new == [i \in 0..m |-> IF i = m THEN EvictOne(at, st[m - 1]) ELSE st[i]]
    <3>2. ASSUME NEW i \in 0..m 
          PROVE new[i] = IF i = 0 THEN [entries |-> walk, gone |-> {}] ELSE EvictOne(at, new[i - 1])
      <4>1. CASE i = m
        <5>1. m - 1 \in 0..m /\ m - 1 # m
          BY <2>1, <2>3
        <5>2. new[m - 1] = st[m - 1]
          BY <5>1
        <5>3. new[m] = EvictOne(at, st[m - 1])
          BY <2>1
        <5> QED
          BY <2>3, <4>1, <5>2, <5>3
      <4>2. CASE i # m
        <5>1. i \in 0..(m - 1)
          BY <3>0, <4>2
        <5>2. st[i] = IF i = 0 THEN [entries |-> walk, gone |-> {}] ELSE EvictOne(at, st[i - 1])
          <6>1. st[i] = G(st, m - 1)[i]
            <7> HIDE DEF G
            <7> QED
              BY <3>1
          <6> QED
            BY <5>1, <6>1
        <5>3. new[i] = st[i]
          BY <4>2
        <5>4. i # 0 => i - 1 \in 0..m /\ i - 1 # m
          BY <3>0, <5>1
        <5>5. i # 0 => new[i - 1] = st[i - 1]
          BY <5>4
        <5> QED
          BY <5>2, <5>3, <5>5
      <4> QED
        BY <4>1, <4>2
    <3>3. new = G(new, m)
      BY <3>2
    <3> HIDE DEF new
    <3> QED
      BY <2>1, <3>3
  <2> QED
    BY <2>2, <2>3
<1>2. \E st : st = G(st, n)
  BY <1>1
<1> QED
  BY <1>2 DEF Turns

\* The inner loop finds an entry that no other is older than.
LEMMA OldestIdxIs ==
    ASSUME NEW S, NEW at \in [S -> Nat], NEW s \in Seq(S), s # <<>>
    PROVE  /\ OldestIdx(at, s) \in 1..Len(s)
           /\ \A k \in 1..Len(s) : at[s[OldestIdx(at, s)]] <= at[s[k]]
<1> DEFINE T == {at[s[k]] : k \in 1..Len(s)}
<1>1. DOMAIN s = 1..Len(s) /\ Len(s) \in Nat \ {0} /\ \A k \in 1..Len(s) : s[k] \in S /\ at[s[k]] \in Nat
  OBVIOUS
<1>2. T \subseteq Nat /\ T # {}
  BY <1>1
<1>3. PICK v \in T : \A y \in T : v <= y
  BY <1>2, LeastNat
<1> DEFINE U == {k \in 1..Len(s) : at[s[k]] = v}
<1>4. U \subseteq Nat /\ U # {}
  BY <1>1, <1>3
<1>5. PICK j \in U : \A k \in U : j <= k
  BY <1>4, LeastNat
<1>6. \A k \in 1..Len(s) : at[s[j]] <= at[s[k]]
  BY <1>3
<1>7. ASSUME NEW k \in 1..j - 1 PROVE at[s[k]] > at[s[j]]
  <2>1. j \in 1..Len(s) /\ k \in 1..Len(s) /\ ~(j <= k)
    BY <1>1
  <2>2. k \notin U
    BY <1>5, <2>1
  <2>3. at[s[k]] # v
    BY <2>1, <2>2
  <2> QED
    BY <1>1, <1>6, <2>1, <2>3
<1>8. j \in DOMAIN s /\ (\A k \in DOMAIN s : at[s[j]] <= at[s[k]]) /\ \A k \in 1..j - 1 : at[s[k]] > at[s[j]]
  BY <1>1, <1>6, <1>7
<1> HIDE DEF T, U
<1> QED
  BY <1>1, <1>8 DEF OldestIdx

\* The last entry fills the gap, and the slice shrinks by one.
LEMMA Filled ==
    ASSUME NEW S, NEW s \in Seq(S), s # <<>>, NEW j \in 1..Len(s)
    PROVE  /\ SwapOut(s, j) \in Seq(S) /\ Len(SwapOut(s, j)) = Len(s) - 1
           /\ \A x \in 1..Len(s) - 1 : SwapOut(s, j)[x] = IF x = j THEN s[Len(s)] ELSE s[x]
<1> DEFINE t == [s EXCEPT ![j] = Last(s)]
<1>1. Last(s) = s[Len(s)] /\ Len(s) \in Nat \ {0} /\ Last(s) \in S
  BY DEF Last
<1>2. t \in Seq(S) /\ Len(t) = Len(s) /\ \A x \in 1..Len(s) : t[x] = IF x = j THEN s[Len(s)] ELSE s[x]
  BY <1>1
<1>3. SwapOut(s, j) = SubSeq(t, 1, Len(s) - 1)
  BY <1>2 DEF SwapOut, Front
<1> HIDE DEF t
<1>4. /\ SubSeq(t, 1, Len(s) - 1) \in Seq(S)
      /\ Len(SubSeq(t, 1, Len(s) - 1)) = Len(s) - 1
      /\ \A x \in 1..Len(s) - 1 : SubSeq(t, 1, Len(s) - 1)[x] = t[x]
  BY <1>1, <1>2
<1> QED
  BY <1>1, <1>2, <1>3, <1>4

\* The outer loop's invariant, after i turns over a map with the keys S: the slice holds each
\* key that is not gone once, and none that is gone is younger than one of them.
Loop(at, S, i, st) ==
    /\ st.entries \in Seq(S) /\ Len(st.entries) = Cardinality(S) - i
    /\ \A x, y \in 1..Len(st.entries) : x # y => st.entries[x] # st.entries[y]
    /\ st.gone \subseteq S /\ Cardinality(st.gone) = i
    /\ \A x \in 1..Len(st.entries) : st.entries[x] \notin st.gone
    /\ \A e \in S \ st.gone : \E x \in 1..Len(st.entries) : st.entries[x] = e
    /\ \A e \in st.gone, k \in S \ st.gone : at[e] <= at[k]

\* In whatever order the map is walked.
LEMMA LoopStarts ==
    ASSUME NEW S, IsFiniteSet(S), NEW at, NEW walk \in SetToSeqs(S)
    PROVE  Loop(at, S, 0, [entries |-> walk, gone |-> {}])
<1> DEFINE N == Cardinality(S)
<1>1. N \in Nat
  BY FS_CardinalityType
<1>2. walk \in [1..N -> S] /\ \A x, y \in 1..N : x # y => walk[x] # walk[y]
  BY DEF SetToSeqs
<1>3. walk \in Seq(S) /\ Len(walk) = N
  BY <1>1, <1>2
<1>4. \A e \in S : \E x \in 1..N : walk[x] = e
  <2>1. IsFiniteSet(1..N) /\ Cardinality(1..N) = N
    BY <1>1, FS_Interval
  <2>2. walk \in Injection(1..N, S)
    BY <1>2 DEF Injection, IsInjective
  <2>3. walk \in Surjection(1..N, S)
    BY <2>1, <2>2, FS_Injection
  <2> QED
    BY <2>3 DEF Surjection
<1>5. Cardinality({}) = 0
  BY FS_EmptySet
<1> QED
  BY <1>2, <1>3, <1>4, <1>5 DEF Loop

\* A turn keeps the invariant.
LEMMA LoopTurns ==
    ASSUME NEW S, IsFiniteSet(S), NEW at \in [S -> Nat], NEW i \in Nat, i < Cardinality(S),
           NEW st, Loop(at, S, i, st)
    PROVE  Loop(at, S, i + 1, EvictOne(at, st))
<1> DEFINE s == st.entries
           j == OldestIdx(at, s)
           new == EvictOne(at, st)
           L == Len(s)
<1>0. Cardinality(S) \in Nat
  BY FS_CardinalityType
<1>1. s \in Seq(S) /\ L = Cardinality(S) - i /\ L \in Nat \ {0} /\ s # <<>>
  BY <1>0 DEF Loop
<1>2. j \in 1..L /\ \A k \in 1..L : at[s[j]] <= at[s[k]]
  BY <1>1, OldestIdxIs
<1>3. /\ new.entries \in Seq(S) /\ Len(new.entries) = L - 1
      /\ \A x \in 1..L - 1 : new.entries[x] = IF x = j THEN s[L] ELSE s[x]
  <2>1. new.entries = SwapOut(s, j)
    BY DEF EvictOne
  <2> HIDE DEF j, new, s, L
  <2>2. s \in Seq(S) /\ s # <<>> /\ j \in 1..Len(s) /\ L = Len(s)
    BY <1>1, <1>2 DEF L
  <2>3. /\ SwapOut(s, j) \in Seq(S) /\ Len(SwapOut(s, j)) = Len(s) - 1
        /\ \A x \in 1..Len(s) - 1 : SwapOut(s, j)[x] = IF x = j THEN s[Len(s)] ELSE s[x]
    BY <2>2, Filled
  <2> QED
    BY <2>1, <2>2, <2>3
<1>4. new.gone = st.gone \cup {s[j]}
  BY DEF EvictOne
<1>5. s[j] \in S /\ s[j] \notin st.gone
  BY <1>1, <1>2 DEF Loop
<1>6. st.gone \subseteq S /\ Cardinality(st.gone) = i
  BY DEF Loop
<1>7. \A x, y \in 1..L : x # y => s[x] # s[y]
  BY DEF Loop
<1>8. \A x \in 1..L : s[x] \notin st.gone
  BY DEF Loop
<1>9. \A e \in S \ st.gone : \E x \in 1..L : s[x] = e
  BY DEF Loop
<1>10. \A e \in st.gone, k \in S \ st.gone : at[e] <= at[k]
  BY DEF Loop
<1> HIDE DEF j, new, s, L
<1>11. Len(new.entries) = Cardinality(S) - (i + 1)
  BY <1>0, <1>1, <1>3
<1>12. new.gone \subseteq S /\ Cardinality(new.gone) = i + 1
  <2>1. IsFiniteSet(st.gone)
    BY <1>6, FS_Subset
  <2> QED
    BY <1>4, <1>5, <1>6, <2>1, FS_AddElement
<1>13. \A x, y \in 1..L - 1 : x # y => new.entries[x] # new.entries[y]
  <2> TAKE x, y \in 1..L - 1
  <2>1. x \in 1..L /\ y \in 1..L /\ L \in 1..L /\ x # L /\ y # L
    BY <1>1
  <2>2. /\ new.entries[x] = IF x = j THEN s[L] ELSE s[x]
        /\ new.entries[y] = IF y = j THEN s[L] ELSE s[y]
    BY <1>3
  <2> QED
    BY <1>7, <2>1, <2>2
<1>14. \A x \in 1..L - 1 : new.entries[x] \notin new.gone
  <2> TAKE x \in 1..L - 1
  <2>1. x \in 1..L /\ L \in 1..L /\ x # L
    BY <1>1
  <2>2. new.entries[x] = IF x = j THEN s[L] ELSE s[x]
    BY <1>3
  <2>3. CASE x = j
    <3>1. s[L] # s[j] /\ s[L] \notin st.gone
      BY <1>2, <1>7, <1>8, <2>1, <2>3
    <3> QED
      BY <1>4, <2>2, <2>3, <3>1
  <2>4. CASE x # j
    <3>1. s[x] # s[j] /\ s[x] \notin st.gone
      BY <1>2, <1>7, <1>8, <2>1, <2>4
    <3> QED
      BY <1>4, <2>2, <2>4, <3>1
  <2> QED
    BY <2>3, <2>4
<1>15. ASSUME NEW e \in S \ new.gone PROVE \E x \in 1..L - 1 : new.entries[x] = e
  <2>1. PICK x \in 1..L : s[x] = e
    BY <1>4, <1>9
  <2>2. x # j
    BY <1>4, <2>1
  <2>3. CASE x = L
    <3>1. j \in 1..L - 1
      BY <1>1, <1>2, <2>2, <2>3
    <3> QED
      BY <1>3, <2>1, <2>3, <3>1
  <2>4. CASE x # L
    <3>1. x \in 1..L - 1
      BY <1>1, <2>4
    <3> QED
      BY <1>3, <2>1, <2>2, <3>1
  <2> QED
    BY <2>3, <2>4
<1>16. ASSUME NEW e \in new.gone, NEW k \in S \ new.gone PROVE at[e] <= at[k]
  <2>1. CASE e \in st.gone
    BY <1>4, <1>10, <2>1
  <2>2. CASE e = s[j]
    BY <1>2, <1>4, <1>9, <2>2
  <2> QED
    BY <1>4, <2>1, <2>2
<1> QED
  BY <1>3, <1>11, <1>12, <1>13, <1>14, <1>15, <1>16 DEF Loop, new

\* What the loop of evictOldest removes from the entries of S.
LEMMA EvictsOldest ==
    ASSUME NEW S, IsFiniteSet(S), S # {}, NEW at \in [S -> Nat], NEW walk \in SetToSeqs(S),
           NEW share \in Nat \ {0}
    PROVE  LET gone == EvictOldest(at, walk, share) IN
           /\ gone \subseteq S
           /\ Cardinality(gone) = ToEvict(Cardinality(S), share)
           /\ \A e \in gone, k \in S \ gone : at[e] <= at[k]
<1> DEFINE N == Cardinality(S)
           n == ToEvict(N, share)
           st == Turns(at, walk, n)
           Bad == {i \in 0..n : ~Loop(at, S, i, st[i])}
<1>1. N \in Nat \ {0}
  BY FS_CardinalityType, FS_EmptySet
<1>2. n \in 1..N
  BY <1>1, ToEvictFits
<1>3. Len(walk) = N
  <2>1. walk \in [1..N -> S]
    BY DEF SetToSeqs
  <2> QED
    BY <1>1, <2>1
<1> HIDE DEF N, n
<1>4. \A i \in 0..n : st[i] = IF i = 0 THEN [entries |-> walk, gone |-> {}] ELSE EvictOne(at, st[i - 1])
  <2>1. n \in Nat
    BY <1>1, <1>2
  <2>2. st = [i \in 0..n |-> IF i = 0 THEN [entries |-> walk, gone |-> {}] ELSE EvictOne(at, st[i - 1])]
    BY <2>1, TurnsAre
  <2> HIDE DEF st
  <2> QED
    BY <2>2
<1> HIDE DEF st
<1>5. Bad = {}
  <2> SUFFICES ASSUME Bad # {} PROVE FALSE
    OBVIOUS
  <2>1. Bad \subseteq Nat
    BY <1>1, <1>2
  <2>2. PICK i \in Bad : \A k \in Bad : i <= k
    BY <2>1, LeastNat
  <2>3. CASE i = 0
    BY <1>1, <1>2, <1>4, <2>2, <2>3, LoopStarts
  <2>4. CASE i # 0
    <3>1. i \in 1..n /\ i - 1 \in 0..n /\ i - 1 \in Nat /\ ~(i <= i - 1) /\ i - 1 < N /\ (i - 1) + 1 = i
      BY <1>1, <1>2, <2>2, <2>4
    <3>2. Loop(at, S, i - 1, st[i - 1])
      BY <2>2, <3>1
    <3>3. Loop(at, S, (i - 1) + 1, EvictOne(at, st[i - 1]))
      BY <3>1, <3>2, LoopTurns DEF N
    <3> QED
      BY <1>4, <2>2, <2>4, <3>1, <3>3
  <2> QED
    BY <2>3, <2>4
<1>6. Loop(at, S, n, st[n])
  BY <1>1, <1>2, <1>5
<1>7. EvictOldest(at, walk, share) = st[n].gone
  BY <1>3 DEF EvictOldest, st, n, N
<1> QED
  BY <1>6, <1>7 DEF Loop, n, N

-----------------------------------------------------------------------------
(***************************************************************************)
(* The size of the cache and the order in which entries go.                *)
(***************************************************************************)

\* The map is within its size.
Bounded ==
    /\ IsFiniteSet(Cached) /\ Cardinality(Cached) <= MaxSize
    /\ \A k \in Cached : cache[k].negative \in BOOLEAN

\* What goes before an entry is stored: nothing below the size, else a share of the map,
\* oldest first.
LEMMA EvictedAre ==
    ASSUME CacheInv, Bounded, NEW E \in Evicted
    PROVE  /\ E \subseteq Cached
           /\ Cardinality(Cached) < MaxSize => E = {}
           /\ Cardinality(Cached) = MaxSize => Cardinality(E) = ToEvict(MaxSize, Share)
           /\ \A e \in E, k \in Cached \ E : cache[e].cachedAt <= cache[k].cachedAt
<1>1. MaxSize \in Nat \ {0} /\ Share \in Nat \ {0} /\ Cardinality(Cached) \in Nat
  BY CacheAssumption, FS_CardinalityType DEF Bounded
<1>2. CASE Cardinality(Cached) < MaxSize
  <2>1. E = {}
    BY <1>2 DEF Evicted
  <2> QED
    BY <1>1, <1>2, <2>1
<1>3. CASE ~(Cardinality(Cached) < MaxSize)
  <2> DEFINE at == [k \in Cached |-> cache[k].cachedAt]
  <2>1. Cardinality(Cached) = MaxSize /\ Cached # {} /\ IsFiniteSet(Cached)
    BY <1>1, <1>3, FS_EmptySet DEF Bounded
  <2>2. at \in [Cached -> Nat]
    BY TimesAreNaturals DEF CacheInv
  <2>3. PICK walk \in SetToSeqs(Cached) : E = EvictOldest(at, walk, Share)
    BY <1>3 DEF Evicted
  <2>4. \A k \in Cached : at[k] = cache[k].cachedAt
    OBVIOUS
  <2> HIDE DEF at
  <2>5. /\ E \subseteq Cached /\ Cardinality(E) = ToEvict(Cardinality(Cached), Share)
        /\ \A e \in E, k \in Cached \ E : at[e] <= at[k]
    BY <1>1, <2>1, <2>2, <2>3, EvictsOldest
  <2> QED
    BY <1>3, <2>1, <2>4, <2>5
<1> QED
  BY <1>2, <1>3

\* The key is added after the oldest entries went.
LEMMA StoreIs ==
    ASSUME CacheInv, Bounded, NEW c \in Callers, Store(c)
    PROVE  \E E \in Evicted :
              /\ Cached' = (Cached \ E) \cup {call[c].key}
              /\ \A k \in Cached' : k # call[c].key => cache'[k] = cache[k]
              /\ cache'[call[c].key].cachedAt = now
              /\ cache'[call[c].key].negative = call[c].negative
  BY DEF Store, Cached

LEMMA BoundedKept ==
    ASSUME CacheInv, Bounded, [Next]_vars
    PROVE  Bounded'
<1>1. CASE UNCHANGED cache
  BY <1>1 DEF Bounded, Cached
<1>2. ASSUME NEW c \in Callers, Store(c) PROVE Bounded'
  <2>1. PICK E \in Evicted :
              /\ Cached' = (Cached \ E) \cup {call[c].key}
              /\ \A k \in Cached' : k # call[c].key => cache'[k] = cache[k]
              /\ cache'[call[c].key].cachedAt = now
              /\ cache'[call[c].key].negative = call[c].negative
    BY <1>2, StoreIs
  <2>2. /\ MaxSize \in Nat \ {0} /\ Share \in Nat \ {0} /\ Cardinality(Cached) \in Nat
        /\ IsFiniteSet(Cached) /\ Cardinality(Cached) <= MaxSize
    BY CacheAssumption, FS_CardinalityType DEF Bounded
  <2>3. IsFiniteSet(Cached \ E) /\ Cardinality(Cached \ E) < MaxSize
    <3>1. CASE Cardinality(Cached) < MaxSize
      <4>1. Cached \ E = Cached
        BY <3>1, EvictedAre
      <4> QED
        BY <2>2, <3>1, <4>1
    <3>2. CASE Cardinality(Cached) = MaxSize
      <4>1. Cached \cap E = E /\ Cardinality(E) \in 1..MaxSize
        BY <2>2, <3>2, EvictedAre, ToEvictFits
      <4>2. IsFiniteSet(Cached \ E) /\ Cardinality(Cached \ E) = Cardinality(Cached) - Cardinality(E)
        BY <2>2, <4>1, FS_Difference
      <4> QED
        BY <2>2, <3>2, <4>1, <4>2
    <3> QED
      BY <2>2, <3>1, <3>2
  <2>4. IsFiniteSet(Cached') /\ Cardinality(Cached') <= MaxSize
    <3>1. Cardinality(Cached \ E) \in Nat
      BY <2>3, FS_CardinalityType
    <3>2. /\ IsFiniteSet((Cached \ E) \cup {call[c].key})
          /\ Cardinality((Cached \ E) \cup {call[c].key}) <= MaxSize
      BY <2>2, <2>3, <3>1, FS_AddElement
    <3> QED
      BY <2>1, <3>2
  <2>5. call[c].negative \in BOOLEAN
    BY DEF CacheInv
  <2>6. \A k \in Cached' : cache'[k].negative \in BOOLEAN
    BY <2>1, <2>5 DEF Bounded
  <2>7. MaxSize' = MaxSize
    OBVIOUS
  <2> QED
    BY <2>4, <2>6 DEF Bounded
<1> QED
  BY <1>1, <1>2 DEF Next, Tick, Fetch, Hit, Miss, vars

LEMMA CacheBounded == Spec => [](CacheInv /\ Bounded)
<1>1. Init => CacheInv /\ Bounded
  <2> SUFFICES ASSUME Init PROVE CacheInv /\ Bounded
    OBVIOUS
  <2>1. Cached = {}
    BY DEF Init, Cached
  <2>2. Bounded
    BY <2>1, CacheAssumption, FS_EmptySet DEF Bounded
  <2> QED
    BY <2>2, CacheInit
<1>2. CacheInv /\ Bounded /\ [Next]_vars => (CacheInv /\ Bounded)'
  <2>1. CacheInv /\ [Next]_vars => CacheInv'
    BY TickKeeps, MissKeeps, FetchKeeps, StoreKeeps, CacheUnchanged DEF Next, Hit
  <2> QED
    BY <2>1, BoundedKept
<1> QED
  BY <1>1, <1>2, PTL DEF Spec

\* The cache keeps its types and never exceeds its size, however many callers store at once
\* and in whatever order the map is walked (evictOldest).
THEOREM CacheTypeCorrect == Spec => []TypeOK
<1>1. CacheInv /\ Bounded => TypeOK
  BY DEF CacheInv, Bounded, TypeOK
<1> QED
  BY <1>1, CacheBounded, PTL

\* No entry goes while an older one stays, and a new key in a full cache makes room for a
\* whole share (evictOldest).
THEOREM OldestFirst == Spec => OldestGoFirst
<1> DEFINE gone == Cached \ DOMAIN cache'
           kept == {k \in Cached \cap DOMAIN cache' : cache'[k] = cache[k]}
           Fair == /\ \A e \in gone, k \in kept : cache[e].cachedAt <= cache[k].cachedAt
                   /\ DOMAIN cache' \ Cached # {} /\ Cardinality(Cached) = MaxSize =>
                        Cardinality(gone) = ToEvict(MaxSize, Share)
<1>1. CacheInv /\ Bounded /\ [Next]_vars => [Fair]_vars
  <2> SUFFICES ASSUME CacheInv, Bounded, Next PROVE Fair
    OBVIOUS
  <2>1. CASE UNCHANGED cache
    <3>1. gone = {} /\ DOMAIN cache' \ Cached = {}
      BY <2>1 DEF Cached
    <3> QED
      BY <3>1
  <2>2. ASSUME NEW c \in Callers, Store(c) PROVE Fair
    <3> DEFINE key == call[c].key
    <3>1. PICK E \in Evicted :
              /\ Cached' = (Cached \ E) \cup {key}
              /\ \A k \in Cached' : k # key => cache'[k] = cache[k]
              /\ cache'[key].cachedAt = now
              /\ cache'[key].negative = call[c].negative
      BY <2>2, StoreIs
    <3>2. /\ E \subseteq Cached
          /\ Cardinality(Cached) = MaxSize => Cardinality(E) = ToEvict(MaxSize, Share)
          /\ \A e \in E, k \in Cached \ E : cache[e].cachedAt <= cache[k].cachedAt
      BY EvictedAre
    <3>3. DOMAIN cache' = (Cached \ E) \cup {key} /\ gone = E \ {key}
      BY <3>1, <3>2 DEF Cached
    <3>4. ASSUME NEW e \in gone, NEW k \in kept
          PROVE  cache[e].cachedAt <= cache[k].cachedAt
      <4>1. CASE k = key
        <5>1. cache[k].cachedAt = now /\ e \in Cached
          BY <3>1, <4>1
        <5> QED
          BY <5>1 DEF CacheInv
      <4>2. CASE k # key
        BY <3>2, <3>3, <4>2
      <4> QED
        BY <4>1, <4>2
    <3>5. ASSUME DOMAIN cache' \ Cached # {}, Cardinality(Cached) = MaxSize
          PROVE  Cardinality(gone) = ToEvict(MaxSize, Share)
      <4>1. gone = E
        BY <3>2, <3>3, <3>5
      <4> QED
        BY <3>2, <3>5, <4>1
    <3> QED
      BY <3>4, <3>5
  <2> QED
    BY <2>1, <2>2 DEF Next, Tick, Fetch, Hit, Miss, vars
<1> QED
  BY <1>1, CacheBounded, PTL DEF Spec, OldestGoFirst

-----------------------------------------------------------------------------
(***************************************************************************)
(* Service authentication over the cache.                                  *)
(***************************************************************************)

\* Each version of a DID document publishes the signing key in force.
Published == \A d \in Keys, g \in {1, 2} : GetSigningKey(Docs[d][g]) = KeyOf[d][g]

\* The clock held when the request of caller c was admitted.
ClaimsHeld(c) ==
    /\ ~ByHeader(request[c].req)
    /\ request[c].exp # 0 /\ call[c].began <= request[c].exp
    /\ request[c].exp - call[c].began <= MaxLifetime

AuthInv ==
    /\ CacheInv
    /\ AuthTypeOK
    /\ \A c \in Callers : pc[c] # "idle" => ClaimsHeld(c)

\* What the properties say of an answer: they are about the step that gave it.
GoodAnswer == UsedInTime /\ (Published => AuthenticCaller /\ RotationTakesEffect)

-----------------------------------------------------------------------------
\* No answer, and a refusal for another reason than the signature, are harmless.
LEMMA NoAnswerIsGood ==
    ASSUME answer' = NoAnswer
    PROVE  GoodAnswer'
  BY DEF NoAnswer, GoodAnswer, AuthenticCaller, RotationTakesEffect, UsedInTime

LEMMA RefusalIsGood ==
    ASSUME NEW r, NEW exp, NEW why, Refused(r, exp, why), why \notin {"signature", "body"}
    PROVE  GoodAnswer'
<1>1. answer' = [req |-> r, exp |-> exp, at |-> now, did |-> None, why |-> why]
  BY DEF Refused
<1> QED BY <1>1 DEF GoodAnswer, AuthenticCaller, RotationTakesEffect, UsedInTime

\* An answer to somebody who was authenticated is no refusal for the signature.
LEMMA AuthenticatedAnswers ==
    ASSUME NEW r, NEW exp, NEW did, Authenticated(r, exp, did)
    PROVE  /\ answer'.req = r /\ answer'.exp = exp /\ answer'.at = now /\ answer'.did = did
           /\ answer'.why \in {"done", "body"}
           /\ RotationTakesEffect'
<1> DEFINE word == IF (IF r.endpoint = "register" THEN RegisterTakes(r.body)
                                                  ELSE UnregisterTakes(r.body))
                   THEN "done" ELSE "body"
<1>1. answer' = [req |-> r, exp |-> exp, at |-> now, did |-> did, why |-> word]
  BY DEF Authenticated
<1>2. word \in {"done", "body"}
  OBVIOUS
<1> HIDE DEF word
<1>3. /\ answer'.req = r /\ answer'.exp = exp /\ answer'.at = now /\ answer'.did = did
      /\ answer'.why = word
  BY <1>1
<1> QED BY <1>2, <1>3 DEF RotationTakesEffect

\* The end of verifyAuth: a document that its source had less than a cache lifetime and a
\* fetch ago decides about the signature.
LEMMA SignatureDecides ==
    ASSUME Published, NEW r \in Arriving, NEW exp, NEW asOf \in Times,
           CacheInv, rotatedAt \in [Keys -> Times], UNCHANGED rotatedAt, r.token.iss \in Keys,
           asOf <= now, now - asOf < TTL + Timeout, VerifySignature(r, exp, asOf)
    PROVE  AuthenticCaller' /\ RotationTakesEffect'
<1> DEFINE iss == r.token.iss
           key == GetSigningKey(Docs[iss][Version(iss, asOf)])
<1>1. Version(iss, asOf) \in {1, 2} /\ key = KeyOf[iss][Version(iss, asOf)]
  BY DEF Version, Published
<1>2. KeyOf[iss][1] \in KeyPairs /\ KeyOf[iss][2] \in KeyPairs /\ NoKey \notin KeyPairs
  BY ServiceAuthAssumption
<1>3. now \in Nat /\ asOf \in Nat /\ rotatedAt[iss] \in Nat /\ TTL + Timeout \in Nat
  <2>1. now \in Times /\ asOf \in Times /\ rotatedAt[iss] \in Times
    BY DEF CacheInv
  <2>2. TTL + Timeout \in Nat
    BY CacheAssumption
  <2> HIDE DEF iss
  <2> QED BY <2>1, <2>2, TimesAreNaturals
<1>4. CASE SignatureHolds(r.token, key)
  <2>1. Authenticated(r, exp, iss) /\ r.token.signer = key
    BY <1>4 DEF VerifySignature, SignatureHolds
  <2>2. /\ answer'.req = r /\ answer'.exp = exp /\ answer'.at = now /\ answer'.did = iss
        /\ RotationTakesEffect'
    BY <2>1, AuthenticatedAnswers
  <2>3. Version(iss, asOf)' = Version(iss, asOf)
    BY DEF Version
  <2>4. AuthenticCaller'
    BY <1>1, <2>1, <2>2, <2>3 DEF AuthenticCaller
  <2> QED BY <2>2, <2>4
<1>5. CASE ~SignatureHolds(r.token, key)
  <2>1. answer' = [req |-> r, exp |-> exp, at |-> now, did |-> None, why |-> "signature"]
    BY <1>5 DEF VerifySignature, Refused
  <2>2. ASSUME r.token.signer = KeyOf[iss][2], r.token.alg = "ES256" <=> KeyOf[iss][2] \in P256
        PROVE  now - (rotatedAt[iss] - 1) < TTL + Timeout
    <3>1. Version(iss, asOf) = 1
      BY <1>1, <1>2, <1>5, <2>2 DEF SignatureHolds
    <3>2. asOf < rotatedAt[iss]
      BY <3>1 DEF Version
    <3> QED BY <1>3, <3>2
  <2>3. RotationTakesEffect'
    BY <2>1, <2>2 DEF RotationTakesEffect
  <2>4. AuthenticCaller'
    BY <2>1 DEF AuthenticCaller
  <2> QED BY <2>3, <2>4
<1> QED BY <1>4, <1>5

-----------------------------------------------------------------------------
\* Screened changes the answer only.
LEMMA ScreenedStep ==
    ASSUME AuthInv, NEW c \in Callers, NEW r \in Arriving, NEW exp \in Exps, Screened(c, r, exp)
    PROVE  AuthInv' /\ GoodAnswer'
<1>1. UNCHANGED <<now, cache, pc, call, devMode, rotatedAt, request>>
  BY DEF Screened, vars
<1>2. exp \in Nat /\ now \in Times /\ None \notin Keys
  BY TimesAreNaturals, ServiceAuthAssumption, CacheAssumption DEF Exps, AuthInv, CacheInv
<1>3. CASE \E why \in {"origin", "transit", "claims"} : Refused(r, exp, why)
  <2>1. PICK why \in {"origin", "transit", "claims"} : Refused(r, exp, why)
    BY <1>3
  <2>2. GoodAnswer'
    BY <2>1, RefusalIsGood
  <2>3. /\ answer'.req = r /\ answer'.exp = exp /\ answer'.at = now /\ answer'.did = None
        /\ answer'.why = why
    BY <2>1 DEF Refused
  <2>4. AuthInv'
    BY <1>1, <1>2, <2>3, CacheUnchanged
       DEF AuthInv, AuthTypeOK, ClaimsHeld, ByHeader, vars, Whys, Times
  <2> QED BY <2>2, <2>4
<1>4. CASE ByHeader(r) /\ Authenticated(r, exp, r.actor)
  <2>1. /\ answer'.req = r /\ answer'.exp = exp /\ answer'.at = now /\ answer'.did = r.actor
        /\ answer'.why \in {"done", "body"} /\ RotationTakesEffect'
    BY <1>4, AuthenticatedAnswers
  <2>2. devMode' /\ r.actor \in Keys
    BY <1>1, <1>4, ServiceAuthAssumption DEF ByHeader, RequestType
  <2>3. GoodAnswer'
    BY <2>1, <2>2 DEF GoodAnswer, AuthenticCaller, UsedInTime
  <2>4. AuthInv'
    BY <1>1, <1>2, <2>1, <2>2, CacheUnchanged
       DEF AuthInv, AuthTypeOK, ClaimsHeld, ByHeader, vars, Whys, Times
  <2> QED BY <2>3, <2>4
<1> QED BY <1>3, <1>4 DEF Screened

\* A request that is admitted carries a token of an issuer, whose clock holds.
LEMMA AdmittedHolds ==
    ASSUME AuthInv, NEW r \in Arriving, NEW exp \in Exps, Admitted(r, exp)
    PROVE  /\ ~ByHeader(r) /\ r.token # None /\ r.token.iss \in Keys
           /\ exp \in Nat /\ exp # 0 /\ now <= exp /\ exp - now <= MaxLifetime
<1>1. ~ByHeader(r) /\ ClaimsHold(r, exp)
  BY DEF Admitted
<1>2. r.token \in TokenType
  BY <1>1, ServiceAuthAssumption DEF ClaimsHold, RequestType
<1>3. r.token.iss \in Keys
  BY <1>1, <1>2 DEF ClaimsHold, TokenType
<1>4. exp \in Nat
  BY TimesAreNaturals, ServiceAuthAssumption DEF Exps, AuthInv, CacheInv
<1> QED BY <1>1, <1>3, <1>4 DEF ClaimsHold

\* ResolveDID answers from the cache: FreshnessBound says how old the document may be.
LEMMA KnownStep ==
    ASSUME AuthInv, NEW c \in Callers, NEW r \in Arriving, NEW exp \in Exps,
           Known(c, r, exp)
    PROVE  AuthInv' /\ GoodAnswer'
<1> DEFINE iss == r.token.iss
<1>1. /\ Hit(c, iss) /\ VerifySignature(r, exp, cache[iss].asOf)
      /\ UNCHANGED <<now, cache, pc, call, devMode, rotatedAt, request>>
      /\ Admitted(r, exp) /\ CacheInv /\ AuthTypeOK
  BY DEF Known, Hit, vars, AuthInv
<1>2. /\ ~ByHeader(r) /\ iss \in Keys
      /\ exp \in Nat /\ exp # 0 /\ now <= exp /\ exp - now <= MaxLifetime
  BY <1>1, AdmittedHolds
<1>3. /\ now \in Nat /\ cache[iss].asOf \in Times /\ cache[iss].asOf \in Nat
      /\ cache[iss].asOf <= now
  <2>1. iss \in Cached
    BY <1>1 DEF Hit, Servable
  <2>2. now \in Times /\ cache[iss].asOf \in Times /\ cache[iss].cachedAt \in Times
        /\ cache[iss].asOf <= cache[iss].cachedAt /\ cache[iss].cachedAt <= now
    BY <1>1, <2>1 DEF CacheInv
  <2> HIDE DEF iss
  <2>3. now \in Nat /\ cache[iss].asOf \in Nat /\ cache[iss].cachedAt \in Nat
    BY <2>2, TimesAreNaturals
  <2>4. cache[iss].asOf <= now
    BY <2>2, <2>3
  <2> QED BY <2>2, <2>3, <2>4
<1>4. now - cache[iss].asOf < TTL + Timeout
  <2>1. Servable(iss) /\ FreshnessBound
    BY <1>1, InvIsFresh DEF Hit
  <2>2. now - cache[iss].asOf < Timeout + IF cache[iss].negative THEN NegativeTTL ELSE TTL
    BY <1>2, <2>1 DEF FreshnessBound
  <2> QED BY <1>3, <2>2, CacheAssumption
<1>5. Published => AuthenticCaller' /\ RotationTakesEffect'
  <2>1. rotatedAt \in [Keys -> Times]
    BY <1>1 DEF AuthTypeOK
  <2> QED BY <1>1, <1>2, <1>3, <1>4, <2>1, SignatureDecides
<1>6. /\ answer'.req = r /\ answer'.exp = exp /\ answer'.at = now
      /\ answer'.did \in {None, iss} /\ answer'.why \in {"done", "body", "signature"}
  BY <1>1, AuthenticatedAnswers DEF VerifySignature, Refused
<1>7. UsedInTime'
  <2>1. now <= exp + Timeout /\ exp <= now + MaxLifetime
    <3> HIDE DEF iss
    <3> QED BY <1>2, <1>3, CacheAssumption, ServiceAuthAssumption
  <2> QED BY <1>6, <2>1 DEF UsedInTime
<1>8. AuthTypeOK'
  BY <1>1, <1>2, <1>6 DEF AuthTypeOK, Whys, Times, CacheInv
<1>9. AuthInv'
  BY <1>1, <1>8, CacheUnchanged DEF AuthInv, ClaimsHeld, ByHeader, vars
<1> QED BY <1>5, <1>7, <1>9 DEF GoodAnswer

\* ResolveDID has to fetch: the claims were checked before.
LEMMA UnknownStep ==
    ASSUME AuthInv, NEW c \in Callers, NEW r \in Arriving, NEW exp \in Exps, Unknown(c, r, exp)
    PROVE  AuthInv' /\ GoodAnswer'
<1> DEFINE iss == r.token.iss
<1>1. /\ Admitted(r, exp) /\ Miss(c, iss) /\ CacheInv /\ AuthTypeOK
      /\ request' = [request EXCEPT ![c] = [req |-> r, exp |-> exp]]
      /\ answer' = NoAnswer /\ UNCHANGED <<devMode, rotatedAt>>
  BY DEF Unknown, AuthInv
<1>2. /\ ~ByHeader(r) /\ iss \in Keys
      /\ exp \in Nat /\ exp # 0 /\ now <= exp /\ exp - now <= MaxLifetime
  BY <1>1, AdmittedHolds
<1>3. CacheInv'
  BY <1>1, <1>2, MissKeeps
<1>4. /\ pc' = [pc EXCEPT ![c] = "fetch"] /\ UNCHANGED now
      /\ call' = [call EXCEPT ![c] = [key |-> iss, began |-> now, asOf |-> 0, negative |-> FALSE]]
  BY <1>1 DEF Miss
<1>5. /\ pc'[c] = "fetch" /\ call'[c].key = iss /\ call'[c].began = now
      /\ request'[c].req = r /\ request'[c].exp = exp
      /\ \A d \in Callers \ {c} : pc'[d] = pc[d] /\ call'[d] = call[d] /\ request'[d] = request[d]
  BY <1>1, <1>4 DEF CacheInv, AuthTypeOK
<1>6. request' \in [Callers -> [req : Arriving \cup {None}, exp : Nat]]
  BY <1>1, <1>2 DEF AuthTypeOK
<1>7. None \notin Arriving /\ 0 \in Times
  BY ServiceAuthAssumption, TimesAreNaturals
<1>8. AuthTypeOK'
  BY <1>1, <1>5, <1>6, <1>7 DEF AuthTypeOK, NoAnswer, Whys
<1>9. \A d \in Callers : pc'[d] # "idle" => ClaimsHeld(d)'
  BY <1>1, <1>2, <1>5 DEF AuthInv, ClaimsHeld, ByHeader
<1> QED BY <1>1, <1>3, <1>8, <1>9, NoAnswerIsGood DEF AuthInv

\* The fetch ends: with a document, or with the refusal of the request.
LEMMA FetchedStep ==
    ASSUME AuthInv, NEW c \in Callers, Fetched(c)
    PROVE  AuthInv' /\ GoodAnswer'
<1>1. /\ Fetch(c) /\ CacheInv /\ AuthTypeOK /\ UNCHANGED <<devMode, rotatedAt>>
      /\ pc[c] = "fetch" /\ UNCHANGED now
  BY DEF Fetched, AuthInv, Fetch
<1>2. CacheInv'
  BY <1>1, FetchKeeps
<1>3. /\ pc'[c] \in {"idle", "store"}
      /\ pc'[c] = "store" => call'[c].key = call[c].key /\ call'[c].began = call[c].began
      /\ \A d \in Callers \ {c} : pc'[d] = pc[d] /\ call'[d] = call[d]
  BY <1>1 DEF Fetch, CacheInv
<1>4. CASE pc'[c] = "idle"
  <2>1. /\ Refused(request[c].req, request[c].exp, "unresolved")
        /\ request' = [request EXCEPT ![c] = NoRequest]
    BY <1>4 DEF Fetched
  <2>2. GoodAnswer'
    BY <2>1, RefusalIsGood
  <2>3. /\ answer'.req = request[c].req /\ answer'.exp = request[c].exp /\ answer'.at = now
        /\ answer'.did = None /\ answer'.why = "unresolved"
    BY <2>1 DEF Refused
  <2>4. /\ request'[c] = NoRequest /\ \A d \in Callers \ {c} : request'[d] = request[d]
        /\ request' \in [Callers -> [req : Arriving \cup {None}, exp : Nat]]
    BY <1>1, <2>1 DEF AuthTypeOK, NoRequest
  <2>5. AuthTypeOK'
    BY <1>1, <1>3, <1>4, <2>3, <2>4 DEF AuthTypeOK, Whys, CacheInv
  <2>6. \A d \in Callers : pc'[d] # "idle" => ClaimsHeld(d)'
    BY <1>1, <1>3, <1>4, <2>4 DEF AuthInv, ClaimsHeld, ByHeader
  <2> QED BY <1>2, <2>2, <2>5, <2>6 DEF AuthInv
<1>5. CASE pc'[c] # "idle"
  <2>1. answer' = NoAnswer /\ UNCHANGED request
    BY <1>5 DEF Fetched
  <2>2. AuthTypeOK'
    BY <1>1, <1>3, <1>5, <2>1, TimesAreNaturals DEF AuthTypeOK, Whys, NoAnswer
  <2>3. \A d \in Callers : pc'[d] # "idle" => ClaimsHeld(d)'
    BY <1>1, <1>3, <1>5, <2>1 DEF AuthInv, ClaimsHeld, ByHeader
  <2> QED BY <1>2, <2>1, <2>2, <2>3, NoAnswerIsGood DEF AuthInv
<1> QED BY <1>4, <1>5

\* The document is stored and decides: it is as old as the fetch was long, at most, and
\* the claims held when the fetch began.
LEMMA VerifiedStep ==
    ASSUME AuthInv, NEW c \in Callers, Verified(c)
    PROVE  AuthInv' /\ GoodAnswer'
<1> DEFINE r == request[c].req
           exp == request[c].exp
           asOf == call[c].asOf
<1>1. /\ Store(c) /\ CacheInv /\ AuthTypeOK /\ UNCHANGED <<devMode, rotatedAt, now>>
      /\ VerifySignature(r, exp, asOf) /\ request' = [request EXCEPT ![c] = NoRequest]
      /\ pc[c] = "store" /\ pc' = [pc EXCEPT ![c] = "idle"]
      /\ call' = [call EXCEPT ![c] = NoCall]
  BY DEF Verified, AuthInv, Store
<1>2. CacheInv'
  BY <1>1, StoreKeeps
<1>3. /\ now \in Times /\ asOf \in Times /\ call[c].began \in Times /\ call[c].key \in Keys
      /\ call[c].began <= asOf /\ asOf <= now /\ now - call[c].began <= Timeout
  BY <1>1 DEF CacheInv
<1>4. /\ r \in Arriving /\ exp \in Nat /\ r.token.iss = call[c].key
  BY <1>1 DEF AuthTypeOK
<1>5. /\ ~ByHeader(r) /\ exp # 0 /\ call[c].began <= exp /\ exp - call[c].began <= MaxLifetime
  BY <1>1 DEF AuthInv, ClaimsHeld
<1>6. rotatedAt \in [Keys -> Times]
  BY <1>1 DEF AuthTypeOK
<1>7. answer'.req = r /\ answer'.exp = exp /\ answer'.at = now
      /\ answer'.did \in {None, r.token.iss} /\ answer'.why \in {"done", "body", "signature"}
  BY <1>1, AuthenticatedAnswers DEF VerifySignature, Refused
<1>8. /\ request'[c] = NoRequest /\ pc'[c] = "idle"
      /\ \A d \in Callers \ {c} : pc'[d] = pc[d] /\ call'[d] = call[d] /\ request'[d] = request[d]
      /\ request' \in [Callers -> [req : Arriving \cup {None}, exp : Nat]]
  BY <1>1 DEF AuthTypeOK, NoRequest, CacheInv
<1>9. now \in Nat /\ asOf \in Nat /\ call[c].began \in Nat /\ TTL \in Nat /\ Timeout \in Nat
      /\ TTL > 0 /\ MaxLifetime \in Nat
  BY <1>3, TimesAreNaturals, ServiceAuthAssumption
<1> HIDE DEF r, exp, asOf
<1>10. now - asOf < TTL + Timeout
  BY <1>3, <1>9
<1>11. Published => AuthenticCaller' /\ RotationTakesEffect'
  BY <1>1, <1>3, <1>4, <1>6, <1>10, SignatureDecides
<1>12. now <= exp + Timeout /\ exp <= now + MaxLifetime
  BY <1>3, <1>4, <1>5, <1>9
<1>13. UsedInTime'
  BY <1>7, <1>12 DEF UsedInTime
<1>14. AuthTypeOK'
  BY <1>1, <1>3, <1>4, <1>7, <1>8 DEF AuthTypeOK, Whys
<1>15. \A d \in Callers : pc'[d] # "idle" => ClaimsHeld(d)'
  BY <1>1, <1>8 DEF AuthInv, ClaimsHeld, ByHeader
<1> QED BY <1>2, <1>11, <1>13, <1>14, <1>15 DEF AuthInv, GoodAnswer

LEMMA AuthTickStep ==
    ASSUME AuthInv, AuthTick
    PROVE  AuthInv' /\ GoodAnswer'
<1>1. /\ Tick /\ answer' = NoAnswer /\ UNCHANGED <<pc, call, devMode, rotatedAt, request>>
  BY DEF AuthTick, Tick
<1>2. AuthTypeOK' /\ \A c \in Callers : pc'[c] # "idle" => ClaimsHeld(c)'
  BY <1>1, TimesAreNaturals DEF AuthInv, AuthTypeOK, NoAnswer, Whys, ClaimsHeld, ByHeader
<1> QED BY <1>1, <1>2, TickKeeps, NoAnswerIsGood DEF AuthInv

-----------------------------------------------------------------------------
LEMMA AuthInitHolds ==
    ASSUME AuthInit
    PROVE  AuthInv /\ GoodAnswer
<1>1. CacheInv
  BY CacheInit DEF AuthInit
<1>2. AuthTypeOK /\ \A c \in Callers : pc[c] = "idle"
  BY TimesAreNaturals DEF AuthInit, Init, AuthTypeOK, NoRequest, NoAnswer, Whys
<1>3. GoodAnswer
  BY DEF AuthInit, NoAnswer, GoodAnswer, AuthenticCaller, RotationTakesEffect, UsedInTime
<1> QED BY <1>1, <1>2, <1>3 DEF AuthInv

LEMMA AuthNextKeeps ==
    ASSUME AuthInv, GoodAnswer, [AuthNext]_allVars
    PROVE  AuthInv' /\ GoodAnswer'
<1>1. CASE UNCHANGED allVars
  <2>1. UNCHANGED <<vars, now, cache, pc, call, devMode, rotatedAt, request, answer>>
    BY <1>1 DEF allVars, authVars, vars
  <2>2. AuthInv'
    BY <2>1, CacheUnchanged DEF AuthInv, AuthTypeOK, ClaimsHeld, ByHeader
  <2>3. GoodAnswer'
    BY <2>1 DEF GoodAnswer, AuthenticCaller, RotationTakesEffect, UsedInTime, Version
  <2> QED BY <2>2, <2>3
<1>2. CASE AuthTick
  BY <1>2, AuthTickStep
<1>3. CASE \E c \in Callers : Fetched(c) \/ Verified(c)
  BY <1>3, FetchedStep, VerifiedStep
<1>4. CASE \E c \in Callers, r \in Arriving, exp \in Exps :
              Screened(c, r, exp) \/ Known(c, r, exp) \/ Unknown(c, r, exp)
  BY <1>4, ScreenedStep, KnownStep, UnknownStep
<1> QED BY <1>1, <1>2, <1>3, <1>4 DEF AuthNext

\* AuthInv is an invariant of the authentication, and every answer is good.
THEOREM AuthInvariant == AuthSpec => [](AuthInv /\ GoodAnswer)
<1>1. AuthInit => AuthInv /\ GoodAnswer
  BY AuthInitHolds
<1>2. AuthInv /\ GoodAnswer /\ [AuthNext]_allVars => (AuthInv /\ GoodAnswer)'
  BY AuthNextKeeps
<1> QED BY <1>1, <1>2, PTL DEF AuthSpec

\* verifyAuth's requests and answers have their types.
THEOREM AuthTypeCorrect == AuthSpec => []AuthTypeOK
<1>1. AuthInv => AuthTypeOK
  BY DEF AuthInv
<1> QED BY <1>1, AuthInvariant, PTL

\* Outside development mode nobody acts for a DID but a holder of its signing key, if
\* every version of its document publishes the key in force.
THEOREM CallersAuthentic == Published => (AuthSpec => []AuthenticCaller)
<1> SUFFICES ASSUME Published PROVE AuthSpec => []AuthenticCaller
  OBVIOUS
<1>1. GoodAnswer => AuthenticCaller
  BY DEF GoodAnswer
<1> QED BY <1>1, AuthInvariant, PTL

\* A rotated key is accepted after one cache lifetime and one fetch, if every version of
\* the document publishes the key in force.
THEOREM RotationsTakeEffect == Published => (AuthSpec => []RotationTakesEffect)
<1> SUFFICES ASSUME Published PROVE AuthSpec => []RotationTakesEffect
  OBVIOUS
<1>1. GoodAnswer => RotationTakesEffect
  BY DEF GoodAnswer
<1> QED BY <1>1, AuthInvariant, PTL

\* A token acts within its bounded time, however long the resolver takes and whatever
\* the documents say.
THEOREM TokensUsedInTime == AuthSpec => []UsedInTime
<1>1. GoodAnswer => UsedInTime
  BY DEF GoodAnswer
<1> QED BY <1>1, AuthInvariant, PTL
=============================================================================
