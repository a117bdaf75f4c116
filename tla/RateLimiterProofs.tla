--------------------------- MODULE RateLimiterProofs ---------------------------
(* Theorems about module RateLimiter, for every value of its constants. *)
EXTENDS RateLimiter, FiniteSetTheorems, SequenceTheorems, TLAPS

\* The grants of log s from time a to time b.
Span(s, a, b) == {i \in DOMAIN s : a <= s[i] /\ s[i] <= b}

LEMMA LimiterNaturals == Limit \in Nat /\ Window \in Nat /\ MaxKeys \in Nat /\ Times \subseteq Nat
  BY LimiterAssumption DEF Times

\* A span is finite; it is as large as a span that covers it, at most, and as two that
\* cover it together.
LEMMA SpanSize ==
    ASSUME NEW s \in Seq(Times), NEW a, NEW b
    PROVE  /\ Span(s, a, b) \subseteq 1..Len(s) /\ IsFiniteSet(Span(s, a, b))
           /\ Cardinality(Span(s, a, b)) \in Nat
<1>1. Len(s) \in Nat /\ DOMAIN s = 1..Len(s)
  BY LenProperties
<1>2. IsFiniteSet(1..Len(s))
  BY <1>1, FS_Interval
<1>3. Span(s, a, b) \in SUBSET (1..Len(s))
  BY <1>1 DEF Span
<1>4. IsFiniteSet(Span(s, a, b))
  BY <1>2, <1>3, FS_Subset
<1> QED
  BY <1>3, <1>4, FS_CardinalityType

LEMMA SpanCovered ==
    ASSUME NEW s \in Seq(Times), NEW a, NEW b, NEW c, NEW d,
           \A i \in DOMAIN s : a <= s[i] /\ s[i] <= b => c <= s[i] /\ s[i] <= d
    PROVE  Cardinality(Span(s, a, b)) <= Cardinality(Span(s, c, d))
<1>1. Span(s, a, b) \in SUBSET Span(s, c, d)
  BY DEF Span
<1> QED
  BY <1>1, SpanSize, FS_Subset

LEMMA SpanSplit ==
    ASSUME NEW s \in Seq(Times), NEW a, NEW b, NEW c, NEW d, NEW e, NEW f,
           \A i \in DOMAIN s : a <= s[i] /\ s[i] <= b =>
               (c <= s[i] /\ s[i] <= d) \/ (e <= s[i] /\ s[i] <= f)
    PROVE  Cardinality(Span(s, a, b)) <= Cardinality(Span(s, c, d)) + Cardinality(Span(s, e, f))
<1> DEFINE U == Span(s, c, d)
           V == Span(s, e, f)
<1>1. Span(s, a, b) \in SUBSET (U \cup V)
  BY DEF Span
<1>2. IsFiniteSet(U) /\ IsFiniteSet(V) /\ Cardinality(U) \in Nat /\ Cardinality(V) \in Nat
  BY SpanSize
<1>3. IsFiniteSet(Span(s, a, b)) /\ Cardinality(Span(s, a, b)) \in Nat
  BY SpanSize
<1> HIDE DEF U, V
<1>4. /\ IsFiniteSet(U \cup V)
      /\ Cardinality(U \cup V) = Cardinality(U) + Cardinality(V) - Cardinality(U \cap V)
  BY <1>2, FS_Union
<1>5. Cardinality(U \cap V) \in Nat
  <2>1. U \cap V \in SUBSET U
    OBVIOUS
  <2> QED
    BY <1>2, <2>1, FS_Subset, FS_CardinalityType
<1>6. Cardinality(Span(s, a, b)) <= Cardinality(U \cup V)
  BY <1>1, <1>4, FS_Subset
<1>7. Cardinality(Span(s, a, b)) <= Cardinality(U) + Cardinality(V)
  BY <1>2, <1>3, <1>4, <1>5, <1>6
<1> QED
  BY <1>7 DEF U, V

\* One grant more.
LEMMA SpanGrows ==
    ASSUME NEW s \in Seq(Times), NEW t \in Times, NEW a, NEW b
    PROVE  /\ Append(s, t) \in Seq(Times)
           /\ \A i \in DOMAIN Append(s, t) : Append(s, t)[i] = t
                                             \/ (i \in DOMAIN s /\ Append(s, t)[i] = s[i])
           /\ Cardinality(Span(Append(s, t), a, b)) =
                Cardinality(Span(s, a, b)) + (IF a <= t /\ t <= b THEN 1 ELSE 0)
<1> DEFINE n == Len(s)
           r == Append(s, t)
<1>1. /\ n \in Nat /\ DOMAIN s = 1..n /\ r \in Seq(Times) /\ Len(r) = n + 1
      /\ DOMAIN r = 1..n + 1 /\ r[n + 1] = t /\ \A i \in 1..n : r[i] = s[i]
  <2>1. r \in Seq(Times) /\ Len(r) = n + 1
    BY AppendProperties
  <2>2. n \in Nat /\ DOMAIN s = 1..n /\ DOMAIN r = 1..Len(r)
    BY <2>1, LenProperties
  <2> QED
    BY <2>1, <2>2, AppendProperties
<1> HIDE DEF r, n
<1>2. \A i \in 1..n + 1 : i \in 1..n \/ i = n + 1
  BY <1>1
<1>3. /\ IsFiniteSet(Span(s, a, b)) /\ Cardinality(Span(s, a, b)) \in Nat
      /\ n + 1 \notin Span(s, a, b)
  BY <1>1, SpanSize DEF n
<1>4. CASE a <= t /\ t <= b
  <2>1. Span(r, a, b) = Span(s, a, b) \cup {n + 1}
    BY <1>1, <1>2, <1>4 DEF Span
  <2> QED
    BY <1>1, <1>2, <1>3, <1>4, <2>1, FS_AddElement DEF r
<1>5. CASE ~(a <= t /\ t <= b)
  <2>1. Span(r, a, b) = Span(s, a, b)
    BY <1>1, <1>2, <1>5 DEF Span
  <2> QED
    BY <1>1, <1>2, <1>3, <1>5, <2>1 DEF r
<1> QED
  BY <1>4, <1>5

-----------------------------------------------------------------------------
\* The state has its types, and nothing in it lies ahead of the clock.
LimiterTypeOK ==
    /\ now \in Times
    /\ windows \in [Tracked -> [count : Nat, start : Times]] /\ Tracked \subseteq Keys
    /\ IsFiniteSet(Tracked)
    /\ \A k \in Tracked : windows[k].start <= now
    /\ granted \in [Keys -> Seq(Times)]
    /\ \A k \in Keys : \A i \in DOMAIN granted[k] : granted[k][i] <= now
    /\ answer \in [key : Keys, at : Times, ok : BOOLEAN] /\ answer.at <= now

\* The length of a span as the code would count it.
Many(k, a, b) == Cardinality(Span(granted[k], a, b))

\* A key with window [count, start]: count tells the grants since start, the window has
\* taken no later one, and as long before it there was one limit at most.
Running(k, count, start) ==
    /\ Many(k, start, start + Window) = count /\ count <= Limit
    /\ \A i \in DOMAIN granted[k] : granted[k][i] <= start + Window
    /\ Many(k, start - Window, start - 1) <= Limit

\* A key without a window, or with an expired one: a window opened now would find no
\* grant in its own tick, and one limit at most as long before it.
Quiet(k) ==
    /\ \A i \in DOMAIN granted[k] : granted[k][i] < now
    /\ Many(k, now - Window, now) <= Limit

LimitInv ==
    /\ LimiterTypeOK
    /\ \A k \in Keys : IF k \in Tracked THEN Running(k, windows[k].count, windows[k].start)
                       ELSE Quiet(k)
    /\ BurstBound /\ RefusedIsOver /\ MapBounded

LEMMA InvFacts ==
    ASSUME LimitInv
    PROVE  /\ now \in Nat /\ Limit \in Nat /\ Window \in Nat /\ MaxKeys \in Nat
           /\ \A t \in Times : t \in Nat
           /\ \A k \in Keys : granted[k] \in Seq(Times)
           /\ \A k \in Keys : \A i \in DOMAIN granted[k] : granted[k][i] \in Nat
           /\ \A k \in Tracked : /\ k \in Keys /\ windows[k].start \in Nat
                                 /\ windows[k].count \in Nat /\ windows[k].start <= now
                                 /\ Running(k, windows[k].count, windows[k].start)
           /\ \A k \in Keys \ Tracked : Quiet(k)
<1>1. /\ now \in Nat /\ Limit \in Nat /\ Window \in Nat /\ MaxKeys \in Nat
      /\ \A t \in Times : t \in Nat
  BY LimiterNaturals DEF LimitInv, LimiterTypeOK
<1>2. \A k \in Keys : granted[k] \in Seq(Times)
  BY DEF LimitInv, LimiterTypeOK
<1>3. ASSUME NEW k \in Keys, NEW i \in DOMAIN granted[k] PROVE granted[k][i] \in Nat
  <2>1. i \in 1..Len(granted[k])
    BY <1>2, LenProperties
  <2> QED
    BY <1>1, <1>2, <2>1, ElementOfSeq
<1>4. ASSUME NEW k \in Tracked
      PROVE  /\ k \in Keys /\ windows[k].start \in Nat
             /\ windows[k].count \in Nat /\ windows[k].start <= now
             /\ Running(k, windows[k].count, windows[k].start)
  BY <1>1 DEF LimitInv, LimiterTypeOK
<1> QED
  BY <1>1, <1>2, <1>3, <1>4 DEF LimitInv

\* An expired window can be dropped or replaced: its key is quiet.
LEMMA ExpiredQuiet ==
    ASSUME LimitInv, NEW k \in Keys, k \in Tracked => Expired(k)
    PROVE  Quiet(k)
<1>1. CASE k \notin Tracked
  BY <1>1, InvFacts
<1>2. CASE k \in Tracked
  <2>0. PICK st : st = windows[k].start
    OBVIOUS
  <2>1. /\ now \in Nat /\ Window \in Nat /\ st \in Nat /\ now > st + Window
        /\ granted[k] \in Seq(Times) /\ \A i \in DOMAIN granted[k] : granted[k][i] \in Nat
    BY <1>2, <2>0, InvFacts DEF Expired
  <2>2. /\ Many(k, st, st + Window) = windows[k].count /\ windows[k].count <= Limit
        /\ \A i \in DOMAIN granted[k] : granted[k][i] <= st + Window
        /\ windows[k].count \in Nat /\ Limit \in Nat
    BY <1>2, <2>0, InvFacts DEF Running
  <2>3. \A i \in DOMAIN granted[k] : granted[k][i] < now
    BY <2>1, <2>2
  <2>4. Many(k, now - Window, now) <= Many(k, st, st + Window)
    <3>1. \A i \in DOMAIN granted[k] : now - Window <= granted[k][i] /\ granted[k][i] <= now
             => st <= granted[k][i] /\ granted[k][i] <= st + Window
      BY <2>1, <2>2
    <3> QED
      BY <2>1, <3>1, SpanCovered DEF Many
  <2>5. Many(k, now - Window, now) \in Nat
    BY <2>1, SpanSize DEF Many
  <2> QED
    BY <2>2, <2>3, <2>4, <2>5 DEF Quiet
<1> QED
  BY <1>1, <1>2

\* A grant within a running window: any span of a window's length that it falls in lies in
\* that window and the time before it, one limit each.
LEMMA BurstKept ==
    ASSUME LimitInv, NEW k \in Keys, Returns(k, TRUE), NEW count \in Nat, NEW st \in Nat,
           Running(k, count, st)', st <= now, now <= st + Window
    PROVE  BurstBound'
<1> SUFFICES ASSUME NEW j \in Keys, NEW t \in Times PROVE Many(j, t, t + Window)' <= 2 * Limit
  BY DEF BurstBound, Grants, Many, Span
<1>1. /\ granted' = [granted EXCEPT ![k] = Append(@, now)]
      /\ granted \in [Keys -> Seq(Times)] /\ now \in Times
  BY DEF Returns, LimitInv, LimiterTypeOK
<1>2. Many(j, t, t + Window) <= 2 * Limit
  BY DEF LimitInv, BurstBound, Grants, Many, Span
<1>3. CASE j # k \/ ~(t <= now /\ now <= t + Window)
  <2>1. CASE j # k
    BY <1>1, <1>2, <2>1 DEF Many
  <2>2. CASE j = k
    <3>1. granted'[k] = Append(granted[k], now) /\ granted[k] \in Seq(Times)
      BY <1>1
    <3>2. Many(k, t, t + Window)' = Many(k, t, t + Window) + 0
      BY <1>1, <1>3, <2>2, <3>1, SpanGrows DEF Many
    <3>3. Many(k, t, t + Window) \in Nat
      BY <3>1, SpanSize DEF Many
    <3> QED
      BY <1>2, <2>2, <3>2, <3>3
  <2> QED
    BY <2>1, <2>2
<1>4. CASE j = k /\ t <= now /\ now <= t + Window
  <2>0. PICK r : r = granted'[k]
    OBVIOUS
  <2>1. r = Append(granted[k], now) /\ granted[k] \in Seq(Times)
    BY <1>1, <2>0
  <2>2. r \in Seq(Times) /\ \A i \in DOMAIN r : r[i] \in Nat
    <3>1. r \in Seq(Times)
      BY <1>1, <2>1, SpanGrows
    <3>2. \A i \in DOMAIN r : r[i] \in Times
      BY <3>1, ElementOfSeq, LenProperties
    <3> QED
      BY <3>1, <3>2, InvFacts
  <2>3. /\ Cardinality(Span(r, st, st + Window)) = count /\ count <= Limit
        /\ \A i \in DOMAIN r : r[i] <= st + Window
        /\ Cardinality(Span(r, st - Window, st - 1)) <= Limit
    BY <2>0 DEF Running, Many
  <2>4. \A i \in DOMAIN r : t <= r[i] /\ r[i] <= t + Window =>
            (st - Window <= r[i] /\ r[i] <= st - 1) \/ (st <= r[i] /\ r[i] <= st + Window)
    BY <1>4, <2>2, <2>3, InvFacts
  <2>5. Cardinality(Span(r, t, t + Window)) <=
          Cardinality(Span(r, st - Window, st - 1)) + Cardinality(Span(r, st, st + Window))
    BY <2>2, <2>4, SpanSplit
  <2>6. /\ Cardinality(Span(r, t, t + Window)) \in Nat
        /\ Cardinality(Span(r, st - Window, st - 1)) \in Nat
    BY <2>2, SpanSize
  <2>7. Cardinality(Span(r, t, t + Window)) <= 2 * Limit
    BY <2>3, <2>5, <2>6, InvFacts
  <2> QED
    BY <1>4, <2>0, <2>7 DEF Many
<1> QED
  BY <1>3, <1>4

\* What a grant does to the types and the other keys.
LEMMA GrantTypes ==
    ASSUME LimitInv, NEW k \in Keys, Returns(k, TRUE)
    PROVE  /\ now' = now /\ granted'[k] = Append(granted[k], now)
           /\ \A j \in Keys : j # k => granted'[j] = granted[j]
           /\ granted' \in [Keys -> Seq(Times)]
           /\ \A j \in Keys : \A i \in DOMAIN granted'[j] : granted'[j][i] <= now
           /\ answer' \in [key : Keys, at : Times, ok : BOOLEAN] /\ answer'.at <= now
           /\ RefusedIsOver'
<1>1. /\ now' = now /\ granted' = [granted EXCEPT ![k] = Append(@, now)]
      /\ answer' = [key |-> k, at |-> now, ok |-> TRUE]
      /\ granted \in [Keys -> Seq(Times)] /\ now \in Times
  BY DEF Returns, LimitInv, LimiterTypeOK
<1>2. Append(granted[k], now) \in Seq(Times)
  BY <1>1, SpanGrows
<1>3. granted' \in [Keys -> Seq(Times)]
  BY <1>1, <1>2
<1>4. ASSUME NEW j \in Keys, NEW i \in DOMAIN granted'[j] PROVE granted'[j][i] <= now
  <2>1. CASE j # k
    BY <1>1, <1>4, <2>1 DEF LimitInv, LimiterTypeOK
  <2>2. CASE j = k
    <3>1. granted'[k][i] = now \/ (i \in DOMAIN granted[k] /\ granted'[k][i] = granted[k][i])
      BY <1>1, <1>4, <2>2, SpanGrows
    <3> QED
      BY <2>2, <3>1, InvFacts DEF LimitInv, LimiterTypeOK
  <2> QED
    BY <2>1, <2>2
<1> QED
  BY <1>1, <1>3, <1>4, InvFacts DEF RefusedIsOver

\* A new window; the expired ones go when the map is full.
LEMMA OpenStep ==
    ASSUME LimitInv, NEW k \in Keys, OpenWindow(k)
    PROVE  LimitInv'
<1>0. /\ Returns(k, TRUE) /\ (k \in Tracked => Expired(k)) /\ Quiet(k)
      /\ Tracked' = Kept \cup {k} /\ Kept \subseteq Tracked /\ Tracked \subseteq Keys
      /\ IsFiniteSet(Tracked) /\ now \in Times
  BY ExpiredQuiet DEF OpenWindow, Tracked, Kept, LimitInv, LimiterTypeOK
<1>n. now' = now
  BY <1>0 DEF Returns
<1>1. /\ windows'[k] = [count |-> 1, start |-> now]
      /\ \A j \in Kept : j # k => windows'[j] = windows[j]
  BY DEF OpenWindow
<1>2. LimiterTypeOK'
  <2>1. IsFiniteSet(Kept \cup {k})
    <3>1. IsFiniteSet(Kept)
      BY <1>0, FS_Subset
    <3> QED
      BY <3>1, FS_AddElement
  <2>2. windows' \in [Kept \cup {k} -> [count : Nat, start : Times]]
    <3>1. windows \in [Tracked -> [count : Nat, start : Times]]
      BY DEF LimitInv, LimiterTypeOK
    <3>2. [count |-> 1, start |-> now] \in [count : Nat, start : Times]
      BY <1>0
    <3> QED
      BY <1>0, <3>1, <3>2 DEF OpenWindow
  <2>3. \A j \in Kept \cup {k} : windows'[j].start <= now
    BY <1>0, <1>1, InvFacts
  <2> QED
    BY <1>0, <2>1, <2>2, <2>3, GrantTypes DEF LimiterTypeOK
<1>3. Running(k, 1, now)'
  <2>0. PICK t : t = now
    OBVIOUS
  <2>1. /\ granted'[k] = Append(granted[k], t) /\ granted[k] \in Seq(Times) /\ t \in Times
        /\ t \in Nat /\ Window \in Nat /\ Limit \in Nat /\ t' = t
        /\ \A i \in DOMAIN granted[k] : granted[k][i] \in Nat /\ granted[k][i] < t
    BY <1>0, <2>0, GrantTypes, InvFacts DEF Quiet
  <2>2. Span(granted[k], t, t + Window) = {}
    BY <2>1 DEF Span
  <2>3. Cardinality(Span(granted'[k], t, t + Window)) = 1
    <3>1. t <= t /\ t <= t + Window
      BY <2>1
    <3>2. Cardinality(Span(granted'[k], t, t + Window)) =
            Cardinality(Span(granted[k], t, t + Window)) + 1
      BY <2>1, <3>1, SpanGrows
    <3>3. Cardinality(Span(granted[k], t, t + Window)) = 0
      BY <2>2, FS_EmptySet
    <3> QED
      BY <3>2, <3>3
  <2>4. \A i \in DOMAIN granted'[k] : granted'[k][i] <= t + Window
    <3>1. \A i \in DOMAIN granted'[k] :
             granted'[k][i] = t \/ (i \in DOMAIN granted[k] /\ granted'[k][i] = granted[k][i])
      BY <2>1, SpanGrows
    <3> QED
      BY <2>1, <3>1
  <2>5. Cardinality(Span(granted'[k], t - Window, t - 1)) <= Limit
    <3>1. ~(t <= t - 1)
      BY <2>1
    <3>2. Cardinality(Span(granted'[k], t - Window, t - 1)) =
            Cardinality(Span(granted[k], t - Window, t - 1)) + 0
      BY <2>1, <3>1, SpanGrows
    <3>3. Cardinality(Span(granted[k], t - Window, t - 1)) <=
            Cardinality(Span(granted[k], t - Window, t))
      <4>1. \A i \in DOMAIN granted[k] :
               t - Window <= granted[k][i] /\ granted[k][i] <= t - 1
                 => t - Window <= granted[k][i] /\ granted[k][i] <= t
        BY <2>1
      <4> QED
        BY <2>1, <4>1, SpanCovered
    <3>4. Cardinality(Span(granted[k], t - Window, t)) <= Limit
      BY <1>0, <2>0 DEF Quiet, Many
    <3>5. /\ Cardinality(Span(granted[k], t - Window, t - 1)) \in Nat
          /\ Cardinality(Span(granted[k], t - Window, t)) \in Nat
      BY <2>1, SpanSize
    <3> QED
      BY <2>1, <3>2, <3>3, <3>4, <3>5
  <2>6. 1 <= Limit /\ now' = t
    <3>1. Limit # 0
      BY LimiterAssumption
    <3> QED
      BY <2>0, <2>1, <3>1, <1>n
  <2> QED
    BY <2>3, <2>4, <2>5, <2>6 DEF Running, Many
<1>4. ASSUME NEW j \in Keys
      PROVE  (IF j \in Tracked THEN Running(j, windows[j].count, windows[j].start)
              ELSE Quiet(j))'
  <2>1. CASE j = k
    <3>1. windows'[k].count = 1 /\ windows'[k].start = now' /\ k \in Tracked'
      <4>1. windows'[k].count = 1 /\ windows'[k].start = now
        BY <1>1
      <4> QED
        BY <1>0, <1>n, <4>1
    <3> QED
      BY <1>3, <1>n, <2>1, <3>1 DEF Running, Many
  <2>2. CASE j # k
    <3>1. granted'[j] = granted[j] /\ now' = now
      BY <1>0, <2>2, GrantTypes
    <3>2. CASE j \in Kept
      <4>1. /\ j \in Tracked' /\ windows'[j] = windows[j]
            /\ Running(j, windows[j].count, windows[j].start)
        BY <1>0, <1>1, <2>2, <3>2, InvFacts
      <4> QED
        BY <3>1, <4>1 DEF Running, Many
    <3>3. CASE j \notin Kept
      <4>1. j \notin Tracked' /\ (j \in Tracked => Expired(j))
        BY <1>0, <2>2, <3>3 DEF Kept
      <4>2. Quiet(j)
        BY <4>1, ExpiredQuiet
      <4> QED
        BY <3>1, <4>1, <4>2 DEF Quiet, Many
    <3> QED
      BY <3>2, <3>3
  <2> QED
    BY <2>1, <2>2
<1>5. BurstBound'
  <2>0. PICK t : t = now
    OBVIOUS
  <2>1. Running(k, 1, t)'
    BY <1>3, <2>0, <1>0, GrantTypes DEF Running, Many
  <2>2. t \in Nat /\ 1 \in Nat /\ t <= now /\ now <= t + Window
    BY <2>0, InvFacts
  <2> QED
    BY <1>0, <2>1, <2>2, BurstKept
<1>6. MapBounded'
  <2> SUFFICES ASSUME Cardinality(Kept \cup {k}) > MaxKeys + 1
               PROVE  \A j \in Kept \cup {k} : /\ now >= windows'[j].start
                                              /\ now - windows'[j].start <= Window
    BY <1>0, <1>1 DEF MapBounded
  <2>1. IsFiniteSet(Kept) /\ Cardinality(Kept) \in Nat /\ Cardinality(Tracked) \in Nat
        /\ Cardinality(Kept) <= Cardinality(Tracked)
    BY <1>0, FS_Subset, FS_CardinalityType
  <2>2. Cardinality(Kept) > MaxKeys
    <3>1. Cardinality(Kept \cup {k}) = IF k \in Kept THEN Cardinality(Kept)
                                      ELSE Cardinality(Kept) + 1
      BY <2>1, FS_AddElement
    <3> QED
      BY <2>1, <3>1, InvFacts
  <2>3. Cardinality(Tracked) > MaxKeys
    BY <2>1, <2>2, InvFacts
  <2>4. \A j \in Kept : j \in Tracked /\ ~Expired(j)
    BY <2>3 DEF Kept
  <2>5. \A j \in Kept : j # k => /\ now >= windows'[j].start
                                 /\ now - windows'[j].start <= Window
    BY <1>1, <2>4, InvFacts DEF Expired
  <2> QED
    BY <1>1, <2>5, InvFacts
<1> QED
  BY <1>0, <1>2, <1>4, <1>5, <1>6, GrantTypes DEF LimitInv

\* A call that a running window has room for.
LEMMA CountStep ==
    ASSUME LimitInv, NEW k \in Keys, CountCall(k)
    PROVE  LimitInv'
<1>0. PICK t, w : t = now /\ w = windows[k]
  OBVIOUS
<1>1. /\ Returns(k, TRUE) /\ k \in Tracked /\ w.count < Limit
      /\ windows' = [windows EXCEPT ![k].count = @ + 1]
      /\ windows \in [Tracked -> [count : Nat, start : Times]]
      /\ t \in Times /\ t \in Nat /\ Window \in Nat /\ Limit \in Nat
      /\ w.count \in Nat /\ w.start \in Nat /\ w.start <= t /\ t <= w.start + Window
      /\ Running(k, w.count, w.start)
  <2>1. /\ Returns(k, TRUE) /\ k \in Tracked /\ w.count < Limit
        /\ windows' = [windows EXCEPT ![k].count = @ + 1] /\ ~(t - w.start > Window)
    BY <1>0 DEF CountCall, Expired
  <2>2. windows \in [Tracked -> [count : Nat, start : Times]] /\ t \in Times
    BY <1>0 DEF LimitInv, LimiterTypeOK
  <2>3. /\ t \in Nat /\ Window \in Nat /\ Limit \in Nat /\ w.count \in Nat /\ w.start \in Nat
        /\ w.start <= t /\ Running(k, w.count, w.start)
    BY <1>0, <2>1, InvFacts
  <2>4. t <= w.start + Window
    BY <2>1, <2>3
  <2> QED
    BY <2>1, <2>2, <2>3, <2>4
<1>2. /\ Tracked' = Tracked /\ windows'[k].count = w.count + 1 /\ windows'[k].start = w.start
      /\ \A j \in Tracked : j # k => windows'[j] = windows[j]
      /\ windows' \in [Tracked -> [count : Nat, start : Times]]
  BY <1>0, <1>1 DEF Tracked
<1>g. /\ now' = t /\ granted'[k] = Append(granted[k], t) /\ granted[k] \in Seq(Times)
      /\ \A j \in Keys : j # k => granted'[j] = granted[j]
  BY <1>0, <1>1, GrantTypes, InvFacts
<1>3. Running(k, w.count + 1, w.start)'
  <2>1. Cardinality(Span(granted'[k], w.start, w.start + Window)) = w.count + 1
    BY <1>1, <1>g, SpanGrows DEF Running, Many
  <2>2. \A i \in DOMAIN granted'[k] : granted'[k][i] <= w.start + Window
    <3>1. \A i \in DOMAIN granted'[k] :
             granted'[k][i] = t \/ (i \in DOMAIN granted[k] /\ granted'[k][i] = granted[k][i])
      BY <1>1, <1>g, SpanGrows
    <3> QED
      BY <1>1, <3>1 DEF Running
  <2>3. Cardinality(Span(granted'[k], w.start - Window, w.start - 1)) <= Limit
    <3>1. ~(t <= w.start - 1)
      BY <1>1
    <3>2. Cardinality(Span(granted'[k], w.start - Window, w.start - 1)) =
            Cardinality(Span(granted[k], w.start - Window, w.start - 1)) + 0
      BY <1>1, <1>g, <3>1, SpanGrows
    <3>3. Cardinality(Span(granted[k], w.start - Window, w.start - 1)) \in Nat
      BY <1>g, SpanSize
    <3> QED
      BY <1>1, <3>2, <3>3 DEF Running, Many
  <2>4. w.count + 1 <= Limit
    BY <1>1
  <2> QED
    BY <2>1, <2>2, <2>3, <2>4 DEF Running, Many
<1>4. ASSUME NEW j \in Keys
      PROVE  (IF j \in Tracked THEN Running(j, windows[j].count, windows[j].start)
              ELSE Quiet(j))'
  <2>1. CASE j = k
    <3>1. windows'[k].count = w.count + 1 /\ windows'[k].start = w.start /\ k \in Tracked'
      BY <1>1, <1>2
    <3> QED
      BY <1>3, <2>1, <3>1 DEF Running, Many
  <2>2. CASE j # k
    <3>1. granted'[j] = granted[j] /\ now' = now
      BY <1>0, <1>g, <2>2
    <3>2. CASE j \in Tracked
      <4>1. /\ j \in Tracked' /\ windows'[j] = windows[j]
            /\ Running(j, windows[j].count, windows[j].start)
        BY <1>2, <2>2, <3>2, InvFacts
      <4> QED
        BY <3>1, <4>1 DEF Running, Many
    <3>3. CASE j \notin Tracked
      <4>1. j \notin Tracked' /\ Quiet(j)
        BY <1>2, <3>3, InvFacts
      <4> QED
        BY <3>1, <4>1 DEF Quiet, Many
    <3> QED
      BY <3>2, <3>3
  <2> QED
    BY <2>1, <2>2
<1>5. BurstBound'
  <2>1. w.count + 1 \in Nat /\ w.start <= now /\ now <= w.start + Window
    BY <1>0, <1>1
  <2> QED
    BY <1>1, <1>3, <2>1, BurstKept
<1>6. LimiterTypeOK'
  <2>1. \A j \in Tracked : windows'[j].start <= now
    BY <1>0, <1>1, <1>2, InvFacts
  <2> QED
    <3>1. Tracked' \subseteq Keys /\ IsFiniteSet(Tracked') /\ now' = now /\ now \in Times
          /\ windows' \in [Tracked' -> [count : Nat, start : Times]]
      BY <1>0, <1>2, <1>g DEF LimitInv, LimiterTypeOK
    <3> QED
      BY <1>1, <1>2, <2>1, <3>1, GrantTypes DEF LimiterTypeOK
<1>7. MapBounded'
  <2>1. \A j \in Tracked : windows'[j].start = windows[j].start
    BY <1>0, <1>2
  <2> QED
    BY <1>2, <2>1 DEF LimitInv, MapBounded
<1> QED
  BY <1>1, <1>4, <1>5, <1>6, <1>7, GrantTypes DEF LimitInv

\* A refused call: its window has given the whole limit within the time before.
LEMMA RefuseStep ==
    ASSUME LimitInv, NEW k \in Keys, Refuse(k)
    PROVE  LimitInv'
<1>0. PICK t, w : t = now /\ w = windows[k]
  OBVIOUS
<1>1. /\ k \in Tracked /\ ~(t - w.start > Window) /\ w.count >= Limit
      /\ answer' = [key |-> k, at |-> t, ok |-> FALSE] /\ UNCHANGED <<now, windows, granted>>
  BY <1>0 DEF Refuse, Returns, Expired
<1>2. /\ t \in Times /\ t \in Nat /\ Window \in Nat /\ Limit \in Nat /\ w.count \in Nat
      /\ w.start \in Nat /\ Running(k, w.count, w.start) /\ granted[k] \in Seq(Times)
      /\ \A i \in DOMAIN granted[k] : granted[k][i] \in Nat /\ granted[k][i] <= t
  BY <1>0, <1>1, InvFacts DEF LimitInv, LimiterTypeOK
<1>3. Cardinality(Span(granted[k], t - Window, t)) >= Limit
  <2>1. \A i \in DOMAIN granted[k] :
           w.start <= granted[k][i] /\ granted[k][i] <= w.start + Window
             => t - Window <= granted[k][i] /\ granted[k][i] <= t
    BY <1>1, <1>2
  <2>2. Cardinality(Span(granted[k], w.start, w.start + Window))
          <= Cardinality(Span(granted[k], t - Window, t))
    BY <1>2, <2>1, SpanCovered
  <2>3. Cardinality(Span(granted[k], t - Window, t)) \in Nat
    BY <1>2, SpanSize
  <2> QED
    BY <1>1, <1>2, <2>2, <2>3 DEF Running, Many
<1>4. RefusedIsOver'
  <2>1. answer'.key = k /\ answer'.at = t /\ granted' = granted
    BY <1>1
  <2>2. {i \in DOMAIN granted[k] : t - Window <= granted[k][i] /\ granted[k][i] <= t}
          = Span(granted[k], t - Window, t)
    BY DEF Span
  <2> QED
    BY <1>3, <2>1, <2>2 DEF RefusedIsOver, Grants
<1>5. LimiterTypeOK'
  <2>1. answer' \in [key : Keys, at : Times, ok : BOOLEAN] /\ answer'.at <= now
    BY <1>0, <1>1, <1>2
  <2> QED
    BY <1>1, <2>1 DEF LimitInv, LimiterTypeOK, Tracked
<1>6. BurstBound' /\ MapBounded'
  BY <1>1 DEF LimitInv, BurstBound, MapBounded, Grants, Tracked
<1>7. \A j \in Keys : (IF j \in Tracked THEN Running(j, windows[j].count, windows[j].start)
                       ELSE Quiet(j))'
  BY <1>1 DEF LimitInv, Running, Quiet, Many, Tracked
<1> QED
  BY <1>4, <1>5, <1>6, <1>7 DEF LimitInv

\* Time passes: what is quiet stays so.
LEMMA LimiterTickStep ==
    ASSUME LimitInv, Tick
    PROVE  LimitInv'
<1>0. PICK t : t = now
  OBVIOUS
<1>1. /\ now' = t + 1 /\ t + 1 \in Times /\ t \in Nat /\ Window \in Nat /\ Limit \in Nat
      /\ UNCHANGED <<windows, answer, granted>>
  BY <1>0, LimiterAssumption, InvFacts DEF Tick, Times, LimitInv, LimiterTypeOK
<1>2. LimiterTypeOK'
  <2>1. \A k \in Tracked : windows[k].start <= t + 1
    BY <1>0, <1>1, InvFacts
  <2>2. \A k \in Keys : \A i \in DOMAIN granted[k] : granted[k][i] <= t + 1
    BY <1>0, <1>1, InvFacts DEF LimitInv, LimiterTypeOK
  <2>3. answer.at <= t + 1
    <3>1. answer.at \in Times /\ answer.at <= t
      BY <1>0 DEF LimitInv, LimiterTypeOK
    <3>2. answer.at \in Nat
      BY <3>1, LimiterNaturals
    <3> QED
      BY <1>1, <3>1, <3>2
  <2> QED
    BY <1>1, <2>1, <2>2, <2>3 DEF LimitInv, LimiterTypeOK, Tracked
<1>3. ASSUME NEW k \in Keys, Quiet(k) PROVE Quiet(k)'
  <2>1. /\ granted[k] \in Seq(Times) /\ Many(k, t - Window, t) <= Limit
        /\ \A i \in DOMAIN granted[k] : granted[k][i] \in Nat /\ granted[k][i] < t
    BY <1>0, <1>3, InvFacts DEF Quiet
  <2>2. \A i \in DOMAIN granted[k] :
           (t + 1) - Window <= granted[k][i] /\ granted[k][i] <= t + 1
             => t - Window <= granted[k][i] /\ granted[k][i] <= t
    BY <1>1, <2>1
  <2>3. Many(k, (t + 1) - Window, t + 1) <= Many(k, t - Window, t)
    BY <2>1, <2>2, SpanCovered DEF Many
  <2>4. Many(k, (t + 1) - Window, t + 1) \in Nat /\ Many(k, t - Window, t) \in Nat
    BY <2>1, SpanSize DEF Many
  <2>5. Many(k, (t + 1) - Window, t + 1) <= Limit
    BY <1>1, <2>1, <2>3, <2>4
  <2>6. \A i \in DOMAIN granted[k] : granted[k][i] < t + 1
    BY <1>1, <2>1
  <2> QED
    BY <1>1, <2>5, <2>6 DEF Quiet, Many
<1>4. \A j \in Keys : (IF j \in Tracked THEN Running(j, windows[j].count, windows[j].start)
                       ELSE Quiet(j))'
  <2> SUFFICES ASSUME NEW j \in Keys
               PROVE  (IF j \in Tracked THEN Running(j, windows[j].count, windows[j].start)
                       ELSE Quiet(j))'
    OBVIOUS
  <2>1. CASE j \in Tracked
    <3>1. Running(j, windows[j].count, windows[j].start) /\ j \in Tracked'
      BY <1>1, <2>1, InvFacts DEF Tracked
    <3> QED
      BY <1>1, <3>1 DEF Running, Many
  <2>2. CASE j \notin Tracked
    BY <1>1, <1>3, <2>2, InvFacts DEF Tracked
  <2> QED
    BY <2>1, <2>2
<1>5. BurstBound' /\ RefusedIsOver' /\ MapBounded'
  BY <1>1 DEF LimitInv, BurstBound, RefusedIsOver, MapBounded, Grants, Tracked
<1> QED
  BY <1>2, <1>4, <1>5 DEF LimitInv

LEMMA LimiterInit ==
    ASSUME Init
    PROVE  LimitInv
<1>1. /\ now = 0 /\ 0 \in Times /\ Tracked = {} /\ Limit \in Nat /\ Window \in Nat
      /\ \A k \in Keys : granted[k] = <<>>
  BY LimiterAssumption DEF Init, Times, Tracked
<1>2. \A s : s = <<>> => s \in Seq(Times) /\ DOMAIN s = {}
  OBVIOUS
<1>3. \A k \in Keys : \A a, b : Many(k, a, b) = 0 /\ Grants(k, a, b) = 0
  <2>1. \A k \in Keys : \A a, b : Span(granted[k], a, b) = {}
                              /\ {i \in DOMAIN granted[k] : a <= granted[k][i] /\ granted[k][i] <= b} = {}
    BY <1>1, <1>2 DEF Span
  <2> QED
    BY <2>1, FS_EmptySet DEF Many, Grants
<1>4. LimiterTypeOK
  <2>1. windows \in [Tracked -> [count : Nat, start : Times]]
    <3>1. windows = [k \in {} |-> [count |-> 0, start |-> 0]]
      BY DEF Init
    <3>2. windows \in [{} -> [count : Nat, start : Times]]
      BY <3>1
    <3> QED
      BY <1>1, <3>2
  <2>2. answer \in [key : Keys, at : Times, ok : BOOLEAN] /\ answer.at <= now
    <3>1. answer \in [key : Keys, at : {0}, ok : {TRUE}]
      BY DEF Init
    <3>2. answer.at = 0
      BY <3>1
    <3>3. {0} \subseteq Times /\ {TRUE} \subseteq BOOLEAN
      BY <1>1
    <3>4. answer \in [key : Keys, at : Times, ok : BOOLEAN]
      BY <3>1, <3>3
    <3>5. answer.at <= now
      BY <1>1, <3>2
    <3> QED
      BY <3>4, <3>5
  <2>3. granted \in [Keys -> Seq(Times)]
    BY <1>1, <1>2 DEF Init
  <2> QED
    BY <1>1, <1>2, <2>1, <2>2, <2>3, FS_EmptySet DEF LimiterTypeOK
<1>5. \A k \in Keys : Quiet(k)
  BY <1>1, <1>2, <1>3 DEF Quiet
<1>6. BurstBound
  BY <1>1, <1>3 DEF BurstBound
<1>7. RefusedIsOver
  BY DEF Init, RefusedIsOver
<1>8. MapBounded
  <2>1. Cardinality(Tracked) = 0 /\ MaxKeys \in Nat
    BY <1>1, FS_EmptySet, LimiterAssumption
  <2> QED
    BY <2>1 DEF MapBounded
<1> QED
  BY <1>1, <1>4, <1>5, <1>6, <1>7, <1>8 DEF LimitInv

\* LimitInv is an invariant of the limiter.
LEMMA LimitInvariant == Spec => []LimitInv
<1>1. Init => LimitInv
  BY LimiterInit
<1>2. LimitInv /\ [Next]_vars => LimitInv'
  <2> SUFFICES ASSUME LimitInv, [Next]_vars PROVE LimitInv'
    OBVIOUS
  <2>1. CASE UNCHANGED vars
    BY <2>1 DEF vars, LimitInv, LimiterTypeOK, Running, Quiet, Many, BurstBound, RefusedIsOver,
                MapBounded, Grants, Tracked
  <2> QED
    BY <2>1, OpenStep, CountStep, RefuseStep, LimiterTickStep DEF Next
<1> QED
  BY <1>1, <1>2, PTL DEF Spec

\* No endpoint gets more than two limits of pushes through in any span of a window's
\* length, however its windows fall and whatever the map drops in between (allow).
THEOREM Burst == Spec => []BurstBound
<1>1. LimitInv => BurstBound
  BY DEF LimitInv
<1> QED
  BY <1>1, LimitInvariant, PTL

\* Whoever is answered 429 has had a whole limit of pushes within the window's length
\* before (allow).
THEOREM RefusalDeserved == Spec => []RefusedIsOver
<1>1. LimitInv => RefusedIsOver
  BY DEF LimitInv
<1> QED
  BY <1>1, LimitInvariant, PTL

\* The map holds more than its threshold of windows only while all of them run (allow).
THEOREM MapIsBounded == Spec => []MapBounded
<1>1. LimitInv => MapBounded
  BY DEF LimitInv
<1> QED
  BY <1>1, LimitInvariant, PTL
=============================================================================
