------------------------------ MODULE Eviction ------------------------------
(***************************************************************************)
(* The loop of evictOldest, the same in the caches of DID documents,       *)
(* profiles and post texts: the map is copied into a slice in the order in *)
(* which it is walked, which the code does not determine; then, toEvict    *)
(* times, the oldest entry of the slice is looked for, deleted from the    *)
(* map, and replaced by the slice's last entry.                            *)
(***************************************************************************)
EXTENDS Naturals, Sequences, SequencesExt

\* A share of n entries (a quarter in the code), but at least one.
ToEvict(n, share) == IF n \div share < 1 THEN 1 ELSE n \div share

\* The inner loop: the first of the entries of s that none is Before in at.
OldestIdx(at, s) ==
    CHOOSE j \in DOMAIN s :
        /\ \A k \in DOMAIN s : at[s[j]] <= at[s[k]]
        /\ \A k \in 1..j - 1 : at[s[k]] > at[s[j]]

SwapOutMutNoFill(s, j) == Front(s)
SwapOut(s, j) == Front([s EXCEPT ![j] = Last(s)])

\* One turn of the outer loop: the slice shrinks and the entry goes.
EvictOne(at, st) ==
    LET j == OldestIdx(at, st.entries)
    IN  [entries |-> SwapOut(st.entries, j), gone |-> st.gone \cup {st.entries[j]}]

\* The slice and what is gone after each of n turns, for a map walked in the order walk.
Turns(at, walk, n) ==
    LET st[i \in 0..n] == IF i = 0 THEN [entries |-> walk, gone |-> {}]
                          ELSE EvictOne(at, st[i - 1])
    IN  st

\* The entries that go, out of those of at (cachedAt by key).
EvictOldest(at, walk, share) ==
    LET n == ToEvict(Len(walk), share) IN Turns(at, walk, n)[n].gone
=============================================================================
