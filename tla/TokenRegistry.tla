---------------------------- MODULE TokenRegistry ----------------------------
(***************************************************************************)
(* What the push_tokens table promises its callers: a set of rows, one     *)
(* per (DID, device token), that registrations and unregistrations change  *)
(* one at a time, with at most MaxTokensPerDID tokens for a DID.           *)
(* TokenStore implements it with SQLite transactions of several steps.     *)
(***************************************************************************)
EXTENDS Naturals, FiniteSets

CONSTANTS DIDs,             \* account identifiers
          Tokens,           \* device push tokens
          Apps,             \* (platform, app_id) pairs
          MaxTokensPerDID,  \* maxTokensPerDID, 20 in the code
          None              \* the absence of a row

VARIABLE rows               \* rows[d][t] is the app of row (d, t), or None

TokensOf(d) == {t \in Tokens : rows[d][t] # None}

Init == rows = [d \in DIDs |-> [t \in Tokens |-> None]]

\* The upsert never lets the DID's other tokens reach the cap.
Register(d, t, a) ==
    /\ Cardinality(TokensOf(d) \ {t}) < MaxTokensPerDID
    /\ rows' = [rows EXCEPT ![d][t] = a]

\* Only the row of exactly this token and app goes.
Unregister(d, t, a) ==
    /\ rows[d][t] = a
    /\ rows' = [rows EXCEPT ![d][t] = None]

Next == \E d \in DIDs, t \in Tokens, a \in Apps :
            Register(d, t, a) \/ Unregister(d, t, a)

Spec == Init /\ [][Next]_rows
=============================================================================
