-------------------------------- MODULE Vapid --------------------------------
(***************************************************************************)
(* internal/vapid: the check of the Authorization header that proves which *)
(* instance a push comes from.  A key stands for a P-256 key pair; a       *)
(* header offers a public key and a JWT, which somebody signed.  Base64    *)
(* and padding variants of one key are that key: sameKey compares bytes.   *)
(***************************************************************************)
CONSTANTS VapidKeys, NoKey   \* key pairs; the absence of a key, a header, or a point

Headers == [parses : BOOLEAN,                \* the scheme and both of t and k
            offered : VapidKeys \cup {NoKey}, \* k, NoKey if it is no point on P-256
            signer : VapidKeys,              \* who signed t
            es256 : BOOLEAN, expired : BOOLEAN]

\* Verify: the pinned key, if there is one, and the signature under the offered key.
\* A missing exp claim counts as not expired.
VerifyMutNoSignature(h, pinnedKey) ==
    /\ h.parses
    /\ pinnedKey = NoKey \/ h.offered = pinnedKey
    /\ h.offered # NoKey
Verify(h, pinnedKey) ==
    /\ h.parses
    /\ pinnedKey = NoKey \/ h.offered = pinnedKey
    /\ h.offered # NoKey
    /\ h.es256 /\ h.signer = h.offered /\ ~h.expired
=============================================================================
