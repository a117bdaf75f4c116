---------------------------- MODULE MCServiceAuth ----------------------------
(* Instances of ServiceAuth for TLC: alice moves from a secp256k1 key to a P-256 key;
   the documents also list a method that is not for signing service tokens. *)
EXTENDS ServiceAuth, TLC

CONSTANTS alice, old, new, foreign

MCKeyOf == [d \in Keys |-> <<old, new>>]

Other      == [atproto |-> FALSE, jwk |-> foreign, multibase |-> None]
ByMultibase(k) == [atproto |-> TRUE, jwk |-> None, multibase |-> k]
ByJwk(k)       == [atproto |-> TRUE, jwk |-> k, multibase |-> None]
MCDocs == [d \in Keys |-> << <<Other, ByMultibase(old)>>, <<ByJwk(new), Other>> >>]

Body    == [complete |-> TRUE, service |-> "us", platform |-> "ios",
            tokenLen |-> 2048, appIDLen |-> 256]
Token(alg, key) == [iss |-> alice, aud |-> "us", lxm |-> "register", alg |-> alg, signer |-> key]
Plain   == [endpoint |-> "register", secret |-> TRUE, from |-> "cloudflare", actor |-> None,
            token |-> Token("ES256K", old), body |-> Body]
Unregister == [Plain EXCEPT !.endpoint = "unregister", !.token.lxm = "unregister"]

\* The right token of each key and a foreign one; a request past the proxy, one in the
\* manner of development, and a body that is too long to unregister.
MCArriving ==
    {Plain, [Plain EXCEPT !.token = Token("ES256", new)],
     [Plain EXCEPT !.token = Token("ES256", foreign)],
     [Plain EXCEPT !.secret = FALSE],
     [Plain EXCEPT !.from = "elsewhere", !.actor = alice, !.token = None],
     [Unregister EXCEPT !.body.tokenLen = 2049]}

MCSymmetry == Permutations(Callers)
=============================================================================
