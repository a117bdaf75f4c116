----------------------------- MODULE ServiceAuth -----------------------------
(***************************************************************************)
(* registerPush and unregisterPush of internal/xrpc up to the store:       *)
(* verifyAuth takes the caller's DID from an inter-service JWT, for whose  *)
(* signature it needs the issuer's signing key, from the cache of the DID  *)
(* resolver (module ResolverCache, with CacheFailures = FALSE) or from the *)
(* network; then the body is checked.  A caller of the cache is a request. *)
(*                                                                         *)
(* External: the DID documents, each of which changes once, its signing    *)
(* key with it; who holds which key; the requests.  A time is a tick at    *)
(* which expiry, cache age and fetch timeout are all measured.             *)
(***************************************************************************)
EXTENDS ResolverCache, OriginVerify

CONSTANTS KeyPairs, NoKey,
          P256,         \* those of KeyPairs on P-256; the others are on secp256k1
          KeyOf,        \* external: the signing key of each DID, before and after
          Docs,         \* external: its DID document, before and after
          MaxLifetime,  \* maxLifetimeSeconds
          SecretSet,    \* an origin secret is configured
          Arriving      \* the requests that may arrive, see RequestType

\* A verification method: its id contains #atproto or not; keys are NoKey if there is no
\* parsing them, None if the field is absent.
MethodType == [atproto : BOOLEAN, jwk : KeyPairs \cup {NoKey, None},
               multibase : KeyPairs \cup {NoKey, None}]

Endpoints == {"register", "unregister"}

\* The token names its issuer iss, None if it is no DID, and is meant for the service
\* aud and the method lxm; somebody signed it with a key.
TokenType == [iss : Keys \cup {None}, aud : {"us", "other"}, lxm : Endpoints,
              alg : {"ES256", "ES256K", "none"}, signer : KeyPairs]
BodyType == [complete : BOOLEAN, service : {"us", "other"},
             platform : {"ios", "android", "web", "other"},
             tokenLen : Nat, appIDLen : Nat]
RequestType == [endpoint : Endpoints, secret : BOOLEAN,
                from : {"cloudflare", "loopback", "elsewhere"},
                actor : Keys \cup {None},       \* the X-Actor-DID header
                token : TokenType \cup {None},  \* None if there is none or it is garbled
                body : BodyType]

ASSUME ServiceAuthAssumption ==
    /\ ~CacheFailures /\ TTL > 0
    /\ NoKey \notin KeyPairs /\ None \notin KeyPairs /\ P256 \subseteq KeyPairs
    /\ KeyOf \in [Keys -> KeyPairs \X KeyPairs]
    /\ Docs \in [Keys -> Seq(MethodType) \X Seq(MethodType)]
    /\ MaxLifetime \in Nat /\ SecretSet \in BOOLEAN
    /\ Arriving \subseteq RequestType /\ None \notin Arriving

VARIABLES
    devMode,    \* GATEWAY_DEV_MODE, read at the start
    rotatedAt,  \* external: the tick from which each DID has its second key
    request,    \* the request each caller fetches for, and when its token expires
    answer      \* the answer given in the last step: to what, when, why, and for which DID

authVars == <<devMode, rotatedAt, request, answer>>
allVars  == <<vars, authVars>>

NoRequest == [req |-> None, exp |-> 0]
NoAnswer  == [req |-> None, exp |-> 0, at |-> 0, did |-> None, why |-> "nothing"]

\* Whether DID d has its second key at time t, as an index.
Version(d, t) == IF t < rotatedAt[d] THEN 1 ELSE 2

\* The first method whose id contains #atproto; its JWK before its multibase key.
GetSigningKeyMutAnyMethod(doc) ==
    IF doc = <<>> THEN NoKey
    ELSE LET vm == Head(doc) IN
         IF vm.jwk # None THEN vm.jwk ELSE IF vm.multibase # None THEN vm.multibase ELSE NoKey
GetSigningKey(doc) ==
    LET methods == SelectSeq(doc, LAMBDA vm : vm.atproto) IN
    IF methods = <<>> THEN NoKey
    ELSE LET vm == Head(methods) IN
         IF vm.jwk # None THEN vm.jwk ELSE IF vm.multibase # None THEN vm.multibase ELSE NoKey

\* verifyAuth, before the issuer is resolved.
requireCloudflareTransit(r) == devMode \/ r.from \in {"loopback", "cloudflare"}

ByHeader(r) == devMode /\ r.actor # None

\* The claims of a token that expires at exp, which is 0 if it has none.
ClaimsHoldMutNoCap(r, exp) ==
    /\ r.token # None
    /\ exp # 0 /\ now <= exp
    /\ r.token.iss # None
    /\ r.token.aud = "us" /\ r.token.lxm = r.endpoint
    /\ r.token.alg \in {"ES256", "ES256K"}
ClaimsHold(r, exp) ==
    /\ r.token # None
    /\ exp # 0 /\ now <= exp /\ exp - now <= MaxLifetime
    /\ r.token.iss # None
    /\ r.token.aud = "us" /\ r.token.lxm = r.endpoint
    /\ r.token.alg \in {"ES256", "ES256K"}

\* The curve of the key fits the algorithm, and the key verifies the signature.
SignatureHolds(token, key) ==
    /\ key # NoKey
    /\ token.alg = "ES256" <=> key \in P256
    /\ token.signer = key

\* handleRegisterPush and handleUnregisterPush: the checks of the body, the limits
\* being written down in each of them.
RegisterTakes(body) ==
    /\ body.complete /\ body.service = "us" /\ body.platform # "other"
    /\ body.tokenLen <= 2048 /\ body.appIDLen <= 256
UnregisterTakes(body) ==
    /\ body.complete /\ body.service = "us"
    /\ body.tokenLen <= 2048 /\ body.appIDLen <= 256

\* The request of somebody who was found to be did is answered 200, the call of the store
\* (module TokenStore) having succeeded, or 400.
Authenticated(r, exp, did) ==
    answer' = [req |-> r, exp |-> exp, at |-> now, did |-> did,
               why |-> IF (IF r.endpoint = "register" THEN RegisterTakes(r.body)
                                                      ELSE UnregisterTakes(r.body))
                       THEN "done" ELSE "body"]

Refused(r, exp, why) ==
    answer' = [req |-> r, exp |-> exp, at |-> now, did |-> None, why |-> why]

\* The end of verifyAuth, with the document of the issuer that its source had at asOf.
VerifySignature(r, exp, asOf) ==
    IF SignatureHolds(r.token, GetSigningKey(Docs[r.token.iss][Version(r.token.iss, asOf)]))
    THEN Authenticated(r, exp, r.token.iss)
    ELSE Refused(r, exp, "signature")

-----------------------------------------------------------------------------
AuthInit ==
    /\ Init
    /\ devMode \in BOOLEAN
    /\ rotatedAt \in [Keys -> Times]
    /\ request = [c \in Callers |-> NoRequest]
    /\ answer = NoAnswer

AuthTick ==
    /\ Tick
    /\ answer' = NoAnswer
    /\ UNCHANGED <<devMode, rotatedAt, request>>

\* A request is answered without a look at any document: 403 of the middleware, 401 of
\* verifyAuth, or in development mode as what its header says.
Screened(c, r, exp) ==
    /\ pc[c] = "idle"
    /\ \/ ~Passes("xrpc", r.secret, SecretSet, {}) /\ Refused(r, exp, "origin")
       \/ /\ Passes("xrpc", r.secret, SecretSet, {})
          /\ ~requireCloudflareTransit(r) /\ Refused(r, exp, "transit")
       \/ /\ Passes("xrpc", r.secret, SecretSet, {}) /\ requireCloudflareTransit(r)
          /\ ByHeader(r) /\ Authenticated(r, exp, r.actor)
       \/ /\ Passes("xrpc", r.secret, SecretSet, {}) /\ requireCloudflareTransit(r)
          /\ ~ByHeader(r) /\ ~ClaimsHold(r, exp) /\ Refused(r, exp, "claims")
    /\ UNCHANGED <<vars, devMode, rotatedAt, request>>

\* A request whose token is to be verified.
Admitted(r, exp) ==
    /\ Passes("xrpc", r.secret, SecretSet, {}) /\ requireCloudflareTransit(r)
    /\ ~ByHeader(r) /\ ClaimsHold(r, exp)

\* ResolveDID has the document.
Known(c, r, exp) ==
    /\ Admitted(r, exp)
    /\ Hit(c, r.token.iss)
    /\ VerifySignature(r, exp, cache[r.token.iss].asOf)
    /\ UNCHANGED <<devMode, rotatedAt, request>>

\* ResolveDID has to fetch it.
Unknown(c, r, exp) ==
    /\ Admitted(r, exp)
    /\ Miss(c, r.token.iss)
    /\ request' = [request EXCEPT ![c] = [req |-> r, exp |-> exp]]
    /\ answer' = NoAnswer
    /\ UNCHANGED <<devMode, rotatedAt>>

\* fetchDIDDocument returns the document, or an error: also for a DID method that is
\* neither plc nor web, a host that is refused, and a document that does not parse.
Fetched(c) ==
    /\ Fetch(c)
    /\ IF pc'[c] = "idle"
       THEN /\ Refused(request[c].req, request[c].exp, "unresolved")
            /\ request' = [request EXCEPT ![c] = NoRequest]
       ELSE answer' = NoAnswer /\ UNCHANGED request
    /\ UNCHANGED <<devMode, rotatedAt>>

\* ResolveDID stores the document and returns that one, whatever others stored.
Verified(c) ==
    /\ Store(c)
    /\ VerifySignature(request[c].req, request[c].exp, call[c].asOf)
    /\ request' = [request EXCEPT ![c] = NoRequest]
    /\ UNCHANGED <<devMode, rotatedAt>>

\* A token may have expired just now or live too long; with -1 at the start it has no exp.
Exps == {e \in {now - 1, now, now + MaxLifetime, now + MaxLifetime + 1} : e >= 0}

AuthNext ==
    \/ AuthTick
    \/ \E c \in Callers :
          \/ Fetched(c) \/ Verified(c)
          \/ \E r \in Arriving, exp \in Exps :
                Screened(c, r, exp) \/ Known(c, r, exp) \/ Unknown(c, r, exp)

AuthSpec == AuthInit /\ [][AuthNext]_allVars

-----------------------------------------------------------------------------
Whys == {"nothing", "origin", "transit", "claims", "unresolved", "signature", "body", "done"}

\* What verifyAuth adds to the cache has its types; a request is kept exactly while its
\* issuer is resolved.
AuthTypeOK ==
    /\ devMode \in BOOLEAN /\ rotatedAt \in [Keys -> Times]
    /\ request \in [Callers -> [req : Arriving \cup {None}, exp : Nat]]
    /\ answer.req \in Arriving \cup {None} /\ answer.exp \in Nat /\ answer.at \in Times
    /\ answer.did \in Keys \cup {None} /\ answer.why \in Whys
    /\ \A c \in Callers :
          IF pc[c] = "idle" THEN request[c] = NoRequest
          ELSE request[c].req # None /\ request[c].req.token.iss = call[c].key

\* Whoever acts for a DID holds the key that was its signing key less than one cache
\* lifetime and one fetch ago, whichever requests refreshed the cache or overtook this
\* one meanwhile (verifyAuth; development mode takes everybody at their word).
AuthenticCaller ==
    answer.did # None /\ ~devMode =>
        \E t \in Times : /\ t <= answer.at /\ answer.at - t < TTL + Timeout
                         /\ answer.req.token.signer = KeyOf[answer.did][Version(answer.did, t)]

\* A rotated key takes effect: a token made with the new key is refused for its signature
\* only if less than one cache lifetime and one fetch ago the old key was still in force
\* (ResolveDID, cacheTTL).
RotationTakesEffect ==
    answer.why = "signature" =>
        LET token == answer.req.token
            key   == KeyOf[token.iss][2] IN
        (token.signer = key /\ (token.alg = "ES256" <=> key \in P256)) =>
            answer.at - (rotatedAt[token.iss] - 1) < TTL + Timeout

\* A token acts for its issuer in a bounded time only: at most a lifetime before its
\* expiry, and after it at most as long as a document is being fetched, since verifyAuth
\* looks at the clock before it resolves the issuer and not again.
UsedInTime ==
    answer.did # None /\ ~devMode =>
        /\ answer.at <= answer.exp + Timeout
        /\ answer.exp <= answer.at + MaxLifetime
=============================================================================
