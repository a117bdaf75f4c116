---------------------------- MODULE OriginVerify ----------------------------
(***************************************************************************)
(* The middleware of internal/originverify in front of every handler: with *)
(* a secret configured, a request passes only if it carries the secret,    *)
(* but for the exempt routes.  A route stands for its path.                *)
(***************************************************************************)
\* Exclude holds what ExcludeHealth and ExcludeDIDJSON switch off; the relay is exempt
\* whatever the operator configures.
isExempt(route, Exclude) == route = "relay" \/ route \in Exclude \cap {"health", "did.json"}

\* Wrap: whether a request reaches its handler; otherwise it is answered 403.
PassesMutOption(route, carriesSecret, secretSet, Exclude) ==
    ~secretSet \/ route \in Exclude \/ carriesSecret
Passes(route, carriesSecret, secretSet, Exclude) ==
    ~secretSet \/ isExempt(route, Exclude) \/ carriesSecret
=============================================================================
