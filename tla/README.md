# Verification of atproto-push-gateway

TLA+ models of the gateway's core (`src/`), the TLC configurations that check them on small
instances, and proofs of the most important results for instances of every size. The models are
translated from the Go code; where a doc, a comment or a test says something else, the model
follows the code and the disagreement is listed under *Divergences*.

    tlc -workers 2 -config TokenStore.cfg MCTokenStore     # a run: <name>.cfg with its MC module
    tlapm TokenStoreProofs.tla                             # the proofs

## 1. The system

One Go process with a SQLite file. XRPC handlers (one goroutine per request), the Jetstream
consumer (a reader, a ping loop and eight dispatch workers), one backfill goroutine per newly
registered DID, and the relay's handlers share the store and the push senders. There is no
scheduler of the program's own and no inter-process protocol: everything hard comes from
goroutines between two critical sections, from the network, and from restarts.

| component | state | operations | interacts with |
|---|---|---|---|
| device tokens, `store.go` | table `push_tokens`, set `registeredDIDs` | RegisterToken, UnregisterToken, IsRegistered, GetTokensForDID, reload | handlers and workers call it; decides what events concern anybody |
| blocks, `store.go` | table `blocks`, maps `blocks`, `blocksByRKey`; `blocks_backfilled` | AddBlock, RemoveBlockByRKey, IsBlocked, MarkBlocksBackfilled | workers and backfills write, `sendNotification` reads |
| verifications, `store.go` | table `verifications`, map `verificationsByRKey` | AddVerification, RemoveVerificationByRKey | workers write it, the notification of a removal reads it |
| web push endpoints, `webpush.go` | table `webpush_endpoints` | create, get, touch, delete by id or device | relay handlers |
| Jetstream consumer, `jetstream/consumer.go` | `startCh`, `stopCh`, `lastCursor`, `commitCh`, connection, backoff | Run, connect, ping loop, dispatchWorker, NotifyTokenRegistered, Stop | handlers start it, `main` stops it, it feeds the workers |
| event handlers, `jetstream/consumer.go` | none of their own | handleCommit and its handlers, sendNotification | store, resolvers, senders |
| block backfill, `xrpc/blocks.go` | the mark in `blocks_backfilled` | maybeStartBlocksBackfill, backfillBlocks | started by a registration, writes the block store |
| registration endpoints, `xrpc/handler.go` | none | handleRegisterPush, handleUnregisterPush | store, consumer, backfill |
| service authentication, `xrpc/handler.go` | none of its own | verifyAuth | DID resolver and its cache |
| relay, `relay/relay.go` | none besides the table | handleRegister, handleUnregister, handlePush | store, limiter, VAPID, senders; answered codes steer the Fediverse instance |
| rate limiter, `relay/relay.go` | map of windows | allow | handlePush |
| resolvers, `did`, `profile`, `posttext` | a cache each | Resolve..., evictOldest | AppView, PLC directory |
| push senders, `push/` | APNs token cache | Send | Expo, FCM, APNs |
| VAPID, `vapid/` | none | Verify | handlePush |
| origin verification, `originverify/` | none | Wrap, isExempt | in front of every handler |
| process wiring, `cmd/server` | none | start, shutdown | all |

**What is hard.** (1) The store keeps a table and an in-memory mirror of it that no lock spans:
calls of the two kinds on one DID or one pair may interleave, fail half-way, or be cut by a
restart. (2) Deferred SQLite transactions count before they write. (3) A bounded queue drops, and
eight workers reorder. (4) The backfill's listing is older than the live events it races with.
(5) The consumer starts lazily through a channel that anybody may close, reconnects from a cursor
that it keeps in memory only, so that nobody delivers what is committed before its first event or
while the process is down, and must end on Stop. (6) `sendNotification` checks first and pushes seconds later. (7) In the
relay a wrong 4xx cancels a Fediverse subscription for ever, rows and requests interleave, and
registrations and unregistrations are accepted from anybody, however late.
(8) Caches refilled
without a lock, one of which decides who a caller is while keys rotate. `PROJECT.json` lists each under `hazards`, at its line.

**What makes each part correct.** Tokens: the cap holds, the mirror says what the table says.
Blocks: the mirror says what the table says, and the table what the network says. Verifications:
the index follows the table, and the last word a subject hears is true. Consumer: nothing lost
unaccounted, one connection, started when there is a token and only then, ends on Stop. Delivery:
everybody who should be told is, once per engagement, nobody who is not registered, is blocked, or
is the actor; rows go only for dead tokens. Relay: no live subscription is destroyed, one endpoint
per device, a logout leaves none, only the pinned sender is forwarded. Authentication: a caller
holds a recent key, a new key takes effect, a token is used in time. Limiter and caches: bounded,
and never unfair or older than stated.

## 2. Modules

    TokenRegistry <-- implemented by -- TokenStore      <- TokenStoreProofs
                                        BlockStore
                                          ^ EXTENDS
                                        BlockSync       <- BlockSyncProofs (and BlockStore's)
                                          (store + queue + workers + backfill)
                                        Verification    <- VerificationProofs
                                        Consumer        <- ConsumerProofs
    Push ------------------------->     Delivery        <- DeliveryProofs
    Push, Vapid, OriginVerify ---->     Relay           <- RelayProofs
                                        RateLimiter     <- RateLimiterProofs
    Eviction <- ResolverCache
                  ^ EXTENDS
    OriginVerify, ResolverCache -->     ServiceAuth     <- ServiceAuthProofs (and ResolverCache's)
    MC*                                 instances for TLC: model values, events, symmetry

**TokenStore** has one action per SQL statement or critical section. `RegisterToken` is
`CountExisting` (the transaction's SELECT), `InsertRow` (the upsert; needs the writer's slot and a
snapshot nobody wrote behind), `CommitInsert`, `RememberDID` (the lock); `UnregisterToken` is
`DeleteRow`, `Recount` or `RecountFails` (the unchecked error), `ForgetDID`. `StoreError` is a
failing statement, `ForeignCommit` a commit of another table that makes snapshots stale,
`Restart` a new process that reloads. SQLite is external and stated in the module's head.
**TokenRegistry** is what callers may believe: one atomic change of the table at a time.

**BlockStore** does the same for `AddBlock` (`InsertBlock`, `RememberBlock`) and
`RemoveBlockByRKey` (`Lookup`, `DeleteBlock`, `ForgetBlock`, `UnindexBlock`). **BlockSync** extends
it by who calls it: the network creates and deletes records, workers `Take` their commits and
handle them by `HandleCreate` and `HandleDelete`, a registration makes a `Claim`, and the backfill
goes `FetchPage`, `AddFromPage`, `PageDone`. `Connect` needs `startCh` closed (`started`), which the
first stored token does after the claim; `link` says whether the consumer is connected and whether
it has a cursor. On a connection, or behind a cursor, `Publish` queues or drops a commit; without
either, before the first connection, after one that ended before an event came (`Break`), and from
the end of a process to the connection of the next (`ProcessRestart`), `Miss` has nobody deliver it.
The auxiliary sets `unseen`, `tainted` and `disturbed` collect the pairs for which one of the known
causes of divergence occurred; `SyncExact` says there is no other. A missed create counts as unseen
until a listing that reaches it is through; a missed delete is a cause if the gateway knew the block,
or was about to (`Traced`).

**Consumer** models `Run` and `connect` as one program counter `run`, with the ping loop, handlers,
workers and `Stop` beside it. An event is its position in the stream; a reconnect may resume at
the cursor or behind it. `Take` to `Finish` is `handleCommit`, of which one call is told apart:
`AskToken`, the fetch of an OAuth token below `FCMSender.Send`, which has no timeout.

**Verification** has the steps of `AddVerification` (`Insert`, `Remember`) and
`RemoveVerificationByRKey` (`Lookup`, `DeleteRow`, `Forget`), each followed by `Notify`, in workers
that take from a bounded queue. `Send` puts an event on the connection, if there is one or a cursor
to resume at (`following`, changed by `Connect` and `Disconnect`); `Reconnect` repeats the last event,
as the cursor does; `Restart` loses cursor and queue and reloads the index. `Notify` stands for
`sendNotification`, which may tell the subject or, at any of its checks and failures, nobody. The
auxiliary `due` is what the subject was to be told, `withheld` are the records it was not told of,
`overlapped` those two workers met at, and `lost` those of which an event was missed, dropped, failed,
or died with the process.

**Push** is `MultiSender.Send`: `Route` picks the sender of a device, `Answers` are what a provider
may say of a valid and of an invalid token, `TokenInvalid` is which of these APNs and FCM turn into
`ErrTokenInvalid`, and `Outcomes` is what the caller sees. Both callers use it.

**Delivery** goes from an event to the pushes. `Calls` is the control of `handleLike`,
`handleRepost`, `handlePost` and `handleFollow`. A handler's "nobody there" and "the actor
themselves" skip a call; `CheckRegistered` makes the same test (`Concerns`) where it takes the call,
so that the list of calls of a post is the list of its targets. `CheckRegistered`, `CheckBlocked`, `ReadTokens`
(which may also stop early without an error, as the code does not look at `rows.Err`), `Resolve`, `SendOne`, `ForgetToken`, `LoopEnds` are `sendNotification`. Between any two of them
clients, blocks and device tokens change.

**Relay** models `handlePush` in steps that end where shared state is touched: `PushArrives` or
`LookupFails` (the row is read), `Screen` (VAPID, the limiter's verdict, the body), `Send`,
`DropEndpoints`, `AnswerArrives`; the two other handlers make one store call each and are one step
each. They ask nobody who they are and do not look at the request's context: `HandleRegister` may
commit at any time, for a client that waits, or as a late, duplicate or foreign copy, and
`UnregisterEndpoint` and `UnregisterDevice` may come from the client or from another. The auxiliary
`overtaken` and `cutOff` are the devices registered and unregistered behind their client's back since
it last heard from the relay. The client, the instance that destroys subscriptions on a 4xx other than 408 and 429, and the
provider are external actors. **Vapid** is `Verify` over headers that offer one key and are signed
by another; **OriginVerify** is the middleware, also in front of ServiceAuth.

**RateLimiter** is `allow`, one step as it holds its mutex; the auxiliary `granted` is the log of
each key's allowed calls, in their order. **ResolverCache** is the look-up, the
fetch without a lock and the store of the three caches, with their parameters as constants;
**Eviction** is the loop of `evictOldest`, for a given order of walking the map, as a recursive
function of the number of turns.

**ServiceAuth** puts `registerPush` and `unregisterPush` on top of that cache. `Screened` are the
answers that need no document (origin, transit, development header, claims), `Known` verifies
against the cached document, `Unknown`, `Fetched` and `Verified` go to the network, and the clock
runs meanwhile. Each DID document has two versions; `rotatedAt` says when the second, with the
second key, replaces the first. A request that passes goes on to the checks of its body, of which each
handler has its own copy (`RegisterTakes`, `UnregisterTakes`).

## 3. Runs

| run | instance | shows |
|---|---|---|
| TokenStore | 2 DIDs, 2 tokens, 2 apps, 3 goroutines, cap 1 | the cap, the snapshots it rests on, the exact mirror, the refinement of TokenRegistry |
| Consumer | 1 handler, 1 worker, queue of 1, 2 events, garbled frames, 1 crash, under `FairSpec` | no gap behind the cursor, one connection, lazy start, no waiting without a waker; stored tokens start the consumer; if OAuth tokens are answered, Stop ends every worker and queued commits are handled, and Run and the ping loop end in any case |
| BlockSync | 1 pair, 2 records, 2 workers, queue of 2, pages of 1, 2 pages, one side unregisters, late and broken connections, all faults | table, mirror and index agree up to calls in flight; the mirror follows the network except for the listed causes |
| Verification | 2 records, 2 workers, queue of 2, late and broken connections, 2 reconnects, notifications that are not sent | the index follows the table, what a subject hears makes sense, the last word is true unless one was withheld |
| Delivery | 2 workers, 2 devices of one account (FCM and Expo), 5 events, 1 block, all faults | nobody unwelcome, nobody forgotten, once per engagement, live rows stay |
| Relay | 1 device, 3 endpoint ids, 2 requests, genuine, forged and foreign headers, late and foreign registrations and unregistrations, an origin secret, all faults | no wrong 4xx, one endpoint, pinned senders, no endpoint after a logout |
| RateLimiter | 3 keys, limit 2, window 1, map bound 1, 4 ticks | bursts, unfair refusals, growth of the map |
| ResolverCache | 5 keys, cache of 4, 2 evicted at a time, 2 callers, TTL 2, failures kept for 1, timeout 1, 3 ticks | size, age of what is served, order of eviction for every order of the map |
| ServiceAuth | 1 DID, 2 callers, 3 key pairs, TTL 2, timeout 1, 3 ticks, lifetime 1, 6 requests | who is authenticated, rotation of keys, expiry against a slow fetch |
| TokenStoreRace, ConsumerDoubleClose, BlockReorder | small | the divergences of section 6 |

**Why the bounds are enough.** A cap of one with two tokens already has the race of two counts; three
goroutines are a register, an unregister and a third that commits between them. One record after
another on one pair gives every order of create and delete; with one record to a page the second
record needs a second page, and the bound on pages is met. A queue of one is full as soon as it is
used; where two workers must meet at one record, in `BlockSync` and `Verification`, it holds two.
Two reconnects in `Verification` repeat an event twice, the second time after its delete. Two
registrations of one device are what a push in flight can be overtaken by, a third id is a
registration whose answer was lost, or a late copy; devices touch only their own rows, so a second device adds
nothing to a first. The limiter's window, map bound and clock are such that windows end, overlap
and are dropped. A cache of four that gives up two at a time runs the eviction loop twice, which is
where closing the gap in the slice matters. Failures live half as long there as answers, so that a
failed fetch that overwrites an answer, and the reverse, show. With a TTL of two, a timeout of one and three ticks an
entry of `ServiceAuth` is fetched before a rotation, served after it, and expires; the two callers
refresh it past each other. Events of `Delivery` are one for each thing the handlers tell apart.
What one pair does not exercise is the cursor between pages of *different* accounts blocked: the
taint of "two records of one pair" hides part of it, so the listing is checked for order and end
only.

Constants named *bound* in the modules (`MaxEvents`, `MaxCrashes`, `MaxTime`, `MaxReplays`, the
number of ids and of record keys) are the only cuts. Where `CHECK_DEADLOCK FALSE` is given the
system may really stop: a stopped consumer, a network with no record keys left.

**Fairness** is assumed in `Consumer` only (`FairSpec`, which its run checks): runnable goroutines
run; a dial ends by its handshake timeout; without a ping loop nothing extends the read deadline, so
a read ends; a crashed process is started again. `handleCommit` ends by the timeouts of the calls
below it (5 or 10 s for Expo, APNs, FCM and the resolvers), with one exception: the OAuth token of FCM
is fetched by the client of `context.Background()` (`push/fcm.go:62`, `105`), which has none. Nothing
is assumed of a worker in that fetch; what `QueuedIsHandled` and the second half of `StopEnds` say
holds if those fetches are answered (`TokensAnswered`), and the first half of `StopEnds` says what
holds in any case. Nothing is assumed of clients, of the network while the ping loop runs, of `Crash`, or of `Stop`.

**Mutants.** Each property has a plausible mistake in the code that breaks it, as an operator next to
the definition it replaces (`...Mut...`) and listed in `PROJECT.json`.

## 4. Proofs

For every set of DIDs, tokens, goroutines, pairs, records, keys, workers, clients, devices,
requests, events and faults, and every bound:

* `TokenStoreProofs`: `TypeCorrect`; `CapKept` and `SnapshotsHold` from the inductive invariant
  *types, the cap, and SnapshotInv*. The cap alone is not inductive: an insert is only safe because
  the count it rests on is still below the cap, which SnapshotInv says of every transaction whose
  snapshot is current, and because there is one writer. `MirrorKept` (`MirrorExact`), from *types
  and MirrorInv*: every disagreement of table and mirror has a call in flight that will repair it.
  `ImplementsRegistry`: each step is a step of `TokenRegistry` or leaves the table alone. A commit is
  `Register`, whose guard is SnapshotInv; a delete is `Unregister`.
* `BlockSyncProofs`: `StoreTypeCorrect` and `BlockMirrorKept` (`BlockMirrorExact`) of the block store
  by itself, the latter from *types and BlockMirrorInv*, the same argument for pairs. `SyncRefinesStore`:
  every step of `BlockSync` is a step of `StoreNext` or leaves the store alone, so both hold with
  the real callers (`SyncStoreTypeCorrect`, `SyncMirrorKept`). `SyncIsExact` (`SyncExact`) and
  `NoPhantom` (`NoPhantomUnlessTainted`) from `SyncInv`. `SyncExact` speaks of quiet pairs only and
  is not inductive: `SyncInv` says of every pair that is neither tainted nor disturbed where each fact
  about its records still is on its way, with `FeedInv`: until an event came there is nothing in the
  queue. A live record whose creation was not unseen is in the mirror
  with no delete about, or its create waits or is being added, or a backfill's listing has yet to
  come to it (`LiveInv`); what is stored is live, or its delete waits or is at work (`StoredInv`); what
  is being added is live, or its delete is still to come (`AddsInv`); a pair is not added and removed
  at once (`AloneInv`); and the queue keeps the order of the network (`QueueInv`). What nobody
  delivered is in `unseen` or `tainted`, so that the connection adds causes and no further case.
* `VerificationProofs`: `TypeCorrect` and `IndexMirrors` (`IndexExact`), from *types and
  IndexFollows*: while one worker is at a record, table and index differ as its next step says, and
  two can only be there if the record has overlapped. `LastWordTrue` (`LastWord`), from `WordInv`:
  the events of a record that are still to come are in the order in which they were made (`InOrder`),
  miss nothing that happened and is not due (`Coming`), did happen (`Happened`), and what was due
  agrees with the index at every step of a handler (`Agreed`), also when a reconnect repeats an event
  that was handled before. `HeardInv` then ties what the subject was told to what was due: it is one
  of the words so far, and the last of them if none was withheld.
* `ConsumerProofs`: `TypeCorrect`, `NoCommitVanishes`, `ConnectionsEnd`, `TrafficNeedsToken`,
  `WaitingAccounted`, from one invariant in four parts. `StartInv` ties `startCh` to the handlers
  that close it and to `Run`'s wait, `ConnectionInv` the connection and the ping loop to where `Run`
  is, `TypeInv` bounds the queue and keeps every commit in flight behind the cursor; `NoGap` is
  inductive on top of them.
* `DeliveryProofs`: `LiveRows`, from *types, Verdicts and LiveRowKept*: the row a worker is about to
  remove was reported dead, and a token does not come back to life while the worker holds the
  verdict. That a verdict is only given of a dead token is a lemma about `Push`
  (`OnlyDeadIsInvalid`), from the answers and not from a constant. `DeliveryTypeCorrect` (`TypeOK`),
  `NobodyElse` (`OnlyWelcome`), `OncePer` (`OncePerEngagement`) and the action property
  `NobodyLeftOut` (`NoOneForgotten`) rest on one invariant `DInv`: of each worker, where its call
  stands (`WorkerInv`), that whom it pushed to was seen registered and unblocked (`SentInv`), that the
  calls of an engagement still ahead are not about those already pushed to (`OnceInv`), and that
  whoever is due has been tried, is among the rows still in hand, or is the target of a call still
  ahead (`DueInv`), which is why a call that is cut short must not end the others.
* `RateLimiterProofs`: `Burst` (`BurstBound`), `RefusalDeserved` (`RefusedIsOver`), `MapIsBounded`
  (`MapBounded`), from `LimitInv`, which adds what the map says of the log. A key with a window was
  granted the window's count since its start, and one limit at most in as much time before it
  (`Running`); a key whose window was dropped was granted nothing in the present tick and one limit at
  most in a window's length before it (`Quiet`), which is why dropping it cannot open a third.
* `RelayProofs`: `TypeCorrect`, `OneEndpoint`, `SubscriptionsKept`, `PinnedSenders`,
  `LogoutsSilence`, `KillsJustified`, from one invariant: an id not handed out has no row
  (`RowsUsed`); what the store holds of a device is what its client may know of it, as far as nobody
  registered (`overtaken`) or unregistered (`cutOff`) it behind the client's back (`KnownRows`); and
  a request in flight (`GoodRequest`) carries the row its id had, passed the check its pin asks for,
  and may carry a 404 only about a dead device or an endpoint that is gone and stays gone.
* `ServiceAuthProofs`, of the caches: `Fresh` (`FreshnessBound`), from a bound on how old what a
  caller is about to store may be. `CacheTypeCorrect` (`TypeOK`, with the size) and the action property
  `OldestFirst` (`OldestGoFirst`) rest on the lemma `EvictsOldest`, for a map of any size walked in any
  order: the invariant `Loop` of `evictOldest` says that the slice holds each remaining key once and
  that none that went is younger than one of them. As induction theorems are out of reach, each
  induction is by the least number for which a statement fails (`LeastNat`).
* `ServiceAuthProofs` then carries freshness to the authentication: `CallersAuthentic`, `RotationsTakeEffect`,
  `TokensUsedInTime`. The invariant adds to that of the cache that a caller who
  fetches holds a request whose claims held when the fetch began (`ClaimsHeld`), and that the answer
  just given followed from a document that was current less than a cache lifetime and a fetch ago.
  The first two assume `Published`: every version of a document publishes the key in force in the
  method that `GetSigningKey` picks. The run checks them with such documents. `TokensUsedInTime`
  assumes nothing of documents.

They rest on the named ASSUMEs of the modules on their constants, which TLC evaluates in every run:
the cap, queue, backoff and lifetimes are numbers of the range the code gives them, `None` and
`NoKey` are no element of what they stand beside, a record is about one pair, arriving requests and
events have their types, and faults are those the module knows.

In BlockSync there is at least one record key, finitely many, and a page holds at least one
record.

**Only model-checked:** liveness (`StopEnds`, `QueuedIsHandled`, `TokenStarts`), which the prover does
not handle. Every invariant and every action property of the passing runs is a theorem. On the
runs' instances TLC finds `SyncInv`, `DInv`, `WordInv` and `LimitInv` to hold as well.

## 5. Abstractions

* The replay of the last event by a reconnect is in `Consumer` and `Verification` and not in
  `BlockSync`. The retention of Jetstream, which bounds how far back a cursor reaches, is not
  modelled; an event that does not decode is, in `Consumer` only.
* In `Verification` "told" means that a device of the subject got the notification; which of them,
  and on which checks, is `Delivery`, where `OncePerEngagement` is about one handling of an event: a
  reconnect that repeats an engagement may push it again.
* The operations of the store are atomic in `Delivery` (TokenStore and BlockStore look into them) and
  in `Relay` (each is one statement or one transaction). `ServiceAuth` ends where the store's call
  begins.
* A block record's key belongs to one pair, a verification record's to one verifier and subject: the
  code keys its maps by the author of the record as well.
* `LiveRowKept` and `LiveSubscriptionKept` take a token that was reported dead as dead for good; a
  device that comes back does so with a new token.
* `Push` takes the providers at their word: they say `Unregistered`, `BadDeviceToken` or `NOT_FOUND`
  only of dead tokens (section 6 lists where that may fail), and refusals of the gateway's own
  credentials or payload do not depend on the token. Expo's dead tokens come inside a 200.
* In `Relay` clients pin one key, that of their instance. A registration or unregistration behind a
  client's back excepts its device from the properties that speak of what the client knows, until
  the client hears from the relay again; `OneEndpointPerDevice`, `OnlyPinnedSender` and `KillJustified`
  except nothing. The texts a header is made of are read before: `Vapid` has
  what they say.
* In `ServiceAuth` a DID changes its key once, and one clock measures expiry, cache age and timeouts.
  Who holds which private key is given by who signs. Curves and algorithms are kept, as a mismatch
  of the two is an error path; the decoding of keys is not.
* The clock of `ResolverCache` does not run past the HTTP timeout of a fetch in progress, and the
  lock is free within it. The limiter's clock is discrete; a call at the very end of a window
  belongs to it, as `>` in the code says.
* `ForeignCommit` stands for any commit of the same process to another table.

**Not modelled.** The order of `main.go`'s shutdown: `Shutdown` of the HTTP server and `Close` of the
database are library calls, and what running goroutines meet after them are failing statements,
which the models have, followed by a restart, which they have too. The cache of the token APNs
requests are signed with: it is read and renewed under one mutex. Wire formats; wording, sanitising
and truncation of texts; frame decoding beyond usable or not; the parsing of keys and the dial
filter of the DID resolver: pure functions of data no property tells apart. `vapid.Describe`, which
only writes to the log. Development endpoints, health and statistics: they read counters, or call
what the real routes call.

## 6. Divergences

Runs that end in a counterexample:

* **TokenStoreRace** `store.go:214`. UnregisterToken forgets the DID on a count taken before the
  lock. A registration in between leaves a stored token that IsRegistered denies.
* **ConsumerDoubleClose** `consumer.go:219`. NotifyTokenRegistered tests and closes in two steps: two
  concurrent first registrations may panic. The test for it uses one goroutine.
* **BlockReorder** `consumer.go:308`. The create and the delete of a record may be handled out of
  order; the block then stays for good.

Met while modelling, and kept in the models as causes or faults rather than as runs of their own:

* `consumer.go:270`: "successful connection that ended normally; reset backoff" never happens.
  `connect` returns nil only when it was stopped, so the wait grows with every reconnect up to its
  maximum and does not come down again (`Decide`).
* `store.go:213`: the COUNT's error is dropped, a failed read forgets a DID (`RecountFails`, a cause
  in `disturbed`).
* `store.go:258`: the second record of a pair is ignored by the insert and indexed in memory only;
  a restart loses its key. `store.go:328`: deleting one of two records removes the block. Both are
  the cause "second record" of `tainted`.
* `blocks.go:76`: a backfill may add a record whose delete was already handled (a cause in
  `FetchPage` and `Take`).
* `consumer.go:264`, `118`: the first connection has no cursor and comes after the registration that
  started the backfill, and the cursor dies with the process: nobody delivers what is committed in
  between, or while the process is down (`missed`).
* `store.go:246`: `rows.Err` is not looked at, so a read of the tokens that stops early looks
  complete (`ReadTokens`).
* `consumer.go:573`: a block against an account that registers later is never learnt (`unseen`).
* `relay.go:359`: the delete of a dead device's rows may fail, and the 404 goes out all the same,
  while docs/WEBPUSH_RELAY.md says that the mapping is dropped too (`deleteFails`).
* `push/fcm.go:105`: the fetch of FCM's OAuth token has no timeout: a worker in it never comes back
  when Google does not answer, the others wait for its mutex, and `Stop` reaches none of them
  (`AskToken`). `src/README.md` gives outbound HTTP, FCM named, a timeout of 10 s.
* `relay.go:223`: the device token is trimmed when it is registered and not when it is unregistered,
  so a logout may answer 204 and delete nothing (`Padded`, which `LogoutSilences` excepts and which
  is empty in the run).
* `relay.go:145`, `203`: neither handler knows its caller or the age of a request: a late copy of a
  registration replaces the live row or undoes a logout (`overtaken`), and whoever has the URL or the
  device token removes the row of a client that stays subscribed (`cutOff`).
* `posttext/resolver.go:148`: documented as an LRU; a hit does not count, eviction goes by age.
* `consumer.go:766`: with no token left the subject's text is fetched all the same, while
  docs/NOTIFICATIONS.md says it is not.
* `consumer.go:605`: AddVerification's error is not looked at; the subject is told "verified", and
  when the record is deleted there is nothing to find and the subject is not told (`lost`).
* `handler.go`, `verifyAuth`: the clock is read before the issuer's document is fetched and not
  again, so a token may act one fetch after its expiry (`UsedInTime` allows for it).
* `push/apns.go`, `push/fcm.go`: APNs says `BadDeviceToken` also of a live token of its other
  environment, and FCM `NOT_FOUND` for a wrong project; both are taken for a dead token, so a
  misconfigured gateway would delete live rows. `push/push.go:117`: Expo's dead tokens are reported
  in a 200 and their rows stay for good.

## 7. Plan

What is left, in this order; new questions join existing runs where they can.

1. **What the liveness runs rest on**, as safety theorems: that the states in which `Consumer` may
   stay are those the properties name.
2. **The end of the process** as a composition: `Stop`, `Shutdown`, `Close` with running workers.
3. **The wait between reconnects** (`consumer.go:270`), as a finding with a run of its own.
