# A TLA+ verification project for shortly

`shortly` is a URL shortener: an Express API over PostgreSQL and Redis, a click
analytics pipeline over a transactional outbox and RabbitMQ, and a Next.js web
client. These modules model the parts of it whose correctness depends on
interleavings, failures and ordering; TLC checks them on small instances and
TLAPS proves what matters most for every instance. Paths below are relative to
the repository (`src/` in PROJECT.json).

## 1. The system and its parts

| Component | Modules | State | Operations | Hard behaviours | What makes it correct |
|---|---|---|---|---|---|
| Outbox and publisher (`outbox/`, `workers/publisher.ts`) | `OutboxRelay` | `outbox_events` rows (pending, published), attempts, deadline; the publisher's channel and claimed batch | append (fire-and-forget), claim, publish, await confirms, mark, purge, reconnect | a crash between confirm and mark, a claim outliving its backoff, a purge during a second publication, a channel closed by the broker | a committed click is never lost; every row is eventually marked |
| Broker (RabbitMQ, external) | `EventBroker` | queue, unacknowledged deliveries, DLQ | accept, deliver, ack, nack, reject, requeue on close | redelivery, restart | modelled as the code relies on it |
| Analytics worker (`workers/analytics-worker.ts`, `analytics/click-event-repository.ts`) | `AnalyticsWorker` | micro-batch, flush timer, flushes in flight, `click_events` | collect, reject poison, flush, ack / nack / dead-letter, stop | overlapping flushes, an INSERT that commits but reports an error, stop while deliveries arrive, a lost connection | counted at most once; acknowledged only when stored; announced only when stored; nothing forgotten |
| DLQ inspector (`workers/dlq-inspector.ts`) | `ClickPipeline` | dead letters logged | log, ack, measure depth | crash between log and ack | evidence precedes the ack |
| Redirect and URL cache (`services/url.service.ts`, `cache/url-cache.ts`) | `RedirectCache`, `RedirectHistory`, `LinkHistory` | `urls` rows, Redis entries with TTL (positive and negative) | create, resolve, deactivate, update | a store after an invalidation, negative entries, expiry, Redis down | a redirect follows the row, up to a bounded staleness |
| URL creation, guests, claim (`url.service.ts`, `url.repository.ts`, web `guest-store.ts`, `auth-context.tsx`) | `GuestLinks` | `urls.user_id`, `urls.guest_id`, `guests`; the browser's anchor, each tab's session | create as a guest or an account, mint, sign in, claim | the claim is two statements, tabs share the anchor, answers are lost | a guest's links are claimed completely and never lost by a failure |
| Server-sent events (`sse/connection-manager.ts`, controller) | `EventStreams` | the connections map, the set of connections of each code | check ownership, add, remove, broadcast fresh statistics, close | statistics awaited while connections come and go; a client that leaves before it is registered; a full registry | the maps agree; news reach every connected dashboard |
| Web analytics stream (`use-analytics-stream.ts`, `use-analytics.ts`) | `EventStreams` | the hook's stream or retry timer, the query and its data | connect, read frames, invalidate, back off, abort | a frame during a fetch, a reconnect against an unmount | the page catches up; an open page always gets a stream again |
| Server lifecycle (`server.ts`) | `Startup`, `ClickStats`, `EventStreams` | HTTP server, handles, timers | start, purge every hour, shutdown with a ten-second guard | close waits for streams; one purge fails | the process ends and comes back; every table is purged |
| Rate limiting (`ratelimit/`, `utils/client-ip.ts`) | `RateLimiter` | a Redis counter per budget and address | count, admit or refuse, fail open, expire | a counter without a TTL, Redis down, a script run twice | at most two budgets in any window; every block ends |
| Routing (`app.ts`, `auth/require-auth.ts`, `shared/src/reserved.ts`, nginx) | `ApiRoutes` | the requests in progress, sessions, codes | walk the layers, run their gates, answer | a router's gates take every path below its prefix; a code that is also a route | each request spends its own budget; links are reachable |
| Accounts and sessions (`auth/`, web `lib/api/client.ts`, `auth-context.tsx`) | `AccountSessions` | users, sessions; the tab's token, React's copy, the me query | register, login, logout, resolve, expire, purge | a late 401 or answer of an old token, a failing check | a live session is kept, its owner is shown, checking ends |
| Link list (`listUrls`, `use-urls.ts`) | `LinkList` | the account's rows; the infinite query's pages and load | page by keyset, load more, refetch, deactivate, invalidate | links appearing between two pages, two page lengths under one key, a load replaced by another | nothing twice, nothing skipped, deactivations shown |
| Migrations, readiness, deployment (`db/migrate.ts`, `observability/readiness.ts`, `docker-compose.yml`) | `Startup` | `schema_migrations`, each container's command and health | migrate, serve, probe, restart | two runners at once, a lost COMMIT, a database that goes down, a hung dependency | each file once and in order, before any traffic |
| Statistics, retention (`click-event-repository.ts`, `analytics-summary.tsx`) | `ClickStats` | `click_events`, a page's answers | the queries of a page, the purge | reads between writes, claims and purges, late inserts, midnight | cards are complete, no figure exceeds a total that saw its clicks |
| Metrics, OpenAPI and docs routes, rendering | | counters, text | | | not modelled (section 11) |

Operators named "Mutant of ..." are deliberate bugs used to check that each property
can fail; no specification uses them. `IInv` is, in every module, the type invariant with
the invariants that make it inductive or that belong to the representation
(`StatsIInv` in `ClickStats`).

## 2. The click pipeline

`ClickPipeline` follows a click from its outbox row to `click_events` or the
dead-letter queue. It composes three modules that share the broker:

* `EventBroker`: RabbitMQ as `rabbitmq/connection.ts` declares it. Copies of an
  event are told apart by the `attempts` header. The main queue, the copies
  delivered to each worker, the redelivered flag and the DLQ are sets: nothing
  downstream depends on order. `disruptions` counts, up to `MaxDisruptions`,
  everything that goes wrong or that an operator does (crashes, errors, stops,
  broker restarts).
* `OutboxRelay`: `Append`/`AppendFails` are the two outcomes of
  `OutboxClickEmitter.emit`. `PublishBatch` is `publishBatch` from the claim
  transaction to its first await after it, `BrokerAccepts` one confirm,
  `ConfirmsArrive` the end of `waitForConfirms`, `MarkPublishedBatch` the UPDATE.
  `PublishOnClosedChannel` is the iteration that finds the channel closed after it
  has claimed. `PublisherFails` is an exception or the end of the process at any of
  these points. `due` holds the pending rows whose `next_attempt_at` has passed;
  the length of the backoff is left out because nothing bounds a publisher's
  slowness. A claim is one atomic step: what SKIP LOCKED adds is that two claims
  running at once take disjoint rows, as two claims in sequence do.
* `AnalyticsWorker`: one action per callback and per await of the worker.
  `Collect` and `RejectMalformed` are the consume callback, `StartFlush` is
  `flushBatch` up to its await, `InsertCommits` the database's commit,
  `FlushSucceeds` and `FlushFails` the two continuations; `FlushFails` is also
  enabled after the commit, for an answer that is lost. `mode` tells a running
  worker from one that is stopping and from a "deaf" one, whose channel the broker
  closed cleanly: the code installs no handler for that and never reconnects. An
  INSERT that commits after its worker died is not a behaviour of its own: it is
  seen as one that commits just before.

`ClickPipeline` adds the inspector and the broker's restart. `ClickDelivery` is the
abstract specification: a click is accepted, counted at most once, or buried; and
none of that is taken back. `ClickPipelineClaims` holds a statement of the
repository's documents that the code does not keep (section 10 has the others). A claim of
outbox rows is only a deadline: after `BackoffElapses` a second publisher may claim and publish
a row the first still holds, and the dedupe of `InsertCommits` is what makes that harmless.

### Runs

| Run | Instance | Shows |
|---|---|---|
| relay | 1 click, 2 publishers, 1 worker, batch and prefetch 2, budget 2, broker restarts (symmetric in publishers) | `IInv`, `NoClickLost`, `OnePlacePerCopy`, `DeadLetterJustified`, `NoForgottenDelivery`, `NoStrandedBatch`, `AnnouncedAfterStored`, `AckedOnlyWhenSettled` |
| live | 2 clicks (one malformed), 2 workers, budget 2, fairness | the pipeline implements `ClickDelivery`; `EventuallySettled`, `EventuallyMarked` |
| claim_outage_buries | 1 click, batch 1, budget 2 | an outage dead-letters a well-formed click |

Bounds. One click is enough for the races of publishers over a row, because rows
interact only through the batch they share; and the copies that two publishers and
expired backoffs make of it are enough to fill batches of two, to let flushes overlap and
to mix first deliveries with redeliveries in one batch. `live` has two clicks for the
malformed one. Every hazard of the
pipeline needs at most two disruptions (fail, then fail again). Attempts are bounded by
the disruptions and the number of publishers: a row is claimed again only by another
publisher or after a failure. `CHECK_DEADLOCK` is off: when every click is settled and
the budget is spent only restarts of nothing remain.

Fairness (`Fairness`): deadlines pass; a publisher's loop, a worker's event loop and the
inspector keep running, and a process that exited is started again
(`restart: unless-stopped` in `docker-compose.yml`). Nothing is promised of failures,
stops, new clicks or purges. Liveness is stated for a broker that stays up
(`BrokerRestarts = FALSE`): after a clean restart the deaf worker starves the queue.

### What is proved

`ClickPipelineProofs`: `TypeCorrect`, `NoStrandedBatchHolds`, `DeadLetterJustifiedHolds`, and the
places of a copy: `PlacesHold`, `OnePlacePerCopyHolds`, `NoForgottenDeliveryHolds`; then `InvariantHolds` (`IInv`), `NoClickLostHolds`, `AnnouncedAfterStoredHolds`,
`AckedOnlyWhenSettledHolds` and `PipelineDelivers`, the refinement of `ClickDelivery`.

`NoClickLost` alone is not inductive: a publisher marks rows from its local memory, so
one needs to know that what it holds and has off the wire is in custody
(`ConfirmedInCustody`); a worker acknowledges from its memory, so a flush that claims to
be inserted must be (`InsertedAreStored`); and the refinement needs that whatever travels
stems from a committed, and in a worker's memory well-formed, row
(`OnlyAcceptedTravel`). `KeptStep` is the central lemma: a copy stays kept until its click
is stored.

That a copy is in one place is not inductive either. `PlacesInv` adds what it rests on: a claim gives
each copy a number its row has not had (`NumberedByClaim`), so that what goes on a wire is new; the wires of two
publishers carry different copies (`WiresApart`), though both may have claimed the same row; and a worker that has
exited holds nothing (`GoneHoldNothing`), since the broker took its deliveries back. `AckedOnlyWhenSettled` then
follows from `IInv` step by step: an acknowledged copy came from a flush that was inserted or was buried.

The proofs assume only what the modules' ASSUMEs say: ids are naturals, the
limits are positive, malformed events are events.

Only model-checked: liveness.

## 3. The redirect path and its cache

`RedirectCache` models the requests that read or write one link: `createShortUrl`
(with an account or as a guest), `resolveUrl`, `deactivateUrl` and `updateUrl`, over two
stores that share no transaction. A request is one service call in one of the API
instances; `call` holds where it is suspended and its locals, and each `await` is a
boundary between actions:

* a resolve is `BeginResolve`, then `LookupHits`/`LookupMisses` (the GET), `JudgeHit`, or
  `QueryRow` (the SELECT), `JudgeRow`, `StoreApplies`/`StoreFails` (the SET) and `Respond`.
  What was read is judged when the reply arrives: `Classify` is `doResolve`'s reading of a
  row, `FromCache` its reading of an entry. On a 302 the click is emitted, which is
  `Append` of the click pipeline;
* a create is `BeginCreate`, then `InsertCommits` or `InsertConflicts` (the unique index
  decides; an alias is tried once, a generated code up to `MaxTries` times), then
  `Invalidate`;
* a delete or an update is its commit and then `Invalidate`; `NothingMatches` is an unknown
  code or another user's (the `user_id` condition), and changes nothing.

`DeadlinePasses` moves time past an `expiresAt`; `EntryExpires` is the `EX` of an entry or an
eviction. `RequestDies` is the end of the process or a database error at any point; with
`InvalidateFails` and `StoreFails` it is governed by `Faults`. `updateUrl` is modelled because the
service offers it, but no route calls it: `answers` sets `Updates` to FALSE.
`excused` is a history variable: the codes whose entry was stored after its row had
changed, or outlived a lost DEL.

`RedirectHistory` adds the rows each code has had, and refines `LinkHistory`, the abstract
promise: an answer about a code is what one of its rows, present or past, means at the
instant of the answer. It says nothing of how old the row is (`StaleOnlyIfExcused` does),
but forbids answers that are invented, mixed up between codes, or redirect past their own
expiry. The late store is a real staleness, of up to a TTL: a resolve that read the active row
stores it after the delete's DEL, or one that missed stores its 404 after an alias was created.
`StaleOnlyIfExcused` counts such an entry among the excused, and `EventuallyFresh` bounds it.

Left out: Redis persistence (a snapshot restored after a crash may bring deleted entries
back) and commands a client resends after a reconnect; the lengths of the TTLs; the
deprecated `createWithGeneratedCode`, which nothing calls. Ownership is in `GuestLinks`, the
lists in `LinkList`, the statistics in `ClickStats`.

### Runs

| Run | Instance | Shows |
|---|---|---|
| fresh | 1 code, 2 targets, 1 deadline, 2 requests, updates, faults, fairness | `IInv` (types, `StaleOnlyIfExcused`), `EventuallyFresh` |
| answers | 2 codes, 1 target, 1 deadline, 2 requests, 2 tries, faults | `EntriesAreHistoric`, the refinement of `LinkHistory` |

Bounds. A stale entry needs a reader and a writer, and each request starts again when it has
ended, so that further readers and writers follow; the theorems cover any number at once. Codes interact only through the
tries of a generated code and the keys of the cache, so two of them suffice. Requests
return to idle and start again, so the runs cover any number of calls in sequence.

Fairness (`Fairness`): a request that has begun goes on, since every await of the code ends
(Redis commands fail fast, `enableOfflineQueue: false`), and an entry does not stay for
ever, since `store` always sets `EX` and a hit does not renew it. Nothing is promised of new requests,
deadlines or failures. `EventuallyFresh` is conditional on the row: while somebody keeps changing it
staleness can recur.

### What is proved

`RedirectProofs`, for any sets of codes, targets, deadlines and requests: `TypeCorrect`;
`StaleOnlyIfExcusedHolds` and with it `InvariantHolds` (`IInv`), inductive together with the types: an entry that agrees with its
row goes on agreeing as deadlines pass (`ClassifyOverTime`), a commit leaves its request
at the DEL (`CommitStep`), and a request that ends without it is excused (`EndStep`);
`EntriesAreHistoricHolds`; and `AnswersAreHistoric`, the refinement, whose invariant is
`HInv`: the row a request holds is one its code has had, and an entry stems from
one, so that by `EntryMeansRow` a hit answers what that row means now. The only
assumptions are the module's ASSUMEs. `EventuallyFresh` is only model-checked.

## 4. Live analytics

`EventStreams` models a dashboard and the API instance it talks to, end to end: the hook that
reads the event stream, the query it invalidates, the controller, `SseConnectionManager` and the
shutdown of the process. A stream is one HTTP request; `request` says where the controller is with
it, `up` whether its socket is, and `conns` and `subs` are the manager's two maps.

* API: `Accept` is what follows the awaited ownership check (register, write `connected`, install the
  close listener), `TurnAway` its refusals. The listener hears nothing of a socket that closed during
  the check, so `SocketCloses` removes a stream only when it is already streaming: a client that
  leaves earlier stays registered. `WriteThrows` is the only thing that may still remove it, and Node
  reports most such errors to a callback, so no property relies on it.
* News: `Click` is a committed and announced batch, `NewsArrives` is `handleClick` up to its await,
  `Broadcast` and `FetchFails` are its continuations. The set of connections found before the await is
  used after it: `Remove` makes a call that holds a dropped set tell nobody.
* Browser: `OpenPage`, `ClosePage`, `Connect`, `StreamLost` (every way a stream ends leads to the backoff),
  `FrameArrives` and the query. `Invalidate` is the query library's documented behaviour: a fetch under
  way is cancelled and repeated, except a page's first one, which is joined.
* Shutdown: `Sigterm`, `ServerClosed` (all connections have ended), `WorkerStops`, `RestCloses`. The process
  never ends by itself, since the purge interval of `startPurgeScheduler` is not unref'ed, so it is always
  `ForceExit` that ends it, and `Restart` follows.

`due` is a history variable: what a registered stream's dashboard has to show. A failing fetch resets it,
and so does a frame that a page's first fetch swallows.

| Run | Instance | Shows |
|---|---|---|
| streams | 1 code, 1 browser, 3 streams, 2 connection slots, 2 clicks, 1 failure, fairness | `IInv`, `NewsReachesDashboard`, `DashboardConnects` |

Bounds. Three streams over two slots let a leaked connection, a live one and a refused one exist at
once; two clicks let a second announcement overtake the first one's fetch. Browsers interact
only through the slots, which leaked connections take as well, and codes only through the same.
`MaxFailures` bounds what goes wrong, so that liveness is not about a network that never works.

Fairness (`Fairness`): timers and event loops of browsers and API go on, Redis delivers, the restart
policy (`docker-compose.yml`) holds. Users, clicks, signals and failures are not promised.
`DashboardConnects` has to except a full registry: leaked connections keep their slots until the process ends,
so a client that leaves during the ownership check often enough locks everybody out.

`EventStreamsProofs` proves, for any sets and bounds, `InvariantHolds` (`IInv`) and
`NewsReachesDashboardHolds`. The latter needs three facts beside the types: a stream has one reader, whose page
shows its code (`OneReader`), so that a frame invalidates the right query; the maps agree (`MapsAgree`), so that the
broadcast includes the stream; and an answer under way is never older than the data it replaces
(`AnswersAreNewer`), so that a page does not lose what it already showed. `DashboardConnects` is only model-checked.

Left out: the keepalive's timing, the lengths of the backoffs, an expired session (the ownership check fails
for ever), several API instances (each has its own registry and hears every announcement), and the purge of old clicks,
which makes counts go down (`ClickStats`).

## 5. Guests and their links

`GuestLinks` models who owns a link, from an anonymous create to the claim at sign-in. There is one
browser with several tabs: `anchor` is the key in localStorage that they share, `session` the token
each has in its sessionStorage. `create` and `claim` hold, per tab, the request under way and then the
locals of its handler in the API.

* Create: `SubmitCreate` is `apiRequest`'s headers (a bearer token, else the anchor). `RefuseCorrupt`,
  `AdmitAccount`, `AdmitGuest` and `MintGuest` are `optionalAuth` and the start of `createShortUrl` and
  `createGuestUrl`, `InsertLink` the INSERT with its unique index and foreign key, `RetryCode` the retry after a
  collision, `CreateFails` every other end. Back in the tab, `HearCreated` stores a minted anchor
  and `HearCorrupt` clears a corrupt one and retries; `CreateUnheard` is an answer that is lost.
* Claim: `SignIn` is `accept`, which claims the stored anchor. `MoveLinks` and `RetireGuest` are the two
  statements of `claimGuestLinks`, with no transaction around them; `RetireGuest` is refused by the foreign key
  while a link created in between still names the guest. `HearClaimed` clears whichever anchor is stored by then;
  `ClaimFails` and `ClaimUnheard` keep it.
* `CorruptStorage`: something else writes the key. `lost` is a history variable, the identities the storage
  dropped without a claim.

| Run | Instance | Shows |
|---|---|---|
| guests | 2 tabs, 2 guests, 1 account, 3 codes (an alias, a generated one, a row older than accounts), 2 tries, faults | `IInv`, `ClaimedCompletely`, `StrandedOnlyIfLost`, `OwnedForGood` |

Bounds. Two tabs let a create and a claim of one identity, or two mints, race; two identities let one replace the
other in storage; of accounts one suffices, since a claim is only ever refused or granted. Safety only: nothing in
the code promises that a visitor signs in. `lost` is not empty in ordinary use: two anonymous tabs that mint at the same
time overwrite each other's anchor. What the property says is that nothing else strands a link; in particular not a failed claim.

### What is proved

`GuestLinksProofs`, for any codes, guests, accounts, tabs and tries, with faults or without: `InvariantHolds` (`IInv`),
`ClaimedCompletelyHolds`, `OwnedForGoodHolds` and `StrandedOnlyIfLostHolds`. The only assumptions are the module's
ASSUMEs. `IInv` alone is not inductive: a claim for an identity that was never minted would retire nothing and
answer, and a later mint of it would contradict `HandlersKnowGuests`. `OnlyMinted` excludes that (whatever a tab stores, sends or
claims has been minted) and makes `Known` inductive. The steps are first summarised once each, for links (`OwnedStep`,
`InsertReferences`, `MoveReferences`), rows of guests (`GuestSteps`), a tab's create and claim (`CreateSteps`,
`ClaimSteps`) and the anchor (`AnchorSteps`). For `StrandedOnlyIfLost` the invariant also says of each create that names a living
guest it did not mint that this guest is in reach (`PendingReachable`); `ReachKept` is the heart of it: the one anchor cleared
without being counted is that of a finished claim, and its guest's row is gone.

## 6. Accounts and sessions

`AccountSessions` is one browser tab against the API. `token` is what `lib/api/client.ts` stores and sends, `held`
AuthProvider's copy of it, `me` the query that fetches the user, `screen` whether the page is behind
`RequireAuth`. A request carries the token that was stored when it was sent.

API: `Resolve` is `requireAuth`, `Revoke` the logout, `CreateUser` and `IssueSession` the two statements of a
registration, the second also the login's, `RefuseLogin` a wrong password, `SessionExpires` and `PurgeExpired` the end of a row.
`RequestFails` is every failure, before or after the API has done its work. Tab: `Mount` and `Reload`, `Submit`,
`SendLogout`, `SendRead`, `Refetch`; then one action per answer: `HearSession` (`accept`), `HearMe`,
`HearUnauthorized` (a 401 to anything clears the stored token, whichever it is), `HearLogout`, `HearOther`;
`RedirectToSignIn` is the effect of `RequireAuth`.

| Run | Instance | Shows |
|---|---|---|
| sessions | 2 accounts, 2 tokens, 2 requests, 1 reload, fairness | `IInv`, `ShownUserOwnsSession`, `LiveSessionKept`, `CheckingEnds` |

`LiveSessionKept` says exactly when a live session is dropped, and one of the cases is a 401 to an older token; the
same race with an answer instead of a 401 makes the page show the previous account's user, which
`outrun` excuses. Two tokens and two requests are what these races take.

Fairness: every request ends, since `apiRequest` aborts it after its timeout, and is heard; React runs its effects
(`RedirectToSignIn` strongly, for a refetch may disable it in between).

### What is proved

`AccountSessionsProofs`, for any accounts, tokens, requests in flight and reloads: `InvariantHolds` (`IInv`),
`ShownUserOwnsSessionHolds` and `LiveSessionKeptHolds`. What they rest on: no token is made up (`OnlyIssuedTokens`), so
that one the API has rejected cannot become live again (`RejectedIsDead`), and the 401 a request earned stays true while it
travels; an answer names the owner of the session that asked (`AnswersNameOwner`), and the cached user owns the stored
session unless an answer outran it (`CachedUserOwnsSession`); React's copy of the token is the stored one once
the page is mounted, and before that nothing has been sent (`NothingBeforeMount`). Beside the module's other assumptions,
`UsersAreAddresses` says that no account is one of the two marks for an empty cache.
`CheckingEnds` is only model-checked.

## 7. The limiter and the routes

`RateLimiter` is the counter of one budget and one address in Redis, any one: `watched` is chosen at the start, and
about the others the limiter may say anything. `Incremented` is the Lua script, `Counted` a script that
answers (ioredis sends it again after a reconnection, so it may have run twice), `FailedOpen` one that does not, run or
not; `Tick` is a second of Redis' clock and `Forget` a Redis that comes back empty. `RealClientIp` is
`realClientIp` over the ways a request arrives (`Arrivals`): directly, through nginx, through another
proxy and nginx, through Cloudflare. On each the client may have written the two headers that tell its address: nginx passes
`CF-Connecting-IP` on and appends to `X-Forwarded-For` (`Received`), Cloudflare replaces its own. `wrote` remembers that
it did.

`ApiRoutes` extends it with `createApp` and `server.ts`: `Layers` lists, in the order of registration, which routes each layer
takes, the gates it runs and which routes its router answers. A request walks them: `CheckLimit`,
`Authenticate` and `IdentifyGuest` are the gates, `FallThrough` a router without a handler for the route, the `Serve` actions the
handlers. That is how a limiter mounted on a prefix comes to run for routes that are not its own.

| Run | Instance | Shows |
|---|---|---|
| routes | 1 client, 1 request at a time, all routes, any headers of the client's, 3 codes, 2 requests in a window of 3 seconds, production | `IInv` (with `CountersExpire`, `WindowsApart`, `RequestsInOrder`), `AtMostTwoBursts`, `OneBudgetEach`, `NeverDowngraded`, `LinksReachable`, `BlockEnds` |

Bounds. The script is atomic, so that requests in progress at once interact only through counters, links and sessions,
which the model lets change between any two gates; two admissions and three seconds let a burst at the end of a window
meet one at the start of the next (the theorems below are about several requests and clients at once). The codes are a reserved word
in capitals, a word that is a route only outside production, and an ordinary one that is drawn. What a client writes is any
address or a proxy's, or nothing; `routes` has one address, since `wrote` excuses alike whatever is written. `AtMostTwoBursts` does not count what passes while Redis fails.
`OneBudgetEach` takes the stream's GET as it is: it spends a write. It says which budget a request spends whatever its headers, and that it is counted
under the client's own address if the client wrote none of the two: `realClientIp` takes a written one at its word, although the repository says otherwise (section 10). With `Nginx` or without `Production` the
property `LinksReachable` would not hold (section 10), and the run says so by its constants.

Fairness: Redis' clock goes on.

### What is proved

`ApiRoutesProofs`, for any number of clients and of requests in progress, any codes and routes, any budget and any window:
`InvariantHolds` (`IInv`), `AtMostTwoBurstsHolds`, `OneBudgetEachHolds`, `NeverDowngradedHolds` and `LinksReachableHolds`.

*The limiter.* `AtMostTwoBursts` sums admissions over the last Window seconds, which no single step bounds. `WindowsApart` splits
them at the age of the running window: since then no more were admitted than were counted, and before it at most one
budget; a counter that is not there has one budget behind it and none now. `ApartGrows` and `ApartTicks` keep it; the latter
maps every admission to the same one a second younger (`AdmittedOlder`), so that the bound travels with the window. The script that runs twice
is two increments (`GrowsTwice`), which can only admit less. `CountersExpire` is needed to know that a counted window ends at all.

*The routes.* `OnItsWay` says of a request at a layer what the layers before it can have done: none served it, and its budget
is spent and its user known exactly if a gate that does so lies behind it (`Passed`). `SeenTwice` is the central lemma: two
routers see one request only where the deletion's router passes it on to the stream's; hence a request meets one limiter, and it is its
route's own (`BudgetIsThePolicy`). `ItsOwnAddress` is the address: of a client that wrote no header, every way to the API tells its own. The proof reads the table of layers (`LayersAre`), so a layer put elsewhere breaks it.
`LinksReachableHolds` has the hypothesis `Unshadowed`: production, no nginx in front, and no generated code that is a reserved
word, which the code does not check (section 10); `LinkLayer` shows that then the redirect is the first layer to take a link.

They assume what the modules' ASSUMEs say: positive budget and window, clients at public addresses and the proxies at a private one
(`isPrivateIp`), the four budgets. `BlockEnds` is liveness and only model-checked.

## 8. The list of links

`LinkList`: `ListUrls` is `listUrls`' query, its `limit + 1` rows and its cursor. The tab has one infinite query, which
the dashboard and the list page share although they ask for different page lengths; `LoadAll` is a refetch of every page,
`LoadNext` the "Load more" button, `Invalidated` what `invalidateQueries` does to a load under way.
`LinkAppears` commits a row at any id: creates may commit in another order than their ids, and a claim moves old rows in.
`cache.outrun` is a history field, set when no load started after a deactivation was confirmed; `cache.since` another, the
links that were in every account the pages were read for when the first page was: one query serves whoever
signs in, so that the pages of two accounts may meet in one list, in which only what both had is promised.

| Run | Instance | Shows |
|---|---|---|
| listing | 3 links, 2 accounts, pages of 2 and 1, failures | `IInv` (with `OneDescendingList`), `NothingSkipped`, `DeactivationShown` |

Three links make two pages of the list, and two pages of the dashboard with room for one that appears in between;
pages of one length are continued with the other. Two accounts let the pages of one be continued with the other's.
Safety only.

### What is proved

`LinkListProofs`, for any finite set of links, any accounts and any page lengths: `InvariantHolds` (`IInv`), `OneDescendingListHolds`,
`NothingSkippedHolds` and `DeactivationShownHolds`. `DescendingLists` says that the query's order lists a set of ids completely
and in order: no two ids have the same number of greater ones (`AboveShrinks`), so that every place in the list is
taken (`EveryRankTaken`, by counting). `PageReadIsSound` is what the API answers to a cursor: the ids below it, down to the
next cursor, without a gap. Pages alone are not inductive, since a load under way puts them together over several steps:
`Gathered` says of any pages that they descend, that none of their links is below their cursor and that they miss
nothing above it, and `GathersOneMore` that this survives the next page, because all of it is below the cursor.
`DeactivationShown` needs that a link the tab was told of is inactive in its row (`RowsStayInactive`) and that a load which
nothing outran has read only such pages (`LoadHeeds`).

## 9. Startup, and the statistics

`Startup` runs `migrate.js && server.js` in several containers against one database. `pc` is where a
container's command is; `Start` to `Commit` follow `runMigrations` statement by statement; `RunScript` waits while
another runner holds what the same script creates, and `Collides` is the duplicate key it wakes up to.
`StartProbe` to `ProbeEnds` are `GET /ready` asked by the container's health check, `StartNginx` the `depends_on` of
`docker-compose.yml`. `Fails`, `CommitUnheard` and `Outage` are counted by `MaxFaults`.

The runner's statements need `Postgres` (`Reachable`). When it goes down, whoever awaits an answer or holds a transaction loses the connection
(`Severed`, `ConnectionLost`); a query sent meanwhile fails (`QueryFails`), and the container exits, starts again and fails
again for as long as that lasts. A hung database leaves the runners waiting until one of the pool's timeouts ends. The loop's
last turn and `server.js` listening ask the database nothing (`Serve`).

`ClickStats` is the `click_events` table under batches, the purge and the pages that read it. Time is in days; a page's
queries are served each at its own moment, and rendered later. A page is of one link or of the account; then every query joins
`urls` and counts the clicks of the links that are the account's when it is served (`Covered`), while creates and claims of a guest's links
add to those (`LinksJoin`). `FiguresRight` joins the cards of
`AnalyticsSummary` (each counts every click stored in its window, however the purge has run since) with the totals
(none is less than a figure it contains, unless a batch or a claim committed after the total was counted; a breakdown counted before a purge
may exceed it by what is past its retention, and nothing else). Its part `StatsIInv` says why: a row that is gone from the table was past its retention when it
went and stays so (`GoneAreStale`), an answer lacks only such rows (`AnswersComplete`), and none of those is a click of the page's
today (`TodayCounted`).

| Run | Instance | Shows |
|---|---|---|
| startup | a container that ships 3 files and one that ships 2, postgres and another dependency, 2 faults, fairness | `IInv` (with `OncePerFile`, `InOrder`), `SchemaBeforeTraffic`, `ComesUp` |
| stats | 2 links with a click each (one of an unknown browser), 1 purging instance, months and retention of 8 days, 10 days, fairness | `FiguresRight` (with `StatsIInv`), `PurgedAnyway` |

Bounds. Two runners race as three would: any collision has a winner that has committed. Two releases make one runner
wait for a file the other does not know. A month of eight days reaches past a week and lies, as a real one does (31 days against 90),
within the retention; `RetentionAssumption` states the relation, and the run takes it at its limit. Two clicks are one inside
a window and one outside it; two links let one of them join the account between the counts. Two faults are an outage and what goes wrong in it.

Fairness: the restart policy, the runners' and servers' event loops, and the timers of the probes. `ComesUp` promises that every container
serves only if postgres comes back for good, as the code cannot do without; no other dependency has to recover, and no query has
to fail while one is away (a hung server does not enforce `statement_timeout`). That every probe ends is promised whatever the dependencies do. Purges are repeated by their timer, and a DELETE of clicks does not fail for ever, while one of outbox rows may.

### What is proved

`ServerProofs` has both components. For any finite set of clicks, any months and any retention of a month at least and more than a week:
`StatisticsInvariantHolds` (`StatsIInv`) and `FiguresRightHolds`. The cards are sums of `COUNT(*)` over days,
and say nothing of the rows that are missing: `StatsIInv` is needed for those. `GoneStep` and `AnswersStep` rest on
`StaysStale` and `CoveredGrows`: time only goes on, a click keeps its day, and a link stays in its account. A card's window then ends before the retention begins
(`WindowCounts`), and `SumOfGroups` turns the sum over its days into the number of its clicks. That lemma is an
induction over a finite set of days, done by a least counterexample: the fold of the community modules unfolds to a recursion with one
solution (`OneSolution`), whose sum grows by a day's group when the day is added (`KeyedOneMore`). `DaysOfWeek` and
`DaysOfMonth` say that the cards' first days, found with remainders, are the first of the week and the month of `now`.

For any containers, releases, dependencies and number of faults: `MigrationsInvariantHolds` (`IInv`) and
`SchemaBeforeTrafficHolds`. `IInv` is inductive as it stands: a runner that is about to commit holds the lock of its script
(`Exclusive`) for a file that is not recorded yet (`CommitsNew`), so that `CommittedKeepsOrder`; every other end of a runner
or of its connection rolls back (`RollbackKeepsOrder`). A runner that leaves its loop has all its files recorded (`ServesComplete`), and only a serving container is probed
or healthy (`ProbesServe`), which is what `SchemaBeforeTraffic` needs. `ComesUp` and `PurgedAnyway` are liveness, and only model-checked.

## 10. Disagreements met while modelling

One has a run, `claim_outage_buries`. Where the others below concern a model, it behaves as the code does, and its properties are
stated so that they hold of that.

* `app.ts:82-85` and `docs/milestone-17-loadbalancer.md:25-28` say that one trusted hop keeps clients from being counted under an address they wrote, `README.md:450`
  that it "ensures accurate client IP detection", `docs/milestone-08-ratelimit.md:50-53` that a client's `X-Forwarded-For` is ignored. The limiter's key is not `req.ip`
  any more: `client-ip.ts:15-24` takes `CF-Connecting-IP` from anyone and the leftmost public entry of a header that `nginx.conf:36` appends to. With two
  `Addresses` the invariant `request[r].ip \in {request[r].client, Edge}` of a request that has arrived is violated by its arrival; `OneBudgetEach` has its disjunct `q.wrote` for this.
* `docs/milestone-15-failure-handling.md:76` has the worker stop consuming first; `stop()` leaves its consumer on.
* `docs/milestone-23-architecture-review.md:339-342` has the analytics lag grow "until recovery" of the broker; the worker never reconnects.
* `docs/milestone-07-lifecycle.md:49` promises an immediate 410 after a delete; see the late store in section 3.
* `docs/render-deployment.md:56` describes a graceful shutdown; `server.close` (`server.ts:116`) waits for event streams that are closed only in its callback, so with a
  dashboard open it is the ten-second guard that ends the process. The guard is the end in every case: the purge interval keeps the event loop alive.
* `analytics-metrics.ts:5-8` says the inspector never consumes dead letters; it acknowledges each one. `outbox-repository.ts:26-29` says that publishers never double-deliver.
* `guest-store.ts:4-7` says that guest links survive until sign-in; of two tabs that mint at once, one identity is overwritten.
  `clearGuestId` in `accept` clears whichever anchor is stored by then. An answer to a create that is lost strands its identity.
* `url.service.ts:185-189` says a claim is "never an error"; a guest link created between its two statements makes it one.
* `shared/src/reserved.ts` names three reserved words; `docs` (outside production) and `nginx-health` (behind nginx) shadow links as well, and a generated code is never compared.
* `app.ts:152-155` gives all read GETs the read budget; the event stream's, registered last in `server.ts:27`, passes the write router's limiter.
* The list's query key has no account in it, and signing out leaves its data: the next account of the tab sees the previous one's links until its own load ends
  (`auth-context.tsx:129-132`). `useCreateUrl` invalidates nothing.
* `url.repository.ts:223` says the most frequent device is never blank; `toListed` (`url.service.ts:289-300`) drops it.
* `url.service.ts:237-240` calls the dashboard's totals counts with "no joins"; `countForUser` joins `urls` on its owner, so that a claim that commits between
  two of them, which `auth-context.tsx:88` sends while the dashboard loads, may make "Clicks today" exceed "Total clicks" until the next load.
* The "lifetime" total (`click-event-repository.ts:155`) shrinks with the 90-day purge. The "last 7 days" card adds eight dates.
  Day buckets use the database session's time zone, "today" is UTC.
* `006_guests.sql:8` speaks of a purge of guests; there is none.

## 11. Not modelled

* Metrics counters, their rendering and logging: nothing reads them back into a decision. The DLQ depth gauge is one of them.
* OpenAPI and docs handlers: a static description of the API (the docs route is in `ApiRoutes`).
* Regular expressions and lookups of the validators and of click enrichment, password hashing, base62 and the drawing of
  random codes: functions of one value, without state. Their outcomes are free choices in the models.
* Rendering, styles and the marketing page of the web client.
* Lengths of TTLs, backoffs and timeouts, except where two of them are compared (the limiter's window, the retention).
* `workers/` as separate containers: they do not wait for the migrations, and fail and restart until the schema is there.

## 12. Plan

Done: the click pipeline; the redirect path; live analytics; guests, sessions, limiter and routes, list, startup, statistics.

Proved: every safety invariant, action property and refinement that a passing run checks. With TLC only: the liveness properties
`EventuallySettled`, `EventuallyMarked`, `EventuallyFresh`, `DashboardConnects`, `CheckingEnds`, `BlockEnds`, `ComesUp` and `PurgedAnyway`,
since fairness and ENABLED are beyond the installed provers.

Left out: base62 and IP anonymisation as functions against their definitions. `encodeBase62` and `decodeBase62` have no caller but
their tests; of `generateRandomCode` the models use only that any code may be drawn.
