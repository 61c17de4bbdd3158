# Metaphysics in TLA+

Metaphysics is the GraphQL gateway of artsy.net: an express application
(`src/src/index.ts`) whose resolvers call REST and GraphQL services through
*data loaders*, with memcached behind some of the loaders and an edge cache in
front of the whole service. This directory models its concurrent core and the
sequential logic that unit tests cannot exhaust, checks the models with TLC and
proves their main properties with TLAPS. Source paths are relative to the
directory that holds the repository in `src/`, so that `src/src/lib/cache.ts` is
the repository's `src/lib/cache.ts`.

## 1. Inventory

| component | state | operations | interacts with | what is hard | what makes it correct |
|---|---|---|---|---|---|
| Cached API loader (`lib/loaders/api/loader_without_authentication_factory.ts`, `lib/cache.ts`, `lib/apis/fetch.ts`) | DataLoader's promise memo, per request; memcached, shared by all processes; timers | load, get, set, HTTP call, timeouts | resolvers, memcached, upstream services | answers after timeouts, sets nobody waits for, mutations, shared keys | right data in the right shape, entries that expire, silence that is not waited for, one settlement |
| Authenticated API loader (`loader_with_authentication_factory.ts`) | memo per request | token exchange, HTTP call | as above, without memcached | a user's data next to a shared cache, app tokens that the key does not name | a user's data never in memcached, never in another request |
| Batch loader (`lib/loaders/batchLoader.ts`) | key queue, promise cache | load, dispatch, distribute | the cached loader, whose memoised arrays it changes in place | matching results by position, failures of one group | each key gets its own sale, every promise settles |
| Batch sale-artwork loader (`batchSaleArtworkLoader.ts`) | promise map | load, dispatch, match by id | uncached loader | swallowed failures that stay cached | a lot is found or really absent, each key asked for once |
| Request pipeline, rate limiter, timeouts, request log, lifecycle (`src/index.js`, `src/src/index.ts`, `lib/rateLimiter.ts`, `lib/graphqlTimeoutMiddleware.ts`, `lib/loaders/helpers.ts`, `lib/loaders/api/extensionsLogger.ts`) | booted, shutting down, counters in memcached, timers, log entries by request id | boot, SIGTERM, limit, execute, answer | all of the above | late answers, clients that hang up, resolvers that outlive their request, ids shared by a batch | one final answer each, a clean log, nothing cut off that a client waits for |
| Edge CDN worker (`workers/caching/metaphysics-cdn.ts`) | the edge's cache | match, fetch, put | clients, the origin | puts after the response, clients with different ages | only shareable answers, bounded age, bypass |
| Multi-step mutations (`schema/v2/**/*Mutation.ts`) | that of the services | several calls in a row or together | loaders, their memo | partial failure, lost answers, errors of a gateway, lost updates | the reported result matches what was done |
| Pagination, `allViaLoader` (`schema/v2/fields/pagination.ts`, `lib/helpers.ts`, `lib/all.ts`) | none | computations, a count and then pages | resolvers, gravity | edges of windows, cursors of another page size, lists that change | pages lead to their items, none lost |
| Bid increments, query directives, my bids | none | computations | resolvers | tiers' ends, paths of nested fields, lots in several capped lists | prices on the grid, paths up to the last tag, every listed lot once or an error |
| Home view mixer, stitching, field definitions, feature flags, formatting, logging | none worth modelling | - | - | - | - |

What is hard to test is listed, each hazard at its line, in `PROJECT.json`, with
the properties that are about it.

## 2. Modules

```
LoaderContract        what a loader promises (abstract)
   ^ refinement
CachedLoader          memo + memcached + HTTP + tokens      MCCachedLoader
                                                            CachedLoaderProofs
BatchLoader           batches over a memoised list loader   MCBatchLoader
                                                            BatchLoaderProofs
SaleArtworkLoader     batches over an uncached loader       MCSaleArtworkLoader
                                                            SaleArtworkLoaderProofs
Mutations             plans of calls over the services      MCMutations
                                                            MutationsPlanProofs
                                                            MutationsProofs
Pipeline              a request's way through the process   MCPipeline
                                                            PipelineProofs
EdgeCache             the worker at the edge                MCEdgeCache
                                                            EdgeCacheProofs
Pagination  BidIncrements  QueryDirectives  MyBids          MCAlgorithms
   pure functions                                           AlgorithmsProofs
```

The layers rest on each other by what they assume: the batch loaders, the
mutations and the pipeline assume of a call that it is answered or fails, which
`EveryLoadSettles` shows of CachedLoader.

### CachedLoader

One element of `Loaders` is a named loader with the path, parameters and
invocation options it is called with; a request holds one memo cell for each.
`LoadIds` numbers the calls, so that `memo`, `promise` and `phase` tell which
call started a load and which calls merely got its promise.

| model | code |
|---|---|
| `memo`, `CallMemoised`, `CallLoader` | `loader.load({ key, apiOptions })`, `loader_interface.ts:71-75`; DataLoader 1.3.0 with `batch: false` runs the batch function at once |
| `Reject` clearing `memo` | DataLoader clears the keys of a failed batch |
| `SkipCache` | `skipCache`, factory lines 116-121 |
| `CacheKey` | path plus `::headers`, line 109, and `cacheKey` of `cache.ts` |
| `MemcachedRead`, `CacheHit`, `CacheMiss`, `CacheTimeout` | `_get`, `cache.ts:88-126`: the command is processed, the callback runs, or the timer fires first |
| `UpstreamReads`, `UpstreamWrites` | the service; a write is performed even if its caller gave up |
| `Owner` | the token a call carries: a user's (`x-access-token`), the request's app token on unauthenticated calls of gravity and vortex (`apis/gravity.ts:20`, `apis/vortex.ts:11`), or none |
| `ApiOk`, `ApiOkAndSet`, `SetThrows`, `ApiFails` | the callback in `fetch.ts:93-127` and the `then` chain of the factory |
| `ApiTimeout`, `SignOfLife` | `timeout: REQUEST_TIMEOUT_MS`, `fetch.ts:77-80` |
| `UpstreamChanges` | what others write to the same services |
| `MemcachedStores`, `SetLost` | `client.set`, whose promise nobody waits for |
| `Tick` | time, up to the next timer, and the expiry of entries |

Payloads are records of what the properties tell apart: resource, shape, owner
of the token, version and the time at which memcached stored them. `asked` and
`signs` are history variables.

The `timeout` given to `request` (2.88.2) is no deadline of the call. It limits
the time to connect and is then the socket's inactivity timeout, which anything
the service sends starts again. So a `SignOfLife` sets the timer of a load back,
`ApiTimeout` is the end of a silence, and an answer that trickles is waited for
as long as it does; `MaxSigns` bounds the signs in a run. The timer of a
memcached `set` is not modelled: when it fires, its error is logged, but the
command is not taken back and may arrive as late as it likes (`MemcachedStores`).

An entry of memcached has no owner that its key would name. What an
unauthenticated gravity or vortex loader stores was read with the app token of
its request, and any other request may read it (`SharedOwners`); of a user's
token that must not be so. `ServesOwnData` states both, and that what skips
memcached was read with the tokens of its own request.

JSON encoding and compression are inverse to each other on everything memcached
returns; a payload that does not inflate is a `CacheMiss`.

### BatchLoader

`queue` holds the keys that wait for DataLoader's dispatch job, `batches` the
chunks whose requests are on their way, and `items` the contents of the arrays
that the memoised list loader resolved to. `Distribute` reverses these arrays
in place and pops one result for each key, in the order of the keys, exactly
as lines 122-130 do; a second batch that makes the same request finds the array
as the first one left it. Gravity's positional answer to `batched: true` is an
assumption about the service; a single sale that does not exist is a 404, hence
a failure. A list of keys (`loadMany`) is one `Load` for each key.

### SaleArtworkLoader

`state` and `value` are the promises that `promiseCache` keeps for a request,
one for each key; a key is an artwork's id or slug and a sale. `Dispatch` cuts
the queue into batches of `MaxBatchSize` keys and makes one request for each
sale of a batch (`groupByParams`); `Fail` is the `catch` that turns a failed
request into no data; `Distribute` is what follows `Promise.all`, with the two
`find`s of the batch function in `Find`. An order within a batch plays no part
there, so that a batch is a set.

### Mutations

A mutation is a *plan*: the stages its `mutateAndGetPayload` awaits, each a set
of calls. Twenty-seven mutations are written down as plans, one definition
each; among them are all that make several calls and that a reader could get
wrong, with the options of their input that decide what they call. The
machinery is the same for all: `Send` starts a stage, with reads the request's
memo has answered already; a service performs, refuses or loses each call; a
lost write may still be performed later (`ServiceWritesLate`); `Fail` turns a
failure into a payload when it is an HTTP error inside a `try`
(`formatGravityError`), into a thrown error otherwise. An HTTP error need not
mean that nothing was done: `Refuse` is the service's own, whereas a 502, 503 or
504 comes from a gateway in front of it, and the write may be on its way (`Lose`
with "http"). Image and icon URLs of a form that `computeImageSources` does not
know (`"foreignUrl"`, `Recognised`) are dropped, and the mutation succeeds
without them. Fields of one document
run in order, documents concurrently. `log` is the list of performed writes,
`sees` how many of them a read reflects. `Plan` is the plan as the state makes
it: nothing for a visitor without a token, otherwise `Body`, which needs of the
state only whether the answer to the first update named an edition set. An
update of a show never writes an empty list of artists: the body is built from a
query string (`fetch.ts:23-55`), in which `qs` leaves an empty array out, so that
gravity keeps the artists it has.
`Documents`, `Things` and the options of each kind (`Options`) are what
`DocumentAssumption` says a document may hold.

### Pipeline

A *form* is what the pipeline looks at in a request: route, header of our own
services, persisted query, what becomes of the query, request id. Execution is
one resolver with one call; more of them would run the same race. The limiter's
question to memcached and its timer are separate, so that the answer may come
after the timer; `work` is the resolver, `field` what execution has of it.
`entries` is the map that all requests share, keyed by request id, which the
parts of a `/batch` have in common. A client may hang up at any time
(`Disconnect`): nothing in the code listens for it, but its connection is then
none that the shutdown waits for (`Open`, `Closed`). `resolverTimeoutMs` is
`RESOLVER_TIMEOUT_MS`, by default 0, in which case `index.ts:102` mounts no
timeout for resolvers (`HasTimeout`); the sections of the home view have one of
their own.

### EdgeCache

`Receive`, `Hit`, `Miss`, `OriginAnswers`, `Throws` and `Put` are the awaits of
the fetch handler. `clean` stands for "status below 300 and no `no-cache`
header", which the origin sends whenever a result has errors
(`src/src/index.ts:237`). The cache forgets an entry after the max-age it was
put with, or earlier (`Evict`).

### Algorithms

`Pagination`, `BidIncrements`, `QueryDirectives` and `MyBids` hold operators
only, with loops as recursive functions. MCAlgorithms applies each to every
input of a bounded set in one step and compares the result with a definition
written from what callers rely on, not from the loop: the regular price grid
for increments, the ancestors of a field for paths, the slice of the list for
pages, lots by sale for bids. Each definition is an operator of the input and the
result (`Tagged`, `ShowsAllOrNothing`), so that it can be proved of every input. A
list that changes while `allViaLoader` reads
its pages is an input too: each page is read from the list before or after one
insertion or removal. The lists of `MyBids` come cut off as the services do it
(`FetchCount` for all that are asked with a size, `CausalityCap` for causality's
standings), and a sale that a list names may be one that `saleLoader` or
`saleArtworksLoader` cannot read, which fails the whole field (`ResolveMyBids`).

## 3. Runs

| run | bounds | shows |
|---|---|---|
| LoaderIsolation | 2 requests (symmetric) of two applications, one loader of each kind for one path, called once each, 2 calls in all; 1 sign of life for loads with a token, 1 change by others | isolation, silence, fresh mutations, and the refinement of LoaderContract |
| LoaderTiming | 3 queries, one loader called twice each, 3 calls within 2 ticks | one answer per request, expiry whatever comes late, liveness by timers |
| BatchLoader | 2 sales (one missing), with and without filter; 4 keys, chunks of 2, 1 failure besides sales not found | positions, filters, settlement |
| SaleArtworkLoader | 2 sales, 2 artworks, a slug, 4 keys, batches of 2, 1 failure | own lots, one question each, liveness |
| Mutations | one document of every mutation and option, unknown URLs included, pairs of fields, pairs of requests; 2 failures, errors of a gateway among them | what answers promise of writes |
| Pipeline | 2 requests of 9 forms, equal or different ids, a limit of 1 or none, resolver timeouts on or off, clients that hang up | one answer, the log, shutdown, liveness |
| EdgeCache | 2 requests at a time, whose slots are used again; POSTs with ages 1 and 2, a token or no-cache; 3 ticks | what is cached, what is bypassed, ages |
| Algorithms | lists of up to 10, pages of up to 3, windows of 3 to 6; three tiers; documents of 4 fields; 3 lots in 2 sales, lists of up to 3 cut off after 2, a sale that cannot be read | the functions against their references |
| BatchAlias, EdgeReaderAge, IncrementalUpdates, MisalignedCursor | as above | the code departs from what a comment or a document says |

Bounds. Every timeout is one tick, the shortest that still lets an answer come
before, with and after its timer; the clock of CachedLoader stops calls after
`Horizon` but lets running timers end. Two requests are enough for a key to be
read while another request's set is on its way, and for a read on either side
of a write. In LoaderTiming three requests let the older of two answers be set
over the newer one and be read by the third, and the second call of a cell is
the retry after a failure. That run has no signs of life, which lengthen the wait
for an upstream; expiry counts from when memcached stored an entry.
Chunks of two keys and four keys make batches of one and of two keys, several
chunks, and both loaders active at once. Two failures lose one call of each of
two requests, or two calls of one stage. Two images are the least that can be
in the wrong order. A limit of one lets the second request be turned away.
Windows of 3 to 6 out of up to 10 pages meet all four cases of
`createPageCursors` and their edges. Three ticks at the edge let an entry of
the longest age be put late and expire.

Deadlock is not checked: all systems stop when the bounds are used up or, in
Pipeline, when the process ends; MCAlgorithms makes one step.

Fairness. `LoaderTiming` assumes that time passes and that the process runs the
timers that are due (`setTimeout` and those of `request`); nothing is assumed of
memcached, of the upstream or of callers, but that no upstream trickles for
ever, against which those timers are of no use. The batch loaders assume that
one of their pending steps happens as long as there is one: the dispatch job,
the answer or failure of a request, the continuation after `Promise.all`.
Mutations assumes that resolvers go on when what they await is there and that
services answer what is not lost. Pipeline assumes that timers fire and that the
process goes on with what is ready, but neither that memcached answers nor that
a resolver ends nor that a client comes. Where resolvers have no timeout, which
is the default, `NobodyWaitsForever` makes an exception of those whose service
never answers (`Hangs`), and of a shutdown as long as somebody waits for such a
one.

Every property of a passing run has a mutant in `PROJECT.json`: an operator
next to the definition it replaces, marked `Mutant`, that changes the code as a
plausible bug would and makes the property fail.

### What departs from the documentation, with a run

* `saleLoader` and `salesLoader` share one memoised list loader whose arrays
  they empty; when both ask for the same list, the second gets `undefined` for
  sales that exist (BatchAlias). `EmptyHandedOnlyBySharing` shows that this is
  the only way to get nothing.
* `addArtistIds` and `removeArtistIds` of `updatePartnerShow` are said to be
  incremental. The artists are read, merged and written back; the memo also
  returns to a second update in one document the artists from before the first
  (IncrementalUpdates).
* A connection is said to need no more than its arguments. A cursor that is no
  multiple of the page size is rounded to a page: the first 2 items after
  offset 0 come back as items 3 and 4 instead of 2 and 3 (MisalignedCursor).
  `CursorsLeadToPages` and the theorem `AlignedConnections` are what does hold.
* "The worker will respect the provided expiration, responding with data up to
  that expiration in age" (`docs/cdn.md:9`). `metaphysics-cdn.ts:98` returns a
  match of any age: what was put for a request with a long max-age answers one
  with a short one (EdgeReaderAge). `HitsAreBounded` is the bound that does hold.
  This assumes that the platform's `caches.default.match` disregards the
  `Cache-Control` header of the key request.

### What was seen while modelling, without a run

* The unauthenticated factory's comment (lines 31-32) says that it does not
  cache to memcache; it does.
* A successful answer whose body is `null` makes `_set` throw (`cache.ts:140`),
  so that the load fails and nothing is cached. Loaders with `headers: true`
  are not affected.
* `isMutation` bypasses memcached but not the memo (factory line 167).
* `docs/cdn.md` gives one hour as the default age, the worker's is 30 seconds
  unless its environment sets another.
* The vortex loaders without authentication "skip the cache anyway", says
  `loaders/api/index.ts:236-242`, since GraphQL requests are POSTs. Those of
  them that are GETs to vortex do use memcached, under a key that does not name
  the app token (`SharedOwners`).
* `REQUEST_TIMEOUT_MS` limits silence, not the duration of a call: a service
  that sends a byte now and then is waited for without end.
* Images and icons whose URLs `computeImageSources` does not know are dropped
  without a word to the caller (`myCollectionCreateArtworkMutation.ts:341-365`,
  `update_me_mutation.ts:275-326`), and the last artist of a show cannot be removed.
* A 502, 503 or 504 becomes a failure in a payload like any other HTTP error,
  while the write may still be performed.
* `sale.saleArtwork(id)` takes a slug, but a batch compares with the artwork's
  id, so that a slug comes out `undefined` (`batchSaleArtworkLoader.ts:60`).
* An unset `RATE_LIMIT_MAX` stays `NaN`, which turns the limiter off
  (`config.ts:125`).
* A log entry is never deleted when a result has no data (`index.ts:189`), and
  the 503 of `/health` cannot be reached once the server stopped listening.
* A visitor "returns the full path to the fields tagged with the directive"
  (`getOptionalFieldsDirectivePath.test.ts:46`). A second `@optionalField` below
  a parent that was open at the first one gets a truncated path, because the
  path is emptied at each tag (`getOptionalFieldsDirectivePaths.ts:21`). The test
  has no such document. `DirectivePaths` states the paths as they are recorded,
  and that they are full exactly when no ancestor was open at the tag before.
* "Always includes current page" (`pagination.ts:64`) fails for pages past the
  cap.
* A watched lot is missing from `myBids` when its artwork's first sale is
  another one, and an artwork without sales fails the field (`myBids.ts:215`),
  as does a single sale that cannot be read. Bids beyond the first 99, or the 25
  that causality returns at most, are not shown (`myBids.ts:119-124`).

## 4. Proofs

Eight modules are checked by TLAPS, for every value of the constants that
satisfies the assumptions of the modules.

**CachedLoaderProofs.** No single property is inductive. `IInv` is the
conjunction of

* `TypeOK`;
* `PhaseInv`: which kinds of load can be in which phase, and that a load that
  was not called is idle;
* `MemoInv`: the memo names a load of its own cell that is running or has
  resolved, and a cell never has two such loads;
* `DataInv`: replies, results and the store are of the right kind, read with a
  token that those who get them may see; memcached only ever gets the results of
  loads that may use it;
* `VersionInv`: versions only grow, and an answer carries at least the version
  that was current when its load was asked for, unless memcached was involved;
* `TimeInv`: timers end ahead, no later than the signs of life so far have paid
  for (`Patience`), and entries expire within the longest lifetime of their key,
  whenever they were stored.

Actions are grouped by their effect (a load falls, an answer is delivered, a
phase is entered, the store forgets), so that a conjunct is proved once for
each effect. From `IInv` follow `TypeCorrect`, `OwnDataOnly`,
`StoreIsConsistent`, `ReadsRepeat`, `MutationsReadFresh`, `SilenceBound`,
the action properties `ExpiryBound` and `PromisesSettleOnce` (a settled load
never changes), and `Refinement`: every step of CachedLoader is a step or a
stutter of LoaderContract under the mapping `Promised`. The contract has no
clock and no bound on waiting. A load is answered once or fails once; one that is
`fresh` (memcached is skipped) gets what it read with its own token, no older
than the call, any other a version the source has had, read with a token that the
key is shared for. The assumption that carries weight is `KeyAssumption`: two
unauthenticated loaders with the same key mean the same resource and both send
an app token or neither does, although the key does not name the API.

**EdgeCacheProofs.** `IInv` adds to `TypeOK` which requests can be where
(`FlowInv`), the two data properties, and the times of answers, puts and
entries (`AgeInv`). From it follow `EdgeIsShareable`, `EdgeRepliesAreOwn`,
`EdgeBypassIsFresh` and `EdgeStaleness`. `PutDelay`, the time the edge grants a
put after the response, is a constant of the platform.

**SaleArtworkLoaderProofs.** That a key finds its own lot depends on more than
its own request: `IInv` says that an answer holds exactly the lots of its sale
among the artworks asked for (`AnswersOK`), that a batch has a request for the
sale of each of its keys (`BatchesWhole`), and that keys are queued once and
are in one batch, which asks once for a sale (`KeysOnce`). Most of the work is
about cutting the queue: `BatchSize` and `BatchesDisjoint` show that the
batches of a queue without repetition are non-empty, no longer than
`MaxBatchSize` and disjoint, for every queue. From `IInv` follow
`SaleTypeCorrect`, `LotsAreOwn` and `KeysAskedOnce`. A lot's id and its slug are two
keys, so that gravity may be asked for one lot twice.

**BatchLoaderProofs.** Results are matched to keys by position alone, so
`NeverAnothersSale` needs to know what every array holds: `ArraysOK` says that
the array of a request is pending, or as gravity sent it, or empty, and empty
only once one of the two loaders has taken all of it. `OnePlace` says that a
key waits in one place of one queue or chunk, and `UnderWay` that the requests
of a chunk are in the memo. The lemmas about ranks (`RankInjective`,
`RankOnto`, `IdAtPlace`) show that the place of a key in its group is where its
id was asked for, and `ChunksDisjoint` that the chunks of a queue share no key.
The step that matters is `DistributeIInv`: a chunk that finds an array emptied
leaves its keys undefined, and then the other loader's chunk held the same
keys, as `EmptyHandedOnlyBySharing` asks. From `IInv` follow `BatchTypeCorrect`,
`OwnSaleOnly`, `EmptyOnlyBySharing` and `FiltersAreKept`.

**PipelineProofs.** `IInv` says of each request where the limiter, the
resolver and its answers can be in each phase (`Way`), what execution has of a
resolver (`Execution`), which entries the log may hold (`EntriesInUse`), and
that the entry of an id that one request alone uses is that request's (`OwnLog`).
`Way` has one exception, a store that answers after the limiter's timer
(`timer = "late"`), and the properties have the same one. From `IInv` follow
`PipelineTypeCorrect`, `OneAnswerEach`, `LogIsClean` and `CleanExit`, for any
number of requests, ids and any limit. Of the constants it is assumed only that
`Traffic` gives each request a form with an id of `Ids`, that a limit is a
number or unset, a resolver timeout a number, and that `Absent` is no entry. A
clean exit waits for connections, so that `CleanExit` excepts resolvers whose
client hung up (`gone`): they may be in the middle of their work.

**MutationsPlanProofs.** What the execution of a plan relies on is a property of
the plan alone, and `EveryBodyIsGood` proves it for all twenty-seven mutations,
with any options and any number of images, artworks or items. A plan is `Good`
when no call occurs twice in it, each image comes after a stage that awaits the
image before it, only the mutations that `NoLateWrites` exempts send calls
together inside a `try` or ignore a failure, the calls whose failure is noticed
are all that the input asks for and the URLs it names permit (`Delivers`), and
the mutations that read their artwork or list again do so in the last stage.
Plans are built by joining stages, so that the proof consists of lemmas about
joining (`Joined`, `WriteAndRead`) and one lemma for each mutation or family of
them.

**MutationsProofs.** The invariant has four layers, each inductive on top of
those before it.

1. `Executing`: the types; a call on its way belongs to a field that was begun
   and, if that field is under way, to a stage of its plan that is not yet over;
   the same for writes in the log and reads in the memo; no call is sent twice.
   It gives `MutationsTypeCorrect`.
2. `Ordered`: every call of a finished stage was performed, unless its failure
   is ignored, and performed once; an image is sent when those before it are in
   the log. It gives `ImagesAreAttachedInOrder`.
3. `Calm`: a write that is pending after its field was answered is one that the
   answer allows for (`Unhurried`), and a field that awaits its calls one by one
   has at most one on its way (`OneAtATime`), from which `NothingIsWrittenLate`
   follows: after a failure, be it a gateway's error in a payload, at most one
   write of such a field is still to come. Upon it rest `Faithful`, by which a
   field that succeeded has carried out a whole plan, and `Rereading`, by which
   what the last stage reads reflects all that the field wrote; they give
   `SuccessIsTrue` and `RereadsAreFresh`. The latter is about what gravity reads
   again: `sendConversationMessage` writes to impulse, of which
   `send_message_mutation.ts:157-159` says that it lags.
4. `Single`: while one request alone updates artworks and every call is
   answered, an artwork has at most one edition set, and what a field knows of
   it from its first answer is still true when it writes. `EditionSetIsSingle`
   is not inductive without the second part, nor without counting the set that
   an artwork had to begin with (`Sets`). It gives `NoSecondEditionSet`, for
   documents of any length.

**AlgorithmsProofs.** `CursorRoundTrip`: the cursor of a page leads back to its
number, offset and size, through the rounding of
`convertConnectionArgsToGravityArgs`. `AlignedConnections`: with such a cursor
the page gravity returns is the part of the list that the offset names.
`WindowHoldsPage`: the window of page cursors for every odd width of at least
three; with it, `CursorsAreOffered` gives all that a reader is offered, for any
list, page size, cap and width. They rest on one lemma about division
(`Quotient`). `AllPagesTogether` is about `allViaLoader`, for lists of any
length without repetition, any change between count and pages, and any set of
pages read before it: by induction over the pages, an item that stays on its
page is on none before it, once on its own (`PageHolds`) and on none after it.
`PricesAreOnGrid` is about `bid_increments_calculator`, for any number of tiers,
any asking price, limit and count: as many regular prices above the asking price
as the limit and the count allow, none left out. By induction over the rounds,
the tiers left are those from the current price's own tier on, and the list is
what lies between the asking price and the current one (`Climbed`, preserved by
`ClimbStep`); that one tier is dropped in a round is enough only because no tier
is narrower than the increment before it (`Widths`, `TierAdvances`). Nothing in
the code makes that so. It is a hypothesis of the theorem and of the property,
and the run also takes tiers it does not hold of.

The loops are recursive functions, which can be unfolded only when such a
function is known to exist (`RecursionExists`: for any start and any step from a
set to itself).

`TagsAreFound` is about the two directive visitors, for a document of any length
and depth: any sequence of fields that graphql's `visit` may go through, none
deeper than one below the last (`Document`). By induction over the fields, the
path the visitor keeps names the open fields entered since the last tag
(`Recorded`, preserved by `RecordStep`). The step rests on two facts about the
tree: the ancestors of a field have the depths from 1 to its own, each once
(`AncestorDepths`), and leaving a field therefore pops its own name, or nothing
when the path was cut off below it (`PopLeaves`, `EnterKeeps`).

`LotsAreHeld` is about `MyBids`, for any caps, any set of lots and any set of
sales (`Bidder`): standings may repeat a lot, sales may be named by several
lists, gravity may return any part of the lots it is asked for, and some sales
may not be readable, so that the field fails as a whole exactly when one of
those is named (`FetchedAreShown`). It speaks of the lists as they were fetched:
what the caps cut off is not shown. It assumes that no lot is watched twice:
watched lots are one page of gravity's lots, asked for by a filter
(`myBids.ts:173`), which MyBids does not make unique itself. The list of a sale
holds exactly the lots watched and bid upon in it, each once (`LoadedShows`),
sorting keeps that (`SortShows`) and pruning takes away just the lots without a
standing (`PruneShows`). In the same way the combined sales are those that
anything names (`CombinedSalesList`), sorted and split into open and closed ones
(`BidsHold`). A lot belongs to one sale, so that it is in one place
(`ShownOnce`).

A sorted list is defined as *the* enumeration of its positions in a given order
(`Enumeration` in MyBids), not by the library's `SortSeq`, of which the prover
knows nothing. That such an enumeration exists for every finite set with a
strict total order, that it lists every element once, and that it is the
only one for numbers, is proved by induction over the size of the set
(`SortExists`, `SortIsOnto`, `AscentIsUnique`). `Array.filter` and lodash's
`uniq` and `sortBy` are defined by it.

`EveryCursorLeads`, `EveryPageIsRead`, `RegularPrices`, `EveryTagIsFound` and
`EveryLotIsHeld` are the properties of MCAlgorithms: its jobs are among the inputs
of those theorems.

Induction. The theorems of the library about induction take an operator as a
parameter and cannot be used by the provers. Where an induction is needed it is
one over a set of numbers, from the well-foundedness of `<` (`EveryNumber` in
AlgorithmsProofs, `Largest` in MutationsProofs).

Only model-checked: liveness (`EveryLoadSettles`, `EveryKeySettles`,
`EveryLotResolves`, `EveryFieldAnswered`, `NobodyWaitsForever`), since
fairness and ENABLED are out of the prover's reach. Every other property of a
passing run is a theorem.

## 5. Not modelled

* The roughly thousand files of field definitions under `schema/v2` map one
  loader's result each and keep no state. They are most of the repository's
  lines, which is why the modelled share of the lines is small. The mutations
  among them that make one call forward their input to it and its answer back:
  as plans they would all be `Await` of one loader.
* The uncached API loader is one HTTP request for each call.
* Stitching is declarative and done by graphql-tools. Unleash's client polls on
  its own. Formatting, logging, statistics and tracing are text.
* The home view mixer is two filters over a list.
* Of my bids: the null that a visitor without loaders gets, and a failure of one
  of the four lists, which fails the field before anything is computed.
* Of the mutations: how long a service takes to show a write to others, but for
  the order of reads and writes at one service.
* Of the pipeline: parsing and validation rules are outcomes of a form;
  `@timeout` is no longer parsed by the middleware; `/health` is left out.
* The preflight answer of the worker and its hash of the body touch no state.
