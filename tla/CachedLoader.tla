---------------------------- MODULE CachedLoader ----------------------------
(***************************************************************************)
(* The data loaders of src/src/lib/loaders/api on top of the memcached     *)
(* client of src/src/lib/cache.ts and the HTTP client of                   *)
(* src/src/lib/apis/fetch.ts.                                              *)
(*                                                                         *)
(* Every GraphQL request builds its own loaders.  A loader is a DataLoader *)
(* whose memo lives as long as the request; memcached is shared by all     *)
(* requests of all processes.  One element of Loaders stands for a named   *)
(* loader together with the path, parameters and invocation options it is  *)
(* called with, so that one memo cell per request and loader is enough.    *)
(*                                                                         *)
(* Payloads are abstracted to what the properties tell apart: the resource *)
(* they describe, its version, the shape of the value (bare body, or body  *)
(* and headers), whose token it was read with, and when memcached stored   *)
(* it.  A user's token belongs to one request; app tokens are shared.      *)
(***************************************************************************)
EXTENDS Integers, FiniteSets

CONSTANTS
  Requests,              \* GraphQL requests
  Loaders,               \* named loaders, each with fixed arguments
  Resources,             \* what an upstream service serves: API and path
  Paths,                 \* the key strings, which do not name the API
  ResourceOf,            \* [Loaders -> Resources]
  PathOf,                \* [Resources -> Paths]
  Headers,               \* loaders created with headers: true
  Mutating,              \* loaders whose method is PUT, POST or DELETE
  Authenticated,         \* loaders of loader_with_authentication_factory
  HonoursMutation,       \* loaders whose factory is given isMutation
  AppTokens,             \* tokens of applications, Metaphysics' own included
  AppToken,              \* [Requests -> AppTokens]: x-xapp-token, or the default
  SendsAppToken,         \* unauthenticated loaders of gravity and vortex
  Throttle,              \* [Loaders -> Nat]: requestThrottleMs, 0 if unset
  Lifetime,              \* [Loaders -> Nat]: of the entries a loader reads
  CACHE_DISABLED,
  CACHE_LIFETIME,
  CACHE_RETRIEVAL_TIMEOUT,
  REQUEST_TIMEOUT,
  Public,                \* the owner of data read without any token
  Nothing,               \* no value
  MaxCalls,              \* bound: calls of one loader in one request
  CallBudget,            \* bound: calls in a behaviour
  MaxSigns,              \* bound: signs of life of the upstreams in one load,
                         \* [Requests \X Loaders -> Nat]
  MaxChanges,            \* bound: changes of a resource by others
  Horizon                \* bound: time after which nothing is called

Deadlines == {CACHE_LIFETIME, CACHE_RETRIEVAL_TIMEOUT, REQUEST_TIMEOUT}

ASSUME LoaderAssumption ==
  /\ ResourceOf \in [Loaders -> Resources]
  /\ PathOf \in [Resources -> Paths]
  /\ Headers \subseteq Loaders
  /\ Mutating \subseteq Loaders
  /\ Authenticated \subseteq Loaders
  /\ HonoursMutation \subseteq Loaders
  /\ AppToken \in [Requests -> AppTokens]
  /\ SendsAppToken \subseteq Loaders \ Authenticated
  /\ Public \notin Requests \cup AppTokens
  /\ Requests \cap AppTokens = {}

ASSUME BoundAssumption ==
  /\ CACHE_DISABLED \in BOOLEAN
  /\ Throttle \in [Loaders -> Nat]
  /\ Deadlines \subseteq Nat \ {0}
  /\ MaxSigns \in [Requests \X Loaders -> Nat]
  /\ {MaxCalls, CallBudget, MaxChanges, Horizon} \subseteq Nat

\* The shape of a value: the bare body, or an object with body and headers.
Shapes == {"body", "bodyAndHeaders"}
Shape(l) == IF l \in Headers THEN "bodyAndHeaders" ELSE "body"

\* Mutant: the key without the suffix for loaders that want headers.
CacheKeyWithoutShape(l) == <<PathOf[ResourceOf[l]], "body">>

CacheKey(l) == <<PathOf[ResourceOf[l]], Shape(l)>>

CacheKeys == Paths \X Shapes

(***************************************************************************)
(* A memcached key is a path, with a suffix for loaders that want headers. *)
(* It does not name the API.  The loaders of loaders_without_authentication*)
(* are defined so that two of them never build the same key for different  *)
(* APIs (galaxy and gravity both serve "fairs", but only gravity's asks    *)
(* for headers); the cache depends on it.  The API decides whether an app  *)
(* token is sent.                                                          *)
(***************************************************************************)
ASSUME KeyAssumption ==
  \A l, m \in Loaders \ (Authenticated \cup Mutating) :
    CacheKey(l) = CacheKey(m) =>
      /\ ResourceOf[l] = ResourceOf[m]
      /\ l \in SendsAppToken <=> m \in SendsAppToken

\* The lifetime a loader gives the entries it writes.
Ttl(l) == IF Throttle[l] # 0 THEN Throttle[l] ELSE CACHE_LIFETIME

\* Loaders that share a key share its entry, whoever wrote it: Lifetime[l] is
\* the longest lifetime of an entry l may read.
ASSUME LifetimeAssumption ==
  /\ Lifetime \in [Loaders -> Nat]
  /\ \A l, m \in Loaders \ (Authenticated \cup Mutating) :
       CacheKey(l) = CacheKey(m) => Ttl(m) <= Lifetime[l]

\* A load is named by the request, the loader and the call that started it.
LoadIds == Requests \X Loaders \X (1..MaxCalls)

Values ==
  [of : Resources, shape : Shapes, owner : Requests \cup AppTokens \cup {Public},
   version : Nat, stored : Nat]

ASSUME NothingAssumption == Nothing \notin Values

Pending == {"token", "cacheGet", "apiCall"}
Phases == Pending \cup {"idle", "resolved", "rejected"}

VARIABLES
  now,         \* the clock
  isMutation,  \* [Requests -> BOOLEAN]: the document includes a mutation
  version,     \* [Resources -> Nat]: the upstream services
  store,       \* memcached: key -> value and time of expiry, or Nothing
  memo,        \* DataLoader's promise cache: the load memoised, or 0
  promise,     \* the load whose promise a call returned, 0 if not called
  asked,       \* history: clock and upstream version when a call was made
  phase,       \* where a load is
  due,         \* the time the load's running timer fires
  signs,       \* history: how often an upstream's sign of life restarted it
  reply,       \* an answer on its way to a load
  got,         \* what a load resolved to
  sent,        \* writes (PUT, POST, DELETE) upstream has yet to process
  writes       \* loads whose cache.set memcached has yet to process

vars == <<now, isMutation, version, store, memo, promise, asked, phase, due,
          signs, reply, got, sent, writes>>

cacheVars == <<store, writes>>
callVars  == <<promise, asked>>
fixed     == <<now, isMutation>>

\* The types of the variables: what the memo, memcached, the timers and the
\* answers on the wire can hold.
TypeOK ==
  /\ now \in Nat
  /\ isMutation \in [Requests -> BOOLEAN]
  /\ version \in [Resources -> Nat]
  /\ store \in [CacheKeys -> [value : Values, expires : Nat] \cup {Nothing}]
  /\ memo \in [Requests \X Loaders -> 0..MaxCalls]
  /\ promise \in [LoadIds -> 0..MaxCalls]
  /\ asked \in [LoadIds -> [at : Nat, version : Nat]]
  /\ phase \in [LoadIds -> Phases]
  /\ due \in [LoadIds -> Nat]
  /\ signs \in [LoadIds -> Nat]
  /\ reply \in [LoadIds -> Values \cup {Nothing}]
  /\ got \in [LoadIds -> Values \cup {Nothing}]
  /\ sent \subseteq LoadIds
  /\ writes \subseteq LoadIds

Init ==
  /\ now = 0
  /\ isMutation \in [Requests -> BOOLEAN]
  /\ version = [res \in Resources |-> 0]
  /\ store = [k \in CacheKeys |-> Nothing]
  /\ memo = [c \in Requests \X Loaders |-> 0]
  /\ promise = [x \in LoadIds |-> 0]
  /\ asked = [x \in LoadIds |-> [at |-> 0, version |-> 0]]
  /\ phase = [x \in LoadIds |-> "idle"]
  /\ due = [x \in LoadIds |-> 0]
  /\ signs = [x \in LoadIds |-> 0]
  /\ reply = [x \in LoadIds |-> Nothing]
  /\ got = [x \in LoadIds |-> Nothing]
  /\ sent = {}
  /\ writes = {}

-----------------------------------------------------------------------------
\* Mutant: a mutation request reads and writes memcached.
SkipCacheInQueriesToo(x) == CACHE_DISABLED \/ x[2] \in Mutating

\* Short-circuits any reading or writing to the cache.
SkipCache(x) ==
  \/ CACHE_DISABLED
  \/ x[2] \in Mutating
  \/ x[2] \in HonoursMutation /\ isMutation[x[1]]

\* Mutant: authenticated loaders share memcached with everybody.
UsesMemcachedWithToken(x) == ~SkipCache(x)

UsesMemcached(x) == x[2] \notin Authenticated /\ ~SkipCache(x)

Memoised(x) == x[2] \notin Mutating

Cell(x) == <<x[1], x[2]>>

\* Whose token the upstream is asked with.
Owner(x) ==
  CASE x[2] \in Authenticated -> x[1]
    [] x[2] \in SendsAppToken -> AppToken[x[1]]
    [] OTHER -> Public

\* Mutant: the access token is sent by the loaders without authentication too.
BodyReadAsUser(x, v) ==
  [of |-> ResourceOf[x[2]], shape |-> Shape(x[2]), owner |-> x[1], version |-> v, stored |-> 0]

\* What reduceData makes of an upstream answer for version v.
Body(x, v) ==
  [of |-> ResourceOf[x[2]], shape |-> Shape(x[2]), owner |-> Owner(x), version |-> v, stored |-> 0]

\* Mutant: the deadline lies before the start.
EnterBackwards(x, p, wait) ==
  /\ phase' = [phase EXCEPT ![x] = p]
  /\ due' = [due EXCEPT ![x] = now - wait]

Enter(x, p, wait) ==
  /\ phase' = [phase EXCEPT ![x] = p]
  /\ due' = [due EXCEPT ![x] = now + wait]

\* Mutant: a request whose timer fired is made a second time.
CallApiTwice(x) ==
  /\ Enter(x, "apiCall", 2 * REQUEST_TIMEOUT)
  /\ sent' = IF x[2] \in Mutating THEN sent \cup {x} ELSE sent

\* callApi: the request leaves and its timer starts: of the connection, or of
\* silence where the connection is there already.
CallApi(x) ==
  /\ Enter(x, "apiCall", REQUEST_TIMEOUT)
  /\ sent' = IF x[2] \in Mutating THEN sent \cup {x} ELSE sent

\* Mutant: the memo forgets a load once it is done.
ResolveAndForget(x, value) ==
  /\ phase' = [phase EXCEPT ![x] = "resolved"]
  /\ got' = [got EXCEPT ![x] = value]
  /\ reply' = [reply EXCEPT ![x] = Nothing]
  /\ memo' = [memo EXCEPT ![Cell(x)] = 0]

Resolve(x, value) ==
  /\ phase' = [phase EXCEPT ![x] = "resolved"]
  /\ got' = [got EXCEPT ![x] = value]
  /\ reply' = [reply EXCEPT ![x] = Nothing]
  /\ UNCHANGED memo

\* DataLoader clears the key of a batch that failed before it rejects.
Reject(x) ==
  /\ phase' = [phase EXCEPT ![x] = "rejected"]
  /\ reply' = [reply EXCEPT ![x] = Nothing]
  /\ memo' = [memo EXCEPT ![Cell(x)] = 0]
  /\ UNCHANGED got

-----------------------------------------------------------------------------
\* A resolver calls a loader; x is the next call of that loader.
CanCall(x) ==
  /\ now <= Horizon
  /\ Cardinality({y \in LoadIds : promise[y] # 0}) < CallBudget
  /\ promise[x] = 0
  /\ \A n \in 1..(x[3] - 1) : promise[<<x[1], x[2], n>>] # 0

Ask(x, n) ==
  /\ CanCall(x)
  /\ promise' = [promise EXCEPT ![x] = n]
  /\ asked' = [asked EXCEPT ![x] =
                 [at |-> now, version |-> version[ResourceOf[x[2]]]]]

CallMemoised(x) ==
  /\ Memoised(x)
  /\ memo[Cell(x)] # 0
  /\ Ask(x, memo[Cell(x)])
  /\ UNCHANGED <<fixed, version, cacheVars, memo, phase, due, signs, reply, got, sent>>

CallLoader(x) ==
  /\ Memoised(x) => memo[Cell(x)] = 0
  /\ Ask(x, x[3])
  /\ memo' = IF Memoised(x) THEN [memo EXCEPT ![Cell(x)] = x[3]] ELSE memo
  /\ \/ /\ x[2] \in Authenticated
        /\ Enter(x, "token", REQUEST_TIMEOUT)
        /\ UNCHANGED sent
     \/ /\ UsesMemcached(x)
        /\ Enter(x, "cacheGet", CACHE_RETRIEVAL_TIMEOUT)
        /\ UNCHANGED sent
     \/ /\ x[2] \notin Authenticated
        /\ SkipCache(x)
        /\ CallApi(x)
  /\ UNCHANGED <<fixed, version, cacheVars, reply, got, signs>>

\* accessTokenLoader answered in time, or it rejected or timed out.
TokenReady(x) ==
  /\ phase[x] = "token"
  /\ CallApi(x)
  /\ UNCHANGED <<fixed, version, cacheVars, callVars, memo, reply, got, signs>>

TokenFailed(x) ==
  /\ phase[x] = "token"
  /\ Reject(x)
  /\ UNCHANGED <<fixed, version, cacheVars, callVars, due, signs, sent>>

-----------------------------------------------------------------------------
\* memcached processes the get command and answers with the entry it has.
MemcachedRead(x) ==
  /\ phase[x] = "cacheGet"
  /\ reply[x] = Nothing
  /\ store[CacheKey(x[2])] # Nothing
  /\ reply' = [reply EXCEPT ![x] = store[CacheKey(x[2])].value]
  /\ UNCHANGED <<fixed, version, cacheVars, callVars, memo, phase, due, signs, got, sent>>

\* The answer arrives while the retrieval timer runs.
CacheHit(x) ==
  /\ phase[x] = "cacheGet"
  /\ reply[x] # Nothing
  /\ Resolve(x, reply[x])
  /\ UNCHANGED <<fixed, version, cacheVars, callVars, due, signs, sent>>

\* A miss, an error of the client, or a payload that does not inflate.
CacheMiss(x) ==
  /\ phase[x] = "cacheGet"
  /\ CallApi(x)
  /\ reply' = [reply EXCEPT ![x] = Nothing]
  /\ UNCHANGED <<fixed, version, cacheVars, callVars, memo, got, signs>>

\* Mutant: no retrieval timer.
CacheTimeoutNever(x) == phase[x] = "cacheGet" /\ now > due[x] /\ UNCHANGED vars

\* The retrieval timer fires; an answer that comes later is dropped.
CacheTimeout(x) ==
  /\ phase[x] = "cacheGet"
  /\ now = due[x]
  /\ CallApi(x)
  /\ reply' = [reply EXCEPT ![x] = Nothing]
  /\ UNCHANGED <<fixed, version, cacheVars, callVars, memo, got, signs>>

-----------------------------------------------------------------------------
\* A sign of life: the connection is made, or a part of an answer arrives.
\* The request library then waits for the next one for as long again.
SignOfLife(x) ==
  /\ phase[x] \in {"token", "apiCall"}
  /\ signs[x] < MaxSigns[Cell(x)]
  /\ due[x] # now + REQUEST_TIMEOUT
  /\ due' = [due EXCEPT ![x] = now + REQUEST_TIMEOUT]
  /\ signs' = [signs EXCEPT ![x] = @ + 1]
  /\ UNCHANGED <<fixed, version, cacheVars, callVars, memo, phase, reply, got, sent>>

\* Others change what an upstream serves.
UpstreamChanges(res) ==
  /\ version[res] < MaxChanges
  /\ version' = [version EXCEPT ![res] = @ + 1]
  /\ UNCHANGED <<fixed, cacheVars, callVars, memo, phase, due, signs, reply, got, sent>>

\* The upstream reads what a GET asks for, some time before it answers.
UpstreamReads(x) ==
  /\ x[2] \notin Mutating
  /\ phase[x] = "apiCall"
  /\ reply[x] = Nothing
  /\ reply' = [reply EXCEPT ![x] = Body(x, version[ResourceOf[x[2]]])]
  /\ UNCHANGED <<fixed, version, cacheVars, callVars, memo, phase, due, signs, got, sent>>

\* The upstream performs a write, also one whose caller gave up on it.
UpstreamWrites(x) ==
  /\ x \in sent
  /\ sent' = sent \ {x}
  /\ LET res == ResourceOf[x[2]]
     IN  /\ version' = [version EXCEPT ![res] = @ + 1]
         /\ reply' = IF phase[x] = "apiCall"
                       THEN [reply EXCEPT ![x] = Body(x, version[res] + 1)]
                       ELSE reply
  /\ UNCHANGED <<fixed, cacheVars, callVars, memo, phase, due, signs, got>>

\* A 2xx answer arrives and memcached is not involved.
ApiOk(x) ==
  /\ phase[x] = "apiCall"
  /\ reply[x] # Nothing
  /\ ~UsesMemcached(x)
  /\ Resolve(x, reply[x])
  /\ UNCHANGED <<fixed, version, cacheVars, callVars, due, signs, sent>>

\* A 2xx answer arrives; the set is issued and not waited for.
ApiOkAndSet(x) ==
  /\ phase[x] = "apiCall"
  /\ reply[x] # Nothing
  /\ UsesMemcached(x)
  /\ Resolve(x, reply[x])
  /\ writes' = writes \cup {x}
  /\ UNCHANGED <<fixed, version, store, callVars, due, signs, sent>>

\* A 2xx answer arrives whose body is null, empty or a primitive: _set throws
\* when it assigns the `cached` timestamp, before it returns a promise.  With
\* headers: true the value is an object and can always be stamped.
SetThrows(x) ==
  /\ phase[x] = "apiCall"
  /\ reply[x] # Nothing
  /\ UsesMemcached(x)
  /\ x[2] \notin Headers
  /\ Reject(x)
  /\ UNCHANGED <<fixed, version, cacheVars, callVars, due, signs, sent>>

\* A network error, a status outside 2xx or a body that does not parse.
ApiFails(x) ==
  /\ phase[x] = "apiCall"
  /\ Reject(x)
  /\ UNCHANGED <<fixed, version, cacheVars, callVars, due, signs, sent>>

\* The timer of a token or upstream request fires: no connection, or silence.
ApiTimeout(x) ==
  /\ phase[x] \in {"token", "apiCall"}
  /\ now = due[x]
  /\ Reject(x)
  /\ UNCHANGED <<fixed, version, cacheVars, callVars, due, signs, sent>>

-----------------------------------------------------------------------------
\* memcached processes a set, however late: nobody waits for it, and that the
\* client gave up on it does not take the command back.
MemcachedStores(x) ==
  /\ x \in writes
  /\ writes' = writes \ {x}
  /\ store' = [store EXCEPT ![CacheKey(x[2])] =
                 [value |-> [got[x] EXCEPT !.stored = now], expires |-> now + Ttl(x[2])]]
  /\ UNCHANGED <<fixed, version, callVars, memo, phase, due, signs, reply, got, sent>>

\* A set never arrives; the rejection is logged and swallowed.
SetLost(x) ==
  /\ x \in writes
  /\ writes' = writes \ {x}
  /\ UNCHANGED <<fixed, version, store, callVars, memo, phase, due, signs, reply, got, sent>>

\* memcached drops an entry: memory pressure, restart.
Evict(k) ==
  /\ store[k] # Nothing
  /\ store' = [store EXCEPT ![k] = Nothing]
  /\ UNCHANGED <<fixed, version, writes, callVars, memo, phase, due, signs, reply, got, sent>>

\* A timer runs for x.
Waiting(x) == phase[x] \in Pending

\* Mutant: the set command is sent without a lifetime.
TickKeepingEntries ==
  /\ now <= Horizon \/ \E x \in LoadIds : Waiting(x)
  /\ \A x \in LoadIds : Waiting(x) => now < due[x]
  /\ now' = now + 1
  /\ UNCHANGED <<isMutation, version, cacheVars, callVars, memo, phase, due, signs, reply, got, sent>>

\* Time passes, never beyond the time at which a running timer fires, and
\* memcached forgets what has expired.
Tick ==
  /\ now <= Horizon \/ \E x \in LoadIds : Waiting(x)
  /\ \A x \in LoadIds : Waiting(x) => now < due[x]
  /\ now' = now + 1
  /\ store' = [k \in CacheKeys |->
                 IF store[k] # Nothing /\ store[k].expires <= now'
                   THEN Nothing ELSE store[k]]
  /\ UNCHANGED <<isMutation, version, writes, callVars, memo, phase, due, signs, reply, got, sent>>

LoadStep(x) ==
  \/ CallMemoised(x) \/ CallLoader(x)
  \/ TokenReady(x) \/ TokenFailed(x)
  \/ MemcachedRead(x) \/ CacheHit(x) \/ CacheMiss(x) \/ CacheTimeout(x)
  \/ UpstreamReads(x) \/ UpstreamWrites(x)
  \/ SignOfLife(x)
  \/ ApiOk(x) \/ ApiOkAndSet(x) \/ SetThrows(x) \/ ApiFails(x) \/ ApiTimeout(x)
  \/ MemcachedStores(x) \/ SetLost(x)

Next ==
  \/ \E x \in LoadIds : LoadStep(x)
  \/ \E k \in CacheKeys : Evict(k)
  \/ \E res \in Resources : UpstreamChanges(res)
  \/ Tick

Spec == Init /\ [][Next]_vars

\* Time passes and the timers of the process fire; no fairness is assumed of
\* memcached, of the upstream services or of the callers.
TimerFires(x) == CacheTimeout(x) \/ ApiTimeout(x)

Fairness == WF_vars(Tick) /\ \A x \in LoadIds : WF_vars(TimerFires(x))

FairSpec == Spec /\ Fairness
-----------------------------------------------------------------------------
(***************************************************************************)
(* Safety                                                                  *)
(***************************************************************************)

\* Whose data may come out of memcached for a loader.
SharedOwners(l) == IF l \in SendsAppToken THEN AppTokens ELSE {Public}

\* Whose data may be given to a load: what it reads itself, or what somebody
\* else put into memcached.
Owners(x) == IF UsesMemcached(x) THEN SharedOwners(x[2]) ELSE {Owner(x)}

IsOf(l, value) == value.of = ResourceOf[l] /\ value.shape = Shape(l)

\* Whatever route a load takes (memo, memcached, API, in any interleaving with
\* the other requests that share memcached), it resolves to the right resource
\* in the right shape.  Data read with a user's token reaches only the request
\* that sent the token, and a load that skips memcached sees only what its own
\* request's tokens read.  (With memcached in between it may be what another
\* application's token read: the key does not name the token.)  cacheKey,
\* reduceData, skipCache, the two loader factories.
ServesOwnData ==
  \A x \in LoadIds : got[x] # Nothing => IsOf(x[2], got[x]) /\ got[x].owner \in Owners(x)

\* A memcached entry was read with no user's token, has the shape its key
\* announces and is of the resource that every caching loader with that key
\* expects.
StoreMatchesKey ==
  \A k \in CacheKeys : store[k] # Nothing =>
    \A l \in Loaders \ (Authenticated \cup Mutating) :
      CacheKey(l) = k =>
        IsOf(l, store[k].value) /\ store[k].value.owner \in SharedOwners(l)

\* Two calls of a GET loader in one request never see two different answers,
\* however they interleave with failures and retries (DataLoader's memo, which
\* a failed load leaves).
RepeatableReads ==
  \A x, y \in LoadIds :
    /\ Memoised(x)
    /\ Cell(x) = Cell(y)
    /\ phase[x] = "resolved"
    /\ phase[y] = "resolved"
    => x = y

\* What a gravity load of a mutation request returns was read upstream after
\* the load started: no write of the request that preceded the load is hidden
\* from it by memcached (skipCache).
MutationLoadsAreFresh ==
  \A x \in LoadIds :
    /\ isMutation[x[1]]
    /\ x[2] \in HonoursMutation
    /\ phase[x] = "resolved"
    => got[x].version >= asked[x].version

\* How long a call of loader l can take if the upstreams show n signs of life.
Patience(l, n) ==
  IF l \in Authenticated THEN (n + 2) * REQUEST_TIMEOUT
  ELSE CACHE_RETRIEVAL_TIMEOUT + (n + 1) * REQUEST_TIMEOUT

\* Silence is not waited for: beyond the retrieval timeout (or the token's
\* timeout), each REQUEST_TIMEOUT that a load is still unsettled was paid for by
\* a sign of life of the service it waits for.  There is no bound on the whole,
\* since the timer measures silence and not the call (fetch.ts:79 with the
\* request library), but no chain of a token, a hanging memcached and an API
\* call adds to it.
SilenceIsBounded ==
  \A x \in LoadIds :
    phase[x] \in Pending => now <= asked[x].at + Patience(x[2], signs[x])

\* What comes out of memcached was put there no longer ago than the longest
\* lifetime of its key and the retrieval timeout, whatever order fetches, sets,
\* evictions and reads of concurrent requests happen in, also where a late set
\* brought an older answer back over a newer one.
EntriesExpire ==
  [][\A x \in LoadIds :
       phase[x] = "cacheGet" /\ phase'[x] = "resolved" =>
         now - got'[x].stored <= Lifetime[x[2]] + CACHE_RETRIEVAL_TIMEOUT]_vars

\* A promise settles once: no late answer of memcached, of the upstream or of
\* a timer changes what callers were given.
SettlesOnce ==
  [][\A x \in LoadIds :
       phase[x] \in {"resolved", "rejected"} =>
         phase'[x] = phase[x] /\ got'[x] = got[x]]_vars

(***************************************************************************)
(* Refinement                                                              *)
(***************************************************************************)

StateOf(x) ==
  CASE phase[x] = "idle" -> "unasked"
    [] phase[x] \in Pending -> "waiting"
    [] phase[x] = "resolved" -> "answered"
    [] phase[x] = "rejected" -> "failed"

AskedOf(x) == IF phase[x] = "idle" THEN 0 ELSE asked[x].version

Kind(x, owner) == [of |-> ResourceOf[x[2]], shape |-> Shape(x[2]), owner |-> owner]

AnswerOf(x) ==
  IF got[x] = Nothing THEN Nothing
  ELSE [kind |-> [of |-> got[x].of, shape |-> got[x].shape, owner |-> got[x].owner],
        version |-> got[x].version]

Promised == INSTANCE LoaderContract WITH
  Loads    <- LoadIds,
  Source   <- [x \in LoadIds |-> ResourceOf[x[2]]],
  Own      <- [x \in LoadIds |-> {Kind(x, Owner(x))}],
  Shared   <- [x \in LoadIds |-> {Kind(x, o) : o \in SharedOwners(x[2])}],
  NoAnswer <- Nothing,
  fresh    <- [x \in LoadIds |-> ~UsesMemcached(x)],
  state    <- [x \in LoadIds |-> StateOf(x)],
  asked    <- [x \in LoadIds |-> AskedOf(x)],
  answer   <- [x \in LoadIds |-> AnswerOf(x)]

\* Memo, memcached, timers and HTTP together keep the loaders' promise: each
\* load answers or fails once, with data of its own kind that its source did
\* serve, and no older than the call where memcached is skipped (every handler
\* of the loader factories and of lib/cache.ts).
ImplementsContract == Promised!Spec

(***************************************************************************)
(* Liveness                                                                *)
(***************************************************************************)

\* Every promise a loader hands out settles: neither memcached nor an upstream
\* has to answer, the timers of the process do.  The one thing asked of an
\* upstream is that it does not trickle for ever (MaxSigns bounds its signs of
\* life), for each part of an answer restarts the timer.
EveryLoadSettles ==
  \A x \in LoadIds : phase[x] \in Pending ~> phase[x] \in {"resolved", "rejected"}
=============================================================================
