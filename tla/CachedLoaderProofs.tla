------------------------- MODULE CachedLoaderProofs -------------------------
(***************************************************************************)
(* Proofs about CachedLoader for every number of requests, every set of    *)
(* loaders and every value of the timeouts.                                *)
(***************************************************************************)
EXTENDS CachedLoader, TLAPS

Caching == Loaders \ (Authenticated \cup Mutating)

\* Which of a load's fields are in use in which phase.
PhaseInv ==
  \A x \in LoadIds :
    /\ got[x] # Nothing <=> phase[x] = "resolved"
    /\ reply[x] # Nothing => phase[x] \in {"cacheGet", "apiCall"}
    /\ x \in writes => phase[x] = "resolved" /\ UsesMemcached(x)
    /\ phase[x] = "cacheGet" => UsesMemcached(x)
    /\ phase[x] = "token" => x[2] \in Authenticated
    /\ promise[x] = 0 => phase[x] = "idle"

\* A GET load that runs or has resolved is the one its memo cell names.
MemoInv ==
  \A x \in LoadIds :
    Memoised(x) /\ phase[x] \in Pending \cup {"resolved"} => memo[Cell(x)] = x[3]

\* Data on its way to a load, given to it, or held by memcached.
Fits(x, value) == IsOf(x[2], value) /\ value.owner \in Owners(x)

DataInv ==
  /\ \A x \in LoadIds :
       /\ reply[x] # Nothing => Fits(x, reply[x])
       /\ got[x] # Nothing => Fits(x, got[x])
  /\ StoreMatchesKey

\* Versions grow, so that nothing is newer than its source, and an answer read
\* upstream for a load is no older than the source was when it was asked for.
VersionInv ==
  /\ \A x \in LoadIds :
       /\ asked[x].version <= version[ResourceOf[x[2]]]
       /\ reply[x] # Nothing => reply[x].version <= version[ResourceOf[x[2]]]
       /\ got[x] # Nothing => got[x].version <= version[ResourceOf[x[2]]]
       /\ phase[x] = "apiCall" /\ reply[x] # Nothing =>
            reply[x].version >= asked[x].version
       /\ got[x] # Nothing /\ ~UsesMemcached(x) =>
            got[x].version >= asked[x].version
  /\ \A k \in CacheKeys : store[k] # Nothing =>
       \A l \in Caching : CacheKey(l) = k =>
         store[k].value.version <= version[ResourceOf[l]]

\* How the timers relate the clock, the calls, the signs of life and the time
\* memcached stored what it holds.
TimeInv ==
  /\ \A x \in LoadIds :
       /\ phase[x] \in Pending => now <= due[x]
       /\ asked[x].at <= now
       /\ phase[x] = "cacheGet" => due[x] <= asked[x].at + CACHE_RETRIEVAL_TIMEOUT
       /\ phase[x] = "token" =>
            due[x] + REQUEST_TIMEOUT <= asked[x].at + Patience(x[2], signs[x])
       /\ phase[x] = "apiCall" => due[x] <= asked[x].at + Patience(x[2], signs[x])
       /\ reply[x] # Nothing /\ phase[x] = "cacheGet" =>
            due[x] <= reply[x].stored + Lifetime[x[2]] + CACHE_RETRIEVAL_TIMEOUT
  /\ \A k \in CacheKeys : store[k] # Nothing =>
       /\ now < store[k].expires
       /\ \A l \in Caching : CacheKey(l) = k =>
            store[k].expires <= store[k].value.stored + Lifetime[l]

IInv == TypeOK /\ PhaseInv /\ MemoInv /\ DataInv /\ VersionInv /\ TimeInv
-----------------------------------------------------------------------------
\* Facts about the constants, in the form the provers use them.
LEMMA Constants ==
  /\ \A l \in Loaders : CacheKey(l) \in CacheKeys /\ Ttl(l) \in Nat /\ Ttl(l) > 0
  /\ CACHE_LIFETIME \in Nat /\ CACHE_LIFETIME > 0
  /\ CACHE_RETRIEVAL_TIMEOUT \in Nat /\ CACHE_RETRIEVAL_TIMEOUT > 0
  /\ REQUEST_TIMEOUT \in Nat /\ REQUEST_TIMEOUT > 0
  /\ MaxCalls \in Nat
<1>1. /\ CACHE_LIFETIME \in Nat \ {0} /\ CACHE_RETRIEVAL_TIMEOUT \in Nat \ {0}
      /\ REQUEST_TIMEOUT \in Nat \ {0} /\ MaxCalls \in Nat
  BY BoundAssumption DEF Deadlines
<1>2. ASSUME NEW l \in Loaders PROVE CacheKey(l) \in CacheKeys
  BY LoaderAssumption DEF CacheKey, CacheKeys, Shape, Shapes
<1>3. ASSUME NEW l \in Loaders PROVE Ttl(l) \in Nat /\ Ttl(l) > 0
  BY <1>1, BoundAssumption DEF Ttl
<1>4. QED
  BY <1>1, <1>2, <1>3

\* The parts of a load's name.
LEMMA CellType == \A x \in LoadIds :
  /\ x[1] \in Requests /\ x[2] \in Loaders /\ x[3] \in 1..MaxCalls
  /\ Cell(x) \in Requests \X Loaders
<1> SUFFICES ASSUME NEW x \in LoadIds
             PROVE  /\ x[1] \in Requests /\ x[2] \in Loaders /\ x[3] \in 1..MaxCalls
                    /\ Cell(x) \in Requests \X Loaders
  OBVIOUS
<1>1. x[1] \in Requests /\ x[2] \in Loaders /\ x[3] \in 1..MaxCalls
  BY DEF LoadIds
<1>2. QED
  BY <1>1 DEF Cell

\* The sum of the timers, without multiplication.
LEMMA PatienceSum ==
  ASSUME NEW l \in Loaders, NEW n \in Nat
  PROVE  /\ Patience(l, n) \in Nat
         /\ Patience(l, n + 1) = Patience(l, n) + REQUEST_TIMEOUT
         /\ l \in Authenticated => Patience(l, n) >= 2 * REQUEST_TIMEOUT
         /\ l \notin Authenticated => Patience(l, n) >= CACHE_RETRIEVAL_TIMEOUT + REQUEST_TIMEOUT
<1> DEFINE silence == n * REQUEST_TIMEOUT
<1>1. /\ silence \in Nat
      /\ (n + 1) * REQUEST_TIMEOUT = silence + REQUEST_TIMEOUT
      /\ (n + 2) * REQUEST_TIMEOUT = silence + 2 * REQUEST_TIMEOUT
      /\ (n + 3) * REQUEST_TIMEOUT = silence + 3 * REQUEST_TIMEOUT
  BY Constants
<1>2. (n + 1) + 2 = n + 3 /\ (n + 1) + 1 = n + 2
  OBVIOUS
<1> HIDE DEF silence
<1>3. QED
  BY <1>1, <1>2, Constants DEF Patience

\* What a load reads itself, it may be given.
LEMMA OwnerFits ==
  ASSUME NEW x \in LoadIds
  PROVE  Owner(x) \in Owners(x) /\ Owner(x) \in Requests \cup AppTokens \cup {Public}
<1> USE CellType, LoaderAssumption DEF Owner, Owners, SharedOwners, UsesMemcached
<1>1. CASE x[2] \in Authenticated
  BY <1>1
<1>2. CASE x[2] \in SendsAppToken
  <2>1. x[2] \notin Authenticated /\ AppToken[x[1]] \in AppTokens
    BY <1>2
  <2>2. QED
    BY <1>2, <2>1
<1>3. CASE x[2] \notin Authenticated /\ x[2] \notin SendsAppToken
  BY <1>3
<1>4. QED
  BY <1>1, <1>2, <1>3

\* A load is known by its cell and its number.
LEMMA SameLoad ==
  ASSUME NEW x \in LoadIds, NEW y \in LoadIds, Cell(x) = Cell(y), x[3] = y[3]
  PROVE  x = y
  BY DEF LoadIds, Cell

\* Starting a timer leaves phases and deadlines well typed.
LEMMA EnterType ==
  ASSUME TypeOK, NEW x \in LoadIds, NEW p \in Phases, NEW wait \in Nat, Enter(x, p, wait)
  PROVE  phase' \in [LoadIds -> Phases] /\ due' \in [LoadIds -> Nat]
  BY DEF TypeOK, Enter

LEMMA CallApiType ==
  ASSUME TypeOK, NEW x \in LoadIds, CallApi(x)
  PROVE  /\ phase' \in [LoadIds -> Phases]
         /\ due' \in [LoadIds -> Nat]
         /\ sent' \subseteq LoadIds
<1>1. Enter(x, "apiCall", REQUEST_TIMEOUT) /\ sent' \subseteq LoadIds
  BY DEF CallApi, TypeOK
<1>2. QED
  BY <1>1, EnterType, Constants DEF Phases, Pending

\* The initial states satisfy the invariant.
LEMMA InitIInv == Init => IInv
<1> SUFFICES ASSUME Init PROVE IInv
  OBVIOUS
<1> USE CellType, Constants, LoaderAssumption DEF Init
<1>1. TypeOK
  BY DEF TypeOK, Phases
<1>2. PhaseInv
  BY DEF PhaseInv
<1>3. MemoInv
  BY DEF MemoInv, Pending
<1>4. DataInv
  BY DEF DataInv, StoreMatchesKey
<1>5. VersionInv
  BY DEF VersionInv
<1>6. TimeInv
  BY DEF TimeInv, Pending
<1>7. QED
  BY <1>1, <1>2, <1>3, <1>4, <1>5, <1>6 DEF IInv

-----------------------------------------------------------------------------
(***************************************************************************)
(* Several actions have the same effect.  The step lemmas below take the   *)
(* effects one by one instead of the actions.                              *)
(***************************************************************************)

\* A token has arrived, or memcached did not deliver: the API is called.
Falls(x) ==
  /\ phase[x] \in {"token", "cacheGet"}
  /\ CallApi(x)
  /\ reply' = [reply EXCEPT ![x] = Nothing]
  /\ UNCHANGED <<fixed, version, cacheVars, callVars, memo, signs, got>>

\* An answer is given to the callers.
Delivers(x) ==
  /\ \/ phase[x] = "cacheGet"
     \/ phase[x] = "apiCall" /\ ~UsesMemcached(x)
  /\ reply[x] # Nothing
  /\ Resolve(x, reply[x])
  /\ UNCHANGED <<fixed, version, cacheVars, callVars, due, signs, sent>>

\* The callers are given an error.
Gives(x) ==
  /\ phase[x] \in {"token", "apiCall"}
  /\ Reject(x)
  /\ UNCHANGED <<fixed, version, cacheVars, callVars, due, signs, sent>>

\* memcached changes its contents or a set is dropped.
Forgets ==
  /\ writes' \subseteq writes
  /\ \A k \in CacheKeys : store'[k] \in {store[k], Nothing}
  /\ UNCHANGED <<fixed, version, callVars, memo, phase, due, signs, reply, got, sent>>

\* Every step has one of these effects.
LEMMA Effects ==
  ASSUME TypeOK, PhaseInv, [Next]_vars
  PROVE  \/ \E x \in LoadIds : CallMemoised(x) \/ CallLoader(x) \/ Falls(x)
                                \/ MemcachedRead(x) \/ Delivers(x) \/ UpstreamReads(x)
                                \/ UpstreamWrites(x) \/ ApiOkAndSet(x) \/ Gives(x)
                                \/ MemcachedStores(x) \/ SignOfLife(x)
         \/ \E res \in Resources : UpstreamChanges(res)
         \/ TypeOK' /\ Forgets
         \/ Tick
<1>1. ASSUME NEW x \in LoadIds, TokenReady(x) PROVE Falls(x)
  <2>1. reply[x] = Nothing
    BY <1>1 DEF TokenReady, PhaseInv
  <2>2. reply = [reply EXCEPT ![x] = Nothing]
    BY <2>1 DEF TypeOK
  <2>3. QED
    BY <1>1, <2>2 DEF TokenReady, Falls
<1>2. ASSUME NEW x \in LoadIds, CacheMiss(x) \/ CacheTimeout(x) PROVE Falls(x)
  BY <1>2 DEF CacheMiss, CacheTimeout, Falls
<1>3. ASSUME NEW x \in LoadIds, CacheHit(x) \/ ApiOk(x) PROVE Delivers(x)
  BY <1>3 DEF CacheHit, ApiOk, Delivers
<1>4. ASSUME NEW x \in LoadIds,
             TokenFailed(x) \/ SetThrows(x) \/ ApiFails(x) \/ ApiTimeout(x)
      PROVE  Gives(x)
  BY <1>4 DEF TokenFailed, SetThrows, ApiFails, ApiTimeout, Gives
<1>5. ASSUME NEW x \in LoadIds, SetLost(x) PROVE TypeOK' /\ Forgets
  <2>1. Forgets
    BY <1>5 DEF SetLost, Forgets, cacheVars
  <2>2. TypeOK'
    BY <1>5 DEF SetLost, TypeOK, fixed, callVars
  <2>3. QED
    BY <2>1, <2>2
<1>6. ASSUME NEW k \in CacheKeys, Evict(k) PROVE TypeOK' /\ Forgets
  <2>1. Forgets
    BY <1>6 DEF Evict, Forgets, TypeOK
  <2>2. TypeOK'
    BY <1>6 DEF Evict, TypeOK, fixed, callVars
  <2>3. QED
    BY <2>1, <2>2
<1>7. CASE UNCHANGED vars
  <2>1. Forgets
    BY <1>7 DEF vars, Forgets, fixed, callVars
  <2>2. TypeOK'
    BY <1>7 DEF vars, TypeOK
  <2>3. QED
    BY <2>1, <2>2
<1>8. QED
  BY <1>1, <1>2, <1>3, <1>4, <1>5, <1>6, <1>7 DEF Next, LoadStep

-----------------------------------------------------------------------------
\* Every step keeps the variables well typed.  A set that memcached processes
\* stores what its load resolved to, hence PhaseInv.
LEMMA TypeStep == TypeOK /\ PhaseInv /\ [Next]_vars => TypeOK'
<1> SUFFICES ASSUME TypeOK, PhaseInv, [Next]_vars PROVE TypeOK'
  OBVIOUS
<1> USE CellType, Constants, LoaderAssumption, NothingAssumption
    DEF TypeOK, fixed, cacheVars, callVars, Phases, Pending
<1>1. ASSUME NEW x \in LoadIds, CallMemoised(x) PROVE TypeOK'
  <2>1. memo[Cell(x)] \in 0..MaxCalls /\ version[ResourceOf[x[2]]] \in Nat
    OBVIOUS
  <2>2. QED
    BY <2>1, <1>1 DEF CallMemoised, Ask
<1>2. ASSUME NEW x \in LoadIds, CallLoader(x) PROVE TypeOK'
  <2>1. /\ promise' \in [LoadIds -> 0..MaxCalls]
        /\ asked' \in [LoadIds -> [at : Nat, version : Nat]]
    BY <1>2 DEF CallLoader, Ask
  <2>2. memo' \in [Requests \X Loaders -> 0..MaxCalls]
    BY <1>2 DEF CallLoader
  <2>3. phase' \in [LoadIds -> Phases] /\ due' \in [LoadIds -> Nat] /\ sent' \subseteq LoadIds
    <3>1. CASE Enter(x, "token", REQUEST_TIMEOUT) /\ UNCHANGED sent
      BY <3>1 DEF Enter
    <3>2. CASE Enter(x, "cacheGet", CACHE_RETRIEVAL_TIMEOUT) /\ UNCHANGED sent
      BY <3>2 DEF Enter
    <3>3. CASE CallApi(x)
      BY <3>3, CallApiType
    <3>4. QED
      BY <3>1, <3>2, <3>3, <1>2 DEF CallLoader
  <2>4. QED
    BY <2>1, <2>2, <2>3, <1>2 DEF CallLoader
<1>3. ASSUME NEW x \in LoadIds, Falls(x) PROVE TypeOK'
  BY <1>3, CallApiType DEF Falls
<1>4. ASSUME NEW x \in LoadIds, MemcachedRead(x) PROVE TypeOK'
  BY <1>4 DEF MemcachedRead
<1>5. ASSUME NEW x \in LoadIds, Delivers(x) PROVE TypeOK'
  BY <1>5 DEF Delivers, Resolve
<1>6. ASSUME NEW x \in LoadIds, UpstreamReads(x) PROVE TypeOK'
  BY <1>6, OwnerFits DEF UpstreamReads, Body, Values, Shape, Shapes
<1>7. ASSUME NEW x \in LoadIds, UpstreamWrites(x) PROVE TypeOK'
  BY <1>7, OwnerFits DEF UpstreamWrites, Body, Values, Shape, Shapes
<1>8. ASSUME NEW x \in LoadIds, ApiOkAndSet(x) PROVE TypeOK'
  BY <1>8 DEF ApiOkAndSet, Resolve
<1>9. ASSUME NEW x \in LoadIds, Gives(x) PROVE TypeOK'
  BY <1>9 DEF Gives, Reject
<1>10. ASSUME NEW x \in LoadIds, MemcachedStores(x) PROVE TypeOK'
  <2>1. got[x] \in Values
    BY <1>10 DEF MemcachedStores, PhaseInv
  <2>2. [got[x] EXCEPT !.stored = now] \in Values
    BY <2>1 DEF Values
  <2>3. [value |-> [got[x] EXCEPT !.stored = now], expires |-> now + Ttl(x[2])]
          \in [value : Values, expires : Nat]
    BY <2>2
  <2>4. QED
    BY <2>3, <1>10 DEF MemcachedStores
<1>11. CASE Tick
  BY <1>11 DEF Tick
<1>12. ASSUME NEW x \in LoadIds, SignOfLife(x) PROVE TypeOK'
  BY <1>12 DEF SignOfLife
<1>13. ASSUME NEW res \in Resources, UpstreamChanges(res) PROVE TypeOK'
  BY <1>13 DEF UpstreamChanges
<1>14. QED
  BY <1>1, <1>2, <1>3, <1>4, <1>5, <1>6, <1>7, <1>8, <1>9, <1>10, <1>11, <1>12, <1>13, Effects

\* The fields of a load are used as its phase says.
LEMMA PhaseStep ==
  ASSUME TypeOK, IInv, TypeOK', [Next]_vars
  PROVE  PhaseInv'
<1> USE CellType, NothingAssumption
    DEF IInv, TypeOK, PhaseInv, fixed, cacheVars, callVars, Pending, UsesMemcached, SkipCache
<1>1. ASSUME NEW x \in LoadIds, CallMemoised(x) PROVE PhaseInv'
  BY <1>1 DEF CallMemoised, Ask
<1>2. ASSUME NEW x \in LoadIds, CallLoader(x) PROVE PhaseInv'
  BY <1>2 DEF CallLoader, Ask, CanCall, Enter, CallApi
<1>3. ASSUME NEW x \in LoadIds, Falls(x) PROVE PhaseInv'
  BY <1>3 DEF Falls, CallApi, Enter
<1>4. ASSUME NEW x \in LoadIds, MemcachedRead(x) PROVE PhaseInv'
  BY <1>4 DEF MemcachedRead
<1>5. ASSUME NEW x \in LoadIds, Delivers(x) PROVE PhaseInv'
  BY <1>5 DEF Delivers, Resolve
<1>6. ASSUME NEW x \in LoadIds, UpstreamReads(x) PROVE PhaseInv'
  BY <1>6 DEF UpstreamReads, Body, Values
<1>7. ASSUME NEW x \in LoadIds, UpstreamWrites(x) PROVE PhaseInv'
  BY <1>7 DEF UpstreamWrites, Body, Values
<1>8. ASSUME NEW x \in LoadIds, ApiOkAndSet(x) PROVE PhaseInv'
  BY <1>8 DEF ApiOkAndSet, Resolve
<1>9. ASSUME NEW x \in LoadIds, Gives(x) PROVE PhaseInv'
  BY <1>9 DEF Gives, Reject
<1>10. ASSUME NEW x \in LoadIds, MemcachedStores(x) PROVE PhaseInv'
  BY <1>10 DEF MemcachedStores
<1>11. CASE Forgets
  BY <1>11 DEF Forgets
<1>12. CASE Tick
  BY <1>12 DEF Tick
<1>13. ASSUME NEW x \in LoadIds, SignOfLife(x) PROVE PhaseInv'
  BY <1>13 DEF SignOfLife
<1>14. ASSUME NEW res \in Resources, UpstreamChanges(res) PROVE PhaseInv'
  BY <1>14 DEF UpstreamChanges
<1>15. QED
  BY <1>1, <1>2, <1>3, <1>4, <1>5, <1>6, <1>7, <1>8, <1>9, <1>10, <1>11, <1>12, <1>13, <1>14, Effects

\* The memo names the load of a cell that runs or has resolved.
LEMMA MemoStep ==
  ASSUME TypeOK, IInv, TypeOK', [Next]_vars
  PROVE  MemoInv'
<1> USE CellType
    DEF IInv, TypeOK, PhaseInv, MemoInv, fixed, cacheVars, callVars, Pending, Memoised, Cell
<1>1. ASSUME NEW x \in LoadIds, CallMemoised(x) PROVE MemoInv'
  BY <1>1 DEF CallMemoised, Ask
<1>2. ASSUME NEW x \in LoadIds, CallLoader(x) PROVE MemoInv'
  BY <1>2 DEF CallLoader, Ask, CanCall, Enter, CallApi
<1>3. ASSUME NEW x \in LoadIds, Falls(x) PROVE MemoInv'
  BY <1>3 DEF Falls, CallApi, Enter
<1>4. ASSUME NEW x \in LoadIds, MemcachedRead(x) PROVE MemoInv'
  BY <1>4 DEF MemcachedRead
<1>5. ASSUME NEW x \in LoadIds, Delivers(x) PROVE MemoInv'
  BY <1>5 DEF Delivers, Resolve
<1>6. ASSUME NEW x \in LoadIds, UpstreamReads(x) PROVE MemoInv'
  BY <1>6 DEF UpstreamReads
<1>7. ASSUME NEW x \in LoadIds, UpstreamWrites(x) PROVE MemoInv'
  BY <1>7 DEF UpstreamWrites
<1>8. ASSUME NEW x \in LoadIds, ApiOkAndSet(x) PROVE MemoInv'
  BY <1>8 DEF ApiOkAndSet, Resolve
<1>9. ASSUME NEW x \in LoadIds, Gives(x) PROVE MemoInv'
  <2> SUFFICES ASSUME NEW y \in LoadIds, Memoised(y), phase'[y] \in Pending \cup {"resolved"}
               PROVE  memo'[Cell(y)] = y[3]
    BY DEF MemoInv
  <2>1. y # x /\ phase[y] = phase'[y]
    BY <1>9 DEF Gives, Reject
  <2>2. memo[Cell(y)] = y[3]
    BY <2>1
  <2>3. Cell(y) # Cell(x)
    <3>1. SUFFICES ASSUME Cell(y) = Cell(x) PROVE FALSE
      OBVIOUS
    <3>2. Memoised(x) /\ phase[x] \in Pending
      BY <3>1, <1>9 DEF Gives
    <3>3. memo[Cell(x)] = x[3]
      BY <3>2
    <3>4. QED
      BY <3>1, <3>3, <2>1, <2>2, SameLoad
  <2>4. QED
    BY <2>2, <2>3, <1>9 DEF Gives, Reject
<1>10. ASSUME NEW x \in LoadIds, MemcachedStores(x) PROVE MemoInv'
  BY <1>10 DEF MemcachedStores
<1>11. CASE Forgets
  BY <1>11 DEF Forgets
<1>12. CASE Tick
  BY <1>12 DEF Tick
<1>13. ASSUME NEW x \in LoadIds, SignOfLife(x) PROVE MemoInv'
  BY <1>13 DEF SignOfLife
<1>14. ASSUME NEW res \in Resources, UpstreamChanges(res) PROVE MemoInv'
  BY <1>14 DEF UpstreamChanges
<1>15. QED
  BY <1>1, <1>2, <1>3, <1>4, <1>5, <1>6, <1>7, <1>8, <1>9, <1>10, <1>11, <1>12, <1>13, <1>14, Effects

\* Data stays with the resource, the shape and the owner it was read for.
LEMMA DataStep ==
  ASSUME TypeOK, IInv, TypeOK', [Next]_vars
  PROVE  DataInv'
<1> USE CellType, NothingAssumption, Constants
    DEF IInv, TypeOK, PhaseInv, DataInv, StoreMatchesKey, fixed, cacheVars, callVars
<1>a. isMutation' = isMutation => \A x \in LoadIds, v \in Values : Fits(x, v)' <=> Fits(x, v)
  BY DEF Fits, IsOf, Owners, Owner, UsesMemcached, SkipCache
<1>b. ASSUME NEW x \in LoadIds, NEW n \in Nat PROVE Fits(x, Body(x, n))
  BY OwnerFits DEF Fits, IsOf, Body
<1>1. ASSUME NEW x \in LoadIds, CallMemoised(x) PROVE DataInv'
  BY <1>1, <1>a DEF CallMemoised, Ask
<1>2. ASSUME NEW x \in LoadIds, CallLoader(x) PROVE DataInv'
  BY <1>2, <1>a DEF CallLoader, Ask, CanCall, Enter, CallApi
<1>3. ASSUME NEW x \in LoadIds, Falls(x) PROVE DataInv'
  BY <1>3, <1>a DEF Falls, CallApi, Enter
<1>4. ASSUME NEW x \in LoadIds, MemcachedRead(x) PROVE DataInv'
  <2> DEFINE value == store[CacheKey(x[2])].value
  <2>1. /\ UsesMemcached(x)
        /\ x[2] \in Loaders \ (Authenticated \cup Mutating)
        /\ store[CacheKey(x[2])] # Nothing
    BY <1>4 DEF MemcachedRead, UsesMemcached, SkipCache
  <2>2. IsOf(x[2], value) /\ value.owner \in SharedOwners(x[2]) /\ value \in Values
    BY <2>1
  <2>3. Fits(x, value)
    BY <2>1, <2>2 DEF Fits, Owners
  <2>4. QED
    BY <1>4, <1>a, <2>2, <2>3 DEF MemcachedRead
<1>5. ASSUME NEW x \in LoadIds, Delivers(x) PROVE DataInv'
  BY <1>5, <1>a DEF Delivers, Resolve
<1>6. ASSUME NEW x \in LoadIds, UpstreamReads(x) PROVE DataInv'
  BY <1>6, <1>a, <1>b, LoaderAssumption DEF UpstreamReads
<1>7. ASSUME NEW x \in LoadIds, UpstreamWrites(x) PROVE DataInv'
  BY <1>7, <1>a, <1>b, LoaderAssumption DEF UpstreamWrites
<1>8. ASSUME NEW x \in LoadIds, ApiOkAndSet(x) PROVE DataInv'
  BY <1>8, <1>a DEF ApiOkAndSet, Resolve
<1>9. ASSUME NEW x \in LoadIds, Gives(x) PROVE DataInv'
  BY <1>9, <1>a DEF Gives, Reject
<1>10. ASSUME NEW x \in LoadIds, MemcachedStores(x) PROVE DataInv'
  <2> DEFINE value == [got[x] EXCEPT !.stored = now]
  <2>1. /\ UsesMemcached(x) /\ x[2] \in Caching
        /\ got[x] \in Values /\ Fits(x, got[x])
    BY <1>10 DEF MemcachedStores, UsesMemcached, SkipCache, Caching
  <2>2. /\ value.of = got[x].of /\ value.shape = got[x].shape
        /\ value.owner = got[x].owner
    BY <2>1 DEF Values
  <2>3. ASSUME NEW l \in Caching, CacheKey(l) = CacheKey(x[2])
        PROVE  IsOf(l, value) /\ value.owner \in SharedOwners(l)
    <3>1. ResourceOf[l] = ResourceOf[x[2]] /\ (l \in SendsAppToken <=> x[2] \in SendsAppToken)
      BY <2>1, <2>3, KeyAssumption DEF Caching
    <3>2. Shape(l) = Shape(x[2])
      BY <2>3 DEF CacheKey
    <3>3. QED
      BY <2>1, <2>2, <3>1, <3>2 DEF Fits, IsOf, Owners, SharedOwners
  <2> HIDE DEF value
  <2>4. StoreMatchesKey'
    BY <1>10, <2>3 DEF MemcachedStores, Caching, value
  <2>5. QED
    BY <1>10, <1>a, <2>4 DEF MemcachedStores
<1>11. CASE Forgets
  BY <1>11, <1>a DEF Forgets
<1>12. CASE Tick
  BY <1>12, <1>a DEF Tick
<1>13. ASSUME NEW x \in LoadIds, SignOfLife(x) PROVE DataInv'
  BY <1>13, <1>a DEF SignOfLife
<1>14. ASSUME NEW res \in Resources, UpstreamChanges(res) PROVE DataInv'
  BY <1>14, <1>a DEF UpstreamChanges
<1>15. QED
  BY <1>1, <1>2, <1>3, <1>4, <1>5, <1>6, <1>7, <1>8, <1>9, <1>10, <1>11, <1>12, <1>13, <1>14, Effects

\* Versions only grow.
LEMMA VersionStep ==
  ASSUME TypeOK, IInv, TypeOK', [Next]_vars
  PROVE  VersionInv'
<1> USE CellType, LoaderAssumption, NothingAssumption
    DEF IInv, TypeOK, PhaseInv, VersionInv, fixed, cacheVars, callVars, Values, UsesMemcached, SkipCache
<1>1. ASSUME NEW x \in LoadIds, CallMemoised(x) PROVE VersionInv'
  BY <1>1 DEF CallMemoised, Ask, CanCall
<1>2. ASSUME NEW x \in LoadIds, CallLoader(x) PROVE VersionInv'
  BY <1>2 DEF CallLoader, Ask, CanCall, Enter, CallApi
<1>3. ASSUME NEW x \in LoadIds, Falls(x) PROVE VersionInv'
  BY <1>3 DEF Falls, CallApi, Enter
<1>4. ASSUME NEW x \in LoadIds, MemcachedRead(x) PROVE VersionInv'
  <2> DEFINE value == store[CacheKey(x[2])].value
  <2>1. x[2] \in Caching /\ store[CacheKey(x[2])] # Nothing /\ phase[x] = "cacheGet"
    BY <1>4 DEF MemcachedRead, Caching
  <2>2. value \in Values /\ value.version <= version[ResourceOf[x[2]]]
    BY <2>1, Constants
  <2>3. QED
    BY <1>4, <2>1, <2>2, SMTT(30) DEF MemcachedRead
<1>5. ASSUME NEW x \in LoadIds, Delivers(x) PROVE VersionInv'
  BY <1>5 DEF Delivers, Resolve
<1>6. ASSUME NEW x \in LoadIds, UpstreamReads(x) PROVE VersionInv'
  BY <1>6 DEF UpstreamReads, Body
<1>7. ASSUME NEW x \in LoadIds, UpstreamWrites(x) PROVE VersionInv'
  BY <1>7 DEF UpstreamWrites, Body
<1>8. ASSUME NEW x \in LoadIds, ApiOkAndSet(x) PROVE VersionInv'
  BY <1>8 DEF ApiOkAndSet, Resolve
<1>9. ASSUME NEW x \in LoadIds, Gives(x) PROVE VersionInv'
  BY <1>9 DEF Gives, Reject
<1>10. ASSUME NEW x \in LoadIds, MemcachedStores(x) PROVE VersionInv'
  <2> DEFINE value == [got[x] EXCEPT !.stored = now]
  <2>1. /\ x[2] \in Caching /\ got[x] \in Values /\ got[x] # Nothing
        /\ value.version = got[x].version
    BY <1>10 DEF MemcachedStores, Caching
  <2>2. ASSUME NEW l \in Caching, CacheKey(l) = CacheKey(x[2])
        PROVE  value.version <= version[ResourceOf[l]]
    BY <2>1, <2>2, KeyAssumption DEF Caching
  <2> HIDE DEF value
  <2>3. QED
    BY <1>10, <2>2 DEF MemcachedStores, Caching, value
<1>11. CASE Forgets
  BY <1>11 DEF Forgets
<1>12. CASE Tick
  BY <1>12 DEF Tick
<1>13. ASSUME NEW x \in LoadIds, SignOfLife(x) PROVE VersionInv'
  BY <1>13 DEF SignOfLife
<1>14. ASSUME NEW res \in Resources, UpstreamChanges(res) PROVE VersionInv'
  BY <1>14 DEF UpstreamChanges
<1>15. QED
  BY <1>1, <1>2, <1>3, <1>4, <1>5, <1>6, <1>7, <1>8, <1>9, <1>10, <1>11, <1>12, <1>13, <1>14, Effects

\* Timers bound silences, and the lifetime what memcached serves.
LEMMA TimeStep ==
  ASSUME TypeOK, IInv, TypeOK', [Next]_vars
  PROVE  TimeInv'
<1> USE CellType, Constants, LifetimeAssumption, NothingAssumption
    DEF IInv, TypeOK, PhaseInv, TimeInv, fixed, cacheVars, callVars, Values, Pending, UsesMemcached, SkipCache
<1>a. ASSUME NEW x \in LoadIds
      PROVE  /\ Patience(x[2], signs[x]) \in Nat
             /\ Patience(x[2], signs[x] + 1) = Patience(x[2], signs[x]) + REQUEST_TIMEOUT
             /\ x[2] \in Authenticated => Patience(x[2], signs[x]) >= 2 * REQUEST_TIMEOUT
             /\ x[2] \notin Authenticated =>
                  Patience(x[2], signs[x]) >= CACHE_RETRIEVAL_TIMEOUT + REQUEST_TIMEOUT
  BY ONLY TypeOK, CellType, PatienceSum DEF TypeOK
<1>1. ASSUME NEW x \in LoadIds, CallMemoised(x) PROVE TimeInv'
  BY <1>1, <1>a DEF CallMemoised, Ask, CanCall
<1>2. ASSUME NEW x \in LoadIds, CallLoader(x) PROVE TimeInv'
  BY <1>2, <1>a DEF CallLoader, Ask, CanCall, Enter, CallApi
<1>3. ASSUME NEW x \in LoadIds, Falls(x) PROVE TimeInv'
  BY <1>3, <1>a DEF Falls, CallApi, Enter
<1>4. ASSUME NEW x \in LoadIds, MemcachedRead(x) PROVE TimeInv'
  <2> DEFINE value == store[CacheKey(x[2])].value
  <2>1. x[2] \in Caching /\ store[CacheKey(x[2])] # Nothing /\ phase[x] = "cacheGet"
    BY <1>4 DEF MemcachedRead, Caching
  <2>2. /\ value \in Values
        /\ now < value.stored + Lifetime[x[2]]
    BY <2>1
  <2>3. due[x] <= now + CACHE_RETRIEVAL_TIMEOUT
    BY <2>1
  <2>4. due[x] <= value.stored + Lifetime[x[2]] + CACHE_RETRIEVAL_TIMEOUT
    BY <2>1, <2>2, <2>3 DEF Caching
  <2>5. QED
    BY <1>4, <2>1, <2>2, <2>4, SMTT(30) DEF MemcachedRead
<1>5. ASSUME NEW x \in LoadIds, Delivers(x) PROVE TimeInv'
  BY <1>5 DEF Delivers, Resolve
<1>6. ASSUME NEW x \in LoadIds, UpstreamReads(x) PROVE TimeInv'
  BY <1>6 DEF UpstreamReads, Body
<1>7. ASSUME NEW x \in LoadIds, UpstreamWrites(x) PROVE TimeInv'
  BY <1>7 DEF UpstreamWrites, Body
<1>8. ASSUME NEW x \in LoadIds, ApiOkAndSet(x) PROVE TimeInv'
  BY <1>8 DEF ApiOkAndSet, Resolve
<1>9. ASSUME NEW x \in LoadIds, Gives(x) PROVE TimeInv'
  BY <1>9 DEF Gives, Reject
<1>10. ASSUME NEW x \in LoadIds, MemcachedStores(x) PROVE TimeInv'
  <2> DEFINE key == CacheKey(x[2])
             value == [got[x] EXCEPT !.stored = now]
  <2>1. x[2] \in Caching /\ got[x] \in Values /\ value.stored = now
    BY <1>10 DEF MemcachedStores, Caching
  <2>2. ASSUME NEW l \in Caching, CacheKey(l) = key
        PROVE  now + Ttl(x[2]) <= now + Lifetime[l]
    BY <2>1, <2>2 DEF Caching
  <2>3. store'[key] = [value |-> value, expires |-> now + Ttl(x[2])]
    BY <1>10 DEF MemcachedStores
  <2> HIDE DEF value
  <2>4. ASSUME NEW k \in CacheKeys, store'[k] # Nothing
        PROVE  /\ now < store'[k].expires
               /\ \A l \in Caching : CacheKey(l) = k =>
                    store'[k].expires <= store'[k].value.stored + Lifetime[l]
    <3>1. CASE k = key
      BY <3>1, <2>1, <2>2, <2>3
    <3>2. CASE k # key
      BY <3>2, <2>4, <1>10 DEF MemcachedStores
    <3>3. QED
      BY <3>1, <3>2
  <2>5. QED
    BY <2>4, <1>10 DEF MemcachedStores
<1>11. CASE Forgets
  BY <1>11 DEF Forgets
<1>12. CASE Tick
  <2>1. now' = now + 1 /\ \A x \in LoadIds : phase[x] \in Pending => now < due[x]
    BY <1>12 DEF Tick, Waiting
  <2>2. \A k \in CacheKeys : store'[k] # Nothing => store'[k] = store[k] /\ now' < store[k].expires
    BY <1>12 DEF Tick
  <2>3. QED
    BY <1>12, <2>1, <2>2 DEF Tick
<1>13. ASSUME NEW x \in LoadIds, SignOfLife(x) PROVE TimeInv'
  <2>1. /\ phase[x] \in {"token", "apiCall"}
        /\ due' = [due EXCEPT ![x] = now + REQUEST_TIMEOUT]
        /\ signs' = [signs EXCEPT ![x] = @ + 1]
        /\ now' = now /\ asked' = asked /\ phase' = phase /\ reply' = reply /\ store' = store
    BY <1>13 DEF SignOfLife
  <2>2. now + REQUEST_TIMEOUT <= asked[x].at + Patience(x[2], signs[x] + 1)
    BY <2>1, <1>a
  <2>3. phase[x] = "token" =>
          now + REQUEST_TIMEOUT + REQUEST_TIMEOUT <= asked[x].at + Patience(x[2], signs[x] + 1)
    BY <2>1, <1>a
  <2>4. QED
    BY <2>1, <2>2, <2>3
<1>14. ASSUME NEW res \in Resources, UpstreamChanges(res) PROVE TimeInv'
  BY <1>14 DEF UpstreamChanges
<1>15. QED
  BY <1>1, <1>2, <1>3, <1>4, <1>5, <1>6, <1>7, <1>8, <1>9, <1>10, <1>11, <1>12, <1>13, <1>14, Effects

-----------------------------------------------------------------------------
\* The inductive invariant holds in every reachable state.
THEOREM Invariance == Spec => []IInv
<1>1. IInv /\ [Next]_vars => IInv'
  <2> SUFFICES ASSUME IInv, [Next]_vars PROVE IInv'
    OBVIOUS
  <2>1. TypeOK /\ PhaseInv
    BY DEF IInv
  <2>2. TypeOK'
    BY <2>1, TypeStep
  <2>3. PhaseInv' /\ MemoInv'
    BY <2>1, <2>2, PhaseStep, MemoStep
  <2>4. DataInv' /\ VersionInv' /\ TimeInv'
    BY <2>1, <2>2, DataStep, VersionStep, TimeStep
  <2>5. QED
    BY <2>2, <2>3, <2>4 DEF IInv
<1>2. QED
  BY InitIInv, <1>1, PTL DEF Spec

\* The variables keep their types.
THEOREM TypeCorrect == Spec => []TypeOK
<1>1. IInv => TypeOK
  BY DEF IInv
<1>2. QED
  BY <1>1, Invariance, PTL

\* No interleaving of requests gives a load the data of another resource or of
\* another shape, or data that a token read which may not be shared with it.
THEOREM OwnDataOnly == Spec => []ServesOwnData
<1>1. IInv => ServesOwnData
  BY DEF IInv, DataInv, ServesOwnData, Fits
<1>2. QED
  BY <1>1, Invariance, PTL

\* memcached holds nothing that a user's token read, and holds what it has under
\* the keys of those who expect it.
THEOREM StoreIsConsistent == Spec => []StoreMatchesKey
<1>1. IInv => StoreMatchesKey
  BY DEF IInv, DataInv
<1>2. QED
  BY <1>1, Invariance, PTL

\* A GET loader answers one request in one way only.
THEOREM ReadsRepeat == Spec => []RepeatableReads
<1>1. IInv => RepeatableReads
  <2> SUFFICES ASSUME IInv, NEW x \in LoadIds, NEW y \in LoadIds,
                      Memoised(x), Cell(x) = Cell(y),
                      phase[x] = "resolved", phase[y] = "resolved"
               PROVE  x = y
    BY DEF RepeatableReads
  <2>1. Memoised(y)
    BY DEF Memoised, Cell
  <2>2. x[3] = y[3]
    BY <2>1 DEF IInv, MemoInv
  <2>3. QED
    BY <2>2, SameLoad
<1>2. QED
  BY <1>1, Invariance, PTL

\* memcached never hides a write from a mutation request.
THEOREM MutationsReadFresh == Spec => []MutationLoadsAreFresh
<1>1. IInv => MutationLoadsAreFresh
  BY DEF IInv, PhaseInv, VersionInv, MutationLoadsAreFresh, UsesMemcached, SkipCache
<1>2. QED
  BY <1>1, Invariance, PTL

\* No load outwaits the silence its timers allow.
THEOREM SilenceBound == Spec => []SilenceIsBounded
<1>1. IInv => SilenceIsBounded
  <2> SUFFICES ASSUME IInv, NEW x \in LoadIds, phase[x] \in Pending
               PROVE  now <= asked[x].at + Patience(x[2], signs[x])
    BY DEF SilenceIsBounded
  <2>1. now <= due[x] /\ now \in Nat /\ due[x] \in Nat /\ asked[x].at \in Nat
    BY DEF IInv, TimeInv, TypeOK
  <2>2. /\ Patience(x[2], signs[x]) \in Nat
        /\ x[2] \notin Authenticated =>
             Patience(x[2], signs[x]) >= CACHE_RETRIEVAL_TIMEOUT + REQUEST_TIMEOUT
    BY PatienceSum, CellType DEF IInv, TypeOK
  <2>3. due[x] <= asked[x].at + Patience(x[2], signs[x])
    BY <2>1, <2>2, Constants DEF IInv, PhaseInv, TimeInv, Pending, UsesMemcached
  <2>4. QED
    BY <2>1, <2>2, <2>3
<1>2. QED
  BY <1>1, Invariance, PTL

-----------------------------------------------------------------------------
\* What a step can do to the phase of a load and to what it resolved to.
LEMMA PhaseMoves ==
  ASSUME IInv, [Next]_vars, NEW x \in LoadIds
  PROVE  \/ phase'[x] = phase[x] /\ got'[x] = got[x]
         \/ /\ phase[x] \in Pending
            /\ phase'[x] \in Pending \cup {"rejected"}
            /\ got'[x] = got[x]
         \/ /\ phase[x] = "idle"
            /\ phase'[x] \in Pending
            /\ got'[x] = got[x]
         \/ /\ phase[x] \in {"cacheGet", "apiCall"}
            /\ phase'[x] = "resolved"
            /\ now' = now
            /\ reply[x] # Nothing
            /\ got'[x] = reply[x]
<1> DEFINE Moves ==
      \/ phase'[x] = phase[x] /\ got'[x] = got[x]
      \/ phase[x] \in Pending /\ phase'[x] \in Pending \cup {"rejected"} /\ got'[x] = got[x]
      \/ phase[x] = "idle" /\ phase'[x] \in Pending /\ got'[x] = got[x]
      \/ /\ phase[x] \in {"cacheGet", "apiCall"} /\ phase'[x] = "resolved"
         /\ now' = now /\ reply[x] # Nothing /\ got'[x] = reply[x]
<1> SUFFICES Moves
  OBVIOUS
<1> USE DEF IInv, TypeOK, PhaseInv, Pending, fixed
<1>1. ASSUME NEW y \in LoadIds,
             CallMemoised(y) \/ MemcachedRead(y) \/ UpstreamReads(y)
               \/ UpstreamWrites(y) \/ MemcachedStores(y) \/ SignOfLife(y)
      PROVE  Moves
  BY <1>1 DEF CallMemoised, MemcachedRead, UpstreamReads, UpstreamWrites, MemcachedStores, SignOfLife
<1>2. ASSUME NEW y \in LoadIds, CallLoader(y) PROVE Moves
  BY <1>2 DEF CallLoader, Ask, CanCall, CallApi, Enter
<1>3. ASSUME NEW y \in LoadIds, Falls(y) PROVE Moves
  BY <1>3 DEF Falls, CallApi, Enter
<1>4. ASSUME NEW y \in LoadIds, Delivers(y) PROVE Moves
  BY <1>4 DEF Delivers, Resolve
<1>5. ASSUME NEW y \in LoadIds, ApiOkAndSet(y) PROVE Moves
  BY <1>5 DEF ApiOkAndSet, Resolve
<1>6. ASSUME NEW y \in LoadIds, Gives(y) PROVE Moves
  BY <1>6 DEF Gives, Reject
<1>7. CASE Forgets
  BY <1>7 DEF Forgets
<1>8. CASE Tick
  BY <1>8 DEF Tick
<1>9. ASSUME NEW res \in Resources, UpstreamChanges(res) PROVE Moves
  BY <1>9 DEF UpstreamChanges
<1>10. QED
  BY <1>1, <1>2, <1>3, <1>4, <1>5, <1>6, <1>7, <1>8, <1>9, Effects

\* Whatever order fetches, sets, evictions and reads happen in, and however late
\* a set is, what comes out of memcached was put there a lifetime ago at most.
THEOREM ExpiryBound == Spec => EntriesExpire
<1>1. IInv /\ [Next]_vars =>
        \A x \in LoadIds : phase[x] = "cacheGet" /\ phase'[x] = "resolved" =>
          now - got'[x].stored <= Lifetime[x[2]] + CACHE_RETRIEVAL_TIMEOUT
  <2> SUFFICES ASSUME IInv, [Next]_vars, NEW x \in LoadIds,
                      phase[x] = "cacheGet", phase'[x] = "resolved"
               PROVE  now - got'[x].stored <= Lifetime[x[2]] + CACHE_RETRIEVAL_TIMEOUT
    OBVIOUS
  <2>1. reply[x] # Nothing /\ got'[x] = reply[x]
    BY PhaseMoves DEF Pending
  <2>2. /\ reply[x] \in Values
        /\ now <= due[x]
        /\ due[x] <= reply[x].stored + Lifetime[x[2]] + CACHE_RETRIEVAL_TIMEOUT
    BY <2>1 DEF IInv, TypeOK, TimeInv, Pending
  <2>3. /\ now \in Nat /\ due[x] \in Nat /\ reply[x].stored \in Nat
        /\ Lifetime[x[2]] \in Nat /\ CACHE_RETRIEVAL_TIMEOUT \in Nat
    BY <2>2, CellType, Constants, LifetimeAssumption DEF IInv, TypeOK, Values
  <2>4. QED
    BY <2>1, <2>2, <2>3
<1>2. QED
  BY <1>1, Invariance, PTL DEF Spec, EntriesExpire

\* A promise settles once.
THEOREM PromisesSettleOnce == Spec => SettlesOnce
<1>1. IInv /\ [Next]_vars =>
        \A x \in LoadIds : phase[x] \in {"resolved", "rejected"} =>
          phase'[x] = phase[x] /\ got'[x] = got[x]
  BY PhaseMoves DEF Pending
<1>2. QED
  BY <1>1, Invariance, PTL DEF Spec, SettlesOnce

-----------------------------------------------------------------------------
(***************************************************************************)
(* The loaders implement LoaderContract.                                   *)
(***************************************************************************)

\* The initial states are initial states of the contract.
LEMMA MappedInit == Init => Promised!Init
<1> SUFFICES ASSUME Init PROVE Promised!Init
  OBVIOUS
<1>1. [x \in LoadIds |-> ~UsesMemcached(x)] \in [LoadIds -> BOOLEAN]
  BY DEF UsesMemcached, SkipCache
<1>2. QED
  BY <1>1 DEF Init, Promised!Init, StateOf, AskedOf, AnswerOf, Pending

\* Which loads skip memcached never changes.
LEMMA FreshStays ==
  ASSUME isMutation' = isMutation
  PROVE  [x \in LoadIds |-> ~UsesMemcached(x)]' = [x \in LoadIds |-> ~UsesMemcached(x)]
  BY DEF UsesMemcached, SkipCache

\* A step that changes nothing the contract sees of any load.
LEMMA MappedStutter ==
  ASSUME isMutation' = isMutation, version' = version,
         \A x \in LoadIds : /\ StateOf(x)' = StateOf(x)
                            /\ AskedOf(x)' = AskedOf(x)
                            /\ AnswerOf(x)' = AnswerOf(x)
  PROVE  UNCHANGED Promised!vars
  BY FreshStays DEF Promised!vars

\* A step that changes one source and nothing the contract sees of any load.
LEMMA MappedChange ==
  ASSUME NEW res \in Resources, isMutation' = isMutation,
         version' = [version EXCEPT ![res] = @ + 1],
         \A x \in LoadIds : /\ StateOf(x)' = StateOf(x)
                            /\ AskedOf(x)' = AskedOf(x)
                            /\ AnswerOf(x)' = AnswerOf(x)
  PROVE  Promised!Change(res)
  BY FreshStays DEF Promised!Change

\* Resolving a load with its reply is what the contract calls an answer.
LEMMA AnswerStep ==
  ASSUME IInv, NEW x \in LoadIds,
         phase[x] = "cacheGet" \/ phase[x] = "apiCall", reply[x] # Nothing,
         phase'[x] = "resolved", got'[x] = reply[x],
         isMutation' = isMutation, version' = version, asked' = asked,
         \A y \in LoadIds : y # x => phase'[y] = phase[y] /\ got'[y] = got[y]
  PROVE  Promised!Answer(x)
<1> USE CellType DEF Pending
<1> DEFINE kind == Kind(x, reply[x].owner)
<1>1. StateOf(x) = "waiting"
  BY DEF StateOf
<1>2. /\ reply[x] \in Values
      /\ IsOf(x[2], reply[x]) /\ reply[x].owner \in Owners(x)
      /\ got'[x] # Nothing
  BY DEF IInv, TypeOK, DataInv, Fits
<1>3. AnswerOf(x)' = [kind |-> kind, version |-> reply[x].version]
  BY <1>2 DEF AnswerOf, IsOf, Kind
<1>4. kind \in IF ~UsesMemcached(x) THEN {Kind(x, Owner(x))}
                                    ELSE {Kind(x, o) : o \in SharedOwners(x[2])}
  BY <1>2 DEF Owners
<1>5. /\ reply[x].version \in Nat /\ asked[x].version \in Nat
      /\ version[ResourceOf[x[2]]] \in Nat
      /\ reply[x].version <= version[ResourceOf[x[2]]]
      /\ ~UsesMemcached(x) => reply[x].version >= asked[x].version
  BY <1>2, LoaderAssumption DEF IInv, TypeOK, Values, VersionInv, PhaseInv
<1>6. AskedOf(x) = asked[x].version
  BY DEF AskedOf
<1>7. reply[x].version \in
        (IF ~UsesMemcached(x) THEN AskedOf(x) ELSE 0)..version[ResourceOf[x[2]]]
  BY <1>5, <1>6
<1>8. \A y \in LoadIds : y # x => StateOf(y)' = StateOf(y) /\ AnswerOf(y)' = AnswerOf(y)
  BY DEF StateOf, AnswerOf
<1>9. \A y \in LoadIds : AskedOf(y)' = AskedOf(y)
  BY DEF AskedOf
<1>10. StateOf(x)' = "answered"
  BY DEF StateOf
<1> HIDE DEF kind
<1>11. [y \in LoadIds |-> StateOf(y)]' = [[y \in LoadIds |-> StateOf(y)] EXCEPT ![x] = "answered"]
  BY <1>8, <1>10
<1>12. [y \in LoadIds |-> AnswerOf(y)]' =
         [[y \in LoadIds |-> AnswerOf(y)] EXCEPT ![x] = [kind |-> kind, version |-> reply[x].version]]
  BY <1>3, <1>8
<1>13. [y \in LoadIds |-> AskedOf(y)]' = [y \in LoadIds |-> AskedOf(y)]
  BY <1>9
<1>14. kind \in Promised!KindsOf(x)
  BY <1>4 DEF Promised!KindsOf
<1>15. reply[x].version \in Promised!Acceptable(x)
  BY <1>7 DEF Promised!Acceptable
<1>16. QED
  BY <1>1, <1>11, <1>12, <1>13, <1>14, <1>15, FreshStays DEF Promised!Answer

\* Every step is a step of the contract or changes nothing it sees.
LEMMA MappedStep ==
  ASSUME IInv, [Next]_vars
  PROVE  [Promised!Next]_(Promised!vars)
<1> USE CellType DEF IInv, TypeOK, PhaseInv, Pending, Phases, fixed, cacheVars, callVars
<1>1. ASSUME NEW x \in LoadIds, CallMemoised(x) PROVE UNCHANGED Promised!vars
  BY <1>1, MappedStutter DEF CallMemoised, Ask, CanCall, StateOf, AskedOf, AnswerOf
<1>2. ASSUME NEW x \in LoadIds,
             MemcachedRead(x) \/ UpstreamReads(x) \/ MemcachedStores(x) \/ SignOfLife(x)
      PROVE  UNCHANGED Promised!vars
  BY <1>2, MappedStutter DEF MemcachedRead, UpstreamReads, MemcachedStores, SignOfLife,
                             StateOf, AskedOf, AnswerOf
<1>3. ASSUME NEW x \in LoadIds, Falls(x) PROVE UNCHANGED Promised!vars
  BY <1>3, MappedStutter DEF Falls, CallApi, Enter, StateOf, AskedOf, AnswerOf
<1>4. CASE Forgets
  BY <1>4, MappedStutter DEF Forgets, StateOf, AskedOf, AnswerOf
<1>5. ASSUME NEW x \in LoadIds, CallLoader(x) PROVE Promised!Ask(x)
  <2>1. /\ phase[x] = "idle" /\ phase'[x] \in Pending
        /\ asked'[x].version = version[ResourceOf[x[2]]]
        /\ isMutation' = isMutation /\ version' = version /\ got' = got
    BY <1>5 DEF CallLoader, Ask, CanCall, CallApi, Enter
  <2>2. \A y \in LoadIds : y # x => phase'[y] = phase[y] /\ asked'[y] = asked[y]
    BY <1>5 DEF CallLoader, Ask, CallApi, Enter
  <2>3. \A y \in LoadIds : StateOf(y)' = IF y = x THEN "waiting" ELSE StateOf(y)
    BY <2>1, <2>2 DEF StateOf
  <2>4. \A y \in LoadIds :
          AskedOf(y)' = IF y = x THEN version[ResourceOf[x[2]]] ELSE AskedOf(y)
    BY <2>1, <2>2 DEF AskedOf
  <2>5. \A y \in LoadIds : AnswerOf(y)' = AnswerOf(y)
    BY <2>1 DEF AnswerOf
  <2>6. StateOf(x) = "unasked"
    BY <2>1 DEF StateOf
  <2>7. [y \in LoadIds |-> StateOf(y)]' = [[y \in LoadIds |-> StateOf(y)] EXCEPT ![x] = "waiting"]
    BY <2>3
  <2>8. [y \in LoadIds |-> AskedOf(y)]' =
          [[y \in LoadIds |-> AskedOf(y)] EXCEPT ![x] = version[ResourceOf[x[2]]]]
    BY <2>4
  <2>9. [y \in LoadIds |-> AnswerOf(y)]' = [y \in LoadIds |-> AnswerOf(y)]
    BY <2>5
  <2>10. QED
    BY <2>1, <2>6, <2>7, <2>8, <2>9, FreshStays DEF Promised!Ask
<1>6. ASSUME NEW x \in LoadIds, Gives(x) PROVE Promised!Fail(x)
  <2>1. /\ phase[x] \in Pending /\ phase'[x] = "rejected"
        /\ \A y \in LoadIds : y # x => phase'[y] = phase[y]
        /\ isMutation' = isMutation /\ version' = version /\ got' = got /\ asked' = asked
    BY <1>6 DEF Gives, Reject
  <2>2. StateOf(x) = "waiting"
    BY <2>1 DEF StateOf
  <2>3. [y \in LoadIds |-> StateOf(y)]' = [[y \in LoadIds |-> StateOf(y)] EXCEPT ![x] = "failed"]
    <3>1. StateOf(x)' = "failed" /\ \A y \in LoadIds : y # x => StateOf(y)' = StateOf(y)
      BY <2>1 DEF StateOf
    <3>2. QED
      BY <3>1
  <2>4. /\ [y \in LoadIds |-> AnswerOf(y)]' = [y \in LoadIds |-> AnswerOf(y)]
        /\ [y \in LoadIds |-> AskedOf(y)]' = [y \in LoadIds |-> AskedOf(y)]
    BY <2>1 DEF AnswerOf, AskedOf
  <2>5. QED
    BY <2>1, <2>2, <2>3, <2>4, FreshStays DEF Promised!Fail
<1>7. ASSUME NEW x \in LoadIds, Delivers(x) PROVE Promised!Answer(x)
  <2>1. /\ phase[x] = "cacheGet" \/ phase[x] = "apiCall"
        /\ reply[x] # Nothing
        /\ phase'[x] = "resolved" /\ got'[x] = reply[x]
        /\ isMutation' = isMutation /\ version' = version /\ asked' = asked
        /\ \A y \in LoadIds : y # x => phase'[y] = phase[y] /\ got'[y] = got[y]
    BY <1>7 DEF Delivers, Resolve
  <2>2. QED
    BY ONLY <2>1, AnswerStep, IInv
<1>8. ASSUME NEW x \in LoadIds, ApiOkAndSet(x) PROVE Promised!Answer(x)
  <2>1. /\ phase[x] = "cacheGet" \/ phase[x] = "apiCall"
        /\ reply[x] # Nothing
        /\ phase'[x] = "resolved" /\ got'[x] = reply[x]
        /\ isMutation' = isMutation /\ version' = version /\ asked' = asked
        /\ \A y \in LoadIds : y # x => phase'[y] = phase[y] /\ got'[y] = got[y]
    BY <1>8 DEF ApiOkAndSet, Resolve
  <2>2. QED
    BY ONLY <2>1, AnswerStep, IInv
<1>9. ASSUME NEW x \in LoadIds, UpstreamWrites(x) PROVE Promised!Change(ResourceOf[x[2]])
  BY <1>9, MappedChange, LoaderAssumption DEF UpstreamWrites, StateOf, AskedOf, AnswerOf
<1>10. ASSUME NEW res \in Resources, UpstreamChanges(res) PROVE Promised!Change(res)
  BY <1>10, MappedChange DEF UpstreamChanges, StateOf, AskedOf, AnswerOf
<1>11. CASE Tick
  BY <1>11, MappedStutter DEF Tick, StateOf, AskedOf, AnswerOf
<1>12. \A x \in LoadIds : ResourceOf[x[2]] \in Resources
  BY LoaderAssumption
<1>13. QED
  BY <1>1, <1>2, <1>3, <1>4, <1>5, <1>6, <1>7, <1>8, <1>9, <1>10, <1>11, <1>12, Effects
     DEF Promised!Next

\* Memo, memcached, timers and HTTP together keep the loaders' promise.
THEOREM Refinement == Spec => ImplementsContract
  BY MappedInit, MappedStep, Invariance, PTL DEF Spec, ImplementsContract, Promised!Spec

=============================================================================
