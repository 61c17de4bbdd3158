----------------------------- MODULE BatchLoader -----------------------------
(***************************************************************************)
(* src/src/lib/loaders/batchLoader.ts: the loaders that turn many lookups  *)
(* of one sale into few requests for a list of sales.                      *)
(*                                                                         *)
(* createBatchLoaders makes two batch loaders, "sale" (with a loader for a *)
(* single sale) and "sales", which share one multipleLoader.  That loader  *)
(* memoises the promise of a request, so that equal requests get the same  *)
(* array object; its contents are the variable items, because a batch      *)
(* reverses the array in place and pops its results off it.                *)
(*                                                                         *)
(* Gravity answers a list request with one element per id, in the order    *)
(* of the ids, null for a sale it does not find (parameter `batched`); a   *)
(* request for a single sale that it does not find fails.                  *)
(***************************************************************************)
EXTENDS Integers, Sequences, FiniteSets, SequencesExt

CONSTANTS
  Ids,            \* ids of sales
  Params,         \* the parameters of a key other than id
  NoParams,       \* no parameters but the id
  Missing,        \* ids of sales gravity does not find
  MaxBatchSize,
  Null,           \* null
  Undefined,      \* undefined
  MaxKeys,        \* bound: different keys loaded in a behaviour
  MaxFailures     \* bound: failures other than a sale not found, retries

ASSUME BatchAssumption ==
  /\ NoParams \in Params
  /\ Missing \subseteq Ids
  /\ MaxBatchSize \in Nat \ {0}
  /\ Null \notin Ids
  /\ Undefined \notin Ids \cup {Null}
  /\ MaxKeys \in Nat
  /\ MaxFailures \in Nat

BatchLoaders == {"sale", "sales"}

\* saleLoader is called with an id, salesLoader with ids and filters.
Keys(dl) == IF dl = "sale" THEN [id : Ids, params : {NoParams}]
                           ELSE [id : Ids, params : Params]

Loads == UNION {{<<dl, key>> : key \in Keys(dl)} : dl \in BatchLoaders}

\* A request to gravity, and what identifies it to the memo of its loader.
RequestFor(path, params, ids) == [path |-> path, params |-> params, ids |-> ids]

VARIABLES
  queue,    \* [BatchLoaders -> Seq]: keys waiting for the dispatch job
  batches,  \* chunks dispatched and not settled
  state,    \* [Loads -> state of the promise]
  value,    \* [Loads -> what the promise resolved to]
  items,    \* requests made and not failed: request -> array, Null if pending
  failures  \* requests that failed so far

vars == <<queue, batches, state, value, items, failures>>

States == {"none", "queued", "waiting", "resolved", "rejected"}

Batch(dl, chunk) == [loader |-> dl, keys |-> chunk]

ToId(key) == key.id

\* The positions of the keys with these parameters.
Group(chunk, p) == {i \in DOMAIN chunk : chunk[i].params = p}

\* How many positions of a group come up to the i-th.
Rank(group, i) == Cardinality({j \in group : j <= i})

\* groupByParams and flattenedParams: the ids asked for with these parameters,
\* in the order of the keys.
GroupIds(chunk, p) ==
  LET group == Group(chunk, p)
  IN  [n \in 1..Cardinality(group) |-> ToId(chunk[CHOOSE i \in group : Rank(group, i) = n])]

\* Mutant: a lone key always goes to the single loader, whatever its filters.
RequestOfDroppingFilters(dl, chunk, p) ==
  LET ids == GroupIds(chunk, p)
  IN  RequestFor(IF dl = "sale" /\ Len(ids) = 1 THEN "sale" ELSE "sales", NoParams, ids)

\* The request a group makes: a lone id without parameters goes to the single
\* loader, if there is one.
RequestOf(dl, chunk, p) ==
  LET ids == GroupIds(chunk, p)
  IN  RequestFor(IF dl = "sale" /\ Len(ids) = 1 /\ p = NoParams THEN "sale" ELSE "sales",
                 p, ids)

RequestsOf(b) ==
  {RequestOf(b.loader, b.keys, p) : p \in {b.keys[i].params : i \in DOMAIN b.keys}}

Init ==
  /\ queue = [dl \in BatchLoaders |-> <<>>]
  /\ batches = {}
  /\ state = [x \in Loads |-> "none"]
  /\ value = [x \in Loads |-> Undefined]
  /\ items = <<>>
  /\ failures = 0

-----------------------------------------------------------------------------
\* A resolver loads a key that is not in the promise cache.  One that is gets
\* the promise that is there.
Load(dl, key) ==
  /\ \/ state[<<dl, key>>] = "none"
     \/ state[<<dl, key>>] = "rejected" /\ failures <= MaxFailures
  /\ Cardinality({x \in Loads : state[x] # "none"} \cup {<<dl, key>>}) <= MaxKeys
  /\ state' = [state EXCEPT ![<<dl, key>>] = "queued"]
  /\ queue' = [queue EXCEPT ![dl] = Append(@, key)]
  /\ UNCHANGED <<batches, value, items, failures>>

\* Mutant: a chunk holds one key too many.
ChunksTooLong(q) ==
  {SubSeq(q, n * MaxBatchSize + 1,
          IF (n + 1) * MaxBatchSize < Len(q) THEN (n + 1) * MaxBatchSize + 1 ELSE Len(q)) :
     n \in 0..((Len(q) - 1) \div MaxBatchSize)}

\* The queue, cut into chunks of at most MaxBatchSize keys.
Chunks(q) ==
  {SubSeq(q, n * MaxBatchSize + 1,
          IF (n + 1) * MaxBatchSize < Len(q) THEN (n + 1) * MaxBatchSize ELSE Len(q)) :
     n \in 0..((Len(q) - 1) \div MaxBatchSize)}

\* The dispatch job: every chunk makes the requests that are not memoised.
Dispatch(dl) ==
  /\ queue[dl] # <<>>
  /\ LET new  == {Batch(dl, chunk) : chunk \in Chunks(queue[dl])}
         reqs == UNION {RequestsOf(b) : b \in new}
     IN  /\ batches' = batches \cup new
         /\ items' = [r \in DOMAIN items \cup reqs |->
                        IF r \in DOMAIN items THEN items[r] ELSE Null]
  /\ state' = [x \in Loads |->
                 IF x[1] = dl /\ state[x] = "queued" THEN "waiting" ELSE state[x]]
  /\ queue' = [queue EXCEPT ![dl] = <<>>]
  /\ UNCHANGED <<value, failures>>

\* Gravity answers 404.
NotFound(r) == r.path = "sale" /\ Range(r.ids) \subseteq Missing

\* Gravity answers.
Answer(r) ==
  /\ items[r] = Null
  /\ ~NotFound(r)
  /\ items' = [items EXCEPT ![r] =
                 [i \in 1..Len(r.ids) |-> IF r.ids[i] \in Missing THEN Null ELSE r.ids[i]]]
  /\ UNCHANGED <<queue, batches, state, value, failures>>

\* Mutant: the keys of a failed batch stay in the promise cache, unsettled.
FailQuietly(r) ==
  /\ items[r] = Null
  /\ failures < MaxFailures \/ NotFound(r)
  /\ failures' = failures + 1
  /\ batches' = {b \in batches : r \notin RequestsOf(b)}
  /\ items' = [q \in DOMAIN items \ {r} |-> items[q]]
  /\ UNCHANGED <<queue, state, value>>

\* A request fails: it leaves the memo, and Promise.all rejects every key of
\* every batch that waits for it, those of other groups included.
Fail(r) ==
  /\ items[r] = Null
  /\ failures < MaxFailures \/ NotFound(r)
  /\ failures' = failures + 1
  /\ LET failed == {b \in batches : r \in RequestsOf(b)}
     IN  /\ batches' = batches \ failed
         /\ state' = [x \in Loads |->
                        IF \E b \in failed : b.loader = x[1] /\ x[2] \in Range(b.keys)
                          THEN "rejected" ELSE state[x]]
  /\ items' = [q \in DOMAIN items \ {r} |-> items[q]]
  /\ UNCHANGED <<queue, value>>

\* Mutant: the place of a key among all keys of the batch.
PlaceInBatch(chunk, key) == CHOOSE i \in DOMAIN chunk : chunk[i] = key

\* The place of a key in its group.
Place(chunk, key) ==
  Rank(Group(chunk, key.params), CHOOSE i \in DOMAIN chunk : chunk[i] = key)

\* Mutant: the array is not reversed before results are popped off its end.
PoppedUnreversed(array, n) ==
  IF n <= Len(array) THEN array[Len(array) + 1 - n] ELSE Undefined

\* What the n-th pop off the reversed array returns.
Popped(array, n) == IF n <= Len(array) THEN array[n] ELSE Undefined

\* The array after reverse() and n pops.
Rest(array, n) == Reverse(SubSeq(array, n + 1, Len(array)))

\* All requests of a batch are answered: reverse the arrays in place, and pop
\* one result per key.  A single sale is wrapped in an array of its own.
Distribute(b) ==
  /\ \A r \in RequestsOf(b) : items[r] # Null
  /\ batches' = batches \ {b}
  /\ LET Mine(x) == x[1] = b.loader /\ x[2] \in Range(b.keys)
         Request(key) == RequestOf(b.loader, b.keys, key.params)
     IN  /\ state' = [x \in Loads |-> IF Mine(x) THEN "resolved" ELSE state[x]]
         /\ value' = [x \in Loads |->
                        IF Mine(x) THEN Popped(items[Request(x[2])], Place(b.keys, x[2]))
                                   ELSE value[x]]
  /\ items' = [r \in DOMAIN items |->
                 IF r \in RequestsOf(b) /\ r.path = "sales"
                   THEN Rest(items[r], Len(r.ids)) ELSE items[r]]
  /\ UNCHANGED <<queue, failures>>

Next ==
  \/ \E dl \in BatchLoaders : \E key \in Keys(dl) : Load(dl, key)
  \/ \E dl \in BatchLoaders : Dispatch(dl)
  \/ \E r \in DOMAIN items : Answer(r) \/ Fail(r)
  \/ \E b \in batches : Distribute(b)

Spec == Init /\ [][Next]_vars

\* Steps that do not wait for a caller: the dispatch job, an answer (which may
\* be a failure, since a request has a timeout), the continuation of a batch.
Progress ==
  \/ \E dl \in BatchLoaders : Dispatch(dl)
  \/ \E r \in DOMAIN items : Answer(r) \/ (NotFound(r) /\ Fail(r))
  \/ \E b \in batches : Distribute(b)

\* One of them happens as long as one can.
Fairness == WF_vars(Progress)

FairSpec == Spec /\ Fairness

-----------------------------------------------------------------------------
\* The types of the variables: what the queues, chunks and arrays of the two
\* loaders that createBatchLoaders makes can hold.
TypeOK ==
  /\ \A dl \in BatchLoaders : Range(queue[dl]) \subseteq Keys(dl)
  /\ \A b \in batches : b.loader \in BatchLoaders /\ Len(b.keys) \in 1..MaxBatchSize
  /\ state \in [Loads -> States]
  /\ value \in [Loads -> Ids \cup {Null, Undefined}]
  /\ \A r \in DOMAIN items : items[r] # Null => Range(items[r]) \subseteq Ids \cup {Null}
  /\ failures \in Nat

\* Results are matched to keys by position only, across groups, chunks and two
\* loaders that pop off the same arrays: still no key is given another sale,
\* and null only stands for a sale that does not exist (the reverse and pop of
\* the batch function).
NeverAnothersSale ==
  \A x \in Loads : state[x] = "resolved" =>
    value[x] \in {x[2].id, Undefined} \cup (IF x[2].id \in Missing THEN {Null} ELSE {})

\* A key is only left empty-handed when the other loader has taken the result
\* of the same list request (the array both pop their results off).
EmptyHandedOnlyBySharing ==
  \A x \in Loads : state[x] = "resolved" /\ value[x] = Undefined =>
    \E y \in Loads : y[1] # x[1] /\ y[2] = x[2] /\ state[y] = "resolved"

\* The filters of a key reach gravity: what a batch waits for was asked with
\* the parameters of the keys it answers (the choice of singleLoader).
FiltersReachGravity ==
  \A b \in batches : \A i \in DOMAIN b.keys :
    \E r \in DOMAIN items : r.params = b.keys[i].params /\ b.keys[i].id \in Range(r.ids)

\* Every promise of a batch loader settles once gravity answers or fails: no
\* key is lost between the queue, the chunks and the groups.
EveryKeySettles ==
  \A x \in Loads : state[x] \in {"queued", "waiting"} ~> state[x] \in {"resolved", "rejected"}

\* "This is an abstraction around the data loader to keep api parity with the
\* existing gravityLoader api" (src/src/lib/loaders/batchLoader.ts:141): a
\* lookup of a sale that exists gives it, as saleLoader does.
ParityWithGravityLoader ==
  \A x \in Loads : state[x] = "resolved" /\ x[2].id \notin Missing => value[x] = x[2].id
=============================================================================
