------------------------- MODULE SaleArtworkLoader -------------------------
(***************************************************************************)
(* src/src/lib/loaders/batchSaleArtworkLoader.ts: lookups of one lot, an   *)
(* artwork in a sale, become one request for several lots of a sale.       *)
(*                                                                         *)
(* A key names an artwork by its id or, where a client chose the argument  *)
(* (sale.saleArtwork), by its slug.  A wrapper keeps the promise of each   *)
(* key, the dispatch job cuts the queue into batches, a batch makes one    *)
(* request for each of its sales, and when all are settled looks for its   *)
(* keys in what they returned.  A request that fails is turned into no     *)
(* data, so that no promise is ever rejected.                              *)
(***************************************************************************)
EXTENDS Integers, Sequences, FiniteSets

CONSTANTS
  Artworks,      \* ids of artworks
  Slugs,         \* slugs of artworks
  SlugOf,        \* [Slugs -> Artworks]: whose slug it is
  Sales,
  Lots,          \* the pairs of an artwork and a sale that gravity has
  MaxBatchSize,
  Undefined,     \* undefined
  MaxKeys,       \* bound: keys that are looked up
  MaxFailures    \* bound: requests that fail

ASSUME SaleArtworkAssumption ==
  /\ Slugs \cap Artworks = {}
  /\ SlugOf \in [Slugs -> Artworks]
  /\ Lots \subseteq Artworks \X Sales
  /\ MaxBatchSize \in Nat \ {0}
  /\ Undefined \notin Lots
  /\ MaxKeys \in Nat
  /\ MaxFailures \in Nat

Keys == (Artworks \cup Slugs) \X Sales

Denoted(name) == IF name \in Slugs THEN SlugOf[name] ELSE name

VARIABLES
  queue,     \* keys that wait for the dispatch job, in order
  fetches,   \* the requests of the batches, with their answers
  state,     \* of the promise that promiseCache has for a key
  value,     \* what the promise resolved to
  failures   \* requests that failed

vars == <<queue, fetches, state, value, failures>>

-----------------------------------------------------------------------------
Init ==
  /\ queue = <<>>
  /\ fetches = {}
  /\ state = [k \in Keys |-> "unknown"]
  /\ value = [k \in Keys |-> Undefined]
  /\ failures = 0

\* Mutant: without promiseCache every call makes a lookup of its own.
LoadAlways(k) ==
  /\ state[k] \in {"unknown", "waiting"}
  /\ queue' = Append(queue, k)
  /\ state' = [state EXCEPT ![k] = "queued"]
  /\ UNCHANGED <<fetches, value, failures>>

\* A key that promiseCache has is not loaded again.
Load(k) ==
  /\ Cardinality({j \in Keys : state[j] # "unknown"}) < MaxKeys
  /\ state[k] = "unknown"
  /\ queue' = Append(queue, k)
  /\ state' = [state EXCEPT ![k] = "queued"]
  /\ UNCHANGED <<fetches, value, failures>>

\* Mutant: the batches are one key too long.
BatchesTooLong(q) ==
  {{q[i] : i \in {j \in DOMAIN q : n * MaxBatchSize < j /\ j <= (n + 1) * MaxBatchSize + 1}} :
     n \in 0..((Len(q) - 1) \div MaxBatchSize)}

\* The queue, cut into batches of at most MaxBatchSize keys.
Batches(q) ==
  {{q[i] : i \in {j \in DOMAIN q : n * MaxBatchSize < j /\ j <= (n + 1) * MaxBatchSize}} :
     n \in 0..((Len(q) - 1) \div MaxBatchSize)}

GroupByParams(batch) ==
  {[batch |-> batch, sale |-> s, status |-> "sent", lots |-> {}] : s \in {k[2] : k \in batch}}

Dispatch ==
  /\ queue # <<>>
  /\ fetches' = fetches \cup UNION {GroupByParams(b) : b \in Batches(queue)}
  /\ state' = [k \in Keys |-> IF state[k] = "queued" THEN "waiting" ELSE state[k]]
  /\ queue' = <<>>
  /\ UNCHANGED <<value, failures>>

Settle(f, g) == fetches' = (fetches \ {f}) \cup {g}

\* The lots of the sale among the artworks the request names.
LotsFor(f) ==
  {a \in Artworks : /\ <<a, f.sale>> \in Lots
                    /\ \E k \in f.batch : k[2] = f.sale /\ Denoted(k[1]) = a}

Answer(f) ==
  /\ f.status = "sent"
  /\ Settle(f, [f EXCEPT !.status = "answered", !.lots = LotsFor(f)])
  /\ UNCHANGED <<queue, state, value, failures>>

Fail(f) ==
  /\ f.status = "sent"
  /\ failures < MaxFailures
  /\ Settle(f, [f EXCEPT !.status = "failed"])
  /\ failures' = failures + 1
  /\ UNCHANGED <<queue, state, value>>

\* The data of the key's sale.
FetchesFor(k, batch) ==
  {f \in fetches : f.batch = batch /\ f.sale = k[2]}

\* The lot in that data whose artwork has the key's name for its id.
Find(k, batch) ==
  IF \E f \in FetchesFor(k, batch) : k[1] \in f.lots
  THEN <<k[1], (CHOOSE f \in FetchesFor(k, batch) : k[1] \in f.lots).sale>>
  ELSE Undefined

\* Mutant: the batch goes on with the first answer.
SettledAtOnce(batch) == \E f \in fetches : f.batch = batch /\ f.status # "sent"

\* Mutant: a batch that lost a request waits for ever.
SettledWithData(batch) ==
  \A f \in fetches : f.batch = batch => f.status = "answered"

Settled(batch) == \A f \in fetches : f.batch = batch => f.status # "sent"

\* Promise.all has the answers of the batch: its keys get their lots.
Distribute(batch) ==
  /\ Settled(batch)
  /\ \E k \in batch : state[k] = "waiting"
  /\ state' = [k \in Keys |-> IF k \in batch THEN "resolved" ELSE state[k]]
  /\ value' = [k \in Keys |-> IF k \in batch THEN Find(k, batch) ELSE value[k]]
  /\ UNCHANGED <<queue, fetches, failures>>

Next ==
  \/ \E k \in Keys : Load(k)
  \/ Dispatch
  \/ \E f \in fetches : Answer(f) \/ Fail(f) \/ Distribute(f.batch)

Spec == Init /\ [][Next]_vars

\* The dispatch job runs, gravity answers or the request's timeout fails it,
\* and the continuation of a batch runs.
Progress ==
  \/ Dispatch
  \/ \E f \in fetches : Answer(f) \/ Distribute(f.batch)

FairSpec == Spec /\ WF_vars(Progress)

-----------------------------------------------------------------------------
\* The types of the variables: a request is about keys of its own sale, and a
\* batch has at most MaxBatchSize keys.
TypeOK ==
  /\ queue \in Seq(Keys)
  /\ \A f \in fetches :
       /\ f.batch \subseteq Keys /\ Cardinality(f.batch) \in 1..MaxBatchSize
       /\ \E k \in f.batch : k[2] = f.sale
       /\ f.status \in {"sent", "answered", "failed"}
       /\ f.lots \subseteq Artworks
  /\ state \in [Keys -> {"unknown", "queued", "waiting", "resolved"}]
  /\ value \in [Keys -> Lots \cup {Undefined}]
  /\ failures \in 0..MaxFailures

\* A key resolves to its own artwork in its own sale or to undefined.
FindsOwnLot ==
  \A k \in Keys : state[k] = "resolved" => value[k] \in {k, Undefined}

UndefinedHasItsReason ==
  \A k \in Keys : state[k] = "resolved" /\ value[k] = Undefined =>
    \/ k \notin Lots
    \/ \E f \in fetches : k \in f.batch /\ f.sale = k[2] /\ f.status = "failed"

\* Over batches that hold an artwork in several sales, each key gets its own lot
\* (the two finds of the batch function), and comes out undefined only when
\* there is no such lot, when it names the artwork by its slug, or when the
\* request of its own sale failed: a failure never reaches the keys of another
\* sale (the catch inside the batch).
KeysFindTheirLots == FindsOwnLot /\ UndefinedHasItsReason

\* Gravity is asked for a key once in a request (promiseCache), also where the
\* first answer was a failure, so that all fields that look a lot up by one name
\* see the same answer.  The id and the slug of a lot are two keys: a lot looked
\* up by both is asked for by both.
AsksOnce ==
  \A f, g \in fetches : f.sale = g.sale
    /\ (\E k \in f.batch \cap g.batch : k[2] = f.sale) => f = g

\* Every lookup resolves, also when requests fail ("If any individual call
\* fails, we don't want to reject the whole batch").
EveryLotResolves ==
  \A k \in Keys : state[k] = "queued" ~> state[k] = "resolved"
=============================================================================
