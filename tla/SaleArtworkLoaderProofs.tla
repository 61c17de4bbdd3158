----------------------- MODULE SaleArtworkLoaderProofs -----------------------
(***************************************************************************)
(* Every lookup of a lot finds its own lot, and gravity is asked for each  *)
(* once, for any number of keys, sales and failures and any batch size.    *)
(***************************************************************************)
EXTENDS SaleArtworkLoader, FiniteSetTheorems, TLAPS

(***************************************************************************)
(* Batches                                                                 *)
(***************************************************************************)

\* The positions of the n-th batch.
Positions(q, n) == {j \in DOMAIN q : n * MaxBatchSize < j /\ j <= (n + 1) * MaxBatchSize}

LEMMA BatchSizeType == MaxBatchSize \in Nat \ {0}
  BY SaleArtworkAssumption

\* A position is in one batch only.
LEMMA OneBatch ==
  ASSUME NEW n \in Nat, NEW m \in Nat, NEW i \in Nat,
         n * MaxBatchSize < i, i <= (n + 1) * MaxBatchSize,
         m * MaxBatchSize < i, i <= (m + 1) * MaxBatchSize
  PROVE  n = m
<1>1. ASSUME NEW a \in Nat, NEW b \in Nat, a < b
      PROVE  (a + 1) * MaxBatchSize <= b * MaxBatchSize
  <2>1. a + 1 <= b
    BY <1>1
  <2> QED
    BY <2>1, BatchSizeType
<1>2. n * MaxBatchSize \in Nat /\ m * MaxBatchSize \in Nat
      /\ (n + 1) * MaxBatchSize \in Nat /\ (m + 1) * MaxBatchSize \in Nat
  BY BatchSizeType
<1>3. ~(n < m)
  BY <1>1, <1>2
<1>4. ~(m < n)
  BY <1>1, <1>2
<1> QED
  BY <1>3, <1>4

\* A batch of the queue has a key and at most MaxBatchSize of them.
LEMMA BatchSize ==
  ASSUME NEW q \in Seq(Keys), NEW b \in Batches(q)
  PROVE  /\ b \subseteq Keys
         /\ Len(q) > 0 => IsFiniteSet(b) /\ Cardinality(b) \in 1..MaxBatchSize
<1>1. PICK n \in 0..((Len(q) - 1) \div MaxBatchSize) : b = {q[i] : i \in Positions(q, n)}
  BY DEF Batches, Positions
<1>2. b \subseteq Keys
  BY <1>1 DEF Positions
<1>3. ASSUME Len(q) > 0
      PROVE  IsFiniteSet(b) /\ Cardinality(b) \in 1..MaxBatchSize
  <2> DEFINE from == n * MaxBatchSize
             to == (n + 1) * MaxBatchSize
  <2>1. /\ n \in Nat /\ from \in Nat /\ to = from + MaxBatchSize /\ Len(q) \in Nat
        /\ MaxBatchSize \in Nat \ {0}
    BY <1>1, <1>3, BatchSizeType
  <2>2. from <= Len(q) - 1
    <3>1. ((Len(q) - 1) \div MaxBatchSize) * MaxBatchSize <= Len(q) - 1
      BY <1>3, BatchSizeType
    <3>2. (Len(q) - 1) \div MaxBatchSize \in Nat
      BY <1>3, BatchSizeType
    <3>3. n * MaxBatchSize <= ((Len(q) - 1) \div MaxBatchSize) * MaxBatchSize
      BY <1>1, <2>1, <3>2
    <3> HIDE DEF from
    <3> QED
      BY <3>1, <3>2, <3>3, <2>1 DEF from
  <2>3. IsFiniteSet((from + 1)..to) /\ Cardinality((from + 1)..to) = MaxBatchSize
    <3>1. from + 1 \in Int /\ to \in Int
      BY <2>1
    <3>2. to - (from + 1) + 1 = MaxBatchSize /\ ~(from + 1 > to)
      BY <2>1
    <3> HIDE DEF from, to
    <3> QED
      BY <3>1, <3>2, FS_Interval
  <2>4. Positions(q, n) \subseteq (from + 1)..to
    BY <2>1 DEF Positions
  <2>5. IsFiniteSet(Positions(q, n)) /\ Cardinality(Positions(q, n)) <= MaxBatchSize
    BY <2>3, <2>4, FS_Subset, ZenonT(40)
  <2>6. IsFiniteSet(b) /\ Cardinality(b) <= Cardinality(Positions(q, n))
    <3> DEFINE key == [i \in Positions(q, n) |-> q[i]]
    <3>1. key \in Surjection(Positions(q, n), b)
      BY <1>1 DEF Surjection
    <3> HIDE DEF key
    <3> QED
      BY <2>5, <3>1, FS_Surjection
  <2>7. b # {}
    <3>1. from + 1 \in Positions(q, n)
      BY <2>1, <2>2 DEF Positions
    <3> QED
      BY <1>1, <3>1
  <2>8. Cardinality(b) \in Nat /\ Cardinality(b) # 0
    BY <2>6, <2>7, FS_EmptySet, FS_CardinalityType
  <2>9. Cardinality(Positions(q, n)) \in Nat
    BY <2>5, FS_CardinalityType
  <2> QED
    BY <2>1, <2>5, <2>6, <2>8, <2>9
<1> QED
  BY <1>2, <1>3

\* Batches of a queue without repetition have no key in common.
LEMMA BatchesDisjoint ==
  ASSUME NEW q \in Seq(Keys), \A i, j \in DOMAIN q : q[i] = q[j] => i = j,
         NEW b \in Batches(q), NEW c \in Batches(q), NEW k \in b \cap c, Len(q) > 0
  PROVE  b = c
<1>1. PICK n \in 0..((Len(q) - 1) \div MaxBatchSize) : b = {q[i] : i \in Positions(q, n)}
  BY DEF Batches, Positions
<1>2. PICK m \in 0..((Len(q) - 1) \div MaxBatchSize) : c = {q[i] : i \in Positions(q, m)}
  BY DEF Batches, Positions
<1>3. PICK i \in Positions(q, n) : k = q[i]
  BY <1>1
<1>4. PICK j \in Positions(q, m) : k = q[j]
  BY <1>2
<1>5. i = j /\ i \in Nat
  <2>1. i \in DOMAIN q /\ j \in DOMAIN q /\ DOMAIN q \subseteq Nat
    BY DEF Positions
  <2>2. q[i] = q[j]
    BY <1>3, <1>4
  <2> QED
    BY <2>1, <2>2
<1>6. n \in Nat /\ m \in Nat
  BY <1>1, <1>2
<1>7. n = m
  BY <1>3, <1>4, <1>5, <1>6, OneBatch DEF Positions
<1> QED
  BY <1>1, <1>2, <1>7

\* The keys of a batch are keys of the queue.
LEMMA BatchKeys ==
  ASSUME NEW q \in Seq(Keys), NEW b \in Batches(q), NEW k \in b
  PROVE  \E i \in DOMAIN q : k = q[i]
  BY DEF Batches

(***************************************************************************)
(* The inductive invariant                                                 *)
(***************************************************************************)

Fetches ==
  [batch : SUBSET Keys, sale : Sales, status : {"sent", "answered", "failed"},
   lots : SUBSET Artworks]

\* Types; the size of a batch is in SizesOK.
TypesOK ==
  /\ queue \in Seq(Keys)
  /\ fetches \subseteq Fetches
  /\ state \in [Keys -> {"unknown", "queued", "waiting", "resolved"}]
  /\ value \in [Keys -> Lots \cup {Undefined}]
  /\ failures \in 0..MaxFailures

SizesOK ==
  \A f \in fetches : /\ Cardinality(f.batch) \in 1..MaxBatchSize
                     /\ \E k \in f.batch : k[2] = f.sale

\* What an answer holds.
AnswersOK ==
  \A f \in fetches : /\ f.status = "answered" => f.lots = LotsFor(f)
                     /\ f.status # "answered" => f.lots = {}

\* A batch has the requests of all its keys.
BatchesWhole ==
  \A f \in fetches : \A k \in f.batch :
    \E g \in fetches : g.batch = f.batch /\ g.sale = k[2]

\* Keys are queued once and are in one batch only; a batch asks once for a sale.
KeysOnce ==
  /\ \A i \in DOMAIN queue : state[queue[i]] = "queued"
  /\ \A i, j \in DOMAIN queue : queue[i] = queue[j] => i = j
  /\ \A f \in fetches : \A k \in f.batch : state[k] \in {"waiting", "resolved"}
  /\ \A f, g \in fetches : f.batch \cap g.batch # {} => f.batch = g.batch
  /\ \A f, g \in fetches : f.batch = g.batch /\ f.sale = g.sale => f = g

IInv == TypesOK /\ SizesOK /\ AnswersOK /\ BatchesWhole /\ KeysOnce /\ KeysFindTheirLots

LEMMA KeyType ==
  ASSUME NEW k \in Keys
  PROVE  k = <<k[1], k[2]>> /\ k[1] \in Artworks \cup Slugs /\ k[2] \in Sales
  BY DEF Keys

LEMMA InitIInv == Init => IInv
  BY SaleArtworkAssumption DEF Init, IInv, TypesOK, SizesOK, AnswersOK, BatchesWhole, KeysOnce,
     KeysFindTheirLots, FindsOwnLot, UndefinedHasItsReason

LEMMA LoadIInv ==
  ASSUME IInv, NEW k \in Keys, Load(k)
  PROVE  IInv'
<1> USE DEF IInv, Load
<1>1. queue' = Append(queue, k) /\ queue \in Seq(Keys)
  BY DEF TypesOK
<1>2. TypesOK'
  BY DEF TypesOK
<1>3. KeysOnce'
  <2>1. \A i \in DOMAIN queue' : queue'[i] = IF i = Len(queue) + 1 THEN k ELSE queue[i]
    BY <1>1
  <2>2. DOMAIN queue' = DOMAIN queue \cup {Len(queue) + 1} /\ Len(queue) + 1 \notin DOMAIN queue
    BY <1>1
  <2>3. \A i \in DOMAIN queue : queue[i] # k
    BY DEF KeysOnce
  <2>4. \A j \in Keys : state'[j] = IF j = k THEN "queued" ELSE state[j]
    BY DEF TypesOK
  <2>5. \A i \in DOMAIN queue : queue[i] \in Keys
    BY <1>1
  <2>6. \A i \in DOMAIN queue' : state'[queue'[i]] = "queued"
    BY <2>1, <2>2, <2>4, <2>5 DEF KeysOnce
  <2>7. \A i, j \in DOMAIN queue' : queue'[i] = queue'[j] => i = j
    BY <2>1, <2>2, <2>3 DEF KeysOnce
  <2>8. \A f \in fetches : \A j \in f.batch : j \in Keys
    BY DEF TypesOK, Fetches
  <2>9. \A f \in fetches' : \A j \in f.batch : state'[j] \in {"waiting", "resolved"}
    BY <2>4, <2>8 DEF KeysOnce
  <2> QED
    BY <2>6, <2>7, <2>9 DEF KeysOnce
<1>4. SizesOK' /\ AnswersOK' /\ BatchesWhole'
  BY DEF SizesOK, AnswersOK, BatchesWhole, LotsFor
<1>5. KeysFindTheirLots'
  BY DEF KeysFindTheirLots, FindsOwnLot, UndefinedHasItsReason, TypesOK
<1> QED
  BY <1>2, <1>3, <1>4, <1>5

\* The requests that the dispatch job makes.
LEMMA NewFetches ==
  ASSUME IInv, Dispatch, NEW f \in fetches' \ fetches
  PROVE  /\ f.batch \in Batches(queue) /\ f \in Fetches
         /\ f.status = "sent" /\ f.lots = {}
         /\ f = [batch |-> f.batch, sale |-> f.sale, status |-> "sent", lots |-> {}]
         /\ \E k \in f.batch : k[2] = f.sale
         /\ \A k \in f.batch : \E g \in fetches' : g.batch = f.batch /\ g.sale = k[2]
<1>1. PICK b \in Batches(queue) : f \in GroupByParams(b)
  BY DEF Dispatch
<1>2. PICK k \in b : f = [batch |-> b, sale |-> k[2], status |-> "sent", lots |-> {}]
  BY <1>1 DEF GroupByParams
<1>3. queue \in Seq(Keys) /\ b \subseteq Keys
  BY BatchSize DEF IInv, TypesOK
<1>4. f \in Fetches
  BY <1>2, <1>3, KeyType DEF Fetches
<1>5. \A j \in b : [batch |-> b, sale |-> j[2], status |-> "sent", lots |-> {}] \in fetches'
  <2>1. SUFFICES ASSUME NEW j \in b
                 PROVE  [batch |-> b, sale |-> j[2], status |-> "sent", lots |-> {}]
                          \in GroupByParams(b)
    BY Zenon DEF Dispatch
  <2> QED
    BY Zenon DEF GroupByParams
<1>6. f.batch = b /\ f.sale = k[2] /\ f.status = "sent" /\ f.lots = {}
  BY <1>2
<1>7. f = [batch |-> f.batch, sale |-> f.sale, status |-> "sent", lots |-> {}]
  BY <1>2, <1>6
<1>8. \A j \in f.batch : \E g \in fetches' : g.batch = f.batch /\ g.sale = j[2]
  BY <1>5, <1>6
<1> QED
  BY <1>1, <1>4, <1>6, <1>7, <1>8

LEMMA DispatchIInv ==
  ASSUME IInv, Dispatch
  PROVE  IInv'
<1> USE DEF IInv
<1>1. /\ queue \in Seq(Keys) /\ Len(queue) > 0
      /\ queue' = <<>> /\ value' = value /\ failures' = failures
      /\ fetches \subseteq fetches'
      /\ state \in [Keys -> {"unknown", "queued", "waiting", "resolved"}]
      /\ state' = [k \in Keys |-> IF state[k] = "queued" THEN "waiting" ELSE state[k]]
  BY DEF Dispatch, TypesOK
<1>2. TypesOK'
  BY <1>1, NewFetches DEF TypesOK
<1>3. SizesOK'
  BY <1>1, NewFetches, BatchSize DEF SizesOK
<1>4. AnswersOK'
  BY NewFetches DEF AnswersOK, LotsFor
<1>5. BatchesWhole'
  BY <1>1, NewFetches DEF BatchesWhole
<1>6. KeysOnce'
  <2>1. \A f \in fetches' \ fetches : \A k \in f.batch : k \in Keys /\ state[k] = "queued"
    BY <1>1, NewFetches, BatchKeys DEF KeysOnce
  <2>2. \A f \in fetches : \A k \in f.batch : k \in Keys /\ state[k] \in {"waiting", "resolved"}
    BY DEF KeysOnce, TypesOK, Fetches
  <2>3. \A f \in fetches' : \A k \in f.batch : state'[k] \in {"waiting", "resolved"}
    BY <1>1, <2>1, <2>2
  <2>4. ASSUME NEW f \in fetches', NEW g \in fetches', f.batch \cap g.batch # {}
        PROVE  f.batch = g.batch
    <3>1. PICK k \in f.batch \cap g.batch : TRUE
      BY <2>4
    <3>2. CASE f \in fetches /\ g \in fetches
      BY <2>4, <3>2 DEF KeysOnce
    <3>3. CASE f \notin fetches /\ g \notin fetches
      BY <1>1, <3>1, <3>3, NewFetches, BatchesDisjoint DEF KeysOnce
    <3>4. f \in fetches <=> g \in fetches
      BY <2>1, <2>2, <3>1
    <3> QED
      BY <3>2, <3>3, <3>4
  <2>5. ASSUME NEW f \in fetches', NEW g \in fetches', f.batch = g.batch, f.sale = g.sale
        PROVE  f = g
    <3>1. f.batch # {} /\ g.batch # {}
      BY <1>3 DEF SizesOK
    <3>2. CASE f \in fetches /\ g \in fetches
      BY <2>5, <3>2 DEF KeysOnce
    <3>3. CASE f \notin fetches /\ g \notin fetches
      BY <2>5, <3>3, NewFetches
    <3>4. f \in fetches <=> g \in fetches
      BY <2>1, <2>2, <2>5, <3>1
    <3> QED
      BY <3>2, <3>3, <3>4
  <2> QED
    BY <1>1, <2>3, <2>4, <2>5 DEF KeysOnce
<1>7. KeysFindTheirLots'
  BY <1>1 DEF KeysFindTheirLots, FindsOwnLot, UndefinedHasItsReason
<1> QED
  BY <1>2, <1>3, <1>4, <1>5, <1>6, <1>7

\* A request settles: it stays the only one of its batch for its sale.
LEMMA SettleIInv ==
  ASSUME IInv, NEW f \in fetches, f.status = "sent", NEW g \in Fetches,
         g.batch = f.batch, g.sale = f.sale, Settle(f, g),
         g.status = "answered" => g.lots = LotsFor(f),
         g.status # "answered" => g.lots = {},
         UNCHANGED <<queue, state, value>>, failures' \in 0..MaxFailures
  PROVE  IInv'
<1> USE DEF IInv
<1>1. fetches' = (fetches \ {f}) \cup {g}
  BY DEF Settle
<1>2. TypesOK'
  BY <1>1 DEF TypesOK
<1>3. SizesOK' /\ AnswersOK'
  BY <1>1 DEF SizesOK, AnswersOK, LotsFor
<1>4. BatchesWhole'
  <2>1. ASSUME NEW h \in fetches', NEW k \in h.batch
        PROVE  \E e \in fetches' : e.batch = h.batch /\ e.sale = k[2]
    <3>1. PICK h0 \in fetches : h0.batch = h.batch
      BY <1>1, <2>1
    <3>2. PICK e0 \in fetches : e0.batch = h0.batch /\ e0.sale = k[2]
      BY <2>1, <3>1 DEF BatchesWhole
    <3>3. CASE e0 = f
      BY <1>1, <3>1, <3>2, <3>3
    <3>4. CASE e0 # f
      BY <1>1, <3>1, <3>2, <3>4
    <3> QED
      BY <3>3, <3>4
  <2> QED
    BY <2>1 DEF BatchesWhole
<1>5. KeysOnce'
  <2>1. \A h \in fetches' : \A k \in h.batch : state'[k] \in {"waiting", "resolved"}
    BY <1>1 DEF KeysOnce
  <2>2. \A h, e \in fetches' : h.batch \cap e.batch # {} => h.batch = e.batch
    BY <1>1 DEF KeysOnce
  <2>3. ASSUME NEW h \in fetches', NEW e \in fetches', h.batch = e.batch, h.sale = e.sale
        PROVE  h = e
    <3>1. \A x \in fetches : x.batch = f.batch /\ x.sale = f.sale => x = f
      BY DEF KeysOnce
    <3>2. CASE h = g \/ e = g
      BY <1>1, <2>3, <3>1, <3>2
    <3>3. CASE h # g /\ e # g
      BY <1>1, <2>3, <3>3 DEF KeysOnce
    <3> QED
      BY <3>2, <3>3
  <2> QED
    BY <2>1, <2>2, <2>3 DEF KeysOnce
<1>6. KeysFindTheirLots'
  BY <1>1 DEF KeysFindTheirLots, FindsOwnLot, UndefinedHasItsReason
<1> QED
  BY <1>2, <1>3, <1>4, <1>5, <1>6

LEMMA AnswerIInv ==
  ASSUME IInv, NEW f \in fetches, Answer(f)
  PROVE  IInv'
<1> DEFINE g == [f EXCEPT !.status = "answered", !.lots = LotsFor(f)]
<1>1. /\ g \in Fetches /\ g.batch = f.batch /\ g.sale = f.sale
      /\ g.status = "answered" /\ g.lots = LotsFor(f)
  BY DEF IInv, TypesOK, Fetches, LotsFor
<1> HIDE DEF g
<1>2. f.status = "sent" /\ Settle(f, g) /\ UNCHANGED <<queue, state, value>>
      /\ failures' \in 0..MaxFailures
  BY DEF Answer, g, IInv, TypesOK
<1> QED
  BY <1>1, <1>2, SettleIInv

LEMMA FailIInv ==
  ASSUME IInv, NEW f \in fetches, Fail(f)
  PROVE  IInv'
<1> DEFINE g == [f EXCEPT !.status = "failed"]
<1>1. g \in Fetches /\ g.batch = f.batch /\ g.sale = f.sale /\ g.status = "failed"
      /\ (f.status = "sent" => g.lots = {})
  BY DEF IInv, TypesOK, AnswersOK, Fetches
<1> HIDE DEF g
<1>2. f.status = "sent" /\ Settle(f, g) /\ UNCHANGED <<queue, state, value>>
      /\ failures' \in 0..MaxFailures
  BY SaleArtworkAssumption DEF Fail, g, IInv, TypesOK
<1> QED
  BY <1>1, <1>2, SettleIInv

\* What a settled batch finds for one of its keys.
LEMMA Found ==
  ASSUME IInv, NEW f \in fetches, Settled(f.batch), NEW k \in f.batch
  PROVE  /\ Find(k, f.batch) \in {k, Undefined} /\ Find(k, f.batch) \in Lots \cup {Undefined}
         /\ Find(k, f.batch) = Undefined =>
              \/ k \notin Lots
              \/ \E g \in fetches : k \in g.batch /\ g.sale = k[2] /\ g.status = "failed"
<1>1. k \in Keys /\ f \in Fetches
  BY DEF IInv, TypesOK, Fetches
<1>2. PICK g \in fetches : g.batch = f.batch /\ g.sale = k[2]
  BY DEF IInv, BatchesWhole
<1>3. g.status \in {"answered", "failed"}
  BY <1>2 DEF Settled, IInv, TypesOK, Fetches
<1>4. FetchesFor(k, f.batch) = {g}
  BY <1>2 DEF FetchesFor, IInv, KeysOnce
<1>5. Find(k, f.batch) = IF k[1] \in g.lots THEN k ELSE Undefined
  <2>1. (\E h \in {g} : k[1] \in h.lots) <=> k[1] \in g.lots
    OBVIOUS
  <2>2. k[1] \in g.lots => (CHOOSE h \in {g} : k[1] \in h.lots) = g
    OBVIOUS
  <2> QED
    BY <1>1, <1>2, <1>4, <2>1, <2>2, KeyType DEF Find
<1>6. CASE g.status = "failed"
  <2>1. g.lots = {}
    BY <1>6 DEF IInv, AnswersOK
  <2> QED
    BY <1>2, <1>5, <1>6, <2>1
<1>7. CASE g.status = "answered"
  <2>1. g.lots = LotsFor(g)
    BY <1>7 DEF IInv, AnswersOK
  <2>2. k[1] \in g.lots => k \in Lots
    BY <1>1, <1>2, <2>1, KeyType DEF LotsFor
  <2>3. k \in Lots => k[1] \in g.lots
    <3>1. SUFFICES ASSUME k \in Lots PROVE k[1] \in LotsFor(g)
      BY <2>1
    <3>2. k[1] \in Artworks /\ k[1] \notin Slugs /\ <<k[1], k[2]>> \in Lots
      BY <1>1, <3>1, KeyType, SaleArtworkAssumption
    <3> QED
      BY <1>2, <3>2 DEF LotsFor, Denoted
  <2> QED
    BY <1>5, <2>2, <2>3, SaleArtworkAssumption
<1> QED
  BY <1>3, <1>6, <1>7

LEMMA DistributeIInv ==
  ASSUME IInv, NEW f \in fetches, Distribute(f.batch)
  PROVE  IInv'
<1> USE DEF IInv
<1>1. /\ Settled(f.batch) /\ f.batch \subseteq Keys /\ UNCHANGED <<queue, fetches, failures>>
      /\ state' = [k \in Keys |-> IF k \in f.batch THEN "resolved" ELSE state[k]]
      /\ value' = [k \in Keys |-> IF k \in f.batch THEN Find(k, f.batch) ELSE value[k]]
  BY DEF Distribute, TypesOK, Fetches
<1>2. TypesOK'
  BY <1>1, Found DEF TypesOK
<1>3. SizesOK' /\ AnswersOK' /\ BatchesWhole'
  BY <1>1 DEF SizesOK, AnswersOK, BatchesWhole, LotsFor
<1>4. KeysOnce'
  <2>1. \A i \in DOMAIN queue : queue[i] \in Keys /\ queue[i] \notin f.batch
    BY DEF KeysOnce, TypesOK
  <2>2. \A h \in fetches : h.batch \subseteq Keys
    BY DEF TypesOK, Fetches
  <2> QED
    BY <1>1, <2>1, <2>2 DEF KeysOnce
<1>5. KeysFindTheirLots'
  BY <1>1, Found DEF KeysFindTheirLots, FindsOwnLot, UndefinedHasItsReason
<1> QED
  BY <1>2, <1>3, <1>4, <1>5

LEMMA StutterIInv ==
  ASSUME IInv, UNCHANGED vars
  PROVE  IInv'
  BY DEF vars, IInv, TypesOK, SizesOK, AnswersOK, LotsFor, BatchesWhole, KeysOnce,
     KeysFindTheirLots, FindsOwnLot, UndefinedHasItsReason

\* The invariant holds in every reachable state.
THEOREM SaleInvariance == Spec => []IInv
<1>1. ASSUME IInv, [Next]_vars PROVE IInv'
  BY <1>1, LoadIInv, DispatchIInv, AnswerIInv, FailIInv, DistributeIInv, StutterIInv DEF Next
<1> QED
  BY <1>1, InitIInv, PTL DEF Spec

\* Types are kept and no batch grows beyond its size.
THEOREM SaleTypeCorrect == Spec => []TypeOK
<1>1. IInv => TypeOK
  BY DEF IInv, TypesOK, SizesOK, Fetches, TypeOK
<1> QED
  BY <1>1, SaleInvariance, PTL

\* Each key gets its own lot, and a failure only reaches the keys of its sale.
THEOREM LotsAreOwn == Spec => []KeysFindTheirLots
  BY SaleInvariance, PTL DEF IInv

\* Gravity is asked for a key once: for a lot once by each name it is looked up by.
THEOREM KeysAskedOnce == Spec => []AsksOnce
<1>1. IInv => AsksOnce
  BY DEF IInv, KeysOnce, AsksOnce
<1> QED
  BY <1>1, SaleInvariance, PTL
=============================================================================
