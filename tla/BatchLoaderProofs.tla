-------------------------- MODULE BatchLoaderProofs --------------------------
(***************************************************************************)
(* Matching results to keys by position is right, for any number of keys,  *)
(* chunks, groups and failures.                                            *)
(***************************************************************************)
EXTENDS BatchLoader, FiniteSetTheorems, TLAPS

(***************************************************************************)
(* Groups and positions                                                    *)
(***************************************************************************)

LEMMA GroupFinite ==
  ASSUME NEW K, NEW chunk \in Seq(K), NEW p
  PROVE  /\ Group(chunk, p) \subseteq 1..Len(chunk)
         /\ IsFiniteSet(Group(chunk, p)) /\ Cardinality(Group(chunk, p)) \in Nat
<1>1. Group(chunk, p) \subseteq 1..Len(chunk)
  BY DEF Group
<1>2. IsFiniteSet(1..Len(chunk))
  BY FS_Interval
<1> QED
  BY <1>1, <1>2, FS_Subset, FS_CardinalityType

\* The rank of a position of a finite group is one of 1..Cardinality(group).
LEMMA RankType ==
  ASSUME NEW group \in SUBSET Nat, IsFiniteSet(group), NEW i \in group
  PROVE  Rank(group, i) \in 1..Cardinality(group)
<1> DEFINE below == {j \in group : j <= i}
<1>1. IsFiniteSet(below) /\ Cardinality(below) <= Cardinality(group)
  BY FS_Subset
<1>2. Cardinality(below) \in Nat /\ Cardinality(group) \in Nat
  BY <1>1, FS_CardinalityType
<1>3. Cardinality(below) # 0
  <2>1. i \in below
    OBVIOUS
  <2> QED
    BY <1>1, <2>1, FS_EmptySet
<1> QED
  BY <1>1, <1>2, <1>3 DEF Rank

\* Two positions have different ranks.
LEMMA RankGrows ==
  ASSUME NEW group \in SUBSET Nat, IsFiniteSet(group),
         NEW i \in group, NEW k \in group, i < k
  PROVE  Rank(group, i) < Rank(group, k)
<1> DEFINE upTo(n) == {j \in group : j <= n}
<1>1. upTo(i) \subseteq upTo(k) /\ k \in upTo(k) /\ k \notin upTo(i)
  <2>1. i \in Nat /\ k \in Nat /\ \A j \in group : j \in Nat
    OBVIOUS
  <2>2. \A j \in group : j <= i => j <= k
    BY <2>1
  <2>3. k <= k /\ ~(k <= i)
    BY <2>1
  <2> QED
    BY <2>2, <2>3
<1>2. IsFiniteSet(upTo(i)) /\ IsFiniteSet(upTo(k))
  BY FS_Subset
<1>3. Cardinality(upTo(i)) \in Nat /\ Cardinality(upTo(k)) \in Nat
  BY <1>2, FS_CardinalityType
<1>4. Cardinality(upTo(i)) <= Cardinality(upTo(k))
      /\ Cardinality(upTo(i)) # Cardinality(upTo(k))
  <2> HIDE DEF upTo
  <2> QED
    BY <1>1, <1>2, FS_Subset
<1> QED
  BY <1>3, <1>4 DEF Rank

LEMMA RankInjective ==
  ASSUME NEW group \in SUBSET Nat, IsFiniteSet(group),
         NEW i \in group, NEW k \in group, Rank(group, i) = Rank(group, k)
  PROVE  i = k
<1>1. Rank(group, i) \in Nat
  BY RankType, FS_CardinalityType
<1>2. ~(i < k) /\ ~(k < i)
  BY <1>1, RankGrows
<1> QED
  BY <1>2

\* Every number up to the size of a group is the rank of a position.
LEMMA RankOnto ==
  ASSUME NEW group \in SUBSET Nat, IsFiniteSet(group), NEW n \in 1..Cardinality(group)
  PROVE  \E i \in group : Rank(group, i) = n
<1> DEFINE rank == [i \in group |-> Rank(group, i)]
           all == 1..Cardinality(group)
<1>1. Cardinality(group) \in Nat
  BY FS_CardinalityType
<1>2. IsFiniteSet(all) /\ Cardinality(all) = Cardinality(group)
  BY <1>1, FS_Interval
<1>3. rank \in Injection(group, all)
  BY RankType, RankInjective DEF Injection, IsInjective
<1>4. rank \in Surjection(group, all)
  <2> HIDE DEF rank, all
  <2> QED
    BY <1>2, <1>3, FS_Injection
<1> QED
  BY <1>4 DEF Surjection

\* The id at the place of a key is the key's own.
LEMMA IdAtPlace ==
  ASSUME NEW K, NEW chunk \in Seq(K), NEW k \in DOMAIN chunk,
         \A i, j \in DOMAIN chunk : chunk[i] = chunk[j] => i = j
  PROVE  LET ids == GroupIds(chunk, chunk[k].params)
         IN  /\ Place(chunk, chunk[k]) \in 1..Len(ids)
             /\ ids[Place(chunk, chunk[k])] = chunk[k].id
<1> DEFINE group == Group(chunk, chunk[k].params)
<1>1. group \in SUBSET Nat /\ IsFiniteSet(group) /\ Cardinality(group) \in Nat /\ k \in group
  <2>1. k \in group
    BY DEF Group
  <2> QED
    BY <2>1, GroupFinite
<1>2. (CHOOSE i \in DOMAIN chunk : chunk[i] = chunk[k]) = k
  OBVIOUS
<1>3. Place(chunk, chunk[k]) = Rank(group, k)
  BY <1>2 DEF Place
<1>4. Rank(group, k) \in 1..Cardinality(group)
  BY <1>1, RankType
<1>5. (CHOOSE i \in group : Rank(group, i) = Rank(group, k)) = k
  <2> HIDE DEF group
  <2> QED
    BY <1>1, RankInjective
<1> HIDE DEF group
<1>6. GroupIds(chunk, chunk[k].params)
        = [n \in 1..Cardinality(group) |-> chunk[CHOOSE i \in group : Rank(group, i) = n].id]
  BY DEF GroupIds, ToId, group
<1>7. Len(GroupIds(chunk, chunk[k].params)) = Cardinality(group)
  BY <1>1, <1>6
<1> QED
  BY <1>3, <1>4, <1>5, <1>6, <1>7, ZenonT(40)

\* Every id of a group is that of a key with the parameters.
LEMMA IdsOfGroup ==
  ASSUME NEW K, NEW chunk \in Seq(K), NEW p
  PROVE  LET ids == GroupIds(chunk, p)
         IN  /\ DOMAIN ids = 1..Len(ids) /\ Len(ids) = Cardinality(Group(chunk, p))
             /\ Len(ids) \in Nat
             /\ \A n \in DOMAIN ids : \E i \in DOMAIN chunk :
                  chunk[i].params = p /\ ids[n] = chunk[i].id
<1> DEFINE group == Group(chunk, p)
<1>1. /\ group \in SUBSET Nat /\ group \subseteq DOMAIN chunk
      /\ IsFiniteSet(group) /\ Cardinality(group) \in Nat
  BY GroupFinite
<1>2. \A i \in group : chunk[i].params = p
  BY DEF Group
<1> HIDE DEF group
<1>3. GroupIds(chunk, p)
        = [n \in 1..Cardinality(group) |-> chunk[CHOOSE i \in group : Rank(group, i) = n].id]
  BY DEF GroupIds, ToId, group
<1>4. DOMAIN GroupIds(chunk, p) = 1..Cardinality(group)
      /\ Len(GroupIds(chunk, p)) = Cardinality(group)
  BY <1>1, <1>3
<1>5. ASSUME NEW n \in 1..Cardinality(group)
      PROVE  \E i \in DOMAIN chunk : chunk[i].params = p /\ GroupIds(chunk, p)[n] = chunk[i].id
  <2>1. PICK i \in group : Rank(group, i) = n
    BY <1>1, RankOnto
  <2>2. (CHOOSE j \in group : Rank(group, j) = n) \in group
    BY <2>1
  <2> QED
    BY <1>1, <1>2, <1>3, <2>2
<1> QED
  BY <1>1, <1>4, <1>5 DEF group

(***************************************************************************)
(* Chunks                                                                  *)
(***************************************************************************)

LEMMA BatchSizeType == MaxBatchSize \in Nat \ {0}
  BY BatchAssumption

\* The n-th chunk of a queue.
ChunkAt(q, n) ==
  SubSeq(q, n * MaxBatchSize + 1,
         IF (n + 1) * MaxBatchSize < Len(q) THEN (n + 1) * MaxBatchSize ELSE Len(q))

LEMMA SubSeqAt ==
  ASSUME NEW K, NEW q \in Seq(K), NEW m \in Nat, NEW n \in Nat, 1 <= m, n <= Len(q),
         NEW i \in Nat, 1 <= i, m + i - 1 <= n
  PROVE  SubSeq(q, m, n)[i] = q[m + i - 1]
  OBVIOUS

\* What the n-th chunk holds.
LEMMA ChunkAtShape ==
  ASSUME NEW K, NEW q \in Seq(K), Len(q) > 0, NEW n \in 0..((Len(q) - 1) \div MaxBatchSize)
  PROVE  /\ n \in Nat /\ n * MaxBatchSize \in Nat
         /\ ChunkAt(q, n) \in Seq(K) /\ Len(ChunkAt(q, n)) \in 1..MaxBatchSize
         /\ \A i \in DOMAIN ChunkAt(q, n) : /\ n * MaxBatchSize + i \in DOMAIN q
                                            /\ ChunkAt(q, n)[i] = q[n * MaxBatchSize + i]
<1> DEFINE from == n * MaxBatchSize
           to == (n + 1) * MaxBatchSize
           upTo == IF to < Len(q) THEN to ELSE Len(q)
<1>1. /\ n \in Nat /\ from \in Nat /\ to = from + MaxBatchSize /\ Len(q) \in Nat
      /\ MaxBatchSize \in Nat \ {0}
  BY BatchSizeType
<1>2. from <= Len(q) - 1
  <2>1. ((Len(q) - 1) \div MaxBatchSize) * MaxBatchSize <= Len(q) - 1
    BY BatchSizeType
  <2>2. (Len(q) - 1) \div MaxBatchSize \in Nat
    BY BatchSizeType
  <2>3. n * MaxBatchSize <= ((Len(q) - 1) \div MaxBatchSize) * MaxBatchSize
    BY <1>1, <2>2
  <2> HIDE DEF from
  <2> QED
    BY <2>1, <2>2, <2>3, <1>1 DEF from
<1>3. ChunkAt(q, n) = SubSeq(q, from + 1, upTo)
  BY DEF ChunkAt
<1> HIDE DEF from, to
<1>4. upTo \in Nat /\ from + 1 <= upTo /\ upTo <= Len(q) /\ upTo <= from + MaxBatchSize
  BY <1>1, <1>2
<1> HIDE DEF upTo
<1>5. SubSeq(q, from + 1, upTo) \in Seq(K) /\ Len(SubSeq(q, from + 1, upTo)) = upTo - from
  BY <1>1, <1>4
<1>6. ASSUME NEW i \in 1..(upTo - from)
      PROVE  SubSeq(q, from + 1, upTo)[i] = q[from + i] /\ from + i \in DOMAIN q
  <2>1. i \in Nat /\ 1 <= i /\ from + i <= upTo
    BY <1>1, <1>4
  <2>2. SubSeq(q, from + 1, upTo)[i] = q[(from + 1) + i - 1]
    <3>1. from + 1 \in Nat /\ 1 <= from + 1 /\ (from + 1) + i - 1 <= upTo
      BY <1>1, <1>4, <2>1
    <3> QED
      BY <1>1, <1>4, <2>1, <3>1, SubSeqAt
  <2>3. (from + 1) + i - 1 = from + i
    BY <1>1, <2>1
  <2>4. SubSeq(q, from + 1, upTo)[i] = q[from + i]
    BY ONLY <2>2, <2>3, Zenon
  <2>5. from + i \in 1..Len(q) /\ DOMAIN q = 1..Len(q)
    BY <1>1, <1>4, <2>1
  <2>6. from + i \in DOMAIN q
    BY <2>5
  <2> QED
    BY <2>4, <2>6
<1>7. /\ ChunkAt(q, n) \in Seq(K) /\ Len(ChunkAt(q, n)) \in 1..MaxBatchSize
      /\ DOMAIN ChunkAt(q, n) = 1..(upTo - from)
  BY <1>1, <1>3, <1>4, <1>5
<1>8. \A i \in DOMAIN ChunkAt(q, n) : from + i \in DOMAIN q /\ ChunkAt(q, n)[i] = q[from + i]
  BY <1>3, <1>6, <1>7
<1> QED
  BY <1>1, <1>7, <1>8 DEF from

\* A position of the queue is in one chunk only.
LEMMA OneChunk ==
  ASSUME NEW n \in Nat, NEW m \in Nat, NEW i \in 1..MaxBatchSize, NEW j \in 1..MaxBatchSize,
         n * MaxBatchSize + i = m * MaxBatchSize + j
  PROVE  n = m
<1>1. ASSUME NEW a \in Nat, NEW b \in Nat, a < b
      PROVE  a * MaxBatchSize + MaxBatchSize <= b * MaxBatchSize
  <2>1. a + 1 <= b
    BY <1>1
  <2>2. (a + 1) * MaxBatchSize <= b * MaxBatchSize
    BY <2>1, BatchSizeType
  <2> QED
    BY <2>2, BatchSizeType
<1>2. n * MaxBatchSize \in Nat /\ m * MaxBatchSize \in Nat /\ MaxBatchSize \in Nat
  BY BatchSizeType
<1>3. ~(n < m)
  BY <1>1, <1>2
<1>4. ~(m < n)
  BY <1>1, <1>2
<1> QED
  BY <1>3, <1>4

\* The chunks of a queue without repetition are without repetition, share no
\* key, and hold only what the queue holds.
LEMMA ChunkShape ==
  ASSUME NEW K, NEW q \in Seq(K), Len(q) > 0, NEW c \in Chunks(q)
  PROVE  /\ c \in Seq(K) /\ Len(c) \in 1..MaxBatchSize
         /\ \A i \in DOMAIN c : \E k \in DOMAIN q : c[i] = q[k]
<1>1. PICK n \in 0..((Len(q) - 1) \div MaxBatchSize) : c = ChunkAt(q, n)
  BY DEF Chunks, ChunkAt
<1> QED
  BY <1>1, ChunkAtShape

LEMMA ChunksDisjoint ==
  ASSUME NEW K, NEW q \in Seq(K), Len(q) > 0,
         \A i, j \in DOMAIN q : q[i] = q[j] => i = j,
         NEW c \in Chunks(q), NEW d \in Chunks(q),
         NEW i \in DOMAIN c, NEW j \in DOMAIN d, c[i] = d[j]
  PROVE  c = d /\ i = j
<1>1. PICK n \in 0..((Len(q) - 1) \div MaxBatchSize) : c = ChunkAt(q, n)
  BY DEF Chunks, ChunkAt
<1>2. PICK m \in 0..((Len(q) - 1) \div MaxBatchSize) : d = ChunkAt(q, m)
  BY DEF Chunks, ChunkAt
<1>3. /\ n \in Nat /\ n * MaxBatchSize \in Nat /\ c[i] = q[n * MaxBatchSize + i]
      /\ n * MaxBatchSize + i \in DOMAIN q /\ i \in 1..MaxBatchSize
  <2>1. c \in Seq(K) /\ Len(c) \in 1..MaxBatchSize
    BY <1>1, ChunkAtShape
  <2>2. i \in 1..MaxBatchSize
    BY <2>1, BatchSizeType
  <2> QED
    BY <1>1, <2>2, ChunkAtShape
<1>4. /\ m \in Nat /\ m * MaxBatchSize \in Nat /\ d[j] = q[m * MaxBatchSize + j]
      /\ m * MaxBatchSize + j \in DOMAIN q /\ j \in 1..MaxBatchSize
  <2>1. d \in Seq(K) /\ Len(d) \in 1..MaxBatchSize
    BY <1>2, ChunkAtShape
  <2>2. j \in 1..MaxBatchSize
    BY <2>1, BatchSizeType
  <2> QED
    BY <1>2, <2>2, ChunkAtShape
<1>5. n * MaxBatchSize + i = m * MaxBatchSize + j
  BY <1>3, <1>4
<1>6. n = m
  BY <1>3, <1>4, <1>5, OneChunk
<1>7. i = j
  BY <1>3, <1>4, <1>5, <1>6
<1> QED
  BY <1>1, <1>2, <1>6, <1>7

(***************************************************************************)
(* The inductive invariant                                                 *)
(***************************************************************************)

AnyKey == [id : Ids, params : Params]

BatchRecords == [loader : BatchLoaders, keys : Seq(AnyKey)]

Requests == [path : {"sale", "sales"}, params : Params, ids : Seq(Ids)]

\* The array gravity answers with.
Full(r) == [i \in 1..Len(r.ids) |-> IF r.ids[i] \in Missing THEN Null ELSE r.ids[i]]

\* Types, and chunks of the right length.
TypesOK ==
  /\ queue \in [BatchLoaders -> Seq(AnyKey)]
  /\ \A dl \in BatchLoaders : \A i \in DOMAIN queue[dl] : queue[dl][i] \in Keys(dl)
  /\ batches \subseteq BatchRecords
  /\ \A b \in batches : /\ Len(b.keys) \in 1..MaxBatchSize
                        /\ \A i \in DOMAIN b.keys : b.keys[i] \in Keys(b.loader)
  /\ state \in [Loads -> States]
  /\ value \in [Loads -> Ids \cup {Null, Undefined}]
  /\ failures \in Nat

\* A key of a request, as the loader dl has it, has its result.
Got(dl, r, i) ==
  /\ <<dl, [id |-> r.ids[i], params |-> r.params]>> \in Loads
  /\ state[<<dl, [id |-> r.ids[i], params |-> r.params]>>] = "resolved"

\* One of the loaders has taken every result of the request.
Emptied(r) == \E dl \in BatchLoaders : \A i \in DOMAIN r.ids : Got(dl, r, i)

\* An array is as gravity sent it, or empty because one loader took it all.
ArraysOK ==
  \A r \in DOMAIN items :
    /\ r \in Requests
    /\ items[r] = Null \/ items[r] = Full(r) \/ (items[r] = <<>> /\ Emptied(r))

\* A key waits in one place.
OnePlace ==
  /\ \A dl \in BatchLoaders : \A i \in DOMAIN queue[dl] : state[<<dl, queue[dl][i]>>] = "queued"
  /\ \A dl \in BatchLoaders : \A i, j \in DOMAIN queue[dl] : queue[dl][i] = queue[dl][j] => i = j
  /\ \A b \in batches : \A i \in DOMAIN b.keys : state[<<b.loader, b.keys[i]>>] = "waiting"
  /\ \A b, c \in batches : \A i \in DOMAIN b.keys : \A j \in DOMAIN c.keys :
       b.loader = c.loader /\ b.keys[i] = c.keys[j] => b = c /\ i = j

\* The requests of a batch are under way.
UnderWay == \A b \in batches : RequestsOf(b) \subseteq DOMAIN items

IInv == /\ TypesOK /\ ArraysOK /\ OnePlace /\ UnderWay
        /\ NeverAnothersSale /\ EmptyHandedOnlyBySharing

LEMMA KeysType == \A dl \in BatchLoaders : Keys(dl) \subseteq AnyKey
  BY BatchAssumption DEF Keys, AnyKey

LEMMA LoadsType ==
  /\ \A dl \in BatchLoaders : \A key \in Keys(dl) : <<dl, key>> \in Loads
  /\ \A x \in Loads : x[1] \in BatchLoaders /\ x[2] \in Keys(x[1]) /\ x = <<x[1], x[2]>>
  BY DEF Loads

\* The request of a group asks for the ids of its keys with their parameters.
LEMMA RequestType ==
  ASSUME NEW dl, NEW chunk \in Seq(AnyKey), NEW p \in Params
  PROVE  LET r == RequestOf(dl, chunk, p)
         IN  r \in Requests /\ r.params = p /\ r.ids = GroupIds(chunk, p)
<1> DEFINE ids == GroupIds(chunk, p)
<1>1. /\ DOMAIN ids = 1..Len(ids) /\ Len(ids) = Cardinality(Group(chunk, p))
      /\ Len(ids) \in Nat
      /\ \A n \in DOMAIN ids : \E i \in DOMAIN chunk :
           chunk[i].params = p /\ ids[n] = chunk[i].id
  BY IdsOfGroup
<1>2. \A i \in DOMAIN chunk : chunk[i].id \in Ids
  <2>1. \A i \in DOMAIN chunk : chunk[i] \in AnyKey
    OBVIOUS
  <2>2. \A k \in AnyKey : k.id \in Ids
    BY DEF AnyKey
  <2> QED
    BY <2>1, <2>2
<1>3. ids \in Seq(Ids)
  <2>1. ids = [n \in 1..Len(ids) |-> ids[n]]
    BY <1>1 DEF GroupIds
  <2>2. \A n \in 1..Len(ids) : ids[n] \in Ids
    BY <1>1, <1>2
  <2> HIDE DEF ids
  <2>3. ids \in [1..Len(ids) -> Ids]
    BY <2>1, <2>2
  <2> QED
    BY <1>1, <2>3
<1> QED
  BY <1>3 DEF RequestOf, RequestFor, Requests

\* A step that resolves nothing keeps what was resolved.
LEMMA ResolvedKept ==
  ASSUME IInv, value' = value,
         \A x \in Loads : state[x] = "resolved" <=> state'[x] = "resolved"
  PROVE  /\ NeverAnothersSale' /\ EmptyHandedOnlyBySharing'
         /\ \A r : Emptied(r) => Emptied(r)'
<1>1. NeverAnothersSale'
  BY DEF IInv, NeverAnothersSale
<1>2. EmptyHandedOnlyBySharing'
  BY DEF IInv, EmptyHandedOnlyBySharing
<1>3. \A r : Emptied(r) => Emptied(r)'
  BY DEF Emptied, Got
<1> QED
  BY <1>1, <1>2, <1>3

LEMMA InitIInv == Init => IInv
<1> SUFFICES ASSUME Init PROVE IInv
  OBVIOUS
<1> USE DEF Init
<1>1. TypesOK
  BY DEF TypesOK, States
<1>2. ArraysOK /\ UnderWay /\ OnePlace
  BY DEF ArraysOK, UnderWay, OnePlace
<1>3. NeverAnothersSale /\ EmptyHandedOnlyBySharing
  BY DEF NeverAnothersSale, EmptyHandedOnlyBySharing
<1> QED
  BY <1>1, <1>2, <1>3 DEF IInv

LEMMA LoadIInv ==
  ASSUME IInv, NEW dl \in BatchLoaders, NEW key \in Keys(dl), Load(dl, key)
  PROVE  IInv'
<1> USE DEF IInv
<1> DEFINE x == <<dl, key>>
<1>1. /\ x \in Loads /\ key \in AnyKey /\ state[x] \in {"none", "rejected"}
      /\ state' = [state EXCEPT ![x] = "queued"]
      /\ queue' = [queue EXCEPT ![dl] = Append(queue[dl], key)]
      /\ UNCHANGED <<batches, value, items, failures>>
  BY KeysType, LoadsType DEF Load
<1> HIDE DEF x
<1>2. /\ \A y \in Loads : state'[y] = IF y = x THEN "queued" ELSE state[y]
      /\ \A e \in BatchLoaders :
           queue'[e] = IF e = dl THEN Append(queue[dl], key) ELSE queue[e]
      /\ queue[dl] \in Seq(AnyKey)
  BY <1>1 DEF TypesOK
<1>3. DOMAIN Append(queue[dl], key) = DOMAIN queue[dl] \cup {Len(queue[dl]) + 1}
      /\ Len(queue[dl]) + 1 \notin DOMAIN queue[dl]
      /\ \A i \in DOMAIN Append(queue[dl], key) :
           Append(queue[dl], key)[i] = IF i = Len(queue[dl]) + 1 THEN key ELSE queue[dl][i]
  BY <1>2
<1>4. TypesOK'
  <2>1. queue' \in [BatchLoaders -> Seq(AnyKey)]
    BY <1>1, <1>2 DEF TypesOK
  <2>2. \A e \in BatchLoaders : \A i \in DOMAIN queue'[e] : queue'[e][i] \in Keys(e)
    BY <1>2, <1>3, ZenonT(40) DEF TypesOK
  <2>3. state' \in [Loads -> States]
    BY <1>1 DEF TypesOK, States
  <2> QED
    BY <1>1, <2>1, <2>2, <2>3 DEF TypesOK
<1>5. /\ NeverAnothersSale' /\ EmptyHandedOnlyBySharing'
      /\ \A r : Emptied(r) => Emptied(r)'
  BY <1>1, <1>2, ResolvedKept
<1>6. ArraysOK' /\ UnderWay'
  BY <1>1, <1>5 DEF ArraysOK, UnderWay, Full, RequestsOf, RequestOf, GroupIds, Group, Rank
<1>7. OnePlace'
  <2>1. \A e \in BatchLoaders : \A i \in DOMAIN queue[e] :
          <<e, queue[e][i]>> \in Loads /\ <<e, queue[e][i]>> # x
    BY <1>1, LoadsType DEF OnePlace, TypesOK
  <2>2. \A b \in batches : \A i \in DOMAIN b.keys :
          <<b.loader, b.keys[i]>> \in Loads /\ <<b.loader, b.keys[i]>> # x
    BY <1>1, LoadsType, ZenonT(40) DEF OnePlace, TypesOK, BatchRecords
  <2>3. \A i \in DOMAIN queue[dl] : queue[dl][i] # key
    BY <2>1 DEF x
  <2>4. ASSUME NEW e \in BatchLoaders, NEW i \in DOMAIN queue'[e]
        PROVE  state'[<<e, queue'[e][i]>>] = "queued"
    <3>1. CASE e = dl /\ i = Len(queue[dl]) + 1
      <4>1. queue'[e][i] = key
        BY <1>2, <1>3, <3>1
      <4> QED
        BY <1>1, <1>2, <3>1, <4>1 DEF x
    <3>2. CASE ~(e = dl /\ i = Len(queue[dl]) + 1)
      <4>1. i \in DOMAIN queue[e] /\ queue'[e][i] = queue[e][i]
        BY <1>2, <1>3, <3>2
      <4> QED
        BY <1>2, <2>1, <4>1 DEF OnePlace
    <3> QED
      BY <3>1, <3>2
  <2>5. ASSUME NEW e \in BatchLoaders, NEW i \in DOMAIN queue'[e], NEW j \in DOMAIN queue'[e],
               queue'[e][i] = queue'[e][j]
        PROVE  i = j
    <3>1. CASE e = dl
      <4>1. /\ i \in DOMAIN queue[dl] \cup {Len(queue[dl]) + 1}
            /\ j \in DOMAIN queue[dl] \cup {Len(queue[dl]) + 1}
            /\ queue'[e][i] = IF i = Len(queue[dl]) + 1 THEN key ELSE queue[dl][i]
            /\ queue'[e][j] = IF j = Len(queue[dl]) + 1 THEN key ELSE queue[dl][j]
        BY <1>2, <1>3, <3>1
      <4>2. \A k, l \in DOMAIN queue[dl] : queue[dl][k] = queue[dl][l] => k = l
        BY DEF OnePlace
      <4> QED
        BY <2>3, <2>5, <4>1, <4>2
    <3>2. CASE e # dl
      <4>1. queue'[e] = queue[e]
        BY <1>2, <3>2
      <4>2. \A k, l \in DOMAIN queue[e] : queue[e][k] = queue[e][l] => k = l
        BY DEF OnePlace
      <4> QED
        BY <2>5, <4>1, <4>2
    <3> QED
      BY <3>1, <3>2
  <2>6. ASSUME NEW b \in batches', NEW i \in DOMAIN b.keys
        PROVE  state'[<<b.loader, b.keys[i]>>] = "waiting"
    <3>1. b \in batches
      BY <1>1
    <3>2. state[<<b.loader, b.keys[i]>>] = "waiting"
      BY <3>1 DEF OnePlace
    <3>3. state'[<<b.loader, b.keys[i]>>] = state[<<b.loader, b.keys[i]>>]
      BY <1>2, <2>2, <3>1
    <3> QED
      BY <3>2, <3>3
  <2>7. \A b, c \in batches' : \A i \in DOMAIN b.keys : \A j \in DOMAIN c.keys :
          b.loader = c.loader /\ b.keys[i] = c.keys[j] => b = c /\ i = j
    BY <1>1 DEF OnePlace
  <2> QED
    BY <2>4, <2>5, <2>6, <2>7 DEF OnePlace
<1> QED
  BY <1>4, <1>5, <1>6, <1>7

LEMMA AnswerIInv ==
  ASSUME IInv, NEW r \in DOMAIN items, Answer(r)
  PROVE  IInv'
<1> USE DEF IInv
<1>1. /\ items' = [items EXCEPT ![r] = Full(r)]
      /\ UNCHANGED <<queue, batches, state, value, failures>>
  BY DEF Answer, Full
<1>2. TypesOK' /\ OnePlace'
  BY <1>1 DEF TypesOK, OnePlace
<1>3. /\ NeverAnothersSale' /\ EmptyHandedOnlyBySharing'
      /\ \A q : Emptied(q) => Emptied(q)'
  BY <1>1, ResolvedKept
<1>4. ArraysOK'
  <2>1. \A q : Full(q)' = Full(q)
    BY DEF Full
  <2> QED
    BY <1>1, <1>3, <2>1 DEF ArraysOK
<1>5. UnderWay'
  BY <1>1 DEF UnderWay, RequestsOf
<1> QED
  BY <1>2, <1>3, <1>4, <1>5

LEMMA FailIInv ==
  ASSUME IInv, NEW r \in DOMAIN items, Fail(r)
  PROVE  IInv'
<1> USE DEF IInv
<1> DEFINE failed == {b \in batches : r \in RequestsOf(b)}
           Hit(x) == \E b \in failed : b.loader = x[1] /\ x[2] \in Range(b.keys)
<1>1. /\ failures' = failures + 1 /\ batches' = batches \ failed
      /\ state' = [x \in Loads |-> IF Hit(x) THEN "rejected" ELSE state[x]]
      /\ items' = [q \in DOMAIN items \ {r} |-> items[q]]
      /\ UNCHANGED <<queue, value>>
  BY DEF Fail
<1>2. \A x \in Loads : Hit(x) => state[x] = "waiting"
  <2>1. SUFFICES ASSUME NEW x \in Loads, NEW b \in failed, b.loader = x[1],
                        NEW i \in DOMAIN b.keys, x[2] = b.keys[i]
                 PROVE  state[x] = "waiting"
    BY DEF Range
  <2> QED
    BY <2>1, LoadsType DEF OnePlace
<1>3. \A x \in Loads : state'[x] = IF Hit(x) THEN "rejected" ELSE state[x]
  BY <1>1
<1>4. TypesOK'
  BY <1>1 DEF TypesOK, States
<1>5. /\ NeverAnothersSale' /\ EmptyHandedOnlyBySharing'
      /\ \A q : Emptied(q) => Emptied(q)'
  <2> HIDE DEF Hit
  <2> QED
    BY <1>1, <1>2, <1>3, ResolvedKept
<1>6. ArraysOK'
  <2>1. \A q : Full(q)' = Full(q)
    BY DEF Full
  <2> QED
    BY <1>1, <1>5, <2>1 DEF ArraysOK
<1>7. UnderWay'
  BY <1>1 DEF UnderWay, RequestsOf
<1>8. OnePlace'
  <2>1. ASSUME NEW dl \in BatchLoaders, NEW i \in DOMAIN queue[dl]
        PROVE  state'[<<dl, queue[dl][i]>>] = "queued"
    <3>1. <<dl, queue[dl][i]>> \in Loads /\ state[<<dl, queue[dl][i]>>] = "queued"
      BY LoadsType DEF TypesOK, OnePlace
    <3> HIDE DEF Hit
    <3> QED
      BY <1>2, <1>3, <3>1
  <2>2. ASSUME NEW b \in batches', NEW i \in DOMAIN b.keys
        PROVE  state'[<<b.loader, b.keys[i]>>] = "waiting"
    <3>1. <<b.loader, b.keys[i]>> \in Loads /\ state[<<b.loader, b.keys[i]>>] = "waiting"
      BY <1>1, LoadsType DEF TypesOK, OnePlace, BatchRecords
    <3>2. ~Hit(<<b.loader, b.keys[i]>>)
      <4>1. SUFFICES ASSUME NEW c \in failed, c.loader = b.loader,
                            NEW j \in DOMAIN c.keys, c.keys[j] = b.keys[i]
                     PROVE  FALSE
        BY DEF Range
      <4> QED
        BY <1>1, <4>1 DEF OnePlace
    <3> HIDE DEF Hit
    <3> QED
      BY <1>3, <3>1, <3>2
  <2>3. batches' \subseteq batches
    BY <1>1
  <2> HIDE DEF failed
  <2> QED
    BY <1>1, <2>1, <2>2, <2>3, SMTT(30) DEF OnePlace
<1> QED
  BY <1>4, <1>5, <1>6, <1>7, <1>8

\* The requests of a batch.
LEMMA RequestsType ==
  ASSUME NEW b \in BatchRecords, NEW r \in RequestsOf(b)
  PROVE  /\ r \in Requests /\ r = RequestOf(b.loader, b.keys, r.params)
         /\ \A n \in DOMAIN r.ids : \E i \in DOMAIN b.keys :
              b.keys[i] \in AnyKey /\ b.keys[i] = [id |-> r.ids[n], params |-> r.params]
<1>1. PICK i \in DOMAIN b.keys : r = RequestOf(b.loader, b.keys, b.keys[i].params)
  BY DEF RequestsOf
<1>2. b.keys \in Seq(AnyKey)
  BY DEF BatchRecords
<1>3. \A k \in DOMAIN b.keys : b.keys[k] \in AnyKey
  BY <1>2
<1>4. \A key \in AnyKey : /\ key.params \in Params
                          /\ key = [id |-> key.id, params |-> key.params]
  BY DEF AnyKey
<1>5. b.keys[i].params \in Params
  BY <1>3, <1>4
<1>6. r \in Requests /\ r.params = b.keys[i].params /\ r.ids = GroupIds(b.keys, r.params)
  BY <1>1, <1>2, <1>5, RequestType
<1>7. ASSUME NEW n \in DOMAIN r.ids
      PROVE  \E k \in DOMAIN b.keys :
               b.keys[k] \in AnyKey /\ b.keys[k] = [id |-> r.ids[n], params |-> r.params]
  <2>1. PICK k \in DOMAIN b.keys : b.keys[k].params = r.params /\ r.ids[n] = b.keys[k].id
    BY <1>2, <1>6, <1>7, IdsOfGroup
  <2> QED
    BY <1>3, <1>4, <2>1
<1> QED
  BY <1>1, <1>6, <1>7

\* The request that asks for a key, and where the key is in it.
LEMMA RequestOfKey ==
  ASSUME NEW b \in BatchRecords, NEW k \in DOMAIN b.keys,
         \A i, j \in DOMAIN b.keys : b.keys[i] = b.keys[j] => i = j
  PROVE  LET r == RequestOf(b.loader, b.keys, b.keys[k].params)
             n == Place(b.keys, b.keys[k])
         IN  /\ r \in RequestsOf(b) /\ r \in Requests /\ r.params = b.keys[k].params
             /\ Len(r.ids) \in Nat /\ n \in 1..Len(r.ids) /\ n \in DOMAIN r.ids
             /\ r.ids[n] = b.keys[k].id
<1> DEFINE r == RequestOf(b.loader, b.keys, b.keys[k].params)
<1>1. r \in RequestsOf(b)
  BY DEF RequestsOf
<1>2. b.keys \in Seq(AnyKey)
  BY DEF BatchRecords
<1>3. b.keys[k] \in AnyKey
  BY <1>2
<1>4. b.keys[k].params \in Params
  BY <1>3 DEF AnyKey
<1>5. r \in Requests /\ r.params = b.keys[k].params
      /\ r.ids = GroupIds(b.keys, b.keys[k].params)
  BY <1>2, <1>4, RequestType
<1>6. Len(r.ids) \in Nat /\ DOMAIN r.ids = 1..Len(r.ids)
  BY <1>2, <1>5, IdsOfGroup
<1>7. Place(b.keys, b.keys[k]) \in 1..Len(r.ids)
      /\ r.ids[Place(b.keys, b.keys[k])] = b.keys[k].id
  BY <1>2, <1>5, IdAtPlace
<1> QED
  BY <1>1, <1>5, <1>6, <1>7

LEMMA DispatchIInv ==
  ASSUME IInv, NEW dl \in BatchLoaders, Dispatch(dl)
  PROVE  IInv'
<1> USE DEF IInv
<1> DEFINE q == queue[dl]
           new == {Batch(dl, chunk) : chunk \in Chunks(q)}
           reqs == UNION {RequestsOf(b) : b \in new}
<1>1. /\ batches' = batches \cup new
      /\ items' = [r \in DOMAIN items \cup reqs |-> IF r \in DOMAIN items THEN items[r] ELSE Null]
      /\ state' = [x \in Loads |->
                     IF x[1] = dl /\ state[x] = "queued" THEN "waiting" ELSE state[x]]
      /\ queue' = [queue EXCEPT ![dl] = <<>>]
      /\ UNCHANGED <<value, failures>>
  BY DEF Dispatch
<1>2. /\ q \in Seq(AnyKey) /\ Len(q) > 0
      /\ \A i \in DOMAIN q : q[i] \in Keys(dl) /\ state[<<dl, q[i]>>] = "queued"
      /\ \A i, j \in DOMAIN q : q[i] = q[j] => i = j
  BY DEF Dispatch, TypesOK, OnePlace
<1>3. /\ \A e \in BatchLoaders : queue'[e] = IF e = dl THEN <<>> ELSE queue[e]
      /\ queue' \in [BatchLoaders -> Seq(AnyKey)]
  BY <1>1 DEF TypesOK
<1>4. \A x \in Loads : state'[x] = IF x[1] = dl /\ state[x] = "queued" THEN "waiting" ELSE state[x]
  BY <1>1
<1> HIDE DEF q
<1>5. ASSUME NEW b \in new
      PROVE  /\ b \in BatchRecords /\ b.loader = dl /\ Len(b.keys) \in 1..MaxBatchSize
             /\ b.keys \in Chunks(q) /\ b = Batch(dl, b.keys)
             /\ \A i \in DOMAIN b.keys : /\ b.keys[i] \in Keys(dl)
                                         /\ state[<<dl, b.keys[i]>>] = "queued"
  <2>1. PICK c \in Chunks(q) : b = Batch(dl, c)
    BY <1>5
  <2>2. b.loader = dl /\ b.keys = c
    BY <2>1 DEF Batch
  <2>3. c \in Seq(AnyKey) /\ Len(c) \in 1..MaxBatchSize
    BY <1>2, ChunkShape
  <2>4. \A i \in DOMAIN c : \E k \in DOMAIN q : c[i] = q[k]
    BY <1>2, ChunkShape
  <2>5. b \in BatchRecords
    BY <2>1, <2>3 DEF Batch, BatchRecords
  <2> QED
    BY <1>2, <2>1, <2>2, <2>3, <2>4, <2>5
<1>6. ASSUME NEW b \in batches
      PROVE  /\ b \in BatchRecords
             /\ \A i \in DOMAIN b.keys : /\ <<b.loader, b.keys[i]>> \in Loads
                                         /\ state[<<b.loader, b.keys[i]>>] = "waiting"
  BY LoadsType DEF TypesOK, OnePlace, BatchRecords
<1> HIDE DEF new
<1>7. TypesOK'
  <2>1. batches' \subseteq BatchRecords
    BY <1>1, <1>5, <1>6
  <2>2. \A b \in batches' : /\ Len(b.keys) \in 1..MaxBatchSize
                            /\ \A i \in DOMAIN b.keys : b.keys[i] \in Keys(b.loader)
    BY <1>1, <1>5 DEF TypesOK
  <2>3. \A e \in BatchLoaders : \A i \in DOMAIN queue'[e] : queue'[e][i] \in Keys(e)
    BY <1>3 DEF TypesOK
  <2>4. state' \in [Loads -> States]
    BY <1>1 DEF TypesOK, States
  <2>5. value' \in [Loads -> Ids \cup {Null, Undefined}] /\ failures' \in Nat
    BY <1>1 DEF TypesOK
  <2> QED
    BY <1>3, <2>1, <2>2, <2>3, <2>4, <2>5 DEF TypesOK
<1>8. /\ NeverAnothersSale' /\ EmptyHandedOnlyBySharing'
      /\ \A r : Emptied(r) => Emptied(r)'
  BY <1>1, <1>4, ResolvedKept
<1>9. ArraysOK'
  <2>1. \A r \in reqs : r \in Requests
    BY <1>5, RequestsType
  <2>2. \A r : Full(r)' = Full(r)
    BY DEF Full
  <2> HIDE DEF reqs
  <2> QED
    BY <1>1, <1>8, <2>1, <2>2 DEF ArraysOK
<1>10. UnderWay'
  <2>1. \A b \in batches' : RequestsOf(b) \subseteq DOMAIN items \cup reqs
    BY <1>1 DEF UnderWay
  <2> HIDE DEF reqs
  <2>2. DOMAIN items' = DOMAIN items \cup reqs
    BY <1>1
  <2>3. \A b \in batches' : RequestsOf(b) \subseteq DOMAIN items'
    BY <2>1, <2>2
  <2> QED
    BY <2>3 DEF UnderWay, RequestsOf
<1>11. OnePlace'
  <2>1. ASSUME NEW e \in BatchLoaders, NEW i \in DOMAIN queue'[e]
        PROVE  /\ state'[<<e, queue'[e][i]>>] = "queued"
               /\ \A j \in DOMAIN queue'[e] : queue'[e][i] = queue'[e][j] => i = j
    <3>1. e # dl /\ queue'[e] = queue[e]
      BY <1>3
    <3>2. <<e, queue[e][i]>> \in Loads /\ state[<<e, queue[e][i]>>] = "queued"
      BY <3>1, LoadsType DEF TypesOK, OnePlace
    <3>3. \A j \in DOMAIN queue[e] : queue[e][i] = queue[e][j] => i = j
      BY <3>1 DEF OnePlace
    <3> QED
      BY <1>4, <3>1, <3>2, <3>3
  <2>2. ASSUME NEW b \in batches', NEW i \in DOMAIN b.keys
        PROVE  state'[<<b.loader, b.keys[i]>>] = "waiting"
    <3>1. CASE b \in new
      <4>1. b.loader = dl /\ <<dl, b.keys[i]>> \in Loads /\ state[<<dl, b.keys[i]>>] = "queued"
        BY <1>5, <3>1, LoadsType
      <4> QED
        BY <1>4, <4>1
    <3>2. CASE b \in batches
      BY <1>4, <1>6, <3>2
    <3> QED
      BY <1>1, <3>1, <3>2
  <2>3. ASSUME NEW b \in batches', NEW c \in batches', NEW i \in DOMAIN b.keys,
               NEW j \in DOMAIN c.keys, b.loader = c.loader, b.keys[i] = c.keys[j]
        PROVE  b = c /\ i = j
    <3>1. CASE b \in new /\ c \in new
      <4>1. b.keys \in Chunks(q) /\ c.keys \in Chunks(q)
        BY <1>5, <3>1
      <4>2. b.keys = c.keys /\ i = j
        BY <1>2, <2>3, <4>1, ChunksDisjoint
      <4>3. b = Batch(dl, b.keys) /\ c = Batch(dl, c.keys)
        BY <1>5, <3>1
      <4> QED
        BY <4>2, <4>3
    <3>2. CASE b \in batches /\ c \in batches
      BY <2>3, <3>2 DEF OnePlace
    <3>3. b \in new => c \notin batches
      <4>1. SUFFICES ASSUME b \in new, c \in batches PROVE FALSE
        OBVIOUS
      <4>2. state[<<dl, b.keys[i]>>] = "queued" /\ b.loader = dl
        BY <1>5, <4>1
      <4>3. state[<<c.loader, c.keys[j]>>] = "waiting"
        BY <1>6, <4>1
      <4> QED
        BY <2>3, <4>2, <4>3
    <3>4. c \in new => b \notin batches
      <4>1. SUFFICES ASSUME c \in new, b \in batches PROVE FALSE
        OBVIOUS
      <4>2. state[<<dl, c.keys[j]>>] = "queued" /\ c.loader = dl
        BY <1>5, <4>1
      <4>3. state[<<b.loader, b.keys[i]>>] = "waiting"
        BY <1>6, <4>1
      <4> QED
        BY <2>3, <4>2, <4>3
    <3> QED
      BY <1>1, <3>1, <3>2, <3>3, <3>4
  <2>4. \A e \in BatchLoaders : \A i \in DOMAIN queue'[e] : state'[<<e, queue'[e][i]>>] = "queued"
    BY <2>1
  <2>5. \A e \in BatchLoaders : \A i, j \in DOMAIN queue'[e] : queue'[e][i] = queue'[e][j] => i = j
    BY <2>1
  <2>6. \A b \in batches' : \A i \in DOMAIN b.keys : state'[<<b.loader, b.keys[i]>>] = "waiting"
    BY <2>2
  <2>7. \A b, c \in batches' : \A i \in DOMAIN b.keys : \A j \in DOMAIN c.keys :
          b.loader = c.loader /\ b.keys[i] = c.keys[j] => b = c /\ i = j
    BY <2>3
  <2> QED
    BY <2>4, <2>5, <2>6, <2>7 DEF OnePlace
<1> QED
  BY <1>7, <1>8, <1>9, <1>10, <1>11

\* What a batch whose requests are answered takes for one of its keys.
LEMMA Taken ==
  ASSUME IInv, NEW b \in batches, \A r \in RequestsOf(b) : items[r] # Null,
         NEW k \in DOMAIN b.keys
  PROVE  LET key == b.keys[k]
             v == Popped(items[RequestOf(b.loader, b.keys, key.params)], Place(b.keys, key))
         IN  /\ v = key.id \/ v = Undefined \/ (v = Null /\ key.id \in Missing)
             /\ v \in Ids \cup {Null, Undefined}
             /\ v = Undefined => \E dl \in BatchLoaders : /\ dl # b.loader
                                                          /\ <<dl, key>> \in Loads
                                                          /\ state[<<dl, key>>] = "resolved"
<1> DEFINE key == b.keys[k]
           r == RequestOf(b.loader, b.keys, key.params)
           n == Place(b.keys, key)
<1> USE DEF IInv
<1>1. b \in BatchRecords
  BY DEF TypesOK
<1>2. \A i, j \in DOMAIN b.keys : b.keys[i] = b.keys[j] => i = j
  BY DEF OnePlace
<1>3. /\ r \in RequestsOf(b) /\ r \in Requests /\ r.params = key.params
      /\ Len(r.ids) \in Nat /\ n \in 1..Len(r.ids) /\ n \in DOMAIN r.ids /\ r.ids[n] = key.id
  BY <1>1, <1>2, RequestOfKey
<1>4. key \in AnyKey
  <2>1. b.keys \in Seq(AnyKey)
    BY <1>1 DEF BatchRecords
  <2> QED
    BY <2>1
<1>5. key.id \in Ids /\ key = [id |-> key.id, params |-> key.params]
  BY <1>4 DEF AnyKey
<1>6. state[<<b.loader, key>>] = "waiting"
  BY DEF OnePlace
<1> HIDE DEF key, r, n
<1>7. r \in DOMAIN items /\ items[r] # Null
  BY <1>3 DEF UnderWay
<1>8. CASE items[r] = Full(r)
  <2>1. Len(Full(r)) = Len(r.ids)
        /\ Full(r)[n] = IF key.id \in Missing THEN Null ELSE key.id
    BY <1>3 DEF Full
  <2>2. Popped(items[r], n) = IF key.id \in Missing THEN Null ELSE key.id
    BY <1>3, <1>8, <2>1 DEF Popped
  <2> QED
    BY <1>5, <2>2, BatchAssumption DEF r, n, key
<1>9. CASE items[r] = <<>> /\ Emptied(r)
  <2>1. Popped(items[r], n) = Undefined
    BY <1>3, <1>9 DEF Popped
  <2>2. PICK dl \in BatchLoaders : Got(dl, r, n)
    BY <1>3, <1>9 DEF Emptied
  <2>3. <<dl, key>> \in Loads /\ state[<<dl, key>>] = "resolved"
    BY <1>3, <1>5, <2>2 DEF Got
  <2>4. dl # b.loader
    BY <1>6, <2>3
  <2> QED
    BY <2>1, <2>3, <2>4 DEF r, n, key
<1> QED
  BY <1>7, <1>8, <1>9 DEF ArraysOK

\* A batch leaves nothing in the arrays of its requests.
LEMMA NothingLeft ==
  ASSUME NEW r \in Requests, NEW array, array = Full(r) \/ array = <<>>
  PROVE  Rest(array, Len(r.ids)) = <<>>
<1>1. Len(r.ids) \in Nat
  BY DEF Requests
<1>2. array \in Seq({Null} \cup Ids) /\ Len(array) <= Len(r.ids) /\ Len(array) \in Nat
  <2>1. CASE array = Full(r)
    <3>1. \A i \in 1..Len(r.ids) : r.ids[i] \in Ids
      BY DEF Requests
    <3> QED
      BY <1>1, <2>1, <3>1 DEF Full
  <2>2. CASE array = <<>>
    BY <1>1, <2>2
  <2> QED
    BY <2>1, <2>2
<1>3. SubSeq(array, Len(r.ids) + 1, Len(array)) = <<>>
  <2> DEFINE rest == SubSeq(array, Len(r.ids) + 1, Len(array))
  <2>1. rest \in Seq({Null} \cup Ids) /\ Len(rest) = 0
    BY <1>1, <1>2
  <2> HIDE DEF rest
  <2>2. rest = <<>>
    BY <2>1
  <2> QED
    BY <2>2 DEF rest
<1>4. Reverse(<<>>) = <<>>
  BY DEF Reverse
<1> QED
  BY <1>3, <1>4 DEF Rest

LEMMA DistributeIInv ==
  ASSUME IInv, NEW b \in batches, Distribute(b)
  PROVE  IInv'
<1> USE DEF IInv
<1> DEFINE Mine(x) == x[1] = b.loader /\ x[2] \in Range(b.keys)
           result(key) == Popped(items[RequestOf(b.loader, b.keys, key.params)],
                                 Place(b.keys, key))
<1>1. /\ \A r \in RequestsOf(b) : items[r] # Null
      /\ batches' = batches \ {b}
      /\ state' = [x \in Loads |-> IF Mine(x) THEN "resolved" ELSE state[x]]
      /\ value' = [x \in Loads |-> IF Mine(x) THEN result(x[2]) ELSE value[x]]
      /\ items' = [r \in DOMAIN items |->
                     IF r \in RequestsOf(b) /\ r.path = "sales"
                       THEN Rest(items[r], Len(r.ids)) ELSE items[r]]
      /\ UNCHANGED <<queue, failures>>
  BY DEF Distribute
<1>2. b \in BatchRecords /\ b.loader \in BatchLoaders
  BY DEF TypesOK, BatchRecords
<1>3. ASSUME NEW x \in Loads, Mine(x)
      PROVE  /\ state[x] = "waiting" /\ x = <<b.loader, x[2]>>
             /\ result(x[2]) \in Ids \cup {Null, Undefined}
             /\ \/ result(x[2]) = x[2].id \/ result(x[2]) = Undefined
                \/ result(x[2]) = Null /\ x[2].id \in Missing
             /\ result(x[2]) = Undefined =>
                  \E y \in Loads : y[1] # x[1] /\ y[2] = x[2] /\ state[y] = "resolved"
  <2>1. PICK k \in DOMAIN b.keys : x[2] = b.keys[k]
    BY <1>3 DEF Range
  <2>2. x = <<b.loader, x[2]>>
    BY <1>3, LoadsType
  <2>3. state[x] = "waiting"
    BY <2>1, <2>2 DEF OnePlace
  <2>4. /\ \/ result(x[2]) = x[2].id \/ result(x[2]) = Undefined
           \/ result(x[2]) = Null /\ x[2].id \in Missing
        /\ result(x[2]) \in Ids \cup {Null, Undefined}
        /\ result(x[2]) = Undefined =>
             \E dl \in BatchLoaders : /\ dl # b.loader /\ <<dl, x[2]>> \in Loads
                                      /\ state[<<dl, x[2]>>] = "resolved"
    BY <1>1, <2>1, Taken
  <2>5. ASSUME NEW dl \in BatchLoaders, dl # b.loader, <<dl, x[2]>> \in Loads,
               state[<<dl, x[2]>>] = "resolved"
        PROVE  \E y \in Loads : y[1] # x[1] /\ y[2] = x[2] /\ state[y] = "resolved"
    <3>1. <<dl, x[2]>>[1] # x[1] /\ <<dl, x[2]>>[2] = x[2]
      BY <1>3, <2>5
    <3> QED
      BY <2>5, <3>1
  <2> HIDE DEF result
  <2> QED
    BY <2>2, <2>3, <2>4, <2>5
<1>4. \A x \in Loads : /\ state'[x] = IF Mine(x) THEN "resolved" ELSE state[x]
                       /\ value'[x] = IF Mine(x) THEN result(x[2]) ELSE value[x]
  BY <1>1
<1>5. \A i \in DOMAIN b.keys : /\ <<b.loader, b.keys[i]>> \in Loads
                               /\ Mine(<<b.loader, b.keys[i]>>)
  BY LoadsType DEF TypesOK, BatchRecords, Range
<1>6. \A dl \in BatchLoaders : \A i \in DOMAIN queue[dl] :
        <<dl, queue[dl][i]>> \in Loads /\ ~Mine(<<dl, queue[dl][i]>>)
  <2>1. ASSUME NEW dl \in BatchLoaders, NEW i \in DOMAIN queue[dl]
        PROVE  <<dl, queue[dl][i]>> \in Loads /\ ~Mine(<<dl, queue[dl][i]>>)
    <3>1. <<dl, queue[dl][i]>> \in Loads /\ state[<<dl, queue[dl][i]>>] = "queued"
      BY LoadsType DEF TypesOK, OnePlace
    <3> HIDE DEF Mine, result
    <3> QED
      BY <1>3, <3>1
  <2> HIDE DEF Mine
  <2> QED
    BY <2>1
<1>7. ASSUME NEW c \in batches', NEW i \in DOMAIN c.keys
      PROVE  <<c.loader, c.keys[i]>> \in Loads /\ ~Mine(<<c.loader, c.keys[i]>>)
  <2>1. c \in batches /\ c # b
    BY <1>1
  <2>2. <<c.loader, c.keys[i]>> \in Loads
    BY <2>1, LoadsType DEF TypesOK, BatchRecords
  <2>3. ASSUME NEW k \in DOMAIN b.keys, c.loader = b.loader, c.keys[i] = b.keys[k]
        PROVE  FALSE
    BY <2>1, <2>3 DEF OnePlace
  <2> QED
    BY <2>2, <2>3 DEF Range
<1> HIDE DEF Mine, result
<1>8. TypesOK'
  <2>1. state' \in [Loads -> States]
    BY <1>1 DEF TypesOK, States
  <2>2. value' \in [Loads -> Ids \cup {Null, Undefined}]
    BY <1>1, <1>3 DEF TypesOK
  <2> QED
    BY <1>1, <2>1, <2>2 DEF TypesOK
<1>9. NeverAnothersSale'
  <2>1. SUFFICES ASSUME NEW x \in Loads, state'[x] = "resolved"
                 PROVE  value'[x] \in {x[2].id, Undefined}
                                        \cup (IF x[2].id \in Missing THEN {Null} ELSE {})
    BY DEF NeverAnothersSale
  <2>2. CASE Mine(x)
    BY <1>3, <1>4, <2>2
  <2>3. CASE ~Mine(x)
    BY <1>4, <2>1, <2>3 DEF NeverAnothersSale
  <2> QED
    BY <2>2, <2>3
<1>10. EmptyHandedOnlyBySharing'
  <2>1. SUFFICES ASSUME NEW x \in Loads, state'[x] = "resolved", value'[x] = Undefined
                 PROVE  \E y \in Loads : y[1] # x[1] /\ y[2] = x[2] /\ state'[y] = "resolved"
    BY DEF EmptyHandedOnlyBySharing
  <2>2. PICK y \in Loads : y[1] # x[1] /\ y[2] = x[2] /\ state[y] = "resolved"
    <3>1. CASE Mine(x)
      BY <1>3, <1>4, <2>1, <3>1
    <3>2. CASE ~Mine(x)
      BY <1>4, <2>1, <3>2 DEF EmptyHandedOnlyBySharing
    <3> QED
      BY <3>1, <3>2
  <2>3. state'[y] = "resolved"
    BY <1>4, <2>2
  <2> QED
    BY <2>2, <2>3
<1>11. ArraysOK'
  <2>1. SUFFICES ASSUME NEW r \in DOMAIN items
                 PROVE  /\ r \in Requests
                        /\ items'[r] = Null \/ items'[r] = Full(r)
                           \/ (items'[r] = <<>> /\ Emptied(r)')
    BY <1>1 DEF ArraysOK, Full
  <2>2. /\ r \in Requests
        /\ items[r] = Null \/ items[r] = Full(r) \/ (items[r] = <<>> /\ Emptied(r))
    BY DEF ArraysOK
  <2>3. CASE r \in RequestsOf(b) /\ r.path = "sales"
    <3>1. items'[r] = Rest(items[r], Len(r.ids)) /\ items[r] # Null
      BY <1>1, <2>3
    <3>2. items'[r] = <<>>
      BY <2>2, <3>1, NothingLeft
    <3>3. ASSUME NEW n \in DOMAIN r.ids
          PROVE  Got(b.loader, r, n)'
      <4>1. PICK i \in DOMAIN b.keys : b.keys[i] = [id |-> r.ids[n], params |-> r.params]
        BY <1>2, <2>3, RequestsType
      <4>2. <<b.loader, b.keys[i]>> \in Loads /\ state'[<<b.loader, b.keys[i]>>] = "resolved"
        BY <1>4, <1>5
      <4> QED
        BY <4>1, <4>2 DEF Got
    <3> QED
      BY <1>2, <2>2, <3>2, <3>3 DEF Emptied
  <2>4. CASE ~(r \in RequestsOf(b) /\ r.path = "sales")
    <3>1. items'[r] = items[r]
      BY <1>1, <2>4
    <3>2. Emptied(r) => Emptied(r)'
      BY <1>4 DEF Emptied, Got
    <3> QED
      BY <2>2, <3>1, <3>2
  <2> QED
    BY <2>3, <2>4
<1>12. UnderWay'
  BY <1>1 DEF UnderWay, RequestsOf
<1>13. OnePlace'
  <2>1. \A dl \in BatchLoaders : \A i \in DOMAIN queue'[dl] :
          state'[<<dl, queue'[dl][i]>>] = "queued"
    BY <1>1, <1>4, <1>6 DEF OnePlace
  <2>2. \A dl \in BatchLoaders : \A i, j \in DOMAIN queue'[dl] :
          queue'[dl][i] = queue'[dl][j] => i = j
    BY <1>1 DEF OnePlace
  <2>3. ASSUME NEW c \in batches', NEW i \in DOMAIN c.keys
        PROVE  state'[<<c.loader, c.keys[i]>>] = "waiting"
    <3>1. state[<<c.loader, c.keys[i]>>] = "waiting"
      BY <1>1 DEF OnePlace
    <3> QED
      BY <1>4, <1>7, <3>1
  <2>4. \A c, d \in batches' : \A i \in DOMAIN c.keys : \A j \in DOMAIN d.keys :
          c.loader = d.loader /\ c.keys[i] = d.keys[j] => c = d /\ i = j
    BY <1>1 DEF OnePlace
  <2> QED
    BY <2>1, <2>2, <2>3, <2>4 DEF OnePlace
<1> QED
  BY <1>8, <1>9, <1>10, <1>11, <1>12, <1>13

LEMMA StutterIInv ==
  ASSUME IInv, UNCHANGED vars
  PROVE  IInv'
<1> USE DEF IInv, vars
<1>1. TypesOK' /\ OnePlace'
  BY SMTT(30), ZenonT(40) DEF TypesOK, OnePlace
<1>2. /\ NeverAnothersSale' /\ EmptyHandedOnlyBySharing'
      /\ \A r : Emptied(r) => Emptied(r)'
  BY ResolvedKept
<1>3. ArraysOK' /\ UnderWay'
  BY <1>2 DEF ArraysOK, UnderWay, Full, RequestsOf
<1> QED
  BY <1>1, <1>2, <1>3

(***************************************************************************)
(* Theorems                                                                *)
(***************************************************************************)

\* The invariant holds in every reachable state.
THEOREM BatchInvariance == Spec => []IInv
<1>1. ASSUME IInv, [Next]_vars PROVE IInv'
  BY <1>1, LoadIInv, DispatchIInv, AnswerIInv, FailIInv, DistributeIInv, StutterIInv DEF Next
<1> QED
  BY <1>1, InitIInv, PTL DEF Spec

\* Types are kept and no chunk grows beyond its size.
THEOREM BatchTypeCorrect == Spec => []TypeOK
<1>1. IInv => TypeOK
  <2> SUFFICES ASSUME IInv PROVE TypeOK
    OBVIOUS
  <2> USE DEF IInv
  <2>1. \A dl \in BatchLoaders : Range(queue[dl]) \subseteq Keys(dl)
    BY DEF TypesOK, Range
  <2>2. \A b \in batches : b.loader \in BatchLoaders /\ Len(b.keys) \in 1..MaxBatchSize
    BY DEF TypesOK, BatchRecords
  <2>3. ASSUME NEW r \in DOMAIN items, items[r] # Null
        PROVE  Range(items[r]) \subseteq Ids \cup {Null}
    <3>1. \A i \in 1..Len(r.ids) : r.ids[i] \in Ids
      BY DEF ArraysOK, Requests
    <3>2. Range(Full(r)) \subseteq Ids \cup {Null}
      BY <3>1 DEF Full, Range
    <3>3. Range(<<>>) = {}
      BY DEF Range
    <3> QED
      BY <2>3, <3>2, <3>3 DEF ArraysOK
  <2> QED
    BY <2>1, <2>2, <2>3 DEF TypesOK, TypeOK
<1> QED
  BY <1>1, BatchInvariance, PTL

\* No key is ever given the result of another key, and null only when its sale
\* does not exist.
THEOREM OwnSaleOnly == Spec => []NeverAnothersSale
  BY BatchInvariance, PTL DEF IInv

\* A key comes out empty-handed only after the other loader took its result.
THEOREM EmptyOnlyBySharing == Spec => []EmptyHandedOnlyBySharing
  BY BatchInvariance, PTL DEF IInv

\* A batch waits for requests that carry the parameters of its keys.
THEOREM FiltersAreKept == Spec => []FiltersReachGravity
<1>1. IInv => FiltersReachGravity
  <2>1. SUFFICES ASSUME IInv, NEW b \in batches, NEW i \in DOMAIN b.keys
                 PROVE  \E r \in DOMAIN items : /\ r.params = b.keys[i].params
                                                /\ b.keys[i].id \in Range(r.ids)
    BY DEF FiltersReachGravity
  <2> DEFINE r == RequestOf(b.loader, b.keys, b.keys[i].params)
  <2>2. /\ r \in RequestsOf(b) /\ r.params = b.keys[i].params
        /\ \E n \in DOMAIN r.ids : r.ids[n] = b.keys[i].id
    BY <2>1, RequestOfKey DEF IInv, TypesOK, OnePlace
  <2> HIDE DEF r
  <2>3. r \in DOMAIN items
    BY <2>1, <2>2 DEF IInv, UnderWay
  <2> QED
    BY <2>2, <2>3 DEF Range
<1> QED
  BY <1>1, BatchInvariance, PTL
=============================================================================
