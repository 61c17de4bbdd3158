-------------------------- MODULE MutationsProofs --------------------------
(***************************************************************************)
(* Proofs about Mutations for any requests, documents, artists and number  *)
(* of failures.  The invariant comes in four layers, each inductive        *)
(* relative to some of those before it.                                    *)
(***************************************************************************)
EXTENDS MutationsPlanProofs, WellFoundedInduction

Ids == Requests \X Nat

AnyCall == [loader : Loaders, on : Things, item : Nat]

Values == SUBSET SUBSET Artists

Results == {"success", "payload", "thrown", "null"}

Flights == [by : Ids, stage : Nat, call : AnyCall, value : Values,
            state : {"sent", "answered", "abandoned"}, sees : Nat]

Entries == [by : Ids, loader : Loaders, on : Things, item : Nat, value : Values]

Typed ==
  /\ document \in Documents
  /\ replies \in [Requests -> Seq([result : Results, sees : Nat])]
  /\ stage \in [Requests -> Nat]
  /\ settled \in [Requests -> SUBSET AnyCall]
  /\ seen \in [Requests -> Seq(Nat)]
  /\ memo \in [Requests -> SUBSET [loader : Reads, on : Things, sees : Nat]]
  /\ wire \in SUBSET Flights
  /\ log \in Seq(Entries)
  /\ failures \in 0..MaxFailures

\* Where the field in execution is: all its stages so far send calls.
Flow(r) ==
  /\ Len(replies[r]) <= Len(Fields(r))
  /\ Len(seen[r]) = stage[r]
  /\ \A s \in 1..stage[r] : seen[r][s] <= Len(log)
  /\ stage[r] = 0 => settled[r] = {}
  /\ ~Running(r) => stage[r] = 0
  /\ Running(r) =>
       /\ stage[r] <= Len(CurrentPlan(r))
       /\ \A s \in 1..stage[r] : CurrentPlan(r)[s].calls # {}
       /\ stage[r] > 0 => settled[r] \subseteq CurrentPlan(r)[stage[r]].calls

\* A call in flight belongs to a field that was begun.  One of the field in
\* execution belongs to a stage of its plan, and is awaited unless that stage
\* makes light of failures.
InFlight(q, r, k) ==
  /\ k \in 1..Current(r) /\ k \in DOMAIN Fields(r)
  /\ q.call.on = Fields(r)[k].on
  /\ q.sees <= Len(log)
  /\ q.state = "abandoned" => q.call.loader \notin Reads
  /\ k = Current(r) =>
       /\ q.stage \in 1..stage[r]
       /\ q.call \in CurrentPlan(r)[q.stage].calls
       /\ CurrentPlan(r)[q.stage].mode # "log" =>
            q.stage = stage[r] /\ q.call \notin settled[r] /\ q.state # "abandoned"

Written(i) == Call(log[i].loader, log[i].on, log[i].item)

\* A write belongs to a field that was begun, and to a stage of its plan.
InLog(i, r, k) ==
  /\ k \in 1..Current(r) /\ k \in DOMAIN Fields(r)
  /\ log[i].loader \notin Reads
  /\ k = Current(r) => \E s \in 1..stage[r] : Written(i) \in CurrentPlan(r)[s].calls

\* What the request has read, it read for a field that was begun.
Remembered(m, r) ==
  /\ m.sees <= Len(log)
  /\ \E k \in 1..Current(r) :
       /\ k \in DOMAIN Fields(r) /\ m.on = Fields(r)[k].on
       /\ k = Current(r) => \E s \in 1..stage[r] : \E c \in CurrentPlan(r)[s].calls :
                              c.loader = m.loader

SentOnce == \A q, p \in wire : q.by = p.by /\ q.call = p.call => q = p

Executing ==
  /\ Typed
  /\ \A r \in Requests : Flow(r) /\ \A m \in memo[r] : Remembered(m, r)
  /\ \A q \in wire : InFlight(q, q.by[1], q.by[2])
  /\ \A i \in DOMAIN log : InLog(i, log[i].by[1], log[i].by[2])
  /\ SentOnce

-----------------------------------------------------------------------------
(* The plan in execution.                                                  *)

\* A plan of the k-th field of r, by whether there was an edition set.
PlanIf(r, k, editioned) ==
  IF document[r].signedIn THEN Body(Fields(r)[k], editioned)
  ELSE GiveUp(IF Fields(r)[k].kind = "sendConversationMessage" THEN "null" ELSE "thrown")

LEMMA FieldTypes ==
  ASSUME Typed, NEW r \in Requests
  PROVE  /\ Fields(r) \in Seq(MutationFields)
         /\ \A k \in DOMAIN Fields(r) : AField(Fields(r)[k]) /\ Fields(r)[k].on \in Things
<1>1. document[r] \in [signedIn : BOOLEAN, fields : Seq(MutationFields)]
  BY DocumentAssumption DEF Typed
<1>2. Fields(r) \in Seq(MutationFields)
  BY <1>1 DEF Fields
<1>3. ASSUME NEW k \in DOMAIN Fields(r)
      PROVE  AField(Fields(r)[k]) /\ Fields(r)[k].on \in Things
  <2> DEFINE f == Fields(r)[k]
  <2>1. f \in MutationFields
    BY <1>2
  <2>2. /\ f.opts \in Options(f.kind) /\ (f.kind \notin ItemKinds => f.items = 0)
        /\ "foreignUrl" \in f.opts /\ f.kind \in ItemKinds => f.items > 0
    BY DocumentAssumption DEF Typed, Fields
  <2> HIDE DEF f
  <2>3. f.on \in Things
    BY <2>1 DEF MutationFields
  <2> QED
    BY <2>1, <2>2, <2>3 DEF AField, f
<1> QED
  BY <1>2, <1>3

LEMMA EditionSetIsBoolean == \A on, n : HasEditionSet(on, n) \in BOOLEAN
  BY DEF HasEditionSet

LEMMA PlanIsGood ==
  ASSUME Typed, NEW r \in Requests, NEW k \in DOMAIN Fields(r), NEW editioned \in BOOLEAN
  PROVE  Good(PlanIf(r, k, editioned), Fields(r)[k])
<1>1. AField(Fields(r)[k])
  BY FieldTypes
<1>2. Good(Body(Fields(r)[k], editioned), Fields(r)[k])
  BY <1>1, EveryBodyIsGood
<1>3. Good(GiveUp("null"), Fields(r)[k]) /\ Good(GiveUp("thrown"), Fields(r)[k])
  BY GiveUpGood
<1> QED
  BY <1>2, <1>3 DEF PlanIf

LEMMA CurrentIsIf ==
  ASSUME NEW r
  PROVE  CurrentPlan(r) =
           PlanIf(r, Current(r), HasEditionSet(Fields(r)[Current(r)].on, Known(r)))
  BY DEF CurrentPlan, Plan, PlanIf

LEMMA IsRunning ==
  ASSUME Typed, NEW r \in Requests, Current(r) \in DOMAIN Fields(r)
  PROVE  Running(r)
<1>1. Fields(r) \in Seq(MutationFields)
  BY FieldTypes
<1> QED
  BY <1>1 DEF Running

LEMMA CurrentIsGood ==
  ASSUME Typed, NEW r \in Requests, Running(r)
  PROVE  /\ Current(r) \in DOMAIN Fields(r)
         /\ Good(CurrentPlan(r), Fields(r)[Current(r)])
<1>1. Current(r) \in DOMAIN Fields(r)
  BY FieldTypes DEF Typed, Running, Current
<1> QED
  BY <1>1, PlanIsGood, CurrentIsIf, EditionSetIsBoolean

\* What was written stays.
LogKept ==
  /\ DOMAIN log' = 1..Len(log') /\ Len(log') \in Nat /\ Len(log) <= Len(log')
  /\ \A i \in 1..Len(log) : log'[i] = log[i]

LEMMA KnownType ==
  ASSUME Typed, NEW r \in Requests, Flow(r)
  PROVE  Known(r) \in 0..Len(log)
<1>1. seen[r] \in Seq(Nat) /\ Len(log) \in Nat
  BY DEF Typed
<1>2. CASE seen[r] = <<>>
  BY <1>1, <1>2 DEF Known
<1>3. CASE seen[r] # <<>>
  <2>1. 1 \in 1..Len(seen[r]) /\ seen[r][1] \in Nat
    BY <1>1, <1>3
  <2> QED
    BY <1>1, <1>3, <2>1 DEF Known, Flow
<1> QED
  BY <1>2, <1>3

LEMMA EditionSetKept ==
  ASSUME LogKept, NEW on, NEW n \in 0..Len(log), Len(log) \in Nat
  PROVE  HasEditionSet(on, n)' = HasEditionSet(on, n)
<1>1. \A i \in 1..n : log'[i] = log[i]
  BY DEF LogKept
<1>2. \A loader : {i \in 1..n : log'[i].on = on /\ log'[i].loader = loader}
                   = {i \in 1..n : log[i].on = on /\ log[i].loader = loader}
  BY <1>1
<1> QED
  BY <1>2 DEF HasEditionSet

\* The plan of a field stays as it is while the field is executed, but for the
\* answer of its first stage, which decides what comes after that stage.
LEMMA PlanKept ==
  ASSUME Typed, NEW r \in Requests, Running(r), Flow(r),
         document' = document, replies'[r] = replies[r], LogKept,
         NEW n \in Nat, n <= Len(CurrentPlan(r)), n <= 1 \/ Known(r)' = Known(r)
  PROVE  \A s \in 1..n : /\ s \in 1..Len(CurrentPlan(r)')
                         /\ CurrentPlan(r)'[s] = CurrentPlan(r)[s]
<1> DEFINE k == Current(r)
           f == Fields(r)[k]
           a == HasEditionSet(f.on, Known(r))
           b == HasEditionSet(f.on, Known(r))'
<1>1. CurrentPlan(r) = PlanIf(r, k, a)
  BY CurrentIsIf
<1>2. CurrentPlan(r)' = PlanIf(r, k, b)
  BY DEF CurrentPlan, Plan, PlanIf, Current, Fields
<1>3. a \in BOOLEAN /\ b \in BOOLEAN
  BY EditionSetIsBoolean DEF HasEditionSet
<1>4. k \in DOMAIN Fields(r) /\ AField(f)
  BY CurrentIsGood, FieldTypes
<1>5. k' = k /\ Fields(r)' = Fields(r) /\ document'[r] = document[r]
  BY DEF Current, Fields
<1>6. ASSUME Known(r)' = Known(r) PROVE a = b
  <2>1. PICK on : on = f.on
    OBVIOUS
  <2>2. PICK m : m = Known(r)
    OBVIOUS
  <2>3. b = HasEditionSet(on, m)'
    BY <1>5, <1>6, <2>1, <2>2 DEF HasEditionSet
  <2>4. m \in 0..Len(log) /\ Len(log) \in Nat
    <3>1. Known(r) \in 0..Len(log)
      BY KnownType
    <3> QED
      BY <2>2, <3>1 DEF Typed
  <2>5. HasEditionSet(on, m)' = HasEditionSet(on, m)
    BY <2>4, EditionSetKept
  <2> QED
    BY <2>1, <2>2, <2>3, <2>5
<1>7. CurrentPlan(r) \in Seq(StagesOn(f.on))
  BY CurrentIsGood DEF Good, Shape
<1>8. CurrentPlan(r)' = IF document[r].signedIn THEN Body(f, b) ELSE CurrentPlan(r)
  BY <1>1, <1>2, <1>5 DEF PlanIf
<1>9. document[r].signedIn => CurrentPlan(r) = Body(f, a)
  BY <1>1 DEF PlanIf
<1>10. ASSUME Known(r)' = Known(r) PROVE CurrentPlan(r)' = CurrentPlan(r)
  BY <1>6, <1>8, <1>9, <1>10
<1>11. ASSUME n <= 1, document[r].signedIn, NEW s \in 1..n
       PROVE  s \in 1..Len(CurrentPlan(r)') /\ CurrentPlan(r)'[s] = CurrentPlan(r)[s]
  <2>1. s = 1 /\ 1 \in DOMAIN Body(f, a)
    BY <1>7, <1>9, <1>11
  <2>2. 1 \in DOMAIN Body(f, b) /\ Body(f, b)[1] = Body(f, a)[1]
    BY <1>3, <1>4, <2>1, FirstStage
  <2>3. Body(f, b) \in Seq(StagesOn(f.on))
    BY <1>3, <1>4, EveryBodyIsGood DEF Good, Shape
  <2> HIDE DEF f
  <2> QED
    BY <1>8, <1>9, <1>11, <2>1, <2>2, <2>3
<1> HIDE DEF f, k, a, b
<1> QED
  BY <1>7, <1>8, <1>10, <1>11

-----------------------------------------------------------------------------
(* The types of the variables.                                             *)

LEMMA Largest ==
  ASSUME NEW n \in Nat, NEW T, T \subseteq 1..n, T # {}
  PROVE  \E x \in T : \A y \in T : y <= x
<1> DEFINE R == OpToRel(<, Nat)
           U == {n - x : x \in T}
<1>1. IsWellFoundedOn(R, Nat)
  BY NatLessThanWellFounded
<1>2. R = {s \in Nat \X Nat : s[1] < s[2]}
  BY DEF OpToRel
<1> HIDE DEF R
<1>3. ASSUME NEW x \in Nat, NEW y \in Nat, <<y, x>> \notin R PROVE x <= y
  <2>1. <<y, x>> \in Nat \X Nat /\ <<y, x>>[1] = y /\ <<y, x>>[2] = x
    OBVIOUS
  <2>2. ~(y < x)
    BY <1>2, <1>3, <2>1
  <2> QED
    BY <2>2
<1>4. U \subseteq Nat /\ U # {}
  <2>1. \A x \in T : n - x \in Nat
    OBVIOUS
  <2> QED
    BY <2>1
<1>5. PICK u \in U : \A v \in U : <<v, u>> \notin R
  BY <1>1, <1>4, WFMin
<1>6. PICK x \in T : u = n - x
  OBVIOUS
<1>7. \A y \in T : n - y \in U
  OBVIOUS
<1>8. \A y \in T : n - x <= n - y
  BY <1>3, <1>4, <1>5, <1>6, <1>7
<1> QED
  BY <1>8

LEMMA ArtistsType ==
  ASSUME Typed, NEW on, NEW n \in 0..Len(log)
  PROVE  ArtistsAt(on, n) \in SUBSET Artists
<1> DEFINE changes == {i \in 1..n : log[i].on = on /\ log[i].value # {}}
           last == CHOOSE i \in changes : \A j \in changes : j <= i
<1>1. CASE changes = {}
  BY <1>1, ArtistAssumption DEF ArtistsAt
<1>2. CASE changes # {}
  <2>1. n \in Nat /\ changes \subseteq 1..n
    BY DEF Typed
  <2> HIDE DEF changes
  <2>2. last \in changes
    BY <1>2, <2>1, Largest
  <2> HIDE DEF last
  <2>3. log[last] \in Entries
    <3>1. log \in Seq(Entries) /\ last \in 1..Len(log)
      BY <2>1, <2>2 DEF Typed
    <3> QED
      BY <3>1
  <2>4. UNION log[last].value \in SUBSET Artists
    BY <2>3 DEF Entries, Values
  <2> QED
    BY <1>2, <2>4 DEF ArtistsAt, changes, last
<1> QED
  BY <1>1, <1>2

LEMMA ValueType ==
  ASSUME Typed, NEW f \in MutationFields, NEW loader, NEW n \in 0..Len(log)
  PROVE  Value(f, loader, n) \in Values
<1>1. f.artists \in SUBSET Artists
  BY DEF MutationFields
<1>2. ArtistsAt(f.on, n) \in SUBSET Artists
  BY ArtistsType
<1>3. Merged(f, ArtistsAt(f.on, n)) \in SUBSET Artists
  BY <1>1, <1>2 DEF Merged
<1> QED
  BY <1>1, <1>3 DEF Value, Values

LEMMA FlightUpdate ==
  ASSUME NEW q \in Flights, NEW s \in {"sent", "answered", "abandoned"}, NEW n \in Nat
  PROVE  LET p == [q EXCEPT !.state = s, !.sees = n]
             o == [q EXCEPT !.state = s]
         IN  /\ p \in Flights /\ p.by = q.by /\ p.call = q.call /\ p.stage = q.stage
             /\ p.state = s /\ p.sees = n /\ p.value = q.value
             /\ o \in Flights /\ o.by = q.by /\ o.call = q.call /\ o.stage = q.stage
             /\ o.state = s /\ o.sees = q.sees /\ o.value = q.value
  BY DEF Flights

LEMMA FlightType ==
  ASSUME Typed, NEW q \in wire
  PROVE  /\ q \in Flights /\ q.by[1] \in Requests /\ q.by[2] \in Nat
         /\ q.by = <<q.by[1], q.by[2]>>
         /\ q.call \in AnyCall /\ q.sees \in Nat /\ q.stage \in Nat /\ q.value \in Values
         /\ q.state \in {"sent", "answered", "abandoned"}
         /\ q.call = Call(q.call.loader, q.call.on, q.call.item)
         /\ q.call.loader \in Loaders /\ q.call.on \in Things /\ q.call.item \in Nat
<1>1. q \in Flights
  BY DEF Typed
<1>2. /\ q.by \in Ids /\ q.call \in AnyCall /\ q.sees \in Nat /\ q.stage \in Nat
      /\ q.value \in Values /\ q.state \in {"sent", "answered", "abandoned"}
  BY <1>1 DEF Flights
<1> QED
  BY <1>1, <1>2 DEF Ids, AnyCall, Call

LEMMA EntryType ==
  ASSUME Typed, NEW i \in DOMAIN log
  PROVE  /\ log[i] \in Entries /\ log[i].by[1] \in Requests /\ log[i].by[2] \in Nat
         /\ log[i].by = <<log[i].by[1], log[i].by[2]>>
         /\ Written(i).loader = log[i].loader /\ Written(i).on = log[i].on
         /\ Written(i).item = log[i].item /\ log[i].item \in Nat
<1>1. log[i] \in Entries
  BY DEF Typed
<1>2. log[i].by \in Ids /\ log[i].item \in Nat
  BY <1>1 DEF Entries
<1> QED
  BY <1>1, <1>2 DEF Ids, Written, Call

LEMMA EntryOf ==
  ASSUME Typed, NEW q \in wire
  PROVE  /\ Entry(q) \in Entries /\ Entry(q).by = q.by
         /\ Call(Entry(q).loader, Entry(q).on, Entry(q).item) = q.call
         /\ Entry(q).loader = q.call.loader /\ Entry(q).item = q.call.item
  BY FlightType DEF Entry, Entries, Flights

\* The types of the stages of a plan.
Staged(p, on) ==
  /\ Len(p) \in Nat /\ DOMAIN p = 1..Len(p)
  /\ \A s \in 1..Len(p) :
       /\ p[s].calls \subseteq AnyCall
       /\ \A c \in p[s].calls : c.on = on
       /\ p[s].calls = {} => p[s].mode \in {"thrown", "payload", "null"}
       /\ p[s].calls # {} => p[s].mode \in Modes

LEMMA StageTypes ==
  ASSUME NEW on \in Things, NEW p \in Seq(StagesOn(on)), Stages(p)
  PROVE  Staged(p, on)
<1>1. CallsOn(on) \subseteq AnyCall /\ \A c \in CallsOn(on) : c.on = on
  BY DEF CallsOn, AnyCall
<1>2. ASSUME NEW s \in 1..Len(p) PROVE p[s].calls \subseteq CallsOn(on)
  <2>1. p[s] \in StagesOn(on)
    OBVIOUS
  <2> QED
    BY <2>1 DEF StagesOn
<1>3. Len(p) \in Nat /\ DOMAIN p = 1..Len(p)
  OBVIOUS
<1>4. \A s \in 1..Len(p) : p[s].calls \subseteq AnyCall /\ \A c \in p[s].calls : c.on = on
  BY <1>1, <1>2
<1>5. \A s \in 1..Len(p) : /\ p[s].calls = {} => p[s].mode \in {"thrown", "payload", "null"}
                           /\ p[s].calls # {} => p[s].mode \in Modes
  BY <1>3 DEF Stages
<1> QED
  BY <1>3, <1>4, <1>5 DEF Staged

LEMMA StageFacts ==
  ASSUME Typed, NEW r \in Requests, Running(r)
  PROVE  Staged(CurrentPlan(r), Fields(r)[Current(r)].on)
<1>1. Fields(r)[Current(r)].on \in Things
  BY CurrentIsGood, FieldTypes
<1> QED
  BY <1>1, CurrentIsGood, StageTypes DEF Good, Shape

LEMMA ReplyTyped ==
  ASSUME Typed, NEW r \in Requests, NEW result \in Results, Reply(r, result)
  PROVE  /\ replies' \in [Requests -> Seq([result : Results, sees : Nat])]
         /\ stage' \in [Requests -> Nat]
         /\ settled' \in [Requests -> SUBSET AnyCall]
         /\ seen' \in [Requests -> Seq(Nat)]
<1> DEFINE sees == IF seen[r] = <<>> THEN 0 ELSE seen[r][Len(seen[r])]
<1>1. seen[r] \in Seq(Nat) /\ replies[r] \in Seq([result : Results, sees : Nat])
  BY DEF Typed
<1>2. sees \in Nat
  BY <1>1
<1> HIDE DEF sees
<1>3. [result |-> result, sees |-> sees] \in [result : Results, sees : Nat]
  BY <1>2
<1>4. Append(replies[r], [result |-> result, sees |-> sees]) \in Seq([result : Results, sees : Nat])
  BY <1>1, <1>3
<1>5. replies' = [replies EXCEPT ![r] = Append(replies[r], [result |-> result, sees |-> sees])]
  BY DEF Reply, sees
<1>6. replies' \in [Requests -> Seq([result : Results, sees : Nat])]
  BY <1>4, <1>5 DEF Typed
<1>7. /\ stage' = [stage EXCEPT ![r] = 0] /\ settled' = [settled EXCEPT ![r] = {}]
      /\ seen' = [seen EXCEPT ![r] = <<>>]
  BY DEF Reply
<1>8. seen' \in [Requests -> Seq(Nat)]
  BY <1>7 DEF Typed
<1> QED
  BY <1>6, <1>7, <1>8 DEF Typed

LEMMA FailTyped ==
  ASSUME Typed, NEW r \in Requests, NEW q \in wire, NEW how, Fail(r, q, how)
  PROVE  /\ replies' \in [Requests -> Seq([result : Results, sees : Nat])]
         /\ stage' \in [Requests -> Nat]
         /\ settled' \in [Requests -> SUBSET AnyCall]
         /\ seen' \in [Requests -> Seq(Nat)]
<1>1. q.call \in AnyCall
  BY FlightType
<1>2. CASE \E mode : Reply(r, ResultOf(mode, how))
  BY <1>2, ReplyTyped DEF ResultOf, Results
<1>3. CASE UNCHANGED <<replies, stage, seen>> /\ settled' = [settled EXCEPT ![r] = @ \cup {q.call}]
  BY <1>1, <1>3 DEF Typed
<1>4. CASE UNCHANGED <<replies, stage, settled, seen>>
  BY <1>4 DEF Typed
<1> QED
  BY <1>2, <1>3, <1>4 DEF Fail

LEMMA SendTyped ==
  ASSUME Typed, NEW r \in Requests, Flow(r), Send(r)
  PROVE  Typed'
<1> DEFINE f == Fields(r)[Current(r)]
           plan == CurrentPlan(r)
           calls == plan[stage[r] + 1].calls
           fresh == {c \in calls : Memoised(r, c) = {}}
           old == UNION {Memoised(r, c) : c \in calls}
           sees == IF old = {} THEN 0 ELSE (CHOOSE m \in old : TRUE).sees
           new == {Request(r, c, Value(f, c.loader, Known(r))) : c \in fresh}
<1>1. /\ Running(r) /\ stage[r] < Len(plan)
      /\ wire' = wire \cup new
      /\ settled' = [settled EXCEPT ![r] = calls \ fresh]
      /\ seen' = [seen EXCEPT ![r] = Append(@, sees)]
      /\ stage' = [stage EXCEPT ![r] = @ + 1]
      /\ UNCHANGED <<document, replies, memo, log, failures>>
  BY DEF Send, Awaited
<1>2. stage[r] \in Nat /\ Current(r) \in Nat /\ seen[r] \in Seq(Nat)
  BY DEF Typed, Current
<1>3. stage[r] + 1 \in 1..Len(plan) /\ calls \subseteq AnyCall
  BY <1>1, <1>2, StageFacts DEF Staged
<1>4. f \in MutationFields
  BY <1>1, CurrentIsGood, FieldTypes
<1>5. Known(r) \in 0..Len(log)
  BY KnownType
<1>6. ASSUME NEW c \in fresh PROVE Request(r, c, Value(f, c.loader, Known(r))) \in Flights
  <2> DEFINE v == Value(f, c.loader, Known(r))
  <2>1. v \in Values
    BY <1>4, <1>5, ValueType
  <2> HIDE DEF v
  <2>2. c \in AnyCall
    BY <1>3
  <2>3. Request(r, c, v) \in Flights
    BY <1>2, <2>1, <2>2 DEF Request, Flights, Ids
  <2> QED
    BY <2>3 DEF v
<1>7. new \in SUBSET Flights
  BY <1>6
<1>8. sees \in Nat
  <2>1. \A c \in calls : Memoised(r, c) \subseteq memo[r]
    BY DEF Memoised
  <2>2. old \subseteq memo[r]
    BY <2>1
  <2> HIDE DEF old
  <2>3. old # {} => (CHOOSE m \in old : TRUE) \in memo[r]
    BY <2>2
  <2>4. \A m \in memo[r] : m.sees \in Nat
    BY DEF Typed
  <2> QED
    BY <2>3, <2>4
<1> HIDE DEF f, plan, calls, fresh, old, sees, new
<1>9. Append(seen[r], sees) \in Seq(Nat)
  BY <1>2, <1>8
<1>10. seen' \in [Requests -> Seq(Nat)]
  BY <1>1, <1>9 DEF Typed
<1>11. settled' \in [Requests -> SUBSET AnyCall] /\ stage' \in [Requests -> Nat]
  BY <1>1, <1>2, <1>3 DEF Typed
<1>12. wire' \in SUBSET Flights
  BY <1>1, <1>7 DEF Typed
<1> QED
  BY <1>1, <1>10, <1>11, <1>12 DEF Typed

LEMMA MoveTyped ==
  ASSUME Typed, NEW q \in wire, NEW p \in Flights, Replace(q, p)
  PROVE  wire' \in SUBSET Flights
  BY DEF Typed, Replace

LEMMA FunctionIsSeq ==
  ASSUME NEW S, NEW n \in Nat, NEW f \in [1..n -> S] PROVE f \in Seq(S) /\ Len(f) = n
  OBVIOUS

LEMMA ElementType ==
  ASSUME NEW S, NEW s \in Seq(S), NEW k \in DOMAIN s PROVE s[k] \in S
  OBVIOUS

LEMMA AnswerTyped ==
  ASSUME Typed, NEW r \in Requests, NEW q \in wire, Answer(r, q)
  PROVE  Typed'
<1>1. q.call \in AnyCall /\ q.sees \in Nat /\ q.stage \in Nat
  BY FlightType
<1>2. /\ wire' = wire \ {q} /\ UNCHANGED <<document, replies, stage, log, failures>>
      /\ \/ /\ settled' = [settled EXCEPT ![r] = @ \cup {q.call}]
            /\ seen' = [seen EXCEPT ![r][q.stage] = q.sees]
         \/ UNCHANGED <<settled, seen>>
  BY DEF Answer
<1>3. settled' \in [Requests -> SUBSET AnyCall]
  <2>1. settled[r] \cup {q.call} \in SUBSET AnyCall
    BY <1>1 DEF Typed
  <2>2. settled' = [settled EXCEPT ![r] = settled[r] \cup {q.call}] \/ settled' = settled
    BY <1>2
  <2> QED
    BY <2>1, <2>2 DEF Typed
<1>4. seen' \in [Requests -> Seq(Nat)]
  <2>1. CASE seen' = [seen EXCEPT ![r][q.stage] = q.sees]
    <3>1. seen[r] \in Seq(Nat)
      BY DEF Typed
    <3>2. [seen[r] EXCEPT ![q.stage] = q.sees] \in Seq(Nat)
      <4>1. seen[r] \in [1..Len(seen[r]) -> Nat] /\ Len(seen[r]) \in Nat
        BY <3>1
      <4>2. [seen[r] EXCEPT ![q.stage] = q.sees] \in [1..Len(seen[r]) -> Nat]
        BY <1>1, <4>1
      <4> QED
        BY <4>1, <4>2, FunctionIsSeq
    <3>3. seen' = [seen EXCEPT ![r] = [seen[r] EXCEPT ![q.stage] = q.sees]]
      BY <2>1 DEF Typed
    <3> QED
      BY <3>2, <3>3 DEF Typed
  <2> QED
    BY <1>2, <2>1 DEF Typed
<1>5. memo' \in [Requests -> SUBSET [loader : Reads, on : Things, sees : Nat]]
  <2> DEFINE m == [loader |-> q.call.loader, on |-> q.call.on, sees |-> q.sees]
  <2>1. CASE q.call.loader \in Reads
    <3>1. m \in [loader : Reads, on : Things, sees : Nat]
      BY <1>1, <2>1 DEF AnyCall
    <3>2. memo' = [memo EXCEPT ![r] = @ \cup {m}]
      BY <2>1 DEF Answer
    <3> HIDE DEF m
    <3> QED
      BY <3>1, <3>2 DEF Typed
  <2>2. CASE q.call.loader \notin Reads
    BY <2>2 DEF Answer, Typed
  <2> QED
    BY <2>1, <2>2
<1> QED
  BY <1>2, <1>3, <1>4, <1>5 DEF Typed

LEMMA ServeTyped ==
  ASSUME Typed, NEW q \in wire, ServiceReads(q) \/ ServiceWrites(q) \/ ServiceWritesLate(q)
  PROVE  Typed'
<1>1. q \in Flights /\ Entry(q) \in Entries
  BY FlightType, EntryOf
<1>2. Len(log) \in Nat /\ Append(log, Entry(q)) \in Seq(Entries)
      /\ Len(Append(log, Entry(q))) \in Nat
  BY <1>1 DEF Typed
<1>3. \A n \in Nat : [q EXCEPT !.state = "answered", !.sees = n] \in Flights
  BY <1>1, FlightUpdate
<1>4. wire' \in SUBSET Flights /\ log' \in Seq(Entries)
  <2>1. CASE ServiceReads(q)
    BY <1>2, <1>3, <2>1, MoveTyped DEF ServiceReads, Typed
  <2>2. CASE ServiceWrites(q)
    BY <1>2, <1>3, <2>2, MoveTyped DEF ServiceWrites
  <2>3. CASE ServiceWritesLate(q)
    BY <1>2, <2>3 DEF ServiceWritesLate, Typed
  <2> QED
    BY <2>1, <2>2, <2>3
<1>5. UNCHANGED <<document, replies, stage, settled, seen, memo, failures>>
  BY DEF ServiceReads, ServiceWrites, ServiceWritesLate
<1> QED
  BY <1>4, <1>5 DEF Typed

\* A call is refused, or lost.
Fails(r, q) == Refuse(r, q) \/ \E how \in {"http", "lost"} : Lose(r, q, how)

LEMMA FailedTyped ==
  ASSUME Typed, NEW r \in Requests, NEW q \in wire, Fails(r, q)
  PROVE  Typed'
<1>1. PICK how : Fail(r, q, how)
  BY DEF Fails, Refuse, Lose
<1>2. failures' \in 0..MaxFailures
  BY FailureAssumption DEF Fails, Refuse, Lose, MayFail, Typed
<1>3. wire' \in SUBSET Flights
  <2>1. [q EXCEPT !.state = "abandoned"] \in Flights
    BY FlightType, FlightUpdate
  <2>2. wire' = wire \ {q} \/ Replace(q, [q EXCEPT !.state = "abandoned"])
    BY DEF Fails, Refuse, Lose
  <2> QED
    BY <2>1, <2>2, MoveTyped DEF Typed
<1>4. UNCHANGED <<document, memo, log>>
  BY DEF Fails, Refuse, Lose
<1> QED
  BY <1>1, <1>2, <1>3, <1>4, FailTyped DEF Typed

\* Every step keeps the types.
LEMMA NextTyped ==
  ASSUME Executing, [Next]_vars
  PROVE  Typed'
<1>1. Typed
  BY DEF Executing
<1>2. ASSUME NEW r \in Requests, Resolve(r) PROVE Typed'
  <2>1. CASE Finish(r)
    BY <1>1, <2>1, ReplyTyped DEF Finish, Results, Typed
  <2>2. CASE GivesUp(r)
    <3> DEFINE s == CurrentPlan(r)[stage[r] + 1]
    <3>1. /\ Running(r) /\ stage[r] < Len(CurrentPlan(r)) /\ s.calls = {}
          /\ Reply(r, s.mode) /\ UNCHANGED <<document, memo, wire, log, failures>>
      BY <2>2 DEF GivesUp, Awaited
    <3>2. stage[r] + 1 \in 1..Len(CurrentPlan(r))
      BY <1>1, <3>1, StageFacts DEF Staged, Typed
    <3>3. s.mode \in Results
      BY <1>1, <3>1, <3>2, StageFacts DEF Staged, Results
    <3> QED
      BY <1>1, <3>1, <3>3, ReplyTyped DEF Typed
  <2>3. CASE Send(r)
    BY <1>1, <2>3, SendTyped DEF Executing
  <2> QED
    BY <1>2, <2>1, <2>2, <2>3 DEF Resolve
<1>3. ASSUME NEW q \in wire, Serve(q) \/ ServiceWritesLate(q) PROVE Typed'
  BY <1>1, <1>3, ServeTyped DEF Serve
<1>4. ASSUME NEW r \in Requests, NEW q \in wire, Answer(r, q) \/ Fails(r, q)
      PROVE  Typed'
  BY <1>1, <1>4, AnswerTyped, FailedTyped
<1>5. CASE UNCHANGED vars
  BY <1>1, <1>5 DEF vars, Typed
<1> QED
  BY <1>2, <1>3, <1>4, <1>5 DEF Next, Fails

-----------------------------------------------------------------------------
(* The first layer: where every field, call and write belongs.             *)

\* The field of r goes on, in the stage it was.
Steady(r) ==
  /\ document' = document /\ LogKept
  /\ replies'[r] = replies[r] /\ stage'[r] = stage[r]
  /\ stage[r] <= 1 \/ Known(r)' = Known(r)

\* Nothing happens to the field of r.
Untouched(r) ==
  /\ document' = document /\ LogKept
  /\ replies'[r] = replies[r] /\ stage'[r] = stage[r]
  /\ seen'[r] = seen[r] /\ settled'[r] = settled[r]

LEMMA UntouchedIsSteady == ASSUME NEW r, Untouched(r) PROVE Steady(r)
  BY DEF Untouched, Steady, Known

LEMMA SteadyFacts ==
  ASSUME Executing, NEW r \in Requests, Steady(r)
  PROVE  /\ Current(r)' = Current(r) /\ Fields(r)' = Fields(r) /\ (Running(r)' <=> Running(r))
         /\ Running(r) => /\ stage[r] <= Len(CurrentPlan(r)') /\ Len(CurrentPlan(r)') \in Nat
                          /\ \A s \in 1..stage[r] : CurrentPlan(r)'[s] = CurrentPlan(r)[s]
<1>1. Current(r)' = Current(r) /\ Fields(r)' = Fields(r)
  BY DEF Steady, Current, Fields
<1>2. Running(r)' <=> Running(r)
  BY <1>1 DEF Running
<1>3. ASSUME Running(r)
      PROVE  /\ stage[r] <= Len(CurrentPlan(r)') /\ Len(CurrentPlan(r)') \in Nat
             /\ \A s \in 1..stage[r] : CurrentPlan(r)'[s] = CurrentPlan(r)[s]
  <2>1. stage[r] \in Nat /\ stage[r] <= Len(CurrentPlan(r))
    BY <1>3 DEF Executing, Typed, Flow
  <2>2. \A s \in 1..stage[r] : /\ s \in 1..Len(CurrentPlan(r)')
                               /\ CurrentPlan(r)'[s] = CurrentPlan(r)[s]
    BY <1>3, <2>1, PlanKept DEF Executing, Steady
  <2>3. Len(CurrentPlan(r)') \in Nat
    OBVIOUS
  <2> QED
    BY <2>1, <2>2, <2>3
<1> QED
  BY <1>1, <1>2, <1>3

\* The call q in flight is gone, or its caller gave up waiting for it.
NarrowedBy(q) ==
  \/ wire' = wire \ {q}
  \/ /\ Replace(q, [q EXCEPT !.state = "abandoned"])
     /\ q.state = "sent" /\ q.call.loader \notin Reads

\* The flight p is what became of q.
After(p, q) ==
  /\ p.by = q.by /\ p.call = q.call /\ p.stage = q.stage
  /\ p.sees <= Len(log') /\ p.sees \in Nat
  /\ p.state = "abandoned" => q.call.loader \notin Reads

LEMMA Narrowed ==
  ASSUME Executing, NEW q \in wire, NarrowedBy(q), LogKept
  PROVE  /\ \A p \in wire' : p \in wire \/ (After(p, q) /\ p.state = "abandoned")
         /\ q \notin wire' \/ q.state = "abandoned"
         /\ SentOnce'
<1> DEFINE o == [q EXCEPT !.state = "abandoned"]
<1>1. /\ q \in Flights /\ o.by = q.by /\ o.call = q.call /\ o.stage = q.stage
      /\ o.state = "abandoned" /\ o.sees = q.sees /\ q.sees \in Nat
  BY FlightType, FlightUpdate DEF Executing
<1>2. q.sees <= Len(log') /\ Len(log) \in Nat /\ Len(log') \in Nat
  <2>1. InFlight(q, q.by[1], q.by[2])
    BY DEF Executing
  <2> QED
    BY <1>1, <2>1 DEF InFlight, LogKept
<1> HIDE DEF o
<1>3. wire' = wire \ {q} \/ (wire' = (wire \ {q}) \cup {o} /\ q.call.loader \notin Reads)
  BY DEF NarrowedBy, Replace, o
<1>4. \A p \in wire' : p \in wire \/ (After(p, q) /\ p.state = "abandoned")
  BY <1>1, <1>2, <1>3 DEF After
<1>5. q \notin wire' \/ q.state = "abandoned"
  BY <1>1, <1>3
<1>6. \A p \in wire' : p \in wire \ {q} \/ p = o
  BY <1>3
<1>7. SentOnce'
  BY <1>1, <1>6 DEF Executing, SentOnce
<1> QED
  BY <1>4, <1>5, <1>7

LEMMA UntouchedFlow ==
  ASSUME Executing, NEW r \in Requests, Untouched(r)
  PROVE  Flow(r)'
<1>1. Flow(r) /\ stage[r] \in Nat /\ seen[r] \in Seq(Nat) /\ Len(log) \in Nat
  BY DEF Executing, Typed
<1>2. /\ Current(r)' = Current(r) /\ Fields(r)' = Fields(r) /\ (Running(r)' <=> Running(r))
      /\ Running(r) => /\ stage[r] <= Len(CurrentPlan(r)')
                       /\ \A s \in 1..stage[r] : CurrentPlan(r)'[s] = CurrentPlan(r)[s]
  BY UntouchedIsSteady, SteadyFacts
<1>3. /\ replies'[r] = replies[r] /\ stage'[r] = stage[r]
      /\ seen'[r] = seen[r] /\ settled'[r] = settled[r]
  BY DEF Untouched
<1>4. ASSUME NEW s \in 1..stage[r] PROVE seen[r][s] <= Len(log')
  <2>1. seen[r][s] \in Nat /\ seen[r][s] <= Len(log)
    BY <1>1, SMTT(30) DEF Flow
  <2> QED
    BY <1>1, <2>1 DEF Untouched, LogKept
<1>5. Running(r) => /\ stage[r] <= Len(CurrentPlan(r)')
                    /\ \A s \in 1..stage[r] : CurrentPlan(r)'[s].calls # {}
                    /\ stage[r] > 0 => settled[r] \subseteq CurrentPlan(r)'[stage[r]].calls
  <2>1. stage[r] > 0 => stage[r] \in 1..stage[r]
    BY <1>1
  <2> QED
    BY <1>1, <1>2, <2>1 DEF Flow
<1> QED
  BY <1>1, <1>2, <1>3, <1>4, <1>5 DEF Flow

\* A call in flight stays where it belongs while its field goes on.
LEMMA SteadyInFlight ==
  ASSUME Executing, NEW r \in Requests, Steady(r), NEW k, NEW q, InFlight(q, r, k),
         NEW p, p.by = q.by, p.call = q.call, p.stage = q.stage,
         p.sees <= Len(log'), p.state = "abandoned" => q.call.loader \notin Reads,
         k = Current(r) /\ CurrentPlan(r)[q.stage].mode # "log"
           => q.call \notin settled'[r] /\ p.state # "abandoned"
  PROVE  InFlight(p, r, k)'
<1>1. /\ Current(r)' = Current(r) /\ Fields(r)' = Fields(r)
      /\ Running(r) => \A s \in 1..stage[r] : CurrentPlan(r)'[s] = CurrentPlan(r)[s]
  BY SteadyFacts
<1>2. stage'[r] = stage[r]
  BY DEF Steady
<1>3. k = Current(r) => Running(r)
  BY FieldTypes DEF InFlight, Running, Executing, Typed
<1>4. ASSUME k = Current(r)
      PROVE  /\ q.stage \in 1..stage[r]
             /\ q.call \in CurrentPlan(r)'[q.stage].calls
             /\ CurrentPlan(r)'[q.stage].mode # "log" =>
                  q.stage = stage[r] /\ q.call \notin settled'[r] /\ p.state # "abandoned"
  BY <1>1, <1>3, <1>4 DEF InFlight
<1> QED
  BY <1>1, <1>2, <1>4 DEF InFlight

\* A write stays where it belongs while its field goes on, or after it.
LEMMA InLogKept ==
  ASSUME Executing, LogKept, NEW r \in Requests, NEW k, NEW i \in DOMAIN log, InLog(i, r, k),
         Fields(r)' = Fields(r),
         Steady(r) \/ (Current(r)' > Current(r) /\ Current(r)' \in Nat)
  PROVE  InLog(i, r, k)'
<1>1. log'[i] = log[i] /\ Written(i)' = Written(i) /\ Current(r) \in Nat
  <2>1. log \in Seq(Entries) /\ Current(r) \in Nat
    BY DEF Executing, Typed, Current
  <2>2. log'[i] = log[i]
    BY <2>1 DEF LogKept
  <2> QED
    BY <2>1, <2>2 DEF Written
<1>2. CASE Steady(r)
  <2>1. /\ Current(r)' = Current(r)
        /\ Running(r) => \A s \in 1..stage[r] : CurrentPlan(r)'[s] = CurrentPlan(r)[s]
    BY <1>2, SteadyFacts
  <2>2. stage'[r] = stage[r]
    BY <1>2 DEF Steady
  <2>3. k = Current(r) => Running(r)
    BY FieldTypes DEF InLog, Running, Executing, Typed
  <2> QED
    BY <1>1, <2>1, <2>2, <2>3 DEF InLog
<1>3. CASE Current(r)' > Current(r) /\ Current(r)' \in Nat
  BY <1>1, <1>3 DEF InLog
<1> QED
  BY <1>2, <1>3

LEMMA RememberedKept ==
  ASSUME Executing, LogKept, NEW r \in Requests, NEW m \in memo[r],
         Fields(r)' = Fields(r),
         Steady(r) \/ (Current(r)' > Current(r) /\ Current(r)' \in Nat)
  PROVE  Remembered(m, r)'
<1>1. m.sees \in Nat /\ m.sees <= Len(log) /\ Len(log) \in Nat /\ Current(r) \in Nat
  BY DEF Executing, Typed, Remembered, Current
<1>2. m.sees <= Len(log')
  BY <1>1 DEF LogKept
<1>3. PICK k \in 1..Current(r) :
        /\ k \in DOMAIN Fields(r) /\ m.on = Fields(r)[k].on
        /\ k = Current(r) => \E s \in 1..stage[r] : \E c \in CurrentPlan(r)[s].calls :
                               c.loader = m.loader
  BY DEF Executing, Remembered
<1>4. CASE Steady(r)
  <2>1. /\ Current(r)' = Current(r)
        /\ Running(r) => \A s \in 1..stage[r] : CurrentPlan(r)'[s] = CurrentPlan(r)[s]
    BY <1>4, SteadyFacts
  <2>2. stage'[r] = stage[r]
    BY <1>4 DEF Steady
  <2>3. k = Current(r) => Running(r)
    BY <1>3, FieldTypes DEF Running, Executing, Typed
  <2> QED
    BY <1>2, <1>3, <2>1, <2>2, <2>3 DEF Remembered
<1>5. CASE Current(r)' > Current(r) /\ Current(r)' \in Nat
  BY <1>1, <1>2, <1>3, <1>5 DEF Remembered
<1> QED
  BY <1>4, <1>5

\* A step at which only the field of r changes, besides what is in flight.
OnlyFor(r) == \A o \in Requests \ {r} : Untouched(o)

LEMMA ReplyFacts ==
  ASSUME Executing, NEW r \in Requests, NEW result, Reply(r, result),
         UNCHANGED <<document, log>>
  PROVE  /\ Current(r)' = Current(r) + 1 /\ Current(r) \in Nat /\ Current(r)' \in Nat
         /\ Fields(r)' = Fields(r) /\ LogKept /\ OnlyFor(r)
         /\ stage'[r] = 0 /\ settled'[r] = {} /\ seen'[r] = <<>>
         /\ Len(replies'[r]) = Len(replies[r]) + 1
         /\ \A k \in DOMAIN replies[r] : replies'[r][k] = replies[r][k]
         /\ DOMAIN replies'[r] = DOMAIN replies[r] \cup {Current(r)}
         /\ replies'[r][Current(r)].result = result
         /\ replies'[r][Current(r)].sees = IF seen[r] = <<>> THEN 0 ELSE seen[r][Len(seen[r])]
<1> DEFINE entry == [result |-> result,
                     sees |-> IF seen[r] = <<>> THEN 0 ELSE seen[r][Len(seen[r])]]
<1>1. /\ replies[r] \in Seq([result : Results, sees : Nat]) /\ replies'[r] = Append(replies[r], entry)
      /\ stage'[r] = 0 /\ settled'[r] = {} /\ seen'[r] = <<>>
      /\ \A o \in Requests \ {r} : /\ replies'[o] = replies[o] /\ stage'[o] = stage[o]
                                   /\ settled'[o] = settled[o] /\ seen'[o] = seen[o]
  BY DEF Executing, Typed, Reply
<1>2. /\ entry.result = result
      /\ entry.sees = IF seen[r] = <<>> THEN 0 ELSE seen[r][Len(seen[r])]
  OBVIOUS
<1> HIDE DEF entry
<1>3. /\ Len(replies'[r]) = Len(replies[r]) + 1 /\ Len(replies[r]) \in Nat
      /\ DOMAIN replies[r] = 1..Len(replies[r]) /\ DOMAIN replies'[r] = 1..(Len(replies[r]) + 1)
      /\ \A k \in DOMAIN replies[r] : replies'[r][k] = replies[r][k]
      /\ replies'[r][Len(replies[r]) + 1] = entry
  BY <1>1
<1>4. LogKept
  BY DEF LogKept, Executing, Typed
<1>5. OnlyFor(r)
  BY <1>1, <1>4 DEF OnlyFor, Untouched
<1> QED
  BY <1>1, <1>2, <1>3, <1>4, <1>5 DEF Current, Fields

LEMMA OthersFlow ==
  ASSUME Executing, NEW r \in Requests, OnlyFor(r), Flow(r)'
  PROVE  \A o \in Requests : Flow(o)'
  BY UntouchedFlow DEF OnlyFor

LEMMA ReplyStep ==
  ASSUME Executing, Typed', NEW r \in Requests, Running(r), NEW result, Reply(r, result),
         UNCHANGED <<document, memo, log>>,
         wire' = wire \/ \E q \in wire : q.by[1] = r /\ NarrowedBy(q)
  PROVE  Executing'
<1>1. /\ Current(r)' = Current(r) + 1 /\ Current(r) \in Nat /\ Current(r)' \in Nat
      /\ LogKept /\ OnlyFor(r) /\ \A o \in Requests : Fields(o)' = Fields(o)
      /\ stage'[r] = 0 /\ settled'[r] = {} /\ seen'[r] = <<>>
      /\ Len(replies'[r]) = Len(replies[r]) + 1
  BY ReplyFacts DEF Fields
<1>2. Current(r)' > Current(r)
  BY <1>1
<1>3. \A o \in Requests : Flow(o)'
  <2>1. Len(replies'[r]) <= Len(Fields(r))
    BY <1>1 DEF Running, Current
  <2>2. Len(CurrentPlan(r)') >= 0
    OBVIOUS
  <2>3. Flow(r)'
    BY <1>1, <2>1, <2>2 DEF Flow
  <2> QED
    BY <1>1, <2>3, OthersFlow
<1>4. ASSUME NEW o \in Requests, NEW m \in memo'[o] PROVE Remembered(m, o)'
  <2>1. m \in memo[o]
    OBVIOUS
  <2>2. Steady(o) \/ o = r
    BY <1>1, UntouchedIsSteady DEF OnlyFor
  <2> QED
    BY <1>1, <1>2, <2>1, <2>2, RememberedKept
<1>5. ASSUME NEW i \in DOMAIN log' PROVE InLog(i, log[i].by[1], log[i].by[2])'
  <2>1. i \in DOMAIN log /\ log' = log
    OBVIOUS
  <2>2. log[i].by[1] \in Requests /\ InLog(i, log[i].by[1], log[i].by[2])
    BY <2>1, EntryType DEF Executing
  <2>3. PICK o \in Requests : o = log[i].by[1]
    BY <2>2
  <2>4. PICK k : k = log[i].by[2]
    OBVIOUS
  <2>5. Steady(o) \/ o = r
    BY <1>1, UntouchedIsSteady DEF OnlyFor
  <2>6. InLog(i, o, k)'
    BY <1>1, <1>2, <2>1, <2>2, <2>3, <2>4, <2>5, InLogKept
  <2> QED
    BY <2>1, <2>3, <2>4, <2>6
<1>6. ASSUME NEW q \in wire, NEW p, p = q \/ (q.by[1] = r /\ After(p, q))
      PROVE  InFlight(p, p.by[1], p.by[2])'
  <2>1. InFlight(q, q.by[1], q.by[2]) /\ q.by[1] \in Requests
    BY FlightType DEF Executing
  <2>2. /\ p.by = q.by /\ p.call = q.call /\ p.stage = q.stage /\ p.sees <= Len(log')
        /\ p.state = "abandoned" => q.call.loader \notin Reads
    BY <1>6, <2>1 DEF InFlight, After
  <2>3. CASE q.by[1] = r
    BY <1>1, <2>1, <2>2, <2>3 DEF InFlight
  <2>4. CASE q.by[1] # r
    <3>1. Untouched(q.by[1]) /\ p = q
      BY <1>1, <1>6, <2>1, <2>4 DEF OnlyFor
    <3>2. q.by[2] = Current(q.by[1]) /\ CurrentPlan(q.by[1])[q.stage].mode # "log"
            => q.call \notin settled'[q.by[1]] /\ p.state # "abandoned"
      BY <2>1, <3>1 DEF InFlight, Untouched
    <3> QED
      BY <2>1, <2>2, <3>1, <3>2, UntouchedIsSteady, SteadyInFlight
  <2> QED
    BY <2>3, <2>4
<1>7. /\ \A p \in wire' : InFlight(p, p.by[1], p.by[2])'
      /\ SentOnce'
  <2>1. CASE wire' = wire
    BY <1>6, <2>1 DEF Executing, SentOnce
  <2>2. CASE \E q \in wire : q.by[1] = r /\ NarrowedBy(q)
    BY <1>1, <1>6, <2>2, Narrowed
  <2> QED
    BY <2>1, <2>2
<1> QED
  BY <1>3, <1>4, <1>5, <1>7 DEF Executing

LEMMA WantedFacts ==
  ASSUME Executing, NEW r \in Requests, NEW q \in wire, Wanted(r, q)
  PROVE  /\ q.by[1] = r /\ q.by[2] = Current(r) /\ Running(r)
         /\ q.stage = stage[r] /\ stage[r] \in 1..stage[r] /\ stage[r] > 0 /\ stage[r] \in Nat
         /\ q.call \in CurrentPlan(r)[stage[r]].calls
         /\ stage[r] \in 1..Len(CurrentPlan(r))
<1>1. InFlight(q, q.by[1], q.by[2])
  BY DEF Executing
<1>2. q.by = <<r, Current(r)>> /\ q.stage = stage[r] /\ Running(r) /\ stage[r] \in Nat
  BY DEF Wanted, Executing, Typed
<1>3. q.by[1] = r /\ q.by[2] = Current(r)
  BY <1>2
<1>4. q.stage \in 1..stage[r] /\ q.call \in CurrentPlan(r)[q.stage].calls
  BY <1>1, <1>3 DEF InFlight
<1>5. stage[r] <= Len(CurrentPlan(r)) /\ Len(CurrentPlan(r)) \in Nat
  BY <1>2, StageFacts DEF Executing, Flow, Staged
<1> QED
  BY <1>2, <1>3, <1>4, <1>5

\* What an answer, or a failure that is not noticed, changes.
Settles(r, q) ==
  /\ q.by[1] = r /\ NarrowedBy(q) /\ UNCHANGED <<document, replies, stage, log>>
  /\ \/ /\ Wanted(r, q) /\ settled' = [settled EXCEPT ![r] = @ \cup {q.call}]
        /\ seen' = seen \/ seen' = [seen EXCEPT ![r][q.stage] = q.sees]
        /\ wire' = wire \ {q} \/ CurrentPlan(r)[stage[r]].mode = "log"
     \/ ~Wanted(r, q) /\ UNCHANGED <<settled, seen>>
  /\ \/ memo' = memo
     \/ /\ q.call.loader \in Reads
        /\ memo' = [memo EXCEPT ![r] = @ \cup {[loader |-> q.call.loader, on |-> q.call.on,
                                                sees |-> q.sees]}]

LEMMA SettlesSteady ==
  ASSUME Executing, NEW r \in Requests, NEW q \in wire, Settles(r, q)
  PROVE  /\ LogKept /\ OnlyFor(r) /\ Steady(r)
         /\ \A o \in Requests : Fields(o)' = Fields(o)
<1>1. LogKept
  BY DEF LogKept, Executing, Typed, Settles
<1>2. /\ document' = document /\ replies' = replies /\ stage' = stage
      /\ \A o \in Requests \ {r} : settled'[o] = settled[o] /\ seen'[o] = seen[o]
  BY DEF Settles, Executing, Typed
<1>3. OnlyFor(r)
  BY <1>1, <1>2 DEF OnlyFor, Untouched
<1>4. stage[r] <= 1 \/ Known(r)' = Known(r)
  <2>1. CASE seen' = seen
    BY <2>1 DEF Known
  <2>2. CASE Wanted(r, q) /\ seen' = [seen EXCEPT ![r][q.stage] = q.sees] /\ stage[r] > 1
    <3>1. seen[r] \in Seq(Nat) /\ Len(seen[r]) = stage[r] /\ stage[r] \in Nat
      BY DEF Executing, Typed, Flow
    <3>2. q.stage = stage[r]
      BY <2>2 DEF Wanted
    <3>3. seen'[r] = [seen[r] EXCEPT ![q.stage] = q.sees]
      BY <2>2 DEF Executing, Typed
    <3>4. seen'[r] # <<>> /\ seen[r] # <<>> /\ seen'[r][1] = seen[r][1]
      BY <2>2, <3>1, <3>2, <3>3
    <3> QED
      BY <3>4 DEF Known
  <2>3. stage[r] \in Nat
    BY DEF Executing, Typed
  <2> QED
    BY <2>1, <2>2, <2>3 DEF Settles
<1> QED
  BY <1>1, <1>2, <1>3, <1>4 DEF Steady, Fields

LEMMA SettleStep ==
  ASSUME Executing, Typed', NEW r \in Requests, NEW q \in wire, Settles(r, q)
  PROVE  Executing'
<1>1. /\ LogKept /\ OnlyFor(r) /\ Steady(r) /\ \A o \in Requests : Fields(o)' = Fields(o)
  BY SettlesSteady
<1>2. /\ Current(r)' = Current(r) /\ (Running(r)' <=> Running(r))
      /\ Running(r) => /\ stage[r] <= Len(CurrentPlan(r)')
                       /\ \A s \in 1..stage[r] : CurrentPlan(r)'[s] = CurrentPlan(r)[s]
  BY <1>1, SteadyFacts
<1>3. /\ InFlight(q, q.by[1], q.by[2]) /\ q.by[1] = r /\ q.by = <<r, q.by[2]>>
      /\ q.sees \in Nat /\ q.sees <= Len(log) /\ log' = log /\ replies' = replies /\ stage' = stage
  BY FlightType DEF Executing, InFlight, Settles
<1>4. Flow(r)'
  <2>1. /\ Flow(r) /\ stage[r] \in Nat /\ seen[r] \in Seq(Nat) /\ settled \in [Requests -> SUBSET AnyCall]
    BY DEF Executing, Typed
  <2>2. /\ Len(seen'[r]) = stage[r]
        /\ \A s \in 1..stage[r] : seen'[r][s] <= Len(log)
    <3>1. CASE seen' = seen
      BY <2>1, <3>1 DEF Flow
    <3>2. CASE seen' = [seen EXCEPT ![r][q.stage] = q.sees]
      <4>1. seen'[r] = [seen[r] EXCEPT ![q.stage] = q.sees]
        BY <3>2 DEF Executing, Typed
      <4>2. Len(seen[r]) = stage[r] /\ \A s \in 1..stage[r] : seen[r][s] <= Len(log)
        BY <2>1 DEF Flow
      <4> QED
        BY <1>3, <2>1, <4>1, <4>2
    <3> QED
      BY <3>1, <3>2 DEF Settles
  <2>3. /\ stage[r] = 0 => settled'[r] = {}
        /\ Running(r) /\ stage[r] > 0 => settled'[r] \subseteq CurrentPlan(r)[stage[r]].calls
    <3>1. CASE settled' = settled
      BY <2>1, <3>1 DEF Flow
    <3>2. CASE Wanted(r, q) /\ settled' = [settled EXCEPT ![r] = @ \cup {q.call}]
      <4>1. settled'[r] = settled[r] \cup {q.call}
        BY <2>1, <3>2
      <4>2. /\ stage[r] > 0 /\ Running(r) /\ q.call \in CurrentPlan(r)[stage[r]].calls
        BY <3>2, WantedFacts
      <4> QED
        BY <2>1, <4>1, <4>2 DEF Flow
    <3> QED
      BY <3>1, <3>2 DEF Settles
  <2>4. stage[r] > 0 => stage[r] \in 1..stage[r]
    BY <2>1
  <2> QED
    BY <1>1, <1>2, <1>3, <2>1, <2>2, <2>3, <2>4 DEF Flow
<1>5. ASSUME NEW o \in Requests, NEW m \in memo'[o] PROVE Remembered(m, o)'
  <2>1. CASE m \in memo[o]
    <3>1. Steady(o)
      BY <1>1, UntouchedIsSteady DEF OnlyFor
    <3> QED
      BY <1>1, <2>1, <3>1, RememberedKept
  <2>2. CASE m \notin memo[o]
    <3>1. o = r /\ m.loader = q.call.loader /\ m.on = q.call.on /\ m.sees = q.sees
      BY <2>2, SMTT(30) DEF Settles, Executing, Typed
    <3>2. m.sees <= Len(log')
      BY <1>3, <3>1
    <3>3. /\ q.by[2] \in 1..Current(r) /\ q.by[2] \in DOMAIN Fields(r) /\ m.on = Fields(r)[q.by[2]].on
      BY <1>3, <3>1 DEF InFlight
    <3>4. ASSUME q.by[2] = Current(r)
          PROVE  \E s \in 1..stage[r] : \E c \in CurrentPlan(r)'[s].calls : c.loader = m.loader
      <4>1. Running(r)
        BY <3>3, <3>4, IsRunning DEF Executing
      <4> QED
        BY <1>2, <1>3, <3>1, <3>4, <4>1 DEF InFlight
    <3> QED
      BY <1>1, <1>2, <1>3, <3>1, <3>2, <3>3, <3>4 DEF Remembered
  <2> QED
    BY <2>1, <2>2
<1>6. ASSUME NEW i \in DOMAIN log' PROVE InLog(i, log[i].by[1], log[i].by[2])'
  <2>1. i \in DOMAIN log /\ log' = log
    BY <1>3
  <2>2. log[i].by[1] \in Requests /\ InLog(i, log[i].by[1], log[i].by[2])
    BY <2>1, EntryType DEF Executing
  <2>3. PICK o \in Requests : o = log[i].by[1]
    BY <2>2
  <2>4. PICK k : k = log[i].by[2]
    OBVIOUS
  <2>5. Steady(o)
    BY <1>1, UntouchedIsSteady DEF OnlyFor
  <2>6. InLog(i, o, k)'
    BY <1>1, <2>1, <2>2, <2>3, <2>4, <2>5, InLogKept
  <2> QED
    BY <2>1, <2>3, <2>4, <2>6
<1>7. /\ \A p \in wire' : p \in wire \/ (After(p, q) /\ p.state = "abandoned")
      /\ q \notin wire' \/ q.state = "abandoned"
      /\ SentOnce'
  BY <1>1, Narrowed DEF Settles
<1>8. ASSUME NEW p \in wire' PROVE InFlight(p, p.by[1], p.by[2])'
  <2>1. CASE p \in wire
    <3>1. InFlight(p, p.by[1], p.by[2]) /\ p.by[1] \in Requests /\ p.by = <<p.by[1], p.by[2]>>
      BY <2>1, FlightType DEF Executing
    <3>2. Steady(p.by[1])
      BY <1>1, <3>1, UntouchedIsSteady DEF OnlyFor
    <3>3. p.sees <= Len(log') /\ (p.state = "abandoned" => p.call.loader \notin Reads)
      BY <1>3, <3>1 DEF InFlight
    <3>4. ASSUME p.by[2] = Current(p.by[1]), CurrentPlan(p.by[1])[p.stage].mode # "log"
          PROVE  p.call \notin settled'[p.by[1]] /\ p.state # "abandoned"
      <4>1. p.call \notin settled[p.by[1]] /\ p.state # "abandoned" /\ p.stage = stage[p.by[1]]
        BY <3>1, <3>4 DEF InFlight
      <4>2. CASE settled'[p.by[1]] = settled[p.by[1]]
        BY <4>1, <4>2
      <4>3. CASE settled'[p.by[1]] # settled[p.by[1]]
        <5>1. p.by[1] = r /\ Wanted(r, q) /\ settled'[r] = settled[r] \cup {q.call}
              /\ (wire' = wire \ {q} \/ CurrentPlan(r)[stage[r]].mode = "log")
          BY <4>3, <3>1 DEF Settles, Executing, Typed
        <5>2. q.by[2] = Current(r) /\ q.stage = stage[r]
          BY <5>1, WantedFacts
        <5>3. p # q
          BY <3>4, <4>1, <5>1
        <5>4. p.call # q.call
          BY <1>3, <2>1, <3>1, <3>4, <5>1, <5>2, <5>3 DEF Executing, SentOnce
        <5> QED
          BY <4>1, <5>1, <5>4
      <4> QED
        BY <4>2, <4>3
    <3> QED
      BY <3>1, <3>2, <3>3, <3>4, SteadyInFlight
  <2>2. CASE After(p, q) /\ p.state = "abandoned" /\ p \notin wire
    <3>1. wire' # wire \ {q}
      BY <2>2
    <3>2. ~(q.by[2] = Current(r) /\ CurrentPlan(r)[q.stage].mode # "log")
      <4>1. SUFFICES ASSUME q.by[2] = Current(r), CurrentPlan(r)[q.stage].mode # "log"
                     PROVE  FALSE
        OBVIOUS
      <4>2. q.stage = stage[r] /\ Running(r)
        BY <1>3, <4>1, FieldTypes DEF InFlight, Running, Executing, Typed
      <4>3. Wanted(r, q)
        BY <1>3, <4>1, <4>2 DEF Wanted
      <4> QED
        BY <3>1, <4>1, <4>2, <4>3 DEF Settles
    <3>3. InFlight(p, r, q.by[2])'
      BY <1>1, <1>3, <2>2, <3>2, SteadyInFlight DEF After
    <3> QED
      BY <1>3, <2>2, <3>3 DEF After
  <2> QED
    BY <1>7, <2>1, <2>2
<1>9. \A o \in Requests : Flow(o)'
  BY <1>1, <1>4, OthersFlow
<1> QED
  BY <1>5, <1>6, <1>7, <1>8, <1>9 DEF Executing

\* The write of q is kept at the end of the log.
LEMMA LogGrows ==
  ASSUME Typed, NEW q \in wire, log' = Append(log, Entry(q))
  PROVE  /\ LogKept /\ Len(log') = Len(log) + 1 /\ log'[Len(log) + 1] = Entry(q)
         /\ DOMAIN log' = DOMAIN log \cup {Len(log) + 1} /\ Len(log) \in Nat
         /\ \A i \in DOMAIN log : log'[i] = log[i] /\ i <= Len(log)
<1>1. log \in Seq(Entries) /\ Entry(q) \in Entries
  BY EntryOf DEF Typed
<1> HIDE DEF Entry
<1>2. /\ Len(log') = Len(log) + 1 /\ log'[Len(log) + 1] = Entry(q) /\ Len(log) \in Nat
      /\ \A i \in 1..Len(log) : log'[i] = log[i]
      /\ DOMAIN log = 1..Len(log) /\ DOMAIN log' = 1..(Len(log) + 1)
  BY <1>1
<1> QED
  BY <1>2 DEF LogKept

ServiceStep(q) == ServiceReads(q) \/ ServiceWrites(q) \/ ServiceWritesLate(q)

LEMMA ServiceFacts ==
  ASSUME Executing, NEW q \in wire, ServiceStep(q)
  PROVE  /\ UNCHANGED <<document, replies, stage, settled, seen, memo, failures>>
         /\ LogKept /\ \A r \in Requests : Untouched(r) /\ Fields(r)' = Fields(r)
         /\ log' = log \/ (log' = Append(log, Entry(q)) /\ q.call.loader \notin Reads)
         /\ \/ wire' = wire \ {q}
            \/ \E p \in Flights : /\ After(p, q) /\ p.state = "answered" /\ p.sees = Len(log')
                                  /\ wire' = (wire \ {q}) \cup {p}
<1>1. /\ UNCHANGED <<document, replies, stage, settled, seen, memo, failures>>
      /\ log' = log \/ log' = Append(log, Entry(q))
  BY DEF ServiceStep, ServiceReads, ServiceWrites, ServiceWritesLate
<1>2. Typed
  BY DEF Executing
<1>3. LogKept
  <2>1. CASE log' = log
    <3>1. Len(log) \in Nat
      BY <1>2 DEF Typed
    <3> QED
      BY <2>1, <3>1 DEF LogKept
  <2> QED
    BY <1>1, <1>2, <2>1, LogGrows
<1>4. Len(log') \in Nat
  BY <1>3 DEF LogKept
<1>5. ASSUME NEW p, p = [q EXCEPT !.state = "answered", !.sees = Len(log')]
      PROVE  p \in Flights /\ After(p, q) /\ p.state = "answered" /\ p.sees = Len(log')
  <2>1. q \in Flights
    BY <1>2, FlightType
  <2>2. /\ p \in Flights /\ p.by = q.by /\ p.call = q.call /\ p.stage = q.stage
        /\ p.state = "answered" /\ p.sees = Len(log')
    <3>1. PICK n \in Nat : n = Len(log')
      BY <1>4
    <3>2. p = [q EXCEPT !.state = "answered", !.sees = n]
      BY <1>5, <3>1
    <3> QED
      BY <2>1, <3>1, <3>2 DEF Flights
  <2> QED
    BY <1>4, <2>2 DEF After
<1>6. \/ wire' = wire \ {q}
      \/ \E p \in Flights : /\ After(p, q) /\ p.state = "answered" /\ p.sees = Len(log')
                            /\ wire' = (wire \ {q}) \cup {p}
  <2>1. CASE ServiceReads(q)
    BY <1>5, <2>1 DEF ServiceReads, Replace
  <2>2. CASE ServiceWrites(q)
    BY <1>5, <2>2 DEF ServiceWrites, Replace
  <2> QED
    BY <2>1, <2>2 DEF ServiceStep, ServiceWritesLate
<1>7. log' = log \/ q.call.loader \notin Reads
  <2>1. q.state = "abandoned" => q.call.loader \notin Reads
    BY DEF Executing, InFlight
  <2> QED
    BY <2>1 DEF ServiceStep, ServiceReads, ServiceWrites, ServiceWritesLate
<1>8. \A r \in Requests : Untouched(r) /\ Fields(r)' = Fields(r)
  BY <1>1, <1>3 DEF Untouched, Fields
<1> QED
  BY <1>1, <1>3, <1>6, <1>7, <1>8

LEMMA ServeStep ==
  ASSUME Executing, Typed', NEW q \in wire, ServiceStep(q)
  PROVE  Executing'
<1>1. /\ UNCHANGED <<document, replies, stage, settled, seen, memo, failures>>
      /\ LogKept /\ \A r \in Requests : Untouched(r) /\ Steady(r) /\ Fields(r)' = Fields(r)
  BY ServiceFacts, UntouchedIsSteady
<1>2. \A r \in Requests : Flow(r)' /\ \A m \in memo'[r] : Remembered(m, r)'
  BY <1>1, UntouchedFlow, RememberedKept
<1>3. /\ InFlight(q, q.by[1], q.by[2]) /\ q.by[1] \in Requests /\ q.by = <<q.by[1], q.by[2]>>
      /\ q.call = Call(q.call.loader, q.call.on, q.call.item)
  BY FlightType DEF Executing
<1>4. ASSUME NEW i \in DOMAIN log, NEW r \in Requests, NEW k, InLog(i, r, k)
      PROVE  InLog(i, r, k)'
  BY <1>1, <1>4, InLogKept
<1>5. ASSUME NEW i \in DOMAIN log' PROVE InLog(i, log[i].by[1], log[i].by[2])'
  <2>1. CASE i \in DOMAIN log
    <3>1. InLog(i, log[i].by[1], log[i].by[2]) /\ log[i].by[1] \in Requests
      BY <2>1, EntryType DEF Executing
    <3>2. log'[i] = log[i]
      <4>1. DOMAIN log = 1..Len(log)
        BY DEF Executing, Typed
      <4> QED
        BY <1>1, <2>1, <4>1 DEF LogKept
    <3>3. PICK r \in Requests : r = log[i].by[1]
      BY <3>1
    <3>4. PICK k : k = log[i].by[2]
      OBVIOUS
    <3>5. InLog(i, r, k)'
      BY <1>4, <2>1, <3>1, <3>3, <3>4
    <3> QED
      BY <3>2, <3>3, <3>4, <3>5
  <2>2. CASE i \notin DOMAIN log
    <3>1. log' = Append(log, Entry(q)) /\ q.call.loader \notin Reads
      BY <2>2, ServiceFacts
    <3>2. log'[i] = Entry(q)
      BY <2>2, <3>1, LogGrows DEF Executing
    <3>3. /\ log'[i].by = q.by /\ Written(i)' = q.call /\ log'[i].loader = q.call.loader
      BY <3>2, EntryOf DEF Executing, Written
    <3>4. PICK r \in Requests : r = q.by[1]
      BY <1>3
    <3>5. PICK k : k = q.by[2]
      OBVIOUS
    <3>6. Current(r)' = Current(r) /\ Fields(r)' = Fields(r) /\ stage'[r] = stage[r]
      BY <1>1, SteadyFacts
    <3>7. ASSUME k = Current(r)
          PROVE  \E s \in 1..stage[r] : q.call \in CurrentPlan(r)'[s].calls
      <4>1. Running(r)
        BY <1>3, <3>4, <3>5, <3>7, FieldTypes, SMTT(30) DEF InFlight, Running, Executing, Typed
      <4> QED
        BY <1>1, <1>3, <3>4, <3>5, <3>7, <4>1, SteadyFacts DEF InFlight
    <3>8. InLog(i, r, k)'
      BY <1>3, <3>1, <3>3, <3>4, <3>5, <3>6, <3>7 DEF InLog, InFlight
    <3> QED
      BY <3>3, <3>4, <3>5, <3>8
  <2> QED
    BY <2>1, <2>2
<1>6. ASSUME NEW p \in wire PROVE InFlight(p, p.by[1], p.by[2])'
  <2>1. InFlight(p, p.by[1], p.by[2]) /\ p.by[1] \in Requests /\ p.sees \in Nat
    BY FlightType DEF Executing
  <2>2. p.sees <= Len(log') /\ (p.state = "abandoned" => p.call.loader \notin Reads)
    BY <1>1, <2>1 DEF InFlight, LogKept, Executing, Typed
  <2>3. p.by[2] = Current(p.by[1]) /\ CurrentPlan(p.by[1])[p.stage].mode # "log"
          => p.call \notin settled'[p.by[1]] /\ p.state # "abandoned"
    BY <1>1, <2>1 DEF InFlight
  <2> QED
    BY <1>1, <2>1, <2>2, <2>3, SteadyInFlight
<1>7. ASSUME NEW p \in Flights, After(p, q), p.state = "answered"
      PROVE  InFlight(p, p.by[1], p.by[2])'
  <2>1. p.by[2] = Current(p.by[1]) /\ CurrentPlan(p.by[1])[p.stage].mode # "log"
          => p.call \notin settled'[p.by[1]] /\ p.state # "abandoned"
    BY <1>1, <1>3, <1>7 DEF InFlight, After
  <2>2. InFlight(p, q.by[1], q.by[2])'
    BY <1>1, <1>3, <1>7, <2>1, SteadyInFlight DEF After
  <2> QED
    BY <1>7, <2>2 DEF After
<1>8. (\A p \in wire' : InFlight(p, p.by[1], p.by[2])') /\ SentOnce'
  <2>1. CASE wire' = wire \ {q}
    BY <1>6, <2>1 DEF Executing, SentOnce
  <2>2. CASE \E p \in Flights : After(p, q) /\ p.state = "answered" /\ wire' = (wire \ {q}) \cup {p}
    <3>1. PICK p \in Flights : After(p, q) /\ p.state = "answered" /\ wire' = (wire \ {q}) \cup {p}
      BY <2>2
    <3>2. SentOnce'
      BY <3>1 DEF Executing, SentOnce, After
    <3> QED
      BY <1>6, <1>7, <3>1, <3>2
  <2> QED
    BY <2>1, <2>2, ServiceFacts
<1> QED
  BY <1>2, <1>5, <1>8 DEF Executing

\* The calls of the next stage, and those of them that are not in the memo.
NextCalls(r) == CurrentPlan(r)[stage[r] + 1].calls

Fresh(r) == {c \in NextCalls(r) : Memoised(r, c) = {}}

\* p was just sent for the field of r.
Sent(p, r) ==
  /\ p.by = <<r, Current(r)>> /\ p.stage = stage[r] + 1 /\ p.call \in Fresh(r)
  /\ p.state = "sent" /\ p.sees = 0
  /\ p = Request(r, p.call, Value(Fields(r)[Current(r)], p.call.loader, Known(r)))

LEMMA SendFacts ==
  ASSUME Executing, NEW r \in Requests, Send(r)
  PROVE  /\ UNCHANGED <<document, replies, memo, log, failures>>
         /\ LogKept /\ OnlyFor(r) /\ \A o \in Requests : Fields(o)' = Fields(o)
         /\ Awaited(r) /\ NextCalls(r) # {}
         /\ stage[r] \in Nat /\ stage'[r] = stage[r] + 1 /\ stage[r] + 1 \in 1..Len(CurrentPlan(r))
         /\ settled'[r] = NextCalls(r) \ Fresh(r)
         /\ wire \subseteq wire' /\ \A p \in wire' : p \in wire \/ Sent(p, r)
         /\ \A c \in Fresh(r) : \E p \in wire' : Sent(p, r) /\ p.call = c
<1> DEFINE old == UNION {Memoised(r, c) : c \in NextCalls(r)}
           sees == IF old = {} THEN 0 ELSE (CHOOSE m \in old : TRUE).sees
           new == {Request(r, c, Value(Fields(r)[Current(r)], c.loader, Known(r))) : c \in Fresh(r)}
<1>1. /\ Awaited(r) /\ stage[r] < Len(CurrentPlan(r)) /\ NextCalls(r) # {}
      /\ wire' = wire \cup new
      /\ settled' = [settled EXCEPT ![r] = NextCalls(r) \ Fresh(r)]
      /\ seen' = [seen EXCEPT ![r] = Append(@, sees)]
      /\ stage' = [stage EXCEPT ![r] = @ + 1]
      /\ UNCHANGED <<document, replies, memo, log, failures>>
  BY DEF Send, NextCalls, Fresh
<1>2. stage[r] \in Nat /\ Len(CurrentPlan(r)) \in Nat
  BY <1>1, StageFacts DEF Executing, Typed, Awaited, Staged
<1>3. /\ stage'[r] = stage[r] + 1 /\ settled'[r] = NextCalls(r) \ Fresh(r)
      /\ \A o \in Requests \ {r} : /\ stage'[o] = stage[o] /\ settled'[o] = settled[o]
                                   /\ seen'[o] = seen[o]
  BY <1>1 DEF Executing, Typed
<1>4. ASSUME NEW c \in Fresh(r), NEW p, p = Request(r, c, Value(Fields(r)[Current(r)], c.loader, Known(r)))
      PROVE  Sent(p, r) /\ p.call = c
  BY <1>4 DEF Sent, Request
<1>5. \A p \in new : Sent(p, r)
  BY <1>4
<1>6. \A c \in Fresh(r) : \E p \in new : Sent(p, r) /\ p.call = c
  BY <1>4
<1> HIDE DEF old, sees, new
<1>7. LogKept
  BY <1>1 DEF LogKept, Executing, Typed
<1>8. OnlyFor(r) /\ \A o \in Requests : Fields(o)' = Fields(o)
  BY <1>1, <1>3, <1>7 DEF OnlyFor, Untouched, Fields
<1> QED
  BY <1>1, <1>2, <1>3, <1>5, <1>6, <1>7, <1>8

\* What the new stage reflects of the log, and the plan so far.
LEMMA SendKeeps ==
  ASSUME Executing, NEW r \in Requests, Send(r)
  PROVE  /\ Len(seen'[r]) = stage[r] + 1 /\ \A s \in 1..stage[r] : seen'[r][s] = seen[r][s]
         /\ \A s \in 1..(stage[r] + 1) : seen'[r][s] <= Len(log)
         /\ LET old == UNION {Memoised(r, c) : c \in NextCalls(r)}
            IN  seen'[r][stage[r] + 1] = IF old = {} THEN 0 ELSE (CHOOSE m \in old : TRUE).sees
         /\ Current(r)' = Current(r) /\ Running(r) /\ Running(r)'
         /\ stage[r] + 1 <= Len(CurrentPlan(r)')
         /\ \A s \in 1..(stage[r] + 1) : CurrentPlan(r)'[s] = CurrentPlan(r)[s]
<1> DEFINE old == UNION {Memoised(r, c) : c \in NextCalls(r)}
           sees == IF old = {} THEN 0 ELSE (CHOOSE m \in old : TRUE).sees
<1>1. /\ seen' = [seen EXCEPT ![r] = Append(@, sees)] /\ Awaited(r)
  BY DEF Send, NextCalls
<1>2. sees \in Nat /\ sees <= Len(log)
  <2>1. \A c \in NextCalls(r) : Memoised(r, c) \subseteq memo[r]
    BY DEF Memoised
  <2>2. old \subseteq memo[r]
    BY <2>1
  <2> HIDE DEF old
  <2>3. old # {} => (CHOOSE m \in old : TRUE) \in memo[r]
    BY <2>2
  <2>4. \A m \in memo[r] : m.sees \in Nat /\ m.sees <= Len(log)
    BY DEF Executing, Typed, Remembered
  <2>5. 0 <= Len(log)
    BY DEF Executing, Typed
  <2> QED
    BY <2>3, <2>4, <2>5
<1> HIDE DEF sees, old
<1>3. /\ seen[r] \in Seq(Nat) /\ Len(seen[r]) = stage[r] /\ stage[r] \in Nat
      /\ \A s \in 1..stage[r] : seen[r][s] <= Len(log)
  BY DEF Executing, Typed, Flow
<1>4. seen'[r] = Append(seen[r], sees)
  BY <1>1 DEF Executing, Typed
<1>5. /\ Len(seen'[r]) = stage[r] + 1 /\ \A s \in 1..stage[r] : seen'[r][s] = seen[r][s]
      /\ seen'[r][stage[r] + 1] = sees
  BY <1>2, <1>3, <1>4
<1>6. \A s \in 1..(stage[r] + 1) : seen'[r][s] <= Len(log)
  <2>1. \A s \in 1..(stage[r] + 1) : s \in 1..stage[r] \/ s = stage[r] + 1
    BY <1>3
  <2> QED
    BY <1>2, <1>3, <1>5, <2>1
<1>7. /\ LogKept /\ Fields(r)' = Fields(r) /\ replies' = replies /\ document' = document
      /\ stage[r] + 1 \in 1..Len(CurrentPlan(r)) /\ Running(r)
  BY SendFacts DEF Awaited
<1>8. stage[r] + 1 <= 1 \/ Known(r)' = Known(r)
  <2>1. ASSUME stage[r] > 0 PROVE Known(r)' = Known(r)
    <3>1. seen[r] # <<>> /\ seen'[r] # <<>> /\ seen'[r][1] = seen[r][1]
      BY <1>3, <1>5, <2>1
    <3> QED
      BY <3>1 DEF Known
  <2> QED
    BY <1>3, <2>1
<1>9. Current(r)' = Current(r) /\ Running(r)'
  BY <1>7 DEF Current, Running
<1>10. stage[r] + 1 \in Nat /\ stage[r] + 1 <= Len(CurrentPlan(r)) /\ Flow(r) /\ Typed
  BY <1>3, <1>7, StageFacts DEF Staged, Executing
<1>11. \A s \in 1..(stage[r] + 1) : /\ s \in 1..Len(CurrentPlan(r)')
                                    /\ CurrentPlan(r)'[s] = CurrentPlan(r)[s]
  BY <1>7, <1>8, <1>10, PlanKept
<1>12. stage[r] + 1 <= Len(CurrentPlan(r)')
  <2>1. stage[r] + 1 \in 1..(stage[r] + 1)
    BY <1>3
  <2>2. stage[r] + 1 \in 1..Len(CurrentPlan(r)')
    BY <1>11, <2>1
  <2> QED
    BY <1>10, <2>2
<1> QED
  BY <1>5, <1>6, <1>7, <1>9, <1>11, <1>12 DEF sees, old

LEMMA SendStep ==
  ASSUME Executing, Typed', NEW r \in Requests, Send(r)
  PROVE  Executing'
<1>1. /\ UNCHANGED <<document, replies, memo, log, failures>>
      /\ LogKept /\ OnlyFor(r) /\ \A o \in Requests : Fields(o)' = Fields(o)
      /\ Awaited(r) /\ NextCalls(r) # {}
      /\ stage[r] \in Nat /\ stage'[r] = stage[r] + 1 /\ stage[r] + 1 \in 1..Len(CurrentPlan(r))
      /\ settled'[r] = NextCalls(r) \ Fresh(r)
      /\ wire \subseteq wire' /\ \A p \in wire' : p \in wire \/ Sent(p, r)
  BY SendFacts
<1>2. /\ Len(seen'[r]) = stage[r] + 1
      /\ \A s \in 1..(stage[r] + 1) : seen'[r][s] <= Len(log)
      /\ Current(r)' = Current(r) /\ Running(r) /\ Running(r)'
      /\ stage[r] + 1 <= Len(CurrentPlan(r)')
      /\ \A s \in 1..(stage[r] + 1) : CurrentPlan(r)'[s] = CurrentPlan(r)[s]
  BY SendKeeps
<1>3. Current(r) \in DOMAIN Fields(r) /\ Good(CurrentPlan(r), Fields(r)[Current(r)])
  BY <1>2, CurrentIsGood DEF Executing
<1>4. Flow(r)'
  <2>1. /\ Flow(r) /\ stage[r] + 1 \in 1..(stage[r] + 1) /\ stage[r] + 1 > 0
        /\ \A s \in 1..(stage[r] + 1) : s \in 1..stage[r] \/ s = stage[r] + 1
    BY <1>1 DEF Executing
  <2>2. \A s \in 1..(stage[r] + 1) : CurrentPlan(r)'[s].calls # {}
    BY <1>1, <1>2, <2>1 DEF Flow, NextCalls
  <2>3. settled'[r] \subseteq CurrentPlan(r)'[stage[r] + 1].calls
    BY <1>1, <1>2, <2>1 DEF NextCalls
  <2>4. Len(replies[r]) <= Len(Fields(r))
    BY <2>1 DEF Flow
  <2>5. stage[r] + 1 # 0
    BY <1>1
  <2> QED
    BY <1>1, <1>2, <2>1, <2>2, <2>3, <2>4, <2>5 DEF Flow
<1>5. ASSUME NEW o \in Requests, NEW m \in memo'[o] PROVE Remembered(m, o)'
  <2>1. m \in memo[o] /\ Remembered(m, o)
    BY <1>1 DEF Executing
  <2>2. CASE o # r
    BY <1>1, <2>1, <2>2, UntouchedIsSteady, RememberedKept DEF OnlyFor
  <2>3. CASE o = r
    <3>1. PICK k \in 1..Current(r) :
            /\ k \in DOMAIN Fields(r) /\ m.on = Fields(r)[k].on
            /\ k = Current(r) => \E s \in 1..stage[r] : \E c \in CurrentPlan(r)[s].calls :
                                   c.loader = m.loader
      BY <2>1, <2>3 DEF Remembered
    <3>2. k = Current(r) => \E s \in 1..stage'[r] : \E c \in CurrentPlan(r)'[s].calls :
                              c.loader = m.loader
      <4>1. \A s \in 1..stage[r] : s \in 1..(stage[r] + 1)
        BY <1>1
      <4> QED
        BY <1>1, <1>2, <3>1, <4>1
    <3> QED
      BY <1>1, <1>2, <2>1, <2>3, <3>1, <3>2 DEF Remembered
  <2> QED
    BY <2>2, <2>3
<1>6. ASSUME NEW i \in DOMAIN log' PROVE InLog(i, log[i].by[1], log[i].by[2])'
  <2>1. i \in DOMAIN log /\ log' = log /\ Written(i)' = Written(i)
    BY <1>1 DEF Written
  <2>2. log[i].by[1] \in Requests /\ InLog(i, log[i].by[1], log[i].by[2])
    BY <2>1, EntryType DEF Executing
  <2>3. PICK o \in Requests : o = log[i].by[1]
    BY <2>2
  <2>4. PICK k : k = log[i].by[2]
    OBVIOUS
  <2>5. CASE o # r
    <3>1. InLog(i, o, k)'
      BY <1>1, <2>1, <2>2, <2>3, <2>4, <2>5, UntouchedIsSteady, InLogKept DEF OnlyFor
    <3> QED
      BY <2>1, <2>3, <2>4, <3>1
  <2>6. CASE o = r
    <3>1. k = Current(r) => \E s \in 1..stage'[r] : Written(i) \in CurrentPlan(r)'[s].calls
      <4>1. \A s \in 1..stage[r] : s \in 1..(stage[r] + 1)
        BY <1>1
      <4> QED
        BY <1>1, <1>2, <2>2, <2>3, <2>4, <2>6, <4>1 DEF InLog
    <3>2. InLog(i, r, k)'
      BY <1>1, <1>2, <2>1, <2>2, <2>3, <2>4, <2>6, <3>1 DEF InLog
    <3> QED
      BY <2>1, <2>3, <2>4, <2>6, <3>2
  <2> QED
    BY <2>5, <2>6
<1>7. ASSUME NEW q \in wire, q.by[1] = r, q.by[2] = Current(r)
      PROVE  /\ q.stage \in 1..stage[r] /\ q.call \in CurrentPlan(r)[q.stage].calls
             /\ CurrentPlan(r)[q.stage].mode = "log"
  <2>1. /\ q.stage \in 1..stage[r] /\ q.call \in CurrentPlan(r)[q.stage].calls
        /\ CurrentPlan(r)[q.stage].mode # "log" => q.stage = stage[r] /\ q.call \notin settled[r]
    BY <1>7 DEF Executing, InFlight
  <2>2. stage[r] > 0
    BY <1>1, <2>1
  <2> QED
    BY <1>1, <2>1, <2>2 DEF Awaited
<1>8. ASSUME NEW q \in wire PROVE InFlight(q, q.by[1], q.by[2])'
  <2>1. InFlight(q, q.by[1], q.by[2]) /\ q.by[1] \in Requests
    BY FlightType DEF Executing
  <2>2. CASE q.by[1] = r
    <3>1. /\ q.by[2] \in 1..Current(r) /\ q.by[2] \in DOMAIN Fields(r)
          /\ q.call.on = Fields(r)[q.by[2]].on /\ q.sees <= Len(log)
          /\ (q.state = "abandoned" => q.call.loader \notin Reads)
      BY <2>1, <2>2 DEF InFlight
    <3>2. q.by[2] = Current(r) =>
            /\ q.stage \in 1..(stage[r] + 1) /\ q.call \in CurrentPlan(r)'[q.stage].calls
            /\ CurrentPlan(r)'[q.stage].mode = "log"
      <4>1. \A s \in 1..stage[r] : s \in 1..(stage[r] + 1)
        BY <1>1
      <4> QED
        BY <1>2, <1>7, <2>2, <4>1
    <3> QED
      BY <1>1, <1>2, <2>2, <3>1, <3>2 DEF InFlight
  <2>3. CASE q.by[1] # r
    <3>1. Untouched(q.by[1]) /\ Steady(q.by[1])
      BY <1>1, <2>1, <2>3, UntouchedIsSteady DEF OnlyFor
    <3>2. /\ q.by[2] = Current(q.by[1]) /\ CurrentPlan(q.by[1])[q.stage].mode # "log"
               => q.call \notin settled'[q.by[1]] /\ q.state # "abandoned"
          /\ q.sees <= Len(log') /\ (q.state = "abandoned" => q.call.loader \notin Reads)
      BY <1>1, <2>1, <3>1 DEF InFlight, Untouched
    <3> QED
      BY <2>1, <3>1, <3>2, SteadyInFlight
  <2> QED
    BY <2>2, <2>3
<1>9. ASSUME NEW p \in wire', Sent(p, r) PROVE InFlight(p, p.by[1], p.by[2])'
  <2>1. /\ p.by[1] = r /\ p.by[2] = Current(r) /\ p.stage = stage[r] + 1
        /\ p.call \in NextCalls(r) /\ p.call \in Fresh(r) /\ p.state = "sent" /\ p.sees = 0
    BY <1>9 DEF Sent, Fresh
  <2>2. stage[r] + 1 \in 1..(stage[r] + 1) /\ p.call \in CurrentPlan(r)'[stage[r] + 1].calls
    BY <1>1, <1>2, <2>1 DEF NextCalls
  <2>3. p.call.on = Fields(r)[Current(r)].on
    BY <1>1, <1>2, <2>1, StageFacts DEF Staged, NextCalls, Executing
  <2>4. Current(r) \in 1..Current(r) /\ 0 <= Len(log)
    BY <1>3 DEF Executing, Typed, Current
  <2>5. p.call \notin settled'[r]
    BY <1>1, <2>1
  <2> QED
    BY <1>1, <1>2, <1>3, <2>1, <2>2, <2>3, <2>4, <2>5 DEF InFlight
<1>10. SentOnce'
  <2> SUFFICES ASSUME NEW q \in wire', NEW p \in wire', q.by = p.by, q.call = p.call
               PROVE  q = p
    BY DEF SentOnce
  <2>1. CASE q \in wire /\ p \in wire
    BY <2>1 DEF Executing, SentOnce
  <2>2. CASE Sent(q, r) /\ Sent(p, r)
    BY <2>2 DEF Sent
  <2>3. ASSUME NEW x \in wire, NEW y, Sent(y, r), x.by = y.by, x.call = y.call PROVE FALSE
    <3>1. x.by[1] = r /\ x.by[2] = Current(r) /\ y.call \in NextCalls(r)
      BY <2>3 DEF Sent, Fresh
    <3>2. x.stage \in 1..stage[r] /\ x.call \in CurrentPlan(r)[x.stage].calls
      BY <1>7, <3>1
    <3>3. x.stage # stage[r] + 1 /\ x.stage \in DOMAIN CurrentPlan(r)
          /\ stage[r] + 1 \in DOMAIN CurrentPlan(r)
      BY <1>1, <1>2, <3>2, StageFacts DEF Staged, Executing
    <3> QED
      BY <1>3, <2>3, <3>1, <3>2, <3>3 DEF Good, Shape, Once, NextCalls
  <2> QED
    BY <1>1, <2>1, <2>2, <2>3
<1>11. \A o \in Requests : Flow(o)'
  BY <1>1, <1>4, OthersFlow
<1> QED
  BY <1>1, <1>5, <1>6, <1>8, <1>9, <1>10, <1>11 DEF Executing

LEMMA AnswerSettles ==
  ASSUME Executing, NEW r \in Requests, NEW q \in wire, Answer(r, q)
  PROVE  Settles(r, q)
<1>1. /\ q.by[1] = r /\ wire' = wire \ {q} /\ UNCHANGED <<document, replies, stage, log>>
      /\ \/ /\ Wanted(r, q)
            /\ settled' = [settled EXCEPT ![r] = @ \cup {q.call}]
            /\ seen' = [seen EXCEPT ![r][q.stage] = q.sees]
         \/ ~Wanted(r, q) /\ UNCHANGED <<settled, seen>>
  BY DEF Answer
<1>2. \/ memo' = memo
      \/ /\ q.call.loader \in Reads
         /\ memo' = [memo EXCEPT ![r] = @ \cup {[loader |-> q.call.loader, on |-> q.call.on,
                                                 sees |-> q.sees]}]
  BY DEF Answer
<1> QED
  BY <1>1, <1>2 DEF Settles, NarrowedBy

\* A call that fails ends its field, is only logged, or is no longer wanted.
LEMMA FailureFacts ==
  ASSUME Executing, NEW r \in Requests, NEW q \in wire, Fails(r, q)
  PROVE  /\ q.by[1] = r /\ NarrowedBy(q) /\ UNCHANGED <<document, memo, log>>
         /\ \/ /\ Wanted(r, q) /\ CurrentPlan(r)[stage[r]].mode # "log"
               /\ \E how \in {"http", "lost"} :
                    Reply(r, ResultOf(CurrentPlan(r)[stage[r]].mode, how))
            \/ Settles(r, q)
<1>1. PICK how \in {"http", "lost"} : Fail(r, q, how)
  BY DEF Fails, Refuse, Lose
<1>2. q.by[1] = r /\ UNCHANGED <<document, memo, log>>
  BY DEF Fails, Refuse, Lose
<1>3. NarrowedBy(q)
  BY DEF Fails, Refuse, Lose, NarrowedBy
<1>4. CASE /\ Wanted(r, q) /\ CurrentPlan(r)[stage[r]].mode # "log"
           /\ Reply(r, ResultOf(CurrentPlan(r)[stage[r]].mode, how))
  BY <1>1, <1>2, <1>3, <1>4
<1>5. CASE /\ Wanted(r, q) /\ CurrentPlan(r)[stage[r]].mode = "log"
           /\ settled' = [settled EXCEPT ![r] = @ \cup {q.call}]
           /\ UNCHANGED <<replies, stage, seen>>
  BY <1>2, <1>3, <1>5 DEF Settles
<1>6. CASE ~Wanted(r, q) /\ UNCHANGED <<replies, stage, settled, seen>>
  BY <1>2, <1>3, <1>6 DEF Settles
<1> QED
  BY <1>1, <1>4, <1>5, <1>6 DEF Fail

LEMMA FailureStep ==
  ASSUME Executing, Typed', NEW r \in Requests, NEW q \in wire, Fails(r, q)
  PROVE  Executing'
<1>1. CASE Settles(r, q)
  BY <1>1, SettleStep
<1>2. CASE Wanted(r, q) /\ \E result : Reply(r, result)
  <2>1. Running(r)
    BY <1>2 DEF Wanted
  <2> QED
    BY <1>2, <2>1, FailureFacts, ReplyStep
<1> QED
  BY <1>1, <1>2, FailureFacts

\* A resolver that ends a field without a further call.
LEMMA EndFacts ==
  ASSUME Executing, NEW r \in Requests, Finish(r) \/ GivesUp(r)
  PROVE  /\ Running(r) /\ Awaited(r) /\ UNCHANGED <<document, memo, wire, log>>
         /\ \/ Reply(r, "success") /\ stage[r] = Len(CurrentPlan(r))
            \/ \E result \in {"thrown", "payload", "null"} : Reply(r, result)
<1>1. Running(r) /\ Awaited(r) /\ UNCHANGED <<document, memo, wire, log>>
  BY DEF Finish, GivesUp, Awaited
<1>2. CASE GivesUp(r)
  <2> DEFINE s == CurrentPlan(r)[stage[r] + 1]
  <2>1. stage[r] < Len(CurrentPlan(r)) /\ s.calls = {} /\ Reply(r, s.mode)
    BY <1>2 DEF GivesUp
  <2>2. stage[r] + 1 \in 1..Len(CurrentPlan(r))
    BY <1>1, <2>1, StageFacts DEF Staged, Executing, Typed
  <2>3. s.mode \in {"thrown", "payload", "null"}
    BY <1>1, <2>1, <2>2, StageFacts DEF Staged, Executing
  <2> HIDE DEF s
  <2> QED
    BY <1>1, <2>1, <2>3
<1> QED
  BY <1>1, <1>2 DEF Finish

LEMMA StutterStep == ASSUME Executing, UNCHANGED vars PROVE Executing'
<1>1. Typed' /\ SentOnce'
  BY DEF vars, Executing, Typed, SentOnce
<1>2. /\ \A r \in Requests : Untouched(r) /\ Fields(r)' = Fields(r)
      /\ UNCHANGED <<document, replies, stage, settled, seen, memo, wire, log>> /\ LogKept
  BY DEF vars, Untouched, LogKept, Fields, Executing, Typed
<1>3. \A r \in Requests : Flow(r)' /\ \A m \in memo'[r] : Remembered(m, r)'
  BY <1>2, UntouchedFlow, UntouchedIsSteady, RememberedKept
<1>4. ASSUME NEW i \in DOMAIN log' PROVE InLog(i, log[i].by[1], log[i].by[2])'
  <2>1. i \in DOMAIN log /\ log[i].by[1] \in Requests /\ InLog(i, log[i].by[1], log[i].by[2])
    BY <1>2, EntryType DEF Executing
  <2>2. PICK r \in Requests : r = log[i].by[1]
    BY <2>1
  <2>3. PICK k : k = log[i].by[2]
    OBVIOUS
  <2>4. InLog(i, r, k)'
    BY <1>2, <2>1, <2>2, <2>3, UntouchedIsSteady, InLogKept
  <2> QED
    BY <1>2, <2>2, <2>3, <2>4
<1>5. ASSUME NEW q \in wire' PROVE InFlight(q, q.by[1], q.by[2])'
  <2>1. q \in wire /\ q.by[1] \in Requests /\ InFlight(q, q.by[1], q.by[2])
    BY <1>2, FlightType DEF Executing
  <2>2. /\ q.sees <= Len(log') /\ (q.state = "abandoned" => q.call.loader \notin Reads)
        /\ q.by[2] = Current(q.by[1]) /\ CurrentPlan(q.by[1])[q.stage].mode # "log"
             => q.call \notin settled'[q.by[1]] /\ q.state # "abandoned"
    BY <1>2, <2>1 DEF InFlight
  <2> QED
    BY <1>2, <2>1, <2>2, UntouchedIsSteady, SteadyInFlight
<1> QED
  BY <1>1, <1>3, <1>4, <1>5 DEF Executing

LEMMA ExecutingInit == Init => Executing
<1> SUFFICES ASSUME Init PROVE Executing
  OBVIOUS
<1>1. Typed
  <2>1. failures \in 0..MaxFailures
    BY FailureAssumption DEF Init
  <2>2. replies \in [Requests -> Seq([result : Results, sees : Nat])] /\ seen \in [Requests -> Seq(Nat)]
    BY DEF Init
  <2>3. /\ stage \in [Requests -> Nat] /\ settled \in [Requests -> SUBSET AnyCall]
        /\ memo \in [Requests -> SUBSET [loader : Reads, on : Things, sees : Nat]]
        /\ wire \in SUBSET Flights /\ log \in Seq(Entries)
    BY DEF Init
  <2> QED
    BY <2>1, <2>2, <2>3 DEF Init, Typed
<1>2. ASSUME NEW r \in Requests PROVE Flow(r) /\ memo[r] = {}
  <2>1. /\ Len(replies[r]) = 0 /\ Len(seen[r]) = 0 /\ stage[r] = 0 /\ settled[r] = {}
        /\ memo[r] = {}
    BY DEF Init
  <2>2. Len(Fields(r)) \in Nat
    BY <1>1, FieldTypes
  <2>3. Running(r) => Len(CurrentPlan(r)) \in Nat
    BY <1>1, StageFacts DEF Staged
  <2> QED
    BY <2>1, <2>2, <2>3 DEF Flow
<1>3. wire = {} /\ DOMAIN log = {}
  BY DEF Init
<1> QED
  BY <1>1, <1>2, <1>3 DEF Executing, SentOnce

LEMMA ExecutingNext == Executing /\ [Next]_vars => Executing'
<1> SUFFICES ASSUME Executing, [Next]_vars PROVE Executing'
  OBVIOUS
<1>1. Typed'
  BY NextTyped
<1>2. ASSUME NEW r \in Requests, Resolve(r) PROVE Executing'
  BY <1>1, <1>2, EndFacts, ReplyStep, SendStep DEF Resolve
<1>3. ASSUME NEW q \in wire, Serve(q) \/ ServiceWritesLate(q) PROVE Executing'
  BY <1>1, <1>3, ServeStep DEF Serve, ServiceStep
<1>4. ASSUME NEW r \in Requests, NEW q \in wire, Answer(r, q) \/ Fails(r, q)
      PROVE  Executing'
  BY <1>1, <1>4, AnswerSettles, SettleStep, FailureStep
<1>5. CASE UNCHANGED vars
  BY <1>5, StutterStep
<1> QED
  BY <1>2, <1>3, <1>4, <1>5 DEF Next, Fails

\* In every reachable state each call in flight and each write performed is of
\* the plan of a field that was begun, and a resolver is where its plan says.
THEOREM ExecutionInvariance == Spec => []Executing
<1>1. Init => Executing
  BY ExecutingInit
<1>2. Executing /\ [Next]_vars => Executing'
  BY ExecutingNext
<1> QED
  BY <1>1, <1>2, PTL DEF Spec

LEMMA ExecutingIsTyped == Executing => TypeOK
<1> SUFFICES ASSUME Executing PROVE TypeOK
  OBVIOUS
<1>1. document \in Documents /\ failures \in 0..MaxFailures
  BY DEF Executing, Typed
<1>2. ASSUME NEW r \in Requests
      PROVE  /\ Len(replies[r]) <= Len(Fields(r))
             /\ \A k \in DOMAIN replies[r] :
                  replies[r][k].result \in {"success", "payload", "thrown", "null"}
             /\ Len(seen[r]) = stage[r]
             /\ Running(r) => /\ Stages(CurrentPlan(r))
                              /\ stage[r] <= Len(CurrentPlan(r))
                              /\ stage[r] > 0 => settled[r] \subseteq CurrentPlan(r)[stage[r]].calls
  <2>1. Flow(r) /\ replies[r] \in Seq([result : Results, sees : Nat])
    BY DEF Executing, Typed
  <2>2. Running(r) => Stages(CurrentPlan(r))
    BY CurrentIsGood DEF Good, Shape, Executing
  <2>3. ASSUME NEW k \in DOMAIN replies[r] PROVE replies[r][k].result \in Results
    <3>1. replies[r][k] \in [result : Results, sees : Nat]
      BY <2>1, ElementType
    <3> QED
      BY <3>1
  <2> QED
    BY <2>1, <2>2, <2>3 DEF Flow, Results
<1>3. \A q \in wire : q.state \in {"sent", "answered", "abandoned"} /\ q.by[1] \in Requests
  BY FlightType DEF Executing
<1> QED
  BY <1>1, <1>2, <1>3 DEF TypeOK

\* The type invariant of Mutations, for all documents.
THEOREM MutationsTypeCorrect == Spec => []TypeOK
<1>1. Executing => TypeOK
  BY ExecutingIsTyped
<1> QED
  BY <1>1, ExecutionInvariance, PTL

-----------------------------------------------------------------------------
(* The second layer: what is awaited was performed, each call once.        *)

Performed(by, c) == \E i \in DOMAIN log : log[i].by = by /\ Written(i) = c

\* A write that the service may still perform.
Pending(q) == q.state \in {"sent", "abandoned"} /\ q.call.loader \notin Reads

\* A write is performed once, and not before its service acts on it.
PerformedOnce ==
  /\ \A i, j \in DOMAIN log : log[i].by = log[j].by /\ Written(i) = Written(j) => i = j
  /\ \A q \in wire : /\ Pending(q) => ~Performed(q.by, q.call)
                     /\ q.state = "answered" /\ q.call.loader \notin Reads
                          => Performed(q.by, q.call)

\* What was awaited was performed, but for failures that are only logged.
Progress(r) ==
  Running(r) => \A s \in 1..stage[r] : CurrentPlan(r)[s].mode # "log" =>
    \A c \in CurrentPlan(r)[s].calls :
      c.loader \notin Reads /\ (s < stage[r] \/ c \in settled[r])
        => Performed(<<r, Current(r)>>, c)

\* An image is in flight after those before it were attached.
ImageReady(q, r, k) ==
  Fields(r)[k].kind \in ImageKinds /\ q.call.loader \in Images =>
    \A n \in 1..(q.call.item - 1) : \E j \in OwnBy(r, k, Images) : log[j].item = n

Ordered ==
  /\ \A r \in Requests : Progress(r)
  /\ \A q \in wire : ImageReady(q, q.by[1], q.by[2])
  /\ PerformedOnce
  /\ ImagesInOrder

LEMMA PerformedKept ==
  ASSUME Executing, LogKept
  PROVE  /\ \A by, c : Performed(by, c) => Performed(by, c)'
         /\ \A r, k, S : OwnBy(r, k, S) \subseteq OwnBy(r, k, S)'
         /\ \A i \in DOMAIN log : i \in DOMAIN log' /\ log'[i] = log[i]
<1>1. \A i \in DOMAIN log : i \in DOMAIN log' /\ log'[i] = log[i]
  <2>1. DOMAIN log = 1..Len(log) /\ Len(log) \in Nat
    BY DEF Executing, Typed
  <2>2. 1..Len(log) \subseteq 1..Len(log')
    BY <2>1 DEF LogKept
  <2> QED
    BY <2>1, <2>2 DEF LogKept
<1>2. ASSUME NEW by, NEW c, NEW i \in DOMAIN log, log[i].by = by, Written(i) = c
      PROVE  Performed(by, c)'
  <2>1. i \in DOMAIN log' /\ log'[i] = log[i]
    BY <1>1
  <2>2. Written(i)' = c
    BY <1>2, <2>1 DEF Written
  <2> QED
    BY <1>2, <2>1, <2>2 DEF Performed
<1>3. \A by, c : Performed(by, c) => Performed(by, c)'
  BY <1>2 DEF Performed
<1>4. ASSUME NEW r, NEW k, NEW S PROVE OwnBy(r, k, S) \subseteq OwnBy(r, k, S)'
  BY <1>1 DEF OwnBy, Own
<1> QED
  BY <1>1, <1>3, <1>4

LEMMA ReadyKept ==
  ASSUME Executing, LogKept, NEW q \in wire, NEW p, p.by = q.by, p.call = q.call,
         Fields(q.by[1])' = Fields(q.by[1]), ImageReady(q, q.by[1], q.by[2])
  PROVE  ImageReady(p, p.by[1], p.by[2])'
<1>1. PICK r, k : r = q.by[1] /\ k = q.by[2]
  OBVIOUS
<1>2. /\ OwnBy(r, k, Images) \subseteq OwnBy(r, k, Images)'
      /\ \A j \in OwnBy(r, k, Images) : log'[j] = log[j]
  BY PerformedKept DEF OwnBy, Own
<1>3. ImageReady(p, r, k)'
  BY <1>1, <1>2 DEF ImageReady
<1> QED
  BY <1>1, <1>3

\* The field of r goes on, and what it got an answer to was performed.
LEMMA SteadyProgress ==
  ASSUME Executing, NEW r \in Requests, Steady(r), Progress(r),
         Running(r) /\ stage[r] > 0 /\ CurrentPlan(r)[stage[r]].mode # "log" =>
           \A c \in settled'[r] :
             c \in settled[r] \/ c.loader \in Reads \/ Performed(<<r, Current(r)>>, c)
  PROVE  Progress(r)'
<1>1. /\ Current(r)' = Current(r) /\ (Running(r)' <=> Running(r))
      /\ Running(r) => \A s \in 1..stage[r] : CurrentPlan(r)'[s] = CurrentPlan(r)[s]
  BY SteadyFacts
<1>2. stage'[r] = stage[r] /\ LogKept /\ stage[r] \in Nat
  BY DEF Steady, Executing, Typed
<1> SUFFICES ASSUME Running(r), NEW s \in 1..stage[r], CurrentPlan(r)[s].mode # "log",
                    NEW c \in CurrentPlan(r)[s].calls, c.loader \notin Reads,
                    s < stage[r] \/ c \in settled'[r]
             PROVE  Performed(<<r, Current(r)>>, c)
  BY <1>1, <1>2, PerformedKept DEF Progress
<1>3. CASE s < stage[r]
  BY <1>3 DEF Progress
<1>4. CASE s = stage[r] /\ c \in settled'[r]
  <2>1. c \in settled[r] \/ Performed(<<r, Current(r)>>, c)
    BY <1>2, <1>4
  <2> QED
    BY <1>4, <2>1 DEF Progress
<1> QED
  BY <1>2, <1>3, <1>4

LEMMA UntouchedProgress ==
  ASSUME Executing, NEW r \in Requests, Untouched(r), Progress(r)
  PROVE  Progress(r)'
<1>1. Steady(r) /\ settled'[r] = settled[r]
  BY UntouchedIsSteady DEF Untouched
<1> QED
  BY <1>1, SteadyProgress

LEMMA ImagesKept ==
  ASSUME ImagesInOrder, log' = log, \A r \in Requests : Fields(r)' = Fields(r)
  PROVE  ImagesInOrder'
<1>1. \A r, k : OwnBy(r, k, Images)' = OwnBy(r, k, Images)
  BY DEF OwnBy, Own
<1>2. ASSUME NEW r \in Requests, NEW k \in DOMAIN Fields(r),
             Fields(r)[k].kind \in ImageKinds, NEW i \in OwnBy(r, k, Images),
             NEW n \in 1..(log[i].item - 1)
      PROVE  \E j \in OwnBy(r, k, Images) : j < i /\ log[j].item = n
  BY <1>2 DEF ImagesInOrder
<1> QED
  BY <1>1, <1>2 DEF ImagesInOrder

\* Without a new write, it is enough that calls in flight stay what they are.
LEMMA OrderKept ==
  ASSUME Executing, Ordered, log' = log, LogKept,
         \A r \in Requests : Fields(r)' = Fields(r) /\ Progress(r)',
         \A p \in wire' : \E q \in wire : /\ p.by = q.by /\ p.call = q.call
                                          /\ p.state = q.state \/ (Pending(p) /\ Pending(q))
                                             \/ q.call.loader \in Reads
  PROVE  Ordered'
<1>1. \A by, c : Performed(by, c)' <=> Performed(by, c)
  BY DEF Performed, Written
<1>2. PerformedOnce'
  <2>1. \A i, j \in DOMAIN log : Written(i)' = Written(i) /\ Written(j)' = Written(j)
    BY DEF Written
  <2>2. ASSUME NEW p \in wire'
        PROVE  /\ Pending(p) => ~Performed(p.by, p.call)
               /\ p.state = "answered" /\ p.call.loader \notin Reads => Performed(p.by, p.call)
    BY DEF Ordered, PerformedOnce, Pending
  <2> QED
    BY <1>1, <2>1, <2>2 DEF Ordered, PerformedOnce, Pending
<1>3. ASSUME NEW p \in wire' PROVE ImageReady(p, p.by[1], p.by[2])'
  <2>1. PICK q \in wire : p.by = q.by /\ p.call = q.call
    OBVIOUS
  <2> QED
    BY <2>1, FlightType, ReadyKept DEF Ordered, Executing
<1>4. ImagesInOrder'
  BY ImagesKept DEF Ordered
<1> QED
  BY <1>2, <1>3, <1>4 DEF Ordered

LEMMA NarrowedPending ==
  ASSUME Executing, NEW q \in wire, NarrowedBy(q)
  PROVE  \A p \in wire' : \E o \in wire : /\ p.by = o.by /\ p.call = o.call
                                          /\ p.state = o.state \/ (Pending(p) /\ Pending(o))
<1> DEFINE a == [q EXCEPT !.state = "abandoned"]
<1>1. a.by = q.by /\ a.call = q.call /\ a.state = "abandoned"
  BY FlightType, FlightUpdate DEF Executing
<1>2. \/ wire' = wire \ {q}
      \/ wire' = (wire \ {q}) \cup {a} /\ q.state = "sent" /\ q.call.loader \notin Reads
  BY DEF NarrowedBy, Replace
<1> HIDE DEF a
<1> QED
  BY <1>1, <1>2 DEF Pending

LEMMA ReplyOrder ==
  ASSUME Executing, Ordered, NEW r \in Requests, NEW result, Reply(r, result),
         UNCHANGED <<document, log>>, wire' = wire \/ \E q \in wire : NarrowedBy(q)
  PROVE  Ordered'
<1>1. OnlyFor(r) /\ LogKept /\ stage'[r] = 0 /\ \A o \in Requests : Fields(o)' = Fields(o)
  BY ReplyFacts DEF Fields
<1>2. \A o \in Requests : Progress(o)'
  <2>1. Progress(r)'
    BY <1>1 DEF Progress
  <2> QED
    BY <1>1, <2>1, UntouchedProgress DEF OnlyFor, Ordered
<1> QED
  BY <1>1, <1>2, NarrowedPending, OrderKept

LEMMA SettleOrder ==
  ASSUME Executing, Ordered, NEW r \in Requests, NEW q \in wire, Settles(r, q),
         Wanted(r, q) => q.state = "answered" \/ CurrentPlan(r)[stage[r]].mode = "log"
  PROVE  Ordered'
<1>1. /\ LogKept /\ OnlyFor(r) /\ Steady(r) /\ log' = log
      /\ \A o \in Requests : Fields(o)' = Fields(o)
  BY SettlesSteady DEF Settles
<1>2. Progress(r)'
  <2>1. CASE settled' = settled
    BY <1>1, <2>1, SteadyProgress DEF Ordered
  <2>2. CASE Wanted(r, q) /\ settled' = [settled EXCEPT ![r] = @ \cup {q.call}]
    <3>1. settled'[r] = settled[r] \cup {q.call}
      BY <2>2 DEF Executing, Typed
    <3>2. q.by = <<r, Current(r)>>
      BY <2>2 DEF Wanted
    <3>3. \/ CurrentPlan(r)[stage[r]].mode = "log" \/ q.call.loader \in Reads
          \/ Performed(<<r, Current(r)>>, q.call)
      BY <2>2, <3>2 DEF Ordered, PerformedOnce
    <3> QED
      BY <1>1, <3>1, <3>3, SteadyProgress DEF Ordered
  <2> QED
    BY <2>1, <2>2 DEF Settles
<1>3. \A o \in Requests : Progress(o)'
  BY <1>1, <1>2, UntouchedProgress DEF OnlyFor, Ordered
<1> QED
  BY <1>1, <1>3, NarrowedPending, OrderKept DEF Settles

\* Which write a service performs, and what is in flight afterwards.
LEMMA ServiceWhat ==
  ASSUME Executing, NEW q \in wire, ServiceStep(q)
  PROVE  /\ \/ log' = log /\ q.call.loader \in Reads
            \/ log' = Append(log, Entry(q)) /\ Pending(q)
         /\ \A p \in wire' : p \in wire \ {q}
                             \/ (p.by = q.by /\ p.call = q.call /\ p.state = "answered")
<1>1. q.state = "abandoned" => q.call.loader \notin Reads
  BY DEF Executing, InFlight
<1> QED
  BY <1>1, ServiceFacts DEF ServiceStep, ServiceReads, ServiceWrites, ServiceWritesLate, Pending,
                            After

LEMMA ServeOrder ==
  ASSUME Executing, Ordered, NEW q \in wire, ServiceStep(q)
  PROVE  Ordered'
<1>1. /\ LogKept /\ \A r \in Requests : Untouched(r) /\ Fields(r)' = Fields(r)
  BY ServiceFacts
<1>2. \A r \in Requests : Progress(r)'
  BY <1>1, UntouchedProgress DEF Ordered
<1>3. /\ \/ log' = log /\ q.call.loader \in Reads
         \/ log' = Append(log, Entry(q)) /\ Pending(q)
      /\ \A p \in wire' : p \in wire \ {q}
                          \/ (p.by = q.by /\ p.call = q.call /\ p.state = "answered")
  BY ServiceWhat
<1>4. CASE log' = log /\ q.call.loader \in Reads
  BY <1>1, <1>2, <1>3, <1>4, OrderKept
<1>5. CASE log' = Append(log, Entry(q)) /\ Pending(q)
  <2>1. /\ Len(log') = Len(log) + 1 /\ log'[Len(log) + 1] = Entry(q)
        /\ DOMAIN log' = DOMAIN log \cup {Len(log) + 1} /\ Len(log) \in Nat
        /\ \A i \in DOMAIN log : log'[i] = log[i] /\ i <= Len(log)
    BY <1>5, LogGrows DEF Executing
  <2>2. Entry(q).by = q.by /\ Entry(q).loader = q.call.loader /\ Entry(q).item = q.call.item
        /\ Call(Entry(q).loader, Entry(q).on, Entry(q).item) = q.call
    BY EntryOf DEF Executing
  <2> DEFINE z == Len(log) + 1
             w == [i \in DOMAIN log' |-> Call(log'[i].loader, log'[i].on, log'[i].item)]
  <2>3. /\ z \in DOMAIN log' /\ log'[z].by = q.by /\ log'[z].loader = q.call.loader
        /\ log'[z].item = q.call.item /\ w[z] = q.call
    <3>1. z \in DOMAIN log' /\ log'[z] = Entry(q)
      BY <2>1
    <3>2. w[z] = Call(log'[z].loader, log'[z].on, log'[z].item)
      BY <3>1
    <3> HIDE DEF z, w
    <3> QED
      BY <2>2, <3>1, <3>2
  <2>4. \A i \in DOMAIN log : i \in DOMAIN log' /\ w[i] = Written(i) /\ i < z
    BY <2>1 DEF Written
  <2>5. DOMAIN log' = DOMAIN log \cup {z}
    BY <2>1
  <2>w. /\ \A by, c : Performed(by, c)' <=> \E i \in DOMAIN log' : log'[i].by = by /\ w[i] = c
        /\ \A by, c : Performed(by, c) <=> \E i \in DOMAIN log : log'[i].by = by /\ w[i] = c
    BY <2>1, <2>4 DEF Performed, Written
  <2> HIDE DEF z
  <2>6. ~Performed(q.by, q.call)
    BY <1>5 DEF Ordered, PerformedOnce
  <2>7. \A i, j \in DOMAIN log' : log'[i].by = log'[j].by /\ Written(i)' = Written(j)' => i = j
    <3>1. SUFFICES ASSUME NEW i \in DOMAIN log', NEW j \in DOMAIN log',
                          log'[i].by = log'[j].by, w[i] = w[j]
                   PROVE  i = j
      BY DEF Written
    <3> HIDE DEF w
    <3>2. CASE i \in DOMAIN log /\ j \in DOMAIN log
      BY <2>1, <2>4, <3>1, <3>2 DEF Ordered, PerformedOnce
    <3>3. ASSUME NEW x \in DOMAIN log, log'[x].by = q.by, w[x] = q.call PROVE FALSE
      BY <2>w, <2>6, <3>3
    <3> QED
      BY <2>3, <2>5, <3>1, <3>2, <3>3
  <2> HIDE DEF w
  <2>8. ASSUME NEW by, NEW c, Performed(by, c)', ~Performed(by, c) PROVE by = q.by /\ c = q.call
    BY <2>w, <2>3, <2>5, <2>8
  <2>9. Performed(q.by, q.call)'
    BY <2>w, <2>3
  <2>10. ASSUME NEW p \in wire'
         PROVE  /\ Pending(p) => ~Performed(p.by, p.call)'
                /\ p.state = "answered" /\ p.call.loader \notin Reads => Performed(p.by, p.call)'
    <3>1. CASE p \in wire \ {q}
      <4>1. p.by # q.by \/ p.call # q.call
        BY <3>1 DEF Executing, SentOnce
      <4>2. /\ Pending(p) => ~Performed(p.by, p.call)
            /\ p.state = "answered" /\ p.call.loader \notin Reads => Performed(p.by, p.call)
        BY <3>1 DEF Ordered, PerformedOnce
      <4>3. Performed(p.by, p.call) => Performed(p.by, p.call)'
        BY <1>1, PerformedKept
      <4>4. Performed(p.by, p.call)' => Performed(p.by, p.call)
        BY <2>8, <4>1
      <4> QED
        BY <4>2, <4>3, <4>4
    <3>2. CASE p.by = q.by /\ p.call = q.call /\ p.state = "answered"
      <4>1. Performed(p.by, p.call)'
        BY <2>9, <3>2
      <4> QED
        BY <3>2, <4>1 DEF Pending
    <3> QED
      BY <1>3, <3>1, <3>2
  <2>11. PerformedOnce'
    BY <2>7, <2>10 DEF PerformedOnce, Pending
  <2>12. \A p \in wire' : ImageReady(p, p.by[1], p.by[2])'
    <3> SUFFICES ASSUME NEW p \in wire', NEW o \in wire, p.by = o.by, p.call = o.call
                 PROVE  ImageReady(p, p.by[1], p.by[2])'
      BY <1>3
    <3> QED
      BY <1>1, FlightType, ReadyKept DEF Ordered, Executing
  <2>13. ImagesInOrder'
    <3> SUFFICES ASSUME NEW r \in Requests, NEW k \in DOMAIN Fields(r),
                        Fields(r)[k].kind \in ImageKinds, NEW i \in OwnBy(r, k, Images)',
                        NEW n \in 1..(log'[i].item - 1)
                 PROVE  \E j \in OwnBy(r, k, Images)' : j < i /\ log'[j].item = n
      BY <1>1 DEF ImagesInOrder
    <3>1. /\ OwnBy(r, k, Images) \subseteq OwnBy(r, k, Images)'
          /\ OwnBy(r, k, Images) \subseteq DOMAIN log
      BY <1>1, PerformedKept DEF OwnBy, Own
    <3>2. CASE i \in DOMAIN log
      <4>1. i \in OwnBy(r, k, Images) /\ log'[i] = log[i]
        BY <2>1, <3>2 DEF OwnBy, Own
      <4>2. PICK j \in OwnBy(r, k, Images) : j < i /\ log[j].item = n
        BY <4>1 DEF Ordered, ImagesInOrder
      <4> QED
        BY <2>1, <3>1, <4>2
    <3>3. CASE i = z
      <4>1. q.by = <<r, k>> /\ q.call.loader \in Images /\ n \in 1..(q.call.item - 1)
        BY <2>3, <3>3 DEF OwnBy, Own
      <4>2. q.by[1] = r /\ q.by[2] = k
        BY <4>1
      <4>3. ImageReady(q, r, k)
        BY <4>2 DEF Ordered
      <4>4. PICK j \in OwnBy(r, k, Images) : log[j].item = n
        BY <4>1, <4>3 DEF ImageReady
      <4>5. j \in DOMAIN log
        BY <3>1
      <4> QED
        BY <2>1, <2>4, <3>1, <3>3, <4>4, <4>5
    <3>4. i \in DOMAIN log'
      BY DEF OwnBy, Own
    <3> QED
      BY <2>5, <3>2, <3>3, <3>4
  <2> QED
    BY <1>2, <2>11, <2>12, <2>13 DEF Ordered
<1> QED
  BY <1>3, <1>4, <1>5

\* What the stages before the next one asked for was performed.
LEMMA AwaitedIsPerformed ==
  ASSUME Executing, NEW r \in Requests, Progress(r), Awaited(r),
         NEW s \in 1..stage[r], CurrentPlan(r)[s].mode # "log",
         NEW c \in CurrentPlan(r)[s].calls, c.loader \notin Reads
  PROVE  Performed(<<r, Current(r)>>, c)
<1>1. Running(r) /\ stage[r] \in Nat
  BY DEF Awaited, Executing, Typed
<1>2. s < stage[r] \/ c \in settled[r]
  BY <1>1 DEF Awaited
<1> QED
  BY <1>1, <1>2 DEF Progress

\* No call of the next stage was made before.
LEMMA NextIsNew ==
  ASSUME Executing, NEW r \in Requests, Running(r),
         stage[r] + 1 \in 1..Len(CurrentPlan(r)), NEW c \in NextCalls(r)
  PROVE  ~Performed(<<r, Current(r)>>, c)
<1> SUFFICES ASSUME NEW i \in DOMAIN log, log[i].by = <<r, Current(r)>>, Written(i) = c
             PROVE  FALSE
  BY DEF Performed
<1>1. log[i].by[1] = r /\ log[i].by[2] = Current(r)
  OBVIOUS
<1>2. InLog(i, r, Current(r))
  BY <1>1 DEF Executing
<1>3. PICK s \in 1..stage[r] : c \in CurrentPlan(r)[s].calls
  BY <1>2 DEF InLog
<1>4. stage[r] \in Nat /\ DOMAIN CurrentPlan(r) = 1..Len(CurrentPlan(r)) /\ Len(CurrentPlan(r)) \in Nat
  BY StageFacts DEF Executing, Typed, Staged
<1>5. s \in DOMAIN CurrentPlan(r) /\ stage[r] + 1 \in DOMAIN CurrentPlan(r) /\ s # stage[r] + 1
  BY <1>4
<1> QED
  BY <1>3, <1>5, CurrentIsGood DEF Good, Shape, Once, Executing, NextCalls

LEMMA SendOrder ==
  ASSUME Executing, Ordered, NEW r \in Requests, Send(r)
  PROVE  Ordered'
<1>1. /\ UNCHANGED <<document, replies, memo, log, failures>>
      /\ LogKept /\ OnlyFor(r) /\ \A o \in Requests : Fields(o)' = Fields(o)
      /\ Awaited(r) /\ stage[r] \in Nat /\ stage'[r] = stage[r] + 1
      /\ stage[r] + 1 \in 1..Len(CurrentPlan(r))
      /\ settled'[r] = NextCalls(r) \ Fresh(r)
      /\ \A p \in wire' : p \in wire \/ Sent(p, r)
  BY SendFacts
<1>2. /\ Current(r)' = Current(r) /\ Running(r)
      /\ \A s \in 1..(stage[r] + 1) : CurrentPlan(r)'[s] = CurrentPlan(r)[s]
  BY SendKeeps
<1>3. \A by, c : Performed(by, c)' <=> Performed(by, c)
  BY <1>1 DEF Performed, Written
<1>4. \A c \in settled'[r] : c.loader \in Reads
  BY <1>1 DEF Fresh, Memoised, Executing, Typed
<1>5. \A s \in 1..stage[r] : CurrentPlan(r)[s].mode # "log" =>
        \A c \in CurrentPlan(r)[s].calls : c.loader \notin Reads => Performed(<<r, Current(r)>>, c)
  BY <1>1, AwaitedIsPerformed DEF Ordered
<1>6. Progress(r)'
  <2> SUFFICES ASSUME NEW s \in 1..(stage[r] + 1), CurrentPlan(r)[s].mode # "log",
                      NEW c \in CurrentPlan(r)[s].calls, c.loader \notin Reads,
                      s < stage[r] + 1 \/ c \in settled'[r]
               PROVE  Performed(<<r, Current(r)>>, c)
    BY <1>1, <1>2, <1>3 DEF Progress
  <2>1. s \in 1..stage[r]
    BY <1>1, <1>4
  <2> QED
    BY <1>5, <2>1
<1>7. \A o \in Requests : Progress(o)'
  BY <1>1, <1>6, UntouchedProgress DEF OnlyFor, Ordered
<1>8. ASSUME NEW p, Sent(p, r)
      PROVE  /\ p.by = <<r, Current(r)>> /\ p.by[1] = r /\ p.by[2] = Current(r)
             /\ p.call \in NextCalls(r) /\ p.state = "sent"
  BY <1>8 DEF Sent, Fresh
<1>9. PerformedOnce'
  <2>1. \A i \in DOMAIN log : Written(i)' = Written(i)
    BY <1>1 DEF Written
  <2>2. ASSUME NEW p \in wire'
        PROVE  /\ Pending(p) => ~Performed(p.by, p.call)
               /\ p.state = "answered" /\ p.call.loader \notin Reads => Performed(p.by, p.call)
    BY <1>1, <1>2, <1>8, NextIsNew DEF Ordered, PerformedOnce
  <2> QED
    BY <1>1, <1>3, <2>1, <2>2 DEF Ordered, PerformedOnce, Pending
<1>10. ASSUME NEW p \in wire' PROVE ImageReady(p, p.by[1], p.by[2])'
  <2>1. CASE p \in wire
    BY <1>1, <2>1, FlightType, ReadyKept DEF Ordered, Executing
  <2>2. CASE Sent(p, r)
    <3> SUFFICES ASSUME Fields(r)[Current(r)].kind \in ImageKinds, p.call.loader \in Images,
                        NEW n \in 1..(p.call.item - 1)
                 PROVE  \E j \in OwnBy(r, Current(r), Images) : log[j].item = n
      BY <1>1, <1>8, <2>2 DEF ImageReady, OwnBy, Own
    <3>1. Attached(CurrentPlan(r))
      BY <1>2, CurrentIsGood DEF Good, Shape, Executing
    <3>2. DOMAIN CurrentPlan(r) = 1..Len(CurrentPlan(r))
      BY <1>2, StageFacts DEF Staged, Executing
    <3>3. PICK s \in 1..((stage[r] + 1) - 1) :
            /\ CurrentPlan(r)[s].mode # "log"
            /\ \E d \in CurrentPlan(r)[s].calls : d.loader \in Images /\ d.item = n
      BY <1>1, <1>8, <2>2, <3>1, <3>2 DEF Attached, NextCalls
    <3>4. PICK d \in CurrentPlan(r)[s].calls : d.loader \in Images /\ d.item = n
      BY <3>3
    <3>5. s \in 1..stage[r] /\ d.loader \notin Reads
      BY <1>1, <3>4, PlainLoaders
    <3>6. Performed(<<r, Current(r)>>, d)
      BY <1>5, <3>3, <3>4, <3>5
    <3>7. PICK j \in DOMAIN log : log[j].by = <<r, Current(r)>> /\ Written(j) = d
      BY <3>6 DEF Performed
    <3>8. log[j].loader = d.loader /\ log[j].item = d.item
      BY <3>7, EntryType DEF Executing
    <3> QED
      BY <3>4, <3>7, <3>8 DEF OwnBy, Own
  <2> QED
    BY <1>1, <2>1, <2>2
<1>11. ImagesInOrder'
  BY <1>1, ImagesKept DEF Ordered
<1> QED
  BY <1>7, <1>9, <1>10, <1>11 DEF Ordered

LEMMA OrderedInit == Init => Ordered
<1> SUFFICES ASSUME Init PROVE Ordered
  OBVIOUS
<1>1. wire = {} /\ DOMAIN log = {} /\ \A r \in Requests : stage[r] = 0
  BY DEF Init
<1>2. \A r, k, S : OwnBy(r, k, S) = {}
  BY <1>1 DEF OwnBy, Own
<1>3. \A r \in Requests : Progress(r)
  BY <1>1 DEF Progress
<1> QED
  BY <1>1, <1>2, <1>3 DEF Ordered, PerformedOnce, ImagesInOrder

LEMMA OrderedNext == Executing /\ Ordered /\ [Next]_vars => Ordered'
<1> SUFFICES ASSUME Executing, Ordered, [Next]_vars PROVE Ordered'
  OBVIOUS
<1>1. ASSUME NEW r \in Requests, Resolve(r) PROVE Ordered'
  BY <1>1, EndFacts, ReplyOrder, SendOrder DEF Resolve
<1>2. ASSUME NEW q \in wire, Serve(q) \/ ServiceWritesLate(q) PROVE Ordered'
  BY <1>2, ServeOrder DEF Serve, ServiceStep
<1>3. ASSUME NEW r \in Requests, NEW q \in wire, Answer(r, q) PROVE Ordered'
  BY <1>3, AnswerSettles, SettleOrder DEF Answer
<1>4. ASSUME NEW r \in Requests, NEW q \in wire, Fails(r, q) PROVE Ordered'
  <2>1. CASE \E result : Reply(r, result)
    BY <1>4, <2>1, FailureFacts, ReplyOrder
  <2>2. CASE Settles(r, q) /\ ~\E result : Reply(r, result)
    <3>1. Wanted(r, q) => CurrentPlan(r)[stage[r]].mode = "log"
      BY <1>4, <2>2 DEF Fails, Refuse, Lose, Fail
    <3> QED
      BY <2>2, <3>1, SettleOrder
  <2> QED
    BY <1>4, <2>1, <2>2, FailureFacts
<1>5. CASE UNCHANGED vars
  <2>1. \A r \in Requests : Untouched(r) /\ Fields(r)' = Fields(r)
    BY <1>5 DEF vars, Untouched, LogKept, Fields, Executing, Typed
  <2>2. /\ log' = log /\ wire' = wire /\ LogKept
    BY <1>5 DEF vars, LogKept, Executing, Typed
  <2>3. \A r \in Requests : Progress(r)'
    BY <2>1, UntouchedProgress DEF Ordered
  <2> QED
    BY <2>1, <2>2, <2>3, OrderKept
<1> QED
  BY <1>1, <1>2, <1>3, <1>4, <1>5 DEF Next, Fails

\* The order in which calls are performed is that of the plans, each call once.
THEOREM OrderInvariance == Spec => []Ordered
<1>1. Init => Ordered
  BY OrderedInit
<1>2. Executing /\ Ordered /\ [Next]_vars => Ordered'
  BY OrderedNext
<1> QED
  BY <1>1, <1>2, ExecutionInvariance, PTL DEF Spec

\* Images reach gravity in their order, for any number of images and requests,
\* whatever fails or comes late (the loop that awaits each image).
THEOREM ImagesAreAttachedInOrder == Spec => []ImagesInOrder
<1>1. Ordered => ImagesInOrder
  BY DEF Ordered
<1> QED
  BY <1>1, OrderInvariance, PTL

-----------------------------------------------------------------------------
(* The third layer: what an answer promises.  First, how little comes      *)
(* after it.                                                               *)

\* Of an answered field only a call that was given up is in flight, if it
\* awaited its calls one by one; and nothing is to be written after a success.
Settled(q, r, k) ==
  k \in DOMAIN replies[r] =>
    /\ Pending(q) /\ replies[r][k].result = "success" => Fields(r)[k].kind \in Lenient
    /\ OneByOne(Fields(r)[k]) => q.state = "abandoned"

Unhurried == \A q \in wire : Settled(q, q.by[1], q.by[2])

\* A field that awaits its calls one by one has at most one in flight.
OneAtATime ==
  \A q, p \in wire : q.by = p.by /\ OneByOne(Fields(q.by[1])[q.by[2]]) => q.call = p.call

Calm == Unhurried /\ OneAtATime

\* While the field of r is answered, or not, the other answers stay.
AnswersKept ==
  /\ \A r \in Requests : Fields(r)' = Fields(r)
  /\ \A r \in Requests : \A k \in DOMAIN replies[r] : replies'[r][k] = replies[r][k]

\* What is in flight then is what was before.
Remains(p, q) ==
  /\ p.by = q.by /\ p.call = q.call /\ (Pending(p) => Pending(q))
  /\ q.state = "abandoned" => p.state = "abandoned"

LEMMA SettledKept ==
  ASSUME Executing, Unhurried, AnswersKept, NEW q \in wire, NEW p, Remains(p, q),
         q.by[2] \in DOMAIN replies'[q.by[1]] => q.by[2] \in DOMAIN replies[q.by[1]]
  PROVE  Settled(p, p.by[1], p.by[2])'
<1>1. PICK r \in Requests : r = q.by[1]
  BY FlightType DEF Executing
<1>2. PICK k : k = q.by[2]
  OBVIOUS
<1>3. Settled(q, r, k)
  BY <1>1, <1>2 DEF Unhurried
<1>4. Settled(p, r, k)'
  BY <1>1, <1>2, <1>3 DEF Settled, AnswersKept, Remains, Pending
<1> QED
  BY <1>1, <1>2, <1>4 DEF Remains

LEMMA OneAtATimeKept ==
  ASSUME Executing, OneAtATime, document' = document, \A p \in wire' : \E q \in wire : p.by = q.by /\ p.call = q.call
  PROVE  OneAtATime'
<1>1. \A r : Fields(r)' = Fields(r)
  BY DEF Fields
<1> QED
  BY <1>1 DEF OneAtATime

\* Where no failure is only logged, all that was sent is answered when the
\* await returns.
LEMMA NothingInFlight ==
  ASSUME Executing, NEW r \in Requests, Awaited(r), Fields(r)[Current(r)].kind \notin Lenient,
         NEW q \in wire, q.by = <<r, Current(r)>>
  PROVE  FALSE
<1>1. q.by[1] = r /\ q.by[2] = Current(r)
  OBVIOUS
<1>2. InFlight(q, r, Current(r))
  BY <1>1 DEF Executing
<1>3. Running(r)
  BY DEF Awaited
<1>4. q.stage \in 1..stage[r] /\ q.call \in CurrentPlan(r)[q.stage].calls
  BY <1>2 DEF InFlight
<1>5. q.stage \in DOMAIN CurrentPlan(r)
  BY <1>3, <1>4, StageFacts, SMTT(30) DEF Staged, Executing, Typed, Flow
<1>6. CurrentPlan(r)[q.stage].mode # "log"
  BY <1>3, <1>5, CurrentIsGood DEF Good, Quiet, Executing
<1>7. q.stage = stage[r] /\ q.call \notin settled[r]
  BY <1>2, <1>6 DEF InFlight
<1>8. stage[r] > 0
  BY <1>4, <1>7
<1> QED
  BY <1>4, <1>7, <1>8 DEF Awaited

LEMMA OneByOneIsFirm ==
  ASSUME NEW f, OneByOne(f) PROVE f.kind \notin Lenient
  BY DEF OneByOne, Together

LEMMA ReplyAnswers ==
  ASSUME Executing, NEW r \in Requests, NEW result, Reply(r, result), UNCHANGED <<document, log>>
  PROVE  /\ AnswersKept
         /\ \A o \in Requests : \A k \in DOMAIN replies'[o] :
              k \in DOMAIN replies[o] \/ (o = r /\ k = Current(r))
         /\ replies'[r][Current(r)].result = result
<1>1. \A o \in Requests \ {r} : replies'[o] = replies[o]
  BY DEF Reply, Executing, Typed
<1>2. /\ \A k \in DOMAIN replies[r] : replies'[r][k] = replies[r][k]
      /\ DOMAIN replies'[r] = DOMAIN replies[r] \cup {Current(r)}
      /\ replies'[r][Current(r)].result = result
  BY ReplyFacts
<1>3. \A o \in Requests : Fields(o)' = Fields(o)
  BY DEF Fields
<1>4. AnswersKept
  BY <1>1, <1>2, <1>3 DEF AnswersKept
<1> QED
  BY <1>1, <1>2, <1>4

\* A field that is answered leaves nothing but what its answer allows.
LEMMA ReplyCalm ==
  ASSUME Executing, Calm, NEW r \in Requests, NEW result, Reply(r, result),
         UNCHANGED <<document, log>>,
         \A p \in wire' : \E q \in wire : Remains(p, q),
         \A p \in wire' : p.by = <<r, Current(r)>> =>
           /\ result = "success" => Fields(r)[Current(r)].kind \in Lenient
           /\ OneByOne(Fields(r)[Current(r)]) => p.state = "abandoned"
  PROVE  Calm'
<1>1. OneAtATime'
  BY OneAtATimeKept DEF Calm, Remains
<1> SUFFICES ASSUME NEW p \in wire' PROVE Settled(p, p.by[1], p.by[2])'
  BY <1>1 DEF Calm, Unhurried
<1>2. PICK q \in wire : Remains(p, q)
  OBVIOUS
<1>3. q.by[1] \in Requests /\ q.by = <<q.by[1], q.by[2]>> /\ p.by = q.by
  BY <1>2, FlightType DEF Executing, Remains
<1>4. CASE q.by = <<r, Current(r)>>
  <2>1. PICK k : k = Current(r)
    OBVIOUS
  <2>2. p.by[1] = r /\ p.by[2] = k
    BY <1>3, <1>4, <2>1
  <2>3. replies'[r][k].result = result /\ Fields(r)' = Fields(r)
    BY <2>1, ReplyAnswers DEF AnswersKept
  <2>4. Settled(p, r, k)'
    BY <1>3, <1>4, <2>1, <2>3 DEF Settled, Pending
  <2> QED
    BY <2>2, <2>4
<1>5. CASE q.by # <<r, Current(r)>>
  <2>1. q.by[2] \in DOMAIN replies'[q.by[1]] => q.by[2] \in DOMAIN replies[q.by[1]]
    BY <1>3, <1>5, ReplyAnswers
  <2> QED
    BY <1>2, <2>1, ReplyAnswers, SettledKept DEF Calm
<1> QED
  BY <1>4, <1>5

\* Without an answer, it is enough that no call in flight becomes a new one.
LEMMA SameCalm ==
  ASSUME Executing, Calm, UNCHANGED <<document, replies>>,
         \A p \in wire' : \E q \in wire : Remains(p, q)
  PROVE  Calm'
<1>1. AnswersKept
  BY DEF AnswersKept, Fields
<1>2. OneAtATime'
  BY OneAtATimeKept DEF Calm, Remains
<1>3. ASSUME NEW p \in wire' PROVE Settled(p, p.by[1], p.by[2])'
  BY <1>1, SettledKept DEF Calm
<1> QED
  BY <1>2, <1>3 DEF Calm, Unhurried

\* The calls of a stage are sent when nothing of the field is in flight.
LEMMA SendCalm ==
  ASSUME Executing, Calm, NEW r \in Requests, Send(r)
  PROVE  Calm'
<1>1. /\ UNCHANGED <<document, replies>> /\ Awaited(r) /\ Running(r)
      /\ stage[r] + 1 \in DOMAIN CurrentPlan(r)
      /\ \A p \in wire' : p \in wire \/ Sent(p, r)
  BY SendFacts, StageFacts DEF Awaited, Staged, Executing
<1>2. AnswersKept /\ \A o : Fields(o)' = Fields(o)
  BY <1>1 DEF AnswersKept, Fields
<1>3. \A p : Sent(p, r) => p.by = <<r, Current(r)>> /\ p.call \in CurrentPlan(r)[stage[r] + 1].calls
  BY DEF Sent, Fresh, NextCalls
<1>4. ASSUME NEW p \in wire' PROVE Settled(p, p.by[1], p.by[2])'
  <2>1. CASE p \in wire
    BY <1>1, <1>2, <2>1, SettledKept DEF Calm, Remains
  <2>2. CASE Sent(p, r)
    <3>1. p.by[1] = r /\ p.by[2] = Current(r)
      BY <1>3, <2>2
    <3>2. Current(r) \notin DOMAIN replies'[r]
      BY <1>1 DEF Executing, Typed, Current
    <3> QED
      BY <3>1, <3>2 DEF Settled
  <2> QED
    BY <1>1, <2>1, <2>2
<1>5. ASSUME NEW q \in wire', NEW p \in wire', q.by = p.by, OneByOne(Fields(q.by[1])[q.by[2]])
      PROVE  q.call = p.call
  <2>1. CASE q \in wire /\ p \in wire
    BY <1>5, <2>1 DEF Calm, OneAtATime
  <2>2. CASE Sent(q, r) \/ Sent(p, r)
    <3>1. q.by = <<r, Current(r)>> /\ p.by = <<r, Current(r)>>
      BY <1>3, <1>5, <2>2
    <3>2. OneByOne(Fields(r)[Current(r)])
      BY <1>5, <3>1
    <3>3. Sent(q, r) /\ Sent(p, r)
      BY <1>1, <3>1, <3>2, NothingInFlight, OneByOneIsFirm
    <3>4. \A c, d \in CurrentPlan(r)[stage[r] + 1].calls : c = d
      BY <1>1, <3>2, CurrentIsGood DEF Good, Quiet, Executing
    <3> QED
      BY <1>3, <3>3, <3>4
  <2> QED
    BY <1>1, <2>1, <2>2
<1>6. OneAtATime'
  BY <1>2, <1>5 DEF OneAtATime
<1> QED
  BY <1>4, <1>6 DEF Calm, Unhurried

\* A call that is answered, or fails, is gone or given up.
LEMMA NarrowedRemains ==
  ASSUME Executing, NEW q \in wire, NarrowedBy(q)
  PROVE  /\ \A p \in wire' : \E o \in wire : Remains(p, o)
         /\ \A p \in wire' : p \in wire \ {q} \/ p.state = "abandoned"
<1> DEFINE a == [q EXCEPT !.state = "abandoned"]
<1>1. a.by = q.by /\ a.call = q.call /\ a.state = "abandoned"
  BY FlightType, FlightUpdate DEF Executing
<1>2. \/ wire' = wire \ {q}
      \/ wire' = (wire \ {q}) \cup {a} /\ q.state = "sent" /\ q.call.loader \notin Reads
  BY DEF NarrowedBy, Replace
<1> HIDE DEF a
<1> QED
  BY <1>1, <1>2 DEF Pending, Remains

LEMMA ServiceRemains ==
  ASSUME Executing, Calm, NEW q \in wire, ServiceStep(q)
  PROVE  \A p \in wire' : \E o \in wire : Remains(p, o)
<1>1. q.state = "abandoned" => wire' = wire \ {q}
  BY DEF ServiceStep, ServiceReads, ServiceWrites, ServiceWritesLate
<1>2. \A p \in wire' : p \in wire \ {q} \/ (p.by = q.by /\ p.call = q.call /\ p.state = "answered")
  BY ServiceWhat
<1> QED
  BY <1>1, <1>2 DEF Remains, Pending

LEMMA CalmNext == Executing /\ Calm /\ [Next]_vars => Calm'
<1> SUFFICES ASSUME Executing, Calm, [Next]_vars PROVE Calm'
  OBVIOUS
<1>1. ASSUME NEW r \in Requests, Finish(r) \/ GivesUp(r) PROVE Calm'
  <2>1. /\ Awaited(r) /\ UNCHANGED <<document, wire, log>>
        /\ \E result : Reply(r, result)
    BY <1>1, EndFacts
  <2>2. PICK result : Reply(r, result)
    BY <2>1
  <2>3. \A p \in wire' : p.by = <<r, Current(r)>> => Fields(r)[Current(r)].kind \in Lenient
    BY <2>1, NothingInFlight
  <2>4. \A p \in wire' : \E q \in wire : Remains(p, q)
    BY <2>1 DEF Remains
  <2> QED
    BY <2>1, <2>2, <2>3, <2>4, ReplyCalm, OneByOneIsFirm
<1>2. ASSUME NEW r \in Requests, Send(r) PROVE Calm'
  BY <1>2, SendCalm
<1>3. ASSUME NEW q \in wire, ServiceStep(q) PROVE Calm'
  BY <1>3, ServiceRemains, ServiceFacts, SameCalm
<1>4. ASSUME NEW r \in Requests, NEW q \in wire, Settles(r, q) PROVE Calm'
  BY <1>4, NarrowedRemains, SameCalm DEF Settles
<1>5. ASSUME NEW r \in Requests, NEW q \in wire, Fails(r, q), ~Settles(r, q) PROVE Calm'
  <2>1. /\ UNCHANGED <<document, log>> /\ NarrowedBy(q) /\ Wanted(r, q)
        /\ \E result \in {"payload", "thrown"} : Reply(r, result)
    BY <1>5, FailureFacts DEF ResultOf
  <2>2. PICK result \in {"payload", "thrown"} : Reply(r, result)
    BY <2>1
  <2>3. /\ \A p \in wire' : \E o \in wire : Remains(p, o)
        /\ \A p \in wire' : p \in wire \ {q} \/ p.state = "abandoned"
    BY <2>1, NarrowedRemains
  <2>4. ASSUME NEW p \in wire', p.by = <<r, Current(r)>>, OneByOne(Fields(r)[Current(r)])
        PROVE  p.state = "abandoned"
    <3> SUFFICES ASSUME p \in wire \ {q} PROVE FALSE
      BY <2>3
    <3>1. p.by = q.by /\ q.by[1] = r /\ q.by[2] = Current(r)
      BY <2>1, <2>4, WantedFacts DEF Wanted
    <3>2. p.call = q.call
      BY <2>4, <3>1 DEF Calm, OneAtATime
    <3> QED
      BY <3>1, <3>2 DEF Executing, SentOnce
  <2> QED
    BY <2>1, <2>2, <2>3, <2>4, ReplyCalm
<1>6. CASE UNCHANGED vars
  <2>1. \A p \in wire' : \E q \in wire : Remains(p, q)
    BY <1>6 DEF vars, Remains
  <2> QED
    BY <1>6, <2>1, SameCalm DEF vars
<1>7. ASSUME NEW r \in Requests, NEW q \in wire, Answer(r, q) PROVE Calm'
  BY <1>4, <1>7, AnswerSettles
<1> QED
  BY <1>1, <1>2, <1>3, <1>4, <1>5, <1>6, <1>7 DEF Next, Resolve, Serve, ServiceStep, Fails

LEMMA OnlyServicesWrite ==
  ASSUME [Next]_vars, log' # log
  PROVE  \E q \in wire : ServiceStep(q)
<1>1. ASSUME NEW r \in Requests, Resolve(r) PROVE log' = log
  BY <1>1 DEF Resolve, Finish, GivesUp, Send
<1>2. ASSUME NEW r \in Requests, NEW q \in wire, Answer(r, q) \/ Fails(r, q)
      PROVE  log' = log
  BY <1>2 DEF Answer, Fails, Refuse, Lose
<1> QED
  BY <1>1, <1>2 DEF Next, vars, ServiceStep, Serve, Fails

\* A write that is performed after its field was answered was left pending.
LEMMA WritesInTime ==
  ASSUME Executing, Calm, [Next]_vars,
         NEW i \in DOMAIN log' \ DOMAIN log, NEW r \in Requests, log'[i].by[1] = r,
         NEW k, log'[i].by[2] = k, k \in DOMAIN replies[r]
  PROVE  /\ replies[r][k].result = "success" => Fields(r)[k].kind \in Lenient
         /\ OneByOne(Fields(r)[k]) => \A q \in wire' : q.by # log'[i].by
<1>1. log' # log
  OBVIOUS
<1>2. PICK q \in wire : ServiceStep(q)
  BY <1>1, OnlyServicesWrite
<1>3. log' = Append(log, Entry(q)) /\ Pending(q)
  BY <1>1, <1>2, ServiceWhat
<1>4. log'[i] = Entry(q) /\ Entry(q).by = q.by
  BY <1>3, LogGrows, EntryOf DEF Executing
<1>5. Settled(q, r, k) /\ q.by[1] = r /\ q.by[2] = k
  BY <1>4 DEF Calm, Unhurried
<1>6. ASSUME OneByOne(Fields(r)[k]), NEW p \in wire', p.by = q.by PROVE FALSE
  <2>1. q.state = "abandoned"
    BY <1>5, <1>6 DEF Settled
  <2>2. wire' = wire \ {q}
    BY <1>2, <2>1 DEF ServiceStep, ServiceReads, ServiceWrites, ServiceWritesLate
  <2>3. p.call = q.call
    BY <1>5, <1>6, <2>2 DEF Calm, OneAtATime
  <2> QED
    BY <1>6, <2>2, <2>3 DEF Executing, SentOnce
<1> QED
  BY <1>3, <1>4, <1>5, <1>6 DEF Settled

\* When a field is answered, the answer allows for all that is in flight: after
\* a success nothing is to be written, and of a field that awaits its calls one
\* by one only the call that failed may be, whether it was lost or a gateway
\* answered in the service's place (awaits in order, formatGravityError).
THEOREM CalmInvariance == Spec => []Calm
<1>1. Init => Calm
  BY DEF Init, Calm, Unhurried, OneAtATime
<1>2. Executing /\ Calm /\ [Next]_vars => Calm'
  BY CalmNext
<1> QED
  BY <1>1, <1>2, ExecutionInvariance, PTL DEF Spec

\* After a success none of the mutation's writes is performed any more, and
\* after a failure at most one, where it awaits its calls one by one (awaits in
\* order, formatGravityError).
THEOREM NothingIsWrittenLate == Spec => NoLateWrites
<1>1. Executing /\ Calm /\ [Next]_vars
      => [\A i \in DOMAIN log' \ DOMAIN log : \A r \in Requests :
            log'[i].by[1] = r /\ log'[i].by[2] \in DOMAIN replies[r] =>
              LET k == log'[i].by[2]
              IN  /\ replies[r][k].result = "success" => Fields(r)[k].kind \in Lenient
                  /\ OneByOne(Fields(r)[k]) => \A q \in wire' : q.by # log'[i].by]_vars
  BY WritesInTime
<1> QED
  BY <1>1, ExecutionInvariance, CalmInvariance, PTL DEF Spec, NoLateWrites

-----------------------------------------------------------------------------
(* Second, that a success is one.                                          *)

\* The plan p of the k-th field of r was carried out.
CarriedOut(p, r, k) ==
  /\ Filled(p)
  /\ \A c \in Writes(Lasting(p)) : Performed(<<r, k>>, c)
  /\ \A i \in Own(r, k) : Written(i) \in CallsOf(p)
  /\ \A q \in wire : q.by = <<r, k>> => q.call \in CallsOf(p)

Faithful ==
  \A r \in Requests : \A k \in Succeeded(r) :
    \E b \in BOOLEAN : CarriedOut(PlanIf(r, k, b), r, k)

\* What was written for a field was on its way before, or is in the log.
LEMMA OwnGrows ==
  ASSUME Executing, [Next]_vars, NEW r \in Requests, NEW k \in DOMAIN replies[r]
  PROVE  /\ LogKept
         /\ \A i \in Own(r, k)' : \/ i \in Own(r, k) /\ Written(i)' = Written(i)
                                  \/ \E q \in wire : q.by = <<r, k>> /\ Written(i)' = q.call
         /\ \A p \in wire' : p.by = <<r, k>> =>
              \E q \in wire : q.by = <<r, k>> /\ q.call = p.call
<1>1. k # Current(r)
  BY DEF Executing, Typed, Current
<1>2. CASE log' = log
  <2>1. LogKept /\ \A i \in Own(r, k)' : i \in Own(r, k) /\ Written(i)' = Written(i)
    BY <1>2 DEF LogKept, Executing, Typed, Own, Written
  <2>2. \A q \in wire : NarrowedBy(q) => \A p \in wire' : \E o \in wire : p.by = o.by /\ p.call = o.call
    BY NarrowedPending
  <2>3. ASSUME NEW o \in Requests, Resolve(o)
        PROVE  \A p \in wire' : p \in wire \/ p.by = <<o, Current(o)>>
    <3>1. CASE Send(o)
      BY <3>1, SendFacts DEF Sent
    <3> QED
      BY <2>3, <3>1 DEF Resolve, Finish, GivesUp
  <2>4. ASSUME NEW q \in wire, ServiceStep(q)
        PROVE  \A p \in wire' : p \in wire \/ (p.by = q.by /\ p.call = q.call)
    BY <2>4, ServiceWhat
  <2>5. ASSUME NEW o \in Requests, NEW q \in wire, Answer(o, q) \/ Fails(o, q)
        PROVE  NarrowedBy(q)
    BY <2>5, AnswerSettles, FailureFacts DEF Settles
  <2>6. \A o \in Requests : <<o, Current(o)>> = <<r, k>> => o = r
    OBVIOUS
  <2>7. ASSUME NEW p \in wire', p.by = <<r, k>>
        PROVE  \E q \in wire : q.by = <<r, k>> /\ q.call = p.call
    <3>1. p.by # <<r, Current(r)>>
      BY <1>1, <2>7
    <3>2. CASE \E o \in Requests : Resolve(o)
      BY <2>3, <2>6, <2>7, <3>1, <3>2
    <3>3. CASE \E q \in wire : ServiceStep(q)
      BY <2>4, <2>7, <3>3
    <3>4. CASE \E q \in wire : NarrowedBy(q)
      BY <2>2, <2>7, <3>4
    <3>5. CASE wire' = wire
      BY <2>7, <3>5
    <3> QED
      BY <2>5, <3>2, <3>3, <3>4, <3>5 DEF Next, vars, ServiceStep, Serve, Fails
  <2> QED
    BY <2>1, <2>7
<1>3. CASE log' # log
  <2>1. PICK q \in wire : ServiceStep(q)
    BY <1>3, OnlyServicesWrite
  <2>2. /\ log' = Append(log, Entry(q))
        /\ \A p \in wire' : p \in wire \/ (p.by = q.by /\ p.call = q.call)
    BY <1>3, <2>1, ServiceWhat
  <2>3. /\ LogKept /\ log'[Len(log) + 1] = Entry(q)
        /\ DOMAIN log' = DOMAIN log \cup {Len(log) + 1}
        /\ \A i \in DOMAIN log : log'[i] = log[i]
    BY <2>2, LogGrows DEF Executing
  <2>4. Entry(q).by = q.by /\ Call(Entry(q).loader, Entry(q).on, Entry(q).item) = q.call
    BY EntryOf DEF Executing
  <2>5. ASSUME NEW i \in Own(r, k)'
        PROVE  \/ i \in Own(r, k) /\ Written(i)' = Written(i)
               \/ q.by = <<r, k>> /\ Written(i)' = q.call
    BY <2>3, <2>4 DEF Own, Written
  <2> QED
    BY <2>2, <2>3, <2>5
<1> QED
  BY <1>2, <1>3

LEMMA CarriedOutKept ==
  ASSUME Executing, [Next]_vars, NEW r \in Requests, NEW k \in DOMAIN replies[r],
         NEW p, CarriedOut(p, r, k)
  PROVE  CarriedOut(p, r, k)'
<1>1. \A by, c : Performed(by, c) => Performed(by, c)'
  BY OwnGrows, PerformedKept
<1>2. \A i \in Own(r, k)' : Written(i)' \in CallsOf(p)
  BY OwnGrows, ZenonT(40) DEF CarriedOut
<1>3. \A q \in wire' : q.by = <<r, k>> => q.call \in CallsOf(p)
  BY OwnGrows, ZenonT(40) DEF CarriedOut
<1> QED
  BY <1>1, <1>2, <1>3 DEF CarriedOut

\* Only Finish answers with a success, and an answer is never changed.
LEMMA NewAnswer ==
  ASSUME Executing, [Next]_vars, NEW r \in Requests, NEW k \in DOMAIN replies'[r]
  PROVE  /\ document' = document
         /\ \/ k \in DOMAIN replies[r] /\ replies'[r][k] = replies[r][k]
            \/ k = Current(r) /\ (replies'[r][k].result = "success" => Finish(r))
<1>1. ASSUME NEW o \in Requests, NEW result, Reply(o, result), UNCHANGED <<document, log>>,
             o = r => (result = "success" => Finish(r))
      PROVE  \/ k \in DOMAIN replies[r] /\ replies'[r][k] = replies[r][k]
             \/ k = Current(r) /\ (replies'[r][k].result = "success" => Finish(r))
  <2>1. CASE o = r
    BY <1>1, <2>1, ReplyFacts
  <2>2. CASE o # r
    <3>1. replies'[r] = replies[r]
      BY <1>1, <2>2 DEF Reply, Executing, Typed
    <3> QED
      BY <3>1
  <2> QED
    BY <2>1, <2>2
<1>2. ASSUME NEW o \in Requests, Resolve(o) PROVE document' = document
  BY <1>2 DEF Resolve, Finish, GivesUp, Send
<1>3. ASSUME NEW o \in Requests, Resolve(o)
      PROVE  \/ k \in DOMAIN replies[r] /\ replies'[r][k] = replies[r][k]
             \/ k = Current(r) /\ (replies'[r][k].result = "success" => Finish(r))
  <2>1. CASE Send(o)
    BY <2>1 DEF Send
  <2>2. CASE Finish(o)
    BY <1>1, <2>2 DEF Finish
  <2>3. CASE GivesUp(o)
    <3>1. \/ Reply(o, "success") /\ stage[o] = Len(CurrentPlan(o))
          \/ \E result \in {"thrown", "payload", "null"} : Reply(o, result)
      BY <2>3, EndFacts
    <3>2. ~(stage[o] = Len(CurrentPlan(o)))
      <4>1. stage[o] < Len(CurrentPlan(o)) /\ Running(o)
        BY <2>3 DEF GivesUp, Awaited
      <4>2. stage[o] \in Nat /\ Len(CurrentPlan(o)) \in Nat
        BY <4>1, StageFacts DEF Staged, Executing, Typed
      <4> QED
        BY <4>1, <4>2
    <3>3. UNCHANGED <<document, log>>
      BY <2>3 DEF GivesUp
    <3> QED
      BY <1>1, <3>1, <3>2, <3>3
  <2> QED
    BY <1>3, <2>1, <2>2, <2>3 DEF Resolve
<1>4. ASSUME NEW q \in wire, ServiceStep(q) PROVE document' = document /\ replies' = replies
  BY <1>4, ServiceFacts
<1>5. ASSUME NEW o \in Requests, NEW q \in wire, Settles(o, q)
      PROVE  document' = document /\ replies' = replies
  BY <1>5 DEF Settles
<1>6. ASSUME NEW o \in Requests, NEW q \in wire, Fails(o, q), ~Settles(o, q)
      PROVE  /\ document' = document
             /\ \/ k \in DOMAIN replies[r] /\ replies'[r][k] = replies[r][k]
                \/ k = Current(r) /\ (replies'[r][k].result = "success" => Finish(r))
  <2>1. PICK result \in {"payload", "thrown"} : Reply(o, result)
    BY <1>6, FailureFacts DEF ResultOf
  <2>2. UNCHANGED <<document, log>>
    BY <1>6, FailureFacts
  <2> QED
    BY <1>1, <2>1, <2>2
<1>7. CASE \E o \in Requests : Resolve(o)
  BY <1>2, <1>3, <1>7
<1>8. CASE \E q \in wire : ServiceStep(q)
  BY <1>4, <1>8
<1>9. CASE \E o \in Requests : \E q \in wire : Answer(o, q) \/ Fails(o, q)
  BY <1>5, <1>6, <1>9, AnswerSettles
<1>10. CASE UNCHANGED vars
  BY <1>10 DEF vars
<1> QED
  BY <1>7, <1>8, <1>9, <1>10 DEF Next, ServiceStep, Serve, Fails

LEMMA FinishCarriesOut ==
  ASSUME Executing, Ordered, NEW r \in Requests, Awaited(r), stage[r] = Len(CurrentPlan(r))
  PROVE  CarriedOut(CurrentPlan(r), r, Current(r))
<1> DEFINE p == CurrentPlan(r)
           k == Current(r)
<1>1. /\ Running(r) /\ stage[r] \in Nat /\ DOMAIN p = 1..stage[r]
      /\ \A s \in 1..stage[r] : p[s].calls # {}
  <2>1. Running(r) /\ Flow(r)
    BY DEF Awaited, Executing
  <2> QED
    BY <2>1, StageFacts DEF Staged, Executing, Typed, Flow
<1>2. Filled(p)
  BY <1>1 DEF Filled
<1>3. \A s \in 1..stage[r] : p[s].mode # "log" =>
        \A c \in p[s].calls : c.loader \notin Reads => Performed(<<r, k>>, c)
  BY AwaitedIsPerformed DEF Ordered
<1>4. ASSUME NEW i \in Own(r, k) PROVE Written(i) \in CallsOf(p)
  <2>1. i \in DOMAIN log /\ log[i].by[1] = r /\ log[i].by[2] = k
    BY DEF Own
  <2>2. InLog(i, r, k)
    BY <2>1 DEF Executing
  <2>3. \E s \in 1..stage[r] : Written(i) \in p[s].calls
    BY <2>2 DEF InLog
  <2> QED
    BY <1>1, <2>3 DEF CallsOf
<1>5. ASSUME NEW q \in wire, q.by = <<r, k>> PROVE q.call \in CallsOf(p)
  <2>1. q.by[1] = r /\ q.by[2] = k
    BY <1>5
  <2>2. InFlight(q, r, k)
    BY <2>1 DEF Executing
  <2>3. q.stage \in 1..stage[r] /\ q.call \in p[q.stage].calls
    BY <2>2 DEF InFlight
  <2> QED
    BY <1>1, <2>3 DEF CallsOf
<1> HIDE DEF p, k
<1>6. \A c \in Writes(Lasting(p)) : Performed(<<r, k>>, c)
  BY <1>1, <1>3 DEF Writes, Lasting
<1>7. CarriedOut(p, r, k)
  BY <1>2, <1>4, <1>5, <1>6 DEF CarriedOut
<1> QED
  BY <1>7 DEF p, k

LEMMA FaithfulNext == Executing /\ Ordered /\ Faithful /\ [Next]_vars => Faithful'
<1> SUFFICES ASSUME Executing, Ordered, Faithful, [Next]_vars,
                    NEW r \in Requests, NEW k \in Succeeded(r)'
             PROVE  \E b \in BOOLEAN : CarriedOut(PlanIf(r, k, b), r, k)'
  BY DEF Faithful
<1>1. k \in DOMAIN replies'[r] /\ replies'[r][k].result = "success"
  BY DEF Succeeded
<1>2. document' = document
  BY <1>1, NewAnswer
<1>3. \A b : PlanIf(r, k, b)' = PlanIf(r, k, b)
  BY <1>2 DEF PlanIf, Fields
<1>4. CASE k \in DOMAIN replies[r] /\ replies'[r][k] = replies[r][k]
  <2>1. k \in Succeeded(r)
    BY <1>1, <1>4 DEF Succeeded
  <2>2. PICK b \in BOOLEAN : CarriedOut(PlanIf(r, k, b), r, k)
    BY <2>1 DEF Faithful
  <2>3. PICK p : p = PlanIf(r, k, b)
    OBVIOUS
  <2>4. CarriedOut(p, r, k)'
    BY <1>4, <2>2, <2>3, CarriedOutKept
  <2>5. PlanIf(r, k, b)' = p
    BY <1>3, <2>3
  <2> QED
    BY <2>4, <2>5 DEF CarriedOut
<1>5. CASE k = Current(r) /\ Finish(r)
  <2>1. Awaited(r) /\ stage[r] = Len(CurrentPlan(r)) /\ UNCHANGED <<wire, log>>
    BY <1>5 DEF Finish
  <2>2. PICK b \in BOOLEAN : b = HasEditionSet(Fields(r)[Current(r)].on, Known(r))
    BY EditionSetIsBoolean
  <2>3. PICK p : p = PlanIf(r, k, b)
    OBVIOUS
  <2>4. CarriedOut(p, r, k)
    BY <1>5, <2>1, <2>2, <2>3, CurrentIsIf, FinishCarriesOut
  <2>5. CarriedOut(p, r, k)'
    BY <2>1, <2>4 DEF CarriedOut, Performed, Written, Own
  <2>6. PlanIf(r, k, b)' = p
    BY <1>3, <2>3
  <2> QED
    BY <2>5, <2>6 DEF CarriedOut
<1> QED
  BY <1>1, <1>4, <1>5, NewAnswer

LEMMA SameNumber ==
  ASSUME NEW S, IsFiniteSet(S), NEW T, NEW f \in [S -> T],
         \A x, y \in S : f[x] = f[y] => x = y, \A t \in T : \E x \in S : f[x] = t
  PROVE  Cardinality(T) = Cardinality(S)
<1>1. f \in Bijection(S, T)
  BY DEF Bijection, Injection, Surjection, IsInjective
<1> QED
  BY <1>1, FS_Bijection DEF ExistsBijection

LEMMA FaithfulIsDone == Executing /\ Ordered /\ Faithful => SuccessMeansDone
<1> SUFFICES ASSUME Executing, Ordered, Faithful, NEW r \in Requests, NEW k \in Succeeded(r),
                    Fields(r)[k].kind \notin BestEffort
             PROVE  /\ Own(r, k) # {}
                    /\ {log[i].item : i \in OwnBy(r, k, Images)} = 1..Recognised(Fields(r)[k].items, Fields(r)[k])
                    /\ \A opt \in Granted(Fields(r)[k]) :
                         Cardinality(OwnBy(r, k, Asked(opt).by)) = Asked(opt).times
  BY DEF SuccessMeansDone
<1> DEFINE f == Fields(r)[k]
           C == {Written(i) : i \in Own(r, k)}
<1>1. k \in DOMAIN Fields(r)
  <2>1. /\ Len(replies[r]) <= Len(Fields(r)) /\ replies[r] \in Seq([result : Results, sees : Nat])
        /\ Fields(r) \in Seq(MutationFields)
    BY FieldTypes DEF Executing, Typed, Flow
  <2> QED
    BY <2>1 DEF Succeeded
<1>2. PICK b \in BOOLEAN : CarriedOut(PlanIf(r, k, b), r, k)
  BY DEF Faithful
<1>3. PICK p : p = PlanIf(r, k, b)
  OBVIOUS
<1>4. CarriedOut(p, r, k) /\ Good(p, f)
  BY <1>1, <1>2, <1>3, PlanIsGood DEF Executing
<1>5. ASSUME NEW i \in Own(r, k)
      PROVE  /\ Written(i).loader = log[i].loader /\ Written(i).item = log[i].item
             /\ Written(i).loader \notin Reads /\ Written(i) \in CallsOf(p)
  <2>1. i \in DOMAIN log /\ log[i].by[1] = r /\ log[i].by[2] = k
    BY DEF Own
  <2>2. InLog(i, r, k)
    BY <2>1 DEF Executing
  <2> QED
    BY <1>4, <2>1, <2>2, EntryType DEF InLog, Executing, CarriedOut
<1>6. Writes(Lasting(p)) \subseteq C
  BY <1>4 DEF CarriedOut, Performed, Own
<1>7. C \subseteq Writes(CallsOf(p))
  BY <1>5 DEF Writes
<1>8. Fulfilled(C, f)
  BY <1>4, <1>6, <1>7 DEF Good, Delivers, CarriedOut
<1>9. Own(r, k) # {}
  BY <1>8 DEF Fulfilled
<1>10. {log[i].item : i \in OwnBy(r, k, Images)} = 1..Recognised(f.items, f)
  <2>1. {c.item : c \in {d \in C : d.loader \in Images}} = 1..Recognised(f.items, f)
    BY <1>8 DEF Fulfilled
  <2>2. ASSUME NEW n PROVE n \in {c.item : c \in {d \in C : d.loader \in Images}}
                             <=> n \in {log[i].item : i \in OwnBy(r, k, Images)}
    <3>1. \A i \in OwnBy(r, k, Images) :
            i \in Own(r, k) /\ Written(i) \in {d \in C : d.loader \in Images}
      BY <1>5 DEF OwnBy
    <3>2. \A c \in {d \in C : d.loader \in Images} :
            \E i \in OwnBy(r, k, Images) : c = Written(i)
      BY <1>5 DEF OwnBy
    <3> HIDE DEF C
    <3> QED
      BY <1>5, <3>1, <3>2
  <2> HIDE DEF C
  <2> QED
    BY <2>1, <2>2
<1>11. ASSUME NEW opt \in Granted(f)
       PROVE  Cardinality(OwnBy(r, k, Asked(opt).by)) = Asked(opt).times
  <2> DEFINE S == OwnBy(r, k, Asked(opt).by)
             T == {c \in C : c.loader \in Asked(opt).by}
             g == [i \in S |-> Written(i)]
  <2>1. Cardinality(T) = Asked(opt).times
    BY <1>8 DEF Fulfilled
  <2>2. IsFiniteSet(S)
    <3>1. S \subseteq 1..Len(log) /\ Len(log) \in Nat
      BY DEF OwnBy, Own, Executing, Typed
    <3>2. IsFiniteSet(1..Len(log))
      BY <3>1, FS_Interval
    <3> QED
      BY <3>1, <3>2, FS_Subset
  <2>3. \A i \in S : i \in Own(r, k) /\ Written(i) \in T
    BY <1>5 DEF OwnBy
  <2>4. \A c \in T : \E i \in S : Written(i) = c
    BY <1>5 DEF OwnBy
  <2>5. \A i, j \in S : Written(i) = Written(j) => i = j
    BY DEF OwnBy, Own, Ordered, PerformedOnce
  <2> HIDE DEF S, T
  <2>6. g \in [S -> T]
    BY <2>3
  <2>7. /\ \A i, j \in S : g[i] = g[j] => i = j
        /\ \A c \in T : \E i \in S : g[i] = c
    BY <2>4, <2>5
  <2> HIDE DEF g
  <2>8. Cardinality(T) = Cardinality(S)
    BY <2>2, <2>6, <2>7, SameNumber
  <2> QED
    BY <2>1, <2>8 DEF S
<1> QED
  BY <1>9, <1>10, <1>11

\* A field that reports success did all its input asks for, each part once, for
\* any number of items and artworks (the try around every mutation body).
THEOREM SuccessIsTrue == Spec => []SuccessMeansDone
<1>1. Init => Faithful
  BY DEF Init, Faithful, Succeeded
<1>2. Executing /\ Ordered /\ Faithful /\ [Next]_vars => Faithful'
  BY FaithfulNext
<1>3. Executing /\ Ordered /\ Faithful => SuccessMeansDone
  BY FaithfulIsDone
<1> QED
  BY <1>1, <1>2, <1>3, ExecutionInvariance, OrderInvariance, PTL DEF Spec

-----------------------------------------------------------------------------
(* Third, that what is read last shows what was written.                   *)

\* A field that reads its entity again, as the first of the document to do so.
FirstOn(r, k) ==
  /\ Fields(r)[k].kind \in RereadKinds
  /\ \A j \in 1..(k - 1) : Fields(r)[j].on # Fields(r)[k].on

\* The answer to a read of the field reflects all that the field wrote.
Reread(r) ==
  Running(r) /\ FirstOn(r, Current(r)) =>
    /\ \A q \in wire : /\ q.by = <<r, Current(r)>> /\ q.call.loader \in Reads
                       /\ q.state = "answered"
         => \A i \in Own(r, Current(r)) : i <= q.sees
    /\ stage[r] > 0 => \A c \in settled[r] : c.loader \in Reads =>
         \A i \in Own(r, Current(r)) : i <= seen[r][stage[r]]

Rereading == (\A r \in Requests : Reread(r)) /\ RereadShowsOwnWrites

LEMMA RereadPlan ==
  ASSUME Executing, NEW r \in Requests, Running(r), Fields(r)[Current(r)].kind \in RereadKinds
  PROVE  /\ Rereads(CurrentPlan(r)) /\ DOMAIN CurrentPlan(r) = 1..Len(CurrentPlan(r))
         /\ stage[r] \in Nat /\ stage[r] <= Len(CurrentPlan(r)) /\ Len(CurrentPlan(r)) \in Nat
         /\ stage[r] > 0 => stage[r] \in DOMAIN CurrentPlan(r)
         /\ stage[r] > 0 => \A c, d \in CurrentPlan(r)[stage[r]].calls : c.loader \in Reads => c = d
<1>1. Rereads(CurrentPlan(r))
  BY CurrentIsGood DEF Good, Executing
<1>2. /\ DOMAIN CurrentPlan(r) = 1..Len(CurrentPlan(r)) /\ Len(CurrentPlan(r)) \in Nat
      /\ stage[r] \in Nat /\ stage[r] <= Len(CurrentPlan(r))
  BY StageFacts DEF Staged, Executing, Typed, Flow
<1>3. stage[r] > 0 => stage[r] \in DOMAIN CurrentPlan(r)
  BY <1>2
<1>4. stage[r] > 0 => \A c, d \in CurrentPlan(r)[stage[r]].calls : c.loader \in Reads => c = d
  BY <1>1, <1>3 DEF Rereads
<1> QED
  BY <1>1, <1>2, <1>3, <1>4

\* In such a field every call in flight is awaited.
LEMMA RereadFlight ==
  ASSUME Executing, NEW r \in Requests, Running(r), Fields(r)[Current(r)].kind \in RereadKinds,
         NEW q \in wire, q.by = <<r, Current(r)>>
  PROVE  /\ stage[r] > 0 /\ q.call \in CurrentPlan(r)[stage[r]].calls
         /\ q.call \notin settled[r] /\ q.stage = stage[r]
<1>1. q.by[1] = r /\ q.by[2] = Current(r)
  OBVIOUS
<1>2. InFlight(q, r, Current(r))
  BY <1>1 DEF Executing
<1>3. q.stage \in 1..stage[r] /\ q.call \in CurrentPlan(r)[q.stage].calls
  BY <1>2 DEF InFlight
<1>4. q.stage \in DOMAIN CurrentPlan(r) /\ stage[r] > 0
  BY <1>3, RereadPlan
<1>5. CurrentPlan(r)[q.stage].mode # "log"
  BY <1>4, RereadPlan DEF Rereads
<1> QED
  BY <1>2, <1>3, <1>4, <1>5 DEF InFlight

LEMMA RereadKept ==
  ASSUME Executing, NEW r \in Requests, Reread(r), Fields(r)' = Fields(r),
         Current(r)' = Current(r), stage'[r] = stage[r],
         Own(r, Current(r))' = Own(r, Current(r)),
         \A p \in wire' : /\ p.by = <<r, Current(r)>> /\ p.call.loader \in Reads
                          /\ p.state = "answered"
           => p \in wire \/ \A i \in Own(r, Current(r)) : i <= p.sees,
         Running(r) /\ FirstOn(r, Current(r)) /\ stage[r] > 0 =>
           \/ settled'[r] = settled[r] /\ seen'[r] = seen[r]
           \/ \A c \in settled'[r] : c.loader \in Reads =>
                \A i \in Own(r, Current(r)) : i <= seen'[r][stage[r]]
  PROVE  Reread(r)'
<1>1. Running(r)' <=> Running(r)
  BY DEF Running
<1>2. FirstOn(r, Current(r))' <=> FirstOn(r, Current(r))
  BY DEF FirstOn
<1> QED
  BY <1>1, <1>2 DEF Reread

\* The fields of the other requests while that of r is answered, or fails.
LEMMA RereadOthers ==
  ASSUME Executing, NEW r \in Requests, Reread(r), Untouched(r), log' = log,
         \A p \in wire' : p \in wire \/ p.state # "answered"
  PROVE  Reread(r)'
<1>1. Fields(r)' = Fields(r) /\ Current(r)' = Current(r)
  BY DEF Untouched, Fields, Current
<1>2. Own(r, Current(r))' = Own(r, Current(r))
  BY <1>1 DEF Own
<1> QED
  BY <1>1, <1>2, RereadKept DEF Untouched

LEMMA ReplyReread ==
  ASSUME Executing, Rereading, NEW r \in Requests, NEW result, Reply(r, result),
         UNCHANGED <<document, log>>,
         \A p \in wire' : \/ p \in wire
                          \/ p.state # "answered" /\ \E q \in wire : p.by = q.by
  PROVE  \A o \in Requests : Reread(o)'
<1>1. /\ Current(r)' = Current(r) + 1 /\ Current(r) \in Nat /\ OnlyFor(r) /\ stage'[r] = 0
  BY ReplyFacts
<1>2. \A q \in wire : q.by # <<r, Current(r) + 1>>
  <2> SUFFICES ASSUME NEW q \in wire, q.by = <<r, Current(r) + 1>> PROVE FALSE
    OBVIOUS
  <2>1. q.by[1] = r /\ q.by[2] = Current(r) + 1
    OBVIOUS
  <2>2. InFlight(q, r, Current(r) + 1)
    BY <2>1 DEF Executing
  <2> QED
    BY <1>1, <2>2 DEF InFlight
<1>3. Reread(r)'
  BY <1>1, <1>2 DEF Reread
<1>4. \A o \in Requests \ {r} : Reread(o)'
  BY <1>1, RereadOthers DEF OnlyFor, Rereading
<1> QED
  BY <1>3, <1>4

LEMMA SendReread ==
  ASSUME Executing, Rereading, NEW r \in Requests, Send(r)
  PROVE  \A o \in Requests : Reread(o)'
<1>1. /\ UNCHANGED <<document, replies, memo, log, failures>>
      /\ LogKept /\ OnlyFor(r) /\ Fields(r)' = Fields(r)
      /\ Awaited(r) /\ stage[r] \in Nat /\ stage'[r] = stage[r] + 1
      /\ stage[r] + 1 \in 1..Len(CurrentPlan(r))
      /\ settled'[r] = NextCalls(r) \ Fresh(r)
      /\ \A p \in wire' : p \in wire \/ Sent(p, r)
  BY SendFacts
<1>2. Current(r)' = Current(r) /\ Running(r)
  BY SendKeeps
<1>3. \A p \in wire' : p \in wire \/ p.state # "answered"
  BY <1>1 DEF Sent
<1>4. \A o \in Requests \ {r} : Reread(o)'
  BY <1>1, <1>3, RereadOthers DEF OnlyFor, Rereading
<1>5. ASSUME FirstOn(r, Current(r))
      PROVE  /\ \A q \in wire : q.by # <<r, Current(r)>>
             /\ \A c \in settled'[r] : c.loader \notin Reads
  <2>1. Fields(r)[Current(r)].kind \in RereadKinds
    BY <1>5 DEF FirstOn
  <2>2. \A q \in wire : q.by # <<r, Current(r)>>
    BY <1>1, <1>2, <2>1, RereadFlight DEF Awaited
  <2>3. ASSUME NEW c \in settled'[r], c.loader \in Reads PROVE FALSE
    <3>1. c \in NextCalls(r) /\ Memoised(r, c) # {}
      BY <1>1, <2>3 DEF Fresh
    <3>2. PICK m \in memo[r] : m.loader = c.loader /\ m.on = c.on
      BY <3>1 DEF Memoised
    <3>3. c.on = Fields(r)[Current(r)].on
      BY <1>1, <1>2, <3>1, StageFacts DEF Staged, NextCalls, Executing
    <3>4. PICK k \in 1..Current(r) :
            /\ k \in DOMAIN Fields(r) /\ m.on = Fields(r)[k].on
            /\ k = Current(r) => \E s \in 1..stage[r] : \E d \in CurrentPlan(r)[s].calls :
                                   d.loader = m.loader
      BY DEF Executing, Remembered
    <3>5. k = Current(r)
      <4>1. k \in 1..(Current(r) - 1) \/ k = Current(r)
        BY DEF Executing, Typed, Current
      <4> QED
        BY <1>5, <3>2, <3>3, <3>4, <4>1 DEF FirstOn
    <3>6. PICK s \in 1..stage[r] : \E d \in CurrentPlan(r)[s].calls : d.loader = c.loader
      BY <3>2, <3>4, <3>5
    <3>7. s \in DOMAIN CurrentPlan(r) /\ stage[r] + 1 \in DOMAIN CurrentPlan(r) /\ s # stage[r] + 1
      BY <1>1, <1>2, <2>1, RereadPlan
    <3>8. c \in CurrentPlan(r)[s].calls
      BY <1>2, <2>1, <2>3, <3>1, <3>6, <3>7, RereadPlan DEF Rereads, NextCalls
    <3>9. Once(CurrentPlan(r))
      BY <1>2, CurrentIsGood DEF Good, Shape, Executing
    <3> QED
      BY <3>1, <3>7, <3>8, <3>9 DEF Once, NextCalls
  <2> QED
    BY <2>2, <2>3
<1>6. Reread(r)'
  <2>1. FirstOn(r, Current(r))' <=> FirstOn(r, Current(r))
    BY <1>1, <1>2 DEF FirstOn
  <2> QED
    BY <1>1, <1>2, <1>3, <1>5, <2>1 DEF Reread
<1> QED
  BY <1>4, <1>6

LEMMA SettleReread ==
  ASSUME Executing, Rereading, NEW r \in Requests, NEW q \in wire, Settles(r, q),
         Wanted(r, q) => \/ /\ q.state = "answered"
                            /\ seen' = [seen EXCEPT ![r][q.stage] = q.sees]
                         \/ CurrentPlan(r)[stage[r]].mode = "log"
  PROVE  \A o \in Requests : Reread(o)'
<1>1. /\ LogKept /\ OnlyFor(r) /\ Fields(r)' = Fields(r)
      /\ log' = log /\ replies' = replies /\ stage' = stage
  BY SettlesSteady DEF Settles
<1>2. \A p \in wire' : p \in wire \/ p.state # "answered"
  BY <1>1, Narrowed DEF Settles
<1>3. \A o \in Requests \ {r} : Reread(o)'
  BY <1>1, <1>2, RereadOthers DEF OnlyFor, Rereading
<1>4. Current(r)' = Current(r) /\ Own(r, Current(r))' = Own(r, Current(r))
  BY <1>1 DEF Current, Own
<1>5. ASSUME Running(r), FirstOn(r, Current(r)), stage[r] > 0
      PROVE  \/ settled'[r] = settled[r] /\ seen'[r] = seen[r]
             \/ \A c \in settled'[r] : c.loader \in Reads =>
                  \A i \in Own(r, Current(r)) : i <= seen'[r][stage[r]]
  <2>1. Fields(r)[Current(r)].kind \in RereadKinds
    BY <1>5 DEF FirstOn
  <2>2. CASE ~Wanted(r, q)
    BY <2>2 DEF Settles
  <2>3. CASE Wanted(r, q)
    <3>1. q.by = <<r, Current(r)>> /\ q.stage = stage[r] /\ q.call \in CurrentPlan(r)[stage[r]].calls
      BY <2>3, WantedFacts DEF Wanted
    <3>2. CurrentPlan(r)[stage[r]].mode # "log"
      BY <1>5, <2>1, RereadPlan DEF Rereads
    <3>3. q.state = "answered" /\ seen' = [seen EXCEPT ![r][q.stage] = q.sees]
      BY <2>3, <3>2
    <3>4. seen'[r][stage[r]] = q.sees
      <4>1. seen[r] \in Seq(Nat) /\ Len(seen[r]) = stage[r] /\ stage[r] \in Nat
        BY DEF Executing, Typed, Flow
      <4>2. seen'[r] = [seen[r] EXCEPT ![q.stage] = q.sees]
        BY <3>3 DEF Executing, Typed
      <4> QED
        BY <1>5, <3>1, <4>1, <4>2
    <3>5. settled'[r] = settled[r] \cup {q.call} /\ settled[r] \subseteq CurrentPlan(r)[stage[r]].calls
      BY <1>5, <2>3 DEF Settles, Executing, Typed, Flow
    <3>6. ASSUME NEW c \in settled'[r], c.loader \in Reads PROVE q.call.loader \in Reads
      <4>1. c \in CurrentPlan(r)[stage[r]].calls
        BY <3>1, <3>5
      <4>2. c = q.call
        BY <1>5, <2>1, <3>1, <3>6, <4>1, RereadPlan
      <4> QED
        BY <3>6, <4>2
    <3>7. q.call.loader \in Reads => \A i \in Own(r, Current(r)) : i <= q.sees
      BY <1>5, <3>1, <3>3 DEF Rereading, Reread
    <3> QED
      BY <3>4, <3>6, <3>7
  <2> QED
    BY <2>2, <2>3
<1>6. Reread(r)'
  BY <1>1, <1>2, <1>4, <1>5, RereadKept DEF Rereading
<1> QED
  BY <1>3, <1>6

LEMMA ServeReread ==
  ASSUME Executing, Rereading, NEW q \in wire, ServiceStep(q), NEW r \in Requests
  PROVE  Reread(r)'
<1>1. /\ UNCHANGED <<document, replies, stage, settled, seen, memo>>
      /\ LogKept /\ Fields(r)' = Fields(r) /\ Current(r)' = Current(r)
  BY ServiceFacts DEF Untouched, Current
<1>2. /\ \/ log' = log /\ q.call.loader \in Reads
         \/ log' = Append(log, Entry(q)) /\ Pending(q)
      /\ \A p \in wire' : \/ p \in wire
                          \/ p.by = q.by /\ p.call = q.call /\ p.sees = Len(log')
  BY ServiceFacts, ServiceWhat DEF After
<1>3. Running(r)' <=> Running(r)
  BY <1>1 DEF Running
<1>4. FirstOn(r, Current(r))' <=> FirstOn(r, Current(r))
  BY <1>1 DEF FirstOn
<1> SUFFICES ASSUME Running(r), FirstOn(r, Current(r)) PROVE Reread(r)'
  BY <1>3, <1>4 DEF Reread
<1>5. Fields(r)[Current(r)].kind \in RereadKinds
  BY DEF FirstOn
<1>6. ASSUME NEW p \in wire', p \notin wire, p.call.loader \in Reads
      PROVE  \A i \in Own(r, Current(r))' : i <= p.sees
  BY <1>2, <1>6 DEF Own, Executing, Typed, Pending, LogKept
<1>7. CASE Own(r, Current(r))' = Own(r, Current(r))
  BY <1>1, <1>6, <1>7, RereadKept DEF Rereading
<1>8. CASE Own(r, Current(r))' # Own(r, Current(r))
  <2>1. log' = Append(log, Entry(q)) /\ q.call.loader \notin Reads
    BY <1>1, <1>2, <1>8 DEF Own, Pending
  <2>2. q.by = <<r, Current(r)>>
    <3>1. SUFFICES ASSUME q.by # <<r, Current(r)>>
                   PROVE  Own(r, Current(r))' = Own(r, Current(r))
      BY <1>8
    <3>2. /\ log'[Len(log) + 1].by = q.by /\ DOMAIN log' = DOMAIN log \cup {Len(log) + 1}
          /\ \A i \in DOMAIN log : log'[i] = log[i]
      BY <2>1, LogGrows, EntryOf DEF Executing
    <3> QED
      BY <1>1, <3>1, <3>2 DEF Own
  <2>3. /\ stage[r] > 0 /\ q.call \in CurrentPlan(r)[stage[r]].calls
    BY <1>5, <2>2, RereadFlight
  <2>4. \A c \in CurrentPlan(r)[stage[r]].calls : c.loader \notin Reads
    BY <1>5, <2>1, <2>3, RereadPlan
  <2>5. ASSUME NEW p \in wire', p.by = <<r, Current(r)>>, p.call.loader \in Reads PROVE FALSE
    <3>1. p \in wire
      BY <1>2, <2>1, <2>5
    <3> QED
      BY <1>5, <2>4, <2>5, <3>1, RereadFlight
  <2>6. \A c \in settled[r] : c.loader \notin Reads
    BY <2>3, <2>4 DEF Executing, Flow
  <2> QED
    BY <1>1, <2>5, <2>6 DEF Reread
<1> QED
  BY <1>7, <1>8

LEMMA NoMoreWrites ==
  ASSUME Executing, Calm, [Next]_vars, NEW r \in Requests, NEW k \in Succeeded(r),
         Fields(r)[k].kind \in RereadKinds, k \in DOMAIN Fields(r)
  PROVE  Own(r, k)' = Own(r, k)
<1>1. k \in DOMAIN replies[r] /\ replies[r][k].result = "success"
  BY DEF Succeeded
<1>2. LogKept /\ \A i \in DOMAIN log : i \in DOMAIN log' /\ log'[i] = log[i]
  BY <1>1, OwnGrows, PerformedKept
<1>3. Fields(r)[k].kind \notin Lenient
  BY DEF RereadKinds, ListKinds, Lenient, BestEffort
<1>4. ASSUME NEW i \in DOMAIN log' \ DOMAIN log, log'[i].by = <<r, k>> PROVE FALSE
  <2>1. log'[i].by[1] = r /\ log'[i].by[2] = k
    BY <1>4
  <2> QED
    BY <1>1, <1>3, <2>1, WritesInTime
<1> QED
  BY <1>2, <1>4 DEF Own

LEMMA FinishReread ==
  ASSUME Executing, Rereading, NEW r \in Requests, Finish(r), FirstOn(r, Current(r))
  PROVE  \A i \in Own(r, Current(r)) : i <= replies'[r][Current(r)].sees
<1>1. Awaited(r) /\ Running(r) /\ stage[r] = Len(CurrentPlan(r)) /\ Reply(r, "success")
      /\ UNCHANGED <<document, log>>
  BY DEF Finish, Awaited
<1>2. Fields(r)[Current(r)].kind \in RereadKinds
  BY DEF FirstOn
<1>3. Filled(CurrentPlan(r))
  BY <1>1, <1>2, RereadPlan DEF Executing, Flow, Filled
<1>4. /\ CurrentPlan(r) # <<>> /\ \E c \in CurrentPlan(r)[stage[r]].calls : c.loader \in Reads
  BY <1>1, <1>2, <1>3, RereadPlan DEF Rereads
<1>5. stage[r] > 0
  <2>1. CurrentPlan(r) \in Seq(StagesOn(Fields(r)[Current(r)].on))
    BY <1>1, CurrentIsGood DEF Good, Shape, Executing
  <2> QED
    BY <1>1, <1>4, <2>1
<1>6. settled[r] = CurrentPlan(r)[stage[r]].calls
  BY <1>1, <1>5 DEF Awaited
<1>7. \A i \in Own(r, Current(r)) : i <= seen[r][stage[r]]
  BY <1>1, <1>4, <1>5, <1>6 DEF Rereading, Reread
<1>8. replies'[r][Current(r)].sees = seen[r][stage[r]]
  <2>1. seen[r] \in Seq(Nat) /\ Len(seen[r]) = stage[r]
    BY DEF Executing, Typed, Flow
  <2>2. seen[r] # <<>>
    BY <1>5, <2>1
  <2> QED
    BY <1>1, <2>1, <2>2, ReplyFacts
<1> QED
  BY <1>7, <1>8

LEMMA RereadStep ==
  ASSUME Executing, Rereading, [Next]_vars
  PROVE  \A r \in Requests : Reread(r)'
<1>1. ASSUME NEW r \in Requests, Finish(r) \/ GivesUp(r) PROVE \A o \in Requests : Reread(o)'
  <2>1. UNCHANGED <<document, wire, log>> /\ \E result : Reply(r, result)
    BY <1>1, EndFacts
  <2> QED
    BY <2>1, ReplyReread
<1>2. ASSUME NEW r \in Requests, NEW q \in wire, Answer(r, q)
      PROVE  \A o \in Requests : Reread(o)'
  <2>1. /\ Settles(r, q) /\ q.state = "answered"
        /\ Wanted(r, q) => seen' = [seen EXCEPT ![r][q.stage] = q.sees]
    BY <1>2, AnswerSettles DEF Answer
  <2> QED
    BY <2>1, SettleReread
<1>3. ASSUME NEW r \in Requests, NEW q \in wire, Fails(r, q)
      PROVE  \A o \in Requests : Reread(o)'
  <2>1. NarrowedBy(q) /\ UNCHANGED <<document, log>>
    BY <1>3, FailureFacts
  <2>2. CASE \E result : Reply(r, result)
    <3>1. \A p \in wire' : p \in wire \/ (p.state # "answered" /\ \E o \in wire : p.by = o.by)
      BY <2>1, <2>2, Narrowed, ReplyFacts DEF After
    <3> QED
      BY <2>1, <2>2, <3>1, ReplyReread
  <2>3. CASE Settles(r, q) /\ ~\E result : Reply(r, result)
    <3>1. Wanted(r, q) => CurrentPlan(r)[stage[r]].mode = "log"
      BY <1>3, <2>3 DEF Fails, Refuse, Lose, Fail
    <3> QED
      BY <2>3, <3>1, SettleReread
  <2> QED
    BY <1>3, <2>2, <2>3, FailureFacts
<1>4. CASE UNCHANGED vars
  <2>1. \A r \in Requests : Untouched(r)
    BY <1>4 DEF vars, Untouched, LogKept, Executing, Typed
  <2> QED
    BY <1>4, <2>1, RereadOthers DEF vars, Rereading
<1> QED
  BY <1>1, <1>2, <1>3, <1>4, SendReread, ServeReread DEF Next, Resolve, Serve, ServiceStep, Fails

LEMMA RereadingNext == Executing /\ Calm /\ Rereading /\ [Next]_vars => Rereading'
<1> SUFFICES ASSUME Executing, Calm, Rereading, [Next]_vars PROVE Rereading'
  OBVIOUS
<1>1. ASSUME NEW r \in Requests, NEW k \in Succeeded(r)', Fields(r)'[k].kind \in RereadKinds,
             \A j \in 1..(k - 1) : Fields(r)'[j].on # Fields(r)'[k].on
      PROVE  \A i \in Own(r, k)' : i <= replies'[r][k].sees
  <2>1. k \in DOMAIN replies'[r] /\ replies'[r][k].result = "success"
    BY DEF Succeeded
  <2>2. Fields(r)' = Fields(r)
    BY <2>1, NewAnswer DEF Fields
  <2>3. FirstOn(r, k)
    BY <1>1, <2>2 DEF FirstOn
  <2>4. CASE k \in DOMAIN replies[r] /\ replies'[r][k] = replies[r][k]
    <3>1. k \in Succeeded(r)
      BY <2>1, <2>4 DEF Succeeded
    <3>2. k \in DOMAIN Fields(r)
      BY <2>4, FieldTypes DEF Executing, Typed, Flow
    <3>3. Own(r, k)' = Own(r, k)
      BY <2>3, <3>1, <3>2, NoMoreWrites DEF FirstOn
    <3>4. \A i \in Own(r, k) : i <= replies[r][k].sees
      BY <2>3, <3>1 DEF Rereading, RereadShowsOwnWrites, FirstOn, RereadKinds
    <3> QED
      BY <2>4, <3>3, <3>4
  <2>5. CASE k = Current(r) /\ Finish(r)
    <3>1. \A i \in Own(r, k) : i <= replies'[r][k].sees
      BY <2>3, <2>5, FinishReread
    <3>2. Own(r, k)' = Own(r, k)
      BY <2>5 DEF Own, Finish
    <3> QED
      BY <3>1, <3>2
  <2> QED
    BY <2>1, <2>4, <2>5, NewAnswer
<1>2. RereadShowsOwnWrites'
  BY <1>1 DEF RereadShowsOwnWrites, RereadKinds
<1> QED
  BY <1>2, RereadStep DEF Rereading

\* The entity that a mutation reads again shows all that its field wrote, for
\* documents of any length (src/src/schema/v2/me/myCollectionUpdateArtworkMutation.ts:316).
THEOREM RereadsAreFresh == Spec => []RereadShowsOwnWrites
<1>1. Init => Rereading
  BY DEF Init, Rereading, Reread, Succeeded, RereadShowsOwnWrites
<1>2. Executing /\ Calm /\ Rereading /\ [Next]_vars => Rereading'
  BY RereadingNext
<1>3. Rereading => RereadShowsOwnWrites
  BY DEF Rereading
<1> QED
  BY <1>1, <1>2, <1>3, ExecutionInvariance, CalmInvariance, PTL DEF Spec

-----------------------------------------------------------------------------
(* The fourth layer: the edition set of an artwork.                        *)

\* Nobody but r wrote anything, nothing failed, and r only updates artworks of
\* a collection.
Lone(r) ==
  /\ failures = 0
  /\ \A i \in DOMAIN log : log[i].by[1] = r
  /\ \A k \in DOMAIN Fields(r) : Fields(r)[k].kind = "myCollectionUpdateArtwork"

Creates == "createArtworkEditionSetLoader"

Deletes == "deleteArtworkEditionSetLoader"

Of(on, loader) == {i \in DOMAIN log : log[i].on = on /\ log[i].loader = loader}

\* How many edition sets an artwork has.
Sets(on) ==
  (IF on \in Editioned THEN 1 ELSE 0)
    + Cardinality(Of(on, Creates)) - Cardinality(Of(on, Deletes))

\* An artwork has at most one; and when a field is about to write to it, what
\* the field knows from its first answer is still true.
Single(r) == Lone(r) =>
  /\ \A on : Sets(on) \in {0, 1}
  /\ \A q \in wire : q.by[1] = r =>
       /\ q.by = <<r, Current(r)>> /\ q.state # "abandoned"
       /\ q.stage = 1 /\ q.state = "answered" => q.sees = Len(log)
       /\ q.stage = 2 /\ Pending(q) => Known(r) = Len(log)
  /\ stage[r] = 1 /\ settled[r] # {} => Known(r) = Len(log)

LEMMA Halves ==
  ASSUME NEW S, NEW p \in Seq(S), NEW q \in Seq(S), NEW s \in DOMAIN (p \o q)
  PROVE  /\ p \o q \in Seq(S) /\ Len(p \o q) = Len(p) + Len(q)
         /\ \/ s \in DOMAIN p /\ s \in 1..Len(p) /\ (p \o q)[s] = p[s]
            \/ s - Len(p) \in 1..Len(q) /\ (p \o q)[s] = q[s - Len(p)]
<1> DEFINE pq == p \o q
<1>1. /\ pq \in Seq(S) /\ Len(pq) = Len(p) + Len(q)
      /\ \A i \in 1..(Len(p) + Len(q)) : pq[i] = IF i <= Len(p) THEN p[i] ELSE q[i - Len(p)]
  BY ConcatProperties
<1>2. s \in DOMAIN pq
  OBVIOUS
<1> HIDE DEF pq
<1>3. s \in 1..(Len(p) + Len(q)) /\ Len(p) \in Nat /\ Len(q) \in Nat /\ DOMAIN p = 1..Len(p)
  BY <1>1, <1>2
<1>4. CASE s <= Len(p)
  BY <1>1, <1>3, <1>4 DEF pq
<1>5. CASE s > Len(p)
  <2>1. s - Len(p) \in 1..Len(q) /\ ~(s <= Len(p))
    BY <1>3, <1>5
  <2> QED
    BY <1>1, <1>3, <2>1 DEF pq
<1> QED
  BY <1>3, <1>4, <1>5

\* Where a stage is from when four plans follow each other, the first and the
\* last of one stage and the second of at most one.
From(stg, s, p, q, t, u) ==
  \/ s = 1 /\ stg = p[1]
  \/ s = 2 /\ Len(q) = 1 /\ stg = q[1]
  \/ s > 1 /\ \E i \in 1..Len(t) : stg = t[i]
  \/ s > 1 /\ stg = u[1]

LEMMA Stretches ==
  ASSUME NEW S, NEW p, p \in Seq(S), NEW q, q \in Seq(S), NEW t, t \in Seq(S),
         NEW u, u \in Seq(S), Len(p) = 1, Len(q) \in {0, 1}, Len(u) = 1,
         NEW s, s \in DOMAIN (p \o q \o t \o u)
  PROVE  From((p \o q \o t \o u)[s], s, p, q, t, u)
<1> DEFINE pq == p \o q
           pqt == pq \o t
<1>1. pq \in Seq(S) /\ Len(pq) = 1 + Len(q)
  <2>1. p \o q \in Seq(S) /\ Len(p \o q) = Len(p) + Len(q)
    BY ONLY p \in Seq(S), q \in Seq(S), ConcatProperties
  <2> QED
    BY <2>1
<1>2. pqt \in Seq(S) /\ Len(pqt) = Len(pq) + Len(t) /\ Len(t) \in Nat
  BY <1>1, ConcatProperties
<1>3. \/ s \in DOMAIN pqt /\ (pqt \o u)[s] = pqt[s]
      \/ s - Len(pqt) \in 1..Len(u) /\ (pqt \o u)[s] = u[s - Len(pqt)]
  <2>1. s \in DOMAIN (pqt \o u)
    OBVIOUS
  <2> HIDE DEF pq, pqt
  <2> QED
    BY <1>2, <2>1, Halves
<1>4. CASE s - Len(pqt) \in 1..Len(u) /\ (pqt \o u)[s] = u[s - Len(pqt)]
  <2>1. s - Len(pqt) = 1
    BY <1>4
  <2>2. s \in Int
    BY <1>2
  <2> HIDE DEF pq, pqt
  <2>3. s > 1
    BY <1>1, <1>2, <2>1, <2>2
  <2> QED
    BY <1>4, <2>1, <2>3 DEF pqt, pq, From
<1>5. CASE s \in DOMAIN pqt /\ (pqt \o u)[s] = pqt[s]
  <2>1. \/ s \in DOMAIN pq /\ pqt[s] = pq[s]
        \/ s - Len(pq) \in 1..Len(t) /\ pqt[s] = t[s - Len(pq)]
    BY <1>1, <1>5, Halves
  <2>2. CASE s - Len(pq) \in 1..Len(t) /\ pqt[s] = t[s - Len(pq)]
    <3>1. s \in Int
      BY <1>2, <1>5
    <3> HIDE DEF pq, pqt
    <3>2. s > 1
      BY <1>1, <2>2, <3>1
    <3> QED
      BY <1>5, <2>2, <3>2 DEF pqt, pq, From
  <2>3. CASE s \in DOMAIN pq /\ pqt[s] = pq[s]
    <3>1. \/ s \in 1..Len(p) /\ pq[s] = p[s]
          \/ s - Len(p) \in 1..Len(q) /\ pq[s] = q[s - Len(p)]
      BY <2>3, Halves, SMTT(30)
    <3>2. s \in Int
      BY <1>1, <2>3
    <3> HIDE DEF pq, pqt
    <3>3. \/ s = 1 /\ pq[s] = p[1]
          \/ s = 2 /\ Len(q) = 1 /\ pq[s] = q[1]
      <4>1. CASE s \in 1..Len(p) /\ pq[s] = p[s]
        BY <4>1
      <4>2. CASE s - Len(p) \in 1..Len(q) /\ pq[s] = q[s - Len(p)]
        <5>1. s - 1 \in 1..Len(q) /\ Len(q) = 1
          BY <3>2, <4>2
        <5>2. s = 2 /\ s - Len(p) = 1
          BY <3>2, <5>1
        <5> QED
          BY <4>2, <5>1, <5>2
      <4> QED
        BY <3>1, <4>1, <4>2
    <3> QED
      BY <1>5, <2>3, <3>3 DEF pqt, pq, From
  <2> QED
    BY <2>1, <2>2, <2>3
<1> QED
  BY <1>3, <1>4, <1>5

\* A stage of the update of an artwork has one call, and only its second
\* stage changes whether there is an edition set.
LEMMA UpdateStages ==
  ASSUME NEW f, AField(f), f.kind = "myCollectionUpdateArtwork", NEW editioned \in BOOLEAN,
         NEW s \in DOMAIN Body(f, editioned), NEW c \in Body(f, editioned)[s].calls
  PROVE  /\ \A d \in Body(f, editioned)[s].calls : c = d
         /\ s = 1 => c.loader = "updateArtworkLoader"
         /\ c.loader = Creates => s = 2 /\ ~editioned
         /\ c.loader = Deletes => s = 2 /\ editioned
<1> DEFINE S == StagesOn(f.on)
           p1 == Await("updateArtworkLoader", f)
           p2 == IF ~editioned
                 THEN When("edition", f, Await("createArtworkEditionSetLoader", f))
                 ELSE IF "noEdition" \in f.opts
                 THEN Await("deleteArtworkEditionSetLoader", f)
                 ELSE Await("updateArtworkEditionSetLoader", f)
           p3 == AwaitEach("createArtworkImageLoader", f, Recognised(f.items, f))
           p4 == Await("artworkLoader", f)
           One(loaders) == {{Call(l, f.on, n)} : l \in loaders, n \in Nat}
<1>1. Body(f, editioned) = p1 \o p2 \o p3 \o p4
  BY DEF Body, MyCollectionUpdateArtwork
<1>2. PICK items \in Nat : Recognised(f.items, f) = items
  BY RecognisedType DEF ItemKinds, ImageKinds
<1>3. p1 \in Seq(S) /\ p4 \in Seq(S) /\ p3 \in Seq(S)
  <2>1. p1 \in Seq(S) /\ p4 \in Seq(S)
    BY AwaitPlan DEF Plain, Reads, Shape
  <2>2. "createArtworkImageLoader" \in Images /\ "createArtworkImageLoader" \in Loaders
    BY DEF Images, Loaders
  <2> QED
    BY <1>2, <2>1, <2>2, AwaitEachPlan DEF Shape
<1>4. p2 \in Seq(S)
  <2>1. CASE ~editioned
    BY <2>1, AwaitsWhen DEF Plain, Makes, Shape
  <2>2. CASE editioned /\ "noEdition" \in f.opts
    BY <2>2, AwaitPlan DEF Plain, Shape
  <2>3. CASE editioned /\ ~("noEdition" \in f.opts)
    BY <2>3, AwaitPlan DEF Plain, Shape
  <2> QED
    BY <2>1, <2>2, <2>3
<1>5. Len(p1) = 1 /\ p1[1].calls \in One({"updateArtworkLoader"})
  BY DEF Await, Stage
<1>6. Len(p4) = 1 /\ p4[1].calls \in One({"artworkLoader"})
  BY DEF Await, Stage
<1>7. /\ Len(p2) \in {0, 1}
      /\ Len(p2) = 1 /\ editioned =>
           p2[1].calls \in One({"deleteArtworkEditionSetLoader", "updateArtworkEditionSetLoader"})
      /\ Len(p2) = 1 /\ ~editioned => p2[1].calls \in One({"createArtworkEditionSetLoader"})
  BY DEF Await, Stage, When
<1>8. Len(p3) = items /\ \A i \in 1..items : p3[i].calls \in One({"createArtworkImageLoader"})
  BY <1>2 DEF AwaitEach
<1> HIDE DEF S, p1, p2, p3, p4
<1>9. PICK loaders : /\ Body(f, editioned)[s].calls \in One(loaders)
                     /\ \/ s = 1 /\ loaders = {"updateArtworkLoader"}
                        \/ s = 2 /\ editioned /\ loaders = {"deleteArtworkEditionSetLoader",
                                                            "updateArtworkEditionSetLoader"}
                        \/ s = 2 /\ ~editioned /\ loaders = {"createArtworkEditionSetLoader"}
                        \/ s # 1 /\ loaders = {"createArtworkImageLoader"}
                        \/ s # 1 /\ loaders = {"artworkLoader"}
  <2> HIDE DEF One
  <2>1. \/ s = 1 /\ Body(f, editioned)[s] = p1[1]
        \/ s = 2 /\ Len(p2) = 1 /\ Body(f, editioned)[s] = p2[1]
        \/ s > 1 /\ \E i \in 1..Len(p3) : Body(f, editioned)[s] = p3[i]
        \/ s > 1 /\ Body(f, editioned)[s] = p4[1]
    <3>1. Len(p1) = 1 /\ Len(p2) \in {0, 1} /\ Len(p4) = 1
      BY <1>5, <1>6, <1>7
    <3>2. s \in DOMAIN (p1 \o p2 \o p3 \o p4)
      BY <1>1
    <3>3. From((p1 \o p2 \o p3 \o p4)[s], s, p1, p2, p3, p4)
      BY <1>3, <1>4, <3>1, <3>2, Stretches
    <3> QED
      BY <1>1, <3>3 DEF From
  <2> QED
    BY <1>5, <1>6, <1>7, <1>8, <2>1
<1>10. PICK l \in loaders : \E n \in Nat : Body(f, editioned)[s].calls = {Call(l, f.on, n)}
  BY <1>9
<1>11. c.loader = l /\ \A d \in Body(f, editioned)[s].calls : c = d
  BY <1>10 DEF Call
<1> QED
  BY <1>9, <1>11 DEF Creates, Deletes

LEMMA LonePlan ==
  ASSUME Executing, NEW r \in Requests, Lone(r), Running(r),
         NEW s \in 1..Len(CurrentPlan(r)), NEW c \in CurrentPlan(r)[s].calls
  PROVE  LET on == Fields(r)[Current(r)].on
         IN  /\ c.on = on
             /\ \A d \in CurrentPlan(r)[s].calls : c = d
             /\ s = 1 => c.loader = "updateArtworkLoader"
             /\ c.loader = Creates => s = 2 /\ ~HasEditionSet(on, Known(r))
             /\ c.loader = Deletes => s = 2 /\ HasEditionSet(on, Known(r))
<1> DEFINE f == Fields(r)[Current(r)]
           e == HasEditionSet(f.on, Known(r))
<1>1. /\ CurrentPlan(r) = PlanIf(r, Current(r), e) /\ e \in BOOLEAN
      /\ DOMAIN CurrentPlan(r) = 1..Len(CurrentPlan(r)) /\ c.on = f.on
  BY CurrentIsIf, EditionSetIsBoolean, StageFacts DEF Staged, Executing
<1>2. AField(f) /\ f.kind = "myCollectionUpdateArtwork"
  BY CurrentIsGood, FieldTypes DEF Lone, Executing
<1>3. CASE document[r].signedIn
  <2>1. CurrentPlan(r) = Body(f, e)
    BY <1>1, <1>3 DEF PlanIf
  <2> HIDE DEF f, e
  <2>2. /\ \A d \in CurrentPlan(r)[s].calls : c = d
        /\ s = 1 => c.loader = "updateArtworkLoader"
        /\ c.loader = Creates => s = 2 /\ ~e
        /\ c.loader = Deletes => s = 2 /\ e
    BY <1>1, <1>2, <2>1, UpdateStages
  <2> QED
    BY <1>1, <2>2 DEF f, e
<1>4. CASE ~document[r].signedIn
  <2>1. CurrentPlan(r)[s].calls = {}
    BY <1>1, <1>4 DEF PlanIf, GiveUp, Stage
  <2> QED
    BY <2>1
<1> QED
  BY <1>3, <1>4

\* The call in flight is the one that is awaited, and there is no other.
LEMMA LoneFlight ==
  ASSUME Executing, NEW r \in Requests, Lone(r), NEW q \in wire, q.by = <<r, Current(r)>>
  PROVE  /\ Running(r) /\ q.stage = stage[r] /\ stage[r] \in 1..Len(CurrentPlan(r))
         /\ q.call \in CurrentPlan(r)[stage[r]].calls /\ q.call \notin settled[r]
         /\ settled[r] = {}
         /\ \A p \in wire : p.by = <<r, Current(r)>> => p = q
<1>1. q.by[1] = r /\ q.by[2] = Current(r)
  OBVIOUS
<1>2. Current(r) \in DOMAIN Fields(r)
  BY <1>1 DEF Executing, InFlight
<1>3. Running(r) /\ Fields(r)[Current(r)].kind \in RereadKinds
  BY <1>2, IsRunning DEF Executing, Lone, RereadKinds
<1>4. \A p \in wire : p.by = <<r, Current(r)>> =>
        /\ stage[r] > 0 /\ p.call \in CurrentPlan(r)[stage[r]].calls
        /\ p.call \notin settled[r] /\ p.stage = stage[r]
  BY <1>3, RereadFlight
<1>5. stage[r] \in 1..Len(CurrentPlan(r))
  BY <1>3, <1>4, RereadPlan
<1>6. \A c, d \in CurrentPlan(r)[stage[r]].calls : c = d
  BY <1>3, <1>5, LonePlan
<1>7. \A p \in wire : p.by = <<r, Current(r)>> => p = q
  BY <1>4, <1>6 DEF Executing, SentOnce
<1>8. settled[r] = {}
  <2>1. settled[r] \subseteq CurrentPlan(r)[stage[r]].calls
    BY <1>3, <1>4 DEF Executing, Flow
  <2> QED
    BY <1>4, <1>6, <2>1
<1> QED
  BY <1>3, <1>4, <1>5, <1>7, <1>8

\* Nothing is in flight when the resolver goes on.
LEMMA LoneAwaits ==
  ASSUME Executing, NEW r \in Requests, Lone(r), Single(r), Awaited(r), NEW q \in wire
  PROVE  q.by[1] # r
<1> SUFFICES ASSUME q.by[1] = r PROVE FALSE
  OBVIOUS
<1>1. q.by = <<r, Current(r)>>
  BY DEF Single
<1> QED
  BY <1>1, LoneFlight DEF Awaited

LEMMA OfIsFinite ==
  ASSUME Typed, NEW on, NEW loader
  PROVE  IsFiniteSet(Of(on, loader)) /\ Cardinality(Of(on, loader)) \in Nat
<1>1. IsFiniteSet(1..Len(log)) /\ Of(on, loader) \subseteq 1..Len(log)
  BY FS_Interval DEF Of, Typed
<1>2. IsFiniteSet(Of(on, loader))
  BY <1>1, FS_Subset
<1> QED
  BY <1>2, FS_CardinalityType

\* What a field knows of all writes is whether there is a set.
LEMMA SetsAreKnown ==
  ASSUME Typed, NEW on
  PROVE  HasEditionSet(on, Len(log)) <=> Sets(on) > 0
<1>1. DOMAIN log = 1..Len(log)
  BY DEF Typed
<1>2. /\ HasEditionSet(on, Len(log)) <=>
           (IF on \in Editioned THEN 1 ELSE 0) + Cardinality(Of(on, Creates))
             > Cardinality(Of(on, Deletes))
      /\ Cardinality(Of(on, Creates)) \in Nat /\ Cardinality(Of(on, Deletes)) \in Nat
  <2>1. /\ Cardinality(Of(on, Creates)) \in Nat
        /\ Cardinality(Of(on, Deletes)) \in Nat
    BY OfIsFinite
  <2>2. \A l : {i \in 1..Len(log) : log[i].on = on /\ log[i].loader = l} = Of(on, l)
    BY <1>1 DEF Of
  <2> QED
    BY <2>1, <2>2 DEF HasEditionSet, Creates, Deletes
<1> QED
  BY <1>2 DEF Sets

\* What a write does to the edition sets of an artwork.
LEMMA SetsChange ==
  ASSUME Typed, NEW q \in wire, log' = Append(log, Entry(q)), NEW on
  PROVE  Sets(on)' = IF q.call.on # on THEN Sets(on)
                     ELSE IF q.call.loader = Creates THEN Sets(on) + 1
                     ELSE IF q.call.loader = Deletes THEN Sets(on) - 1
                     ELSE Sets(on)
<1> DEFINE z == Len(log) + 1
<1>1. /\ log'[z].on = q.call.on /\ log'[z].loader = q.call.loader
      /\ DOMAIN log' = DOMAIN log \cup {z} /\ z \notin DOMAIN log
      /\ \A i \in DOMAIN log : log'[i] = log[i]
  <2>1. /\ log'[z] = Entry(q) /\ DOMAIN log' = DOMAIN log \cup {z} /\ Len(log) \in Nat
        /\ \A i \in DOMAIN log : log'[i] = log[i] /\ i <= Len(log)
    BY LogGrows
  <2>2. Entry(q).on = q.call.on /\ Entry(q).loader = q.call.loader
    BY DEF Entry
  <2>3. z \notin DOMAIN log
    BY <2>1
  <2> QED
    BY <2>1, <2>2, <2>3
<1> HIDE DEF z
<1>2. \A l : Of(on, l)' = IF q.call.on = on /\ q.call.loader = l THEN Of(on, l) \cup {z}
                          ELSE Of(on, l)
  BY <1>1 DEF Of
<1>3. ASSUME NEW l
      PROVE  Cardinality(Of(on, l))' = IF q.call.on = on /\ q.call.loader = l
                                       THEN Cardinality(Of(on, l)) + 1 ELSE Cardinality(Of(on, l))
  <2>1. IsFiniteSet(Of(on, l))
    BY OfIsFinite
  <2>. z \notin Of(on, l)
    BY <1>1 DEF Of
  <2>2. Cardinality(Of(on, l) \cup {z}) = Cardinality(Of(on, l)) + 1
    BY <2>1, FS_AddElement
  <2> QED
    BY <1>2, <2>2
<1>4. Creates # Deletes /\ Cardinality(Of(on, Creates)) \in Nat /\ Cardinality(Of(on, Deletes)) \in Nat
  BY OfIsFinite DEF Creates, Deletes
<1>5. /\ Cardinality(Of(on, Creates))' = IF q.call.on = on /\ q.call.loader = Creates
                                         THEN Cardinality(Of(on, Creates)) + 1
                                         ELSE Cardinality(Of(on, Creates))
      /\ Cardinality(Of(on, Deletes))' = IF q.call.on = on /\ q.call.loader = Deletes
                                         THEN Cardinality(Of(on, Deletes)) + 1
                                         ELSE Cardinality(Of(on, Deletes))
  BY <1>3
<1> QED
  BY <1>4, <1>5 DEF Sets

LEMMA LoneBefore ==
  ASSUME Executing, [Next]_vars, NEW r \in Requests, Lone(r)'
  PROVE  Lone(r) /\ LogKept /\ failures' = failures /\ document' = document
<1>1. document' = document /\ failures = 0 /\ failures' = failures
  <2>1. failures \in Nat /\ failures' = 0
    BY FailureAssumption DEF Lone, Executing, Typed
  <2>2. \A o \in Requests : Resolve(o) => document' = document /\ failures' = failures
    BY DEF Resolve, Finish, GivesUp, Send
  <2>3. \A q \in wire : ServiceStep(q) => document' = document /\ failures' = failures
    BY ServiceFacts
  <2>4. \A o \in Requests, q \in wire : Answer(o, q) => document' = document /\ failures' = failures
    BY DEF Answer
  <2>5. \A o \in Requests, q \in wire : ~Fails(o, q)
    BY <2>1 DEF Fails, Refuse, Lose, MayFail
  <2> QED
    BY <2>1, <2>2, <2>3, <2>4, <2>5 DEF Next, vars, ServiceStep, Serve, Fails
<1>2. LogKept
  <2>1. CASE log' = log
    BY <2>1 DEF LogKept, Executing, Typed
  <2>2. CASE log' # log
    <3>1. PICK q \in wire : ServiceStep(q)
      BY <2>2, OnlyServicesWrite
    <3> QED
      BY <3>1, ServiceFacts
  <2> QED
    BY <2>1, <2>2
<1>3. \A i \in DOMAIN log : log[i].by[1] = r
  <2> SUFFICES ASSUME NEW i \in DOMAIN log PROVE log[i].by[1] = r
    OBVIOUS
  <2>1. i \in 1..Len(log) /\ Len(log) \in Nat
    BY DEF Executing, Typed
  <2>2. i \in DOMAIN log' /\ log'[i] = log[i]
    BY <1>2, <2>1 DEF LogKept
  <2>3. log'[i].by[1] = r
    BY <2>2 DEF Lone
  <2> QED
    BY <2>2, <2>3
<1> QED
  BY <1>1, <1>2, <1>3 DEF Lone, Fields

\* What other requests send, and answers they get, are nothing to r.
LEMMA SingleKept ==
  ASSUME Executing, NEW r \in Requests, Lone(r), Single(r), Untouched(r), log' = log,
         \A p \in wire' : p \in wire \/ p.by[1] # r
  PROVE  Single(r)'
<1>1. /\ Current(r)' = Current(r) /\ Known(r)' = Known(r)
      /\ settled'[r] = settled[r] /\ stage'[r] = stage[r]
  BY DEF Untouched, Current, Known
<1>2. \A on : Sets(on)' = Sets(on)
  BY DEF Sets, Of
<1> QED
  BY <1>1, <1>2 DEF Single, Pending

LEMMA ReplySingle ==
  ASSUME Executing, NEW r \in Requests, Lone(r), Single(r), Finish(r) \/ GivesUp(r)
  PROVE  Single(r)'
<1>1. stage'[r] = 0 /\ log' = log /\ wire' = wire
  <2>1. PICK result : Reply(r, result)
    BY DEF Finish, GivesUp
  <2>2. UNCHANGED <<document, wire, log>>
    BY EndFacts
  <2> QED
    BY <2>1, <2>2, ReplyFacts
<1>2. \A q \in wire' : q.by[1] # r
  BY <1>1, LoneAwaits, EndFacts
<1>3. \A on : Sets(on)' = Sets(on)
  BY <1>1 DEF Sets, Of
<1> QED
  BY <1>1, <1>2, <1>3 DEF Single

LEMMA SendSingle ==
  ASSUME Executing, NEW r \in Requests, Lone(r), Single(r), Send(r)
  PROVE  Single(r)'
<1>1. /\ UNCHANGED <<document, replies, memo, log, failures>> /\ Awaited(r)
      /\ stage[r] \in Nat /\ stage'[r] = stage[r] + 1 /\ stage[r] + 1 \in 1..Len(CurrentPlan(r))
      /\ settled'[r] = NextCalls(r) \ Fresh(r)
      /\ \A p \in wire' : p \in wire \/ Sent(p, r)
  BY SendFacts
<1>2. /\ Current(r)' = Current(r) /\ Running(r)
      /\ Len(seen'[r]) = stage[r] + 1 /\ \A s \in 1..stage[r] : seen'[r][s] = seen[r][s]
  BY SendKeeps
<1>3. \A p \in wire' : p.by[1] = r => Sent(p, r)
  BY <1>1, LoneAwaits
<1>4. ASSUME stage[r] = 0 PROVE settled'[r] = {}
  <2> SUFFICES ASSUME NEW c \in settled'[r] PROVE FALSE
    OBVIOUS
  <2>1. c \in CurrentPlan(r)[1].calls /\ Memoised(r, c) # {} /\ 1 \in 1..Len(CurrentPlan(r))
    BY <1>1, <1>4 DEF NextCalls, Fresh
  <2>2. c.loader = "updateArtworkLoader"
    BY <1>2, <2>1, LonePlan
  <2>3. c.loader \in Reads
    BY <2>1 DEF Memoised, Executing, Typed
  <2> QED
    BY <2>2, <2>3 DEF Reads
<1>5. ASSUME stage[r] = 1 PROVE Known(r)' = Len(log)
  <2>1. settled[r] # {}
    BY <1>1, <1>2, <1>5 DEF Awaited, Executing, Flow
  <2>2. Known(r) = Len(log)
    BY <1>5, <2>1 DEF Single
  <2>3. seen[r] # <<>> /\ seen'[r] # <<>> /\ seen'[r][1] = seen[r][1]
    BY <1>2, <1>5 DEF Executing, Flow
  <2> QED
    BY <2>2, <2>3 DEF Known
<1>6. \A on : Sets(on)' = Sets(on)
  BY <1>1 DEF Sets, Of
<1>7. ASSUME NEW p \in wire', p.by[1] = r
      PROVE  /\ p.by = <<r, Current(r)>> /\ p.state = "sent" /\ p.stage = stage[r] + 1
  BY <1>3, <1>7 DEF Sent
<1> QED
  BY <1>1, <1>2, <1>4, <1>5, <1>6, <1>7 DEF Single

LEMMA WriteSingle ==
  ASSUME Executing, NEW r \in Requests, Lone(r), Single(r), NEW q \in wire, ServiceStep(q),
         q.by[1] = r, log' = Append(log, Entry(q)), Pending(q)
  PROVE  Single(r)'
<1>1. UNCHANGED <<document, replies, stage, settled, seen, memo, failures>>
  BY ServiceFacts
<1>2. q.by = <<r, Current(r)>> /\ (q.stage = 2 => Known(r) = Len(log))
  BY DEF Single
<1>3. /\ Running(r) /\ q.stage = stage[r] /\ stage[r] \in 1..Len(CurrentPlan(r))
      /\ q.call \in CurrentPlan(r)[stage[r]].calls /\ settled[r] = {}
      /\ \A p \in wire : p.by = <<r, Current(r)>> => p = q
  BY <1>2, LoneFlight
<1>4. \A p \in wire' : \/ p \in wire \ {q}
                       \/ p.by = q.by /\ p.state = "answered" /\ p.sees = Len(log')
  BY ServiceFacts DEF After
<1>5. ASSUME NEW p \in wire', p.by[1] = r
      PROVE  p.by = q.by /\ p.state = "answered" /\ p.sees = Len(log')
  <2>1. p \notin wire \ {q}
    BY <1>3, <1>5 DEF Single
  <2> QED
    BY <1>4, <2>1
<1>6. ASSUME NEW on PROVE Sets(on)' \in {0, 1}
  <2>1. Sets(on) \in {0, 1}
    BY DEF Single
  <2>2. Sets(on)' = IF q.call.on # on THEN Sets(on)
                    ELSE IF q.call.loader = Creates THEN Sets(on) + 1
                    ELSE IF q.call.loader = Deletes THEN Sets(on) - 1
                    ELSE Sets(on)
    BY SetsChange DEF Executing
  <2>3. q.call.on = Fields(r)[Current(r)].on
    BY <1>3, LonePlan
  <2>4. CASE q.call.on = on /\ q.call.loader = Creates
    <3>1. q.stage = 2 /\ ~HasEditionSet(on, Known(r))
      BY <1>3, <2>3, <2>4, LonePlan
    <3>2. ~(Sets(on) > 0)
      BY <1>2, <3>1, SetsAreKnown DEF Executing
    <3> QED
      BY <2>1, <2>2, <2>4, <3>2
  <2>5. CASE q.call.on = on /\ q.call.loader = Deletes
    <3>1. q.stage = 2 /\ HasEditionSet(on, Known(r))
      BY <1>3, <2>3, <2>5, LonePlan
    <3>2. Sets(on) > 0
      BY <1>2, <3>1, SetsAreKnown DEF Executing
    <3>3. Creates # Deletes
      BY DEF Creates, Deletes
    <3> QED
      BY <2>1, <2>2, <2>5, <3>2, <3>3
  <2> QED
    BY <2>1, <2>2, <2>4, <2>5
<1>7. Current(r)' = Current(r) /\ settled'[r] = {}
  BY <1>1, <1>3 DEF Current
<1> QED
  BY <1>2, <1>5, <1>6, <1>7 DEF Single, Pending

LEMMA ServeSingle ==
  ASSUME Executing, NEW r \in Requests, Lone(r), Single(r), NEW q \in wire, ServiceStep(q), Lone(r)'
  PROVE  Single(r)'
<1>1. /\ \/ log' = log /\ q.call.loader \in Reads
         \/ log' = Append(log, Entry(q)) /\ Pending(q)
      /\ \A p \in wire' : \/ p \in wire \ {q}
                          \/ p.by = q.by /\ p.call = q.call /\ p.state = "answered"
  BY ServiceWhat
<1>2. CASE log' = Append(log, Entry(q)) /\ Pending(q)
  <2>1. log'[Len(log) + 1].by = q.by /\ Len(log) + 1 \in DOMAIN log'
    BY <1>2, LogGrows, EntryOf DEF Executing
  <2>2. q.by[1] = r
    BY <2>1 DEF Lone
  <2> QED
    BY <1>2, <2>2, WriteSingle
<1>3. CASE log' = log
  <2>1. UNCHANGED <<document, replies, stage, settled, seen, memo, failures>>
    BY ServiceFacts
  <2>2. Current(r)' = Current(r) /\ Known(r)' = Known(r) /\ \A on : Sets(on)' = Sets(on)
    BY <1>3, <2>1 DEF Current, Known, Sets, Of
  <2>3. \A p \in wire' : \/ p \in wire
                         \/ p.by = q.by /\ p.state = "answered" /\ p.sees = Len(log)
    BY <1>3, ServiceFacts DEF After
  <2> QED
    BY <1>3, <2>1, <2>2, <2>3 DEF Single, Pending
<1> QED
  BY <1>1, <1>2, <1>3

LEMMA AnswerSingle ==
  ASSUME Executing, NEW r \in Requests, Lone(r), Single(r), NEW q \in wire, Answer(r, q)
  PROVE  Single(r)'
<1>1. /\ q.by[1] = r /\ q.state = "answered" /\ wire' = wire \ {q}
      /\ UNCHANGED <<document, replies, stage, log>>
  BY DEF Answer
<1>2. q.by = <<r, Current(r)>> /\ (q.stage = 1 => q.sees = Len(log))
  BY <1>1 DEF Single
<1>3. /\ Running(r) /\ q.stage = stage[r] /\ stage[r] \in 1..Len(CurrentPlan(r))
      /\ \A p \in wire : p.by = <<r, Current(r)>> => p = q
  BY <1>2, LoneFlight
<1>4. \A p \in wire' : p.by[1] # r
  BY <1>1, <1>3 DEF Single
<1>5. seen'[r] = [seen[r] EXCEPT ![q.stage] = q.sees]
  BY <1>2, <1>3 DEF Answer, Wanted, Executing, Typed
<1>6. ASSUME stage[r] = 1 PROVE Known(r)' = Len(log)
  <2>1. seen[r] \in Seq(Nat) /\ Len(seen[r]) = 1
    BY <1>6 DEF Executing, Typed, Flow
  <2>2. seen'[r] # <<>> /\ seen'[r][1] = q.sees
    BY <1>3, <1>5, <1>6, <2>1
  <2> QED
    BY <1>2, <1>3, <1>6, <2>2 DEF Known
<1>7. \A on : Sets(on)' = Sets(on)
  BY <1>1 DEF Sets, Of
<1> QED
  BY <1>1, <1>4, <1>6, <1>7 DEF Single

LEMMA SingleNext ==
  Executing /\ (\A r \in Requests : Single(r)) /\ [Next]_vars => (\A r \in Requests : Single(r))'
<1> SUFFICES ASSUME Executing, \A r \in Requests : Single(r), [Next]_vars,
                    NEW r \in Requests, Lone(r)'
             PROVE  Single(r)'
  BY DEF Single
<1>1. Lone(r) /\ Single(r) /\ failures' = failures
  BY LoneBefore
<1>2. ASSUME NEW o \in Requests, Resolve(o) PROVE Single(r)'
  <2>1. CASE o = r
    BY <1>1, <1>2, <2>1, ReplySingle, SendSingle DEF Resolve
  <2>2. CASE o # r /\ Send(o)
    <3>1. Untouched(r) /\ log' = log /\ \A p \in wire' : p \in wire \/ p.by = <<o, Current(o)>>
      BY <2>2, SendFacts DEF OnlyFor, Sent
    <3> QED
      BY <1>1, <2>2, <3>1, SingleKept
  <2>3. CASE o # r /\ (Finish(o) \/ GivesUp(o))
    <3>1. PICK result : Reply(o, result)
      BY <2>3 DEF Finish, GivesUp
    <3>2. UNCHANGED <<document, wire, log>>
      BY <2>3, EndFacts
    <3>3. Untouched(r)
      BY <2>3, <3>1, <3>2, ReplyFacts DEF OnlyFor
    <3> QED
      BY <1>1, <3>2, <3>3, SingleKept
  <2> QED
    BY <1>2, <2>1, <2>2, <2>3 DEF Resolve
<1>3. ASSUME NEW q \in wire, ServiceStep(q) PROVE Single(r)'
  BY <1>1, <1>3, ServeSingle
<1>4. ASSUME NEW o \in Requests, NEW q \in wire, Answer(o, q) PROVE Single(r)'
  <2>1. CASE o = r
    BY <1>1, <1>4, <2>1, AnswerSingle
  <2>2. CASE o # r
    <3>1. Untouched(r)
      BY <1>4, <2>2, AnswerSettles, SettlesSteady DEF OnlyFor
    <3>2. log' = log /\ wire' \subseteq wire
      BY <1>4 DEF Answer
    <3> QED
      BY <1>1, <3>1, <3>2, SingleKept
  <2> QED
    BY <2>1, <2>2
<1>5. \A o \in Requests, q \in wire : ~Fails(o, q)
  <2>1. failures' # failures + 1
    BY <1>1, FailureAssumption DEF Executing, Typed
  <2> QED
    BY <2>1 DEF Fails, Refuse, Lose, MayFail
<1>6. CASE UNCHANGED vars
  <2>1. Untouched(r) /\ log' = log /\ wire' = wire
    BY <1>6 DEF vars, Untouched, LogKept, Executing, Typed
  <2> QED
    BY <1>1, <2>1, SingleKept
<1> QED
  BY <1>2, <1>3, <1>4, <1>5, <1>6 DEF Next, ServiceStep, Serve, Fails

\* What the steps keep is what EditionSetIsSingle asks for.
LEMMA SingleIsEnough ==
  ASSUME Executing, \A r \in Requests : Single(r)
  PROVE  EditionSetIsSingle
<1> SUFFICES ASSUME NEW r \in Requests, Lone(r), NEW on
             PROVE  Cardinality(Of(on, Creates)) <= 1 + Cardinality(Of(on, Deletes))
  BY DEF EditionSetIsSingle, Lone, Of, Creates, Deletes
<1>1. Sets(on) \in {0, 1}
  BY DEF Single
<1>2. Cardinality(Of(on, Creates)) \in Nat /\ Cardinality(Of(on, Deletes)) \in Nat
  BY OfIsFinite DEF Executing
<1> QED
  BY <1>1, <1>2 DEF Sets

LEMMA SingleInit == Init => \A r \in Requests : Single(r)
<1> SUFFICES ASSUME Init, NEW on PROVE Sets(on) \in {0, 1}
  BY DEF Init, Single
<1>1. \A l : Of(on, l) = {}
  BY DEF Init, Of
<1>2. Cardinality({}) = 0
  BY FS_EmptySet
<1> QED
  BY <1>1, <1>2 DEF Sets

\* However many fields one document has, and whatever edition sets there were,
\* updates of artworks that all get their answers never leave an artwork with
\* two (src/src/schema/v2/me/myCollectionUpdateArtworkMutation.ts:275).
THEOREM NoSecondEditionSet == Spec => []EditionSetIsSingle
<1>1. Init => \A r \in Requests : Single(r)
  BY SingleInit
<1>2. Executing /\ (\A r \in Requests : Single(r)) /\ [Next]_vars => (\A r \in Requests : Single(r))'
  BY SingleNext
<1>3. Executing /\ (\A r \in Requests : Single(r)) => EditionSetIsSingle
  BY SingleIsEnough
<1> QED
  BY <1>1, <1>2, <1>3, ExecutionInvariance, PTL DEF Spec

=============================================================================
