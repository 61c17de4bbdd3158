------------------------ MODULE MutationsPlanProofs ------------------------
(***************************************************************************)
(* What the plans of Mutations have in common, for inputs of any size: the *)
(* facts about the order and the kind of the calls that the execution of a *)
(* field relies on.                                                        *)
(***************************************************************************)
EXTENDS Mutations, TLAPS, SequenceTheorems, FiniteSetTheorems

\* The loaders of the mutations: those of images, and all others.
Plain ==
  Reads \cup
   {"addArtworkToPartnerListLoader", "addArtworkToPartnerShowLoader",
    "addFeatureFlagStrategy", "addFeatureFlagVariant", "addSetItemLoader",
    "adminCreateFeatureFlag", "bulkAddArtworksToPartnerListLoader",
    "bulkDeleteArtworksFromPartnerListLoader", "conversationCreateMessageLoader",
    "createArtistLoader", "createArtworkEditionSetLoader",
    "createArtworkFromTemplateLoader", "createArtworkLoader",
    "createFeaturedLinkLoader", "createPartnerArtistLoader",
    "deleteArtworkEditionSetLoader", "deletePartnerShowLoader", "deleteSetItemLoader",
    "deleteShowLoader", "meCreateUserInterestLoader", "meDeleteUserInterestLoader",
    "meOrderSubmitLoader", "meUpdateCollectorProfileLoader",
    "meUpdateUserInterestLoader", "moveArtworksBetweenPartnerListsLoader",
    "publishNavigationDraftLoader", "publishNavigationVersionLoader",
    "removeArtworkFromPartnerListLoader", "repositionPartnerListArtworksLoader",
    "setDefaultArtworkImageLoader", "submitArtworkInquiryRequestLoader",
    "updateArtworkEditionSetLoader", "updateArtworkLoader",
    "updateCollectorProfileIconLoader", "updateMeLoader",
    "updatePartnerListArtworkLoader", "updatePartnerShowLoader", "updateShowLoader"}

Loaders == Plain \cup Images

CallsOn(on) == [loader : Loaders, on : {on}, item : Nat]

StagesOn(on) == [mode : Modes \cup {"thrown", "null"}, calls : SUBSET CallsOn(on)]

\* All calls of a plan.
CallsOf(plan) == UNION {plan[i].calls : i \in DOMAIN plan}

\* No call is made twice.
Once(plan) == \A i, j \in DOMAIN plan : i # j => plan[i].calls \cap plan[j].calls = {}

\* An image is sent after those before it were awaited.
Attached(plan) ==
  \A i \in DOMAIN plan : \A c \in plan[i].calls : c.loader \in Images =>
    \A n \in 1..(c.item - 1) : \E j \in 1..(i - 1) :
      /\ plan[j].mode # "log"
      /\ \E d \in plan[j].calls : d.loader \in Images /\ d.item = n

\* Failures are made light of, and calls are sent together, only where
\* NoLateWrites says so.
Quiet(plan, f) ==
  /\ f.kind \notin Lenient => \A i \in DOMAIN plan : plan[i].mode # "log"
  /\ OneByOne(f) => \A i \in DOMAIN plan : \A c, d \in plan[i].calls : c = d

Shape(plan, f) ==
  /\ plan \in Seq(StagesOn(f.on))
  /\ Stages(plan)
  /\ Once(plan)
  /\ f.kind \in ImageKinds => Attached(plan)

\* The plan does not give up, and no failure is only logged.
Firm(plan) == \A i \in DOMAIN plan : plan[i].calls # {} /\ plan[i].mode # "log"

-----------------------------------------------------------------------------
(* Building plans.                                                         *)

\* The stages of one plan, then those of another.
LEMMA Joined ==
  ASSUME NEW f, NEW p, NEW q, Shape(p, f), Shape(q, f), CallsOf(p) \cap CallsOf(q) = {}
  PROVE  /\ Shape(p \o q, f) /\ CallsOf(p \o q) = CallsOf(p) \cup CallsOf(q)
         /\ Quiet(p, f) /\ Quiet(q, f) => Quiet(p \o q, f)
         /\ Firm(p) /\ Firm(q) => Firm(p \o q)
<1> DEFINE pq == p \o q
<1>1. /\ p \in Seq(StagesOn(f.on)) /\ q \in Seq(StagesOn(f.on))
      /\ DOMAIN p = 1..Len(p) /\ DOMAIN q = 1..Len(q) /\ Len(p) \in Nat /\ Len(q) \in Nat
  BY DEF Shape
<1>2. /\ pq \in Seq(StagesOn(f.on)) /\ Len(pq) = Len(p) + Len(q) /\ DOMAIN pq = 1..Len(pq)
      /\ \A i \in 1..Len(p) : pq[i] = p[i]
      /\ \A i \in 1..Len(q) : pq[Len(p) + i] = q[i]
  BY <1>1
<1> HIDE DEF pq
<1>3. ASSUME NEW i \in DOMAIN pq
      PROVE  i \in DOMAIN p \/ (i - Len(p) \in DOMAIN q /\ i = Len(p) + (i - Len(p)))
  BY <1>1, <1>2
<1>4. Stages(pq)
  <2> SUFFICES ASSUME NEW i \in DOMAIN pq
               PROVE  pq[i].mode \in (IF pq[i].calls = {} THEN {"thrown", "payload", "null"}
                                      ELSE Modes)
    BY DEF Stages
  <2>1. CASE i \in DOMAIN p
    BY <1>1, <1>2, <2>1 DEF Shape, Stages
  <2>2. CASE i - Len(p) \in DOMAIN q /\ i = Len(p) + (i - Len(p))
    BY <1>1, <1>2, <2>2 DEF Shape, Stages
  <2> QED
    BY <1>3, <2>1, <2>2
<1>5. \A i \in DOMAIN p : pq[i].calls \subseteq CallsOf(p)
  BY <1>1, <1>2 DEF CallsOf
<1>6. \A i \in DOMAIN q : pq[Len(p) + i].calls \subseteq CallsOf(q)
  BY <1>1, <1>2 DEF CallsOf
<1>7. Once(pq)
  <2> SUFFICES ASSUME NEW i \in DOMAIN pq, NEW j \in DOMAIN pq, i # j
               PROVE  pq[i].calls \cap pq[j].calls = {}
    BY DEF Once
  <2>1. CASE i \in DOMAIN p /\ j \in DOMAIN p
    BY <1>1, <1>2, <2>1 DEF Shape, Once
  <2>2. CASE i \in DOMAIN p /\ j - Len(p) \in DOMAIN q /\ j = Len(p) + (j - Len(p))
    BY <1>5, <1>6, <2>2
  <2>3. CASE j \in DOMAIN p /\ i - Len(p) \in DOMAIN q /\ i = Len(p) + (i - Len(p))
    BY <1>5, <1>6, <2>3
  <2>4. CASE /\ i - Len(p) \in DOMAIN q /\ i = Len(p) + (i - Len(p))
             /\ j - Len(p) \in DOMAIN q /\ j = Len(p) + (j - Len(p))
    <3>1. i - Len(p) # j - Len(p)
      BY <2>4
    <3>2. pq[i] = q[i - Len(p)] /\ pq[j] = q[j - Len(p)]
      BY <1>1, <1>2, <2>4
    <3> QED
      BY <2>4, <3>1, <3>2 DEF Shape, Once
  <2> QED
    BY <1>3, <2>1, <2>2, <2>3, <2>4
<1>8. CallsOf(pq) = CallsOf(p) \cup CallsOf(q)
  <2>1. ASSUME NEW c \in CallsOf(pq) PROVE c \in CallsOf(p) \cup CallsOf(q)
    <3>1. PICK i \in DOMAIN pq : c \in pq[i].calls
      BY DEF CallsOf
    <3> QED
      BY <1>3, <1>5, <1>6, <3>1
  <2>2. ASSUME NEW c \in CallsOf(p) PROVE c \in CallsOf(pq)
    <3>1. PICK i \in DOMAIN p : c \in p[i].calls
      BY DEF CallsOf
    <3>2. i \in DOMAIN pq /\ c \in pq[i].calls
      BY <1>1, <1>2, <3>1
    <3> QED
      BY <3>2 DEF CallsOf
  <2>3. ASSUME NEW c \in CallsOf(q) PROVE c \in CallsOf(pq)
    <3>1. PICK i \in DOMAIN q : c \in q[i].calls
      BY DEF CallsOf
    <3>2. Len(p) + i \in DOMAIN pq /\ c \in pq[Len(p) + i].calls
      BY <1>1, <1>2, <3>1
    <3> QED
      BY <3>2 DEF CallsOf
  <2> QED
    BY <2>1, <2>2, <2>3
<1>9. ASSUME Attached(p), Attached(q) PROVE Attached(pq)
  <2> SUFFICES ASSUME NEW i \in DOMAIN pq, NEW c \in pq[i].calls, c.loader \in Images,
                      NEW n \in 1..(c.item - 1)
               PROVE  \E j \in 1..(i - 1) : /\ pq[j].mode # "log"
                                            /\ \E d \in pq[j].calls : d.loader \in Images /\ d.item = n
    BY DEF Attached
  <2>1. CASE i \in DOMAIN p
    <3>1. PICK j \in 1..(i - 1) : /\ p[j].mode # "log"
                                  /\ \E d \in p[j].calls : d.loader \in Images /\ d.item = n
      BY <1>1, <1>2, <1>9, <2>1 DEF Attached
    <3>2. j \in 1..Len(p)
      BY <1>1, <2>1
    <3>3. pq[j] = p[j]
      BY <1>2, <3>2
    <3> QED
      BY <3>1, <3>3
  <2>2. CASE i - Len(p) \in DOMAIN q /\ i = Len(p) + (i - Len(p))
    <3>1. pq[i] = q[i - Len(p)]
      BY <1>1, <1>2, <2>2
    <3>2. PICK j \in 1..(i - Len(p) - 1) :
            /\ q[j].mode # "log"
            /\ \E d \in q[j].calls : d.loader \in Images /\ d.item = n
      BY <1>9, <2>2, <3>1 DEF Attached
    <3>3. pq[Len(p) + j] = q[j] /\ Len(p) + j \in 1..(i - 1)
      BY <1>1, <1>2, <2>2, SMTT(20)
    <3> QED
      BY <3>2, <3>3
  <2> QED
    BY <1>3, <2>1, <2>2
<1>10. ASSUME Quiet(p, f), Quiet(q, f) PROVE Quiet(pq, f)
  <2> SUFFICES ASSUME NEW i \in DOMAIN pq
               PROVE  /\ f.kind \notin Lenient => pq[i].mode # "log"
                      /\ OneByOne(f) => \A c, d \in pq[i].calls : c = d
    BY DEF Quiet
  <2>1. CASE i \in DOMAIN p
    BY <1>1, <1>2, <1>10, <2>1 DEF Quiet
  <2>2. CASE i - Len(p) \in DOMAIN q /\ i = Len(p) + (i - Len(p))
    <3>1. pq[i] = q[i - Len(p)]
      BY <1>1, <1>2, <2>2
    <3> QED
      BY <1>10, <2>2, <3>1 DEF Quiet
  <2> QED
    BY <1>3, <2>1, <2>2
<1>11. ASSUME Firm(p), Firm(q) PROVE Firm(pq)
  <2> SUFFICES ASSUME NEW i \in DOMAIN pq PROVE pq[i].calls # {} /\ pq[i].mode # "log"
    BY DEF Firm
  <2>1. CASE i \in DOMAIN p
    BY <1>1, <1>2, <1>11, <2>1 DEF Firm
  <2>2. CASE i - Len(p) \in DOMAIN q /\ i = Len(p) + (i - Len(p))
    BY <1>1, <1>2, <1>11, <2>2 DEF Firm
  <2> QED
    BY <1>3, <2>1, <2>2
<1> QED
  BY <1>2, <1>4, <1>7, <1>8, <1>9, <1>10, <1>11 DEF Shape, pq

\* The plan without a stage.
LEMMA NoStage ==
  ASSUME NEW f
  PROVE  Shape(<<>>, f) /\ CallsOf(<<>>) = {} /\ Quiet(<<>>, f) /\ Firm(<<>>)
  BY DEF Shape, Stages, Once, Attached, Quiet, CallsOf, Firm

\* One stage.
LEMMA OneStage ==
  ASSUME NEW f, NEW mode \in Modes, NEW calls \in SUBSET CallsOn(f.on), calls # {},
         f.kind \in ImageKinds => \A c \in calls : c.loader \in Images => c.item = 1
  PROVE  LET stages == Stage(mode, calls)
         IN  /\ Shape(stages, f) /\ CallsOf(stages) = calls
             /\ mode # "log" => Firm(stages)
             /\ /\ f.kind \in Lenient \/ mode # "log"
                /\ OneByOne(f) => \A c, d \in calls : c = d
                => Quiet(stages, f)
<1> DEFINE stages == Stage(mode, calls)
<1>1. /\ stages \in Seq(StagesOn(f.on)) /\ DOMAIN stages = {1}
      /\ stages[1] = [mode |-> mode, calls |-> calls]
  BY DEF Stage, StagesOn
<1> HIDE DEF stages
<1>2. Once(stages) /\ Stages(stages)
  BY <1>1 DEF Once, Stages
<1>3. f.kind \in ImageKinds => Attached(stages)
  BY <1>1 DEF Attached
<1>4. /\ f.kind \in Lenient \/ mode # "log"
      /\ OneByOne(f) => \A c, d \in calls : c = d
      => Quiet(stages, f)
  BY <1>1 DEF Quiet
<1>5. CallsOf(stages) = calls /\ (mode # "log" => Firm(stages))
  BY <1>1 DEF CallsOf, Firm
<1> QED
  BY <1>1, <1>2, <1>3, <1>4, <1>5 DEF Shape, stages

\* The stage without calls, at which the resolver gives up.
LEMMA GivenUp ==
  ASSUME NEW f, NEW result \in {"thrown", "payload", "null"}
  PROVE  LET stages == GiveUp(result)
         IN  Shape(stages, f) /\ CallsOf(stages) = {} /\ Quiet(stages, f)
<1>1. /\ GiveUp(result) \in Seq(StagesOn(f.on)) /\ DOMAIN GiveUp(result) = {1}
      /\ GiveUp(result)[1] = [mode |-> result, calls |-> {}]
  BY DEF GiveUp, Stage, StagesOn, Modes
<1> QED
  BY <1>1 DEF Shape, Stages, Once, Attached, Quiet, CallsOf

LEMMA PlainLoaders == Reads \subseteq Plain /\ Plain \subseteq Loaders /\ Plain \cap Images = {}
<1>1. Reads \cap Images = {}
  BY DEF Reads, Images
<1> QED
  BY <1>1 DEF Plain, Loaders, Images

\* One awaited call.
LEMMA AwaitPlan ==
  ASSUME NEW f, NEW loader \in Plain
  PROVE  LET stages == Await(loader, f)
         IN  /\ Shape(stages, f) /\ CallsOf(stages) = {Call(loader, f.on, 0)}
             /\ Quiet(stages, f) /\ Firm(stages)
<1>1. {Call(loader, f.on, 0)} \in SUBSET CallsOn(f.on)
  BY PlainLoaders DEF Call, CallsOn
<1>2. Call(loader, f.on, 0).loader \notin Images
  BY PlainLoaders DEF Call
<1> QED
  BY <1>1, <1>2, OneStage DEF Await, Modes

\* Calls that are sent together.
LEMMA AwaitAllPlan ==
  ASSUME NEW f, NEW g, f.on = g.on, g.items \in Nat, NEW loader \in Loaders,
         f.kind \in ImageKinds => loader \notin Images
  PROVE  LET stages == AwaitAll(loader, g)
         IN  /\ Shape(stages, f) /\ Firm(stages)
             /\ CallsOf(stages) = {Call(loader, f.on, i) : i \in 1..g.items}
             /\ ~OneByOne(f) => Quiet(stages, f)
<1> DEFINE calls == {Call(loader, f.on, i) : i \in 1..g.items}
<1>1. calls \in SUBSET CallsOn(f.on) /\ \A c \in calls : c.loader = loader
  BY DEF Call, CallsOn
<1>2. CASE g.items = 0
  BY <1>2, NoStage DEF AwaitAll
<1>3. CASE g.items # 0
  <2>1. AwaitAll(loader, g) = Stage("try", calls) /\ calls # {}
    BY <1>3 DEF AwaitAll
  <2> HIDE DEF calls
  <2>2. Shape(Stage("try", calls), f) /\ CallsOf(Stage("try", calls)) = calls
        /\ Firm(Stage("try", calls)) /\ (~OneByOne(f) => Quiet(Stage("try", calls), f))
    BY <1>1, <2>1, OneStage DEF Modes
  <2> QED
    BY <2>1, <2>2 DEF calls
<1> QED
  BY <1>2, <1>3

\* Calls that are sent one after the other.
LEMMA AwaitEachPlan ==
  ASSUME NEW f, NEW loader \in Loaders, f.kind \in ImageKinds => loader \in Images,
         NEW items \in Nat
  PROVE  LET stages == AwaitEach(loader, f, items)
         IN  /\ Shape(stages, f) /\ Quiet(stages, f) /\ Firm(stages)
             /\ CallsOf(stages) = {Call(loader, f.on, i) : i \in 1..items}
<1> DEFINE stages == AwaitEach(loader, f, items)
<1>1. \A i \in 1..items : Call(loader, f.on, i) \in CallsOn(f.on)
  BY DEF Call, CallsOn, Loaders
<1>2. /\ stages \in Seq(StagesOn(f.on)) /\ DOMAIN stages = 1..items
      /\ \A i \in 1..items : stages[i] = [mode |-> "try", calls |-> {Call(loader, f.on, i)}]
  BY <1>1 DEF AwaitEach, StagesOn, Modes
<1> HIDE DEF stages
<1>3. \A i \in 1..items : Call(loader, f.on, i).item = i /\ Call(loader, f.on, i).loader = loader
  BY DEF Call
<1>4. Once(stages) /\ Stages(stages)
  <2>1. Once(stages)
    BY <1>2, <1>3 DEF Once
  <2>2. ASSUME NEW i \in DOMAIN stages PROVE stages[i].mode = "try" /\ stages[i].calls # {}
    <3>1. stages[i] = [mode |-> "try", calls |-> {Call(loader, f.on, i)}]
      BY <1>2
    <3> QED
      BY <3>1
  <2>3. Stages(stages)
    BY <2>2 DEF Stages, Modes
  <2> QED
    BY <2>1, <2>3
<1>5. f.kind \in ImageKinds => Attached(stages)
  <2> SUFFICES ASSUME loader \in Images, NEW i \in DOMAIN stages, NEW c \in stages[i].calls, NEW n \in 1..(c.item - 1)
               PROVE  \E j \in 1..(i - 1) : /\ stages[j].mode # "log"
                                            /\ \E d \in stages[j].calls : d.loader \in Images /\ d.item = n
    BY DEF Attached
  <2>1. n \in 1..(i - 1) /\ n \in 1..items
    BY <1>2, <1>3
  <2> QED
    BY <1>2, <1>3, <2>1
<1>6. Quiet(stages, f) /\ Firm(stages)
  <2> SUFFICES ASSUME NEW i \in DOMAIN stages
               PROVE  stages[i].mode = "try" /\ \E c : stages[i].calls = {c}
    BY DEF Quiet, Firm
  <2>1. stages[i] = [mode |-> "try", calls |-> {Call(loader, f.on, i)}]
    BY <1>2
  <2> QED
    BY <2>1
<1>7. CallsOf(stages) = {Call(loader, f.on, i) : i \in 1..items}
  BY <1>2 DEF CallsOf
<1> QED
  BY <1>2, <1>4, <1>5, <1>6, <1>7 DEF Shape, stages

LEMMA BareStage ==
  ASSUME NEW M, NEW C, NEW x \in [mode : M, calls : C]
  PROVE  [x EXCEPT !.mode = "bare"] = [mode |-> "bare", calls |-> x.calls] /\ x.calls \in C
  OBVIOUS

\* The same stages outside of try.
LEMMA UnguardedPlan ==
  ASSUME NEW f, NEW p, Shape(p, f), Firm(p)
  PROVE  LET stages == Unguarded(p)
         IN  /\ Shape(stages, f) /\ (Quiet(p, f) => Quiet(stages, f)) /\ Firm(stages)
             /\ CallsOf(stages) = CallsOf(p)
<1> DEFINE stages == Unguarded(p)
<1>1. p \in Seq(StagesOn(f.on)) /\ DOMAIN p = 1..Len(p) /\ Len(p) \in Nat
  BY DEF Shape
<1>2. ASSUME NEW i \in DOMAIN p
      PROVE  /\ [p[i] EXCEPT !.mode = "bare"] = [mode |-> "bare", calls |-> p[i].calls]
             /\ p[i].calls \in SUBSET CallsOn(f.on)
  <2>1. p[i] \in StagesOn(f.on)
    BY <1>1
  <2> QED
    BY <2>1, BareStage DEF StagesOn
<1>3. \A i \in DOMAIN p : [mode |-> "bare", calls |-> p[i].calls] \in StagesOn(f.on)
  BY <1>2 DEF StagesOn, Modes
<1>4. /\ stages \in Seq(StagesOn(f.on)) /\ DOMAIN stages = DOMAIN p
      /\ \A i \in DOMAIN p : stages[i] = [mode |-> "bare", calls |-> p[i].calls]
  <2>1. stages = [i \in 1..Len(p) |-> [mode |-> "bare", calls |-> p[i].calls]]
    BY <1>1, <1>2 DEF Unguarded
  <2>2. stages \in [1..Len(p) -> StagesOn(f.on)]
    BY <1>1, <1>3, <2>1
  <2> HIDE DEF stages
  <2> QED
    BY <1>1, <2>1, <2>2
<1> HIDE DEF stages
<1>5. Once(stages) /\ Stages(stages)
  BY <1>4 DEF Shape, Firm, Once, Stages, Modes
<1>6. Attached(p) => Attached(stages)
  <2> SUFFICES ASSUME Attached(p), NEW i \in DOMAIN stages, NEW c \in stages[i].calls,
                      c.loader \in Images, NEW n \in 1..(c.item - 1)
               PROVE  \E j \in 1..(i - 1) : /\ stages[j].mode # "log"
                                            /\ \E d \in stages[j].calls : d.loader \in Images /\ d.item = n
    BY DEF Attached
  <2>1. PICK j \in 1..(i - 1) : \E d \in p[j].calls : d.loader \in Images /\ d.item = n
    BY <1>4 DEF Attached
  <2>2. j \in DOMAIN p
    BY <1>1, <1>4
  <2> QED
    BY <1>4, <2>1, <2>2
<1>7. (Quiet(p, f) => Quiet(stages, f)) /\ Firm(stages) /\ CallsOf(stages) = CallsOf(p)
  BY <1>4 DEF Quiet, Firm, CallsOf
<1> QED
  BY <1>4, <1>5, <1>6, <1>7 DEF Shape, stages

\* Stages that an option of the input asks for.
LEMMA WhenPlan ==
  ASSUME NEW f, NEW opt, NEW p, Shape(p, f)
  PROVE  LET stages == When(opt, f, p)
         IN  /\ Shape(stages, f) /\ (Quiet(p, f) => Quiet(stages, f)) /\ (Firm(p) => Firm(stages))
             /\ CallsOf(stages) = IF opt \in f.opts THEN CallsOf(p) ELSE {}
<1>1. CASE opt \in f.opts
  BY <1>1 DEF When
<1>2. CASE opt \notin f.opts
  BY <1>2, NoStage DEF When
<1> QED
  BY <1>1, <1>2

\* A plan of awaited calls that does not give up, and the calls it makes.
Makes(plan, f, calls) == /\ Shape(plan, f) /\ Quiet(plan, f) /\ Firm(plan)
                         /\ CallsOf(plan) = calls

LEMMA Then ==
  ASSUME NEW f, NEW p, NEW q, NEW a, NEW b, Makes(p, f, a), Makes(q, f, b), a \cap b = {}
  PROVE  Makes(p \o q, f, a \cup b)
<1>1. Shape(p, f) /\ Shape(q, f) /\ CallsOf(p) \cap CallsOf(q) = {}
  BY DEF Makes
<1>2. Shape(p \o q, f)
  BY <1>1, Joined
<1>3. CallsOf(p \o q) = CallsOf(p) \cup CallsOf(q)
  BY <1>1, Joined
<1>4. Quiet(p \o q, f)
  BY <1>1, Joined DEF Makes
<1>5. Firm(p \o q)
  BY <1>1, Joined DEF Makes
<1> QED
  BY <1>2, <1>3, <1>4, <1>5 DEF Makes

LEMMA Awaits ==
  ASSUME NEW f, NEW loader \in Plain
  PROVE  Makes(Await(loader, f), f, {Call(loader, f.on, 0)})
  BY AwaitPlan DEF Makes

\* The call of a loader if an option asks for it.
CallIf(opt, loader, f) == IF opt \in f.opts THEN {Call(loader, f.on, 0)} ELSE {}

LEMMA AwaitsWhen ==
  ASSUME NEW f, NEW opt, NEW loader \in Plain
  PROVE  Makes(When(opt, f, Await(loader, f)), f, CallIf(opt, loader, f))
<1> DEFINE p == Await(loader, f)
<1>1. Makes(p, f, {Call(loader, f.on, 0)})
  BY Awaits
<1> HIDE DEF p
<1>2. Shape(When(opt, f, p), f) /\ Quiet(When(opt, f, p), f) /\ Firm(When(opt, f, p))
  BY <1>1, WhenPlan DEF Makes
<1>3. CallsOf(When(opt, f, p)) = CallIf(opt, loader, f)
  BY <1>1, WhenPlan DEF Makes, CallIf
<1> QED
  BY <1>2, <1>3 DEF Makes, p

LEMMA OtherLoader ==
  ASSUME NEW on, NEW a, NEW b, a # b, NEW i, NEW j
  PROVE  Call(a, on, i) # Call(b, on, j)
  BY DEF Call

LEMMA TwoCalls ==
  ASSUME NEW f, NEW a \in Plain, NEW b \in Plain, a # b
  PROVE  Makes(Await(a, f) \o Await(b, f), f, {Call(a, f.on, 0)} \cup {Call(b, f.on, 0)})
<1>1. Makes(Await(a, f), f, {Call(a, f.on, 0)}) /\ Makes(Await(b, f), f, {Call(b, f.on, 0)})
  BY Awaits
<1>2. {Call(a, f.on, 0)} \cap {Call(b, f.on, 0)} = {}
  BY OtherLoader
<1> QED
  BY <1>1, <1>2, Then

LEMMA CallAndMore ==
  ASSUME NEW f, NEW a \in Plain, NEW b \in Plain, a # b, NEW opt
  PROVE  Makes(Await(a, f) \o When(opt, f, Await(b, f)), f,
               {Call(a, f.on, 0)} \cup CallIf(opt, b, f))
<1>1. /\ Makes(Await(a, f), f, {Call(a, f.on, 0)})
      /\ Makes(When(opt, f, Await(b, f)), f, CallIf(opt, b, f))
  BY Awaits, AwaitsWhen
<1>2. {Call(a, f.on, 0)} \cap CallIf(opt, b, f) = {}
  BY OtherLoader DEF CallIf
<1> QED
  BY <1>1, <1>2, Then

\* Images one by one.
LEMMA ImagesEach ==
  ASSUME NEW f, NEW loader \in Images, NEW items \in Nat
  PROVE  Makes(AwaitEach(loader, f, items), f, {Call(loader, f.on, i) : i \in 1..items})
<1> DEFINE p == AwaitEach(loader, f, items)
           calls == {Call(loader, f.on, i) : i \in 1..items}
<1> USE DEF Loaders
<1>1. Shape(p, f) /\ Quiet(p, f) /\ Firm(p)
  BY AwaitEachPlan
<1>2. CallsOf(p) = calls
  BY AwaitEachPlan
<1> HIDE DEF p, calls
<1>3. Makes(p, f, calls)
  BY <1>1, <1>2 DEF Makes
<1> QED
  BY <1>3 DEF p, calls

\* Calls that are sent together, in a mutation that may.
LEMMA AllAtOnce ==
  ASSUME NEW f, f.kind \in Together, f.kind \notin ImageKinds, NEW loader \in Loaders,
         NEW items \in Nat, f.items = items
  PROVE  Makes(AwaitAll(loader, f), f, {Call(loader, f.on, i) : i \in 1..items})
<1> DEFINE p == AwaitAll(loader, f)
           calls == {Call(loader, f.on, i) : i \in 1..items}
<1>1. Shape(p, f) /\ Quiet(p, f) /\ Firm(p)
  BY AwaitAllPlan DEF OneByOne
<1>2. CallsOf(p) = calls
  BY AwaitAllPlan
<1> HIDE DEF p, calls
<1>3. Makes(p, f, calls)
  BY <1>1, <1>2 DEF Makes
<1> QED
  BY <1>3 DEF p, calls

\* Two calls that are sent together.
LEMMA PairAtOnce ==
  ASSUME NEW f \in MutationFields, NEW loader \in Plain, NEW opt
  PROVE  LET stages == AwaitAll(loader, [f EXCEPT !.items = 2])
         IN  /\ Shape(stages, f) /\ Firm(stages) /\ (~OneByOne(f) => Quiet(stages, f))
             /\ CallsOf(stages) = {Call(loader, f.on, 1), Call(loader, f.on, 2)}
<1> DEFINE g == [f EXCEPT !.items = 2]
           p == AwaitAll(loader, g)
<1>1. g.on = f.on /\ g.items = 2
  BY DEF MutationFields
<1> HIDE DEF g
<1>2. loader \in Loaders /\ loader \notin Images
  BY PlainLoaders
<1>3. Shape(p, f) /\ Firm(p) /\ (~OneByOne(f) => Quiet(p, f))
  BY <1>1, <1>2, AwaitAllPlan
<1>4. CallsOf(p) = {Call(loader, f.on, i) : i \in 1..2}
  <2>1. 2 \in Nat
    OBVIOUS
  <2> QED
    BY <1>1, <1>2, <2>1, AwaitAllPlan
<1>5. {Call(loader, f.on, i) : i \in 1..2} = {Call(loader, f.on, 1), Call(loader, f.on, 2)}
  <2>1. \A i \in 1..2 : i = 1 \/ i = 2
    OBVIOUS
  <2> QED
    BY <2>1
<1> QED
  BY <1>3, <1>4, <1>5 DEF p, g

-----------------------------------------------------------------------------
(* What plans deliver.                                                     *)

\* A field of a document.
AField(f) ==
  /\ f \in MutationFields
  /\ f.opts \in Options(f.kind)
  /\ f.kind \notin ItemKinds => f.items = 0
  /\ "foreignUrl" \in f.opts /\ f.kind \in ItemKinds => f.items > 0

\* How many images its plan attaches.
LEMMA RecognisedType ==
  ASSUME NEW f, AField(f), f.kind \in ItemKinds
  PROVE  Recognised(f.items, f) \in Nat
<1>1. f.items \in Nat
  BY DEF AField, MutationFields
<1> QED
  BY <1>1 DEF AField, Recognised

LEMMA AllRecognised ==
  ASSUME NEW f, "foreignUrl" \notin f.opts
  PROVE  Granted(f) = f.opts /\ \A n : Recognised(n, f) = n
  BY DEF Granted, Recognised

\* The writes C are what SuccessMeansDone asks for.
Fulfilled(C, f) ==
  /\ C # {}
  /\ {c.item : c \in {d \in C : d.loader \in Images}} = 1..Recognised(f.items, f)
  /\ \A opt \in Granted(f) :
       Cardinality({c \in C : c.loader \in Asked(opt).by}) = Asked(opt).times

Writes(calls) == {c \in calls : c.loader \notin Reads}

\* No stage gives up.
Filled(plan) == \A i \in DOMAIN plan : plan[i].calls # {}

\* The calls whose failure is noticed.
Lasting(plan) == UNION {plan[i].calls : i \in {j \in DOMAIN plan : plan[j].mode # "log"}}

\* Whatever else is missing, a plan that is carried out does what it was asked.
Delivers(plan, f) ==
  Filled(plan) /\ f.kind \notin BestEffort =>
    \A C : Writes(Lasting(plan)) \subseteq C /\ C \subseteq Writes(CallsOf(plan)) => Fulfilled(C, f)

RereadKinds == ListKinds \cup {"myCollectionCreateArtwork", "myCollectionUpdateArtwork"}

\* The plan ends with its only read, which nothing accompanies.
Rereads(plan) ==
  /\ \A i \in DOMAIN plan : plan[i].mode # "log"
  /\ \A i, j \in DOMAIN plan : \A c \in plan[i].calls, d \in plan[j].calls :
       c.loader \in Reads /\ (i = j \/ d.loader \in Reads) => c = d
  /\ Filled(plan) => plan # <<>> /\ \E c \in plan[Len(plan)].calls : c.loader \in Reads

Good(plan, f) ==
  Shape(plan, f) /\ Quiet(plan, f) /\ Delivers(plan, f)
  /\ (f.kind \in RereadKinds => Rereads(plan))

LEMMA FirmDelivers ==
  ASSUME NEW f, NEW p, NEW calls, Makes(p, f, calls), Fulfilled(Writes(calls), f)
  PROVE  Shape(p, f) /\ Quiet(p, f) /\ Delivers(p, f)
<1>1. \A j \in DOMAIN p : p[j].mode # "log"
  BY DEF Makes, Firm
<1>2. Lasting(p) = calls /\ CallsOf(p) = calls
  BY <1>1 DEF Makes, Lasting, CallsOf
<1> QED
  BY <1>2 DEF Makes, Delivers

LEMMA GiveUpGood ==
  ASSUME NEW f, NEW result \in {"thrown", "payload", "null"}
  PROVE  Good(GiveUp(result), f)
<1> DEFINE p == GiveUp(result)
<1>1. Shape(p, f) /\ Quiet(p, f)
  BY GivenUp
<1>2. DOMAIN p = {1} /\ p[1] = [mode |-> result, calls |-> {}]
  BY DEF GiveUp, Stage
<1> HIDE DEF p
<1>3. ~Filled(p) /\ Rereads(p)
  BY <1>2 DEF Filled, Rereads
<1> QED
  BY <1>1, <1>3 DEF Good, Delivers, p

\* The read after the writes.
LEMMA ThenRead ==
  ASSUME NEW f, NEW p, NEW calls, Makes(p, f, calls), \A c \in calls : c.loader \notin Reads,
         NEW loader \in Reads
  PROVE  /\ Makes(p \o Await(loader, f), f, calls \cup {Call(loader, f.on, 0)})
         /\ Writes(calls \cup {Call(loader, f.on, 0)}) = calls
         /\ Rereads(p \o Await(loader, f))
<1> DEFINE read == Call(loader, f.on, 0)
           q == Await(loader, f)
           pq == p \o q
<1>1. loader \in Plain
  BY PlainLoaders
<1>2. read.loader = loader /\ read \notin calls
  BY DEF Call
<1>3. Makes(q, f, {read})
  BY <1>1, Awaits
<1>4. q = <<[mode |-> "try", calls |-> {read}]>>
  BY DEF Await, Stage
<1> HIDE DEF read, q
<1>5. Makes(pq, f, calls \cup {read})
  BY <1>2, <1>3, Then
<1>6. Writes(calls \cup {read}) = calls
  BY <1>2 DEF Writes
<1>7. Rereads(pq)
  <2>1. p \in Seq(StagesOn(f.on)) /\ \A i \in DOMAIN p : p[i].calls \subseteq calls /\ p[i].mode # "log"
    BY DEF Makes, Shape, Firm, CallsOf
  <2>2. q \in Seq(StagesOn(f.on))
    BY <1>3 DEF Makes, Shape
  <2>3. /\ DOMAIN pq = 1..(Len(p) + 1) /\ Len(pq) = Len(p) + 1 /\ Len(p) \in Nat
        /\ \A i \in 1..Len(p) : pq[i] = p[i] /\ i \in DOMAIN p
        /\ pq[Len(p) + 1] = [mode |-> "try", calls |-> {read}]
    BY <1>4, <2>1, <2>2
  <2> HIDE DEF pq
  <2>4. \A i \in DOMAIN pq : pq[i].mode # "log" /\ \A c \in pq[i].calls : c.loader \in Reads => i = Len(p) + 1
    BY <2>1, <2>3
  <2>5. pq # <<>> /\ \E c \in pq[Len(pq)].calls : c.loader \in Reads
    BY <1>2, <2>3
  <2>6. ASSUME NEW i \in DOMAIN pq, NEW j \in DOMAIN pq, NEW c \in pq[i].calls, NEW d \in pq[j].calls,
               c.loader \in Reads, i = j \/ d.loader \in Reads
        PROVE  c = d
    BY <2>3, <2>4, <2>6
  <2> QED
    BY <2>4, <2>5, <2>6 DEF Rereads
<1> QED
  BY <1>5, <1>6, <1>7 DEF read, q

\* Counting the writes an option asks for.
LEMMA OneWrite ==
  ASSUME NEW C, NEW L, NEW c \in C, c.loader \in L, \A d \in C : d.loader \in L => d = c
  PROVE  Cardinality({d \in C : d.loader \in L}) = 1
<1>1. {d \in C : d.loader \in L} = {c}
  OBVIOUS
<1> QED
  BY <1>1, FS_Singleton

LEMMA OneMore ==
  ASSUME NEW S, NEW x, IsFiniteSet(S), x \notin S, NEW n \in Nat, Cardinality(S) = n, NEW T, T = S \cup {x}
  PROVE  IsFiniteSet(T) /\ Cardinality(T) = n + 1
  BY FS_AddElement

LEMMA TwoWrites ==
  ASSUME NEW C, NEW L, NEW c \in C, NEW d \in C, c # d, c.loader \in L, d.loader \in L,
         \A e \in C : e.loader \in L => e \in {c, d}
  PROVE  Cardinality({e \in C : e.loader \in L}) = 2
<1> DEFINE S == {c}
           T == {e \in C : e.loader \in L}
<1>1. T = S \cup {d} /\ d \notin S
  OBVIOUS
<1>2. IsFiniteSet(S) /\ Cardinality(S) = 1
  BY FS_Singleton
<1> HIDE DEF S, T
<1>3. Cardinality(T) = 1 + 1
  BY <1>1, <1>2, OneMore
<1> QED
  BY <1>3 DEF T

LEMMA ThreeWrites ==
  ASSUME NEW C, NEW L, NEW c \in C, NEW d \in C, NEW e \in C, c # d, c # e, d # e,
         c.loader \in L, d.loader \in L, e.loader \in L,
         \A x \in C : x.loader \in L => x \in {c, d, e}
  PROVE  Cardinality({x \in C : x.loader \in L}) = 3
<1> DEFINE S == {c}
           T == {c, d}
           U == {x \in C : x.loader \in L}
<1>1. T = S \cup {d} /\ d \notin S
  OBVIOUS
<1>2. U = T \cup {e} /\ e \notin T
  OBVIOUS
<1>3. IsFiniteSet(S) /\ Cardinality(S) = 1
  BY FS_Singleton
<1> HIDE DEF S, T, U
<1>4. IsFiniteSet(T) /\ Cardinality(T) = 1 + 1
  BY <1>1, <1>3, OneMore
<1>5. Cardinality(U) = 2 + 1
  BY <1>2, <1>4, OneMore
<1> QED
  BY <1>5 DEF U

\* What an option asks for is among the writes C as often as it asks.
Served(opt, C) == Cardinality({c \in C : c.loader \in Asked(opt).by}) = Asked(opt).times

LEMMA ServedOnce ==
  ASSUME NEW C, NEW opt, NEW L, Asked(opt) = [by |-> L, times |-> 1],
         NEW c \in C, c.loader \in L, \A d \in C : d.loader \in L => d = c
  PROVE  Served(opt, C)
<1>1. Asked(opt).by = L /\ Asked(opt).times = 1
  OBVIOUS
<1> QED
  BY <1>1, OneWrite DEF Served

LEMMA NotAsked ==
  ASSUME NEW C, NEW opt, Asked(opt) = [by |-> {}, times |-> 0]
  PROVE  Served(opt, C)
<1>1. Asked(opt).by = {} /\ Asked(opt).times = 0
  OBVIOUS
<1>2. {d \in C : d.loader \in {}} = {}
  OBVIOUS
<1> QED
  BY <1>1, <1>2, FS_EmptySet DEF Served

LEMMA NoImages ==
  ASSUME NEW f, f.items = 0, NEW C, \A d \in C : d.loader \notin Images
  PROVE  {c.item : c \in {d \in C : d.loader \in Images}} = 1..Recognised(f.items, f)
<1>1. 1..Recognised(f.items, f) = {}
  BY DEF Recognised
<1> QED
  BY <1>1

LEMMA AllImages ==
  ASSUME NEW f, NEW items \in Nat, Recognised(f.items, f) = items, NEW loader \in Images, NEW C,
         {Call(loader, f.on, i) : i \in 1..items} \subseteq C,
         \A d \in C : d.loader \in Images => d \in {Call(loader, f.on, i) : i \in 1..items}
  PROVE  {c.item : c \in {d \in C : d.loader \in Images}} = 1..Recognised(f.items, f)
<1> DEFINE D == {d \in C : d.loader \in Images}
<1>1. ASSUME NEW i \in 1..items PROVE i \in {c.item : c \in D}
  <2>1. Call(loader, f.on, i) \in D /\ Call(loader, f.on, i).item = i
    BY DEF Call
  <2> HIDE DEF D
  <2> QED
    BY <2>1
<1>2. ASSUME NEW c \in D PROVE c.item \in 1..items
  BY DEF Call
<1> HIDE DEF D
<1>3. {c.item : c \in D} = 1..items
  BY <1>1, <1>2
<1> QED
  BY <1>3 DEF D

-----------------------------------------------------------------------------
(* The plans of the kinds.                                                 *)

\* Nothing is asked for besides, and nothing depends on the number of items.
LEMMA Simple ==
  ASSUME NEW f, f.opts = {}, f.items = 0, NEW C, NEW c \in C, \A d \in C : d.loader \notin Images
  PROVE  Fulfilled(C, f)
  BY NoImages DEF Fulfilled, Granted

LEMMA ListField ==
  ASSUME NEW f, AField(f), f.kind \in ListKinds \cup {"sendConversationMessage"}
  PROVE  f.opts = {} /\ f.items = 0
<1>1. f.kind \notin ItemKinds
  BY DEF ListKinds, ItemKinds, ImageKinds
<1>2. Options(f.kind) = {{}}
  BY DEF Options, ListKinds
<1> QED
  BY <1>1, <1>2 DEF AField

LEMMA WriteAndRead ==
  ASSUME NEW f, AField(f), f.kind \in ListKinds \cup {"sendConversationMessage"},
         NEW a \in Plain, a \notin Reads, NEW b \in Reads
  PROVE  /\ Good(Await(a, f) \o Await(b, f), f)
         /\ Good(Unguarded(Await(a, f) \o Await(b, f)), f)
<1> DEFINE write == {Call(a, f.on, 0)}
           both == write \cup {Call(b, f.on, 0)}
           p == Await(a, f) \o Await(b, f)
           q == Unguarded(p)
<1>1. Makes(Await(a, f), f, write)
  BY Awaits
<1>2. \A c \in write : c.loader \notin Reads /\ c.loader \notin Images
  BY PlainLoaders DEF Call
<1>3. Makes(p, f, both) /\ Writes(both) = write /\ Rereads(p)
  BY <1>1, <1>2, ThenRead
<1>4. Fulfilled(write, f)
  BY <1>2, ListField, Simple
<1> HIDE DEF p, both, write
<1>5. Shape(q, f) /\ Quiet(q, f) /\ Firm(q) /\ CallsOf(q) = both
  BY <1>3, UnguardedPlan DEF Makes
<1>6. Makes(q, f, both)
  BY <1>5 DEF Makes
<1>7. Rereads(q)
  <2>1. p \in Seq(StagesOn(f.on))
    BY <1>3 DEF Makes, Shape
  <2>2. DOMAIN q = DOMAIN p /\ Len(q) = Len(p) /\ (p # <<>> => q # <<>>)
    BY <2>1, <1>5 DEF Shape, Unguarded
  <2>3. ASSUME NEW i \in DOMAIN p PROVE q[i].mode = "bare" /\ q[i].calls = p[i].calls
    <3>1. p[i] \in StagesOn(f.on)
      BY <2>1
    <3>2. q[i] = [mode |-> "bare", calls |-> p[i].calls]
      BY <3>1, BareStage DEF Unguarded, StagesOn
    <3> QED
      BY <3>2
  <2>4. Filled(p)
    BY <1>3 DEF Makes, Firm, Filled
  <2> QED
    BY <1>3, <2>1, <2>2, <2>3, <2>4 DEF Rereads
<1>8. Good(p, f)
  BY <1>3, <1>4, FirmDelivers DEF Good
<1>9. Good(q, f)
  BY <1>3, <1>4, <1>6, <1>7, FirmDelivers DEF Good
<1> QED
  BY <1>8, <1>9 DEF p

LEMMA UpdateArtworkGood ==
  ASSUME NEW f, AField(f), f.kind = "updateArtwork" PROVE Good(UpdateArtwork(f), f)
<1>1. PICK items \in Nat : f.items = items
  BY DEF AField, MutationFields
<1>0. "foreignUrl" \notin f.opts /\ Recognised(f.items, f) = items
  <2>1. "foreignUrl" \notin f.opts
    BY DEF AField, Options
  <2> QED
    BY <1>1, <2>1, AllRecognised
<1> DEFINE p1 == AwaitEach("addImageToArtworkLoader", f, f.items)
           p2 == When("defaultImage", f, Await("setDefaultArtworkImageLoader", f))
           three == {Call("updateArtworkEditionSetLoader", f.on, 1),
                     Call("deleteArtworkEditionSetLoader", f.on, 2),
                     Call("createArtworkEditionSetLoader", f.on, 3)}
           p3 == When("editionSets", f, Stage("try", three))
           p4 == Await("updateArtworkLoader", f)
           c1 == {Call("addImageToArtworkLoader", f.on, i) : i \in 1..items}
           c2 == CallIf("defaultImage", "setDefaultArtworkImageLoader", f)
           c3 == IF "editionSets" \in f.opts THEN three ELSE {}
           c4 == {Call("updateArtworkLoader", f.on, 0)}
           C == ((c1 \cup c2) \cup c3) \cup c4
<1>2. Makes(p1, f, c1)
  BY <1>1, ImagesEach DEF Images
<1>3. Makes(p2, f, c2)
  BY AwaitsWhen DEF Plain
<1>4. Makes(p3, f, c3)
  <2>1. CASE "editionSets" \in f.opts
    <3>1. three \in SUBSET CallsOn(f.on) /\ three # {} /\ \A c \in three : c.loader \notin Images
      BY DEF Call, CallsOn, Loaders, Plain, Images
    <3> HIDE DEF three
    <3>2. ~OneByOne(f)
      BY <2>1 DEF OneByOne
    <3>3. /\ Shape(Stage("try", three), f) /\ CallsOf(Stage("try", three)) = three
          /\ Firm(Stage("try", three)) /\ Quiet(Stage("try", three), f)
      BY <3>1, <3>2, OneStage DEF Modes
    <3> QED
      BY <2>1, <3>3 DEF Makes, When
  <2>2. CASE "editionSets" \notin f.opts
    BY <2>2, NoStage DEF Makes, When
  <2> QED
    BY <2>1, <2>2
<1>5. Makes(p4, f, c4)
  BY Awaits DEF Plain
<1>6. c1 \cap c2 = {} /\ (c1 \cup c2) \cap c3 = {} /\ ((c1 \cup c2) \cup c3) \cap c4 = {}
  BY DEF Call, CallIf
<1>7. UpdateArtwork(f) = p1 \o p2 \o p3 \o p4
  BY DEF UpdateArtwork
<1>8. Fulfilled(Writes(C), f)
  <2>1. \A c \in C : c.loader \notin Reads
    BY DEF Call, CallIf, Reads
  <2>2. Writes(C) = C /\ C # {}
    BY <2>1 DEF Writes
  <2>3. /\ c1 \subseteq C
        /\ \A c \in C : c.loader \in Images => c \in c1
    BY DEF Call, CallIf, Images
  <2>4. {c.item : c \in {d \in C : d.loader \in Images}} = 1..Recognised(f.items, f)
    BY <1>0, <2>3, AllImages, ZenonT(40) DEF Images
  <2>5. ASSUME NEW opt \in f.opts PROVE Served(opt, C)
    <3>1. opt \in {"defaultImage", "editionSets"}
      BY DEF AField, Options
    <3>2. CASE opt = "defaultImage"
      <4> DEFINE w == Call("setDefaultArtworkImageLoader", f.on, 0)
      <4>1. Asked(opt) = [by |-> {"setDefaultArtworkImageLoader"}, times |-> 1]
        BY <3>2 DEF Asked
      <4>2. /\ w \in C /\ w.loader \in {"setDefaultArtworkImageLoader"}
            /\ \A d \in C : d.loader \in {"setDefaultArtworkImageLoader"} => d = w
        BY <3>2 DEF Call, CallIf
      <4> QED
        BY <4>1, <4>2, ServedOnce
    <3>3. CASE opt = "editionSets"
      <4> DEFINE x == Call("updateArtworkEditionSetLoader", f.on, 1)
                 y == Call("deleteArtworkEditionSetLoader", f.on, 2)
                 z == Call("createArtworkEditionSetLoader", f.on, 3)
                 L == {"createArtworkEditionSetLoader", "updateArtworkEditionSetLoader",
                       "deleteArtworkEditionSetLoader"}
      <4>1. Asked(opt).by = L /\ Asked(opt).times = 3
        BY <3>3 DEF Asked
      <4>2. /\ x \in C /\ y \in C /\ z \in C /\ x # y /\ x # z /\ y # z
            /\ x.loader \in L /\ y.loader \in L /\ z.loader \in L
        BY <3>3 DEF Call
      <4>3. \A d \in C : d.loader \in L => d \in {x, y, z}
        BY <3>3 DEF Call, CallIf
      <4> HIDE DEF x, y, z, L, C
      <4>4. Cardinality({d \in C : d.loader \in L}) = 3
        BY <4>2, <4>3, ThreeWrites
      <4> QED
        BY <4>1, <4>4 DEF Served
    <3> QED
      BY <3>1, <3>2, <3>3
  <2> QED
    BY <2>2, <2>4, <2>5 DEF Fulfilled, Served, Granted
<1> HIDE DEF p1, p2, p3, p4, c1, c2, c3, c4
<1>9. Makes(UpdateArtwork(f), f, C)
  <2>1. Makes(p1 \o p2, f, c1 \cup c2)
    BY <1>2, <1>3, <1>6, Then
  <2>2. Makes(p1 \o p2 \o p3, f, (c1 \cup c2) \cup c3)
    BY <1>4, <1>6, <2>1, Then
  <2> QED
    BY <1>5, <1>6, <1>7, <2>2, Then
<1> QED
  BY <1>8, <1>9, FirmDelivers DEF Good, RereadKinds, ListKinds

\* Two calls together outside of try, if an option asks for them.
LEMMA PairWhen ==
  ASSUME NEW f \in MutationFields, NEW loader \in Plain, NEW opt \in {"artists", "strategy"}
  PROVE  Makes(When(opt, f, Unguarded(AwaitAll(loader, [f EXCEPT !.items = 2]))), f,
               IF opt \in f.opts THEN {Call(loader, f.on, 1), Call(loader, f.on, 2)} ELSE {})
<1> DEFINE p == AwaitAll(loader, [f EXCEPT !.items = 2])
           q == Unguarded(p)
           pair == {Call(loader, f.on, 1), Call(loader, f.on, 2)}
<1>1. Shape(p, f) /\ Firm(p) /\ CallsOf(p) = pair /\ (~OneByOne(f) => Quiet(p, f))
  BY PairAtOnce
<1> HIDE DEF p, pair
<1>2. /\ Shape(q, f) /\ Firm(q) /\ CallsOf(q) = pair
      /\ ~OneByOne(f) => Quiet(q, f)
  BY <1>1, UnguardedPlan
<1> HIDE DEF q
<1>3. Shape(When(opt, f, q), f) /\ Quiet(When(opt, f, q), f) /\ Firm(When(opt, f, q))
  <2>1. CASE opt \in f.opts
    <3>1. ~OneByOne(f)
      BY <2>1 DEF OneByOne
    <3> QED
      BY <1>2, <3>1, WhenPlan
  <2>2. CASE opt \notin f.opts
    BY <2>2, NoStage DEF When
  <2> QED
    BY <2>1, <2>2
<1>4. CallsOf(When(opt, f, q)) = IF opt \in f.opts THEN pair ELSE {}
  BY <1>2, WhenPlan
<1> QED
  BY <1>3, <1>4 DEF Makes, p, q, pair

LEMMA MyCollectionCreateArtworkGood ==
  ASSUME NEW f, AField(f), f.kind = "myCollectionCreateArtwork"
  PROVE  Good(MyCollectionCreateArtwork(f), f)
<1>1. CASE f.opts \cap {"artistIds", "artists"} = {}
  BY <1>1, GiveUpGood DEF MyCollectionCreateArtwork
<1>2. CASE ~(f.opts \cap {"artistIds", "artists"} = {})
  <2>1. PICK items \in Nat : Recognised(f.items, f) = items
    BY RecognisedType DEF ItemKinds, ImageKinds
  <2> DEFINE p1 == When("artists", f, Unguarded(AwaitAll("createArtistLoader", [f EXCEPT !.items = 2])))
             p2 == Await("createArtworkLoader", f)
             p3 == When("edition", f, Await("createArtworkEditionSetLoader", f))
             p4 == AwaitEach("createArtworkImageLoader", f, items)
             x == Call("createArtistLoader", f.on, 1)
             y == Call("createArtistLoader", f.on, 2)
             c1 == IF "artists" \in f.opts THEN {x, y} ELSE {}
             c2 == {Call("createArtworkLoader", f.on, 0)}
             c3 == CallIf("edition", "createArtworkEditionSetLoader", f)
             c4 == {Call("createArtworkImageLoader", f.on, i) : i \in 1..items}
             C == ((c1 \cup c2) \cup c3) \cup c4
             all == C \cup {Call("artworkLoader", f.on, 0)}
             p == p1 \o p2 \o p3 \o p4
  <2>2. Makes(p1, f, c1)
    BY PairWhen DEF Plain, AField
  <2>3. Makes(p2, f, c2)
    BY Awaits DEF Plain
  <2>4. Makes(p3, f, c3)
    BY AwaitsWhen DEF Plain
  <2>5. Makes(p4, f, c4)
    BY <2>1, ImagesEach DEF Images
  <2>6. c1 \cap c2 = {} /\ (c1 \cup c2) \cap c3 = {} /\ ((c1 \cup c2) \cup c3) \cap c4 = {}
    BY DEF Call, CallIf
  <2>7. \A c \in C : c.loader \notin Reads
    BY DEF Call, CallIf, Reads
  <2>8. Fulfilled(C, f)
    <3>1. /\ C # {} /\ c4 \subseteq C
          /\ \A c \in C : c.loader \in Images => c \in c4
      <4>1. \A c \in (c1 \cup c2) \cup c3 : c.loader \notin Images
        BY DEF Call, CallIf, Images
      <4> QED
        BY <4>1
    <3>2. {c.item : c \in {d \in C : d.loader \in Images}} = 1..Recognised(f.items, f)
      BY <2>1, <3>1, AllImages, ZenonT(40) DEF Images
    <3>3. ASSUME NEW opt \in f.opts PROVE Served(opt, C)
      <4>1. opt \in {"artistIds", "artists", "edition", "foreignUrl"}
        BY DEF AField, Options
      <4>2. CASE opt \in {"artistIds", "foreignUrl"}
        BY <4>2, NotAsked DEF Asked
      <4>3. CASE opt = "artists"
        <5> DEFINE L == {"createArtistLoader"}
        <5>1. Asked(opt).by = L /\ Asked(opt).times = 2
          BY <4>3 DEF Asked
        <5>2. /\ x \in C /\ y \in C /\ x # y /\ x.loader \in L /\ y.loader \in L
              /\ \A d \in C : d.loader \in L => d \in {x, y}
          BY <4>3 DEF Call, CallIf
        <5> HIDE DEF x, y, L, C
        <5>3. Cardinality({d \in C : d.loader \in L}) = 2
          BY <5>2, TwoWrites
        <5> QED
          BY <5>1, <5>3 DEF Served
      <4>4. CASE opt = "edition"
        <5> DEFINE w == Call("createArtworkEditionSetLoader", f.on, 0)
                   L == {"createArtworkEditionSetLoader", "updateArtworkEditionSetLoader"}
        <5>1. Asked(opt) = [by |-> L, times |-> 1]
          BY <4>4 DEF Asked
        <5>2. w \in C /\ w.loader \in L /\ \A d \in C : d.loader \in L => d = w
          BY <4>4 DEF Call, CallIf
        <5> QED
          BY <5>1, <5>2, ServedOnce
      <4> QED
        BY <4>1, <4>2, <4>3, <4>4
    <3> QED
      BY <3>1, <3>2, <3>3 DEF Fulfilled, Served, Granted
  <2>9. MyCollectionCreateArtwork(f) = p \o Await("artworkLoader", f)
    BY <1>2, <2>1 DEF MyCollectionCreateArtwork
  <2> HIDE DEF p1, p2, p3, p4, c1, c2, c3, c4
  <2>10. Makes(p, f, C)
    <3>1. Makes(p1 \o p2, f, c1 \cup c2)
      BY <2>2, <2>3, <2>6, Then
    <3>2. Makes(p1 \o p2 \o p3, f, (c1 \cup c2) \cup c3)
      BY <2>4, <2>6, <3>1, Then
    <3> QED
      BY <2>5, <2>6, <3>2, Then
  <2> HIDE DEF p, C
  <2>11. /\ Makes(p \o Await("artworkLoader", f), f, all) /\ Writes(all) = C
         /\ Rereads(p \o Await("artworkLoader", f))
    BY <2>7, <2>10, ThenRead, ZenonT(40) DEF Reads
  <2> HIDE DEF all
  <2> QED
    BY <2>8, <2>9, <2>11, FirmDelivers DEF Good
<1> QED
  BY <1>1, <1>2

LEMMA MyCollectionUpdateArtworkGood ==
  ASSUME NEW f, AField(f), f.kind = "myCollectionUpdateArtwork", NEW editioned \in BOOLEAN
  PROVE  Good(MyCollectionUpdateArtwork(f, editioned), f)
<1>1. PICK items \in Nat : Recognised(f.items, f) = items
  BY RecognisedType DEF ItemKinds, ImageKinds
<1> DEFINE p1 == Await("updateArtworkLoader", f)
           p2 == IF ~editioned
                 THEN When("edition", f, Await("createArtworkEditionSetLoader", f))
                 ELSE IF "noEdition" \in f.opts
                 THEN Await("deleteArtworkEditionSetLoader", f)
                 ELSE Await("updateArtworkEditionSetLoader", f)
           p3 == AwaitEach("createArtworkImageLoader", f, items)
           c1 == {Call("updateArtworkLoader", f.on, 0)}
           c2 == IF ~editioned
                 THEN CallIf("edition", "createArtworkEditionSetLoader", f)
                 ELSE IF "noEdition" \in f.opts
                 THEN {Call("deleteArtworkEditionSetLoader", f.on, 0)}
                 ELSE {Call("updateArtworkEditionSetLoader", f.on, 0)}
           c3 == {Call("createArtworkImageLoader", f.on, i) : i \in 1..items}
           C == (c1 \cup c2) \cup c3
           all == C \cup {Call("artworkLoader", f.on, 0)}
           p == p1 \o p2 \o p3
<1>2. Makes(p1, f, c1)
  BY Awaits DEF Plain
<1>3. Makes(p2, f, c2)
  <2>1. CASE ~editioned
    BY <2>1, AwaitsWhen DEF Plain
  <2>2. CASE editioned /\ "noEdition" \in f.opts
    BY <2>2, Awaits DEF Plain
  <2>3. CASE editioned /\ ~("noEdition" \in f.opts)
    BY <2>3, Awaits DEF Plain
  <2> QED
    BY <2>1, <2>2, <2>3
<1>4. Makes(p3, f, c3)
  BY <1>1, ImagesEach DEF Images
<1>5. c1 \cap c2 = {} /\ (c1 \cup c2) \cap c3 = {}
  BY DEF Call, CallIf
<1>6. \A c \in C : c.loader \notin Reads
  BY DEF Call, CallIf, Reads
<1>7. Fulfilled(C, f)
  <2>1. /\ C # {} /\ c3 \subseteq C
        /\ \A c \in C : c.loader \in Images => c \in c3
    <3>1. \A c \in c1 \cup c2 : c.loader \notin Images
      BY DEF Call, CallIf, Images
    <3> QED
      BY <3>1
  <2>2. {c.item : c \in {d \in C : d.loader \in Images}} = 1..Recognised(f.items, f)
    BY <1>1, <2>1, AllImages DEF Images
  <2>3. ASSUME NEW opt \in f.opts PROVE Served(opt, C)
    <3>1. /\ opt \in {"edition", "noEdition", "foreignUrl"}
          /\ opt = "edition" => ~("noEdition" \in f.opts)
      BY DEF AField, Options
    <3>2. CASE opt \in {"noEdition", "foreignUrl"}
      BY <3>2, NotAsked DEF Asked
    <3>3. CASE opt = "edition"
      <4> DEFINE L == {"createArtworkEditionSetLoader", "updateArtworkEditionSetLoader"}
                 w == Call(IF editioned THEN "updateArtworkEditionSetLoader"
                           ELSE "createArtworkEditionSetLoader", f.on, 0)
      <4>1. Asked(opt) = [by |-> L, times |-> 1]
        BY <3>3 DEF Asked
      <4>2. c2 = {w} /\ w.loader \in L
        BY <3>1, <3>3 DEF Call, CallIf
      <4>3. \A d \in c1 \cup c3 : ~(d.loader \in L)
        BY DEF Call
      <4> HIDE DEF L, w, c1, c2, c3
      <4>4. w \in C /\ \A d \in C : d.loader \in L => d = w
        BY <4>2, <4>3
      <4> QED
        BY <4>1, <4>2, <4>4, ServedOnce
    <3> QED
      BY <3>1, <3>2, <3>3
  <2> QED
    BY <2>1, <2>2, <2>3 DEF Fulfilled, Served, Granted
<1>8. MyCollectionUpdateArtwork(f, editioned) = p \o Await("artworkLoader", f)
  BY <1>1 DEF MyCollectionUpdateArtwork
<1> HIDE DEF p1, p2, p3, c1, c2, c3
<1>9. Makes(p, f, C)
  <2>1. Makes(p1 \o p2, f, c1 \cup c2)
    BY <1>2, <1>3, <1>5, Then
  <2> QED
    BY <1>4, <1>5, <2>1, Then
<1> HIDE DEF p, C
<1>10. /\ Makes(p \o Await("artworkLoader", f), f, all) /\ Writes(all) = C
       /\ Rereads(p \o Await("artworkLoader", f))
  <2>1. "artworkLoader" \in Reads
    BY DEF Reads
  <2> QED
    BY <1>6, <1>9, <2>1, ThenRead
<1> HIDE DEF all
<1> QED
  BY <1>7, <1>8, <1>10, FirmDelivers DEF Good

LEMMA CreateArtworkGood ==
  ASSUME NEW f, AField(f), f.kind = "createArtwork" PROVE Good(CreateArtwork(f), f)
<1>1. CASE "mismatch" \in f.opts
  BY <1>1, GiveUpGood DEF CreateArtwork
<1>2. CASE ~("mismatch" \in f.opts)
  <2>1. PICK items \in Nat : f.items = items
    BY DEF AField, MutationFields
  <2>0. Recognised(f.items, f) = items
    <3>1. "foreignUrl" \notin f.opts
      BY DEF AField, Options
    <3> QED
      BY <2>1, <3>1, AllRecognised
  <2> DEFINE p1 == Await("createArtworkLoader", f)
             p2 == AwaitAll("addImageToArtworkLoader", f)
             p3 == When("show", f, Await("addArtworkToPartnerShowLoader", f))
             c1 == {Call("createArtworkLoader", f.on, 0)}
             c2 == {Call("addImageToArtworkLoader", f.on, i) : i \in 1..items}
             c3 == CallIf("show", "addArtworkToPartnerShowLoader", f)
             C == (c1 \cup c2) \cup c3
  <2>2. Makes(p1, f, c1)
    BY Awaits DEF Plain
  <2>3. Makes(p2, f, c2)
    BY <2>1, AllAtOnce DEF Images, Loaders, Together, ImageKinds
  <2>4. Makes(p3, f, c3)
    BY AwaitsWhen DEF Plain
  <2>5. c1 \cap c2 = {} /\ (c1 \cup c2) \cap c3 = {}
    BY DEF Call, CallIf
  <2>6. Writes(C) = C
    <3>1. \A c \in C : c.loader \notin Reads
      BY DEF Call, CallIf, Reads
    <3> QED
      BY <3>1 DEF Writes
  <2>7. Fulfilled(C, f)
    <3>1. /\ C # {} /\ c2 \subseteq C
          /\ \A c \in C : c.loader \in Images => c \in c2
      <4>1. \A c \in c1 \cup c3 : c.loader \notin Images
        BY DEF Call, CallIf, Images
      <4> QED
        BY <4>1
    <3>2. {c.item : c \in {d \in C : d.loader \in Images}} = 1..Recognised(f.items, f)
      BY <2>0, <3>1, AllImages, ZenonT(40) DEF Images
    <3>3. ASSUME NEW opt \in f.opts PROVE Served(opt, C)
      <4>1. opt \in {"mismatch", "show"}
        BY DEF AField, Options
      <4>2. CASE opt = "mismatch"
        BY <4>2, NotAsked DEF Asked
      <4>3. CASE opt = "show"
        <5> DEFINE w == Call("addArtworkToPartnerShowLoader", f.on, 0)
                   L == {"addArtworkToPartnerShowLoader"}
        <5>1. Asked(opt) = [by |-> L, times |-> 1]
          BY <4>3 DEF Asked
        <5>2. w \in C /\ w.loader \in L /\ \A d \in C : d.loader \in L => d = w
          BY <4>3 DEF Call, CallIf
        <5> QED
          BY <5>1, <5>2, ServedOnce
      <4> QED
        BY <4>1, <4>2, <4>3
    <3> QED
      BY <3>1, <3>2, <3>3 DEF Fulfilled, Served, Granted
  <2>8. CreateArtwork(f) = p1 \o p2 \o p3
    BY <1>2 DEF CreateArtwork
  <2> HIDE DEF p1, p2, p3, c1, c2, c3
  <2>9. Makes(p1 \o p2 \o p3, f, C)
    <3>1. Makes(p1 \o p2, f, c1 \cup c2)
      BY <2>2, <2>3, <2>5, Then
    <3> QED
      BY <2>4, <2>5, <3>1, Then
  <2> QED
    BY <2>6, <2>7, <2>8, <2>9, FirmDelivers DEF Good, RereadKinds, ListKinds
<1> QED
  BY <1>1, <1>2

LEMMA CreateArtworkFromTemplateGood ==
  ASSUME NEW f, AField(f), f.kind = "createArtworkFromTemplate"
  PROVE  Good(CreateArtworkFromTemplate(f), f)
<1>1. CASE "mismatch" \in f.opts
  BY <1>1, GiveUpGood DEF CreateArtworkFromTemplate
<1>2. CASE ~("mismatch" \in f.opts)
  <2>1. PICK items \in Nat : f.items = items
    BY DEF AField, MutationFields
  <2>0. Recognised(f.items, f) = items
    <3>1. "foreignUrl" \notin f.opts
      BY DEF AField, Options
    <3> QED
      BY <2>1, <3>1, AllRecognised
  <2> DEFINE p1 == Await("createArtworkFromTemplateLoader", f)
             p2 == AwaitAll("addImageToArtworkLoader", f)
             c1 == {Call("createArtworkFromTemplateLoader", f.on, 0)}
             c2 == {Call("addImageToArtworkLoader", f.on, i) : i \in 1..items}
             C == c1 \cup c2
  <2>2. Makes(p1, f, c1)
    BY Awaits DEF Plain
  <2>3. Makes(p2, f, c2)
    BY <2>1, AllAtOnce DEF Images, Loaders, Together, ImageKinds
  <2>4. c1 \cap c2 = {}
    BY DEF Call
  <2>5. Writes(C) = C
    <3>1. \A c \in C : c.loader \notin Reads
      BY DEF Call, Reads
    <3> QED
      BY <3>1 DEF Writes
  <2>6. Fulfilled(C, f)
    <3>1. C # {} /\ c2 \subseteq C /\ \A c \in C : c.loader \in Images => c \in c2
      <4>1. \A c \in c1 : c.loader \notin Images
        BY DEF Call, Images
      <4> QED
        BY <4>1
    <3>2. {c.item : c \in {d \in C : d.loader \in Images}} = 1..Recognised(f.items, f)
      BY <2>0, <3>1, AllImages DEF Images
    <3>3. f.opts = {}
      BY <1>2 DEF AField, Options
    <3> QED
      BY <3>1, <3>2, <3>3 DEF Fulfilled, Granted
  <2>7. CreateArtworkFromTemplate(f) = p1 \o p2
    BY <1>2 DEF CreateArtworkFromTemplate
  <2> HIDE DEF p1, p2, c1, c2
  <2>8. Makes(p1 \o p2, f, C)
    BY <2>2, <2>3, <2>4, Then
  <2> QED
    BY <2>5, <2>6, <2>7, <2>8, FirmDelivers DEF Good, RereadKinds, ListKinds
<1> QED
  BY <1>1, <1>2

LEMMA CreateFeatureFlagGood ==
  ASSUME NEW f, AField(f), f.kind = "createFeatureFlag" PROVE Good(CreateFeatureFlag(f), f)
<1> DEFINE g == [f EXCEPT !.items = 2]
           p1 == Await("adminCreateFeatureFlag", f)
           q2 == AwaitAll("addFeatureFlagStrategy", g)
           p2 == When("strategy", f, q2)
           p3 == When("variants", f, Await("addFeatureFlagVariant", f))
           p == p1 \o p2 \o p3
           x == Call("addFeatureFlagStrategy", f.on, 1)
           y == Call("addFeatureFlagStrategy", f.on, 2)
           c1 == {Call("adminCreateFeatureFlag", f.on, 0)}
           c2 == IF "strategy" \in f.opts THEN {x, y} ELSE {}
           c3 == CallIf("variants", "addFeatureFlagVariant", f)
           C == (c1 \cup c2) \cup c3
<1>1. Makes(p1, f, c1)
  BY Awaits DEF Plain
<1>2. Makes(p2, f, c2)
  <2>1. /\ Shape(q2, f) /\ Firm(q2) /\ CallsOf(q2) = {x, y}
        /\ ~OneByOne(f) => Quiet(q2, f)
    BY PairAtOnce DEF Plain, AField
  <2> HIDE DEF q2, x, y
  <2>2. CASE "strategy" \in f.opts
    <3>1. ~OneByOne(f)
      BY <2>2 DEF OneByOne
    <3> QED
      BY <2>1, <2>2, <3>1, WhenPlan DEF Makes
  <2>3. CASE "strategy" \notin f.opts
    BY <2>3, NoStage DEF When, Makes
  <2> QED
    BY <2>2, <2>3
<1>3. Makes(p3, f, c3)
  BY AwaitsWhen DEF Plain
<1>4. c1 \cap c2 = {} /\ (c1 \cup c2) \cap c3 = {}
  BY DEF Call, CallIf
<1>5. \A c \in C : c.loader \notin Reads /\ c.loader \notin Images
  BY DEF Call, CallIf, Reads, Images
<1>6. f.opts \subseteq {"strategy", "variants"} /\ f.items = 0
  BY DEF AField, Options, ItemKinds, ImageKinds
<1>7. Fulfilled(C, f)
  <2>1. C # {} /\ {c.item : c \in {d \in C : d.loader \in Images}} = 1..Recognised(f.items, f)
    BY <1>5, <1>6, NoImages
  <2>2. ASSUME NEW opt \in f.opts PROVE Served(opt, C)
    <3>1. CASE opt = "strategy"
      <4> DEFINE L == {"addFeatureFlagStrategy"}
      <4>1. Asked(opt).by = L /\ Asked(opt).times = 2
        BY <3>1 DEF Asked
      <4>2. /\ x \in C /\ y \in C /\ x # y /\ x.loader \in L /\ y.loader \in L
            /\ \A d \in C : d.loader \in L => d \in {x, y}
        BY <3>1 DEF Call, CallIf
      <4> HIDE DEF x, y, L, C
      <4>3. Cardinality({d \in C : d.loader \in L}) = 2
        BY <4>2, TwoWrites
      <4> QED
        BY <4>1, <4>3 DEF Served
    <3>2. CASE opt = "variants"
      <4> DEFINE w == Call("addFeatureFlagVariant", f.on, 0)
                 L == {"addFeatureFlagVariant"}
      <4>1. Asked(opt) = [by |-> L, times |-> 1]
        BY <3>2 DEF Asked
      <4>2. w \in C /\ w.loader \in L /\ \A d \in C : d.loader \in L => d = w
        BY <3>2 DEF Call, CallIf
      <4> QED
        BY <4>1, <4>2, ServedOnce
    <3> QED
      BY <1>6, <3>1, <3>2
  <2> QED
    BY <2>1, <2>2 DEF Fulfilled, Served, Granted
<1>8. CreateFeatureFlag(f) = Unguarded(p)
  BY DEF CreateFeatureFlag
<1>9. Writes(C) = C
  BY <1>5 DEF Writes
<1> HIDE DEF p1, p2, p3, c1, c2, c3
<1>10. Makes(p, f, C)
  <2>1. Makes(p1 \o p2, f, c1 \cup c2)
    BY <1>1, <1>2, <1>4, Then
  <2> QED
    BY <1>3, <1>4, <2>1, Then
<1> HIDE DEF p, C
<1>11. Makes(Unguarded(p), f, C)
  <2>1. Shape(Unguarded(p), f) /\ Quiet(Unguarded(p), f) /\ Firm(Unguarded(p))
    BY <1>10, UnguardedPlan DEF Makes
  <2>2. CallsOf(Unguarded(p)) = C
    BY <1>10, UnguardedPlan DEF Makes
  <2> QED
    BY <2>1, <2>2 DEF Makes
<1> QED
  BY <1>7, <1>8, <1>9, <1>11, FirmDelivers DEF Good, RereadKinds, ListKinds

LEMMA UpdateMeGood ==
  ASSUME NEW f, AField(f), f.kind = "updateMe" PROVE Good(UpdateMe(f), f)
<1> DEFINE icon == "updateCollectorProfileIconLoader"
           social == "meUpdateCollectorProfileLoader"
           p1 == When("icon", f, AwaitEach(icon, f, Recognised(1, f)))
           p2 == When("social", f, Await(social, f))
           p3 == Await("updateMeLoader", f)
           c1 == IF "icon" \in Granted(f) THEN {Call(icon, f.on, 1)} ELSE {}
           c2 == CallIf("social", social, f)
           c3 == {Call("updateMeLoader", f.on, 0)}
           C == (c1 \cup c2) \cup c3
<1>1. Makes(p1, f, c1)
  <2>1. PICK n \in {0, 1} : Recognised(1, f) = n /\ (n = 0 <=> "foreignUrl" \in f.opts)
    BY DEF Recognised
  <2> DEFINE q == AwaitEach(icon, f, n)
             c == {Call(icon, f.on, i) : i \in 1..n}
  <2>2. Shape(q, f) /\ Quiet(q, f) /\ Firm(q) /\ CallsOf(q) = c
    <3>1. n \in Nat /\ f.kind \notin ImageKinds /\ icon \in Loaders
      BY DEF ImageKinds, Loaders, Plain
    <3> QED
      BY <3>1, AwaitEachPlan
  <2>3. c = IF n = 0 THEN {} ELSE {Call(icon, f.on, 1)}
    <3>1. CASE n = 0
      BY <3>1
    <3>2. CASE n = 1
      <4>1. \A i \in 1..1 : i = 1
        OBVIOUS
      <4> QED
        BY <3>2, <4>1
    <3> QED
      BY <3>1, <3>2
  <2> HIDE DEF q, c
  <2>4. /\ Shape(When("icon", f, q), f) /\ Quiet(When("icon", f, q), f) /\ Firm(When("icon", f, q))
        /\ CallsOf(When("icon", f, q)) = IF "icon" \in f.opts THEN c ELSE {}
    BY <2>2, WhenPlan
  <2>5. c1 = IF "icon" \in f.opts THEN c ELSE {}
    BY <2>1, <2>3 DEF Granted
  <2>6. p1 = When("icon", f, q)
    BY <2>1 DEF q
  <2> QED
    BY <2>4, <2>5, <2>6 DEF Makes
<1>2. Makes(p2, f, c2) /\ Makes(p3, f, c3)
  BY Awaits, AwaitsWhen DEF Plain
<1>3. c1 \cap c2 = {} /\ (c1 \cup c2) \cap c3 = {}
  BY DEF Call, CallIf
<1>4. \A c \in C : c.loader \notin Reads /\ c.loader \notin Images
  BY DEF Call, CallIf, Reads, Images
<1>5. f.opts \subseteq {"icon", "foreignUrl", "social"} /\ f.items = 0
  BY DEF AField, Options, ItemKinds, ImageKinds
<1>6. Fulfilled(C, f)
  <2>1. C # {} /\ {c.item : c \in {d \in C : d.loader \in Images}} = 1..Recognised(f.items, f)
    <3>1. \A d \in C : d.loader \notin Images
      BY <1>4
    <3>2. {c.item : c \in {d \in C : d.loader \in Images}} = {}
      BY <3>1
    <3>3. 1..Recognised(f.items, f) = {}
      BY <1>5 DEF Recognised
    <3> QED
      BY <3>2, <3>3
  <2>2. ASSUME NEW opt \in Granted(f) PROVE Served(opt, C)
    <3>1. opt \in f.opts /\ opt \in {"icon", "foreignUrl", "social"}
      BY <1>5 DEF Granted
    <3>2. CASE opt = "foreignUrl"
      BY <3>2, NotAsked DEF Asked
    <3>3. CASE opt = "icon"
      <4> DEFINE L == {icon}
                 w == Call(icon, f.on, 1)
      <4>1. Asked(opt) = [by |-> L, times |-> 1]
        BY <3>3 DEF Asked
      <4>2. w \in C /\ w.loader \in L /\ \A d \in C : d.loader \in L => d = w
        BY <3>3 DEF Call, CallIf
      <4> QED
        BY <4>1, <4>2, ServedOnce
    <3>4. CASE opt = "social"
      <4> DEFINE L == {social}
                 w == Call(social, f.on, 0)
      <4>1. Asked(opt) = [by |-> L, times |-> 1]
        BY <3>4 DEF Asked
      <4>2. w \in C /\ w.loader \in L /\ \A d \in C : d.loader \in L => d = w
        BY <3>1, <3>4 DEF Call, CallIf
      <4> QED
        BY <4>1, <4>2, ServedOnce
    <3> QED
      BY <3>1, <3>2, <3>3, <3>4
  <2> QED
    BY <2>1, <2>2 DEF Fulfilled, Served
<1>7. UpdateMe(f) = p1 \o p2 \o p3
  BY DEF UpdateMe
<1>8. Writes(C) = C
  BY <1>4 DEF Writes
<1> HIDE DEF p1, p2, p3, c1, c2, c3
<1>9. Makes(p1 \o p2 \o p3, f, C)
  <2>1. Makes(p1 \o p2, f, c1 \cup c2)
    BY <1>1, <1>2, <1>3, Then
  <2> QED
    BY <1>2, <1>3, <2>1, Then
<1> QED
  BY <1>6, <1>7, <1>8, <1>9, FirmDelivers DEF Good, RereadKinds, ListKinds

\* One write.
LEMMA SingleGood ==
  ASSUME NEW f, f.items = 0, \A opt \in f.opts : Asked(opt) = [by |-> {}, times |-> 0],
         f.kind \notin RereadKinds, NEW a \in Plain, a \notin Reads
  PROVE  Good(Await(a, f), f)
<1> DEFINE C == {Call(a, f.on, 0)}
<1>1. Makes(Await(a, f), f, C)
  BY Awaits
<1>2. \A c \in C : c.loader \notin Reads /\ c.loader \notin Images
  BY PlainLoaders DEF Call
<1>3. Writes(C) = C
  BY <1>2 DEF Writes
<1>4. C # {} /\ {c.item : c \in {d \in C : d.loader \in Images}} = 1..Recognised(f.items, f)
  BY <1>2, NoImages
<1> HIDE DEF C
<1>5. \A opt \in f.opts : Served(opt, C)
  BY NotAsked
<1>6. Fulfilled(C, f)
  BY <1>4, <1>5 DEF Fulfilled, Served, Granted
<1> QED
  BY <1>1, <1>3, <1>6, FirmDelivers DEF Good

\* One write, and another if an option asks for it.
LEMMA CallAndMoreGood ==
  ASSUME NEW f, f.items = 0, NEW opt, f.opts \subseteq {opt}, f.kind \notin RereadKinds,
         NEW a \in Plain, a \notin Reads, NEW b \in Plain, b \notin Reads, a # b,
         Asked(opt) = [by |-> {b}, times |-> 1]
  PROVE  Good(Await(a, f) \o When(opt, f, Await(b, f)), f)
<1> DEFINE w == Call(b, f.on, 0)
           L == {b}
           p == Await(a, f) \o When(opt, f, Await(b, f))
           C == {Call(a, f.on, 0)} \cup CallIf(opt, b, f)
<1>1. Makes(p, f, C)
  BY CallAndMore
<1>2. \A c \in C : c.loader \notin Reads /\ c.loader \notin Images
  BY PlainLoaders DEF Call, CallIf
<1>3. Writes(C) = C
  BY <1>2 DEF Writes
<1>4. C # {} /\ {c.item : c \in {d \in C : d.loader \in Images}} = 1..Recognised(f.items, f)
  BY <1>2, NoImages
<1>5. ASSUME opt \in f.opts PROVE Served(opt, C)
  <2>1. w \in C /\ w.loader \in L /\ \A d \in C : d.loader \in L => d = w
    BY <1>5 DEF Call, CallIf
  <2> HIDE DEF C, L
  <2>2. Asked(opt) = [by |-> L, times |-> 1]
    BY DEF L
  <2> QED
    BY <2>1, <2>2, ServedOnce
<1> HIDE DEF C, p
<1>6. Fulfilled(C, f)
  BY <1>4, <1>5 DEF Fulfilled, Served, Granted
<1>7. Shape(p, f) /\ Quiet(p, f) /\ Delivers(p, f)
  BY <1>1, <1>3, <1>6, FirmDelivers
<1> QED
  BY <1>7 DEF Good, p

LEMMA ArtistOfPartnerGood ==
  ASSUME NEW f, AField(f), f.kind \in {"createArtist", "createCanonicalArtist"}
  PROVE  Good(ArtistOfPartner(f), f)
<1>1. f.opts \subseteq {"represented"} /\ f.items = 0
  BY DEF AField, Options, ItemKinds, ImageKinds
<1>2. f.kind \notin RereadKinds
  BY DEF RereadKinds, ListKinds
<1>3. /\ "createArtistLoader" \in Plain /\ "createPartnerArtistLoader" \in Plain
      /\ "createArtistLoader" \notin Reads /\ "createPartnerArtistLoader" \notin Reads
  BY DEF Plain, Reads
<1>4. Asked("represented") = [by |-> {"createPartnerArtistLoader"}, times |-> 1]
  BY DEF Asked
<1> QED
  BY <1>1, <1>2, <1>3, <1>4, CallAndMoreGood DEF ArtistOfPartner

LEMMA CreateFeaturedLinkGood ==
  ASSUME NEW f, AField(f), f.kind = "createFeaturedLink" PROVE Good(CreateFeaturedLink(f), f)
<1>1. f.opts \subseteq {"orderedSet"} /\ f.items = 0
  BY DEF AField, Options, ItemKinds, ImageKinds
<1>2. f.kind \notin RereadKinds
  BY DEF RereadKinds, ListKinds
<1>3. /\ "createFeaturedLinkLoader" \in Plain /\ "addSetItemLoader" \in Plain
      /\ "createFeaturedLinkLoader" \notin Reads /\ "addSetItemLoader" \notin Reads
  BY DEF Plain, Reads
<1>4. Asked("orderedSet") = [by |-> {"addSetItemLoader"}, times |-> 1]
  BY DEF Asked
<1> QED
  BY <1>1, <1>2, <1>3, <1>4, CallAndMoreGood DEF CreateFeaturedLink

LEMMA PublishNavigationDraftGood ==
  ASSUME NEW f, AField(f), f.kind = "publishNavigationDraft"
  PROVE  Good(PublishNavigationDraft(f), f)
<1>1. f.opts \subseteq {"groupID", "versionID"} /\ f.items = 0
  BY DEF AField, Options, ItemKinds, ImageKinds
<1>2. f.kind \notin RereadKinds /\ \A opt \in f.opts : Asked(opt) = [by |-> {}, times |-> 0]
  BY <1>1 DEF RereadKinds, ListKinds, Asked
<1>3. /\ "publishNavigationVersionLoader" \in Plain /\ "publishNavigationDraftLoader" \in Plain
      /\ "publishNavigationVersionLoader" \notin Reads
      /\ "publishNavigationDraftLoader" \notin Reads
  BY DEF Plain, Reads
<1>4. /\ Good(Await("publishNavigationVersionLoader", f), f)
      /\ Good(Await("publishNavigationDraftLoader", f), f)
  BY <1>1, <1>2, <1>3, SingleGood
<1> QED
  BY <1>4, GiveUpGood DEF PublishNavigationDraft

LEMMA DeletePartnerShowGood ==
  ASSUME NEW f, AField(f), f.kind = "deletePartnerShow" PROVE Good(DeletePartnerShow(f), f)
<1>1. f.opts \subseteq {"partner"} /\ f.items = 0
  BY DEF AField, Options, ItemKinds, ImageKinds
<1>2. f.kind \notin RereadKinds /\ \A opt \in f.opts : Asked(opt) = [by |-> {}, times |-> 0]
  BY <1>1 DEF RereadKinds, ListKinds, Asked
<1>3. /\ "deletePartnerShowLoader" \in Plain /\ "deleteShowLoader" \in Plain
      /\ "deletePartnerShowLoader" \notin Reads /\ "deleteShowLoader" \notin Reads
  BY DEF Plain, Reads
<1>4. Good(Await("deletePartnerShowLoader", f), f) /\ Good(Await("deleteShowLoader", f), f)
  BY <1>1, <1>2, <1>3, SingleGood
<1> QED
  BY <1>4 DEF DeletePartnerShow

\* Only the inquiry may be missing.
LEMMA SubmitOrderGood ==
  ASSUME NEW f, AField(f), f.kind = "submitOrder" PROVE Good(SubmitOrder(f), f)
<1> DEFINE x == Call("meOrderSubmitLoader", f.on, 0)
           y == Call("submitArtworkInquiryRequestLoader", f.on, 0)
           p1 == Stage("payload", {x})
           q2 == Stage("log", {y})
           p2 == When("offer", f, q2)
           p == p1 \o p2
<1>1. f.opts \subseteq {"offer"} /\ f.items = 0
  BY DEF AField, Options, ItemKinds, ImageKinds
<1>2. \A opt \in f.opts : Asked(opt) = [by |-> {}, times |-> 0]
  BY <1>1 DEF Asked
<1>3. x # y /\ \A c \in {x, y} : c.loader \notin Reads /\ c.loader \notin Images
  BY DEF Call, Reads, Images
<1>4. {x} \in SUBSET CallsOn(f.on) /\ {y} \in SUBSET CallsOn(f.on)
  BY DEF Call, CallsOn, Loaders, Plain
<1> HIDE DEF x, y
<1>5. f.kind \in Lenient /\ ~OneByOne(f)
  BY DEF Lenient, Together, OneByOne
<1>6. Shape(p1, f) /\ Quiet(p1, f) /\ CallsOf(p1) = {x}
  BY <1>3, <1>4, <1>5, OneStage DEF Modes
<1>7. Shape(p2, f) /\ Quiet(p2, f) /\ CallsOf(p2) \subseteq {y}
  <2>1. Shape(q2, f) /\ Quiet(q2, f) /\ CallsOf(q2) = {y}
    BY <1>3, <1>4, <1>5, OneStage DEF Modes
  <2> HIDE DEF q2
  <2> QED
    BY <2>1, WhenPlan
<1>8. p[1] = [mode |-> "payload", calls |-> {x}] /\ 1 \in DOMAIN p
  BY <1>7 DEF Stage, Shape
<1> HIDE DEF p1, p2
<1>9. Shape(p, f) /\ Quiet(p, f) /\ CallsOf(p) \subseteq {x, y}
  <2>1. CallsOf(p1) \cap CallsOf(p2) = {}
    BY <1>3, <1>6, <1>7
  <2>2. Shape(p, f) /\ Quiet(p, f)
    BY <1>6, <1>7, <2>1, Joined
  <2>3. CallsOf(p) = CallsOf(p1) \cup CallsOf(p2)
    BY <1>6, <1>7, <2>1, Joined
  <2> QED
    BY <1>6, <1>7, <2>2, <2>3
<1> HIDE DEF p
<1>10. x \in Lasting(p)
  BY <1>8 DEF Lasting
<1>11. ASSUME NEW C, Writes(Lasting(p)) \subseteq C, C \subseteq Writes(CallsOf(p))
       PROVE  Fulfilled(C, f)
  <2>1. x \in C /\ \A d \in C : d.loader \notin Images
    BY <1>3, <1>9, <1>10, <1>11 DEF Writes
  <2>2. {c.item : c \in {d \in C : d.loader \in Images}} = 1..Recognised(f.items, f)
    BY <1>1, <2>1, NoImages
  <2>3. \A opt \in f.opts : Served(opt, C)
    BY <1>2, NotAsked
  <2> QED
    BY <2>1, <2>2, <2>3 DEF Fulfilled, Served, Granted
<1>12. SubmitOrder(f) = p
  BY DEF SubmitOrder, p, p1, p2, x, y
<1>13. f.kind \notin RereadKinds
  BY DEF RereadKinds, ListKinds
<1> QED
  BY <1>9, <1>11, <1>12, <1>13 DEF Good, Delivers

LEMMA EachInterestGood ==
  ASSUME NEW f, AField(f), f.kind \in BestEffort, NEW loader \in Plain
  PROVE  Good(EachInterest(loader, f), f)
<1>1. PICK items \in Nat : f.items = items
  BY DEF AField, MutationFields
<1> DEFINE p == EachInterest(loader, f)
           calls == {Call(loader, f.on, i) : i \in 1..items}
<1>2. Shape(p, f) /\ Quiet(p, f)
  <2>1. CASE items = 0
    BY <1>1, <2>1, NoStage DEF EachInterest
  <2>2. CASE items # 0
    <3>1. \A i \in 1..items : Call(loader, f.on, i) \in CallsOn(f.on)
      BY PlainLoaders DEF Call, CallsOn
    <3>2. \A c \in calls : c.loader \notin Images
      BY PlainLoaders DEF Call
    <3>3. calls \in SUBSET CallsOn(f.on) /\ calls # {}
      BY <2>2, <3>1
    <3>4. p = Stage("log", calls)
      BY <1>1, <2>2 DEF EachInterest
    <3> HIDE DEF p, calls
    <3> QED
      BY <3>2, <3>3, <3>4, OneStage DEF Modes, Lenient, Together, OneByOne
  <2> QED
    BY <2>1, <2>2
<1>3. f.kind \notin RereadKinds
  BY DEF BestEffort, RereadKinds, ListKinds
<1> QED
  BY <1>2, <1>3 DEF Good, Delivers

LEMMA UpdatePartnerShowGood ==
  ASSUME NEW f, AField(f), f.kind = "updatePartnerShow" PROVE Good(UpdatePartnerShow(f), f)
<1>1. /\ f.opts \subseteq {"add", "remove", "replace", "noEnd", "fair", "partner"}
      /\ f.items = 0
  BY DEF AField, Options, ItemKinds, ImageKinds
<1>2. \A opt \in f.opts : Asked(opt) = [by |-> {}, times |-> 0]
  BY <1>1 DEF Asked
<1>3. f.kind \notin RereadKinds
  BY DEF RereadKinds, ListKinds
<1>4. CASE Incremental(f) /\ "replace" \in f.opts
  BY <1>4, GiveUpGood DEF UpdatePartnerShow
<1>5. CASE ~(Incremental(f) /\ "replace" \in f.opts)
  <2> DEFINE reads == Incremental(f) \/ "noEnd" \in f.opts
             loader == IF "partner" \in f.opts THEN "updatePartnerShowLoader" ELSE "updateShowLoader"
             p1 == IF reads THEN Await("showLoader", f) ELSE <<>>
             c1 == IF reads THEN {Call("showLoader", f.on, 0)} ELSE {}
             c2 == {Call(loader, f.on, 0)}
  <2>1. Makes(p1, f, c1)
    BY Awaits, NoStage DEF Plain, Reads, Makes
  <2>2. loader \in Plain /\ loader \notin Reads /\ loader # "showLoader"
    BY DEF Plain, Reads
  <2>3. CASE "noEnd" \in f.opts /\ "fair" \notin f.opts
    <3> DEFINE p == p1 \o GiveUp("payload")
    <3>1. UpdatePartnerShow(f) = p
      BY <1>5, <2>3 DEF UpdatePartnerShow
    <3>2. /\ Shape(GiveUp("payload"), f) /\ Quiet(GiveUp("payload"), f)
          /\ CallsOf(GiveUp("payload")) = {}
      BY GivenUp
    <3> HIDE DEF p1
    <3>3. Shape(p, f) /\ Quiet(p, f)
      BY <2>1, <3>2, Joined DEF Makes
    <3>4. ~Filled(p)
      <4>1. /\ Len(p1) + 1 \in DOMAIN p
            /\ p[Len(p1) + 1] = [mode |-> "payload", calls |-> {}]
        BY <2>1 DEF Makes, Shape, GiveUp, Stage
      <4> QED
        BY <4>1 DEF Filled
    <3> QED
      BY <1>3, <3>1, <3>3, <3>4 DEF Good, Delivers
  <2>4. CASE ~("noEnd" \in f.opts /\ "fair" \notin f.opts)
    <3> DEFINE C == c1 \cup c2
               p == p1 \o Await(loader, f)
    <3>1. UpdatePartnerShow(f) = p
      BY <1>5, <2>4 DEF UpdatePartnerShow
    <3>2. c1 \cap c2 = {} /\ Writes(C) = c2
      BY <2>2 DEF Call, Writes, Reads
    <3>3. Makes(Await(loader, f), f, c2)
      BY <2>2, Awaits
    <3>4. c2 # {} /\ \A c \in c2 : c.loader \notin Images
      BY <2>2, PlainLoaders DEF Call
    <3> HIDE DEF p1, loader, c1, c2
    <3>5. Makes(p, f, C)
      BY <2>1, <3>2, <3>3, Then
    <3>6. Fulfilled(Writes(C), f)
      <4>1. {c.item : c \in {d \in c2 : d.loader \in Images}} = 1..Recognised(f.items, f)
        BY <1>1, <3>4, NoImages
      <4>2. \A opt \in f.opts : Served(opt, c2)
        BY <1>2, NotAsked
      <4> QED
        BY <3>2, <3>4, <4>1, <4>2 DEF Fulfilled, Served, Granted
    <3> HIDE DEF p, C
    <3> QED
      BY <1>3, <3>1, <3>5, <3>6, FirmDelivers DEF Good
  <2> QED
    BY <2>3, <2>4
<1> QED
  BY <1>4, <1>5

\* The mutations of lists and sets, and of conversations.
LEMMA ListKindGood ==
  ASSUME NEW f, AField(f), f.kind \in ListKinds \cup {"sendConversationMessage"}, NEW editioned \in BOOLEAN
  PROVE  Good(Body(f, editioned), f)
<1>1. /\ "addArtworkToPartnerListLoader" \in Plain /\ "addArtworkToPartnerListLoader" \notin Reads
      /\ "partnerListLoader" \in Reads
  BY DEF Plain, Reads
<1>2. /\ "addSetItemLoader" \in Plain /\ "addSetItemLoader" \notin Reads
      /\ "setLoader" \in Reads
  BY DEF Plain, Reads
<1>3. /\ "bulkAddArtworksToPartnerListLoader" \in Plain /\ "bulkAddArtworksToPartnerListLoader" \notin Reads
      /\ "partnerListLoader" \in Reads
  BY DEF Plain, Reads
<1>4. /\ "bulkDeleteArtworksFromPartnerListLoader" \in Plain /\ "bulkDeleteArtworksFromPartnerListLoader" \notin Reads
      /\ "partnerListLoader" \in Reads
  BY DEF Plain, Reads
<1>5. /\ "conversationCreateMessageLoader" \in Plain /\ "conversationCreateMessageLoader" \notin Reads
      /\ "conversationLoader" \in Reads
  BY DEF Plain, Reads
<1>6. /\ "deleteSetItemLoader" \in Plain /\ "deleteSetItemLoader" \notin Reads
      /\ "setLoader" \in Reads
  BY DEF Plain, Reads
<1>7. /\ "moveArtworksBetweenPartnerListsLoader" \in Plain /\ "moveArtworksBetweenPartnerListsLoader" \notin Reads
      /\ "partnerListLoader" \in Reads
  BY DEF Plain, Reads
<1>8. /\ "removeArtworkFromPartnerListLoader" \in Plain /\ "removeArtworkFromPartnerListLoader" \notin Reads
      /\ "partnerListLoader" \in Reads
  BY DEF Plain, Reads
<1>9. /\ "repositionPartnerListArtworksLoader" \in Plain /\ "repositionPartnerListArtworksLoader" \notin Reads
      /\ "partnerListLoader" \in Reads
  BY DEF Plain, Reads
<1>10. /\ "updatePartnerListArtworkLoader" \in Plain /\ "updatePartnerListArtworkLoader" \notin Reads
      /\ "partnerListLoader" \in Reads
  BY DEF Plain, Reads
<1>11. CASE f.kind = "addArtworkToPartnerList"
  <2>1. Body(f, editioned) = AddArtworkToPartnerList(f)
    BY <1>11 DEF Body
  <2> QED
    BY <1>1, <2>1, WriteAndRead DEF WriteList, AddArtworkToPartnerList
<1>12. CASE f.kind = "removeArtworkFromPartnerList"
  <2>1. Body(f, editioned) = RemoveArtworkFromPartnerList(f)
    BY <1>12 DEF Body
  <2> QED
    BY <1>8, <2>1, WriteAndRead DEF WriteList, RemoveArtworkFromPartnerList
<1>13. CASE f.kind = "bulkAddArtworksToPartnerList"
  <2>1. Body(f, editioned) = BulkAddArtworksToPartnerList(f)
    BY <1>13 DEF Body
  <2> QED
    BY <1>3, <2>1, WriteAndRead DEF WriteList, BulkAddArtworksToPartnerList
<1>14. CASE f.kind = "bulkDeleteArtworksFromPartnerList"
  <2>1. Body(f, editioned) = BulkDeleteArtworksFromPartnerList(f)
    BY <1>14 DEF Body
  <2> QED
    BY <1>4, <2>1, WriteAndRead DEF WriteList, BulkDeleteArtworksFromPartnerList
<1>15. CASE f.kind = "repositionPartnerListArtworks"
  <2>1. Body(f, editioned) = RepositionPartnerListArtworks(f)
    BY <1>15 DEF Body
  <2> QED
    BY <1>9, <2>1, WriteAndRead DEF WriteList, RepositionPartnerListArtworks
<1>16. CASE f.kind = "updatePartnerListArtworkPosition"
  <2>1. Body(f, editioned) = UpdatePartnerListArtworkPosition(f)
    BY <1>16 DEF Body
  <2> QED
    BY <1>10, <2>1, WriteAndRead DEF WriteList, UpdatePartnerListArtworkPosition
<1>17. CASE f.kind = "moveArtworksBetweenPartnerLists"
  <2>1. Body(f, editioned) = MoveArtworksBetweenPartnerLists(f)
    BY <1>17 DEF Body
  <2> QED
    BY <1>7, <2>1, WriteAndRead DEF WriteList, MoveArtworksBetweenPartnerLists
<1>18. CASE f.kind = "addOrderedSetItem"
  <2>1. Body(f, editioned) = AddOrderedSetItem(f)
    BY <1>18 DEF Body
  <2> QED
    BY <1>2, <2>1, WriteAndRead DEF AddOrderedSetItem
<1>19. CASE f.kind = "deleteOrderedSetItem"
  <2>1. Body(f, editioned) = DeleteOrderedSetItem(f)
    BY <1>19 DEF Body
  <2> QED
    BY <1>6, <2>1, WriteAndRead DEF DeleteOrderedSetItem
<1>20. CASE f.kind = "sendConversationMessage"
  <2>1. Body(f, editioned) = SendConversationMessage(f)
    BY <1>20 DEF Body
  <2> QED
    BY <1>5, <2>1, WriteAndRead DEF SendConversationMessage
<1> QED
  BY <1>11, <1>12, <1>13, <1>14, <1>15, <1>16, <1>17, <1>18, <1>19, <1>20 DEF ListKinds

\* Every body that a mutation may have is a sound plan, and delivers what its
\* input asks for (the mutations of src/src/schema/v2).
THEOREM EveryBodyIsGood ==
  ASSUME NEW f, AField(f), NEW editioned \in BOOLEAN
  PROVE  Good(Body(f, editioned), f)
<1>1. CASE f.kind \in ListKinds \cup {"sendConversationMessage"}
  BY <1>1, ListKindGood
<1>2. CASE f.kind = "myCollectionUpdateArtwork"
  BY <1>2, MyCollectionUpdateArtworkGood DEF Body
<1>3. CASE f.kind = "myCollectionCreateArtwork"
  BY <1>3, MyCollectionCreateArtworkGood DEF Body
<1>4. CASE f.kind = "updateArtwork"
  BY <1>4, UpdateArtworkGood DEF Body
<1>5. CASE f.kind = "createArtwork"
  BY <1>5, CreateArtworkGood DEF Body
<1>6. CASE f.kind = "createArtworkFromTemplate"
  BY <1>6, CreateArtworkFromTemplateGood DEF Body
<1>7. CASE f.kind = "createFeatureFlag"
  BY <1>7, CreateFeatureFlagGood DEF Body
<1>8. CASE f.kind = "updateMe"
  BY <1>8, UpdateMeGood DEF Body
<1>9. CASE f.kind = "createArtist"
  BY <1>9, ArtistOfPartnerGood DEF Body, CreateArtist
<1>10. CASE f.kind = "createCanonicalArtist"
  BY <1>10, ArtistOfPartnerGood DEF Body, CreateCanonicalArtist
<1>11. CASE f.kind = "createFeaturedLink"
  BY <1>11, CreateFeaturedLinkGood DEF Body
<1>12. CASE f.kind = "publishNavigationDraft"
  BY <1>12, PublishNavigationDraftGood DEF Body
<1>13. CASE f.kind = "deletePartnerShow"
  BY <1>13, DeletePartnerShowGood DEF Body
<1>14. CASE f.kind = "submitOrder"
  BY <1>14, SubmitOrderGood DEF Body
<1>15. CASE f.kind = "updatePartnerShow"
  BY <1>15, UpdatePartnerShowGood DEF Body
<1>16. CASE f.kind = "createUserInterests"
  <2>1. "meCreateUserInterestLoader" \in Plain /\ f.kind \in BestEffort
    BY <1>16 DEF Plain, BestEffort
  <2> QED
    BY <1>16, <2>1, EachInterestGood DEF Body, CreateUserInterests
<1>17. CASE f.kind = "updateUserInterests"
  <2>1. "meUpdateUserInterestLoader" \in Plain /\ f.kind \in BestEffort
    BY <1>17 DEF Plain, BestEffort
  <2> QED
    BY <1>17, <2>1, EachInterestGood DEF Body, UpdateUserInterests
<1>18. CASE f.kind = "deleteUserInterests"
  <2>1. "meDeleteUserInterestLoader" \in Plain /\ f.kind \in BestEffort
    BY <1>18 DEF Plain, BestEffort
  <2> QED
    BY <1>18, <2>1, EachInterestGood DEF Body, DeleteUserInterests
<1> QED
  <2>1. f.kind \in Kinds
    BY DEF AField, MutationFields
  <2> QED
    BY <2>1, <1>1, <1>2, <1>3, <1>4, <1>5, <1>6, <1>7, <1>8, <1>9, <1>10, <1>11, <1>12, <1>13, <1>14, <1>15, <1>16, <1>17, <1>18
       DEF Kinds, ItemKinds, ImageKinds

LEMMA FirstUpdate ==
  ASSUME NEW f, AField(f), f.kind = "myCollectionUpdateArtwork", NEW editioned \in BOOLEAN
  PROVE  /\ 1 \in DOMAIN Body(f, editioned)
         /\ Body(f, editioned)[1] = [mode |-> "try", calls |-> {Call("updateArtworkLoader", f.on, 0)}]
<1> DEFINE S == StagesOn(f.on)
           p1 == Await("updateArtworkLoader", f)
           p2 == IF ~editioned
                 THEN When("edition", f, Await("createArtworkEditionSetLoader", f))
                 ELSE IF "noEdition" \in f.opts
                 THEN Await("deleteArtworkEditionSetLoader", f)
                 ELSE Await("updateArtworkEditionSetLoader", f)
           p3 == AwaitEach("createArtworkImageLoader", f, Recognised(f.items, f))
           p4 == Await("artworkLoader", f)
<1>1. p1 \in Seq(S)
  BY AwaitPlan DEF Plain, Shape
<1>2. p2 \in Seq(S)
  <2>1. CASE ~editioned
    BY <2>1, AwaitsWhen DEF Plain, Makes, Shape
  <2>2. CASE editioned /\ "noEdition" \in f.opts
    BY <2>2, AwaitPlan DEF Plain, Shape
  <2>3. CASE editioned /\ ~("noEdition" \in f.opts)
    BY <2>3, AwaitPlan DEF Plain, Shape
  <2> QED
    BY <2>1, <2>2, <2>3
<1>3. p3 \in Seq(S)
  <2>1. PICK items \in Nat : Recognised(f.items, f) = items
    BY RecognisedType DEF ItemKinds, ImageKinds
  <2>2. "createArtworkImageLoader" \in Images /\ "createArtworkImageLoader" \in Loaders
    BY DEF Images, Loaders
  <2> QED
    BY <2>1, <2>2, AwaitEachPlan DEF Shape
<1>4. p4 \in Seq(S)
  BY AwaitPlan DEF Plain, Reads, Shape
<1>5. p1 = <<[mode |-> "try", calls |-> {Call("updateArtworkLoader", f.on, 0)}]>>
  BY DEF Await, Stage
<1>6. Body(f, editioned) = p1 \o p2 \o p3 \o p4
  BY DEF Body, MyCollectionUpdateArtwork
<1> HIDE DEF S, p1, p2, p3, p4
<1>7. /\ (p1 \o p2 \o p3 \o p4)[1] = p1[1]
      /\ 1 \in DOMAIN (p1 \o p2 \o p3 \o p4)
  BY <1>1, <1>2, <1>3, <1>4, <1>5
<1> QED
  BY <1>5, <1>6, <1>7

\* What the first call answers changes only what comes after it.
LEMMA FirstStage ==
  ASSUME NEW f, AField(f), NEW a \in BOOLEAN, NEW b \in BOOLEAN, 1 \in DOMAIN Body(f, a)
  PROVE  1 \in DOMAIN Body(f, b) /\ Body(f, b)[1] = Body(f, a)[1]
<1>1. CASE f.kind # "myCollectionUpdateArtwork"
  <2>1. Body(f, a) = Body(f, b)
    BY <1>1 DEF Body
  <2> QED
    BY <2>1
<1>2. CASE f.kind = "myCollectionUpdateArtwork"
  BY <1>2, FirstUpdate
<1> QED
  BY <1>1, <1>2

=============================================================================
