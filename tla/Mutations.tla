----------------------------- MODULE Mutations -----------------------------
(***************************************************************************)
(* The GraphQL mutations of src/src/schema/v2 that make several calls to   *)
(* the services behind metaphysics.  There is no transaction around the    *)
(* calls: each write is performed, refused or lost on its own, and the     *)
(* resolver turns what happened into one answer.                           *)
(*                                                                         *)
(* A document is a list of mutation fields, which GraphQL executes one     *)
(* after the other; documents of different requests run concurrently.  The *)
(* body of a mutateAndGetPayload is a plan: a list of stages, each a set   *)
(* of calls that are sent together and awaited together.  A call is named  *)
(* by its loader, the entity it is about and the number of the item it     *)
(* carries.  What a service keeps is the list of the writes it performed.  *)
(***************************************************************************)
EXTENDS Integers, Sequences, FiniteSets

CONSTANTS
  Requests,
  Things,           \* entities that mutations are about
  Documents,        \* [Requests -> the documents a request may hold]
  Artists,          \* slugs of artists
  InitialArtists,   \* those of a show before anything is performed
  Editioned,        \* artworks that have an edition set at first
  MaxFailures       \* bound: calls that are refused or lost

\* The kinds that send several calls for several items of their input.
ImageKinds == {"updateArtwork", "myCollectionCreateArtwork", "myCollectionUpdateArtwork"}
ItemKinds == ImageKinds \cup {"createArtwork", "createArtworkFromTemplate", "createUserInterests",
                              "updateUserInterests", "deleteUserInterests"}

\* The kinds that write, and read the entity again.
ListKinds ==
  {"addArtworkToPartnerList", "removeArtworkFromPartnerList", "bulkAddArtworksToPartnerList",
   "bulkDeleteArtworksFromPartnerList", "repositionPartnerListArtworks",
   "updatePartnerListArtworkPosition", "moveArtworksBetweenPartnerLists", "addOrderedSetItem",
   "deleteOrderedSetItem"}

\* What the input of a kind may ask for besides, as far as the resolver looks at
\* it; whether there is to be an edition set is one Boolean of the input.  With
\* "foreignUrl", one of the image URLs has a form computeImageSources does not know.
Options(kind) ==
  CASE kind = "myCollectionCreateArtwork" ->
         SUBSET {"artistIds", "artists", "edition", "foreignUrl"}
    [] kind = "myCollectionUpdateArtwork" ->
         {o \in SUBSET {"edition", "noEdition", "foreignUrl"} : ~({"edition", "noEdition"} \subseteq o)}
    [] kind = "updateArtwork" -> SUBSET {"defaultImage", "editionSets"}
    [] kind = "createArtwork" -> SUBSET {"mismatch", "show"}
    [] kind = "createArtworkFromTemplate" -> SUBSET {"mismatch"}
    [] kind = "createFeatureFlag" -> SUBSET {"strategy", "variants"}
    [] kind = "updateMe" -> {o \in SUBSET {"icon", "foreignUrl", "social"} :
                               "foreignUrl" \in o => "icon" \in o}
    [] kind \in {"createArtist", "createCanonicalArtist"} -> SUBSET {"represented"}
    [] kind = "createFeaturedLink" -> SUBSET {"orderedSet"}
    [] kind = "publishNavigationDraft" -> SUBSET {"groupID", "versionID"}
    [] kind = "deletePartnerShow" -> SUBSET {"partner"}
    [] kind = "submitOrder" -> SUBSET {"offer"}
    [] kind = "updatePartnerShow" ->
         SUBSET {"add", "remove", "replace", "noEnd", "fair", "partner"}
    [] OTHER -> {{}}

Kinds == ItemKinds \cup ListKinds \cup
  {"createFeatureFlag", "updateMe", "createArtist", "createCanonicalArtist", "createFeaturedLink",
   "publishNavigationDraft", "deletePartnerShow", "submitOrder", "updatePartnerShow",
   "sendConversationMessage"}

MutationFields == [kind : Kinds, on : Things, items : Nat,
                   opts : UNION {Options(kind) : kind \in Kinds}, artists : SUBSET Artists]

ASSUME ArtistAssumption == InitialArtists \subseteq Artists
ASSUME FailureAssumption == MaxFailures \in Nat
ASSUME DocumentAssumption ==
  /\ Documents \subseteq [Requests -> [signedIn : BOOLEAN, fields : Seq(MutationFields)]]
  /\ \A d \in Documents : \A r \in Requests : \A k \in DOMAIN d[r].fields :
       LET f == d[r].fields[k]
       IN  /\ f.opts \in Options(f.kind)
           /\ f.kind \notin ItemKinds => f.items = 0
           /\ "foreignUrl" \in f.opts /\ f.kind \in ItemKinds => f.items > 0
           /\ f.opts \cap {"add", "remove"} # {} => f.artists # {}

VARIABLES
  document,  \* [Requests -> document]
  replies,   \* the answers to a request's fields, in order
  stage,     \* the stage of the current field that is awaited, 0 before it
  settled,   \* the calls of that stage that have their answer
  seen,      \* for each stage: how many writes its answer reflects
  memo,      \* DataLoader's memo of the request: reads already answered
  wire,      \* calls the services have yet to process, or to answer
  log,       \* the writes the services performed, in order
  failures   \* calls refused or lost so far

vars == <<document, replies, stage, settled, seen, memo, wire, log, failures>>

-----------------------------------------------------------------------------
(* Plans.                                                                  *)

Call(loader, on, item) == [loader |-> loader, on |-> on, item |-> item]

Stage(mode, calls) == <<[mode |-> mode, calls |-> calls]>>

\* One awaited call.
Await(loader, f) == Stage("try", {Call(loader, f.on, 0)})

\* Promise.all over the items of the input.
AwaitAll(loader, f) ==
  IF f.items = 0 THEN <<>>
  ELSE Stage("try", {Call(loader, f.on, i) : i \in 1..f.items})

\* A loop that awaits one call in each of n iterations.
AwaitEach(loader, f, n) ==
  [i \in 1..n |-> [mode |-> "try", calls |-> {Call(loader, f.on, i)}]]

\* How many of n URLs computeImageSources makes an image source of: it drops what
\* is neither in a bucket of S3 nor, but for the icon, starts with "http".
Recognised(n, f) == IF "foreignUrl" \in f.opts THEN n - 1 ELSE n

\* Calls outside of try: a failure is not made into a payload.
Unguarded(stages) == [i \in DOMAIN stages |-> [stages[i] EXCEPT !.mode = "bare"]]

\* The resolver gives up without a call.
GiveUp(result) == Stage(result, {})

When(opt, f, stages) == IF opt \in f.opts THEN stages ELSE <<>>

\* Whether the artwork has an edition set after the first n writes.
HasEditionSet(on, n) ==
  LET Count(loader) == Cardinality({i \in 1..n : log[i].on = on /\ log[i].loader = loader})
  IN  (IF on \in Editioned THEN 1 ELSE 0) + Count("createArtworkEditionSetLoader")
        > Count("deleteArtworkEditionSetLoader")

MyCollectionCreateArtwork(f) ==
  IF f.opts \cap {"artistIds", "artists"} = {} THEN GiveUp("thrown")
  ELSE When("artists", f, Unguarded(AwaitAll("createArtistLoader", [f EXCEPT !.items = 2])))
       \o Await("createArtworkLoader", f)
       \o When("edition", f, Await("createArtworkEditionSetLoader", f))
       \o AwaitEach("createArtworkImageLoader", f, Recognised(f.items, f))
       \o Await("artworkLoader", f)

\* Mutant: the edition set of an artwork that had none is forgotten.
MyCollectionUpdateArtworkInPlace(f, editioned) ==
  Await("updateArtworkLoader", f)
  \o (IF ~editioned THEN <<>> ELSE Await("updateArtworkEditionSetLoader", f))
  \o AwaitEach("createArtworkImageLoader", f, Recognised(f.items, f))
  \o Await("artworkLoader", f)

\* editioned: whether the answer of the first call shows an edition set.
MyCollectionUpdateArtwork(f, editioned) ==
  LET EditionSet ==
        IF ~editioned
        THEN When("edition", f, Await("createArtworkEditionSetLoader", f))
        ELSE IF "noEdition" \in f.opts
        THEN Await("deleteArtworkEditionSetLoader", f)
        ELSE Await("updateArtworkEditionSetLoader", f)
  IN  Await("updateArtworkLoader", f) \o EditionSet
      \o AwaitEach("createArtworkImageLoader", f, Recognised(f.items, f))
      \o Await("artworkLoader", f)

\* Mutant: the images are attached in parallel.
UpdateArtworkInParallel(f) ==
  AwaitAll("addImageToArtworkLoader", f) \o Await("updateArtworkLoader", f)

UpdateArtwork(f) ==
  AwaitEach("addImageToArtworkLoader", f, f.items)
  \o When("defaultImage", f, Await("setDefaultArtworkImageLoader", f))
  \o When("editionSets", f,
          Stage("try", {Call("updateArtworkEditionSetLoader", f.on, 1),
                        Call("deleteArtworkEditionSetLoader", f.on, 2),
                        Call("createArtworkEditionSetLoader", f.on, 3)}))
  \o Await("updateArtworkLoader", f)

CreateArtwork(f) ==
  IF "mismatch" \in f.opts THEN GiveUp("thrown")
  ELSE Await("createArtworkLoader", f) \o AwaitAll("addImageToArtworkLoader", f)
       \o When("show", f, Await("addArtworkToPartnerShowLoader", f))

CreateArtworkFromTemplate(f) ==
  IF "mismatch" \in f.opts THEN GiveUp("payload")
  ELSE Await("createArtworkFromTemplateLoader", f)
       \o AwaitAll("addImageToArtworkLoader", f)

CreateFeatureFlag(f) ==
  Unguarded(Await("adminCreateFeatureFlag", f)
            \o When("strategy", f, AwaitAll("addFeatureFlagStrategy", [f EXCEPT !.items = 2]))
            \o When("variants", f, Await("addFeatureFlagVariant", f)))

UpdateMe(f) ==
  When("icon", f, AwaitEach("updateCollectorProfileIconLoader", f, Recognised(1, f)))
  \o When("social", f, Await("meUpdateCollectorProfileLoader", f))
  \o Await("updateMeLoader", f)

ArtistOfPartner(f) ==
  Await("createArtistLoader", f)
  \o When("represented", f, Await("createPartnerArtistLoader", f))

CreateArtist(f) == ArtistOfPartner(f)

\* Differs in one field of the input, which decides nothing here.
CreateCanonicalArtist(f) == ArtistOfPartner(f)

CreateFeaturedLink(f) ==
  Await("createFeaturedLinkLoader", f)
  \o When("orderedSet", f, Await("addSetItemLoader", f))

\* Mutant: the list is read together with the write.
WriteListAtOnce(loader, f) ==
  Stage("try", {Call(loader, f.on, 0), Call("partnerListLoader", f.on, 0)})

\* The mutations of a partner's list write, and read the list again.
WriteList(loader, f) == Await(loader, f) \o Await("partnerListLoader", f)

AddArtworkToPartnerList(f) == WriteList("addArtworkToPartnerListLoader", f)
RemoveArtworkFromPartnerList(f) == WriteList("removeArtworkFromPartnerListLoader", f)
BulkAddArtworksToPartnerList(f) == WriteList("bulkAddArtworksToPartnerListLoader", f)
BulkDeleteArtworksFromPartnerList(f) == WriteList("bulkDeleteArtworksFromPartnerListLoader", f)
RepositionPartnerListArtworks(f) == WriteList("repositionPartnerListArtworksLoader", f)
UpdatePartnerListArtworkPosition(f) == WriteList("updatePartnerListArtworkLoader", f)
MoveArtworksBetweenPartnerLists(f) == WriteList("moveArtworksBetweenPartnerListsLoader", f)

AddOrderedSetItem(f) == Await("addSetItemLoader", f) \o Await("setLoader", f)

DeleteOrderedSetItem(f) == Await("deleteSetItemLoader", f) \o Await("setLoader", f)

\* The promise chain ends in a catch that throws a new Error.
SendConversationMessage(f) ==
  Unguarded(Await("conversationCreateMessageLoader", f) \o Await("conversationLoader", f))

PublishNavigationDraft(f) ==
  IF ("groupID" \in f.opts) = ("versionID" \in f.opts) THEN GiveUp("thrown")
  ELSE IF "versionID" \in f.opts THEN Await("publishNavigationVersionLoader", f)
  ELSE Await("publishNavigationDraftLoader", f)

DeletePartnerShow(f) ==
  Await(IF "partner" \in f.opts THEN "deletePartnerShowLoader" ELSE "deleteShowLoader", f)

\* An offer becomes an inquiry too; that call's failure is only logged.  Any
\* failure of the submission is made into a payload, a lost answer included.
SubmitOrder(f) ==
  Stage("payload", {Call("meOrderSubmitLoader", f.on, 0)})
  \o When("offer", f, Stage("log", {Call("submitArtworkInquiryRequestLoader", f.on, 0)}))

\* Each item has its own try; the answer lists what became of each.
EachInterest(loader, f) ==
  IF f.items = 0 THEN <<>>
  ELSE Stage("log", {Call(loader, f.on, i) : i \in 1..f.items})

CreateUserInterests(f) == EachInterest("meCreateUserInterestLoader", f)

UpdateUserInterests(f) == EachInterest("meUpdateUserInterestLoader", f)

DeleteUserInterests(f) == EachInterest("meDeleteUserInterestLoader", f)

\* artistIds replaces the artists; addArtistIds and removeArtistIds change
\* those that showLoader returned.
Incremental(f) == f.opts \cap {"add", "remove"} # {}

UpdatePartnerShow(f) ==
  IF Incremental(f) /\ "replace" \in f.opts THEN GiveUp("thrown")
  ELSE (IF Incremental(f) \/ "noEnd" \in f.opts THEN Await("showLoader", f) ELSE <<>>)
       \o (IF "noEnd" \in f.opts /\ "fair" \notin f.opts THEN GiveUp("payload")
           ELSE Await(IF "partner" \in f.opts THEN "updatePartnerShowLoader"
                      ELSE "updateShowLoader", f))

\* What a mutation does once its loaders are there.
Body(f, editioned) ==
  CASE f.kind = "myCollectionCreateArtwork" -> MyCollectionCreateArtwork(f)
    [] f.kind = "myCollectionUpdateArtwork" -> MyCollectionUpdateArtwork(f, editioned)
    [] f.kind = "updateArtwork" -> UpdateArtwork(f)
    [] f.kind = "createArtwork" -> CreateArtwork(f)
    [] f.kind = "createArtworkFromTemplate" -> CreateArtworkFromTemplate(f)
    [] f.kind = "createFeatureFlag" -> CreateFeatureFlag(f)
    [] f.kind = "updateMe" -> UpdateMe(f)
    [] f.kind = "createArtist" -> CreateArtist(f)
    [] f.kind = "createCanonicalArtist" -> CreateCanonicalArtist(f)
    [] f.kind = "createFeaturedLink" -> CreateFeaturedLink(f)
    [] f.kind = "addArtworkToPartnerList" -> AddArtworkToPartnerList(f)
    [] f.kind = "removeArtworkFromPartnerList" -> RemoveArtworkFromPartnerList(f)
    [] f.kind = "bulkAddArtworksToPartnerList" -> BulkAddArtworksToPartnerList(f)
    [] f.kind = "bulkDeleteArtworksFromPartnerList" -> BulkDeleteArtworksFromPartnerList(f)
    [] f.kind = "repositionPartnerListArtworks" -> RepositionPartnerListArtworks(f)
    [] f.kind = "updatePartnerListArtworkPosition" -> UpdatePartnerListArtworkPosition(f)
    [] f.kind = "moveArtworksBetweenPartnerLists" -> MoveArtworksBetweenPartnerLists(f)
    [] f.kind = "addOrderedSetItem" -> AddOrderedSetItem(f)
    [] f.kind = "deleteOrderedSetItem" -> DeleteOrderedSetItem(f)
    [] f.kind = "sendConversationMessage" -> SendConversationMessage(f)
    [] f.kind = "publishNavigationDraft" -> PublishNavigationDraft(f)
    [] f.kind = "deletePartnerShow" -> DeletePartnerShow(f)
    [] f.kind = "submitOrder" -> SubmitOrder(f)
    [] f.kind = "createUserInterests" -> CreateUserInterests(f)
    [] f.kind = "updateUserInterests" -> UpdateUserInterests(f)
    [] f.kind = "deleteUserInterests" -> DeleteUserInterests(f)
    [] f.kind = "updatePartnerShow" -> UpdatePartnerShow(f)

\* n is the number of writes that the answer of the first stage reflects.
\* Without a user's token the loaders that need one are undefined.
Plan(r, f, n) ==
  IF document[r].signedIn THEN Body(f, HasEditionSet(f.on, n))
  ELSE GiveUp(IF f.kind = "sendConversationMessage" THEN "null" ELSE "thrown")

-----------------------------------------------------------------------------
(* Execution.                                                              *)

Reads == {"artworkLoader", "partnerListLoader", "setLoader", "conversationLoader", "showLoader"}

Fields(r) == document[r].fields

\* The number of the field that is being executed.
Current(r) == Len(replies[r]) + 1

Running(r) == Current(r) <= Len(Fields(r))

\* Mutant: what the first answer says is ignored.
KnownNothing(r) == 0

\* What the answer of the field's first stage reflects.
Known(r) == IF seen[r] = <<>> THEN 0 ELSE seen[r][1]

CurrentPlan(r) == Plan(r, Fields(r)[Current(r)], Known(r))

\* The artists of a show after the first n writes.
ArtistsAt(on, n) ==
  LET changes == {i \in 1..n : log[i].on = on /\ log[i].value # {}}
  IN  IF changes = {} THEN InitialArtists
      ELSE UNION log[CHOOSE i \in changes : \A j \in changes : j <= i].value

Merged(f, existing) ==
  LET added == IF "add" \in f.opts THEN existing \cup f.artists ELSE existing
  IN  IF "remove" \in f.opts THEN added \ f.artists ELSE added

\* The artists an update sends, if any: a set of at most one set.  An empty list
\* does not survive the query string that the body of the PUT is made from.
Value(f, loader, n) ==
  IF loader \notin {"updatePartnerShowLoader", "updateShowLoader"} THEN {}
  ELSE {s \in {Merged(f, ArtistsAt(f.on, n))} : Incremental(f) /\ s # {}}
       \cup {s \in {f.artists} : "replace" \in f.opts /\ s # {}}

Request(r, c, v) ==
  [by |-> <<r, Current(r)>>, stage |-> stage[r] + 1, call |-> c, value |-> v,
   state |-> "sent", sees |-> 0]

Entry(q) ==
  [by |-> q.by, loader |-> q.call.loader, on |-> q.call.on, item |-> q.call.item,
   value |-> q.value]

Init ==
  /\ document \in Documents
  /\ replies = [r \in Requests |-> <<>>]
  /\ stage = [r \in Requests |-> 0]
  /\ settled = [r \in Requests |-> {}]
  /\ seen = [r \in Requests |-> <<>>]
  /\ memo = [r \in Requests |-> {}]
  /\ wire = {}
  /\ log = <<>>
  /\ failures = 0

\* Mutant: the next field starts where this one ended.
ReplyWithoutReset(r, result) ==
  /\ replies' = [replies EXCEPT ![r] = Append(@, [result |-> result, sees |-> 0])]
  /\ seen' = [seen EXCEPT ![r] = <<>>]
  /\ UNCHANGED <<stage, settled>>

\* The resolver's promise settles; the field is done.
Reply(r, result) ==
  /\ replies' = [replies EXCEPT ![r] =
                   Append(@, [result |-> result,
                              sees |-> IF seen[r] = <<>> THEN 0 ELSE seen[r][Len(seen[r])]])]
  /\ stage' = [stage EXCEPT ![r] = 0]
  /\ settled' = [settled EXCEPT ![r] = {}]
  /\ seen' = [seen EXCEPT ![r] = <<>>]

\* Mutant: the await returns with the first answer.
AwaitedFirst(r) ==
  /\ Running(r)
  /\ stage[r] > 0 => settled[r] # {}

\* The await returns: every call of the stage has its answer.
Awaited(r) ==
  /\ Running(r)
  /\ stage[r] > 0 => settled[r] = CurrentPlan(r)[stage[r]].calls

Finish(r) ==
  /\ Awaited(r)
  /\ stage[r] = Len(CurrentPlan(r))
  /\ Reply(r, "success")
  /\ UNCHANGED <<document, memo, wire, log, failures>>

GivesUp(r) ==
  /\ Awaited(r)
  /\ stage[r] < Len(CurrentPlan(r))
  /\ CurrentPlan(r)[stage[r] + 1].calls = {}
  /\ Reply(r, CurrentPlan(r)[stage[r] + 1].mode)
  /\ UNCHANGED <<document, memo, wire, log, failures>>

\* A read that the request's memo has is answered without a call.
Memoised(r, c) == {m \in memo[r] : m.loader = c.loader /\ m.on = c.on}

Send(r) ==
  /\ Awaited(r)
  /\ stage[r] < Len(CurrentPlan(r))
  /\ LET f == Fields(r)[Current(r)]
         calls == CurrentPlan(r)[stage[r] + 1].calls
         fresh == {c \in calls : Memoised(r, c) = {}}
         old == UNION {Memoised(r, c) : c \in calls}
     IN  /\ calls # {}
         /\ wire' = wire \cup {Request(r, c, Value(f, c.loader, Known(r))) : c \in fresh}
         /\ settled' = [settled EXCEPT ![r] = calls \ fresh]
         /\ seen' = [seen EXCEPT ![r] =
                       Append(@, IF old = {} THEN 0 ELSE (CHOOSE m \in old : TRUE).sees)]
  /\ stage' = [stage EXCEPT ![r] = @ + 1]
  /\ UNCHANGED <<document, replies, memo, log, failures>>

Replace(q, p) == wire' = (wire \ {q}) \cup {p}

ServiceReads(q) ==
  /\ q.state = "sent" /\ q.call.loader \in Reads
  /\ Replace(q, [q EXCEPT !.state = "answered", !.sees = Len(log)])
  /\ UNCHANGED <<document, replies, stage, settled, seen, memo, log, failures>>

ServiceWrites(q) ==
  /\ q.state = "sent" /\ q.call.loader \notin Reads
  /\ log' = Append(log, Entry(q))
  /\ Replace(q, [q EXCEPT !.state = "answered", !.sees = Len(log')])
  /\ UNCHANGED <<document, replies, stage, settled, seen, memo, failures>>

\* A write whose caller gave up waiting is performed all the same.
ServiceWritesLate(q) ==
  /\ q.state = "abandoned"
  /\ log' = Append(log, Entry(q))
  /\ wire' = wire \ {q}
  /\ UNCHANGED <<document, replies, stage, settled, seen, memo, failures>>

\* The stage that sent q is still awaited.
Wanted(r, q) == q.by = <<r, Current(r)>> /\ stage[r] = q.stage /\ Running(r)

Answer(r, q) ==
  /\ q.by[1] = r /\ q.state = "answered"
  /\ wire' = wire \ {q}
  /\ memo' = IF q.call.loader \in Reads
             THEN [memo EXCEPT ![r] = @ \cup {[loader |-> q.call.loader, on |-> q.call.on,
                                               sees |-> q.sees]}]
             ELSE memo
  /\ \/ /\ Wanted(r, q)
        /\ settled' = [settled EXCEPT ![r] = @ \cup {q.call}]
        /\ seen' = [seen EXCEPT ![r][q.stage] = q.sees]
     \/ /\ ~Wanted(r, q)
        /\ UNCHANGED <<settled, seen>>
  /\ UNCHANGED <<document, replies, stage, log, failures>>

\* What the resolver makes of a failed call, by the stage it belongs to: an
\* HTTP error is formatted as a payload, anything else is thrown again.
ResultOf(mode, how) ==
  IF mode = "payload" \/ (mode = "try" /\ how = "http") THEN "payload" ELSE "thrown"

\* Mutant: a failure that is logged is not counted as an answer.
FailUncounted(r, q, how) ==
  \/ /\ Wanted(r, q) /\ CurrentPlan(r)[stage[r]].mode # "log"
     /\ Reply(r, ResultOf(CurrentPlan(r)[stage[r]].mode, how))
  \/ /\ Wanted(r, q) => CurrentPlan(r)[stage[r]].mode = "log"
     /\ UNCHANGED <<replies, stage, settled, seen>>

Fail(r, q, how) ==
  LET mode == CurrentPlan(r)[stage[r]].mode
  IN  \/ /\ Wanted(r, q) /\ mode # "log"
         /\ Reply(r, ResultOf(mode, how))
      \/ /\ Wanted(r, q) /\ mode = "log"
         /\ settled' = [settled EXCEPT ![r] = @ \cup {q.call}]
         /\ UNCHANGED <<replies, stage, seen>>
      \/ /\ ~Wanted(r, q)
         /\ UNCHANGED <<replies, stage, settled, seen>>

MayFail == failures < MaxFailures /\ failures' = failures + 1

\* The service answers with an error, having done nothing.
Refuse(r, q) ==
  /\ MayFail
  /\ q.by[1] = r /\ q.state = "sent"
  /\ wire' = wire \ {q}
  /\ Fail(r, q, "http")
  /\ UNCHANGED <<document, memo, log>>

\* The connection breaks or times out, before or after the service acts; or a
\* gateway says so in its place (502, 503, 504), which is an HTTP error as well.
Lose(r, q, how) ==
  /\ MayFail
  /\ q.by[1] = r /\ q.state \in {"sent", "answered"}
  /\ IF q.state = "sent" /\ q.call.loader \notin Reads
     THEN Replace(q, [q EXCEPT !.state = "abandoned"])
     ELSE wire' = wire \ {q}
  /\ how \in {"http", "lost"}
  /\ Fail(r, q, how)
  /\ UNCHANGED <<document, memo, log>>

Resolve(r) == Finish(r) \/ GivesUp(r) \/ Send(r)

Serve(q) == ServiceReads(q) \/ ServiceWrites(q)

Next ==
  \/ \E r \in Requests : Resolve(r)
  \/ \E q \in wire : Serve(q) \/ ServiceWritesLate(q)
  \/ \E r \in Requests : \E q \in wire :
       \/ Answer(r, q)
       \/ Refuse(r, q)
       \/ \E how \in {"http", "lost"} : Lose(r, q, how)

(***************************************************************************)
(* The process runs what is ready, and services answer what is not lost.   *)
(* That a call is answered or fails is what the loaders below guarantee    *)
(* (CachedLoader's EveryLoadSettles).                                      *)
(***************************************************************************)
Spec == Init /\ [][Next]_vars

FairSpec ==
  /\ Spec
  /\ \A r \in Requests : WF_vars(Resolve(r)) /\ WF_vars(\E q \in wire : Answer(r, q))
  /\ WF_vars(\E q \in wire : Serve(q))

-----------------------------------------------------------------------------
Modes == {"try", "bare", "payload", "log"}

Stages(plan) == \A i \in DOMAIN plan :
  plan[i].mode \in (IF plan[i].calls = {} THEN {"thrown", "payload", "null"} ELSE Modes)

\* The types of the variables; what is awaited is a part of the current plan.
TypeOK ==
  /\ document \in Documents
  /\ \A r \in Requests :
       /\ Len(replies[r]) <= Len(Fields(r))
       /\ \A k \in DOMAIN replies[r] :
            replies[r][k].result \in {"success", "payload", "thrown", "null"}
       /\ Len(seen[r]) = stage[r]
       /\ Running(r) => /\ Stages(CurrentPlan(r))
                        /\ stage[r] <= Len(CurrentPlan(r))
                        /\ stage[r] > 0 => settled[r] \subseteq CurrentPlan(r)[stage[r]].calls
  /\ \A q \in wire : q.state \in {"sent", "answered", "abandoned"} /\ q.by[1] \in Requests
  /\ failures \in 0..MaxFailures

\* The writes of the k-th field of request r, as positions of the log.
Own(r, k) == {i \in DOMAIN log : log[i].by = <<r, k>>}

OwnBy(r, k, loaders) == {i \in Own(r, k) : log[i].loader \in loaders}

Succeeded(r) == {k \in DOMAIN replies[r] : replies[r][k].result = "success"}

Images == {"addImageToArtworkLoader", "createArtworkImageLoader"}

\* How many writes an option of the input asks for, and of which loaders.
Asked(opt) ==
  CASE opt = "artists" -> [by |-> {"createArtistLoader"}, times |-> 2]
    [] opt = "edition" -> [by |-> {"createArtworkEditionSetLoader",
                                   "updateArtworkEditionSetLoader"}, times |-> 1]
    [] opt = "editionSets" -> [by |-> {"createArtworkEditionSetLoader",
                                       "updateArtworkEditionSetLoader",
                                       "deleteArtworkEditionSetLoader"}, times |-> 3]
    [] opt = "defaultImage" -> [by |-> {"setDefaultArtworkImageLoader"}, times |-> 1]
    [] opt = "show" -> [by |-> {"addArtworkToPartnerShowLoader"}, times |-> 1]
    [] opt = "strategy" -> [by |-> {"addFeatureFlagStrategy"}, times |-> 2]
    [] opt = "variants" -> [by |-> {"addFeatureFlagVariant"}, times |-> 1]
    [] opt = "icon" -> [by |-> {"updateCollectorProfileIconLoader"}, times |-> 1]
    [] opt = "social" -> [by |-> {"meUpdateCollectorProfileLoader"}, times |-> 1]
    [] opt = "represented" -> [by |-> {"createPartnerArtistLoader"}, times |-> 1]
    [] opt = "orderedSet" -> [by |-> {"addSetItemLoader"}, times |-> 1]
    [] OTHER -> [by |-> {}, times |-> 0]

BestEffort == {"createUserInterests", "updateUserInterests", "deleteUserInterests"}

\* What the input asks for and the resolver passes on.
Granted(f) == IF "foreignUrl" \in f.opts THEN f.opts \ {"icon"} ELSE f.opts

\* A field that reports success has done everything its input asks for, each
\* part once: all images in, the edition set, the show, the flag's strategy in
\* both environments.  It is not quite so: an image or an icon whose URL has a
\* form that computeImageSources does not know is left out, and success is
\* reported without it; submitOrder's inquiry and the interests, which report
\* item by item, may be missing too (the try around every mutation body).
SuccessMeansDone ==
  \A r \in Requests : \A k \in Succeeded(r) :
    LET f == Fields(r)[k]
    IN  f.kind \notin BestEffort =>
          /\ Own(r, k) # {}
          /\ {log[i].item : i \in OwnBy(r, k, Images)} = 1..Recognised(f.items, f)
          /\ \A opt \in Granted(f) : Cardinality(OwnBy(r, k, Asked(opt).by)) = Asked(opt).times

\* "Loading the artwork again to get the updated version with the new images"
\* (src/src/schema/v2/me/myCollectionUpdateArtworkMutation.ts:316): the entity a
\* mutation reads last reflects all that its field wrote, as long as no earlier
\* field of the document read the same entity into the request's memo.  Gravity
\* reads its own writes; of impulse the source says that it does not
\* (conversation/send_message_mutation.ts:157-159), so sendConversationMessage,
\* which returns the message it sent instead, is not among the kinds.
RereadShowsOwnWrites ==
  \A r \in Requests : \A k \in Succeeded(r) :
    LET f == Fields(r)[k]
    IN  /\ f.kind \in ListKinds \cup {"myCollectionCreateArtwork", "myCollectionUpdateArtwork"}
        /\ \A j \in 1..(k - 1) : Fields(r)[j].on # f.on
        => \A i \in Own(r, k) : i <= replies[r][k].sees

\* "Attach all images sequentially to avoid race conditions"
\* (src/src/schema/v2/artwork/updateArtworkMutation.ts:417): gravity gets an
\* image only after the ones before it, whatever fails or comes late.
ImagesInOrder ==
  \A r \in Requests : \A k \in DOMAIN Fields(r) :
    Fields(r)[k].kind \in ImageKinds =>
      \A i \in OwnBy(r, k, Images) : \A n \in 1..(log[i].item - 1) :
        \E j \in OwnBy(r, k, Images) : j < i /\ log[j].item = n

\* The fields of one document, with every call answered, leave at most one
\* edition set on an artwork of a collection: the later one finds the set of
\* the earlier (response.edition_sets of the update).
EditionSetIsSingle ==
  \A r \in Requests :
    /\ failures = 0
    /\ \A i \in DOMAIN log : log[i].by[1] = r
    /\ \A k \in DOMAIN Fields(r) : Fields(r)[k].kind = "myCollectionUpdateArtwork"
    => \A on \in {log[i].on : i \in DOMAIN log} :
         LET Writes(loader) == {i \in DOMAIN log : log[i].on = on /\ log[i].loader = loader}
         IN  Cardinality(Writes("createArtworkEditionSetLoader"))
               <= 1 + Cardinality(Writes("deleteArtworkEditionSetLoader"))

\* Fields that send calls together, or go on when one of them fails.
Lenient == BestEffort \cup {"submitOrder"}
Together == Lenient \cup {"createArtwork", "createArtworkFromTemplate"}

OneByOne(f) ==
  f.kind \notin Together /\ f.opts \cap {"artists", "strategy", "editionSets"} = {}

\* After a success nothing more is written, but for the calls whose failure is
\* only logged.  A failure promises nothing, not even the payload that
\* formatGravityError makes of a gateway's error: its call may be performed
\* later.  But where calls are awaited one by one, that is the only one, so that
\* a retry, or the next field of the document, races with at most one write.
NoLateWrites ==
  [][\A i \in DOMAIN log' \ DOMAIN log : \A r \in Requests :
       log'[i].by[1] = r /\ log'[i].by[2] \in DOMAIN replies[r] =>
         LET k == log'[i].by[2]
         IN  /\ replies[r][k].result = "success" => Fields(r)[k].kind \in Lenient
             /\ OneByOne(Fields(r)[k]) => \A q \in wire' : q.by # log'[i].by]_vars

\* Every field of every document is answered, whatever is refused or lost: no
\* failure leaves a resolver waiting (Promise.all, the try of each item).
EveryFieldAnswered ==
  <>(\A r \in Requests : Len(replies[r]) = Len(Fields(r)))

\* "artistIds is a full replace; addArtistIds/removeArtistIds are incremental"
\* (src/src/schema/v2/Show/updatePartnerShowMutation.ts:204-205): an incremental
\* update leaves the artists it does not name as they are.
IncrementalUpdates ==
  \A i \in DOMAIN log :
    LET f == Fields(log[i].by[1])[log[i].by[2]]
    IN  log[i].value # {} /\ Incremental(f) =>
          ArtistsAt(log[i].on, i) \ f.artists = ArtistsAt(log[i].on, i - 1) \ f.artists
=============================================================================
