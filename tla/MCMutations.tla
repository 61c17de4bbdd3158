----------------------------- MODULE MCMutations -----------------------------
(***************************************************************************)
(* Documents: one field of every kind of mutation with every option it     *)
(* looks at; two fields on the same entity in one document; two requests   *)
(* on the same entity.                                                     *)
(***************************************************************************)
EXTENDS Mutations

CONSTANTS r1, r2, thing, ada, ben, cy

Field(kind, items, opts) ==
  [kind |-> kind, on |-> thing, items |-> items, opts |-> opts, artists |-> {}]

\* The options a kind looks at, one field for each choice worth making.
Variants(kind, choices, opts) ==
  {Field(kind, n, o) : n \in choices, o \in opts}

ShowField(opts, artists) == [Field("updatePartnerShow", 0, opts) EXCEPT !.artists = artists]

ShowFields ==
  {ShowField({"add"}, {ben}), ShowField({"remove"}, {ada}), ShowField({"replace", "partner"}, {cy}),
   ShowField({"add", "replace"}, {ben}), ShowField({"noEnd"}, {}),
   ShowField({"noEnd", "fair", "remove"}, {ada})}

Fields1 ==
  Variants("myCollectionCreateArtwork", {2},
           {{}, {"artistIds"}, {"artistIds", "edition"}, {"artists"}, {"artistIds", "foreignUrl"}})
  \cup Variants("myCollectionUpdateArtwork", {0, 2}, {{}, {"edition"}, {"noEdition"}})
  \cup Variants("myCollectionUpdateArtwork", {2}, {{"edition", "foreignUrl"}})
  \cup Variants("updateArtwork", {0, 2}, {{}, {"defaultImage"}, {"editionSets"}})
  \cup Variants("createArtwork", {2}, {{}, {"show"}, {"mismatch"}})
  \cup Variants("createArtworkFromTemplate", {2}, {{}, {"mismatch"}})
  \cup Variants("createFeatureFlag", {0}, {{}, {"strategy", "variants"}})
  \cup Variants("updateMe", {0}, Options("updateMe"))
  \cup Variants("createArtist", {0}, {{}, {"represented"}})
  \cup Variants("createCanonicalArtist", {0}, {{}, {"represented"}})
  \cup Variants("createFeaturedLink", {0}, {{}, {"orderedSet"}})
  \cup Variants("publishNavigationDraft", {0}, SUBSET {"groupID", "versionID"})
  \cup Variants("deletePartnerShow", {0}, {{}, {"partner"}})
  \cup Variants("submitOrder", {0}, {{}, {"offer"}})
  \cup Variants("createUserInterests", {0, 2}, {{}})
  \cup Variants("updateUserInterests", {2}, {{}})
  \cup Variants("deleteUserInterests", {2}, {{}})
  \cup {Field(kind, 0, {}) : kind \in ListKinds \cup {"sendConversationMessage"}}
  \cup ShowFields

Document(fields) == [signedIn |-> TRUE, fields |-> fields]

Nothing == Document(<<>>)

Alone(d) == [r \in {r1, r2} |-> IF r = r1 THEN d ELSE Nothing]

Both(d, e) == [r \in {r1, r2} |-> IF r = r1 THEN d ELSE e]

Update(opts) == Field("myCollectionUpdateArtwork", 1, opts)
Listing(kind) == Field(kind, 0, {})

PairsOfFields ==
  {<<Update({"edition"}), Update({"edition"})>>,
   <<Update({"edition"}), Update({"noEdition"})>>,
   <<Field("updateArtwork", 1, {}), Update({})>>,
   <<Listing("addArtworkToPartnerList"), Listing("removeArtworkFromPartnerList")>>,
   <<Listing("sendConversationMessage"), Listing("sendConversationMessage")>>,
   <<Field("createUserInterests", 1, {}), Field("deleteUserInterests", 1, {})>>,
   <<ShowField({"replace"}, {cy}), ShowField({"add", "partner"}, {ben})>>}

ShowPairs == {<<ShowField({"add"}, {ben}), ShowField({"add"}, {cy})>>}

Concurrent ==
  {Both(Document(<<p[1]>>), Document(<<p[2]>>)) : p \in PairsOfFields}

MCDocuments ==
  {Alone(Document(<<f>>)) : f \in Fields1}
  \cup {Alone([signedIn |-> FALSE, fields |-> <<f>>]) :
          f \in {Update({}), Listing("sendConversationMessage")}}
  \cup {Alone(Document(p)) : p \in PairsOfFields}
  \cup Concurrent

\* Incremental updates of one show, in one document.
ShowDocuments == {Alone(Document(p)) : p \in ShowPairs}
=============================================================================
