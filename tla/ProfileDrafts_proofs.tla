------------------------- MODULE ProfileDrafts_proofs -------------------------
(***************************************************************************)
(* Proofs about ProfileDrafts, for any number of drafts and of requests    *)
(* handled at a time, and any set of links.                                *)
(***************************************************************************)
EXTENDS ProfileDrafts, FiniteSetTheorems, TLAPS

LEMMA EmptyWithin == WithinLimits(Empty)
  BY DEF WithinLimits, Empty

LEMMA EmptyDocument == Empty \in Document
  BY DEF Document, Empty, Orientations

\* A set of links is finite, and so are the parts of it.
LEMMA LinkSets == \A L \in SUBSET Links : IsFiniteSet(L) /\ Cardinality(L) \in Nat
  BY DocumentAssumption, FS_Subset, FS_CardinalityType

-----------------------------------------------------------------------------
(***************************************************************************)
(* Each edit makes a document of one that is within its limits out of one  *)
(* that was.                                                               *)
(***************************************************************************)
Good(doc) == doc \in Document /\ WithinLimits(doc)

LEMMA OrientedGood == ASSUME NEW doc, Good(doc) PROVE \A e \in Oriented(doc) : Good(e)
<1>1. SUFFICES ASSUME NEW o \in Offered PROVE Good(Normalised(doc, o))
  BY DEF Oriented
<1>2. o \in Orientations /\ o # None
  BY DocumentAssumption
<1>3. doc.links \in SUBSET Links
  BY DEF Good, Document
<1>4. Normalised(doc, o) \in Document
  BY <1>2 DEF Good, Document, Normalised, Receives
<1>5. Cardinality(doc.links) <= LinkCap
  <2>1. CASE doc.orientation = None
    <3>1. doc.links = {}  BY <2>1 DEF Good, WithinLimits, Empty
    <3>. QED  BY <3>1, FS_EmptySet, DocumentAssumption
  <2>2. CASE doc.orientation # None
    BY <2>2 DEF Good, WithinLimits, Permitted
  <2>. QED  BY <2>1, <2>2
<1>6. Cardinality(doc.links \ Payment) <= Cardinality(doc.links)
  BY <1>3, LinkSets, FS_Subset
<1>7. /\ Cardinality(doc.links) \in Nat /\ Cardinality(doc.links \ Payment) \in Nat
      /\ LinkCap \in Nat
  BY <1>3, LinkSets, DocumentAssumption
<1>8. Normalised(doc, o).links = IF Receives(o) THEN doc.links ELSE doc.links \ Payment
  BY DEF Good, Document, Normalised
<1>9. Normalised(doc, o).orientation = o /\ Normalised(doc, o).creator = (doc.creator /\ Receives(o))
  BY DEF Good, Document, Normalised
<1>10. Cardinality(Normalised(doc, o).links) <= LinkCap
  BY <1>5, <1>6, <1>7, <1>8
<1>11. Normalised(doc, o).links \cap Payment # {} => Receives(o)
  BY <1>8
<1>. QED
  BY <1>2, <1>4, <1>9, <1>10, <1>11 DEF Good, WithinLimits, Permitted

LEMMA IdentifiedGood == ASSUME NEW doc, Good(doc) PROVE \A e \in Identified(doc) : Good(e)
  BY DEF Good, Identified, WithinLimits, Document

LEMMA RelinkedGood == ASSUME NEW doc, Good(doc) PROVE \A e \in Relinked(doc) : Good(e)
  BY DEF Good, Relinked, WithinLimits, Document

LEMMA ThronedGood ==
  ASSUME NEW doc, Good(doc), NEW owned \in BOOLEAN PROVE \A e \in Throned(doc, owned) : Good(e)
<1>1. Receives(doc.orientation) => doc.orientation # None
  BY DocumentAssumption DEF Receives
<1>. QED  BY <1>1 DEF Good, Throned, WithinLimits, Document

LEMMA AttachedGood == ASSUME NEW doc, Good(doc) PROVE \A e \in Attached(doc) : Good(e)
<1>1. Receives(doc.orientation) => doc.orientation # None
  BY DocumentAssumption DEF Receives
<1>. QED  BY <1>1 DEF Good, Attached, WithinLimits, Document

LEMMA AddedGood == ASSUME NEW doc, Good(doc) PROVE \A e \in LinkAdded(doc) : Good(e)
<1>1. SUFFICES ASSUME NEW l \in Links \ doc.links, MayLink(doc, l),
                      Cardinality(doc.links) < LinkCap
               PROVE Good([doc EXCEPT !.links = @ \cup {l}])
  BY DEF LinkAdded
<1>2. doc.links \in SUBSET Links
  BY DEF Good, Document
<1>3. Cardinality(doc.links \cup {l}) = Cardinality(doc.links) + 1
  BY <1>2, LinkSets, FS_AddElement
<1>4. Cardinality(doc.links \cup {l}) <= LinkCap
  BY <1>1, <1>2, <1>3, LinkSets, DocumentAssumption
<1>. QED
  BY <1>1, <1>2, <1>4 DEF Good, MayLink, WithinLimits, Permitted, Document

LEMMA EditedLinkGood == ASSUME NEW doc, Good(doc) PROVE \A e \in LinkEdited(doc) : Good(e)
<1>1. SUFFICES ASSUME NEW k \in doc.links, NEW l \in Links, MayLink(doc, l)
               PROVE Good([doc EXCEPT !.links = (@ \ {k}) \cup {l}])
  BY DEF LinkEdited
<1>2. doc.links \in SUBSET Links
  BY DEF Good, Document
<1>3. Cardinality(doc.links \ {k}) = Cardinality(doc.links) - 1
  BY <1>2, LinkSets, FS_RemoveElement
<1>4. IsFiniteSet(doc.links \ {k}) /\ Cardinality(doc.links \ {k}) \in Nat
  BY <1>2, LinkSets
<1>5. Cardinality((doc.links \ {k}) \cup {l}) <= Cardinality(doc.links \ {k}) + 1
  BY <1>4, FS_AddElement
<1>6. Cardinality((doc.links \ {k}) \cup {l}) \in Nat
  BY <1>2, LinkSets
<1>7. doc.orientation # None /\ Cardinality(doc.links) <= LinkCap
  BY <1>1 DEF MayLink, Good, WithinLimits, Permitted
<1>8. Cardinality((doc.links \ {k}) \cup {l}) <= LinkCap
  BY <1>2, <1>3, <1>4, <1>5, <1>6, <1>7, LinkSets, DocumentAssumption
<1>. QED
  BY <1>1, <1>2, <1>7, <1>8 DEF Good, MayLink, WithinLimits, Permitted, Document

LEMMA RemovedGood == ASSUME NEW doc, Good(doc) PROVE \A e \in LinkRemoved(doc) : Good(e)
<1>1. SUFFICES ASSUME NEW l \in doc.links PROVE Good([doc EXCEPT !.links = @ \ {l}])
  BY DEF LinkRemoved
<1>2. doc.links \in SUBSET Links
  BY DEF Good, Document
<1>3. doc.orientation # None /\ Cardinality(doc.links) <= LinkCap
  BY <1>1 DEF Good, WithinLimits, Permitted, Empty
<1>4. Cardinality(doc.links \ {l}) <= Cardinality(doc.links)
  BY <1>2, LinkSets, FS_Subset
<1>5. Cardinality(doc.links \ {l}) <= LinkCap
  BY <1>2, <1>3, <1>4, LinkSets, DocumentAssumption
<1>. QED
  BY <1>2, <1>3, <1>5 DEF Good, WithinLimits, Permitted, Document

LEMMA ImportedGood ==
  ASSUME NEW doc, Good(doc), NEW staged \in SUBSET Links
  PROVE  \A e \in Imported(doc, staged) : Good(e)
<1>1. SUFFICES ASSUME NEW N \in SUBSET (staged \ doc.links), doc.orientation # None,
                      staged \cap Payment # {} => Receives(doc.orientation),
                      Cardinality(doc.links) <= LinkCap,
                      Cardinality(N) <= LinkCap - Cardinality(doc.links)
               PROVE Good([doc EXCEPT !.links = @ \cup N])
  BY DEF Imported
<1>2. doc.links \in SUBSET Links /\ N \in SUBSET Links
  BY DEF Good, Document
<1>3. doc.links \cap N = {}
  OBVIOUS
<1>4. Cardinality(doc.links \cup N) = Cardinality(doc.links) + Cardinality(N)
  BY <1>2, <1>3, LinkSets, FS_Union, FS_EmptySet
<1>5. Cardinality(doc.links \cup N) <= LinkCap
  BY <1>1, <1>2, <1>4, LinkSets, DocumentAssumption
<1>6. (doc.links \cup N) \cap Payment # {} => Receives(doc.orientation)
  BY <1>1 DEF Good, WithinLimits, Permitted
<1>. QED
  BY <1>1, <1>2, <1>5, <1>6 DEF Good, WithinLimits, Permitted, Document

-----------------------------------------------------------------------------
(***************************************************************************)
(* The invariant.  Tables is the part of it about the tables, which reads  *)
(* leave alone.                                                            *)
(***************************************************************************)
Kept ==
    /\ TypeOK /\ HistoryIsLinear /\ PublishedIsAllowed
    /\ DraftsWithinLimits /\ FreshReads /\ DraftShape /\ OneActive

LEMMA InitIInv == Init => IInv
<1>. SUFFICES ASSUME Init PROVE IInv
  OBVIOUS
<1>. USE BoundsAssumption DEF Init
<1>1. Empty \in Document
  BY EmptyDocument
<1>2. TypeOK
  BY <1>1 DEF TypeOK, NoDraft, Draft, Statuses, States, Idle, Request, Phases, Kinds, DraftIds
<1>3. HistoryIsLinear
  BY DEF HistoryIsLinear, NoDraft
<1>4. PublishedIsAllowed
  BY DEF PublishedIsAllowed
<1>5. AnsweredSecretIsLive
  BY DEF AnsweredSecretIsLive
<1>6. DraftsWithinLimits
  BY EmptyWithin DEF DraftsWithinLimits, NoDraft
<1>7. FreshReads
  BY DEF FreshReads, Idle, Reading
<1>8. DraftShape
  BY DEF DraftShape, NoDraft
<1>9. OneActive
  BY DEF OneActive, Active, NoDraft
<1>. QED
  BY <1>2, <1>3, <1>4, <1>5, <1>6, <1>7, <1>8, <1>9 DEF IInv

\* A step that leaves the tables alone and sets one request keeps everything
\* but what is said of that request.
LEMMA RequestOnly ==
  ASSUME IInv, NEW r \in Requests, NEW rec \in Request, Set(r, rec),
         UNCHANGED <<drafts, root, history, secret, minted, answered>>,
         rec.phase = "committed" => rec.draft \in DraftIds,
         rec.phase \in {"loaded", "scalars", "ready"} /\ rec.kind # "start" =>
            /\ rec.draft \in DraftIds /\ drafts[rec.draft].status # "none" /\ rec.revision <= drafts[rec.draft].revision
            /\ rec.kind = "publish" => rec.base <= root.version
            /\ rec.revision = drafts[rec.draft].revision /\ drafts[rec.draft].status = "active" =>
                /\ rec.phase = "scalars" => rec.doc = [drafts[rec.draft].body EXCEPT !.links = {}]
                /\ rec.phase = "ready" /\ rec.kind # "restart" => rec.doc = drafts[rec.draft].body
                /\ rec.kind = "publish" => rec.base = drafts[rec.draft].base
                /\ rec.phase = "ready" /\ rec.kind = "publish" =>
                        rec.steps = drafts[rec.draft].steps,
         rec.phase = "ready" /\ rec.kind = "publish" =>
            (rec.base = root.version => rec.old = root.draft),
         rec.phase = "ready" /\ rec.kind \in {"start", "restart"} =>
            rec.base <= root.version /\ rec.doc = Version(rec.base)
  PROVE  IInv'
<1>1. requests' = [requests EXCEPT ![r] = rec]
  BY DEF Set
<1>2. TypeOK'
  BY <1>1 DEF IInv, TypeOK
<1>3. HistoryIsLinear' /\ PublishedIsAllowed' /\ AnsweredSecretIsLive' /\ DraftsWithinLimits'
  BY DEF IInv, HistoryIsLinear, PublishedIsAllowed, AnsweredSecretIsLive, DraftsWithinLimits
<1>4. DraftShape' /\ OneActive'
  BY DEF IInv, DraftShape, OneActive, Active
<1>5. FreshReads'
  <2>1. \A n : Version(n)' = Version(n)
    BY DEF Version
  <2>2. \A q \in Requests : requests'[q] = IF q = r THEN rec ELSE requests[q]
    BY <1>1 DEF IInv, TypeOK
  <2>3. SUFFICES ASSUME NEW q \in Requests
                 PROVE LET x == requests'[q] d == drafts[x.draft]
                       IN /\ x.phase = "committed" => x.draft \in DraftIds
                          /\ x.phase \in {"loaded", "scalars", "ready"} /\ x.kind # "start" =>
                                /\ x.draft \in DraftIds /\ d.status # "none" /\ x.revision <= d.revision
                                /\ x.kind = "publish" => x.base <= root.version
                                /\ x.revision = d.revision /\ d.status = "active" =>
                                    /\ x.phase = "scalars" => x.doc = [d.body EXCEPT !.links = {}]
                                    /\ x.phase = "ready" /\ x.kind # "restart" => x.doc = d.body
                                    /\ x.kind = "publish" => x.base = d.base
                                    /\ x.phase = "ready" /\ x.kind = "publish" => x.steps = d.steps
                          /\ x.phase = "ready" /\ x.kind = "publish" =>
                                (x.base = root.version => x.old = root.draft)
                          /\ x.phase = "ready" /\ x.kind \in {"start", "restart"} =>
                                x.base <= root.version /\ x.doc = Version(x.base)
    BY <2>1 DEF FreshReads, Reading
  <2>4. CASE q = r
    BY <2>2, <2>4
  <2>5. CASE q # r
    BY <2>2, <2>5 DEF IInv, FreshReads, Reading
  <2>. QED  BY <2>4, <2>5
<1>. QED
  BY <1>2, <1>3, <1>4, <1>5 DEF IInv

LEMMA IdleRequest == Idle \in Request
  BY EmptyDocument, BoundsAssumption DEF Idle, Request, Phases, Kinds

\* The document a new draft starts from is the latest version.
LEMMA PublishedVersion ==
  ASSUME IInv
  PROVE  Published = Version(root.version) /\ Published \in Document /\ root.version \in Nat
<1>1. root.version \in Nat /\ history \in Seq(DraftIds) /\ root.version = Len(history)
  BY DEF IInv, TypeOK, HistoryIsLinear
<1>2. CASE root.version = 0
  BY <1>1, <1>2, EmptyDocument DEF Published, Version
<1>3. CASE root.version # 0
  <2>1. root.draft = history[Len(history)] /\ history[Len(history)] \in DraftIds
    BY <1>1, <1>3 DEF IInv, HistoryIsLinear
  <2>. QED  BY <1>1, <1>3, <2>1 DEF Published, Version, IInv, TypeOK, Draft
<1>. QED  BY <1>2, <1>3

-----------------------------------------------------------------------------
(***************************************************************************)
(* Reads.                                                                  *)
(***************************************************************************)
LEMMA LoadKeeps ==
  ASSUME IInv, NEW r \in Requests, NEW kind \in Kinds, NEW d \in DraftIds, Load(r, kind, d)
  PROVE  IInv'
<1>. DEFINE rec == [Idle EXCEPT !.phase = "loaded", !.kind = kind, !.draft = d,
                                !.revision = drafts[d].revision, !.base = drafts[d].base]
<1>1. /\ rec \in Request /\ rec.phase = "loaded" /\ rec.draft = d
      /\ rec.revision = drafts[d].revision /\ rec.base = drafts[d].base
  BY EmptyDocument DEF Idle, Request, Phases, Kinds, IInv, TypeOK, Draft
<1>2. Set(r, rec) /\ UNCHANGED <<drafts, root, history, secret, minted, answered>>
  BY DEF Load, tables
<1>3. drafts[d].revision \in Nat
  BY DEF IInv, TypeOK, Draft
<1>4. rec.revision <= drafts[rec.draft].revision /\ drafts[rec.draft].status # "none"
  BY <1>1, <1>3 DEF Load, Active
<1>5. rec.base <= root.version
  BY <1>1 DEF IInv, DraftShape
<1>. HIDE DEF rec
<1>. QED  BY <1>1, <1>2, <1>4, <1>5, RequestOnly

LEMMA ReadScalarsKeeps ==
  ASSUME IInv, NEW r \in Requests, ReadScalars(r) PROVE IInv'
<1>. DEFINE q == requests[r]
            rec == [q EXCEPT !.phase = "scalars",
                             !.doc = [drafts[q.draft].body EXCEPT !.links = {}]]
<1>1. q \in Request /\ Reading(r) /\ q.phase = "loaded" /\ q.kind # "start"
  BY DEF ReadScalars, At, Reading, IInv, TypeOK
<1>2. q.draft \in DraftIds /\ drafts[q.draft].status # "none" /\ q.revision <= drafts[q.draft].revision
  BY <1>1 DEF IInv, FreshReads
<1>6. q.kind = "publish" =>
        /\ q.base <= root.version
        /\ q.revision = drafts[q.draft].revision /\ drafts[q.draft].status = "active" =>
                q.base = drafts[q.draft].base
  BY <1>1 DEF IInv, FreshReads
<1>3. [drafts[q.draft].body EXCEPT !.links = {}] \in Document
  <2>1. drafts[q.draft].body \in Document
    BY <1>2 DEF IInv, TypeOK, Draft
  <2>. QED  BY <2>1 DEF Document
<1>4. /\ rec \in Request /\ rec.phase = "scalars" /\ rec.draft = q.draft
      /\ rec.revision = q.revision /\ rec.kind = q.kind /\ rec.base = q.base
      /\ rec.doc = [drafts[q.draft].body EXCEPT !.links = {}]
  BY <1>1, <1>3 DEF Request, Phases
<1>5. Set(r, rec) /\ UNCHANGED <<drafts, root, history, secret, minted, answered>>
  BY DEF ReadScalars, tables
<1>. HIDE DEF rec
<1>. QED  BY <1>2, <1>4, <1>5, <1>6, RequestOnly

LEMMA ReadRestKeeps ==
  ASSUME IInv, NEW r \in Requests, ReadRest(r) PROVE IInv'
<1>. DEFINE q == requests[r]
            d == drafts[q.draft]
            read == [q EXCEPT !.phase = "ready", !.doc.links = d.body.links]
<1>1. q \in Request /\ Reading(r) /\ q.phase = "scalars"
  BY DEF ReadRest, At, Reading, IInv, TypeOK
<1>2. q.draft \in DraftIds /\ d.status # "none" /\ q.revision <= d.revision
  BY <1>1 DEF IInv, FreshReads
<1>3. d \in Draft
  BY <1>2 DEF IInv, TypeOK
<1>4. ASSUME q.revision = d.revision, d.status = "active"
      PROVE  [q.doc EXCEPT !.links = d.body.links] = d.body
  <2>1. q.doc = [d.body EXCEPT !.links = {}]
    BY <1>1, <1>4 DEF IInv, FreshReads
  <2>. QED  BY <2>1, <1>3 DEF Draft, Document
<1>5. [q.doc EXCEPT !.links = d.body.links] \in Document
  BY <1>1, <1>3 DEF Request, Draft, Document
<1>6. read = [q EXCEPT !.phase = "ready", !.doc = [q.doc EXCEPT !.links = d.body.links]]
  BY <1>1 DEF Request, Document
<1>7. UNCHANGED <<drafts, root, history, secret, minted, answered>>
  BY DEF ReadRest, tables
<1>8. CASE q.kind = "edit" /\ Set(r, [read EXCEPT !.imports = d.imports])
  <2>. DEFINE rec == [read EXCEPT !.imports = d.imports]
  <2>1. /\ rec \in Request /\ rec.phase = "ready" /\ rec.kind = "edit"
        /\ rec.draft = q.draft /\ rec.revision = q.revision
        /\ rec.doc = [q.doc EXCEPT !.links = d.body.links]
    BY <1>1, <1>3, <1>5, <1>6, <1>8 DEF Request, Phases, Draft
  <2>. HIDE DEF rec
  <2>. QED  BY <1>2, <1>4, <1>7, <1>8, <2>1, RequestOnly DEF rec
<1>9. CASE q.kind = "publish"
           /\ Set(r, [read EXCEPT !.steps = d.steps, !.old = root.draft])
  <2>. DEFINE rec == [read EXCEPT !.steps = d.steps, !.old = root.draft]
  <2>1. /\ rec \in Request /\ rec.phase = "ready" /\ rec.kind = "publish"
        /\ rec.draft = q.draft /\ rec.revision = q.revision
        /\ rec.doc = [q.doc EXCEPT !.links = d.body.links]
        /\ rec.steps = d.steps /\ rec.base = q.base /\ rec.old = root.draft
    BY <1>1, <1>3, <1>5, <1>6, <1>9 DEF Request, Phases, Draft, IInv, TypeOK
  <2>2. /\ q.base <= root.version
        /\ q.revision = d.revision /\ d.status = "active" => q.base = d.base
    BY <1>1, <1>9 DEF IInv, FreshReads
  <2>. HIDE DEF rec
  <2>. QED  BY <1>2, <1>4, <1>7, <1>9, <2>1, <2>2, RequestOnly DEF rec
<1>. QED  BY <1>8, <1>9 DEF ReadRest, At

LEMMA ReadRootKeeps ==
  ASSUME IInv, NEW r \in Requests, ReadRoot(r) PROVE IInv'
<1>. DEFINE q == requests[r]
            rec == [q EXCEPT !.phase = "ready", !.doc = Published, !.base = root.version]
<1>1. q \in Request /\ Reading(r) /\ q.phase = "loaded" /\ q.kind = "restart"
  BY DEF ReadRoot, At, Reading, IInv, TypeOK
<1>2. q.draft \in DraftIds /\ drafts[q.draft].status # "none" /\ q.revision <= drafts[q.draft].revision
  BY <1>1 DEF IInv, FreshReads
<1>3. Published = Version(root.version) /\ Published \in Document /\ root.version \in Nat
  BY PublishedVersion
<1>4. /\ rec \in Request /\ rec.phase = "ready" /\ rec.kind = "restart" /\ rec.draft = q.draft
      /\ rec.revision = q.revision /\ rec.doc = Published /\ rec.base = root.version
  BY <1>1, <1>3 DEF Request, Phases
<1>5. Set(r, rec) /\ UNCHANGED <<drafts, root, history, secret, minted, answered>>
  BY DEF ReadRoot, tables
<1>6. rec.base <= root.version /\ rec.doc = Version(rec.base)
  BY <1>3, <1>4
<1>. HIDE DEF rec
<1>. QED  BY <1>2, <1>4, <1>5, <1>6, RequestOnly

\* An answer that describes a draft.
LEMMA CommittedRequest ==
  ASSUME NEW d \in DraftIds, NEW kind \in Kinds
  PROVE  LET rec == [Idle EXCEPT !.phase = "committed", !.kind = kind, !.draft = d]
         IN  rec \in Request /\ rec.phase = "committed" /\ rec.draft = d
  BY EmptyDocument DEF Idle, Request, Phases

LEMMA ResumeKeeps ==
  ASSUME IInv, NEW r \in Requests, NEW d \in DraftIds,
         Set(r, [Idle EXCEPT !.phase = "committed", !.draft = d]),
         UNCHANGED <<drafts, root, history, secret, minted, answered>>
  PROVE  IInv'
<1>. DEFINE rec == [Idle EXCEPT !.phase = "committed", !.draft = d]
<1>1. rec \in Request /\ rec.phase = "committed" /\ rec.draft = d
  BY EmptyDocument DEF Idle, Request, Phases, Kinds
<1>2. Set(r, rec)
  OBVIOUS
<1>. HIDE DEF rec
<1>. QED  BY <1>1, <1>2, RequestOnly

LEMMA StartKeeps == ASSUME IInv, NEW r \in Requests, Start(r) PROVE IInv'
<1>1. UNCHANGED <<drafts, root, history, secret, minted, answered>>
  BY DEF Start, tables
<1>2. CASE \E d \in Active : Set(r, [Idle EXCEPT !.phase = "committed", !.draft = d])
  BY <1>1, <1>2, ResumeKeeps DEF Active
<1>3. CASE Set(r, [Idle EXCEPT !.phase = "ready", !.doc = Published, !.base = root.version])
  <2>. DEFINE rec == [Idle EXCEPT !.phase = "ready", !.doc = Published, !.base = root.version]
  <2>1. Published = Version(root.version) /\ Published \in Document /\ root.version \in Nat
    BY PublishedVersion
  <2>2. /\ rec \in Request /\ rec.phase = "ready" /\ rec.kind = "start"
        /\ rec.doc = Published /\ rec.base = root.version
    BY <2>1, EmptyDocument DEF Idle, Request, Phases, Kinds
  <2>3. rec.base <= root.version /\ rec.doc = Version(rec.base)
    BY <2>1, <2>2
  <2>4. Set(r, rec)
    BY <1>3
  <2>. HIDE DEF rec
  <2>. QED  BY <1>1, <2>2, <2>3, <2>4, RequestOnly
<1>. QED  BY <1>2, <1>3 DEF Start

LEMMA IdleKeeps ==
  ASSUME IInv, NEW r \in Requests, Set(r, Idle),
         UNCHANGED <<drafts, root, history, secret, minted, answered>>
  PROVE  IInv'
<1>1. Idle \in Request /\ Idle.phase = "idle"
  BY IdleRequest DEF Idle
<1>. QED  BY <1>1, RequestOnly

-----------------------------------------------------------------------------
(***************************************************************************)
(* Writes.                                                                 *)
(***************************************************************************)
\* A change of one active draft that counts its revision up keeps everything
\* that is not about secrets: what other requests have read of the draft is
\* now of an older revision, and no version is in an active draft.
LEMMA DraftChange ==
  ASSUME IInv, NEW r \in Requests, NEW d \in DraftIds, NEW nd \in Draft,
         NEW kind \in Kinds,
         drafts[d].status = "active",
         nd.status = "active", nd.state = "draft", nd.revision = drafts[d].revision + 1,
         WithinLimits(nd.body), nd.base <= root.version,
         drafts' = [drafts EXCEPT ![d] = nd],
         Set(r, [Idle EXCEPT !.phase = "committed", !.kind = kind, !.draft = d]),
         secret' \in Nat, minted' \in Nat, answered' \in Nat,
         UNCHANGED <<root, history>>
  PROVE  Kept'
<1>. DEFINE rec == [Idle EXCEPT !.phase = "committed", !.kind = kind, !.draft = d]
<1>1. rec \in Request /\ rec.phase = "committed" /\ rec.draft = d
  BY CommittedRequest
<1>2. requests' = [requests EXCEPT ![r] = rec]
  BY DEF Set
<1>. HIDE DEF rec
<1>3. \A e \in DraftIds : drafts'[e] = IF e = d THEN nd ELSE drafts[e]
  BY DEF IInv, TypeOK
<1>4. \A q \in Requests : requests'[q] = IF q = r THEN rec ELSE requests[q]
  BY <1>2 DEF IInv, TypeOK
<1>5. TypeOK'
  BY <1>1, <1>2 DEF IInv, TypeOK
<1>6. \A i \in 1..Len(history) : history[i] \in DraftIds /\ history[i] # d
  BY DEF IInv, TypeOK, HistoryIsLinear
<1>7. HistoryIsLinear'
  BY <1>3, <1>6 DEF IInv, HistoryIsLinear
<1>8. PublishedIsAllowed'
  BY <1>3, <1>6 DEF IInv, PublishedIsAllowed
<1>9. DraftsWithinLimits'
  BY <1>3 DEF IInv, DraftsWithinLimits
<1>10. DraftShape'
  BY <1>3 DEF IInv, DraftShape
<1>11. OneActive'
  BY <1>3 DEF IInv, OneActive, Active
<1>12. FreshReads'
  <2>1. SUFFICES ASSUME NEW q \in Requests
                 PROVE (LET x == requests[q] e == drafts[x.draft]
                        IN /\ x.phase = "committed" => x.draft \in DraftIds
                           /\ Reading(q) =>
                                /\ x.draft \in DraftIds /\ e.status # "none" /\ x.revision <= e.revision
                                /\ x.kind = "publish" => x.base <= root.version
                                /\ x.revision = e.revision /\ e.status = "active" =>
                                    /\ x.phase = "scalars" => x.doc = [e.body EXCEPT !.links = {}]
                                    /\ x.phase = "ready" /\ x.kind # "restart" => x.doc = e.body
                                    /\ x.kind = "publish" => x.base = e.base
                                    /\ x.phase = "ready" /\ x.kind = "publish" => x.steps = e.steps
                           /\ x.phase = "ready" /\ x.kind = "publish" =>
                                (x.base = root.version => x.old = root.draft)
                           /\ x.phase = "ready" /\ x.kind \in {"start", "restart"} =>
                                x.base <= root.version /\ x.doc = Version(x.base))'
    BY DEF FreshReads
  <2>2. CASE q = r
    BY <1>1, <1>4, <2>2 DEF Reading
  <2>3. CASE q # r
    <3>1. requests'[q] = requests[q] /\ requests[q] \in Request
      BY <1>4, <2>3 DEF IInv, TypeOK
    <3>2. ASSUME requests[q].phase = "ready", requests[q].kind \in {"start", "restart"}
          PROVE  requests[q].base <= root.version /\ requests[q].doc = Version(requests[q].base)'
      <4>. DEFINE n == requests[q].base
      <4>1. n \in Nat /\ n <= root.version /\ requests[q].doc = Version(n)
        BY <3>1, <3>2 DEF IInv, FreshReads, Request
      <4>2. n # 0 => n \in 1..Len(history)
        BY <4>1 DEF IInv, HistoryIsLinear, TypeOK
      <4>3. n # 0 => drafts'[history[n]] = drafts[history[n]]
        BY <1>3, <1>6, <4>2
      <4>4. history' = history /\ requests'[q].base = n
        BY <3>1
      <4>. QED  BY <4>1, <4>3, <4>4 DEF Version
    <3>3. drafts[d].revision \in Nat
      BY DEF IInv, TypeOK, Draft
    <3>4. ASSUME Reading(q)
          PROVE  LET x == requests[q] e == drafts'[x.draft]
                 IN /\ x.draft \in DraftIds /\ e.status # "none" /\ x.revision <= e.revision
                    /\ x.kind = "publish" => x.base <= root.version
                    /\ x.revision = e.revision /\ e.status = "active" =>
                        /\ x.phase = "scalars" => x.doc = [e.body EXCEPT !.links = {}]
                        /\ x.phase = "ready" /\ x.kind # "restart" => x.doc = e.body
                        /\ x.kind = "publish" => x.base = e.base
                        /\ x.phase = "ready" /\ x.kind = "publish" => x.steps = e.steps
      <4>1. /\ requests[q].draft \in DraftIds
            /\ requests[q].revision <= drafts[requests[q].draft].revision
            /\ requests[q].kind = "publish" => requests[q].base <= root.version
        BY <3>4 DEF IInv, FreshReads
      <4>2. CASE requests[q].draft = d
        BY <1>3, <3>1, <3>3, <4>1, <4>2 DEF Request
      <4>3. CASE requests[q].draft # d
        BY <1>3, <3>4, <4>1, <4>3 DEF IInv, FreshReads
      <4>. QED  BY <4>2, <4>3
    <3>5. Reading(q)' = Reading(q)
      BY <3>1 DEF Reading
    <3>6. requests[q].phase = "committed" => requests[q].draft \in DraftIds
      BY DEF IInv, FreshReads
    <3>7. requests[q].phase = "ready" /\ requests[q].kind = "publish" =>
            (requests[q].base = root.version => requests[q].old = root.draft)
      BY DEF IInv, FreshReads
    <3>. QED  BY <3>1, <3>2, <3>4, <3>5, <3>6, <3>7
  <2>. QED  BY <2>2, <2>3
<1>. QED
  BY <1>5, <1>7, <1>8, <1>9, <1>10, <1>11, <1>12 DEF Kept

LEMMA NextRevision == \A n \in Nat : n + 1 \in Nat
  OBVIOUS

\* A write of a document within the limits.
LEMMA WriteKeeps ==
  ASSUME IInv, NEW r \in Requests, NEW doc, Good(doc), NEW step \in StepKeys \cup {""},
         NEW imports \in SUBSET SUBSET Links,
         At(r, "ready", {"edit"}), Write(r, doc, step, imports),
         secret' \in Nat, minted' \in Nat, answered' \in Nat
  PROVE  Kept'
<1>. DEFINE d == requests[r].draft
            nd == [drafts[d] EXCEPT !.body = doc, !.steps = StepsWith(drafts[d].steps, step),
                                    !.imports = imports, !.revision = drafts[d].revision + 1]
<1>. HIDE DEF nd
<1>1. d \in DraftIds /\ drafts[d] \in Draft
  BY DEF At, IInv, FreshReads, Reading, TypeOK
<1>2. drafts[d].status = "active" /\ drafts[d].state = "draft"
  BY DEF Write, MayWrite, Guarded
<1>3. StepsWith(drafts[d].steps, step) \in SUBSET StepKeys
  BY <1>1 DEF Draft, StepsWith
<1>4. nd \in Draft
  <2>1. doc \in Document
    BY DEF Good
  <2>2. drafts[d].revision \in Nat
    BY <1>1 DEF Draft
  <2>3. drafts[d].revision + 1 \in Nat
    BY <2>2, NextRevision
  <2>. QED  BY <1>1, <1>3, <2>1, <2>3 DEF Draft, nd
<1>5. /\ nd.status = "active" /\ nd.state = "draft" /\ nd.revision = drafts[d].revision + 1
      /\ WithinLimits(nd.body) /\ nd.base = drafts[d].base
  BY <1>1, <1>2 DEF Draft, Good, nd
<1>6. drafts[d].base <= root.version
  BY <1>1 DEF IInv, DraftShape
<1>7. UNCHANGED <<root, history>>
  BY DEF Write
<1>8. "edit" \in Kinds /\ requests[r].kind = "edit"
  BY DEF Kinds, At
<1>9. drafts' = [drafts EXCEPT ![d] = nd]
  BY DEF Write, nd
<1>10. Set(r, [Idle EXCEPT !.phase = "committed", !.kind = "edit", !.draft = d])
  BY <1>8 DEF Write, Committed
<1>. QED  BY <1>1, <1>2, <1>4, <1>5, <1>6, <1>7, <1>8, <1>9, <1>10, DraftChange

\* What a request that may write has read is what the draft holds.
LEMMA DocIsBody ==
  ASSUME IInv, NEW r \in Requests, At(r, "ready", {"edit", "publish"}), MayWrite(r)
  PROVE  /\ requests[r].draft \in DraftIds
         /\ Doc(r) = drafts[requests[r].draft].body
         /\ Good(Doc(r))
<1>1. requests[r].draft \in DraftIds
  BY DEF At, IInv, FreshReads, Reading
<1>2. Doc(r) = drafts[requests[r].draft].body
  BY DEF At, IInv, FreshReads, Reading, MayWrite, Guarded, Doc
<1>. QED
  BY <1>1, <1>2 DEF IInv, DraftsWithinLimits, TypeOK, Draft, Good

LEMMA SecretTypes == ASSUME IInv, NoSecret PROVE secret' \in Nat /\ minted' \in Nat /\ answered' \in Nat
  BY DEF IInv, TypeOK, NoSecret

\* The steps that save one of the documents an edit may make.
LEMMA SaveKeeps ==
  ASSUME IInv, NEW r \in Requests, NEW docs, NEW step \in StepKeys \cup {""},
         Save(r, docs, step), MayWrite(r) => \A doc \in docs : Good(doc)
  PROVE  IInv'
<1>1. PICK doc \in docs : Write(r, doc, step, drafts[requests[r].draft].imports)
  BY DEF Save
<1>2. MayWrite(r) /\ At(r, "ready", {"edit"}) /\ NoSecret
  BY <1>1 DEF Save, Write
<1>3. Good(doc)
  BY <1>1, <1>2
<1>4. drafts[requests[r].draft].imports \in SUBSET SUBSET Links
  BY <1>2, DocIsBody DEF IInv, TypeOK, Draft, At
<1>5. Kept'
  BY <1>1, <1>2, <1>3, <1>4, SecretTypes, WriteKeeps
<1>6. AnsweredSecretIsLive'
  BY <1>2 DEF NoSecret, IInv, AnsweredSecretIsLive
<1>. QED  BY <1>5, <1>6 DEF Kept, IInv

\* The steps of the wizard.
LEMMA StepKeeps ==
  ASSUME IInv, NEW r \in Requests,
         \/ OrientationStep(r) \/ IdentityStep(r) \/ IdentityPart(r)
         \/ \E L \in SUBSET Links : LinksStep(r, L)
         \/ \E c \in BOOLEAN : ThroneStep(r, c)
         \/ AddLink(r) \/ EditLink(r) \/ RemoveLink(r)
  PROVE  IInv'
<1>1. At(r, "ready", {"edit"})
  BY DEF OrientationStep, IdentityStep, IdentityPart, LinksStep, ThroneStep, AddLink,
         EditLink, RemoveLink, Save
<1>2. MayWrite(r) => Good(Doc(r))
  BY <1>1, DocIsBody DEF At
<1>3. {"orientation", "identity", "links", "throne", ""} \subseteq StepKeys \cup {""}
  BY DEF StepKeys
<1>4. CASE OrientationStep(r)
  BY <1>2, <1>3, <1>4, OrientedGood, SaveKeeps DEF OrientationStep
<1>5. CASE IdentityStep(r)
  BY <1>2, <1>3, <1>5, IdentifiedGood, SaveKeeps DEF IdentityStep
<1>6. CASE IdentityPart(r)
  BY <1>2, <1>3, <1>6, IdentifiedGood, SaveKeeps DEF IdentityPart
<1>7. CASE \E L \in SUBSET Links : LinksStep(r, L)
  <2>1. PICK L \in SUBSET Links : LinksStep(r, L)
    BY <1>7
  <2>2. MayWrite(r) => \A doc \in {e \in Relinked(Doc(r)) : e.links = L} : Good(doc)
    BY <1>2, RelinkedGood
  <2>. QED  BY <1>3, <2>1, <2>2, SaveKeeps DEF LinksStep
<1>8. CASE \E c \in BOOLEAN : ThroneStep(r, c)
  <2>1. PICK c \in BOOLEAN : ThroneStep(r, c)
    BY <1>8
  <2>2. MayWrite(r) => \A doc \in {e \in Throned(Doc(r), secret # 0) : e.creator = c} : Good(doc)
    BY <1>2, ThronedGood
  <2>. QED  BY <1>3, <2>1, <2>2, SaveKeeps DEF ThroneStep
<1>9. CASE AddLink(r)
  BY <1>2, <1>3, <1>9, AddedGood, SaveKeeps DEF AddLink
<1>10. CASE EditLink(r)
  BY <1>2, <1>3, <1>10, EditedLinkGood, SaveKeeps DEF EditLink
<1>11. CASE RemoveLink(r)
  BY <1>2, <1>3, <1>11, RemovedGood, SaveKeeps DEF RemoveLink
<1>. QED  BY <1>4, <1>5, <1>6, <1>7, <1>8, <1>9, <1>10, <1>11

\* A secret that is generated and stored is the one that is answered.
LEMMA SecretAnswered ==
  ASSUME IInv, NEW r \in Requests, MayWrite(r),
         \/ Mint /\ WriteSecret(r) /\ answered' = minted'
         \/ NoSecret
  PROVE  secret' \in Nat /\ minted' \in Nat /\ answered' \in Nat /\ AnsweredSecretIsLive'
<1>1. CASE Mint /\ WriteSecret(r) /\ answered' = minted'
  BY <1>1 DEF IInv, TypeOK, Mint, WriteSecret, MayRotate, MayWrite, AnsweredSecretIsLive
<1>2. CASE NoSecret
  BY <1>2 DEF IInv, TypeOK, NoSecret, AnsweredSecretIsLive
<1>. QED  BY <1>1, <1>2

LEMMA CreateImportKeeps ==
  ASSUME IInv, NEW r \in Requests, CreateImport(r) PROVE IInv'
<1>1. At(r, "ready", {"edit"}) /\ NoSecret
  BY DEF CreateImport
<1>. DEFINE d == requests[r].draft
<1>2. PICK page \in SUBSET Links :
        Write(r, drafts[d].body, "", drafts[d].imports \cup {Candidates(Doc(r), page)})
  BY DEF CreateImport
<1>3. MayWrite(r)
  BY <1>2 DEF Write
<1>4. d \in DraftIds /\ Good(drafts[d].body)
  BY <1>1, <1>3, DocIsBody DEF At
<1>5. drafts[d].imports \cup {Candidates(Doc(r), page)} \in SUBSET SUBSET Links
  BY <1>4 DEF IInv, TypeOK, Draft, Candidates
<1>6. secret' \in Nat /\ minted' \in Nat /\ answered' \in Nat /\ AnsweredSecretIsLive'
  BY <1>1, <1>3, SecretAnswered
<1>7. Kept'
  BY <1>1, <1>2, <1>4, <1>5, <1>6, WriteKeeps
<1>. QED  BY <1>6, <1>7 DEF Kept, IInv

LEMMA ConfirmImportKeeps ==
  ASSUME IInv, NEW r \in Requests, ConfirmImport(r) PROVE IInv'
<1>1. At(r, "ready", {"edit"}) /\ NoSecret
  BY DEF ConfirmImport
<1>. DEFINE d == requests[r].draft
<1>2. PICK page \in requests[r].imports : \E wanted \in SUBSET page :
        \E doc \in Imported(Doc(r), wanted) : Write(r, doc, "", drafts[d].imports \ {page})
  BY DEF ConfirmImport
<1>11. PICK wanted \in SUBSET page :
        \E doc \in Imported(Doc(r), wanted) : Write(r, doc, "", drafts[d].imports \ {page})
  BY <1>2
<1>3. PICK doc \in Imported(Doc(r), wanted) : Write(r, doc, "", drafts[d].imports \ {page})
  BY <1>11
<1>4. MayWrite(r)
  BY <1>3 DEF Write
<1>5. d \in DraftIds /\ Good(Doc(r))
  BY <1>1, <1>4, DocIsBody DEF At
<1>6. wanted \in SUBSET Links
  BY DEF IInv, TypeOK, Request
<1>7. Good(doc)
  BY <1>5, <1>6, ImportedGood
<1>8. drafts[d].imports \ {page} \in SUBSET SUBSET Links
  BY <1>5 DEF IInv, TypeOK, Draft
<1>9. secret' \in Nat /\ minted' \in Nat /\ answered' \in Nat /\ AnsweredSecretIsLive'
  BY <1>1, <1>4, SecretAnswered
<1>10. Kept'
  BY <1>1, <1>3, <1>7, <1>8, <1>9, WriteKeeps
<1>. QED  BY <1>9, <1>10 DEF Kept, IInv

LEMMA AttachThroneKeeps ==
  ASSUME IInv, NEW r \in Requests, AttachThrone(r) PROVE IInv'
<1>1. At(r, "ready", {"edit"})
  BY DEF AttachThrone
<1>. DEFINE d == requests[r].draft
<1>2. PICK doc \in Attached(Doc(r)) : Write(r, doc, "", drafts[d].imports)
  BY DEF AttachThrone
<1>3. MayWrite(r)
  BY <1>2 DEF Write
<1>4. d \in DraftIds /\ Good(Doc(r))
  BY <1>1, <1>3, DocIsBody DEF At
<1>5. Good(doc)
  BY <1>4, AttachedGood
<1>6. drafts[d].imports \in SUBSET SUBSET Links
  BY <1>4 DEF IInv, TypeOK, Draft
<1>7. secret' \in Nat /\ minted' \in Nat /\ answered' \in Nat /\ AnsweredSecretIsLive'
  BY <1>3, SecretAnswered DEF AttachThrone
<1>8. Kept'
  BY <1>1, <1>2, <1>5, <1>6, <1>7, WriteKeeps
<1>. QED  BY <1>7, <1>8 DEF Kept, IInv

LEMMA RotateThroneKeeps ==
  ASSUME IInv, NEW r \in Requests, RotateThrone(r) PROVE IInv'
<1>1. At(r, "ready", {"edit"})
  BY DEF RotateThrone
<1>. DEFINE d == requests[r].draft
<1>2. Write(r, drafts[d].body, "", drafts[d].imports)
  BY DEF RotateThrone
<1>3. MayWrite(r)
  BY <1>2 DEF Write
<1>4. d \in DraftIds /\ Good(drafts[d].body)
  BY <1>1, <1>3, DocIsBody DEF At
<1>5. drafts[d].imports \in SUBSET SUBSET Links
  BY <1>4 DEF IInv, TypeOK, Draft
<1>6. secret' \in Nat /\ minted' \in Nat /\ answered' \in Nat /\ AnsweredSecretIsLive'
  BY <1>3, SecretAnswered DEF RotateThrone
<1>7. Kept'
  BY <1>1, <1>2, <1>4, <1>5, <1>6, WriteKeeps
<1>. QED  BY <1>6, <1>7 DEF Kept, IInv

\* A rotation that loses writes no row, of throne_creators neither.
LEMMA ConflictRotateKeeps ==
  ASSUME IInv, NEW r \in Requests, ConflictRotate(r) PROVE IInv'
<1>1. secret' = secret /\ minted' \in Nat
  BY DEF ConflictRotate, Mint, WriteSecret, MayRotate, MayWrite, IInv, TypeOK
<1>2. UNCHANGED <<drafts, root, history, answered>> /\ requests' = [requests EXCEPT ![r] = Idle]
  BY DEF ConflictRotate, Set
<1>3. TypeOK'
  BY <1>1, <1>2, IdleRequest DEF IInv, TypeOK
<1>4. HistoryIsLinear' /\ PublishedIsAllowed' /\ AnsweredSecretIsLive' /\ DraftsWithinLimits'
  BY <1>1, <1>2
    DEF IInv, HistoryIsLinear, PublishedIsAllowed, AnsweredSecretIsLive, DraftsWithinLimits
<1>5. DraftShape' /\ OneActive'
  BY <1>2 DEF IInv, DraftShape, OneActive, Active
<1>6. FreshReads'
  <2>1. Idle.phase = "idle"
    BY DEF Idle
  <2>2. \A q \in Requests : requests'[q] = IF q = r THEN Idle ELSE requests[q]
    BY <1>2 DEF IInv, TypeOK
  <2>3. \A n : Version(n)' = Version(n)
    BY <1>2 DEF Version
  <2>4. \A q \in Requests : Reading(q)' => q # r /\ Reading(q)
    BY <2>1, <2>2 DEF Reading
  <2>. QED  BY <1>2, <2>1, <2>2, <2>3, <2>4 DEF IInv, FreshReads
<1>. QED  BY <1>3, <1>4, <1>5, <1>6 DEF IInv

\* Every version is a document that was published.
LEMMA VersionGood ==
  ASSUME IInv, NEW n \in Nat, n <= root.version
  PROVE  Good(Version(n)) /\ (n # 0 => history[n] \in DraftIds)
<1>1. CASE n = 0
  BY <1>1, EmptyDocument, EmptyWithin DEF Version, Good
<1>2. CASE n # 0
  <2>1. n \in 1..Len(history) /\ history[n] \in DraftIds
    BY <1>2 DEF IInv, TypeOK, HistoryIsLinear
  <2>2. drafts[history[n]].body \in Document /\ WithinLimits(drafts[history[n]].body)
    BY <2>1 DEF IInv, TypeOK, Draft, DraftsWithinLimits
  <2>. QED  BY <1>2, <2>1, <2>2 DEF Version, Good
<1>. QED  BY <1>1, <1>2

LEMMA RestartKeeps ==
  ASSUME IInv, NEW r \in Requests, Restart(r) PROVE IInv'
<1>. DEFINE d == requests[r].draft
            nd == [drafts[d] EXCEPT !.body = Doc(r), !.steps = {}, !.base = requests[r].base,
                                    !.revision = drafts[d].revision + 1]
<1>. HIDE DEF nd
<1>1. At(r, "ready", {"restart"}) /\ MayWrite(r) /\ NoSecret
  BY DEF Restart
<1>2. d \in DraftIds /\ drafts[d] \in Draft /\ requests[r] \in Request
  BY <1>1 DEF At, IInv, FreshReads, Reading, TypeOK
<1>3. requests[r].base \in Nat /\ requests[r].base <= root.version /\ Doc(r) = Version(requests[r].base)
  BY <1>1, <1>2 DEF At, IInv, FreshReads, Request, Doc
<1>4. Good(Doc(r))
  BY <1>3, VersionGood
<1>5. drafts[d].status = "active" /\ drafts[d].state = "draft"
  BY <1>1 DEF MayWrite, Guarded
<1>6. nd \in Draft
  <2>1. Doc(r) \in Document
    BY <1>4 DEF Good
  <2>2. drafts[d].revision \in Nat
    BY <1>2 DEF Draft
  <2>3. drafts[d].revision + 1 \in Nat
    BY <2>2, NextRevision
  <2>. QED  BY <1>2, <1>3, <2>1, <2>3 DEF Draft, nd
<1>7. /\ nd.status = "active" /\ nd.state = "draft" /\ nd.revision = drafts[d].revision + 1
      /\ WithinLimits(nd.body) /\ nd.base = requests[r].base
  BY <1>2, <1>4, <1>5 DEF Draft, Good, nd
<1>8. UNCHANGED <<root, history>> /\ drafts' = [drafts EXCEPT ![d] = nd]
  BY DEF Restart, nd
<1>9. "restart" \in Kinds /\ requests[r].kind = "restart"
  BY <1>1 DEF Kinds, At
<1>10. Set(r, [Idle EXCEPT !.phase = "committed", !.kind = "restart", !.draft = d])
  BY <1>9 DEF Restart, Committed
<1>11. secret' \in Nat /\ minted' \in Nat /\ answered' \in Nat /\ AnsweredSecretIsLive'
  BY <1>1, SecretAnswered
<1>12. Kept'
  BY <1>2, <1>3, <1>5, <1>6, <1>7, <1>8, <1>9, <1>10, <1>11, DraftChange
<1>. QED  BY <1>11, <1>12 DEF Kept, IInv

\* A new draft takes a place no version and no request is about.
LEMMA CommitStartKeeps ==
  ASSUME IInv, NEW r \in Requests, CommitStart(r) PROVE IInv'
<1>1. /\ At(r, "ready", {"start"}) /\ Active = {} /\ NoSecret /\ UNCHANGED <<root, history>>
      /\ requests[r] \in Request
  BY DEF CommitStart, RoomForDraft, IInv, TypeOK
<1>2. PICK d \in DraftIds :
        /\ drafts[d].status = "none"
        /\ drafts' = [drafts EXCEPT ![d] =
                [NoDraft EXCEPT !.status = "active", !.state = "draft",
                                !.body = Doc(r), !.base = requests[r].base]]
        /\ Set(r, [Idle EXCEPT !.phase = "committed", !.draft = d])
  BY DEF CommitStart
<1>. DEFINE nd == [NoDraft EXCEPT !.status = "active", !.state = "draft",
                                  !.body = Doc(r), !.base = requests[r].base]
            rec == [Idle EXCEPT !.phase = "committed", !.draft = d]
<1>. HIDE DEF nd, rec
<1>3. requests[r].base \in Nat /\ requests[r].base <= root.version /\ Doc(r) = Version(requests[r].base)
  BY <1>1 DEF At, IInv, FreshReads, Request, Doc
<1>4. Good(Doc(r))
  BY <1>3, VersionGood
<1>5. nd \in Draft /\ nd.status = "active" /\ nd.state = "draft" /\ nd.body = Doc(r)
      /\ nd.base = requests[r].base
  BY <1>3, <1>4 DEF nd, NoDraft, Draft, Statuses, States, Good
<1>6. rec \in Request /\ rec.phase = "committed" /\ rec.draft = d
  BY EmptyDocument DEF rec, Idle, Request, Phases, Kinds
<1>7. drafts' = [drafts EXCEPT ![d] = nd] /\ requests' = [requests EXCEPT ![r] = rec]
  BY <1>2 DEF nd, rec, Set
<1>8. \A e \in DraftIds : drafts'[e] = IF e = d THEN nd ELSE drafts[e]
  BY <1>7 DEF IInv, TypeOK
<1>9. \A q \in Requests : requests'[q] = IF q = r THEN rec ELSE requests[q]
  BY <1>7 DEF IInv, TypeOK
<1>10. secret' \in Nat /\ minted' \in Nat /\ answered' \in Nat /\ AnsweredSecretIsLive'
  BY <1>1 DEF NoSecret, IInv, TypeOK, AnsweredSecretIsLive
<1>11. TypeOK'
  BY <1>1, <1>5, <1>6, <1>7, <1>10 DEF IInv, TypeOK
<1>12. \A i \in 1..Len(history) : history[i] \in DraftIds /\ history[i] # d
  BY <1>2 DEF IInv, TypeOK, HistoryIsLinear
<1>13. HistoryIsLinear'
  BY <1>1, <1>5, <1>8, <1>12 DEF IInv, HistoryIsLinear
<1>14. PublishedIsAllowed'
  BY <1>1, <1>8, <1>12 DEF IInv, PublishedIsAllowed
<1>15. DraftsWithinLimits'
  BY <1>4, <1>5, <1>8 DEF IInv, DraftsWithinLimits, Good
<1>16. DraftShape'
  BY <1>1, <1>3, <1>5, <1>8 DEF IInv, DraftShape
<1>17. OneActive'
  BY <1>1, <1>8 DEF OneActive, Active
<1>18. FreshReads'
  <2>1. SUFFICES ASSUME NEW q \in Requests
                 PROVE (LET x == requests[q] e == drafts[x.draft]
                        IN /\ x.phase = "committed" => x.draft \in DraftIds
                           /\ Reading(q) =>
                                /\ x.draft \in DraftIds /\ e.status # "none" /\ x.revision <= e.revision
                                /\ x.kind = "publish" => x.base <= root.version
                                /\ x.revision = e.revision /\ e.status = "active" =>
                                    /\ x.phase = "scalars" => x.doc = [e.body EXCEPT !.links = {}]
                                    /\ x.phase = "ready" /\ x.kind # "restart" => x.doc = e.body
                                    /\ x.kind = "publish" => x.base = e.base
                                    /\ x.phase = "ready" /\ x.kind = "publish" => x.steps = e.steps
                           /\ x.phase = "ready" /\ x.kind = "publish" =>
                                (x.base = root.version => x.old = root.draft)
                           /\ x.phase = "ready" /\ x.kind \in {"start", "restart"} =>
                                x.base <= root.version /\ x.doc = Version(x.base))'
    BY DEF FreshReads
  <2>2. CASE q = r
    BY <1>6, <1>9, <2>2 DEF Reading
  <2>3. CASE q # r
    <3>1. requests'[q] = requests[q] /\ requests[q] \in Request
      BY <1>9, <2>3 DEF IInv, TypeOK
    <3>2. ASSUME requests[q].phase = "ready", requests[q].kind \in {"start", "restart"}
          PROVE  requests[q].base <= root.version /\ requests[q].doc = Version(requests[q].base)'
      <4>. DEFINE n == requests[q].base
      <4>1. n \in Nat /\ n <= root.version /\ requests[q].doc = Version(n)
        BY <3>1, <3>2 DEF IInv, FreshReads, Request
      <4>2. n # 0 => n \in 1..Len(history)
        BY <4>1 DEF IInv, HistoryIsLinear, TypeOK
      <4>3. n # 0 => drafts'[history[n]] = drafts[history[n]]
        BY <1>8, <1>12, <4>2
      <4>4. history' = history /\ requests'[q].base = n
        BY <1>1, <3>1
      <4>. QED  BY <4>1, <4>3, <4>4 DEF Version
    <3>3. ASSUME Reading(q) PROVE requests[q].draft \in DraftIds /\ requests[q].draft # d
      <4>1. requests[q].draft \in DraftIds
        BY <3>3 DEF IInv, FreshReads
      <4>2. requests[q].draft # d
        BY <1>2, <3>3 DEF IInv, FreshReads
      <4>. QED  BY <4>1, <4>2
    <3>4. Reading(q)' = Reading(q)
      BY <3>1 DEF Reading
    <3>5. requests[q].phase = "committed" => requests[q].draft \in DraftIds
      BY DEF IInv, FreshReads
    <3>6. requests[q].phase = "ready" /\ requests[q].kind = "publish" =>
            (requests[q].base = root.version => requests[q].old = root.draft)
      BY DEF IInv, FreshReads
    <3>7. Reading(q) => drafts'[requests[q].draft] = drafts[requests[q].draft]
      BY <1>8, <3>3
    <3>8. root' = root
      BY <1>1
    <3>. QED  BY <3>1, <3>2, <3>3, <3>4, <3>5, <3>6, <3>7, <3>8 DEF IInv, FreshReads
  <2>. QED  BY <2>2, <2>3
<1>. QED
  BY <1>10, <1>11, <1>13, <1>14, <1>15, <1>16, <1>17, <1>18 DEF IInv

LEMMA LoseStartKeeps == ASSUME IInv, NEW r \in Requests, LoseStart(r) PROVE IInv'
<1>1. UNCHANGED <<drafts, root, history, secret, minted, answered>>
  BY DEF LoseStart, tables
<1>2. PICK d \in Active : Set(r, [Idle EXCEPT !.phase = "committed", !.draft = d])
  BY DEF LoseStart
<1>. QED  BY <1>1, <1>2, ResumeKeeps DEF Active

\* What a publication writes: the draft becomes the last version, the version
\* before it is superseded, and no content changes.
PublishWrites(r, d, b) ==
    /\ d \in DraftIds /\ drafts[d].status = "active" /\ drafts[d].base = b
    /\ b = root.version /\ b = Len(history) /\ b \in Nat
    /\ Publishable(drafts[d].body) /\ WithinLimits(drafts[d].body)
    /\ StepsFor(drafts[d].body.orientation) \subseteq drafts[d].steps
    /\ root' = [version |-> b + 1, draft |-> d]
    /\ history' = Append(history, d)
    /\ drafts' \in [DraftIds -> Draft]
    /\ \A e \in DraftIds :
        /\ drafts'[e].body = drafts[e].body /\ drafts'[e].steps = drafts[e].steps
        /\ drafts'[e].base = drafts[e].base /\ drafts[e].revision <= drafts'[e].revision
        /\ drafts'[e].status = IF e = d THEN "published" ELSE drafts[e].status
        /\ drafts'[e].state = IF e = d THEN "published"
                              ELSE IF e = root.draft /\ drafts[e].state = "published"
                                     THEN "superseded" ELSE drafts[e].state
        /\ e # d => drafts'[e].revision = drafts[e].revision

LEMMA PublishEffect ==
  ASSUME IInv, NEW r \in Requests, Publish(r)
  PROVE  PublishWrites(r, requests[r].draft, requests[r].base)
<1>. DEFINE d == requests[r].draft
            b == requests[r].base
            old == requests[r].old
            nd(i) == [drafts[i] EXCEPT !.status = "published", !.revision = @ + 1,
                                       !.state = "published"]
            od(i) == [drafts[i] EXCEPT !.state = "superseded"]
<1>. HIDE DEF nd, od
<1>1. At(r, "ready", {"publish"}) /\ Complete(r) /\ MayWrite(r) /\ root.version = b
  BY DEF Publish, MayPublish, BaseHolds
<1>2. d \in DraftIds /\ Doc(r) = drafts[d].body /\ Good(Doc(r))
  BY <1>1, DocIsBody DEF At
<1>3. requests[r].steps = drafts[d].steps /\ b = drafts[d].base /\ old = root.draft
  BY <1>1 DEF At, IInv, FreshReads, Reading, MayWrite, Guarded
<1>4. drafts[d].status = "active" /\ drafts[d].state = "draft"
  BY <1>1 DEF MayWrite, Guarded
<1>5. b = Len(history) /\ b \in Nat
  BY <1>1 DEF IInv, HistoryIsLinear, TypeOK
<1>6. /\ Publishable(drafts[d].body) /\ WithinLimits(drafts[d].body)
      /\ StepsFor(drafts[d].body.orientation) \subseteq drafts[d].steps
  BY <1>1, <1>2, <1>3 DEF Complete, Good
<1>7. root' = [version |-> b + 1, draft |-> d] /\ history' = Append(history, d)
  BY DEF Publish
<1>8. drafts' = [i \in DraftIds |->
                    CASE i = d -> nd(i)
                      [] i = old /\ i # d /\ drafts[i].state = "published" -> od(i)
                      [] OTHER -> drafts[i]]
  BY DEF Publish, nd, od
<1>9. \A i \in DraftIds : drafts[i] \in Draft /\ drafts[i].revision \in Nat
  BY DEF IInv, TypeOK, Draft
<1>10. \A i \in DraftIds :
        /\ nd(i) \in Draft /\ nd(i).body = drafts[i].body /\ nd(i).steps = drafts[i].steps
        /\ nd(i).base = drafts[i].base /\ nd(i).revision = drafts[i].revision + 1
        /\ nd(i).status = "published" /\ nd(i).state = "published"
  BY <1>9, NextRevision DEF Draft, nd, Statuses, States
<1>11. \A i \in DraftIds :
        /\ od(i) \in Draft /\ od(i).body = drafts[i].body /\ od(i).steps = drafts[i].steps
        /\ od(i).base = drafts[i].base /\ od(i).revision = drafts[i].revision
        /\ od(i).status = drafts[i].status /\ od(i).state = "superseded"
  BY <1>9 DEF Draft, od, States
<1>12. \A i \in DraftIds : drafts'[i] = IF i = d THEN nd(i)
                                        ELSE IF i = old /\ drafts[i].state = "published"
                                               THEN od(i) ELSE drafts[i]
  BY <1>8
<1>13. drafts' \in [DraftIds -> Draft]
  <2>1. \A i \in DraftIds : drafts'[i] \in Draft
    BY <1>9, <1>10, <1>11, <1>12
  <2>2. drafts' = [i \in DraftIds |-> drafts'[i]]
    BY <1>8
  <2>. QED  BY <2>1, <2>2
<1>14. ASSUME NEW e \in DraftIds
       PROVE  /\ drafts'[e].body = drafts[e].body /\ drafts'[e].steps = drafts[e].steps
              /\ drafts'[e].base = drafts[e].base /\ drafts[e].revision <= drafts'[e].revision
              /\ drafts'[e].status = IF e = d THEN "published" ELSE drafts[e].status
              /\ drafts'[e].state = IF e = d THEN "published"
                                    ELSE IF e = root.draft /\ drafts[e].state = "published"
                                           THEN "superseded" ELSE drafts[e].state
              /\ e # d => drafts'[e].revision = drafts[e].revision
  BY <1>3, <1>9, <1>10, <1>11, <1>12
<1>. QED
  BY <1>1, <1>2, <1>3, <1>4, <1>5, <1>6, <1>7, <1>13, <1>14 DEF PublishWrites

LEMMA PublishKeeps == ASSUME IInv, NEW r \in Requests, Publish(r) PROVE IInv'
<1>. DEFINE d == requests[r].draft
            b == requests[r].base
            rec == [Idle EXCEPT !.phase = "committed", !.kind = requests[r].kind, !.draft = d]
<1>. HIDE DEF rec
<1>1. PublishWrites(r, d, b)
  BY PublishEffect
<1>. HIDE DEF d, b
<1>2. d \in DraftIds /\ b \in Nat /\ b = root.version /\ b = Len(history)
  BY <1>1 DEF PublishWrites
<1>3. root'.version = b + 1 /\ root'.draft = d /\ history' = Append(history, d)
  BY <1>1 DEF PublishWrites
<1>4. history \in Seq(DraftIds) /\ history' \in Seq(DraftIds) /\ Len(history') = b + 1
  BY <1>2, <1>3 DEF IInv, TypeOK
<1>5. \A i \in 1..b : history'[i] = history[i] /\ history[i] \in DraftIds /\ history[i] # d
  BY <1>1, <1>2, <1>3, <1>4 DEF IInv, HistoryIsLinear, PublishWrites
<1>6. history'[b + 1] = d
  BY <1>2, <1>3, <1>4
<1>7. NoSecret
  BY DEF Publish
<1>8. secret' \in Nat /\ minted' \in Nat /\ answered' \in Nat /\ AnsweredSecretIsLive'
  BY <1>7 DEF NoSecret, IInv, TypeOK, AnsweredSecretIsLive
<1>9. requests[r].kind \in Kinds
  BY DEF IInv, TypeOK, Request
<1>10. rec \in Request /\ rec.phase = "committed" /\ rec.draft = d
  BY <1>2, <1>9, CommittedRequest DEF rec, d
<1>11. requests' = [requests EXCEPT ![r] = rec]
  BY DEF Publish, Committed, Set, rec, d
<1>12. \A q \in Requests : requests'[q] = IF q = r THEN rec ELSE requests[q]
  BY <1>11 DEF IInv, TypeOK
<1>13. TypeOK'
  <2>1. b + 1 \in Nat /\ root' \in [version : Nat, draft : DraftIds \cup {0}]
    BY <1>1, <1>2, NextRevision DEF PublishWrites
  <2>2. drafts' \in [DraftIds -> Draft]
    BY <1>1 DEF PublishWrites
  <2>3. requests' \in [Requests -> Request]
    BY <1>10, <1>11 DEF IInv, TypeOK
  <2>. QED  BY <1>4, <1>8, <2>1, <2>2, <2>3 DEF TypeOK
<1>14. HistoryIsLinear'
  <2>1. root'.version = Len(history') /\ root'.draft = history'[Len(history')]
        /\ history' # <<>> /\ 1..Len(history') = 1..b \cup {b + 1}
    BY <1>2, <1>3, <1>4, <1>6
  <2>2. b # 0 => root.draft = history[b]
    BY <1>2 DEF IInv, HistoryIsLinear
  <2>3. ASSUME NEW i \in 1..b
        PROVE  /\ drafts'[history'[i]].base + 1 = i
               /\ drafts'[history'[i]].status = "published"
               /\ drafts'[history'[i]].state = "superseded"
               /\ \A j \in 1..(b + 1) : history'[j] = history'[i] => j = i
    <3>1. i \in 1..Len(history) /\ b # 0 /\ b \in 1..Len(history)
      BY <1>2
    <3>2. /\ drafts[history[i]].base + 1 = i /\ drafts[history[i]].status = "published"
          /\ drafts[history[i]].state = IF i = b THEN "published" ELSE "superseded"
          /\ \A j \in 1..b : history[j] = history[i] => j = i
      BY <1>2, <3>1 DEF IInv, HistoryIsLinear
    <3>3. history[i] = root.draft <=> i = b
      BY <2>2, <3>1, <3>2
    <3>4. /\ drafts'[history[i]].base = drafts[history[i]].base
          /\ drafts'[history[i]].status = "published"
          /\ drafts'[history[i]].state = "superseded"
      BY <1>1, <1>5, <3>2, <3>3 DEF PublishWrites
    <3>5. \A j \in 1..(b + 1) : history'[j] = history'[i] => j = i
      BY <1>2, <1>5, <1>6, <3>2
    <3>. QED  BY <1>5, <3>2, <3>4, <3>5
  <2>4. /\ drafts'[history'[b + 1]].base + 1 = b + 1
        /\ drafts'[history'[b + 1]].status = "published"
        /\ drafts'[history'[b + 1]].state = "published"
        /\ \A j \in 1..(b + 1) : history'[j] = history'[b + 1] => j = b + 1
    BY <1>1, <1>2, <1>5, <1>6 DEF PublishWrites
  <2>5. \A i \in 1..Len(history') :
            /\ drafts'[history'[i]].base + 1 = i
            /\ drafts'[history'[i]].status = "published"
            /\ drafts'[history'[i]].state =
                    IF i = Len(history') THEN "published" ELSE "superseded"
            /\ \A j \in 1..Len(history') : history'[j] = history'[i] => j = i
    <3>1. SUFFICES ASSUME NEW i \in 1..Len(history')
            PROVE /\ drafts'[history'[i]].base + 1 = i
                  /\ drafts'[history'[i]].status = "published"
                  /\ drafts'[history'[i]].state =
                          IF i = Len(history') THEN "published" ELSE "superseded"
                  /\ \A j \in 1..Len(history') : history'[j] = history'[i] => j = i
      OBVIOUS
    <3>2. CASE i = b + 1
      BY <1>4, <2>4, <3>2
    <3>3. CASE i # b + 1
      <4>1. i \in 1..b
        BY <1>2, <1>4, <3>3
      <4>. QED  BY <1>4, <2>3, <3>3, <4>1
    <3>. QED  BY <3>2, <3>3
  <2>6. ASSUME NEW e \in DraftIds, drafts'[e].status = "published"
        PROVE  \E i \in 1..Len(history') : history'[i] = e
    <3>1. CASE e = d
      BY <1>2, <1>4, <1>6, <3>1
    <3>2. CASE e # d
      <4>1. drafts[e].status = "published"
        BY <1>1, <2>6, <3>2 DEF PublishWrites
      <4>2. PICK i \in 1..Len(history) : history[i] = e
        BY <4>1 DEF IInv, HistoryIsLinear
      <4>3. i \in 1..b /\ i \in 1..Len(history')
        BY <1>2, <1>4
      <4>. QED  BY <1>5, <4>2, <4>3
    <3>. QED  BY <3>1, <3>2
  <2>. QED  BY <2>1, <2>5, <2>6 DEF HistoryIsLinear
<1>15. PublishedIsAllowed'
  <2>1. SUFFICES ASSUME NEW i \in 1..(b + 1)
          PROVE (LET x == drafts[history[i]]
                 IN  /\ Publishable(x.body) /\ WithinLimits(x.body)
                     /\ StepsFor(x.body.orientation) \subseteq x.steps)'
    BY <1>4 DEF PublishedIsAllowed
  <2>2. CASE i = b + 1
    BY <1>1, <1>6, <2>2 DEF PublishWrites
  <2>3. CASE i # b + 1
    <3>1. i \in 1..b /\ i \in 1..Len(history)
      BY <1>2, <2>3
    <3>2. /\ drafts'[history'[i]].body = drafts[history[i]].body
          /\ drafts'[history'[i]].steps = drafts[history[i]].steps
      BY <1>1, <1>5, <3>1 DEF PublishWrites
    <3>. QED  BY <3>1, <3>2 DEF IInv, PublishedIsAllowed
  <2>. QED  BY <2>2, <2>3
<1>16. DraftsWithinLimits'
  BY <1>1 DEF IInv, DraftsWithinLimits, PublishWrites
<1>17. DraftShape'
  <2>1. \A e \in DraftIds : drafts[e].base \in Nat
    BY DEF IInv, TypeOK, Draft
  <2>2. \A e \in DraftIds : drafts'[e].base <= root'.version
    BY <1>1, <1>2, <1>3, <2>1 DEF IInv, DraftShape, PublishWrites
  <2>3. \A e \in DraftIds : drafts'[e].status = "active" => drafts'[e].state = "draft"
    BY <1>1 DEF IInv, DraftShape, PublishWrites
  <2>. QED  BY <2>2, <2>3 DEF DraftShape
<1>18. OneActive'
  BY <1>1 DEF IInv, OneActive, Active, PublishWrites
<1>19. FreshReads'
  <2>1. SUFFICES ASSUME NEW q \in Requests
                 PROVE (LET x == requests[q] e == drafts[x.draft]
                        IN /\ x.phase = "committed" => x.draft \in DraftIds
                           /\ Reading(q) =>
                                /\ x.draft \in DraftIds /\ e.status # "none" /\ x.revision <= e.revision
                                /\ x.kind = "publish" => x.base <= root.version
                                /\ x.revision = e.revision /\ e.status = "active" =>
                                    /\ x.phase = "scalars" => x.doc = [e.body EXCEPT !.links = {}]
                                    /\ x.phase = "ready" /\ x.kind # "restart" => x.doc = e.body
                                    /\ x.kind = "publish" => x.base = e.base
                                    /\ x.phase = "ready" /\ x.kind = "publish" => x.steps = e.steps
                           /\ x.phase = "ready" /\ x.kind = "publish" =>
                                (x.base = root.version => x.old = root.draft)
                           /\ x.phase = "ready" /\ x.kind \in {"start", "restart"} =>
                                x.base <= root.version /\ x.doc = Version(x.base))'
    BY DEF FreshReads
  <2>2. CASE q = r
    BY <1>2, <1>10, <1>12, <2>2 DEF Reading
  <2>3. CASE q # r
    <3>1. requests'[q] = requests[q] /\ requests[q] \in Request
      BY <1>12, <2>3 DEF IInv, TypeOK
    <3>2. requests[q].base \in Nat /\ requests[q].revision \in Nat
      BY <3>1 DEF Request
    <3>3. ASSUME requests[q].phase = "ready", requests[q].kind \in {"start", "restart"}
          PROVE  requests[q].base <= root'.version /\ requests[q].doc = Version(requests[q].base)'
      <4>. DEFINE n == requests[q].base
      <4>1. n \in Nat /\ n <= root.version /\ requests[q].doc = Version(n)
        BY <3>2, <3>3 DEF IInv, FreshReads
      <4>2. n # 0 => n \in 1..b
        BY <1>2, <4>1
      <4>3. n # 0 => history'[n] = history[n] /\ drafts'[history[n]].body = drafts[history[n]].body
        BY <1>1, <1>5, <4>2 DEF PublishWrites
      <4>4. requests'[q].base = n
        BY <3>1
      <4>5. n <= root'.version
        BY <1>2, <1>3, <4>1
      <4>. QED  BY <4>1, <4>3, <4>4, <4>5 DEF Version
    <3>4. ASSUME requests[q].phase = "ready", requests[q].kind = "publish"
          PROVE  requests[q].base <= root'.version /\ requests[q].base # root'.version
      <4>1. requests[q].base <= root.version
        BY <3>4 DEF IInv, FreshReads, Reading
      <4>. QED  BY <1>2, <1>3, <3>2, <4>1
    <3>5. ASSUME Reading(q)
          PROVE  LET x == requests[q] e == drafts'[x.draft]
                 IN /\ x.draft \in DraftIds /\ e.status # "none" /\ x.revision <= e.revision
                    /\ x.kind = "publish" => x.base <= root'.version
                    /\ x.revision = e.revision /\ e.status = "active" =>
                        /\ x.phase = "scalars" => x.doc = [e.body EXCEPT !.links = {}]
                        /\ x.phase = "ready" /\ x.kind # "restart" => x.doc = e.body
                        /\ x.kind = "publish" => x.base = e.base
                        /\ x.phase = "ready" /\ x.kind = "publish" => x.steps = e.steps
      <4>. DEFINE x == requests[q]
                  e == drafts[x.draft]
                  f == drafts'[x.draft]
      <4>1. x.draft \in DraftIds /\ e.status # "none" /\ x.revision <= e.revision
        BY <3>5 DEF IInv, FreshReads
      <4>2. e.revision \in Nat /\ f.revision \in Nat
        BY <1>13, <4>1 DEF IInv, TypeOK, Draft
      <4>3. f.status # "none" /\ e.revision <= f.revision
        BY <1>1, <4>1 DEF PublishWrites
      <4>4. x.revision <= f.revision
        BY <3>2, <4>1, <4>2, <4>3
      <4>5. f.status = "active" =>
              /\ e.status = "active" /\ f.revision = e.revision /\ f.body = e.body
              /\ f.steps = e.steps /\ f.base = e.base
        BY <1>1, <4>1 DEF PublishWrites
      <4>6. x.revision = e.revision /\ e.status = "active" =>
                    /\ x.phase = "scalars" => x.doc = [e.body EXCEPT !.links = {}]
                    /\ x.phase = "ready" /\ x.kind # "restart" => x.doc = e.body
                    /\ x.kind = "publish" => x.base = e.base
                    /\ x.phase = "ready" /\ x.kind = "publish" => x.steps = e.steps
        BY <3>5 DEF IInv, FreshReads
      <4>8. x.kind = "publish" => x.base <= root'.version
        <5>1. x.kind = "publish" => x.base <= root.version
          BY <3>5 DEF IInv, FreshReads
        <5>. QED  BY <1>2, <1>3, <3>2, <5>1
      <4>. HIDE DEF x, e, f
      <4>7. x.revision = f.revision /\ f.status = "active" =>
                    /\ x.phase = "scalars" => x.doc = [f.body EXCEPT !.links = {}]
                    /\ x.phase = "ready" /\ x.kind # "restart" => x.doc = f.body
                    /\ x.kind = "publish" => x.base = f.base
                    /\ x.phase = "ready" /\ x.kind = "publish" => x.steps = f.steps
        BY <4>5, <4>6
      <4>. QED  BY <4>1, <4>3, <4>4, <4>7, <4>8 DEF x, e, f
    <3>6. Reading(q)' = Reading(q)
      BY <3>1 DEF Reading
    <3>7. requests[q].phase = "committed" => requests[q].draft \in DraftIds
      BY DEF IInv, FreshReads
    <3>. QED  BY <3>1, <3>3, <3>4, <3>5, <3>6, <3>7
  <2>. QED  BY <2>2, <2>3
<1>. QED
  BY <1>8, <1>13, <1>14, <1>15, <1>16, <1>17, <1>18, <1>19 DEF IInv

LEMMA EditsKeep == ASSUME IInv, NEW r \in Requests, Edits(r) PROVE IInv'
<1>1. CASE CreateImport(r)   BY <1>1, CreateImportKeeps
<1>2. CASE ConfirmImport(r)  BY <1>2, ConfirmImportKeeps
<1>3. CASE AttachThrone(r)   BY <1>3, AttachThroneKeeps
<1>4. CASE RotateThrone(r)   BY <1>4, RotateThroneKeeps
<1>. QED  BY <1>1, <1>2, <1>3, <1>4, StepKeeps DEF Edits

LEMMA OthersKeep == ASSUME IInv, NEW r \in Requests, Others(r) PROVE IInv'
<1>1. CASE Restart(r)         BY <1>1, RestartKeeps
<1>2. CASE CommitStart(r)     BY <1>2, CommitStartKeeps
<1>3. CASE LoseStart(r)       BY <1>3, LoseStartKeeps
<1>4. CASE Publish(r)         BY <1>4, PublishKeeps
<1>5. CASE Conflict(r)        BY <1>5, IdleKeeps DEF Conflict, tables
<1>6. CASE ConflictRotate(r)  BY <1>6, ConflictRotateKeeps
<1>7. CASE ConflictPublish(r)  BY <1>7, IdleKeeps DEF ConflictPublish, tables
<1>. QED  BY <1>1, <1>2, <1>3, <1>4, <1>5, <1>6, <1>7 DEF Others

LEMMA NextKeeps == IInv /\ [Next]_vars => IInv'
<1>. SUFFICES ASSUME IInv, [Next]_vars PROVE IInv'
  OBVIOUS
<1>1. CASE UNCHANGED vars
  <2>1. \A n : Version(n)' = Version(n)
    BY <1>1 DEF vars, Version
  <2>2. \A r \in Requests : Reading(r)' = Reading(r)
    BY <1>1 DEF vars, Reading
  <2>3. FreshReads'
    BY <1>1, <2>1, <2>2 DEF vars, IInv, FreshReads
  <2>. QED
    BY <1>1, <2>3 DEF vars, IInv, TypeOK, HistoryIsLinear, PublishedIsAllowed,
      AnsweredSecretIsLive, DraftsWithinLimits, DraftShape, OneActive, Active
<1>2. ASSUME NEW r \in Requests, Start(r) PROVE IInv'
  BY <1>2, StartKeeps
<1>3. ASSUME NEW r \in Requests, NEW kind \in Kinds, NEW d \in DraftIds, Load(r, kind, d)
      PROVE  IInv'
  BY <1>3, LoadKeeps
<1>4. ASSUME NEW r \in Requests, Reads(r) PROVE IInv'
  BY <1>4, ReadScalarsKeeps, ReadRestKeeps, ReadRootKeeps DEF Reads
<1>5. ASSUME NEW r \in Requests, Edits(r) PROVE IInv'
  BY <1>5, EditsKeep
<1>6. ASSUME NEW r \in Requests, Others(r) PROVE IInv'
  BY <1>6, OthersKeep
<1>7. ASSUME NEW r \in Requests, GiveUp(r) PROVE IInv'
  BY <1>7, IdleKeeps DEF GiveUp, tables
<1>. QED  BY <1>1, <1>2, <1>3, <1>4, <1>5, <1>6, <1>7 DEF Next

\* IInv holds of every state: the invariant all the others follow from.
THEOREM InductiveInvariant == Spec => []IInv
  BY InitIInv, NextKeeps, PTL DEF Spec

\* The tables and every request's local variables have the shape their types
\* say, for any numbers of drafts and requests.
THEOREM TypeCorrect == Spec => []TypeOK
<1>1. IInv => TypeOK
  BY DEF IInv
<1>. QED  BY <1>1, InductiveInvariant, PTL

\* Publications form one line (publishService.ts:160-163).
THEOREM LinearHistory == Spec => []HistoryIsLinear
<1>1. IInv => HistoryIsLinear
  BY DEF IInv
<1>. QED  BY <1>1, InductiveInvariant, PTL

\* Whatever was published was complete and allowed when it was published
\* (publishService.ts:76-127).
THEOREM PublishedAllowed == Spec => []PublishedIsAllowed
<1>1. IInv => PublishedIsAllowed
  BY DEF IInv
<1>. QED  BY <1>1, InductiveInvariant, PTL

\* The secret in force was told to its owner (throneDraftService.ts:244-246).
THEOREM SecretIsAnswered == Spec => []AnsweredSecretIsLive
<1>1. IInv => AnsweredSecretIsLive
  BY DEF IInv
<1>. QED  BY <1>1, InductiveInvariant, PTL

\* No draft holds what its orientation does not have (contracts.ts:77-120).
THEOREM DraftLimits == Spec => []DraftsWithinLimits
<1>1. IInv => DraftsWithinLimits
  BY DEF IInv
<1>. QED  BY <1>1, InductiveInvariant, PTL

-----------------------------------------------------------------------------
(***************************************************************************)
(* The refinement: a write of an edit is an edit of the abstract store, a  *)
(* write of a copied document begins a draft, a publication publishes, and *)
(* everything else is a stutter.                                           *)
(***************************************************************************)
Working == [d \in DraftIds |-> IF drafts[d].status = "active"
                                 THEN [body |-> drafts[d].body, base |-> drafts[d].base]
                                 ELSE None]
Line == [i \in 1..Len(history) |-> drafts[history[i]].body]

LEMMA StutterStep == ASSUME UNCHANGED <<drafts, history>> PROVE UNCHANGED Store!vars
  BY DEF Store!vars

\* A draft that changes is not in the line, which stays as it is.
LEMMA LineKept ==
  ASSUME IInv, NEW d \in DraftIds, drafts[d].status # "published",
         UNCHANGED history, \A e \in DraftIds \ {d} : drafts'[e] = drafts[e]
  PROVE  Line' = Line
<1>1. \A i \in 1..Len(history) : history[i] \in DraftIds \ {d}
  BY DEF IInv, TypeOK, HistoryIsLinear
<1>. QED  BY <1>1 DEF Line

\* A write of a document that is an edit of the draft's.
LEMMA WriteIsEdit ==
  ASSUME IInv, NEW r \in Requests, At(r, "ready", {"edit"}),
         NEW doc, NEW step, NEW imports, Write(r, doc, step, imports),
         doc \in Edited(drafts[requests[r].draft].body) \/ doc = drafts[requests[r].draft].body
  PROVE  [Store!Next]_(Store!vars)
<1>0. PICK d \in DraftIds : d = requests[r].draft
  BY DocIsBody DEF At, Write
<1>. DEFINE nd == [drafts[d] EXCEPT !.body = doc, !.steps = StepsWith(drafts[d].steps, step),
                                    !.imports = imports, !.revision = drafts[d].revision + 1]
<1>. HIDE DEF nd
<1>1. d \in DraftIds /\ drafts[d] \in Draft /\ drafts[d].status = "active"
  BY <1>0 DEF Write, MayWrite, Guarded, IInv, TypeOK
<1>2. drafts' = [drafts EXCEPT ![d] = nd] /\ UNCHANGED history
  BY <1>0 DEF Write, nd
<1>3. nd.status = "active" /\ nd.body = doc /\ nd.base = drafts[d].base
  BY <1>1 DEF Draft, nd
<1>4. \A e \in DraftIds : drafts'[e] = IF e = d THEN nd ELSE drafts[e]
  BY <1>2 DEF IInv, TypeOK
<1>5. Line' = Line
  BY <1>1, <1>2, <1>4, LineKept
<1>6. Working[d] = [body |-> drafts[d].body, base |-> drafts[d].base] /\ Working[d] # None
  BY <1>1, NoneAssumption DEF Working, Draft
<1>7. Working' = [Working EXCEPT ![d] = [body |-> doc, base |-> Working[d].base]]
  BY <1>1, <1>3, <1>4, <1>6 DEF Working
<1>8. CASE doc = drafts[d].body
  <2>1. Working' = Working
    BY <1>6, <1>7, <1>8 DEF Working
  <2>. QED  BY <1>5, <2>1 DEF Store!vars, Working, Line
<1>9. CASE doc \in Edited(drafts[d].body)
  <2>1. doc \in Changes[Working[d].body]
    BY <1>1, <1>6, <1>9 DEF Changes, Draft
  <2>2. Store!Edit(d)
    BY <1>5, <1>6, <1>7, <2>1 DEF Store!Edit, Working, Line
  <2>. QED  BY <1>1, <2>2 DEF Store!Next
<1>. QED  BY <1>0, <1>8, <1>9

\* The documents the wizard's steps write are edits.
LEMMA EditedCovers ==
  ASSUME NEW doc
  PROVE  /\ Oriented(doc) \subseteq Edited(doc) /\ Identified(doc) \subseteq Edited(doc)
         /\ Relinked(doc) \subseteq Edited(doc) /\ LinkRemoved(doc) \subseteq Edited(doc)
         /\ LinkAdded(doc) \subseteq Edited(doc) /\ LinkEdited(doc) \subseteq Edited(doc)
         /\ Attached(doc) \subseteq Edited(doc) /\ Throned(doc, TRUE) \subseteq Edited(doc)
         /\ \A S \in SUBSET Links : Imported(doc, S) \subseteq Edited(doc)
  BY DEF Edited

LEMMA ThronedCovers ==
  ASSUME NEW doc, NEW owned \in BOOLEAN PROVE Throned(doc, owned) \subseteq Throned(doc, TRUE)
  BY DEF Throned

LEMMA EditsRefine ==
  ASSUME IInv, NEW r \in Requests, Edits(r) PROVE [Store!Next]_(Store!vars)
<1>. DEFINE body == drafts[requests[r].draft].body
<1>1. At(r, "ready", {"edit"})
  BY DEF Edits, OrientationStep, IdentityStep, IdentityPart, LinksStep, ThroneStep, AddLink,
    EditLink, RemoveLink, Save, CreateImport, ConfirmImport, AttachThrone, RotateThrone
<1>2. MayWrite(r) => Doc(r) = body
  BY <1>1, DocIsBody DEF At
<1>3. ASSUME NEW docs, NEW step, Save(r, docs, step), docs \subseteq Edited(Doc(r))
      PROVE  [Store!Next]_(Store!vars)
  <2>1. PICK doc \in docs : Write(r, doc, step, drafts[requests[r].draft].imports)
    BY <1>3 DEF Save
  <2>2. doc \in Edited(body)
    BY <1>2, <1>3, <2>1 DEF Write
  <2>. QED  BY <1>1, <2>1, <2>2, WriteIsEdit
<1>4. CASE OrientationStep(r)
  BY <1>3, <1>4, EditedCovers DEF OrientationStep
<1>5. CASE IdentityStep(r)
  BY <1>3, <1>5, EditedCovers DEF IdentityStep
<1>6. CASE IdentityPart(r)
  BY <1>3, <1>6, EditedCovers DEF IdentityPart
<1>7. CASE \E L \in SUBSET Links : LinksStep(r, L)
  <2>1. PICK L \in SUBSET Links : LinksStep(r, L)
    BY <1>7
  <2>2. {e \in Relinked(Doc(r)) : e.links = L} \subseteq Edited(Doc(r))
    BY EditedCovers
  <2>. QED  BY <1>3, <2>1, <2>2 DEF LinksStep
<1>8. CASE \E c \in BOOLEAN : ThroneStep(r, c)
  <2>1. PICK c \in BOOLEAN : ThroneStep(r, c)
    BY <1>8
  <2>2. {e \in Throned(Doc(r), secret # 0) : e.creator = c} \subseteq Edited(Doc(r))
    BY EditedCovers, ThronedCovers
  <2>. QED  BY <1>3, <2>1, <2>2 DEF ThroneStep
<1>9. CASE AddLink(r)
  BY <1>3, <1>9, EditedCovers DEF AddLink
<1>10. CASE EditLink(r)
  BY <1>3, <1>10, EditedCovers DEF EditLink
<1>11. CASE RemoveLink(r)
  BY <1>3, <1>11, EditedCovers DEF RemoveLink
<1>12. CASE CreateImport(r)
  BY <1>1, <1>12, WriteIsEdit DEF CreateImport
<1>13. CASE ConfirmImport(r)
  <2>1. PICK page \in requests[r].imports : \E wanted \in SUBSET page :
          \E doc \in Imported(Doc(r), wanted) :
             Write(r, doc, "", drafts[requests[r].draft].imports \ {page})
    BY <1>13 DEF ConfirmImport
  <2>2. PICK wanted \in SUBSET page : \E doc \in Imported(Doc(r), wanted) :
             Write(r, doc, "", drafts[requests[r].draft].imports \ {page})
    BY <2>1
  <2>3. PICK doc \in Imported(Doc(r), wanted) :
             Write(r, doc, "", drafts[requests[r].draft].imports \ {page})
    BY <2>2
  <2>4. wanted \in SUBSET Links
    BY DEF IInv, TypeOK, Request
  <2>5. doc \in Edited(body)
    BY <1>2, <2>3, <2>4, EditedCovers DEF Write
  <2>. QED  BY <1>1, <2>3, <2>5, WriteIsEdit
<1>14. CASE AttachThrone(r)
  <2>1. PICK doc \in Attached(Doc(r)) :
          Write(r, doc, "", drafts[requests[r].draft].imports)
    BY <1>14 DEF AttachThrone
  <2>2. doc \in Edited(body)
    BY <1>2, <2>1, EditedCovers DEF Write
  <2>. QED  BY <1>1, <2>1, <2>2, WriteIsEdit
<1>15. CASE RotateThrone(r)
  BY <1>1, <1>15, WriteIsEdit DEF RotateThrone
<1>. QED
  BY <1>4, <1>5, <1>6, <1>7, <1>8, <1>9, <1>10, <1>11, <1>12, <1>13, <1>14, <1>15 DEF Edits

\* The abstract store's versions are those of the tables.
LEMMA StoreVersion ==
  ASSUME IInv, NEW n \in Nat, n <= root.version
  PROVE  n \in 0..Len(Line) /\ (IF n = 0 THEN Empty ELSE Line[n]) = Version(n)
<1>1. root.version = Len(history) /\ Len(history) \in Nat
  BY DEF IInv, TypeOK, HistoryIsLinear
<1>2. Len(Line) = Len(history)
  <2>1. Line \in Seq({drafts[history[i]].body : i \in 1..Len(history)})
    BY <1>1 DEF Line
  <2>. QED  BY <1>1, <2>1 DEF Line
<1>3. n # 0 => n \in 1..Len(history)
  BY <1>1
<1>. QED  BY <1>1, <1>2, <1>3 DEF Line, Version

\* A draft that begins as a copy of a version.
LEMMA BeginStep ==
  ASSUME IInv, NEW d \in DraftIds, NEW nd, NEW n \in Nat, n <= root.version,
         drafts[d].status # "published", \A e \in Active : e = d,
         drafts' = [drafts EXCEPT ![d] = nd], UNCHANGED history,
         nd.status = "active", nd.body = Version(n), nd.base = n
  PROVE  Store!Begin(d)
<1>1. \A e \in DraftIds : drafts'[e] = IF e = d THEN nd ELSE drafts[e]
  BY DEF IInv, TypeOK
<1>2. Line' = Line
  BY <1>1, LineKept
<1>3. \A e \in DraftIds \ {d} : Working[e] = None
  BY DEF Working, Active
<1>4. Working' = [Working EXCEPT ![d] = [body |-> Version(n), base |-> n]]
  BY <1>1 DEF Working
<1>5. n \in 0..Len(Line) /\ (IF n = 0 THEN Empty ELSE Line[n]) = Version(n)
  BY StoreVersion
<1>. QED
  BY <1>2, <1>3, <1>4, <1>5 DEF Store!Begin, Store!Version, Working, Line

LEMMA RestartRefines ==
  ASSUME IInv, NEW r \in Requests, Restart(r) PROVE [Store!Next]_(Store!vars)
<1>1. At(r, "ready", {"restart"}) /\ MayWrite(r)
  BY DEF Restart
<1>2. PICK d \in DraftIds : d = requests[r].draft
  BY <1>1 DEF At, IInv, FreshReads, Reading
<1>. DEFINE nd == [drafts[d] EXCEPT !.body = Doc(r), !.steps = {}, !.base = requests[r].base,
                                    !.revision = drafts[d].revision + 1]
<1>. HIDE DEF nd
<1>3. PICK n \in Nat : n = requests[r].base
  BY DEF IInv, TypeOK, Request
<1>4. n <= root.version /\ Doc(r) = Version(n)
  BY <1>1, <1>3 DEF At, IInv, FreshReads, Doc
<1>5. drafts[d].status = "active" /\ drafts[d] \in Draft
  BY <1>1, <1>2 DEF MayWrite, Guarded, IInv, TypeOK
<1>6. \A e \in Active : e = d
  BY <1>5 DEF IInv, OneActive, Active
<1>7. nd.status = "active" /\ nd.body = Version(n) /\ nd.base = n
  BY <1>3, <1>4, <1>5 DEF Draft, nd
<1>8. UNCHANGED history /\ drafts' = [drafts EXCEPT ![d] = nd]
  BY <1>2 DEF Restart, nd
<1>9. Store!Begin(d)
  BY <1>4, <1>5, <1>6, <1>7, <1>8, BeginStep
<1>. QED  BY <1>9 DEF Store!Next

LEMMA CommitStartRefines ==
  ASSUME IInv, NEW r \in Requests, CommitStart(r) PROVE [Store!Next]_(Store!vars)
<1>1. At(r, "ready", {"start"}) /\ Active = {} /\ UNCHANGED history /\ requests[r] \in Request
  BY DEF CommitStart, RoomForDraft, IInv, TypeOK
<1>2. PICK d \in DraftIds :
        /\ drafts[d].status = "none"
        /\ drafts' = [drafts EXCEPT ![d] =
                [NoDraft EXCEPT !.status = "active", !.state = "draft",
                                !.body = Doc(r), !.base = requests[r].base]]
  BY DEF CommitStart
<1>. DEFINE nd == [NoDraft EXCEPT !.status = "active", !.state = "draft",
                                  !.body = Doc(r), !.base = requests[r].base]
<1>. HIDE DEF nd
<1>3. requests[r].base \in Nat /\ requests[r].base <= root.version /\ Doc(r) = Version(requests[r].base)
  BY <1>1 DEF At, IInv, FreshReads, Request, Doc
<1>4. nd.status = "active" /\ nd.body = Version(requests[r].base) /\ nd.base = requests[r].base
  BY <1>3 DEF nd, NoDraft
<1>5. drafts' = [drafts EXCEPT ![d] = nd]
  BY <1>2 DEF nd
<1>6. Store!Begin(d)
  BY <1>1, <1>2, <1>3, <1>4, <1>5, BeginStep
<1>. QED  BY <1>6 DEF Store!Next

LEMMA PublishRefines ==
  ASSUME IInv, NEW r \in Requests, Publish(r) PROVE [Store!Next]_(Store!vars)
<1>0. PublishWrites(r, requests[r].draft, requests[r].base)
  BY PublishEffect
<1>1. PICK d \in DraftIds, b \in Nat : PublishWrites(r, d, b)
  BY <1>0 DEF PublishWrites
<1>2. d \in DraftIds /\ drafts[d].status = "active" /\ b \in Nat /\ b = Len(history)
      /\ drafts[d].base = b /\ history' = Append(history, d)
  BY <1>1 DEF PublishWrites
<1>3. history \in Seq(DraftIds) /\ Len(history') = b + 1
  BY <1>2 DEF IInv, TypeOK
<1>4. \A i \in 1..b : history'[i] = history[i] /\ history[i] \in DraftIds
  BY <1>2, <1>3
<1>5. history'[b + 1] = d
  BY <1>2, <1>3
<1>6. \A e \in DraftIds : drafts'[e].body = drafts[e].body /\ drafts'[e].base = drafts[e].base
        /\ drafts'[e].status = IF e = d THEN "published" ELSE drafts[e].status
  BY <1>1 DEF PublishWrites
<1>7. Line \in Seq({drafts[e].body : e \in DraftIds}) /\ Len(Line) = b
  <2>1. \A i \in 1..b : drafts[history[i]].body \in {drafts[e].body : e \in DraftIds}
    BY <1>4
  <2>. QED  BY <1>2, <2>1 DEF Line
<1>8. Line' = Append(Line, drafts[d].body)
  <2>1. Append(Line, drafts[d].body) =
          [i \in 1..(b + 1) |-> IF i = b + 1 THEN drafts[d].body ELSE Line[i]]
    BY <1>7
  <2>2. Line' = [i \in 1..(b + 1) |-> drafts'[history'[i]].body]
    BY <1>3 DEF Line
  <2>3. ASSUME NEW i \in 1..(b + 1)
        PROVE  drafts'[history'[i]].body = IF i = b + 1 THEN drafts[d].body ELSE Line[i]
    <3>1. CASE i = b + 1
      BY <1>2, <1>5, <1>6, <3>1
    <3>2. CASE i # b + 1
      <4>1. i \in 1..b
        BY <1>2, <3>2
      <4>. QED  BY <1>2, <1>4, <1>6, <3>2, <4>1 DEF Line
    <3>. QED  BY <3>1, <3>2
  <2>. QED  BY <2>1, <2>2, <2>3
<1>9. Working[d] = [body |-> drafts[d].body, base |-> b] /\ Working[d] # None
  BY <1>2, NoneAssumption DEF Working, IInv, TypeOK, Draft
<1>10. Working' = [Working EXCEPT ![d] = None]
  BY <1>2, <1>6 DEF Working
<1>11. drafts[d].body \in Allowed
  BY <1>1 DEF PublishWrites, Allowed, IInv, TypeOK, Draft
<1>12. Store!Publish(d)
  BY <1>7, <1>8, <1>9, <1>10, <1>11 DEF Store!Publish, Working, Line
<1>. QED  BY <1>2, <1>12 DEF Store!Next

LEMMA InitRefines == Init => Store!Init
  BY BoundsAssumption DEF Init, NoDraft, Store!Init, DraftIds

LEMMA NextRefines == IInv /\ [Next]_vars => [Store!Next]_(Store!vars)
<1>. SUFFICES ASSUME IInv, [Next]_vars PROVE [Store!Next]_(Store!vars)
  OBVIOUS
<1>1. CASE UNCHANGED vars
  BY <1>1, StutterStep DEF vars
<1>2. ASSUME NEW r \in Requests,
             \/ Start(r) \/ GiveUp(r) \/ Reads(r)
             \/ \E kind \in Kinds, d \in DraftIds : Load(r, kind, d)
             \/ LoseStart(r) \/ Conflict(r) \/ ConflictRotate(r) \/ ConflictPublish(r)
      PROVE  [Store!Next]_(Store!vars)
  <2>1. UNCHANGED <<drafts, history>>
    BY <1>2 DEF Start, GiveUp, Reads, ReadScalars, ReadRest, ReadRoot, Load, LoseStart,
      Conflict, ConflictRotate, ConflictPublish, tables
  <2>. QED  BY <2>1, StutterStep
<1>3. ASSUME NEW r \in Requests, Edits(r) PROVE [Store!Next]_(Store!vars)
  BY <1>3, EditsRefine
<1>4. ASSUME NEW r \in Requests, Restart(r) \/ CommitStart(r) \/ Publish(r)
      PROVE  [Store!Next]_(Store!vars)
  BY <1>4, RestartRefines, CommitStartRefines, PublishRefines
<1>. QED  BY <1>1, <1>2, <1>3, <1>4 DEF Next, Others

\* The drafts and the tables, written from documents read at other times,
\* implement a store whose drafts change by one edit of what they hold at that
\* moment (draftService.ts:537-608, publishService.ts:69-317).
THEOREM Refinement == Spec => ImplementsStore
  BY InductiveInvariant, InitRefines, NextRefines, PTL DEF Spec, ImplementsStore, Store!Spec

=============================================================================
