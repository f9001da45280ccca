---------------------------- MODULE ProfileDrafts ----------------------------
(***************************************************************************)
(* The Worker's drafts of one profile of one owner: the global one, or an  *)
(* independent one of a server (worker/src/profile/draftService.ts,        *)
(* linkService.ts, linkImportService.ts, throneDraftService.ts,            *)
(* publishService.ts and the writes of documentStore.ts).                  *)
(*                                                                         *)
(* Every operation reads the row of a draft and compares its revision with *)
(* the caller's, then reads the document, works out a new one, and writes  *)
(* it in one D1 batch whose statements all test that the draft is still    *)
(* active at the revision that was read.  Requests of other callers run in *)
(* between.  A batch is atomic; the reads are not, and a document is read  *)
(* in two parts.  What a request is for shows when it writes: until then   *)
(* all edits have done the same reads.                                     *)
(***************************************************************************)
EXTENDS ProfileDocument, Sequences, Folds, Functions

CONSTANTS
    Requests,       \* HTTP requests the Worker may be handling at a time
    MaxDrafts,      \* bound: drafts ever started
    MaxRevision,    \* bound: edits of one draft
    MaxEdits,       \* bound: edits of all drafts
    MaxImports,     \* bound: link imports kept with a draft
    MaxSecrets      \* bound: webhook secrets generated

ASSUME BoundsAssumption ==
    /\ MaxDrafts \in Nat \ {0} /\ MaxRevision \in Nat
    /\ MaxEdits \in Nat /\ MaxImports \in Nat /\ MaxSecrets \in Nat

\* What stands for no open draft is not one.
ASSUME NoneAssumption == None \notin [body : Document, base : Nat]

VARIABLES
    drafts,     \* tables profile_drafts, profile_documents, profile_draft_steps
                \* and profile_link_imports, one record per draft
    root,       \* the row of global_profiles or server_profiles
    history,    \* profile_publications: the draft of each version
    secret,     \* which secret throne_creators holds the hash of, 0: no row
    minted,     \* secrets generated so far
    answered,   \* history: the secret in the last successful answer
    requests    \* what each request holds in its local variables

vars == <<drafts, root, history, secret, minted, answered, requests>>

DraftIds == 1..MaxDrafts
Kinds == {"edit", "restart", "publish", "start"}
Phases == {"idle", "loaded", "scalars", "ready", "committed"}

NoDraft ==
    [status |-> "none", revision |-> 0, base |-> 0, steps |-> {},
     state |-> "none", body |-> Empty, imports |-> {}]

Idle ==
    [phase |-> "idle", kind |-> "start", draft |-> 0, revision |-> 0, doc |-> Empty,
     steps |-> {}, imports |-> {}, base |-> 0, old |-> 0]

Init ==
    /\ drafts = [d \in DraftIds |-> NoDraft]
    /\ root = [version |-> 0, draft |-> 0]
    /\ history = <<>>
    /\ secret = 0 /\ minted = 0 /\ answered = 0
    /\ requests = [r \in Requests |-> Idle]

Active == {d \in DraftIds : drafts[d].status = "active"}

\* What the bound counts.
EditsMade == FoldFunctionOnSet(LAMBDA draft, n : draft.revision + n, 0, drafts, DraftIds)

\* The document a draft starts from: a copy of the published one, or nothing.
Published == IF root.version = 0 THEN Empty ELSE drafts[root.draft].body

tables == <<drafts, root, history, secret, minted, answered>>
At(r, phase, kinds) == requests[r].phase = phase /\ requests[r].kind \in kinds
Set(r, rec) == requests' = [requests EXCEPT ![r] = rec]

-----------------------------------------------------------------------------
(***************************************************************************)
(* Reading.                                                                *)
(***************************************************************************)
\* loadOwnedDraft and the checks that the draft is active at the revision the
\* caller names; any other call is answered 409 and changes nothing.
Load(r, kind, d) ==
    /\ requests[r].phase = "idle" /\ kind # "start"
    /\ d \in Active
    /\ \/ kind = "publish"
       \/ drafts[d].revision < MaxRevision /\ EditsMade < MaxEdits
    /\ Set(r, [Idle EXCEPT !.phase = "loaded", !.kind = kind, !.draft = d,
                           !.revision = drafts[d].revision, !.base = drafts[d].base])
    /\ UNCHANGED tables

\* readDocumentSnapshot: the row of the document first.
ReadScalars(r) ==
    /\ At(r, "loaded", {"edit", "publish"})
    /\ Set(r, [requests[r] EXCEPT
                !.phase = "scalars",
                !.doc = [drafts[requests[r].draft].body EXCEPT !.links = {}]])
    /\ UNCHANGED tables

\* Then its links, and what the operation needs besides: the imports of the
\* draft, or the completed steps and the root's document.
ReadRest(r) ==
    LET d == drafts[requests[r].draft]
        read == [requests[r] EXCEPT !.phase = "ready", !.doc.links = d.body.links]
    IN  /\ \/ /\ At(r, "scalars", {"edit"})
              /\ Set(r, [read EXCEPT !.imports = d.imports])
           \/ /\ At(r, "scalars", {"publish"})
              /\ Set(r, [read EXCEPT !.steps = d.steps, !.old = root.draft])
        /\ UNCHANGED tables

\* loadStartingSnapshot, for a restart: the root's document and version.
ReadRoot(r) ==
    /\ At(r, "loaded", {"restart"})
    /\ Set(r, [requests[r] EXCEPT !.phase = "ready", !.doc = Published,
                                  !.base = root.version])
    /\ UNCHANGED tables

\* startDraft: an active draft is resumed, or else the root is read.
Start(r) ==
    /\ requests[r].phase = "idle"
    /\ \/ \E d \in Active :
            Set(r, [Idle EXCEPT !.phase = "committed", !.draft = d])
       \/ /\ Active = {} /\ drafts[MaxDrafts].status = "none"
          /\ Set(r, [Idle EXCEPT !.phase = "ready", !.doc = Published,
                                 !.base = root.version])
    /\ UNCHANGED tables

-----------------------------------------------------------------------------
(***************************************************************************)
(* Writing an edit.  D1 runs a batch as one transaction.                   *)
(***************************************************************************)
\* REVISION_GUARD_SQL: the draft is active at the revision that was read and
\* its document is still a draft.
Guarded(r) ==
    LET d == requests[r].draft
    IN  /\ drafts[d].status = "active"
        /\ drafts[d].revision = requests[r].revision
        /\ drafts[d].state = "draft"

\* Mutant: documents are written without REVISION_GUARD_SQL.
UnguardedBatch(r) == drafts[requests[r].draft].status = "active"
MayWrite(r) == Guarded(r)

\* Mutant: the UPDATE of throne_creators is left unguarded in the batch.
RotateAnyway(r) == TRUE
MayRotate(r) == Guarded(r)

\* The step an operation completes joins those done; "" for none.
StepsWith(done, step) == IF step = "" THEN done ELSE done \cup {step}

\* A request answers with a description of the draft it has written.
Committed(r) ==
    Set(r, [Idle EXCEPT !.phase = "committed", !.kind = requests[r].kind,
                        !.draft = requests[r].draft])

\* The document, the completed step, the imports and the revision, at once.
Write(r, doc, step, imports) ==
    LET d == requests[r].draft
        draft == drafts[d]
    IN  /\ MayWrite(r)
        /\ drafts' = [drafts EXCEPT ![d] =
                [draft EXCEPT !.body = doc, !.steps = StepsWith(draft.steps, step),
                              !.imports = imports, !.revision = draft.revision + 1]]
        /\ Committed(r)
        /\ UNCHANGED <<root, history>>

NoSecret == UNCHANGED <<secret, minted, answered>>

\* Of the documents an edit may make, one is written.
Save(r, docs, step) ==
    /\ At(r, "ready", {"edit"})
    /\ \E doc \in docs : Write(r, doc, step, drafts[requests[r].draft].imports)
    /\ NoSecret

Doc(r) == requests[r].doc

OrientationStep(r) == Save(r, Oriented(Doc(r)), "orientation")
IdentityStep(r) == Save(r, Identified(Doc(r)), "identity")
\* Only this step may be saved without completing it.
IdentityPart(r) == Save(r, Identified(Doc(r)), "")
LinksStep(r, L) == Save(r, {doc \in Relinked(Doc(r)) : doc.links = L}, "links")
ThroneStep(r, c) == Save(r, {doc \in Throned(Doc(r), secret # 0) : doc.creator = c}, "throne")
AddLink(r) == Save(r, LinkAdded(Doc(r)), "")
EditLink(r) == Save(r, LinkEdited(Doc(r)), "")
RemoveLink(r) == Save(r, LinkRemoved(Doc(r)), "")

\* The page is fetched between the reads and the write.  The links found are
\* kept, without those the orientation has no use for; the document is not
\* written.
CreateImport(r) ==
    /\ At(r, "ready", {"edit"})
    /\ Doc(r).orientation # None
    /\ Cardinality(requests[r].imports) < MaxImports
    /\ \E page \in SUBSET Links :
            Write(r, drafts[requests[r].draft].body, "",
                  drafts[requests[r].draft].imports \cup {Candidates(Doc(r), page)})
    /\ NoSecret

\* Any part of what an import found may be confirmed; the import goes.
ConfirmImport(r) ==
    /\ At(r, "ready", {"edit"})
    /\ \E page \in requests[r].imports : \E wanted \in SUBSET page :
       \E doc \in Imported(Doc(r), wanted) :
            Write(r, doc, "", drafts[requests[r].draft].imports \ {page})
    /\ NoSecret

\* A new secret is generated before the batch that stores its hash, and is in
\* the answer if the batch writes.
Mint == minted < MaxSecrets /\ minted' = minted + 1
WriteSecret(r) == secret' = IF MayRotate(r) THEN minted' ELSE secret

\* A creator nobody has registered comes with a secret; one that is the owner's
\* already gets a new one if the caller asks for it.
AttachThrone(r) ==
    /\ At(r, "ready", {"edit"})
    /\ \E doc \in Attached(Doc(r)) : Write(r, doc, "", drafts[requests[r].draft].imports)
    /\ \/ Mint /\ WriteSecret(r) /\ answered' = minted'
       \/ secret # 0 /\ NoSecret

RotateThrone(r) ==
    /\ At(r, "ready", {"edit"})
    /\ Receives(Doc(r).orientation) /\ Doc(r).creator
    /\ Write(r, drafts[requests[r].draft].body, "", drafts[requests[r].draft].imports)
    /\ Mint /\ WriteSecret(r) /\ answered' = minted'

\* No statement of the batch changes a row: 409 stale_revision.
Conflict(r) ==
    /\ At(r, "ready", {"edit", "restart"}) /\ ~MayWrite(r)
    /\ Set(r, Idle)
    /\ UNCHANGED tables

\* The same for a rotation, whose secret nobody is told.
ConflictRotate(r) ==
    /\ At(r, "ready", {"edit"}) /\ ~MayWrite(r)
    /\ Doc(r).creator
    /\ Mint /\ WriteSecret(r)
    /\ Set(r, Idle)
    /\ UNCHANGED <<drafts, root, history, answered>>

\* A request whose input is refused, or that nobody waits for any more.
GiveUp(r) ==
    /\ requests[r].phase \in {"ready", "committed"}
    /\ Set(r, Idle)
    /\ UNCHANGED tables

-----------------------------------------------------------------------------
(***************************************************************************)
(* Starting, restarting and publishing.                                    *)
(***************************************************************************)
Restart(r) ==
    LET d == requests[r].draft
        draft == drafts[d]
    IN  /\ At(r, "ready", {"restart"}) /\ MayWrite(r)
        /\ drafts' = [drafts EXCEPT ![d] =
                [draft EXCEPT !.body = Doc(r), !.steps = {}, !.base = requests[r].base,
                              !.revision = draft.revision + 1]]
        /\ Committed(r)
        /\ UNCHANGED <<root, history>> /\ NoSecret

\* Mutant: no unique index over the active drafts of a profile.
AlwaysRoom == TRUE
\* idx_profile_drafts_active_global, _server: one active draft of a profile.
RoomForDraft == Active = {}

CommitStart(r) ==
    /\ At(r, "ready", {"start"}) /\ RoomForDraft
    /\ \E d \in DraftIds :
            /\ drafts[d].status = "none"
            /\ \A e \in DraftIds : e < d => drafts[e].status # "none"
            /\ drafts' = [drafts EXCEPT ![d] =
                    [NoDraft EXCEPT !.status = "active", !.state = "draft",
                                    !.body = Doc(r), !.base = requests[r].base]]
            /\ Set(r, [Idle EXCEPT !.phase = "committed", !.draft = d])
    /\ UNCHANGED <<root, history>> /\ NoSecret

\* The loser of two starts resumes the winner's draft if it is still active when
\* it looks, and is answered 409 if not.
LoseStart(r) ==
    /\ At(r, "ready", {"start"}) /\ ~RoomForDraft
    /\ \E d \in Active : Set(r, [Idle EXCEPT !.phase = "committed", !.draft = d])
    /\ UNCHANGED tables

\* What publishDraft tests of what it has read.
Complete(r) ==
    /\ Publishable(Doc(r))
    /\ StepsFor(Doc(r).orientation) \subseteq requests[r].steps

\* Mutant: the version of the root is read and used at the time of publishing.
BaseReadLate(r) == TRUE
\* The publication's CAS: the root is the one the draft was started from.
BaseHolds(r) == root.version = requests[r].base

MayPublish(r) == MayWrite(r) /\ BaseHolds(r)

\* The draft, the publication, the root and both documents change together.
Publish(r) ==
    LET d == requests[r].draft
        old == requests[r].old
    IN  /\ At(r, "ready", {"publish"}) /\ Complete(r) /\ MayPublish(r)
        /\ root' = [version |-> requests[r].base + 1, draft |-> d]
        /\ history' = Append(history, d)
        /\ drafts' = [i \in DraftIds |->
                CASE i = d -> [drafts[i] EXCEPT !.status = "published",
                                                !.revision = @ + 1,
                                                !.state = "published"]
                  [] i = old /\ i # d /\ drafts[i].state = "published" ->
                        [drafts[i] EXCEPT !.state = "superseded"]
                  [] OTHER -> drafts[i]]
        /\ Committed(r) /\ NoSecret

\* The NULL document_id of profile_publications undoes the whole batch.
ConflictPublish(r) ==
    /\ At(r, "ready", {"publish"}) /\ Complete(r) /\ ~MayPublish(r)
    /\ Set(r, Idle)
    /\ UNCHANGED tables

-----------------------------------------------------------------------------
Reads(r) == ReadScalars(r) \/ ReadRest(r) \/ ReadRoot(r)

Edits(r) ==
    \/ OrientationStep(r) \/ IdentityStep(r) \/ IdentityPart(r)
    \/ \E L \in SUBSET Links : LinksStep(r, L)
    \/ \E c \in BOOLEAN : ThroneStep(r, c)
    \/ AddLink(r) \/ EditLink(r) \/ RemoveLink(r)
    \/ CreateImport(r) \/ ConfirmImport(r)
    \/ AttachThrone(r) \/ RotateThrone(r)

Others(r) ==
    \/ Restart(r) \/ CommitStart(r) \/ LoseStart(r) \/ Publish(r)
    \/ Conflict(r) \/ ConflictRotate(r) \/ ConflictPublish(r)

Next ==
    \E r \in Requests :
        \/ Start(r)
        \/ \E kind \in Kinds, d \in DraftIds : Load(r, kind, d)
        \/ Reads(r) \/ Edits(r) \/ Others(r)
        \/ GiveUp(r)

Spec == Init /\ [][Next]_vars

-----------------------------------------------------------------------------
Statuses == {"none", "active", "published"}
States == {"none", "draft", "published", "superseded"}

Draft ==
    [status : Statuses, revision : Nat, base : Nat, steps : SUBSET StepKeys,
     state : States, body : Document, imports : SUBSET SUBSET Links]

Request ==
    [phase : Phases, kind : Kinds, draft : DraftIds \cup {0}, revision : Nat,
     doc : Document, steps : SUBSET StepKeys, imports : SUBSET SUBSET Links,
     base : Nat, old : DraftIds \cup {0}]

TypeOK ==
    /\ drafts \in [DraftIds -> Draft]
    /\ root \in [version : Nat, draft : DraftIds \cup {0}]
    /\ history \in Seq(DraftIds)
    /\ secret \in Nat /\ minted \in Nat /\ answered \in Nat
    /\ requests \in [Requests -> Request]

\* The publications of a profile form one line, however requests interleave:
\* each draft was started from the version just before its own, none was
\* published twice, the root and the one document in state published are those
\* of the last (publishService.ts:160-163, 0002_profile_system.sql).
HistoryIsLinear ==
    /\ root.version = Len(history)
    /\ root.draft = IF history = <<>> THEN 0 ELSE history[Len(history)]
    /\ \A i \in 1..Len(history) :
        /\ drafts[history[i]].base + 1 = i
        /\ drafts[history[i]].status = "published"
        /\ drafts[history[i]].state = IF i = Len(history) THEN "published" ELSE "superseded"
        /\ \A j \in 1..Len(history) : history[j] = history[i] => j = i
    /\ \A d \in DraftIds :
        drafts[d].status = "published" => \E i \in 1..Len(history) : history[i] = d

\* What was published was complete and allowed for its orientation at the
\* moment it was published, although the checks read the draft in pieces and
\* the batch does not repeat them (publishService.ts:76-127).
PublishedIsAllowed ==
    \A i \in 1..Len(history) :
        LET d == drafts[history[i]]
        IN  /\ Publishable(d.body)
            /\ WithinLimits(d.body)
            /\ StepsFor(d.body.orientation) \subseteq d.steps

\* The webhook secret in force is the one in the last successful answer: the
\* URL of a caller who won is not invalidated by one who lost
\* (throneDraftService.ts:244-246).
AnsweredSecretIsLive == secret = answered

\* No draft ever holds what its orientation does not have, whichever order
\* its steps are taken in.
DraftsWithinLimits == \A d \in DraftIds : WithinLimits(drafts[d].body)

-----------------------------------------------------------------------------
(***************************************************************************)
(* Why these hold: a request whose draft still has the revision that was   *)
(* read holds what the draft holds, and an older root is never the current *)
(* one again.                                                              *)
(***************************************************************************)
Reading(r) ==
    requests[r].phase \in {"loaded", "scalars", "ready"} /\ requests[r].kind # "start"

\* The document of a version; version 0 is no profile.
Version(n) == IF n = 0 THEN Empty ELSE drafts[history[n]].body

FreshReads ==
    \A r \in Requests :
        LET q == requests[r] d == drafts[q.draft]
        IN  /\ q.phase = "committed" => q.draft \in DraftIds
            /\ Reading(r) =>
                /\ q.draft \in DraftIds /\ d.status # "none" /\ q.revision <= d.revision
                /\ q.kind = "publish" => q.base <= root.version
                /\ q.revision = d.revision /\ d.status = "active" =>
                    /\ q.phase = "scalars" => q.doc = [d.body EXCEPT !.links = {}]
                    /\ q.phase = "ready" /\ q.kind # "restart" => q.doc = d.body
                    /\ q.kind = "publish" => q.base = d.base
                    /\ q.phase = "ready" /\ q.kind = "publish" => q.steps = d.steps
            /\ q.phase = "ready" /\ q.kind = "publish" =>
                    (q.base = root.version => q.old = root.draft)
            /\ q.phase = "ready" /\ q.kind \in {"start", "restart"} =>
                    q.base <= root.version /\ q.doc = Version(q.base)

DraftShape ==
    \A d \in DraftIds :
        /\ drafts[d].base <= root.version
        /\ drafts[d].status = "active" => drafts[d].state = "draft"

OneActive == \A d, e \in Active : d = e

IInv ==
    /\ TypeOK /\ HistoryIsLinear /\ PublishedIsAllowed /\ AnsweredSecretIsLive
    /\ DraftsWithinLimits /\ FreshReads /\ DraftShape /\ OneActive

-----------------------------------------------------------------------------

Changes == [doc \in Document |-> Edited(doc)]
Allowed == {doc \in Document : Publishable(doc)}

\* Seen from outside each write is one edit of the draft as it is then.
Store == INSTANCE ProfileStore WITH
    working <- [d \in DraftIds |->
                  IF drafts[d].status = "active"
                    THEN [body |-> drafts[d].body, base |-> drafts[d].base]
                    ELSE None],
    published <- [i \in 1..Len(history) |-> drafts[history[i]].body]

\* A draft's content changes by whole edits of what it holds at that moment,
\* no edit is lost to a write computed from an older document, a published
\* document never changes, and only a draft of the latest version is published.
ImplementsStore == Store!Spec
=============================================================================
