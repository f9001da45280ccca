---------------------------- MODULE ProfileWizard ----------------------------
(***************************************************************************)
(* Bill's wizard for one profile: the private messages, forms and callbacks *)
(* of bill/components/profile.py and bill/cogs/profile.py, over a Worker    *)
(* that takes each edit at once (ProfileDrafts shows that it does).         *)
(*                                                                         *)
(* A message outlives the bot; the controls on it carry the revision it    *)
(* shows.  A form (a modal or a short-lived view) holds the whole contract *)
(* it was opened with.  Several interactions run at a time, each reading   *)
(* the draft, calling the Worker and editing its message in turn, and any  *)
(* of them may stop anywhere.                                              *)
(***************************************************************************)
EXTENDS Naturals, FiniteSets, Sequences

CONSTANTS
    Tasks,          \* interactions handled at a time
    Links,          \* ids of the links of a document
    Offered,        \* the orientations chosen from
    Unset,
    MaxDrafts,      \* bound: drafts ever started
    MaxEdits,       \* bound: edits of one draft that an owner begins
    MaxMessages,    \* bound: wizard messages that are not stale
    MaxForms,       \* bound: forms open at a time
    MaxSecrets      \* bound: webhook secrets generated

ASSUME WizardAssumption ==
    /\ MaxDrafts \in Nat \ {0} /\ MaxMessages \in Nat \ {0} /\ MaxSecrets \in Nat \ {0}
    /\ MaxEdits \in Nat /\ MaxForms \in Nat
    /\ Unset \notin Links \cup Offered /\ Links # {}
    /\ \E o \in Offered : o # "submissive"

VARIABLES
    drafts,     \* what the Worker holds of each draft
    published,  \* the published documents, each with what its owner was shown
    secret,     \* the webhook secret in force, 0: no creator yet
    shown,      \* the secrets whose URL the owner was shown
    messages,   \* the wizard's direct messages
    forms,      \* modals and short-lived views, in the bot's memory
    tasks       \* what each interaction holds in its local variables

wizardVars == <<drafts, published, secret, shown, messages, forms, tasks>>

DraftIds == 1..MaxDrafts
Receives(o) == o \notin {Unset, "submissive"}

Empty ==
    [orientation |-> Unset, labels |-> FALSE, details |-> FALSE,
     links |-> [l \in Links |-> "none"], preferred |-> Unset, creator |-> FALSE]

NoDraft == [status |-> "none", revision |-> 0, doc |-> Empty, steps |-> {}]

\* What the Worker answers of a draft.
NoContract == [draft |-> 0, revision |-> 0, doc |-> Empty, steps |-> {}]
NoMessage == [face |-> "none", contract |-> NoContract]

IdleTask ==
    [phase |-> "idle", stage |-> "check", control |-> "", contract |-> NoContract,
     message |-> 0, link |-> Unset, secret |-> 0, seen |-> Empty]

\* A profile published before, with something of everything.
Rich ==
    [orientation |-> CHOOSE o \in Offered : Receives(o), labels |-> FALSE, details |-> TRUE,
     links |-> [l \in Links |-> "payment"], preferred |-> CHOOSE l \in Links : TRUE,
     creator |-> TRUE]

\* Nothing yet; or that profile, and a draft of it with the first two or three
\* steps done, whose revisions are counted from there.
WizardInit ==
    /\ \/ /\ published = <<>> /\ secret = 0 /\ shown = {}
          /\ drafts = [d \in DraftIds |-> NoDraft]
       \/ /\ published = <<[doc |-> Rich, seen |-> Rich]>> /\ secret = 1 /\ shown = {1}
          /\ \E last \in {"identity", "links"} :
                drafts = [d \in DraftIds |->
                    IF d = 1 THEN [status |-> "active", revision |-> 1, doc |-> Rich,
                                   steps |-> {"orientation", "identity", last}]
                             ELSE NoDraft]
    /\ messages = [m \in 1..MaxMessages |-> NoMessage]
    /\ forms = {}
    /\ tasks = [t \in Tasks |-> IdleTask]

Active == {d \in DraftIds : drafts[d].status = "active"}
worker == <<drafts, published, secret>>
SetTask(t, rec) == tasks' = [tasks EXCEPT ![t] = rec]
Called(t, control) ==
    tasks[t].phase = "ready" /\ tasks[t].stage = "check" /\ tasks[t].control = control
At(t, phase, stages) == tasks[t].phase = phase /\ tasks[t].stage \in stages

-----------------------------------------------------------------------------
(***************************************************************************)
(* What a message shows, and what can be pressed on it.                    *)
(***************************************************************************)
StepOrder == <<"orientation", "identity", "links", "throne">>

StepsFor(o) ==
    IF o = Unset THEN {"orientation"}
    ELSE {"orientation", "identity", "links"} \cup {s \in {"throne"} : Receives(o)}

\* The first step that is not complete, or the review.
CurrentStep(c) ==
    LET todo == SelectSeq(StepOrder, LAMBDA s : s \in StepsFor(c.doc.orientation) \ c.steps)
    IN  Head(todo \o <<"review">>)

LinksOf(doc) == {l \in Links : doc.links[l] # "none"}

ThroneControls(c) ==
    {"throne", "skip-throne", "creator-select"} \cup {k \in {"rotate"} : c.doc.creator}

ReviewControls(c) ==
    {"identity", "links", "publish", "restart"}
        \cup {k \in {"throne"} : Receives(c.doc.orientation)}

Controls(c) ==
    CASE CurrentStep(c) = "orientation" -> {"orientation"}
      [] CurrentStep(c) = "identity"    -> {"identity", "labels"}
      [] CurrentStep(c) = "links"       -> {"links", "import", "complete-links", "link-select"}
      [] CurrentStep(c) = "throne"      -> ThroneControls(c)
      [] OTHER                          -> ReviewControls(c)

Pressable(message) ==
    CASE message.face = "intro"  -> {"start"}
      [] message.face = "wizard" -> Controls(message.contract)
      [] OTHER -> {}

\* Buttons that open a form, and the buttons of each form.
Opened ==
    [identity |-> "identity-modal", links |-> "link-modal", import |-> "import-modal",
     throne |-> "throne-modal", restart |-> "restart-view"]
Modals == {"identity-modal", "link-modal", "import-modal", "throne-modal", "edit-modal"}
Submits ==
    [k \in Modals \cup {"restart-view", "link-view", "candidates-view", "resume-view"} |->
        CASE k = "identity-modal"  -> {"save-identity"}
          [] k = "link-modal"      -> {"add-link"}
          [] k = "edit-modal"      -> {"edit-link"}
          [] k = "import-modal"    -> {"create-import"}
          [] k = "throne-modal"    -> {"attach"}
          [] k = "restart-view"    -> {"restart-here"}
          [] k = "link-view"       -> {"edit", "remove-link", "prefer-link"}
          [] k = "candidates-view" -> {"confirm-import"}
          [] k = "resume-view"     -> {"resume", "restart-saved"}]

\* Of most contracts kept only the draft and its revision are used again.
Slim(c) == [c EXCEPT !.doc = Empty, !.steps = {}]

Form(kind, c, message, link) ==
    [kind |-> kind, message |-> message, link |-> link,
     contract |-> IF kind \in {"identity-modal", "link-view"} THEN c ELSE Slim(c)]
Open(form) == Cardinality(forms) < MaxForms /\ forms' = forms \cup {form}

-----------------------------------------------------------------------------
(***************************************************************************)
(* Interactions.                                                           *)
(***************************************************************************)
\* A control of any message still there, however old, may be pressed.
Press(t, m) ==
    /\ tasks[t].phase = "idle"
    /\ \E control \in Pressable(messages[m]) :
         SetTask(t, [IdleTask EXCEPT !.phase = "asked", !.control = control, !.message = m,
                           !.contract = Slim(messages[m].contract),
                           !.seen = IF control = "publish"
                                      THEN messages[m].contract.doc ELSE Empty])
    /\ UNCHANGED <<worker, shown, messages, forms>>

\* A form calls the Worker with the contract it holds; a modal is sent once.
Submit(t, form) ==
    /\ tasks[t].phase = "idle"
    /\ \E control \in Submits[form.kind] :
         SetTask(t, [IdleTask EXCEPT !.phase = "ready", !.control = control, !.link = form.link,
                           !.message = form.message, !.contract = form.contract,
                           !.stage = IF control = "resume" THEN "intro" ELSE "check"])
    /\ forms' = IF form.kind \in Modals THEN forms \ {form} ELSE forms
    /\ UNCHANGED <<worker, shown, messages>>

\* Mutant: the control's own revision is not compared.
AnyRevision(t) == drafts[tasks[t].contract.draft].status = "active"
\* _load_draft: the control is of an active draft at its revision.
IsCurrent(t) ==
    LET d == drafts[tasks[t].contract.draft]
    IN  d.status = "active" /\ d.revision = tasks[t].contract.revision

\* Mutant: the row of a draft is read after its document.
RowLast(c, d, phase) ==
    IF phase = "row" THEN [c EXCEPT !.revision = d.revision]
                     ELSE [c EXCEPT !.doc = d.doc, !.steps = d.steps]
\* buildContract is given the row: its revision is read before the document
\* and the steps.
Read(c, d, phase) ==
    IF phase = "asked" THEN [c EXCEPT !.revision = d.revision]
                       ELSE [c EXCEPT !.doc = d.doc, !.steps = d.steps]

ReadContract(t, phase, next) ==
    /\ tasks[t].phase = phase
    /\ SetTask(t, [tasks[t] EXCEPT
                !.phase = next,
                !.contract = Read(@, drafts[tasks[t].contract.draft], phase)])
    /\ UNCHANGED <<worker, shown, messages, forms>>

\* The answer to a control that is not current is that it is stale.
ReadRow(t) ==
    /\ tasks[t].phase = "asked" /\ tasks[t].stage = "check" => IsCurrent(t)
    /\ ReadContract(t, "asked", "row")

ReadRest(t) == ReadContract(t, "row", "ready")

\* The link chosen is one of those just read.
OpenForm(t) ==
    LET c == tasks[t].contract
    IN  /\ At(t, "ready", {"check"})
        /\ \/ /\ tasks[t].control \in DOMAIN Opened
              /\ Open(Form(Opened[tasks[t].control], c, tasks[t].message, Unset))
           \/ /\ tasks[t].control = "link-select"
              /\ \E l \in LinksOf(c.doc) :
                    Open(Form("link-view", c, tasks[t].message, l))
           \/ /\ tasks[t].control = "edit"
              /\ Open(Form("edit-modal", c, tasks[t].message, tasks[t].link))
        /\ SetTask(t, IdleTask)
        /\ UNCHANGED <<worker, shown, messages>>

\* Start shows what was just read.
Start(t) ==
    /\ Called(t, "start")
    /\ SetTask(t, [tasks[t] EXCEPT !.stage = "show"])
    /\ UNCHANGED <<worker, shown, messages, forms>>

\* A view times out, is answered and taken away, or is dismissed.
Expire(form) ==
    /\ forms' = forms \ {form}
    /\ UNCHANGED <<worker, shown, messages, tasks>>

\* A control that is stale, a call that is refused, times out or loses its
\* answer, a message that cannot be sent: the interaction ends with an error,
\* and what the Worker did stays done.
Abandon(t) ==
    /\ tasks[t].phase # "idle"
    /\ SetTask(t, IdleTask)
    /\ UNCHANGED <<worker, shown, messages, forms>>

\* Bill restarts: messages keep their controls, forms do not.
Restarted ==
    /\ forms # {} \/ \E t \in Tasks : tasks[t].phase # "idle"
    /\ forms' = {} /\ tasks' = [t \in Tasks |-> IdleTask]
    /\ UNCHANGED <<worker, shown, messages>>

-----------------------------------------------------------------------------
(***************************************************************************)
(* Calls that edit the draft.  The values come from the contract in hand,  *)
(* the rest of the document is what the Worker has.                        *)
(***************************************************************************)
\* Mutant: expected_revision is not compared.
AcceptsStale(t) == drafts[tasks[t].contract.draft].status = "active"
\* The Worker takes an edit of an active draft at the revision named.
Accepts(t) ==
    LET d == drafts[tasks[t].contract.draft]
    IN  d.status = "active" /\ d.revision = tasks[t].contract.revision

Held(t) == tasks[t].contract.doc
Current(t) == drafts[tasks[t].contract.draft].doc

\* The edit, then the contract is read again for what comes next.
Write(t, doc, steps, rec) ==
    LET draft == drafts[tasks[t].contract.draft]
    IN  /\ Accepts(t)
        /\ tasks[t].stage = "check" => draft.revision < MaxEdits
        /\ drafts' = [drafts EXCEPT ![tasks[t].contract.draft] =
                [draft EXCEPT !.doc = doc, !.steps = steps, !.revision = draft.revision + 1]]
        /\ SetTask(t, [rec EXCEPT !.phase = "asked", !.contract = Slim(@)])
        /\ UNCHANGED <<published, messages, shown>>

\* A step that one of these documents completes, or none for "".
Save(t, docs, step) ==
    /\ \E doc \in docs :
            Write(t, doc,
                  drafts[tasks[t].contract.draft].steps \cup ({step} \ {""}),
                  [tasks[t] EXCEPT !.stage = "show"])
    /\ UNCHANGED <<secret, forms>>

\* normalizeSnapshotForOrientation.
Normalised(doc, o) ==
    [doc EXCEPT !.orientation = o,
        !.links = [l \in Links |->
                    IF @[l] = "payment" /\ ~Receives(o) THEN "none" ELSE @[l]],
        !.preferred = IF Receives(o) THEN @ ELSE Unset,
        !.creator = @ /\ Receives(o)]

OrientationSelect(t) ==
    /\ Called(t, "orientation")
    /\ Save(t, {Normalised(Current(t), o) : o \in Offered}, "orientation")

\* The selects write back the details, the modal the labels.
IdentitySelect(t) ==
    /\ Called(t, "labels")
    /\ Save(t, {[Current(t) EXCEPT !.labels = ~Held(t).labels, !.details = Held(t).details]}, "")

IdentityModal(t) ==
    /\ Called(t, "save-identity")
    /\ Save(t, {[Current(t) EXCEPT !.details = TRUE, !.labels = Held(t).labels]},
         "identity")

\* Done and Skip write back the links.
CompleteLinks(t) ==
    /\ Called(t, "complete-links")
    /\ Save(t, {[Current(t) EXCEPT !.links = Held(t).links]}, "links")

Types(doc) == {"social"} \cup {k \in {"payment"} : Receives(doc.orientation)}

WithLink(doc, l, k) == [doc EXCEPT !.links[l] = k]
\* One more link, of a type that goes with the orientation.
Additions(doc) ==
    UNION {{WithLink(doc, l, k) : k \in Types(doc)} : l \in Links \ LinksOf(doc)}

LinkModal(t) == Called(t, "add-link") /\ Save(t, Additions(Current(t)), "")

\* An edit names the link and its type; it says nothing of the preference.
LinkModalEdit(t) ==
    /\ Called(t, "edit-link") /\ tasks[t].link \in LinksOf(Current(t))
    /\ Save(t, {WithLink(Current(t), tasks[t].link, k) : k \in Types(Current(t))}, "")

Remove(t) ==
    /\ Called(t, "remove-link") /\ tasks[t].link \in LinksOf(Current(t))
    /\ Save(t, {[WithLink(Current(t), tasks[t].link, "none") EXCEPT
                                !.preferred = IF @ = tasks[t].link THEN Unset ELSE @]}, "")

Prefer(t) ==
    /\ Called(t, "prefer-link")
    /\ tasks[t].link \in LinksOf(Current(t)) /\ Held(t).links[tasks[t].link] = "payment"
    /\ Save(t, {[WithLink(Current(t), tasks[t].link, "payment") EXCEPT
                                !.preferred = tasks[t].link]}, "")

\* The page is staged beside the document.
CreateImport(t) == Called(t, "create-import") /\ Save(t, {Current(t)}, "")

ConfirmImport(t) ==
    /\ Called(t, "confirm-import")
    /\ Save(t, {Current(t)} \cup Additions(Current(t)), "")

\* parseThroneStep: what is preferred must be a payment link.
PreferenceStands(t) ==
    Held(t).preferred # Unset => Current(t).links[Held(t).preferred] = "payment"

SkipThrone(t) ==
    /\ Called(t, "skip-throne") /\ PreferenceStands(t)
    /\ Save(t, {[Current(t) EXCEPT !.creator = FALSE, !.preferred = Held(t).preferred]},
            "throne")

\* A secret is made with the edit and its URL held until the end.
WriteSecret(t, doc) ==
    /\ secret < MaxSecrets /\ secret' = secret + 1
    /\ Write(t, doc, drafts[tasks[t].contract.draft].steps,
             [tasks[t] EXCEPT !.stage = "second", !.secret = secret'])

\* A new creator comes with a secret, one that is already the owner's does not.
AttachThrone(t) ==
    LET doc == [Current(t) EXCEPT !.creator = TRUE]
    IN  /\ At(t, "ready", {"check"}) /\ Receives(Current(t).orientation)
        /\ \/ /\ tasks[t].control = "attach" /\ secret = 0
              /\ WriteSecret(t, doc)
           \/ /\ tasks[t].control \in {"attach", "creator-select"} /\ secret # 0
              /\ Write(t, doc, drafts[tasks[t].contract.draft].steps,
                       [tasks[t] EXCEPT !.stage = "second"])
              /\ UNCHANGED secret
        /\ UNCHANGED forms

RotateThrone(t) ==
    /\ Called(t, "rotate") /\ Current(t).creator
    /\ WriteSecret(t, Current(t))
    /\ UNCHANGED forms

\* The second call completes the step at the revision of the first's answer.
SaveThrone(t) ==
    /\ At(t, "ready", {"second"})
    /\ PreferenceStands(t)
    /\ Write(t, [Current(t) EXCEPT !.creator = Held(t).creator,
                                   !.preferred = Held(t).preferred],
             drafts[tasks[t].contract.draft].steps \cup {"throne"},
             [tasks[t] EXCEPT !.stage = "show"])
    /\ UNCHANGED <<secret, forms>>

\* The message shows the contract, and then the owner the URL.
ShowWizard(t) ==
    LET q == tasks[t]
    IN  /\ At(t, "ready", {"show"})
        /\ messages' = [messages EXCEPT ![q.message] =
                            [face |-> "wizard", contract |-> q.contract]]
        /\ shown' = shown \cup ({q.secret} \ {0})
        /\ IF q.control = "create-import"
             THEN Open(Form("candidates-view", q.contract, q.message, Unset))
             ELSE UNCHANGED forms
        /\ SetTask(t, IdleTask)
        /\ UNCHANGED worker

-----------------------------------------------------------------------------
(***************************************************************************)
(* Publishing, restarting and opening.                                     *)
(***************************************************************************)
Latest == IF published = <<>> THEN Empty ELSE published[Len(published)].doc

Publish(t) ==
    LET c == tasks[t].contract
        draft == drafts[c.draft]
    IN  /\ Called(t, "publish")
        /\ draft.status = "active" /\ draft.revision = c.revision
        /\ StepsFor(draft.doc.orientation) \subseteq draft.steps
        /\ drafts' = [drafts EXCEPT ![c.draft] =
                [draft EXCEPT !.status = "published", !.revision = draft.revision + 1]]
        /\ published' = Append(published, [doc |-> draft.doc, seen |-> tasks[t].seen])
        /\ SetTask(t, [tasks[t] EXCEPT !.stage = "close"])
        /\ UNCHANGED <<secret, shown, messages, forms>>

Close(t) ==
    /\ At(t, "ready", {"close"})
    /\ messages' = [messages EXCEPT ![tasks[t].message] = NoMessage]
    /\ SetTask(t, IdleTask)
    /\ UNCHANGED <<worker, shown, forms>>

\* From the review the wizard comes back in a new message; from the prompt of
\* /profile the introduction does.
Restart(t) ==
    /\ At(t, "ready", {"check"})
    /\ \E next \in {"new", "intro"} :
        /\ tasks[t].control = IF next = "new" THEN "restart-here" ELSE "restart-saved"
        /\ Write(t, Latest, {}, [tasks[t] EXCEPT !.stage = next])
    /\ UNCHANGED <<secret, forms>>

\* All a message of an older revision can do is answer that it is stale: it is
\* forgotten when its place is needed.
Inert(message) ==
    LET c == message.contract
    IN  message.face # "none" =>
            drafts[c.draft].status # "active" \/ drafts[c.draft].revision > c.revision

\* A direct message of its own.
Send(t) ==
    /\ At(t, "ready", {"new", "intro"})
    /\ \E m \in 1..MaxMessages :
        /\ Inert(messages[m])
        /\ messages' = [messages EXCEPT ![m] =
                IF tasks[t].stage = "new"
                  THEN [face |-> "wizard", contract |-> tasks[t].contract]
                  ELSE [face |-> "intro", contract |-> Slim(tasks[t].contract)]]
    /\ SetTask(t, IdleTask)
    /\ UNCHANGED <<worker, shown, forms>>

\* /profile, or Edit on a published profile: a draft is started, or the active
\* one is taken up, after asking if nothing is published yet.
OpenProfile(t) ==
    /\ tasks[t].phase = "idle"
    /\ \/ /\ Active = {}
          /\ \E d \in DraftIds :
                /\ \A e \in DraftIds : drafts[e].status = "none" <=> e >= d
                /\ drafts' = [drafts EXCEPT ![d] =
                                [NoDraft EXCEPT !.status = "active", !.doc = Latest]]
                /\ SetTask(t, [IdleTask EXCEPT !.phase = "asked", !.stage = "intro",
                                       !.contract.draft = d])
          /\ UNCHANGED <<published, secret, forms>>
       \/ \E d \in Active :
            /\ published # <<>>
            /\ SetTask(t, [IdleTask EXCEPT !.phase = "asked", !.stage = "intro",
                                   !.contract.draft = d])
            /\ UNCHANGED <<worker, forms>>
       \/ \E d \in Active :
            /\ published = <<>>
            /\ Open(Form("resume-view",
                         [NoContract EXCEPT !.draft = d, !.revision = drafts[d].revision],
                         0, Unset))
            /\ UNCHANGED <<worker, tasks>>
    /\ UNCHANGED <<shown, messages>>

-----------------------------------------------------------------------------
Steps(t) ==
    \/ OrientationSelect(t) \/ IdentitySelect(t) \/ IdentityModal(t)
    \/ CompleteLinks(t) \/ LinkModal(t) \/ LinkModalEdit(t) \/ Remove(t) \/ Prefer(t)
    \/ CreateImport(t) \/ ConfirmImport(t)
    \/ SkipThrone(t) \/ AttachThrone(t) \/ RotateThrone(t) \/ SaveThrone(t)
    \/ Restart(t)

WizardNext ==
    \/ \E t \in Tasks :
        \/ \E m \in 1..MaxMessages : Press(t, m)
        \/ \E form \in forms : Submit(t, form)
        \/ OpenProfile(t) \/ ReadRow(t) \/ ReadRest(t)
        \/ OpenForm(t) \/ Start(t) \/ Steps(t) \/ ShowWizard(t)
        \/ Publish(t) \/ Close(t) \/ Send(t) \/ Abandon(t)
    \/ \E form \in forms : Expire(form)
    \/ Restarted

WizardSpec == WizardInit /\ [][WizardNext]_wizardVars

-----------------------------------------------------------------------------
Document ==
    [orientation : Offered \cup {Unset}, labels : BOOLEAN, details : BOOLEAN,
     links : [Links -> {"none", "social", "payment"}], preferred : Links \cup {Unset},
     creator : BOOLEAN]

StepSets == SUBSET {"orientation", "identity", "links", "throne"}

Contract ==
    [draft : DraftIds \cup {0}, revision : Nat, doc : Document, steps : StepSets]

DraftRecords ==
    [status : {"none", "active", "published"}, revision : Nat, doc : Document, steps : StepSets]
MessageRecords == [face : {"none", "intro", "wizard"}, contract : Contract]
FormRecords ==
    [kind : DOMAIN Submits, message : 0..MaxMessages, link : Links \cup {Unset},
     contract : Contract]
ControlNames ==
    {"", "start", "orientation", "identity", "labels", "links", "import", "complete-links",
     "link-select", "throne", "skip-throne", "creator-select", "rotate", "publish", "restart",
     "save-identity", "add-link", "edit-link", "create-import", "attach", "restart-here",
     "edit", "remove-link", "prefer-link", "confirm-import", "resume", "restart-saved"}
TaskRecords ==
    [phase : {"idle", "asked", "row", "ready"},
     stage : {"check", "second", "show", "close", "new", "intro"},
     control : ControlNames, contract : Contract, message : 0..MaxMessages,
     link : Links \cup {Unset}, secret : 0..MaxSecrets, seen : Document]

WizardTypeOK ==
    /\ drafts \in [DraftIds -> DraftRecords]
    /\ published \in Seq([doc : Document, seen : Document])
    /\ secret \in 0..MaxSecrets /\ shown \subseteq 1..MaxSecrets
    /\ messages \in [1..MaxMessages -> MessageRecords]
    /\ forms \subseteq FormRecords
    /\ tasks \in [Tasks -> TaskRecords]

\* A wizard message whose controls still work shows the draft as it is, even
\* when edits of the same draft answer out of order or the draft changed while
\* it was being read (bill/components/profile.py:238-243).
ScreensAreHonest ==
    \A m \in 1..MaxMessages :
        LET c == messages[m].contract
        IN  messages[m].face = "wizard" =>
                \/ drafts[c.draft].status # "active"
                \/ drafts[c.draft].revision # c.revision
                \/ c.doc = drafts[c.draft].doc /\ c.steps = drafts[c.draft].steps

\* What was published is what the message with the Publish button showed, not
\* what another device had meanwhile made of the draft.
PublishedIsWhatWasShown ==
    \A i \in 1..Len(published) : published[i].doc = published[i].seen

\* The sections of a document that a control may change.
MayChange(control) ==
    CASE control = "orientation" -> {"orientation", "links", "preferred", "creator"}
      [] control = "labels" -> {"labels"}
      [] control = "save-identity" -> {"details"}
      [] control \in {"add-link", "edit-link", "confirm-import"} -> {"links"}
      [] control = "remove-link" -> {"links", "preferred"}
      [] control = "prefer-link" -> {"preferred"}
      [] control \in {"skip-throne", "attach", "creator-select"} -> {"creator"}
      [] control \in {"restart-here", "restart-saved"} -> DOMAIN Empty
      [] OTHER -> {}

\* Every save writes back what Bill had read of the sections it is not about;
\* it never undoes what another interaction saved there in between
\* (_partial_identity_values, _links_step_values, the second call of Throne).
WritesOnlyItsSection ==
    [][\A t \in Tasks, d \in DraftIds :
        (/\ tasks[t] # tasks'[t] /\ drafts[d].status = "active"
         /\ tasks[t].contract.draft = d) =>
            \A section \in DOMAIN Empty \ MayChange(tasks[t].control) :
                drafts'[d].doc[section] = drafts[d].doc[section]]_wizardVars

\* A preferred payment link is a payment link of its document
\* (worker/src/profile/linkService.ts:220-221).  Stated, and not kept: an edit may
\* turn a preferred payment link into a social one.
PreferenceIsPayment ==
    \A d \in DraftIds :
        LET doc == drafts[d].doc
        IN  doc.preferred # Unset => doc.links[doc.preferred] = "payment"
-----------------------------------------------------------------------------
(***************************************************************************)
(* The inductive invariant.                                                *)
(***************************************************************************)
\* A contract is of a draft that was started, and not of its future.
Past(c) ==
    /\ c.draft \in DraftIds /\ drafts[c.draft].status # "none"
    /\ c.revision <= drafts[c.draft].revision

\* Who holds it could still have an edit accepted with it.
Usable(c) == drafts[c.draft].status = "active" /\ drafts[c.draft].revision = c.revision

\* The contract is the draft as it is, for as long as it is of any use.
Honest(c) == Usable(c) => c.doc = drafts[c.draft].doc /\ c.steps = drafts[c.draft].steps

\* Controls of forms that keep no more than the revision they were opened at.
Blind == {"add-link", "edit-link", "create-import", "attach", "confirm-import",
          "restart-here", "resume", "restart-saved"}

\* What an interaction holds was read from the Worker.
Informed(q) ==
    /\ q.phase = "ready"
    /\ \/ q.stage \in {"second", "show", "new"}
       \/ q.stage = "check" /\ q.control \notin Blind

\* A control that publishes was on a message that its presser saw.
TaskHolds(q) ==
    /\ q.phase # "idle" => Past(q.contract)
    /\ Informed(q) => Honest(q.contract)
    /\ q.phase # "idle" /\ q.stage = "check" /\ q.control = "publish" /\ Usable(q.contract)
           => q.seen = drafts[q.contract.draft].doc

MessageHolds(message) ==
    /\ message.face # "none" => Past(message.contract)
    /\ message.face = "wizard" => Honest(message.contract)

FormHolds(form) ==
    /\ Past(form.contract)
    /\ form.kind \in {"identity-modal", "link-view"} => Honest(form.contract)

WizardIInv ==
    /\ WizardTypeOK
    /\ \A t \in Tasks : TaskHolds(tasks[t])
    /\ \A m \in 1..MaxMessages : MessageHolds(messages[m])
    /\ \A form \in forms : FormHolds(form)
    /\ PublishedIsWhatWasShown
=============================================================================
