---------------------------- MODULE ServerBackup ----------------------------
(***************************************************************************)
(* Snapshots of a guild's structure.  A cycle compares the guild with the  *)
(* last backup: small changes become the new baseline at once, a batch of  *)
(* major changes waits for moderators, who approve or reject it with the   *)
(* buttons of a prompt.                                                    *)
(*                                                                         *)
(* The hourly cycle, one an operator asks for and the moderators' clicks   *)
(* run at the same time; an action is the code between two awaits.         *)
(*                                                                         *)
(* A structure is which roles and channels there are, their permissions,   *)
(* and the rest.  Two structures that differ in one of the first two are   *)
(* a batch apart, others differ in less.  Both moderator roles, the text   *)
(* of the prompt and who was told what are left out.                       *)
(***************************************************************************)
EXTENDS Integers, FiniteSets

CONSTANTS
    Structures, Founded,    \* structures of the guild, as records with an outline,
                            \* perms and a trim; the one the bot finds
    Moderators,
    Clicks,                 \* buttons that may be handled at the same time
    RequiredApprovals,
    MaxApprovals,           \* bound: approvals asked for before a cycle
                            \* compares the guild with the baseline
    MaxEdits,               \* bound: changes of the guild
    MaxSetbacks             \* bound: crashes, exceptions, prompts that cannot be
                            \* posted, and switches of the system, all together

Hourly == "hourly cycle"
Requested == "requested cycle"
Cycles == {Hourly, Requested}
Procs == Clicks \cup Cycles
ApprovalIds == 1..MaxApprovals + 1
None == 0

NoStructure == [outline |-> "none", perms |-> "none", trim |-> "none"]

ASSUME ClicksAssumption == Clicks \cap Cycles = {}
ASSUME ModeratorsAssumption == IsFiniteSet(Moderators) /\ "nobody" \notin Moderators
ASSUME StructuresAssumption == Founded \in Structures /\ NoStructure \notin Structures
ASSUME BackupBounds ==
    /\ RequiredApprovals \in Nat \ {0} /\ MaxApprovals \in Nat
    /\ MaxEdits \in Nat /\ MaxSetbacks \in Nat

VARIABLES
    guild,                  \* the guild's structure
    baseline,               \* table server_backups: the latest snapshot
    \* table server_backup_approvals: last id, status, pending_snapshot,
    \* change_signature, approved_by, message_id; and the last one decided
    lastId, status, pending, signature, votes, delivered, lastDecided,
    enabled,                \* the switch of the system
    live,                   \* approvals whose buttons answer
    job,                    \* the processes' local states
    \* history: approvals promoted by moderators, and adopted without them;
    \* approvals two cycles tried to post; those whose promotion, and those
    \* whose adoption, was cut short
    promoted, adopted, doubled, cut, torn,
    edits, setbacks

approvals == <<lastId, status, pending, signature, votes, delivered, lastDecided>>
history == <<promoted, adopted, doubled, cut, torn>>
vars == <<guild, baseline, approvals, enabled, live, job, history, edits, setbacks>>

Idle == [at |-> "idle", snap |-> NoStructure, sign |-> <<>>, app |-> None, by |-> "nobody"]

Init ==
    /\ guild = Founded /\ baseline = NoStructure
    /\ lastId = 0
    /\ status = [a \in ApprovalIds |-> "absent"]
    /\ pending = [a \in ApprovalIds |-> NoStructure]
    /\ signature = [a \in ApprovalIds |-> <<>>]
    /\ votes = [a \in ApprovalIds |-> {}]
    /\ delivered = {} /\ lastDecided = None /\ enabled = TRUE /\ live = {}
    /\ job = [p \in Procs |-> Idle]
    /\ promoted = {} /\ adopted = {} /\ doubled = {} /\ cut = {} /\ torn = {}
    /\ edits = 0 /\ setbacks = 0

Setback == setbacks < MaxSetbacks /\ setbacks' = setbacks + 1 /\ UNCHANGED edits
Plain == UNCHANGED <<edits, setbacks>>

At(p, step) == job[p].at = step
Goto(p, step) == job' = [job EXCEPT ![p].at = step]
Ends(p) == job' = [job EXCEPT ![p] = Idle]

\* major_changes: at least major_change_threshold of them.
IsBatch(old, new) == old.outline # new.outline \/ old.perms # new.perms

\* change_signature: which roles and channels came, went or were changed, but
\* not what their permissions became.
Signature(old, new) == <<old.outline, new.outline, old.perms # new.perms>>

Pending == {a \in ApprovalIds : status[a] = "pending"}
\* get_pending_approval: the latest one.
Newest(a) == a \in Pending /\ \A b \in Pending : b <= a

-----------------------------------------------------------------------------
\* A cycle: run_cycle, _handle_cycle_result.

Start(c) ==
    /\ At(c, "idle") /\ enabled
    /\ job' = [job EXCEPT ![c].at = "pending", ![c].snap = guild]
    /\ Plain /\ UNCHANGED <<guild, baseline, approvals, enabled, live, history>>

\* Mutant: a cycle that is blocked never posts again.
NeverMissing(a) == FALSE
\* The message was not noted: the prompt is posted again.
PromptMissing(a) == a \notin delivered

ReadPending(c) ==
    /\ At(c, "pending") /\ Plain
    /\ \/ Pending = {} /\ lastId < MaxApprovals /\ Goto(c, "baseline") /\ UNCHANGED doubled
       \/ \E a \in Pending :
            /\ Newest(a)
            /\ IF PromptMissing(a)
               THEN job' = [job EXCEPT ![c] = [Idle EXCEPT !.at = "post", !.app = a]]
               ELSE Ends(c)
            /\ doubled' = IF PromptMissing(a) /\ \E d \in Cycles \ {c} : job[d].app = a
                          THEN doubled \cup {a} ELSE doubled
    /\ UNCHANGED <<guild, baseline, approvals, enabled, live, promoted, adopted, cut, torn>>

ReadBaseline(c) ==
    /\ At(c, "baseline") /\ Plain
    /\ LET snap == job[c].snap IN
       \/ baseline = NoStructure /\ Goto(c, "store")
       \/ baseline # NoStructure /\ baseline = snap /\ Ends(c)
       \/ /\ baseline # NoStructure /\ baseline # snap /\ ~IsBatch(baseline, snap)
          /\ Goto(c, "store")
       \/ /\ baseline # NoStructure /\ baseline # snap /\ IsBatch(baseline, snap)
          /\ job' = [job EXCEPT ![c].at = "decided", ![c].sign = Signature(baseline, snap)]
    /\ UNCHANGED <<guild, baseline, approvals, enabled, live, history>>

Store(c) ==
    /\ At(c, "store") /\ Ends(c) /\ baseline' = job[c].snap /\ Plain
    /\ UNCHANGED <<guild, approvals, enabled, live, history>>

\* A change that was just rejected is not asked for again.
Suppressed(sign) ==
    lastDecided # None /\ status[lastDecided] = "rejected" /\ signature[lastDecided] = sign

ReadDecided(c) ==
    /\ At(c, "decided") /\ Plain
    /\ IF Suppressed(job[c].sign) THEN Ends(c) ELSE Goto(c, "ask")
    /\ UNCHANGED <<guild, baseline, approvals, enabled, live, history>>

\* create_approval
Ask(c) ==
    /\ At(c, "ask") /\ Plain
    /\ lastId' = lastId + 1
    /\ status' = [status EXCEPT ![lastId'] = "pending"]
    /\ pending' = [pending EXCEPT ![lastId'] = job[c].snap]
    /\ signature' = [signature EXCEPT ![lastId'] = job[c].sign]
    /\ job' = [job EXCEPT ![c] = [Idle EXCEPT !.at = "post", !.app = lastId']]
    /\ UNCHANGED <<guild, baseline, votes, delivered, lastDecided, enabled, live, history>>

\* _post_approval: the buttons answer as soon as the prompt is there.
Post(c) ==
    /\ At(c, "post") /\ Goto(c, "deliver") /\ Plain
    /\ live' = live \cup {job[c].app}
    /\ UNCHANGED <<guild, baseline, approvals, enabled, history>>

\* No channel, or Discord refuses.
PostFails(c) ==
    /\ At(c, "post") /\ Goto(c, "adopt") /\ Setback
    /\ doubled' = IF job[c].app \in live THEN doubled \cup {job[c].app} ELSE doubled
    /\ UNCHANGED <<guild, baseline, approvals, enabled, live, promoted, adopted, cut, torn>>

Deliver(c) ==
    /\ At(c, "deliver") /\ Ends(c) /\ Plain
    /\ delivered' = delivered \cup {job[c].app} /\ live' = live \cup {job[c].app}
    /\ UNCHANGED <<guild, baseline, lastId, status, pending, signature, votes,
                   lastDecided, enabled, history>>

\* force_adopt: it reads, stores, and only then decides.
AdoptRead(c) ==
    /\ At(c, "adopt") /\ Plain
    /\ IF status[job[c].app] = "pending" THEN Goto(c, "adoptStore") ELSE Ends(c)
    /\ UNCHANGED <<guild, baseline, approvals, enabled, live, history>>

AdoptStore(c) ==
    /\ At(c, "adoptStore") /\ Goto(c, "adoptFinal") /\ Plain
    /\ baseline' = pending[job[c].app] /\ adopted' = adopted \cup {job[c].app}
    /\ UNCHANGED <<guild, approvals, enabled, live, promoted, doubled, cut, torn>>

\* Mutant: finalize without its WHERE status = 'pending'.
MayAlwaysFinalize(a) == TRUE
\* finalize: only a pending approval is decided.
MayFinalize(a) == status[a] = "pending"
Finalize(a, decision) ==
    IF MayFinalize(a)
    THEN status' = [status EXCEPT ![a] = decision] /\ lastDecided' = a
    ELSE UNCHANGED <<status, lastDecided>>

Superseded == "superseded"

AdoptFinal(c) ==
    /\ At(c, "adoptFinal") /\ Ends(c) /\ Plain /\ Finalize(job[c].app, Superseded)
    /\ UNCHANGED <<guild, baseline, lastId, pending, signature, votes, delivered,
                   enabled, live, history>>

-----------------------------------------------------------------------------
\* A click: handle_decision, register_approval, reject.  A click on what is
\* decided, or a second approval of one moderator, changes nothing.

Click(k, a, m) ==
    /\ At(k, "idle") /\ a \in live /\ status[a] = "pending" /\ Plain
    /\ \/ m \notin votes[a] /\ job' = [job EXCEPT ![k] = [Idle EXCEPT !.at = "vote", !.app = a, !.by = m]]
       \/ job' = [job EXCEPT ![k] = [Idle EXCEPT !.at = "reject", !.app = a]]
    /\ UNCHANGED <<guild, baseline, approvals, enabled, live, history>>

\* Mutant: one moderator too few.
OneFewer(voters) == Cardinality(voters) >= RequiredApprovals - 1
Enough(voters) == Cardinality(voters) >= RequiredApprovals

\* add_approver: in a transaction, unless it was decided meanwhile.
Vote(k) ==
    /\ At(k, "vote") /\ Plain
    /\ LET a == job[k].app
           voters == votes[a] \cup {job[k].by} IN
       IF status[a] = "pending"
       THEN /\ votes' = [votes EXCEPT ![a] = voters]
            /\ IF Enough(voters) THEN Goto(k, "claim") ELSE Ends(k)
       ELSE UNCHANGED votes /\ Ends(k)
    /\ UNCHANGED <<guild, baseline, lastId, status, pending, signature, delivered,
                   lastDecided, enabled, live, history>>

Claim(k) ==
    /\ At(k, "claim") /\ Plain
    /\ Finalize(job[k].app, "approved")
    /\ IF MayFinalize(job[k].app) THEN Goto(k, "promote") ELSE Ends(k)
    /\ UNCHANGED <<guild, baseline, lastId, pending, signature, votes, delivered,
                   enabled, live, history>>

Promote(k) ==
    /\ At(k, "promote") /\ Ends(k) /\ Plain
    /\ baseline' = pending[job[k].app] /\ promoted' = promoted \cup {job[k].app}
    /\ UNCHANGED <<guild, approvals, enabled, live, adopted, doubled, cut, torn>>

Reject(k) ==
    /\ At(k, "reject") /\ Ends(k) /\ Plain /\ Finalize(job[k].app, "rejected")
    /\ UNCHANGED <<guild, baseline, lastId, pending, signature, votes, delivered,
                   enabled, live, history>>

-----------------------------------------------------------------------------
\* The guild, the operator, faults.

Edit ==
    /\ edits < MaxEdits /\ edits' = edits + 1 /\ UNCHANGED setbacks
    /\ guild' \in Structures \ {guild}
    /\ UNCHANGED <<baseline, approvals, enabled, live, job, history>>

SetEnabled ==
    /\ Setback /\ enabled' = ~enabled
    /\ UNCHANGED <<guild, baseline, approvals, live, job, history>>

\* The approvals of those processes that are at a step.
HeldAt(procs, step) == {job[p].app : p \in {q \in procs : At(q, step)}}
CutShort(procs) ==
    cut' = cut \cup HeldAt(procs, "promote") /\ torn' = torn \cup HeldAt(procs, "adoptFinal")

Raise(p) ==
    /\ ~At(p, "idle") /\ Ends(p) /\ Setback
    /\ CutShort({p})
    /\ UNCHANGED <<guild, baseline, approvals, enabled, live, promoted, adopted, doubled>>

\* rebind_pending_views: what was delivered answers again.
BotCrash ==
    /\ Setback /\ job' = [p \in Procs |-> Idle]
    /\ live' = Pending \cap delivered
    /\ CutShort(Procs)
    /\ UNCHANGED <<guild, baseline, approvals, enabled, promoted, adopted, doubled>>

-----------------------------------------------------------------------------
CycleStep(c) ==
    \/ Start(c) \/ ReadPending(c) \/ ReadBaseline(c) \/ Store(c) \/ ReadDecided(c)
    \/ Ask(c) \/ Post(c) \/ PostFails(c) \/ Deliver(c)
    \/ AdoptRead(c) \/ AdoptStore(c) \/ AdoptFinal(c)
ClickStep(k) == Vote(k) \/ Claim(k) \/ Promote(k) \/ Reject(k)
Next ==
    \/ \E c \in Cycles : CycleStep(c)
    \/ \E k \in Clicks : ClickStep(k) \/ \E a \in ApprovalIds, m \in Moderators : Click(k, a, m)
    \/ Edit \/ SetEnabled \/ BotCrash \/ \E p \in Procs : Raise(p)

Spec == Init /\ [][Next]_vars

\* The loop comes round, whatever its calls return; so does a click.
Fairness == WF_vars(CycleStep(Hourly)) /\ \A k \in Clicks : WF_vars(ClickStep(k))
FairSpec == Spec /\ Fairness

-----------------------------------------------------------------------------
Known == Structures \cup {NoStructure}
Signatures == {<<>>} \cup {Signature(old, new) : old \in Known, new \in Known}
Steps == {"idle", "pending", "baseline", "store", "decided", "ask", "post", "deliver",
          "adopt", "adoptStore", "adoptFinal", "vote", "claim", "promote", "reject"}
Jobs == [at : Steps, snap : Known, sign : Signatures,
         app : ApprovalIds \cup {None}, by : Moderators \cup {"nobody"}]

TypeOK ==
    /\ guild \in Structures /\ baseline \in Known
    /\ lastId \in ApprovalIds \cup {None}
    /\ status \in [ApprovalIds -> {"absent", "pending", "approved", "rejected", "superseded"}]
    /\ pending \in [ApprovalIds -> Known]
    /\ signature \in [ApprovalIds -> Signatures]
    /\ votes \in [ApprovalIds -> SUBSET Moderators]
    /\ delivered \subseteq ApprovalIds /\ lastDecided \in ApprovalIds \cup {None}
    /\ enabled \in BOOLEAN /\ live \subseteq ApprovalIds /\ job \in [Procs -> Jobs]
    /\ promoted \subseteq ApprovalIds /\ adopted \subseteq ApprovalIds
    /\ doubled \subseteq ApprovalIds /\ cut \subseteq ApprovalIds /\ torn \subseteq ApprovalIds
    /\ edits \in Nat /\ setbacks \in Nat

\* What moderators approve is promoted, once enough of them did, unless a crash
\* or an exception came before the snapshot was stored; nothing else is
\* promoted, however the clicks, the cycles and their decisions cross.
ApprovedIsPromoted ==
    \A a \in ApprovalIds :
        /\ status[a] = "approved" =>
             /\ Cardinality(votes[a]) >= RequiredApprovals
             /\ a \in promoted \cup cut \cup HeldAt(Clicks, "promote")
        /\ a \in promoted => status[a] = "approved"

\* A rejected change keeps the old baseline.  It is adopted nevertheless only
\* when a second prompt for it could not be posted, or when a crash or an
\* exception came between adopting it and deciding it, and it was asked again.
RejectedIsKeptOut ==
    \A a \in ApprovalIds :
        status[a] = "rejected" => a \notin promoted /\ (a \in adopted => a \in doubled \cup torn)

\* Backups are never paused on a prompt nobody can answer, whatever was cut
\* short between asking, posting and noting the message.
PromptReachable == \A a \in ApprovalIds : []<>(~Newest(a) \/ a \in live \/ ~enabled)

-----------------------------------------------------------------------------
(***************************************************************************)
(* The inductive invariant.                                                *)
(***************************************************************************)
Asking == {"baseline", "decided", "ask"}
Holding == {"post", "deliver", "adopt", "adoptStore", "adoptFinal", "vote", "claim",
            "promote", "reject"}
ClickSteps == {"idle", "vote", "claim", "promote", "reject"}

\* Clicks take the clicks' steps and cycles the others; a process has an
\* approval in hand, and one that exists, just at the steps that need it.
HandsKnown ==
    /\ \A k \in Clicks : job[k].at \in ClickSteps
    /\ \A c \in Cycles : job[c].at \notin ClickSteps \ {"idle"}
    /\ \A p \in Procs : (job[p].app # None <=> job[p].at \in Holding) /\ job[p].app <= lastId
    /\ \A k \in Clicks : At(k, "vote") => job[k].by \in Moderators

\* Two cycles may ask at once, no more.
IdsLeft ==
    /\ \A c \in Cycles : job[c].at \in Asking => lastId <= MaxApprovals
    /\ (\A c \in Cycles : job[c].at \in Asking) => lastId < MaxApprovals

FreshUntouched == \A a \in ApprovalIds : a > lastId => status[a] = "absent" /\ a \notin adopted

\* Only a posted prompt is clicked.
ClicksLive == \A k \in Clicks : job[k].app # None => job[k].app \in live

ClicksInOrder ==
    \A k \in Clicks :
        /\ At(k, "claim") => Cardinality(votes[job[k].app]) >= RequiredApprovals
        /\ At(k, "promote") => status[job[k].app] = "approved"

VotesEnough ==
    \A a \in ApprovalIds : status[a] = "approved" => Cardinality(votes[a]) >= RequiredApprovals

PromotedApproved == \A a \in promoted : status[a] = "approved"

PromotionAccounted ==
    \A a \in ApprovalIds :
        status[a] = "approved" =>
            a \in promoted \cup cut \/ \E k \in Clicks : At(k, "promote") /\ job[k].app = a

\* An approval that two cycles have in hand is noted.
CyclesApart ==
    \A c, d \in Cycles :
        c # d /\ job[c].app # None /\ job[c].app = job[d].app => job[c].app \in doubled

\* Whoever adopts an approval that no other cycle had in hand is alone with it.
AdoptionAlone ==
    \A c \in Cycles :
        /\ job[c].at \in {"adopt", "adoptStore", "adoptFinal"} =>
             job[c].app \notin live \/ job[c].app \in doubled
        /\ job[c].at \in {"adoptStore", "adoptFinal"} =>
             status[job[c].app] = "pending" \/ job[c].app \in doubled

AdoptionAccounted ==
    \A a \in adopted :
        \/ a \in doubled \cup torn \/ status[a] = "superseded"
        \/ \E c \in Cycles : At(c, "adoptFinal") /\ job[c].app = a

IInv ==
    /\ TypeOK /\ HandsKnown /\ IdsLeft /\ FreshUntouched /\ ClicksLive /\ ClicksInOrder
    /\ VotesEnough /\ PromotedApproved /\ PromotionAccounted
    /\ CyclesApart /\ AdoptionAlone /\ AdoptionAccounted

=============================================================================
