------------------------ MODULE ServerBackup_proofs ------------------------
(***************************************************************************)
(* Proofs about ServerBackup, for every set of structures, moderators and  *)
(* simultaneous clicks, and every number of approvals required.            *)
(***************************************************************************)
EXTENDS ServerBackup, FiniteSetTheorems, TLAPS

USE ClicksAssumption, ModeratorsAssumption, StructuresAssumption, BackupBounds

LEMMA IdleType == Idle \in Jobs
  BY DEF Idle, Jobs, Steps, Known, Signatures

\* What the proofs need of the types.
LEMMA Shapes ==
    ASSUME IInv
    PROVE  /\ job \in [Procs -> Jobs] /\ lastId \in 0..MaxApprovals + 1
           /\ \A p \in Procs : /\ job[p].at \in Steps /\ job[p].app \in ApprovalIds \cup {None}
                                /\ job[p].snap \in Known /\ job[p].sign \in Signatures
           /\ status \in [ApprovalIds -> {"absent", "pending", "approved", "rejected", "superseded"}]
           /\ votes \in [ApprovalIds -> SUBSET Moderators]
           /\ adopted \subseteq ApprovalIds /\ promoted \subseteq ApprovalIds
           /\ None \notin ApprovalIds /\ ApprovalIds \subseteq Nat
  BY DEF IInv, TypeOK, Jobs, ApprovalIds, None

LEMMA Processes ==
    /\ \A c \in Cycles : c \in Procs /\ c \notin Clicks
    /\ \A k \in Clicks : k \in Procs /\ k \notin Cycles
    /\ \A c, d, e \in Cycles : c # d => e = c \/ e = d
  BY DEF Procs, Cycles, Hourly, Requested

\* A step of one process changes its own local state.
LEMMA Moved ==
    ASSUME job \in [Procs -> Jobs], NEW p \in Procs, NEW r \in Jobs, job' = [job EXCEPT ![p] = r]
    PROVE  job' \in [Procs -> Jobs] /\ job'[p] = r /\ \A q \in Procs \ {p} : job'[q] = job[q]
  OBVIOUS

LEMMA Goes ==
    ASSUME IInv, NEW p \in Procs, NEW step \in Steps, Goto(p, step)
    PROVE  /\ job' \in [Procs -> Jobs] /\ job'[p].at = step
           /\ job'[p].app = job[p].app /\ job'[p].by = job[p].by
           /\ \A q \in Procs \ {p} : job'[q] = job[q]
<1>1. job \in [Procs -> Jobs]  BY Shapes
<1>2. [job[p] EXCEPT !.at = step] \in Jobs  BY <1>1 DEF Jobs
<1>3. job' = [job EXCEPT ![p] = [job[p] EXCEPT !.at = step]]  BY DEF Goto
<1>4. job'[p] = [job[p] EXCEPT !.at = step]  BY <1>1, <1>3
<1>5. job[p] \in Jobs  BY <1>1
<1>6. job'[p].at = step /\ job'[p].app = job[p].app /\ job'[p].by = job[p].by
  BY <1>4, <1>5 DEF Jobs
<1>. QED  BY <1>1, <1>2, <1>3, <1>6, Moved

LEMMA Finishes ==
    ASSUME IInv, NEW p \in Procs, Ends(p)
    PROVE  /\ job' \in [Procs -> Jobs] /\ job'[p].at = "idle" /\ job'[p].app = None
           /\ \A q \in Procs \ {p} : job'[q] = job[q]
  BY Shapes, IdleType, Moved DEF Ends, Idle

\* A process that has just the approval a in hand.
LEMMA Takes ==
    ASSUME IInv, NEW p \in Procs, NEW step \in Steps, NEW a \in ApprovalIds,
           job' = [job EXCEPT ![p] = [Idle EXCEPT !.at = step, !.app = a]]
    PROVE  /\ job' \in [Procs -> Jobs] /\ job'[p].at = step /\ job'[p].app = a
           /\ \A q \in Procs \ {p} : job'[q] = job[q]
<1>1. [Idle EXCEPT !.at = step, !.app = a] \in Jobs  BY IdleType DEF Jobs
<1>2. job \in [Procs -> Jobs]  BY Shapes
<1>3. job'[p] = [Idle EXCEPT !.at = step, !.app = a]  BY <1>2
<1>4. job'[p].at = step /\ job'[p].app = a  BY <1>3, IdleType DEF Idle
<1>. QED  BY <1>1, <1>2, <1>4, Moved

\* The same for a click that names its moderator.
LEMMA TakesFor ==
    ASSUME IInv, NEW p \in Procs, NEW step \in Steps, NEW a \in ApprovalIds, NEW m \in Moderators,
           job' = [job EXCEPT ![p] = [Idle EXCEPT !.at = step, !.app = a, !.by = m]]
    PROVE  /\ job' \in [Procs -> Jobs] /\ job'[p].at = step /\ job'[p].app = a /\ job'[p].by = m
           /\ \A q \in Procs \ {p} : job'[q] = job[q]
<1>1. [Idle EXCEPT !.at = step, !.app = a, !.by = m] \in Jobs  BY IdleType DEF Jobs
<1>2. job \in [Procs -> Jobs]  BY Shapes
<1>3. job'[p] = [Idle EXCEPT !.at = step, !.app = a, !.by = m]  BY <1>2
<1>4. job'[p].at = step /\ job'[p].app = a /\ job'[p].by = m  BY <1>3, IdleType DEF Idle
<1>. QED  BY <1>1, <1>2, <1>4, Moved

LEMMA InitIInv == Init => IInv
<1>. SUFFICES ASSUME Init PROVE IInv
  OBVIOUS
<1>1. /\ \A p \in Procs : job[p].at = "idle" /\ job[p].app = None
      /\ lastId = 0 /\ \A a \in ApprovalIds : status[a] = "absent"
      /\ adopted = {} /\ promoted = {}
  BY DEF Init, Idle
<1>2. TypeOK
  BY IdleType DEF Init, TypeOK, Known, Signatures, ApprovalIds, None
<1>3. HandsKnown  BY <1>1, Processes DEF HandsKnown, ClickSteps, Holding, At, None
<1>4. IdsLeft  BY <1>1, Processes DEF IdsLeft, Asking, Cycles
<1>5. FreshUntouched /\ ClicksLive /\ ClicksInOrder
  BY <1>1, Processes DEF FreshUntouched, ClicksLive, ClicksInOrder, At
<1>6. VotesEnough /\ PromotedApproved /\ PromotionAccounted
  BY <1>1 DEF VotesEnough, PromotedApproved, PromotionAccounted
<1>7. CyclesApart /\ AdoptionAlone /\ AdoptionAccounted
  BY <1>1, Processes DEF CyclesApart, AdoptionAlone, AdoptionAccounted
<1>. QED  BY <1>2, <1>3, <1>4, <1>5, <1>6, <1>7 DEF IInv

\* A cycle starts.
LEMMA StartKeeps ==
    ASSUME IInv, NEW c \in Cycles, Start(c)
    PROVE  IInv'
<1>. DEFINE r == job'[c]
<1>1. /\ job' \in [Procs -> Jobs]
      /\ \A q \in Procs \ {c} : job'[q] = job[q]
      /\ job[c].at = "idle"
      /\ r.at = "pending"
      /\ r.app = job[c].app
  <2>0. c \in Procs /\ job \in [Procs -> Jobs] /\ job[c] \in Jobs /\ guild \in Known
    BY Shapes, Processes DEF IInv, TypeOK, Known
  <2>1. [job[c] EXCEPT !.at = "pending", !.snap = guild] \in Jobs
    BY <2>0 DEF Jobs, Steps
  <2>2. job' = [job EXCEPT ![c] = [job[c] EXCEPT !.at = "pending", !.snap = guild]]  BY DEF Start
  <2>3. r = [job[c] EXCEPT !.at = "pending", !.snap = guild]  BY <2>0, <2>2
  <2>4. r.at = "pending" /\ r.app = job[c].app  BY <2>0, <2>3 DEF Jobs
  <2>. QED  BY <2>0, <2>1, <2>2, <2>4, Moved DEF Start, At
<1>. USE Shapes, Processes DEF IInv
<1>2. UNCHANGED <<guild, baseline, lastId, status, pending, signature, votes, delivered, lastDecided, enabled, live, promoted, adopted, doubled, cut, torn, edits, setbacks>>
  BY DEF Start, Plain, Setback, approvals, history
<1>3. TypeOK'  BY <1>1, <1>2 DEF TypeOK
<1>4. HandsKnown'  BY <1>1, <1>2 DEF HandsKnown, FreshUntouched, ClickSteps, Holding, At, None
<1>5. IdsLeft'  BY <1>1, <1>2 DEF IdsLeft, Asking
<1>6. FreshUntouched'  BY <1>1, <1>2 DEF FreshUntouched, HandsKnown
<1>7. ClicksLive'  BY <1>1, <1>2 DEF ClicksLive, HandsKnown
<1>8. ClicksInOrder'  BY <1>1, <1>2 DEF ClicksInOrder, HandsKnown, ClickSteps, Holding, At
<1>9. VotesEnough'  BY <1>1, <1>2 DEF VotesEnough, ClicksInOrder, At
<1>10. PromotedApproved'  BY <1>1, <1>2 DEF PromotedApproved, FreshUntouched, ClicksInOrder, At
<1>11. PromotionAccounted'  BY <1>1, <1>2 DEF PromotionAccounted, HandsKnown, ClickSteps, At
<1>12. CyclesApart'  BY <1>1, <1>2 DEF CyclesApart, HandsKnown, Holding
<1>13. AdoptionAlone'  BY <1>1, <1>2 DEF AdoptionAlone, CyclesApart, ClicksLive, HandsKnown, Holding, ClickSteps, At
<1>14. AdoptionAccounted'  BY <1>1, <1>2 DEF AdoptionAccounted, FreshUntouched, AdoptionAlone, HandsKnown, Holding, ClickSteps, At
<1>. QED  BY <1>3, <1>4, <1>5, <1>6, <1>7, <1>8, <1>9, <1>10, <1>11, <1>12, <1>13, <1>14 DEF IInv

\* A cycle looks for a pending approval.
LEMMA ReadPendingKeeps ==
    ASSUME IInv, NEW c \in Cycles, ReadPending(c)
    PROVE  IInv'
<1>. DEFINE r == job'[c]
<1>1. /\ job' \in [Procs -> Jobs]
      /\ \A q \in Procs \ {c} : job'[q] = job[q]
      /\ job[c].at = "pending"
      /\ \/ r.at = "baseline" /\ r.app = job[c].app /\ lastId < MaxApprovals /\ doubled' = doubled
         \/ r.at = "idle" /\ r.app = None /\ doubled' = doubled
         \/ /\ r.at = "post" /\ r.app \in ApprovalIds /\ status[r.app] = "pending"
            /\ doubled' = IF \E d \in Cycles \ {c} : job[d].app = r.app
                          THEN doubled \cup {r.app} ELSE doubled
  <2>0. job[c].at = "pending" /\ c \in Procs /\ {"baseline", "post"} \subseteq Steps
    BY Processes DEF ReadPending, At, Steps
  <2>1. CASE lastId < MaxApprovals /\ Goto(c, "baseline") /\ UNCHANGED doubled
    <3>1. /\ job' \in [Procs -> Jobs] /\ r.at = "baseline" /\ r.app = job[c].app
          /\ \A q \in Procs \ {c} : job'[q] = job[q]
      BY <2>0, <2>1, Goes
    <3>. QED  BY <2>0, <2>1, <3>1
  <2>2. ASSUME NEW a \in Pending,
               IF PromptMissing(a)
               THEN job' = [job EXCEPT ![c] = [Idle EXCEPT !.at = "post", !.app = a]]
               ELSE Ends(c),
               doubled' = IF PromptMissing(a) /\ \E d \in Cycles \ {c} : job[d].app = a
                          THEN doubled \cup {a} ELSE doubled
        PROVE  /\ job' \in [Procs -> Jobs]
               /\ \A q \in Procs \ {c} : job'[q] = job[q]
               /\ job[c].at = "pending"
               /\ \/ r.at = "idle" /\ r.app = None /\ doubled' = doubled
                  \/ /\ r.at = "post" /\ r.app \in ApprovalIds /\ status[r.app] = "pending"
                     /\ doubled' = IF \E d \in Cycles \ {c} : job[d].app = r.app
                                   THEN doubled \cup {r.app} ELSE doubled
    <3>1. a \in ApprovalIds /\ status[a] = "pending"  BY DEF Pending
    <3>2. CASE PromptMissing(a)
      <4>1. job' = [job EXCEPT ![c] = [Idle EXCEPT !.at = "post", !.app = a]]  BY <2>2, <3>2
      <4>2. r.at = "post" /\ r.app = a /\ job' \in [Procs -> Jobs] /\ \A q \in Procs \ {c} : job'[q] = job[q]
        BY <2>0, <3>1, <4>1, Takes
      <4>3. doubled' = IF \E d \in Cycles \ {c} : job[d].app = a THEN doubled \cup {a} ELSE doubled
        BY <2>2, <3>2
      <4>. QED  BY <2>0, <3>1, <4>2, <4>3
    <3>3. CASE ~PromptMissing(a)
      <4>1. Ends(c) /\ doubled' = doubled  BY <2>2, <3>3
      <4>2. /\ job' \in [Procs -> Jobs] /\ r.at = "idle" /\ r.app = None
            /\ \A q \in Procs \ {c} : job'[q] = job[q]
        BY <2>0, <4>1, Finishes
      <4>. QED  BY <2>0, <4>1, <4>2
    <3>. QED  BY <3>2, <3>3
  <2>3. \/ lastId < MaxApprovals /\ Goto(c, "baseline") /\ UNCHANGED doubled
        \/ \E a \in Pending : /\ IF PromptMissing(a)
                                 THEN job' = [job EXCEPT ![c] = [Idle EXCEPT !.at = "post", !.app = a]]
                                 ELSE Ends(c)
                              /\ doubled' = IF PromptMissing(a) /\ \E d \in Cycles \ {c} : job[d].app = a
                                            THEN doubled \cup {a} ELSE doubled
    BY Zenon DEF ReadPending
  <2>. QED  BY <2>1, <2>2, <2>3, Zenon
<1>. USE Shapes, Processes DEF IInv
<1>2. UNCHANGED <<guild, baseline, lastId, status, pending, signature, votes, delivered, lastDecided, enabled, live, promoted, adopted, cut, torn, edits, setbacks>>
  BY DEF ReadPending, Plain, Setback, approvals, history
<1>3. doubled \subseteq doubled' /\ doubled' \subseteq ApprovalIds
  BY DEF ReadPending, Pending, TypeOK
<1>4. TypeOK'  BY <1>1, <1>2, <1>3 DEF TypeOK
<1>5. HandsKnown'  BY <1>1, <1>2, <1>3 DEF HandsKnown, FreshUntouched, ClickSteps, Holding, At, None
<1>6. IdsLeft'  BY <1>1, <1>2, <1>3 DEF IdsLeft, Asking
<1>7. FreshUntouched'  BY <1>1, <1>2, <1>3 DEF FreshUntouched, HandsKnown
<1>8. ClicksLive'  BY <1>1, <1>2, <1>3 DEF ClicksLive, HandsKnown
<1>9. ClicksInOrder'  BY <1>1, <1>2, <1>3 DEF ClicksInOrder, HandsKnown, ClickSteps, Holding, At
<1>10. VotesEnough'  BY <1>1, <1>2, <1>3 DEF VotesEnough, ClicksInOrder, At
<1>11. PromotedApproved'  BY <1>1, <1>2, <1>3 DEF PromotedApproved, FreshUntouched, ClicksInOrder, At
<1>12. PromotionAccounted'  BY <1>1, <1>2, <1>3 DEF PromotionAccounted, HandsKnown, ClickSteps, At
<1>13. CyclesApart'  BY <1>1, <1>2, <1>3 DEF CyclesApart, HandsKnown, Holding
<1>14. AdoptionAlone'  BY <1>1, <1>2, <1>3 DEF AdoptionAlone, CyclesApart, ClicksLive, HandsKnown, Holding, ClickSteps, At
<1>15. AdoptionAccounted'  BY <1>1, <1>2, <1>3 DEF AdoptionAccounted, FreshUntouched, AdoptionAlone, HandsKnown, Holding, ClickSteps, At
<1>. QED  BY <1>4, <1>5, <1>6, <1>7, <1>8, <1>9, <1>10, <1>11, <1>12, <1>13, <1>14, <1>15 DEF IInv

\* A cycle compares the guild with the baseline.
LEMMA ReadBaselineKeeps ==
    ASSUME IInv, NEW c \in Cycles, ReadBaseline(c)
    PROVE  IInv'
<1>. DEFINE r == job'[c]
<1>1. /\ job' \in [Procs -> Jobs]
      /\ \A q \in Procs \ {c} : job'[q] = job[q]
      /\ job[c].at = "baseline"
      /\ \/ r.at \in {"store", "decided"} /\ r.app = job[c].app
         \/ r.at = "idle" /\ r.app = None
  <2>0. /\ job[c].at = "baseline" /\ c \in Procs /\ "store" \in Steps
        /\ job \in [Procs -> Jobs] /\ job[c] \in Jobs
    BY Shapes, Processes DEF ReadBaseline, At, Steps
  <2>1. CASE Goto(c, "store")
    <3>1. /\ job' \in [Procs -> Jobs] /\ r.at = "store" /\ r.app = job[c].app
          /\ \A q \in Procs \ {c} : job'[q] = job[q]
      BY <2>0, <2>1, Goes
    <3>. QED  BY <2>0, <3>1
  <2>2. CASE Ends(c)
    <3>1. /\ job' \in [Procs -> Jobs] /\ r.at = "idle" /\ r.app = None
          /\ \A q \in Procs \ {c} : job'[q] = job[q]
      BY <2>0, <2>2, Finishes
    <3>. QED  BY <2>0, <3>1
  <2>3. CASE job' = [job EXCEPT ![c].at = "decided", ![c].sign = Signature(baseline, job[c].snap)]
    <3>1. Signature(baseline, job[c].snap) \in Signatures
      BY Shapes, Processes DEF IInv, Signatures, TypeOK
    <3>2. [job[c] EXCEPT !.at = "decided", !.sign = Signature(baseline, job[c].snap)] \in Jobs
      BY <2>0, <3>1 DEF Jobs, Steps
    <3>3. job' = [job EXCEPT ![c] = [job[c] EXCEPT !.at = "decided", !.sign = Signature(baseline, job[c].snap)]]
      BY <2>3
    <3>4. r = [job[c] EXCEPT !.at = "decided", !.sign = Signature(baseline, job[c].snap)]
      BY <2>0, <3>3
    <3>5. r.at = "decided" /\ r.app = job[c].app  BY <2>0, <3>4 DEF Jobs
    <3>6. job' \in [Procs -> Jobs] /\ \A q \in Procs \ {c} : job'[q] = job[q]
      BY <2>0, <3>2, <3>3, Moved
    <3>. QED  BY <2>0, <3>5, <3>6
  <2>. QED  BY <2>1, <2>2, <2>3 DEF ReadBaseline
<1>. USE Shapes, Processes DEF IInv
<1>2. UNCHANGED <<guild, baseline, lastId, status, pending, signature, votes, delivered, lastDecided, enabled, live, promoted, adopted, doubled, cut, torn, edits, setbacks>>
  BY DEF ReadBaseline, Plain, Setback, approvals, history
<1>3. TypeOK'  BY <1>1, <1>2 DEF TypeOK
<1>4. HandsKnown'  BY <1>1, <1>2 DEF HandsKnown, FreshUntouched, ClickSteps, Holding, At, None
<1>5. IdsLeft'  BY <1>1, <1>2 DEF IdsLeft, Asking
<1>6. FreshUntouched'  BY <1>1, <1>2 DEF FreshUntouched, HandsKnown
<1>7. ClicksLive'  BY <1>1, <1>2 DEF ClicksLive, HandsKnown
<1>8. ClicksInOrder'  BY <1>1, <1>2 DEF ClicksInOrder, HandsKnown, ClickSteps, Holding, At
<1>9. VotesEnough'  BY <1>1, <1>2 DEF VotesEnough, ClicksInOrder, At
<1>10. PromotedApproved'  BY <1>1, <1>2 DEF PromotedApproved, FreshUntouched, ClicksInOrder, At
<1>11. PromotionAccounted'  BY <1>1, <1>2 DEF PromotionAccounted, HandsKnown, ClickSteps, At
<1>12. CyclesApart'  BY <1>1, <1>2 DEF CyclesApart, HandsKnown, Holding
<1>13. AdoptionAlone'  BY <1>1, <1>2 DEF AdoptionAlone, CyclesApart, ClicksLive, HandsKnown, Holding, ClickSteps, At
<1>14. AdoptionAccounted'  BY <1>1, <1>2 DEF AdoptionAccounted, FreshUntouched, AdoptionAlone, HandsKnown, Holding, ClickSteps, At
<1>. QED  BY <1>3, <1>4, <1>5, <1>6, <1>7, <1>8, <1>9, <1>10, <1>11, <1>12, <1>13, <1>14 DEF IInv

\* A cycle stores the new baseline.
LEMMA StoreKeeps ==
    ASSUME IInv, NEW c \in Cycles, Store(c)
    PROVE  IInv'
<1>. USE Shapes, Processes DEF IInv
<1>. DEFINE r == job'[c]
<1>1. /\ job' \in [Procs -> Jobs]
      /\ \A q \in Procs \ {c} : job'[q] = job[q]
      /\ job[c].at = "store"
      /\ r.at = "idle"
      /\ r.app = None
  BY Goes, Finishes DEF Store, At, Steps
<1>2. UNCHANGED <<guild, lastId, status, pending, signature, votes, delivered, lastDecided, enabled, live, promoted, adopted, doubled, cut, torn, edits, setbacks>>
  BY DEF Store, Plain, Setback, approvals, history
<1>3. baseline' \in Known
  BY DEF Store
<1>4. TypeOK'  BY <1>1, <1>2, <1>3 DEF TypeOK
<1>5. HandsKnown'  BY <1>1, <1>2, <1>3 DEF HandsKnown, FreshUntouched, ClickSteps, Holding, At, None
<1>6. IdsLeft'  BY <1>1, <1>2, <1>3 DEF IdsLeft, Asking
<1>7. FreshUntouched'  BY <1>1, <1>2, <1>3 DEF FreshUntouched, HandsKnown
<1>8. ClicksLive'  BY <1>1, <1>2, <1>3 DEF ClicksLive, HandsKnown
<1>9. ClicksInOrder'  BY <1>1, <1>2, <1>3 DEF ClicksInOrder, HandsKnown, ClickSteps, Holding, At
<1>10. VotesEnough'  BY <1>1, <1>2, <1>3 DEF VotesEnough, ClicksInOrder, At
<1>11. PromotedApproved'  BY <1>1, <1>2, <1>3 DEF PromotedApproved, FreshUntouched, ClicksInOrder, At
<1>12. PromotionAccounted'  BY <1>1, <1>2, <1>3 DEF PromotionAccounted, HandsKnown, ClickSteps, At
<1>13. CyclesApart'  BY <1>1, <1>2, <1>3 DEF CyclesApart, HandsKnown, Holding
<1>14. AdoptionAlone'  BY <1>1, <1>2, <1>3 DEF AdoptionAlone, CyclesApart, ClicksLive, HandsKnown, Holding, ClickSteps, At
<1>15. AdoptionAccounted'  BY <1>1, <1>2, <1>3 DEF AdoptionAccounted, FreshUntouched, AdoptionAlone, HandsKnown, Holding, ClickSteps, At
<1>. QED  BY <1>4, <1>5, <1>6, <1>7, <1>8, <1>9, <1>10, <1>11, <1>12, <1>13, <1>14, <1>15 DEF IInv

\* A cycle looks at the last decision.
LEMMA ReadDecidedKeeps ==
    ASSUME IInv, NEW c \in Cycles, ReadDecided(c)
    PROVE  IInv'
<1>. DEFINE r == job'[c]
<1>1. /\ job' \in [Procs -> Jobs]
      /\ \A q \in Procs \ {c} : job'[q] = job[q]
      /\ job[c].at = "decided"
      /\ \/ r.at = "ask" /\ r.app = job[c].app
         \/ r.at = "idle" /\ r.app = None
  <2>0. job[c].at = "decided" /\ c \in Procs /\ "ask" \in Steps
    BY Processes DEF ReadDecided, At, Steps
  <2>1. CASE Goto(c, "ask")
    <3>1. /\ job' \in [Procs -> Jobs] /\ r.at = "ask" /\ r.app = job[c].app
          /\ \A q \in Procs \ {c} : job'[q] = job[q]
      BY <2>0, <2>1, Goes
    <3>. QED  BY <2>0, <3>1
  <2>2. CASE Ends(c)
    <3>1. /\ job' \in [Procs -> Jobs] /\ r.at = "idle" /\ r.app = None
          /\ \A q \in Procs \ {c} : job'[q] = job[q]
      BY <2>0, <2>2, Finishes
    <3>. QED  BY <2>0, <3>1
  <2>. QED  BY <2>1, <2>2 DEF ReadDecided
<1>. USE Shapes, Processes DEF IInv
<1>2. UNCHANGED <<guild, baseline, lastId, status, pending, signature, votes, delivered, lastDecided, enabled, live, promoted, adopted, doubled, cut, torn, edits, setbacks>>
  BY DEF ReadDecided, Plain, Setback, approvals, history
<1>3. TypeOK'  BY <1>1, <1>2 DEF TypeOK
<1>4. HandsKnown'  BY <1>1, <1>2 DEF HandsKnown, FreshUntouched, ClickSteps, Holding, At, None
<1>5. IdsLeft'  BY <1>1, <1>2 DEF IdsLeft, Asking
<1>6. FreshUntouched'  BY <1>1, <1>2 DEF FreshUntouched, HandsKnown
<1>7. ClicksLive'  BY <1>1, <1>2 DEF ClicksLive, HandsKnown
<1>8. ClicksInOrder'  BY <1>1, <1>2 DEF ClicksInOrder, HandsKnown, ClickSteps, Holding, At
<1>9. VotesEnough'  BY <1>1, <1>2 DEF VotesEnough, ClicksInOrder, At
<1>10. PromotedApproved'  BY <1>1, <1>2 DEF PromotedApproved, FreshUntouched, ClicksInOrder, At
<1>11. PromotionAccounted'  BY <1>1, <1>2 DEF PromotionAccounted, HandsKnown, ClickSteps, At
<1>12. CyclesApart'  BY <1>1, <1>2 DEF CyclesApart, HandsKnown, Holding
<1>13. AdoptionAlone'  BY <1>1, <1>2 DEF AdoptionAlone, CyclesApart, ClicksLive, HandsKnown, Holding, ClickSteps, At
<1>14. AdoptionAccounted'  BY <1>1, <1>2 DEF AdoptionAccounted, FreshUntouched, AdoptionAlone, HandsKnown, Holding, ClickSteps, At
<1>. QED  BY <1>3, <1>4, <1>5, <1>6, <1>7, <1>8, <1>9, <1>10, <1>11, <1>12, <1>13, <1>14 DEF IInv

\* A cycle asks for approval.
LEMMA AskKeeps ==
    ASSUME IInv, NEW c \in Cycles, Ask(c)
    PROVE  IInv'
<1>. DEFINE r == job'[c]
<1>1. /\ job' \in [Procs -> Jobs]
      /\ \A q \in Procs \ {c} : job'[q] = job[q]
      /\ job[c].at = "ask"
      /\ r.at = "post"
      /\ r.app = lastId + 1
      /\ lastId' = lastId + 1 /\ lastId' \in ApprovalIds
  <2>1. lastId <= MaxApprovals  BY DEF IInv, Ask, At, IdsLeft, Asking
  <2>2. lastId + 1 \in ApprovalIds  BY <2>1, Shapes DEF ApprovalIds
  <2>3. job' = [job EXCEPT ![c] = [Idle EXCEPT !.at = "post", !.app = lastId + 1]]  BY DEF Ask
  <2>4. lastId' = lastId + 1 /\ job[c].at = "ask" /\ "post" \in Steps /\ c \in Procs
    BY Processes DEF Ask, At, Steps
  <2>5. /\ job' \in [Procs -> Jobs] /\ r.at = "post" /\ r.app = lastId + 1
        /\ \A q \in Procs \ {c} : job'[q] = job[q]
    BY <2>2, <2>3, <2>4, Takes
  <2>. QED  BY <2>2, <2>4, <2>5
<1>. USE Shapes, Processes DEF IInv
<1>2. UNCHANGED <<guild, baseline, votes, delivered, lastDecided, enabled, live, promoted, adopted, doubled, cut, torn, edits, setbacks>>
  BY DEF Ask, Plain, Setback, approvals, history
<1>3. lastId + 1 <= MaxApprovals + 1
  BY DEF Ask, At, IdsLeft, Asking
<1>4. status' = [status EXCEPT ![lastId + 1] = "pending"]
  BY DEF Ask
<1>5. pending' \in [ApprovalIds -> Known]
  BY DEF Ask, TypeOK
<1>6. signature' \in [ApprovalIds -> Signatures]
  BY DEF Ask, TypeOK
<1>7. TypeOK'  BY <1>1, <1>2, <1>3, <1>4, <1>5, <1>6 DEF TypeOK
<1>8. HandsKnown'  
  <2>1. \A q \in Procs \ {c} : job[q].app <= lastId + 1  BY DEF HandsKnown, ApprovalIds, None
  <2>2. lastId' = lastId + 1 /\ r.app # None /\ r.app <= lastId'  BY <1>1
  <2>3. c \notin Clicks /\ r.at \in Holding /\ r.at \notin ClickSteps  BY <1>1 DEF Holding, ClickSteps
  <2>. QED  BY <1>1, <2>1, <2>2, <2>3 DEF HandsKnown, At
<1>9. IdsLeft'  BY <1>1, <1>2, <1>3, <1>4, <1>5, <1>6 DEF IdsLeft, Asking
<1>10. FreshUntouched'  BY <1>1, <1>2, <1>3, <1>4, <1>5, <1>6 DEF FreshUntouched, HandsKnown
<1>11. ClicksLive'  BY <1>1, <1>2, <1>3, <1>4, <1>5, <1>6 DEF ClicksLive, HandsKnown
<1>12. ClicksInOrder'  BY <1>1, <1>2, <1>3, <1>4, <1>5, <1>6 DEF ClicksInOrder, HandsKnown, ClickSteps, Holding, At
<1>13. VotesEnough'  BY <1>1, <1>2, <1>3, <1>4, <1>5, <1>6 DEF VotesEnough, ClicksInOrder, At
<1>14. PromotedApproved'  BY <1>1, <1>2, <1>3, <1>4, <1>5, <1>6 DEF PromotedApproved, FreshUntouched, ClicksInOrder, At
<1>15. PromotionAccounted'  BY <1>1, <1>2, <1>3, <1>4, <1>5, <1>6 DEF PromotionAccounted, HandsKnown, ClickSteps, At
<1>16. CyclesApart'  BY <1>1, <1>2, <1>3, <1>4, <1>5, <1>6 DEF CyclesApart, HandsKnown, Holding
<1>17. AdoptionAlone'  BY <1>1, <1>2, <1>3, <1>4, <1>5, <1>6 DEF AdoptionAlone, CyclesApart, ClicksLive, HandsKnown, Holding, ClickSteps, At
<1>18. AdoptionAccounted'  BY <1>1, <1>2, <1>3, <1>4, <1>5, <1>6 DEF AdoptionAccounted, FreshUntouched, AdoptionAlone, HandsKnown, Holding, ClickSteps, At
<1>. QED  BY <1>7, <1>8, <1>9, <1>10, <1>11, <1>12, <1>13, <1>14, <1>15, <1>16, <1>17, <1>18 DEF IInv

\* A prompt is posted.
LEMMA PostKeeps ==
    ASSUME IInv, NEW c \in Cycles, Post(c)
    PROVE  IInv'
<1>. USE Shapes, Processes DEF IInv
<1>. DEFINE r == job'[c]
<1>1. job[c].app \in ApprovalIds  BY Shapes, Processes DEF IInv, Post, At, HandsKnown, Holding, None
<1>2. /\ job' \in [Procs -> Jobs]
      /\ \A q \in Procs \ {c} : job'[q] = job[q]
      /\ job[c].at = "post"
      /\ r.at = "deliver"
      /\ r.app = job[c].app
  BY <1>1, Goes, Finishes DEF Post, At, Steps
<1>3. UNCHANGED <<guild, baseline, lastId, status, pending, signature, votes, delivered, lastDecided, enabled, promoted, adopted, doubled, cut, torn, edits, setbacks>>
  BY DEF Post, Plain, Setback, approvals, history
<1>4. live' = live \cup {job[c].app}
  BY <1>1 DEF Post
<1>5. TypeOK'  BY <1>1, <1>2, <1>3, <1>4 DEF TypeOK
<1>6. HandsKnown'  BY <1>1, <1>2, <1>3, <1>4 DEF HandsKnown, FreshUntouched, ClickSteps, Holding, At, None
<1>7. IdsLeft'  BY <1>1, <1>2, <1>3, <1>4 DEF IdsLeft, Asking
<1>8. FreshUntouched'  BY <1>1, <1>2, <1>3, <1>4 DEF FreshUntouched, HandsKnown
<1>9. ClicksLive'  BY <1>1, <1>2, <1>3, <1>4 DEF ClicksLive, HandsKnown
<1>10. ClicksInOrder'  BY <1>1, <1>2, <1>3, <1>4 DEF ClicksInOrder, HandsKnown, ClickSteps, Holding, At
<1>11. VotesEnough'  BY <1>1, <1>2, <1>3, <1>4 DEF VotesEnough, ClicksInOrder, At
<1>12. PromotedApproved'  BY <1>1, <1>2, <1>3, <1>4 DEF PromotedApproved, FreshUntouched, ClicksInOrder, At
<1>13. PromotionAccounted'  BY <1>1, <1>2, <1>3, <1>4 DEF PromotionAccounted, HandsKnown, ClickSteps, At
<1>14. CyclesApart'  BY <1>1, <1>2, <1>3, <1>4 DEF CyclesApart, HandsKnown, Holding
<1>15. AdoptionAlone'  BY <1>1, <1>2, <1>3, <1>4 DEF AdoptionAlone, CyclesApart, ClicksLive, HandsKnown, Holding, ClickSteps, At
<1>16. AdoptionAccounted'  BY <1>1, <1>2, <1>3, <1>4 DEF AdoptionAccounted, FreshUntouched, AdoptionAlone, HandsKnown, Holding, ClickSteps, At
<1>. QED  BY <1>5, <1>6, <1>7, <1>8, <1>9, <1>10, <1>11, <1>12, <1>13, <1>14, <1>15, <1>16 DEF IInv

\* A prompt cannot be posted.
LEMMA PostFailsKeeps ==
    ASSUME IInv, NEW c \in Cycles, PostFails(c)
    PROVE  IInv'
<1>. USE Shapes, Processes DEF IInv
<1>. DEFINE r == job'[c]
<1>1. job[c].app \in ApprovalIds  BY Shapes, Processes DEF IInv, PostFails, At, HandsKnown, Holding, None
<1>2. /\ job' \in [Procs -> Jobs]
      /\ \A q \in Procs \ {c} : job'[q] = job[q]
      /\ job[c].at = "post"
      /\ r.at = "adopt"
      /\ r.app = job[c].app
  BY <1>1, Goes, Finishes DEF PostFails, At, Steps
<1>3. UNCHANGED <<guild, baseline, lastId, status, pending, signature, votes, delivered, lastDecided, enabled, live, promoted, adopted, cut, torn, edits>>
  BY DEF PostFails, Plain, Setback, approvals, history
<1>4. doubled' = IF job[c].app \in live THEN doubled \cup {job[c].app} ELSE doubled
  BY <1>1 DEF PostFails
<1>5. setbacks' = setbacks + 1
  BY <1>1 DEF PostFails, Setback
<1>6. TypeOK'  BY <1>1, <1>2, <1>3, <1>4, <1>5 DEF TypeOK
<1>7. HandsKnown'  BY <1>1, <1>2, <1>3, <1>4, <1>5 DEF HandsKnown, FreshUntouched, ClickSteps, Holding, At, None
<1>8. IdsLeft'  BY <1>1, <1>2, <1>3, <1>4, <1>5 DEF IdsLeft, Asking
<1>9. FreshUntouched'  BY <1>1, <1>2, <1>3, <1>4, <1>5 DEF FreshUntouched, HandsKnown
<1>10. ClicksLive'  BY <1>1, <1>2, <1>3, <1>4, <1>5 DEF ClicksLive, HandsKnown
<1>11. ClicksInOrder'  BY <1>1, <1>2, <1>3, <1>4, <1>5 DEF ClicksInOrder, HandsKnown, ClickSteps, Holding, At
<1>12. VotesEnough'  BY <1>1, <1>2, <1>3, <1>4, <1>5 DEF VotesEnough, ClicksInOrder, At
<1>13. PromotedApproved'  BY <1>1, <1>2, <1>3, <1>4, <1>5 DEF PromotedApproved, FreshUntouched, ClicksInOrder, At
<1>14. PromotionAccounted'  BY <1>1, <1>2, <1>3, <1>4, <1>5 DEF PromotionAccounted, HandsKnown, ClickSteps, At
<1>15. CyclesApart'  BY <1>1, <1>2, <1>3, <1>4, <1>5 DEF CyclesApart, HandsKnown, Holding
<1>16. AdoptionAlone'  BY <1>1, <1>2, <1>3, <1>4, <1>5 DEF AdoptionAlone, CyclesApart, ClicksLive, HandsKnown, Holding, ClickSteps, At
<1>17. AdoptionAccounted'  BY <1>1, <1>2, <1>3, <1>4, <1>5 DEF AdoptionAccounted, FreshUntouched, AdoptionAlone, HandsKnown, Holding, ClickSteps, At
<1>. QED  BY <1>6, <1>7, <1>8, <1>9, <1>10, <1>11, <1>12, <1>13, <1>14, <1>15, <1>16, <1>17 DEF IInv

\* The message of a prompt is noted.
LEMMA DeliverKeeps ==
    ASSUME IInv, NEW c \in Cycles, Deliver(c)
    PROVE  IInv'
<1>. USE Shapes, Processes DEF IInv
<1>. DEFINE r == job'[c]
<1>1. job[c].app \in ApprovalIds  BY Shapes, Processes DEF IInv, Deliver, At, HandsKnown, Holding, None
<1>2. /\ job' \in [Procs -> Jobs]
      /\ \A q \in Procs \ {c} : job'[q] = job[q]
      /\ job[c].at = "deliver"
      /\ r.at = "idle"
      /\ r.app = None
  BY <1>1, Goes, Finishes DEF Deliver, At, Steps
<1>3. UNCHANGED <<guild, baseline, lastId, status, pending, signature, votes, lastDecided, enabled, promoted, adopted, doubled, cut, torn, edits, setbacks>>
  BY DEF Deliver, Plain, Setback, approvals, history
<1>4. live' = live \cup {job[c].app}
  BY <1>1 DEF Deliver
<1>5. delivered' = delivered \cup {job[c].app}
  BY <1>1 DEF Deliver
<1>6. TypeOK'  BY <1>1, <1>2, <1>3, <1>4, <1>5 DEF TypeOK
<1>7. HandsKnown'  BY <1>1, <1>2, <1>3, <1>4, <1>5 DEF HandsKnown, FreshUntouched, ClickSteps, Holding, At, None
<1>8. IdsLeft'  BY <1>1, <1>2, <1>3, <1>4, <1>5 DEF IdsLeft, Asking
<1>9. FreshUntouched'  BY <1>1, <1>2, <1>3, <1>4, <1>5 DEF FreshUntouched, HandsKnown
<1>10. ClicksLive'  BY <1>1, <1>2, <1>3, <1>4, <1>5 DEF ClicksLive, HandsKnown
<1>11. ClicksInOrder'  BY <1>1, <1>2, <1>3, <1>4, <1>5 DEF ClicksInOrder, HandsKnown, ClickSteps, Holding, At
<1>12. VotesEnough'  BY <1>1, <1>2, <1>3, <1>4, <1>5 DEF VotesEnough, ClicksInOrder, At
<1>13. PromotedApproved'  BY <1>1, <1>2, <1>3, <1>4, <1>5 DEF PromotedApproved, FreshUntouched, ClicksInOrder, At
<1>14. PromotionAccounted'  BY <1>1, <1>2, <1>3, <1>4, <1>5 DEF PromotionAccounted, HandsKnown, ClickSteps, At
<1>15. CyclesApart'  BY <1>1, <1>2, <1>3, <1>4, <1>5 DEF CyclesApart, HandsKnown, Holding
<1>16. AdoptionAlone'  BY <1>1, <1>2, <1>3, <1>4, <1>5 DEF AdoptionAlone, CyclesApart, ClicksLive, HandsKnown, Holding, ClickSteps, At
<1>17. AdoptionAccounted'  BY <1>1, <1>2, <1>3, <1>4, <1>5 DEF AdoptionAccounted, FreshUntouched, AdoptionAlone, HandsKnown, Holding, ClickSteps, At
<1>. QED  BY <1>6, <1>7, <1>8, <1>9, <1>10, <1>11, <1>12, <1>13, <1>14, <1>15, <1>16, <1>17 DEF IInv

\* An adoption begins.
LEMMA AdoptReadKeeps ==
    ASSUME IInv, NEW c \in Cycles, AdoptRead(c)
    PROVE  IInv'
<1>. USE Shapes, Processes DEF IInv
<1>. DEFINE r == job'[c]
<1>1. /\ job' \in [Procs -> Jobs]
      /\ \A q \in Procs \ {c} : job'[q] = job[q]
      /\ job[c].at = "adopt"
      /\ \/ r.at = "adoptStore" /\ r.app = job[c].app /\ status[r.app] = "pending"
         \/ r.at = "idle" /\ r.app = None
  BY Goes, Finishes DEF AdoptRead, At, Steps
<1>2. UNCHANGED <<guild, baseline, lastId, status, pending, signature, votes, delivered, lastDecided, enabled, live, promoted, adopted, doubled, cut, torn, edits, setbacks>>
  BY DEF AdoptRead, Plain, Setback, approvals, history
<1>3. TypeOK'  BY <1>1, <1>2 DEF TypeOK
<1>4. HandsKnown'  BY <1>1, <1>2 DEF HandsKnown, FreshUntouched, ClickSteps, Holding, At, None
<1>5. IdsLeft'  BY <1>1, <1>2 DEF IdsLeft, Asking
<1>6. FreshUntouched'  BY <1>1, <1>2 DEF FreshUntouched, HandsKnown
<1>7. ClicksLive'  BY <1>1, <1>2 DEF ClicksLive, HandsKnown
<1>8. ClicksInOrder'  BY <1>1, <1>2 DEF ClicksInOrder, HandsKnown, ClickSteps, Holding, At
<1>9. VotesEnough'  BY <1>1, <1>2 DEF VotesEnough, ClicksInOrder, At
<1>10. PromotedApproved'  BY <1>1, <1>2 DEF PromotedApproved, FreshUntouched, ClicksInOrder, At
<1>11. PromotionAccounted'  BY <1>1, <1>2 DEF PromotionAccounted, HandsKnown, ClickSteps, At
<1>12. CyclesApart'  BY <1>1, <1>2 DEF CyclesApart, HandsKnown, Holding
<1>13. AdoptionAlone'  BY <1>1, <1>2 DEF AdoptionAlone, CyclesApart, ClicksLive, HandsKnown, Holding, ClickSteps, At
<1>14. AdoptionAccounted'  BY <1>1, <1>2 DEF AdoptionAccounted, FreshUntouched, AdoptionAlone, HandsKnown, Holding, ClickSteps, At
<1>. QED  BY <1>3, <1>4, <1>5, <1>6, <1>7, <1>8, <1>9, <1>10, <1>11, <1>12, <1>13, <1>14 DEF IInv

\* An adoption stores the snapshot.
LEMMA AdoptStoreKeeps ==
    ASSUME IInv, NEW c \in Cycles, AdoptStore(c)
    PROVE  IInv'
<1>. USE Shapes, Processes DEF IInv
<1>. DEFINE r == job'[c]
<1>1. job[c].app \in ApprovalIds  BY Shapes, Processes DEF IInv, AdoptStore, At, HandsKnown, Holding, None
<1>2. /\ job' \in [Procs -> Jobs]
      /\ \A q \in Procs \ {c} : job'[q] = job[q]
      /\ job[c].at = "adoptStore"
      /\ r.at = "adoptFinal"
      /\ r.app = job[c].app
  BY <1>1, Goes, Finishes DEF AdoptStore, At, Steps
<1>3. UNCHANGED <<guild, lastId, status, pending, signature, votes, delivered, lastDecided, enabled, live, promoted, doubled, cut, torn, edits, setbacks>>
  BY DEF AdoptStore, Plain, Setback, approvals, history
<1>4. baseline' = pending[job[c].app]
  BY <1>1 DEF AdoptStore
<1>5. adopted' = adopted \cup {job[c].app}
  BY <1>1 DEF AdoptStore
<1>6. TypeOK'  BY <1>1, <1>2, <1>3, <1>4, <1>5 DEF TypeOK
<1>7. HandsKnown'  BY <1>1, <1>2, <1>3, <1>4, <1>5 DEF HandsKnown, FreshUntouched, ClickSteps, Holding, At, None
<1>8. IdsLeft'  BY <1>1, <1>2, <1>3, <1>4, <1>5 DEF IdsLeft, Asking
<1>9. FreshUntouched'  BY <1>1, <1>2, <1>3, <1>4, <1>5 DEF FreshUntouched, HandsKnown
<1>10. ClicksLive'  BY <1>1, <1>2, <1>3, <1>4, <1>5 DEF ClicksLive, HandsKnown
<1>11. ClicksInOrder'  BY <1>1, <1>2, <1>3, <1>4, <1>5 DEF ClicksInOrder, HandsKnown, ClickSteps, Holding, At
<1>12. VotesEnough'  BY <1>1, <1>2, <1>3, <1>4, <1>5 DEF VotesEnough, ClicksInOrder, At
<1>13. PromotedApproved'  BY <1>1, <1>2, <1>3, <1>4, <1>5 DEF PromotedApproved, FreshUntouched, ClicksInOrder, At
<1>14. PromotionAccounted'  BY <1>1, <1>2, <1>3, <1>4, <1>5 DEF PromotionAccounted, HandsKnown, ClickSteps, At
<1>15. CyclesApart'  BY <1>1, <1>2, <1>3, <1>4, <1>5 DEF CyclesApart, HandsKnown, Holding
<1>16. AdoptionAlone'  BY <1>1, <1>2, <1>3, <1>4, <1>5 DEF AdoptionAlone, CyclesApart, ClicksLive, HandsKnown, Holding, ClickSteps, At
<1>17. AdoptionAccounted'  BY <1>1, <1>2, <1>3, <1>4, <1>5 DEF AdoptionAccounted, FreshUntouched, AdoptionAlone, HandsKnown, Holding, ClickSteps, At
<1>. QED  BY <1>6, <1>7, <1>8, <1>9, <1>10, <1>11, <1>12, <1>13, <1>14, <1>15, <1>16, <1>17 DEF IInv

\* An adoption decides.
LEMMA AdoptFinalKeeps ==
    ASSUME IInv, NEW c \in Cycles, AdoptFinal(c)
    PROVE  IInv'
<1>. USE Shapes, Processes DEF IInv
<1>. DEFINE r == job'[c]
<1>1. job[c].app \in ApprovalIds  BY Shapes, Processes DEF IInv, AdoptFinal, At, HandsKnown, Holding, None
<1>2. /\ job' \in [Procs -> Jobs]
      /\ \A q \in Procs \ {c} : job'[q] = job[q]
      /\ job[c].at = "adoptFinal"
      /\ r.at = "idle"
      /\ r.app = None
  BY <1>1, Goes, Finishes DEF AdoptFinal, At, Steps
<1>3. UNCHANGED <<guild, baseline, lastId, pending, signature, votes, delivered, enabled, live, promoted, adopted, doubled, cut, torn, edits, setbacks>>
  BY DEF AdoptFinal, Plain, Setback, approvals, history
<1>4. IF status[job[c].app] = "pending"
       THEN status' = [status EXCEPT ![job[c].app] = "superseded"] /\ lastDecided' = job[c].app
       ELSE UNCHANGED <<status, lastDecided>>
  BY <1>1 DEF AdoptFinal, Finalize, MayFinalize, Superseded
<1>5. lastDecided' \in ApprovalIds \cup {None}
  BY <1>1 DEF AdoptFinal, Finalize, TypeOK
<1>6. TypeOK'  BY <1>1, <1>2, <1>3, <1>4, <1>5 DEF TypeOK
<1>7. HandsKnown'  BY <1>1, <1>2, <1>3, <1>4, <1>5 DEF HandsKnown, FreshUntouched, ClickSteps, Holding, At, None
<1>8. IdsLeft'  BY <1>1, <1>2, <1>3, <1>4, <1>5 DEF IdsLeft, Asking
<1>9. FreshUntouched'  BY <1>1, <1>2, <1>3, <1>4, <1>5 DEF FreshUntouched, HandsKnown
<1>10. ClicksLive'  BY <1>1, <1>2, <1>3, <1>4, <1>5 DEF ClicksLive, HandsKnown
<1>11. ClicksInOrder'  BY <1>1, <1>2, <1>3, <1>4, <1>5 DEF ClicksInOrder, HandsKnown, ClickSteps, Holding, At
<1>12. VotesEnough'  BY <1>1, <1>2, <1>3, <1>4, <1>5 DEF VotesEnough, ClicksInOrder, At
<1>13. PromotedApproved'  BY <1>1, <1>2, <1>3, <1>4, <1>5 DEF PromotedApproved, FreshUntouched, ClicksInOrder, At
<1>14. PromotionAccounted'  BY <1>1, <1>2, <1>3, <1>4, <1>5 DEF PromotionAccounted, HandsKnown, ClickSteps, At
<1>15. CyclesApart'  BY <1>1, <1>2, <1>3, <1>4, <1>5 DEF CyclesApart, HandsKnown, Holding
<1>16. AdoptionAlone'  BY <1>1, <1>2, <1>3, <1>4, <1>5 DEF AdoptionAlone, CyclesApart, ClicksLive, HandsKnown, Holding, ClickSteps, At
<1>17. AdoptionAccounted'  BY <1>1, <1>2, <1>3, <1>4, <1>5 DEF AdoptionAccounted, FreshUntouched, AdoptionAlone, HandsKnown, Holding, ClickSteps, At
<1>. QED  BY <1>6, <1>7, <1>8, <1>9, <1>10, <1>11, <1>12, <1>13, <1>14, <1>15, <1>16, <1>17 DEF IInv

\* A moderator clicks.
LEMMA ClickKeeps ==
    ASSUME IInv, NEW k \in Clicks, NEW a \in ApprovalIds, NEW m \in Moderators, Click(k, a, m)
    PROVE  IInv'
<1>. DEFINE r == job'[k]
<1>1. /\ job' \in [Procs -> Jobs]
      /\ \A q \in Procs \ {k} : job'[q] = job[q]
      /\ job[k].at = "idle"
      /\ a \in live /\ status[a] = "pending"
      /\ r.app = a
      /\ \/ r.at = "vote" /\ r.by = m
         \/ r.at = "reject"
  <2>0. /\ job[k].at = "idle" /\ k \in Procs /\ {"vote", "reject"} \subseteq Steps
        /\ a \in live /\ status[a] = "pending"
    BY Processes DEF Click, At, Steps
  <2>1. CASE job' = [job EXCEPT ![k] = [Idle EXCEPT !.at = "vote", !.app = a, !.by = m]]
    <3>1. /\ job' \in [Procs -> Jobs] /\ r.at = "vote" /\ r.app = a /\ r.by = m
          /\ \A q \in Procs \ {k} : job'[q] = job[q]
      BY <2>0, <2>1, TakesFor
    <3>. QED  BY <2>0, <3>1
  <2>2. CASE job' = [job EXCEPT ![k] = [Idle EXCEPT !.at = "reject", !.app = a]]
    <3>1. /\ job' \in [Procs -> Jobs] /\ r.at = "reject" /\ r.app = a
          /\ \A q \in Procs \ {k} : job'[q] = job[q]
      BY <2>0, <2>2, Takes
    <3>. QED  BY <2>0, <3>1
  <2>. QED  BY <2>1, <2>2 DEF Click
<1>. USE Shapes, Processes DEF IInv
<1>2. UNCHANGED <<guild, baseline, lastId, status, pending, signature, votes, delivered, lastDecided, enabled, live, promoted, adopted, doubled, cut, torn, edits, setbacks>>
  BY DEF Click, Plain, Setback, approvals, history
<1>3. TypeOK'  BY <1>1, <1>2 DEF TypeOK
<1>4. HandsKnown'  BY <1>1, <1>2 DEF HandsKnown, FreshUntouched, ClickSteps, Holding, At, None
<1>5. IdsLeft'  BY <1>1, <1>2 DEF IdsLeft, Asking
<1>6. FreshUntouched'  BY <1>1, <1>2 DEF FreshUntouched, HandsKnown
<1>7. ClicksLive'  BY <1>1, <1>2 DEF ClicksLive, HandsKnown
<1>8. ClicksInOrder'  BY <1>1, <1>2 DEF ClicksInOrder, HandsKnown, ClickSteps, Holding, At
<1>9. VotesEnough'  BY <1>1, <1>2 DEF VotesEnough, ClicksInOrder, At
<1>10. PromotedApproved'  BY <1>1, <1>2 DEF PromotedApproved, FreshUntouched, ClicksInOrder, At
<1>11. PromotionAccounted'  BY <1>1, <1>2 DEF PromotionAccounted, HandsKnown, ClickSteps, At
<1>12. CyclesApart'  BY <1>1, <1>2 DEF CyclesApart, HandsKnown, Holding
<1>13. AdoptionAlone'  BY <1>1, <1>2 DEF AdoptionAlone, CyclesApart, ClicksLive, HandsKnown, Holding, ClickSteps, At
<1>14. AdoptionAccounted'  BY <1>1, <1>2 DEF AdoptionAccounted, FreshUntouched, AdoptionAlone, HandsKnown, Holding, ClickSteps, At
<1>. QED  BY <1>3, <1>4, <1>5, <1>6, <1>7, <1>8, <1>9, <1>10, <1>11, <1>12, <1>13, <1>14 DEF IInv

\* An approver is added.
LEMMA VoteKeeps ==
    ASSUME IInv, NEW k \in Clicks, Vote(k)
    PROVE  IInv'
<1>. DEFINE r == job'[k]
<1>1. job[k].app \in ApprovalIds  BY Shapes, Processes DEF IInv, Vote, At, HandsKnown, Holding, None
<1>2. /\ job' \in [Procs -> Jobs]
      /\ \A q \in Procs \ {k} : job'[q] = job[q]
      /\ job[k].at = "vote"
      /\ job[k].by \in Moderators
      /\ \/ r.at = "claim" /\ r.app = job[k].app /\ Cardinality(votes'[r.app]) >= RequiredApprovals
         \/ r.at = "idle" /\ r.app = None
  <2>0. /\ job[k].at = "vote" /\ k \in Procs /\ "claim" \in Steps /\ job[k].by \in Moderators
        /\ votes \in [ApprovalIds -> SUBSET Moderators]
    BY Shapes, Processes DEF IInv, Vote, At, HandsKnown, Steps
  <2>1. CASE Ends(k)
    <3>1. /\ job' \in [Procs -> Jobs] /\ r.at = "idle" /\ r.app = None
          /\ \A q \in Procs \ {k} : job'[q] = job[q]
      BY <2>0, <2>1, Finishes
    <3>. QED  BY <2>0, <3>1
  <2>2. CASE /\ Goto(k, "claim") /\ votes' = [votes EXCEPT ![job[k].app] = votes[job[k].app] \cup {job[k].by}]
             /\ Enough(votes[job[k].app] \cup {job[k].by})
    <3>1. /\ job' \in [Procs -> Jobs] /\ r.at = "claim" /\ r.app = job[k].app
          /\ \A q \in Procs \ {k} : job'[q] = job[q]
      BY <2>0, <2>2, Goes
    <3>2. votes'[job[k].app] = votes[job[k].app] \cup {job[k].by}  BY <1>1, <2>0, <2>2
    <3>3. Cardinality(votes'[job[k].app]) >= RequiredApprovals  BY <2>2, <3>2 DEF Enough
    <3>4. votes'[r.app] = votes'[job[k].app]  BY <3>1
    <3>. QED  BY <2>0, <3>1, <3>3, <3>4
  <2>. QED  BY <2>1, <2>2 DEF Vote
<1>. USE Shapes, Processes DEF IInv
<1>3. UNCHANGED <<guild, baseline, lastId, status, pending, signature, delivered, lastDecided, enabled, live, promoted, adopted, doubled, cut, torn, edits, setbacks>>
  BY DEF Vote, Plain, Setback, approvals, history
<1>4. votes' = votes \/ votes' = [votes EXCEPT ![job[k].app] = @ \cup {job[k].by}]
  BY <1>1 DEF Vote
<1>5. \A a \in ApprovalIds : /\ Cardinality(votes'[a]) \in Nat /\ Cardinality(votes[a]) \in Nat
                               /\ Cardinality(votes[a]) <= Cardinality(votes'[a])
  <2>1. \A a \in ApprovalIds : votes[a] \subseteq votes'[a] /\ votes'[a] \subseteq Moderators  BY <1>2, <1>4
  <2>. QED  BY <2>1, FS_Subset, FS_CardinalityType
<1>6. TypeOK'  BY <1>1, <1>2, <1>3, <1>4, <1>5 DEF TypeOK
<1>7. HandsKnown'  BY <1>1, <1>2, <1>3, <1>4, <1>5 DEF HandsKnown, FreshUntouched, ClickSteps, Holding, At, None
<1>8. IdsLeft'  BY <1>1, <1>2, <1>3, <1>4, <1>5 DEF IdsLeft, Asking
<1>9. FreshUntouched'  BY <1>1, <1>2, <1>3, <1>4, <1>5 DEF FreshUntouched, HandsKnown
<1>10. ClicksLive'  BY <1>1, <1>2, <1>3, <1>4, <1>5 DEF ClicksLive, HandsKnown
<1>11. ClicksInOrder'  BY <1>1, <1>2, <1>3, <1>4, <1>5 DEF ClicksInOrder, HandsKnown, ClickSteps, Holding, At
<1>12. VotesEnough'  BY <1>1, <1>2, <1>3, <1>4, <1>5 DEF VotesEnough, ClicksInOrder, At
<1>13. PromotedApproved'  BY <1>1, <1>2, <1>3, <1>4, <1>5 DEF PromotedApproved, FreshUntouched, ClicksInOrder, At
<1>14. PromotionAccounted'  BY <1>1, <1>2, <1>3, <1>4, <1>5 DEF PromotionAccounted, HandsKnown, ClickSteps, At
<1>15. CyclesApart'  BY <1>1, <1>2, <1>3, <1>4, <1>5 DEF CyclesApart, HandsKnown, Holding
<1>16. AdoptionAlone'  BY <1>1, <1>2, <1>3, <1>4, <1>5 DEF AdoptionAlone, CyclesApart, ClicksLive, HandsKnown, Holding, ClickSteps, At
<1>17. AdoptionAccounted'  BY <1>1, <1>2, <1>3, <1>4, <1>5 DEF AdoptionAccounted, FreshUntouched, AdoptionAlone, HandsKnown, Holding, ClickSteps, At
<1>. QED  BY <1>6, <1>7, <1>8, <1>9, <1>10, <1>11, <1>12, <1>13, <1>14, <1>15, <1>16, <1>17 DEF IInv

\* An approval is claimed.
LEMMA ClaimKeeps ==
    ASSUME IInv, NEW k \in Clicks, Claim(k)
    PROVE  IInv'
<1>. USE Shapes, Processes DEF IInv
<1>. DEFINE r == job'[k]
<1>1. job[k].app \in ApprovalIds  BY Shapes, Processes DEF IInv, Claim, At, HandsKnown, Holding, None
<1>2. /\ job' \in [Procs -> Jobs]
      /\ \A q \in Procs \ {k} : job'[q] = job[q]
      /\ job[k].at = "claim"
      /\ \/ r.at = "promote" /\ r.app = job[k].app /\ status[r.app] = "pending"
         \/ r.at = "idle" /\ r.app = None /\ status[job[k].app] # "pending"
  BY <1>1, Goes, Finishes DEF Claim, At, Steps, MayFinalize
<1>3. UNCHANGED <<guild, baseline, lastId, pending, signature, votes, delivered, enabled, live, promoted, adopted, doubled, cut, torn, edits, setbacks>>
  BY DEF Claim, Plain, Setback, approvals, history
<1>4. IF status[job[k].app] = "pending"
       THEN status' = [status EXCEPT ![job[k].app] = "approved"] /\ lastDecided' = job[k].app
       ELSE UNCHANGED <<status, lastDecided>>
  BY <1>1 DEF Claim, Finalize, MayFinalize
<1>5. lastDecided' \in ApprovalIds \cup {None}
  BY <1>1 DEF Claim, Finalize, TypeOK
<1>6. TypeOK'  BY <1>1, <1>2, <1>3, <1>4, <1>5 DEF TypeOK
<1>7. HandsKnown'  BY <1>1, <1>2, <1>3, <1>4, <1>5 DEF HandsKnown, FreshUntouched, ClickSteps, Holding, At, None
<1>8. IdsLeft'  BY <1>1, <1>2, <1>3, <1>4, <1>5 DEF IdsLeft, Asking
<1>9. FreshUntouched'  BY <1>1, <1>2, <1>3, <1>4, <1>5 DEF FreshUntouched, HandsKnown
<1>10. ClicksLive'  BY <1>1, <1>2, <1>3, <1>4, <1>5 DEF ClicksLive, HandsKnown
<1>11. ClicksInOrder'  BY <1>1, <1>2, <1>3, <1>4, <1>5 DEF ClicksInOrder, HandsKnown, ClickSteps, Holding, At
<1>12. VotesEnough'  BY <1>1, <1>2, <1>3, <1>4, <1>5 DEF VotesEnough, ClicksInOrder, At
<1>13. PromotedApproved'  BY <1>1, <1>2, <1>3, <1>4, <1>5 DEF PromotedApproved, FreshUntouched, ClicksInOrder, At
<1>14. PromotionAccounted'  BY <1>1, <1>2, <1>3, <1>4, <1>5 DEF PromotionAccounted, HandsKnown, ClickSteps, At
<1>15. CyclesApart'  BY <1>1, <1>2, <1>3, <1>4, <1>5 DEF CyclesApart, HandsKnown, Holding
<1>16. AdoptionAlone'  BY <1>1, <1>2, <1>3, <1>4, <1>5 DEF AdoptionAlone, CyclesApart, ClicksLive, HandsKnown, Holding, ClickSteps, At
<1>17. AdoptionAccounted'  BY <1>1, <1>2, <1>3, <1>4, <1>5 DEF AdoptionAccounted, FreshUntouched, AdoptionAlone, HandsKnown, Holding, ClickSteps, At
<1>. QED  BY <1>6, <1>7, <1>8, <1>9, <1>10, <1>11, <1>12, <1>13, <1>14, <1>15, <1>16, <1>17 DEF IInv

\* A snapshot is promoted.
LEMMA PromoteKeeps ==
    ASSUME IInv, NEW k \in Clicks, Promote(k)
    PROVE  IInv'
<1>. USE Shapes, Processes DEF IInv
<1>. DEFINE r == job'[k]
<1>1. job[k].app \in ApprovalIds  BY Shapes, Processes DEF IInv, Promote, At, HandsKnown, Holding, None
<1>2. /\ job' \in [Procs -> Jobs]
      /\ \A q \in Procs \ {k} : job'[q] = job[q]
      /\ job[k].at = "promote"
      /\ r.at = "idle"
      /\ r.app = None
  BY <1>1, Goes, Finishes DEF Promote, At, Steps
<1>3. UNCHANGED <<guild, lastId, status, pending, signature, votes, delivered, lastDecided, enabled, live, adopted, doubled, cut, torn, edits, setbacks>>
  BY DEF Promote, Plain, Setback, approvals, history
<1>4. baseline' = pending[job[k].app]
  BY <1>1 DEF Promote
<1>5. promoted' = promoted \cup {job[k].app}
  BY <1>1 DEF Promote
<1>6. TypeOK'  BY <1>1, <1>2, <1>3, <1>4, <1>5 DEF TypeOK
<1>7. HandsKnown'  BY <1>1, <1>2, <1>3, <1>4, <1>5 DEF HandsKnown, FreshUntouched, ClickSteps, Holding, At, None
<1>8. IdsLeft'  BY <1>1, <1>2, <1>3, <1>4, <1>5 DEF IdsLeft, Asking
<1>9. FreshUntouched'  BY <1>1, <1>2, <1>3, <1>4, <1>5 DEF FreshUntouched, HandsKnown
<1>10. ClicksLive'  BY <1>1, <1>2, <1>3, <1>4, <1>5 DEF ClicksLive, HandsKnown
<1>11. ClicksInOrder'  BY <1>1, <1>2, <1>3, <1>4, <1>5 DEF ClicksInOrder, HandsKnown, ClickSteps, Holding, At
<1>12. VotesEnough'  BY <1>1, <1>2, <1>3, <1>4, <1>5 DEF VotesEnough, ClicksInOrder, At
<1>13. PromotedApproved'  BY <1>1, <1>2, <1>3, <1>4, <1>5 DEF PromotedApproved, FreshUntouched, ClicksInOrder, At
<1>14. PromotionAccounted'  BY <1>1, <1>2, <1>3, <1>4, <1>5 DEF PromotionAccounted, HandsKnown, ClickSteps, At
<1>15. CyclesApart'  BY <1>1, <1>2, <1>3, <1>4, <1>5 DEF CyclesApart, HandsKnown, Holding
<1>16. AdoptionAlone'  BY <1>1, <1>2, <1>3, <1>4, <1>5 DEF AdoptionAlone, CyclesApart, ClicksLive, HandsKnown, Holding, ClickSteps, At
<1>17. AdoptionAccounted'  BY <1>1, <1>2, <1>3, <1>4, <1>5 DEF AdoptionAccounted, FreshUntouched, AdoptionAlone, HandsKnown, Holding, ClickSteps, At
<1>. QED  BY <1>6, <1>7, <1>8, <1>9, <1>10, <1>11, <1>12, <1>13, <1>14, <1>15, <1>16, <1>17 DEF IInv

\* An approval is rejected.
LEMMA RejectKeeps ==
    ASSUME IInv, NEW k \in Clicks, Reject(k)
    PROVE  IInv'
<1>. USE Shapes, Processes DEF IInv
<1>. DEFINE r == job'[k]
<1>1. job[k].app \in ApprovalIds  BY Shapes, Processes DEF IInv, Reject, At, HandsKnown, Holding, None
<1>2. /\ job' \in [Procs -> Jobs]
      /\ \A q \in Procs \ {k} : job'[q] = job[q]
      /\ job[k].at = "reject"
      /\ r.at = "idle"
      /\ r.app = None
  BY <1>1, Goes, Finishes DEF Reject, At, Steps
<1>3. UNCHANGED <<guild, baseline, lastId, pending, signature, votes, delivered, enabled, live, promoted, adopted, doubled, cut, torn, edits, setbacks>>
  BY DEF Reject, Plain, Setback, approvals, history
<1>4. IF status[job[k].app] = "pending"
       THEN status' = [status EXCEPT ![job[k].app] = "rejected"] /\ lastDecided' = job[k].app
       ELSE UNCHANGED <<status, lastDecided>>
  BY <1>1 DEF Reject, Finalize, MayFinalize
<1>5. lastDecided' \in ApprovalIds \cup {None}
  BY <1>1 DEF Reject, Finalize, TypeOK
<1>6. TypeOK'  BY <1>1, <1>2, <1>3, <1>4, <1>5 DEF TypeOK
<1>7. HandsKnown'  BY <1>1, <1>2, <1>3, <1>4, <1>5 DEF HandsKnown, FreshUntouched, ClickSteps, Holding, At, None
<1>8. IdsLeft'  BY <1>1, <1>2, <1>3, <1>4, <1>5 DEF IdsLeft, Asking
<1>9. FreshUntouched'  BY <1>1, <1>2, <1>3, <1>4, <1>5 DEF FreshUntouched, HandsKnown
<1>10. ClicksLive'  BY <1>1, <1>2, <1>3, <1>4, <1>5 DEF ClicksLive, HandsKnown
<1>11. ClicksInOrder'  BY <1>1, <1>2, <1>3, <1>4, <1>5 DEF ClicksInOrder, HandsKnown, ClickSteps, Holding, At
<1>12. VotesEnough'  BY <1>1, <1>2, <1>3, <1>4, <1>5 DEF VotesEnough, ClicksInOrder, At
<1>13. PromotedApproved'  BY <1>1, <1>2, <1>3, <1>4, <1>5 DEF PromotedApproved, FreshUntouched, ClicksInOrder, At
<1>14. PromotionAccounted'  BY <1>1, <1>2, <1>3, <1>4, <1>5 DEF PromotionAccounted, HandsKnown, ClickSteps, At
<1>15. CyclesApart'  BY <1>1, <1>2, <1>3, <1>4, <1>5 DEF CyclesApart, HandsKnown, Holding
<1>16. AdoptionAlone'  BY <1>1, <1>2, <1>3, <1>4, <1>5 DEF AdoptionAlone, CyclesApart, ClicksLive, HandsKnown, Holding, ClickSteps, At
<1>17. AdoptionAccounted'  BY <1>1, <1>2, <1>3, <1>4, <1>5 DEF AdoptionAccounted, FreshUntouched, AdoptionAlone, HandsKnown, Holding, ClickSteps, At
<1>. QED  BY <1>6, <1>7, <1>8, <1>9, <1>10, <1>11, <1>12, <1>13, <1>14, <1>15, <1>16, <1>17 DEF IInv

\* The guild changes, or the system is switched.
LEMMA WorldKeeps ==
    ASSUME IInv, Edit \/ SetEnabled
    PROVE  IInv'
<1>1. UNCHANGED <<baseline, approvals, live, job, history>>
  BY DEF Edit, SetEnabled
<1>2. guild' \in Structures /\ enabled' \in BOOLEAN /\ edits' \in Nat /\ setbacks' \in Nat
  <2>1. CASE Edit  BY <2>1 DEF Edit, IInv, TypeOK
  <2>2. CASE SetEnabled
    <3>1. enabled' \in BOOLEAN  BY <2>2 DEF SetEnabled
    <3>2. guild' \in Structures /\ edits' \in Nat /\ setbacks' \in Nat
      BY <2>2 DEF SetEnabled, Setback, IInv, TypeOK
    <3>. QED  BY <3>1, <3>2
  <2>. QED  BY <2>1, <2>2
<1>3. TypeOK'  BY <1>1, <1>2 DEF IInv, TypeOK, approvals, history
<1>. QED
  BY <1>1, <1>3 DEF IInv, HandsKnown, IdsLeft, FreshUntouched, ClicksLive, ClicksInOrder, VotesEnough,
     PromotedApproved, PromotionAccounted, CyclesApart, AdoptionAlone, AdoptionAccounted,
     At, approvals, history

\* An exception.
LEMMA RaiseKeeps ==
    ASSUME IInv, NEW p \in Procs, Raise(p)
    PROVE  IInv'
<1>. USE Shapes, Processes DEF IInv
<1>. DEFINE r == job'[p]
<1>1. /\ job' \in [Procs -> Jobs]
      /\ \A q \in Procs \ {p} : job'[q] = job[q]
      /\ job[p].at # "idle"
      /\ r.at = "idle"
      /\ r.app = None
  BY Goes, Finishes DEF Raise, At, Steps
<1>2. UNCHANGED <<guild, baseline, lastId, status, pending, signature, votes, delivered, lastDecided, enabled, live, promoted, adopted, doubled, edits>>
  BY DEF Raise, Plain, Setback, approvals, history
<1>3. setbacks' = setbacks + 1
  BY DEF Raise, Setback
<1>4. cut' = cut \cup {job[q].app : q \in {x \in {p} : job[x].at = "promote"}}
  BY DEF Raise, CutShort, HeldAt, At
<1>5. torn' = torn \cup {job[q].app : q \in {x \in {p} : job[x].at = "adoptFinal"}}
  BY DEF Raise, CutShort, HeldAt, At
<1>6. TypeOK'  BY <1>1, <1>2, <1>3, <1>4, <1>5 DEF TypeOK, HandsKnown, Holding
<1>7. HandsKnown'  BY <1>1, <1>2, <1>3, <1>4, <1>5 DEF HandsKnown, FreshUntouched, ClickSteps, Holding, At, None
<1>8. IdsLeft'  BY <1>1, <1>2, <1>3, <1>4, <1>5 DEF IdsLeft, Asking
<1>9. FreshUntouched'  BY <1>1, <1>2, <1>3, <1>4, <1>5 DEF FreshUntouched, HandsKnown
<1>10. ClicksLive'  BY <1>1, <1>2, <1>3, <1>4, <1>5 DEF ClicksLive, HandsKnown
<1>11. ClicksInOrder'  BY <1>1, <1>2, <1>3, <1>4, <1>5 DEF ClicksInOrder, HandsKnown, ClickSteps, Holding, At
<1>12. VotesEnough'  BY <1>1, <1>2, <1>3, <1>4, <1>5 DEF VotesEnough, ClicksInOrder, At
<1>13. PromotedApproved'  BY <1>1, <1>2, <1>3, <1>4, <1>5 DEF PromotedApproved, FreshUntouched, ClicksInOrder, At
<1>14. PromotionAccounted'  BY <1>1, <1>2, <1>3, <1>4, <1>5 DEF PromotionAccounted, HandsKnown, ClickSteps, At
<1>15. CyclesApart'  BY <1>1, <1>2, <1>3, <1>4, <1>5 DEF CyclesApart, HandsKnown, Holding
<1>16. AdoptionAlone'  BY <1>1, <1>2, <1>3, <1>4, <1>5 DEF AdoptionAlone, CyclesApart, ClicksLive, HandsKnown, Holding, ClickSteps, At
<1>17. AdoptionAccounted'  BY <1>1, <1>2, <1>3, <1>4, <1>5 DEF AdoptionAccounted, FreshUntouched, AdoptionAlone, HandsKnown, Holding, ClickSteps, At
<1>. QED  BY <1>6, <1>7, <1>8, <1>9, <1>10, <1>11, <1>12, <1>13, <1>14, <1>15, <1>16, <1>17 DEF IInv

\* The bot stops and starts.
LEMMA BotCrashKeeps ==
    ASSUME IInv, BotCrash
    PROVE  IInv'
<1>. USE Shapes, Processes DEF IInv
<1>1. /\ job' \in [Procs -> Jobs]
      /\ \A p \in Procs : job'[p].at = "idle" /\ job'[p].app = None
  BY IdleType DEF BotCrash, Idle
<1>2. /\ UNCHANGED <<guild, baseline, approvals, enabled, promoted, adopted, doubled, edits>>
      /\ live' \subseteq ApprovalIds /\ setbacks' \in Nat
  BY DEF BotCrash, Pending, Setback, TypeOK
<1>3. /\ cut \subseteq cut'
      /\ \A k \in Clicks : At(k, "promote") => job[k].app \in cut'
      /\ torn \subseteq torn'
      /\ \A c \in Cycles : At(c, "adoptFinal") => job[c].app \in torn'
  BY DEF BotCrash, CutShort, HeldAt
<1>4. cut' \subseteq ApprovalIds /\ torn' \subseteq ApprovalIds
  BY DEF BotCrash, CutShort, HeldAt, At, HandsKnown, Holding, TypeOK
<1>5. TypeOK'  BY <1>1, <1>2, <1>4 DEF TypeOK, approvals
<1>6. HandsKnown'  BY <1>1, <1>2 DEF HandsKnown, ClickSteps, Holding, At, None, approvals
<1>7. IdsLeft'  BY <1>1, <1>2 DEF IdsLeft, Asking, Cycles
<1>8. FreshUntouched' /\ ClicksLive' /\ ClicksInOrder'
  BY <1>1, <1>2 DEF FreshUntouched, ClicksLive, ClicksInOrder, At, approvals
<1>9. VotesEnough' /\ PromotedApproved'
  BY <1>2 DEF VotesEnough, PromotedApproved, approvals
<1>10. PromotionAccounted'  BY <1>2, <1>3 DEF PromotionAccounted, approvals
<1>11. CyclesApart' /\ AdoptionAlone'  BY <1>1 DEF CyclesApart, AdoptionAlone
<1>12. AdoptionAccounted'  BY <1>2, <1>3 DEF AdoptionAccounted, approvals
<1>. QED  BY <1>5, <1>6, <1>7, <1>8, <1>9, <1>10, <1>11, <1>12 DEF IInv


LEMMA StepKeeps == IInv /\ [Next]_vars => IInv'
<1>. SUFFICES ASSUME IInv, [Next]_vars PROVE IInv'
  OBVIOUS
<1>1. ASSUME NEW c \in Cycles, CycleStep(c) PROVE IInv'
  BY <1>1, StartKeeps, ReadPendingKeeps, ReadBaselineKeeps, StoreKeeps, ReadDecidedKeeps, AskKeeps,
     PostKeeps, PostFailsKeeps, DeliverKeeps, AdoptReadKeeps, AdoptStoreKeeps, AdoptFinalKeeps
     DEF CycleStep
<1>2. ASSUME NEW k \in Clicks, ClickStep(k) PROVE IInv'
  BY <1>2, VoteKeeps, ClaimKeeps, PromoteKeeps, RejectKeeps DEF ClickStep
<1>3. ASSUME NEW k \in Clicks, NEW a \in ApprovalIds, NEW m \in Moderators, Click(k, a, m) PROVE IInv'
  BY <1>3, ClickKeeps
<1>4. CASE UNCHANGED vars
  BY <1>4 DEF vars, approvals, history, IInv, TypeOK, HandsKnown, IdsLeft, FreshUntouched, ClicksLive,
     ClicksInOrder, VotesEnough, PromotedApproved, PromotionAccounted, CyclesApart, AdoptionAlone,
     AdoptionAccounted, At
<1>. QED  BY <1>1, <1>2, <1>3, <1>4, WorldKeeps, BotCrashKeeps, RaiseKeeps DEF Next

THEOREM Invariance == Spec => []IInv
  BY InitIInv, StepKeeps, PTL DEF Spec

\* Every variable keeps its type; ids stay within their bound.
THEOREM TypeCorrect == Spec => []TypeOK
<1>1. IInv => TypeOK  BY DEF IInv
<1>. QED  BY <1>1, Invariance, PTL

\* What enough moderators approve becomes the baseline unless it was cut short,
\* and nothing else is promoted (register_approval).
THEOREM ApprovedIsPromotedCorrect == Spec => []ApprovedIsPromoted
<1>1. IInv => ApprovedIsPromoted
  BY DEF IInv, ApprovedIsPromoted, VotesEnough, PromotedApproved, PromotionAccounted, HeldAt
<1>. QED  BY <1>1, Invariance, PTL

\* A rejected change is never promoted, and adopted only where two cycles had
\* it in hand or an adoption was cut short (reject, force_adopt).
THEOREM RejectedIsKeptOutCorrect == Spec => []RejectedIsKeptOut
<1>1. IInv => RejectedIsKeptOut
  <2>. SUFFICES ASSUME IInv, NEW a \in ApprovalIds, status[a] = "rejected"
                PROVE  a \notin promoted /\ (a \in adopted => a \in doubled \cup torn)
    BY DEF RejectedIsKeptOut
  <2>1. a \notin promoted  BY DEF IInv, PromotedApproved
  <2>2. a \in adopted => a \in doubled \cup torn
    BY DEF IInv, AdoptionAccounted, AdoptionAlone, At
  <2>. QED  BY <2>1, <2>2
<1>. QED  BY <1>1, Invariance, PTL

=============================================================================

