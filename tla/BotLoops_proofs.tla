--------------------------- MODULE BotLoops_proofs ---------------------------
(***************************************************************************)
(* Proofs about what the bot's timed loops do once and for good: the       *)
(* wind-down with its final sequence (WindDown), for every set of          *)
(* recipients and every number of spawned runs, and the removal of         *)
(* inactive members (Inactivity), for all members, protected or not, every *)
(* number of events handled at the same time and all periods.              *)
(*                                                                         *)
(* For each, one lemma shows that the inductive invariant holds initially, *)
(* one for each group of actions that a step keeps it, and the theorems    *)
(* read the properties off it.  TLC has checked the invariants first.      *)
(***************************************************************************)
EXTENDS WindDown, Inactivity, TLAPS

-----------------------------------------------------------------------------
(***************************************************************************)
(* The wind-down.                                                          *)
(***************************************************************************)

LEMMA WindInitIInv == WindInit => WindIInv
<1>. SUFFICES ASSUME WindInit PROVE WindIInv
  OBVIOUS
<1>. USE RunnersAssumption, BoundsAssumption DEF WindInit
<1>a. "idle" \in PcStates  BY DEF PcStates
<1>b. pc \in [Runners -> PcStates]  BY <1>a
<1>c. cur \in [Runners -> Recipients \cup {NoRecipient}]  OBVIOUS
<1>d. /\ todo \in [Runners -> SUBSET Recipients]
      /\ empty \in [Runners -> BOOLEAN]
      /\ dms \in [Recipients -> Nat]
  OBVIOUS
<1>e. /\ clock \in 0..FinalPhase /\ phase \in 0..FinalPhase /\ target \in 0..FinalPhase
      /\ faults \in Nat /\ cutShort \in Nat /\ commands \in Nat
  BY DEF FinalPhase
<1>f. /\ flags \subseteq {"stats", "dms", "anonymised", "completed"}
      /\ reached \subseteq Recipients /\ hollow \subseteq Recipients
  OBVIOUS
<1>g. /\ auto \in BOOLEAN /\ erased \in BOOLEAN /\ lock \in BOOLEAN /\ forced \in BOOLEAN
  OBVIOUS
<1>1. WindTypeOK  BY ONLY <1>b, <1>c, <1>d, <1>e, <1>f, <1>g DEF WindTypeOK
<1>2. InHandKnown  BY DEF InHandKnown
<1>3. OneRun  BY DEF OneRun, Locking, DmStates
<1>4. StepsInOrder  BY DEF StepsInOrder, DmStates
<1>5. FarewellsCounted  BY DEF FarewellsCounted, DmStates
<1>6. EveryoneTried  BY DEF EveryoneTried, DmStates
<1>7. PhaseJustified  BY DEF PhaseJustified, Locking, DmStates, FinalPhase
<1>. QED  BY <1>1, <1>2, <1>3, <1>4, <1>5, <1>6, <1>7 DEF WindIInv

\* A step of the loop before it enters the sequence.
LEMMA LoopKeepsIInv == ASSUME WindIInv, LoopStep PROVE WindIInv'
<1>. USE RunnersAssumption, BoundsAssumption
     DEF WindIInv, WindTypeOK, InHandKnown, OneRun, StepsInOrder, FarewellsCounted,
         EveryoneTried, PhaseJustified, Due, Ahead, PcStates, Locking, DmStates,
         FinalPhase, windSettings, local, mail, counters, InHandOfRuns, Step, Runners
<1>1. CASE LoopWake  BY <1>1 DEF LoopWake
<1>2. CASE ReadAuto  BY <1>2 DEF ReadAuto
<1>3. CASE ReadCurrent  BY <1>3 DEF ReadCurrent, DuePhase
<1>4. CASE Advance  BY <1>4 DEF Advance
<1>. QED  BY <1>1, <1>2, <1>3, <1>4 DEF LoopStep

\* A step of a run of the sequence: the lock makes it the only one that is
\* past TakeLock.
LEMMA RunKeepsIInv == ASSUME WindIInv, NEW r \in Runners, Run(r) PROVE WindIInv'
<1>. USE RunnersAssumption, BoundsAssumption
     DEF WindIInv, WindTypeOK, InHandKnown, OneRun, StepsInOrder, FarewellsCounted,
         EveryoneTried, PhaseJustified, Due, Ahead, PcStates, Locking, DmStates,
         FinalPhase, windSettings, local, mail, counters, InHandOfRuns, Step, RunnerRest
<1>1. CASE CheckPhase(r)  BY <1>1 DEF CheckPhase
<1>2. CASE CheckCompleted(r)  BY <1>2 DEF CheckCompleted
<1>3. CASE TakeLock(r)  BY <1>3 DEF TakeLock, Locked
<1>4. CASE Recheck(r)  BY <1>4 DEF Recheck
<1>5. CASE Stats(r)  BY <1>5 DEF Stats
<1>6. CASE FlagStats(r)  BY <1>6 DEF FlagStats, SetFlag
<1>7. CASE CheckDms(r)  BY <1>7 DEF CheckDms
<1>8. CASE Resolve(r)  BY <1>8 DEF Resolve
<1>9. CASE BuildKeepsake(r)  BY <1>9 DEF BuildKeepsake
<1>10. CASE SendCard(r)  BY <1>10 DEF SendCard
<1>11. CASE SendPdf(r)
  <2>1. WindTypeOK'  BY <1>11 DEF SendPdf
  <2>2. InHandKnown'  BY <1>11 DEF SendPdf
  <2>3. OneRun'  BY <1>11 DEF SendPdf
  <2>4. StepsInOrder'  BY <1>11 DEF SendPdf
  <2>5. FarewellsCounted'  BY <1>11 DEF SendPdf
  <2>6. EveryoneTried'  BY <1>11 DEF SendPdf
  <2>7. PhaseJustified'  BY <1>11 DEF SendPdf
  <2>. QED  BY <2>1, <2>2, <2>3, <2>4, <2>5, <2>6, <2>7
<1>12. CASE Refused(r)  BY <1>12 DEF Refused
<1>13. CASE FlagDms(r)
  <2>1. WindTypeOK'  BY <1>13 DEF FlagDms, DmsDone, SetFlag
  <2>2. InHandKnown'  BY <1>13 DEF FlagDms, DmsDone, SetFlag
  <2>3. OneRun'  BY <1>13 DEF FlagDms, DmsDone, SetFlag
  <2>4. StepsInOrder'  BY <1>13 DEF FlagDms, DmsDone, SetFlag
  <2>5. FarewellsCounted'  BY <1>13 DEF FlagDms, DmsDone, SetFlag
  <2>6. EveryoneTried'  BY <1>13 DEF FlagDms, DmsDone, SetFlag
  <2>7. PhaseJustified'  BY <1>13 DEF FlagDms, DmsDone, SetFlag
  <2>. QED  BY <2>1, <2>2, <2>3, <2>4, <2>5, <2>6, <2>7
<1>14. CASE CheckAnonymise(r)  BY <1>14 DEF CheckAnonymise
<1>15. CASE Anonymise(r)
  <2>1. WindTypeOK'  BY <1>15 DEF Anonymise
  <2>2. InHandKnown'  BY <1>15 DEF Anonymise
  <2>3. OneRun'  BY <1>15 DEF Anonymise
  <2>4. StepsInOrder'  BY <1>15 DEF Anonymise
  <2>5. FarewellsCounted'  BY <1>15 DEF Anonymise
  <2>6. EveryoneTried'  BY <1>15 DEF Anonymise
  <2>7. PhaseJustified'  BY <1>15 DEF Anonymise
  <2>. QED  BY <2>1, <2>2, <2>3, <2>4, <2>5, <2>6, <2>7
<1>16. CASE FlagAnonymised(r)  BY <1>16 DEF FlagAnonymised, SetFlag
<1>17. CASE Complete(r)
  <2>1. WindTypeOK'  BY <1>17 DEF Complete, SetFlag
  <2>2. InHandKnown'  BY <1>17 DEF Complete, SetFlag
  <2>3. OneRun'  BY <1>17 DEF Complete, SetFlag
  <2>4. StepsInOrder'  BY <1>17 DEF Complete, SetFlag
  <2>5. FarewellsCounted'  BY <1>17 DEF Complete, SetFlag
  <2>6. EveryoneTried'  BY <1>17 DEF Complete, SetFlag
  <2>7. PhaseJustified'  BY <1>17 DEF Complete, SetFlag
  <2>. QED  BY <2>1, <2>2, <2>3, <2>4, <2>5, <2>6, <2>7
<1>. QED
  BY <1>1, <1>2, <1>3, <1>4, <1>5, <1>6, <1>7, <1>8, <1>9, <1>10, <1>11, <1>12, <1>13, <1>14, <1>15, <1>16, <1>17 DEF Run

\* An exception or a crash counts against the mass DM it cuts short.
LEMMA FaultKeepsIInv ==
    ASSUME WindIInv, RobCrash \/ \E r \in Runners : RunRaises(r) PROVE WindIInv'
<1>. USE RunnersAssumption, BoundsAssumption
     DEF WindIInv, WindTypeOK, InHandKnown, OneRun, StepsInOrder, FarewellsCounted,
         EveryoneTried, PhaseJustified, Due, Ahead, PcStates, Locking, DmStates,
         FinalPhase, windSettings, local, mail, counters, InHandOfRuns, FaultRest, Cut
<1>1. CASE RobCrash
  <2>a. pc' \in [Runners -> PcStates]  BY <1>1 DEF RobCrash
  <2>b. faults' \in Nat /\ cutShort' \in Nat  BY <1>1 DEF RobCrash
  <2>c. reached' \subseteq Recipients  BY <1>1 DEF RobCrash
  <2>1. WindTypeOK'  BY <2>a, <2>b, <2>c, <1>1 DEF RobCrash
  <2>2. InHandKnown'  BY <1>1 DEF RobCrash
  <2>3. OneRun'  BY <1>1 DEF RobCrash
  <2>4. StepsInOrder'  BY <1>1 DEF RobCrash
  <2>5. FarewellsCounted'  BY <1>1 DEF RobCrash
  <2>6. EveryoneTried'  BY <1>1 DEF RobCrash
  <2>7. PhaseJustified'  BY <1>1 DEF RobCrash
  <2>. QED  BY <2>1, <2>2, <2>3, <2>4, <2>5, <2>6, <2>7
<1>2. ASSUME NEW r \in Runners, RunRaises(r) PROVE WindIInv'
  <2>a. pc' \in [Runners -> PcStates]  BY <1>2 DEF RunRaises
  <2>b. faults' \in Nat /\ cutShort' \in Nat  BY <1>2 DEF RunRaises
  <2>c. reached' \subseteq Recipients  BY <1>2 DEF RunRaises
  <2>1. WindTypeOK'  BY <2>a, <2>b, <2>c, <1>2 DEF RunRaises
  <2>2. InHandKnown'  BY <1>2 DEF RunRaises
  <2>3. OneRun'  BY <1>2 DEF RunRaises
  <2>4. StepsInOrder'  BY <1>2 DEF RunRaises
  <2>5. FarewellsCounted'  BY <1>2 DEF RunRaises
  <2>6. EveryoneTried'  BY <1>2 DEF RunRaises
  <2>7. PhaseJustified'  BY <1>2 DEF RunRaises
  <2>. QED  BY <2>1, <2>2, <2>3, <2>4, <2>5, <2>6, <2>7
<1>. QED  BY <1>1, <1>2

\* The calendar, the owner and the recording handlers.
LEMMA OutsideKeepsIInv == ASSUME WindIInv, Outside PROVE WindIInv'
<1>. USE RunnersAssumption, BoundsAssumption
     DEF WindIInv, WindTypeOK, InHandKnown, OneRun, StepsInOrder, FarewellsCounted,
         EveryoneTried, PhaseJustified, Due, Ahead, PcStates, Locking, DmStates,
         FinalPhase, windSettings, local, mail, counters, InHandOfRuns, OutsideRest, Command, Step
<1>1. CASE Boundary  BY <1>1 DEF Boundary
<1>2. CASE OwnerAuto  BY <1>2 DEF OwnerAuto
<1>3. ASSUME NEW p \in 0..FinalPhase, OwnerPhase(p) PROVE WindIInv'
  <2>1. WindTypeOK'  BY <1>3 DEF OwnerPhase, Runners
  <2>2. InHandKnown'  BY <1>3 DEF OwnerPhase, Runners
  <2>3. OneRun'  BY <1>3 DEF OwnerPhase, Runners
  <2>4. StepsInOrder'  BY <1>3 DEF OwnerPhase, Runners
  <2>5. FarewellsCounted'  BY <1>3 DEF OwnerPhase, Runners
  <2>6. EveryoneTried'  BY <1>3 DEF OwnerPhase, Runners
  <2>7. PhaseJustified'  BY <1>3 DEF OwnerPhase, Runners
  <2>. QED  BY <2>1, <2>2, <2>3, <2>4, <2>5, <2>6, <2>7
<1>. QED  BY <1>1, <1>2, <1>3 DEF Outside

LEMMA StutterKeepsIInv == WindIInv /\ UNCHANGED windVars => WindIInv'
<1>. USE RunnersAssumption, BoundsAssumption
     DEF WindIInv, WindTypeOK, InHandKnown, OneRun, StepsInOrder, FarewellsCounted,
         EveryoneTried, PhaseJustified, Due, Ahead, PcStates, Locking, DmStates,
         FinalPhase, windSettings, local, mail, counters, InHandOfRuns, windVars
<1>. QED  OBVIOUS

LEMMA WindNextKeepsIInv == WindIInv /\ [WindNext]_windVars => WindIInv'
  BY LoopKeepsIInv, RunKeepsIInv, FaultKeepsIInv, OutsideKeepsIInv,
     StutterKeepsIInv DEF WindNext

LEMMA WindInvariance == WindSpec => []WindIInv
  BY WindInitIInv, WindNextKeepsIInv, PTL DEF WindSpec

\* Type correctness of the wind-down.
THEOREM WindTypeCorrect == WindSpec => []WindTypeOK
<1>1. WindIInv => WindTypeOK  BY DEF WindIInv
<1>. QED  BY <1>1, WindInvariance, PTL

\* Whatever crashes, raises or overlaps, nobody is sent a keepsake built from
\* rows that were already anonymised (final_sequence, step 2 before step 3).
THEOREM KeepsakeHasHistoryCorrect == WindSpec => []KeepsakeHasHistory
<1>1. WindIInv => KeepsakeHasHistory  BY DEF WindIInv, StepsInOrder, KeepsakeHasHistory
<1>. QED  BY <1>1, WindInvariance, PTL

\* A user gets at most one farewell more than the mass DM was cut short
\* (final_sequence, the lock and the flag of the step).
THEOREM FarewellOnceCorrect == WindSpec => []FarewellOnce
<1>1. WindIInv => FarewellOnce  BY DEF WindIInv, FarewellsCounted, FarewellOnce
<1>. QED  BY <1>1, WindInvariance, PTL

\* Nothing is erased before every registered user was tried.
THEOREM NobodyLeftOutCorrect == WindSpec => []NobodyLeftOut
<1>1. WindIInv => NobodyLeftOut
  BY DEF WindIInv, StepsInOrder, EveryoneTried, NobodyLeftOut
<1>. QED  BY <1>1, WindInvariance, PTL

\* The irreversible step is taken only if the last phase was due or the owner
\* set it (apply_due_phase, maybe_run).
THEOREM ErasureWasDueCorrect == WindSpec => []ErasureWasDue
<1>1. WindIInv => ErasureWasDue  BY DEF WindIInv, PhaseJustified, Due, ErasureWasDue
<1>. QED  BY <1>1, WindInvariance, PTL

-----------------------------------------------------------------------------
(***************************************************************************)
(* Inactivity.                                                             *)
(***************************************************************************)

USE MembersAssumption, PeriodsAssumption, InactivityBounds, HandlersAssumption, NobodyAssumption

LEMMA Processes ==
    /\ \A s \in Sweeps : s \in Procs /\ s \notin Handlers
    /\ \A h \in Handlers : h \in Procs /\ h \notin Sweeps
    /\ \A p \in Procs : p \in Handlers \/ p \in Sweeps
  BY DEF Procs

LEMMA Shapes ==
    ASSUME TypeOK
    PROVE  /\ job \in [Procs -> Jobs] /\ row \in [Members -> Rows]
           /\ now \in Nat /\ now \in Times
           /\ lastActive \in [Members -> Int] /\ afkUntil \in [Members -> Nat]
           /\ \A m \in Members : /\ row[m].removeAt \in Nat /\ row[m].first \in BOOLEAN
                                 /\ row[m].final \in BOOLEAN
           /\ \A p \in Procs : /\ job[p].who \in Members \cup {Nobody} /\ job[p].rec \in Rows
                               /\ job[p].at \in Steps /\ job[p].rec.removeAt \in Nat
                               /\ job[p].goal \in {"none", "up", "park", "flag"}
<1>1. NoRow \in [removeAt : Nat, first : BOOLEAN, final : BOOLEAN]  BY DEF NoRow
<1>2. \A r \in Rows : r.removeAt \in Nat /\ r.first \in BOOLEAN /\ r.final \in BOOLEAN
  BY <1>1 DEF Rows
<1>3. job \in [Procs -> Jobs] /\ row \in [Members -> Rows]  BY DEF TypeOK
<1>4. /\ now \in Nat /\ now \in Times
      /\ lastActive \in [Members -> Int] /\ afkUntil \in [Members -> Nat]
  BY DEF TypeOK, Times
<1>5. \A m \in Members : row[m] \in Rows  BY <1>3
<1>6. \A p \in Procs : /\ job[p].who \in Members \cup {Nobody} /\ job[p].rec \in Rows
                       /\ job[p].at \in Steps /\ job[p].goal \in {"none", "up", "park", "flag"}
  BY <1>3 DEF Jobs
<1>. QED  BY <1>2, <1>3, <1>4, <1>5, <1>6

LEMMA IdleType ==
    /\ Idle \in Jobs /\ NoRow \in Rows
    /\ Idle.at = "idle" /\ Idle.goal = "none" /\ Idle.who = Nobody
  BY DEF Idle, Jobs, Steps, Rows, NoRow

\* A row a countdown begins with.
LEMMA NewRow ==
    ASSUME TypeOK, NEW s \in Sweeps
    PROVE  /\ RemoveAt(job[s]) \in Nat \ {0} /\ RemoveAt(job[s]) > now
           /\ [NoRow EXCEPT !.removeAt = RemoveAt(job[s])] \in Rows
           /\ [NoRow EXCEPT !.removeAt = RemoveAt(job[s])].removeAt = RemoveAt(job[s])
           /\ ~[NoRow EXCEPT !.removeAt = RemoveAt(job[s])].first
           /\ [NoRow EXCEPT !.removeAt = RemoveAt(job[s]), !.first = TRUE] \in Rows
           /\ [NoRow EXCEPT !.removeAt = RemoveAt(job[s]), !.first = TRUE].removeAt = RemoveAt(job[s])
<1>1. RemoveAt(job[s]) \in Nat \ {0} /\ RemoveAt(job[s]) > now  BY Shapes DEF RemoveAt
<1>. QED  BY <1>1 DEF NoRow, Rows

\* A step of one process changes its own local state.
LEMMA Moved ==
    ASSUME job \in [Procs -> Jobs], NEW p \in Procs, NEW r \in Jobs, job' = [job EXCEPT ![p] = r]
    PROVE  job' \in [Procs -> Jobs] /\ job'[p] = r /\ \A q \in Procs \ {p} : job'[q] = job[q]
  OBVIOUS

LEMMA Stepped ==
    ASSUME NEW j \in Jobs, NEW step \in Steps
    PROVE  /\ [j EXCEPT !.at = step] \in Jobs /\ [j EXCEPT !.at = step].at = step
           /\ [j EXCEPT !.at = step].who = j.who /\ [j EXCEPT !.at = step].goal = j.goal
           /\ [j EXCEPT !.at = step].rec = j.rec /\ [j EXCEPT !.at = step].boot = j.boot
           /\ [j EXCEPT !.at = step].loud = j.loud
  BY DEF Jobs

LEMMA Goes ==
    ASSUME TypeOK, NEW p \in Procs, NEW step \in Steps, Goto(p, step)
    PROVE  /\ job' \in [Procs -> Jobs] /\ job'[p].at = step
           /\ job'[p].who = job[p].who /\ job'[p].goal = job[p].goal
           /\ job'[p].rec = job[p].rec /\ job'[p].boot = job[p].boot
           /\ \A q \in Procs \ {p} : job'[q] = job[q]
<1>1. job \in [Procs -> Jobs] /\ job[p] \in Jobs  BY Shapes
<1>2. job' = [job EXCEPT ![p] = [job[p] EXCEPT !.at = step]]  BY DEF Goto
<1>3. [job[p] EXCEPT !.at = step] \in Jobs  BY <1>1, Stepped
<1>4. /\ job'[p] = [job[p] EXCEPT !.at = step] /\ job' \in [Procs -> Jobs]
      /\ \A q \in Procs \ {p} : job'[q] = job[q]
  BY <1>1, <1>2, <1>3, Moved
<1>. QED  BY <1>1, <1>4, Stepped

LEMMA ReleasedType ==
    ASSUME TypeOK, NEW p \in Procs
    PROVE  /\ Released(p) \in Jobs /\ Released(p).at \in {"idle", "next"} /\ Released(p).goal = "none"
           /\ p \notin Sweeps => Released(p) = Idle
<1>1. job[p] \in Jobs  BY Shapes
<1>2. [job[p] EXCEPT !.at = "next", !.who = Nobody, !.goal = "none", !.rec = NoRow] \in Jobs
  BY <1>1, IdleType DEF Jobs, Steps
<1>3. /\ [job[p] EXCEPT !.at = "next", !.who = Nobody, !.goal = "none", !.rec = NoRow].at = "next"
      /\ [job[p] EXCEPT !.at = "next", !.who = Nobody, !.goal = "none", !.rec = NoRow].goal = "none"
  BY <1>1 DEF Jobs
<1>. QED  BY <1>2, <1>3, IdleType DEF Released

\* A process that has no member in hand satisfies its part of the invariant.
LEMMA FreeGood ==
    ASSUME NEW p \in Procs, job'[p].goal # "flag",
           job'[p].at \in {"idle", "next", "backfill"}, p \in Handlers => job'[p].at = "idle"
    PROVE  StepKnown(p)' /\ VerdictStands(p)' /\ DateHeld(p)'
  BY DEF StepKnown, VerdictStands, DateHeld, At, HandlerSteps, Unassigned, FlagSteps

\* So does one whose local state another process leaves, when that one does
\* what it may to the tables.
LEMMA OthersGood ==
    ASSUME IInv, NEW q \in Procs, job'[q] = job[q], now' = now,
           raced \subseteq raced', told \subseteq told',
           \A m \in Members : afkUntil'[m] \in {afkUntil[m], now + AfkDays},
           \A m \in Members : lastActive'[m] \in {lastActive[m], now} \/ m \in raced'
                                \/ q \notin Sweeps \/ job[q].who # m,
           \A m \in Members : row'[m].removeAt \in {row[m].removeAt, 0} \/ m \in raced'
                                \/ q \notin Sweeps \/ job[q].who # m
    PROVE  StepKnown(q)' /\ (q \in Sweeps => VerdictStands(q)' /\ DateHeld(q)')
<1>1. StepKnown(q)'  BY DEF IInv, StepKnown
<1>2. ASSUME q \in Sweeps PROVE VerdictStands(q)'
  <2>1. StepKnown(q) /\ VerdictStands(q) /\ now \in Nat  BY <1>2, Shapes DEF IInv
  <2>2. CASE job[q].goal # "flag"  BY <2>2 DEF VerdictStands
  <2>3. CASE job[q].goal = "flag"
    <3>1. job[q].who \in Members
      BY <2>1, <2>3 DEF StepKnown, FlagSteps, Unassigned
    <3>2. afkUntil'[job[q].who] \in {afkUntil[job[q].who], now + AfkDays}  BY <3>1
    <3>3. lastActive'[job[q].who] \in {lastActive[job[q].who], now} \/ job[q].who \in raced'
      BY <1>2, <3>1
    <3>. QED  BY <2>1, <2>3, <3>2, <3>3 DEF VerdictStands
  <2>. QED  BY <2>2, <2>3
<1>3. ASSUME q \in Sweeps PROVE DateHeld(q)'
  <2>1. StepKnown(q) /\ DateHeld(q)  BY <1>3 DEF IInv
  <2>2. CASE job[q].at \notin {"grandfather", "first", "markFirst", "kick"}
    BY <2>2 DEF DateHeld, At
  <2>3. CASE job[q].at \in {"grandfather", "first", "markFirst", "kick"}
    <3>1. job[q].who \in Members  BY <2>1, <2>3 DEF StepKnown, Unassigned
    <3>2. row'[job[q].who].removeAt \in {row[job[q].who].removeAt, 0} \/ job[q].who \in raced'
      BY <1>3, <3>1
    <3>. QED  BY <2>1, <2>3, <3>2 DEF DateHeld, At, RemoveAt
  <2>. QED  BY <2>2, <2>3
<1>. QED  BY <1>1, <1>2, <1>3

\* The shape of every step of a process: the parts that concern the process,
\* the rows, and the types; the others follow.
LEMMA StepKeeps ==
    ASSUME IInv, NEW p \in Procs, \A q \in Procs \ {p} : job'[q] = job[q], now' = now,
           raced \subseteq raced', told \subseteq told',
           \A m \in Members : afkUntil'[m] \in {afkUntil[m], now + AfkDays},
           \A m \in Members : lastActive'[m] \in {lastActive[m], now} \/ m \in raced'
                                \/ \A q \in Sweeps \ {p} : job[q].who # m,
           \A m \in Members : row'[m].removeAt \in {row[m].removeAt, 0} \/ m \in raced'
                                \/ \A q \in Sweeps \ {p} : job[q].who # m,
           StepKnown(p)', p \in Sweeps => VerdictStands(p)' /\ DateHeld(p)',
           TypeOK', RowsTold'
    PROVE  IInv'
<1>1. ASSUME NEW q \in Procs \ {p}
      PROVE  StepKnown(q)' /\ (q \in Sweeps => VerdictStands(q)' /\ DateHeld(q)')
  BY <1>1, OthersGood
<1>2. \A q \in Procs : StepKnown(q)'  BY <1>1
<1>3. \A q \in Sweeps : VerdictStands(q)' /\ DateHeld(q)'  BY <1>1, Processes
<1>. QED  BY <1>2, <1>3 DEF IInv

\* The same for a step that leaves the tables, the clock and the history.
LEMMA QuietStepKeeps ==
    ASSUME IInv, NEW p \in Procs, \A q \in Procs \ {p} : job'[q] = job[q],
           job' \in [Procs -> Jobs],
           UNCHANGED <<now, lastActive, afkUntil, settings, row, history>>,
           present' \subseteq Members, joined' \in [Members -> Times],
           roles' \in [Members -> SUBSET Roles], cached' \in [Members -> SUBSET Roles],
           spoken' \in [Members -> Int], disturbances' \in Nat,
           StepKnown(p)', p \in Sweeps => VerdictStands(p)' /\ DateHeld(p)'
    PROVE  IInv'
<1>1. UNCHANGED <<now, lastActive, afkUntil, enabled, bootstrapped, suppressed, row, told, raced>>
  BY DEF settings, history
<1>2. TypeOK'  BY <1>1 DEF IInv, TypeOK
<1>3. RowsTold'  BY <1>1 DEF IInv, RowsTold
<1>. QED  BY <1>1, <1>2, <1>3, StepKeeps

LEMMA InitIInv == Init => IInv
<1>. SUFFICES ASSUME Init PROVE IInv
  OBVIOUS
<1>1. TypeOK
  <2>1. job \in [Procs -> Jobs] /\ row \in [Members -> Rows]  BY IdleType DEF Init
  <2>2. /\ now \in Times /\ joined \in [Members -> Times] /\ disturbances \in Nat
        /\ spoken \in [Members -> Int] /\ lastActive \in [Members -> Int]
        /\ afkUntil \in [Members -> Nat]
    BY DEF Init, Times, Never
  <2>3. roles \in [Members -> SUBSET Roles] /\ cached \in [Members -> SUBSET Roles]
    BY DEF Init
  <2>4. /\ present \subseteq Members /\ told \subseteq Members \X Nat /\ raced \subseteq Members
        /\ enabled \in BOOLEAN /\ bootstrapped \in BOOLEAN /\ suppressed \in BOOLEAN
    BY DEF Init
  <2>. QED  BY <2>1, <2>2, <2>3, <2>4 DEF TypeOK
<1>2. \A p \in Procs : job[p] = Idle  BY DEF Init
<1>3. \A p \in Procs : StepKnown(p)
  BY <1>2, IdleType DEF StepKnown, HandlerSteps, Unassigned, FlagSteps
<1>4. \A s \in Sweeps : VerdictStands(s) /\ DateHeld(s)
  BY <1>2, IdleType, Processes DEF VerdictStands, DateHeld, At
<1>5. RowsTold  BY DEF Init, RowsTold, NoRow
<1>. QED  BY <1>1, <1>3, <1>4, <1>5 DEF IInv

LEMMA Disturbed ==
    ASSUME TypeOK, Disturb \/ Plain
    PROVE  disturbances' \in Nat
  BY DEF TypeOK, Disturb, Plain

\* The clock, which waits until nothing is going on.
LEMMA TickKeeps ==
    ASSUME IInv, Tick
    PROVE  IInv'
<1>1. /\ now' \in Times /\ job' = job /\ \A p \in Procs : job[p].at = "idle"
      /\ UNCHANGED <<present, joined, roles, spoken, cached, lastActive, afkUntil, enabled,
                     bootstrapped, suppressed, row, told, raced, disturbances>>
  BY Shapes DEF Tick, IInv, Times, At, guildVars, settings, history, Plain
<1>2. TypeOK'  BY <1>1 DEF IInv, TypeOK
<1>3. RowsTold'  BY <1>1 DEF IInv, RowsTold
<1>4. \A p \in Procs : job[p].goal # "flag"  BY <1>1 DEF IInv, StepKnown, FlagSteps
<1>5. \A p \in Procs : StepKnown(p)'  BY <1>1 DEF IInv, StepKnown
<1>6. \A s \in Sweeps : VerdictStands(s)' /\ DateHeld(s)'
  BY <1>1, <1>4, Processes DEF VerdictStands, DateHeld, At
<1>. QED  BY <1>2, <1>3, <1>5, <1>6 DEF IInv

\* Members, staff and operators.
LEMMA OutsideKeeps ==
    ASSUME IInv, SetEnabled \/ SetSuppressed \/ \E m \in Members : Unheard(m) \/ StaffRoles(m) \/ Afk(m)
    PROVE  IInv'
<1>1. UNCHANGED <<now, lastActive, row, job, told, raced, bootstrapped, present, joined, cached>>
  BY DEF SetEnabled, SetSuppressed, Unheard, StaffRoles, Afk, guildVars, settings, history
<1>2. disturbances' \in Nat
  BY Disturbed DEF IInv, SetEnabled, SetSuppressed, Unheard, StaffRoles, Afk
<1>3. afkUntil' \in [Members -> Nat] /\ \A m \in Members : afkUntil'[m] \in {afkUntil[m], now + AfkDays}
  BY Shapes DEF IInv, SetEnabled, SetSuppressed, Unheard, StaffRoles, Afk
<1>4. spoken' \in [Members -> Int]
  BY Shapes DEF IInv, TypeOK, SetEnabled, SetSuppressed, Unheard, StaffRoles, Afk, guildVars
<1>5. roles' \in [Members -> SUBSET Roles]
  BY DEF IInv, TypeOK, Roles, SetEnabled, SetSuppressed, Unheard, StaffRoles, Afk, guildVars
<1>6. enabled' \in BOOLEAN
  <2>1. enabled' = enabled \/ enabled' = ~enabled
    BY DEF SetEnabled, SetSuppressed, Unheard, StaffRoles, Afk, settings
  <2>. QED  BY <2>1, Zenon DEF IInv, TypeOK
<1>7. suppressed' \in BOOLEAN
  <2>1. suppressed' = suppressed \/ suppressed' = ~suppressed
    BY DEF SetEnabled, SetSuppressed, Unheard, StaffRoles, Afk, settings
  <2>. QED  BY <2>1, Zenon DEF IInv, TypeOK
<1>8. TypeOK'  BY <1>1, <1>2, <1>3, <1>4, <1>5, <1>6, <1>7 DEF IInv, TypeOK
<1>9. RowsTold'  BY <1>1 DEF IInv, RowsTold
<1>10. \A q \in Procs : StepKnown(q)' /\ (q \in Sweeps => VerdictStands(q)' /\ DateHeld(q)')
  BY <1>1, <1>3, OthersGood
<1>. QED  BY <1>8, <1>9, <1>10, Processes DEF IInv

\* A handler that starts, or goes on among its own steps.
LEMMA HandlerGood ==
    ASSUME NEW h \in Handlers, job'[h].at \in HandlerSteps, job'[h].goal # "flag",
           job'[h].at # "idle" => job'[h].who \in Members
    PROVE  StepKnown(h)' /\ h \notin Sweeps
  BY Processes DEF StepKnown, HandlerSteps, FlagSteps, Unassigned

LEMMA StartsShape ==
    ASSUME IInv, NEW h \in Handlers, NEW m \in Members, NEW step \in {"wake", "sync", "clear"},
           Starts(h, m, step)
    PROVE  /\ job' \in [Procs -> Jobs] /\ \A q \in Procs \ {h} : job'[q] = job[q]
           /\ StepKnown(h)' /\ h \notin Sweeps
<1>1. /\ h \in Procs /\ job \in [Procs -> Jobs] /\ job[h] \in Jobs /\ StepKnown(h)
      /\ step \in Steps /\ step \in HandlerSteps
  BY Processes, Shapes DEF IInv, Steps, HandlerSteps
<1>2. [job[h] EXCEPT !.at = step, !.who = m] \in Jobs  BY <1>1 DEF Jobs
<1>3. job' = [job EXCEPT ![h] = [job[h] EXCEPT !.at = step, !.who = m]]  BY DEF Starts
<1>4. /\ job' \in [Procs -> Jobs] /\ job'[h] = [job[h] EXCEPT !.at = step, !.who = m]
      /\ \A q \in Procs \ {h} : job'[q] = job[q]
  BY <1>1, <1>2, <1>3, Moved
<1>5. job'[h].at = step /\ job'[h].who = m /\ job'[h].goal = job[h].goal
  BY <1>1, <1>4 DEF Jobs
<1>6. job[h].goal # "flag"  BY <1>1 DEF StepKnown
<1>. QED  BY <1>1, <1>4, <1>5, <1>6, HandlerGood

LEMMA SpeakKeeps ==
    ASSUME IInv, NEW h \in Handlers, NEW m \in Members, Speak(h, m)
    PROVE  IInv'
<1>1. /\ job' \in [Procs -> Jobs] /\ \A q \in Procs \ {h} : job'[q] = job[q]
      /\ StepKnown(h)' /\ h \notin Sweeps /\ h \in Procs
  BY StartsShape, Processes DEF Speak
<1>2. UNCHANGED <<now, present, joined, roles, cached, afkUntil, enabled, bootstrapped, suppressed,
                  row, told, raced, disturbances>>
  BY DEF Speak, Plain, settings, history
<1>3. /\ lastActive' \in [Members -> Int] /\ spoken' \in [Members -> Int]
      /\ \A x \in Members : lastActive'[x] \in {lastActive[x], now}
  BY Shapes DEF Speak, IInv, TypeOK
<1>4. TypeOK'  BY <1>1, <1>2, <1>3 DEF IInv, TypeOK
<1>5. RowsTold'  BY <1>2 DEF IInv, RowsTold
<1>. QED  BY <1>1, <1>2, <1>3, <1>4, <1>5, StepKeeps

LEMMA MemberUpdateKeeps ==
    ASSUME IInv, NEW h \in Handlers, NEW m \in Members, MemberUpdate(h, m)
    PROVE  IInv'
<1>1. /\ job' \in [Procs -> Jobs] /\ \A q \in Procs \ {h} : job'[q] = job[q]
      /\ StepKnown(h)' /\ h \notin Sweeps /\ h \in Procs
  <2>1. CASE Starts(h, m, "sync") \/ Starts(h, m, "clear")  BY <2>1, StartsShape, Processes
  <2>2. CASE job' = job  BY <2>2, Shapes, Processes DEF IInv, StepKnown
  <2>. QED  BY <2>1, <2>2 DEF MemberUpdate
<1>2. /\ UNCHANGED <<now, lastActive, afkUntil, settings, row, history, present, joined, roles, spoken, disturbances>>
      /\ cached' = [cached EXCEPT ![m] = roles[m]]
  BY DEF MemberUpdate, RolesKnown, Plain
<1>3. cached' \in [Members -> SUBSET Roles]  BY <1>2 DEF IInv, TypeOK
<1>. QED  BY <1>1, <1>2, <1>3, QuietStepKeeps DEF IInv, TypeOK

LEMMA JoinKeeps ==
    ASSUME IInv, NEW h \in Handlers, NEW m \in Members, Join(h, m)
    PROVE  IInv'
<1>1. /\ job' \in [Procs -> Jobs] /\ \A q \in Procs \ {h} : job'[q] = job[q]
      /\ StepKnown(h)' /\ h \notin Sweeps /\ h \in Procs
  BY StartsShape, Processes DEF Join
<1>2. UNCHANGED <<now, lastActive, afkUntil, settings, row, history, spoken>>
  BY DEF Join
<1>3. present' \subseteq Members /\ joined' \in [Members -> Times]
  BY DEF Join, IInv, TypeOK
<1>4. roles' \in [Members -> SUBSET Roles]
  <2>1. PICK given \in {{}, {"unverified"}} : roles' = [roles EXCEPT ![m] = given]  BY DEF Join
  <2>2. given \in SUBSET Roles  BY DEF Roles
  <2>. QED  BY <2>1, <2>2 DEF IInv, TypeOK
<1>5. cached' \in [Members -> SUBSET Roles]  BY <1>4 DEF Join, IInv, TypeOK
<1>6. disturbances' \in Nat  BY Disturbed DEF Join, IInv
<1>. QED  BY <1>1, <1>2, <1>3, <1>4, <1>5, <1>6, QuietStepKeeps DEF IInv, TypeOK

LEMMA GoneTypes ==
    ASSUME TypeOK, NEW m \in Members, Gone(m)
    PROVE  /\ present' \subseteq Members /\ joined' = joined /\ spoken' = spoken
           /\ roles' \in [Members -> SUBSET Roles] /\ cached' \in [Members -> SUBSET Roles]
  BY DEF TypeOK, Gone

LEMMA LeaveKeeps ==
    ASSUME IInv, NEW h \in Handlers, NEW m \in Members, Leave(h, m)
    PROVE  IInv'
<1>1. /\ job' \in [Procs -> Jobs] /\ \A q \in Procs \ {h} : job'[q] = job[q]
      /\ StepKnown(h)' /\ h \notin Sweeps /\ h \in Procs
  BY StartsShape, Processes DEF Leave
<1>2. UNCHANGED <<now, lastActive, afkUntil, settings, row, history>>  BY DEF Leave
<1>3. /\ present' \subseteq Members /\ joined' = joined /\ spoken' = spoken
      /\ roles' \in [Members -> SUBSET Roles] /\ cached' \in [Members -> SUBSET Roles]
  BY GoneTypes DEF Leave, IInv
<1>4. disturbances' \in Nat  BY Disturbed DEF Leave, IInv
<1>. QED  BY <1>1, <1>2, <1>3, <1>4, QuietStepKeeps DEF IInv, TypeOK

\* A handler gets its goal, or is done.
LEMMA RaisedShape ==
    ASSUME IInv, NEW p \in Procs, job' = [job EXCEPT ![p] = Idle]
    PROVE  /\ job' \in [Procs -> Jobs] /\ \A q \in Procs \ {p} : job'[q] = job[q]
           /\ StepKnown(p)' /\ (p \in Sweeps => VerdictStands(p)' /\ DateHeld(p)')
<1>1. /\ job' \in [Procs -> Jobs] /\ job'[p] = Idle
      /\ \A q \in Procs \ {p} : job'[q] = job[q]
  BY Shapes, IdleType, Moved DEF IInv
<1>. QED  BY <1>1, IdleType, FreeGood

\* Where the exchange of roles goes next.
LEMMA NextCall ==
    ASSUME NEW m, NEW goal
    PROVE  /\ GiveStep(m, goal) \in {"give", Exchanged(goal)}
           /\ RolesStep(m, goal) \in {"take", "give", Exchanged(goal)}
           /\ goal = "flag" => Exchanged(goal) = "get"
           /\ goal # "flag" => Exchanged(goal) = "clear"
  BY DEF RolesStep, GiveStep, Exchanged

LEMMA GoalShape ==
    ASSUME IInv, NEW h \in Handlers, job[h].who \in Members, NEW goal \in {"up", "park"},
           NEW step \in {"record", "take", "give", "clear"},
           job' = [job EXCEPT ![h].at = step, ![h].goal = goal]
    PROVE  /\ job' \in [Procs -> Jobs] /\ \A q \in Procs \ {h} : job'[q] = job[q]
           /\ StepKnown(h)' /\ h \notin Sweeps
<1>1. h \in Procs /\ job \in [Procs -> Jobs] /\ job[h] \in Jobs
  BY Processes, Shapes DEF IInv
<1>2. [job[h] EXCEPT !.at = step, !.goal = goal] \in Jobs  BY <1>1 DEF Jobs, Steps
<1>3. job' = [job EXCEPT ![h] = [job[h] EXCEPT !.at = step, !.goal = goal]]  BY <1>1
<1>4. /\ job' \in [Procs -> Jobs] /\ job'[h] = [job[h] EXCEPT !.at = step, !.goal = goal]
      /\ \A q \in Procs \ {h} : job'[q] = job[q]
  BY <1>1, <1>2, <1>3, Moved
<1>5. job'[h].at = step /\ job'[h].who = job[h].who /\ job'[h].goal = goal
  BY <1>1, <1>4 DEF Jobs
<1>6. job'[h].at \in HandlerSteps  BY <1>5 DEF HandlerSteps
<1>. QED  BY <1>4, <1>5, <1>6, HandlerGood

LEMMA WakeKeeps ==
    ASSUME IInv, NEW h \in Handlers, Wake(h)
    PROVE  IInv'
<1>1. h \in Procs /\ h \notin Sweeps /\ job[h].who \in Members
  BY Processes DEF Wake, At, IInv, StepKnown, Unassigned
<1>2. /\ job' \in [Procs -> Jobs] /\ StepKnown(h)'
      /\ \A q \in Procs \ {h} : job'[q] = job[q]
  <2>1. CASE job' = [job EXCEPT ![h].at = RolesStep(job[h].who, "up"), ![h].goal = "up"]
    <3>1. RolesStep(job[h].who, "up") \in {"record", "take", "give", "clear"}  BY NextCall
    <3>. QED  BY <1>1, <2>1, <3>1, GoalShape
  <2>2. CASE job' = [job EXCEPT ![h] = Idle]  BY <1>1, <2>2, RaisedShape
  <2>. QED  BY <2>1, <2>2 DEF Wake
<1>3. UNCHANGED <<now, lastActive, afkUntil, settings, row, history, present, joined, roles, cached, spoken, disturbances>>
  BY DEF Wake, guildVars, Plain
<1>. QED  BY <1>1, <1>2, <1>3, QuietStepKeeps DEF IInv, TypeOK

LEMMA SyncKeeps ==
    ASSUME IInv, NEW h \in Handlers, Sync(h)
    PROVE  IInv'
<1>1. h \in Procs /\ h \notin Sweeps /\ job[h].who \in Members
  BY Processes DEF Sync, At, IInv, StepKnown, Unassigned
<1>2. /\ job' \in [Procs -> Jobs] /\ StepKnown(h)'
      /\ \A q \in Procs \ {h} : job'[q] = job[q]
  <2>1. CASE \E goal \in {"up", "park"}, step \in {"record", "take", "give", "clear"} :
               job' = [job EXCEPT ![h].at = step, ![h].goal = goal]
    BY <1>1, <2>1, GoalShape
  <2>2. CASE job' = [job EXCEPT ![h] = Idle]  BY <1>1, <2>2, RaisedShape
  <2>3. \A goal \in {"up", "park"} :
          RolesStep(job[h].who, goal) \in {"record", "take", "give", "clear"}
    BY NextCall
  <2>. QED  BY <2>1, <2>2, <2>3 DEF Sync
<1>3. UNCHANGED <<now, lastActive, afkUntil, settings, row, history, present, joined, roles, cached, spoken, disturbances>>
  BY DEF Sync, guildVars, Plain
<1>. QED  BY <1>1, <1>2, <1>3, QuietStepKeeps DEF IInv, TypeOK

LEMMA RecordKeeps ==
    ASSUME IInv, NEW h \in Handlers, Record(h)
    PROVE  IInv'
<1>. DEFINE step == RolesStep(job[h].who, "up")
<1>1. /\ h \in Procs /\ h \notin Sweeps /\ job[h].who \in Members
      /\ job[h].at = "record" /\ job[h].goal # "flag"
  BY Processes DEF Record, At, IInv, StepKnown, Unassigned
<1>2. step \in {"take", "give", "clear"} /\ step \in Steps  BY NextCall DEF Steps
<1>3. Goto(h, step)  BY DEF Record
<1>. HIDE DEF step
<1>4. /\ job' \in [Procs -> Jobs] /\ job'[h].at = step
      /\ job'[h].who = job[h].who /\ job'[h].goal = job[h].goal
      /\ \A q \in Procs \ {h} : job'[q] = job[q]
  BY <1>1, <1>2, <1>3, Goes DEF IInv
<1>5. StepKnown(h)'
  BY <1>1, <1>2, <1>4 DEF StepKnown, HandlerSteps, FlagSteps, Unassigned
<1>6. UNCHANGED <<now, present, joined, roles, spoken, cached, afkUntil, enabled, bootstrapped, suppressed,
                  row, told, raced, disturbances>>
  BY DEF Record, Plain, guildVars, settings, history
<1>7. /\ lastActive' \in [Members -> Int]
      /\ \A x \in Members : lastActive'[x] \in {lastActive[x], now}
  <2>1. lastActive' = [lastActive EXCEPT ![job[h].who] = now]  BY DEF Record
  <2>. QED  BY <1>1, <2>1, Shapes DEF IInv
<1>8. TypeOK'  BY <1>4, <1>6, <1>7 DEF IInv, TypeOK
<1>9. RowsTold'  BY <1>6 DEF IInv, RowsTold
<1>. QED  BY <1>1, <1>4, <1>5, <1>6, <1>7, <1>8, <1>9, StepKeeps

\* Steps a handler and a sweep share.
LEMMA VerdictKept ==
    ASSUME NEW s \in Sweeps, VerdictStands(s), job'[s].goal = job[s].goal, job'[s].who = job[s].who,
           UNCHANGED <<now, afkUntil, lastActive>>, raced \subseteq raced'
    PROVE  VerdictStands(s)'
  BY DEF VerdictStands

\* A role call of a process that goes on to step.
LEMMA CallKeeps ==
    ASSUME IInv, NEW p \in Procs, job[p].at \in {"take", "give"}, NEW step,
           step \in {"give", Exchanged(job[p].goal)}, Goto(p, step),
           NEW held \in SUBSET Roles, Edit(job[p].who, held),
           UNCHANGED <<now, present, joined, spoken, cached, lastActive, afkUntil,
                       settings, row, history>>
    PROVE  IInv'
<1>. DEFINE m == job[p].who
<1>1. /\ step \in {"give", "get", "clear"} /\ step \in Steps
      /\ job[p].goal = "flag" => step \in {"give", "get"}
      /\ job[p].goal # "flag" => step \in {"give", "clear"}
  BY DEF Exchanged, Steps
<1>2. StepKnown(p) /\ m \in Members /\ (p \in Sweeps => VerdictStands(p))
  BY DEF IInv, StepKnown, Unassigned
<1>3. /\ job' \in [Procs -> Jobs] /\ job'[p].at = step
      /\ job'[p].who = m /\ job'[p].goal = job[p].goal
      /\ \A q \in Procs \ {p} : job'[q] = job[q]
  BY <1>1, Goes DEF IInv
<1>4. StepKnown(p)'
  BY <1>1, <1>2, <1>3 DEF StepKnown, HandlerSteps, FlagSteps, Unassigned
<1>5. ASSUME p \in Sweeps PROVE VerdictStands(p)' /\ DateHeld(p)'
  <2>1. VerdictStands(p)'  BY <1>2, <1>3, <1>5, VerdictKept DEF history
  <2>2. DateHeld(p)'  BY <1>1, <1>3 DEF DateHeld, At
  <2>. QED  BY <2>1, <2>2
<1>6. disturbances' \in Nat  BY Disturbed DEF Edit, IInv
<1>7. roles' \in [Members -> SUBSET Roles]
  <2>1. roles \in [Members -> SUBSET Roles]  BY DEF IInv, TypeOK
  <2>2. roles' = roles \/ roles' = [roles EXCEPT ![m] = held]  BY DEF Edit
  <2>. QED  BY <2>1, <2>2
<1>. QED  BY <1>3, <1>4, <1>5, <1>6, <1>7, QuietStepKeeps DEF IInv, TypeOK

LEMMA TakeOldKeeps ==
    ASSUME IInv, NEW p \in Procs, TakeOld(p)
    PROVE  IInv'
<1>1. job[p].at = "take" /\ job[p].who \in Members
  BY DEF TakeOld, At, IInv, StepKnown, Unassigned
<1>2. roles[job[p].who] \ {Taken(job[p].goal)} \in SUBSET Roles  BY <1>1 DEF IInv, TypeOK
<1>3. GiveStep(job[p].who, job[p].goal) \in {"give", Exchanged(job[p].goal)}  BY NextCall
<1>4. /\ Goto(p, GiveStep(job[p].who, job[p].goal))
      /\ Edit(job[p].who, roles[job[p].who] \ {Taken(job[p].goal)})
      /\ UNCHANGED <<now, present, joined, spoken, cached, lastActive, afkUntil,
                     settings, row, history>>
  BY DEF TakeOld
<1>. QED  BY <1>1, <1>2, <1>3, <1>4, CallKeeps

LEMMA GiveNewKeeps ==
    ASSUME IInv, NEW p \in Procs, GiveNew(p)
    PROVE  IInv'
<1>1. job[p].at = "give" /\ job[p].who \in Members
  BY DEF GiveNew, At, IInv, StepKnown, Unassigned
<1>2. roles[job[p].who] \cup {Given(job[p].goal)} \in SUBSET Roles
  BY <1>1 DEF IInv, TypeOK, Given, Roles
<1>3. /\ Goto(p, Exchanged(job[p].goal))
      /\ Edit(job[p].who, roles[job[p].who] \cup {Given(job[p].goal)})
      /\ UNCHANGED <<now, present, joined, spoken, cached, lastActive, afkUntil,
                     settings, row, history>>
  BY DEF GiveNew
<1>. QED  BY <1>1, <1>2, <1>3, CallKeeps

\* A process is done with its member.
LEMMA ReleaseShape ==
    ASSUME IInv, NEW p \in Procs, job' = [job EXCEPT ![p] = Released(p)]
    PROVE  /\ job' \in [Procs -> Jobs] /\ \A q \in Procs \ {p} : job'[q] = job[q]
           /\ StepKnown(p)' /\ (p \in Sweeps => VerdictStands(p)' /\ DateHeld(p)')
<1>1. /\ Released(p) \in Jobs /\ Released(p).at \in {"idle", "next"} /\ Released(p).goal = "none"
      /\ p \in Handlers => Released(p).at = "idle"
  BY ReleasedType, IdleType, Processes DEF IInv
<1>2. job' \in [Procs -> Jobs] /\ job'[p] = Released(p) /\ \A q \in Procs \ {p} : job'[q] = job[q]
  BY <1>1, Shapes, Moved DEF IInv
<1>. QED  BY <1>1, <1>2, FreeGood

LEMMA ClearKeeps ==
    ASSUME IInv, NEW p \in Procs, Clear(p)
    PROVE  IInv'
<1>1. /\ job' \in [Procs -> Jobs] /\ \A q \in Procs \ {p} : job'[q] = job[q]
      /\ StepKnown(p)' /\ (p \in Sweeps => VerdictStands(p)' /\ DateHeld(p)')
  BY ReleaseShape DEF Clear
<1>2. UNCHANGED <<now, present, joined, roles, spoken, cached, lastActive, afkUntil, enabled,
                  bootstrapped, suppressed, told, raced, disturbances>>
  BY DEF Clear, guildVars, settings, history, Plain
<1>3. row \in [Members -> Rows] /\ row' = [row EXCEPT ![job[p].who] = NoRow] /\ NoRow \in Rows
      /\ NoRow.removeAt = 0 /\ ~NoRow.first
  BY Shapes, IdleType DEF Clear, IInv, NoRow
<1>4. row' \in [Members -> Rows] /\ \A m \in Members : row'[m] \in {row[m], NoRow}  BY <1>3
<1>5. TypeOK'  BY <1>1, <1>2, <1>4 DEF IInv, TypeOK
<1>6. RowsTold'  BY <1>2, <1>3, <1>4 DEF IInv, RowsTold
<1>7. \A m \in Members : row'[m].removeAt \in {row[m].removeAt, 0}  BY <1>3, <1>4
<1>. QED  BY <1>1, <1>2, <1>5, <1>6, <1>7, StepKeeps

\* A sweep begins.
LEMMA BegunShape ==
    ASSUME IInv, NEW s \in Sweeps, Begun(s)
    PROVE  /\ job' \in [Procs -> Jobs] /\ \A q \in Procs \ {s} : job'[q] = job[q]
           /\ StepKnown(s)' /\ VerdictStands(s)' /\ DateHeld(s)'
<1>. DEFINE r == [Idle EXCEPT !.at = IF bootstrapped THEN "next" ELSE "backfill",
                              !.todo = IF bootstrapped THEN present ELSE {},
                              !.loud = (s = Weekly /\ ~suppressed),
                              !.boot = ~bootstrapped]
<1>1. s \in Procs /\ s \notin Handlers /\ job \in [Procs -> Jobs] /\ present \subseteq Members
  BY Processes, Shapes DEF IInv, TypeOK
<1>2. CASE job' = [job EXCEPT ![s] = Idle]  BY <1>1, <1>2, RaisedShape
<1>3. CASE job' = [job EXCEPT ![s] = r]
  <2>1. (s = Weekly /\ ~suppressed) \in BOOLEAN /\ (~bootstrapped) \in BOOLEAN  OBVIOUS
  <2>2. r \in Jobs /\ r.at \in {"next", "backfill"} /\ r.goal = "none"
    BY <1>1, <2>1, IdleType DEF Jobs, Steps, Idle
  <2>3. job' \in [Procs -> Jobs] /\ job'[s] = r /\ \A q \in Procs \ {s} : job'[q] = job[q]
    BY <1>1, <1>3, <2>2, Moved
  <2>. QED  BY <1>1, <2>2, <2>3, FreeGood
<1>. QED  BY <1>2, <1>3 DEF Begun

LEMMA BeginKeeps ==
    ASSUME IInv, Begin
    PROVE  IInv'
<1>1. Weekly \in Sweeps /\ Weekly \in Procs  BY Processes DEF Sweeps
<1>2. /\ job' \in [Procs -> Jobs] /\ \A q \in Procs \ {Weekly} : job'[q] = job[q]
      /\ StepKnown(Weekly)' /\ VerdictStands(Weekly)' /\ DateHeld(Weekly)'
  BY <1>1, BegunShape DEF Begin
<1>3. UNCHANGED <<now, lastActive, afkUntil, settings, row, history, present, joined, roles, cached, spoken, disturbances>>
  BY DEF Begin, guildVars, Plain
<1>. QED  BY <1>1, <1>2, <1>3, QuietStepKeeps DEF IInv, TypeOK

LEMMA HistoryRead ==
    ASSUME IInv, BackfillsHistory
    PROVE  /\ lastActive' \in [Members -> Int] /\ raced \subseteq raced' /\ raced' \subseteq Members
           /\ \A m \in Members : lastActive'[m] \in {lastActive[m], now} \/ m \in raced'
                                   \/ \A q \in Sweeps : job[q].who # m
<1>1. lastActive' \in [Members -> Int]
  BY DEF BackfillsHistory, Backfilled, IInv, TypeOK
<1>2. raced' = raced \cup {m \in Members : lastActive'[m] # lastActive[m] /\ InHand(m) # {}}
  BY DEF BackfillsHistory
<1>. QED  BY <1>1, <1>2 DEF InHand, IInv, TypeOK

LEMMA BackfillBeginKeeps ==
    ASSUME IInv, BackfillBegin
    PROVE  IInv'
<1>1. Backfill \in Sweeps /\ Backfill \in Procs  BY Processes DEF Sweeps
<1>2. /\ job' \in [Procs -> Jobs] /\ \A q \in Procs \ {Backfill} : job'[q] = job[q]
      /\ StepKnown(Backfill)' /\ VerdictStands(Backfill)' /\ DateHeld(Backfill)'
  BY <1>1, BegunShape DEF BackfillBegin
<1>3. UNCHANGED <<now, present, joined, roles, spoken, cached, afkUntil, enabled, bootstrapped, suppressed,
                  row, told>>
  BY DEF BackfillBegin, guildVars, settings
<1>4. /\ lastActive' \in [Members -> Int] /\ raced \subseteq raced' /\ raced' \subseteq Members
      /\ \A m \in Members : lastActive'[m] \in {lastActive[m], now} \/ m \in raced'
                              \/ \A q \in Sweeps : job[q].who # m
  BY HistoryRead DEF BackfillBegin
<1>5. disturbances' \in Nat  BY Disturbed DEF BackfillBegin, IInv
<1>6. TypeOK'  BY <1>2, <1>3, <1>4, <1>5 DEF IInv, TypeOK
<1>7. RowsTold'  BY <1>3, <1>4 DEF IInv, RowsTold
<1>. QED  BY <1>1, <1>2, <1>3, <1>4, <1>6, <1>7, StepKeeps

LEMMA BootBackfillKeeps ==
    ASSUME IInv, NEW s \in Sweeps, BootBackfill(s)
    PROVE  IInv'
<1>1. /\ s \in Procs /\ s \notin Handlers /\ job \in [Procs -> Jobs] /\ job[s] \in Jobs
      /\ present \subseteq Members /\ job[s].at = "backfill" /\ StepKnown(s)
  BY Processes, Shapes DEF IInv, TypeOK, BootBackfill, At
<1>2. /\ job' \in [Procs -> Jobs] /\ \A q \in Procs \ {s} : job'[q] = job[q]
      /\ StepKnown(s)' /\ VerdictStands(s)' /\ DateHeld(s)'
  <2>1. job' = [job EXCEPT ![s] = [job[s] EXCEPT !.at = "next", !.todo = present]]
    BY <1>1 DEF BootBackfill
  <2>2. [job[s] EXCEPT !.at = "next", !.todo = present] \in Jobs  BY <1>1 DEF Jobs, Steps
  <2>3. /\ job' \in [Procs -> Jobs] /\ job'[s] = [job[s] EXCEPT !.at = "next", !.todo = present]
        /\ \A q \in Procs \ {s} : job'[q] = job[q]
    BY <1>1, <2>1, <2>2, Moved
  <2>4. job'[s].at = "next" /\ job'[s].goal = job[s].goal  BY <1>1, <2>3 DEF Jobs
  <2>5. job[s].goal # "flag"  BY <1>1 DEF StepKnown, FlagSteps
  <2>. QED  BY <1>1, <2>3, <2>4, <2>5, FreeGood
<1>3. UNCHANGED <<now, present, joined, roles, spoken, cached, afkUntil, enabled, bootstrapped, suppressed,
                  row, told, disturbances>>
  BY DEF BootBackfill, guildVars, settings, Plain
<1>4. /\ lastActive' \in [Members -> Int] /\ raced \subseteq raced' /\ raced' \subseteq Members
      /\ \A m \in Members : lastActive'[m] \in {lastActive[m], now} \/ m \in raced'
                              \/ \A q \in Sweeps : job[q].who # m
  BY HistoryRead DEF BootBackfill
<1>5. TypeOK'  BY <1>2, <1>3, <1>4 DEF IInv, TypeOK
<1>6. RowsTold'  BY <1>3, <1>4 DEF IInv, RowsTold
<1>. QED  BY <1>1, <1>2, <1>3, <1>4, <1>5, <1>6, StepKeeps

\* A member is judged.
LEMMA FlagVerdict ==
    ASSUME TypeOK, NEW m \in Members, Verdict(m) = "flag"
    PROVE  m \notin Protected /\ afkUntil[m] <= now /\ lastActive[m] + InactiveAfter <= now
<1>1. m \notin Protected /\ ~(now < afkUntil[m]) /\ Silent(m)  BY DEF Verdict
<1>2. joined[m] \in Nat /\ lastActive[m] \in Int /\ afkUntil[m] \in Nat /\ now \in Nat
  BY Shapes DEF TypeOK, Times
<1>. QED  BY <1>1, <1>2 DEF Silent, Heard, Never

LEMMA JudgeKeeps ==
    ASSUME IInv, NEW s \in Sweeps, Judge(s)
    PROVE  IInv'
<1>1. s \in Procs /\ s \notin Handlers /\ job \in [Procs -> Jobs] /\ job[s] \in Jobs
  BY Processes, Shapes DEF IInv
<1>2. PICK m \in job[s].todo :
         job' = [job EXCEPT ![s].at = RolesStep(m, Verdict(m)), ![s].who = m,
                            ![s].todo = @ \ {m}, ![s].goal = Verdict(m)]
  BY DEF Judge
<1>3. m \in Members /\ Verdict(m) \in {"up", "park", "flag"}  BY <1>1, <1>2 DEF Jobs, Verdict
<1>. DEFINE step == RolesStep(m, Verdict(m))
<1>31. /\ step \in {"take", "give", "get", "clear"}
       /\ step = "get" => Verdict(m) = "flag"
  BY NextCall
<1>32. step \in Steps  BY <1>31 DEF Steps
<1>. HIDE DEF step
<1>. DEFINE r == [job[s] EXCEPT !.at = step, !.who = m, !.todo = job[s].todo \ {m}, !.goal = Verdict(m)]
<1>4. job' = [job EXCEPT ![s] = r]  BY <1>1, <1>2 DEF step
<1>5. r \in Jobs /\ r.at = step /\ r.who = m /\ r.goal = Verdict(m)
  BY <1>1, <1>3, <1>32 DEF Jobs
<1>6. job' \in [Procs -> Jobs] /\ job'[s] = r /\ \A q \in Procs \ {s} : job'[q] = job[q]
  BY <1>1, <1>4, <1>5, Moved
<1>7. UNCHANGED <<now, lastActive, afkUntil, settings, row, history, present, joined, roles, cached, spoken, disturbances>>
  BY DEF Judge, guildVars, Plain
<1>. HIDE DEF r
<1>8. StepKnown(s)'  BY <1>1, <1>3, <1>31, <1>5, <1>6 DEF StepKnown, FlagSteps, Unassigned
<1>9. VerdictStands(s)'  BY <1>3, <1>5, <1>6, <1>7, FlagVerdict DEF VerdictStands, IInv
<1>10. DateHeld(s)'  BY <1>31, <1>5, <1>6 DEF DateHeld, At
<1>. QED  BY <1>1, <1>6, <1>7, <1>8, <1>9, <1>10, QuietStepKeeps DEF IInv, TypeOK

LEMMA SweepEndsKeeps ==
    ASSUME IInv, NEW s \in Sweeps, SweepEnds(s)
    PROVE  IInv'
<1>1. s \in Procs  BY Processes
<1>2. /\ job' \in [Procs -> Jobs] /\ \A q \in Procs \ {s} : job'[q] = job[q]
      /\ StepKnown(s)' /\ (s \in Sweeps => VerdictStands(s)' /\ DateHeld(s)')
  BY <1>1, RaisedShape DEF SweepEnds
<1>3. UNCHANGED <<now, present, joined, roles, spoken, cached, lastActive, afkUntil, enabled, suppressed,
                  row, told, raced, disturbances>>
  BY DEF SweepEnds, guildVars, history, Plain
<1>4. bootstrapped' \in BOOLEAN  BY Zenon DEF SweepEnds
<1>5. TypeOK'  BY <1>2, <1>3, <1>4 DEF IInv, TypeOK
<1>6. RowsTold'  BY <1>3 DEF IInv, RowsTold
<1>. QED  BY <1>1, <1>2, <1>3, <1>5, <1>6, StepKeeps

\* A sweep goes on with the row it holds.
LEMMA HoldsShape ==
    ASSUME IInv, NEW s \in Sweeps, job[s].at \in FlagSteps, NEW rec \in Rows, Holds(s, rec)
    PROVE  /\ job' \in [Procs -> Jobs] /\ \A q \in Procs \ {s} : job'[q] = job[q]
           /\ StepKnown(s)'
           /\ \/ job'[s].goal = "none" /\ job'[s].at \notin FlagSteps
              \/ /\ job'[s].goal = job[s].goal /\ job'[s].who = job[s].who /\ job'[s].rec = rec
                 /\ \/ job'[s].at = "first" \/ job'[s].at = "final"
                    \/ job'[s].at = "kick" /\ rec.first /\ rec.removeAt <= now
<1>1. /\ s \in Procs /\ s \notin Handlers /\ job \in [Procs -> Jobs] /\ job[s] \in Jobs
      /\ StepKnown(s) /\ job[s].who \in Members /\ job[s].goal = "flag"
  BY Processes, Shapes DEF IInv, StepKnown, FlagSteps, Unassigned
<1>2. rec.removeAt \in Nat /\ now \in Nat  BY Shapes DEF IInv, Rows, NoRow
<1>. DEFINE step == AfterRow(job[s], rec)
            r == [job[s] EXCEPT !.at = step, !.rec = rec]
<1>3. /\ step \in {"next", "first", "kick", "final"}
      /\ step = "kick" => rec.first /\ rec.removeAt <= now
  BY <1>2 DEF AfterRow, AfterFirst
<1>4. CASE step = "next"
  <2>1. job' = [job EXCEPT ![s] = Released(s)]  BY <1>4 DEF Holds
  <2>2. /\ job' \in [Procs -> Jobs] /\ \A q \in Procs \ {s} : job'[q] = job[q]
        /\ StepKnown(s)'
    BY <1>1, <2>1, ReleaseShape
  <2>3. job'[s] = Released(s)  BY <1>1, <2>1
  <2>4. job'[s].goal = "none" /\ job'[s].at \notin FlagSteps
    BY <1>1, <2>3, ReleasedType DEF IInv, FlagSteps
  <2>. QED  BY <2>2, <2>4
<1>5. CASE step # "next"
  <2>1. job' = [job EXCEPT ![s] = r]  BY <1>1, <1>5 DEF Holds
  <2>2. step \in Steps  BY <1>3 DEF Steps
  <2>3. r \in Jobs /\ r.at = step /\ r.who = job[s].who /\ r.goal = job[s].goal /\ r.rec = rec
    <3>. HIDE DEF step
    <3>. QED  BY <1>1, <2>2 DEF Jobs
  <2>4. job' \in [Procs -> Jobs] /\ job'[s] = r /\ \A q \in Procs \ {s} : job'[q] = job[q]
    <3>. HIDE DEF r
    <3>. QED  BY <1>1, <2>1, <2>3, Moved
  <2>5. /\ job'[s].at = step /\ job'[s].who = job[s].who /\ job'[s].goal = job[s].goal
        /\ job'[s].rec = rec
    BY <2>3, <2>4
  <2>. HIDE DEF step, r
  <2>6. StepKnown(s)'
    BY <1>1, <1>3, <1>5, <2>5 DEF StepKnown, FlagSteps, Unassigned
  <2>. QED  BY <1>3, <1>5, <2>4, <2>5, <2>6
<1>. QED  BY <1>4, <1>5

\* The same with the row a sweep already holds.
LEMMA ContinueShape ==
    ASSUME IInv, NEW s \in Sweeps, job[s].at \in FlagSteps, NEW step \in {"next", "kick", "final"},
           Continue(s, step)
    PROVE  /\ job' \in [Procs -> Jobs] /\ \A q \in Procs \ {s} : job'[q] = job[q]
           /\ StepKnown(s)'
           /\ \/ job'[s].goal = "none" /\ job'[s].at \notin FlagSteps
              \/ /\ job'[s].goal = job[s].goal /\ job'[s].who = job[s].who
                 /\ job'[s].rec = job[s].rec /\ job'[s].at = step /\ step # "next"
<1>1. /\ s \in Procs /\ s \notin Handlers /\ job \in [Procs -> Jobs] /\ job[s] \in Jobs
      /\ StepKnown(s) /\ job[s].who \in Members /\ job[s].goal = "flag"
  BY Processes, Shapes DEF IInv, StepKnown, FlagSteps, Unassigned
<1>2. CASE step = "next"
  <2>1. job' = [job EXCEPT ![s] = Released(s)]  BY <1>2 DEF Continue
  <2>2. /\ job' \in [Procs -> Jobs] /\ \A q \in Procs \ {s} : job'[q] = job[q]
        /\ StepKnown(s)'
    BY <1>1, <2>1, ReleaseShape
  <2>3. job'[s] = Released(s)  BY <1>1, <2>1
  <2>4. job'[s].goal = "none" /\ job'[s].at \notin FlagSteps
    BY <1>1, <2>3, ReleasedType DEF IInv, FlagSteps
  <2>. QED  BY <2>2, <2>4
<1>3. CASE step # "next"
  <2>1. Goto(s, step)  BY <1>1, <1>3 DEF Continue, Goto
  <2>2. step \in Steps  BY DEF Steps
  <2>3. /\ job' \in [Procs -> Jobs] /\ job'[s].at = step
        /\ job'[s].who = job[s].who /\ job'[s].goal = job[s].goal
        /\ job'[s].rec = job[s].rec
        /\ \A q \in Procs \ {s} : job'[q] = job[q]
    BY <1>1, <2>1, <2>2, Goes DEF IInv
  <2>4. StepKnown(s)'
    BY <1>1, <1>3, <2>3 DEF StepKnown, FlagSteps, Unassigned
  <2>. QED  BY <1>3, <2>3, <2>4
<1>. QED  BY <1>2, <1>3

\* A mark changes neither the date nor, when there is no countdown, anything.
LEMMA MarkedShape ==
    ASSUME TypeOK, NEW m \in Members, NEW flag \in {"first", "final"}
    PROVE  /\ Marked(m, flag) \in [Members -> Rows]
           /\ \A x \in Members : Marked(m, flag)[x].removeAt = row[x].removeAt
           /\ \A x \in Members \ {m} : Marked(m, flag)[x] = row[x]
           /\ row[m].removeAt = 0 => Marked(m, flag)[m] = row[m]
           /\ flag = "final" => Marked(m, flag)[m].first = row[m].first
<1>1. row \in [Members -> Rows] /\ row[m] \in Rows  BY Shapes
<1>. DEFINE r == IF row[m].removeAt = 0 THEN row[m] ELSE [row[m] EXCEPT ![flag] = TRUE]
<1>2. /\ r \in Rows /\ r.removeAt = row[m].removeAt
      /\ row[m].removeAt = 0 => r = row[m]
      /\ flag = "final" => r.first = row[m].first
  <2>1. CASE row[m].removeAt = 0  BY <1>1, <2>1
  <2>2. CASE row[m].removeAt # 0
    <3>1. row[m] \in [removeAt : Nat \ {0}, first : BOOLEAN, final : BOOLEAN]
      BY <1>1, <2>2 DEF Rows, NoRow
    <3>2. CASE flag = "first"  BY <2>2, <3>1, <3>2 DEF Rows
    <3>3. CASE flag = "final"  BY <2>2, <3>1, <3>3 DEF Rows
    <3>. QED  BY <3>2, <3>3
  <2>. QED  BY <2>1, <2>2
<1>3. Marked(m, flag) = [row EXCEPT ![m] = r]  BY <1>1 DEF Marked
<1>. HIDE DEF r
<1>. QED  BY <1>1, <1>2, <1>3

\* The sweep reads the row.
LEMMA GetRowKeeps ==
    ASSUME IInv, NEW s \in Sweeps, GetRow(s)
    PROVE  IInv'
<1>. DEFINE m == job[s].who
<1>1. /\ s \in Procs /\ s \notin Handlers /\ job[s].at = "get" /\ job[s].at \in FlagSteps
      /\ StepKnown(s) /\ VerdictStands(s) /\ m \in Members /\ row[m] \in Rows
      /\ "watch" \in Steps /\ job[s].goal = "flag"
  BY Processes, Shapes DEF IInv, GetRow, At, FlagSteps, StepKnown, Unassigned, Steps
<1>2. UNCHANGED <<now, lastActive, afkUntil, settings, row, history, present, joined, roles, cached, spoken, disturbances>>
  BY DEF GetRow, guildVars, Plain
<1>3. /\ job' \in [Procs -> Jobs] /\ \A q \in Procs \ {s} : job'[q] = job[q]
      /\ StepKnown(s)' /\ VerdictStands(s)' /\ DateHeld(s)'
  <2>1. CASE Goto(s, "watch")
    <3>1. /\ job' \in [Procs -> Jobs] /\ \A q \in Procs \ {s} : job'[q] = job[q]
          /\ job'[s].at = "watch" /\ job'[s].who = m /\ job'[s].goal = job[s].goal
      BY <1>1, <2>1, Goes DEF IInv
    <3>2. StepKnown(s)'  BY <1>1, <3>1 DEF StepKnown, FlagSteps, Unassigned
    <3>3. VerdictStands(s)'  BY <1>1, <1>2, <3>1, VerdictKept DEF history
    <3>4. DateHeld(s)'  BY <3>1 DEF DateHeld, At
    <3>. QED  BY <3>1, <3>2, <3>3, <3>4
  <2>2. CASE Holds(s, row[m])
    <3>1. /\ job' \in [Procs -> Jobs] /\ \A q \in Procs \ {s} : job'[q] = job[q]
          /\ StepKnown(s)'
          /\ \/ job'[s].goal = "none" /\ job'[s].at \notin FlagSteps
             \/ /\ job'[s].goal = job[s].goal /\ job'[s].who = job[s].who /\ job'[s].rec = row[m]
                /\ \/ job'[s].at = "first" \/ job'[s].at = "final"
                   \/ job'[s].at = "kick" /\ row[m].first /\ row[m].removeAt <= now
      BY <1>1, <2>2, HoldsShape
    <3>2. CASE job'[s].goal = "none" /\ job'[s].at \notin FlagSteps
      BY <3>1, <3>2 DEF VerdictStands, DateHeld, At, FlagSteps
    <3>3. CASE /\ job'[s].goal = job[s].goal /\ job'[s].who = job[s].who /\ job'[s].rec = row[m]
               /\ \/ job'[s].at = "first" \/ job'[s].at = "final"
                  \/ job'[s].at = "kick" /\ row[m].first /\ row[m].removeAt <= now
      <4>1. VerdictStands(s)'  BY <1>1, <1>2, <3>3, VerdictKept DEF history
      <4>2. row' = row /\ told' = told /\ raced' = raced /\ now' = now  BY <1>2 DEF history
      <4>3. row[m].first => <<m, row[m].removeAt>> \in told \/ m \in raced
        BY <1>1 DEF IInv, RowsTold
      <4>4. DateHeld(s)'  BY <3>3, <4>2, <4>3 DEF DateHeld, At
      <4>. QED  BY <3>1, <4>1, <4>4
    <3>. QED  BY <3>1, <3>2, <3>3
  <2>. QED  BY <2>1, <2>2 DEF GetRow
<1>. QED  BY <1>1, <1>2, <1>3, QuietStepKeeps DEF IInv, TypeOK

\* The sweep opens a countdown.
LEMMA WatchKeeps ==
    ASSUME IInv, NEW s \in Sweeps, Watch(s)
    PROVE  IInv'
<1>. DEFINE m == job[s].who
            rec == [NoRow EXCEPT !.removeAt = RemoveAt(job[s])]
<1>1. /\ s \in Procs /\ s \notin Handlers /\ job[s].at = "watch" /\ job[s].at \in FlagSteps
      /\ StepKnown(s) /\ VerdictStands(s) /\ m \in Members /\ row \in [Members -> Rows]
      /\ "grandfather" \in Steps /\ job[s].goal = "flag"
  BY Processes, Shapes DEF IInv, Watch, At, FlagSteps, StepKnown, Unassigned, Steps
<1>2. rec \in Rows /\ rec.removeAt = RemoveAt(job[s]) /\ ~rec.first  BY NewRow DEF IInv
<1>3. /\ row' = [row EXCEPT ![m] = rec]
      /\ raced' = IF InHand(m) \ {s} # {} THEN raced \cup {m} ELSE raced
      /\ UNCHANGED <<now, present, joined, roles, spoken, cached, lastActive, afkUntil, enabled,
                     bootstrapped, suppressed, told, disturbances>>
  BY DEF Watch, guildVars, settings, Plain
<1>. HIDE DEF rec
<1>4. row' \in [Members -> Rows] /\ row'[m] = rec /\ \A x \in Members \ {m} : row'[x] = row[x]
  BY <1>1, <1>2, <1>3
<1>5. raced \subseteq raced' /\ raced' \subseteq Members
  BY <1>1, <1>3 DEF IInv, TypeOK
<1>6. \A x \in Members : row'[x].removeAt \in {row[x].removeAt, 0} \/ x \in raced'
                           \/ \A q \in Sweeps \ {s} : job[q].who # x
  BY <1>3, <1>4 DEF InHand
<1>7. /\ job' \in [Procs -> Jobs] /\ \A q \in Procs \ {s} : job'[q] = job[q]
      /\ StepKnown(s)' /\ VerdictStands(s)' /\ DateHeld(s)'
  <2>1. CASE Goto(s, "grandfather")
    <3>1. /\ job' \in [Procs -> Jobs] /\ \A q \in Procs \ {s} : job'[q] = job[q]
          /\ job'[s].at = "grandfather" /\ job'[s].who = m /\ job'[s].goal = job[s].goal
          /\ job'[s].boot = job[s].boot
      BY <1>1, <2>1, Goes DEF IInv
    <3>2. StepKnown(s)'  BY <1>1, <3>1 DEF StepKnown, FlagSteps, Unassigned
    <3>3. VerdictStands(s)'  BY <1>1, <1>3, <1>5, <3>1, VerdictKept
    <3>4. RemoveAt(job[s])' = RemoveAt(job[s])  BY <1>3, <3>1 DEF RemoveAt
    <3>5. DateHeld(s)'  BY <1>2, <1>4, <3>1, <3>4 DEF DateHeld, At
    <3>. QED  BY <3>1, <3>2, <3>3, <3>5
  <2>2. CASE Holds(s, rec)
    <3>1. /\ job' \in [Procs -> Jobs] /\ \A q \in Procs \ {s} : job'[q] = job[q]
          /\ StepKnown(s)'
          /\ \/ job'[s].goal = "none" /\ job'[s].at \notin FlagSteps
             \/ /\ job'[s].goal = job[s].goal /\ job'[s].who = job[s].who /\ job'[s].rec = rec
                /\ job'[s].at \in {"first", "final"}
      BY <1>1, <1>2, <2>2, HoldsShape
    <3>2. CASE job'[s].goal = "none" /\ job'[s].at \notin FlagSteps
      BY <3>1, <3>2 DEF VerdictStands, DateHeld, At, FlagSteps
    <3>3. CASE /\ job'[s].goal = job[s].goal /\ job'[s].who = job[s].who /\ job'[s].rec = rec
               /\ job'[s].at \in {"first", "final"}
      <4>1. VerdictStands(s)'  BY <1>1, <1>3, <1>5, <3>3, VerdictKept
      <4>2. DateHeld(s)'  BY <1>4, <3>3 DEF DateHeld, At
      <4>. QED  BY <3>1, <4>1, <4>2
    <3>. QED  BY <3>1, <3>2, <3>3
  <2>. QED  BY <2>1, <2>2 DEF Watch, rec
<1>8. TypeOK'  BY <1>3, <1>4, <1>5, <1>7 DEF IInv, TypeOK
<1>9. RowsTold'
  BY <1>2, <1>3, <1>4, <1>5 DEF IInv, RowsTold
<1>. QED  BY <1>1, <1>3, <1>5, <1>6, <1>7, <1>8, <1>9, StepKeeps

\* The first sweep gives its members the date without a DM.
LEMMA GrandfatherKeeps ==
    ASSUME IInv, NEW s \in Sweeps, Grandfather(s)
    PROVE  IInv'
<1>. DEFINE m == job[s].who
            date == RemoveAt(job[s])
            rec == [NoRow EXCEPT !.removeAt = date, !.first = TRUE]
<1>1. /\ s \in Procs /\ s \notin Handlers /\ job[s].at = "grandfather" /\ job[s].at \in FlagSteps
      /\ StepKnown(s) /\ VerdictStands(s) /\ m \in Members /\ row \in [Members -> Rows]
      /\ job[s].goal = "flag"
      /\ row[m].removeAt \in {0, date} \/ m \in raced
  BY Processes, Shapes DEF IInv, Grandfather, At, FlagSteps, StepKnown, Unassigned, DateHeld
<1>2. rec \in Rows /\ rec.removeAt = date /\ date \in Nat /\ date > now  BY NewRow DEF IInv
<1>3. /\ row' = Marked(m, "first") /\ told' = told \cup {<<m, date>>}
      /\ Holds(s, rec)
      /\ UNCHANGED <<now, present, joined, roles, spoken, cached, lastActive, afkUntil, enabled,
                     bootstrapped, suppressed, raced, disturbances>>
  BY <1>2 DEF Grandfather, guildVars, settings, Plain
<1>. HIDE DEF rec, date
<1>4. /\ row' \in [Members -> Rows] /\ \A x \in Members : row'[x].removeAt = row[x].removeAt
      /\ \A x \in Members \ {m} : row'[x] = row[x]
      /\ row[m].removeAt = 0 => row'[m] = row[m]
  BY <1>1, <1>3, MarkedShape DEF IInv
<1>5. /\ job' \in [Procs -> Jobs] /\ \A q \in Procs \ {s} : job'[q] = job[q]
      /\ StepKnown(s)'
      /\ \/ job'[s].goal = "none" /\ job'[s].at \notin FlagSteps
         \/ /\ job'[s].goal = job[s].goal /\ job'[s].who = job[s].who /\ job'[s].rec = rec
            /\ \/ job'[s].at = "first" \/ job'[s].at = "final"
               \/ job'[s].at = "kick" /\ rec.first /\ rec.removeAt <= now
  BY <1>1, <1>2, <1>3, HoldsShape
<1>6. VerdictStands(s)' /\ DateHeld(s)'
  <2>1. CASE job'[s].goal = "none" /\ job'[s].at \notin FlagSteps
    BY <2>1 DEF VerdictStands, DateHeld, At, FlagSteps
  <2>2. CASE job'[s].goal = job[s].goal /\ job'[s].who = job[s].who /\ job'[s].rec = rec
    <3>1. VerdictStands(s)'  BY <1>1, <1>3, <2>2, VerdictKept
    <3>2. row'[m].removeAt \in {0, date} \/ m \in raced'  BY <1>1, <1>3, <1>4
    <3>3. DateHeld(s)'
      <4>1. job'[s].at \in {"first", "final", "kick"}
              /\ (job'[s].at = "kick" => rec.removeAt <= now)
        BY <1>5, <1>1, <2>2
      <4>2. <<m, date>> \in told'  BY <1>3
      <4>. QED  BY <1>2, <1>3, <2>2, <3>2, <4>1, <4>2 DEF DateHeld, At
    <3>. QED  BY <3>1, <3>3
  <2>. QED  BY <1>5, <2>1, <2>2
<1>7. told' \subseteq Members \X Nat  BY <1>1, <1>2, <1>3 DEF IInv, TypeOK
<1>8. TypeOK'  BY <1>3, <1>4, <1>5, <1>7 DEF IInv, TypeOK
<1>9. RowsTold'
  <2>1. ASSUME NEW x \in Members, row'[x].first PROVE <<x, row'[x].removeAt>> \in told' \/ x \in raced'
    <3>1. CASE row'[x] = row[x]  BY <1>3, <2>1, <3>1 DEF IInv, RowsTold
    <3>2. CASE x = m /\ row[m].removeAt # 0  BY <1>1, <1>3, <1>4, <3>2
    <3>. QED  BY <1>4, <3>1, <3>2
  <2>. QED  BY <2>1 DEF RowsTold
<1>. QED  BY <1>1, <1>3, <1>4, <1>5, <1>6, <1>8, <1>9, StepKeeps

\* The first notice.
LEMMA FirstKeeps ==
    ASSUME IInv, NEW s \in Sweeps, First(s)
    PROVE  IInv'
<1>. DEFINE m == job[s].who
            date == job[s].rec.removeAt
<1>1. /\ s \in Procs /\ s \notin Handlers /\ job[s].at = "first" /\ "markFirst" \in Steps
      /\ StepKnown(s) /\ VerdictStands(s) /\ m \in Members /\ job[s].goal = "flag"
      /\ row[m].removeAt \in {0, date} \/ m \in raced
      /\ date \in Nat
  BY Processes, Shapes DEF IInv, First, At, FlagSteps, StepKnown, Unassigned, DateHeld, Steps
<1>2. /\ told' = told \cup {<<m, date>>} /\ Goto(s, "markFirst")
      /\ UNCHANGED <<now, present, joined, roles, spoken, cached, lastActive, afkUntil, enabled,
                     bootstrapped, suppressed, row, raced, disturbances>>
  BY DEF First, guildVars, settings, Plain
<1>3. /\ job' \in [Procs -> Jobs] /\ job'[s].at = "markFirst"
      /\ job'[s].who = job[s].who /\ job'[s].goal = job[s].goal /\ job'[s].rec = job[s].rec
      /\ \A q \in Procs \ {s} : job'[q] = job[q]
  BY <1>1, <1>2, Goes DEF IInv
<1>4. StepKnown(s)'  BY <1>1, <1>3 DEF StepKnown, FlagSteps, Unassigned
<1>5. VerdictStands(s)'  BY <1>1, <1>2, <1>3, VerdictKept
<1>6. DateHeld(s)'  BY <1>1, <1>2, <1>3 DEF DateHeld, At
<1>7. told' \subseteq Members \X Nat  BY <1>1, <1>2 DEF IInv, TypeOK
<1>8. TypeOK'  BY <1>2, <1>3, <1>7 DEF IInv, TypeOK
<1>9. RowsTold'  BY <1>2 DEF IInv, RowsTold
<1>. QED  BY <1>1, <1>2, <1>3, <1>4, <1>5, <1>6, <1>8, <1>9, StepKeeps

\* Its mark.
LEMMA MarkFirstKeeps ==
    ASSUME IInv, NEW s \in Sweeps, MarkFirst(s)
    PROVE  IInv'
<1>. DEFINE m == job[s].who
            date == job[s].rec.removeAt
            step == AfterFirst(job[s], job[s].rec)
<1>1. /\ s \in Procs /\ s \notin Handlers /\ job[s].at = "markFirst" /\ job[s].at \in FlagSteps
      /\ StepKnown(s) /\ VerdictStands(s) /\ m \in Members /\ job[s].goal = "flag"
      /\ row[m].removeAt \in {0, date} \/ m \in raced
      /\ <<m, date>> \in told /\ date \in Nat /\ now \in Nat
  BY Processes, Shapes DEF IInv, MarkFirst, At, FlagSteps, StepKnown, Unassigned, DateHeld
<1>2. /\ row' = Marked(m, "first") /\ Continue(s, step)
      /\ UNCHANGED <<now, present, joined, roles, spoken, cached, lastActive, afkUntil, enabled,
                     bootstrapped, suppressed, told, raced, disturbances>>
  BY DEF MarkFirst, guildVars, settings, history, Plain
<1>3. step \in {"next", "kick", "final"} /\ (step = "kick" => date <= now)
  BY <1>1 DEF AfterFirst
<1>. HIDE DEF step
<1>4. /\ row' \in [Members -> Rows] /\ \A x \in Members : row'[x].removeAt = row[x].removeAt
      /\ \A x \in Members \ {m} : row'[x] = row[x]
      /\ row[m].removeAt = 0 => row'[m] = row[m]
  BY <1>1, <1>2, MarkedShape DEF IInv
<1>5. /\ job' \in [Procs -> Jobs] /\ \A q \in Procs \ {s} : job'[q] = job[q]
      /\ StepKnown(s)'
      /\ \/ job'[s].goal = "none" /\ job'[s].at \notin FlagSteps
         \/ /\ job'[s].goal = job[s].goal /\ job'[s].who = job[s].who
            /\ job'[s].rec = job[s].rec /\ job'[s].at = step /\ step # "next"
  BY <1>1, <1>2, <1>3, ContinueShape
<1>6. VerdictStands(s)' /\ DateHeld(s)'
  <2>1. CASE job'[s].goal = "none" /\ job'[s].at \notin FlagSteps
    BY <2>1 DEF VerdictStands, DateHeld, At, FlagSteps
  <2>2. CASE /\ job'[s].goal = job[s].goal /\ job'[s].who = job[s].who
             /\ job'[s].rec = job[s].rec /\ job'[s].at = step /\ step # "next"
    <3>1. VerdictStands(s)'  BY <1>1, <1>2, <2>2, VerdictKept
    <3>2. DateHeld(s)'  BY <1>1, <1>2, <1>3, <2>2 DEF DateHeld, At
    <3>. QED  BY <3>1, <3>2
  <2>. QED  BY <1>5, <2>1, <2>2
<1>7. TypeOK'  BY <1>2, <1>4, <1>5 DEF IInv, TypeOK
<1>8. RowsTold'
  <2>1. ASSUME NEW x \in Members, row'[x].first PROVE <<x, row'[x].removeAt>> \in told' \/ x \in raced'
    <3>1. CASE row'[x] = row[x]  BY <1>2, <2>1, <3>1 DEF IInv, RowsTold
    <3>2. CASE x = m /\ row[m].removeAt # 0  BY <1>1, <1>2, <1>4, <3>2
    <3>. QED  BY <1>4, <3>1, <3>2
  <2>. QED  BY <2>1 DEF RowsTold
<1>. QED  BY <1>1, <1>2, <1>4, <1>5, <1>6, <1>7, <1>8, StepKeeps

\* The kick.
LEMMA KickKeeps ==
    ASSUME IInv, NEW s \in Sweeps, Kick(s)
    PROVE  IInv'
<1>1. /\ s \in Procs /\ s \notin Handlers /\ job[s].at = "kick" /\ "clear" \in Steps
      /\ StepKnown(s) /\ VerdictStands(s) /\ job[s].who \in Members /\ Goto(s, "clear")
  BY Processes DEF IInv, Kick, At, FlagSteps, StepKnown, Unassigned, Steps
<1>2. /\ job' \in [Procs -> Jobs] /\ job'[s].at = "clear"
      /\ job'[s].who = job[s].who /\ job'[s].goal = job[s].goal
      /\ \A q \in Procs \ {s} : job'[q] = job[q]
  BY <1>1, Goes DEF IInv
<1>3. UNCHANGED <<now, lastActive, afkUntil, settings, row, history, disturbances>>  BY DEF Kick, Plain
<1>4. /\ present' \subseteq Members /\ joined' = joined /\ spoken' = spoken
      /\ roles' \in [Members -> SUBSET Roles] /\ cached' \in [Members -> SUBSET Roles]
  BY <1>1, GoneTypes DEF Kick, IInv
<1>5. StepKnown(s)'  BY <1>1, <1>2 DEF StepKnown, FlagSteps, Unassigned
<1>6. VerdictStands(s)'  BY <1>1, <1>2, <1>3, VerdictKept DEF history
<1>7. DateHeld(s)'  BY <1>2 DEF DateHeld, At
<1>. QED  BY <1>1, <1>2, <1>3, <1>4, <1>5, <1>6, <1>7, QuietStepKeeps DEF IInv, TypeOK

LEMMA KickRefusedKeeps ==
    ASSUME IInv, NEW s \in Sweeps, KickRefused(s)
    PROVE  IInv'
<1>1. s \in Procs /\ job' = [job EXCEPT ![s] = Released(s)]
  BY Processes, Shapes DEF IInv, KickRefused, Continue
<1>2. /\ job' \in [Procs -> Jobs] /\ \A q \in Procs \ {s} : job'[q] = job[q]
      /\ StepKnown(s)' /\ (s \in Sweeps => VerdictStands(s)' /\ DateHeld(s)')
  BY <1>1, ReleaseShape
<1>3. UNCHANGED <<now, lastActive, afkUntil, settings, row, history, present, joined, roles, cached, spoken>>
  BY DEF KickRefused, guildVars
<1>4. disturbances' \in Nat  BY Disturbed DEF KickRefused, IInv
<1>. QED  BY <1>1, <1>2, <1>3, <1>4, QuietStepKeeps DEF IInv, TypeOK

\* The final notice.
LEMMA FinalKeeps ==
    ASSUME IInv, NEW s \in Sweeps, Final(s)
    PROVE  IInv'
<1>. DEFINE m == job[s].who
<1>1. /\ s \in Procs /\ StepKnown(s) /\ m \in Members
      /\ job' = [job EXCEPT ![s] = Released(s)]
  BY Processes, Shapes DEF IInv, Final, At, Continue, StepKnown, Unassigned
<1>2. /\ job' \in [Procs -> Jobs] /\ \A q \in Procs \ {s} : job'[q] = job[q]
      /\ StepKnown(s)' /\ (s \in Sweeps => VerdictStands(s)' /\ DateHeld(s)')
  BY <1>1, ReleaseShape
<1>3. /\ row' = Marked(m, "final")
      /\ UNCHANGED <<now, present, joined, roles, spoken, cached, lastActive, afkUntil, enabled,
                     bootstrapped, suppressed, told, raced, disturbances>>
  BY DEF Final, guildVars, settings, history, Plain
<1>4. /\ row' \in [Members -> Rows] /\ \A x \in Members : row'[x].removeAt = row[x].removeAt
      /\ \A x \in Members : row'[x].first = row[x].first
  BY <1>1, <1>3, MarkedShape DEF IInv
<1>5. TypeOK'  BY <1>2, <1>3, <1>4 DEF IInv, TypeOK
<1>6. RowsTold'  BY <1>3, <1>4 DEF IInv, RowsTold
<1>. QED  BY <1>1, <1>2, <1>3, <1>4, <1>5, <1>6, StepKeeps

\* Faults.
LEMMA RaiseKeeps ==
    ASSUME IInv, NEW p \in Procs, Raise(p)
    PROVE  IInv'
<1>1. /\ job' \in [Procs -> Jobs] /\ \A q \in Procs \ {p} : job'[q] = job[q]
      /\ StepKnown(p)' /\ (p \in Sweeps => VerdictStands(p)' /\ DateHeld(p)')
  BY RaisedShape DEF Raise
<1>2. UNCHANGED <<now, lastActive, afkUntil, settings, row, history, present, joined, roles, cached, spoken>>
  BY DEF Raise, guildVars
<1>3. disturbances' \in Nat  BY Disturbed DEF Raise, IInv
<1>. QED  BY <1>1, <1>2, <1>3, QuietStepKeeps DEF IInv, TypeOK

LEMMA BotCrashKeeps ==
    ASSUME IInv, BotCrash
    PROVE  IInv'
<1>1. job' = [p \in Procs |-> Idle] /\ \A p \in Procs : job'[p] = Idle  BY DEF BotCrash
<1>2. job' \in [Procs -> Jobs]  BY <1>1, IdleType
<1>3. \A p \in Procs : StepKnown(p)' /\ VerdictStands(p)' /\ DateHeld(p)'
  <2>1. SUFFICES ASSUME NEW p \in Procs PROVE StepKnown(p)' /\ VerdictStands(p)' /\ DateHeld(p)'
    OBVIOUS
  <2>. QED  BY <1>1, IdleType, FreeGood
<1>4. UNCHANGED <<now, lastActive, afkUntil, enabled, bootstrapped, suppressed, row, told, raced,
                  present, joined, roles, spoken>>
  BY DEF BotCrash, settings, history
<1>5. cached' \in [Members -> SUBSET Roles]  BY DEF BotCrash, IInv, TypeOK
<1>6. disturbances' \in Nat  BY Disturbed DEF BotCrash, IInv
<1>7. TypeOK'  BY <1>2, <1>4, <1>5, <1>6 DEF IInv, TypeOK
<1>8. RowsTold'  BY <1>4 DEF IInv, RowsTold
<1>. QED  BY <1>3, <1>7, <1>8, Processes DEF IInv

LEMMA StutterKeeps ==
    ASSUME IInv, UNCHANGED vars
    PROVE  IInv'
<1>1. UNCHANGED <<now, present, joined, roles, spoken, cached, lastActive, afkUntil, enabled,
                  bootstrapped, suppressed, row, job, told, raced, disturbances>>
  BY DEF vars, guildVars, settings, history
<1>2. TypeOK' /\ RowsTold'  BY <1>1 DEF IInv, TypeOK, RowsTold
<1>3. \A q \in Procs : StepKnown(q)' /\ (q \in Sweeps => VerdictStands(q)' /\ DateHeld(q)')
  BY <1>1, OthersGood
<1>. QED  BY <1>2, <1>3, Processes DEF IInv

LEMMA NextKeeps ==
    ASSUME IInv, [Next]_vars
    PROVE  IInv'
<1>1. CASE World
  <2>1. CASE Tick  BY <2>1, TickKeeps
  <2>2. CASE SetEnabled \/ SetSuppressed  BY <2>2, OutsideKeeps
  <2>3. CASE BackfillBegin  BY <2>3, BackfillBeginKeeps
  <2>4. CASE BotCrash  BY <2>4, BotCrashKeeps
  <2>5. CASE \E m \in Members : Unheard(m) \/ StaffRoles(m) \/ Afk(m)  BY <2>5, OutsideKeeps
  <2>6. CASE \E p \in Procs : Raise(p)  BY <2>6, RaiseKeeps
  <2>. QED  BY <1>1, <2>1, <2>2, <2>3, <2>4, <2>5, <2>6 DEF World
<1>2. CASE Begin  BY <1>2, BeginKeeps
<1>3. ASSUME NEW h \in Handlers, Event(h) PROVE IInv'
  BY <1>3, SpeakKeeps, MemberUpdateKeeps, JoinKeeps, LeaveKeeps DEF Event
<1>4. ASSUME NEW h \in Handlers, HandlerStep(h) PROVE IInv'
  BY <1>4, Processes, WakeKeeps, SyncKeeps, RecordKeeps, TakeOldKeeps, GiveNewKeeps, ClearKeeps
  DEF HandlerStep
<1>5. ASSUME NEW s \in Sweeps, SweepStep(s) PROVE IInv'
  <2>1. CASE BootBackfill(s) \/ Judge(s) \/ SweepEnds(s)
    BY <2>1, BootBackfillKeeps, JudgeKeeps, SweepEndsKeeps
  <2>2. CASE TakeOld(s) \/ GiveNew(s) \/ Clear(s)
    BY <2>2, Processes, TakeOldKeeps, GiveNewKeeps, ClearKeeps
  <2>3. CASE GetRow(s) \/ Watch(s) \/ Grandfather(s)
    BY <2>3, GetRowKeeps, WatchKeeps, GrandfatherKeeps
  <2>4. CASE First(s) \/ MarkFirst(s) \/ Final(s)
    BY <2>4, FirstKeeps, MarkFirstKeeps, FinalKeeps
  <2>5. CASE Kick(s) \/ KickRefused(s)  BY <2>5, KickKeeps, KickRefusedKeeps
  <2>. QED  BY <1>5, <2>1, <2>2, <2>3, <2>4, <2>5 DEF SweepStep
<1>6. CASE UNCHANGED vars  BY <1>6, StutterKeeps
<1>. QED  BY <1>1, <1>2, <1>3, <1>4, <1>5, <1>6 DEF Next

\* Every reachable state satisfies the inductive invariant.
THEOREM Invariance == Spec => []IInv
<1>1. IInv /\ [Next]_vars => IInv'  BY NextKeeps
<1>. QED  BY InitIInv, <1>1, PTL DEF Spec

\* The variables keep their types; in particular a notice is marked only in a
\* row that has a date (mark_initial_notice and mark_final_notice update, they
\* do not insert).
THEOREM TypeCorrect == Spec => []TypeOK
<1>1. IInv => TypeOK  BY DEF IInv
<1>. QED  BY Invariance, <1>1, PTL

\* A member is kicked for a date they were told of (process_guild and its
\* notices), for any members, periods and number of events.
THEOREM ToldTheDateCorrect == Spec => ToldTheDate
<1>1. IInv /\ [Next]_vars =>
        [\A s \in Sweeps : KickedBy(s) =>
           <<job[s].who, job[s].rec.removeAt>> \in told \/ job[s].who \in raced]_vars
  BY DEF IInv, DateHeld, KickedBy
<1>. QED  BY Invariance, <1>1, PTL DEF Spec, ToldTheDate

\* A kick is due: the date has come, and the silence and the exemptions the
\* sweep went by stand, but for what the member did since.
THEOREM KickWasDueCorrect == Spec => KickWasDue
<1>1. ASSUME IInv, NEW s \in Sweeps, KickedBy(s)
      PROVE  LET m == job[s].who IN
             /\ job[s].rec.removeAt <= now /\ m \notin Protected
             /\ afkUntil[m] <= now \/ afkUntil[m] >= now + AfkDays
             /\ lastActive[m] + InactiveAfter <= now \/ lastActive[m] = now \/ m \in raced
  <2>1. job[s].at = "kick" /\ StepKnown(s)  BY <1>1, Processes DEF KickedBy, At, IInv
  <2>2. job[s].goal = "flag"  BY <2>1 DEF StepKnown, FlagSteps
  <2>3. VerdictStands(s) /\ DateHeld(s)  BY <1>1 DEF IInv
  <2>. QED  BY <2>1, <2>2, <2>3 DEF VerdictStands, DateHeld, At
<1>2. IInv /\ [Next]_vars =>
        [\A s \in Sweeps : KickedBy(s) =>
           LET m == job[s].who IN
           /\ job[s].rec.removeAt <= now /\ m \notin Protected
           /\ afkUntil[m] <= now \/ afkUntil[m] >= now + AfkDays
           /\ lastActive[m] + InactiveAfter <= now \/ lastActive[m] = now \/ m \in raced]_vars
  BY <1>1
<1>. QED  BY Invariance, <1>2, PTL DEF Spec, KickWasDue

=============================================================================
