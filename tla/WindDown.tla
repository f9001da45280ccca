------------------------------ MODULE WindDown ------------------------------
(***************************************************************************)
(* Rob's scheduled shutdown.  A loop in the bot advances the wind-down     *)
(* phase as dated boundaries pass, the owner may set it by hand, and in    *)
(* the last phase the final sequence runs once: closing numbers, a         *)
(* farewell DM with a keepsake to every registered user, and then the      *)
(* irreversible anonymisation of the guild's sends.                        *)
(*                                                                         *)
(* The phase, the auto-advance switch and one flag per finished step are   *)
(* rows of bot_settings and survive a restart; the lock that keeps two     *)
(* runs of the sequence apart lives in the process.  An action is the code *)
(* between two awaits.                                                     *)
(***************************************************************************)
EXTENDS Naturals, FiniteSets

CONSTANTS
    Recipients,     \* registered users who are not blacklisted
    Kicks,          \* tasks spawned by /winddown phase:3 that may coexist
    MaxFaults,      \* bound: crashes of the bot and unexpected exceptions
    MaxCommands     \* bound: owner commands

FinalPhase == 3
Loop == "loop"          \* the background task, woken every 15 minutes
NoRecipient == "nobody"
Runners == Kicks \cup {Loop}

ASSUME RunnersAssumption == Loop \notin Kicks /\ NoRecipient \notin Recipients
ASSUME BoundsAssumption == MaxFaults \in Nat /\ MaxCommands \in Nat

VARIABLES
    clock,              \* the phase due by the calendar
    phase, auto,        \* bot_settings: wind_down_phase, ..._auto_advance
    flags,              \* bot_settings: the finished steps of the sequence
    pc,                 \* where each runner is
    target,             \* the phase the loop is about to store
    lock,               \* whether the process-local lock is held
    todo, cur, empty,   \* per runner: users to DM, the one in hand, and
                        \* whether the keepsake in hand has no history
    \* history
    erased,             \* the anonymisation has run
    dms, reached,       \* farewells sent; users tried to be reached
    hollow,             \* users whose keepsake was built from erased rows
    forced,             \* the owner set the final phase by hand
    faults, cutShort,   \* interruptions; those that hit a mass DM
    commands

windSettings == <<phase, auto>>
local    == <<target, lock, todo, cur, empty>>
mail     == <<dms, reached, hollow>>
counters == <<forced, faults, cutShort, commands>>

windVars == <<clock, windSettings, flags, pc, local, erased, mail, counters>>

WindInit ==
    /\ clock = 0 /\ phase = 0 /\ auto = TRUE /\ flags = {}
    /\ erased = FALSE
    /\ pc = [r \in Runners |-> "idle"]
    /\ target = 0 /\ lock = FALSE
    /\ todo = [r \in Runners |-> {}]
    /\ cur = [r \in Runners |-> NoRecipient]
    /\ empty = [r \in Runners |-> FALSE]
    /\ dms = [p \in Recipients |-> 0] /\ reached = {} /\ hollow = {}
    /\ forced = FALSE /\ faults = 0 /\ cutShort = 0 /\ commands = 0

Step(r, from, to) == pc[r] = from /\ pc' = [pc EXCEPT ![r] = to]

-----------------------------------------------------------------------------
(***************************************************************************)
(* The loop: apply_due_phase, and then the final sequence.                 *)
(***************************************************************************)
LoopWake ==
    /\ Step(Loop, "idle", "auto")
    /\ UNCHANGED <<clock, windSettings, flags, local, erased, mail, counters>>

ReadAuto ==
    /\ Step(Loop, "auto", IF auto THEN "current" ELSE "phase")
    /\ UNCHANGED <<clock, windSettings, flags, local, erased, mail, counters>>

\* Mutant: a boundary counted early.
NextBoundary == IF clock < FinalPhase THEN clock + 1 ELSE clock
\* compute_wind_down_phase(utc_now())
DuePhase == clock

ReadCurrent ==
    /\ Step(Loop, "current", IF DuePhase > phase THEN "advance" ELSE "phase")
    /\ target' = DuePhase
    /\ UNCHANGED <<clock, windSettings, flags, lock, todo, cur, empty, erased, mail,
                   counters>>

Advance ==
    /\ Step(Loop, "advance", "phase")
    /\ phase' = target
    /\ UNCHANGED <<clock, auto, flags, local, erased, mail, counters>>

-----------------------------------------------------------------------------
(***************************************************************************)
(* maybe_run, by the loop or by a task that the owner's command spawned.   *)
(***************************************************************************)
RunnerRest == <<clock, windSettings, target, counters>>
InHandOfRuns == <<todo, cur, empty>>

CheckPhase(r) ==
    /\ Step(r, "phase", IF phase < FinalPhase THEN "idle" ELSE "completed?")
    /\ UNCHANGED <<RunnerRest, flags, lock, InHandOfRuns, erased, mail>>

CheckCompleted(r) ==
    /\ Step(r, "completed?", IF "completed" \in flags THEN "idle" ELSE "lock")
    /\ UNCHANGED <<RunnerRest, flags, lock, InHandOfRuns, erased, mail>>

\* Mutant: the sequence runs without its lock.
NoLock == FALSE
Locked == lock

\* A run that finds the lock taken gives up; else it takes it at once.
TakeLock(r) ==
    /\ Step(r, "lock", IF Locked THEN "idle" ELSE "recheck")
    /\ lock' = TRUE
    /\ UNCHANGED <<RunnerRest, flags, InHandOfRuns, erased, mail>>

Recheck(r) ==
    /\ Step(r, "recheck", IF "completed" \in flags THEN "idle" ELSE "stats?")
    /\ lock' = ("completed" \notin flags)
    /\ UNCHANGED <<RunnerRest, flags, InHandOfRuns, erased, mail>>

\* Closing numbers: one attempt, flagged done whether it worked or not.
Stats(r) ==
    /\ Step(r, "stats?", IF "stats" \in flags THEN "dms?" ELSE "statsDone")
    /\ UNCHANGED <<RunnerRest, flags, lock, InHandOfRuns, erased, mail>>

\* Mutant: the flag is never stored.
FlagNothing(r, at, flag, to) ==
    /\ Step(r, at, to)
    /\ UNCHANGED flags
\* Set the flag of a finished step and go on to the next.
SetFlag(r, at, flag, to) ==
    /\ Step(r, at, to)
    /\ flags' = flags \cup {flag}

FlagStats(r) ==
    /\ SetFlag(r, "statsDone", "stats", "dms?")
    /\ UNCHANGED <<RunnerRest, lock, InHandOfRuns, erased, mail>>

CheckDms(r) ==
    /\ Step(r, "dms?", IF "dms" \in flags THEN "anonymise?" ELSE "resolve")
    /\ UNCHANGED <<RunnerRest, flags, lock, InHandOfRuns, erased, mail>>

\* The registered users, without those Discord cannot find.
Resolve(r) ==
    /\ Step(r, "resolve", "dm")
    /\ \E found \in SUBSET Recipients :
         /\ todo' = [todo EXCEPT ![r] = found]
         /\ reached' = reached \cup (Recipients \ found)
    /\ UNCHANGED <<RunnerRest, flags, lock, cur, empty, erased, dms, hollow>>

\* The next user: their sends are read and the keepsake is built.
BuildKeepsake(r) ==
    /\ Step(r, "dm", "card")
    /\ \E p \in todo[r] :
         /\ todo' = [todo EXCEPT ![r] = @ \ {p}]
         /\ cur' = [cur EXCEPT ![r] = p]
    /\ empty' = [empty EXCEPT ![r] = erased]
    /\ UNCHANGED <<RunnerRest, flags, lock, erased, mail>>

\* The card, then the PDF in a message of its own.
SendCard(r) ==
    /\ Step(r, "card", "pdf")
    /\ dms' = [dms EXCEPT ![cur[r]] = @ + 1]
    /\ reached' = reached \cup {cur[r]}
    /\ UNCHANGED <<RunnerRest, flags, lock, InHandOfRuns, erased, hollow>>

SendPdf(r) ==
    /\ Step(r, "pdf", "dm")
    /\ hollow' = IF empty[r] THEN hollow \cup {cur[r]} ELSE hollow
    /\ UNCHANGED <<RunnerRest, flags, lock, InHandOfRuns, erased, dms, reached>>

\* Discord refuses the card or the PDF: counted, and on to the next user.
Refused(r) ==
    /\ pc[r] \in {"card", "pdf"}
    /\ pc' = [pc EXCEPT ![r] = "dm"]
    /\ reached' = reached \cup {cur[r]}
    /\ UNCHANGED <<RunnerRest, flags, lock, InHandOfRuns, erased, dms, hollow>>

\* Mutant: the flag is set as soon as one user has been handled.
DmsDoneEarly(r) == todo[r] # Recipients
DmsDone(r) == todo[r] = {}

FlagDms(r) ==
    /\ DmsDone(r)
    /\ SetFlag(r, "dm", "dms", "anonymise?")
    /\ UNCHANGED <<RunnerRest, lock, InHandOfRuns, erased, mail>>

CheckAnonymise(r) ==
    /\ Step(r, "anonymise?",
            IF "anonymised" \in flags THEN "finish" ELSE "anonymise")
    /\ UNCHANGED <<RunnerRest, flags, lock, InHandOfRuns, erased, mail>>

\* anonymise_guild_sends: one UPDATE of every row of the guild.
Anonymise(r) ==
    /\ Step(r, "anonymise", "anonymised")
    /\ erased' = TRUE
    /\ UNCHANGED <<RunnerRest, flags, lock, InHandOfRuns, mail>>

FlagAnonymised(r) ==
    /\ SetFlag(r, "anonymised", "anonymised", "finish")
    /\ UNCHANGED <<RunnerRest, lock, InHandOfRuns, erased, mail>>

Complete(r) ==
    /\ SetFlag(r, "finish", "completed", "idle")
    /\ lock' = FALSE
    /\ UNCHANGED <<RunnerRest, InHandOfRuns, erased, mail>>

Run(r) ==
    \/ CheckPhase(r) \/ CheckCompleted(r) \/ TakeLock(r) \/ Recheck(r)
    \/ Stats(r) \/ FlagStats(r)
    \/ CheckDms(r) \/ Resolve(r) \/ BuildKeepsake(r)
    \/ SendCard(r) \/ SendPdf(r) \/ Refused(r) \/ FlagDms(r)
    \/ CheckAnonymise(r) \/ Anonymise(r) \/ FlagAnonymised(r) \/ Complete(r)

LoopStep == LoopWake \/ ReadAuto \/ ReadCurrent \/ Advance

-----------------------------------------------------------------------------
DmStates == {"resolve", "dm", "card", "pdf"}
Locking == {"recheck", "stats?", "statsDone", "dms?", "anonymise?",
            "anonymise", "anonymised", "finish"} \cup DmStates

FaultRest == <<clock, windSettings, flags, target, InHandOfRuns, erased, dms, hollow, forced,
               commands>>

\* The user in hand counts as tried, the rest of the list does not.
Cut(r) == IF pc[r] \in {"card", "pdf"} THEN {cur[r]} ELSE {}

\* An exception other than discord.HTTPException (database, network, PDF) ends
\* the run; the loop and the spawned task log it.
RunRaises(r) ==
    /\ pc[r] # "idle" /\ faults < MaxFaults
    /\ faults' = faults + 1
    /\ cutShort' = IF pc[r] \in DmStates THEN cutShort + 1 ELSE cutShort
    /\ pc' = [pc EXCEPT ![r] = "idle"]
    /\ lock' = IF pc[r] \in Locking THEN FALSE ELSE lock
    /\ reached' = reached \cup Cut(r)
    /\ UNCHANGED FaultRest

RobCrash ==
    /\ faults < MaxFaults
    /\ \E r \in Runners : pc[r] # "idle"
    /\ faults' = faults + 1
    /\ cutShort' = IF \E r \in Runners : pc[r] \in DmStates
                     THEN cutShort + 1 ELSE cutShort
    /\ pc' = [r \in Runners |-> "idle"]
    /\ lock' = FALSE
    /\ reached' = reached \cup UNION {Cut(r) : r \in Runners}
    /\ UNCHANGED FaultRest

-----------------------------------------------------------------------------
(***************************************************************************)
(* The calendar and the owner.                                             *)
(***************************************************************************)
OutsideRest == <<flags, local, erased, mail, faults, cutShort>>

Boundary ==
    /\ clock < FinalPhase /\ clock' = clock + 1
    /\ UNCHANGED <<OutsideRest, windSettings, pc, forced, commands>>

Command == commands < MaxCommands /\ commands' = commands + 1

OwnerAuto ==
    /\ Command /\ auto' = ~auto
    /\ UNCHANGED <<OutsideRest, clock, phase, pc, forced>>

\* /winddown phase:p stores the phase; for the final phase it spawns a run,
\* unless the bot dies in between.
OwnerPhase(p) ==
    /\ Command /\ phase' = p
    /\ forced' = (forced \/ p = FinalPhase)
    /\ \/ UNCHANGED pc
       \/ p = FinalPhase /\ \E k \in Kicks : Step(k, "idle", "phase")
    /\ UNCHANGED <<OutsideRest, clock, auto>>

Outside ==
    Boundary \/ OwnerAuto \/ \E p \in 0..FinalPhase : OwnerPhase(p)

WindNext ==
    \/ LoopStep
    \/ \E r \in Runners : Run(r) \/ RunRaises(r)
    \/ RobCrash
    \/ Outside

WindSpec == WindInit /\ [][WindNext]_windVars

(***************************************************************************)
(* The supervisor restarts the bot, discord.py wakes the loop again after  *)
(* every tick, and the calls a run awaits return or raise.                 *)
(***************************************************************************)
WindFairSpec == WindSpec /\ WF_windVars(LoopStep \/ Run(Loop))
                 /\ \A k \in Kicks : WF_windVars(Run(k))

-----------------------------------------------------------------------------
PcStates ==
    {"idle", "auto", "current", "advance", "phase", "completed?", "lock"} \cup Locking

WindTypeOK ==
    /\ clock \in 0..FinalPhase /\ phase \in 0..FinalPhase /\ auto \in BOOLEAN
    /\ flags \subseteq {"stats", "dms", "anonymised", "completed"}
    /\ erased \in BOOLEAN
    /\ pc \in [Runners -> PcStates]
    /\ target \in 0..FinalPhase /\ lock \in BOOLEAN
    /\ todo \in [Runners -> SUBSET Recipients]
    /\ cur \in [Runners -> Recipients \cup {NoRecipient}]
    /\ empty \in [Runners -> BOOLEAN]
    /\ dms \in [Recipients -> Nat]
    /\ reached \subseteq Recipients /\ hollow \subseteq Recipients
    /\ forced \in BOOLEAN /\ faults \in Nat /\ cutShort \in Nat /\ commands \in Nat

\* Nobody is sent a keepsake without their history: whatever crashes, raises or
\* overlaps, every keepsake is read from rows that were not anonymised yet.
KeepsakeHasHistory == hollow = {}

\* A user gets at most one farewell more than the mass DM was cut short.
FarewellOnce == \A p \in Recipients : dms[p] <= cutShort + 1

\* The sequence does not complete, and nothing is erased, before every
\* registered user was tried.
NobodyLeftOut == erased \/ "completed" \in flags => reached = Recipients

\* Erasure cannot be undone: it happens only once the calendar has reached the
\* last phase or the owner has asked for it.
ErasureWasDue == erased => forced \/ clock = FinalPhase

\* If the phase stays at its last value, the sequence completes.
FinalSequenceCompletes ==
    <>[](phase = FinalPhase) => <>("completed" \in flags)

\* The service's promise: a restart part-way "never repeats the mass DM".  Stated,
\* and not kept: the flag is set after the last recipient.
MassDmNeverRepeats == \A p \in Recipients : dms[p] <= 1

-----------------------------------------------------------------------------
(***************************************************************************)
(* The inductive invariant behind the four safety properties.              *)
(***************************************************************************)
\* One run at a time is between TakeLock and the release.
OneRun ==
    /\ \A r \in Runners : pc[r] \in Locking => lock
    /\ \A r, s \in Runners : pc[r] \in Locking /\ pc[s] \in Locking => r = s

\* Erasure comes after the mass DM, and the mass DM is not entered again.
StepsInOrder ==
    /\ \A r \in Runners :
         /\ pc[r] \in DmStates => "dms" \notin flags
         /\ pc[r] \in {"anonymise?", "anonymise", "anonymised", "finish"} => "dms" \in flags
         /\ pc[r] \in {"card", "pdf"} => ~empty[r]
    /\ erased \/ "completed" \in flags => "dms" \in flags
    /\ hollow = {}

\* The users a run still has to write to.
Ahead(r) == CASE pc[r] = "resolve" -> Recipients
              [] pc[r] = "card" -> todo[r] \cup {cur[r]}
              [] OTHER -> todo[r]

FarewellsCounted ==
    /\ \A p \in Recipients : dms[p] <= cutShort + 1
    /\ \A r \in Runners : pc[r] \in DmStates =>
         \A p \in Ahead(r) : dms[p] <= cutShort
    /\ ("dms" \notin flags /\ \A r \in Runners : pc[r] \notin DmStates)
         => \A p \in Recipients : dms[p] <= cutShort

EveryoneTried ==
    /\ \A r \in Runners : pc[r] \in DmStates => Recipients \ Ahead(r) \subseteq reached
    /\ "dms" \in flags => reached = Recipients

Due == forced \/ clock = FinalPhase
PhaseJustified ==
    /\ phase = FinalPhase => Due
    /\ target <= clock
    /\ \A r \in Runners : pc[r] \in Locking \cup {"completed?", "lock"} => Due
    /\ erased => Due

InHandKnown ==
    \A r \in Runners :
        pc[r] \in {"card", "pdf"} => cur[r] \in Recipients \ todo[r]

WindIInv ==
    /\ WindTypeOK /\ InHandKnown /\ OneRun /\ StepsInOrder
    /\ FarewellsCounted /\ EveryoneTried /\ PhaseJustified

=============================================================================
