----------------------------- MODULE CountGame -----------------------------
(***************************************************************************)
(* The count of a guild: members post the next number in turn.  A wrong    *)
(* number by a Sub or a Dom/me opens a recovery window in which a send can *)
(* save the count; when nobody sends in time, a Dom/me's mistake resets    *)
(* the count and a Sub is blocked for twelve hours.                        *)
(*                                                                         *)
(* In the bot the handlers of several messages, the ticker, the send-queue *)
(* task (which first sweeps once, at start-up) and an owner's command run  *)
(* at the same time; an action is the code between two awaits that read or *)
(* write the tables the_count, count_recovery_windows and count_blocks.    *)
(*                                                                         *)
(* From wind-down phase 3 on a message is ignored, as if it had not been   *)
(* sent.  The counting channel is configured and stays the same.  The high *)
(* watermark, which nothing reads, and the Discord cards are left out.     *)
(***************************************************************************)
EXTENDS Naturals

CONSTANTS
    Subs, Dommes, Others,   \* members by role
    Handlers,               \* messages that may be handled at the same time
    MaxNumber,              \* bound: numbers posted
    SetTo,                  \* bound: numbers the owner sets the count to
    MaxMessages,            \* bound: messages
    MaxSends,               \* bound: qualifying sends
    MaxDisturbances         \* bound: owner's commands, crashes and unexpected
                            \* exceptions, all together

Ticker == "ticker"
Queue == "send queue"
Setter == "setter"
Procs == Handlers \cup {Ticker, Queue, Setter}
Users == Subs \cup Dommes \cup Others
Nobody == "nobody"
Numbers == 0..MaxNumber
WindowIds == 1..MaxMessages
NoWindow == 0

ASSUME RolesAssumption ==
    Nobody \notin Users /\ Subs \cap Dommes = {} /\ Others \cap (Subs \cup Dommes) = {}
ASSUME ProcsAssumption == Handlers \cap {Ticker, Queue, Setter} = {}
ASSUME BoundsAssumption ==
    /\ MaxNumber \in Nat /\ SetTo \subseteq 0..MaxNumber /\ MaxMessages \in Nat
    /\ MaxSends \in Nat /\ MaxDisturbances \in Nat

VARIABLES
    \* table the_count
    number, last, pending,
    \* table count_recovery_windows: the rows, the last id; the windows whose
    \* deadline has passed
    failed, expected, resolution, lastWindow, due,
    \* table count_blocks, as far as blocked_until is in the future
    blocked,
    \* Rob Offline Mode
    disabled,
    \* the processes' local states; the windows a send in hand is in time for
    proc, covers,
    \* history: writes made for a window; windows whose writes were cut short;
    \* numbers that were counted up to, or given by the owner; counters
    applied, cut, earned, messages, sends, disturbances

countRow   == <<number, last, pending>>
windowRows == <<failed, expected, resolution, lastWindow>>
counters   == <<messages, sends, disturbances>>

vars == <<countRow, windowRows, due, blocked, disabled, proc, covers,
          applied, cut, earned, counters>>

Row == [number |-> number, last |-> last]
Blank == [number |-> 0, last |-> Nobody]
Windows == 1..lastWindow
Open == {w \in Windows : resolution[w] = "open"}

\* A process that does nothing: where it is; the windows it listed and the one
\* it has in hand, and whether that was found by a message that reads the row
\* again; where it goes on after cancelling; a copy of the row to be written
\* back; of a message, its author and number, the row as first read, and
\* whether recovery was disabled.
Idle == [at |-> "idle", todo |-> {}, hand |-> NoWindow, reread |-> FALSE,
         then |-> "none", copy |-> Blank,
         author |-> Nobody, posted |-> 0, seen |-> Blank, skip |-> FALSE]

\* Between two sweeps the ticker is about to begin the next.
Rest(p) == IF p = Ticker THEN [Idle EXCEPT !.at = "sweep"] ELSE Idle

\* The bot starts, and sweeps before it starts the queue task.
Started == [p \in Procs |-> IF p = Queue THEN [Idle EXCEPT !.at = "sweep"] ELSE Rest(p)]

Init ==
    /\ number = 0 /\ last = Nobody /\ pending = FALSE
    /\ failed = [w \in WindowIds |-> Nobody]
    /\ expected = [w \in WindowIds |-> 0]
    /\ resolution = [w \in WindowIds |-> "absent"]
    /\ lastWindow = 0 /\ due = {} /\ blocked = {} /\ disabled = FALSE
    /\ proc = Started
    /\ covers = {}
    /\ applied = [w \in WindowIds |-> 0] /\ cut = {} /\ earned = {0}
    /\ messages = 0 /\ sends = 0 /\ disturbances = 0

Disturb == disturbances < MaxDisturbances /\ disturbances' = disturbances + 1

At(p, step) == proc[p].at = step
Goto(p, step) == proc' = [proc EXCEPT ![p].at = step]
Done(p) == proc' = [proc EXCEPT ![p] = Idle]

\* CountingRepository.upsert: the whole row, whatever it holds now.
Upsert(n, user, flag) ==
    number' = n /\ last' = user /\ pending' = flag

\* Mutant: a window that is resolved already is resolved again.
MayResolveAgain(w) == TRUE
\* resolve_recovery_window: WHERE resolved_at IS NULL.
MayResolve(w) == resolution[w] = "open"

Resolve(w, outcome) ==
    /\ resolution' = [resolution EXCEPT ![w] = IF MayResolve(w) THEN outcome ELSE @]
    /\ UNCHANGED <<failed, expected, lastWindow>>

\* One of the writes that a window's outcome calls for.
Apply(w) == applied' = [applied EXCEPT ![w] = @ + 1]

\* What most steps leave alone.
World == <<due, disabled, cut, earned, counters>>

-----------------------------------------------------------------------------
(***************************************************************************)
(* _sync_recovery_windows, by the ticker, every message and every send:    *)
(* list the open windows, drop them if the mode disables recovery, expire  *)
(* those that are due and see to the flag of the others.                   *)
(***************************************************************************)
\* Mutant: the sweep leaves expired windows alone.
NeverDue(w) == FALSE
IsDue(w) == w \in due

\* What follows a sweep: the message is judged, the send looks for a window to
\* save, the ticker sleeps until the next one.
AfterSweep(p) ==
    IF p \in Handlers \/ (p = Queue /\ covers # {})
      THEN proc' = [proc EXCEPT ![p].at = IF p = Queue THEN "list" ELSE "block",
                      ![p].todo = {}, ![p].hand = NoWindow, ![p].copy = Blank]
      ELSE proc' = [proc EXCEPT ![p] = Rest(p)]

\* The loop goes on: the next of the listed windows is expired if it is due.
SweepOn(p) ==
    \/ proc[p].todo = {} /\ AfterSweep(p)
    \/ \E w \in proc[p].todo :
         proc' = [proc EXCEPT ![p].todo = @ \ {w}, ![p].hand = w, ![p].copy = Blank,
                              ![p].at = IF IsDue(w) THEN "expire" ELSE "flagRead"]

SweepList(p) ==
    /\ At(p, "sweep")
    /\ IF Open = {} THEN AfterSweep(p)
                    ELSE proc' = [proc EXCEPT ![p].at = "gate", ![p].todo = Open]
    /\ UNCHANGED <<World, countRow, windowRows, blocked, covers, applied>>

SweepGate(p) ==
    /\ At(p, "gate")
    /\ IF disabled THEN AfterSweep(p) ELSE SweepOn(p)
    /\ UNCHANGED <<World, countRow, windowRows, blocked, covers, applied>>

\* _ensure_pending_restore_flag: read the row, write it back with the flag.
FlagRead(p) ==
    /\ At(p, "flagRead")
    /\ IF pending THEN SweepOn(p)
                  ELSE proc' = [proc EXCEPT ![p].at = "flagWrite", ![p].copy = Row]
    /\ UNCHANGED <<World, countRow, windowRows, blocked, covers, applied>>

FlagWrite(p) ==
    /\ At(p, "flagWrite") /\ SweepOn(p)
    /\ Upsert(proc[p].copy.number, proc[p].copy.last, TRUE)
    /\ UNCHANGED <<World, windowRows, blocked, covers, applied>>

\* After a window was expired: to the next of the sweep, or to the message
\* that found it due.
Return(p) == IF proc[p].reread THEN Goto(p, "reread") ELSE SweepOn(p)

\* _expire_window: resolve; if this call resolved it, put the count where the
\* outcome wants it, and block a Sub.
Expire(p) ==
    LET w == proc[p].hand IN
    /\ At(p, "expire")
    /\ IF MayResolve(w) THEN Goto(p, "expireWrite") ELSE Return(p)
    /\ Resolve(w, IF failed[w] \in Dommes THEN "reset" ELSE "blocked")
    /\ UNCHANGED <<World, countRow, blocked, covers, applied>>

\* max(0, window.expected_number - 1)
Restored(w) == expected[w] - 1

ExpireWrite(p) ==
    LET w == proc[p].hand IN
    /\ At(p, "expireWrite")
    /\ Apply(w)
    /\ IF failed[w] \in Dommes
         THEN Upsert(0, Nobody, FALSE) /\ Return(p)
         ELSE Upsert(Restored(w), Nobody, FALSE) /\ Goto(p, "expireBlock")
    /\ UNCHANGED <<World, windowRows, blocked, covers>>

ExpireBlock(p) ==
    /\ At(p, "expireBlock") /\ Return(p)
    /\ blocked' = blocked \cup {failed[proc[p].hand]}
    /\ Apply(proc[p].hand)
    /\ UNCHANGED <<World, countRow, windowRows, covers>>

Sweep(p) ==
    \/ SweepList(p) \/ SweepGate(p) \/ FlagRead(p) \/ FlagWrite(p)
    \/ Expire(p) \/ ExpireWrite(p) \/ ExpireBlock(p)

-----------------------------------------------------------------------------
(***************************************************************************)
(* process_message.                                                        *)
(***************************************************************************)
\* A message arrives and the row is read.
Receive(h, user, n) ==
    /\ At(h, "idle") /\ messages < MaxMessages /\ messages' = messages + 1
    /\ proc' = [proc EXCEPT ![h] = [Idle EXCEPT
                  !.at = "mode", !.author = user, !.posted = n, !.seen = Row]]
    /\ UNCHANGED <<due, disabled, cut, earned, sends, disturbances, countRow, windowRows,
                   blocked, covers, applied>>

ReadMode(h) ==
    /\ At(h, "mode")
    /\ proc' = [proc EXCEPT ![h].skip = disabled,
                            ![h].at = IF disabled THEN "block" ELSE "sweep"]
    /\ UNCHANGED <<World, countRow, windowRows, blocked, covers, applied>>

\* Mutant: the number after next is accepted.
NextButOne(row) == row.number + 2
\* expected = state.current_number + 1
Following(row) == row.number + 1

\* What the message deserves, judged by a copy of the row: nothing, if the
\* author counted last; the following number counts; a wrong one resets the
\* count, or opens a window for a Sub or a Dom/me.
Judge(h, row) ==
    IF row.last = proc[h].author THEN Done(h)
    ELSE proc' = [proc EXCEPT ![h].at = "cancel", ![h].seen = row, ![h].hand = NoWindow,
           ![h].then =
             IF proc[h].posted = Following(row) THEN "count"
             ELSE IF proc[h].skip \/ proc[h].author \in Others THEN "reset" ELSE "window"]

\* A blocked Sub is turned away.
CheckBlock(h) ==
    /\ At(h, "block")
    /\ IF proc[h].author \in blocked THEN Done(h)
       ELSE IF proc[h].skip THEN Judge(h, proc[h].seen) ELSE Goto(h, "active")
    /\ UNCHANGED <<World, countRow, windowRows, blocked, covers, applied>>

\* get_active_recovery_window: the latest open one.
IsLatest(w) == w \in Open /\ \A v \in Open : v <= w

\* The count pauses while a window runs; if it is due by now, this handler
\* expires it and reads the row again.
CheckWindow(h) ==
    /\ At(h, "active")
    /\ \/ Open = {} /\ Judge(h, proc[h].seen)
       \/ \E w \in WindowIds :
            /\ IsLatest(w)
            /\ IF IsDue(w) THEN proc' = [proc EXCEPT ![h].at = "expire", ![h].hand = w,
                                                     ![h].reread = TRUE]
                           ELSE Done(h)
    /\ UNCHANGED <<World, countRow, windowRows, blocked, covers, applied>>

Reread(h) ==
    /\ At(h, "reread") /\ Judge(h, Row)
    /\ UNCHANGED <<World, countRow, windowRows, blocked, covers, applied>>

\* _cancel_active_windows_for_guild: list, then resolve one by one.
CancelOn(p, S) ==
    proc' = [proc EXCEPT ![p].todo = S,
               ![p].at = IF S = {} THEN proc[p].then ELSE "cancelEach"]

CancelList(p) ==
    /\ At(p, "cancel") /\ CancelOn(p, Open)
    /\ UNCHANGED <<World, countRow, windowRows, blocked, covers, applied>>

CancelNext(p) ==
    /\ At(p, "cancelEach")
    /\ \E w \in proc[p].todo :
         CancelOn(p, proc[p].todo \ {w}) /\ Resolve(w, "cancelled")
    /\ UNCHANGED <<World, countRow, blocked, covers, applied>>

Cancel(p) == CancelList(p) \/ CancelNext(p)

Count(h) ==
    /\ At(h, "count") /\ Done(h)
    /\ Upsert(proc[h].posted, proc[h].author, FALSE)
    /\ earned' = IF proc[h].posted - 1 \in earned THEN earned \cup {proc[h].posted}
                                                 ELSE earned
    /\ UNCHANGED <<due, disabled, cut, counters, windowRows, blocked, covers, applied>>

Reset(h) ==
    /\ At(h, "reset") /\ Done(h)
    /\ Upsert(0, Nobody, FALSE)
    /\ UNCHANGED <<World, windowRows, blocked, covers, applied>>

\* _start_recovery_window: read the row again and write it back flagged; then
\* create_recovery_window, two statements.
WindowRead(h) ==
    /\ At(h, "window")
    /\ proc' = [proc EXCEPT ![h].at = "windowFlag", ![h].copy = Row]
    /\ UNCHANGED <<World, countRow, windowRows, blocked, covers, applied>>

WindowFlag(h) ==
    /\ At(h, "windowFlag")
    /\ Upsert(proc[h].copy.number, proc[h].copy.last, TRUE)
    /\ proc' = [proc EXCEPT ![h].at = "windowClear", ![h].copy = Blank]
    /\ UNCHANGED <<World, windowRows, blocked, covers, applied>>

WindowClear(h) ==
    /\ At(h, "windowClear") /\ Goto(h, "windowInsert")
    /\ resolution' = [w \in WindowIds |-> IF w \in Open THEN "cancelled" ELSE resolution[w]]
    /\ UNCHANGED <<World, countRow, failed, expected, lastWindow, blocked, covers, applied>>

WindowInsert(h) ==
    LET w == lastWindow + 1 IN
    /\ At(h, "windowInsert") /\ Done(h) /\ w \in WindowIds
    /\ lastWindow' = w
    /\ failed' = [failed EXCEPT ![w] = proc[h].author]
    /\ expected' = [expected EXCEPT ![w] = Following(proc[h].seen)]
    /\ resolution' = [resolution EXCEPT ![w] = "open"]
    /\ UNCHANGED <<World, countRow, blocked, covers, applied>>

Handle(h) ==
    \/ ReadMode(h) \/ CheckBlock(h) \/ CheckWindow(h) \/ Reread(h)
    \/ Count(h) \/ Reset(h)
    \/ WindowRead(h) \/ WindowFlag(h) \/ WindowClear(h) \/ WindowInsert(h)

-----------------------------------------------------------------------------
(***************************************************************************)
(* process_send_for_count_rescue, by the send-queue task.                  *)
(***************************************************************************)
\* A send that qualifies for windows of one member: those, of the k oldest,
\* that had begun when it was made.  The mode is read first.
TakeSend(user, k) ==
    /\ At(Queue, "idle") /\ ~disabled /\ Goto(Queue, "sweep")
    /\ sends < MaxSends /\ sends' = sends + 1
    /\ covers' = {w \in 1..k : failed[w] = user} /\ covers' # {}
    /\ UNCHANGED <<due, disabled, cut, earned, messages, disturbances, countRow, windowRows,
                   blocked, applied>>

RescueOn(S) ==
    IF S = {} THEN Done(Queue)
    ELSE proc' = [proc EXCEPT ![Queue].at = "rescue", ![Queue].todo = S]

\* A window that is due is passed over.
RescueList ==
    /\ At(Queue, "list") /\ RescueOn({w \in Open \cap covers : ~IsDue(w)})
    /\ covers' = {}
    /\ UNCHANGED <<World, countRow, windowRows, blocked, applied>>

\* The first window that nobody else resolved meanwhile is saved.
RescueNext ==
    /\ At(Queue, "rescue")
    /\ \E w \in proc[Queue].todo :
         IF MayResolve(w)
           THEN /\ proc' = [proc EXCEPT ![Queue] =
                              [Idle EXCEPT !.at = "rescueWrite", !.hand = w]]
                /\ Resolve(w, "recovered")
           ELSE RescueOn(proc[Queue].todo \ {w}) /\ UNCHANGED windowRows
    /\ UNCHANGED <<World, countRow, blocked, covers, applied>>

\* The window is saved: the count goes on where it was.
RescueWrite ==
    /\ At(Queue, "rescueWrite") /\ Done(Queue)
    /\ Upsert(Restored(proc[Queue].hand), Nobody, FALSE)
    /\ Apply(proc[Queue].hand)
    /\ UNCHANGED <<World, windowRows, blocked, covers>>

Rescue == RescueList \/ RescueNext \/ RescueWrite

-----------------------------------------------------------------------------
(***************************************************************************)
(* The owner sets the count: /count set and the ops endpoint cancel the    *)
(* open windows first, the command line writes the row alone.              *)
(***************************************************************************)
OwnerSets ==
    /\ At(Setter, "idle") /\ Disturb
    /\ proc' = [proc EXCEPT ![Setter].then = "set", ![Setter].todo = Open,
                  ![Setter].at = IF Open = {} THEN "set" ELSE "cancelEach"]
    /\ UNCHANGED <<due, disabled, cut, earned, messages, sends, countRow, windowRows,
                   blocked, covers, applied>>

SetNumber(n) ==
    /\ \/ At(Setter, "set") /\ UNCHANGED disturbances
       \/ At(Setter, "idle") /\ Disturb
    /\ Done(Setter)
    /\ Upsert(n, Nobody, FALSE) /\ earned' = earned \cup {n}
    /\ UNCHANGED <<due, disabled, cut, messages, sends, windowRows, blocked, covers, applied>>

SwitchOffline ==
    /\ disabled' = ~disabled /\ Disturb
    /\ UNCHANGED <<due, cut, earned, messages, sends, countRow, windowRows, blocked, proc, covers, applied>>

\* Time: the deadline of an open window passes (that of another matters no
\* more); a block runs out.
Deadline(w) ==
    /\ w \in Open \ due /\ due' = due \cup {w}
    /\ UNCHANGED <<disabled, cut, earned, counters, countRow, windowRows, blocked, proc, covers, applied>>

Unblock(user) ==
    /\ user \in blocked /\ blocked' = blocked \ {user}
    /\ UNCHANGED <<World, countRow, windowRows, proc, covers, applied>>

(***************************************************************************)
(* An exception ends what a process is doing; it ends the ticker for good, *)
(* until the bot is restarted.  A crash ends everything.                   *)
(***************************************************************************)
WritingStates == {"expireWrite", "expireBlock", "rescueWrite"}
Writing(p) == proc[p].at \in WritingStates

Fault(P) ==
    /\ Disturb
    /\ cut' = cut \cup {proc[p].hand : p \in {q \in P : Writing(q)}}
    /\ covers' = IF Queue \in P THEN {} ELSE covers
    /\ UNCHANGED <<due, disabled, earned, messages, sends, countRow, windowRows,
                   blocked, applied>>

Raises(p) ==
    /\ ~At(p, "idle") /\ ~At(p, "dead") /\ Fault({p})
    /\ proc' = [proc EXCEPT ![p] =
         [Idle EXCEPT !.at = IF p = Ticker THEN "dead" ELSE "idle"]]

BotCrash ==
    /\ Fault(Procs)
    /\ proc' = Started

Next ==
    \/ \E p \in Procs : Sweep(p) \/ Cancel(p) \/ Raises(p)
    \/ \E h \in Handlers, user \in Users, n \in Numbers : Receive(h, user, n)
    \/ \E h \in Handlers : Handle(h)
    \/ \E user \in Subs \cup Dommes, k \in Windows : TakeSend(user, k)
    \/ Rescue
    \/ OwnerSets \/ (\E n \in SetTo : SetNumber(n)) \/ SwitchOffline
    \/ \E w \in WindowIds : Deadline(w)
    \/ \E user \in Subs : Unblock(user)
    \/ BotCrash

Spec == Init /\ [][Next]_vars

(***************************************************************************)
(* asyncio keeps the ticker running, and deadlines pass.  Nobody has to    *)
(* post, to send or to set anything.                                       *)
(***************************************************************************)
FairSpec ==
    /\ Spec
    /\ WF_vars(Sweep(Ticker))
    /\ \A w \in WindowIds : WF_vars(Deadline(w))

-----------------------------------------------------------------------------
SweepStates ==
    {"sweep", "gate", "flagRead", "flagWrite", "expire", "expireWrite", "expireBlock"}
TickerStates == SweepStates \cup {"dead"}
QueueStates == SweepStates \cup {"idle", "list", "rescue", "rescueWrite"}
SetterStates == {"idle", "cancelEach", "set"}
HandlerStates == SweepStates \cup
    {"idle", "mode", "block", "active", "reread", "cancel", "cancelEach", "count", "reset",
     "window", "windowFlag", "windowClear", "windowInsert"}
StatesOf(p) ==
    IF p = Ticker THEN TickerStates ELSE IF p = Queue THEN QueueStates
    ELSE IF p = Setter THEN SetterStates ELSE HandlerStates

Rows == [number : Numbers, last : Users \cup {Nobody}]
Locals ==
    [at : TickerStates \cup QueueStates \cup SetterStates \cup HandlerStates,
     todo : SUBSET WindowIds, hand : WindowIds \cup {NoWindow},
     reread : BOOLEAN, then : {"none", "count", "reset", "window", "set"}, copy : Rows,
     author : Users \cup {Nobody}, posted : Numbers, seen : Rows, skip : BOOLEAN]

TablesTyped ==
    /\ number \in Numbers /\ last \in Users \cup {Nobody} /\ pending \in BOOLEAN
    /\ failed \in [WindowIds -> Subs \cup Dommes \cup {Nobody}]
    /\ expected \in [WindowIds -> 0..(MaxNumber + 1)]
    /\ resolution \in [WindowIds ->
         {"absent", "open", "recovered", "blocked", "reset", "cancelled"}]
    /\ lastWindow \in 0..MaxMessages /\ due \subseteq WindowIds
    /\ blocked \subseteq Subs /\ disabled \in BOOLEAN /\ covers \subseteq WindowIds
    /\ applied \in [WindowIds -> Nat] /\ cut \subseteq WindowIds
    /\ earned \subseteq Numbers /\ messages \in 0..MaxMessages /\ sends \in 0..MaxSends
    /\ disturbances \in 0..MaxDisturbances

ProcsTyped ==
    /\ proc \in [Procs -> Locals]
    /\ \A p \in Procs : proc[p].at \in StatesOf(p)

\* Every table row, local state and counter has its type.
TypeOK == TablesTyped /\ ProcsTyped

\* The writes a window's outcome calls for: the count, and the block.
Owed(w) ==
    CASE resolution[w] = "blocked" -> 2
      [] resolution[w] \in {"recovered", "reset"} -> 1
      [] OTHER -> 0

\* However many sweeps, messages and sends meet a window, it has one outcome,
\* and that is carried out once: no Sub is blocked for a window a send saved,
\* none is blocked twice for one mistake, a cancelled window changes nothing,
\* and unless the bot was cut off in between, nothing of it is left undone.
OutcomeAppliedOnce ==
    /\ \A w \in WindowIds :
         /\ applied[w] <= Owed(w)
         /\ \/ applied[w] = Owed(w) \/ w \in cut
            \/ \E p \in Procs : Writing(p) /\ proc[p].hand = w
    /\ \A user \in blocked : \E w \in WindowIds :
         failed[w] = user /\ resolution[w] = "blocked"

\* Although rows are written back from old copies, the count never stands at a
\* number that was not counted up to, one by one from 0 or from a number the
\* owner set: a race may repeat or lose a number, never skip one.
NumberEarned == number \in earned

\* Every window is resolved, if recovery stays enabled and the ticker is not
\* ended by an exception: the pause of the count is never for ever.
WindowsClose ==
    <>[](~disabled /\ proc[Ticker].at # "dead")
        => \A w \in WindowIds : (resolution[w] = "open") ~> (resolution[w] # "open")

\* The card of a missed Dom/me's window says that the count was reset to 1: the
\* next number that counts is 1.  Stated, and not kept: a message that was being
\* judged by the row it read before the reset counts on from the lost number.
ResetMeansOne == [][\A h \in Handlers : Count(h) /\ number = 0 => number' = 1]_vars

-----------------------------------------------------------------------------
(***************************************************************************)
(* The inductive invariant behind the two safety properties.               *)
(***************************************************************************)
\* The rows of windows are filled in the order of their ids, with the number
\* that was expected after an earned one.
WindowsKnown ==
    /\ \A w \in WindowIds :
         IF w <= lastWindow
           THEN /\ resolution[w] # "absent" /\ failed[w] # Nobody
                /\ expected[w] > 0 /\ expected[w] - 1 \in earned
           ELSE resolution[w] = "absent" /\ applied[w] = 0
    /\ covers \subseteq Windows

HandStates ==
    {"flagRead", "flagWrite", "expire", "expireWrite", "expireBlock", "rescueWrite"}
CancelStates == {"cancel", "cancelEach"}
OpeningStates == {"window", "windowFlag", "windowClear", "windowInsert"}

\* What process p may rely on wherever it is: its windows exist, the rows it
\* copied held earned numbers, and a message is where its verdict allows.
Sensible(p, local) ==
    /\ local.todo \subseteq Windows
    /\ local.at \in HandStates => local.hand \in Windows
    /\ local.reread => p \in Handlers
    /\ local.copy.number \in earned /\ local.seen.number \in earned
    /\ p \in Handlers /\ local.at # "idle" => local.author \in Users
    /\ local.at \in CancelStates =>
         local.then \in IF p = Setter THEN {"set"} ELSE {"count", "reset", "window"}
    /\ local.at = "count" \/ (local.at \in CancelStates /\ local.then = "count")
         => local.posted = Following(local.seen)
    /\ local.at \in OpeningStates \/ (local.at \in CancelStates /\ local.then = "window")
         => local.author \in Subs \cup Dommes

LocalsSensible == \A p \in Procs : Sensible(p, proc[p])
EarnedFromZero == 0 \in earned /\ number \in earned

\* The process that resolved a window carries out its outcome, and no other.
OutcomeInHand ==
    \A p \in Procs :
        LET w == proc[p].hand IN
        /\ At(p, "expireWrite") =>
             /\ resolution[w] = IF failed[w] \in Dommes THEN "reset" ELSE "blocked"
             /\ applied[w] = 0
        /\ At(p, "expireBlock") =>
             failed[w] \notin Dommes /\ resolution[w] = "blocked" /\ applied[w] = 1
        /\ At(p, "rescueWrite") => resolution[w] = "recovered" /\ applied[w] = 0
        /\ \A q \in Procs \ {p} :
             Writing(p) /\ Writing(q) => proc[q].hand # w

IInv ==
    /\ TypeOK /\ WindowsKnown /\ LocalsSensible /\ EarnedFromZero
    /\ OutcomeAppliedOnce /\ OutcomeInHand

=============================================================================
