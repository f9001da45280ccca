--------------------------- MODULE SendPipeline ---------------------------
(***************************************************************************)
(* How a send travels from a Throne webhook (or a manual command) to the   *)
(* Discord send channel.                                                   *)
(*                                                                         *)
(* Three processes share the PostgreSQL tables sends and bot_settings:     *)
(*   - the webhook process, one handler per delivery of an event;          *)
(*   - the bot process, with its single send-queue task, its in-memory     *)
(*     notification queue, and the handlers of manual send commands;       *)
(*   - the operator, at the ops command line or the owner commands.        *)
(* Every await of the code on the database or on Discord is a point where  *)
(* the other processes may run, so each action below is the code between   *)
(* two such awaits.                                                        *)
(***************************************************************************)
EXTENDS SendsRepository, Sequences

CONSTANTS
    Events,         \* Throne event ids
    MainEvents,     \* those of a creator of the main guild
    BadCurrency,    \* those whose amount cannot be converted to USD
    Hooks,          \* webhook handlers that may run at the same time
    Commands,       \* manual send commands that may run at the same time
    Phases,         \* the wind-down phases the owner or the clock may set
    Modes,          \* bound: which of the two modes the operator switches
    BatchLimit,     \* fetch_for_status(..., limit=50)
    MaxSends,       \* bound: rows inserted
    MaxFaults,      \* bound: crashes of the bot and exceptions in its queue
    MaxEdits        \* bound: sends removed or force-marked by hand

SendIds == 1..MaxSends
NoSend == 0
NoEvent == "no event"
Recorders == Hooks \cup Commands

ASSUME EventsAssumption ==
    /\ MainEvents \subseteq Events /\ BadCurrency \subseteq Events
    /\ NoEvent \notin Events
ASSUME RecordersAssumption == Hooks \cap Commands = {}
ASSUME PhasesAssumption == Phases \subseteq 0..3 /\ 0 \in Phases
ASSUME ModesAssumption == Modes \subseteq {"maintenance", "offline"}
ASSUME BoundsAssumption ==
    /\ BatchLimit \in Nat \ {0} /\ MaxSends \in Nat
    /\ MaxFaults \in Nat /\ MaxEdits \in Nat

VARIABLES
    \* table sends
    status, eventOf, keyed, linked, lastId,
    \* table bot_settings
    maintenance, offline, phase,
    \* messages in the Discord send channel
    announced,
    \* recording handlers: webhook deliveries and manual commands
    rpc, revent, rstatus, rsend,
    \* the bot: queue task, pending batch it holds, send it is working on,
    \* and the notification queue
    qpc, batch, cur, notes,
    \* the operator's "maintenance off" or "queue flush" between its steps
    flushing,
    \* history: exceptions and crashes; announcements whose mark was lost;
    \* announcements in this maintenance window; sends removed, forced or
    \* deleted by hand; quiet modes that were on at some time
    faults, interrupted, windowPosts, removed, forced, forgotten,
    highestPhase, offlineSeen

table    == <<status, eventOf, keyed, linked, lastId>>
settings == <<maintenance, offline, phase, highestPhase, offlineSeen>>
recorder == <<rpc, revent, rstatus, rsend>>
queue    == <<qpc, batch, cur>>
edits    == <<removed, forced, forgotten>>
history  == <<faults, interrupted>>
discord  == <<announced, windowPosts>>

vars == <<table, settings, discord, recorder, queue, notes, flushing,
          history, edits>>

Inserted(i) == status[i] # Absent
Waiting(i) == status[i] \in WaitingStatuses

\* A manual send belongs to the main guild, where the command is installed.
IsMain(e) == e \in MainEvents \/ e = NoEvent

\* Mutant: the guild scope of Rob Offline Mode is forgotten.
OfflineEverywhere(e) == offline
\* send_tracking_disabled_for_guild
TrackingDisabled(e) == offline /\ IsMain(e)

Init ==
    /\ status = [i \in SendIds |-> Absent]
    /\ eventOf = [i \in SendIds |-> NoEvent]
    /\ keyed = {} /\ linked = {} /\ lastId = 0
    /\ maintenance = FALSE /\ offline = FALSE /\ phase = 0
    /\ announced = [i \in SendIds |-> 0] /\ windowPosts = 0
    /\ rpc = [r \in Recorders |-> "idle"]
    /\ revent = [r \in Recorders |-> NoEvent]
    /\ rstatus = [r \in Recorders |-> "pending"]
    /\ rsend = [r \in Recorders |-> NoSend]
    /\ qpc = "down" /\ batch = {} /\ cur = NoSend /\ notes = <<>>
    /\ flushing = FALSE
    /\ faults = 0 /\ interrupted = [i \in SendIds |-> 0]
    /\ removed = {} /\ forced = {} /\ forgotten = {}
    /\ highestPhase = 0 /\ offlineSeen = FALSE

BotUp == qpc # "down"

HeldStatus == "queued_maintenance"

-----------------------------------------------------------------------------
(***************************************************************************)
(* Recording.  A webhook handler reads the wind-down phase, the offline    *)
(* flag and the maintenance flag, in three separate queries, and inserts   *)
(* the row with the status those reads decided.  A manual command does the *)
(* same inside the bot.                                                    *)
(***************************************************************************)
Goto(r, pc) == rpc' = [rpc EXCEPT ![r] = pc]

\* Throne delivers an event, again as often as it likes.  From phase 2 on
\* the webhook acknowledges and forgets it.
HookReceive(h, e) ==
    /\ rpc[h] = "idle" /\ phase < 2
    /\ revent' = [revent EXCEPT ![h] = e]
    /\ IF e \in BadCurrency
         THEN Goto(h, "insert") /\ rstatus' = [rstatus EXCEPT ![h] = "ignored"]
         ELSE Goto(h, "offline") /\ UNCHANGED rstatus
    /\ UNCHANGED <<table, settings, discord, rsend, queue, notes, flushing,
                   history, edits>>

\* A registered Dom/me runs /add; it is closed from phase 2 on.
CommandReceive(c) ==
    /\ rpc[c] = "idle" /\ phase < 2 /\ BotUp
    /\ Goto(c, "offline")
    /\ UNCHANGED <<table, settings, discord, revent, rstatus, rsend, queue,
                   notes, flushing, history, edits>>

ReadOffline(r) ==
    /\ rpc[r] = "offline"
    /\ IF TrackingDisabled(revent[r])
         THEN Goto(r, "insert") /\ rstatus' = [rstatus EXCEPT ![r] = "posted"]
         ELSE Goto(r, "maintenance") /\ UNCHANGED rstatus
    /\ UNCHANGED <<table, settings, discord, revent, rsend, queue, notes,
                   flushing, history, edits>>

ReadMaintenance(r) ==
    /\ rpc[r] = "maintenance"
    /\ Goto(r, "insert")
    /\ rstatus' = [rstatus EXCEPT
           ![r] = IF maintenance THEN HeldStatus ELSE "pending"]
    /\ UNCHANGED <<table, settings, discord, revent, rsend, queue, notes,
                   flushing, history, edits>>

\* Mutant: the unique index on event_id is missing.
NeverDuplicate(e) == FALSE
\* The unique indexes on event_id and fallback_event_hash: keyed is the set of
\* rows that still hold one.
Duplicate(e) == \E i \in keyed : eventOf[i] = e

\* The INSERT; a unique violation is a duplicate and ends the handler.
InsertSend(r) ==
    /\ rpc[r] = "insert"
    /\ IF Duplicate(revent[r])
         THEN /\ Goto(r, "idle")
              /\ revent' = [revent EXCEPT ![r] = NoEvent]
              /\ UNCHANGED <<table, rsend>>
         ELSE /\ lastId < MaxSends
              /\ lastId' = lastId + 1
              /\ status' = Added(status, lastId + 1, rstatus[r])
              /\ eventOf' = [eventOf EXCEPT ![lastId + 1] = revent[r]]
              /\ keyed' = IF revent[r] = NoEvent THEN keyed ELSE keyed \cup {lastId + 1}
              /\ rsend' = [rsend EXCEPT ![r] = lastId + 1]
              /\ Goto(r, "notify")
              /\ UNCHANGED <<linked, revent>>
    /\ UNCHANGED <<settings, discord, rstatus, queue, notes, flushing,
                   history, edits>>

Finish(r) ==
    /\ Goto(r, "idle")
    /\ rsend' = [rsend EXCEPT ![r] = NoSend]
    /\ revent' = [revent EXCEPT ![r] = NoEvent]

\* The webhook posts the send id to the bot.  The call may be lost, time out
\* after it arrived, or find the bot down.
HookNotify(h) ==
    /\ rpc[h] = "notify"
    /\ Finish(h)
    /\ \/ BotUp /\ notes' = Append(notes, rsend[h])
       \/ UNCHANGED notes
    /\ UNCHANGED <<table, settings, discord, rstatus, queue, flushing,
                   history, edits>>

\* The command reads the offline flag again and queues the id in memory.
CommandNotify(c) ==
    /\ rpc[c] = "notify"
    /\ Finish(c)
    /\ notes' = IF TrackingDisabled(revent[c]) THEN notes
                                               ELSE Append(notes, rsend[c])
    /\ UNCHANGED <<table, settings, discord, rstatus, queue, flushing,
                   history, edits>>

\* The webhook process dies or is redeployed.
HookCrash ==
    /\ \E h \in Hooks : rpc[h] # "idle"
    /\ rpc' = [r \in Recorders |-> IF r \in Hooks THEN "idle" ELSE rpc[r]]
    /\ revent' = [r \in Recorders |-> IF r \in Hooks THEN NoEvent ELSE revent[r]]
    /\ rsend' = [r \in Recorders |-> IF r \in Hooks THEN NoSend ELSE rsend[r]]
    /\ UNCHANGED <<table, settings, discord, rstatus, queue, notes, flushing,
                   history, edits>>

-----------------------------------------------------------------------------
(***************************************************************************)
(* The send-queue task.  batch is the list of records a sweep fetched; cur *)
(* is the record in hand.  Both are copies: their status is not read again *)
(* before the send is posted.                                              *)
(***************************************************************************)
Step(from, to) == qpc = from /\ qpc' = to

QueueRest == <<recorder, settings, flushing, history, edits>>

\* The bot starts, and drains the table once before it listens.
BotStart ==
    /\ Step("down", "cycle")
    /\ UNCHANGED <<QueueRest, table, discord, batch, cur, notes>>

\* wait_for(queue.get(), timeout): a notification, or after the timeout on an
\* empty queue the idle sweep.
TakeNotification ==
    /\ Step("idle", "lookup") /\ notes # <<>>
    /\ cur' = Head(notes) /\ notes' = Tail(notes)
    /\ UNCHANGED <<QueueRest, table, discord, batch>>

PollTimeout ==
    /\ Step("idle", "cycle") /\ notes = <<>>
    /\ UNCHANGED <<QueueRest, table, discord, batch, cur, notes>>

\* process_cycle: release what maintenance held, unless it is on.
CycleCheck ==
    /\ Step("cycle", IF maintenance THEN "fetch" ELSE "release")
    /\ UNCHANGED <<QueueRest, table, discord, batch, cur, notes>>

CycleRelease ==
    /\ Step("release", "fetch")
    /\ status' = Released(status)
    /\ UNCHANGED <<QueueRest, eventOf, keyed, linked, lastId, discord, batch, cur, notes>>

CycleFetch ==
    /\ Step("fetch", "gate")
    /\ batch' = FetchForStatus(status, "pending", BatchLimit)
    /\ UNCHANGED <<QueueRest, table, discord, cur, notes>>

\* The batch is posted only if maintenance is off now.
CycleGate ==
    /\ Step("gate", "each")
    /\ batch' = IF maintenance THEN {} ELSE batch
    /\ UNCHANGED <<QueueRest, table, discord, cur, notes>>

\* The next record of the batch, oldest first; or the sweep is over.
NextInBatch ==
    /\ qpc = "each"
    /\ \/ batch = {} /\ qpc' = "idle" /\ cur' = NoSend /\ UNCHANGED batch
       \/ \E i \in batch :
            /\ IsOldest(i, batch)
            /\ qpc' = "phase" /\ cur' = i /\ batch' = batch \ {i}
    /\ UNCHANGED <<QueueRest, table, discord, notes>>

\* process_send_by_id: the record as it is now.
Lookup ==
    /\ qpc = "lookup"
    /\ qpc' = CASE status[cur] = "queued_maintenance" -> "held"
                [] status[cur] = "pending" -> "phase"
                [] OTHER -> "each"
    /\ UNCHANGED <<QueueRest, table, discord, batch, cur, notes>>

HeldCheck ==
    /\ Step("held", IF maintenance THEN "each" ELSE "heldRelease")
    /\ UNCHANGED <<QueueRest, table, discord, batch, cur, notes>>

HeldRelease ==
    /\ Step("heldRelease", "again")
    /\ status' = Released(status)
    /\ UNCHANGED <<QueueRest, eventOf, keyed, linked, lastId, discord, batch, cur, notes>>

LookupAgain ==
    /\ Step("again", IF status[cur] = "pending" THEN "phase" ELSE "each")
    /\ UNCHANGED <<QueueRest, table, discord, batch, cur, notes>>

(***************************************************************************)
(* _post_send: three settings read one after the other, then Discord, then *)
(* the row.                                                                *)
(***************************************************************************)
PostCheckPhase ==
    /\ Step("phase", IF phase >= 1 THEN "silent" ELSE "offline")
    /\ UNCHANGED <<QueueRest, table, discord, batch, cur, notes>>

PostCheckOffline ==
    /\ Step("offline", IF TrackingDisabled(eventOf[cur]) THEN "silent" ELSE "maint")
    /\ UNCHANGED <<QueueRest, table, discord, batch, cur, notes>>

\* Mutant: a send in hand is posted although maintenance began.
PostIgnoresMaintenance == FALSE
PostHeld == maintenance

PostCheckMaintenance ==
    /\ Step("maint", IF PostHeld THEN "hold" ELSE "deliver")
    /\ UNCHANGED <<QueueRest, table, discord, batch, cur, notes>>

SendMessage ==
    /\ announced' = [announced EXCEPT ![cur] = @ + 1]
    /\ windowPosts' = IF maintenance THEN windowPosts + 1 ELSE windowPosts

\* channel.send returns a message.
Deliver ==
    /\ Step("deliver", "mark")
    /\ SendMessage
    /\ UNCHANGED <<QueueRest, table, batch, cur, notes>>

\* The channel is not configured or not reachable, or Discord refused.
DeliverFails ==
    /\ Step("deliver", "fail")
    /\ UNCHANGED <<QueueRest, table, discord, batch, cur, notes>>

\* Mutant: the row is not updated after the message was sent.
MarkNothing(s, m) == UNCHANGED <<status, linked>>
\* mark_posted, mark_failed or update_status on the record in hand.
MarkCur(s, m) ==
    /\ status' = Marked(status, cur, s)
    /\ linked' = IF Inserted(cur) THEN m ELSE linked

MarkPosted ==
    /\ Step("mark", "each")
    /\ MarkCur("posted", linked \cup {cur})
    /\ UNCHANGED <<QueueRest, eventOf, keyed, lastId, discord, batch, cur, notes>>

\* mark_posted(message_id=None): saved without a Discord notification.
MarkSilently ==
    /\ Step("silent", "each")
    /\ MarkCur("posted", linked \ {cur})
    /\ UNCHANGED <<QueueRest, eventOf, keyed, lastId, discord, batch, cur, notes>>

Hold ==
    /\ Step("hold", "each")
    /\ MarkCur(HeldStatus, linked)
    /\ UNCHANGED <<QueueRest, eventOf, keyed, lastId, discord, batch, cur, notes>>

MarkFailed ==
    /\ Step("fail", "each")
    /\ MarkCur("failed", linked)
    /\ UNCHANGED <<QueueRest, eventOf, keyed, lastId, discord, batch, cur, notes>>

QueueStep ==
    \/ TakeNotification \/ PollTimeout
    \/ CycleCheck \/ CycleRelease \/ CycleFetch \/ CycleGate \/ NextInBatch
    \/ Lookup \/ HeldCheck \/ HeldRelease \/ LookupAgain
    \/ PostCheckPhase \/ PostCheckOffline \/ PostCheckMaintenance
    \/ Deliver \/ DeliverFails
    \/ MarkPosted \/ MarkSilently \/ Hold \/ MarkFailed

(***************************************************************************)
(* The bot dies, or an exception that the code does not expect (a lost     *)
(* database or Discord connection) ends the queue cycle.  If the message   *)
(* of the send in hand had reached Discord, the row does not know it.      *)
(***************************************************************************)
Interrupt ==
    /\ faults < MaxFaults
    /\ faults' = faults + 1
    /\ interrupted' = IF qpc = "mark"
                        THEN [interrupted EXCEPT ![cur] = @ + 1]
                        ELSE interrupted
    /\ batch' = {} /\ cur' = NoSend
    /\ UNCHANGED <<table, settings, discord, flushing, edits>>

BotCrash ==
    /\ BotUp /\ Interrupt
    /\ qpc' = "down" /\ notes' = <<>>
    /\ rpc' = [r \in Recorders |-> IF r \in Commands THEN "idle" ELSE rpc[r]]
    /\ rsend' = [r \in Recorders |-> IF r \in Commands THEN NoSend ELSE rsend[r]]
    /\ UNCHANGED <<revent, rstatus>>

QueueRaises ==
    /\ qpc \notin {"down", "idle"} /\ Interrupt
    /\ qpc' = "idle"
    /\ UNCHANGED <<notes, recorder>>

-----------------------------------------------------------------------------
(***************************************************************************)
(* The operator and the owner.                                             *)
(***************************************************************************)
OperatorRest == <<table, recorder, queue, notes, history, edits, announced>>

MaintenanceOn ==
    /\ "maintenance" \in Modes
    /\ ~maintenance /\ maintenance' = TRUE /\ windowPosts' = 0
    /\ UNCHANGED <<OperatorRest, offline, phase, highestPhase, offlineSeen, flushing>>

\* By the ops endpoint; or by the command line, which then flushes the queue.
MaintenanceOff ==
    /\ maintenance /\ maintenance' = FALSE
    /\ flushing' \in {flushing, TRUE}
    /\ UNCHANGED <<OperatorRest, offline, phase, highestPhase, offlineSeen, windowPosts>>

SetOffline ==
    /\ "offline" \in Modes
    /\ offline' = ~offline /\ offlineSeen' = TRUE
    /\ UNCHANGED <<OperatorRest, maintenance, phase, highestPhase, flushing, windowPosts>>

SetPhase ==
    /\ \E p \in Phases \ {phase} :
         /\ phase' = p
         /\ highestPhase' = IF p > highestPhase THEN p ELSE highestPhase
    /\ UNCHANGED <<OperatorRest, maintenance, offline, offlineSeen, flushing, windowPosts>>

\* "queue flush" refuses while maintenance is on, then releases.
FlushCheck ==
    /\ ~flushing /\ ~maintenance /\ flushing' = TRUE
    /\ UNCHANGED <<OperatorRest, settings, windowPosts>>

FlushRelease ==
    /\ flushing /\ flushing' = FALSE
    /\ status' = Released(status)
    /\ UNCHANGED <<eventOf, keyed, linked, lastId, settings, discord, recorder, queue,
                   notes, history, edits>>

EditsLeft ==
    Cardinality(removed) + Cardinality(forced) + Cardinality(forgotten) < MaxEdits

\* An approved removal request (SendChangeRequests) excludes the send from
\* every total.
RemoveSend(i) ==
    /\ BotUp /\ EditsLeft /\ CanBeIgnored(status, i)
    /\ status' = Marked(status, i, "ignored")
    /\ removed' = removed \cup {i}
    /\ UNCHANGED <<eventOf, keyed, linked, lastId, settings, discord, recorder, queue,
                   notes, flushing, history, forced, forgotten>>

\* "sends mark-posted" at the command line.
ForceMarkPosted(i) ==
    /\ Inserted(i) /\ EditsLeft
    /\ status' = Marked(status, i, "posted")
    /\ forced' = forced \cup {i}
    /\ UNCHANGED <<eventOf, keyed, linked, lastId, settings, discord, recorder, queue,
                   notes, flushing, history, removed, forgotten>>

\* A user's data is deleted (/forgetme, or leaving the main guild): their rows
\* go, in one transaction.
ForgetUser(S) ==
    /\ BotUp /\ EditsLeft /\ S # {} /\ \A i \in S : Inserted(i)
    /\ status' = Deleted(status, S)
    /\ keyed' = keyed \ S /\ linked' = linked \ S
    /\ forgotten' = forgotten \cup S
    /\ UNCHANGED <<eventOf, lastId, settings, discord, recorder, queue, notes,
                   flushing, history, removed, forced>>

\* The final sequence (WindDown) anonymises the main guild: event ids and
\* message ids become NULL.  Its DMs come first and take their time, so the
\* phase may be another by now.
Anonymise ==
    /\ BotUp /\ highestPhase = 3
    /\ keyed' = {i \in keyed : ~IsMain(eventOf[i])}
    /\ linked' = {i \in linked : ~IsMain(eventOf[i])}
    /\ UNCHANGED <<status, eventOf, lastId, settings, discord, recorder, queue,
                   notes, flushing, history, edits>>

Operator ==
    \/ MaintenanceOn \/ MaintenanceOff \/ SetOffline \/ SetPhase
    \/ FlushCheck \/ FlushRelease
    \/ \E i \in SendIds : RemoveSend(i) \/ ForceMarkPosted(i)
    \/ \E S \in SUBSET SendIds : ForgetUser(S)
    \/ Anonymise

Recording ==
    \/ \E h \in Hooks, e \in Events : HookReceive(h, e)
    \/ \E c \in Commands : CommandReceive(c)
    \/ \E r \in Recorders : ReadOffline(r) \/ ReadMaintenance(r) \/ InsertSend(r)
    \/ \E h \in Hooks : HookNotify(h)
    \/ \E c \in Commands : CommandNotify(c)
    \/ HookCrash

Next ==
    \/ Recording
    \/ BotStart \/ QueueStep \/ BotCrash \/ QueueRaises
    \/ Operator

Spec == Init /\ [][Next]_vars

(***************************************************************************)
(* The supervisor restarts the bot and asyncio keeps running its queue     *)
(* task, whose Discord and database calls return or raise.                 *)
(***************************************************************************)
FairSpec == Spec /\ WF_vars(BotStart) /\ WF_vars(QueueStep)

-----------------------------------------------------------------------------
QueueStates ==
    {"down", "idle", "cycle", "release", "fetch", "gate", "each", "lookup",
     "held", "heldRelease", "again", "phase", "offline", "maint", "deliver",
     "mark", "silent", "hold", "fail"}

\* The states in which a send is in the queue task's hand.
InHand == QueueStates \ {"down", "idle", "cycle", "release", "fetch", "gate", "each"}

TypeOK ==
    /\ status \in [SendIds -> Statuses \cup {Absent}]
    /\ eventOf \in [SendIds -> Events \cup {NoEvent}]
    /\ keyed \subseteq SendIds /\ linked \subseteq SendIds /\ lastId \in 0..MaxSends
    /\ maintenance \in BOOLEAN /\ offline \in BOOLEAN /\ phase \in Phases
    /\ announced \in [SendIds -> Nat] /\ windowPosts \in Nat
    /\ rpc \in [Recorders -> {"idle", "offline", "maintenance", "insert", "notify"}]
    /\ revent \in [Recorders -> Events \cup {NoEvent}]
    /\ rstatus \in [Recorders -> Statuses]
    /\ rsend \in [Recorders -> SendIds \cup {NoSend}]
    /\ qpc \in QueueStates /\ batch \subseteq SendIds
    /\ cur \in SendIds \cup {NoSend} /\ notes \in Seq(SendIds)
    /\ qpc \in InHand => cur \in SendIds
    /\ \A r \in Recorders : rpc[r] = "notify" => rsend[r] \in SendIds
    /\ flushing \in BOOLEAN /\ faults \in 0..MaxFaults
    /\ interrupted \in [SendIds -> Nat]
    /\ removed \subseteq SendIds /\ forced \subseteq SendIds
    /\ forgotten \subseteq SendIds /\ highestPhase \in Phases /\ offlineSeen \in BOOLEAN

\* A Throne event reaches the channel through one row only, unless a row lost
\* its event id (its user was forgotten, its guild anonymised), and that row is
\* announced at most once more than the number of times the bot was cut off
\* between the Discord post and mark_posted.
AnnouncedOnce ==
    \A i \in SendIds :
        /\ announced[i] <= interrupted[i] + 1
        /\ \A j \in SendIds \ {i} :
             (eventOf[i] = eventOf[j] /\ announced[i] > 0 /\ announced[j] > 0)
                => eventOf[i] = NoEvent \/ {i, j} \ keyed # {}

\* A send counted as posted was really announced, unless a quiet mode that
\* covers its guild had been switched on, or the operator forced it: Rob
\* Offline Mode silences the main guild only.
PostedWasAnnounced ==
    \A i \in SendIds :
        (status[i] = "posted" /\ i \notin forced /\ announced[i] = 0)
            => highestPhase >= 1 \/ (offlineSeen /\ IsMain(eventOf[i]))

\* Maintenance holds the channel: of all the sends waiting, at most the one
\* whose maintenance check had already passed is posted in one window.
QuietDuringMaintenance == maintenance => windowPosts <= 1

\* No notification has to arrive: once maintenance stays off, every send that
\* was inserted waiting is eventually posted, failed or ignored.
NoSendStranded ==
    <>[]~maintenance => \A i \in SendIds : Waiting(i) ~> ~Waiting(i)

\* The pipeline implements the abstract delivery: ids up to lastId are known.
Delivery == INSTANCE SendDelivery WITH
    Sends <- SendIds, known <- 1..lastId, told <- announced, lapses <- interrupted

\* Every announcement is of a recorded send and follows either no earlier one
\* or one that an interruption made the table forget.
ImplementsDelivery == Delivery!Spec

\* The result card of an approved removal says that the send was removed from
\* the tracked totals; it should not come back.  Stated, and not kept: the queue
\* task marks the copy of the row it holds.
RemovalSticks == \A i \in removed \ (forced \cup forgotten) : status[i] = "ignored"

-----------------------------------------------------------------------------
(***************************************************************************)
(* The inductive invariant behind the four safety properties.              *)
(***************************************************************************)
\* As far as its row tells, send i has not been announced.
Owed(i) == announced[i] <= interrupted[i]

\* Ids are serial: nothing is known of a row that was not inserted, and
\* nothing refers to one.
RowsSerial ==
    \A i \in SendIds : i > lastId =>
        ~Inserted(i) /\ i \notin keyed /\ announced[i] = 0
ReferencesSerial ==
    /\ \A i \in batch : i <= lastId
    /\ cur <= lastId
    /\ \A r \in Recorders : rsend[r] <= lastId
NotesSerial == \A k \in 1..Len(notes) : notes[k] <= lastId

\* The unique index: of the rows that hold an event id, one per event.
OneRowPerEvent ==
    \A i \in keyed :
        eventOf[i] # NoEvent /\ \A j \in keyed : eventOf[i] = eventOf[j] => i = j

\* A batch is worked off one send at a time, and only by a sweep.
BatchDiscipline ==
    /\ qpc \in InHand => cur \notin batch
    /\ qpc \in {"down", "idle", "cycle", "release", "fetch", "lookup", "held",
              "heldRelease", "again"} => batch = {}

\* Whatever may still be announced has not been, so far as the table knows.
NothingOwedTwice ==
    /\ \A i \in SendIds : interrupted[i] <= announced[i]
    /\ \A i \in SendIds : announced[i] <= interrupted[i] + 1
    /\ \A i \in SendIds :
         Waiting(i) => Owed(i) \/ (qpc = "mark" /\ cur = i)
    /\ \A i \in batch : Owed(i)
    /\ qpc \in {"phase", "offline", "maint", "deliver", "hold"} => Owed(cur)
    /\ qpc = "mark" => announced[cur] = interrupted[cur] + 1

WindowDiscipline ==
    maintenance => windowPosts = 0 \/ (windowPosts = 1 /\ qpc # "deliver")

\* Quiet reads and quiet marks are justified by a mode that was switched on.
QuietJustified ==
    /\ offline => offlineSeen
    /\ phase >= 1 => highestPhase >= 1
    /\ \A r \in Recorders : (rpc[r] = "insert" /\ rstatus[r] = "posted")
         => offlineSeen /\ IsMain(revent[r])
    /\ qpc = "silent" => highestPhase >= 1 \/ (offlineSeen /\ IsMain(eventOf[cur]))

IInv ==
    /\ TypeOK /\ RowsSerial /\ ReferencesSerial /\ NotesSerial
    /\ OneRowPerEvent /\ BatchDiscipline /\ NothingOwedTwice

=============================================================================
