-------------------------- MODULE LeaderboardRefresh --------------------------
(***************************************************************************)
(* The two leaderboard messages of a guild and the refresh that keeps them *)
(* like the sends, over the tables of SendNames.                           *)
(*                                                                         *)
(* A refresh runs in the bot as a task with an await at every read, edit   *)
(* and save: the poller's after a post, on a request and at the start, and *)
(* those of the ops API.  A lock per guild keeps one at work and drops the *)
(* others; a hash, in memory, skips the edits when nothing changed.  It is *)
(* stored before the edits.                                                *)
(*                                                                         *)
(* Figures stand for totals: the sends counted and, in the summary, those  *)
(* nobody claimed.  The "maintenance" label of the card is left out, the   *)
(* offline card is not.                                                    *)
(***************************************************************************)
EXTENDS SendNames, Sequences

CONSTANTS
    Tasks,        \* the coroutines that may refresh, Poller one of them
    Poller,
    Channels,     \* channels the leaderboard may be configured in
    MaxMessages,  \* bound: leaderboard messages ever sent
    MaxEvents     \* bound: failed calls, deleted messages, stops of the bot,
                  \* changes of the channel and of the modes

ASSUME BoardAssumption ==
    /\ Poller \in Tasks /\ NoOne \notin Tasks
    /\ Channels # {}
    /\ MaxMessages \in Nat /\ MaxEvents \in Nat

VARIABLES
    modes,     \* maintenance, offline and frozen (phase 1 or later), as bot_settings holds them
    asked,     \* a refresh request that was not consumed
    channel,   \* the configured channel
    refs,      \* vib_leaderboard: the message each key refers to, 0 for none
    messages,  \* Discord: the messages sent, in order
    tasks,     \* each refresh: where it is and what it read
    hash,      \* _content_hashes of the guild
    lock,      \* _refresh_locks of the guild: the task that holds it
    spoilt,    \* keys whose message was left behind the hash by a failed or
               \* interrupted refresh, or deleted (history)
    events     \* how many of the bounded events happened

boardVars == <<modes, asked, channel, refs, messages, tasks, hash, lock, spoilt, events>>
vars == <<nameVars, boardVars>>

Keys == {"leaderboard", "leaderboard_stats"}
Modes == {"maintenance", "offline", "frozen"}
NoHash == [none |-> TRUE]
OfflineCard == [offline |-> TRUE]

Posted == {s \in Sends : sends[s].phase = "posted"}
Unclaimed == {s \in Posted : sends[s].sub = NoOne}
Summary == [counted |-> Posted, unclaimed |-> Unclaimed]

Idle == [at |-> "idle", key |-> "leaderboard", channel |-> NoOne,
         summary |-> [counted |-> {}, unclaimed |-> {}], entries |-> {},
         offline |-> FALSE, message |-> 0]
Started == [Idle EXCEPT !.at = "start"]

BoardInit ==
    /\ modes = [m \in Modes |-> FALSE]
    /\ asked = FALSE
    /\ channel \in Channels
    /\ refs = [k \in Keys |-> 0]
    /\ messages = << >>
    /\ tasks = [t \in Tasks |-> IF t = Poller THEN Started ELSE Idle]
    /\ hash = NoHash
    /\ lock = NoOne
    /\ spoilt = {}
    /\ events = 0

(***************************************************************************)
(* refresh_guild, step by step.                                            *)
(***************************************************************************)

At(t, label) == tasks[t].at = label
Finished(t) == tasks' = [tasks EXCEPT ![t] = Idle]

\* Frozen by the wind-down, or another refresh at work: dropped, not queued.
Drop(t) ==
    /\ At(t, "start")
    /\ modes.frozen \/ lock # NoOne
    /\ Finished(t)
    /\ UNCHANGED <<modes, asked, channel, refs, messages, hash, lock, spoilt, events>>

\* Mutant: no lock.
BeginUnlocked(t) ==
    /\ At(t, "start")
    /\ ~modes.frozen
    /\ lock' = t
    /\ tasks' = [tasks EXCEPT ![t].at = "summary", ![t].channel = channel]
    /\ UNCHANGED <<modes, asked, channel, refs, messages, hash, spoilt, events>>

\* The frozen flag was read above, the lock is tested and taken without an await.
Begin(t) ==
    /\ At(t, "start")
    /\ ~modes.frozen /\ lock = NoOne
    /\ lock' = t
    /\ tasks' = [tasks EXCEPT ![t].at = "summary", ![t].channel = channel]
    /\ UNCHANGED <<modes, asked, channel, refs, messages, hash, spoilt, events>>

ReadSummary(t) ==
    /\ At(t, "summary")
    /\ tasks' = [tasks EXCEPT ![t].at = "entries", ![t].summary = Summary]
    /\ UNCHANGED <<modes, asked, channel, refs, messages, hash, lock, spoilt, events>>

ReadEntries(t) ==
    /\ At(t, "entries")
    /\ tasks' = [tasks EXCEPT ![t].at = "hash", ![t].entries = Posted]
    /\ UNCHANGED <<modes, asked, channel, refs, messages, hash, lock, spoilt, events>>

\* Maintenance and offline are one bit of the hash; from their reading to the
\* storing of the hash there is no await.
HashNow(t) == [summary |-> tasks[t].summary, entries |-> tasks[t].entries,
               shut |-> modes.maintenance \/ modes.offline]

Release(t) == lock' = IF lock = t THEN NoOne ELSE lock

Unchanged(t) ==
    /\ At(t, "hash")
    /\ hash = HashNow(t)
    /\ Finished(t) /\ Release(t)
    /\ UNCHANGED <<modes, asked, channel, refs, messages, hash, spoilt, events>>

StoreHash(t) ==
    /\ At(t, "hash")
    /\ hash # HashNow(t)
    /\ hash' = HashNow(t)
    /\ tasks' = [tasks EXCEPT ![t].at = "edit", ![t].offline = modes.offline]
    /\ UNCHANGED <<modes, asked, channel, refs, messages, lock, spoilt, events>>

Rendered(task) ==
    IF task.offline THEN OfflineCard ELSE [summary |-> task.summary, entries |-> task.entries]

\* The main message first, then the one of the statistics, whatever became of the first.
NextKey(t) ==
    IF tasks[t].key = "leaderboard"
    THEN /\ tasks' = [tasks EXCEPT ![t].at = "edit", ![t].key = "leaderboard_stats"]
         /\ UNCHANGED lock
    ELSE Finished(t) /\ Release(t)

Ref(t) == refs[tasks[t].key]
Missing(t) ==
    Ref(t) # 0 =>
        \/ messages[Ref(t)].channel # tasks[t].channel
        \/ messages[Ref(t)].deleted

Edit(t) ==
    /\ At(t, "edit")
    /\ ~Missing(t)
    /\ messages' = [messages EXCEPT ![Ref(t)].content = Rendered(tasks[t])]
    /\ spoilt' = spoilt \ {tasks[t].key}
    /\ NextKey(t)
    /\ UNCHANGED <<modes, asked, channel, refs, hash, events>>

\* No message noted, noted in another channel, or deleted: a new one is sent.
SendMessage(t) ==
    /\ At(t, "edit")
    /\ Missing(t)
    /\ Len(messages) < MaxMessages
    /\ messages' = Append(messages, [key |-> tasks[t].key, channel |-> tasks[t].channel,
                                     content |-> Rendered(tasks[t]), deleted |-> FALSE])
    /\ tasks' = [tasks EXCEPT ![t].at = "save", ![t].message = Len(messages')]
    /\ UNCHANGED <<modes, asked, channel, refs, hash, lock, spoilt, events>>

SaveRef(t) ==
    /\ At(t, "save")
    /\ refs' = [refs EXCEPT ![tasks[t].key] = tasks[t].message]
    /\ spoilt' = spoilt \ {tasks[t].key}
    /\ NextKey(t)
    /\ UNCHANGED <<modes, asked, channel, messages, hash, events>>

\* Discord refuses the edit: the refresh goes on to the other message.
EditFails(t) ==
    /\ At(t, "edit")
    /\ ~Missing(t)
    /\ events < MaxEvents
    /\ events' = events + 1
    /\ spoilt' = spoilt \cup {tasks[t].key}
    /\ NextKey(t)
    /\ UNCHANGED <<modes, asked, channel, refs, messages, hash>>

\* An exception ends the refresh and its lock, wherever it is: the database
\* fails at a read or at the saving of a reference, or Discord refuses the new
\* message.  What the stored hash promised is then not done.
RefreshRaises(t) ==
    /\ tasks[t].at \in {"summary", "entries", "hash", "edit", "save"}
    /\ events < MaxEvents
    /\ events' = events + 1
    /\ spoilt' = IF tasks[t].at \in {"edit", "save"}
                 THEN spoilt \cup {tasks[t].key, "leaderboard_stats"} ELSE spoilt
    /\ Finished(t) /\ Release(t)
    /\ UNCHANGED <<modes, asked, channel, refs, messages, hash>>

(***************************************************************************)
(* What starts a refresh.                                                  *)
(***************************************************************************)

StartTask(t) == tasks' = [tasks EXCEPT ![t] = Started]

\* The poller, or the ops API for one send: posted, then refreshed unless offline.
PostSend(t, s) ==
    /\ At(t, "idle")
    /\ sends[s].phase = "stored"
    /\ ~modes.maintenance
    /\ sends' = [sends EXCEPT ![s].phase = "posted"]
    /\ IF modes.offline THEN UNCHANGED tasks ELSE StartTask(t)
    /\ UNCHANGED <<rows, serial, open, erased, modes, asked, channel, refs, messages, hash, lock,
                   spoilt, events>>

\* Requests wait while maintenance is on; one is consumed before it is carried out.
ConsumeRequest ==
    /\ At(Poller, "idle")
    /\ asked /\ ~modes.maintenance
    /\ asked' = FALSE
    /\ StartTask(Poller)
    /\ UNCHANGED <<modes, channel, refs, messages, hash, lock, spoilt, events>>

RefreshNow(t) ==
    /\ t # Poller
    /\ At(t, "idle")
    /\ StartTask(t)
    /\ UNCHANGED <<modes, asked, channel, refs, messages, hash, lock, spoilt, events>>

\* The ops API sets the channel and then refreshes the guild.
SetChannel(t, c) ==
    /\ t # Poller
    /\ At(t, "idle")
    /\ c # channel /\ events < MaxEvents
    /\ events' = events + 1
    /\ channel' = c
    /\ StartTask(t)
    /\ UNCHANGED <<modes, asked, refs, messages, hash, lock, spoilt>>

\* The switches of MaintenanceService: each asks for a refresh.
SetMode(m) ==
    /\ events < MaxEvents
    /\ events' = events + 1
    /\ modes' = [modes EXCEPT ![m] = ~@]
    /\ asked' = TRUE
    /\ UNCHANGED <<channel, refs, messages, tasks, hash, lock, spoilt>>

DeleteMessage(i) ==
    /\ events < MaxEvents
    /\ ~messages[i].deleted
    /\ events' = events + 1
    /\ messages' = [messages EXCEPT ![i].deleted = TRUE]
    /\ spoilt' = spoilt \cup {k \in Keys : refs[k] = i}
    /\ UNCHANGED <<modes, asked, channel, refs, tasks, hash, lock>>

\* The bot stops and starts again: hash and lock are gone, every guild is refreshed.
Restart ==
    /\ events < MaxEvents
    /\ events' = events + 1
    /\ tasks' = [t \in Tasks |-> IF t = Poller THEN Started ELSE Idle]
    /\ hash' = NoHash
    /\ lock' = NoOne
    /\ UNCHANGED <<modes, asked, channel, refs, messages, spoilt>>

Init == NamesInit /\ BoardInit

RefreshStep(t) ==
    \/ Drop(t) \/ Begin(t) \/ ReadSummary(t) \/ ReadEntries(t)
    \/ Unchanged(t) \/ StoreHash(t) \/ Edit(t) \/ SendMessage(t) \/ SaveRef(t)
    \/ EditFails(t) \/ RefreshRaises(t) \/ RefreshNow(t)
    \/ \E c \in Channels : SetChannel(t, c)

Next ==
    \/ NamesNext /\ UNCHANGED boardVars
    \/ \E s \in Sends : Insert(s, modes.offline) /\ UNCHANGED boardVars
    \/ \E t \in Tasks, s \in Sends : PostSend(t, s)
    \/ \E t \in Tasks : RefreshStep(t) /\ UNCHANGED nameVars
    \/ ConsumeRequest /\ UNCHANGED nameVars
    \/ \E m \in Modes : SetMode(m) /\ UNCHANGED nameVars
    \/ \E i \in DOMAIN messages : DeleteMessage(i) /\ UNCHANGED nameVars
    \/ Restart /\ UNCHANGED nameVars

Spec == Init /\ [][Next]_vars

(***************************************************************************)
(* Properties.                                                             *)
(***************************************************************************)

Figures == [counted : SUBSET Sends, unclaimed : SUBSET Sends]
Contents == {OfflineCard} \cup [summary : Figures, entries : SUBSET Sends]
Busy == {"summary", "entries", "hash", "edit", "save"}

TaskRecords ==
    [at : {"idle", "start"} \cup Busy, key : Keys, channel : Channels \cup {NoOne},
     summary : Figures, entries : SUBSET Sends, offline : BOOLEAN, message : Nat]
MessageRecords == [key : Keys, channel : Channels, content : Contents, deleted : BOOLEAN]
Hashes == [summary : Figures, entries : SUBSET Sends, shut : BOOLEAN]

BoardTypeOK ==
    /\ modes \in [Modes -> BOOLEAN]
    /\ asked \in BOOLEAN
    /\ channel \in Channels
    /\ refs \in [Keys -> Nat] /\ \A k \in Keys : refs[k] <= Len(messages)
    /\ messages \in Seq(MessageRecords) /\ Len(messages) <= MaxMessages
    /\ tasks \in [Tasks -> TaskRecords]
    /\ \A t \in Tasks : /\ tasks[t].message <= Len(messages)
                        /\ tasks[t].at \in Busy => tasks[t].channel \in Channels
    /\ hash \in {NoHash} \cup Hashes
    /\ lock \in Tasks \cup {NoOne}
    /\ spoilt \subseteq Keys
    /\ events \in 0..MaxEvents

TypeOK == NamesTypeOK /\ BoardTypeOK

\* A message shows the figures of the hash in memory.
Follows(i) ==
    \/ messages[i].content = [summary |-> hash.summary, entries |-> hash.entries]
    \/ hash.shut /\ messages[i].content = OfflineCard

\* Between two refreshes both messages show the figures whose hash is in memory
\* (or the offline card, when the hash has that bit), except one that could not
\* be edited, that an exception kept a refresh from after it stored its hash, or
\* that was deleted since: but for those the skip by hash is sound.  Two
\* refreshes at once could leave the older figures under the newer hash, and the
\* skip would keep them there.
BoardFollowsHash ==
    lock = NoOne /\ hash # NoHash => \A k \in Keys \ spoilt : refs[k] # 0 /\ Follows(refs[k])

\* Stated, and not kept: the exceptions are no exceptions.  The hash stays what
\* it was when an edit fails, and the next refresh of the same figures is skipped.
SkipIsSound ==
    lock = NoOne /\ hash # NoHash => \A k \in Keys : refs[k] # 0 /\ Follows(refs[k])

(***************************************************************************)
(* The inductive invariant behind it.                                      *)
(***************************************************************************)
\* A refresh past its start holds the lock, so that there is one; it begins with
\* the main message.
OneRefresh ==
    \A t \in Tasks : /\ tasks[t].at \in Busy => lock = t
                     /\ tasks[t].at \notin {"edit", "save"} => tasks[t].key = "leaderboard"

\* One that has stored its hash shows what it stands for, and the message it
\* has sent does already.
ShowsItsHash ==
    \A t \in Tasks :
        /\ tasks[t].at \in {"edit", "save"} =>
              /\ hash.summary = tasks[t].summary /\ hash.entries = tasks[t].entries
              /\ tasks[t].offline => hash.shut
        /\ tasks[t].at = "save" => tasks[t].message # 0 /\ Follows(tasks[t].message)

\* What a refresh that has stored its hash has still to do.
Ahead(k) ==
    \E t \in Tasks : /\ tasks[t].at \in {"edit", "save"}
                     /\ k \in {tasks[t].key, "leaderboard_stats"}

RestFollows ==
    hash # NoHash =>
        \A k \in Keys \ spoilt : ~Ahead(k) => refs[k] # 0 /\ Follows(refs[k])

BoardIInv == BoardTypeOK /\ OneRefresh /\ ShowsItsHash /\ RestFollows

IInv == NamesIInv /\ BoardIInv
=============================================================================
