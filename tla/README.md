# Rob, specified

TLA+ specifications of the parts of Rob whose correctness depends on the order of
things: what the bot announces and erases, which of two button clicks wins, when a
count is lost, whom the weekly sweep kicks, which backup becomes the baseline, which
profile is published and whom a webhook link belongs to. Each specification is
model-checked on a small instance with TLC, and its safety is proved with TLAPS for
every value of its constants.

1. [The system](#1-the-system): the inventory
2. [The modules](#2-the-modules): what models what
3. [The runs](#3-the-runs): what is checked, within which bounds
4. [Fairness](#4-fairness)
5. [The proofs](#5-the-proofs)
6. [Where the program disagrees with itself](#6-where-the-program-disagrees-with-itself)
7. [What the models leave out](#7-what-the-models-leave-out)
8. [The plan](#8-the-plan)

Paths are relative to the repository; those of rob's Python code are under `rob/`.
To repeat a check, inside this directory:

    tlc -workers 2 -config SendPipeline_live.cfg MCSendPipeline
    tlapm SendPipeline_proofs.tla

## 1. The system

The repository holds two systems side by side, after a partial revert (README.md
still has conflict markers): **rob/**, a Discord bot, a webhook and a public site in
Python on PostgreSQL, and **bill/** with **worker/**, a second bot whose state is in
a Cloudflare Worker. `archive/single-process-bot` is Rob's predecessor and does not
run.

Rob's processes are separate and meet in the database: the **webhook** inserts the
sends Throne tells it of and notifies the bot over HTTP; the **bot** runs the cogs,
their background loops, the send queue and the **ops API** inside one asyncio event
loop; the **operator** changes rows with `ops/ops.py` while both run. Inside the
bot nothing is preempted, but every `await` lets another callback in, and each
repository call is a transaction of its own. So the atomic step of every
specification is the code between two awaits that matter, and what a coroutine read
before an await is a local copy of it.

Bill keeps nothing that lasts: its messages carry the state, and each interaction
calls the **Worker**, which reads D1 row by row and writes in one batch whose
statements test that what was read still holds.

### Components

| component | state | operations | meets |
|---|---|---|---|
| Send pipeline (`services/send_service.py`, `send_queue_service.py`, `maintenance_service.py`, `repositories/sends.py`) | `sends` (status, event id), settings, the queue task's batch | record, announce, hold in maintenance, release, mark by hand, delete, anonymise | webhook, wind-down, leaderboards, counting, privacy |
| Wind-down and final sequence (`services/wind_down.py`, `final_sequence.py`, `cogs/wind_down.py`) | phase, auto-advance, four flags of finished steps, a process-local lock | tick, owner's command, stats card, mass DM with a keepsake, anonymisation | every component reads the phase |
| Send change requests (`services/send_change_request_service.py`) | `send_change_requests`, the views the bot listens to | create, deliver by DM, approve, reject, rebind at start | sends, data privacy |
| Counting game (`services/counting_service.py`, `repositories/counting.py`) | `the_count`, `count_recovery_windows`, `count_blocks` | judge a message, open, rescue, expire and cancel a window, block | send queue, offline mode |
| Inactivity (`services/inactivity_service.py`, its cogs and ops route) | `inactive_users`, `last_active`, `bootstrapped_at`, roles on Discord | weekly sweep, corrective sweep, notices, kick, wake, /afk, backfill | Discord's events and cache |
| Server backup (`services/server_backup_service.py`, its cog and ops route) | `server_backups`, `server_backup_approvals`, bound views | hourly and requested cycle, vote, promote, reject, adopt | Discord's structure |
| Leaderboards (`services/leaderboard_service.py`, `repositories/leaderboards.py`) | two message ids per guild, a content hash and a lock in memory | refresh after a send, at the start, on request; the figures | send queue, maintenance, ops API |
| Maintenance and bot state (`services/maintenance_service.py`, `repositories/bot_state.py`) | two switches, the refresh request, bot status | switch, consume the request, heartbeat | all of the above |
| Registration (`services/registration_service.py`, `repositories/dommes.py`, `subs.py`) | `dommes`, `subs`, `sub_send_names`, `throne_creators` with a webhook secret | link a creator, rotate its secret, register a sub and its send names, remove | webhook, blacklist, onboarding |
| DM onboarding (`services/dm_onboarding_service.py`) | `domme_onboarding_state`, cards in direct messages | offer, submit a link, yes or no, preferences, test webhook | registration, webhook |
| Throne scraping and payloads (`throne/`) | rates, a wish-list cache | parse, match, convert | webhook, registration |
| Data privacy (`repositories/user_data.py`) | rows of one user in all tables | export, forget | sends, names, requests |
| Webhook, bot and public processes (`apps/`) | start-up order | start, stop | all |
| Ops API (`opsapi/`) | none of its own | authenticated calls into the services, the scan of a guild | all |
| Admin, settings, reports and other cogs | settings rows | one query or one call each | settings |
| Profile worker (`worker/`) | D1: drafts with a revision, published profiles and overlays, the index of aliases, registrations, guild setup sessions, link imports | edit, publish, unlink, set up, import, rotate, resolve, record a delivery | Bill |
| Bill (`bill/`) | messages, and forms while they are open | Discord front end of the Worker | Worker |
| Operations, deployment, schema (`ops/`, `deploy/`, `db/`) | one-off scripts, constraints | repair, count set, migrate | the tables |

PROJECT.json lists all of them with their files and what is left out of each.

### What is hard here, and what makes each component correct

* **Send pipeline.** The queue fetches a batch, then checks the mode, then awaits for
  every record it holds: a copy may be settled, held, removed or forgotten under it.
  The bot dies between the message and its mark. Notifications are lost. Throne
  repeats an event. *Correct when* a send is announced once unless an announcement's
  mark was lost, none is announced in a maintenance window but those already in hand
  when it began, one marked as posted without a message had a reason to be silent, and
  every recorded send is dealt with in the end.
* **Wind-down.** The loop's run and the run the owner's command spawns overlap; the
  irreversible step follows long after the phase was read; each flag is set after its
  step, so a crash repeats the step. *Correct when* no keepsake is built from erased
  rows, a farewell is repeated only after an interrupted mass DM, everybody registered is
  tried before anything is erased, and erasure was due.
* **Send change requests.** The change is made before the compare-and-set that
  decides the request; the row of the message id is written after the DM, and what raises
  in between ends the delivery with the request pending. *Correct
  when* a decision and its effect agree, a decision is final, and a pending request whose
  delivery was not cut short has buttons that answer.
* **Counting game.** The ticker, a message's own sweep, a rescuing send and the
  owner's commands meet on one window, and none holds a lock across its reads and
  writes. *Correct when* every resolved window's outcome is applied exactly once, no number is
  counted that nobody reached, and windows close.
* **Inactivity.** The verdict about a member is kept over role edits, a DM and up to the
  kick; a second sweep may run beside it; roles are read from a cache, and an exchange of
  two roles is two calls, between which another process makes its own. *Correct when*
  nobody is kicked before a date they were told, no kick follows from a stale verdict
  without another process having interfered, and everybody ends up where the rules put
  them.
* **Server backup.** Counting the votes, claiming the approval and storing the
  snapshot are three transactions; two cycles may ask twice; adopting stores before it
  decides. *Correct when* an approved structure is promoted, a rejected one is kept
  out, and a pending approval has a prompt with live buttons.
* **Leaderboards and send names.** The hash is stored before the edits, the message id
  after the message; a refresh that finds the lock taken is dropped. A registration
  checks for conflicts in one statement and writes in the next; a send looks its name up
  and is inserted later, with an erasure in between; an exception after the hash was
  stored ends a refresh with its edits undone. *Correct when* what a message shows
  is what the hash says of it, or a step that makes it so is pending or was lost; a name
  has one owner; a send is attributed to who owned its name; nobody erased is named again
  by a name or a row.
* **Registration and DM onboarding.** Registering reads the secret that is there, and
  upserts it awaits later; staff may rotate it, and the webhook process looks it up and
  marks a setup verified, in between. *Correct when* a delivery is booked only for a
  member to whom the link it came by was given, and a secret that was rotated away does not come back.
* **Profile worker.** Each request reads rows one at a time and writes under a
  revision; a global publication collects the registrations it must project from profiles
  that other requests are changing. *Correct when* the versions of a profile are a
  line, each an edit of the one before; nothing is published that may not be; registrations,
  aliases and the setup card agree with the profiles.
* **Bill.** Messages outlive the bot and keep old revisions on their buttons, a modal may
  be answered minutes later, a followup arrives out of order. *Correct when* a
  screen that can still be pressed shows its revision, publishing publishes what was
  shown, and a form changes its own section only.

The full list, with the line each hazard bites at and the properties that cover it,
is under "hazards" in PROJECT.json; those without a property say why.

## 2. The modules

| module | models | lines of code in |
|---|---|---|
| `SendsRepository` | the statements on table `sends`, as operators on the table | `repositories/sends.py`, `user_data.py` |
| `SendPipeline` | recorders, queue task, operator, crashes; uses `SendsRepository` | `send_service.py`, `send_queue_service.py`, `maintenance_service.py`, `notify_client.py` |
| `SendDelivery` | the abstract promise: a send is told of, and again only after a lapse | refined by `SendPipeline` |
| `WindDown` | calendar, loop, spawned runs, owner | `wind_down.py`, `final_sequence.py`, its cog |
| `SendChangeRequests` | requests, their DM, both buttons, restarts, deletions | `send_change_request_service.py`, its repository |
| `CountGame` | messages, ticker, rescues, owner | `counting_service.py`, its repository and cog |
| `Inactivity` | members, events, sweeps, backfill, operator | `inactivity_service.py`, its repositories and cogs |
| `ServerBackup` | guild, cycles, clicks, restarts | `server_backup_service.py`, its repository and cog |
| `SendNames` | send names, their owners, the attribution of sends, removals and erasures | `repositories/subs.py`, `user_data.py`, `send_service.py`, `db/` |
| `LeaderboardRefresh` | the board's refresh; extends `SendNames` | `leaderboard_service.py`, `send_queue_service.py` |
| `DommeSetup` | registration in direct messages, staff commands, the blacklist, deliveries | `registration_service.py`, `dm_onboarding_service.py`, their cogs and cards, `webhook` |
| `ProfileDocument` | the steps of a profile and what an edit makes of a document | `worker/src/profile/contracts.ts` and the services |
| `ProfileStore` | the abstract promise: edits one at a time, published documents in a line | refined by `ProfileDrafts` |
| `ProfileDrafts` | requests on one profile at the Worker's awaits | `draftService.ts`, `linkService.ts`, `linkImportService.ts`, `throneDraftService.ts`, `publishService.ts` |
| `ProfileWizard` | Bill's wizard: messages, forms, interactions | `bill/components/profile.py`, `bill/cogs/profile.py` |
| `ProfileRoots` | global and server profiles, registrations, the index of aliases, guild setup and its card | `publishService.ts`, `registrationSync.ts`, `guildSetupService.ts`, `resolver.ts`, `bill/components/setup.py` |
| `ProfileView` | what a viewer sees, who a gift is credited to, what a delivery writes | `resolver.ts`, `aliasAttribution.ts`, `webhookThrone.ts` |
| `Standings` | the figures: leaderboard, personal, public, keepsake, repairs | `repositories/leaderboards.py`, `public_sends.py`, `public_summary.py`, `sends.py` |
| `ThronePayload` | a payload and the send that is stored for it | `throne/payloads.py`, `throne/scraper.py`, `utils/fx.py` |
| `GuildScan` | guesses of a guild's settings | `opsapi/_support.py`, `opsapi/routers/guilds.py` |
| `CountExpression` | which messages are attempts, and of which number | `counting_service.py` |
| `OpsConsole` | the operator's commands: what each leaves in the database | `ops/ops.py`, the repositories it calls, `send_service.py`, `registration_service.py` |
| `SqliteImport` | the previous bot's file, and what an import writes for it | `ops/migration/import_sqlite_to_postgres.py` |
| `Deployment` | settings of the processes; the schema's scripts in any order, the grants, the check of the database | `config/settings.py`, `ops/checks/check_db.py`, `db/`, `deploy-bot.sh` |
| `MC<name>` | the instances of `<name>` that TLC checks, with the constants a .cfg cannot write, and laws of functions | |
| `MCOperations` | the laws of `GuildScan`, `OpsConsole`, `SqliteImport` and `Deployment` | |
| `<name>_proofs` | theorems | |

A coroutine is a program counter and its locals (`qpc`, `batch`, `cur`; `pc[r]`;
`job[p]` or `tasks[t]` as a record where it has several). An action is the code from
one await that matters up to the next, and is named for what that code does. The comments of each module's
VARIABLES say which table or attribute a variable stands for; *history* variables
(announcements per send, effects per request, dates told, links given, what was cut
short) are written by the actions and read only by bounds and properties. "map" in
PROJECT.json gives each definition its lines.

A definition whose comment begins with *Mutant* is a bug the code does not have, one per
checked property, and no action uses it: put in the place of the definition it stands
by, it makes TLC report that property. "mutants" in PROJECT.json pairs them.

**SendPipeline.** `HookReceive … HookNotify` and `CommandReceive … CommandNotify` are
one recorder each, from the reads of the two modes to the insert, whose unique index is
`Duplicate`. The queue task is the cycle `TakeNotification | PollTimeout → CycleCheck →
CycleRelease → CycleFetch → CycleGate → NextInBatch`, and per record `Lookup →
HeldCheck → … → PostCheck… → Deliver | DeliverFails → Mark… | Hold`. `BotCrash` loses
the batch and the notifications, `BotStart` comes back with the first cycle.
`MaintenanceOff` with `FlushCheck`/`FlushRelease` is ops.py's two-step command, and
`RemoveSend`, `ForceMarkPosted`, `ForgetUser` and `Anonymise` are what other
components do to the table.

**WindDown.** `LoopWake → ReadAuto → ReadCurrent → Advance` is the tick, whose stored
phase was computed from two earlier reads; then the loop, like every task in `Kicks`,
goes through `Run`: `CheckPhase → CheckCompleted → TakeLock → Recheck → Stats →
FlagStats → CheckDms → Resolve → (BuildKeepsake → SendCard → SendPdf | Refused)* →
FlagDms → CheckAnonymise → Anonymise → FlagAnonymised → Complete`. `Raise` ends one
run and releases the lock; `BotCrash` ends all of them.

**SendChangeRequests.** `Create`, `SendDm`/`DmFails` and `Link` are the delivery, which
`DeliveryRaises` ends with the bot alive; a
`Click` runs `GetTo… → LookUp… → (RecordSend | UpdateAmount | MarkIgnored) → Settle`,
where `Settle` is the compare-and-set. `BotStart` rebinds the views of the pending
requests that know their message.

**CountGame.** Ticker, message handlers, the send queue and the owner's commands are
processes in `Procs`. `SweepOn … ExpireBlock` is the sweep every message and the ticker
run; `ReadMode → Judge → CheckBlock → CheckWindow → Reread` is a message, ending in
`Count`, `Reset` or the four steps that open a window; `RescueList … RescueWrite` is a
send; `Cancel…` is shared by the owner's commands and the replacement of a window.

**Inactivity.** An event (`Speak`, `MemberUpdate`, `Join`, `Leave`) occupies a handler,
whose steps are `Wake`, `Sync`, `Record`, `TakeOld`, `GiveNew` and `Clear`. A sweep is
`Begin → [backfill] → Judge → [TakeOld] → [GiveNew]` per member, then `Clear` or `GetRow →
Watch → (Grandfather | First → MarkFirst) → Kick | Final`. Taking one role and giving the
other are a call each; whether it is made is decided by the cache when its turn comes. Two sweeps, the weekly one and an operator's (which also
backfills), may run together.

**ServerBackup.** A cycle is `ReadPending → ReadBaseline → (Store | ReadDecided → Ask →
Post → Deliver)` or, adopting, `AdoptRead → AdoptStore → AdoptFinal`; a click is `Vote →
Claim → Promote` or `Reject`.

**SendNames and LeaderboardRefresh.** A registration is `CheckNames → WriteNames |
RefuseNames`, since each statement of its transaction sees what is committed by then; a send is `LookUp |
LookUpMention → Insert | LoseLookUp` (a mention names a user with a row or without); `RemoveSub` and `EraseUser` are one statement's worth each. The board
extends these tables with tasks that run `Begin | Drop → ReadSummary → ReadEntries →
HashNow → Unchanged | StoreHash → (Edit | SendMessage → SaveRef)* → Release`, for the
two keys in turn; `EditFails`, `RefreshRaises` (from wherever it is) and `Restart` interrupt them, `PostSend`
and `ConsumeRequest` start them. The figures are the sets of sends counted; `Standings`
has the numbers.

**DommeSetup.** The cards of the conversation are pressed (`StartSetup`, `OpenForm →
SubmitThrone → SetPending → Show`, `Confirm` or `Reject`, `Retry`, `Save → Complete →
Show`), and staff commands (`AddDomme`, `Reissue`, `RemoveDomme`, `ThroneBlacklist →
Block`) work beside them. Registration is `CheckOthers → ReadSecret → Upsert`, reissuing
is `Rotate` (or `Rebuild`, where the row is gone), each ending in `Tell` for staff or in a
card for the member. A `Deliver` is `Mark`, or `Record → Touch`, or `Touch`, by the kind
of event, and then `Ask → Advance` when the setup waits for its test.

**ProfileDrafts.** A request is `Load` (or `Start`) → `ReadScalars → ReadRest →
ReadRoot`, then the one write its endpoint makes: `OrientationStep … RotateThrone`,
`Restart`, `Publish`, `CommitStart`, guarded by `Guarded` (status and revision as read), or its
refusal. `GiveUp` is an error or a lost answer. `ProfileDocument` computes the new
document.

**ProfileWizard.** `Press` and `Submit` begin an interaction, `ReadRow → ReadRest` is
the draft as the Worker tells it (in two parts), one action per control is the call (`IdentityModal`,
`LinkModal`, `SaveThrone`, `Publish`, …), and `ShowWizard → Send | Close` is the message. `Expire`,
`Abandon` and `Restarted` end views, interactions and the bot's memory.

**ProfileRoots.** `CollectPublish` reads the targets of a publication and what it is
to project, `CommitPublish` is its batch; `CollectSetup`/`CommitSetup` are the same for
the completion of a guild setup, and `Show`, `SetChannel`, `StartSetup` what Bill makes of
the card. `Register` is the older API.

**Pure functions.** `ProfileView`, `Standings`, `ThronePayload`, `GuildScan`, `CountExpression`,
`OpsConsole`, `SqliteImport` and `Deployment` have no state. Their laws are assumptions of `MC`
modules, which TLC evaluates, over every input of small sets, at the start of a run:
of `ProfileView` in `profile_roots`, `Standings` in `leaderboard`, `ThronePayload` in `domme_setup`,
`CountExpression` in `count_game`, and of what the operator runs, `MCOperations`, in
`change_requests`. Where an operator's command meets the running bot, it is also an action of
the model of that table (`MaintenanceOff`, `ForceMarkPosted`, `FlushCheck`, …).

**Refinement.** `SendPipeline` has `Delivery == INSTANCE SendDelivery` with `known` the
inserted ids, `told` the announcements and `lapses` the announcements whose mark was
lost. `ProfileDrafts` has `Store == INSTANCE ProfileStore` with `working` the
active drafts and `published` the documents of the publication history. Every step of the
detailed module is a step of the abstract one or leaves its variables
alone: checked in `send_delivery` and `profile_drafts`, and proved.

## 3. The runs

| run | instance | properties | shows |
|---|---|---|---|
| `send_delivery` | 2 events, one of the main guild with a bad currency; 2 webhook handlers or a manual command; phases 0 and 3, offline mode; batch 2; 2 faults; 1 edit; 2.61 million states | AnnouncedOnce, PostedWasAnnounced, ImplementsDelivery | repeated deliveries, crashes and the operator's edits never make a second announcement unless a mark was lost; a send counted without a message had a quiet mode, or the operator, behind it |
| `send_live` | 2 events, 1 handler; maintenance; 1 fault; 549,556 states | QuietDuringMaintenance, NoSendStranded | nothing is announced in a window but the record already in hand, and no send is left waiting |
| `wind_down` | 2 recipients, 1 spawned run, 1 fault, 2 commands | KeepsakeHasHistory, FarewellOnce, NobodyLeftOut, ErasureWasDue, FinalSequenceCompletes | overlapping runs, a crash and a roll-back of the phase |
| `change_requests` | 2 requests, 1 send, 2 clicks, 2 faults; 4,193,223 states | DecisionMatchesEffect, PendingHasButtons, DecisionFinal | clicks that cross, a delivery that raises, a restart, a deleted row |
| `count_game` | 1 sub, 1 Dom/me, 2 handlers, 2 messages, 1 send, 1 disturbance, number up to 1; 952,637 states | OutcomeAppliedOnce, NumberEarned, WindowsClose | the four processes on one window |
| `inactivity` | 1 member, 1 handler, both sweeps, clock up to 3 days, 2 disturbances; 1,529,868 states | ToldTheDate, KickWasDue, RulesPrevail | sweeps beside events and each other |
| `server_backup` | 3 structures, 2 moderators who must both approve, 2 clicks, 1 edit, 1 setback; 1,174,274 states | ApprovedIsPromoted, RejectedIsKeptOut, PromptReachable | two cycles, crossing clicks, a restart |
| `profile_drafts` | 2 requests, 2 drafts, 2 links, room for 1, 1 import, 2 secrets, 7 edits; 1,408,387 states | HistoryIsLinear, PublishedIsAllowed, AnsweredSecretIsLive, DraftsWithinLimits, ImplementsStore | any two endpoints crossing at any await |
| `profile_wizard` | 2 interactions, 1 message, 1 form, 1 link, 3 edits, 2 secrets; 2,018,042 states | ScreensAreHonest, PublishedIsWhatWasShown, WritesOnlyItsSection | old buttons, forms left open, restarts |
| `profile_roots` | 1 owner, home and 1 guild, 2 requests, 2 publications of each profile, 2 channels, sessions up to revision 5; 2,457,573 states | RegisteredAsPublished, AliasesMirrorProfiles, CardsAreHonest, ExplicitRowsStand | publications, setup and registration between each other's reads and batch |
| `leaderboard` | 2 subs, 2 names, 1 send, the poller and one ops call, 2 channels, 3 messages, 1 event; 2,486,268 states | NameHasOneOwner, ErasedStaysErased, BoardFollowsHash, AttributionStands | names, attribution and the board together |
| `domme_setup` | 2 members, 2 creators, 2 tasks, 2 secrets, 5 tasks begun; 4,040,983 states | DeliveriesReachTheirOwner, RotatedStaysDead | conversation, staff and deliveries on one registration |

**Why the bounds are enough.** Each hazard takes two actors on one row: two handlers
with one event, a batch with two records of which the first blocks the second, two
runs of the final sequence with two recipients (one tried, one left), two clicks on one
request, two messages on one window, two sweeps on one member, two cycles on one
approval, two requests on one draft, two registrations of one name. One crash or exception per run is enough to interrupt any step of any of
them, and two runs allow two: `send_delivery` because a lost mark needs a fault to happen and a
second one to repeat, `change_requests` so that a restart comes after a delivery that raised;
in `send_delivery` the constraint `MCOneQuestion` keeps the two questions of the run
(repeated deliveries; quiet modes) in separate behaviours. The owner's
commands of `wind_down` are two so that the phase can go up and back. In `inactivity`
a member is judged apart from all others (the sweep's loop keeps nothing between two
members), so one is enough; the clock of 3 days lets a first notice (day 2 of silence)
be followed by a grace, and `AfkDays` is 2 because with 1 an absence would end before
it mattered. `profile_drafts` has two drafts because the second begins while the first
is being published, and room for one link so that the limit is met; `profile_roots` has
two publications and revisions up to 5 because the latter is where a completion that was sent
twice outruns a second session. Two creators of `domme_setup` allow a member to be moved from
one to the other while a delivery by the old link is on its way.

Symmetry is used only in runs without liveness.

Bounds are in the guards, each named in CONSTANTS with the word *bound*: `MaxSends`,
`MaxFaults`, `MaxEdits`, `MaxCommands`, `MaxNumber`, `MaxMessages`, `MaxDisturbances`,
`MaxTime`, `MaxApprovals`, `MaxSetbacks`, `MaxDrafts`, `MaxRevision`, `MaxImports`,
`MaxSecrets`, `MaxForms`, `MaxVersion`, `MaxPublications`, `MaxRows`, `MaxTasks`,
`MaxEvents`, and the sets `SetTo` and `Modes`, which say
which numbers and switches the run's operator uses. `CHECK_DEADLOCK FALSE` is set in
`count_game`, `inactivity`, `server_backup`, `profile_drafts`, `profile_wizard`,
`profile_roots`, `leaderboard` and `domme_setup` (and in no other): when their messages,
clock, edits and disturbances are used up, nothing is left to happen and the model
stops; the loops' empty ticks, which would be stuttering steps, are not actions.

## 4. Fairness

* `SendPipeline`: weak fairness of `BotStart` (the bot runs under systemd with a
  restart, `deploy/systemd/rob-bot.service`) and of `QueueStep` (an asyncio task whose
  awaits return or raise). None of recorders or operators.
* `WindDown`: of the loop with its run, and of every spawned run; nothing forces the
  calendar or the owner. `FinalSequenceCompletes` speaks of a phase 3 that stays.
* `CountGame`: of the ticker's sweep and of deadlines, which time brings about.
  Message handlers, sends and the owner are not fair, and `WindowsClose` does not need
  them; it excepts a ticker that an exception ended.
* `Inactivity`: of the sweeps' start and steps and of the handlers' steps. Strong
  fairness of `MemberUpdate`: Discord dispatches an event whenever roles change and the
  bot handles it; that a handler is busy is only the model's bound on events at one time.
* `ServerBackup`: of the hourly cycle and of each click's own steps; nobody is forced
  to click.
* All others: none, and no liveness is claimed. A refresh of the board may be dropped,
  an owner may never answer, and a request that nobody repeats is simply over.

Faults are bounded, so liveness means: once the faults are over.

## 5. The proofs

| module | theorems |
|---|---|
| `SendPipeline_proofs` | TypeCorrect, AnnouncedOnceCorrect, QuietDuringMaintenanceCorrect, PostedWasAnnouncedCorrect, Implementation |
| `BotLoops_proofs` | of `WindDown`: WindTypeCorrect, KeepsakeHasHistoryCorrect, FarewellOnceCorrect, NobodyLeftOutCorrect, ErasureWasDueCorrect; of `Inactivity`: TypeCorrect, ToldTheDateCorrect, KickWasDueCorrect |
| `DommeButtons_proofs` | of `SendChangeRequests`: ChangesTypeCorrect, DecisionMatchesEffectCorrect, PendingHasButtonsCorrect, DecisionFinalCorrect; of `DommeSetup`: InductiveInvariant, TypeCorrect, DeliveriesOwned, RotationsStand |
| `CountGame_proofs` | TypeCorrect, OutcomeAppliedOnceCorrect, NumberEarnedCorrect |
| `ServerBackup_proofs` | TypeCorrect, ApprovedIsPromotedCorrect, RejectedIsKeptOutCorrect |
| `ProfileDrafts_proofs` | InductiveInvariant, TypeCorrect, LinearHistory, PublishedAllowed, SecretIsAnswered, DraftLimits, Refinement |
| `LeaderboardRefresh_proofs` | InductiveInvariant, TypeCorrect, NameHasOneOwnerCorrect, ErasedStaysErasedCorrect, AttributionStandsCorrect, BoardFollowsHashCorrect |
| `ProfileSurface_proofs` | of `ProfileRoots`: RootsInvariance, RootsTypeCorrect, RegisteredAsPublishedCorrect, AliasesMirrorProfilesCorrect, CardsAreHonestCorrect, ExplicitRowsStandCorrect; of `ProfileWizard`: WizardInvariance, WizardTypeCorrect, ScreensAreHonestCorrect, PublishedIsWhatWasShownCorrect, WritesOnlyItsSectionCorrect |

Every safety invariant, action property and refinement that a run checks has its
theorem. The assumptions are the named ASSUMEs of the modules: that bounds are naturals and
that names differ (no recorder is both, `Nobody` is no recipient, a creator has one
owner). So these theorems hold for any number of sends, recipients, requests, members,
clicks, guilds, drafts, links and faults. Where one proof module serves two specifications, the names of
one carry a prefix (`Wind`, `Changes`, `Wizard`), as one module cannot define a name twice.
The type invariants are proved and not run: the proof covers the instances too.

Each proof rests on an invariant that is inductive: named `IInv` (or with that
prefix), a conjunction of named parts, checked with TLC before it was proved.

* **SendPipeline**: `TypeOK`; `RowsSerial`, `ReferencesSerial`, `NotesSerial` (an id
  anybody holds has been inserted), `OneRowPerEvent`, `BatchDiscipline` (what the task
  holds and where it is agree) and `NothingOwedTwice`: a send that is waiting, or whose
  announcement is in hand, has been announced no oftener than its marks were lost.
  AnnouncedOnce alone is not inductive since it says nothing about a send announced but
  not yet marked. `WindowDiscipline` and `QuietJustified` carry the two other
  properties.
* **WindDown**: `InHandKnown`, `OneRun` (who is inside holds the lock), `StepsInOrder`
  (which flags each place implies), `FarewellsCounted`, `EveryoneTried` (tried, in hand or
  still to do), `PhaseJustified`.
* **SendChangeRequests**: `FreshUntouched`, `OneClick` (an uncontested request has one
  click at work), `DeliveryFirst`, `OpenReachable`, with the property itself.
* **CountGame**: `WindowsKnown`, `LocalsSensible`, `EarnedFromZero`, `OutcomeInHand`: a
  window resolved whose outcome is not yet applied is in exactly one process's hand,
  unless it was cut short.
* **Inactivity**: `RowsTold` (a date in the table was told), `StepKnown`,
  `VerdictStands` (what a sweep holds is still so unless its member was raced),
  `DateHeld`.
* **ServerBackup**: `HandsKnown`, `IdsLeft`, `FreshUntouched`, `ClicksLive`,
  `ClicksInOrder`, `VotesEnough`, `PromotedApproved`, `PromotionAccounted`,
  `CyclesApart`, `AdoptionAlone`, `AdoptionAccounted`.
* **DommeSetup** (in the proofs module): `TasksSound` (the secret a task holds was made
  for its member, and a delivery at work was accepted), `RowsOwn`, `GivenOwn`,
  `RetiredOld`. Ownership is never lost because secrets are only appended (`SecretsGrow`),
  so one task's step leaves the others sound (`OneTask`).
* **SendNames and LeaderboardRefresh**: `RowsWhole`, `OneOwner`, `ImportedSeen`,
  `References` (the row a send refers to is there and of the user it names; an erased user has
  none) for the names; `OneRefresh` (whoever is past the start holds the lock),
  `ShowsItsHash` (a message a task has dealt with shows what it hashed), `RestFollows`
  (the messages it has still to deal with are those that may differ) for the board. The
  two halves change apart but for `Insert` and `PostSend`.
* **ProfileDrafts**: `FreshReads` is the point: a request whose draft still has the
  revision it read holds the draft's present document, steps and imports, wherever its
  awaits fell. With `OneActive` (one active draft) and `DraftShape` (revisions, bases and
  the root are in step) each write is one edit of `ProfileStore`, which `Refinement` uses.
* **ProfileRoots**: `SessionsWhole`, `RequestsWhole` and `InStep`: a publication or
  completion that still may be written (its guards hold) was collected from profiles that
  are still there, unless `overlapped` says that a batch came between. `RootsWhole` and
  `ExplicitIsActive` say what rows look like.
* **ProfileWizard**: of the contract that a task, a message or a form holds: it is of
  the past (`Past`: no revision after the draft's), honest while usable (`Honest`,
  `Usable`: at the draft's revision it has the draft's document). `TaskHolds` asks that of
  interactions that have read the Worker (`Informed`; the forms of `Blind` keep no more than
  a revision) and of what the presser of Publish saw, `MessageHolds` of live messages, and
  `FormHolds` of the forms that keep a document.

The proof that a step keeps `IInv` has one step per action; in the larger modules
actions that leave the relevant variables alone share a lemma of frames.

The attempt at `CardsAreHonest` failed at first, and for a good reason: a confirmation
of a guild setup may be sent twice, and its second batch may be written after a whole later
session (section 6). The property now excepts guilds where that happened, `outrun`, and
the run's bounds were raised until it does happen there.

*Only model-checked*: liveness (NoSendStranded, FinalSequenceCompletes, WindowsClose,
RulesPrevail, PromptReachable), which needs fairness and ENABLED, and the laws of the
pure functions, which are induction over sequences or recursion over
trees. `CountExpression` and `MCCountGame` are the only modules with a RECURSIVE operator.

## 6. Where the program disagrees with itself

Eight definitions are stated, commented *Stated, and not kept*, and listed in no run, since
the code does not keep them. To see how, add the name to the INVARIANTS or PROPERTIES of
the run's configuration.

* `RemovalSticks` (SendPipeline): a removal is approved while the queue holds a copy of the send. The
  task marks its copy as posted and the send is announced and counted, although the
  approver was told "Rob removed the approved send from tracked totals"
  (send_queue_service.py:361, send_change_request_service.py:385).
* `MassDmNeverRepeats` (WindDown): the flag of the mass DM is set after the last user, so a
  restart part-way writes to everyone again; the docstring of `final_sequence.py` says
  a restart "never repeats the mass DM" (:178 against :15–17 and :163).
* `RejectedIsNotApplied` (SendChangeRequests): `approve_request` changes the send before it decides the
  request. A rejection in between is stored, and the Dom/me is told "Rob did not apply
  that backend send change" (send_change_request_service.py:253 against :414).
* `ResetMeansOne` (CountGame): a message is judged by the row it read before its own sweep, which
  may have reset the count; the game then goes on from the lost number, although the
  card says the count is reset to 1 (counting_service.py:226 against ui/cards/counting.py:141).
* `PreferenceIsPayment` (ProfileWizard): editing a preferred payment link into a social
  one leaves it preferred (linkService.ts:208–221); skipping, attaching or rotating then
  fails with `invalid_preferred_payment_link`, and the owner is stuck at that step.
* `WebhooksFollowProfiles` (ProfileRoots): what a publication projects is read before its
  batch, so a registration may keep a creator the profile no longer shows
  (registrationSync.ts:91–94).
* `ErasedIsForgotten` (SendNames): `/add` with a mention stores the member's Discord id although there is
  no row of subs, so a member whose data was erased is named again by a send made after the
  erasure, or begun before it and stored after (send_service.py:205–209; sub_user_id has no foreign key).
* `SkipIsSound` (LeaderboardRefresh): the hash is stored before the edits, and neither a failed edit nor
  an exception of the database (leaderboard_service.py:199, :251, :276) takes it back; the next refresh
  of the same figures is skipped and the message stays old until they change or the bot restarts.

Others came out while modelling or proving, as laws that name a surprise or as exceptions of a
property:

* **Guild setup.** The second batch of a confirmation sent twice, written after a later
  session completed, moves the posts back to the older channel; a completion
  that loses its compare-and-set still inserts a guild row (guildSetupService.ts:259–277).
* **Profiles.** A global publication gives links new ids, so inherited links that an overlay had
  hidden reappear (docs/profiles.md:13–14; law `HidingIsForgotten`), and a linked overlay may
  show more than twelve (:41). Starting with another mode resumes the draft there is; one
  started while a publication commits has the old base.
* **Change requests.** An exception between the request's row and the storing of its DM's id leaves it
  pending: its buttons, if they went out, are dead after the next restart, and nothing else decides it
  (send_change_request_service.py:470–490).
* **Secrets.** The older /register rotates without a condition, and of two answers the last
  is in force; Bill makes two calls to rotate or attach, and when the second fails the new
  secret is in force and was never shown (bill/components/profile.py:664–693). A double "Yes", or two registrations that overlap,
  hands out a link that is already dead (dm_onboarding_service.py:121). A registration that
  read a secret before it was rotated and the row removed brings it back in a new row.
* **Dom/mes and creators.** Two registrations may give one creator to two members of a guild
  (registration_service.py:84–107). A late `mark_setup_verified` activates a row after a
  rotation; racing an auto-advance, a completed setup goes back to preferences.
  `/throne-blacklist` does nothing when the removal fails on the sends that refer to the row
  (admin_tools.py:66), and a registration under way re-inserts who was just blocked.
* **Leaderboards.** A request for a refresh is consumed only when maintenance is off
  (docs/operations-runbook.md:44 and :46). The hash does not tell maintenance from offline; after
  the channel changes, an unchanged hash skips the move; a refresh dropped by the lock leaves the
  board as it was; a crash between message and save leaves two.
* **Figures.** A sub with two names counts as two senders in a Dom/me's top sub; the board's
  sum adds cents of different currencies, where the public site keeps them apart;
  sends that name a sub only by mention are in the totals and not in the ranking.
* **Payloads.** An item or order whose name contains "test", "webhook" or "setup" makes a real
  send a test, which is not recorded (payloads.py:172–175; law `ItemsMakeTests`). A gift of
  hidden amount that matches a wish is stored with the wish's price and as not private
  (send_service.py:107–128; law `WishesUncoverAmounts`).
* **Guild scan.** A role "Inactive" contains "active": without an Active role the
  application of a scan makes it the active role (law `InactiveIsTakenForActive`).
* **Console.** `throne webhook refresh` prints "Rotated" and an address (ops/ops.py:1228, help :214,
  tests/ops/test_ops_throne_legacy_commands.py:126), but the upsert keeps a secret that is there
  (throne_creators.py:75), so the address is refused (law `RefreshIsNoRotation`). `throne adddomme`
  registers and then fails on `result.creator` (ops/ops.py:1314), before its address is printed (law
  `AddDommeWritesThenFails`). `throne addsub` asks neither the blacklist nor the reserved names: a
  sub named "anonymous" gets every anonymous send (law `AddSubTakesMore`). The status of inactivity and
  backup says "(default off)" whatever the default is (:990, :1018). Console and bot may suggest
  different channels where a name has capitals (law `ScansDiffer`).
* **Import.** A creator whose id two Dom/mes come with is reported as "keeping first mapping"
  (import_sqlite_to_postgres.py:484), and both are written with the id (law `ConflictIsWrittenTwice`). A file
  imported again stores each send without an event again or, if it has a hash, fails as a whole
  (`AgainRepeatsSendsWithoutEvent`), and undoes what changed since (`OverwritesWhatChangedSince`).
* **Deployment.** The list of scripts that deploy-bot.sh shows after a failed check ends at 009, though
  the check asks for 010 to 013 (law `ManualFixIsNotEnough`). The check passes without the table of 009,
  and then no user's data can be deleted (`TermsAreNotChecked`); it passes a `sends` older than its
  `original_` columns, and then no send is stored (`OldSendsPass`). Run by psql statement by
  statement, 007 before 006 is recorded and has no effect (`RecordedWithoutEffect`). The bot needs no
  new grants after a new script, the webhook does (`GrantsOfTheFuture`).
* **Counting.** `_resolve_claim_requirement` (counting_service.py:707–783) is called
  from nowhere.

Hazards seen and covered by no property, for want of a composition or because the code has
nothing against them: an approved send_add after anonymisation names people again
(send_change_request_service.py:253); `count set` leaves windows open (ops/ops.py:914);
switching inactivity off and on keeps countdowns running, so its first sweep may kick
(inactivity_service.py:511, docs/inactivity-and-server-backup.md:98); backfilling overwrites
(:200); the older of two backup approvals is promoted over the newer (server_backups.py:114);
the signature of a structural change names what was touched and not its value, so after a
rejection another change of the same targets is not asked about (server_backup_service.py:308,
docs :134).

## 7. What the models leave out

* Cards, wording, PDF layout, permission checks of commands, authentication, HTTP. Amounts are figures in
  `Standings` and `ThronePayload` only. A snapshot's structure is three features: an outline, permissions and the
  trim that is ignored; whether a change is a batch is a predicate on two structures.
* **SendPipeline**: a `discord.HTTPException` is taken to mean that nothing was
  delivered. A send that raises every time would block those behind it for good; the model bounds
  that with `MaxFaults`. An id is not burnt by a unique violation. A forgotten user's
  send may still be announced from the task's copy.
* **WindDown**: the loop's stale write may lower a phase the owner set; ErasureWasDue
  allows for it.
* **CountGame**: phases from 3 on are messages not sent; the channel is fixed; the mode
  is read once in a sweep; the high watermark is left out; one owner's command at a
  time; in the run the owner sets 0 only.
* **Inactivity**: the clock stands while a sweep runs; a handler has one event; a
  kick's own leave event is taken with the sweep's clear; backfilling is all or nothing;
  nobody is `Protected` in the run (the proof covers any set); the loop's wind-down
  gate is left out. `KickWasDue` and `ToldTheDate` except a member on whom another
  sweep or event interfered (`raced`), because the code keeps its verdict over awaits.
* **SendChangeRequests**: `PendingHasButtons` excepts requests whose delivery a crash or an exception
  cut short (`cutDelivery`).
* **ServerBackup**: `RejectedIsKeptOut` excepts approvals asked for twice (`doubled`)
  and adoptions cut short (`torn`), where the code does let a rejected structure in.
* **LeaderboardRefresh**: `leaderboard adopt` (in `OpsConsole` only); the maintenance label of the
  card; one guild. `BoardFollowsHash` excepts messages whose edit failed, that an exception left
  undone or that were deleted (`spoilt`); `ErasedStaysErased` excepts mentions of members without a
  row. Anonymisation and the repair of mentions (sends.py:272 and :546) change attributions too: the
  first is in `WindDown`, both are in `Standings`.
* **DommeSetup**: the preferences themselves, the role of the board, mass reissues,
  maintenance and the wind-down, which only stop tasks early.
* **Profile worker**: the parser of Throne events (worker/src/throne/parser.ts) and the
  migration with the unique keys of `throne_events` are not in the repository; that a
  repeated event is refused is taken from `isUniqueConstraintError`. In `ProfileDrafts` one
  profile has one owner; in `ProfileWizard` the Worker takes an edit in one step, which
  `ProfileDrafts` justifies; the wizard's control for the visibility of inherited links
  (bill/components/profile.py:604–625, :995–1051) is left out: it saves the links
  section by the call that `CompleteLinks` makes, under the revision it was opened at; that what is
  hidden stays hidden to a viewer is in `ProfileView`. `RegisteredAsPublished` excepts what was `overlapped`.
* **OpsConsole, SqliteImport, Deployment**: one command, import or check at a time on a database
  at rest; what is printed beyond the facts, limits of lists, dates. Of the schema, indexes that only speed.
* The archive, which does not run, is the largest part of the Python code; the rest of what is not mapped is
  cards, HTTP clients and shell scripts, which
  keep no state whose order matters. Components listed as not modelled in
  PROJECT.json say why.

## 8. The plan

Done: all components above whose state changes hands, with their proofs.

What is left, in order of worth:

1. **Compositions**: wind-down with an approved send_add; counting with the send queue's
   order of rescue and announcement; the erasure of a user with requests and setup.
2. **Abstractions**: the wind-down as "each step once but for interruptions", change
   requests as a two-valued decision.
3. **Lemmas about the pure functions** where no induction is needed: that ranking keeps every
   entry, that a repair done twice is a repair done once.
