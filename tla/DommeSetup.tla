------------------------------ MODULE DommeSetup ------------------------------
(***************************************************************************)
(* How a Dom/me of one guild gets a webhook link, and what deliveries to   *)
(* it do: the setup in direct messages, the staff commands and the         *)
(* webhook process, all working on the same two tables.                    *)
(*                                                                         *)
(* A button, a command or a delivery is a task; between two of its steps   *)
(* is an await, where any other task may run.  Two statements of one task  *)
(* on domme_onboarding_state are one step where nobody reads what is       *)
(* between them.                                                           *)
(*                                                                         *)
(* Left out: the preferences themselves, the leaderboard role, the marker  *)
(* of a mass reissue (a targeted one ignores it), maintenance and the      *)
(* wind-down, which only stop tasks early, and the lookup of a guild.      *)
(***************************************************************************)
EXTENDS Integers, Sequences, FiniteSets

CONSTANTS
    Users, Creators,  \* Discord members; Throne creators
    Tasks,            \* coroutines that may run at once
    Nobody, Nothing,  \* no row; no creator
    MaxSecrets,       \* bound: webhook secrets made
    MaxTasks          \* bound: tasks started and changes of the blacklist

ASSUME SetupAssumption ==
    /\ Nothing \notin Creators
    /\ MaxSecrets \in Nat /\ MaxTasks \in Nat

VARIABLES
    dommes,    \* dommes: the row of each member, Nobody for none
    serial,    \* ids of rows given out
    secrets,   \* for whom each secret was made, in order
    blocked,   \* the blacklist
    setup,     \* domme_onboarding_state: stage and pending creator
    cards,     \* the kinds of card in a member's messages: the stored one, the others
    tasks,     \* where each task is and what it read
    started,   \* how many of the bounded tasks and changes there were
    given,     \* links each member was given (history)
    retired,   \* row and secret of every rotation and removal (history)
    matched,   \* member, row and link of every accepted delivery (history)
    credited   \* sends recorded: member, row and link

tables == <<dommes, serial, secrets, blocked>>
screens == <<setup, cards>>
history == <<given, retired, matched, credited>>
vars == <<tables, screens, history, tasks, started>>

Stages == {"none", "throne", "identity", "webhook", "preferences", "completed"}
Kinds == {"none", "intro", "form", "identity", "webhook", "preferences", "success"}
Links == [creator : Creators, secret : 1..MaxSecrets]
LinkOf(creator, secret) == [creator |-> creator, secret |-> secret]

Registered(u) == dommes[u] # Nobody
HasSends(u) == \E s \in credited : s.id = dommes[u].id
Held(u) == cards[u].others \cup {cards[u].stored}

\* a task of a member at its first step
New(u, via, step) == [at |-> step, user |-> u, creator |-> Nothing, secret |-> 0,
                      id |-> 0, via |-> via, card |-> "none"]
Idle == New(Nobody, "card", "idle")

Init ==
    /\ dommes = [u \in Users |-> Nobody]
    /\ serial = 0
    /\ secrets = <<>>
    /\ blocked = {}
    /\ setup = [u \in Users |-> [stage |-> "none", pending |-> Nothing]]
    /\ cards = [u \in Users |-> [stored |-> "none", others |-> {}]]
    /\ tasks = [t \in Tasks |-> Idle]
    /\ started = 0
    /\ given = [u \in Users |-> {}]
    /\ retired = {}
    /\ matched = {}
    /\ credited = {}

(***************************************************************************)
(* Tasks                                                                   *)
(***************************************************************************)
Begin(t, task) ==
    /\ tasks[t].at = "idle"
    /\ started < MaxTasks
    /\ started' = started + 1
    /\ tasks' = [tasks EXCEPT ![t] = task]

Goes(t, task) == tasks' = [tasks EXCEPT ![t] = task] /\ UNCHANGED started
Moves(t, step) == Goes(t, [tasks[t] EXCEPT !.at = step])
Ends(t) == Goes(t, Idle)

SetStage(u, stage) ==
    setup' = [setup EXCEPT ![u].stage = IF @ = "none" THEN @ ELSE stage]

(***************************************************************************)
(* The setup in direct messages                                            *)
(***************************************************************************)
\* /register domme
StartSetup(t, u) ==
    /\ Begin(t, New(u, "card", "send"))
    /\ setup' = [setup EXCEPT ![u].stage = "throne"]
    /\ UNCHANGED <<tables, cards, history>>

\* a new message becomes the stored one, the old ones keep their buttons
NewCard(u, card) ==
    [cards EXCEPT ![u] = [stored |-> card, others |-> (@.others \cup {@.stored}) \ {"none"}]]

\* the intro is a new message; or the DM is refused
SendIntro(t) ==
    /\ tasks[t].at = "send"
    /\ cards' \in {cards, NewCard(tasks[t].user, "intro")}
    /\ Ends(t)
    /\ UNCHANGED <<tables, setup, history>>

OpenForm(u) ==
    /\ "intro" \in Held(u)
    /\ cards' = [cards EXCEPT ![u] = [stored |-> @.stored, others |-> @.others \cup {"form"}]]
    /\ UNCHANGED <<tables, setup, history, tasks, started>>

\* the creator behind what was entered, or none that could be resolved
SubmitThrone(t, u, c) ==
    /\ "form" \in Held(u)
    /\ Begin(t, [New(u, "card", "pending") EXCEPT !.creator = c])
    /\ cards' = [cards EXCEPT ![u].others = @ \ {"form"}]
    /\ UNCHANGED <<tables, setup, history>>

SetPending(t) ==
    /\ tasks[t].at = "pending"
    /\ LET u == tasks[t].user
           c == tasks[t].creator
       IN  \/ /\ setup' = [setup EXCEPT ![u] =
                    IF @.stage = "none" THEN @ ELSE [stage |-> "identity", pending |-> c]]
              /\ Goes(t, [tasks[t] EXCEPT !.at = "show", !.card = "identity"])
           \/ /\ Goes(t, [tasks[t] EXCEPT !.at = "show", !.card = "intro"])
              /\ UNCHANGED setup
    /\ UNCHANGED <<tables, cards, history>>

\* "Yes, that's me": registers whatever creator is pending now
Confirm(t, u) ==
    /\ "identity" \in Held(u)
    /\ setup[u].pending # Nothing
    /\ u \notin blocked
    /\ Begin(t, [New(u, "card", "others") EXCEPT !.creator = setup[u].pending])
    /\ UNCHANGED <<tables, screens, history>>

MoveStage(t) ==
    /\ tasks[t].at = "stage"
    /\ SetStage(tasks[t].user, "webhook")
    /\ Goes(t, [tasks[t] EXCEPT !.at = "show", !.card = "webhook"])
    /\ UNCHANGED <<tables, cards, history>>

Reject(t, u) ==
    /\ "identity" \in Held(u)
    /\ setup[u].stage # "none"
    /\ Begin(t, [New(u, "card", "show") EXCEPT !.card = "intro"])
    /\ SetStage(u, "throne")
    /\ UNCHANGED <<tables, cards, history>>

Save(t, u) ==
    /\ "preferences" \in Held(u)
    /\ Registered(u)
    /\ Begin(t, New(u, "card", "complete"))
    /\ UNCHANGED <<tables, screens, history>>

Complete(t) ==
    /\ tasks[t].at = "complete"
    /\ SetStage(tasks[t].user, "completed")
    /\ Goes(t, [tasks[t] EXCEPT !.at = "show", !.card = "success"])
    /\ UNCHANGED <<tables, cards, history>>

\* the card replaces the stored one; where that cannot be edited, it goes on the
\* message that was pressed or on a new one; a link on it is the one the task
\* returned.  Or nothing can be edited or sent.
Show(t) ==
    /\ tasks[t].at = "show"
    /\ LET u == tasks[t].user
           link == LinkOf(tasks[t].creator, tasks[t].secret)
       IN  \/ /\ cards' \in {[cards EXCEPT ![u].stored = tasks[t].card],
                           NewCard(u, tasks[t].card)}
              /\ given' = [given EXCEPT ![u] =
                               IF tasks[t].card = "webhook" THEN @ \cup {link} ELSE @]
           \/ UNCHANGED <<cards, given>>
    /\ IF tasks[t].via = "tester" THEN Moves(t, "record") ELSE Ends(t)
    /\ UNCHANGED <<tables, setup, retired, matched, credited>>

(***************************************************************************)
(* register_domme and reissue_domme_webhook                                *)
(***************************************************************************)
AddDomme(t, u, c) ==
    /\ u \notin blocked
    /\ Begin(t, [New(u, "staff", "others") EXCEPT !.creator = c])
    /\ UNCHANGED <<tables, screens, history>>

Taken(u, c) == \E v \in Users \ {u} : /\ Registered(v)
                                      /\ dommes[v].creator = c

CheckOthers(t) ==
    /\ tasks[t].at = "others"
    /\ IF Taken(tasks[t].user, tasks[t].creator) THEN Ends(t) ELSE Moves(t, "read")
    /\ UNCHANGED <<tables, screens, history>>

\* keeps the secret that is stored, makes one where there is none
ReadSecret(t) ==
    /\ tasks[t].at = "read"
    /\ LET u == tasks[t].user
           old == Registered(u)
           n == IF old THEN dommes[u].secret ELSE Len(secrets) + 1
       IN  /\ n <= MaxSecrets
           /\ secrets' = IF old THEN secrets ELSE Append(secrets, u)
           /\ Goes(t, [tasks[t] EXCEPT !.at = "upsert", !.secret = n])
    /\ UNCHANGED <<dommes, serial, blocked, screens, history>>

\* Mutant: the upsert overwrites the secret with the one it was given
UpsertedOver(row, task, id) ==
    [id |-> IF row = Nobody THEN id ELSE row.id,
     creator |-> task.creator, tracking |-> FALSE, secret |-> task.secret]

\* INSERT ... ON CONFLICT: a stored secret stands, whatever the task read
Upserted(row, task, id) ==
    [id |-> IF row = Nobody THEN id ELSE row.id,
     creator |-> task.creator, tracking |-> FALSE,
     secret |-> IF row = Nobody THEN task.secret ELSE row.secret]

Upsert(t) ==
    /\ tasks[t].at = "upsert"
    /\ LET u == tasks[t].user
       IN  /\ dommes' = [dommes EXCEPT ![u] = Upserted(@, tasks[t], serial + 1)]
           /\ serial' = IF Registered(u) THEN serial ELSE serial + 1
    /\ Moves(t, IF tasks[t].via = "card" THEN "stage" ELSE "tell")
    /\ UNCHANGED <<secrets, blocked, screens, history>>

\* the answer of a staff command reaches the member, or the DM fails
Tell(t) ==
    /\ tasks[t].at = "tell"
    /\ given' \in {given, [given EXCEPT ![tasks[t].user] =
                               @ \cup {LinkOf(tasks[t].creator, tasks[t].secret)}]}
    /\ Ends(t)
    /\ UNCHANGED <<tables, screens, retired, matched, credited>>

\* "Retry" of the webhook card; without a row only the rebuild is left
Retry(t, u) ==
    /\ "webhook" \in Held(u)
    /\ Begin(t, IF Registered(u)
                THEN [New(u, "card", "rotate") EXCEPT !.creator = dommes[u].creator]
                ELSE New(u, "card", "rebuild"))
    /\ UNCHANGED <<tables, screens, history>>

Reissue(t, u) ==
    /\ Registered(u)
    /\ Begin(t, [New(u, "staff", "rotate") EXCEPT !.creator = dommes[u].creator])
    /\ UNCHANGED <<tables, screens, history>>

\* the link goes on the card or to staff
Returns(t, creator, secret) ==
    Goes(t, [tasks[t] EXCEPT !.creator = creator, !.secret = secret,
                             !.at = IF tasks[t].via = "card" THEN "show" ELSE "tell",
                             !.card = "webhook"])

\* a new secret, with the creator that was read: the link so far is dead
Rotated(row, task, secret) ==
    [id |-> row.id, creator |-> task.creator, tracking |-> FALSE, secret |-> secret]

Rotate(t) ==
    /\ tasks[t].at = "rotate"
    /\ LET u == tasks[t].user
           n == Len(secrets) + 1
       IN  /\ n <= MaxSecrets
           /\ secrets' = Append(secrets, u)
           /\ IF Registered(u)
              THEN /\ dommes' = [dommes EXCEPT ![u] = Rotated(@, tasks[t], n)]
                   /\ retired' = retired \cup {<<dommes[u].id, dommes[u].secret>>}
                   /\ Returns(t, tasks[t].creator, n)
              ELSE /\ UNCHANGED <<dommes, retired>>
                   /\ IF tasks[t].via = "card"
                      THEN Moves(t, "rebuild")
                      ELSE Ends(t)
    /\ UNCHANGED <<serial, blocked, screens, given, matched, credited>>

\* the link of the row as it is now
Rebuild(t) ==
    /\ tasks[t].at = "rebuild"
    /\ LET u == tasks[t].user
       IN  IF Registered(u)
           THEN Returns(t, dommes[u].creator, dommes[u].secret)
           ELSE Ends(t)
    /\ UNCHANGED <<tables, screens, history>>

(***************************************************************************)
(* Removal and the blacklist                                               *)
(***************************************************************************)
\* the foreign key of sends refuses the DELETE of a row that has some
Deleted(u) == /\ Registered(u) => ~HasSends(u)
              /\ dommes' = [dommes EXCEPT ![u] = Nobody]
              /\ retired' = retired \cup {<<v.id, v.secret>> : v \in {dommes[u]} \ {Nobody}}

RemoveDomme(u) ==
    /\ Registered(u)
    /\ Deleted(u)
    /\ UNCHANGED <<serial, secrets, blocked, screens, given, matched, credited, tasks, started>>

\* !throne-blacklist: removes first, blocks after
ThroneBlacklist(t, u) ==
    /\ Deleted(u)
    /\ Begin(t, New(u, "staff", "block"))
    /\ UNCHANGED <<serial, secrets, blocked, screens, given, matched, credited>>

Block(t) ==
    /\ tasks[t].at = "block"
    /\ blocked' = blocked \cup {tasks[t].user}
    /\ Ends(t)
    /\ UNCHANGED <<dommes, serial, secrets, screens, history>>

\* !rob-blacklist and !rob-unblacklist
SetBlocked(u) ==
    /\ started < MaxTasks
    /\ started' = started + 1
    /\ blocked' = IF u \in blocked THEN blocked \ {u} ELSE blocked \cup {u}
    /\ UNCHANGED <<dommes, serial, secrets, screens, history, tasks>>

(***************************************************************************)
(* Deliveries of Throne                                                    *)
(***************************************************************************)
\* Throne's test, its test sender's send, a send, or another event: the first step
First == [test |-> "mark", tester |-> "mark", send |-> "record", other |-> "touch"]

\* Mutant: any row of the creator will do
MatchesCreator(u, link) ==
    /\ Registered(u)
    /\ dommes[u].creator = link.creator

Matches(u, link) ==
    /\ Registered(u)
    /\ dommes[u].creator = link.creator
    /\ dommes[u].secret = link.secret

\* Throne calls a link that somebody was given; others are answered with 403
Deliver(t, u, link, kind) ==
    /\ link \in UNION {given[v] : v \in Users}
    /\ Matches(u, link)
    /\ Begin(t, [at |-> First[kind], user |-> u, creator |-> link.creator,
                 secret |-> link.secret, id |-> dommes[u].id, via |-> kind, card |-> "none"])
    /\ matched' = matched \cup {[user |-> u, id |-> dommes[u].id, link |-> link]}
    /\ UNCHANGED <<tables, screens, given, retired, credited>>

\* mark_setup_verified and touch_successful_event: by id, and no row is no error
Activates(t) ==
    LET u == tasks[t].user
    IN  dommes' = [dommes EXCEPT ![u] =
            IF @ # Nobody /\ @.id = tasks[t].id THEN [@ EXCEPT !.tracking = TRUE] ELSE @]

Mark(t) ==
    /\ tasks[t].at = "mark"
    /\ Activates(t)
    /\ Moves(t, "ask")
    /\ UNCHANGED <<serial, secrets, blocked, screens, history>>

\* the send refers to the row; without it the insert fails and the delivery ends
Record(t) ==
    /\ tasks[t].at = "record"
    /\ LET u == tasks[t].user
           sent == [user |-> u, id |-> tasks[t].id,
                    link |-> LinkOf(tasks[t].creator, tasks[t].secret)]
       IN  IF Registered(u) /\ dommes[u].id = tasks[t].id
           THEN credited' = credited \cup {sent} /\ Moves(t, "touch")
           ELSE Ends(t) /\ UNCHANGED credited
    /\ UNCHANGED <<tables, screens, given, retired, matched>>

Touch(t) ==
    /\ tasks[t].at = "touch"
    /\ Activates(t)
    /\ IF tasks[t].via = "send" THEN Moves(t, "ask") ELSE Ends(t)
    /\ UNCHANGED <<serial, secrets, blocked, screens, history>>

\* the bot looks at the setup: nothing to advance once it is completed; or the
\* bot is not reached
Ask(t) ==
    /\ tasks[t].at = "ask"
    /\ \/ /\ setup[tasks[t].user].stage \notin {"none", "completed"}
          /\ Moves(t, "advance")
       \/ IF tasks[t].via = "tester" THEN Moves(t, "record") ELSE Ends(t)
    /\ UNCHANGED <<tables, screens, history>>

Advance(t) ==
    /\ tasks[t].at = "advance"
    /\ SetStage(tasks[t].user, "preferences")
    /\ Goes(t, [tasks[t] EXCEPT !.at = "show", !.card = "preferences"])
    /\ UNCHANGED <<tables, cards, history>>

Presses(t, u) ==
    \/ StartSetup(t, u)
    \/ \E c \in Creators : SubmitThrone(t, u, c)
    \/ Confirm(t, u)
    \/ Reject(t, u)
    \/ Retry(t, u)
    \/ Save(t, u)

Commands(t, u) ==
    \/ \E c \in Creators : AddDomme(t, u, c)
    \/ Reissue(t, u)
    \/ ThroneBlacklist(t, u)

Steps(t) ==
    \/ SendIntro(t) \/ SetPending(t) \/ MoveStage(t) \/ Complete(t) \/ Show(t)
    \/ CheckOthers(t) \/ ReadSecret(t) \/ Upsert(t) \/ Tell(t)
    \/ Rotate(t) \/ Rebuild(t) \/ Block(t)
    \/ Mark(t) \/ Record(t) \/ Touch(t) \/ Ask(t) \/ Advance(t)

Next ==
    \/ \E t \in Tasks : Steps(t)
    \/ \E t \in Tasks, u \in Users : Presses(t, u) \/ Commands(t, u)
    \/ \E t \in Tasks, u \in Users, link \in Links, kind \in DOMAIN First :
           Deliver(t, u, link, kind)
    \/ \E u \in Users : OpenForm(u) \/ RemoveDomme(u) \/ SetBlocked(u)

Spec == Init /\ [][Next]_vars

(***************************************************************************)
(* Properties                                                              *)
(***************************************************************************)
Places == {"idle", "send", "pending", "show", "others", "read", "upsert", "stage", "tell",
           "rotate", "rebuild", "complete", "block", "mark", "record", "touch", "ask", "advance"}
Rows == [id : Nat, creator : Creators, secret : Nat, tracking : BOOLEAN]
TaskRecords == [at : Places, user : Users \cup {Nobody}, creator : Creators \cup {Nothing},
                secret : Nat, id : Nat, card : Kinds,
                via : {"card", "staff", "test", "tester", "send", "other"}]
Accepted == [user : Users, id : Nat, link : [creator : Creators, secret : Nat]]

TypeOK ==
    /\ dommes \in [Users -> Rows \cup {Nobody}]
    /\ serial \in Nat
    /\ secrets \in Seq(Users)
    /\ blocked \subseteq Users
    /\ setup \in [Users -> [stage : Stages, pending : Creators \cup {Nothing}]]
    /\ cards \in [Users -> [stored : Kinds, others : SUBSET Kinds]]
    /\ tasks \in [Tasks -> TaskRecords]
    /\ started \in Nat
    /\ given \in [Users -> SUBSET [creator : Creators, secret : Nat]]
    /\ retired \subseteq Nat \X Nat
    /\ matched \subseteq Accepted
    /\ credited \subseteq Accepted

\* What a delivery does, it does for the member whose link it called, also when
\* two members registered one creator at once or the row was rotated or replaced
\* on the way: a send is credited to a member who was given that link, a Throne
\* profile is active and the preferences are asked for only after a delivery
\* that matched the member's own row (webhooks.py, on_throne_test_webhook_received).
DeliveriesReachTheirOwner ==
    /\ \A s \in credited \cup matched : s.link \in given[s.user]
    /\ \A u \in Users :
          /\ (Registered(u) /\ dommes[u].tracking) =>
                \E m \in matched : m.user = u /\ m.id = dommes[u].id
          /\ setup[u].stage = "preferences" => \E m \in matched : m.user = u

\* A secret that was rotated away never opens the same row again, although a
\* registration may have read it before the rotation and write after it
\* (reissue_domme_webhook, the COALESCE of upsert).
RotatedStaysDead ==
    \A u \in Users : Registered(u) => <<dommes[u].id, dommes[u].secret>> \notin retired
=============================================================================
