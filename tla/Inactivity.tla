----------------------------- MODULE Inactivity -----------------------------
(***************************************************************************)
(* Members who stay quiet.  A sweep takes the Active role from a member    *)
(* who was not heard for a while, gives the Inactive role, opens a         *)
(* countdown with two notices and in the end kicks the member; a message   *)
(* undoes all of that at once.                                             *)
(*                                                                         *)
(* The weekly sweep, a corrective sweep an operator asks for and the       *)
(* handlers of Discord's events run at the same time; an action is the     *)
(* code between two awaits that read or change shared state.  The bot      *)
(* looks at a member's roles in its cache, which follows Discord's events. *)
(*                                                                         *)
(* The clock counts in days, and stands still while anything is going on:  *)
(* a sweep, which compares everything with the instant it began, takes     *)
(* minutes.  Both roles are configured; messages outside the main channel, *)
(* which count for nothing, and bots are left out.                         *)
(***************************************************************************)
EXTENDS Integers

CONSTANTS
    Members, Protected,     \* members of the guild; those on the protected list
    Handlers,               \* events that may be handled at the same time
    InactiveAfter, KickGrace, BootstrapGrace, FinalNotice, AfkDays,
    MaxTime,                \* bound: the clock
    MaxDisturbances         \* bound: what members, staff and operators do, crashes,
                            \* exceptions and refused Discord calls, all together

ASSUME MembersAssumption == Protected \subseteq Members
ASSUME PeriodsAssumption ==
    /\ InactiveAfter \in Nat \ {0} /\ KickGrace \in Nat \ {0}
    /\ BootstrapGrace \in Nat \ {0} /\ FinalNotice \in Nat \ {0} /\ AfkDays \in Nat \ {0}
ASSUME InactivityBounds == MaxTime \in Nat /\ MaxDisturbances \in Nat

Weekly == "weekly sweep"
Backfill == "backfill sweep"
Sweeps == {Weekly, Backfill}
Procs == Handlers \cup Sweeps
ASSUME HandlersAssumption == Handlers \cap Sweeps = {}

Roles == {"active", "inactive", "unverified"}
Times == 0..MaxTime
Never == -1

\* A row of inactive_users without a removal date counts as no row.
NoRow == [removeAt |-> 0, first |-> FALSE, final |-> FALSE]

VARIABLES
    now,
    \* Discord: who is in the guild and since when, their roles, when they last
    \* posted; and the roles as the bot's cache has them
    present, joined, roles, spoken, cached,
    \* settings: last_active, afk_until, enabled, bootstrapped_at, maintenance
    lastActive, afkUntil, enabled, bootstrapped, suppressed,
    \* table inactive_users
    row,
    \* the processes' local states
    job,
    \* history: dates members were told of, or given by the bootstrap; members
    \* whose row or activity another sweep changed while a sweep had them in
    \* hand; and the count of disturbances
    told, raced, disturbances

guildVars == <<present, joined, roles, spoken, cached>>
settings  == <<enabled, bootstrapped, suppressed>>
history   == <<told, raced>>
vars == <<now, guildVars, lastActive, afkUntil, settings, row, job, history, disturbances>>

Nobody == "nobody"
ASSUME NobodyAssumption == Nobody \notin Members

\* What a process does next, for whom and to what end; of a sweep, the members
\* to come, whether it may write and kick, whether it is the first since the
\* start, and its copy of the row.
Idle == [at |-> "idle", who |-> Nobody, goal |-> "none", todo |-> {},
         loud |-> FALSE, boot |-> FALSE, rec |-> NoRow]

Init ==
    /\ now = 0 /\ present = Members /\ joined = [m \in Members |-> 0]
    /\ roles = [m \in Members |-> {}] /\ cached = roles
    /\ spoken = [m \in Members |-> Never] /\ lastActive = spoken
    /\ afkUntil = [m \in Members |-> 0]
    /\ enabled = TRUE /\ bootstrapped = FALSE /\ suppressed = FALSE
    /\ row = [m \in Members |-> NoRow]
    /\ job = [p \in Procs |-> Idle]
    /\ told = {} /\ raced = {}
    /\ disturbances = 0

Disturb == disturbances < MaxDisturbances /\ disturbances' = disturbances + 1
Plain == UNCHANGED disturbances

At(p, step) == job[p].at = step
Goto(p, step) == job' = [job EXCEPT ![p].at = step]
\* A handler is done; a sweep goes on to its next member.
Released(p) ==
    IF p \in Sweeps
    THEN [job[p] EXCEPT !.at = "next", !.who = Nobody, !.goal = "none", !.rec = NoRow]
    ELSE Idle
Continue(p, step) ==
    job' = [job EXCEPT ![p] = IF step = "next" THEN Released(p) ELSE [@ EXCEPT !.at = step]]

\* Sweeps that have judged m and not come to an end with it.
InHand(m) == {s \in Sweeps : job[s].who = m}

-----------------------------------------------------------------------------
\* Clock, staff and operators.

Tick ==
    /\ now < MaxTime /\ now' = now + 1
    /\ \A p \in Procs : At(p, "idle")
    /\ cached = roles
    /\ Plain
    /\ UNCHANGED <<guildVars, lastActive, afkUntil, settings, row, job, history>>

\* A message the bot does not hear, because it is down.
Unheard(m) ==
    /\ m \in present /\ Disturb /\ spoken' = [spoken EXCEPT ![m] = now]
    /\ UNCHANGED <<now, present, joined, roles, cached, lastActive, afkUntil,
                   settings, row, job, history>>

\* Staff give or take the Unverified role, or take the Inactive role.
StaffRoles(m) ==
    /\ m \in present /\ Disturb
    /\ \E new \in {roles[m] \cup {"unverified"}, roles[m] \ {"unverified"},
                   roles[m] \ {"inactive"}} :
         new # roles[m] /\ roles' = [roles EXCEPT ![m] = new]
    /\ UNCHANGED <<now, present, joined, spoken, cached, lastActive, afkUntil,
                   settings, row, job, history>>

SetEnabled ==
    /\ Disturb /\ enabled' = ~enabled
    /\ UNCHANGED <<now, guildVars, lastActive, afkUntil, bootstrapped, suppressed,
                   row, job, history>>

SetSuppressed ==
    /\ Disturb /\ suppressed' = ~suppressed
    /\ UNCHANGED <<now, guildVars, lastActive, afkUntil, enabled, bootstrapped,
                   row, job, history>>

\* set_member_afk: the /afk command.
Afk(m) ==
    /\ m \in present /\ Disturb /\ afkUntil' = [afkUntil EXCEPT ![m] = now + AfkDays]
    /\ UNCHANGED <<now, guildVars, lastActive, settings, row, job, history>>

-----------------------------------------------------------------------------
\* The exchange of two roles, _remove_role and then _add_role: two calls to
\* Discord, each made if the cache calls for it when its turn comes.

Taken(goal) == IF goal = "up" THEN "inactive" ELSE "active"
Given(goal) == IF goal = "up" THEN "active" ELSE "inactive"
Exchanged(goal) == IF goal = "flag" THEN "get" ELSE "clear"

\* Mutant: _remove_role returns early for those who hold the role.
TakesUnheld(m, r) == r \notin cached[m]
HasToTake(m, r) == r \in cached[m]

\* The call a process makes next, if any.
GiveStep(m, goal) == IF Given(goal) \in cached[m] THEN Exchanged(goal) ELSE "give"
RolesStep(m, goal) == IF HasToTake(m, Taken(goal)) THEN "take" ELSE GiveStep(m, goal)

-----------------------------------------------------------------------------
\* Events.

Starts(h, m, step) == At(h, "idle") /\ job' = [job EXCEPT ![h].at = step, ![h].who = m]

\* A message: record_activity comes before everything else.
Speak(h, m) ==
    /\ m \in present /\ Starts(h, m, "wake") /\ Plain
    /\ spoken' = [spoken EXCEPT ![m] = now]
    /\ lastActive' = [lastActive EXCEPT ![m] = now]
    /\ UNCHANGED <<now, present, joined, roles, cached, afkUntil, settings, row, history>>

\* register_member_activity, once it knows the settings.
Wakes(m) ==
    enabled /\ (m \in Protected \/ ("unverified" \notin cached[m] /\ "inactive" \in cached[m]))

Wake(h) ==
    /\ At(h, "wake") /\ Plain
    /\ job' = IF Wakes(job[h].who)
              THEN [job EXCEPT ![h].at = RolesStep(job[h].who, "up"), ![h].goal = "up"]
              ELSE [job EXCEPT ![h] = Idle]
    /\ UNCHANGED <<now, guildVars, lastActive, afkUntil, settings, row, history>>

\* The cache learns a member's roles; on_member_update looks at what changed.
RolesKnown(m) == m \in present /\ cached[m] # roles[m] /\ cached' = [cached EXCEPT ![m] = roles[m]]
VerifiedChanged(m) == ("unverified" \in cached[m]) # ("unverified" \in roles[m])
InactiveTaken(m) == "inactive" \in cached[m] /\ "inactive" \notin roles[m]

MemberUpdate(h, m) ==
    /\ RolesKnown(m) /\ Plain
    /\ \/ VerifiedChanged(m) /\ Starts(h, m, "sync")
       \/ ~VerifiedChanged(m) /\ InactiveTaken(m) /\ Starts(h, m, "clear")
       \/ ~VerifiedChanged(m) /\ ~InactiveTaken(m) /\ At(h, "idle") /\ UNCHANGED job
    /\ UNCHANGED <<now, present, joined, roles, spoken, lastActive, afkUntil,
                   settings, row, history>>

\* sync_member_now, once it knows the settings; it records the activity of those
\* who are neither protected nor unverified.
Sync(h) ==
    /\ At(h, "sync") /\ Plain
    /\ LET m == job[h].who
           goal == IF m \notin Protected /\ "unverified" \in cached[m] THEN "park" ELSE "up" IN
       job' = IF ~enabled THEN [job EXCEPT ![h] = Idle]
              ELSE [job EXCEPT ![h].at = IF m \in Protected \/ goal = "park"
                                         THEN RolesStep(m, goal) ELSE "record",
                               ![h].goal = goal]
    /\ UNCHANGED <<now, guildVars, lastActive, afkUntil, settings, row, history>>

Record(h) ==
    /\ At(h, "record") /\ Goto(h, RolesStep(job[h].who, "up")) /\ Plain
    /\ lastActive' = [lastActive EXCEPT ![job[h].who] = now]
    /\ UNCHANGED <<now, guildVars, afkUntil, settings, row, history>>

Join(h, m) ==
    /\ m \notin present /\ Disturb /\ Starts(h, m, "sync")
    /\ present' = present \cup {m} /\ joined' = [joined EXCEPT ![m] = now]
    /\ \E given \in {{}, {"unverified"}} : roles' = [roles EXCEPT ![m] = given]
    /\ cached' = [cached EXCEPT ![m] = roles'[m]]
    /\ UNCHANGED <<now, spoken, lastActive, afkUntil, settings, row, history>>

Gone(m) ==
    /\ present' = present \ {m} /\ UNCHANGED <<joined, spoken>>
    /\ roles' = [roles EXCEPT ![m] = {}] /\ cached' = [cached EXCEPT ![m] = {}]

Leave(h, m) ==
    /\ m \in present /\ Disturb /\ Starts(h, m, "clear") /\ Gone(m)
    /\ UNCHANGED <<now, lastActive, afkUntil, settings, row, history>>

-----------------------------------------------------------------------------
\* Steps a handler and a sweep share: the two role calls, clear.

\* A call does what it says, or is refused; nothing can be done to the roles of
\* a member who has left.
Edit(m, held) ==
    \/ m \in present /\ roles' = [roles EXCEPT ![m] = held] /\ Plain
    \/ m \in present /\ held # roles[m] /\ UNCHANGED roles /\ Disturb
    \/ m \notin present /\ UNCHANGED roles /\ Plain

TakeOld(p) ==
    /\ At(p, "take") /\ Goto(p, GiveStep(job[p].who, job[p].goal))
    /\ Edit(job[p].who, roles[job[p].who] \ {Taken(job[p].goal)})
    /\ UNCHANGED <<now, present, joined, spoken, cached, lastActive, afkUntil,
                   settings, row, history>>

GiveNew(p) ==
    /\ At(p, "give") /\ Goto(p, Exchanged(job[p].goal))
    /\ Edit(job[p].who, roles[job[p].who] \cup {Given(job[p].goal)})
    /\ UNCHANGED <<now, present, joined, spoken, cached, lastActive, afkUntil,
                   settings, row, history>>

Clear(p) ==
    /\ At(p, "clear") /\ Plain
    /\ row' = [row EXCEPT ![job[p].who] = NoRow]
    /\ job' = [job EXCEPT ![p] = Released(p)]
    /\ UNCHANGED <<now, guildVars, lastActive, afkUntil, settings, history>>

-----------------------------------------------------------------------------
\* The sweep: process_guild.

\* backfill_activity_from_history: the history is read, or cannot be read.
Backfilled ==
    [m \in Members |-> IF spoken[m] > lastActive[m] /\ spoken[m] >= now - InactiveAfter
                       THEN spoken[m] ELSE lastActive[m]]

BackfillsHistory ==
    /\ lastActive' \in {Backfilled, lastActive}
    /\ raced' = raced \cup {m \in Members : lastActive'[m] # lastActive[m] /\ InHand(m) # {}}

\* The sweep starts: what it reads once, and whom it finds in the guild.
Begun(s) ==
    job' = IF enabled
           THEN [job EXCEPT ![s] =
                   [Idle EXCEPT !.at = IF bootstrapped THEN "next" ELSE "backfill",
                                !.todo = IF bootstrapped THEN present ELSE {},
                                !.loud = (s = Weekly /\ ~suppressed),
                                !.boot = ~bootstrapped]]
           ELSE [job EXCEPT ![s] = Idle]

Begin ==
    /\ At(Weekly, "idle") /\ enabled /\ Begun(Weekly) /\ Plain
    /\ UNCHANGED <<now, guildVars, lastActive, afkUntil, settings, row, history>>

\* An operator asks for a backfill; the sweep comes after it, without DMs and
\* kicks.
BackfillBegin ==
    /\ At(Backfill, "idle") /\ Disturb /\ BackfillsHistory /\ Begun(Backfill)
    /\ UNCHANGED <<now, guildVars, afkUntil, settings, row, told>>

BootBackfill(s) ==
    /\ At(s, "backfill") /\ BackfillsHistory /\ Plain
    /\ job' = [job EXCEPT ![s].at = "next", ![s].todo = present]
    /\ UNCHANGED <<now, guildVars, afkUntil, settings, row, told>>

\* The instant from which a member's silence counts.
Heard(m) == IF lastActive[m] = Never THEN joined[m] ELSE lastActive[m]
Silent(m) == now - Heard(m) >= InactiveAfter
\* Mutant: the sweep does not look at /afk.
AfkIgnored(m) ==
    IF m \in Protected THEN "up"
    ELSE IF "unverified" \in cached[m] THEN "park"
    ELSE IF ~Silent(m) THEN "up" ELSE "flag"
Verdict(m) ==
    IF m \in Protected THEN "up"
    ELSE IF "unverified" \in cached[m] THEN "park"
    ELSE IF now < afkUntil[m] \/ ~Silent(m) THEN "up" ELSE "flag"

Judge(s) ==
    /\ At(s, "next") /\ Plain
    /\ \E m \in job[s].todo :
         job' = [job EXCEPT ![s].at = RolesStep(m, Verdict(m)), ![s].who = m,
                            ![s].todo = @ \ {m}, ![s].goal = Verdict(m)]
    /\ UNCHANGED <<now, guildVars, lastActive, afkUntil, settings, row, history>>

SweepEnds(s) ==
    /\ At(s, "next") /\ job[s].todo = {} /\ Plain
    /\ bootstrapped' = (bootstrapped \/ job[s].boot)
    /\ job' = [job EXCEPT ![s] = Idle]
    /\ UNCHANGED <<now, guildVars, lastActive, afkUntil, enabled, suppressed, row, history>>

\* Where a sweep goes on with the row it holds: first notice, kick, final notice.
FinalDue(rec) == ~rec.final /\ now < rec.removeAt /\ rec.removeAt - now <= FinalNotice
AfterFirst(local, rec) ==
    IF local.loud /\ now >= rec.removeAt THEN "kick"
    ELSE IF local.loud /\ FinalDue(rec) THEN "final" ELSE "next"
\* Mutant: the first notice is left out once the date has come.
FirstOnlyBefore(local, rec) ==
    IF local.loud /\ ~rec.first /\ now < rec.removeAt THEN "first" ELSE AfterFirst(local, rec)
AfterRow(local, rec) ==
    IF local.loud /\ ~rec.first THEN "first" ELSE AfterFirst(local, rec)

Holds(s, rec) ==
    LET step == AfterRow(job[s], rec) IN
    job' = [job EXCEPT ![s] = IF step = "next" THEN Released(s)
                              ELSE [@ EXCEPT !.at = step, !.rec = rec]]

GetRow(s) ==
    /\ At(s, "get") /\ Plain
    /\ LET rec == row[job[s].who] IN
       IF rec.removeAt = 0 THEN Goto(s, "watch") ELSE Holds(s, rec)
    /\ UNCHANGED <<now, guildVars, lastActive, afkUntil, settings, row, history>>

\* The date of removal a countdown begins with.
RemoveAt(local) == now + (IF local.boot THEN BootstrapGrace ELSE KickGrace)

\* start_watching: an upsert that resets both notices.
Watch(s) ==
    /\ At(s, "watch") /\ Plain
    /\ LET m == job[s].who
           rec == [NoRow EXCEPT !.removeAt = RemoveAt(job[s])] IN
       /\ row' = [row EXCEPT ![m] = rec]
       /\ IF job[s].boot THEN Goto(s, "grandfather") ELSE Holds(s, rec)
       /\ raced' = IF InHand(m) \ {s} # {} THEN raced \cup {m} ELSE raced
    /\ UNCHANGED <<now, guildVars, lastActive, afkUntil, settings, told>>

\* mark_initial_notice and mark_final_notice change whatever row is there.
Marked(m, flag) == [row EXCEPT ![m] = IF @.removeAt = 0 THEN @ ELSE [@ EXCEPT ![flag] = TRUE]]

Grandfather(s) ==
    /\ At(s, "grandfather") /\ Plain
    /\ LET m == job[s].who
           rec == [NoRow EXCEPT !.removeAt = RemoveAt(job[s]), !.first = TRUE] IN
       /\ row' = Marked(m, "first") /\ Holds(s, rec)
       /\ told' = told \cup {<<m, rec.removeAt>>}
    /\ UNCHANGED <<now, guildVars, lastActive, afkUntil, settings, raced>>

\* The DM may fail; it is not tried again.
First(s) ==
    /\ At(s, "first") /\ Goto(s, "markFirst") /\ Plain
    /\ told' = told \cup {<<job[s].who, job[s].rec.removeAt>>}
    /\ UNCHANGED <<now, guildVars, lastActive, afkUntil, settings, row, raced>>

MarkFirst(s) ==
    /\ At(s, "markFirst") /\ Continue(s, AfterFirst(job[s], job[s].rec)) /\ Plain
    /\ row' = Marked(job[s].who, "first")
    /\ UNCHANGED <<now, guildVars, lastActive, afkUntil, settings, history>>

Kick(s) ==
    /\ At(s, "kick") /\ job[s].who \in present /\ Goto(s, "clear") /\ Plain
    /\ Gone(job[s].who)
    /\ UNCHANGED <<now, lastActive, afkUntil, settings, row, history>>

KickRefused(s) ==
    /\ At(s, "kick") /\ Continue(s, "next")
    /\ IF job[s].who \in present THEN Disturb ELSE Plain
    /\ UNCHANGED <<now, guildVars, lastActive, afkUntil, settings, row, history>>

Final(s) ==
    /\ At(s, "final") /\ Continue(s, "next") /\ Plain
    /\ row' = Marked(job[s].who, "final")
    /\ UNCHANGED <<now, guildVars, lastActive, afkUntil, settings, history>>

-----------------------------------------------------------------------------
\* Faults.

\* An exception: the loop and the listeners log it, a sweep leaves the rest.
Raise(p) ==
    /\ ~At(p, "idle") /\ Disturb /\ job' = [job EXCEPT ![p] = Idle]
    /\ UNCHANGED <<now, guildVars, lastActive, afkUntil, settings, row, history>>

\* The bot stops and starts: its cache is filled anew, no event tells what
\* changed.
BotCrash ==
    /\ Disturb /\ job' = [p \in Procs |-> Idle] /\ cached' = roles
    /\ UNCHANGED <<now, present, joined, roles, spoken, lastActive, afkUntil,
                   settings, row, history>>

-----------------------------------------------------------------------------
HandlerStep(h) == Wake(h) \/ Sync(h) \/ Record(h) \/ TakeOld(h) \/ GiveNew(h) \/ Clear(h)
SweepStep(s) ==
    \/ BootBackfill(s) \/ Judge(s) \/ SweepEnds(s)
    \/ TakeOld(s) \/ GiveNew(s) \/ Clear(s)
    \/ GetRow(s) \/ Watch(s) \/ Grandfather(s) \/ First(s) \/ MarkFirst(s)
    \/ Kick(s) \/ KickRefused(s) \/ Final(s)
World ==
    \/ Tick \/ SetEnabled \/ SetSuppressed \/ BackfillBegin \/ BotCrash
    \/ \E m \in Members : Unheard(m) \/ StaffRoles(m) \/ Afk(m)
    \/ \E p \in Procs : Raise(p)
Event(h) == \E m \in Members : Speak(h, m) \/ MemberUpdate(h, m) \/ Join(h, m) \/ Leave(h, m)

Next ==
    \/ World \/ Begin
    \/ \E h \in Handlers : Event(h) \/ HandlerStep(h)
    \/ \E s \in Sweeps : SweepStep(s)

Spec == Init /\ [][Next]_vars

\* Handlers and sweeps run on, whatever a Discord call returns; the cache gets
\* Discord's events; the loop comes round.
Fairness ==
    /\ \A h \in Handlers : WF_vars(HandlerStep(h))
    /\ WF_vars(Begin) /\ \A s \in Sweeps : WF_vars(SweepStep(s))
    /\ \A m \in Members : SF_vars(\E h \in Handlers : MemberUpdate(h, m))
FairSpec == Spec /\ Fairness

-----------------------------------------------------------------------------
\* Notices are marked only of a countdown.
Rows == {NoRow} \cup [removeAt : Nat \ {0}, first : BOOLEAN, final : BOOLEAN]
Steps == {"idle", "backfill", "next", "wake", "sync", "record",
          "take", "give", "clear", "get", "watch", "grandfather", "first", "markFirst", "kick", "final"}
Jobs == [at : Steps, who : Members \cup {Nobody}, goal : {"none", "up", "park", "flag"},
         todo : SUBSET Members, loud : BOOLEAN, boot : BOOLEAN, rec : Rows]

TypeOK ==
    /\ now \in Times /\ present \subseteq Members /\ joined \in [Members -> Times]
    /\ roles \in [Members -> SUBSET Roles] /\ cached \in [Members -> SUBSET Roles]
    /\ spoken \in [Members -> Int] /\ lastActive \in [Members -> Int]
    /\ afkUntil \in [Members -> Nat]
    /\ enabled \in BOOLEAN /\ bootstrapped \in BOOLEAN /\ suppressed \in BOOLEAN
    /\ row \in [Members -> Rows] /\ job \in [Procs -> Jobs]
    /\ told \subseteq Members \X Nat /\ raced \subseteq Members
    /\ disturbances \in Nat

\* Sweep s kicks the member it has in hand.
KickedBy(s) == At(s, "kick") /\ job'[s].at = "clear"

\* Whoever is kicked was told of the date (a DM was tried), or given it by the
\* sweep that found them when the system started; only a sweep an operator
\* asked for meanwhile can put another date there.
ToldTheDate ==
    [][\A s \in Sweeps : KickedBy(s) =>
         <<job[s].who, job[s].rec.removeAt>> \in told \/ job[s].who \in raced]_vars

\* A kick is due for the sweep that makes it: the date has come, the member
\* had been silent long enough and was neither protected nor AFK, whatever
\* else they did after the sweep began.
KickWasDue ==
    [][\A s \in Sweeps : KickedBy(s) =>
         LET m == job[s].who IN
         /\ job[s].rec.removeAt <= now /\ m \notin Protected
         /\ afkUntil[m] <= now \/ afkUntil[m] >= now + AfkDays
         /\ lastActive[m] + InactiveAfter <= now \/ lastActive[m] = now \/ m \in raced]_vars

\* In the end a member has the roles and the countdown the rules give: restored
\* after activity however the sweep and the handlers crossed, flagged when
\* silent, kicked when the countdown is over.
Settled(m) ==
    enabled /\ m \in present /\ "unverified" \notin roles[m] =>
        IF m \in Protected \/ now < afkUntil[m] \/ ~Silent(m)
        THEN "active" \in roles[m] /\ "inactive" \notin roles[m] /\ row[m] = NoRow
        ELSE /\ "inactive" \in roles[m] /\ "active" \notin roles[m]
             /\ row[m].removeAt > 0 /\ (suppressed \/ now < row[m].removeAt)
RulesPrevail == \A m \in Members : []<>Settled(m)

-----------------------------------------------------------------------------
(***************************************************************************)
(* The inductive invariant.                                                *)
(***************************************************************************)
HandlerSteps == {"idle", "wake", "sync", "record", "take", "give", "clear"}
Unassigned == {"idle", "backfill", "next"}
FlagSteps == {"get", "watch", "grandfather", "first", "markFirst", "kick", "final"}

\* Only a sweep flags, and a process at work has a member in hand.
StepKnown(p) ==
    /\ p \in Handlers => job[p].at \in HandlerSteps /\ job[p].goal # "flag"
    /\ job[p].at \notin Unassigned => job[p].who \in Members
    /\ job[p].at \in FlagSteps => job[p].goal = "flag"
    /\ job[p].goal = "flag" => job[p].at \in FlagSteps \cup {"take", "give", "clear"}

\* What a sweep found of the member it flags stands, but for what the member
\* did since.
VerdictStands(s) ==
    job[s].goal = "flag" =>
        LET m == job[s].who IN
        /\ m \notin Protected
        /\ afkUntil[m] <= now \/ afkUntil[m] >= now + AfkDays
        /\ lastActive[m] + InactiveAfter <= now \/ lastActive[m] = now \/ m \in raced

\* Between two steps of a sweep the row has the date the sweep holds, or is gone.
DateHeld(s) ==
    LET m == job[s].who
        date == job[s].rec.removeAt IN
    /\ At(s, "grandfather") => row[m].removeAt \in {0, RemoveAt(job[s])} \/ m \in raced
    /\ job[s].at \in {"first", "markFirst"} => row[m].removeAt \in {0, date} \/ m \in raced
    /\ At(s, "markFirst") => <<m, date>> \in told
    /\ At(s, "kick") => date <= now /\ (<<m, date>> \in told \/ m \in raced)

\* A row that is marked has the date its member was told.
RowsTold ==
    \A m \in Members : row[m].first => <<m, row[m].removeAt>> \in told \/ m \in raced

IInv ==
    /\ TypeOK /\ RowsTold
    /\ \A p \in Procs : StepKnown(p)
    /\ \A s \in Sweeps : VerdictStands(s) /\ DateHeld(s)

=============================================================================
