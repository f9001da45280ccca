---------------------------- MODULE MCOperations ----------------------------
(***************************************************************************)
(* What the operator runs, as functions: the scan of a guild (GuildScan),  *)
(* the import of the previous bot's file (SqliteImport), a deployment      *)
(* (Deployment) and the commands of the console (OpsConsole). Their laws,  *)
(* evaluated by TLC over guilds whose channels and roles share words, over *)
(* files, environments and databases of a few rows.                        *)
(***************************************************************************)
EXTENDS Integers, Sequences, FiniteSets, SequencesExt, TLC
LOCAL INSTANCE GuildScan
Import == INSTANCE SqliteImport
Service == INSTANCE Deployment
Console == INSTANCE OpsConsole

Named(is, starts, within) == [is |-> is, starts |-> is \cup starts, within |-> is \cup starts \cup within]
InactiveName == Named({"inactive"}, {}, {"active"})
ActiveName == Named({"active"}, {}, {})
ModName == Named({"mod"}, {}, {})
TrialModName == Named({"trial-mod"}, {"trial"}, {"mod"})
LeaderboardName == Named({"leaderboard"}, {}, {})
CountName == Named({"counting"}, {"count"}, {})
OtherName == Named({}, {}, {})

Thing(id, name, rank, kind) == [id |-> id, name |-> name, rank |-> rank, kind |-> kind]
InactiveRole == Thing(1, InactiveName, 3, "role")
ActiveRole == Thing(2, ActiveName, 1, "role")
ModRole == Thing(3, ModName, 4, "role")
TrialModRole == Thing(4, TrialModName, 5, "role")
SomeRoles == {InactiveRole, ActiveRole, ModRole, TrialModRole,
              Thing(5, InactiveName, 3, "role"), Thing(6, OtherName, 0, "everyone")}
SomeChannels == {Thing(11, CountName, 2, "text"), Thing(12, CountName, 2, "text"),
                 Thing(13, CountName, 2, "voice"), Thing(14, LeaderboardName, 6, "text")}

Guild(c, r) == [visible |-> TRUE, channels |-> c, roles |-> r]
SomeGuilds == {Guild({Thing(12, CountName, 2, "text")}, r) : r \in {r \in SUBSET SomeRoles : Cardinality(r) <= 3}}
              \cup {Guild(c, {InactiveRole, ModRole}) : c \in SUBSET SomeChannels}

Unset == [f \in ToSet(Fields) |-> {}]
SomeSettings ==
    {[Unset EXCEPT !["counting_channel_id"] = c, !["active_role_id"] = a] :
        c \in {{}, {12}, {13}, {99}}, a \in {{}, {1}, {2}}}
SomeOptions == {<< >>, <<"roles">>, <<"counting_channel_id">>, <<"channels", "mod_role_id">>,
                <<"colour", "all">>, <<"colour", "roles">>}

\* A field has at most one suggestion, however many channels have one name, and it
\* has one as soon as some live channel or role has one of its words.
ASSUME SuggestionIsOne ==
    \A g \in SomeGuilds, f \in ToSet(Fields) :
        LET live == LiveFor(g, f)
        IN  Cardinality(Best(live, TokensOf(f)))
            = IF \E x \in live : Score(x.name, TokensOf(f)) > 0 THEN 1 ELSE 0

\* Applying a scan again changes nothing more (and so refreshes no leaderboard),
\* with the same options or with fewer; and every id that it wrote is of
\* something that is there.
ASSUME ApplyingIsIdempotent ==
    \A g \in SomeGuilds, s \in SomeSettings, o \in {<< >>, <<"roles">>, <<"channels">>} :
        LET after == AfterApply(s, g, o)
        IN  /\ ~Refreshes(after, g, o)
            /\ \A f \in ToSet(Fields) :
                    after[f] # s[f] => /\ f \in Options(o).selected
                                       /\ Match(after, g, f).found

\* Only what was asked for is written; with an option that is none nothing is,
\* unless "all" is among them.
ASSUME OnlyTheSelected ==
    \A g \in {g \in SomeGuilds : Cardinality(g.roles) = 2}, s \in SomeSettings, o \in SomeOptions :
        LET after == AfterApply(s, g, o)
        IN  /\ \A f \in ToSet(Fields) \ Options(o).selected : after[f] = s[f]
            /\ "colour" \in ToSet(o) /\ "all" \notin ToSet(o) => after = s
            /\ AfterApply(s, [g EXCEPT !.visible = FALSE], o) = s

\* A setting that nothing in the guild stands for stays, also when what it names
\* is gone or cannot be used.
ASSUME GoneStays ==
    \A g \in SomeGuilds, s \in SomeSettings :
        (\A c \in g.channels : c.kind # "text" \/ c.name # CountName) =>
            AfterApply(s, g, << >>)["counting_channel_id"] = s["counting_channel_id"]

\* A guild whose only role with "active" in its name is the one for inactive
\* members gets it for both: an application overwrites a role that was set by hand.
ASSUME InactiveIsTakenForActive ==
    \A g \in SomeGuilds, s \in SomeSettings :
        (InactiveRole \in g.roles /\ ActiveRole \notin g.roles) =>
            LET after == AfterApply(s, g, <<"roles">>)
            IN  after["active_role_id"] = {1} /\ after["inactive_role_id"] = {1}

\* The better match takes a role, but not away from the other field: with both
\* roles each field has its own, and a trial moderator's alone stands for both.
ASSUME TrialModerators ==
    \A g \in SomeGuilds :
        LET after == AfterApply(Unset, g, << >>)
        IN  TrialModRole \in g.roles =>
                /\ after["trial_mod_role_id"] = {4}
                /\ after["mod_role_id"] = IF ModRole \in g.roles THEN {3} ELSE {4}

\* A file of the previous bot: guilds 1 and 2, users 1 to 4, a row of each kind and
\* one or two of the kind that a law is about.
NoRows == [dommes |-> << >>, creators |-> << >>, subs |-> << >>, blacklist |-> << >>, config |-> << >>,
           sends |-> << >>, requests |-> << >>, messages |-> << >>]
Handle(name, written) == [name |-> name, written |-> written]
OldDomme(id, user, name, creator) ==
    [id |-> id, guild |-> 1, user |-> user, handle |-> Handle(name, "plain"), creator |-> creator, hide |-> {}, secret |-> 0]
OldCreator(id, user, domme, handle, creator) ==
    [id |-> id, guild |-> 1, user |-> user, domme |-> domme, handle |-> handle, creator |-> creator,
     hide |-> {TRUE}, secret |-> 7]
OldSub(user, name) == [id |-> user, guild |-> 1, user |-> user, name |-> name]
OldKey(is, field) == [is |-> is, guild |-> 1, user |-> 3, field |-> field]
OldSetting(guild, key, value) == [guild |-> guild, key |-> key, value |-> value]
WithoutEvent == [is |-> "none", of |-> 0]
OldEvent(n) == IF n = 0 THEN WithoutEvent ELSE [is |-> "throne", of |-> n]
OldSend(to, creator, event, hash, at) ==
    [guild |-> 0, to |-> to, domme |-> 0, creator |-> creator, from |-> 3, sub |-> 0, amount |-> 5,
     event |-> OldEvent(event), hash |-> hash, tester |-> FALSE, at |-> at]
OldRequest(id, status, to, at) ==
    [id |-> id, status |-> status, guild |-> 1, to |-> to, from |-> 3, amount |-> 5, at |-> at]
ImportArgs == [guild |-> 1, excluded |-> {}, now |-> 90000]
UpTo(S, n) == UNION {[1..k -> S] : k \in 0..n}

SomeDommes == UpTo({OldDomme(i, u, i + 10, c) : i \in {1, 2}, u \in {1, 2}, c \in {0, 21}}, 2)
SomeCreators ==
    UpTo({OldCreator(i, u, d, h, c) : i \in {0, 1}, u \in {0, 1, 2}, d \in {0, 1},
            h \in {Handle(0, "plain"), Handle(11, "capitals"), Handle(12, "plain")}, c \in {21, 22}}, 1)
    \cup {<<OldCreator(i, 1, 0, Handle(11, "at"), c), OldCreator(j, 2, 0, Handle(12, "plain"), d)>> :
            i \in {0, 1, 3}, j \in {0, 2}, c \in {21, 22}, d \in {21, 22}}
DommeFiles == {[NoRows EXCEPT !.dommes = d, !.creators = c] : d \in SomeDommes, c \in SomeCreators}

SomeOldSends == UpTo({OldSend(t, 0, e, h, at) : t \in {1, 2}, e \in {0, 31}, h \in {0, 41}, at \in {0, 1}}, 2)
SomeRequests == UpTo({OldRequest(i, s, t, at) : i \in {0, 1}, s \in {"approved", "pending"}, t \in {0, 1}, at \in {1, 90000}}, 2)
SendFiles ==
    {[NoRows EXCEPT !.dommes = <<OldDomme(1, 1, 11, 21)>>, !.sends = s, !.requests = r] :
        s \in SomeOldSends, r \in {q \in SomeRequests : Len(q) < 2}}
    \cup {[NoRows EXCEPT !.dommes = <<OldDomme(1, 1, 11, 21)>>, !.sends = s, !.requests = r] :
        s \in {s \in SomeOldSends : Len(s) < 2}, r \in SomeRequests}

OtherFiles ==
    {[NoRows EXCEPT !.subs = s, !.blacklist = b, !.config = c, !.messages = <<[guild |-> 0, key |-> "leaderboard", message |-> 5]>>] :
        s \in UpTo({OldSub(u, n) : u \in {3, 4}, n \in {0, 51, 52}}, 2),
        b \in {<< >>, <<[guild |-> 1, user |-> 3]>>},
        c \in UpTo({OldSetting(1, OldKey("count", "current_number"), {}), OldSetting(1, OldKey("count", "is_enabled"), {1}),
                    OldSetting(1, OldKey("inactivity", "remove_at"), {}), OldSetting(1, OldKey("setting", "domme_role_id"), {61}),
                    OldSetting(2, OldKey("setting", "domme_role_id"), {62})}, 2)}

\* The database that is written to: empty, or in use.
InUse ==
    [Import!Empty EXCEPT
        !.users = (<<1, 1>> :> "blocked") @@ (<<1, 3>> :> "blocked") @@ (<<1, 5>> :> "allowed"),
        !.dommes = (<<1, 1>> :> [handle |-> Handle(19, "plain"), creator |-> 29, status |-> "disabled", hide |-> {TRUE}, secret |-> 9]),
        !.subs = (<<1, 5>> :> [is |-> "name", of |-> 51]),
        !.settings = (1 :> [counting_channel_id |-> {63}, domme_role_id |-> {}]),
        !.sends = <<[guild |-> 1, to |-> 5, from |-> 0, amount |-> 1, event |-> WithoutEvent, hash |-> 0, test |-> FALSE, at |-> 1, domme |-> TRUE]>>,
        !.dependents = {"sub_send_names", "count_recovery_windows", "send_change_requests"}]
Targets == {Import!Empty, InUse}
Payload(file) == Import!BuildPayload(file, ImportArgs)
Written(target, file) == Import!WritePayload(target, Payload(file), FALSE)
Keyed == {"users", "dommes", "subs", "keys", "settings", "count", "inactive", "boards"}

\* An import adds and overwrites: no row that the file has nothing for is changed, no
\* stored send is changed or removed, and a statement that fails leaves everything.
ASSUME OnlyRowsOfTheFile ==
    \A t \in Targets, f \in SendFiles \cup OtherFiles :
        LET w == Written(t, f)
            p == Payload(f)
        IN  IF w.ok
            THEN /\ \A table \in Keyed \ {"boards"} : \A k \in DOMAIN t[table] \ DOMAIN p[table] : w.target[table][k] = t[table][k]
                 /\ SubSeq(w.target.sends, 1, Len(t.sends)) = t.sends
                 /\ Cardinality({w.target.subs[k] : k \in DOMAIN w.target.subs}) = Cardinality(DOMAIN w.target.subs)
            ELSE w.target = t

\* The same file again: every table but the sends comes out the same. A send without
\* an event is stored a second time, or, when it has a hash, fails the import.
ASSUME AgainRepeatsSendsWithoutEvent ==
    \A t \in Targets, f \in SendFiles \cup OtherFiles :
        LET once == Written(t, f)
            twice == Written(once.target, f)
            eventless == SelectSeq(Import!LinkedSends(Payload(f)), LAMBDA s : s.event = WithoutEvent)
        IN  once.ok =>
                /\ twice.ok <=> \A i \in DOMAIN eventless : eventless[i].hash = 0
                /\ twice.ok => /\ \A table \in Keyed : twice.target[table] = once.target[table]
                               /\ twice.target.sends = once.target.sends \o eventless

\* Emptied first, the target ends the same however often the file is imported, and
\* the tables that refer to it are empty as well.
ASSUME EmptiedFirst ==
    \A f \in SendFiles \cup OtherFiles :
        LET fresh == Import!WritePayload(InUse, Payload(f), TRUE)
        IN  fresh.ok => /\ fresh.target = Written(Import!Empty, f).target
                        /\ fresh.target.dependents = {}

\* Every request that was accepted is in the report once, and no two requests of a
\* domme and sub, an amount and a day are stored; but two without an id count as two
\* and are one row.
ASSUME RequestsAddUp ==
    \A f \in SendFiles :
        LET p == Payload(f)
            R(what) == Import!Lookup(p.report, what)
            stored == {i \in DOMAIN p.sends : p.sends[i].event.is = "request"}
        IN  /\ R("requests_accepted") = R("requests_inserted") + R("requests_duplicate") + R("requests_missing_domme")
            /\ R("requests_inserted") = Cardinality(stored)
            /\ \A i, j \in stored : Import!Signature(p.sends[i]) = Import!Signature(p.sends[j]) => i = j
ASSUME TwoRequestsOneRow ==
    \E f \in SendFiles :
        /\ Import!Lookup(Payload(f).report, "requests_inserted") = 2
        /\ Written(Import!Empty, f).ok
        /\ Len(Written(Import!Empty, f).target.sends) = 1

\* What a domme has from event_dommes is not replaced by a row of throne_creators,
\* but for the capitals of her handle; her id leads to her still, and each handle to a
\* domme.
ASSUME DommesKeepTheirs ==
    \A f \in DommeFiles :
        LET before == Payload([f EXCEPT !.creators = << >>])
            p == Payload(f)
        IN  /\ \A k \in DOMAIN before.dommes :
                  /\ p.dommes[k].creator \in {before.dommes[k].creator} \cup (IF before.dommes[k].creator = 0 THEN {21, 22} ELSE {})
                  /\ p.dommes[k].handle.name = before.dommes[k].handle.name
            /\ \A c \in DOMAIN before.userOfCreator : p.userOfCreator[c] = before.userOfCreator[c]
            /\ \A h \in DOMAIN p.userOfHandle : <<h[1], p.userOfHandle[h]>> \in DOMAIN p.dommes

\* "keeping first mapping": a creator whose id two dommes come with is counted as a
\* conflict, sends go to the first of them, and the second is written with the id
\* as well when she had none.
ASSUME ConflictIsWrittenTwice ==
    \E f \in DommeFiles :
        LET p == Payload([f EXCEPT !.sends = <<OldSend(0, 21, 31, 0, 1)>>])
        IN  /\ Import!Lookup(p.report, "conflicts") = 1
            /\ p.sends[1].to = 1
            /\ p.dommes[<<1, 1>>].creator = 21 /\ p.dommes[<<1, 2>>].creator = 21

\* A handle that is excluded is nobody's. The sends to the user are imported all the
\* same when they name her, linked to no domme.
ASSUME ExcludedIsNobodys ==
    \A f \in {f \in DommeFiles : Len(f.creators) < 2} :
        LET p == Import!BuildPayload([f EXCEPT !.sends = <<OldSend(1, 0, 31, 0, 1), OldSend(0, 21, 32, 0, 1)>>],
                                     [ImportArgs EXCEPT !.excluded = {11}])
            sends == Import!LinkedSends(p)
        IN  /\ \A k \in DOMAIN p.dommes : p.dommes[k].handle.name # 11
            /\ Len(sends) >= 1 /\ sends[1].to = 1
            /\ \A i \in DOMAIN sends : sends[i].domme <=> <<1, sends[i].to>> \in DOMAIN p.dommes

\* A user of the file who was blocked since is allowed again, unless she is in its
\* blacklist; a domme who was disabled is active; a setting without a key is unset;
\* and a name that is taken, or a blank number of
\* the count, fails the whole import.
ASSUME OverwritesWhatChangedSince ==
    /\ \A f \in OtherFiles :
        LET w == Written(InUse, f)
            p == Payload(f)
        IN  /\ w.ok /\ <<1, 3>> \in DOMAIN p.users =>
                    (w.target.users[<<1, 3>>] = "blocked" <=> f.blacklist # << >>)
            /\ w.ok /\ 1 \in DOMAIN p.settings => w.target.settings[1]["counting_channel_id"] = {}
            /\ w.ok <=> /\ \A i \in DOMAIN f.config : f.config[i].key.field # "current_number"
                        /\ \A k \in DOMAIN p.subs : p.subs[k] # InUse.subs[<<1, 5>>]
                        /\ \A k, l \in DOMAIN p.subs : p.subs[k] = p.subs[l] => k = l
    /\ \A f \in SendFiles :
        Written(InUse, f).ok => LET d == Written(InUse, f).target.dommes[<<1, 1>>]
                                IN  d = [handle |-> Handle(11, "plain"), creator |-> 21, status |-> "active", hide |-> {FALSE}, secret |-> 9]

\* Nothing is written on a dry run, an inspection, a refusal or a failure; and the
\* guild of rows without one is never guessed from two.
Invocations == [guild: {0, 2}, truncate: BOOLEAN, confirm: BOOLEAN, prod: BOOLEAN, allowProd: BOOLEAN,
            dryRun: BOOLEAN, inspectOnly: BOOLEAN, excluded: {{}}, now: {90000}]
ASSUME GuardsOfTheCommand ==
    \A t \in Targets, o \in Invocations,
       f \in {NoRows, [NoRows EXCEPT !.sends = <<OldSend(1, 0, 31, 0, 1)>>],
              [NoRows EXCEPT !.subs = <<OldSub(3, 51)>>],
              [NoRows EXCEPT !.config = <<OldSetting(0, [OldKey("count", "is_enabled") EXCEPT !.guild = 2], {1})>>],
              [NoRows EXCEPT !.subs = <<OldSub(3, 52)>>, !.config = <<OldSetting(2, OldKey("other", "x"), {1})>>]} :
        LET r == Import!Main(f, t, o)
        IN  /\ r.outcome # "written" => r.target = t
            /\ o.dryRun \/ o.inspectOnly => r.outcome # "written"
            /\ r.outcome = "refused" <=>
                    \/ o.truncate /\ (~o.confirm \/ (o.prod /\ ~o.allowProd))
                    \/ /\ o.guild = 0
                       /\ Cardinality(Import!SourceGuilds(f)) # 1
                       /\ Import!SourceGuilds(f) # {} \/ Cardinality(Import!TargetGuilds(t)) # 1

\* A number that cannot be read is none, cents are never negative, and the first
\* column that is there is read although a later one could be.
Cells == {Import!Null, Import!Blank, [is |-> "word", number |-> 0, word |-> "yes"], [is |-> "word", number |-> 0, word |-> "maybe"]}
         \cup {[is |-> "number", number |-> n, word |-> ""] : n \in {-250, -1, 0, 1, 100, 101, 250}}
ASSUME CellsAreRead ==
    \A c, d \in Cells :
        /\ Import!AmountCents(c, d) >= 0
        /\ Import!AsBool(c, TRUE) => Import!AsBool(c, FALSE)
        /\ Import!RowValue(<<c, d>>) = IF c = Import!Null THEN d ELSE c
        /\ \A n \in Import!AsInt(c) : 100 * n - c.number \in -99..99 /\ (c.number < 0 => n <= 0)


\* What a process may find in its environment and in its .env, of one setting of each
\* kind that more than one process has or only one.
SomeTexts == {Service!BlankText, Service!WordText("maybe"), Service!WordText("off")}
             \cup {Service!NumberText(n) : n \in -1..1}
Environments(names, texts) == UNION {[S -> texts] : S \in SUBSET names}
Shared == {"DATABASE_URL", "INACTIVITY_FINAL_NOTICE_DAYS", "SERVER_BACKUP_ENABLED_DEFAULT", "INACTIVITY_OWNER_USER_ID"}
SomeEnvironments == Environments(Shared, SomeTexts)
Processes == {Service!WebhookSettings, Service!BotSettings, Service!PublicApiSettings}
NonBlank(env) == [name \in {n \in DOMAIN env : env[n] # Service!BlankText} |-> env[name]]
NoFile == << >>

\* A variable that is there without a text is as one that is not, whatever is read.
ASSUME BlankIsUnset ==
    \A declared \in Processes, env \in SomeEnvironments :
        Service!LoadSettings(declared, env, NoFile) = Service!LoadSettings(declared, NonBlank(env), NoFile)

\* But in the process it keeps the file's from being read; and the file counts for
\* nothing when it is disabled.
ASSUME BlankHidesTheFile ==
    \A file \in Environments({"DATABASE_URL", "LEADERBOARD_LIMIT"}, SomeTexts),
       process \in Environments({"DATABASE_URL", "LEADERBOARD_LIMIT", "PYTHON_DOTENV_DISABLED"},
                                {Service!BlankText, Service!NumberText(1), Service!WordText("on")}) :
        LET left == [n \in DOMAIN file \ DOMAIN process |-> file[n]]
            disabled == "PYTHON_DOTENV_DISABLED" \in DOMAIN process /\ process["PYTHON_DOTENV_DISABLED"] # Service!BlankText
        IN  Service!LoadSettings(Service!PublicApiSettings, process, file)
            = Service!LoadSettings(Service!PublicApiSettings, process, IF disabled THEN NoFile ELSE left)

\* No number is ever read that is below its minimum, and the defaults are not; what
\* the sweeps assume of their periods is so. Nothing compares two of them: a final
\* notice may be due before the first.
ASSUME NumbersHaveTheirMinimum ==
    /\ \A declared \in Processes, env \in SomeEnvironments :
          \A loaded \in Service!LoadSettings(declared, env, NoFile) :
              \A name \in DOMAIN declared :
                  declared[name].as = "number" => loaded[name] >= declared[name].minimum
    /\ \A declared \in Processes : \A name \in DOMAIN declared :
          declared[name].as = "number" => declared[name].default >= declared[name].minimum
    /\ \E loaded \in Service!LoadSettings(Service!BotSettings,
                        [DATABASE_URL |-> Service!WordText("db"), DISCORD_TOKEN |-> Service!WordText("t"),
                         INACTIVITY_FINAL_NOTICE_DAYS |-> Service!NumberText(30)], NoFile) :
          loaded["INACTIVITY_FINAL_NOTICE_DAYS"] > loaded["INACTIVITY_KICK_GRACE_DAYS"]

\* A process starts when its own texts can be read and what it needs is there: the
\* bot's token is nothing to the others, but a text for the bot's sweeps that cannot be
\* read, being in the settings of all, stops the webhook and the public site as well.
ASSUME WhoStarts ==
    \A env \in SomeEnvironments :
        LET Starts(declared) == Service!LoadSettings(declared, env, NoFile) # {}
            unreadable == \E n \in Shared \ {"DATABASE_URL"} : Service!Setting(Service!BaseSettings, env, n) = {}
        IN  /\ ~Starts(Service!BotSettings)
            /\ Starts(Service!WebhookSettings) = Starts(Service!PublicApiSettings)
            /\ unreadable => ~Starts(Service!WebhookSettings)
            /\ Starts(Service!WebhookSettings) <=> ~unreadable /\ ~Service!IsUnset(env, "DATABASE_URL")

\* Databases: what is left of the order when some scripts are not run, in one
\* transaction each or not, from nothing or from a table of sends that is older than
\* its two columns, with the grants given before or after, or those of the bot given
\* to the webhook.
Bot == "prod_rob_bot"
Webhook == "prod_rob_webhook"
OldSends ==
    [Service!NewDatabase(FALSE) EXCEPT !.tables = [t \in {"bot_users", "dommes", "subs", "sends"} |-> {"own"}]]
BuiltOf(db, scripts, whole) == FoldLeft(LAMBDA d, s : Service!RunScript(d, s, whole), db, scripts)
Without(i) == [j \in 1..11 |-> Service!BuildOrder[IF j < i THEN j ELSE j + 1]]
Swapped(i) == [Service!BuildOrder EXCEPT ![i] = Service!BuildOrder[i + 1], ![i + 1] = Service!BuildOrder[i]]
Orders == {Service!BuildOrder, Service!ManualFix} \cup {Without(i) : i \in 1..12} \cup {Swapped(i) : i \in 1..11}
          \cup {SubSeq(Service!BuildOrder, 1, n) : n \in 0..11}
Starting == {Service!NewDatabase(FALSE), Service!NewDatabase(TRUE), OldSends}
Databases ==
    UNION {LET built == BuiltOf(db, order, whole)
               granted == Service!GrantAll(built)
           IN  {built, granted, [granted EXCEPT !.granted[Webhook] = granted.granted[Bot]],
                BuiltOf(Service!GrantAll(BuiltOf(db, [i \in DOMAIN order \cap 1..3 |-> order[i]], whole)), order, whole)} :
        db \in Starting, order \in Orders, whole \in BOOLEAN}
Passed(db, user) == Service!CheckDb(db, user, "") = "passed"

\* Built in the order that is documented and granted, a database passes for both, in
\* whichever way its scripts are run, and each process can do what it does.
ASSUME DocumentedOrderPasses ==
    \A whole \in BOOLEAN :
        LET db == Service!GrantAll(BuiltOf(Service!NewDatabase(FALSE), Service!BuildOrder, whole))
        IN  /\ Passed(db, Bot) /\ Passed(db, Webhook)
            /\ Service!InsertsSends(db, Bot) /\ Service!InsertsSends(db, Webhook) /\ Service!DeletesUser(db, Bot)

\* The list that a failed deployment shows ends too early: followed to the letter, the
\* check fails again.
ASSUME ManualFixIsNotEnough ==
    \A db \in Starting, whole \in BOOLEAN :
        Service!CheckDb(Service!GrantAll(BuiltOf(db, Service!ManualFix, whole)), Bot, "bot") = "versions"

\* A script that is left out is noticed, but for the terms; without their table no
\* user's data can be deleted, as that is one transaction.
ASSUME TermsAreNotChecked ==
    /\ \A i \in 1..12, whole \in BOOLEAN :
          LET db == Service!GrantAll(BuiltOf(Service!NewDatabase(FALSE), Without(i), whole))
          IN  Passed(db, Bot) <=> Service!BuildOrder[i].version = "009"
    /\ \A db \in Databases : Passed(db, Bot) =>
          (Service!DeletesUser(db, Bot) <=> "user_terms_acceptance" \in DOMAIN db.tables)

\* What passes can store a send, unless the table is older than the columns of what
\* was paid, which no script adds and the check does not ask for.
ASSUME OldSendsPass ==
    /\ \A db \in Databases, user \in {Bot, Webhook} : Passed(db, user) =>
          (Service!InsertsSends(db, user) <=> "original_amount_cents" \in db.tables["sends"])
    /\ \E db \in Databases : Passed(db, Bot) /\ Passed(db, Webhook) /\ ~Service!InsertsSends(db, Webhook)

\* Out of order, statement by statement, a script can be recorded that did not take
\* effect: 007 before 006 passes, and a change of a send is then refused by the table.
\* In one transaction each this cannot be.
Refuses(db) == "action send_update" \notin db.tables["send_change_requests"]
ASSUME RecordedWithoutEffect ==
    /\ \E i \in 1..11 : LET db == Service!GrantAll(BuiltOf(Service!NewDatabase(FALSE), Swapped(i), FALSE))
                        IN  Passed(db, Bot) /\ Refuses(db)
    /\ \A order \in Orders, db \in Starting :
          LET after == Service!GrantAll(BuiltOf(db, order, TRUE))
          IN  Passed(after, Bot) => ~Refuses(after)

\* Whoever passes as webhook cannot delete a send or a user; no grants give more than
\* the four; a role that anybody's right to create tables applies to does not pass;
\* a generic role passes without any.
ASSUME WhatPassesIsNarrow ==
    \A db \in Databases :
        /\ Passed(db, Webhook) => \A t \in {"sends", "bot_users"} : "DELETE" \notin Service!On(db.granted[Webhook], t)
        /\ \A user \in {Bot, Webhook} : Passed(db, user) => ~db.everyoneCreates
        /\ Passed(db, Bot) => Service!CheckDb([db EXCEPT !.granted[Bot] = Service!NoGrants], Bot, "generic") = "passed"

\* The bot's grants hold for what is built later too; the webhook's must be given again.
ASSUME GrantsOfTheFuture ==
    \A whole \in BOOLEAN, n \in 1..12 :
        LET early == Service!GrantAll(BuiltOf(Service!NewDatabase(FALSE), SubSeq(Service!BuildOrder, 1, n), whole))
            db == BuiltOf(early, Service!BuildOrder, whole)
        IN  /\ Passed(db, Bot)
            /\ Passed(db, Webhook) <=> n >= 3
            /\ Passed(Service!GrantWebhook(db), Webhook)

\* Running what the check asks for, again and again, ends with a check that passes,
\* one script at a time for those it tells of apart.
Missing(db) == Service!RequiredVersions \ db.versions
Following(db) ==
    LET asked == Service!MissingNamed(db)
        scripts == SelectSeq(Service!BuildOrder, LAMBDA s : s.version \in asked)
    IN  BuiltOf(db, scripts, TRUE)
ASSUME FollowingTheErrors ==
    \A n \in 1..12 :
        LET After[i \in 0..4] == IF i = 0 THEN BuiltOf(Service!NewDatabase(FALSE), SubSeq(Service!BuildOrder, 1, n), TRUE)
                                 ELSE Following(After[i - 1])
        IN  /\ Passed(Service!GrantAll(After[4]), Bot)
            /\ \A i \in 0..3 : Missing(After[i]) # {} => Missing(After[i + 1]) # Missing(After[i])

\* Databases for the operator's commands: one guild or two, two dommes, two subs, two
\* sends.
Word(n) == [is |-> "name", of |-> n]
Reserved == [is |-> "reserved", of |-> 1]
Mention(u) == [is |-> "mention", of |-> u]
Names == {Console!NoName, Word(1), Word(2), Reserved, Mention(3), Mention(4)}
ASend(status, guild, domme, to, from, name) ==
    [guild |-> guild, status |-> status, domme |-> domme, to |-> to, from |-> from, name |-> name,
     cents |-> 100, test |-> FALSE, public |-> FALSE]
ADomme(user, tracking, secret) ==
    [guild |-> 1, user |-> user, handle |-> 10 + user, creator |-> 10 + user, tracking |-> tracking, secret |-> secret]
Console0 ==
    [sends |-> 1 :> ASend("pending", 1, 1, 1, 0, Console!NoName), dommes |-> 1 :> ADomme(1, "active", 7),
     subs |-> << >>, keys |-> << >>, users |-> << >>, settings |-> 1 :> Unset, counts |-> << >>,
     boards |-> << >>, main |-> 1]
SomeSubs == {<< >>, <<1, 3>> :> <<Word(1)>>, <<1, 3>> :> <<Word(2), Word(1)>>,
             <<1, 3>> :> <<Reserved>>, (<<1, 3>> :> <<Word(1)>>) @@ (<<1, 4>> :> <<Word(2)>>)}
SomeKeys == {<< >>, "maintenance_mode" :> "true", "maintenance_mode" :> "false", "rob_offline_mode" :> "on"}
SomeUsers == {<< >>, <<0, 4>> :> "blocked", (<<1, 4>> :> "blocked") @@ (<<0, 3>> :> "allowed")}
SomeAccounts ==
    {[Console0 EXCEPT !.dommes = (1 :> ADomme(1, t, s)) @@ @, !.users = u] :
        t \in {"active", "disabled", "pending"}, s \in {0, 7}, u \in SomeUsers}
    \cup {[Console0 EXCEPT !.dommes = << >>, !.settings = << >>]}
SomeStatuses == {"pending", "queued_maintenance", "ignored"}
SomeRecords ==
    {[Console0 EXCEPT !.sends = (1 :> ASend(s, g, d, t, 0, n)) @@ (2 :> ASend("queued_maintenance", 1, 1, 2, f, Mention(3))),
                      !.subs = subs, !.keys = keys] :
        s \in SomeStatuses, g \in 1..2, d \in 0..1, t \in 1..2, n \in Names, f \in {0, 3},
        subs \in SomeSubs, keys \in SomeKeys}
Args ==
    [command |-> "status", do |-> "", guild |-> 1, user |-> [is |-> "id", user |-> 4], now |-> "now", reason |-> "",
     number |-> 5, messages |-> <<1, 2>>, dry |-> FALSE, handle |-> 0, drawn |-> 9, amount |-> 1000,
     name |-> Console!NoName, sending |-> Word(1), account |-> 14, testers |-> {Word(1)}, status |-> "all", send |-> 1,
     field |-> "mod_role_id", id |-> {1}]
Told(command, do) == [Args EXCEPT !.command = command, !.do = do]
NoWorld == [bot |-> {}, discord |-> {}]
Ran(db, args) == Console!Run(db, args, NoWorld)
Secrets(db, u) == {db.dommes[d].secret : d \in Console!CreatorOf(db, 1, u)}

\* "Rotated" is said of a secret that is kept: the address that is printed is refused,
\* unless the domme had none. Her mode can be lost: what is not active becomes disabled.
ASSUME RefreshIsNoRotation ==
    \A db \in SomeAccounts :
        LET ran == Ran(db, [Told("throne", "webhook") EXCEPT !.user.user = 1])
        IN  /\ ran.ok
            /\ Secrets(db, 1) = {7} => ran.says.rotated /\ Secrets(ran.db, 1) = {7} /\ ran.says.url[2] = 9
            /\ Secrets(db, 1) = {0} => Secrets(ran.db, 1) = {ran.says.url[2]}
            /\ \A d \in DOMAIN db.dommes :
                  ran.db.dommes[d].tracking = (IF db.dommes[d].tracking = "active" THEN "active" ELSE "disabled")

\* A domme is registered and the command fails: she is in the database, her secret
\* with her, and no address was printed. Nobody gets the account of another.
ASSUME AddDommeWritesThenFails ==
    \A db \in SomeAccounts, u \in {1, 4}, account \in {0, 11, 14} :
        LET ran == Ran(db, [Told("throne", "adddomme") EXCEPT !.user.user = u, !.account = account])
            own == Console!CreatorOf(ran.db, 1, u)
            others == {d \in DOMAIN db.dommes : db.dommes[d].user # u}
        IN  /\ ~ran.ok
            /\ \A d \in others : ran.db.dommes[d] = db.dommes[d]
            /\ ran.db.dommes # db.dommes =>
                  /\ \E d \in own : /\ ran.db.dommes[d].creator = account
                                    /\ ran.db.dommes[d].secret # 0
                                    /\ ran.db.dommes[d].tracking = "disabled"
                  /\ ~Console!IsBlocked(db, u)
                  /\ \A d \in others : account \notin {db.dommes[d].handle, db.dommes[d].creator}
            /\ Console!IsBlocked(db, u) => ran.db = db
            /\ Secrets(db, u) \ {0} \subseteq Secrets(ran.db, u)

\* Every other command that fails has changed nothing, and so has one that only shows.
Shows == {<<"status", "">>, <<"maintenance", "status">>, <<"queue", "status">>, <<"leaderboard", "status">>,
          <<"leaderboard", "preview">>, <<"leaderboard", "diagnose">>, <<"count", "status">>,
          <<"inactivity", "status">>, <<"backup", "status">>, <<"backup", "run">>, <<"throne", "refresh">>,
          <<"throne", "status">>, <<"throne", "dommes">>, <<"throne", "list">>, <<"throne", "search">>,
          <<"throne", "subs">>, <<"blacklist", "list">>, <<"guild", "scan">>, <<"sends", "list">>}
AllCommands == UNION {{<<c, w>> : w \in Console!Commands[c]} : c \in DOMAIN Console!Commands}
SomeFailing ==
    SomeAccounts \cup {[db EXCEPT !.settings = (2 :> Unset) @@ @, !.keys = keys, !.subs = subs] :
                          db \in SomeAccounts, keys \in SomeKeys, subs \in SomeSubs}
ASSUME FailureLeavesNothing ==
    \A db \in SomeFailing, told \in AllCommands \ {<<"throne", "adddomme">>}, g \in {0, 1},
       ref \in {"id", "name"}, amount \in {0, 10} :
        LET ran == Ran(db, [Told(told[1], told[2]) EXCEPT !.guild = g, !.user.is = ref, !.amount = amount])
        IN  ~ran.ok \/ told \in Shows => ran.db = db

\* Whoever is taken off the blacklist is off it for all guilds; adding blocks him in
\* all, and none of it touches another user.
ASSUME BlacklistIsGlobal ==
    \A db \in SomeAccounts, u \in {3, 4}, do \in {"add", "remove"} :
        LET ran == Ran(db, [Told("blacklist", do) EXCEPT !.user.user = u])
        IN  /\ Console!IsBlocked(ran.db, u) <=> do = "add"
            /\ Console!IsBlocked(ran.db, 7 - u) <=> Console!IsBlocked(db, 7 - u)
            /\ do = "remove" => Ran(ran.db, [Told("blacklist", "add") EXCEPT !.user.user = u]).db
                                    = [ran.db EXCEPT !.users = (<<0, u>> :> "blocked") @@ @]

\* A sub that the console adds has one name, whatever there was, and every send of
\* nobody with it; names stay with one user. Blocked users and the reserved words are
\* taken too, and with such a word all the private sends of the guild.
NamesApart(db) == \A n \in Names : Cardinality(Console!SubNamed(db, 1, n)) <= 1
ASSUME AddSubTakesMore ==
    \A db \in SomeRecords, n \in Names, users \in SomeUsers :
        LET before == [db EXCEPT !.users = users]
            ran == Ran(before, [Told("throne", "addsub") EXCEPT !.sending = n])
        IN  /\ NamesApart(ran.db)
            /\ ran.ok <=> n.is # "none" /\ Console!SubNamed(db, 1, n) \subseteq {4}
            /\ ran.ok => /\ ran.db.subs[<<1, 4>>] = <<n>>
                         /\ \A i \in DOMAIN db.sends :
                               LET s == db.sends[i]
                                   hers == s.guild = 1 /\ s.from = 0 /\ s.name = n
                               IN  ran.db.sends[i].from = (IF hers THEN 4 ELSE s.from)

\* A repair that is asked for dry says how many it would repair, and does nothing; the
\* repair does as many, and then there are none.
Repairs == {<<"sends", "repair-mentions">>, <<"leaderboard", "repair-send-dommes">>}
ASSUME RepairsComeToAnEnd ==
    \A db \in SomeRecords, told \in Repairs :
        LET dry == Ran(db, [Told(told[1], told[2]) EXCEPT !.dry = TRUE])
            ran == Ran(db, Told(told[1], told[2]))
            again == Ran(ran.db, Told(told[1], told[2]))
        IN  /\ dry.db = db
            /\ dry.says.candidates = ran.says.updated
            /\ again.says.candidates = 0 /\ again.db = ran.db
            /\ {i \in DOMAIN db.sends : ran.db.sends[i] # db.sends[i]}
                  = IF told[1] = "sends" THEN Console!Mentioning(db, 1) ELSE Console!MisnamedSends(db, 1)
            /\ told[1] = "sends" => \A i \in DOMAIN db.sends : db.sends[i].from # 0 => ran.db.sends[i] = db.sends[i]
            /\ told[1] = "sends" => \A i \in Console!Mentioning(db, 1) :
                  LET s == ran.db.sends[i]
                  IN  /\ s.from = db.sends[i].name.of
                      /\ s.name = Console!NoName \/ Console!SubNamed(db, 1, s.name) = {s.from}

\* The maintenance ends with nothing queued, and what was ignored stays so; nothing is
\* released while it lasts. Sends are kept back or posted as the switches say.
ASSUME MaintenanceHoldsBack ==
    \A db \in SomeRecords :
        LET Count(d, s) == Console!CountStatuses(d)[s]
            off == Ran(db, Told("maintenance", "off"))
            flush == Ran(db, Told("queue", "flush"))
            added == Ran(db, Told("throne", "addsend"))
        IN  /\ Count(off.db, "queued_maintenance") = 0 /\ Count(off.db, "ignored") = Count(db, "ignored")
            /\ Count(off.db, "pending") = Count(db, "pending") + off.says.released
            /\ flush.ok <=> ~Console!IsOn(db, "maintenance_mode")
            /\ flush.ok => flush.db.sends = off.db.sends
            /\ Ran(Ran(db, Told("maintenance", "on")).db, Told("queue", "flush")).ok = FALSE
            /\ Ran(db, Told("maintenance", "on")).db.sends = db.sends
            /\ added.ok /\ added.db.sends[3].status = (IF Console!IsOn(db, "rob_offline_mode") THEN "posted"
                                                      ELSE IF flush.ok THEN "pending" ELSE "queued_maintenance")

\* Marked as posted is whatever the send was, an ignored one too.
ASSUME MarkedWhatever ==
    \A db \in SomeRecords, i \in 1..3 :
        LET ran == Ran(db, [Told("sends", "mark-posted") EXCEPT !.send = i])
        IN  /\ ran.says.updated <=> i \in DOMAIN db.sends
            /\ ran.says.updated => ran.db.sends[i].status = "posted"
            /\ \A j \in DOMAIN db.sends \ {i} : ran.db.sends[j] = db.sends[j]

\* A send of the console is of the sub that has the name or is mentioned, never of one
\* that a reserved word would be; an amount over zero can be recorded as none.
ASSUME AddedSends ==
    \A db \in SomeRecords, n \in Names, amount \in {4, 5, 1000} :
        LET ran == Ran(db, [Told("throne", "addsend") EXCEPT !.name = n, !.amount = amount, !.user.user = 1])
            s == ran.db.sends[3]
        IN  /\ ran.ok /\ s.domme = 1 /\ s.cents = (IF amount < 5 THEN 0 ELSE IF amount = 5 THEN 1 ELSE 100)
            /\ s.from # 0 <=> n.is = "mention" \/ (n.is = "name" /\ Console!SubNamed(db, 1, n) # {})
            /\ n.is = "name" /\ s.from # 0 => Console!SubNamed(db, 1, n) = {s.from}
            /\ 3 \notin Console!Mentioning(ran.db, 1)

\* The count that is set is not below zero; where there was no row there is one now,
\* that is not enabled and has no channel.
ASSUME CountIsSet ==
    \A n \in -2..2, there \in BOOLEAN :
        LET row == [channel |-> 6, number |-> 3, last |-> 2, enabled |-> TRUE, pending |-> TRUE]
            db == [Console0 EXCEPT !.counts = IF there THEN 1 :> row ELSE @]
            set == Ran(db, [Told("count", "set") EXCEPT !.number = n]).db.counts[1]
        IN  /\ set.number >= 0 /\ (n >= 0 => set.number = n) /\ set.last = 0 /\ ~set.pending
            /\ set.enabled = there /\ (set.channel = 6 <=> there)

\* The status of a switch says "default off" until it is set, and then what was set.
ASSUME SwitchesAreRemembered ==
    \A what \in {"inactivity", "backup"}, on \in BOOLEAN :
        LET set == Ran(Console0, Told(what, IF on THEN "on" ELSE "off")).db
        IN  /\ Ran(Console0, Told(what, "status")).says.enabled = "default off"
            /\ Ran(set, Told(what, "status")).says.enabled = (IF on THEN "on" ELSE "off")
            /\ \A other \in {"inactivity", "backup"} \ {what} :
                  Ran(set, Told(other, "status")).says.enabled = "default off"

\* The console suggests what the bot does where no name has a capital, and can suggest
\* another than the bot would apply where one has.
Cased(x, rank) == [cased |-> rank] @@ x
TwoCounts(rank) ==
    {Cased(Thing(12, CountName, 2, "text"), rank), Cased(Thing(13, [CountName EXCEPT !.is = {"count"}], 3, "text"), 3),
     Cased(Thing(14, OtherName, 1, "text"), 0)}
Counting == TokensOf("counting_channel_id")
ASSUME ScansDiffer ==
    /\ \A live \in SUBSET TwoCounts(2) : Console!ConsoleBest(live, Counting) = Best(live, Counting)
    /\ \A rank \in {0, 1, 2, 4} :
          Console!ConsoleBest(TwoCounts(rank), Counting) # Best(TwoCounts(rank), Counting) <=> rank > 3
    /\ \A bot \in {{}, {5}}, discord \in {{}, {6}} :
          Console!FetchLiveGuildScan([bot |-> bot, discord |-> discord]) = (IF bot = {} THEN discord ELSE bot)

=============================================================================
