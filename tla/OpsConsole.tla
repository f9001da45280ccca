----------------------------- MODULE OpsConsole -----------------------------
(***************************************************************************)
(* The operator's commands (ops/ops.py, and the repositories they call),   *)
(* each a function from the database to what is there afterwards.          *)
(*                                                                         *)
(* A database has its sends, dommes and registered subs by their keys      *)
(* (rows by id; guild and user for subs and bot users), the texts of       *)
(* bot_settings, and the rows of a guild: settings, count, messages. What  *)
(* a command comes to is [ok, db, says]: it ended without an error, the    *)
(* database then, and what it prints; 0 stands for no value.               *)
(***************************************************************************)
EXTENDS Integers, Sequences, FiniteSets, TLC, SequencesExt
LOCAL INSTANCE GuildScan

Fails(db) == [ok |-> FALSE, db |-> db, says |-> << >>]
Says(db, facts) == [ok |-> TRUE, db |-> db, says |-> facts]

\* A mention or the digits of an id; anything else is an error.
ParseUserRef(ref) == IF ref.is \in {"id", "mention"} THEN {ref.user} ELSE {}

\* The guild that is told or, with settings of one guild only, that one.
ResolveGuildId(db, told) ==
    IF told # 0 THEN {told} ELSE IF Cardinality(DOMAIN db.settings) = 1 THEN DOMAIN db.settings ELSE {}
InGuild(db, told, Do(_)) ==
    LET g == ResolveGuildId(db, told) IN IF g = {} THEN Fails(db) ELSE Do(CHOOSE x \in g : TRUE)
ForUser(db, args, Do(_, _)) ==
    InGuild(db, args.guild, LAMBDA g :
        IF ParseUserRef(args.user) = {} THEN Fails(db) ELSE Do(g, args.user.user))

(********************* Maintenance, queue and switches ********************)

IsOn(db, key) == key \in DOMAIN db.keys /\ db.keys[key] \in {"1", "true", "yes", "on"}
WithKeys(db, texts) == [db EXCEPT !.keys = texts @@ @]
Statuses == {"pending", "queued_maintenance", "posted", "failed", "ignored"}
CountStatuses(db) == [s \in Statuses |-> Cardinality({i \in DOMAIN db.sends : db.sends[i].status = s})]

WithSends(db, Pick(_), New(_)) ==
    [db EXCEPT !.sends = [i \in DOMAIN @ |-> IF Pick(@[i]) THEN New(@[i]) ELSE @[i]]]
ReleaseQueuedMaintenance(db) ==
    WithSends(db, LAMBDA s : s.status = "queued_maintenance", LAMBDA s : [s EXCEPT !.status = "pending"])

HandleStatus(db) == Says(db, [maintenance |-> IsOn(db, "maintenance_mode"), queue |-> CountStatuses(db)])
HandleMaintenance(db, args) ==
    LET Switched(text, reason) ==
            WithKeys(db, [maintenance_mode |-> text, maintenance_reason |-> reason, leaderboard_refresh |-> args.now])
        off == Switched("false", "")
    IN  CASE args.do = "status" -> Says(db, [maintenance |-> IsOn(db, "maintenance_mode")])
          [] args.do = "on" -> Says(Switched("true", args.reason), << >>)
          [] args.do = "off" -> Says(ReleaseQueuedMaintenance(off),
                                     [released |-> CountStatuses(db)["queued_maintenance"]])
HandleQueue(db, args) ==
    CASE args.do = "status" -> Says(db, [queue |-> CountStatuses(db)])
      [] args.do = "flush" ->
            IF IsOn(db, "maintenance_mode") THEN Fails(db)
            ELSE Says(ReleaseQueuedMaintenance(db), [released |-> CountStatuses(db)["queued_maintenance"]])

EnabledKey(what, g) == what \o "_" \o ToString(g)
HandleSwitch(db, args, what, Status(_)) ==
    InGuild(db, args.guild, LAMBDA g :
        CASE args.do \in {"on", "off"} ->
                Says(WithKeys(db, EnabledKey(what, g) :> (IF args.do = "on" THEN "true" ELSE "false")), << >>)
          [] OTHER -> Status(g))
\* Without a row, status says that the default is off, whatever the default is.
SwitchStatus(db, what, g) ==
    [enabled |-> IF EnabledKey(what, g) \notin DOMAIN db.keys THEN "default off"
                 ELSE IF IsOn(db, EnabledKey(what, g)) THEN "on" ELSE "off"]
HandleInactivity(db, args) ==
    HandleSwitch(db, args, "inactivity", LAMBDA g : Says(db, SwitchStatus(db, "inactivity", g)))
\* "run" asks the running bot, which writes for itself; no answer is no error.
HandleBackup(db, args) ==
    HandleSwitch(db, args, "server_backup", LAMBDA g :
        IF args.do = "run" THEN Says(db, [asked |-> g]) ELSE Says(db, SwitchStatus(db, "server_backup", g)))

HandleCount(db, args) ==
    InGuild(db, args.guild, LAMBDA g :
        LET there == g \in DOMAIN db.counts
            row == [channel |-> IF there THEN db.counts[g].channel ELSE 0,
                    number |-> IF args.number < 0 THEN 0 ELSE args.number, last |-> 0,
                    enabled |-> there /\ db.counts[g].enabled, pending |-> FALSE]
        IN  CASE args.do = "status" -> Says(db, [count |-> IF there THEN {db.counts[g]} ELSE {}])
              [] args.do = "set" -> Says([db EXCEPT !.counts = (g :> row) @@ @], << >>))

(****************************** Leaderboards ******************************)

\* Sends that name another user than the domme whose row they refer to.
MisnamedSends(db, g) ==
    {i \in DOMAIN db.sends :
        LET s == db.sends[i]
        IN  s.guild = g /\ s.domme \in DOMAIN db.dommes
            /\ db.dommes[s.domme].guild = g /\ db.dommes[s.domme].user # s.to}
RepairSendDommes(db, g, dry) ==
    LET found == MisnamedSends(db, g)
        repaired == [db EXCEPT !.sends = [i \in DOMAIN @ |->
                        IF i \in found THEN [@[i] EXCEPT !.to = db.dommes[db.sends[i].domme].user] ELSE @[i]]]
    IN  IF dry THEN Says(db, [candidates |-> Cardinality(found), updated |-> 0])
        ELSE Says(repaired, [candidates |-> Cardinality(found), updated |-> Cardinality(found)])

\* status, preview and diagnose print what the queries of Standings return.
HandleLeaderboard(db, args) ==
    CASE args.do = "refresh" -> Says(WithKeys(db, "leaderboard_refresh" :> args.now), << >>)
      [] args.do = "adopt" ->
            Says([db EXCEPT !.boards = (<<args.guild, "leaderboard">> :> args.messages[1])
                                       @@ (<<args.guild, "leaderboard_stats">> :> args.messages[2]) @@ @], << >>)
      [] args.do = "repair-send-dommes" -> InGuild(db, args.guild, LAMBDA g : RepairSendDommes(db, g, args.dry))
      [] OTHER -> InGuild(db, args.guild, LAMBDA g : Says(db, [guild |-> g]))

(********************************* Throne *********************************)

\* A creator is the row of a domme (throne_creators is a view of dommes);
\* "webhook" is her mode while she is active.
CreatorOf(db, g, u) == {d \in DOMAIN db.dommes : db.dommes[d].guild = g /\ db.dommes[d].user = u}
Mode(domme) == IF domme.tracking = "active" THEN "webhook" ELSE "disabled"
ThroneStatus(db, g, handle) ==
    LET guilds == {d \in DOMAIN db.dommes : db.dommes[d].guild = g}
    IN  IF handle = 0 THEN Says(db, [creators |-> Cardinality(guilds)])
        ELSE Says(db, [found |-> \E d \in guilds : db.dommes[d].handle = handle])
ThroneList(db, g) == Says(db, [creators |-> {db.dommes[d].user : d \in {d \in DOMAIN db.dommes : db.dommes[d].guild = g}}])
ThroneSearch(db, g, u) ==
    Says(db, [found |-> CreatorOf(db, g, u) # {}, modes |-> {Mode(db.dommes[d]) : d \in CreatorOf(db, g, u)}])

\* upsert_for_user: a secret that is there is kept (COALESCE), the mode is
\* written as it was read.
UpsertForUser(db, d, secret) ==
    [db EXCEPT !.dommes[d].tracking = IF Mode(db.dommes[d]) = "webhook" THEN "active" ELSE "disabled",
               !.dommes[d].secret = IF @ = 0 THEN secret ELSE @]
\* The URL that is printed has the secret that was drawn.
RefreshWebhook(db, g, u, drawn) ==
    IF CreatorOf(db, g, u) = {} THEN Says(db, [found |-> FALSE])
    ELSE LET d == CHOOSE d \in CreatorOf(db, g, u) : TRUE
         IN  Says(UpsertForUser(db, d, drawn), [found |-> TRUE, rotated |-> TRUE, url |-> <<db.dommes[d].creator, drawn>>])

\* A name is [is, of]: none, a name, one of the reserved words (private sends have
\* one), or a mention of a user.
NoName == [is |-> "none", of |-> 0]
SubNamed(db, g, name) == {u \in {k[2] : k \in {k \in DOMAIN db.subs : k[1] = g}} : name \in ToSet(db.subs[<<g, u>>])}
PrimaryName(db, g, u) == IF <<g, u>> \in DOMAIN db.subs THEN db.subs[<<g, u>>][1] ELSE NoName

\* record_manual_send, as the console calls it: no approval, no user is asked.
ManualStatus(db, g) ==
    IF g = db.main /\ IsOn(db, "rob_offline_mode") THEN "posted"
    ELSE IF IsOn(db, "maintenance_mode") THEN "queued_maintenance" ELSE "pending"
Attributed(db, g, name) ==
    CASE name.is = "mention" -> [from |-> name.of, name |-> PrimaryName(db, g, name.of)]
      [] name.is = "name" /\ SubNamed(db, g, name) # {} ->
            [from |-> CHOOSE u \in SubNamed(db, g, name) : TRUE, name |-> name]
      [] OTHER -> [from |-> 0, name |-> name]
\* dollars_to_cents of an amount in tenths of a cent.
ToCents(amount) == (amount + 5) \div 10
AddSend(db, g, u, args) ==
    LET id == 1 + Cardinality(DOMAIN db.sends)
        whose == CreatorOf(db, g, u)
        send == [guild |-> g, status |-> ManualStatus(db, g), domme |-> IF whose = {} THEN 0 ELSE CHOOSE d \in whose : TRUE,
                 to |-> u, cents |-> ToCents(args.amount), test |-> FALSE, public |-> TRUE] @@ Attributed(db, g, args.name)
    IN  IF args.amount <= 0 THEN Fails(db)
        ELSE Says([db EXCEPT !.sends = (id :> send) @@ @], [recorded |-> id])

\* subs.upsert: all the names of the sub are replaced by the one, and the sends
\* that are of nobody and have it become hers. Neither the blacklist nor the
\* reserved names are asked for: those are of the registration.
AddSub(db, g, u, name) ==
    LET Hers(s) == s.guild = g /\ s.from = 0 /\ s.name = name
        registered == [db EXCEPT !.subs = (<<g, u>> :> <<name>>) @@ @]
    IN  IF name.is = "none" \/ SubNamed(db, g, name) \ {u} # {} THEN Fails(db)
        ELSE Says(WithSends(registered, Hers, LAMBDA s : [s EXCEPT !.from = u]), << >>)

IsBlocked(db, u) == \E k \in DOMAIN db.users : k[2] = u /\ db.users[k] = "blocked"

\* register_domme: one transaction after another, and then the result is read for a
\* "creator" that it does not have.
RegisterDomme(db, g, u, account, drawn) ==
    LET own == CreatorOf(db, g, u)
        d == IF own = {} THEN 1 + Cardinality(DOMAIN db.dommes) ELSE CHOOSE d \in own : TRUE
        taken == \E e \in DOMAIN db.dommes : /\ db.dommes[e].guild = g
                                             /\ db.dommes[e].user # u
                                             /\ account \in {db.dommes[e].handle, db.dommes[e].creator}
        row == [guild |-> g, user |-> u, handle |-> account, creator |-> account, tracking |-> "disabled",
                secret |-> IF own # {} /\ db.dommes[d].secret # 0 THEN db.dommes[d].secret ELSE drawn]
        ensured == [db EXCEPT !.settings = @ @@ (g :> [f \in ToSet(Fields) |-> {}])]
    IN  IF IsBlocked(db, u) \/ account = 0 THEN db
        ELSE IF taken THEN ensured ELSE [ensured EXCEPT !.dommes = (d :> row) @@ @]
AddDomme(db, g, u, account, drawn) == Fails(RegisterDomme(db, g, u, account, drawn))

InvalidateTestSends(db, testers) ==
    Says(WithSends(db, LAMBDA s : s.name \in testers, LAMBDA s : [s EXCEPT !.test = TRUE]), << >>)

HandleThrone(db, args) ==
    CASE args.do = "refresh" -> Says(db, << >>)
      [] args.do = "status" -> InGuild(db, args.guild, LAMBDA g : ThroneStatus(db, g, args.handle))
      [] args.do \in {"dommes", "list"} -> InGuild(db, args.guild, LAMBDA g : ThroneList(db, g))
      [] args.do = "subs" -> InGuild(db, args.guild, LAMBDA g : Says(db, [subs |-> {k \in DOMAIN db.subs : k[1] = g}]))
      [] args.do = "search" -> ForUser(db, args, LAMBDA g, u : ThroneSearch(db, g, u))
      [] args.do = "webhook" -> ForUser(db, args, LAMBDA g, u : RefreshWebhook(db, g, u, args.drawn))
      [] args.do = "addsend" -> ForUser(db, args, LAMBDA g, u : AddSend(db, g, u, args))
      [] args.do = "addsub" -> ForUser(db, args, LAMBDA g, u : AddSub(db, g, u, args.sending))
      [] args.do = "adddomme" -> ForUser(db, args, LAMBDA g, u : AddDomme(db, g, u, args.account, args.drawn))
      [] args.do = "invalidate-test-sends" -> InvalidateTestSends(db, args.testers)

(************************* Blacklist, sends, guild ************************)

\* One row of the guild 0 blocks a user everywhere; the removal frees all his rows.
HandleBlacklist(db, args) ==
    LET u == args.user.user
    IN  CASE args.do = "add" -> Says([db EXCEPT !.users = (<<0, u>> :> "blocked") @@ @], << >>)
          [] args.do = "remove" ->
                Says([db EXCEPT !.users = [k \in DOMAIN @ |-> IF k[2] = u THEN "allowed" ELSE @[k]]], << >>)
          [] args.do = "list" -> Says(db, [blocked |-> {k \in DOMAIN db.users : db.users[k] = "blocked"}])

\* Sends of nobody whose name is a mention; the name becomes the user's, or none.
Mentioning(db, g) ==
    {i \in DOMAIN db.sends : db.sends[i].from = 0 /\ db.sends[i].name.is = "mention" /\ g \in {0, db.sends[i].guild}}
RepairMentions(db, g, dry) ==
    LET found == Mentioning(db, g)
        Linked(s) == [s EXCEPT !.from = s.name.of, !.name = PrimaryName(db, s.guild, s.name.of)]
        repaired == [db EXCEPT !.sends = [i \in DOMAIN @ |-> IF i \in found THEN Linked(@[i]) ELSE @[i]]]
    IN  IF dry THEN Says(db, [candidates |-> Cardinality(found), updated |-> 0])
        ELSE Says(repaired, [candidates |-> Cardinality(found), updated |-> Cardinality(found)])
HandleSends(db, args) ==
    CASE args.do = "list" ->
            LET told == ResolveGuildId(db, args.guild)
            IN  Says(db, [rows |-> {i \in DOMAIN db.sends : /\ (told = {} \/ db.sends[i].guild \in told)
                                                             /\ args.status \in {"all", db.sends[i].status}}])
      [] args.do = "backfill-public-ids" ->
            Says(WithSends(db, LAMBDA s : ~s.public, LAMBDA s : [s EXCEPT !.public = TRUE]), << >>)
      [] args.do = "repair-mentions" -> RepairMentions(db, args.guild, args.dry)
      [] args.do = "mark-posted" ->
            Says(IF args.send \in DOMAIN db.sends THEN [db EXCEPT !.sends[args.send].status = "posted"] ELSE db,
                 [updated |-> args.send \in DOMAIN db.sends])

\* The console asks the bot for the guild and, if it does not answer, Discord. Its
\* suggestion is the bot's but that names with capitals come before those without.
FetchLiveGuildScan(world) == IF world.bot # {} THEN world.bot ELSE world.discord
ConsoleBest(live, tokens) ==
    LET Earlier(x, y) == (x.cased < y.cased) \/ (x.cased = y.cased /\ x.id < y.id)
        s(x) == Score(x.name, tokens)
        scored == {x \in live : s(x) > 0}
    IN  {x \in scored : \A y \in scored \ {x} : s(x) > s(y) \/ (s(x) = s(y) /\ Earlier(x, y))}
ConsoleScan(db, g, guild) ==
    [f \in ToSet(Fields) |->
        LET current == IF g \in DOMAIN db.settings THEN db.settings[g][f] ELSE {}
            live == LiveFor(guild, f)
        IN  [status |-> IF current = {} THEN "missing"
                        ELSE IF current \subseteq {x.id : x \in live} THEN "configured" ELSE "configured_missing",
             suggested |-> {x.id : x \in ConsoleBest(live, TokensOf(f))}]]
HandleGuild(db, args, world) ==
    LET g == args.guild
        row == IF g \in DOMAIN db.settings THEN db.settings[g] ELSE [f \in ToSet(Fields) |-> {}]
        kind == IF args.do = "set-role" THEN "role" ELSE "channel"
    IN  CASE args.do = "scan" -> Says(db, [scans |-> {ConsoleScan(db, g, guild) : guild \in FetchLiveGuildScan(world)}])
          [] OTHER -> Says([db EXCEPT !.settings = (g :> AfterSet(row, kind, args.field, args.id)) @@ @], << >>)

\* The words that the parser takes; any other ends the program before it connects.
Commands ==
    [status |-> {""}, maintenance |-> {"status", "on", "off"}, queue |-> {"status", "flush"},
     leaderboard |-> {"refresh", "adopt", "status", "preview", "diagnose", "repair-send-dommes"},
     count |-> {"status", "set"}, inactivity |-> {"status", "on", "off"}, backup |-> {"status", "on", "off", "run"},
     throne |-> {"refresh", "status", "dommes", "list", "search", "webhook", "addsend", "addsub", "adddomme",
                 "subs", "invalidate-test-sends"},
     blacklist |-> {"add", "remove", "list"}, guild |-> {"scan", "set-channel", "set-role"},
     sends |-> {"list", "backfill-public-ids", "repair-mentions", "mark-posted"}]
Run(db, args, world) ==
    IF args.command \notin DOMAIN Commands \/ args.do \notin Commands[args.command] THEN Fails(db)
    ELSE CASE args.command = "status" -> HandleStatus(db)
           [] args.command = "maintenance" -> HandleMaintenance(db, args)
           [] args.command = "queue" -> HandleQueue(db, args)
           [] args.command = "leaderboard" -> HandleLeaderboard(db, args)
           [] args.command = "count" -> HandleCount(db, args)
           [] args.command = "inactivity" -> HandleInactivity(db, args)
           [] args.command = "backup" -> HandleBackup(db, args)
           [] args.command = "throne" -> HandleThrone(db, args)
           [] args.command = "blacklist" -> HandleBlacklist(db, args)
           [] args.command = "sends" -> HandleSends(db, args)
           [] args.command = "guild" -> HandleGuild(db, args, world)
=============================================================================
