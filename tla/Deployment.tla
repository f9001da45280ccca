----------------------------- MODULE Deployment -----------------------------
(***************************************************************************)
(* How Rob's processes are put into service: the settings that one reads   *)
(* when it starts (config/settings.py), and the check that a deployment    *)
(* makes of the database (ops/checks/check_db.py), of databases that the   *)
(* scripts of db/build and db/grants can have made.                        *)
(*                                                                         *)
(* What can fail is a set with its one result, {} when it has failed.      *)
(***************************************************************************)
EXTENDS Integers, Sequences, FiniteSets, TLC, SequencesExt

(******************************* Settings *********************************)

\* The text of a variable: blank, a number, or a word. An environment has the
\* variables that are set, to whatever text.
BlankText == [is |-> "blank", number |-> 0, word |-> ""]
NumberText(n) == [is |-> "number", number |-> n, word |-> ""]
WordText(w) == [is |-> "word", number |-> 0, word |-> w]
IsUnset(env, name) == name \notin DOMAIN env \/ env[name] = BlankText

AsTruth(text) ==
    CASE text = NumberText(1) \/ (text.is = "word" /\ text.word \in {"true", "yes", "y", "on"}) -> {TRUE}
      [] text = NumberText(0) \/ (text.is = "word" /\ text.word \in {"false", "no", "n", "off"}) -> {FALSE}
      [] OTHER -> {}

EnvStr(env, name, default, required) ==
    IF ~IsUnset(env, name) THEN {env[name]} ELSE IF required THEN {} ELSE {default}
EnvInt(env, name, default, minimum) ==
    IF IsUnset(env, name) THEN {default}
    ELSE IF env[name].is = "number" /\ env[name].number >= minimum THEN {env[name].number} ELSE {}
EnvBool(env, name, default) == IF IsUnset(env, name) THEN {default} ELSE AsTruth(env[name])
EnvOptionalInt(env, name) ==
    IF IsUnset(env, name) THEN {BlankText} ELSE IF env[name].is = "number" THEN {env[name]} ELSE {}

\* load_dotenv does not touch what is set in the process, to a blank text included;
\* PYTHON_DOTENV_DISABLED of the process leaves the file out.
LoadEnvFile(process, file) ==
    LET disabled == "PYTHON_DOTENV_DISABLED" \in DOMAIN process
                    /\ process["PYTHON_DOTENV_DISABLED"] # WordText("y")
                    /\ AsTruth(process["PYTHON_DOTENV_DISABLED"]) = {TRUE}
    IN  IF disabled THEN process ELSE process @@ file

\* What a setting is read as, from which default.
Text(word) == [as |-> "text", default |-> WordText(word), minimum |-> 0]
NoText == [as |-> "text", default |-> BlankText, minimum |-> 0]
Needed == [as |-> "needed", default |-> BlankText, minimum |-> 0]
Number(default, minimum) == [as |-> "number", default |-> default, minimum |-> minimum]
Switch(default) == [as |-> "switch", default |-> default, minimum |-> 0]
Optional == [as |-> "optional", default |-> BlankText, minimum |-> 0]

BaseSettings ==
    [APP_ENV |-> Text("dev"), LOG_LEVEL |-> Text("INFO"), DATABASE_URL |-> Needed,
     ROB_OPS_HOST |-> Text("127.0.0.1"), ROB_OPS_PORT |-> Number(8811, 1),
     ROB_OPS_SECRET |-> NoText, ROB_BOT_NOTIFY_URL |-> NoText,
     THRONE_PARSE_TEST_SENDS_AS_REAL_SENDS |-> Switch(FALSE),
     THRONE_TEST_GIFTER_USERNAMES |-> Text("marie_123"),
     THRONE_TEST_SEND_LEADERBOARD_OWNER_USER_ID |-> Optional,
     LEADERBOARD_LIMIT |-> Number(10, 1), SEND_QUEUE_LOOP_SECONDS |-> Number(10, 1),
     PUBLIC_LEADERBOARD_CACHE_SECONDS |-> Number(60, 1), ROB_PUBLIC_BASE_URL |-> Text("leaderboard"),
     INACTIVITY_ENABLED_DEFAULT |-> Switch(FALSE), INACTIVITY_LOOP_MINUTES |-> Number(10080, 1),
     INACTIVITY_INACTIVE_AFTER_DAYS |-> Number(7, 1), INACTIVITY_KICK_GRACE_DAYS |-> Number(14, 1),
     INACTIVITY_BOOTSTRAP_GRACE_DAYS |-> Number(21, 1), INACTIVITY_FINAL_NOTICE_DAYS |-> Number(7, 1),
     INACTIVITY_OWNER_USER_ID |-> Optional, INACTIVITY_NOTICE_CHANNEL_ID |-> Optional,
     SERVER_BACKUP_ENABLED_DEFAULT |-> Switch(FALSE), SERVER_BACKUP_LOOP_MINUTES |-> Number(60, 1),
     SERVER_BACKUP_REQUIRED_APPROVALS |-> Number(2, 1), SERVER_BACKUP_MAJOR_CHANGE_THRESHOLD |-> Number(5, 1)]
WebhookSettings ==
    [THRONE_WEBHOOK_HOST |-> Text("127.0.0.1"), THRONE_WEBHOOK_PORT |-> Number(8080, 1),
     THRONE_WEBHOOK_BASE_URL |-> Text("throne"), THRONE_WEBHOOK_REQUIRE_SIGNATURE |-> Switch(TRUE),
     THRONE_PUBLIC_KEY_PEM |-> NoText, THRONE_WEBHOOK_DEBUG_LOG_PAYLOAD |-> Switch(FALSE),
     THRONE_WEBHOOK_TIMESTAMP_HEADER |-> Text("X-Signature-Timestamp"),
     THRONE_WEBHOOK_SIGNATURE_HEADER |-> Text("X-Signature-Ed25519"),
     THRONE_WEBHOOK_SIGNED_MESSAGE_FORMAT |-> Text("timestamp_dot_body"),
     THRONE_WEBHOOK_MAX_TIMESTAMP_SKEW_SECONDS |-> Number(300, 0)] @@ BaseSettings
BotSettings ==
    [DISCORD_TOKEN |-> Needed, BOT_NAME |-> Text("Rob"), VOICE_TRANSCRIBE_ENABLED |-> Switch(FALSE),
     VOICE_TRANSCRIBE_MODEL |-> Text("base"), VOICE_TRANSCRIBE_DEVICE |-> Text("cpu"),
     VOICE_TRANSCRIBE_COMPUTE_TYPE |-> Text("int8"), VOICE_TRANSCRIBE_LANGUAGE |-> NoText,
     VOICE_TRANSCRIBE_DOWNLOAD_ROOT |-> NoText, VOICE_TRANSCRIBE_BEAM_SIZE |-> Number(1, 1),
     VOICE_TRANSCRIBE_MAX_DURATION_SECONDS |-> Number(300, 1), VOICE_TRANSCRIBE_MAX_FILE_MB |-> Number(25, 1),
     VOICE_TRANSCRIBE_MAX_CONCURRENCY |-> Number(1, 1)] @@ BaseSettings
PublicApiSettings ==
    [PUBLIC_API_HOST |-> Text("127.0.0.1"), PUBLIC_API_PORT |-> Number(8090, 1),
     PUBLIC_API_ALLOWED_ORIGIN |-> Text("robthebot")] @@ BaseSettings

Setting(declared, env, name) ==
    LET d == declared[name]
    IN  CASE d.as \in {"text", "needed"} -> EnvStr(env, name, d.default, d.as = "needed")
          [] d.as = "number" -> EnvInt(env, name, d.default, d.minimum)
          [] d.as = "switch" -> EnvBool(env, name, d.default)
          [] d.as = "optional" -> EnvOptionalInt(env, name)
LoadSettings(declared, process, file) ==
    LET env == LoadEnvFile(process, file)
    IN  IF \E name \in DOMAIN declared : Setting(declared, env, name) = {} THEN {}
        ELSE {[name \in DOMAIN declared |-> CHOOSE v \in Setting(declared, env, name) : TRUE]}

(************************** Building a database ***************************)

\* A database has the versions it says it was built of, its tables with their
\* columns, and what a role may do. "own" is the columns of the table's CREATE TABLE
\* that the check asks for; a table whose id is drawn from a sequence has that too.
Roles == {"prod_rob_bot", "prod_rob_webhook"}
NoGrants == [on |-> << >>, sequences |-> {}, future |-> FALSE]
NewDatabase(everyoneCreates) ==
    [versions |-> {}, tables |-> << >>, granted |-> [r \in Roles |-> NoGrants], everyoneCreates |-> everyoneCreates]
Dml == {"SELECT", "INSERT", "UPDATE", "DELETE"}
WithoutSequence == {"db_build_version", "bot_settings", "vib_settings", "the_count", "user_terms_acceptance"}
On(grants, table) == IF table \in DOMAIN grants.on THEN grants.on[table] ELSE {}

Create(table, columns, references) ==
    [does |-> "create", table |-> table, columns |-> columns, needs |-> references]
Alter(table, columns) == [does |-> "alter", table |-> table, columns |-> columns, needs |-> {table}]
Record(version) == [does |-> "record", table |-> version, columns |-> {}, needs |-> {"db_build_version"}]
Script(version, statements) ==
    [version |-> version, statements |-> statements \cup {Record(version)}, transaction |-> version = "008"]

\* A script run as one transaction, or statement by statement as psql does, which
\* goes on after an error. A table is created if it is not there, before what refers
\* to it in the script, and with the default privileges that GrantBot has set.
RunScript(db, script, whole) ==
    LET Of(does) == {s \in script.statements : s.does = does}
        there == DOMAIN db.tables \cup {s.table : s \in Of("create")}
        done == {s \in script.statements : s.needs \subseteq there}
        new == {s.table : s \in done \cap Of("create")} \ DOMAIN db.tables
        Added(t) == UNION {s.columns : s \in {s \in done : s.table = t /\ (s.does = "alter" \/ t \in new)}}
        tables == [t \in DOMAIN db.tables \cup new |-> Added(t) \cup (IF t \in new THEN {} ELSE db.tables[t])]
        Given(g) == [g EXCEPT !.on = [t \in new |-> Dml] @@ @, !.sequences = @ \cup (new \ WithoutSequence)]
    IN  IF (whole \/ script.transaction) /\ done # script.statements THEN db
        ELSE [db EXCEPT !.tables = tables,
                        !.versions = @ \cup {s.table : s \in done \cap Of("record")},
                        !.granted["prod_rob_bot"] = IF @.future THEN Given(@) ELSE @]

CoreSchema ==
    Script("001", {Create("db_build_version", {"own"}, {}), Create("bot_settings", {"own"}, {}),
        Create("bot_users", {"own"}, {}), Create("dommes", {"own"}, {"bot_users"}),
        Create("subs", {"own"}, {"bot_users"}), Create("sends", {"own", "original_amount_cents"}, {"dommes", "subs"}),
        Create("vib_settings", {"own"}, {}), Create("vib_leaderboard", {"own"}, {}),
        Create("the_count", {"own"}, {}), Create("inactive_users", {"own"}, {"bot_users"})})
Indexes == Script("002", {Alter("subs", {}), Alter("sends", {}), Alter("inactive_users", {})})
SubSendNames == Script("004", {Create("sub_send_names", {"own"}, {"subs"})})
CountRecovery ==
    Script("005", {Create("count_recovery_windows", {"own"}, {"dommes"}), Create("count_blocks", {"own"}, {})})
SendChangeRequests == Script("006", {Create("send_change_requests", {"own"}, {"sends"})})
SendUpdateRequests == Script("007", {Alter("send_change_requests", {"action send_update"})})
DmPreferences ==
    Script("008", {Alter("dommes", {"leaderboard_visible", "preferences"}), Create("domme_onboarding_state", {"own"}, {})})
TermsAcceptance == Script("009", {Create("user_terms_acceptance", {"own"}, {})})
LeaderboardAccessRole == Script("010", {Alter("vib_settings", {"leaderboard_view_role_id"})})
SendFallbackHashUnique == Script("011", {Alter("sends", {"unique fallback_event_hash"})})
InactivityBackupSettings == Script("012", {Alter("vib_settings", {"active_role_id", "backup_approval_channel_id"})})
ServerBackups ==
    Script("013", {Create("server_backups", {"own"}, {}), Create("server_backup_approvals", {"own"}, {"server_backups"})})
BuildOrder ==
    <<CoreSchema, Indexes, SubSendNames, CountRecovery, SendChangeRequests, SendUpdateRequests, DmPreferences,
      TermsAcceptance, LeaderboardAccessRole, SendFallbackHashUnique, InactivityBackupSettings, ServerBackups>>
ManualFix == SubSeq(BuildOrder, 1, 8)

\* prod_rob_bot.sql: everything that is there, and everything to come.
GrantBot(db) ==
    [db EXCEPT !.granted["prod_rob_bot"] =
        [on |-> [t \in DOMAIN db.tables |-> Dml], sequences |-> DOMAIN db.tables \ WithoutSequence, future |-> TRUE]]
\* prod_rob_webhook.sql: a GRANT on several tables needs all of them.
WebhookGrants ==
    <<[privileges |-> {"SELECT"}, tables |-> {"db_build_version", "bot_settings", "bot_users", "dommes", "subs",
                                              "sub_send_names", "vib_settings", "vib_leaderboard"}],
      [privileges |-> {"SELECT", "INSERT", "UPDATE"}, tables |-> {"sends", "bot_users"}],
      [privileges |-> {"SELECT", "UPDATE"}, tables |-> {"dommes", "bot_settings"}]>>
GrantWebhook(db) ==
    LET Granted(g, s) ==
            IF s.tables \subseteq DOMAIN db.tables
            THEN [g EXCEPT !.on = [t \in s.tables |-> On(g, t) \cup s.privileges] @@ @] ELSE g
        given == FoldLeft(Granted, db.granted["prod_rob_webhook"], WebhookGrants)
    IN  [db EXCEPT !.granted["prod_rob_webhook"] =
            [given EXCEPT !.sequences = @ \cup ({"sends", "bot_users"} \cap DOMAIN db.tables)]]
GrantAll(db) == GrantWebhook(GrantBot(db))

(***************************** The check **********************************)

RequiredVersions == {"001", "002", "004", "005", "006", "007", "008", "010", "011", "012", "013"}
\* The tables that hold what is recorded, and those of what takes several steps.
RecordTableColumns ==
    [db_build_version |-> {"own"}, bot_settings |-> {"own"}, bot_users |-> {"own"},
     dommes |-> {"own", "leaderboard_visible", "preferences"}, subs |-> {"own"}, sub_send_names |-> {"own"},
     sends |-> {"own"},
     vib_settings |-> {"own", "leaderboard_view_role_id", "active_role_id", "backup_approval_channel_id"},
     vib_leaderboard |-> {"own"}, the_count |-> {"own"}, inactive_users |-> {"own"}]
WorkflowTableColumns ==
    [count_recovery_windows |-> {"own"}, count_blocks |-> {"own"}, send_change_requests |-> {"own"},
     domme_onboarding_state |-> {"own"}, server_backups |-> {"own"}, server_backup_approvals |-> {"own"}]
RequiredTableColumns == RecordTableColumns @@ WorkflowTableColumns
WebhookRequiredTables ==
    {"db_build_version", "bot_settings", "bot_users", "dommes", "subs", "sub_send_names", "sends",
     "vib_settings", "vib_leaderboard"}
BotTablePermissions ==
    [t \in DOMAIN RequiredTableColumns |-> IF t = "db_build_version" THEN {"SELECT"} ELSE Dml]
WebhookTablePermissions ==
    [t \in WebhookRequiredTables |->
        CASE t \in {"bot_settings", "dommes"} -> {"SELECT", "UPDATE"}
          [] t \in {"bot_users", "sends"} -> {"SELECT", "INSERT", "UPDATE"}
          [] OTHER -> {"SELECT"}]
BotRuntimeSequences == DOMAIN RequiredTableColumns \ WithoutSequence
WebhookRuntimeSequences == {"bot_users", "sends"}

\* As told by ROB_CHECK_DB_PROFILE, or by the end of the role's name; {} is an error.
RuntimeProfile(user, override) ==
    IF override # "" THEN {override} \cap {"bot", "webhook", "generic"}
    ELSE CASE user = "prod_rob_webhook" -> {"webhook"} [] user = "prod_rob_bot" -> {"bot"} [] OTHER -> {"generic"}
RequiredTables(profile) == IF profile = "webhook" THEN WebhookRequiredTables ELSE DOMAIN RequiredTableColumns
TableColumnsMissing(db, table) ==
    table \notin DOMAIN db.tables \/ ~(RequiredTableColumns[table] \subseteq db.tables[table])
PermissionsMissing(db, user, profile) ==
    LET required == IF profile = "bot" THEN BotTablePermissions ELSE WebhookTablePermissions
        sequences == IF profile = "bot" THEN BotRuntimeSequences ELSE WebhookRuntimeSequences
        g == db.granted[user]
    IN  \/ \E t \in DOMAIN required : ~(required[t] \subseteq On(g, t))
        \/ ~(sequences \subseteq g.sequences)
        \/ profile = "webhook" /\ \E t \in {"sends", "bot_users"} : "DELETE" \in On(g, t)

\* The REVOKE of the grants takes from a role what was given to it, not to everyone.
CheckDb(db, user, override) ==
    LET profiles == RuntimeProfile(user, override)
        profile == CHOOSE p \in profiles : TRUE
    IN  IF profiles = {} THEN "bad profile"
        ELSE IF "db_build_version" \notin DOMAIN db.tables THEN "not built"
        ELSE IF ~(RequiredVersions \subseteq db.versions) THEN "versions"
        ELSE IF \E t \in RequiredTables(profile) : TableColumnsMissing(db, t) THEN "columns"
        ELSE IF profile = "generic" THEN "passed"
        ELSE IF db.everyoneCreates THEN "may create"
        ELSE IF PermissionsMissing(db, user, profile) THEN "permissions" ELSE "passed"

\* The scripts that its error names: one at a time of those it has a text for.
MissingNamed(db) ==
    LET missing == RequiredVersions \ db.versions
    IN  CASE "008" \in missing -> {"008"} [] "010" \in missing -> {"010"} [] "011" \in missing -> {"011"}
          [] OTHER -> missing

(************************ What the processes use **************************)

\* Rows of the sends with what was paid before the conversion.
InsertsSends(db, user) ==
    {"INSERT", "SELECT"} \subseteq On(db.granted[user], "sends") /\ "sends" \in db.granted[user].sequences
    /\ "original_amount_cents" \in db.tables["sends"]
\* A user is deleted everywhere in one transaction.
DeletesUser(db, user) ==
    /\ \A t \in {"sends", "count_recovery_windows", "sub_send_names", "send_change_requests", "count_blocks",
               "domme_onboarding_state", "subs", "dommes", "bot_settings", "inactive_users",
               "user_terms_acceptance"} : "DELETE" \in On(db.granted[user], t)
    /\ "UPDATE" \in On(db.granted[user], "bot_users") \cap On(db.granted[user], "the_count")
=============================================================================
