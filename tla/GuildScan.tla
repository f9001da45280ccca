------------------------------ MODULE GuildScan ------------------------------
(***************************************************************************)
(* How the bot guesses a guild's settings from the names of its channels   *)
(* and roles, and applies the guesses (opsapi/_support.py;                 *)
(* opsapi/routers/guilds.py).                                              *)
(*                                                                         *)
(* A live channel or role is [id, name, rank, kind].  Of a name it is told *)
(* which tokens it is, starts with and has in it, [is, starts, within],    *)
(* each a set of tokens after _normalize_scan_name; rank is the place of   *)
(* the name in the alphabet.  Settings are a function from fields to an    *)
(* optional id: a set of at most one.                                      *)
(***************************************************************************)
EXTENDS Integers, Sequences, FiniteSets, SequencesExt

ChannelFields == <<"registration_channel_id", "leaderboard_channel_id", "send_track_channel_id",
                   "counting_channel_id", "report_channel_id", "warn_log_channel_id",
                   "backup_approval_channel_id">>
RoleFields == <<"domme_role_id", "sub_role_id", "mod_role_id", "inactive_role_id",
                "leaderboard_view_role_id", "active_role_id", "unverified_role_id",
                "trial_mod_role_id">>
\* SCAN_APPLY_FIELD_ORDER
Fields == ChannelFields \o RoleFields
Channels == ToSet(ChannelFields)
Roles == ToSet(RoleFields)

\* GUILD_CHANNEL_MATCH_TOKENS, normalised.
ChannelTokens ==
    [registration_channel_id |-> {"registration", "register", "setup", "welcome"},
     leaderboard_channel_id |-> {"leaderboard", "rank", "leader-board"},
     send_track_channel_id |-> {"send-tracker", "send-tracking", "sendtracker", "throne", "sends"},
     counting_channel_id |-> {"counting", "count"},
     report_channel_id |-> {"report", "support", "help"},
     warn_log_channel_id |-> {"warn", "warning", "mod-log", "logs", "log"},
     backup_approval_channel_id |-> {"backup-approval", "backup-approvals", "server-backup", "backup",
                                     "backups", "mod-approval", "approvals"}]

\* GUILD_ROLE_MATCH_TOKENS, normalised.
RoleTokens ==
    [domme_role_id |-> {"domme", "dom/me", "dom", "dommes"},
     sub_role_id |-> {"sub", "subs"},
     mod_role_id |-> {"mod", "mods", "moderator", "staff", "admin"},
     inactive_role_id |-> {"inactive", "inactivity", "away"},
     leaderboard_view_role_id |-> {"leaderboard-access", "leaderboard", "leader-board",
                                   "board-access", "vip"},
     active_role_id |-> {"active", "active-member", "verified-member"},
     unverified_role_id |-> {"unverified", "unverify", "not-verified", "pending", "newcomer"},
     trial_mod_role_id |-> {"trial-mod", "trialmod", "trial-moderator", "trial"}]

TokensOf(field) == IF field \in Channels THEN ChannelTokens[field] ELSE RoleTokens[field]

\* _score_named_match: the best of its tokens counts.
Score(name, tokens) ==
    IF tokens \cap name.is # {} THEN 100
    ELSE IF tokens \cap name.starts # {} THEN 75
    ELSE IF tokens \cap name.within # {} THEN 50 ELSE 0

\* _find_best_channel_match, _find_best_role_match: by score, then name, then id.
Before(a, b) == a.rank < b.rank \/ (a.rank = b.rank /\ a.id < b.id)
Better(a, b, tokens) ==
    LET s == Score(a.name, tokens)
        t == Score(b.name, tokens)
    IN  s > t \/ (s = t /\ Before(a, b))
Best(live, tokens) ==
    LET scored == {x \in live : Score(x.name, tokens) > 0}
    IN  {x \in scored : \A y \in scored \ {x} : Better(x, y, tokens)}

\* _build_guild_scan_payload: text channels only, every role but @everyone.
\* "found" is about what can be set by a scan, as a voice channel cannot.
LiveFor(guild, field) ==
    IF field \in Channels THEN {c \in guild.channels : c.kind = "text"}
    ELSE {r \in guild.roles : r.kind # "everyone"}
Match(settings, guild, field) ==
    LET live == LiveFor(guild, field)
    IN  [field |-> field, current |-> settings[field],
         found |-> settings[field] # {} /\ settings[field] \subseteq {x.id : x \in live},
         suggested |-> {x.id : x \in Best(live, TokensOf(field))}]
Scan(settings, guild) == [i \in DOMAIN Fields |-> Match(settings, guild, Fields[i])]

\* _parse_scan_apply_options: an option is a field, one of the three words, or is
\* invalid.  "all" ends the reading and nothing is invalid then; no option means all.
Meaning(option) ==
    CASE option = "channels" -> Channels
      [] option = "roles" -> Roles
      [] OTHER -> {option} \cap ToSet(Fields)
Options(options) ==
    LET said == ToSet(options)
        selected == UNION {Meaning(o) : o \in said}
        invalid == {o \in said : Meaning(o) = {}}
    IN  IF "all" \in said \/ said = {} THEN [selected |-> ToSet(Fields), invalid |-> {}]
        ELSE [selected |-> selected, invalid |-> invalid]

\* _handle_apply_guild_scan: what is written, entry by entry.  A guild that the
\* bot does not see, or an invalid option, writes nothing.
Applies(entry, selected) ==
    /\ entry.field \in selected
    /\ entry.suggested # {}
    /\ ~(entry.found /\ entry.current = entry.suggested)
Applied(settings, guild, options) ==
    LET scan == Scan(settings, guild)
        chosen == Options(options)
    IN  IF ~guild.visible \/ chosen.invalid # {} THEN {}
        ELSE {i \in DOMAIN scan : Applies(scan[i], chosen.selected)}

\* The settings afterwards; set_channel_id and set_role_id make the row if there
\* is none (every field of it without an id).
Refreshes(settings, guild, options) == Applied(settings, guild, options) # {}
AfterApply(settings, guild, options) ==
    [f \in DOMAIN settings |->
        IF \E i \in Applied(settings, guild, options) : Fields[i] = f
        THEN Match(settings, guild, f).suggested ELSE settings[f]]

\* _handle_set_guild_field: one field, set or cleared; whether there is such a
\* channel or role is not asked.
AfterSet(settings, kind, field, id) ==
    IF field \in (IF kind = "channel" THEN Channels ELSE Roles)
    THEN [settings EXCEPT ![field] = id] ELSE settings

=============================================================================
