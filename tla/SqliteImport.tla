---------------------------- MODULE SqliteImport ----------------------------
(***************************************************************************)
(* The import of the previous bot's SQLite file into the database of Rob   *)
(* (ops/migration/import_sqlite_to_postgres.py): a payload is shaped from  *)
(* the source tables in memory, then written in one transaction.           *)
(*                                                                         *)
(* A source is a record of tables, each a sequence of rows in the order    *)
(* the file returns them; a row's columns are read already, 0 or {} where  *)
(* nothing could be read. A dictionary of the code is a function, a key of *)
(* two parts a pair. A table of the target that has a unique key is a      *)
(* function of it; the sends are a sequence.                               *)
(***************************************************************************)
EXTENDS Integers, Sequences, FiniteSets, SequencesExt

(*************************** Reading one value ****************************)

\* A cell is NULL, a number in hundredths (whole or not) as SQLite or a text has
\* it, a word of a text, or a blank text.
Null == [is |-> "null", number |-> 0, word |-> ""]
Blank == [is |-> "blank", number |-> 0, word |-> ""]

\* The first column that is not NULL, also when nothing can be read from it.
RowValue(cells) ==
    LET some == {i \in DOMAIN cells : cells[i] # Null}
    IN  IF some = {} THEN Null ELSE cells[CHOOSE i \in some : \A j \in some : i <= j]

\* int(...) and int(float(...)) cut toward zero.
AsInt(cell) ==
    IF cell.is # "number" THEN {}
    ELSE IF cell.number >= 0 THEN {cell.number \div 100} ELSE {-((-cell.number) \div 100)}

\* A number of the file is true unless zero; as a text only "1" is a true number.
AsBool(cell, fromText) ==
    \/ cell.is = "number" /\ (IF fromText THEN cell.number = 100 ELSE cell.number # 0)
    \/ cell.is = "word" /\ cell.word \in {"true", "t", "yes", "y", "on"}

AtLeastZero(n) == IF n < 0 THEN 0 ELSE n

\* amount_cents when a number can be read from it, else dollars.
AmountCents(cents, dollars) ==
    IF AsInt(cents) # {} THEN AtLeastZero(CHOOSE n \in AsInt(cents) : TRUE)
    ELSE IF dollars.is = "number" THEN AtLeastZero(dollars.number) ELSE 0

\* A handle as it is written, in its column or in the url: a name that may have
\* capitals or an @ before it.
NoHandle == [name |-> 0, written |-> "plain"]
Lower(h) == [h EXCEPT !.written = IF @ = "capitals" THEN "plain" ELSE @]

(************************* Shaping the payload ****************************)

GuildOf(row, args) == IF row.guild = 0 THEN args.guild ELSE row.guild

\* Assignment to a dictionary, and the assignment that only a real key gets.
Put(f, k, v) == [x \in DOMAIN f \cup {k} |-> IF x = k THEN v ELSE f[x]]
PutIf(has, f, k, v) == IF has THEN Put(f, k, v) ELSE f
Lookup(f, k) == IF k \in DOMAIN f THEN f[k] ELSE 0
Counted(a, what) == [a EXCEPT !.report = Put(@, what, Lookup(@, what) + 1)]

Nothing == [users |-> << >>, dommes |-> << >>, subs |-> << >>, subOrder |-> << >>, keys |-> << >>,
            settings |-> << >>, count |-> << >>, inactive |-> << >>, sends |-> << >>,
            boards |-> << >>, seen |-> {}, report |-> << >>,
            dommeOfRow |-> << >>, subOfRow |-> << >>, userOfCreator |-> << >>, userOfHandle |-> << >>]

EnsureUser(a, g, u, blocked) ==
    [a EXCEPT !.users = PutIf(blocked \/ <<g, u>> \notin DOMAIN @, @, <<g, u>>,
                              IF blocked THEN "blocked" ELSE "allowed")]

\* event_dommes: a later row of the user replaces the domme, and leaves what the
\* earlier one is found by.
TakeDomme(a, row, args) ==
    LET g == GuildOf(row, args)
        k == <<g, row.user>>
    IN  IF row.handle # NoHandle /\ row.handle.name \in args.excluded
        THEN Counted(a, "excluded_event_dommes")
        ELSE IF row.user = 0 THEN a
        ELSE [EnsureUser(a, g, row.user, FALSE) EXCEPT
                !.dommes = Put(@, k, [handle |-> row.handle, creator |-> row.creator, status |-> "active",
                                      hide |-> {row.hide = {TRUE}}, secret |-> row.secret]),
                !.dommeOfRow = PutIf(row.id # 0, @, <<g, row.id>>, row.user),
                !.userOfCreator = PutIf(row.creator # 0, @, row.creator, row.user),
                !.userOfHandle = PutIf(row.handle # NoHandle, @, <<g, row.handle.name>>, row.user)]

\* throne_creators, in the order of their ids: whose row it is, ...
CreatorOwner(a, row, g) ==
    IF row.user # 0 THEN row.user
    ELSE IF row.domme # 0 THEN Lookup(a.dommeOfRow, <<g, row.domme>>) ELSE 0

\* ... or the domme that has its handle, when that user is none ...
MatchedOwner(a, row, g, owner) ==
    IF <<g, owner>> \notin DOMAIN a.dommes /\ row.handle # NoHandle
    THEN Lookup(a.userOfHandle, <<g, row.handle.name>>) ELSE 0

\* ... and the domme with the row merged in: what she has is kept, what she lacks
\* taken, the flag and the secret taken when the row has one.
Merged(base, row) ==
    [handle |-> IF base.handle = NoHandle \/ (row.handle # NoHandle /\ Lower(row.handle) = Lower(base.handle))
                THEN row.handle ELSE base.handle,
     creator |-> IF base.creator # 0 THEN base.creator ELSE row.creator,
     status |-> "active",
     hide |-> IF row.hide # {} THEN row.hide ELSE base.hide,
     secret |-> IF row.secret # 0 THEN row.secret ELSE base.secret]

\* The three warnings that are counted as conflicts.
Conflicts(a, base, row, u) ==
    <<row.creator # 0 /\ Lookup(a.userOfCreator, row.creator) \notin {0, u},
      base.creator # 0 /\ row.creator # 0 /\ base.creator # row.creator,
      base.handle # NoHandle /\ row.handle # NoHandle /\ Lower(row.handle) # Lower(base.handle)>>

MergeCreator(a, row, g, u) ==
    LET k == <<g, u>>
        base == IF k \in DOMAIN a.dommes THEN a.dommes[k]
                ELSE [handle |-> NoHandle, creator |-> 0, status |-> "active", hide |-> {}, secret |-> 0]
        conflicts == Conflicts(a, base, row, u)
        merged == Merged(base, row)
        counted == FoldLeft(LAMBDA b, c : IF c THEN Counted(b, "conflicts") ELSE b, a, conflicts)
    IN  [EnsureUser(counted, g, u, FALSE) EXCEPT
            !.dommes = Put(@, k, merged),
            !.userOfCreator = PutIf(row.creator # 0 /\ ~conflicts[1], @, row.creator, u),
            !.userOfHandle = PutIf(merged.handle # NoHandle, @, <<g, merged.handle.name>>, u)]

TakeCreator(a, row, args) ==
    LET g == GuildOf(row, args)
        owner == CreatorOwner(a, row, g)
        matched == MatchedOwner(a, row, g, owner)
        u == IF matched # 0 THEN matched ELSE owner
        b == IF matched # 0 THEN Counted(a, "matched_by_handle") ELSE a
        c == IF <<g, u>> \notin DOMAIN a.dommes THEN Counted(b, "without_event_domme") ELSE b
    IN  IF row.handle # NoHandle /\ row.handle.name \in args.excluded
        THEN Counted(a, "excluded_throne_creators")
        ELSE IF owner = 0 THEN Counted(a, "missing_user") ELSE MergeCreator(c, row, g, u)

\* Rows without an id come last; those with one id stay in their order.
SortedById(rows) ==
    LET Before(i, j) ==
            \/ rows[i].id # 0 /\ (rows[j].id = 0 \/ rows[i].id < rows[j].id)
            \/ rows[i].id = rows[j].id /\ i < j
        order == SetToSortSeq(DOMAIN rows, Before)
    IN  [i \in DOMAIN rows |-> rows[order[i]]]

\* event_subs: a sub without a name is given one of her id.
NameOf(row) == IF row.name # 0 THEN [is |-> "name", of |-> row.name] ELSE [is |-> "user", of |-> row.user]
TakeSub(a, row, args) ==
    LET g == GuildOf(row, args)
        k == <<g, row.user>>
    IN  IF row.user = 0 THEN a
        ELSE [EnsureUser(a, g, row.user, FALSE) EXCEPT
                !.subs = Put(@, k, NameOf(row)),
                !.subOrder = IF k \in DOMAIN a.subs THEN @ ELSE Append(@, k),
                !.subOfRow = PutIf(row.id # 0, @, <<g, row.id>>, row.user)]

\* rob_blacklist
TakeBlocked(a, row, args) == IF row.user = 0 THEN a ELSE EnsureUser(a, GuildOf(row, args), row.user, TRUE)

\* bot_config: every key is a bot setting, the second guild's under a key of its
\* own; the channel and role keys, count:<guild>:<field> and
\* inactivity:<guild>:<user>:<field> are shaped into their tables as well.
Counts == [channel_id |-> {}, current_number |-> {0}, last_user_id |-> {}, is_enabled |-> {0}, pending_restore |-> {0}]
Watched == [assigned_at |-> {}, remove_at |-> {}, initial_notice_sent |-> {0}, final_notice_sent |-> {0}]
Truth(value) == IF value \in {{}, {0}} THEN {0} ELSE {1}
Flags == {"is_enabled", "pending_restore", "initial_notice_sent", "final_notice_sent"}
Moments == {"assigned_at", "remove_at"}
FieldValue(row, now) ==
    IF row.key.field \in Flags THEN Truth(row.value)
    ELSE IF row.key.field \in Moments /\ row.value = {} THEN {now} ELSE row.value

SettingKey(a, row, g) ==
    LET plain == [key |-> row.key, scope |-> 0]
    IN  IF plain \in DOMAIN a.keys /\ a.keys[plain].guild # g THEN [plain EXCEPT !.scope = g] ELSE plain

WithField(f, k, initial, field, value) ==
    Put(f, k, [(IF k \in DOMAIN f THEN f[k] ELSE initial) EXCEPT ![field] = value])

TakeConfig(a, row, args) ==
    LET g == GuildOf(row, args)
        k == row.key
        b == [a EXCEPT !.keys = Put(@, SettingKey(a, row, g), [guild |-> g, value |-> row.value])]
        value == FieldValue(row, args.now)
    IN  CASE k.is = "setting" ->
                [b EXCEPT !.settings = Put(@, g, Put(IF g \in DOMAIN @ THEN @[g] ELSE << >>, k.field, row.value))]
          [] k.is = "count" -> [b EXCEPT !.count = WithField(@, k.guild, Counts, k.field, value)]
          [] k.is = "inactivity" ->
                [EnsureUser(b, k.guild, k.user, FALSE) EXCEPT
                    !.inactive = WithField(@, <<k.guild, k.user>>, Watched, k.field, value)]
          [] OTHER -> b

\* event_sends and, when accepted and not the same as a send taken before, the
\* send requests. Amounts, places and the day are what makes them the same.
Day(at) == at \div 86400
Signature(send) == <<send.guild, send.to, send.from, send.amount, Day(send.at)>>
Moment(at, args) == IF at = 0 THEN args.now ELSE at

WithSend(a, send) ==
    LET b == EnsureUser(a, send.guild, send.to, FALSE)
        c == IF send.from # 0 THEN EnsureUser(b, send.guild, send.from, FALSE) ELSE b
    IN  [c EXCEPT !.sends = Append(@, send), !.seen = @ \cup {Signature(send)}]

Receiver(a, row, g) ==
    IF row.to # 0 THEN row.to
    ELSE LET byRow == IF row.domme # 0 THEN Lookup(a.dommeOfRow, <<g, row.domme>>) ELSE 0
         IN  IF byRow # 0 THEN byRow
             ELSE IF row.creator # 0 THEN Lookup(a.userOfCreator, row.creator) ELSE 0
Sender(a, row, g) ==
    IF row.from # 0 THEN row.from
    ELSE IF row.sub # 0 THEN Lookup(a.subOfRow, <<g, row.sub>>) ELSE 0

TakeSend(a, row, args) ==
    LET g == GuildOf(row, args)
        to == Receiver(a, row, g)
    IN  IF to = 0 THEN Counted(a, "sends_missing_domme")
        ELSE WithSend(a, [guild |-> g, to |-> to, from |-> Sender(a, row, g), amount |-> row.amount,
                          event |-> row.event, hash |-> row.hash, test |-> row.tester,
                          at |-> Moment(row.at, args)])

\* A request's event is made from its id, 0 when it has none.
TakeRequest(a, row, args) ==
    LET g == GuildOf(row, args)
        accepted == Counted(a, "requests_accepted")
        users == EnsureUser(accepted, g, row.to, FALSE)
        both == IF row.from # 0 THEN EnsureUser(users, g, row.from, FALSE) ELSE users
        send == [guild |-> g, to |-> row.to, from |-> row.from, amount |-> row.amount,
                 event |-> [is |-> "request", of |-> row.id], hash |-> 0, test |-> FALSE,
                 at |-> Moment(row.at, args)]
    IN  IF row.status \notin {"accepted", "approved", "resolved"} THEN a
        ELSE IF row.to = 0 THEN Counted(accepted, "requests_missing_domme")
        ELSE IF Signature(send) \in a.seen THEN Counted(both, "requests_duplicate")
        ELSE Counted(WithSend(both, send), "requests_inserted")

\* event_messages
TakeMessage(a, row, args) ==
    [a EXCEPT !.boards = Append(@, [guild |-> GuildOf(row, args), key |-> row.key, message |-> row.message])]

BuildPayload(source, args) ==
    LET a1 == FoldLeft(LAMBDA a, r : TakeDomme(a, r, args), Nothing, source.dommes)
        a2 == FoldLeft(LAMBDA a, r : TakeCreator(a, r, args), a1, SortedById(source.creators))
        a3 == FoldLeft(LAMBDA a, r : TakeSub(a, r, args), a2, source.subs)
        a4 == FoldLeft(LAMBDA a, r : TakeBlocked(a, r, args), a3, source.blacklist)
        a5 == FoldLeft(LAMBDA a, r : TakeConfig(a, r, args), a4, source.config)
        a6 == FoldLeft(LAMBDA a, r : TakeSend(a, r, args), a5, source.sends)
        a7 == FoldLeft(LAMBDA a, r : TakeRequest(a, r, args), a6, source.requests)
    IN  FoldLeft(LAMBDA a, r : TakeMessage(a, r, args), a7, source.messages)

(***************************** Writing it *********************************)

Empty == [users |-> << >>, dommes |-> << >>, subs |-> << >>, keys |-> << >>, settings |-> << >>,
          count |-> << >>, inactive |-> << >>, sends |-> << >>, boards |-> << >>, dependents |-> {}]

\* ON CONFLICT DO UPDATE: a row of the payload replaces the table's. A domme's
\* columns without a value are kept; her status is not among them.
Upserted(table, rows) == [k \in DOMAIN table \cup DOMAIN rows |-> IF k \in DOMAIN rows THEN rows[k] ELSE table[k]]
Kept(new, none, old) == IF new = none THEN old ELSE new
UpsertedDommes(table, rows) ==
    LET Row(k) == [rows[k] EXCEPT !.handle = Kept(@, NoHandle, table[k].handle),
                                  !.creator = Kept(@, 0, table[k].creator),
                                  !.hide = Kept(@, {}, table[k].hide),
                                  !.secret = Kept(@, 0, table[k].secret)]
    IN  Upserted(table, [k \in DOMAIN rows |-> IF k \in DOMAIN table THEN Row(k) ELSE rows[k]])

\* A table being written, until a statement fails; that fails the transaction.
\* idx_subs_guild_send_name_lower is checked as each row is written.
Writing(table) == [ok |-> TRUE, table |-> table]
WriteSub(w, k, name) ==
    [ok |-> w.ok /\ \A other \in DOMAIN w.table \ {k} : other[1] = k[1] => w.table[other] # name,
     table |-> Put(w.table, k, name)]

\* ON CONFLICT (event_id) DO NOTHING covers idx_sends_event_id_unique and not
\* idx_sends_fallback_hash_unique, which is about the sends without an event.
NoEvent == [is |-> "none", of |-> 0]
WriteSend(w, send) ==
    LET stored == {w.table[i] : i \in DOMAIN w.table}
        known == send.event # NoEvent /\ \E s \in stored : s.event = send.event
        clash == send.event = NoEvent /\ send.hash # 0
                 /\ \E s \in stored : s.event = NoEvent /\ s.hash = send.hash
    IN  [ok |-> w.ok /\ ~clash, table |-> IF known THEN w.table ELSE Append(w.table, send)]

\* The columns of vib_settings are all written, those with no key as NULL;
\* a NULL for current_number is refused.
SettingFields == {"counting_channel_id", "domme_role_id"}
FullSettings(f) == [c \in SettingFields |-> IF c \in DOMAIN f THEN f[c] ELSE {}]

\* TRUNCATE ... CASCADE empties the tables with a key into those as well: send
\* names, recovery windows, change requests.
LinkedSends(payload) ==
    [i \in DOMAIN payload.sends |->
        payload.sends[i] @@ [domme |-> <<payload.sends[i].guild, payload.sends[i].to>> \in DOMAIN payload.dommes]]
WritePayload(target, payload, truncate) ==
    LET t == IF truncate THEN Empty ELSE target
        subs == FoldLeft(LAMBDA w, k : WriteSub(w, k, payload.subs[k]), Writing(t.subs), payload.subOrder)
        sends == FoldLeft(WriteSend, Writing(t.sends), LinkedSends(payload))
        counted == \A g \in DOMAIN payload.count : payload.count[g]["current_number"] # {}
        after == [users |-> Upserted(t.users, payload.users),
                  dommes |-> UpsertedDommes(t.dommes, payload.dommes), subs |-> subs.table,
                  keys |-> Upserted(t.keys, [key \in DOMAIN payload.keys |-> payload.keys[key].value]),
                  settings |-> Upserted(t.settings, [g \in DOMAIN payload.settings |-> FullSettings(payload.settings[g])]),
                  count |-> Upserted(t.count, payload.count),
                  inactive |-> Upserted(t.inactive, payload.inactive), sends |-> sends.table,
                  boards |-> FoldLeft(LAMBDA f, b : Put(f, <<b.guild, b.key>>, b.message), t.boards, payload.boards),
                  dependents |-> t.dependents]
        ok == subs.ok /\ sends.ok /\ counted
    IN  [ok |-> ok, target |-> IF ok THEN after ELSE target]

(***************************** The command ********************************)

ConfigGuilds(source) ==
    {source.config[i].key.guild : i \in {i \in DOMAIN source.config : source.config[i].key.is \in {"count", "inactivity"}}}
SourceGuilds(source) ==
    UNION {{source[table][i].guild : i \in DOMAIN source[table]} \ {0} : table \in DOMAIN source} \cup ConfigGuilds(source)
KeyGuilds(f) == {k[1] : k \in DOMAIN f}
TargetGuilds(t) ==
    DOMAIN t.settings \cup DOMAIN t.count \cup {t.sends[i].guild : i \in DOMAIN t.sends}
    \cup UNION {KeyGuilds(t[table]) : table \in {"users", "dommes", "subs", "inactive", "boards"}}

\* The guild of the rows that name none: as told, the only one of the source, or
\* the only one of the target when the source names none. {} is an error.
DefaultGuild(source, target, told) ==
    IF told # 0 THEN {told}
    ELSE LET found == SourceGuilds(source)
             candidates == IF found # {} THEN found ELSE TargetGuilds(target)
         IN  IF Cardinality(candidates) = 1 THEN candidates ELSE {}

MayTruncate(options) ==
    options.truncate => options.confirm /\ (options.prod => options.allowProd)

Main(source, target, options) ==
    LET guild == DefaultGuild(source, target, options.guild)
        payload == BuildPayload(source, [guild |-> CHOOSE g \in guild : TRUE,
                                         excluded |-> options.excluded, now |-> options.now])
        written == WritePayload(target, payload, options.truncate)
        report == [sends |-> Len(payload.sends), counts |-> payload.report]
    IN  IF guild = {} \/ ~MayTruncate(options) THEN [outcome |-> "refused", target |-> target]
        ELSE IF options.dryRun \/ options.inspectOnly
        THEN [outcome |-> "reported", target |-> target, report |-> report]
        ELSE IF written.ok
        THEN [outcome |-> "written", target |-> written.target, report |-> report]
        ELSE [outcome |-> "failed", target |-> target]

=============================================================================
