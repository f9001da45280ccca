---------------------------- MODULE MCStandings ----------------------------
(***************************************************************************)
(* What the queries of Standings owe each other, evaluated by TLC over     *)
(* bounded tables: three dommes, two subs, one or three sends of a guild.  *)
(* Users are 1..4, names 5..7: 5 the handle of a domme, 6 a test sender    *)
(* and 7 the mention of user 3.                                            *)
(***************************************************************************)
EXTENDS Naturals, Sequences, FiniteSets, FiniteSetsExt
LOCAL INSTANCE Standings

GuildHere == 1
GuildElsewhere == 2
Domme1 == [id |-> 1, guild |-> GuildHere, user |-> 1, handle |-> 5]
Domme2 == [id |-> 2, guild |-> GuildHere, user |-> 2, handle |-> 0]
Domme3 == [id |-> 3, guild |-> GuildElsewhere, user |-> 2, handle |-> 0]
Sub3 == [id |-> 1, guild |-> GuildHere, user |-> 3, name |-> 5]
Sub4 == [id |-> 2, guild |-> GuildHere, user |-> 4, name |-> 6]
MentionOf == [n \in {7} |-> 3]

LiveView == [tests |-> FALSE, names |-> {6}, owner |-> 0]
BareView == [tests |-> FALSE, names |-> {}, owner |-> 0]
AllViews == [tests: BOOLEAN, names: {{}, {6}}, owner: {0, 1}]

\* From whom to whom: the row and user of the domme, the row and user of the sub.
ReceiverKeys == {<<1, 1>>, <<1, 2>>, <<0, 2>>, <<0, 4>>, <<3, 2>>}
SenderKeys == {<<1, 3, 5>>, <<0, 4, 0>>, <<0, 0, 6>>, <<0, 0, 7>>}

SendRow(i, a, c, f, d, b) ==
    [id |-> i, guild |-> GuildHere, amount |-> a, currency |-> c,
     posted |-> f[1], private |-> f[2], test |-> f[3],
     domme |-> d[1], to |-> d[2], sub |-> b[1], from |-> b[2], name |-> b[3], at |-> 1]

\* One send of any kind, and three that were posted.
SingleTables ==
    {[sends |-> {SendRow(1, 1, "USD", f, d, b)}, dommes |-> ds, subs |-> {Sub3, Sub4}] :
        f \in BOOLEAN \X BOOLEAN \X BOOLEAN, d \in ReceiverKeys, b \in SenderKeys,
        ds \in {{Domme1, Domme2, Domme3}, {Domme1, Domme3}, {Domme3}}}
PostedRows(i) == {SendRow(i, a, c, <<TRUE, FALSE, FALSE>>, d, b) :
                a \in {1, 2}, c \in {"USD"} \cup (IF i = 1 THEN {"XYZ"} ELSE {}),
                d \in {<<1, 1>>, <<0, 2>>, <<2, 2>>, <<0, 4>>},
                b \in {<<1, 3, 5>>, <<0, 4, 0>>, <<0, 0, 7>>}}
PairRows(i) == {SendRow(i, 1, "USD", <<TRUE, FALSE, FALSE>>, d, b) :
                  d \in {<<1, 1>>, <<0, 2>>}, b \in {<<1, 3, 5>>, <<0, 3, 0>>}}
ThirdRows == {SendRow(3, 2, "USD", <<TRUE, FALSE, FALSE>>, <<2, 2>>, b) :
                b \in {<<1, 3, 5>>, <<0, 0, 7>>}}
SeveralTables ==
    {[sends |-> rows, dommes |-> {Domme1, Domme2, Domme3}, subs |-> {Sub3, Sub4}] :
        rows \in {{x, y} : x \in PostedRows(1), y \in PostedRows(2)}
                 \cup {{x, y, z} : x \in PairRows(1), y \in PairRows(2), z \in ThirdRows}}
AllTables == SingleTables \cup SeveralTables

DommeUsers(t) == {d.user : d \in {d \in t.dommes : d.guild = GuildHere}}
BoardOf(t, v) == TopDommes(t, GuildHere, v, 10)

\* The personal figures are those of the board, the rank is the place on it, the
\* first leads, and the public board has the same order.
ASSUME StatsMatchBoard ==
    \A t \in AllTables :
        LET board == BoardOf(t, LiveView)
            public == TopDommesPublic(t, GuildHere, LiveView, 10)
        IN  /\ Len(board) = Cardinality(DommeUsers(t))
            /\ \A i \in DOMAIN board :
                /\ [total |-> board[i].total, sends |-> board[i].sends]
                        = DommeStats(t, GuildHere, LiveView, board[i].user)
                /\ DommeRank(t, GuildHere, LiveView, board[i].user) = {i}
                /\ public[i].user = board[i].user /\ public[i].total = board[i].total
            /\ CurrentLeader(t, GuildHere, LiveView) = First(board)

\* The total of the summary is that of the board and what went to users without
\* a row; it adds the cents of different currencies, which the public site does not.
ASSUME BoardAddsUp ==
    \A t \in AllTables :
        LET summary == Summary(t, GuildHere, LiveView)
            strangers == {s \in Counted(t, GuildHere, LiveView) : Recipient(t, s) \notin DommeUsers(t)}
            board == {Entry(u, Received(t, GuildHere, LiveView, u)) : u \in DommeUsers(t)}
        IN  /\ summary.all.total = MapThenSumSet(LAMBDA e : e.total, board) + Total(strangers)
            /\ summary.all.total
                   = MapThenSumSet(LAMBDA e : e.amount, Totals(Counted(t, GuildHere, LiveView)))
            /\ (LeaderShown(t, GuildHere, LiveView) = {}) =
                   (Counted(t, GuildHere, LiveView) \ strangers = {})

\* A sub is on the board of subs with the figures of the statistics, unless some
\* of their sends were recorded for a mention and refer to no row: those are in
\* the statistics and in the summary and not on the board.
ASSUME SubsAgree ==
    \A t \in AllTables :
        LET board == TopSubs(t, GuildHere, LiveView, 10)
        IN  \A u \in {s.from : s \in t.sends} \ {0} :
                (\A s \in Sent(t, GuildHere, LiveView, u) : s.sub # 0) =>
                    \/ Sent(t, GuildHere, LiveView, u) = {}
                    \/ \E i \in DOMAIN board :
                        /\ board[i].user = u
                        /\ [total |-> board[i].total, sends |-> board[i].sends]
                               = SubStats(t, GuildHere, LiveView, u)

\* The counted sends and the first three reasons divide the sends of a guild; the
\* fourth names sends that are counted, so that excluded says more than is missing.
ASSUME DiagnosisDivides ==
    \A t \in SingleTables, v \in AllViews :
        LET d == Diagnosis(t, GuildHere, v)
            parts == <<d.counted, d.reasons.notPosted, d.reasons.private, d.reasons.test>>
        IN  /\ UNION {parts[i] : i \in 1..4} = t.sends
            /\ \A i, j \in 1..4 : i # j => parts[i] \cap parts[j] = {}
            /\ d.reasons.mismatch \subseteq d.counted \cup d.reasons.test

\* The site counts what the board counts once known test senders are marked, and
\* before that if no test sender is named.
ASSUME PublicMatchesBoard ==
    \A t \in AllTables :
        /\ PublicCounted(t, GuildHere) = Counted(t, GuildHere, BareView)
        /\ LET marked == MarkKnownTests(t, LiveView.names)
           IN  PublicCounted(marked, GuildHere) = Counted(marked, GuildHere, LiveView)

\* Where sends refer to rows, the receivers of the site have the figures of the board.
ASSUME ReceiversMatchBoard ==
    \A t \in SeveralTables :
        (\A s \in t.sends : s.domme # 0 /\ s.currency = "USD") =>
            \A r \in GuildSummary(t, GuildHere).receivers :
                \E d \in r.row : DommeStats(t, GuildHere, BareView, d.user)
                                    = [total |-> r.amount, sends |-> r.count]

\* The wind-down takes the senders from the sends and leaves the board of dommes,
\* if the dommes are told by rows and the tests by marks.
ASSUME AnonymisedTotalsStand ==
    \A t \in AllTables :
        LET after == Anonymised(t, GuildHere)
            told(s) == /\ \E d \in t.dommes : d.id = s.domme /\ d.guild = s.guild
                       /\ s.name \in LiveView.names => s.test
        IN  (\A s \in t.sends : told(s)) =>
                /\ BoardOf(after, LiveView) = BoardOf(t, LiveView)
                /\ TopSubs(after, GuildHere, LiveView, 10) = << >>

\* A repair changes no figure of the board, and once is enough; after it the
\* keepsake of a domme holds the sends of the statistics.
ASSUME RepairsConverge ==
    \A t \in AllTables :
        LET once == RepairRecipients(t, GuildHere)
        IN  /\ RepairRecipients(once, GuildHere) = once
            /\ BoardOf(once, LiveView) = BoardOf(t, LiveView)
            /\ \A u \in DommeUsers(t) :
                {s \in KeepsakeSends(once, GuildHere, u) : s.from # u} =
                    {s \in Received(once, GuildHere, BareView, u) : s.from # u}

\* Linking a mention takes no send from anyone and changes no domme's figures.
ASSUME MentionsAreLinked ==
    \A t \in AllTables :
        LET once == RepairMentions(t, MentionOf)
        IN  /\ RepairMentions(once, MentionOf) = once
            /\ BoardOf(once, BareView) = BoardOf(t, BareView)
            /\ \A u \in 1..4 :
                   Sent(t, GuildHere, BareView, u) \subseteq Sent(once, GuildHere, BareView, u)
            /\ Sent(once, GuildHere, BareView, 0) = {s \in Sent(t, GuildHere, BareView, 0) : s.name # 7}

\* The parts of a member's statistics follow the roles; the latest send and the
\* partner of each part are among the sends it counts.
ASSUME PersonalIsCounted ==
    \A t \in AllTables, u \in 1..4 :
        LET p == PersonalStats(t, GuildHere, LiveView, [user |-> u, domme |-> TRUE, sub |-> TRUE])
        IN  /\ \A d \in p.domme :
                /\ (d.figures.sends = 0) = (d.latest = {})
                /\ \A s \in d.latest : Recipient(t, s) = u
                /\ (d.rank = {}) = (u \notin DommeUsers(t))
                /\ d.topSub \subseteq {s.from : s \in Received(t, GuildHere, LiveView, u)}
            /\ \A b \in p.sub :
                /\ (b.figures.sends = 0) = (b.topDomme = {})
                /\ b.topDomme \subseteq {Recipient(t, s) : s \in Sent(t, GuildHere, LiveView, u)}

\* A name finds what it sent and what its domme received, and nothing private.
ASSUME PublicSendsAreCounted ==
    \A t \in AllTables, n \in 5..7 :
        \A s \in PublicSends(t, GuildHere, n) :
            /\ s \in Counted(t, GuildHere, BareView)
            /\ s.name = n \/ DommeLabel(t, s) = n

\* What the site answers of a name is all there or nothing, by currency and in sum.
ASSUME PublicAnswersAddUp ==
    \A t \in AllTables, n \in 5..7 :
        \A a \in PublicAnswer(t, GuildHere, n) :
            /\ a.count = Len(a.all)
            /\ a.count = MapThenSumSet(LAMBDA e : e.count, a.totals)
            /\ \A i \in DOMAIN a.recent : a.recent[i] = a.all[i]
            /\ a.isDomme \/ \E i \in DOMAIN a.all : a.all[i].name = n

=============================================================================
