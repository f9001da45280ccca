------------------------------- MODULE Standings -------------------------------
(***************************************************************************)
(* The figures of a guild as its queries compute them: the leaderboard     *)
(* and its diagnosis, the personal statistics of /leaderboard, the public  *)
(* site, the keepsake, and the repairs of table sends that they depend on  *)
(* (repositories/leaderboards.py, public_sends.py, public_summary.py,      *)
(* sends.py).  LeaderboardRefresh takes these figures as one value each.   *)
(*                                                                         *)
(* Every operator is a function of the tables t, a record                  *)
(*   sends : [id, guild, amount, currency, posted, private, test, name,    *)
(*            domme, to, sub, from, at], to and from being the columns     *)
(*            domme_user_id and sub_user_id, domme and sub those of rows   *)
(*   dommes: [id, guild, user, handle],  subs: [id, guild, user, name]     *)
(* and 0 is NULL.  A view v is how a caller asks: whether test sends are   *)
(* in, the names of test senders, the one user whose test sends count.     *)
(***************************************************************************)
EXTENDS Naturals, Sequences, FiniteSets, FiniteSetsExt, SequencesExt

Testing(v, s) == s.test \/ s.name \in v.names

Counted(t, g, v) ==
    {s \in t.sends :
        /\ s.guild = g /\ s.posted /\ ~s.private
        /\ v.tests \/ ~Testing(v, s) \/ (v.owner # 0 /\ s.to = v.owner)}

\* The user of the row a send refers to, or the one noted with the send.
Recipient(t, s) ==
    IF \E d \in t.dommes : d.id = s.domme /\ d.guild = s.guild
      THEN (CHOOSE d \in t.dommes : d.id = s.domme).user
      ELSE s.to

Total(S) == MapThenSumSet(LAMBDA s : s.amount, S)
Figures(S) == [total |-> Total(S), sends |-> Cardinality(S)]
Entry(u, S) == [user |-> u, total |-> Total(S), sends |-> Cardinality(S)]

\* ORDER BY total DESC, sends DESC, user
Ahead(a, b) ==
    \/ a.total > b.total
    \/ a.total = b.total /\ a.sends > b.sends
    \/ a.total = b.total /\ a.sends = b.sends /\ a.user < b.user
Ranked(entries, limit) ==
    LET all == SetToSortSeq(entries, Ahead)
    IN  SubSeq(all, 1, IF limit < Len(all) THEN limit ELSE Len(all))

Later(a, b) == a.at > b.at \/ (a.at = b.at /\ a.id > b.id)
Latest(S) == IF S = {} THEN {} ELSE {Head(SetToSortSeq(S, Later))}
First(seq) == IF seq = << >> THEN {} ELSE {Head(seq)}

Received(t, g, v, u) == {s \in Counted(t, g, v) : Recipient(t, s) = u}
Sent(t, g, v, u) == {s \in Counted(t, g, v) : s.from = u}

-----------------------------------------------------------------------------
(***************************************************************************)
(* The leaderboard.                                                        *)
(***************************************************************************)
Summary(t, g, v) ==
    LET counted == Counted(t, g, v)
        unclaimed == {s \in counted : s.from = 0}
    IN  [all |-> Figures(counted), unclaimed |-> Figures(unclaimed),
         dommes |-> Cardinality({d \in t.dommes : d.guild = g}),
         subs |-> Cardinality({s.from : s \in counted \ unclaimed})]

\* Dommes are there from their registration, with no send as well.
TopDommes(t, g, v, limit) ==
    Ranked({Entry(d.user, Received(t, g, v, d.user)) : d \in {d \in t.dommes : d.guild = g}},
           limit)

CurrentLeader(t, g, v) == First(TopDommes(t, g, v, 1))

\* Nobody leads before the first send.
LeaderShown(t, g, v) == {e \in CurrentLeader(t, g, v) : e.total > 0 \/ e.sends > 0}

\* The same with public labels: the handle for the user, 0 where there is none.
TopDommesPublic(t, g, v, limit) ==
    LET entries == {[user |-> d.user, label |-> d.handle,
                     total |-> Total(Received(t, g, v, d.user)),
                     sends |-> Cardinality(Received(t, g, v, d.user))] :
                        d \in {d \in t.dommes : d.guild = g}}
    IN  Ranked(entries, limit)

Freshness(t, g, v) == {s.at : s \in Latest(Counted(t, g, v))}

\* Only sends that refer to a row of subs.
TopSubs(t, g, v, limit) ==
    LET linked == {s \in Counted(t, g, v) : s.from # 0 /\ \E b \in t.subs : b.id = s.sub}
    IN  Ranked({Entry(u, {s \in linked : s.from = u}) : u \in {s.from : s \in linked}}, limit)

-----------------------------------------------------------------------------
(***************************************************************************)
(* Personal statistics.                                                    *)
(***************************************************************************)
DommeStats(t, g, v, u) == Figures(Received(t, g, v, u))

\* DENSE_RANK over an order without ties; nothing for who is not registered.
DommeRank(t, g, v, u) ==
    LET board == TopDommes(t, g, v, Cardinality(t.dommes))
    IN  {i \in DOMAIN board : board[i].user = u}

DommeLatest(t, g, v, u) == Latest(Received(t, g, v, u))

\* GROUP BY user and name: who sent under two names counts as two.
DommeTopSub(t, g, v, u) ==
    LET mine == Received(t, g, v, u)
        groups == {[user |-> s.from, name |-> s.name] : s \in mine}
        entry(h) == LET S == {s \in mine : s.from = h.user /\ s.name = h.name}
                    IN  [user |-> h.user, name |-> h.name, total |-> Total(S),
                         sends |-> Cardinality(S)]
        before(a, b) == \/ Ahead(a, b)
                        \/ a.total = b.total /\ a.sends = b.sends /\ a.user = b.user /\ a.name < b.name
    IN  First(SetToSortSeq({entry(h) : h \in groups}, before))

SubStats(t, g, v, u) == Figures(Sent(t, g, v, u))
SubLatest(t, g, v, u) == Latest(Sent(t, g, v, u))
SubTopDomme(t, g, v, u) ==
    LET mine == Sent(t, g, v, u)
        to(w) == {s \in mine : Recipient(t, s) = w}
    IN  First(Ranked({Entry(w, to(w)) : w \in {Recipient(t, s) : s \in mine}}, 1))

\* /leaderboard: what is shown follows the roles of the member, not the tables.
PersonalStats(t, g, v, member) ==
    [domme |-> IF member.domme
                 THEN {[figures |-> DommeStats(t, g, v, member.user),
                        rank |-> DommeRank(t, g, v, member.user),
                        latest |-> DommeLatest(t, g, v, member.user),
                        topSub |-> {e.user : e \in DommeTopSub(t, g, v, member.user)} \ {0}]}
                 ELSE {},
     sub |-> IF member.sub
               THEN {[figures |-> SubStats(t, g, v, member.user),
                      latest |-> SubLatest(t, g, v, member.user),
                      topDomme |-> {e.user : e \in SubTopDomme(t, g, v, member.user)}]}
               ELSE {}]

-----------------------------------------------------------------------------
(***************************************************************************)
(* Diagnosis.                                                              *)
(***************************************************************************)
Unmatched(t, s) ==
    /\ ~\E d \in t.dommes : d.id = s.domme /\ d.guild = s.guild
    /\ ~\E d \in t.dommes : d.user = s.to /\ d.guild = s.guild

Diagnosis(t, g, v) ==
    LET here == {s \in t.sends : s.guild = g}
        public == {s \in here : s.posted /\ ~s.private}
        reasons == [notPosted |-> {s \in here : ~s.posted},
                    private |-> {s \in here : s.posted /\ s.private},
                    test |-> IF v.tests THEN {}
                             ELSE {s \in public : Testing(v, s) /\ (v.owner = 0 \/ s.to # v.owner)},
                    mismatch |-> {s \in public : Unmatched(t, s)}]
    IN  [counted |-> Counted(t, g, v), reasons |-> reasons,
         elsewhere |-> {s \in here : \E d \in t.dommes : d.user = s.to /\ d.guild # g},
         unmatched |-> {s \in here : Unmatched(t, s)},
         excluded |-> Cardinality(reasons.notPosted) + Cardinality(reasons.private)
                      + Cardinality(reasons.test) + Cardinality(reasons.mismatch)]

-----------------------------------------------------------------------------
(***************************************************************************)
(* The public site and the keepsake, which filter by the test mark alone.  *)
(***************************************************************************)
PublicCounted(t, g) == {s \in t.sends : s.guild = g /\ s.posted /\ ~s.private /\ ~s.test}

\* The label of the row a send refers to; 0 is "Registered Dom/me".
DommeLabel(t, s) ==
    LET row == {d \in t.dommes : d.id = s.domme /\ d.guild = s.guild}
    IN  IF row = {} THEN 0 ELSE (CHOOSE d \in row : TRUE).handle

\* /public/sends: what a name sent and what the dommes of that handle received.
PublicSends(t, g, name) ==
    {s \in PublicCounted(t, g) :
        \/ s.name = name
        \/ \E d \in t.dommes : d.id = s.domme /\ d.guild = g /\ d.handle = name}

\* One total per currency.
Totals(S) ==
    {[currency |-> c, amount |-> Total({s \in S : s.currency = c}),
      count |-> Cardinality({s \in S : s.currency = c})] : c \in {s.currency : s \in S}}

\* /public/guild-summary, without the limit of ten.
TopReceivers(t, g) ==
    LET counted == PublicCounted(t, g)
        row(s) == {d \in t.dommes : d.id = s.domme /\ d.guild = g}
        mine(s) == {r \in counted : row(r) = row(s) /\ r.currency = s.currency}
    IN  {[row |-> row(s), label |-> DommeLabel(t, s), currency |-> s.currency,
          amount |-> Total(mine(s)), count |-> Cardinality(mine(s))] : s \in counted}

GuildSummary(t, g) ==
    LET totals == Totals(PublicCounted(t, g))
    IN  [totals |-> totals, count |-> MapThenSumSet(LAMBDA e : e.count, totals),
         receivers |-> TopReceivers(t, g)]

\* handle_public_sends: nothing for a name without counted sends; the label is that
\* of a domme with the handle, whether or not it is also the name of a sub.
PublicAnswer(t, g, name) ==
    LET rows == PublicSends(t, g, name)
        newest == SetToSortSeq(rows, Later)
    IN  IF rows = {} THEN {}
        ELSE {[all |-> newest, recent |-> SubSeq(newest, 1, IF Len(newest) < 5 THEN Len(newest) ELSE 5),
               totals |-> Totals(rows), count |-> Cardinality(rows),
               isDomme |-> \E d \in t.dommes : d.guild = g /\ d.handle = name]}

KeepsakeSends(t, g, u) == {s \in PublicCounted(t, g) : s.to = u \/ s.from = u}

-----------------------------------------------------------------------------
(***************************************************************************)
(* Repairs of table sends.                                                 *)
(***************************************************************************)
\* domme_user_id follows the row the send refers to.
RepairRecipients(t, g) ==
    [t EXCEPT !.sends = {IF s.guild = g THEN [s EXCEPT !.to = Recipient(t, s)] ELSE s : s \in @}]

\* A name that is a mention stands for a user; mention is the user of each such
\* name.  The send is linked to the row of that user, or to the user alone.
RepairMentions(t, mention) ==
    LET row(s) == {b \in t.subs : b.guild = s.guild /\ b.user = mention[s.name]}
        linked(s) == IF row(s) = {} THEN [s EXCEPT !.from = mention[s.name], !.sub = 0, !.name = 0]
                     ELSE LET b == CHOOSE b \in row(s) : TRUE
                          IN  [s EXCEPT !.from = b.user, !.sub = b.id, !.name = b.name]
    IN  [t EXCEPT !.sends =
            {IF s.from = 0 /\ s.name \in DOMAIN mention THEN linked(s) ELSE s : s \in @}]

MarkKnownTests(t, names) ==
    [t EXCEPT !.sends = {IF s.name \in names THEN [s EXCEPT !.test = TRUE] ELSE s : s \in @}]

\* The last phase of the wind-down: amounts, dates and rows of dommes stay.
Anonymised(t, g) ==
    [t EXCEPT !.sends = {IF s.guild = g THEN [s EXCEPT !.name = 0, !.from = 0, !.sub = 0, !.to = 0]
                         ELSE s : s \in @}]

=============================================================================
