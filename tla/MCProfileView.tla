--------------------------- MODULE MCProfileView ---------------------------
(***************************************************************************)
(* Laws of ProfileView, evaluated by TLC: a global document with up to     *)
(* three links, an overlay with up to two and with any overrides and hidden*)
(* links of it, and deliveries to two registrations and two owners.        *)
(***************************************************************************)
EXTENDS Naturals, Sequences, FiniteSets
LOCAL INSTANCE ProfileView

GlobalLinks == {[id |-> 1, type |-> "social", order |-> 1, enabled |-> TRUE],
                [id |-> 2, type |-> "payment", order |-> 2, enabled |-> TRUE],
                [id |-> 3, type |-> "payment", order |-> 1, enabled |-> FALSE]}
LocalLinks == {[id |-> 4, type |-> "payment", order |-> 1, enabled |-> TRUE],
               [id |-> 5, type |-> "social", order |-> 2, enabled |-> TRUE]}
GlobalDocuments ==
    {[owner |-> 1, orientation |-> "domme", creator |-> c, preferred |-> p, links |-> links,
      fields |-> [f \in Fields |-> TRUE], overridden |-> {}, hidden |-> {}] :
        c \in {0, 7}, p \in {0, 2, 3}, links \in SUBSET GlobalLinks}
OverlayDocuments ==
    {[owner |-> 1, orientation |-> "none", creator |-> 0, preferred |-> p, links |-> links,
      fields |-> [f \in Fields |-> FALSE], overridden |-> fs, hidden |-> hidden] :
        p \in {0, 2, 4}, links \in SUBSET LocalLinks,
        fs \in {{}, {"aliases"}, {"bio", "public_send_stats"}}, hidden \in SUBSET {1, 2}}
LinksShown(p) == {p.links[i] : i \in DOMAIN p.links}
NewId == [id \in 1..9 |-> id + 10]

\* A profile prefers a payment link that it shows, and one whenever it shows any:
\* whatever a member chose, hid, disabled or left dangling.
ASSUME PreferredIsShown ==
    \A d \in GlobalDocuments, o \in OverlayDocuments :
        \A p \in {Complete(d), Overlay(d, o)} :
            LET payments == {l.id : l \in {m \in LinksShown(p) : m.type = "payment"}}
            IN  IF payments = {} THEN p.preferred = 0 ELSE p.preferred \in payments

\* An overlay shows its own links and the enabled ones that it does not hide, each
\* once and in order, and as many as were counted when its links were saved.
ASSUME HiddenIsNotShown ==
    \A d \in GlobalDocuments, o \in OverlayDocuments :
        LET p == Overlay(d, o)
        IN  /\ {l.id : l \in LinksShown(p)} \cap o.hidden = {}
            /\ Enabled(o) \subseteq LinksShown(p)
            /\ Len(p.links) = VisibleCount(d, o)
            /\ \A i \in 1..(Len(p.links) - 1) : p.links[i].order <= p.links[i + 1].order

\* An overlay that says nothing shows the global profile, and none ever shows
\* another orientation or Throne connection than that.
ASSUME OverlaysInherit ==
    \A d \in GlobalDocuments, o \in OverlayDocuments :
        LET p == Overlay(d, o)
        IN  /\ p.orientation = d.orientation /\ p.throne = (d.creator # 0)
            /\ \A f \in Fields : p.fields[f] = (f \notin o.overridden)
            /\ (o.links = {} /\ o.overridden = {} /\ o.hidden = {} /\ o.preferred = 0)
                   => p = Complete(d)

\* Beginning a draft changes nothing that a viewer sees of the document itself.
ASSUME CloneShowsTheSame ==
    \A d \in GlobalDocuments :
        LET p == Complete(d)
            q == Complete(Cloned(d, NewId))
        IN  /\ Len(q.links) = Len(p.links) /\ q.fields = p.fields
            /\ \A i \in DOMAIN p.links : q.links[i] = [p.links[i] EXCEPT !.id = NewId[@]]
            /\ q.preferred = IF p.preferred = 0 THEN 0 ELSE NewId[p.preferred]

\* The global profile published again has links of other ids: what an overlay hid
\* is shown again, although an overlay is to hide inherited links
\* (docs/profiles.md:13), and there may be more links than were counted.
ASSUME HidingIsForgotten ==
    \A d \in GlobalDocuments, o \in OverlayDocuments :
        LET again == Overlay(Cloned(d, NewId), o)
        IN  \A l \in Enabled(d) : NewId[l.id] \in {m.id : m \in LinksShown(again)}

-----------------------------------------------------------------------------
AliasIndexes == [{"a", "b"} -> SUBSET {1, 2}]
SenderNames == SUBSET {"a", "b", "c"}

\* Nobody is credited in doubt: an alias that another owner takes can lose someone
\* the credit and never move it, and names that nobody has change nothing.
ASSUME SenderIsUnambiguous ==
    \A index \in AliasIndexes, names \in SenderNames, n \in {"a", "b"}, o \in {1, 2} :
        LET before == Sender(index, names)
            after == Sender([index EXCEPT ![n] = @ \cup {o}], names)
        IN  /\ before # 0 => after \in {0, before}
            /\ Sender(index, names \ {"c"}) = before

EventTypes == {"send", "test", "unknown"}
EventOf(id, type, names) ==
    [id |-> id, creator |-> 7, type |-> type, names |-> names, currency |-> "USD", amount |-> 1]
RegistrationSets ==
    SUBSET {[id |-> i, guild |-> i, creator |-> c, active |-> a] :
                i \in {1, 2}, c \in {7, 8}, a \in BOOLEAN}
EmptyTables(registrations) ==
    [registrations |-> registrations, verified |-> {}, events |-> {}, sends |-> {}]
SameIndex(index) == [g \in {1, 2} |-> index]

\* A delivery that Throne repeats, in another order or after the registrations or
\* the aliases have changed, writes what its first arrival wrote.
ASSUME RepeatedOnce ==
    \A rs, rs2 \in {s \in RegistrationSets : Cardinality(s) <= 2}, type \in EventTypes :
        LET index == SameIndex([n \in {"a", "b"} |-> {1}])
            other == SameIndex([n \in {"a", "b"} |-> {2}])
            e == EventOf(1, type, {"a"})
            first == Delivered(EmptyTables(rs), index, e)
            between == Delivered([first EXCEPT !.registrations = rs2], other, EventOf(2, "send", {}))
            again == Delivered(between, other, e)
        IN  again.sends = between.sends /\ again.events = between.events

\* Every active registration of the creator gets one send of an event, and nothing
\* else does; tests and unknown types make none.
ASSUME EveryGuildOnce ==
    \A rs \in RegistrationSets, type \in EventTypes, names \in SenderNames :
        LET db == Delivered(EmptyTables(rs), SameIndex([n \in {"a", "b"} |-> {1}]),
                            EventOf(1, type, names))
            due == IF type # "send" THEN {} ELSE {r \in rs : r.creator = 7 /\ r.active}
        IN  /\ {s.registration : s \in db.sends} = {r.id : r \in due}
            /\ Cardinality(db.sends) <= Cardinality(due)
            /\ db.verified = IF type = "unknown" THEN {} ELSE {7}

\* The totals that a profile shows are of the sends credited to its owner, and
\* there are none unless it says so.
ASSUME StatsAreOfTheOwner ==
    \A d \in GlobalDocuments, o \in OverlayDocuments :
        LET sends == {[id |-> 1, guild |-> 1, sender |-> 1, currency |-> "USD", amount |-> 2],
                      [id |-> 2, guild |-> 1, sender |-> 2, currency |-> "USD", amount |-> 4],
                      [id |-> 3, guild |-> 2, sender |-> 1, currency |-> "EUR", amount |-> 8]}
            profiles == Viewed(FALSE, {d}, {[mode |-> "linked", document |-> o]})
        IN  \A p \in profiles :
                SendStats(sends, 1, p) =
                    IF "public_send_stats" \in o.overridden THEN {}
                    ELSE {[currency |-> "USD", count |-> 1, total |-> 2]}

=============================================================================
