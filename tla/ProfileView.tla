---------------------------- MODULE ProfileView ----------------------------
(***************************************************************************)
(* What the Worker makes of published documents: the profile that a viewer *)
(* in a guild gets (worker/src/profile/resolver.ts), the sender whom a     *)
(* gift is credited to (aliasAttribution.ts), and what a delivery from     *)
(* Throne writes (routes/webhookThrone.ts).  ProfileRoots has the creator  *)
(* and one alias of each document; here is the rest.                       *)
(*                                                                         *)
(* A document is a record                                                  *)
(*   [owner, orientation, creator, preferred, fields, links,               *)
(*    overridden, hidden]                                                  *)
(* with the overridable fields as a function, links as a set of            *)
(*   [id, type, order, enabled]                                            *)
(* and 0 for NULL; overridden and hidden are empty except in the overlay   *)
(* of a linked server profile.                                             *)
(***************************************************************************)
EXTENDS Naturals, Sequences, FiniteSets, FiniteSetsExt, SequencesExt

Fields == {"aliases", "bio", "dm_status", "honourifics", "pronouns",
           "public_send_stats", "submissive_labels"}

Enabled(doc) == {l \in doc.links : l.enabled}
Before(a, b) == a.order < b.order \/ (a.order = b.order /\ a.id < b.id)
InOrder(links) == SetToSortSeq(links, Before)

\* The choice of the document if it is shown, or else the first payment link.
PreferredPayment(links, preferred) ==
    LET payments == SelectSeq(links, LAMBDA l : l.type = "payment")
    IN  IF \E i \in DOMAIN payments : payments[i].id = preferred THEN preferred
        ELSE IF payments = << >> THEN 0 ELSE payments[1].id

\* A global document or that of an independent server profile.
Complete(doc) ==
    LET links == InOrder(Enabled(doc))
    IN  [owner |-> doc.owner, orientation |-> doc.orientation, fields |-> doc.fields,
         links |-> links, preferred |-> PreferredPayment(links, doc.preferred),
         throne |-> doc.creator # 0]

\* The overlay of a linked one: only what it overrides is its own; orientation
\* and creator never are, links are added to those it does not hide.
Overlay(global, own) ==
    LET inherited == {l \in Enabled(global) : l.id \notin own.hidden}
        links == InOrder(inherited \cup Enabled(own))
        preferred == IF own.preferred # 0 THEN own.preferred ELSE global.preferred
    IN  [owner |-> global.owner, orientation |-> global.orientation,
         fields |-> [f \in Fields |-> IF f \in own.overridden THEN own.fields[f] ELSE global.fields[f]],
         links |-> links, preferred |-> PreferredPayment(links, preferred),
         throne |-> global.creator # 0]

\* root: [mode, document] of a server profile.  Each is a set of at most one.
Viewed(isHome, global, root) ==
    IF isHome THEN {Complete(d) : d \in global}
    ELSE UNION {IF s.mode = "independent" THEN {Complete(s.document)}
                ELSE {Overlay(d, s.document) : d \in global} : s \in root}

\* The sends of a guild that were credited to the owner, if the profile shows them.
SendStats(sends, guild, profile) ==
    LET mine == {s \in sends : s.guild = guild /\ s.sender = profile.owner}
    IN  IF ~profile.fields["public_send_stats"] THEN {}
        ELSE {[currency |-> c, count |-> Cardinality({s \in mine : s.currency = c}),
               total |-> MapThenSumSet(LAMBDA s : s.amount, {s \in mine : s.currency = c})] :
                    c \in {s.currency : s \in mine}}

\* cloneSnapshotForDraft: a draft of a published profile begins with its links
\* under new ids, which become those of the document when it is published.
Cloned(doc, fresh) ==
    [doc EXCEPT !.links = {[l EXCEPT !.id = fresh[@]] : l \in @},
                !.preferred = IF \E l \in doc.links : l.id = @ THEN fresh[@] ELSE @]

\* countResolvedVisibleLinks: what the links step of an overlay may not have more
\* than twelve of.
VisibleCount(global, own) ==
    Cardinality({l \in Enabled(global) : l.id \notin own.hidden}) + Cardinality(Enabled(own))

-----------------------------------------------------------------------------
(***************************************************************************)
(* Deliveries.                                                             *)
(***************************************************************************)
\* index: the owners of each alias in the guild.  Nobody is credited when the
\* two names of the sender match none or more than one.
Sender(index, names) ==
    LET owners == UNION {index[n] : n \in names \cap DOMAIN index}
    IN  IF Cardinality(owners) = 1 THEN CHOOSE o \in owners : TRUE ELSE 0

\* An event has an id, or a hash of its content where Throne sent none; the names
\* of private and anonymous senders are gone.
FanOut(db, index, event) ==
    {[event |-> event.id, guild |-> r.guild, registration |-> r.id,
      sender |-> Sender(index[r.guild], event.names),
      currency |-> event.currency, amount |-> event.amount] :
        r \in {r \in db.registrations : r.creator = event.creator /\ r.active}}

\* handleThroneWebhook on tables db: what was recorded once is not recorded again,
\* and tests and types that are not known write no event.  The row of the event
\* and its sends are one batch.
Delivered(db, index, event) ==
    CASE event.type = "unknown" -> db
      [] event.type = "test" -> [db EXCEPT !.verified = @ \cup {event.creator}]
      [] event.type = "send" /\ <<event.creator, event.id>> \in db.events ->
            [db EXCEPT !.verified = @ \cup {event.creator}]
      [] OTHER ->
            [db EXCEPT !.verified = @ \cup {event.creator},
                       !.events = @ \cup {<<event.creator, event.id>>},
                       !.sends = @ \cup FanOut(db, index, event)]

=============================================================================
