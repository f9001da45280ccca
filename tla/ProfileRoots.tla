---------------------------- MODULE ProfileRoots ----------------------------
(***************************************************************************)
(* Published profiles and the registrations that webhooks follow: the      *)
(* global profile of each owner, the server profiles that link to it or    *)
(* stand alone, guild setup with the public message that Bill steers it    *)
(* by, and table domme_registrations, into which publication and setup     *)
(* project the creator that a profile shows in each configured guild       *)
(* (worker/src/profile/publishService.ts, registrationSync.ts,             *)
(* guildSetupService.ts, resolver.ts, aliasAttribution.ts,                 *)
(* routes/registration.ts, bill/components/setup.py).                      *)
(*                                                                         *)
(* What is to be projected is read some awaits before the batch that       *)
(* writes it, and other requests run in between.  How a draft comes to be  *)
(* publishable is ProfileDrafts; here it is a new document of a root.      *)
(***************************************************************************)
EXTENDS Naturals, Functions

CONSTANTS
    Owners, Guilds,
    Home,           \* BILL_HOME_GUILD_ID, where global profiles show
    Creators,       \* the creators of each owner; none has two
    Requests,       \* requests handled at a time
    Orientations,   \* those that members choose
    Channels,       \* text channels in which Bill may post
    None,
    MaxVersion,     \* bound: publications of one root
    MaxPublications,\* bound: publications of all roots
    MaxRevision     \* bound: revisions of the setup sessions of all guilds

ASSUME RootsAssumption ==
    /\ Home \in Guilds
    /\ None \notin Channels /\ \A o \in Owners : None \notin Creators[o]
    /\ \A o, p \in Owners : o # p => Creators[o] \cap Creators[p] = {}
    /\ Orientations \subseteq {"domme", "submissive", "switch"}
    /\ MaxVersion \in Nat /\ MaxPublications \in Nat /\ MaxRevision \in Nat

VARIABLES
    globals,        \* global_profiles and their current documents
    servers,        \* server_profiles and theirs
    posting,        \* send_channel_id of the guilds in table guilds
    rows,           \* domme_registrations; (guild, user) is unique, and since a
                    \* creator has one owner so is (guild, creator)
    sessions,       \* the latest setup session of each guild
    cards,          \* the message of the latest session, while it can be used
    requests,       \* what each request holds in its local variables
    overlapped,     \* history: a batch was written that another request, or this
                    \* one, had not read the state for
    outrun          \* history: guilds where a completion sent twice was written a
                    \* second time after a later session had begun

vars == <<globals, servers, posting, rows, sessions, cards, requests, overlapped, outrun>>

Servers == Guilds \ {Home}
Modes == {"linked", "independent"}
\* alias: the document has the one alias that senders are known by here;
\* override: an overlay has its own aliases
NoRoot == [version |-> 0, mode |-> "independent", creator |-> None,
           alias |-> FALSE, override |-> FALSE]
NoRow == [creator |-> None, managed |-> TRUE, active |-> FALSE]
NoSession == [status |-> "none", revision |-> 0, channel |-> None]
NoCard == [revision |-> 0, channel |-> None, ready |-> FALSE]
Idle == [kind |-> "idle", guild |-> Home, owner |-> None, root |-> NoRoot,
         projections |-> {}, revision |-> 0, channel |-> None, twin |-> FALSE]

\* A guild is configured when it has a row.
configured == {g \in Guilds : posting[g] # None}

Init ==
    /\ globals = [o \in Owners |-> NoRoot]
    /\ servers = [g \in Servers |-> [o \in Owners |-> NoRoot]]
    /\ posting = [g \in Guilds |-> None]
    /\ rows = [g \in Guilds |-> [o \in Owners |-> NoRow]]
    /\ sessions = [g \in Guilds |-> NoSession]
    /\ cards = [g \in Guilds |-> NoCard]
    /\ requests = [r \in Requests |-> Idle]
    /\ overlapped = FALSE /\ outrun = {}

Set(r, rec) == requests' = [requests EXCEPT ![r] = rec]

-----------------------------------------------------------------------------
(***************************************************************************)
(* What a viewer in a guild sees of an owner.                              *)
(***************************************************************************)
Published(root) == root.version > 0

\* resolveProfile: the document whose creator and aliases show, or NoRoot.
\* Only the aliases of a linked overlay may be its own.
Resolved(g, o) ==
    CASE g = Home -> globals[o]
      [] g # Home /\ servers[g][o].mode = "independent" -> servers[g][o]
      [] g # Home /\ servers[g][o].mode = "linked" ->
            IF ~Published(globals[o]) THEN NoRoot
            ELSE [globals[o] EXCEPT
                    !.alias = IF servers[g][o].override THEN servers[g][o].alias ELSE @]

\* Mutant: the aliases of a linked profile are the global ones.
AliasesOfGlobal(g) ==
    IF g = Home THEN {o \in Owners : globals[o].alias}
    ELSE {o \in Owners :
            IF servers[g][o].mode = "independent" THEN servers[g][o].alias
            ELSE Published(globals[o]) /\ globals[o].alias}

\* buildEffectiveAliasIndex: the owners an alias can stand for in a guild.
AliasOwners(g) ==
    IF g = Home THEN {o \in Owners : globals[o].alias}
    ELSE {o \in Owners : servers[g][o].mode = "independent" /\ servers[g][o].alias}
         \cup
         {o \in Owners :
            /\ servers[g][o].mode = "linked" /\ Published(globals[o])
            /\ IF servers[g][o].override THEN servers[g][o].alias ELSE globals[o].alias}

-----------------------------------------------------------------------------
(***************************************************************************)
(* Projections.                                                            *)
(***************************************************************************)
\* Mutant: a global publication reaches the home guild only.
HomeOnly(g, o) == {Home} \cap configured
\* collectPublishRegistrationProjections: the configured guilds whose creator
\* changes with a root, that of guild g or, for Home, the global one.
PublishTargets(g, o) ==
    IF g # Home THEN {g} \cap configured
    ELSE {h \in configured : h = Home \/ (servers[h][o].version > 0 /\ servers[h][o].mode = "linked")}

\* collectGuildSetupRegistrationProjections.
SetupProjections(g) ==
    IF g = Home
      THEN {[guild |-> g, owner |-> o, creator |-> globals[o].creator] :
                o \in {p \in Owners : Published(globals[p])}}
      ELSE {[guild |-> g, owner |-> o,
             creator |-> IF servers[g][o].mode = "linked" THEN globals[o].creator
                         ELSE servers[g][o].creator] :
                o \in {p \in Owners : Published(servers[g][p])}}

\* legacyRegistrationConflictGuard: an explicit registration of another creator.
Conflicts(projections) ==
    \E p \in projections :
        LET row == rows[p.guild][p.owner]
        IN  ~row.managed /\ row.active /\ p.creator # None /\ row.creator # p.creator

\* Mutant: ON CONFLICT DO UPDATE without WHERE profile_managed = 1.
ProjectedOver(row, p) ==
    IF p.creator = None THEN [row EXCEPT !.active = FALSE]
    ELSE [creator |-> p.creator, managed |-> TRUE, active |-> TRUE]

\* buildRegistrationProjectionStatements on one row: what was superseded is
\* switched off, the new creator put in its place; explicit rows stay.
Projected(row, p) ==
    IF ~row.managed THEN row
    ELSE IF p.creator = None THEN [row EXCEPT !.active = FALSE]
    ELSE [creator |-> p.creator, managed |-> TRUE, active |-> TRUE]

Project(projections) ==
    rows' = [g \in Guilds |-> [o \in Owners |->
        LET mine == {p \in projections : p.guild = g /\ p.owner = o}
        IN  IF mine = {} THEN rows[g][o] ELSE Projected(rows[g][o], CHOOSE p \in mine : TRUE)]]

-----------------------------------------------------------------------------
(***************************************************************************)
(* Publishing.                                                             *)
(***************************************************************************)
Root(g, o) == IF g = Home THEN globals[o] ELSE servers[g][o]

\* Throne takes an orientation that receives sends, an alias one that makes them.
Chosen(creator, alias) ==
    \E o \in Orientations :
        /\ creator # None => o # "submissive"
        /\ alias => o # "domme"

Count(roots) == FoldFunction(LAMBDA root, n : n + root.version, 0, roots)
Publications == Count(globals) + FoldFunction(LAMBDA roots, n : n + Count(roots), 0, servers)

Projections(targets, o, creator) ==
    {[guild |-> h, owner |-> o, creator |-> creator] : h \in targets}

\* The draft is read, for a linked one the creator that governs it, and the
\* guilds; an explicit registration that disagrees ends the request.
CollectPublish(r, g, o) ==
    /\ requests[r] = Idle
    /\ Root(g, o).version < MaxVersion /\ Publications < MaxPublications
    /\ \E mode \in Modes, creator \in Creators[o] \cup {None},
          alias \in BOOLEAN, override \in BOOLEAN :
        /\ g = Home => mode = "independent"
        /\ mode = "independent" => ~override /\ Chosen(creator, alias)
        /\ mode = "linked" => creator = None /\ Published(globals[o]) /\ (alias => override)
        /\ LET projections == Projections(PublishTargets(g, o), o,
                                  IF mode = "linked" THEN globals[o].creator ELSE creator)
           IN  /\ ~Conflicts(projections)
               /\ Set(r, [Idle EXCEPT
                    !.kind = "publish", !.guild = g, !.owner = o, !.projections = projections,
                    !.root = [version |-> Root(g, o).version + 1, mode |-> mode,
                              creator |-> creator, alias |-> alias, override |-> override]])
    /\ UNCHANGED <<globals, servers, posting, rows, sessions, cards, overlapped, outrun>>

\* Another request has read what this publication now changes: the creator of
\* the global profile, which servers are linked to it, or who is published.
Overlap(r) ==
    LET q == requests[r]
    IN  \E s \in Requests \ {r} :
            LET other == requests[s]
            IN  \/ other.kind = "setup" /\ (other.guild = q.guild \/ q.guild = Home)
                \/ /\ other.kind = "publish" /\ other.owner = q.owner
                   /\ (q.guild = Home) # (other.guild = Home)

\* The batch tests the version of the root and the explicit registrations
\* again, not the guilds nor the global profile.
CommitPublish(r) ==
    LET q == requests[r]
    IN  /\ q.kind = "publish"
        /\ Root(q.guild, q.owner).version = q.root.version - 1
        /\ ~Conflicts(q.projections)
        /\ IF q.guild = Home
             THEN /\ globals' = [globals EXCEPT ![q.owner] = q.root]
                  /\ UNCHANGED servers
             ELSE /\ servers' = [servers EXCEPT ![q.guild][q.owner] = q.root]
                  /\ UNCHANGED globals
        /\ Project(q.projections)
        /\ overlapped' = (overlapped \/ Overlap(r))
        /\ Set(r, Idle)
        /\ UNCHANGED <<posting, sessions, cards, outrun>>

\* A conflict, a refusal or an error; nothing was written.
Refused(r) ==
    /\ requests[r] # Idle
    /\ Set(r, Idle)
    /\ UNCHANGED <<globals, servers, posting, rows, sessions, cards, overlapped, outrun>>

-----------------------------------------------------------------------------
(***************************************************************************)
(* Guild setup.                                                            *)
(***************************************************************************)
Revisions == FoldFunction(LAMBDA session, n : n + session.revision, 0, sessions)

\* Bill edits the message of the session with what the Worker answered; its
\* controls carry the revision that it shows.  An edit that is lost leaves
\* controls of no more use, as if nobody used them before the session expires.
Show(g, card) == cards' = [cards EXCEPT ![g] = card]

\* While a session is active /bill setup refers to its message.
Resumes(g) == sessions[g].status = "active"

\* createGuildSetupSession.  The revision goes on from one session to the next,
\* for it stands for the id as well.
StartSetup(g) ==
    /\ ~Resumes(g) /\ Revisions < MaxRevision
    /\ sessions' = [sessions EXCEPT ![g] = [status |-> "active", channel |-> None,
                                            revision |-> @.revision + 1]]
    /\ Show(g, [NoCard EXCEPT !.revision = sessions'[g].revision])
    /\ UNCHANGED <<globals, servers, posting, rows, requests, overlapped, outrun>>

\* assertActiveAndCurrent, and the WHERE of each UPDATE.
Holds(g, revision) == sessions[g].status = "active" /\ sessions[g].revision = revision

\* The select of channels is there until one is chosen.  Bill reads the session,
\* which has to be of the revision of the control, and looks the channel up.
Chooses(g) == cards[g].channel = None /\ Holds(g, cards[g].revision)

\* setGuildSetupChannel is one UPDATE of an active session at the revision of the
\* control, so that only one of several choices is saved and shown.
SetChannel(g) ==
    /\ Chooses(g) /\ Revisions < MaxRevision
    /\ \E c \in Channels :
        /\ sessions' = [sessions EXCEPT ![g].channel = c, ![g].revision = @ + 1]
        /\ Show(g, [NoCard EXCEPT !.revision = cards[g].revision + 1, !.channel = c])
    /\ UNCHANGED <<globals, servers, posting, rows, requests, overlapped, outrun>>

\* Its time is up, which whoever loads it next writes down.
ExpireSetup(g) ==
    /\ sessions[g].status = "active"
    /\ sessions' = [sessions EXCEPT ![g].status = "expired", ![g].channel = None]
    /\ cards' = [cards EXCEPT ![g] = NoCard]
    /\ UNCHANGED <<globals, servers, posting, rows, requests, overlapped, outrun>>

\* A publication has looked for configured guilds and not found this one.
Unaware(g) ==
    \E s \in Requests :
        /\ requests[s].kind = "publish"
        /\ requests[s].guild \in {g, Home}

\* "Confirm setup": there is a channel, still there and open to Bill.
Confirms(g) == sessions[g].channel # None /\ Holds(g, cards[g].revision)

\* The session and what it is to project are read.
CollectSetup(r, g) ==
    /\ requests[r] = Idle
    /\ Confirms(g)
    /\ Set(r, [Idle EXCEPT !.kind = "setup", !.guild = g, !.channel = sessions[g].channel,
                           !.revision = sessions[g].revision,
                           !.projections = SetupProjections(g)])
    /\ UNCHANGED <<globals, servers, posting, rows, sessions, cards, overlapped, outrun>>

\* Mutant: ON CONFLICT DO UPDATE without the test of the session.
PostsToLatest(q, won) == q.channel
\* The channel of a guild after a completion.
PostsTo(q, won) ==
    IF won \/ q.twin \/ posting[q.guild] = None THEN q.channel ELSE posting[q.guild]

\* completeGuildSetupSession.  The row of the guild is only guarded where there
\* is one: a completion that loses still inserts it.  One that loses to its own
\* twin finds the session completed at the revision that it meant to write, so
\* that its channel and projections are written as well, were it when another
\* session has begun or even ended since.
CommitSetup(r) ==
    LET q == requests[r]
        won == Holds(q.guild, q.revision)
        twin(s) == /\ requests[s].kind = "setup" /\ requests[s].guild = q.guild
                   /\ requests[s].revision = q.revision
    IN  /\ q.kind = "setup"
        /\ posting' = [posting EXCEPT ![q.guild] = PostsTo(q, won)]
        /\ IF won
             THEN /\ sessions' = [sessions EXCEPT ![q.guild].status = "completed",
                                                  ![q.guild].revision = @ + 1]
                  /\ Show(q.guild, [revision |-> q.revision + 1, channel |-> q.channel, ready |-> TRUE])
             ELSE UNCHANGED <<sessions, cards>>
        /\ IF won \/ q.twin THEN Project(q.projections) ELSE UNCHANGED rows
        /\ overlapped' = \/ overlapped
                         \/ q.guild \notin configured /\ (~won \/ Unaware(q.guild))
        /\ requests' = [s \in Requests |->
                IF s = r THEN Idle
                ELSE IF won /\ twin(s) THEN [requests[s] EXCEPT !.twin = TRUE] ELSE requests[s]]
        /\ outrun' = IF won THEN outrun \ {q.guild}
                     ELSE IF q.twin /\ sessions[q.guild].revision # q.revision + 1
                       THEN outrun \cup {q.guild} ELSE outrun
        /\ UNCHANGED <<globals, servers>>

-----------------------------------------------------------------------------
(***************************************************************************)
(* The older API.                                                          *)
(***************************************************************************)
\* handleRegisterDomme: an explicit registration takes the place of any.
Register(g, o, c) ==
    /\ g \in configured /\ c \in Creators[o]
    /\ rows' = [rows EXCEPT ![g][o] = [creator |-> c, managed |-> FALSE, active |-> TRUE]]
    /\ UNCHANGED <<globals, servers, posting, sessions, cards, requests, overlapped, outrun>>

-----------------------------------------------------------------------------
Next ==
    \/ \E r \in Requests :
        \/ \E g \in Guilds, o \in Owners : CollectPublish(r, g, o)
        \/ CommitPublish(r) \/ Refused(r)
        \/ \E g \in Guilds : CollectSetup(r, g)
        \/ CommitSetup(r)
    \/ \E g \in Guilds : StartSetup(g) \/ SetChannel(g) \/ ExpireSetup(g)
    \/ \E g \in Guilds, o \in Owners : \E c \in Creators[o] : Register(g, o, c)

Spec == Init /\ [][Next]_vars

-----------------------------------------------------------------------------
(***************************************************************************)
(* Properties.                                                             *)
(***************************************************************************)
AllCreators == UNION {Creators[o] : o \in Owners}
Registered(o) == Creators[o] \cup {None}
Anyones == AllCreators \cup {None}
Places == Channels \cup {None}

RootRecords(creators) ==
    [version : 0..MaxVersion, mode : Modes, creator : creators, alias : BOOLEAN, override : BOOLEAN]
RowRecords == [creator : Anyones, managed : BOOLEAN, active : BOOLEAN]
SessionRecords ==
    [status : {"none", "active", "expired", "completed"}, revision : Nat, channel : Places]
CardRecords == [revision : Nat, channel : Places, ready : BOOLEAN]
ProjectionRecords == [guild : Guilds, owner : Owners, creator : Anyones]
RequestRecords ==
    [kind : {"idle", "publish", "setup"}, guild : Guilds, owner : Owners \cup {None},
     root : RootRecords(Anyones), projections : SUBSET ProjectionRecords, revision : Nat,
     channel : Places, twin : BOOLEAN]

\* Every row of domme_registrations belongs to a configured guild, and an
\* active one has a creator of its own user.
TypeOK ==
    /\ globals \in [Owners -> RootRecords(Anyones)]
    /\ servers \in [Servers -> [Owners -> RootRecords(Anyones)]]
    /\ posting \in [Guilds -> Places]
    /\ rows \in [Guilds -> [Owners -> RowRecords]]
    /\ sessions \in [Guilds -> SessionRecords]
    /\ cards \in [Guilds -> CardRecords]
    /\ requests \in [Requests -> RequestRecords]
    /\ overlapped \in BOOLEAN /\ outrun \subseteq Guilds
    /\ \A o \in Owners : globals[o].creator \in Registered(o)
    /\ \A g \in Servers, o \in Owners : servers[g][o].creator \in Registered(o)
    /\ \A g \in Guilds, o \in Owners :
        /\ rows[g][o].creator \in Registered(o)
        /\ rows[g][o].active => rows[g][o].creator # None
        /\ rows[g][o] # NoRow => g \in configured
    /\ \A g \in Guilds : cards[g].revision <= sessions[g].revision

RegisteredAs(g, o) ==
    IF rows[g][o].active THEN rows[g][o].creator ELSE None

\* Deliveries follow profiles: in a configured guild the creator registered for
\* an owner is the one that the profile shown there has, and none is when it
\* has none; explicit registrations stand for themselves.  Stated, and not kept
\* where two requests overlap: each projects what it read before its batch.
WebhooksFollowProfiles ==
    \A g \in configured, o \in Owners :
        rows[g][o].managed => RegisteredAs(g, o) = Resolved(g, o).creator

\* Publications of the global profile, of linked and independent server profiles,
\* changes of mode and setup project the creator each for themselves; nothing is
\* missed by any of them, as long as no batch was written from outdated reads.
RegisteredAsPublished == overlapped \/ WebhooksFollowProfiles

\* A publication or a setup never takes away or replaces an explicit
\* registration, whatever was registered between its reads and its batch: such
\* a row changes by another registration only, and stays explicit and active.
ExplicitRowsStand ==
    [][\A g \in Guilds, o \in Owners :
            ~rows[g][o].managed =>
                /\ ~rows'[g][o].managed /\ rows'[g][o].active
                /\ \/ globals' = globals /\ servers' = servers /\ sessions' = sessions
                   \/ rows'[g][o] = rows[g][o]]_vars

\* The message says what the session of its revision holds.
CardsMatch ==
    \A g \in Guilds :
        cards[g].revision = sessions[g].revision => cards[g].channel = sessions[g].channel

\* Who confirms a channel gets that channel: the message says what the session
\* of its revision holds, and while it says that Bill is ready no completion that
\* comes late, of this session or of one that has expired since, moves the posts
\* to another channel; only one that was sent twice and whose second writing
\* comes a whole session later does.
CardsAreHonest ==
    /\ CardsMatch
    /\ \A g \in Guilds \ outrun :
        cards[g].ready /\ sessions[g].status = "completed" => posting[g] = cards[g].channel

\* The sender of a gift is looked up among the aliases that the profiles show:
\* the index that webhooks build for a guild and the resolver that viewers get
\* are written apart and agree for every owner.
AliasesMirrorProfiles ==
    \A g \in Guilds : AliasOwners(g) = {o \in Owners : Resolved(g, o).alias}

-----------------------------------------------------------------------------
(***************************************************************************)
(* The inductive invariant.                                                *)
(***************************************************************************)
\* A root that was never published is empty, and what is not the global profile
\* links to one that is published.
RootsWhole ==
    /\ \A o \in Owners : globals[o].version = 0 => globals[o] = NoRoot
    /\ \A g \in Servers, o \in Owners :
        /\ servers[g][o].version = 0 => servers[g][o] = NoRoot
        /\ servers[g][o].mode = "linked" => Published(globals[o])

ExplicitIsActive ==
    \A g \in Guilds, o \in Owners : ~rows[g][o].managed => rows[g][o].active

\* A completed session has left its message ready and its guild configured.
SessionsWhole ==
    \A g \in Guilds : sessions[g].status = "completed" =>
        cards[g].ready /\ cards[g].revision = sessions[g].revision /\ posting[g] # None

\* What a publication holds in its local variables.
PublicationWhole(q) ==
    q.kind = "publish" =>
        /\ q.owner \in Owners /\ q.root.creator \in Registered(q.owner) /\ q.root.version > 0
        /\ q.root.mode = "linked" => q.guild # Home /\ Published(globals[q.owner])
        /\ \A p \in q.projections :
            p.owner = q.owner /\ p.guild \in configured /\ p.creator \in Registered(q.owner)

\* And a completion; one that has lost to its twin holds the channel that won.
CompletionWhole(q) ==
    q.kind = "setup" =>
        /\ q.channel \in Channels /\ q.revision <= sessions[q.guild].revision
        /\ Holds(q.guild, q.revision) => q.channel = sessions[q.guild].channel
        /\ q.twin => /\ q.revision < sessions[q.guild].revision
                     /\ q.guild \in configured
                     /\ sessions[q.guild].revision = q.revision + 1
                            => /\ sessions[q.guild].status = "completed"
                               /\ q.channel = sessions[q.guild].channel
        /\ \A p \in q.projections :
            p.guild = q.guild /\ p.creator \in Registered(p.owner)

RequestsWhole == \A r \in Requests : PublicationWhole(requests[r]) /\ CompletionWhole(requests[r])

\* What a request is going to project is what it would read now.
PublicationFresh(q) ==
    q.kind = "publish" =>
        q.projections = Projections(PublishTargets(q.guild, q.owner), q.owner,
            IF q.root.mode = "linked" THEN globals[q.owner].creator ELSE q.root.creator)
CompletionFresh(q) == q.kind = "setup" => q.projections = SetupProjections(q.guild)

InStep ==
    overlapped \/ /\ WebhooksFollowProfiles
                  /\ \A r \in Requests :
                        PublicationFresh(requests[r]) /\ CompletionFresh(requests[r])

IInv ==
    /\ TypeOK /\ RootsWhole /\ ExplicitIsActive
    /\ CardsAreHonest /\ SessionsWhole /\ RequestsWhole /\ InStep
=============================================================================
