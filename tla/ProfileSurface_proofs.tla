----------------------- MODULE ProfileSurface_proofs -----------------------
(***************************************************************************)
(* Proofs about the two faces of a profile: what its owner is shown of it   *)
(* while it is edited (ProfileWizard), and what others see of it once it   *)
(* is published (ProfileRoots).  The two share no variable.                *)
(***************************************************************************)
EXTENDS ProfileRoots, ProfileWizard, TLAPS, SequenceTheorems

-----------------------------------------------------------------------------
(***************************************************************************)
(* Published profiles and registrations (ProfileRoots).                    *)
(***************************************************************************)
\* The creators of one owner are creators.
LEMMA CreatorsAreCreators ==
    \A o \in Owners : Creators[o] \subseteq AllCreators
BY DEF AllCreators

\* What is empty has its type.
LEMMA EmptyTyped ==
    /\ NoRoot \in RootRecords(Anyones) /\ NoRow \in RowRecords /\ NoSession \in SessionRecords
    /\ NoCard \in CardRecords /\ Idle \in RequestRecords
<1>1. NoRoot \in RootRecords(Anyones)
    BY RootsAssumption DEF NoRoot, RootRecords, Modes, Anyones
<1>2. NoRow \in RowRecords
    BY DEF NoRow, RowRecords, Anyones
<1>3. NoSession \in SessionRecords /\ NoCard \in CardRecords
    BY DEF NoSession, SessionRecords, NoCard, CardRecords, Places
<1>4. Idle \in RequestRecords
    BY <1>1, RootsAssumption DEF Idle, RequestRecords, Places
<1> QED BY <1>1, <1>2, <1>3, <1>4

\* Nothing that an idle request holds is of a profile.
LEMMA IdleWhole ==
    PublicationWhole(Idle) /\ CompletionWhole(Idle) /\ PublicationFresh(Idle) /\ CompletionFresh(Idle)
BY DEF Idle, PublicationWhole, CompletionWhole, PublicationFresh, CompletionFresh

LEMMA RootsInit == Init => IInv
<1> SUFFICES ASSUME Init PROVE IInv
    OBVIOUS
<1> USE DEF Init
<1>1. TypeOK
  <2>1. /\ globals \in [Owners -> RootRecords(Anyones)]
        /\ servers \in [Servers -> [Owners -> RootRecords(Anyones)]]
        /\ rows \in [Guilds -> [Owners -> RowRecords]]
        /\ sessions \in [Guilds -> SessionRecords] /\ cards \in [Guilds -> CardRecords]
        /\ requests \in [Requests -> RequestRecords]
      BY EmptyTyped
  <2>2. posting \in [Guilds -> Places] /\ overlapped \in BOOLEAN /\ outrun \subseteq Guilds
      BY DEF Places
  <2>3. \A o \in Owners : globals[o].creator \in Registered(o)
      BY DEF Registered, NoRoot
  <2>4. \A g \in Servers, o \in Owners : servers[g][o].creator \in Registered(o)
      BY DEF Registered, NoRoot
  <2>5. \A g \in Guilds, o \in Owners :
            /\ rows[g][o].creator \in Registered(o)
            /\ rows[g][o].active => rows[g][o].creator # None
            /\ rows[g][o] # NoRow => g \in configured
      BY DEF Registered, NoRow
  <2>6. \A g \in Guilds : cards[g].revision <= sessions[g].revision
      BY DEF NoCard, NoSession
  <2> QED BY <2>1, <2>2, <2>3, <2>4, <2>5, <2>6 DEF TypeOK
<1>2. RootsWhole
    BY DEF RootsWhole, NoRoot, Published
<1>3. ExplicitIsActive
    BY DEF ExplicitIsActive, NoRow
<1>4. CardsAreHonest
    BY DEF CardsAreHonest, CardsMatch, NoCard, NoSession
<1>5. SessionsWhole
    BY DEF SessionsWhole, NoSession
<1>6. RequestsWhole
    BY IdleWhole DEF RequestsWhole
<1>7. InStep
  <2>1. configured = {}
      BY DEF configured
  <2> QED BY <2>1, IdleWhole DEF InStep, WebhooksFollowProfiles
<1> QED BY <1>1, <1>2, <1>3, <1>4, <1>5, <1>6, <1>7 DEF IInv

-----------------------------------------------------------------------------
(***************************************************************************)
(* Requests: what is held in local variables.                              *)
(***************************************************************************)
\* What requests read depends on the roots, the guilds and the rows alone.
LEMMA ReadsSame ==
    ASSUME UNCHANGED <<globals, servers, configured>>
    PROVE  /\ \A g, o : PublishTargets(g, o)' = PublishTargets(g, o)
           /\ \A g : SetupProjections(g)' = SetupProjections(g)
           /\ \A g, o : Resolved(g, o)' = Resolved(g, o)
<1>1. \A g, o : PublishTargets(g, o)' = PublishTargets(g, o)
    BY DEF PublishTargets
<1>2. \A g : SetupProjections(g)' = SetupProjections(g)
    BY DEF SetupProjections
<1>3. \A g, o : Resolved(g, o)' = Resolved(g, o)
    BY DEF Resolved
<1> QED BY <1>1, <1>2, <1>3

LEMMA InStepSame ==
    ASSUME InStep, UNCHANGED <<globals, servers, configured, rows, requests, overlapped>>
    PROVE  InStep'
<1>1. CASE overlapped
    BY <1>1 DEF InStep
<1>2. CASE ~overlapped
  <2>1. \A g, o : RegisteredAs(g, o)' = RegisteredAs(g, o)
      BY DEF RegisteredAs
  <2>2. WebhooksFollowProfiles'
      BY <1>2, <2>1, ReadsSame DEF InStep, WebhooksFollowProfiles
  <2>3. SUFFICES ASSUME NEW s \in Requests
                 PROVE  (PublicationFresh(requests[s]) /\ CompletionFresh(requests[s]))'
      BY <2>2 DEF InStep
  <2>4. PublicationFresh(requests[s]) /\ CompletionFresh(requests[s])
      BY <1>2 DEF InStep
  <2>5. PublicationFresh(requests[s])'
      BY <2>4, ReadsSame DEF PublicationFresh, Projections
  <2>6. CompletionFresh(requests[s])'
      BY <2>4, ReadsSame DEF CompletionFresh
  <2> QED BY <2>5, <2>6
<1> QED BY <1>1, <1>2

\* A step that only gives one request other local variables, if they are whole
\* and what would be read now.
LEMMA HeldKeeps ==
    ASSUME IInv, NEW r \in Requests, NEW q \in RequestRecords, Set(r, q),
           PublicationWhole(q), CompletionWhole(q),
           overlapped \/ (PublicationFresh(q) /\ CompletionFresh(q)),
           UNCHANGED <<globals, servers, posting, rows, sessions, cards, overlapped, outrun>>
    PROVE  IInv'
<1>1. requests' = [requests EXCEPT ![r] = q]
    BY DEF Set
<1>2. requests \in [Requests -> RequestRecords]
    BY DEF IInv, TypeOK
<1>3. requests' \in [Requests -> RequestRecords]
    BY <1>1, <1>2
<1>4. \A s \in Requests : requests'[s] = q \/ requests'[s] = requests[s]
    BY <1>1, <1>2
<1>5. UNCHANGED configured
    BY DEF configured
<1>6. TypeOK'
    BY <1>3, <1>5 DEF IInv, TypeOK
<1>7. /\ RootsWhole' /\ ExplicitIsActive' /\ SessionsWhole' /\ CardsAreHonest'
    BY DEF IInv, RootsWhole, ExplicitIsActive, SessionsWhole, CardsAreHonest, CardsMatch
<1>8. RequestsWhole'
  <2>1. \A x \in RequestRecords : PublicationWhole(x) => PublicationWhole(x)'
      BY <1>5 DEF PublicationWhole
  <2>2. \A x \in RequestRecords : CompletionWhole(x) => CompletionWhole(x)'
      BY <1>5 DEF CompletionWhole, Holds
  <2>3. SUFFICES ASSUME NEW s \in Requests
                 PROVE  (PublicationWhole(requests[s]) /\ CompletionWhole(requests[s]))'
      BY DEF RequestsWhole
  <2>4. PublicationWhole(requests[s]) /\ CompletionWhole(requests[s])
      BY DEF IInv, RequestsWhole
  <2> QED BY <1>4, <1>5, <2>4 DEF PublicationWhole, CompletionWhole, Holds
<1>9. InStep'
  <2>1. CASE overlapped
      BY <2>1 DEF InStep
  <2>2. CASE ~overlapped
    <3>1. \A g, o : RegisteredAs(g, o)' = RegisteredAs(g, o)
        BY DEF RegisteredAs
    <3>2. configured \subseteq Guilds
        BY DEF configured
    <3>3. WebhooksFollowProfiles
        BY <2>2 DEF IInv, InStep
    <3>4. WebhooksFollowProfiles'
        BY <1>5, <3>1, <3>2, <3>3, ReadsSame DEF WebhooksFollowProfiles
    <3>5. SUFFICES ASSUME NEW s \in Requests
                   PROVE  (PublicationFresh(requests[s]) /\ CompletionFresh(requests[s]))'
        BY <3>4 DEF InStep
    <3>6. PublicationFresh(requests[s]) /\ CompletionFresh(requests[s])
        BY <2>2 DEF IInv, InStep
    <3>7. PublicationFresh(q) /\ CompletionFresh(q)
        BY <2>2
    <3>8. PublicationFresh(requests[s])'
        BY <1>4, <1>5, <3>6, <3>7, ReadsSame DEF PublicationFresh, Projections
    <3>9. CompletionFresh(requests[s])'
        BY <1>4, <1>5, <3>6, <3>7, ReadsSame DEF CompletionFresh
    <3> QED BY <3>8, <3>9
  <2> QED BY <2>1, <2>2
<1> QED BY <1>6, <1>7, <1>8, <1>9 DEF IInv

LEMMA RefusedKeeps ==
    ASSUME IInv, NEW r \in Requests, Refused(r)
    PROVE  IInv'
BY EmptyTyped, IdleWhole, HeldKeeps DEF Refused

\* What setup reads is of its guild, with creators of their own owners.
LEMMA SetupProjectionsTyped ==
    ASSUME TypeOK, NEW g \in Guilds
    PROVE  /\ SetupProjections(g) \subseteq ProjectionRecords
           /\ \A p \in SetupProjections(g) : p.guild = g /\ p.creator \in Registered(p.owner)
<1>1. \A o \in Owners : globals[o].creator \in Registered(o) /\ Registered(o) \subseteq Anyones
    BY CreatorsAreCreators DEF TypeOK, Registered, Anyones
<1>2. g # Home => \A o \in Owners : servers[g][o].creator \in Registered(o)
    BY DEF TypeOK, Servers
<1>3. SUFFICES ASSUME NEW p \in SetupProjections(g)
               PROVE  p \in ProjectionRecords /\ p.guild = g /\ p.creator \in Registered(p.owner)
    OBVIOUS
<1>4. PICK o \in Owners : \E c \in Registered(o) : p = [guild |-> g, owner |-> o, creator |-> c]
  <2>1. CASE g = Home
      BY <1>1, <1>3, <2>1 DEF SetupProjections
  <2>2. CASE g # Home
    <3>1. PICK o \in Owners :
            p = [guild |-> g, owner |-> o,
                 creator |-> IF servers[g][o].mode = "linked" THEN globals[o].creator
                             ELSE servers[g][o].creator]
        BY <1>3, <2>2 DEF SetupProjections
    <3> QED BY <1>1, <1>2, <2>2, <3>1
  <2> QED BY <2>1, <2>2
<1> QED BY <1>1, <1>4 DEF ProjectionRecords

LEMMA CollectSetupKeeps ==
    ASSUME IInv, NEW r \in Requests, NEW g \in Guilds, CollectSetup(r, g)
    PROVE  IInv'
<1> DEFINE q == [Idle EXCEPT !.kind = "setup", !.guild = g, !.channel = sessions[g].channel,
                             !.revision = sessions[g].revision,
                             !.projections = SetupProjections(g)]
<1>1. TypeOK
    BY DEF IInv
<1>2. sessions[g] \in SessionRecords
    BY <1>1 DEF TypeOK
<1>3. /\ q.kind = "setup" /\ q.guild = g /\ q.channel = sessions[g].channel
      /\ q.revision = sessions[g].revision /\ q.projections = SetupProjections(g) /\ ~q.twin
    BY DEF Idle
<1>4. q \in RequestRecords
    BY <1>1, <1>2, SetupProjectionsTyped, EmptyTyped DEF Idle, RequestRecords, SessionRecords
<1>5. q.channel \in Channels
    BY <1>2, <1>3 DEF CollectSetup, Confirms, SessionRecords, Places
<1>6. Set(r, q) /\ UNCHANGED <<globals, servers, posting, rows, sessions, cards, overlapped, outrun>>
    BY DEF CollectSetup
<1> HIDE DEF q
<1>7. PublicationWhole(q) /\ PublicationFresh(q) /\ CompletionFresh(q)
    BY <1>3 DEF PublicationWhole, PublicationFresh, CompletionFresh
<1>8. CompletionWhole(q)
    BY <1>1, <1>2, <1>3, <1>5, SetupProjectionsTyped DEF CompletionWhole, SessionRecords
<1> QED BY <1>4, <1>6, <1>7, <1>8, HeldKeeps

\* What a publication reads is of configured guilds.
LEMMA TargetsConfigured ==
    ASSUME NEW g, NEW o
    PROVE  PublishTargets(g, o) \subseteq configured
BY DEF PublishTargets

LEMMA CollectPublishKeeps ==
    ASSUME IInv, NEW r \in Requests, NEW g \in Guilds, NEW o \in Owners, CollectPublish(r, g, o)
    PROVE  IInv'
<1>1. TypeOK /\ Root(g, o).version < MaxVersion
    BY DEF IInv, CollectPublish
<1>2. PICK mode \in Modes, creator \in Creators[o] \cup {None},
           alias \in BOOLEAN, override \in BOOLEAN :
        /\ g = Home => mode = "independent"
        /\ mode = "independent" => ~override /\ Chosen(creator, alias)
        /\ mode = "linked" => creator = None /\ Published(globals[o]) /\ (alias => override)
        /\ LET projections == Projections(PublishTargets(g, o), o,
                                  IF mode = "linked" THEN globals[o].creator ELSE creator)
           IN  /\ ~Conflicts(projections)
               /\ Set(r, [Idle EXCEPT
                    !.kind = "publish", !.guild = g, !.owner = o, !.projections = projections,
                    !.root = [version |-> Root(g, o).version + 1, mode |-> mode,
                              creator |-> creator, alias |-> alias, override |-> override]])
    BY DEF CollectPublish
<1> DEFINE root == [version |-> Root(g, o).version + 1, mode |-> mode,
                    creator |-> creator, alias |-> alias, override |-> override]
           projected == IF mode = "linked" THEN globals[o].creator ELSE creator
           projections == Projections(PublishTargets(g, o), o, projected)
           q == [Idle EXCEPT !.kind = "publish", !.guild = g, !.owner = o,
                             !.projections = projections, !.root = root]
<1>3. Root(g, o).version \in Nat
    BY <1>1 DEF Root, TypeOK, RootRecords, Servers
<1>4. Registered(o) \subseteq Anyones
    BY CreatorsAreCreators DEF Registered, Anyones
<1>5. root \in RootRecords(Anyones) /\ root.version > 0
    BY <1>1, <1>3, <1>4, RootsAssumption DEF RootRecords, Registered
<1>6. projected \in Registered(o)
    BY <1>1 DEF TypeOK, Registered
<1>7. \A p \in projections : p.owner = o /\ p.guild \in configured /\ p.creator = projected
    BY TargetsConfigured DEF Projections
<1>8. projections \subseteq ProjectionRecords
  <2>1. configured \subseteq Guilds
      BY DEF configured
  <2> HIDE DEF projected
  <2> QED BY <1>4, <1>6, <2>1, TargetsConfigured DEF Projections, ProjectionRecords
<1>9. /\ q.kind = "publish" /\ q.guild = g /\ q.owner = o /\ q.projections = projections
      /\ q.root = root
    BY DEF Idle
<1>10. q \in RequestRecords
    BY <1>5, <1>8, RootsAssumption DEF Idle, RequestRecords, Places
<1>11. root.mode = mode /\ root.creator = creator
    OBVIOUS
<1>12. Set(r, q) /\ UNCHANGED <<globals, servers, posting, rows, sessions, cards, overlapped, outrun>>
    BY <1>2 DEF CollectPublish
<1>13. PublicationFresh(q)
    BY <1>9, <1>11 DEF PublicationFresh
<1> HIDE DEF q
<1>14. PublicationWhole(q)
  <2>1. root.creator \in Registered(o)
      BY <1>11 DEF Registered
  <2> HIDE DEF root, projected, projections
  <2> QED BY <1>2, <1>5, <1>6, <1>7, <1>9, <1>11, <2>1 DEF PublicationWhole, Modes
<1>15. CompletionWhole(q) /\ CompletionFresh(q)
    BY <1>9 DEF CompletionWhole, CompletionFresh
<1> QED BY <1>10, <1>12, <1>13, <1>14, <1>15, HeldKeeps

-----------------------------------------------------------------------------
(***************************************************************************)
(* Sessions and their messages.                                            *)
(***************************************************************************)
\* A session is begun, goes on to its next revision or ends without completion.
LEMMA SessionKeeps ==
    ASSUME IInv, NEW g \in Guilds, NEW session \in SessionRecords, NEW card \in CardRecords,
           sessions' = [sessions EXCEPT ![g] = session], cards' = [cards EXCEPT ![g] = card],
           UNCHANGED <<globals, servers, posting, rows, requests, overlapped, outrun>>,
           card.revision <= session.revision,
           card.revision = session.revision => card.channel = session.channel,
           session.status # "completed",
           \/ session.revision > sessions[g].revision
           \/ /\ session.status # "active" /\ sessions[g].status = "active"
              /\ session.revision = sessions[g].revision
    PROVE  IInv'
<1>1. UNCHANGED configured
    BY DEF configured
<1>2. sessions \in [Guilds -> SessionRecords] /\ cards \in [Guilds -> CardRecords]
    BY DEF IInv, TypeOK
<1>3. /\ sessions'[g] = session /\ cards'[g] = card
      /\ \A h \in Guilds : h # g => sessions'[h] = sessions[h] /\ cards'[h] = cards[h]
    BY <1>2
<1>4. sessions' \in [Guilds -> SessionRecords] /\ cards' \in [Guilds -> CardRecords]
    BY <1>2
<1>5. \A h \in Guilds : cards'[h].revision <= sessions'[h].revision
    BY <1>3 DEF IInv, TypeOK
<1>6. TypeOK'
    BY <1>1, <1>4, <1>5 DEF IInv, TypeOK
<1>7. RootsWhole' /\ ExplicitIsActive'
    BY DEF IInv, RootsWhole, ExplicitIsActive
<1>8. CardsAreHonest'
    BY <1>3 DEF IInv, CardsAreHonest, CardsMatch
<1>9. SessionsWhole'
    BY <1>3 DEF IInv, SessionsWhole
<1>10. RequestsWhole'
  <2>1. SUFFICES ASSUME NEW r \in Requests
                 PROVE  (PublicationWhole(requests[r]) /\ CompletionWhole(requests[r]))'
      BY DEF RequestsWhole
  <2>2. PublicationWhole(requests[r]) /\ CompletionWhole(requests[r])
      BY DEF IInv, RequestsWhole
  <2>3. PublicationWhole(requests[r])'
      BY <1>1, <2>2 DEF PublicationWhole
  <2>4. CompletionWhole(requests[r])'
    <3> DEFINE q == requests[r]
    <3>1. q \in RequestRecords /\ q' = q
        BY DEF IInv, TypeOK
    <3>2. q.guild \in Guilds /\ q.revision \in Nat
        BY <3>1 DEF RequestRecords
    <3>3. /\ sessions[g].revision \in Nat /\ session.revision \in Nat
        BY <1>2 DEF SessionRecords
    <3>4. CASE q.guild # g
        BY <1>1, <1>3, <2>2, <3>1, <3>2, <3>4 DEF CompletionWhole, Holds
    <3>5. CASE q.guild = g /\ q.kind = "setup"
      <4>1. q.channel \in Channels /\ q.revision <= session.revision
          BY <2>2, <3>1, <3>2, <3>3, <3>5 DEF CompletionWhole
      <4>2. ~(session.status = "active" /\ session.revision = q.revision)
          BY <2>2, <3>1, <3>2, <3>3, <3>5 DEF CompletionWhole
      <4>3. q.twin => q.revision < session.revision /\ q.guild \in configured
          BY <2>2, <3>1, <3>2, <3>3, <3>5 DEF CompletionWhole
      <4>4. q.twin => session.revision # q.revision + 1
          BY <2>2, <3>1, <3>2, <3>3, <3>5 DEF CompletionWhole
      <4>5. \A p \in q.projections : p.guild = q.guild /\ p.creator \in Registered(p.owner)
          BY <2>2, <3>5 DEF CompletionWhole
      <4>6. requests'[r] = q /\ sessions'[q.guild] = session
          BY <1>3, <3>5
      <4> HIDE DEF q
      <4> QED BY <1>1, <4>1, <4>2, <4>3, <4>4, <4>5, <4>6 DEF CompletionWhole, Holds
    <3>6. CASE q.kind # "setup"
        BY <3>1, <3>6 DEF CompletionWhole
    <3> QED BY <3>4, <3>5, <3>6
  <2> QED BY <2>3, <2>4
<1>11. InStep'
    BY <1>1, InStepSame DEF IInv
<1> QED BY <1>6, <1>7, <1>8, <1>9, <1>10, <1>11 DEF IInv

LEMMA StartSetupKeeps ==
    ASSUME IInv, NEW g \in Guilds, StartSetup(g)
    PROVE  IInv'
<1>1. sessions \in [Guilds -> SessionRecords] /\ sessions[g].revision \in Nat
    BY DEF IInv, TypeOK, SessionRecords
<1> DEFINE session == [status |-> "active", channel |-> None, revision |-> sessions[g].revision + 1]
           card == [NoCard EXCEPT !.revision = session.revision]
<1>2. sessions' = [sessions EXCEPT ![g] = session] /\ cards' = [cards EXCEPT ![g] = card]
    BY <1>1 DEF StartSetup, Show
<1>3. session.status = "active" /\ session.revision = sessions[g].revision + 1
    OBVIOUS
<1>4. session \in SessionRecords
    BY <1>1 DEF SessionRecords, Places
<1> HIDE DEF session
<1>5. card.revision = session.revision /\ card.channel = None
    BY DEF NoCard
<1>6. card \in CardRecords
    BY <1>4 DEF SessionRecords, CardRecords, NoCard, Places
<1>7. session.channel = None
    BY DEF session
<1>8. card.revision <= session.revision /\ session.revision > sessions[g].revision
    BY <1>1, <1>3, <1>5
<1>9. UNCHANGED <<globals, servers, posting, rows, requests, overlapped, outrun>>
    BY DEF StartSetup
<1> HIDE DEF card
<1> QED BY <1>2, <1>3, <1>4, <1>5, <1>6, <1>7, <1>8, <1>9, SessionKeeps

LEMMA SetChannelKeeps ==
    ASSUME IInv, NEW g \in Guilds, SetChannel(g)
    PROVE  IInv'
<1>1. /\ sessions \in [Guilds -> SessionRecords] /\ sessions[g] \in SessionRecords
      /\ sessions[g].revision \in Nat
    BY DEF IInv, TypeOK, SessionRecords
<1>2. PICK c \in Channels :
        /\ sessions' = [sessions EXCEPT ![g].channel = c, ![g].revision = @ + 1]
        /\ Show(g, [NoCard EXCEPT !.revision = cards[g].revision + 1, !.channel = c])
    BY DEF SetChannel
<1>3. sessions[g].status = "active" /\ sessions[g].revision = cards[g].revision
    BY DEF SetChannel, Chooses, Holds
<1> DEFINE session == [sessions[g] EXCEPT !.channel = c, !.revision = sessions[g].revision + 1]
           card == [NoCard EXCEPT !.revision = cards[g].revision + 1, !.channel = c]
<1>4. sessions' = [sessions EXCEPT ![g] = session] /\ cards' = [cards EXCEPT ![g] = card]
    BY <1>1, <1>2 DEF Show
<1>5. /\ session.status = "active" /\ session.revision = sessions[g].revision + 1
      /\ session.channel = c
    BY <1>1, <1>3 DEF SessionRecords
<1>6. [sessions[g] EXCEPT !.channel = c] \in SessionRecords
    BY <1>1 DEF SessionRecords, Places
<1>7. session \in SessionRecords
  <2> DEFINE half == [sessions[g] EXCEPT !.channel = c]
  <2>1. session = [half EXCEPT !.revision = sessions[g].revision + 1]
      BY <1>1 DEF SessionRecords
  <2> HIDE DEF half, session
  <2>2. half \in SessionRecords
      BY <1>6 DEF half
  <2> QED BY <1>1, <2>1, <2>2 DEF SessionRecords
<1>8. card.revision = cards[g].revision + 1 /\ card.channel = c
    BY DEF NoCard
<1>9. card \in CardRecords
  <2>1. [NoCard EXCEPT !.channel = c] \in CardRecords
      BY EmptyTyped DEF CardRecords, Places
  <2>2. card = [[NoCard EXCEPT !.channel = c] EXCEPT !.revision = cards[g].revision + 1]
      BY DEF NoCard
  <2>3. cards[g].revision + 1 \in Nat
      BY <1>1, <1>3
  <2> DEFINE half == [NoCard EXCEPT !.channel = c]
  <2> HIDE DEF card
  <2>4. half \in CardRecords /\ card = [half EXCEPT !.revision = cards[g].revision + 1]
      BY <2>1, <2>2
  <2> HIDE DEF half
  <2> QED BY <2>3, <2>4 DEF CardRecords
<1>10. card.revision <= session.revision /\ session.revision > sessions[g].revision
    BY <1>1, <1>3, <1>5, <1>8
<1>11. card.channel = c
    BY <1>8
<1>12. UNCHANGED <<globals, servers, posting, rows, requests, overlapped, outrun>>
    BY DEF SetChannel
<1> HIDE DEF session, card
<1> QED BY <1>4, <1>5, <1>7, <1>9, <1>10, <1>11, <1>12, SessionKeeps

LEMMA ExpireSetupKeeps ==
    ASSUME IInv, NEW g \in Guilds, ExpireSetup(g)
    PROVE  IInv'
<1>1. /\ sessions \in [Guilds -> SessionRecords] /\ sessions[g] \in SessionRecords
      /\ sessions[g].revision \in Nat
    BY DEF IInv, TypeOK, SessionRecords
<1> DEFINE session == [sessions[g] EXCEPT !.status = "expired", !.channel = None]
<1>2. sessions' = [sessions EXCEPT ![g] = session] /\ cards' = [cards EXCEPT ![g] = NoCard]
    BY <1>1 DEF ExpireSetup
<1>3. session \in SessionRecords
    BY <1>1 DEF SessionRecords, Places
<1>4. /\ session.status = "expired" /\ session.revision = sessions[g].revision
      /\ session.channel = None
    BY <1>1 DEF SessionRecords
<1>5. NoCard \in CardRecords /\ NoCard.revision = 0 /\ NoCard.channel = None
    BY EmptyTyped DEF NoCard
<1>6. /\ sessions[g].status = "active"
      /\ UNCHANGED <<globals, servers, posting, rows, requests, overlapped, outrun>>
    BY DEF ExpireSetup
<1>7. NoCard.revision <= session.revision
    BY <1>1, <1>4, <1>5
<1> HIDE DEF session
<1> QED BY <1>2, <1>3, <1>4, <1>5, <1>6, <1>7, SessionKeeps

-----------------------------------------------------------------------------
(***************************************************************************)
(* Rows.                                                                   *)
(***************************************************************************)
\* An explicit row stands; a row of profiles takes the creator projected.
LEMMA ProjectedRow ==
    ASSUME NEW o \in Owners, NEW row \in RowRecords, NEW p \in ProjectionRecords,
           row.creator \in Registered(o), p.creator \in Registered(o),
           row.active => row.creator # None
    PROVE  LET new == Projected(row, p)
           IN  /\ new \in RowRecords /\ new.creator \in Registered(o)
               /\ new.active => new.creator # None
               /\ new.managed = row.managed
               /\ ~row.managed => new = row
               /\ row.managed => (IF new.active THEN new.creator ELSE None) = p.creator
<1>1. CASE ~row.managed
    BY <1>1 DEF Projected
<1>2. CASE row.managed /\ p.creator = None
  <2> DEFINE new == [row EXCEPT !.active = FALSE]
  <2>1. Projected(row, p) = new
      BY <1>2 DEF Projected
  <2>2. new \in RowRecords /\ new.creator = row.creator /\ ~new.active /\ new.managed = row.managed
      BY DEF RowRecords
  <2> HIDE DEF new
  <2> QED BY <1>2, <2>1, <2>2
<1>3. CASE row.managed /\ p.creator # None
  <2> DEFINE new == [creator |-> p.creator, managed |-> TRUE, active |-> TRUE]
  <2>1. Projected(row, p) = new
      BY <1>3 DEF Projected
  <2>2. p.creator \in Anyones
      BY DEF ProjectionRecords
  <2>3. new \in RowRecords /\ new.creator = p.creator /\ new.active /\ new.managed
      BY <2>2 DEF RowRecords
  <2>4. new.managed = row.managed
      BY <1>3 DEF RowRecords
  <2> HIDE DEF new
  <2> QED BY <1>3, <2>1, <2>3, <2>4
<1> QED BY <1>1, <1>2, <1>3

\* A batch writes a function of guilds and owners.
LEMMA ProjectShape ==
    ASSUME NEW ps, Project(ps),
           \A g \in Guilds, o \in Owners : rows'[g][o] \in RowRecords
    PROVE  rows' \in [Guilds -> [Owners -> RowRecords]]
<1> DEFINE mine(g, o) == {p \in ps : p.guild = g /\ p.owner = o}
           row(g, o) == IF mine(g, o) = {} THEN rows[g][o]
                        ELSE Projected(rows[g][o], CHOOSE p \in mine(g, o) : TRUE)
<1>1. rows' = [g \in Guilds |-> [o \in Owners |-> row(g, o)]]
    BY DEF Project
<1> HIDE DEF row
<1> QED BY <1>1

\* A batch writes a row as it was projected, or leaves it.
LEMMA ProjectRows ==
    ASSUME TypeOK, NEW ps \in SUBSET ProjectionRecords, Project(ps),
           \A p \in ps : p.creator \in Registered(p.owner),
           NEW g \in Guilds, NEW o \in Owners
    PROVE  /\ rows'[g][o] \in RowRecords
           /\ rows'[g][o].creator \in Registered(o)
           /\ rows'[g][o].active => rows'[g][o].creator # None
           /\ rows'[g][o].managed = rows[g][o].managed
           /\ ~rows[g][o].managed => rows'[g][o] = rows[g][o]
           /\ \/ /\ rows'[g][o] = rows[g][o]
                 /\ ~\E p \in ps : p.guild = g /\ p.owner = o
              \/ \E p \in ps : /\ p.guild = g /\ p.owner = o
                               /\ rows[g][o].managed => RegisteredAs(g, o)' = p.creator
<1>1. /\ rows[g][o] \in RowRecords /\ rows[g][o].creator \in Registered(o)
      /\ rows[g][o].active => rows[g][o].creator # None
    BY DEF TypeOK
<1> DEFINE mine == {p \in ps : p.guild = g /\ p.owner = o}
           row == rows[g][o]
<1>2. rows'[g][o] = IF mine = {} THEN row ELSE Projected(row, CHOOSE p \in mine : TRUE)
    BY DEF Project
<1>3. CASE mine = {}
    BY <1>1, <1>2, <1>3
<1>4. CASE mine # {}
  <2> DEFINE p == CHOOSE x \in mine : TRUE
  <2>1. p \in mine
      BY <1>4
  <2>2. p \in ps /\ p.guild = g /\ p.owner = o
      BY <2>1
  <2>3. rows'[g][o] = Projected(row, p)
      BY <1>2, <1>4
  <2> HIDE DEF p, mine
  <2>4. p \in ProjectionRecords /\ p.creator \in Registered(o)
      BY <2>2
  <2> HIDE DEF row
  <2>5. row \in RowRecords /\ row.creator \in Registered(o) /\ (row.active => row.creator # None)
      BY <1>1 DEF row
  <2>6. /\ rows'[g][o] \in RowRecords /\ rows'[g][o].creator \in Registered(o)
        /\ rows'[g][o].active => rows'[g][o].creator # None
        /\ rows'[g][o].managed = row.managed
        /\ ~row.managed => rows'[g][o] = row
        /\ row.managed => (IF rows'[g][o].active THEN rows'[g][o].creator ELSE None) = p.creator
      BY <2>3, <2>4, <2>5, ProjectedRow
  <2>7. row.managed => RegisteredAs(g, o)' = p.creator
      BY <2>6 DEF RegisteredAs
  <2> QED BY <2>2, <2>6, <2>7 DEF row
<1> QED BY <1>3, <1>4

LEMMA RegisterKeeps ==
    ASSUME IInv, NEW g \in Guilds, NEW o \in Owners, NEW c \in Creators[o], Register(g, o, c)
    PROVE  IInv'
<1> DEFINE row == [creator |-> c, managed |-> FALSE, active |-> TRUE]
<1>1. /\ g \in configured /\ rows' = [rows EXCEPT ![g][o] = row]
      /\ UNCHANGED <<globals, servers, posting, sessions, cards, requests, overlapped, outrun>>
    BY DEF Register
<1>2. rows \in [Guilds -> [Owners -> RowRecords]]
    BY DEF IInv, TypeOK
<1>3. row \in RowRecords /\ c \in Registered(o) /\ c # None
    BY CreatorsAreCreators, RootsAssumption DEF RowRecords, Registered, Anyones
<1>4. rows' \in [Guilds -> [Owners -> RowRecords]]
    BY <1>1, <1>2, <1>3
<1>5. /\ rows'[g][o] = row
      /\ \A h \in Guilds, p \in Owners : h # g \/ p # o => rows'[h][p] = rows[h][p]
    BY <1>1, <1>2
<1>6. UNCHANGED configured
    BY <1>1 DEF configured
<1>7. TypeOK'
  <2>1. \A h \in Guilds, p \in Owners :
            /\ rows'[h][p].creator \in Registered(p)
            /\ rows'[h][p].active => rows'[h][p].creator # None
            /\ rows'[h][p] # NoRow => h \in configured
      BY <1>1, <1>3, <1>5 DEF IInv, TypeOK
  <2>2. UNCHANGED \A h \in Guilds : cards[h].revision <= sessions[h].revision
      BY <1>1
  <2> QED BY <1>1, <1>4, <1>6, <2>1, <2>2 DEF IInv, TypeOK
<1>8. RootsWhole' /\ CardsAreHonest' /\ SessionsWhole'
    BY <1>1 DEF IInv, RootsWhole, CardsAreHonest, CardsMatch, SessionsWhole
<1>9. ExplicitIsActive'
    BY <1>5 DEF IInv, ExplicitIsActive
<1>10. RequestsWhole'
    BY <1>1, <1>6 DEF IInv, RequestsWhole, PublicationWhole, CompletionWhole, Holds
<1>11. InStep'
  <2>1. CASE overlapped
      BY <1>1, <2>1 DEF InStep
  <2>2. CASE ~overlapped
    <3>1. WebhooksFollowProfiles /\ \A s \in Requests :
              PublicationFresh(requests[s]) /\ CompletionFresh(requests[s])
        BY <2>2 DEF IInv, InStep
    <3>2. configured \subseteq Guilds
        BY DEF configured
    <3>3. WebhooksFollowProfiles'
      <4>1. SUFFICES ASSUME NEW h \in configured, NEW p \in Owners, rows'[h][p].managed
                     PROVE  RegisteredAs(h, p)' = Resolved(h, p).creator
          BY <1>1, <1>6, ReadsSame DEF WebhooksFollowProfiles
      <4>2. rows'[h][p] = rows[h][p]
          BY <1>5, <3>2, <4>1
      <4>3. RegisteredAs(h, p)' = RegisteredAs(h, p)
          BY <4>2 DEF RegisteredAs
      <4> QED BY <3>1, <4>1, <4>2, <4>3 DEF WebhooksFollowProfiles
    <3>4. \A s \in Requests : (PublicationFresh(requests[s]) /\ CompletionFresh(requests[s]))'
        BY <1>1, <1>6, <3>1, ReadsSame DEF PublicationFresh, CompletionFresh, Projections
    <3> QED BY <3>3, <3>4 DEF InStep
  <2> QED BY <2>1, <2>2
<1> QED BY <1>7, <1>8, <1>9, <1>10, <1>11 DEF IInv

-----------------------------------------------------------------------------
(***************************************************************************)
(* Publications.                                                           *)
(***************************************************************************)
\* What a publication that may be written knows and does.
LEMMA CommitPublishFacts ==
    ASSUME IInv, NEW r \in Requests, CommitPublish(r)
    PROVE  LET q == requests[r]
           IN  /\ q \in RequestRecords /\ q.kind = "publish" /\ q.guild \in Guilds
               /\ q.owner \in Owners /\ q.root \in RootRecords(Anyones) /\ q.root.version > 0
               /\ q.root.creator \in Registered(q.owner)
               /\ q.root.mode = "linked" => q.guild # Home /\ Published(globals[q.owner])
               /\ q.projections \in SUBSET ProjectionRecords
               /\ \A p \in q.projections :
                    p.owner = q.owner /\ p.guild \in configured /\ p.creator \in Registered(p.owner)
<1>1. requests[r] \in RequestRecords
    BY DEF IInv, TypeOK
<1>2. requests[r].kind = "publish" /\ PublicationWhole(requests[r])
    BY DEF IInv, RequestsWhole, CommitPublish
<1> QED BY <1>1, <1>2 DEF PublicationWhole, RequestRecords

\* It writes one root and leaves all others.
LEMMA CommitPublishRoots ==
    ASSUME IInv, NEW r \in Requests, CommitPublish(r)
    PROVE  LET q == requests[r]
           IN  /\ globals' \in [Owners -> RootRecords(Anyones)]
               /\ servers' \in [Servers -> [Owners -> RootRecords(Anyones)]]
               /\ \A o \in Owners : globals'[o] =
                    IF q.guild = Home /\ o = q.owner THEN q.root ELSE globals[o]
               /\ \A g \in Servers, o \in Owners : servers'[g][o] =
                    IF q.guild = g /\ o = q.owner THEN q.root ELSE servers[g][o]
<1> DEFINE q == requests[r]
<1>1. /\ q.guild \in Guilds /\ q.owner \in Owners /\ q.root \in RootRecords(Anyones)
    BY CommitPublishFacts
<1>2. /\ globals \in [Owners -> RootRecords(Anyones)]
      /\ servers \in [Servers -> [Owners -> RootRecords(Anyones)]]
    BY DEF IInv, TypeOK
<1>3. IF q.guild = Home
        THEN globals' = [globals EXCEPT ![q.owner] = q.root] /\ UNCHANGED servers
        ELSE servers' = [servers EXCEPT ![q.guild][q.owner] = q.root] /\ UNCHANGED globals
    BY DEF CommitPublish
<1> HIDE DEF q
<1>4. CASE q.guild = Home
  <2>1. globals' = [globals EXCEPT ![q.owner] = q.root] /\ servers' = servers
      BY <1>3, <1>4
  <2>2. \A g \in Servers : q.guild # g
      BY <1>4 DEF Servers
  <2> QED BY <1>1, <1>2, <1>4, <2>1, <2>2 DEF q
<1>5. CASE q.guild # Home
  <2>1. q.guild \in Servers
      BY <1>1, <1>5 DEF Servers
  <2>2. servers' = [servers EXCEPT ![q.guild][q.owner] = q.root] /\ globals' = globals
      BY <1>3, <1>5
  <2>3. servers' \in [Servers -> [Owners -> RootRecords(Anyones)]]
      BY <1>1, <1>2, <2>1, <2>2
  <2>4. \A g \in Servers, o \in Owners : servers'[g][o] =
            IF q.guild = g /\ o = q.owner THEN q.root ELSE servers[g][o]
      BY <1>1, <1>2, <2>1, <2>2
  <2> QED BY <1>2, <1>5, <2>2, <2>3, <2>4 DEF q
<1> QED BY <1>4, <1>5 DEF q

LEMMA CommitPublishTyped ==
    ASSUME IInv, NEW r \in Requests, CommitPublish(r)
    PROVE  TypeOK' /\ RootsWhole' /\ ExplicitIsActive'
<1> DEFINE q == requests[r]
<1>1. /\ q.guild \in Guilds /\ q.owner \in Owners /\ q.root.version > 0
      /\ q.root.creator \in Registered(q.owner)
      /\ q.root.mode = "linked" => q.guild # Home /\ Published(globals[q.owner])
      /\ q.projections \in SUBSET ProjectionRecords
      /\ \A p \in q.projections :
            p.owner = q.owner /\ p.guild \in configured /\ p.creator \in Registered(p.owner)
    BY CommitPublishFacts
<1>2. /\ globals' \in [Owners -> RootRecords(Anyones)]
      /\ servers' \in [Servers -> [Owners -> RootRecords(Anyones)]]
      /\ \A o \in Owners : globals'[o] =
            IF q.guild = Home /\ o = q.owner THEN q.root ELSE globals[o]
      /\ \A g \in Servers, o \in Owners : servers'[g][o] =
            IF q.guild = g /\ o = q.owner THEN q.root ELSE servers[g][o]
    BY CommitPublishRoots
<1>3. /\ Project(q.projections) /\ Set(r, Idle) /\ UNCHANGED <<posting, sessions, cards, outrun>>
      /\ overlapped' = (overlapped \/ Overlap(r))
    BY DEF CommitPublish
<1>4. TypeOK /\ RootsWhole /\ ExplicitIsActive
    BY DEF IInv
<1>5. UNCHANGED configured
    BY <1>3 DEF configured
<1> HIDE DEF q
<1>6. \A g \in Guilds, o \in Owners :
        /\ rows'[g][o] \in RowRecords
        /\ rows'[g][o].creator \in Registered(o)
        /\ rows'[g][o].active => rows'[g][o].creator # None
        /\ ~rows[g][o].managed => rows'[g][o] = rows[g][o]
        /\ rows'[g][o].managed = rows[g][o].managed
        /\ rows'[g][o] # rows[g][o] => g \in configured
    BY <1>1, <1>3, <1>4, ProjectRows
<1>7. rows' \in [Guilds -> [Owners -> RowRecords]]
    BY <1>3, <1>6, ProjectShape
<1>8. requests' \in [Requests -> RequestRecords] /\ overlapped' \in BOOLEAN
    BY <1>3, <1>4, EmptyTyped DEF TypeOK, Set
<1>9. \A o \in Owners : globals'[o].creator \in Registered(o)
    BY <1>1, <1>2, <1>4 DEF TypeOK
<1>10. \A g \in Servers, o \in Owners : servers'[g][o].creator \in Registered(o)
    BY <1>1, <1>2, <1>4 DEF TypeOK
<1>11. \A g \in Guilds, o \in Owners : rows'[g][o] # NoRow => g \in configured
    BY <1>4, <1>6 DEF TypeOK
<1>12. TypeOK'
    BY <1>2, <1>3, <1>4, <1>5, <1>6, <1>7, <1>8, <1>9, <1>10, <1>11 DEF TypeOK
<1>13. \A o \in Owners : Published(globals[o]) => Published(globals[o])'
    BY <1>1, <1>2 DEF Published
<1>14. \A o \in Owners : globals'[o].version = 0 => globals'[o] = NoRoot
    BY <1>1, <1>2, <1>4 DEF RootsWhole
<1>15. \A g \in Servers, o \in Owners : servers'[g][o].version = 0 => servers'[g][o] = NoRoot
    BY <1>1, <1>2, <1>4 DEF RootsWhole
<1>16. \A g \in Servers, o \in Owners :
        servers'[g][o].mode = "linked" => Published(globals[o])'
    BY <1>1, <1>2, <1>4, <1>13 DEF RootsWhole
<1>17. RootsWhole'
    BY <1>14, <1>15, <1>16 DEF RootsWhole
<1>18. ExplicitIsActive'
    BY <1>4, <1>6 DEF ExplicitIsActive
<1> QED BY <1>12, <1>17, <1>18

LEMMA CommitPublishWhole ==
    ASSUME IInv, NEW r \in Requests, CommitPublish(r)
    PROVE  CardsAreHonest' /\ SessionsWhole' /\ RequestsWhole'
<1>1. Set(r, Idle) /\ UNCHANGED <<posting, sessions, cards, outrun>>
    BY DEF CommitPublish
<1>2. UNCHANGED configured
    BY <1>1 DEF configured
<1>3. CardsAreHonest' /\ SessionsWhole'
    BY <1>1 DEF IInv, CardsAreHonest, CardsMatch, SessionsWhole
<1>4. \A o \in Owners : Published(globals[o]) => Published(globals[o])'
    BY CommitPublishFacts, CommitPublishRoots DEF Published
<1>5. SUFFICES ASSUME NEW s \in Requests
               PROVE  (PublicationWhole(requests[s]) /\ CompletionWhole(requests[s]))'
    BY <1>3 DEF RequestsWhole
<1>6. requests'[s] = requests[s] \/ requests'[s] = Idle
    BY <1>1 DEF IInv, TypeOK, Set
<1>7. CASE requests'[s] = Idle
    BY <1>7 DEF PublicationWhole, CompletionWhole, Idle
<1>8. CASE requests'[s] = requests[s]
  <2>1. PublicationWhole(requests[s]) /\ CompletionWhole(requests[s])
      BY DEF IInv, RequestsWhole
  <2>2. PublicationWhole(requests[s])'
      BY <1>2, <1>4, <1>8, <2>1 DEF PublicationWhole
  <2>3. CompletionWhole(requests[s])'
      BY <1>1, <1>2, <1>8, <2>1 DEF CompletionWhole, Holds
  <2> QED BY <2>2, <2>3
<1> QED BY <1>6, <1>7, <1>8

\* Where nobody else has read what it changes, the creators registered in all
\* guilds are those that the profiles now show.
LEMMA CommitPublishFollows ==
    ASSUME IInv, NEW r \in Requests, CommitPublish(r), ~overlapped
    PROVE  WebhooksFollowProfiles'
<1> DEFINE q == requests[r]
           projected == IF q.root.mode = "linked" THEN globals[q.owner].creator ELSE q.root.creator
<1>1. /\ q.kind = "publish" /\ q.guild \in Guilds /\ q.owner \in Owners /\ q.root.version > 0
      /\ q.root \in RootRecords(Anyones)
      /\ q.root.mode = "linked" => q.guild # Home /\ Published(globals[q.owner])
      /\ q.projections \in SUBSET ProjectionRecords
      /\ \A p \in q.projections : p.creator \in Registered(p.owner)
    BY CommitPublishFacts
<1>2. /\ \A o \in Owners : globals'[o] =
            IF q.guild = Home /\ o = q.owner THEN q.root ELSE globals[o]
      /\ \A g \in Servers, o \in Owners : servers'[g][o] =
            IF q.guild = g /\ o = q.owner THEN q.root ELSE servers[g][o]
    BY CommitPublishRoots
<1>3. Project(q.projections) /\ UNCHANGED configured
    BY DEF CommitPublish, configured
<1>4. TypeOK /\ RootsWhole /\ WebhooksFollowProfiles
    BY DEF IInv, InStep
<1>5. q.projections = Projections(PublishTargets(q.guild, q.owner), q.owner, projected)
    BY <1>1 DEF IInv, InStep, PublicationFresh
<1>6. SUFFICES ASSUME NEW g \in configured, NEW o \in Owners, rows'[g][o].managed
               PROVE  RegisteredAs(g, o)' = Resolved(g, o)'.creator
    BY <1>3 DEF WebhooksFollowProfiles
<1> HIDE DEF q, projected
<1>7. g \in Guilds /\ (g # Home => g \in Servers)
    BY DEF configured, Servers
<1>8. /\ rows'[g][o].managed = rows[g][o].managed
      /\ \/ /\ rows'[g][o] = rows[g][o]
            /\ ~\E p \in q.projections : p.guild = g /\ p.owner = o
         \/ \E p \in q.projections : /\ p.guild = g /\ p.owner = o
                                     /\ rows[g][o].managed => RegisteredAs(g, o)' = p.creator
    BY <1>1, <1>3, <1>4, <1>7, ProjectRows
<1>9. CASE o = q.owner /\ g \in PublishTargets(q.guild, q.owner)
  <2>1. \E p \in q.projections : p.guild = g /\ p.owner = o
    <3>1. [guild |-> g, owner |-> q.owner, creator |-> projected] \in q.projections
        BY <1>5, <1>9 DEF Projections
    <3> QED BY <1>9, <3>1
  <2>2. \A p \in q.projections : p.creator = projected
      BY <1>5 DEF Projections
  <2>3. RegisteredAs(g, o)' = projected
      BY <1>6, <1>8, <2>1, <2>2
  <2>4. Resolved(g, o)'.creator = projected
    <3>1. CASE g = Home
      <4>1. q.guild = Home
          BY <1>9, <3>1 DEF PublishTargets
      <4>2. globals'[o] = q.root
          BY <1>2, <1>9, <4>1
      <4>3. projected = q.root.creator
          BY <1>1, <4>1 DEF projected
      <4> QED BY <3>1, <4>2, <4>3 DEF Resolved
    <3>2. CASE g # Home /\ q.guild = Home
      <4>1. servers[g][o].mode = "linked"
          BY <1>9, <3>2 DEF PublishTargets
      <4>2. globals'[o] = q.root /\ servers'[g][o] = servers[g][o]
          BY <1>2, <1>7, <1>9, <3>2
      <4>3. Published(q.root) /\ projected = q.root.creator
          BY <1>1, <3>2 DEF Published, projected
      <4>4. Resolved(g, o)' = [q.root EXCEPT !.alias =
                                IF servers[g][o].override THEN servers[g][o].alias ELSE @]
          BY <3>2, <4>1, <4>2, <4>3 DEF Resolved
      <4> QED BY <1>1, <4>3, <4>4 DEF RootRecords
    <3>3. CASE g # Home /\ q.guild # Home
      <4>1. q.guild = g
          BY <1>9, <3>3 DEF PublishTargets
      <4>2. globals'[o] = globals[o] /\ servers'[g][o] = q.root
          BY <1>2, <1>7, <1>9, <3>3, <4>1
      <4>3. CASE q.root.mode = "independent"
        <5>1. projected = q.root.creator
            BY <4>3 DEF projected
        <5> QED BY <3>3, <4>2, <4>3, <5>1 DEF Resolved
      <4>4. CASE q.root.mode = "linked"
        <5>1. projected = globals[o].creator /\ Published(globals[o])
            BY <1>1, <1>9, <4>4 DEF projected
        <5>2. globals[o] \in RootRecords(Anyones)
            BY <1>4 DEF TypeOK
        <5>3. Resolved(g, o)' = [globals[o] EXCEPT !.alias =
                                    IF q.root.override THEN q.root.alias ELSE @]
            BY <3>3, <4>2, <4>4, <5>1 DEF Resolved
        <5> QED BY <5>1, <5>2, <5>3 DEF RootRecords
      <4> QED BY <1>1, <4>3, <4>4 DEF RootRecords, Modes
    <3> QED BY <3>1, <3>2, <3>3
  <2> QED BY <2>3, <2>4
<1>10. CASE ~(o = q.owner /\ g \in PublishTargets(q.guild, q.owner))
  <2>1. ~\E p \in q.projections : p.guild = g /\ p.owner = o
      BY <1>5, <1>10 DEF Projections
  <2>2. rows'[g][o] = rows[g][o]
      BY <1>8, <2>1
  <2>3. RegisteredAs(g, o)' = RegisteredAs(g, o)
      BY <2>2 DEF RegisteredAs
  <2>4. RegisteredAs(g, o) = Resolved(g, o).creator
      BY <1>4, <1>6, <2>2 DEF WebhooksFollowProfiles
  <2>5. Resolved(g, o)' = Resolved(g, o)
    <3>1. CASE o # q.owner
      <4>1. globals'[o] = globals[o] /\ (g # Home => servers'[g][o] = servers[g][o])
          BY <1>2, <1>7, <3>1
      <4> QED BY <4>1 DEF Resolved
    <3>2. CASE o = q.owner /\ q.guild = Home
      <4>1. g # Home /\ ~(servers[g][o].version > 0 /\ servers[g][o].mode = "linked")
          BY <1>6, <1>10, <3>2 DEF PublishTargets
      <4>2. servers[g][o] \in RootRecords(Anyones)
          BY <1>4, <1>7, <4>1 DEF TypeOK
      <4>3. servers[g][o].version = 0 => servers[g][o].mode = "independent"
          BY <1>4, <1>7, <4>1 DEF RootsWhole, NoRoot
      <4>4. servers[g][o].mode = "independent"
          BY <4>1, <4>2, <4>3 DEF RootRecords, Modes
      <4>5. servers'[g][o] = servers[g][o]
          BY <1>2, <1>7, <3>2, <4>1
      <4> QED BY <4>1, <4>4, <4>5 DEF Resolved
    <3>3. CASE o = q.owner /\ q.guild # Home
      <4>1. g # q.guild
          BY <1>6, <1>10, <3>3 DEF PublishTargets
      <4>2. globals'[o] = globals[o] /\ (g # Home => servers'[g][o] = servers[g][o])
          BY <1>2, <1>7, <3>3, <4>1
      <4> QED BY <4>2 DEF Resolved
    <3> QED BY <3>1, <3>2, <3>3
  <2> QED BY <2>3, <2>4, <2>5
<1> QED BY <1>9, <1>10

\* And what others have read is still what they would read.
LEMMA CommitPublishFresh ==
    ASSUME IInv, NEW r \in Requests, CommitPublish(r), ~overlapped, ~Overlap(r),
           NEW s \in Requests
    PROVE  (PublicationFresh(requests[s]) /\ CompletionFresh(requests[s]))'
<1> DEFINE q == requests[r]
<1> PICK x \in RequestRecords : x = requests[s]
    BY DEF IInv, TypeOK
<1>1. q.kind = "publish" /\ q.guild \in Guilds /\ q.owner \in Owners
    BY CommitPublishFacts
<1>2. /\ \A o \in Owners : globals'[o] =
            IF q.guild = Home /\ o = q.owner THEN q.root ELSE globals[o]
      /\ \A g \in Servers, o \in Owners : servers'[g][o] =
            IF q.guild = g /\ o = q.owner THEN q.root ELSE servers[g][o]
    BY CommitPublishRoots
<1>3. Set(r, Idle) /\ UNCHANGED configured
    BY DEF CommitPublish, configured
<1>4. requests'[s] = IF s = r THEN Idle ELSE x
    BY <1>3 DEF IInv, TypeOK, Set
<1>5. CASE s = r
    BY <1>4, <1>5 DEF PublicationFresh, CompletionFresh, Idle
<1>6. CASE s # r
  <2>1. PublicationFresh(x) /\ CompletionFresh(x) /\ PublicationWhole(x) /\ x \in RequestRecords
      BY DEF IInv, InStep, RequestsWhole, TypeOK
  <2>2. x.guild \in Guilds /\ configured \subseteq Guilds
      BY <2>1 DEF RequestRecords, configured
  <2>3. /\ ~(x.kind = "setup" /\ (x.guild = q.guild \/ q.guild = Home))
        /\ ~(x.kind = "publish" /\ x.owner = q.owner /\ (q.guild = Home) # (x.guild = Home))
      BY <1>6 DEF Overlap
  <2>4. requests'[s] = x
      BY <1>4, <1>6
  <2> HIDE DEF q
  <2>5. PublicationFresh(requests[s])'
    <3>1. SUFFICES ASSUME x.kind = "publish"
                   PROVE  x.projections = Projections(PublishTargets(x.guild, x.owner)', x.owner,
                            IF x.root.mode = "linked" THEN globals'[x.owner].creator
                            ELSE x.root.creator)
        BY <2>4 DEF PublicationFresh, Projections
    <3>2. x.owner \in Owners /\ (x.root.mode = "linked" => x.guild # Home)
        BY <2>1, <3>1 DEF PublicationWhole
    <3>3. x.root.mode = "linked" => globals'[x.owner] = globals[x.owner]
        BY <1>2, <2>3, <3>1, <3>2
    <3>4. PublishTargets(x.guild, x.owner)' = PublishTargets(x.guild, x.owner)
      <4>1. CASE x.guild # Home
          BY <1>3, <4>1 DEF PublishTargets
      <4>2. CASE x.guild = Home
        <5>1. \A h \in configured : h # Home => servers'[h][x.owner] = servers[h][x.owner]
            BY <1>2, <2>2, <2>3, <3>1, <3>2, <4>2 DEF Servers
        <5> QED BY <1>3, <4>2, <5>1 DEF PublishTargets
      <4> QED BY <4>1, <4>2
    <3> QED BY <2>1, <3>1, <3>3, <3>4 DEF PublicationFresh
  <2>6. CompletionFresh(requests[s])'
    <3>1. SUFFICES ASSUME x.kind = "setup"
                   PROVE  x.projections = SetupProjections(x.guild)'
        BY <2>4 DEF CompletionFresh
    <3>2. q.guild # Home /\ x.guild # q.guild
        BY <2>3, <3>1
    <3>3. \A o \in Owners : globals'[o] = globals[o]
        BY <1>2, <3>2
    <3>4. x.guild # Home => \A o \in Owners : servers'[x.guild][o] = servers[x.guild][o]
        BY <1>2, <2>2, <3>2 DEF Servers
    <3>5. SetupProjections(x.guild)' = SetupProjections(x.guild)
      <4>1. \A o \in Owners : Published(globals[o])' = Published(globals[o])
          BY <3>3 DEF Published
      <4>2. CASE x.guild = Home
          BY <3>3, <4>1, <4>2 DEF SetupProjections
      <4>3. CASE x.guild # Home
        <5>1. \A o \in Owners : Published(servers[x.guild][o])' = Published(servers[x.guild][o])
            BY <3>4, <4>3 DEF Published
        <5> QED BY <3>3, <3>4, <4>3, <5>1 DEF SetupProjections
      <4> QED BY <4>2, <4>3
    <3> QED BY <2>1, <3>1, <3>5 DEF CompletionFresh
  <2> QED BY <2>5, <2>6
<1> QED BY <1>5, <1>6

LEMMA CommitPublishKeeps ==
    ASSUME IInv, NEW r \in Requests, CommitPublish(r)
    PROVE  IInv'
<1>1. overlapped' = (overlapped \/ Overlap(r))
    BY DEF CommitPublish
<1>2. InStep'
    BY <1>1, CommitPublishFollows, CommitPublishFresh DEF InStep
<1> QED BY <1>2, CommitPublishTyped, CommitPublishWhole DEF IInv

-----------------------------------------------------------------------------
(***************************************************************************)
(* Completions of a setup.                                                 *)
(***************************************************************************)
\* What a completion that is written knows.
LEMMA CommitSetupFacts ==
    ASSUME IInv, NEW r \in Requests, CommitSetup(r)
    PROVE  LET q == requests[r]
           IN  /\ q \in RequestRecords /\ q.kind = "setup" /\ q.guild \in Guilds
               /\ q.revision \in Nat /\ q.channel \in Channels
               /\ q.revision <= sessions[q.guild].revision
               /\ Holds(q.guild, q.revision) => q.channel = sessions[q.guild].channel
               /\ q.twin => q.guild \in configured
               /\ q.twin /\ sessions[q.guild].revision = q.revision + 1
                      => q.channel = sessions[q.guild].channel
               /\ q.projections \in SUBSET ProjectionRecords
               /\ \A p \in q.projections : p.guild = q.guild /\ p.creator \in Registered(p.owner)
<1>1. requests[r] \in RequestRecords
    BY DEF IInv, TypeOK
<1>2. requests[r].kind = "setup" /\ CompletionWhole(requests[r])
    BY DEF IInv, RequestsWhole, CommitSetup
<1> QED BY <1>1, <1>2 DEF CompletionWhole, RequestRecords

\* Where it posts; its guild is configured from then on.
LEMMA CommitSetupPosts ==
    ASSUME IInv, NEW r \in Requests, CommitSetup(r)
    PROVE  LET q == requests[r]
           IN  /\ posting' \in [Guilds -> Places]
               /\ \A g \in Guilds : g # q.guild => posting'[g] = posting[g]
               /\ Holds(q.guild, q.revision) => posting'[q.guild] = q.channel
               /\ q.twin => posting'[q.guild] = q.channel
               /\ ~Holds(q.guild, q.revision) /\ ~q.twin /\ q.guild \in configured
                      => posting'[q.guild] = posting[q.guild]
               /\ configured' = configured \cup {q.guild}
<1> DEFINE q == requests[r]
<1>1. q.guild \in Guilds /\ q.channel \in Channels
    BY CommitSetupFacts
<1>2. posting \in [Guilds -> Places]
    BY DEF IInv, TypeOK
<1>3. posting' = [posting EXCEPT ![q.guild] = PostsTo(q, Holds(q.guild, q.revision))]
    BY DEF CommitSetup
<1>4. PostsTo(q, Holds(q.guild, q.revision)) \in Channels
    BY <1>1, <1>2, RootsAssumption DEF PostsTo, Places
<1>5. \A g \in Guilds : posting'[g] =
        IF g = q.guild THEN PostsTo(q, Holds(q.guild, q.revision)) ELSE posting[g]
    BY <1>1, <1>2, <1>3
<1>6. posting' \in [Guilds -> Places]
    BY <1>2, <1>3, <1>4 DEF Places
<1>7. configured' = configured \cup {q.guild}
    BY <1>1, <1>4, <1>5, RootsAssumption DEF configured
<1>8. /\ Holds(q.guild, q.revision) => posting'[q.guild] = q.channel
      /\ q.twin => posting'[q.guild] = q.channel
      /\ ~Holds(q.guild, q.revision) /\ ~q.twin /\ q.guild \in configured
            => posting'[q.guild] = posting[q.guild]
    BY <1>1, <1>5 DEF PostsTo, configured
<1> QED BY <1>5, <1>6, <1>7, <1>8

\* What it makes of its session and of the message.
LEMMA CommitSetupSessions ==
    ASSUME IInv, NEW r \in Requests, CommitSetup(r)
    PROVE  LET q == requests[r]
           IN  /\ sessions' \in [Guilds -> SessionRecords] /\ cards' \in [Guilds -> CardRecords]
               /\ \A g \in Guilds : g # q.guild \/ ~Holds(q.guild, q.revision)
                      => sessions'[g] = sessions[g] /\ cards'[g] = cards[g]
               /\ Holds(q.guild, q.revision) =>
                      /\ sessions[q.guild].revision = q.revision
                      /\ sessions'[q.guild].status = "completed"
                      /\ sessions'[q.guild].revision = q.revision + 1
                      /\ sessions'[q.guild].channel = q.channel
                      /\ cards'[q.guild] = [revision |-> q.revision + 1, channel |-> q.channel,
                                            ready |-> TRUE]
<1> DEFINE q == requests[r]
           g == q.guild
           card == [revision |-> q.revision + 1, channel |-> q.channel, ready |-> TRUE]
<1>1. /\ g \in Guilds /\ q.revision \in Nat /\ q.channel \in Channels
      /\ Holds(g, q.revision) => q.channel = sessions[g].channel
    BY CommitSetupFacts
<1>2. sessions \in [Guilds -> SessionRecords] /\ cards \in [Guilds -> CardRecords]
    BY DEF IInv, TypeOK
<1>3. CASE ~Holds(g, q.revision)
  <2>1. UNCHANGED <<sessions, cards>>
      BY <1>3 DEF CommitSetup
  <2> QED BY <1>2, <1>3, <2>1
<1>4. CASE Holds(g, q.revision)
  <2>1. /\ sessions' = [sessions EXCEPT ![g].status = "completed", ![g].revision = @ + 1]
        /\ cards' = [cards EXCEPT ![g] = card]
      BY <1>4 DEF CommitSetup, Show
  <2>2. sessions[g].revision = q.revision
      BY <1>4 DEF Holds
  <2> HIDE DEF q, g
  <2>3. card \in CardRecords
      BY <1>1 DEF CardRecords, Places
  <2>4. cards' \in [Guilds -> CardRecords] /\ cards'[g] = card
        /\ \A h \in Guilds : h # g => cards'[h] = cards[h]
      BY <1>1, <1>2, <2>1, <2>3
  <2> DEFINE half == [sessions EXCEPT ![g].status = "completed"]
  <2>5. half \in [Guilds -> SessionRecords]
      BY <1>1, <1>2 DEF SessionRecords
  <2>6. /\ half[g].status = "completed" /\ half[g].revision = q.revision
        /\ half[g].channel = sessions[g].channel
        /\ \A h \in Guilds : h # g => half[h] = sessions[h]
      BY <1>1, <1>2, <2>2 DEF SessionRecords
  <2>7. sessions' = [half EXCEPT ![g].revision = @ + 1]
      BY <1>1, <1>2, <2>1 DEF SessionRecords
  <2> HIDE DEF half
  <2>8. sessions' \in [Guilds -> SessionRecords]
      BY <1>1, <2>5, <2>6, <2>7 DEF SessionRecords
  <2>9. /\ sessions'[g].status = "completed" /\ sessions'[g].revision = q.revision + 1
        /\ sessions'[g].channel = sessions[g].channel
        /\ \A h \in Guilds : h # g => sessions'[h] = sessions[h]
      BY <1>1, <2>5, <2>6, <2>7 DEF SessionRecords
  <2> QED BY <1>1, <1>4, <2>2, <2>4, <2>8, <2>9 DEF q, g
<1> QED BY <1>3, <1>4

\* And of the requests: its twins learn that it has won.
LEMMA CommitSetupRequests ==
    ASSUME IInv, NEW r \in Requests, CommitSetup(r)
    PROVE  /\ requests' \in [Requests -> RequestRecords]
           /\ requests'[r] = Idle
           /\ \A s \in Requests : s # r =>
                \/ requests'[s] = requests[s]
                \/ /\ requests'[s] = [requests[s] EXCEPT !.twin = TRUE]
                   /\ requests[s].kind = "setup" /\ requests[s].guild = requests[r].guild
                   /\ requests[s].revision = requests[r].revision
                   /\ Holds(requests[r].guild, requests[r].revision)
<1>1. requests \in [Requests -> RequestRecords]
    BY DEF IInv, TypeOK
<1> DEFINE q == requests[r]
           twin(s) == /\ requests[s].kind = "setup" /\ requests[s].guild = q.guild
                      /\ requests[s].revision = q.revision
           new(s) == IF s = r THEN Idle
                     ELSE IF Holds(q.guild, q.revision) /\ twin(s)
                       THEN [requests[s] EXCEPT !.twin = TRUE] ELSE requests[s]
<1>2. requests' = [s \in Requests |-> new(s)]
    BY DEF CommitSetup
<1>3. \A x \in RequestRecords : [x EXCEPT !.twin = TRUE] \in RequestRecords
    BY DEF RequestRecords
<1>4. \A s \in Requests : new(s) \in RequestRecords
    BY <1>1, <1>3, EmptyTyped
<1>5. requests' \in [Requests -> RequestRecords]
  <2> HIDE DEF new
  <2> QED BY <1>2, <1>4
<1>6. \A s \in Requests : requests'[s] = new(s)
  <2> HIDE DEF new
  <2> QED BY <1>2
<1> QED BY <1>5, <1>6

LEMMA CommitSetupRows ==
    ASSUME IInv, NEW r \in Requests, CommitSetup(r)
    PROVE  /\ rows' \in [Guilds -> [Owners -> RowRecords]]
           /\ \A g \in Guilds, o \in Owners :
                /\ rows'[g][o].creator \in Registered(o)
                /\ rows'[g][o].active => rows'[g][o].creator # None
                /\ rows'[g][o].managed = rows[g][o].managed
                /\ ~rows[g][o].managed => rows'[g][o] = rows[g][o]
                /\ rows'[g][o] # rows[g][o] => g = requests[r].guild
<1> DEFINE q == requests[r]
<1>1. /\ q.projections \in SUBSET ProjectionRecords
      /\ \A p \in q.projections : p.guild = q.guild /\ p.creator \in Registered(p.owner)
    BY CommitSetupFacts
<1>2. TypeOK
    BY DEF IInv
<1>3. Project(q.projections) \/ UNCHANGED rows
    BY DEF CommitSetup
<1> HIDE DEF q
<1>4. CASE UNCHANGED rows
    BY <1>2, <1>4 DEF TypeOK
<1>5. CASE Project(q.projections)
  <2>1. \A g \in Guilds, o \in Owners :
            /\ rows'[g][o] \in RowRecords
            /\ rows'[g][o].creator \in Registered(o)
            /\ rows'[g][o].active => rows'[g][o].creator # None
            /\ rows'[g][o].managed = rows[g][o].managed
            /\ ~rows[g][o].managed => rows'[g][o] = rows[g][o]
            /\ rows'[g][o] # rows[g][o] => g = q.guild
      BY <1>1, <1>2, <1>5, ProjectRows
  <2>2. rows' \in [Guilds -> [Owners -> RowRecords]]
      BY <1>5, <2>1, ProjectShape
  <2> QED BY <2>1, <2>2 DEF q
<1> QED BY <1>3, <1>4, <1>5

LEMMA CommitSetupTyped ==
    ASSUME IInv, NEW r \in Requests, CommitSetup(r)
    PROVE  TypeOK' /\ RootsWhole' /\ ExplicitIsActive'
<1> DEFINE q == requests[r]
           g == q.guild
<1>1. /\ g \in Guilds /\ q.revision \in Nat
    BY CommitSetupFacts
<1>2. configured' = configured \cup {g} /\ posting' \in [Guilds -> Places]
    BY CommitSetupPosts
<1>3. /\ sessions' \in [Guilds -> SessionRecords] /\ cards' \in [Guilds -> CardRecords]
      /\ \A h \in Guilds : h # g \/ ~Holds(g, q.revision)
            => sessions'[h] = sessions[h] /\ cards'[h] = cards[h]
      /\ Holds(g, q.revision) =>
            /\ sessions[g].revision = q.revision
            /\ sessions'[g].status = "completed"
            /\ sessions'[g].revision = q.revision + 1
            /\ sessions'[g].channel = q.channel
            /\ cards'[g] = [revision |-> q.revision + 1, channel |-> q.channel, ready |-> TRUE]
    BY CommitSetupSessions
<1>4. /\ rows' \in [Guilds -> [Owners -> RowRecords]]
      /\ \A h \in Guilds, o \in Owners :
            /\ rows'[h][o].creator \in Registered(o)
            /\ rows'[h][o].active => rows'[h][o].creator # None
            /\ rows'[h][o].managed = rows[h][o].managed
            /\ ~rows[h][o].managed => rows'[h][o] = rows[h][o]
            /\ rows'[h][o] # rows[h][o] => h = g
    BY CommitSetupRows
<1>5. requests' \in [Requests -> RequestRecords]
    BY CommitSetupRequests
<1>6. TypeOK /\ RootsWhole /\ ExplicitIsActive
    BY DEF IInv
<1>7. UNCHANGED <<globals, servers>> /\ overlapped' \in BOOLEAN /\ outrun' \subseteq Guilds
  <2>1. outrun' \subseteq outrun \cup {g}
      BY DEF CommitSetup
  <2> QED BY <1>1, <1>6, <2>1 DEF CommitSetup, TypeOK
<1> HIDE DEF q, g
<1>8. \A h \in Guilds : cards'[h].revision <= sessions'[h].revision
    BY <1>1, <1>3, <1>6 DEF TypeOK
<1>9. \A h \in Guilds, o \in Owners : rows'[h][o] # NoRow => h \in configured'
    BY <1>2, <1>4, <1>6 DEF TypeOK
<1>10. TypeOK'
    BY <1>2, <1>3, <1>4, <1>5, <1>6, <1>7, <1>8, <1>9 DEF TypeOK
<1>11. RootsWhole'
    BY <1>6, <1>7 DEF RootsWhole, Published
<1>12. ExplicitIsActive'
    BY <1>4, <1>6 DEF ExplicitIsActive
<1> QED BY <1>10, <1>11, <1>12

LEMMA CommitSetupHonest ==
    ASSUME IInv, NEW r \in Requests, CommitSetup(r)
    PROVE  CardsAreHonest' /\ SessionsWhole'
<1> DEFINE q == requests[r]
           g == q.guild
           won == Holds(g, q.revision)
<1>1. /\ g \in Guilds /\ q.revision \in Nat /\ q.channel \in Channels
      /\ won => q.channel = sessions[g].channel
      /\ q.twin /\ sessions[g].revision = q.revision + 1 => q.channel = sessions[g].channel
    BY CommitSetupFacts
<1>2. /\ posting' \in [Guilds -> Places]
      /\ \A h \in Guilds : h # g => posting'[h] = posting[h]
      /\ won => posting'[g] = q.channel
      /\ q.twin => posting'[g] = q.channel
      /\ ~won /\ ~q.twin /\ g \in configured => posting'[g] = posting[g]
    BY CommitSetupPosts
<1>3. /\ \A h \in Guilds : h # g \/ ~won => sessions'[h] = sessions[h] /\ cards'[h] = cards[h]
      /\ won => /\ sessions[g].revision = q.revision
                /\ sessions'[g].status = "completed"
                /\ sessions'[g].revision = q.revision + 1
                /\ sessions'[g].channel = q.channel
                /\ cards'[g] = [revision |-> q.revision + 1, channel |-> q.channel,
                                ready |-> TRUE]
    BY CommitSetupSessions
<1>4. outrun' = IF won THEN outrun \ {g}
                ELSE IF q.twin /\ sessions[g].revision # q.revision + 1
                  THEN outrun \cup {g} ELSE outrun
    BY DEF CommitSetup
<1>5. CardsAreHonest /\ SessionsWhole /\ None \notin Channels
    BY RootsAssumption DEF IInv
<1> HIDE DEF q, g, won
<1>6. CardsMatch'
    BY <1>3, <1>5 DEF CardsAreHonest, CardsMatch
<1>7. \A h \in Guilds : h \notin outrun' /\ cards'[h].ready /\ sessions'[h].status = "completed"
            => posting'[h] = cards'[h].channel
  <2>1. SUFFICES ASSUME NEW h \in Guilds, h \notin outrun', cards'[h].ready,
                        sessions'[h].status = "completed"
                 PROVE  posting'[h] = cards'[h].channel
      OBVIOUS
  <2>2. CASE h # g
      BY <1>2, <1>3, <1>4, <1>5, <2>1, <2>2 DEF CardsAreHonest
  <2>3. CASE h = g /\ won
      BY <1>2, <1>3, <2>3
  <2>4. CASE h = g /\ ~won
    <3>1. sessions'[h] = sessions[h] /\ cards'[h] = cards[h]
        BY <1>3, <2>4
    <3>2. cards[h].revision = sessions[h].revision /\ posting[h] # None
        BY <1>5, <2>1, <3>1 DEF SessionsWhole
    <3>3. cards[h].channel = sessions[h].channel
        BY <1>5, <3>2 DEF CardsAreHonest, CardsMatch
    <3>4. CASE q.twin
      <4>1. sessions[g].revision = q.revision + 1
          BY <1>4, <2>1, <2>4, <3>4
      <4> QED BY <1>1, <1>2, <2>4, <3>1, <3>3, <3>4, <4>1
    <3>5. CASE ~q.twin
      <4>1. g \in configured /\ h \notin outrun
          BY <1>4, <2>1, <2>4, <3>2, <3>5 DEF configured
      <4>2. posting[h] = cards[h].channel
          BY <1>5, <2>1, <3>1, <4>1 DEF CardsAreHonest
      <4> QED BY <1>2, <2>4, <3>1, <3>5, <4>1, <4>2
    <3> QED BY <3>4, <3>5
  <2> QED BY <2>2, <2>3, <2>4
<1>8. CardsAreHonest'
    BY <1>6, <1>7 DEF CardsAreHonest
<1>9. SessionsWhole'
  <2>1. \A h \in Guilds : posting[h] # None => posting'[h] # None
      BY <1>1, <1>2, <1>5 DEF configured
  <2>2. won => posting'[g] # None
      BY <1>1, <1>2, <1>5
  <2> QED BY <1>1, <1>3, <1>5, <2>1, <2>2 DEF SessionsWhole
<1> QED BY <1>8, <1>9

LEMMA CommitSetupWhole ==
    ASSUME IInv, NEW r \in Requests, CommitSetup(r)
    PROVE  RequestsWhole'
<1> DEFINE q == requests[r]
           g == q.guild
           won == Holds(g, q.revision)
<1>1. SUFFICES ASSUME NEW s \in Requests
               PROVE  (PublicationWhole(requests[s]) /\ CompletionWhole(requests[s]))'
    BY DEF RequestsWhole
<1>2. PICK x \in RequestRecords : x = requests[s]
    BY DEF IInv, TypeOK
<1>3. PublicationWhole(x) /\ CompletionWhole(x)
    BY <1>2 DEF IInv, RequestsWhole
<1>4. configured \subseteq configured' /\ g \in configured' /\ UNCHANGED <<globals, servers>>
    BY CommitSetupPosts DEF CommitSetup
<1>5. g \in Guilds /\ q.revision \in Nat
    BY CommitSetupFacts
<1>6. /\ \A h \in Guilds : h # g \/ ~won => sessions'[h] = sessions[h] /\ cards'[h] = cards[h]
      /\ won => /\ sessions[g].revision = q.revision
                /\ sessions'[g].status = "completed"
                /\ sessions'[g].revision = q.revision + 1
                /\ sessions'[g].channel = q.channel
                /\ cards'[g] = [revision |-> q.revision + 1, channel |-> q.channel,
                                ready |-> TRUE]
    BY CommitSetupSessions
<1>7. won => q.channel = sessions[g].channel
    BY CommitSetupFacts
<1>8. \/ requests'[s] = Idle
      \/ requests'[s] = x
      \/ /\ requests'[s] = [x EXCEPT !.twin = TRUE] /\ x.kind = "setup"
         /\ x.guild = g /\ x.revision = q.revision /\ won
    BY <1>2, CommitSetupRequests
<1>9. won => sessions[g].status = "active"
    BY DEF Holds
<1> HIDE DEF q, g, won
<1>10. x.guild \in Guilds /\ x.revision \in Nat
    BY DEF RequestRecords
<1>11. CASE requests'[s] = Idle
    BY <1>11 DEF PublicationWhole, CompletionWhole, Idle
<1>12. CASE requests'[s] = x
  <2>1. PublicationWhole(requests[s])'
      BY <1>3, <1>4, <1>12 DEF PublicationWhole, Published
  <2>2. CASE x.guild # g \/ ~won
    <3>1. sessions'[x.guild] = sessions[x.guild]
        BY <1>6, <1>10, <2>2
    <3>2. CompletionWhole(requests[s])'
        BY <1>3, <1>4, <1>12, <3>1 DEF CompletionWhole, Holds
    <3> QED BY <2>1, <3>2
  <2>3. CASE x.guild = g /\ won /\ x.kind = "setup"
    <3>1. /\ x.channel \in Channels /\ x.revision <= q.revision
          /\ x.twin => x.revision < q.revision
          /\ \A p \in x.projections : p.guild = x.guild /\ p.creator \in Registered(p.owner)
        BY <1>3, <1>6, <2>3 DEF CompletionWhole
    <3>2. /\ sessions'[x.guild].status = "completed"
          /\ sessions'[x.guild].revision = q.revision + 1
        BY <1>6, <2>3
    <3>3. x.revision <= q.revision + 1 /\ (x.twin => x.revision < q.revision + 1)
          /\ (x.twin => q.revision + 1 # x.revision + 1)
        BY <1>5, <1>10, <3>1
    <3>4. CompletionWhole(requests[s])'
        BY <1>4, <1>12, <2>3, <3>1, <3>2, <3>3 DEF CompletionWhole, Holds
    <3> QED BY <2>1, <3>4
  <2>4. CASE x.kind # "setup"
      BY <1>12, <2>1, <2>4 DEF CompletionWhole
  <2> QED BY <2>2, <2>3, <2>4
<1>13. CASE /\ requests'[s] = [x EXCEPT !.twin = TRUE] /\ x.kind = "setup"
            /\ x.guild = g /\ x.revision = q.revision /\ won
  <2>1. PICK y \in RequestRecords :
            /\ y = requests'[s] /\ y.kind = "setup" /\ y.guild = g /\ y.revision = q.revision
            /\ y.channel = x.channel /\ y.projections = x.projections
    <3>1. [x EXCEPT !.twin = TRUE] \in RequestRecords
        BY DEF RequestRecords
    <3> QED BY <1>13, <3>1 DEF RequestRecords
  <2>2. x.channel = sessions[g].channel /\ x.channel \in Channels
      BY <1>3, <1>6, <1>9, <1>13 DEF CompletionWhole, Holds
  <2>3. \A p \in x.projections : p.guild = x.guild /\ p.creator \in Registered(p.owner)
      BY <1>3, <1>13 DEF CompletionWhole
  <2>4. /\ sessions'[g].revision = q.revision + 1 /\ sessions'[g].status = "completed"
        /\ sessions'[g].channel = sessions[g].channel
      BY <1>6, <1>7, <1>13
  <2>5. q.revision <= q.revision + 1 /\ q.revision < q.revision + 1
      BY <1>5
  <2>6. PublicationWhole(requests[s])'
      BY <2>1 DEF PublicationWhole
  <2>7. CompletionWhole(requests[s])'
      BY <1>4, <1>13, <2>1, <2>2, <2>3, <2>4, <2>5 DEF CompletionWhole, Holds
  <2> QED BY <2>6, <2>7
<1> QED BY <1>8, <1>11, <1>12, <1>13

\* A completion that is written over what it read leaves the rows as the
\* profiles show.
LEMMA CommitSetupFollows ==
    ASSUME IInv, NEW r \in Requests, CommitSetup(r), ~overlapped'
    PROVE  WebhooksFollowProfiles'
<1> DEFINE q == requests[r]
           g == q.guild
           won == Holds(g, q.revision)
<1>1. /\ q.kind = "setup" /\ g \in Guilds /\ q.projections \in SUBSET ProjectionRecords
      /\ \A p \in q.projections : p.guild = g /\ p.creator \in Registered(p.owner)
      /\ q.twin => g \in configured
    BY CommitSetupFacts
<1>2. configured' = configured \cup {g} /\ configured \subseteq Guilds
    BY CommitSetupPosts DEF configured
<1>3. ~overlapped /\ (g \in configured \/ won)
    BY DEF CommitSetup
<1>4. /\ UNCHANGED <<globals, servers>>
      /\ IF won \/ q.twin THEN Project(q.projections) ELSE UNCHANGED rows
    BY DEF CommitSetup
<1>5. TypeOK /\ RootsWhole /\ WebhooksFollowProfiles /\ q.projections = SetupProjections(g)
    BY <1>1, <1>3 DEF IInv, InStep, CompletionFresh
<1> HIDE DEF q, g, won
<1>6. \A h \in Guilds, o \in Owners : Resolved(h, o)' = Resolved(h, o)
    BY <1>4 DEF Resolved
<1>7. SUFFICES ASSUME NEW h \in configured', NEW o \in Owners, rows'[h][o].managed
               PROVE  RegisteredAs(h, o)' = Resolved(h, o).creator
    BY <1>1, <1>2, <1>6 DEF WebhooksFollowProfiles
<1>8. h \in Guilds
    BY <1>1, <1>2
<1>9. /\ rows'[h][o].managed = rows[h][o].managed
      /\ \/ rows'[h][o] = rows[h][o] /\
            (won \/ q.twin => ~\E p \in q.projections : p.guild = h /\ p.owner = o)
         \/ /\ won \/ q.twin
            /\ \E p \in q.projections : /\ p.guild = h /\ p.owner = o
                                        /\ rows[h][o].managed => RegisteredAs(h, o)' = p.creator
  <2>1. CASE won \/ q.twin
      BY <1>1, <1>4, <1>5, <1>8, <2>1, ProjectRows
  <2>2. CASE ~(won \/ q.twin)
      BY <1>4, <2>2
  <2> QED BY <2>1, <2>2
<1>10. CASE /\ won \/ q.twin
            /\ \E p \in q.projections : /\ p.guild = h /\ p.owner = o
                                        /\ rows[h][o].managed => RegisteredAs(h, o)' = p.creator
  <2>1. PICK p \in SetupProjections(g) : /\ p.guild = h /\ p.owner = o
                                         /\ RegisteredAs(h, o)' = p.creator
      BY <1>5, <1>7, <1>9, <1>10
  <2>2. h = g
      BY <1>1, <1>5, <2>1
  <2>3. CASE g = Home
    <3>1. p.creator = globals[o].creator
        BY <2>1, <2>3 DEF SetupProjections
    <3> QED BY <2>1, <2>2, <2>3, <3>1 DEF Resolved
  <2>4. CASE g # Home
    <3>1. p.creator = IF servers[g][o].mode = "linked" THEN globals[o].creator
                      ELSE servers[g][o].creator
        BY <2>1, <2>4 DEF SetupProjections
    <3>2. g \in Servers
        BY <1>1, <2>4 DEF Servers
    <3>3. CASE servers[g][o].mode = "linked"
      <4>1. Published(globals[o]) /\ globals[o] \in RootRecords(Anyones)
          BY <1>5, <3>2, <3>3 DEF RootsWhole, TypeOK
      <4>2. Resolved(g, o) = [globals[o] EXCEPT !.alias =
                                IF servers[g][o].override THEN servers[g][o].alias ELSE @]
          BY <2>4, <3>3, <4>1 DEF Resolved
      <4> QED BY <2>1, <2>2, <3>1, <3>3, <4>1, <4>2 DEF RootRecords
    <3>4. CASE servers[g][o].mode = "independent"
        BY <2>1, <2>2, <2>4, <3>1, <3>4 DEF Resolved
    <3> QED BY <1>5, <3>2, <3>3, <3>4 DEF TypeOK, RootRecords, Modes
  <2> QED BY <2>3, <2>4
<1>11. CASE rows'[h][o] = rows[h][o] /\
            (won \/ q.twin => ~\E p \in q.projections : p.guild = h /\ p.owner = o)
  <2>1. RegisteredAs(h, o)' = RegisteredAs(h, o) /\ rows[h][o].managed
      BY <1>7, <1>9, <1>11 DEF RegisteredAs
  <2>2. CASE h \in configured
      BY <1>5, <2>1, <2>2 DEF WebhooksFollowProfiles
  <2>3. CASE h \notin configured
    <3>1. h = g /\ won
        BY <1>2, <1>3, <2>3
    <3>2. RegisteredAs(h, o) = None
        BY <1>5, <1>8, <2>3 DEF TypeOK, RegisteredAs, NoRow
    <3>3. CASE h = Home
      <4>1. ~Published(globals[o])
        <5>1. SUFFICES ASSUME Published(globals[o])
                       PROVE  [guild |-> g, owner |-> o, creator |-> globals[o].creator]
                                \in q.projections
            BY <1>11, <3>1
        <5> QED BY <1>5, <3>1, <3>3, <5>1 DEF SetupProjections
      <4>2. globals[o] = NoRoot
          BY <1>5, <4>1 DEF RootsWhole, Published, TypeOK, RootRecords
      <4> QED BY <2>1, <3>2, <3>3, <4>2 DEF Resolved, NoRoot
    <3>4. CASE h # Home
      <4>1. h \in Servers
          BY <1>8, <3>4 DEF Servers
      <4>2. ~Published(servers[h][o])
        <5>1. SUFFICES ASSUME Published(servers[h][o])
                       PROVE  [guild |-> g, owner |-> o,
                               creator |-> IF servers[g][o].mode = "linked" THEN globals[o].creator
                                           ELSE servers[g][o].creator] \in q.projections
            BY <1>11, <3>1
        <5> QED BY <1>5, <3>1, <3>4, <5>1 DEF SetupProjections
      <4>3. servers[h][o] = NoRoot
          BY <1>5, <4>1, <4>2 DEF RootsWhole, Published, TypeOK, RootRecords
      <4> QED BY <2>1, <3>2, <3>4, <4>3 DEF Resolved, NoRoot
    <3> QED BY <3>3, <3>4
  <2> QED BY <2>2, <2>3
<1> QED BY <1>9, <1>10, <1>11

LEMMA CommitSetupFresh ==
    ASSUME IInv, NEW r \in Requests, CommitSetup(r), ~overlapped', NEW s \in Requests
    PROVE  (PublicationFresh(requests[s]) /\ CompletionFresh(requests[s]))'
<1> DEFINE q == requests[r]
           g == q.guild
<1>1. PICK x \in RequestRecords : x = requests[s]
    BY DEF IInv, TypeOK
<1>2. /\ ~overlapped /\ (g \in configured \/ ~Unaware(g)) /\ UNCHANGED <<globals, servers>>
    BY DEF CommitSetup
<1>3. configured' = configured \cup {g}
    BY CommitSetupPosts
<1>4. PublicationFresh(x) /\ CompletionFresh(x)
    BY <1>1, <1>2 DEF IInv, InStep
<1>5. requests'[s] = Idle \/ requests'[s] = x
      \/ (requests'[s] = [x EXCEPT !.twin = TRUE] /\ x.kind = "setup")
    BY <1>1, CommitSetupRequests
<1>6. x.kind = "publish" => g \in configured \/ (x.guild # g /\ x.guild # Home)
    BY <1>1, <1>2 DEF Unaware
<1> HIDE DEF q, g
<1>7. \A h : SetupProjections(h)' = SetupProjections(h)
    BY <1>2 DEF SetupProjections
<1>8. CASE requests'[s] = Idle
    BY <1>8 DEF PublicationFresh, CompletionFresh, Idle
<1>9. CASE requests'[s] = x
  <2>1. x.kind = "publish" => PublishTargets(x.guild, x.owner)' = PublishTargets(x.guild, x.owner)
    <3>1. CASE g \in configured
      <4>1. configured' = configured
          BY <1>3, <3>1
      <4> QED BY <1>2, <4>1 DEF PublishTargets
    <3>2. CASE x.guild # g /\ x.guild # Home
        BY <1>3, <3>2 DEF PublishTargets
    <3> QED BY <1>6, <3>1, <3>2
  <2>2. PublicationFresh(requests[s])'
      BY <1>2, <1>4, <1>9, <2>1 DEF PublicationFresh, Projections
  <2>3. CompletionFresh(requests[s])'
      BY <1>4, <1>7, <1>9 DEF CompletionFresh
  <2> QED BY <2>2, <2>3
<1>10. CASE requests'[s] = [x EXCEPT !.twin = TRUE] /\ x.kind = "setup"
  <2>1. PICK y \in RequestRecords : /\ y = requests'[s] /\ y.kind = "setup"
                                    /\ y.guild = x.guild /\ y.projections = x.projections
    <3>1. [x EXCEPT !.twin = TRUE] \in RequestRecords
        BY DEF RequestRecords
    <3> QED BY <1>10, <3>1 DEF RequestRecords
  <2>2. PublicationFresh(requests[s])'
      BY <2>1 DEF PublicationFresh
  <2>3. CompletionFresh(requests[s])'
      BY <1>4, <1>7, <1>10, <2>1 DEF CompletionFresh
  <2> QED BY <2>2, <2>3
<1> QED BY <1>5, <1>8, <1>9, <1>10

LEMMA CommitSetupKeeps ==
    ASSUME IInv, NEW r \in Requests, CommitSetup(r)
    PROVE  IInv'
<1>1. InStep'
    BY CommitSetupFollows, CommitSetupFresh DEF InStep
<1> QED BY <1>1, CommitSetupTyped, CommitSetupHonest, CommitSetupWhole DEF IInv

-----------------------------------------------------------------------------
(***************************************************************************)
(* Theorems about ProfileRoots.                                            *)
(***************************************************************************)
LEMMA RootsStuttering == IInv /\ UNCHANGED vars => IInv'
<1> SUFFICES ASSUME IInv, UNCHANGED vars PROVE IInv'
    OBVIOUS
<1> USE DEF vars
<1>1. UNCHANGED configured
    BY DEF configured
<1>2. TypeOK'
    BY <1>1 DEF IInv, TypeOK
<1>3. RootsWhole' /\ ExplicitIsActive' /\ CardsAreHonest' /\ SessionsWhole'
    BY DEF IInv, RootsWhole, ExplicitIsActive, CardsAreHonest, CardsMatch, SessionsWhole
<1>4. RequestsWhole'
    BY <1>1 DEF IInv, RequestsWhole, PublicationWhole, CompletionWhole, Holds
<1>5. InStep'
    BY <1>1, InStepSame DEF IInv
<1> QED BY <1>2, <1>3, <1>4, <1>5 DEF IInv

LEMMA RootsStep == IInv /\ [Next]_vars => IInv'
<1> SUFFICES ASSUME IInv, [Next]_vars PROVE IInv'
    OBVIOUS
<1>1. ASSUME NEW r \in Requests, NEW g \in Guilds, NEW o \in Owners, CollectPublish(r, g, o)
      PROVE  IInv'
    BY <1>1, CollectPublishKeeps
<1>2. ASSUME NEW r \in Requests, CommitPublish(r) PROVE IInv'
    BY <1>2, CommitPublishKeeps
<1>3. ASSUME NEW r \in Requests, Refused(r) PROVE IInv'
    BY <1>3, RefusedKeeps
<1>4. ASSUME NEW r \in Requests, NEW g \in Guilds, CollectSetup(r, g) PROVE IInv'
    BY <1>4, CollectSetupKeeps
<1>5. ASSUME NEW r \in Requests, CommitSetup(r) PROVE IInv'
    BY <1>5, CommitSetupKeeps
<1>6. ASSUME NEW g \in Guilds, StartSetup(g) PROVE IInv'
    BY <1>6, StartSetupKeeps
<1>7. ASSUME NEW g \in Guilds, SetChannel(g) PROVE IInv'
    BY <1>7, SetChannelKeeps
<1>8. ASSUME NEW g \in Guilds, ExpireSetup(g) PROVE IInv'
    BY <1>8, ExpireSetupKeeps
<1>9. ASSUME NEW g \in Guilds, NEW o \in Owners, NEW c \in Creators[o], Register(g, o, c)
      PROVE  IInv'
    BY <1>9, RegisterKeeps
<1> QED BY <1>1, <1>2, <1>3, <1>4, <1>5, <1>6, <1>7, <1>8, <1>9, RootsStuttering DEF Next

\* For any owners, guilds and requests: every reachable state of profiles, setup
\* sessions and registrations satisfies the inductive invariant, what requests
\* hold in their local variables included.
THEOREM RootsInvariance == Spec => []IInv
BY RootsInit, RootsStep, PTL DEF Spec

\* Type correctness, with every row of a configured guild and of a creator of its
\* own user.
THEOREM RootsTypeCorrect == Spec => []TypeOK
<1>1. IInv => TypeOK
    BY DEF IInv
<1> QED BY <1>1, RootsInvariance, PTL

\* Deliveries follow profiles: however many publications, changes of mode and
\* setups, as long as no batch was written over reads that another had outdated.
THEOREM RegisteredAsPublishedCorrect == Spec => []RegisteredAsPublished
<1>1. IInv => RegisteredAsPublished
    BY DEF IInv, InStep, RegisteredAsPublished
<1> QED BY <1>1, RootsInvariance, PTL

\* Who confirms a channel gets that channel.
THEOREM CardsAreHonestCorrect == Spec => []CardsAreHonest
<1>1. IInv => CardsAreHonest
    BY DEF IInv
<1> QED BY <1>1, RootsInvariance, PTL

\* The index of aliases and the resolver agree.
THEOREM AliasesMirrorProfilesCorrect == Spec => []AliasesMirrorProfiles
<1>1. ASSUME TypeOK PROVE AliasesMirrorProfiles
  <2>1. SUFFICES ASSUME NEW g \in Guilds, NEW o \in Owners
                 PROVE  o \in AliasOwners(g) <=> Resolved(g, o).alias
      BY DEF AliasesMirrorProfiles, AliasOwners
  <2>2. CASE g = Home
      BY <1>1, <2>2 DEF AliasOwners, Resolved
  <2>3. CASE g # Home
    <3>1. servers[g][o] \in RootRecords(Anyones) /\ globals[o] \in RootRecords(Anyones)
        BY <1>1, <2>3 DEF TypeOK, Servers
    <3>2. CASE servers[g][o].mode = "independent"
        BY <2>3, <3>2 DEF AliasOwners, Resolved
    <3>3. CASE servers[g][o].mode = "linked" /\ ~Published(globals[o])
      <4>1. Resolved(g, o) = NoRoot
          BY <2>3, <3>3 DEF Resolved
      <4> QED BY <2>3, <3>3, <4>1 DEF AliasOwners, NoRoot
    <3>4. CASE servers[g][o].mode = "linked" /\ Published(globals[o])
      <4>1. Resolved(g, o) = [globals[o] EXCEPT !.alias =
                                IF servers[g][o].override THEN servers[g][o].alias ELSE @]
          BY <2>3, <3>4 DEF Resolved
      <4>2. Resolved(g, o).alias = IF servers[g][o].override THEN servers[g][o].alias
                                   ELSE globals[o].alias
          BY <3>1, <4>1 DEF RootRecords
      <4> QED BY <2>3, <3>4, <4>2 DEF AliasOwners
    <3> QED BY <3>1, <3>2, <3>3, <3>4 DEF RootRecords, Modes
  <2> QED BY <2>2, <2>3
<1>2. TypeOK => AliasesMirrorProfiles
    BY <1>1
<1> QED BY <1>2, RootsTypeCorrect, PTL

\* Explicit registrations stand: neither a publication nor a setup touches one,
\* whatever was registered between its reads and its batch.
THEOREM ExplicitRowsStandCorrect == Spec => ExplicitRowsStand
<1> DEFINE Stands == \A g \in Guilds, o \in Owners :
        ~rows[g][o].managed =>
            /\ ~rows'[g][o].managed /\ rows'[g][o].active
            /\ \/ globals' = globals /\ servers' = servers /\ sessions' = sessions
               \/ rows'[g][o] = rows[g][o]
<1>1. ASSUME IInv, [Next]_vars PROVE [Stands]_vars
  <2>1. SUFFICES ASSUME Next, NEW g \in Guilds, NEW o \in Owners, ~rows[g][o].managed
                 PROVE  /\ ~rows'[g][o].managed /\ rows'[g][o].active
                        /\ \/ globals' = globals /\ servers' = servers /\ sessions' = sessions
                           \/ rows'[g][o] = rows[g][o]
      BY <1>1
  <2>2. rows[g][o].active
      BY <1>1, <2>1 DEF IInv, ExplicitIsActive
  <2>3. ASSUME NEW r \in Requests, CommitPublish(r) PROVE rows'[g][o] = rows[g][o]
    <3>1. Project(requests[r].projections)
        BY <2>3 DEF CommitPublish
    <3>2. /\ requests[r].projections \in SUBSET ProjectionRecords
          /\ \A p \in requests[r].projections : p.creator \in Registered(p.owner)
        BY <1>1, <2>3, CommitPublishFacts
    <3> QED BY <1>1, <2>1, <3>1, <3>2, ProjectRows DEF IInv
  <2>4. ASSUME NEW r \in Requests, CommitSetup(r) PROVE rows'[g][o] = rows[g][o]
      BY <1>1, <2>1, <2>4, CommitSetupRows
  <2>5. ASSUME NEW h \in Guilds, NEW p \in Owners, NEW c \in Creators[p], Register(h, p, c)
        PROVE  /\ ~rows'[g][o].managed /\ rows'[g][o].active
               /\ globals' = globals /\ servers' = servers /\ sessions' = sessions
    <3>1. rows \in [Guilds -> [Owners -> RowRecords]]
        BY <1>1 DEF IInv, TypeOK
    <3> QED BY <2>1, <2>2, <2>5, <3>1 DEF Register
  <2>6. ASSUME NEW h \in Guilds, StartSetup(h) \/ SetChannel(h) \/ ExpireSetup(h)
        PROVE  rows'[g][o] = rows[g][o]
      BY <2>6 DEF StartSetup, SetChannel, ExpireSetup
  <2>7. ASSUME NEW r \in Requests, NEW h \in Guilds, NEW p \in Owners,
               CollectPublish(r, h, p)
        PROVE  rows'[g][o] = rows[g][o]
      BY <2>7 DEF CollectPublish
  <2>8. ASSUME NEW r \in Requests, Refused(r) PROVE rows'[g][o] = rows[g][o]
      BY <2>8 DEF Refused
  <2>9. ASSUME NEW r \in Requests, NEW h \in Guilds, CollectSetup(r, h)
         PROVE  rows'[g][o] = rows[g][o]
      BY <2>9 DEF CollectSetup
  <2> QED BY <2>1, <2>2, <2>3, <2>4, <2>5, <2>6, <2>7, <2>8, <2>9 DEF Next
<1>2. IInv /\ [Next]_vars => [Stands]_vars
    BY <1>1
<1>3. Spec => [][Stands]_vars
    BY <1>2, RootsInvariance, PTL DEF Spec
<1> QED BY <1>3 DEF ExplicitRowsStand

-----------------------------------------------------------------------------
(***************************************************************************)
(* Bill's wizard (ProfileWizard).                                          *)
(***************************************************************************)
\* What is empty, what was published before and what is idle have their types.
LEMMA WizardConstants ==
    /\ Empty \in Document /\ Rich \in Document
    /\ NoDraft \in DraftRecords /\ NoContract \in Contract
    /\ NoMessage \in MessageRecords /\ IdleTask \in TaskRecords
<1>1. Empty \in Document
    BY DEF Empty, Document
<1>2. Rich \in Document
  <2>1. \E o \in Offered : Receives(o)
      BY WizardAssumption DEF Receives
  <2>2. (CHOOSE o \in Offered : Receives(o)) \in Offered
      BY <2>1
  <2>3. (CHOOSE l \in Links : TRUE) \in Links
      BY WizardAssumption
  <2> QED BY <2>2, <2>3 DEF Rich, Document
<1>3. NoDraft \in DraftRecords
    BY <1>1 DEF NoDraft, DraftRecords, StepSets
<1>4. NoContract \in Contract
    BY <1>1 DEF NoContract, Contract, StepSets
<1>5. NoMessage \in MessageRecords
    BY <1>4 DEF NoMessage, MessageRecords
<1>6. IdleTask \in TaskRecords
  <2>1. 0 \in 0..MaxMessages /\ 0 \in 0..MaxSecrets
      BY WizardAssumption
  <2> QED BY <1>1, <1>4, <2>1 DEF IdleTask, TaskRecords, ControlNames
<1> QED BY <1>1, <1>2, <1>3, <1>4, <1>5, <1>6

\* What is kept of a contract is its draft and revision.
LEMMA SlimKeeps ==
    ASSUME NEW c \in Contract
    PROVE  Slim(c) \in Contract /\ Slim(c).draft = c.draft /\ Slim(c).revision = c.revision
<1>1. Slim(c) = [[c EXCEPT !.doc = Empty] EXCEPT !.steps = {}]
    BY DEF Slim, Contract
<1>2. [c EXCEPT !.doc = Empty] \in Contract
    BY WizardConstants DEF Contract
<1> QED BY <1>1, <1>2 DEF Contract, StepSets

LEMMA IdleHolds == TaskHolds(IdleTask) /\ MessageHolds(NoMessage)
BY DEF TaskHolds, MessageHolds, IdleTask, NoMessage, Informed

LEMMA WizardInitIInv == WizardInit => WizardIInv
<1> SUFFICES ASSUME WizardInit PROVE WizardIInv
    OBVIOUS
<1>1. drafts \in [DraftIds -> DraftRecords]
  <2>1. CASE drafts = [d \in DraftIds |-> NoDraft]
      BY <2>1, WizardConstants
  <2>2. ASSUME NEW last \in {"identity", "links"},
               drafts = [d \in DraftIds |->
                    IF d = 1 THEN [status |-> "active", revision |-> 1, doc |-> Rich,
                                   steps |-> {"orientation", "identity", last}]
                             ELSE NoDraft]
        PROVE  drafts \in [DraftIds -> DraftRecords]
    <3>1. [status |-> "active", revision |-> 1, doc |-> Rich,
           steps |-> {"orientation", "identity", last}] \in DraftRecords
        BY WizardConstants DEF DraftRecords, StepSets
    <3> QED BY <2>2, <3>1, WizardConstants
  <2> QED BY <2>1, <2>2 DEF WizardInit
<1>2. published = <<>> \/ published = <<[doc |-> Rich, seen |-> Rich]>>
    BY DEF WizardInit
<1>3. published \in Seq([doc : Document, seen : Document]) /\ PublishedIsWhatWasShown
  <2>1. CASE published = <<>>
      BY <2>1 DEF PublishedIsWhatWasShown
  <2>2. CASE published = <<[doc |-> Rich, seen |-> Rich]>>
    <3>1. [doc |-> Rich, seen |-> Rich] \in [doc : Document, seen : Document]
        BY WizardConstants
    <3> QED BY <2>2, <3>1 DEF PublishedIsWhatWasShown
  <2> QED BY <1>2, <2>1, <2>2
<1>4. /\ messages = [m \in 1..MaxMessages |-> NoMessage]
      /\ forms = {} /\ tasks = [t \in Tasks |-> IdleTask]
    BY DEF WizardInit
<1>5. WizardTypeOK
  <2>1. secret \in 0..MaxSecrets /\ shown \subseteq 1..MaxSecrets
      BY WizardAssumption DEF WizardInit
  <2> QED BY <1>1, <1>3, <1>4, <2>1, WizardConstants DEF WizardTypeOK
<1> QED BY <1>3, <1>4, <1>5, IdleHolds DEF WizardIInv

-----------------------------------------------------------------------------
(***************************************************************************)
(* Steps of the wizard's hands: the Worker holds what it held.             *)
(***************************************************************************)
LEMMA HandsKeep ==
    ASSUME WizardIInv, UNCHANGED worker,
           tasks' \in [Tasks -> TaskRecords],
           \A t \in Tasks : TaskHolds(tasks'[t]),
           messages' \in [1..MaxMessages -> MessageRecords],
           \A m \in 1..MaxMessages : MessageHolds(messages'[m]),
           forms' \subseteq FormRecords, \A form \in forms' : FormHolds(form),
           shown' \subseteq 1..MaxSecrets
    PROVE  WizardIInv'
<1>1. UNCHANGED <<drafts, published, secret>>
    BY DEF worker
<1>2. WizardTypeOK'
    BY <1>1 DEF WizardIInv, WizardTypeOK
<1>3. PublishedIsWhatWasShown'
    BY <1>1 DEF WizardIInv, PublishedIsWhatWasShown
<1>4. \A q \in TaskRecords : TaskHolds(q) => TaskHolds(q)'
    BY <1>1 DEF TaskHolds, Past, Informed, Honest, Usable
<1>5. \A m \in MessageRecords : MessageHolds(m) => MessageHolds(m)'
    BY <1>1 DEF MessageHolds, Past, Honest, Usable
<1>6. \A f \in FormRecords : FormHolds(f) => FormHolds(f)'
    BY <1>1 DEF FormHolds, Past, Honest, Usable
<1>7. \A t \in Tasks : TaskHolds(tasks[t])'
    BY <1>1 DEF TaskHolds, Past, Informed, Honest, Usable
<1>8. \A m \in 1..MaxMessages : MessageHolds(messages[m])'
    BY <1>1 DEF MessageHolds, Past, Honest, Usable
<1>9. \A f \in forms' : FormHolds(f)'
    BY <1>6
<1> QED BY <1>2, <1>3, <1>7, <1>8, <1>9 DEF WizardIInv

\* Only one interaction has other local variables, and hands others things that
\* hold.
LEMMA TaskKeeps ==
    ASSUME WizardIInv, UNCHANGED worker, NEW t \in Tasks, NEW rec \in TaskRecords,
           SetTask(t, rec), TaskHolds(rec), UNCHANGED messages,
           forms' \subseteq FormRecords, \A form \in forms' : form \in forms \/ FormHolds(form),
           UNCHANGED shown
    PROVE  WizardIInv'
<1>1. /\ tasks \in [Tasks -> TaskRecords] /\ messages \in [1..MaxMessages -> MessageRecords]
      /\ shown \subseteq 1..MaxSecrets
    BY DEF WizardIInv, WizardTypeOK
<1>2. tasks' = [tasks EXCEPT ![t] = rec]
    BY DEF SetTask
<1>3. tasks' \in [Tasks -> TaskRecords]
    BY <1>1, <1>2
<1>4. \A u \in Tasks : TaskHolds(tasks'[u])
  <2>1. SUFFICES ASSUME NEW u \in Tasks PROVE TaskHolds(tasks'[u])
      OBVIOUS
  <2>2. tasks'[u] = rec \/ tasks'[u] = tasks[u]
      BY <1>1, <1>2
  <2>3. TaskHolds(tasks[u])
      BY DEF WizardIInv
  <2> QED BY <2>2, <2>3
<1>5. \A m \in 1..MaxMessages : MessageHolds(messages'[m])
    BY DEF WizardIInv
<1>6. \A form \in forms' : FormHolds(form)
    BY DEF WizardIInv
<1> QED BY <1>1, <1>3, <1>4, <1>5, <1>6, HandsKeep

\* The same for an interaction that edits its message on the way.
LEMMA MessageKeeps ==
    ASSUME WizardIInv, UNCHANGED worker, NEW t \in Tasks, SetTask(t, IdleTask),
           NEW m, NEW message \in MessageRecords, messages' = [messages EXCEPT ![m] = message],
           MessageHolds(message),
           forms' \subseteq FormRecords, \A form \in forms' : form \in forms \/ FormHolds(form),
           shown' \subseteq 1..MaxSecrets
    PROVE  WizardIInv'
<1>1. tasks \in [Tasks -> TaskRecords] /\ messages \in [1..MaxMessages -> MessageRecords]
    BY DEF WizardIInv, WizardTypeOK
<1>2. tasks' = [tasks EXCEPT ![t] = IdleTask]
    BY DEF SetTask
<1>3. tasks' \in [Tasks -> TaskRecords]
    BY <1>1, <1>2, WizardConstants
<1>4. \A u \in Tasks : TaskHolds(tasks'[u])
  <2>1. SUFFICES ASSUME NEW u \in Tasks PROVE TaskHolds(tasks'[u])
      OBVIOUS
  <2>2. tasks'[u] = IdleTask \/ tasks'[u] = tasks[u]
      BY <1>1, <1>2
  <2>3. TaskHolds(tasks[u])
      BY DEF WizardIInv
  <2> QED BY <2>2, <2>3, IdleHolds
<1>5. messages' \in [1..MaxMessages -> MessageRecords]
    BY <1>1
<1>6. \A n \in 1..MaxMessages : MessageHolds(messages'[n])
  <2>1. SUFFICES ASSUME NEW n \in 1..MaxMessages PROVE MessageHolds(messages'[n])
      OBVIOUS
  <2>2. messages'[n] = message \/ messages'[n] = messages[n]
      BY <1>1
  <2>3. MessageHolds(messages[n])
      BY DEF WizardIInv
  <2> QED BY <2>2, <2>3
<1>7. \A form \in forms' : FormHolds(form)
    BY DEF WizardIInv
<1> QED BY <1>3, <1>4, <1>5, <1>6, <1>7, HandsKeep

LEMMA TasksAreTyped ==
    ASSUME WizardIInv, NEW t \in Tasks
    PROVE  tasks[t] \in TaskRecords /\ tasks[t].contract \in Contract /\ TaskHolds(tasks[t])
BY DEF WizardIInv, WizardTypeOK, TaskRecords

\* What can be pressed are controls.
LEMMA PressableControls ==
    ASSUME NEW message
    PROVE  /\ Pressable(message) \subseteq ControlNames
           /\ "publish" \in Pressable(message) => message.face = "wizard"
<1>1. Controls(message.contract) \subseteq ControlNames
    BY DEF Controls, ThroneControls, ReviewControls, ControlNames
<1>2. CASE message.face = "intro"
    BY <1>2 DEF Pressable, ControlNames
<1>3. CASE message.face = "wizard"
    BY <1>1, <1>3 DEF Pressable
<1>4. CASE message.face # "intro" /\ message.face # "wizard"
    BY <1>4 DEF Pressable
<1> QED BY <1>2, <1>3, <1>4

LEMMA PressKeeps ==
    ASSUME WizardIInv, NEW t \in Tasks, NEW m \in 1..MaxMessages, Press(t, m)
    PROVE  WizardIInv'
<1>1. PICK control \in Pressable(messages[m]) :
        SetTask(t, [IdleTask EXCEPT !.phase = "asked", !.control = control, !.message = m,
                                    !.contract = Slim(messages[m].contract),
                                    !.seen = IF control = "publish"
                                               THEN messages[m].contract.doc ELSE Empty])
    BY DEF Press
<1> DEFINE seen == IF control = "publish" THEN messages[m].contract.doc ELSE Empty
           c == messages[m].contract
           rec == [IdleTask EXCEPT !.phase = "asked", !.control = control, !.message = m,
                                   !.contract = Slim(c), !.seen = seen]
<1>2. /\ messages[m] \in MessageRecords /\ c \in Contract /\ MessageHolds(messages[m])
      /\ forms \subseteq FormRecords
    BY DEF WizardIInv, WizardTypeOK, MessageRecords
<1>3. control \in ControlNames /\ (control = "publish" => messages[m].face = "wizard")
    BY PressableControls
<1>4. messages[m].face # "none"
    BY <1>1 DEF Pressable
<1>5. Slim(c) \in Contract /\ Slim(c).draft = c.draft /\ Slim(c).revision = c.revision
    BY <1>2, SlimKeeps
<1>6. seen \in Document
    BY <1>2, WizardConstants DEF Contract
<1>7. /\ rec.phase = "asked" /\ rec.control = control /\ rec.contract = Slim(c)
      /\ rec.seen = seen
    BY DEF IdleTask
<1>8. rec \in TaskRecords
  <2>1. m \in 0..MaxMessages
      OBVIOUS
  <2> HIDE DEF seen, c
  <2>2. [IdleTask EXCEPT !.phase = "asked", !.control = control, !.message = m] \in TaskRecords
      BY <1>3, <2>1, WizardConstants DEF TaskRecords
  <2> DEFINE half == [IdleTask EXCEPT !.phase = "asked", !.control = control, !.message = m]
  <2>3. rec = [half EXCEPT !.contract = Slim(c), !.seen = seen]
      BY DEF IdleTask
  <2> HIDE DEF rec, half
  <2> QED BY <1>5, <1>6, <2>2, <2>3 DEF TaskRecords, half
<1>9. Past(Slim(c))
    BY <1>2, <1>4, <1>5 DEF MessageHolds, Past
<1>10. control = "publish" /\ Usable(Slim(c)) => seen = drafts[Slim(c).draft].doc
    BY <1>2, <1>3, <1>5 DEF MessageHolds, Honest, Usable
<1>11. UNCHANGED <<worker, shown, messages, forms>>
    BY DEF Press
<1>12. SetTask(t, rec)
    BY <1>1
<1> HIDE DEF rec, seen, c
<1>13. TaskHolds(rec)
    BY <1>7, <1>9, <1>10 DEF TaskHolds, Informed
<1> QED BY <1>2, <1>8, <1>11, <1>12, <1>13, TaskKeeps

\* The forms that are submitted without a document keep none.
LEMMA SubmitsControls ==
    ASSUME NEW form \in FormRecords, NEW control \in Submits[form.kind]
    PROVE  /\ control \in ControlNames /\ control # "publish"
           /\ form.kind \notin {"identity-modal", "link-view"} => control \in Blind
<1>1. form.kind \in Modals \cup {"restart-view", "link-view", "candidates-view", "resume-view"}
    BY DEF FormRecords, Submits
<1>2. CASE form.kind = "identity-modal"
    BY <1>1, <1>2 DEF Submits, ControlNames
<1>3. CASE form.kind = "link-modal"
    BY <1>1, <1>3 DEF Submits, ControlNames, Blind
<1>4. CASE form.kind = "edit-modal"
    BY <1>1, <1>4 DEF Submits, ControlNames, Blind
<1>5. CASE form.kind = "import-modal"
    BY <1>1, <1>5 DEF Submits, ControlNames, Blind
<1>6. CASE form.kind = "throne-modal"
    BY <1>1, <1>6 DEF Submits, ControlNames, Blind
<1>7. CASE form.kind = "restart-view"
    BY <1>1, <1>7 DEF Submits, ControlNames, Blind
<1>8. CASE form.kind = "link-view"
    BY <1>1, <1>8 DEF Submits, ControlNames
<1>9. CASE form.kind = "candidates-view"
    BY <1>1, <1>9 DEF Submits, ControlNames, Blind
<1>10. CASE form.kind = "resume-view"
    BY <1>1, <1>10 DEF Submits, ControlNames, Blind
<1> QED BY <1>1, <1>2, <1>3, <1>4, <1>5, <1>6, <1>7, <1>8, <1>9, <1>10 DEF Modals

LEMMA SubmitKeeps ==
    ASSUME WizardIInv, NEW t \in Tasks, NEW form \in forms, Submit(t, form)
    PROVE  WizardIInv'
<1>1. PICK control \in Submits[form.kind] :
        SetTask(t, [IdleTask EXCEPT !.phase = "ready", !.control = control, !.link = form.link,
                                    !.message = form.message, !.contract = form.contract,
                                    !.stage = IF control = "resume" THEN "intro" ELSE "check"])
    BY DEF Submit
<1> DEFINE stage == IF control = "resume" THEN "intro" ELSE "check"
           rec == [IdleTask EXCEPT !.phase = "ready", !.control = control, !.link = form.link,
                                   !.message = form.message, !.contract = form.contract,
                                   !.stage = stage]
<1>2. form \in FormRecords /\ FormHolds(form) /\ forms \subseteq FormRecords
    BY DEF WizardIInv, WizardTypeOK
<1>3. /\ control \in ControlNames /\ control # "publish"
      /\ form.kind \notin {"identity-modal", "link-view"} => control \in Blind
    BY <1>2, SubmitsControls
<1>4. /\ rec.phase = "ready" /\ rec.control = control /\ rec.contract = form.contract
      /\ rec.stage = stage
    BY DEF IdleTask
<1>5. rec \in TaskRecords
  <2>1. /\ form.link \in Links \cup {Unset} /\ form.message \in 0..MaxMessages
        /\ form.contract \in Contract
      BY <1>2 DEF FormRecords
  <2> DEFINE half == [IdleTask EXCEPT !.phase = "ready", !.control = control, !.link = form.link]
  <2>2. half \in TaskRecords
      BY <1>3, <2>1, WizardConstants DEF TaskRecords
  <2>3. rec = [half EXCEPT !.message = form.message, !.contract = form.contract, !.stage = stage]
      BY DEF IdleTask
  <2>4. stage \in {"check", "intro"}
      OBVIOUS
  <2> HIDE DEF rec, half, stage
  <2> QED BY <2>1, <2>2, <2>3, <2>4 DEF TaskRecords
<1>6. UNCHANGED <<worker, shown, messages>> /\ forms' \subseteq forms
    BY DEF Submit
<1>7. SetTask(t, rec)
    BY <1>1
<1>8. stage \in {"check", "intro"}
    OBVIOUS
<1> HIDE DEF rec, stage
<1>9. Informed(rec) => Honest(rec.contract)
    BY <1>2, <1>3, <1>4, <1>8 DEF Informed, FormHolds
<1>10. TaskHolds(rec)
    BY <1>2, <1>3, <1>4, <1>9 DEF TaskHolds, FormHolds
<1> QED BY <1>2, <1>5, <1>6, <1>7, <1>10, TaskKeeps

LEMMA ExpireKeeps ==
    ASSUME WizardIInv, NEW form \in forms, Expire(form)
    PROVE  WizardIInv'
<1>1. UNCHANGED <<worker, shown, messages, tasks>> /\ forms' \subseteq forms
    BY DEF Expire
<1>2. /\ tasks \in [Tasks -> TaskRecords] /\ messages \in [1..MaxMessages -> MessageRecords]
      /\ forms \subseteq FormRecords /\ shown \subseteq 1..MaxSecrets
    BY DEF WizardIInv, WizardTypeOK
<1>3. /\ \A t \in Tasks : TaskHolds(tasks'[t])
      /\ \A m \in 1..MaxMessages : MessageHolds(messages'[m])
      /\ \A f \in forms' : FormHolds(f)
    BY <1>1 DEF WizardIInv
<1> QED BY <1>1, <1>2, <1>3, HandsKeep

LEMMA RestartedKeeps ==
    ASSUME WizardIInv, Restarted
    PROVE  WizardIInv'
<1>1. /\ UNCHANGED <<worker, shown, messages>> /\ forms' = {}
      /\ tasks' = [t \in Tasks |-> IdleTask]
    BY DEF Restarted
<1>2. messages \in [1..MaxMessages -> MessageRecords] /\ shown \subseteq 1..MaxSecrets
    BY DEF WizardIInv, WizardTypeOK
<1>3. tasks' \in [Tasks -> TaskRecords] /\ \A t \in Tasks : TaskHolds(tasks'[t])
    BY <1>1, WizardConstants, IdleHolds
<1>4. \A m \in 1..MaxMessages : MessageHolds(messages'[m])
    BY <1>1 DEF WizardIInv
<1> QED BY <1>1, <1>2, <1>3, <1>4, HandsKeep

LEMMA AbandonKeeps ==
    ASSUME WizardIInv, NEW t \in Tasks, Abandon(t)
    PROVE  WizardIInv'
<1>1. SetTask(t, IdleTask) /\ UNCHANGED <<worker, shown, messages, forms>>
    BY DEF Abandon
<1>2. forms \subseteq FormRecords
    BY DEF WizardIInv, WizardTypeOK
<1> QED BY <1>1, <1>2, WizardConstants, IdleHolds, TaskKeeps

LEMMA StartKeeps ==
    ASSUME WizardIInv, NEW t \in Tasks, Start(t)
    PROVE  WizardIInv'
<1> DEFINE q == tasks[t]
           rec == [q EXCEPT !.stage = "show"]
<1>1. q \in TaskRecords /\ TaskHolds(q) /\ forms \subseteq FormRecords
    BY TasksAreTyped DEF WizardIInv, WizardTypeOK
<1>2. q.phase = "ready" /\ q.stage = "check" /\ q.control = "start"
    BY DEF Start, Called
<1>3. SetTask(t, rec) /\ UNCHANGED <<worker, shown, messages, forms>>
    BY DEF Start
<1> HIDE DEF q
<1>4. /\ rec \in TaskRecords /\ rec.phase = "ready" /\ rec.stage = "show"
      /\ rec.contract = q.contract
    BY <1>1, <1>2 DEF TaskRecords
<1>5. Past(q.contract) /\ Honest(q.contract)
    BY <1>1, <1>2 DEF TaskHolds, Informed, Blind
<1> HIDE DEF rec
<1>6. TaskHolds(rec)
    BY <1>4, <1>5 DEF TaskHolds
<1> QED BY <1>1, <1>3, <1>4, <1>6, TaskKeeps

\* The revision a control was checked at stays, any other is taken from the row.
LEMMA ReadRowKeeps ==
    ASSUME WizardIInv, NEW t \in Tasks, ReadRow(t)
    PROVE  WizardIInv'
<1> DEFINE q == tasks[t]
           d == drafts[q.contract.draft]
           c == [q.contract EXCEPT !.revision = d.revision]
           rec == [q EXCEPT !.phase = "row", !.contract = c]
<1>1. /\ q \in TaskRecords /\ q.contract \in Contract /\ TaskHolds(q)
      /\ forms \subseteq FormRecords
    BY TasksAreTyped DEF WizardIInv, WizardTypeOK
<1>2. /\ q.phase = "asked" /\ (q.stage = "check" => IsCurrent(t))
      /\ UNCHANGED <<worker, shown, messages, forms>>
    BY DEF ReadRow, ReadContract
<1>3. SetTask(t, rec)
  <2>1. SetTask(t, [q EXCEPT !.phase = "row", !.contract = Read(@, d, "asked")])
      BY DEF ReadRow, ReadContract
  <2>2. Read(q.contract, d, "asked") = c
      BY DEF Read
  <2> QED BY <2>1, <2>2, <1>1 DEF TaskRecords
<1>4. Past(q.contract)
    BY <1>1, <1>2 DEF TaskHolds
<1>5. d \in DraftRecords
    BY <1>4 DEF Past, WizardIInv, WizardTypeOK
<1>6. q.stage = "check" => d.revision = q.contract.revision
    BY <1>2 DEF IsCurrent
<1>7. d.revision \in Nat
    BY <1>5 DEF DraftRecords
<1>8. /\ c \in Contract /\ c.draft = q.contract.draft /\ c.revision = d.revision
    BY <1>1, <1>7 DEF Contract
<1>9. Past(c)
  <2>1. drafts[c.draft].revision = c.revision
      BY <1>8
  <2> QED BY <1>4, <1>7, <1>8, <2>1 DEF Past
<1>10. q.phase # "idle" /\ q.stage = "check" /\ q.control = "publish" /\ Usable(q.contract)
           => q.seen = d.doc
    BY <1>1 DEF TaskHolds
<1>11. q.stage = "check" /\ Usable(c) => Usable(q.contract)
    BY <1>6, <1>8 DEF Usable
<1>12. drafts[c.draft] = d
    BY <1>8
<1> HIDE DEF c, d, q
<1>13. /\ rec \in TaskRecords /\ rec.phase = "row" /\ rec.stage = q.stage
       /\ rec.control = q.control /\ rec.contract = c /\ rec.seen = q.seen
    BY <1>1, <1>8 DEF TaskRecords
<1> HIDE DEF rec
<1>14. TaskHolds(rec)
  <2>1. ~Informed(rec)
      BY <1>13 DEF Informed
  <2>2. rec.stage = "check" /\ rec.control = "publish" /\ Usable(rec.contract)
            => rec.seen = drafts[rec.contract.draft].doc
      BY <1>2, <1>10, <1>11, <1>12, <1>13
  <2> QED BY <1>9, <1>13, <2>1, <2>2 DEF TaskHolds
<1> QED BY <1>1, <1>2, <1>3, <1>13, <1>14, TaskKeeps

\* The document and the steps are those of the revision read before, unless the
\* draft has moved on.
LEMMA ReadRestKeeps ==
    ASSUME WizardIInv, NEW t \in Tasks, ReadRest(t)
    PROVE  WizardIInv'
<1> DEFINE q == tasks[t]
           d == drafts[q.contract.draft]
           c == [q.contract EXCEPT !.doc = d.doc, !.steps = d.steps]
           rec == [q EXCEPT !.phase = "ready", !.contract = c]
<1>1. /\ q \in TaskRecords /\ q.contract \in Contract /\ TaskHolds(q)
      /\ forms \subseteq FormRecords
    BY TasksAreTyped DEF WizardIInv, WizardTypeOK
<1>2. q.phase = "row" /\ UNCHANGED <<worker, shown, messages, forms>>
    BY DEF ReadRest, ReadContract
<1>3. SetTask(t, rec)
  <2>1. SetTask(t, [q EXCEPT !.phase = "ready", !.contract = Read(@, d, "row")])
      BY DEF ReadRest, ReadContract
  <2>2. Read(q.contract, d, "row") = c
      BY DEF Read
  <2> QED BY <2>1, <2>2, <1>1 DEF TaskRecords
<1>4. Past(q.contract)
    BY <1>1, <1>2 DEF TaskHolds
<1>5. d \in DraftRecords
    BY <1>4 DEF Past, WizardIInv, WizardTypeOK
<1>6. d.doc \in Document /\ d.steps \in StepSets
    BY <1>5 DEF DraftRecords
<1>7. /\ c.draft = q.contract.draft /\ c.revision = q.contract.revision
      /\ c.doc = d.doc /\ c.steps = d.steps
    BY <1>1 DEF Contract
<1>8. c \in Contract
  <2> DEFINE doc == d.doc
             steps == d.steps
             old == q.contract
  <2>1. old \in Contract /\ doc \in Document /\ steps \in StepSets
      BY <1>1, <1>6
  <2>2. c = [old EXCEPT !.doc = doc, !.steps = steps]
      OBVIOUS
  <2> HIDE DEF doc, steps, old, c
  <2> QED BY <2>1, <2>2 DEF Contract
<1>9. Past(c) /\ Honest(c)
  <2>1. drafts[c.draft] = d
      BY <1>7
  <2> QED BY <1>4, <1>7, <2>1 DEF Past, Honest
<1>10. q.stage = "check" /\ q.control = "publish" /\ Usable(q.contract) => q.seen = d.doc
    BY <1>1, <1>2 DEF TaskHolds
<1>11. (Usable(c) <=> Usable(q.contract)) /\ drafts[c.draft] = d
    BY <1>7 DEF Usable
<1> HIDE DEF c, d, q
<1>12. /\ rec \in TaskRecords /\ rec.phase = "ready" /\ rec.stage = q.stage
       /\ rec.control = q.control /\ rec.contract = c /\ rec.seen = q.seen
    BY <1>1, <1>8 DEF TaskRecords
<1> HIDE DEF rec
<1>13. TaskHolds(rec)
    BY <1>9, <1>10, <1>11, <1>12 DEF TaskHolds
<1> QED BY <1>1, <1>2, <1>3, <1>12, <1>13, TaskKeeps

\* A form keeps a whole contract only when it uses the document in it.
LEMMA FormIsTyped ==
    ASSUME WizardIInv, NEW c \in Contract, Past(c),
           NEW kind \in DOMAIN Submits, NEW message \in 0..MaxMessages,
           NEW link \in Links \cup {Unset},
           kind \in {"identity-modal", "link-view"} => Honest(c)
    PROVE  /\ Form(kind, c, message, link) \in FormRecords
           /\ FormHolds(Form(kind, c, message, link))
<1> DEFINE kept == IF kind \in {"identity-modal", "link-view"} THEN c ELSE Slim(c)
           form == Form(kind, c, message, link)
<1>1. kept \in Contract /\ kept.draft = c.draft /\ kept.revision = c.revision
    BY SlimKeeps
<1>2. form = [kind |-> kind, message |-> message, link |-> link, contract |-> kept]
    BY DEF Form
<1>3. kind \in {"identity-modal", "link-view"} => kept = c
    OBVIOUS
<1> HIDE DEF kept, form
<1>4. form \in FormRecords
    BY <1>1, <1>2 DEF FormRecords
<1>5. FormHolds(form)
    BY <1>1, <1>2, <1>3 DEF FormHolds, Past
<1> QED BY <1>4, <1>5 DEF form

LEMMA OpenFormKeeps ==
    ASSUME WizardIInv, NEW t \in Tasks, OpenForm(t)
    PROVE  WizardIInv'
<1> DEFINE q == tasks[t]
           c == q.contract
<1>1. /\ q \in TaskRecords /\ c \in Contract /\ TaskHolds(q)
      /\ forms \subseteq FormRecords
    BY TasksAreTyped DEF WizardIInv, WizardTypeOK
<1>2. /\ q.phase = "ready" /\ q.stage = "check" /\ SetTask(t, IdleTask)
      /\ UNCHANGED <<worker, shown, messages>>
    BY DEF OpenForm, At
<1>3. q.message \in 0..MaxMessages /\ q.link \in Links \cup {Unset}
    BY <1>1 DEF TaskRecords
<1>4. Past(c) /\ (q.control \notin Blind => Honest(c))
    BY <1>1, <1>2 DEF TaskHolds, Informed
<1>5. \E form \in FormRecords : FormHolds(form) /\ forms' = forms \cup {form}
  <2>1. CASE /\ q.control \in DOMAIN Opened
             /\ Open(Form(Opened[q.control], c, q.message, Unset))
    <3>1. Opened[q.control] \in DOMAIN Submits /\ q.control \notin Blind
        BY <2>1 DEF Opened, Submits, Modals, Blind
    <3>2. Honest(c)
        BY <1>4, <3>1
    <3>3. /\ Form(Opened[q.control], c, q.message, Unset) \in FormRecords
          /\ FormHolds(Form(Opened[q.control], c, q.message, Unset))
        BY <1>1, <1>3, <1>4, <3>1, <3>2, FormIsTyped
    <3> QED BY <2>1, <3>3 DEF Open
  <2>2. CASE /\ q.control = "link-select"
             /\ \E l \in LinksOf(c.doc) : Open(Form("link-view", c, q.message, l))
    <3>1. PICK l \in LinksOf(c.doc) : Open(Form("link-view", c, q.message, l))
        BY <2>2
    <3>2. l \in Links \cup {Unset} /\ "link-view" \in DOMAIN Submits
        BY DEF LinksOf, Submits
    <3>3. Honest(c)
        BY <1>4, <2>2 DEF Blind
    <3>4. /\ Form("link-view", c, q.message, l) \in FormRecords
          /\ FormHolds(Form("link-view", c, q.message, l))
        BY <1>1, <1>3, <1>4, <3>2, <3>3, FormIsTyped
    <3> QED BY <3>1, <3>4 DEF Open
  <2>3. CASE q.control = "edit" /\ Open(Form("edit-modal", c, q.message, q.link))
    <3>1. "edit-modal" \in DOMAIN Submits
        BY DEF Submits, Modals
    <3>2. /\ Form("edit-modal", c, q.message, q.link) \in FormRecords
          /\ FormHolds(Form("edit-modal", c, q.message, q.link))
        BY <1>1, <1>3, <1>4, <3>1, FormIsTyped
    <3> QED BY <2>3, <3>2 DEF Open
  <2> QED BY <2>1, <2>2, <2>3 DEF OpenForm
<1> QED BY <1>1, <1>2, <1>5, WizardConstants, IdleHolds, TaskKeeps

LEMMA ShowWizardKeeps ==
    ASSUME WizardIInv, NEW t \in Tasks, ShowWizard(t)
    PROVE  WizardIInv'
<1> DEFINE q == tasks[t]
           c == q.contract
           message == [face |-> "wizard", contract |-> c]
<1>1. /\ q \in TaskRecords /\ c \in Contract /\ TaskHolds(q)
      /\ forms \subseteq FormRecords /\ shown \subseteq 1..MaxSecrets
    BY TasksAreTyped DEF WizardIInv, WizardTypeOK
<1>2. /\ q.phase = "ready" /\ q.stage = "show" /\ SetTask(t, IdleTask) /\ UNCHANGED worker
      /\ messages' = [messages EXCEPT ![q.message] = message]
      /\ shown' = shown \cup ({q.secret} \ {0})
    BY DEF ShowWizard, At
<1>3. q.message \in 0..MaxMessages /\ q.secret \in 0..MaxSecrets
    BY <1>1 DEF TaskRecords
<1>4. shown' \subseteq 1..MaxSecrets
  <2>1. q.secret \in 0..MaxSecrets => {q.secret} \ {0} \subseteq 1..MaxSecrets
      BY WizardAssumption
  <2> HIDE DEF q
  <2> QED BY <1>1, <1>2, <1>3, <2>1
<1>5. Past(c) /\ Honest(c)
    BY <1>1, <1>2 DEF TaskHolds, Informed
<1>6. message \in MessageRecords /\ MessageHolds(message)
  <2>1. message.contract = c /\ message.face = "wizard"
      OBVIOUS
  <2> HIDE DEF c
  <2>2. message \in MessageRecords
      BY <1>1 DEF MessageRecords
  <2> HIDE DEF message
  <2> QED BY <1>5, <2>1, <2>2 DEF MessageHolds
<1>7. forms' = forms \/ \E form \in FormRecords : FormHolds(form) /\ forms' = forms \cup {form}
  <2>1. CASE q.control = "create-import"
    <3>1. Open(Form("candidates-view", c, q.message, Unset))
        BY <2>1 DEF ShowWizard
    <3>2. "candidates-view" \in DOMAIN Submits
        BY DEF Submits
    <3>3. /\ Form("candidates-view", c, q.message, Unset) \in FormRecords
          /\ FormHolds(Form("candidates-view", c, q.message, Unset))
        BY <1>1, <1>3, <1>5, <3>2, FormIsTyped
    <3> QED BY <3>1, <3>3 DEF Open
  <2> QED BY <2>1 DEF ShowWizard
<1>8. /\ forms' \subseteq FormRecords
      /\ \A form \in forms' : form \in forms \/ FormHolds(form)
    BY <1>1, <1>7
<1> HIDE DEF q, c, message
<1> QED BY <1>2, <1>4, <1>6, <1>8, MessageKeeps

LEMMA CloseKeeps ==
    ASSUME WizardIInv, NEW t \in Tasks, Close(t)
    PROVE  WizardIInv'
<1>1. /\ messages' = [messages EXCEPT ![tasks[t].message] = NoMessage]
      /\ SetTask(t, IdleTask) /\ UNCHANGED <<worker, shown, forms>>
    BY DEF Close
<1>2. forms \subseteq FormRecords /\ shown \subseteq 1..MaxSecrets
    BY DEF WizardIInv, WizardTypeOK
<1> QED BY <1>1, <1>2, WizardConstants, IdleHolds, MessageKeeps

LEMMA SendKeeps ==
    ASSUME WizardIInv, NEW t \in Tasks, Send(t)
    PROVE  WizardIInv'
<1> DEFINE q == tasks[t]
           c == q.contract
           message == IF q.stage = "new" THEN [face |-> "wizard", contract |-> c]
                                         ELSE [face |-> "intro", contract |-> Slim(c)]
<1>1. /\ q \in TaskRecords /\ c \in Contract /\ TaskHolds(q)
      /\ forms \subseteq FormRecords /\ shown \subseteq 1..MaxSecrets
    BY TasksAreTyped DEF WizardIInv, WizardTypeOK
<1>2. PICK m \in 1..MaxMessages : messages' = [messages EXCEPT ![m] = message]
    BY DEF Send
<1>3. /\ q.phase = "ready" /\ SetTask(t, IdleTask) /\ UNCHANGED <<worker, shown, forms>>
    BY DEF Send, At
<1>4. Past(c) /\ (q.stage = "new" => Honest(c))
    BY <1>1, <1>3 DEF TaskHolds, Informed
<1>5. Slim(c) \in Contract /\ Slim(c).draft = c.draft /\ Slim(c).revision = c.revision
    BY <1>1, SlimKeeps
<1>6. Past(Slim(c))
    BY <1>4, <1>5 DEF Past
<1>7. message \in MessageRecords /\ MessageHolds(message)
  <2>1. CASE q.stage = "new"
    <3>1. message.contract = c /\ message.face = "wizard"
        BY <2>1
    <3> HIDE DEF c
    <3>2. message \in MessageRecords
        BY <1>1, <2>1 DEF MessageRecords
    <3> HIDE DEF message
    <3> QED BY <1>4, <2>1, <3>1, <3>2 DEF MessageHolds
  <2>2. CASE q.stage # "new"
    <3>1. message.contract = Slim(c) /\ message.face = "intro"
        BY <2>2
    <3>2. message \in MessageRecords
        BY <1>5, <2>2 DEF MessageRecords
    <3> HIDE DEF message
    <3> QED BY <1>6, <3>1, <3>2 DEF MessageHolds
  <2> QED BY <2>1, <2>2
<1> HIDE DEF message
<1> QED BY <1>1, <1>2, <1>3, <1>7, MessageKeeps

-----------------------------------------------------------------------------
(***************************************************************************)
(* Steps of the Worker: a draft moves on to another revision, and what is  *)
(* held of it is of no use any more.                                       *)
(***************************************************************************)
LEMMA DraftStep ==
    ASSUME WizardIInv, NEW d \in DraftIds, NEW new \in DraftRecords,
           drafts' = [drafts EXCEPT ![d] = new],
           drafts[d].status = "none" \/ new.revision > drafts[d].revision,
           new.status # "none"
    PROVE  /\ \A c \in Contract : Past(c) => Past(c)'
           /\ \A c \in Contract : Past(c) /\ Usable(c)' =>
                    Usable(c) /\ drafts'[c.draft] = drafts[c.draft]
           /\ \A q \in TaskRecords : TaskHolds(q) => TaskHolds(q)'
           /\ \A m \in MessageRecords : MessageHolds(m) => MessageHolds(m)'
           /\ \A f \in FormRecords : FormHolds(f) => FormHolds(f)'
<1>1. drafts \in [DraftIds -> DraftRecords]
    BY DEF WizardIInv, WizardTypeOK
<1>2. \A e \in DraftIds : drafts'[e] = IF e = d THEN new ELSE drafts[e]
    BY <1>1
<1>3. new.revision \in Nat /\ \A e \in DraftIds : drafts[e].revision \in Nat
    BY <1>1 DEF DraftRecords
<1>4. \A c \in Contract : c.revision \in Nat
    BY DEF Contract
<1>5. ASSUME NEW c \in Contract, Past(c)
      PROVE  /\ Past(c)'
             /\ Usable(c)' => Usable(c) /\ drafts'[c.draft] = drafts[c.draft]
  <2>1. /\ c.draft \in DraftIds /\ drafts[c.draft].status # "none"
        /\ c.revision <= drafts[c.draft].revision /\ c.revision \in Nat
      BY <1>4, <1>5 DEF Past
  <2>2. CASE c.draft = d
    <3>1. drafts'[c.draft] = new /\ new.revision > c.revision
        BY <1>2, <1>3, <2>1, <2>2
    <3> QED BY <1>3, <2>1, <3>1 DEF Past, Usable
  <2>3. CASE c.draft # d
    <3>1. drafts'[c.draft] = drafts[c.draft]
        BY <1>2, <2>1, <2>3
    <3> QED BY <2>1, <3>1 DEF Past, Usable
  <2> QED BY <2>2, <2>3
<1>6. ASSUME NEW c \in Contract, Past(c), Honest(c)
      PROVE  Honest(c)'
    BY <1>5, <1>6 DEF Honest
<1>7. ASSUME NEW q \in TaskRecords, TaskHolds(q) PROVE TaskHolds(q)'
  <2>1. q.contract \in Contract
      BY DEF TaskRecords
  <2>2. q.phase # "idle" => Past(q.contract)'
      BY <1>5, <1>7, <2>1 DEF TaskHolds
  <2>3. (Informed(q) => Honest(q.contract)')
      BY <1>6, <1>7, <2>1 DEF TaskHolds, Informed
  <2>4. q.phase # "idle" /\ q.stage = "check" /\ q.control = "publish" /\ Usable(q.contract)'
            => q.seen = drafts'[q.contract.draft].doc
      BY <1>5, <1>7, <2>1 DEF TaskHolds
  <2> QED BY <2>2, <2>3, <2>4 DEF TaskHolds, Informed
<1>8. ASSUME NEW m \in MessageRecords, MessageHolds(m) PROVE MessageHolds(m)'
  <2>1. m.contract \in Contract
      BY DEF MessageRecords
  <2> QED BY <1>5, <1>6, <1>8, <2>1 DEF MessageHolds
<1>9. ASSUME NEW f \in FormRecords, FormHolds(f) PROVE FormHolds(f)'
  <2>1. f.contract \in Contract
      BY DEF FormRecords
  <2> QED BY <1>5, <1>6, <1>9, <2>1 DEF FormHolds
<1> QED BY <1>5, <1>7, <1>8, <1>9

\* A draft moves on; one interaction has other local variables.
LEMMA WorkerKeeps ==
    ASSUME WizardIInv, NEW d \in DraftIds, NEW new \in DraftRecords,
           drafts' = [drafts EXCEPT ![d] = new],
           drafts[d].status = "none" \/ new.revision > drafts[d].revision,
           new.status # "none",
           NEW t \in Tasks, NEW rec \in TaskRecords, SetTask(t, rec), TaskHolds(rec)',
           UNCHANGED <<messages, forms, shown>>,
           secret' \in 0..MaxSecrets,
           published' \in Seq([doc : Document, seen : Document]), PublishedIsWhatWasShown'
    PROVE  WizardIInv'
<1>1. /\ drafts \in [DraftIds -> DraftRecords] /\ tasks \in [Tasks -> TaskRecords]
      /\ messages \in [1..MaxMessages -> MessageRecords] /\ forms \subseteq FormRecords
      /\ shown \subseteq 1..MaxSecrets
    BY DEF WizardIInv, WizardTypeOK
<1>2. tasks' = [tasks EXCEPT ![t] = rec]
    BY DEF SetTask
<1>3. /\ \A q \in TaskRecords : TaskHolds(q) => TaskHolds(q)'
      /\ \A m \in MessageRecords : MessageHolds(m) => MessageHolds(m)'
      /\ \A f \in FormRecords : FormHolds(f) => FormHolds(f)'
    BY DraftStep
<1>4. drafts' \in [DraftIds -> DraftRecords] /\ tasks' \in [Tasks -> TaskRecords]
    BY <1>1, <1>2
<1>5. WizardTypeOK'
    BY <1>1, <1>4 DEF WizardTypeOK
<1>6. \A u \in Tasks : TaskHolds(tasks[u])'
  <2>1. SUFFICES ASSUME NEW u \in Tasks PROVE TaskHolds(tasks[u])'
      OBVIOUS
  <2>2. PICK q \in TaskRecords : q = tasks'[u]
      BY <1>4
  <2>3. q = rec \/ q = tasks[u]
      BY <1>1, <1>2, <2>2
  <2>4. TaskHolds(tasks[u])
      BY DEF WizardIInv
  <2>5. TaskHolds(q)'
    <3>1. CASE q = rec
        BY <3>1
    <3>2. CASE q = tasks[u]
      <4>1. TaskHolds(q)
          BY <2>4, <3>2
      <4> QED BY <1>3, <4>1
    <3> QED BY <2>3, <3>1, <3>2
  <2> QED BY <2>2, <2>5 DEF TaskHolds, Informed
<1>7. \A m \in 1..MaxMessages : MessageHolds(messages[m])'
  <2>1. SUFFICES ASSUME NEW m \in 1..MaxMessages PROVE MessageHolds(messages[m])'
      OBVIOUS
  <2>2. PICK message \in MessageRecords : message = messages[m]
      BY <1>1
  <2>3. MessageHolds(message)
      BY <2>2 DEF WizardIInv
  <2>4. MessageHolds(message)'
      BY <1>3, <2>3
  <2> QED BY <2>2, <2>4 DEF MessageHolds
<1>8. \A form \in forms' : FormHolds(form)'
  <2>1. SUFFICES ASSUME NEW form \in forms PROVE FormHolds(form)'
      OBVIOUS
  <2>2. form \in FormRecords /\ FormHolds(form)
      BY <1>1 DEF WizardIInv
  <2> QED BY <1>3, <2>2
<1> QED BY <1>5, <1>6, <1>7, <1>8 DEF WizardIInv

\* An edit that the Worker takes of a document that is one.
LEMMA WriteKeeps ==
    ASSUME WizardIInv, NEW t \in Tasks, tasks[t].phase # "idle",
           NEW doc \in Document, NEW steps \in StepSets,
           NEW rec \in TaskRecords, rec.contract = tasks[t].contract, rec.stage # "check",
           Write(t, doc, steps, rec), UNCHANGED forms, secret' \in 0..MaxSecrets
    PROVE  WizardIInv'
<1>1. PICK c \in Contract : c = tasks[t].contract
    BY TasksAreTyped
<1>2. Past(c)
    BY <1>1, TasksAreTyped DEF TaskHolds
<1>3. c.draft \in DraftIds /\ c.revision \in Nat
    BY <1>2 DEF Past, Contract
<1> DEFINE d == c.draft
<1>4. PICK old \in DraftRecords : old = drafts[d]
    BY <1>3 DEF WizardIInv, WizardTypeOK
<1> DEFINE new == [old EXCEPT !.doc = doc, !.steps = steps, !.revision = @ + 1]
           next == [rec EXCEPT !.phase = "asked", !.contract = Slim(c)]
<1>5. /\ old.status = "active" /\ old.revision = c.revision
      /\ UNCHANGED <<published, messages, shown>>
    BY <1>1, <1>4 DEF Write, Accepts
<1>6. drafts' = [drafts EXCEPT ![d] = new]
  <2>1. drafts' = [drafts EXCEPT ![d] = [drafts[d] EXCEPT !.doc = doc, !.steps = steps,
                                                        !.revision = drafts[d].revision + 1]]
      BY <1>1, <1>4 DEF Write, DraftRecords
  <2> QED BY <1>4, <2>1
<1>7. SetTask(t, next)
  <2>1. SetTask(t, [rec EXCEPT !.phase = "asked", !.contract = Slim(@)])
      BY DEF Write
  <2> QED BY <1>1, <2>1 DEF TaskRecords
<1>8. new \in DraftRecords /\ new.revision = c.revision + 1 /\ new.status = "active"
  <2>1. old.revision + 1 \in Nat
      BY <1>4 DEF DraftRecords
  <2>2. new = [[[old EXCEPT !.doc = doc] EXCEPT !.steps = steps] EXCEPT !.revision = old.revision + 1]
      BY <1>4 DEF DraftRecords
  <2>3. [old EXCEPT !.doc = doc] \in DraftRecords
      BY <1>4 DEF DraftRecords
  <2> QED BY <1>5, <2>1, <2>2, <2>3 DEF DraftRecords
<1>9. Slim(c) \in Contract /\ Slim(c).draft = c.draft /\ Slim(c).revision = c.revision
    BY SlimKeeps
<1>10. /\ next \in TaskRecords /\ next.phase = "asked" /\ next.stage # "check"
       /\ next.contract = Slim(c)
    BY <1>9 DEF TaskRecords
<1> HIDE DEF new, next, d
<1>11. Past(c)'
  <2>1. d \in DraftIds /\ new.revision > drafts[d].revision /\ new.status # "none"
      BY <1>3, <1>4, <1>5, <1>8 DEF d
  <2>2. \A k \in Contract : Past(k) => Past(k)'
      BY <1>6, <1>8, <2>1, DraftStep
  <2> QED BY <1>2, <2>2
<1>12. Past(Slim(c))'
    BY <1>9, <1>11 DEF Past
<1>13. PICK kept \in TaskRecords : kept = next
    BY <1>10
<1>14. TaskHolds(kept)'
    BY <1>10, <1>12, <1>13 DEF TaskHolds, Informed
<1>15. /\ published' \in Seq([doc : Document, seen : Document])
       /\ PublishedIsWhatWasShown'
    BY <1>5 DEF WizardIInv, WizardTypeOK, PublishedIsWhatWasShown
<1>16. d \in DraftIds /\ new.revision > drafts[d].revision
    BY <1>3, <1>4, <1>5, <1>8 DEF d
<1>17. SetTask(t, kept)
    BY <1>7, <1>13
<1> QED BY <1>5, <1>6, <1>8, <1>14, <1>15, <1>16, <1>17, WorkerKeeps

\* What an interaction has in hand when it calls the Worker.
LEMMA HandsAreTyped ==
    ASSUME WizardIInv, NEW t \in Tasks, tasks[t].phase # "idle"
    PROVE  /\ Current(t) \in Document /\ Held(t) \in Document
           /\ drafts[tasks[t].contract.draft] \in DraftRecords
           /\ drafts[tasks[t].contract.draft].steps \in StepSets
           /\ tasks[t].contract.draft \in DraftIds
<1>1. /\ tasks[t].contract \in Contract /\ Past(tasks[t].contract)
      /\ drafts \in [DraftIds -> DraftRecords]
    BY TasksAreTyped DEF TaskHolds, WizardIInv, WizardTypeOK
<1>2. drafts[tasks[t].contract.draft] \in DraftRecords /\ tasks[t].contract.draft \in DraftIds
    BY <1>1 DEF Past
<1> QED BY <1>1, <1>2 DEF Current, Held, Contract, DraftRecords

LEMMA SaveKeeps ==
    ASSUME WizardIInv, NEW t \in Tasks, tasks[t].phase # "idle",
           NEW docs \in SUBSET Document,
           NEW step \in {"", "orientation", "identity", "links", "throne"}, Save(t, docs, step)
    PROVE  WizardIInv'
<1> DEFINE steps == drafts[tasks[t].contract.draft].steps \cup ({step} \ {""})
           rec == [tasks[t] EXCEPT !.stage = "show"]
<1>1. PICK doc \in docs : Write(t, doc, steps, rec)
    BY DEF Save
<1>2. UNCHANGED <<secret, forms>>
    BY DEF Save
<1>3. steps \in StepSets
    BY HandsAreTyped DEF StepSets
<1>4. tasks[t] \in TaskRecords
    BY TasksAreTyped
<1>5. rec \in TaskRecords /\ rec.contract = tasks[t].contract /\ rec.stage # "check"
    BY <1>4 DEF TaskRecords
<1>6. secret' \in 0..MaxSecrets
    BY <1>2 DEF WizardIInv, WizardTypeOK
<1> HIDE DEF steps, rec
<1> QED BY <1>1, <1>2, <1>3, <1>5, <1>6, WriteKeeps

\* A change of one link is a change of a document.
LEMMA LinkIsTyped ==
    ASSUME NEW doc \in Document, NEW l \in Links, NEW k \in {"none", "social", "payment"}
    PROVE  WithLink(doc, l, k) \in Document
<1>1. WithLink(doc, l, k) = [doc EXCEPT !.links = [doc.links EXCEPT ![l] = k]]
    BY DEF Document, WithLink
<1>2. [doc.links EXCEPT ![l] = k] \in [Links -> {"none", "social", "payment"}]
    BY DEF Document
<1> QED BY <1>1, <1>2 DEF Document

LEMMA AdditionsAreTyped ==
    ASSUME NEW doc \in Document
    PROVE  /\ Types(doc) \subseteq {"none", "social", "payment"} /\ LinksOf(doc) \subseteq Links
           /\ Additions(doc) \in SUBSET Document
<1>1. Types(doc) \subseteq {"none", "social", "payment"} /\ LinksOf(doc) \subseteq Links
    BY DEF Types, LinksOf
<1>2. ASSUME NEW next \in Additions(doc) PROVE next \in Document
  <2>1. PICK l \in Links \ LinksOf(doc) : next \in {WithLink(doc, l, k) : k \in Types(doc)}
      BY <1>2 DEF Additions
  <2>2. PICK k \in Types(doc) : next = WithLink(doc, l, k)
      BY <2>1
  <2> QED BY <1>1, <2>2, LinkIsTyped
<1> QED BY <1>1, <1>2

LEMMA NormalisedIsTyped ==
    ASSUME NEW doc \in Document, NEW o \in Offered
    PROVE  Normalised(doc, o) \in Document
<1> DEFINE links == [l \in Links |->
                        IF doc.links[l] = "payment" /\ ~Receives(o) THEN "none" ELSE doc.links[l]]
           preferred == IF Receives(o) THEN doc.preferred ELSE Unset
           creator == doc.creator /\ Receives(o)
<1>1. Normalised(doc, o) = [doc EXCEPT !.orientation = o, !.links = links,
                                       !.preferred = preferred, !.creator = creator]
    BY DEF Normalised
<1>2. /\ links \in [Links -> {"none", "social", "payment"}]
      /\ preferred \in Links \cup {Unset}
    BY DEF Document
<1>3. creator \in BOOLEAN
    BY DEF Document, Receives
<1> HIDE DEF links, preferred, creator
<1>4. [doc EXCEPT !.orientation = o, !.links = links] \in Document
    BY <1>2 DEF Document
<1>5. Normalised(doc, o)
        = [[doc EXCEPT !.orientation = o, !.links = links] EXCEPT !.preferred = preferred,
                                                                  !.creator = creator]
    BY <1>1
<1> QED BY <1>2, <1>3, <1>4, <1>5 DEF Document

LEMMA StepsKeepDocuments ==
    ASSUME WizardIInv, NEW t \in Tasks,
           \/ OrientationSelect(t) \/ IdentitySelect(t) \/ IdentityModal(t)
           \/ CompleteLinks(t) \/ SkipThrone(t)
    PROVE  WizardIInv'
<1>1. tasks[t].phase # "idle"
    BY DEF OrientationSelect, IdentitySelect, IdentityModal, CompleteLinks, SkipThrone, Called
<1>2. PICK doc \in Document : doc = Current(t)
    BY <1>1, HandsAreTyped
<1>3. PICK held \in Document : held = Held(t)
    BY <1>1, HandsAreTyped
<1>4. CASE OrientationSelect(t)
  <2>1. {Normalised(doc, o) : o \in Offered} \in SUBSET Document
      BY NormalisedIsTyped
  <2>2. Save(t, {Normalised(doc, o) : o \in Offered}, "orientation")
      BY <1>2, <1>4 DEF OrientationSelect
  <2> QED BY <1>1, <2>1, <2>2, SaveKeeps
<1>5. CASE IdentitySelect(t)
  <2>1. [doc EXCEPT !.labels = ~held.labels, !.details = held.details] \in Document
    <3>1. \A b \in BOOLEAN : (~b) \in BOOLEAN
        OBVIOUS
    <3>2. held.labels \in BOOLEAN /\ held.details \in BOOLEAN
        BY DEF Document
    <3>3. (~held.labels) \in BOOLEAN
        BY <3>1, <3>2
    <3> QED BY <3>2, <3>3 DEF Document
  <2>2. Save(t, {[doc EXCEPT !.labels = ~held.labels, !.details = held.details]}, "")
      BY <1>2, <1>3, <1>5 DEF IdentitySelect
  <2> QED BY <1>1, <2>1, <2>2, SaveKeeps
<1>6. CASE IdentityModal(t)
  <2>1. [doc EXCEPT !.details = TRUE, !.labels = held.labels] \in Document
      BY DEF Document
  <2>2. Save(t, {[doc EXCEPT !.details = TRUE, !.labels = held.labels]}, "identity")
      BY <1>2, <1>3, <1>6 DEF IdentityModal
  <2> QED BY <1>1, <2>1, <2>2, SaveKeeps
<1>7. CASE CompleteLinks(t)
  <2>1. [doc EXCEPT !.links = held.links] \in Document
      BY DEF Document
  <2>2. Save(t, {[doc EXCEPT !.links = held.links]}, "links")
      BY <1>2, <1>3, <1>7 DEF CompleteLinks
  <2> QED BY <1>1, <2>1, <2>2, SaveKeeps
<1>8. CASE SkipThrone(t)
  <2>1. [doc EXCEPT !.creator = FALSE, !.preferred = held.preferred] \in Document
      BY DEF Document
  <2>2. Save(t, {[doc EXCEPT !.creator = FALSE, !.preferred = held.preferred]}, "throne")
      BY <1>2, <1>3, <1>8 DEF SkipThrone
  <2> QED BY <1>1, <2>1, <2>2, SaveKeeps
<1> QED BY <1>4, <1>5, <1>6, <1>7, <1>8

LEMMA LinksKeepDocuments ==
    ASSUME WizardIInv, NEW t \in Tasks,
           \/ LinkModal(t) \/ LinkModalEdit(t) \/ Remove(t) \/ Prefer(t)
           \/ CreateImport(t) \/ ConfirmImport(t)
    PROVE  WizardIInv'
<1>1. tasks[t].phase # "idle"
  <2>1. /\ LinkModal(t) => tasks[t].phase = "ready"
        /\ CreateImport(t) => tasks[t].phase = "ready"
        /\ ConfirmImport(t) => tasks[t].phase = "ready"
      BY DEF LinkModal, CreateImport, ConfirmImport, Called
  <2>2. LinkModalEdit(t) => tasks[t].phase = "ready"
      BY DEF LinkModalEdit, Called
  <2>3. Remove(t) => tasks[t].phase = "ready"
      BY DEF Remove, Called
  <2>4. Prefer(t) => tasks[t].phase = "ready"
      BY DEF Prefer, Called
  <2> QED BY <2>1, <2>2, <2>3, <2>4
<1>2. PICK doc \in Document : doc = Current(t)
    BY <1>1, HandsAreTyped
<1>3. PICK l \in Links \cup {Unset} : l = tasks[t].link
    BY TasksAreTyped DEF TaskRecords
<1>4. /\ Types(doc) \subseteq {"none", "social", "payment"} /\ LinksOf(doc) \subseteq Links
      /\ Additions(doc) \in SUBSET Document
    BY AdditionsAreTyped
<1>5. CASE LinkModal(t)
  <2>1. Save(t, Additions(doc), "")
      BY <1>2, <1>5 DEF LinkModal
  <2> QED BY <1>1, <1>4, <2>1, SaveKeeps
<1>6. CASE LinkModalEdit(t)
  <2> DEFINE docs == {WithLink(doc, l, type) : type \in Types(doc)}
  <2>1. l \in Links
      BY <1>2, <1>3, <1>4, <1>6 DEF LinkModalEdit
  <2>2. docs \in SUBSET Document
      BY <1>4, <2>1, LinkIsTyped
  <2>3. Save(t, docs, "")
      BY <1>2, <1>3, <1>6 DEF LinkModalEdit
  <2> QED BY <1>1, <2>2, <2>3, SaveKeeps
<1>7. CASE Remove(t)
  <2> DEFINE preferred == IF doc.preferred = l THEN Unset ELSE doc.preferred
             next == [WithLink(doc, l, "none") EXCEPT !.preferred = preferred]
  <2>1. l \in Links
      BY <1>2, <1>3, <1>4, <1>7 DEF Remove
  <2>2. next \in Document
    <3>1. preferred \in Links \cup {Unset}
        BY DEF Document
    <3>2. WithLink(doc, l, "none") \in Document
        BY <2>1, LinkIsTyped
    <3> HIDE DEF preferred
    <3> QED BY <3>1, <3>2 DEF Document
  <2>3. Save(t, {next}, "")
    <3>1. Save(t, {[WithLink(doc, l, "none") EXCEPT
                               !.preferred = IF @ = l THEN Unset ELSE @]}, "")
        BY <1>2, <1>3, <1>7 DEF Remove
    <3>2. WithLink(doc, l, "none").preferred = doc.preferred
        BY DEF WithLink, Document
    <3>3. WithLink(doc, l, "none") \in Document
        BY <2>1, LinkIsTyped
    <3> QED BY <3>1, <3>2, <3>3 DEF Document
  <2> HIDE DEF next
  <2> QED BY <1>1, <2>2, <2>3, SaveKeeps
<1>8. CASE Prefer(t)
  <2> DEFINE next == [WithLink(doc, l, "payment") EXCEPT !.preferred = l]
  <2>1. l \in Links
      BY <1>2, <1>3, <1>4, <1>8 DEF Prefer
  <2>2. next \in Document
    <3>1. WithLink(doc, l, "payment") \in Document
        BY <2>1, LinkIsTyped
    <3> QED BY <2>1, <3>1 DEF Document
  <2>3. Save(t, {next}, "")
      BY <1>2, <1>3, <1>8 DEF Prefer
  <2> HIDE DEF next
  <2> QED BY <1>1, <2>2, <2>3, SaveKeeps
<1>9. CASE CreateImport(t)
  <2>1. Save(t, {doc}, "")
      BY <1>2, <1>9 DEF CreateImport
  <2> QED BY <1>1, <2>1, SaveKeeps
<1>10. CASE ConfirmImport(t)
  <2>1. {doc} \cup Additions(doc) \in SUBSET Document
      BY <1>4
  <2>2. Save(t, {doc} \cup Additions(doc), "")
      BY <1>2, <1>10 DEF ConfirmImport
  <2> QED BY <1>1, <2>1, <2>2, SaveKeeps
<1> QED BY <1>5, <1>6, <1>7, <1>8, <1>9, <1>10

LEMMA WriteSecretKeeps ==
    ASSUME WizardIInv, NEW t \in Tasks, tasks[t].phase # "idle", NEW doc \in Document,
           WriteSecret(t, doc), UNCHANGED forms
    PROVE  WizardIInv'
<1> DEFINE rec == [tasks[t] EXCEPT !.stage = "second", !.secret = secret']
<1>1. secret' \in 0..MaxSecrets
    BY WizardAssumption DEF WriteSecret, WizardIInv, WizardTypeOK
<1>2. Write(t, doc, drafts[tasks[t].contract.draft].steps, rec)
    BY DEF WriteSecret
<1>3. PICK new \in TaskRecords : new = rec
  <2>1. tasks[t] \in TaskRecords
      BY TasksAreTyped
  <2> QED BY <1>1, <2>1 DEF TaskRecords
<1>4. new.contract = tasks[t].contract /\ new.stage # "check"
  <2>1. tasks[t] \in TaskRecords
      BY TasksAreTyped
  <2> QED BY <1>3, <2>1 DEF TaskRecords
<1>5. PICK steps \in StepSets : steps = drafts[tasks[t].contract.draft].steps
    BY HandsAreTyped
<1> HIDE DEF rec
<1> QED BY <1>1, <1>2, <1>3, <1>4, <1>5, WriteKeeps

LEMMA ThroneKeeps ==
    ASSUME WizardIInv, NEW t \in Tasks,
           AttachThrone(t) \/ RotateThrone(t) \/ SaveThrone(t)
    PROVE  WizardIInv'
<1>1. tasks[t].phase # "idle"
    BY DEF AttachThrone, RotateThrone, SaveThrone, Called, At
<1>2. PICK doc \in Document : doc = Current(t)
    BY <1>1, HandsAreTyped
<1>3. PICK held \in Document : held = Held(t)
    BY <1>1, HandsAreTyped
<1>4. PICK steps \in StepSets : steps = drafts[tasks[t].contract.draft].steps
    BY <1>1, HandsAreTyped
<1>5. tasks[t] \in TaskRecords /\ secret \in 0..MaxSecrets
    BY TasksAreTyped DEF WizardIInv, WizardTypeOK
<1>6. CASE AttachThrone(t)
  <2> DEFINE rec == [tasks[t] EXCEPT !.stage = "second"]
  <2>1. PICK next \in Document : next = [doc EXCEPT !.creator = TRUE]
      BY DEF Document
  <2>2. UNCHANGED forms
      BY <1>6 DEF AttachThrone
  <2>3. WriteSecret(t, next) \/ (Write(t, next, steps, rec) /\ UNCHANGED secret)
      BY <1>2, <1>4, <1>6, <2>1 DEF AttachThrone
  <2>4. CASE WriteSecret(t, next)
      BY <1>1, <2>2, <2>4, WriteSecretKeeps
  <2>5. CASE Write(t, next, steps, rec) /\ UNCHANGED secret
    <3>1. rec \in TaskRecords /\ rec.contract = tasks[t].contract /\ rec.stage # "check"
        BY <1>5 DEF TaskRecords
    <3>2. secret' \in 0..MaxSecrets
        BY <1>5, <2>5
    <3> HIDE DEF rec
    <3> QED BY <1>1, <2>2, <2>5, <3>1, <3>2, WriteKeeps
  <2> QED BY <2>3, <2>4, <2>5
<1>7. CASE RotateThrone(t)
  <2>1. WriteSecret(t, doc) /\ UNCHANGED forms
      BY <1>2, <1>7 DEF RotateThrone
  <2> QED BY <1>1, <2>1, WriteSecretKeeps
<1>8. CASE SaveThrone(t)
  <2> DEFINE rec == [tasks[t] EXCEPT !.stage = "show"]
             all == steps \cup {"throne"}
  <2>1. PICK next \in Document :
            next = [doc EXCEPT !.creator = held.creator, !.preferred = held.preferred]
      BY DEF Document
  <2>2. Write(t, next, all, rec) /\ UNCHANGED <<secret, forms>>
      BY <1>2, <1>3, <1>4, <1>8, <2>1 DEF SaveThrone
  <2>3. rec \in TaskRecords /\ rec.contract = tasks[t].contract /\ rec.stage # "check"
      BY <1>5 DEF TaskRecords
  <2>4. all \in StepSets /\ secret' \in 0..MaxSecrets
      BY <1>5, <2>2 DEF StepSets
  <2> HIDE DEF rec, all
  <2> QED BY <1>1, <2>2, <2>3, <2>4, WriteKeeps
<1> QED BY <1>6, <1>7, <1>8

LEMMA LatestIsTyped == WizardIInv => Latest \in Document
<1> SUFFICES ASSUME WizardIInv PROVE Latest \in Document
    OBVIOUS
<1>1. published \in Seq([doc : Document, seen : Document])
    BY DEF WizardIInv, WizardTypeOK
<1>2. CASE published = <<>>
    BY <1>2, WizardConstants DEF Latest
<1>3. CASE published # <<>>
  <2>1. Len(published) \in 1..Len(published)
      BY <1>1, <1>3
  <2>2. published[Len(published)] \in [doc : Document, seen : Document]
      BY <1>1, <2>1, ElementOfSeq
  <2> QED BY <1>3, <2>2 DEF Latest
<1> QED BY <1>2, <1>3

LEMMA RestartKeeps ==
    ASSUME WizardIInv, NEW t \in Tasks, Restart(t)
    PROVE  WizardIInv'
<1>1. PICK stage \in {"new", "intro"} :
        Write(t, Latest, {}, [tasks[t] EXCEPT !.stage = stage])
    BY DEF Restart
<1> DEFINE rec == [tasks[t] EXCEPT !.stage = stage]
<1>2. tasks[t].phase # "idle" /\ UNCHANGED <<secret, forms>>
    BY DEF Restart, At
<1>3. tasks[t] \in TaskRecords /\ secret' \in 0..MaxSecrets
    BY <1>2, TasksAreTyped DEF WizardIInv, WizardTypeOK
<1>4. rec \in TaskRecords /\ rec.contract = tasks[t].contract /\ rec.stage # "check"
    BY <1>3 DEF TaskRecords
<1>5. Latest \in Document /\ {} \in StepSets
    BY LatestIsTyped DEF StepSets
<1>6. Write(t, Latest, {}, rec)
    BY <1>1
<1> HIDE DEF rec
<1> QED BY <1>2, <1>3, <1>4, <1>5, <1>6, WriteKeeps

\* What is published is what the presser of Publish saw: the revision compared
\* in between is the one of that message.
LEMMA PublishKeeps ==
    ASSUME WizardIInv, NEW t \in Tasks, Publish(t)
    PROVE  WizardIInv'
<1>1. PICK q \in TaskRecords : q = tasks[t] /\ TaskHolds(q)
    BY TasksAreTyped
<1>2. q.phase = "ready" /\ q.stage = "check" /\ q.control = "publish"
    BY <1>1 DEF Publish, Called
<1>3. PICK c \in Contract : c = q.contract
    BY DEF TaskRecords
<1>4. Past(c)
    BY <1>1, <1>2, <1>3 DEF TaskHolds
<1>5. c.draft \in DraftIds
    BY <1>4 DEF Past
<1>6. PICK old \in DraftRecords : old = drafts[c.draft]
    BY <1>5 DEF WizardIInv, WizardTypeOK
<1> DEFINE new == [old EXCEPT !.status = "published", !.revision = old.revision + 1]
           rec == [q EXCEPT !.stage = "close"]
           item == [doc |-> old.doc, seen |-> q.seen]
<1>7. old.status = "active" /\ old.revision = c.revision
    BY <1>1, <1>3, <1>6 DEF Publish
<1>8. /\ drafts' = [drafts EXCEPT ![c.draft] = new]
      /\ published' = Append(published, item)
      /\ SetTask(t, rec) /\ UNCHANGED <<secret, shown, messages, forms>>
    BY <1>1, <1>3, <1>6 DEF Publish
<1>9. old.revision \in Nat /\ old.doc \in Document /\ q.seen \in Document
    BY DEF DraftRecords, TaskRecords
<1>10. new \in DraftRecords /\ new.revision > old.revision /\ new.status # "none"
  <2> DEFINE revision == old.revision + 1
  <2>1. revision \in Nat /\ revision > old.revision
      BY <1>9
  <2>2. [old EXCEPT !.status = "published"] \in DraftRecords
      BY DEF DraftRecords
  <2>3. new = [[old EXCEPT !.status = "published"] EXCEPT !.revision = revision]
      OBVIOUS
  <2> HIDE DEF revision
  <2> QED BY <2>1, <2>2, <2>3 DEF DraftRecords
<1>11. q.seen = old.doc
    BY <1>1, <1>2, <1>3, <1>6, <1>7 DEF TaskHolds, Usable
<1>12. item \in [doc : Document, seen : Document] /\ item.doc = item.seen
    BY <1>9, <1>11
<1>13. rec \in TaskRecords /\ rec.stage = "close" /\ rec.contract = c
    BY <1>3 DEF TaskRecords
<1> HIDE DEF new, rec, item
<1>14. published \in Seq([doc : Document, seen : Document]) /\ PublishedIsWhatWasShown
    BY DEF WizardIInv, WizardTypeOK
<1>15. published' \in Seq([doc : Document, seen : Document])
    BY <1>8, <1>12, <1>14, AppendProperties
<1>16. PublishedIsWhatWasShown'
  <2>1. SUFFICES ASSUME NEW i \in 1..Len(published') PROVE published'[i].doc = published'[i].seen
      BY DEF PublishedIsWhatWasShown
  <2>2. /\ Len(published') = Len(published) + 1 /\ Len(published) \in Nat
        /\ published'[Len(published) + 1] = item
        /\ \A j \in 1..Len(published) : published'[j] = published[j]
      BY <1>8, <1>12, <1>14, AppendProperties, LenProperties
  <2>3. CASE i = Len(published) + 1
      BY <1>12, <2>2, <2>3
  <2>4. CASE i # Len(published) + 1
    <3>1. i \in 1..Len(published)
        BY <2>2, <2>4
    <3>2. published'[i] = published[i]
        BY <2>2, <3>1
    <3> QED BY <1>14, <3>1, <3>2 DEF PublishedIsWhatWasShown
  <2> QED BY <2>3, <2>4
<1>17. new.revision > drafts[c.draft].revision
    BY <1>6, <1>10
<1>18. Past(c)'
  <2>1. \A k \in Contract : Past(k) => Past(k)'
      BY <1>5, <1>8, <1>10, <1>17, DraftStep
  <2> QED BY <1>4, <2>1
<1>19. TaskHolds(rec)'
  <2>1. PICK r \in TaskRecords : r = rec
      BY <1>13
  <2>2. TaskHolds(r)'
      BY <1>13, <1>18, <2>1 DEF TaskHolds, Informed
  <2> QED BY <2>1, <2>2 DEF rec
<1>20. secret' \in 0..MaxSecrets
    BY <1>8 DEF WizardIInv, WizardTypeOK
<1> QED BY <1>5, <1>8, <1>10, <1>13, <1>15, <1>16, <1>17, <1>19, <1>20, WorkerKeeps

\* A draft is started, taken up, or offered to be.
LEMMA OpenProfileKeeps ==
    ASSUME WizardIInv, NEW t \in Tasks, OpenProfile(t)
    PROVE  WizardIInv'
<1> DEFINE task(d) == [IdleTask EXCEPT !.phase = "asked", !.stage = "intro", !.contract.draft = d]
<1>1. UNCHANGED <<shown, messages>> /\ forms \subseteq FormRecords
    BY DEF OpenProfile, WizardIInv, WizardTypeOK
<1>2. drafts \in [DraftIds -> DraftRecords] /\ secret \in 0..MaxSecrets
    BY DEF WizardIInv, WizardTypeOK
<1>3. \A d \in DraftIds : /\ task(d) \in TaskRecords /\ task(d).phase = "asked"
                          /\ task(d).stage = "intro" /\ task(d).contract.draft = d
                          /\ task(d).contract.revision = 0
  <2>1. SUFFICES ASSUME NEW d \in DraftIds
                 PROVE  /\ task(d) \in TaskRecords /\ task(d).phase = "asked"
                        /\ task(d).stage = "intro" /\ task(d).contract.draft = d
                        /\ task(d).contract.revision = 0
      OBVIOUS
  <2> DEFINE c == [NoContract EXCEPT !.draft = d]
  <2>2. c \in Contract /\ c.draft = d /\ c.revision = 0
      BY WizardConstants DEF Contract, NoContract
  <2>3. IdleTask.contract = NoContract
      BY DEF IdleTask
  <2>4. task(d) = [IdleTask EXCEPT !.phase = "asked", !.stage = "intro", !.contract = c]
      BY <2>3
  <2> HIDE DEF task, c
  <2> QED BY <2>2, <2>4, WizardConstants DEF TaskRecords
<1>4. CASE \E d \in DraftIds :
              /\ \A e \in DraftIds : drafts[e].status = "none" <=> e >= d
              /\ drafts' = [drafts EXCEPT ![d] =
                                [NoDraft EXCEPT !.status = "active", !.doc = Latest]]
              /\ SetTask(t, task(d)) /\ UNCHANGED <<published, secret, forms>>
  <2>1. PICK d \in DraftIds :
            /\ \A e \in DraftIds : drafts[e].status = "none" <=> e >= d
            /\ drafts' = [drafts EXCEPT ![d] =
                              [NoDraft EXCEPT !.status = "active", !.doc = Latest]]
            /\ SetTask(t, task(d)) /\ UNCHANGED <<published, secret, forms>>
      BY <1>4
  <2> DEFINE new == [NoDraft EXCEPT !.status = "active", !.doc = Latest]
  <2>2. new \in DraftRecords /\ new.status = "active" /\ new.revision = 0
      BY LatestIsTyped, WizardConstants DEF DraftRecords, NoDraft
  <2>3. drafts[d].status = "none"
    <3>1. d >= d
        BY WizardAssumption DEF DraftIds
    <3> QED BY <2>1, <3>1
  <2>4. PICK rec \in TaskRecords : rec = task(d)
      BY <1>3
  <2>5. drafts' = [drafts EXCEPT ![d] = new] /\ SetTask(t, rec)
      BY <2>1, <2>4
  <2>6. /\ rec.phase = "asked" /\ rec.stage = "intro" /\ rec.contract.draft = d
        /\ rec.contract.revision = 0
      BY <1>3, <2>4
  <2> HIDE DEF new, task
  <2>7. Past(rec.contract)'
    <3>1. drafts'[d] = new
        BY <1>2, <2>5
    <3> QED BY <2>2, <2>6, <3>1 DEF Past
  <2>8. TaskHolds(rec)'
      BY <2>6, <2>7 DEF TaskHolds, Informed
  <2>9. /\ secret' \in 0..MaxSecrets /\ published' \in Seq([doc : Document, seen : Document])
        /\ PublishedIsWhatWasShown'
      BY <1>2, <2>1 DEF WizardIInv, WizardTypeOK, PublishedIsWhatWasShown
  <2> QED BY <1>1, <2>1, <2>2, <2>3, <2>5, <2>8, <2>9, WorkerKeeps
<1>5. ASSUME NEW d \in Active PROVE d \in DraftIds /\ drafts[d].status = "active"
    BY DEF Active
<1>6. CASE \E d \in Active : SetTask(t, task(d)) /\ UNCHANGED <<worker, forms>>
  <2>1. PICK d \in Active : SetTask(t, task(d)) /\ UNCHANGED <<worker, forms>>
      BY <1>6
  <2>2. PICK rec \in TaskRecords : rec = task(d)
      BY <1>3, <1>5
  <2>3. /\ rec.phase = "asked" /\ rec.stage = "intro" /\ rec.contract.draft = d
        /\ rec.contract.revision = 0
      BY <1>3, <1>5, <2>2
  <2>4. drafts[d].revision \in Nat
      BY <1>2, <1>5 DEF DraftRecords
  <2>5. Past(rec.contract)
      BY <1>5, <2>3, <2>4 DEF Past
  <2>6. TaskHolds(rec)
      BY <2>3, <2>5 DEF TaskHolds, Informed
  <2> QED BY <1>1, <2>1, <2>2, <2>6, TaskKeeps
<1>7. CASE \E d \in Active :
              /\ Open(Form("resume-view",
                           [NoContract EXCEPT !.draft = d, !.revision = drafts[d].revision],
                           0, Unset))
              /\ UNCHANGED <<worker, tasks>>
  <2>1. PICK d \in Active :
              /\ Open(Form("resume-view",
                           [NoContract EXCEPT !.draft = d, !.revision = drafts[d].revision],
                           0, Unset))
              /\ UNCHANGED <<worker, tasks>>
      BY <1>7
  <2>2. PICK revision \in Nat : revision = drafts[d].revision
      BY <1>2, <1>5 DEF DraftRecords
  <2> DEFINE c == [NoContract EXCEPT !.draft = d, !.revision = revision]
  <2>3. c \in Contract /\ c.draft = d /\ c.revision = revision
    <3>1. NoContract \in Contract /\ d \in DraftIds \cup {0}
        BY <1>5, WizardConstants
    <3> QED BY <3>1 DEF Contract
  <2>4. Past(c)
      BY <1>5, <2>2, <2>3 DEF Past
  <2>5. "resume-view" \in DOMAIN Submits /\ 0 \in 0..MaxMessages
      BY WizardAssumption DEF Submits
  <2>6. Open(Form("resume-view", c, 0, Unset))
      BY <2>1, <2>2
  <2> HIDE DEF c
  <2>7. /\ Form("resume-view", c, 0, Unset) \in FormRecords
        /\ FormHolds(Form("resume-view", c, 0, Unset))
      BY <2>3, <2>4, <2>5, FormIsTyped
  <2>8. forms' = forms \cup {Form("resume-view", c, 0, Unset)}
      BY <2>6 DEF Open
  <2>9. /\ tasks' \in [Tasks -> TaskRecords] /\ \A u \in Tasks : TaskHolds(tasks'[u])
        /\ messages' \in [1..MaxMessages -> MessageRecords] /\ shown' \subseteq 1..MaxSecrets
        /\ \A m \in 1..MaxMessages : MessageHolds(messages'[m])
      BY <1>1, <2>1 DEF WizardIInv, WizardTypeOK
  <2>10. forms' \subseteq FormRecords /\ \A form \in forms' : FormHolds(form)
      BY <1>1, <2>7, <2>8 DEF WizardIInv
  <2> QED BY <2>1, <2>9, <2>10, HandsKeep
<1> QED BY <1>4, <1>6, <1>7 DEF OpenProfile

-----------------------------------------------------------------------------
LEMMA WizardNextKeeps == WizardIInv /\ [WizardNext]_wizardVars => WizardIInv'
<1> SUFFICES ASSUME WizardIInv, [WizardNext]_wizardVars PROVE WizardIInv'
    OBVIOUS
<1>1. CASE UNCHANGED wizardVars
  <2>1. UNCHANGED <<worker, shown, messages, forms, tasks>>
      BY <1>1 DEF wizardVars, worker
  <2>2. /\ tasks \in [Tasks -> TaskRecords] /\ messages \in [1..MaxMessages -> MessageRecords]
        /\ forms \subseteq FormRecords /\ shown \subseteq 1..MaxSecrets
        /\ \A t \in Tasks : TaskHolds(tasks[t])
        /\ \A m \in 1..MaxMessages : MessageHolds(messages[m])
        /\ \A form \in forms : FormHolds(form)
      BY DEF WizardIInv, WizardTypeOK
  <2>3. /\ tasks' \in [Tasks -> TaskRecords] /\ messages' \in [1..MaxMessages -> MessageRecords]
        /\ forms' \subseteq FormRecords /\ shown' \subseteq 1..MaxSecrets
      BY <2>1, <2>2
  <2>4. /\ \A t \in Tasks : TaskHolds(tasks'[t])
        /\ \A m \in 1..MaxMessages : MessageHolds(messages'[m])
        /\ \A form \in forms' : FormHolds(form)
      BY <2>1, <2>2
  <2> QED BY <2>1, <2>3, <2>4, HandsKeep
<1>2. ASSUME NEW t \in Tasks, Steps(t) PROVE WizardIInv'
    BY <1>2, StepsKeepDocuments, LinksKeepDocuments, ThroneKeeps, RestartKeeps DEF Steps
<1>3. ASSUME NEW t \in Tasks,
             \/ \E m \in 1..MaxMessages : Press(t, m)
             \/ \E form \in forms : Submit(t, form)
             \/ OpenProfile(t) \/ ReadRow(t) \/ ReadRest(t)
             \/ OpenForm(t) \/ Start(t) \/ Steps(t) \/ ShowWizard(t)
             \/ Publish(t) \/ Close(t) \/ Send(t) \/ Abandon(t)
      PROVE  WizardIInv'
    BY <1>2, <1>3, PressKeeps, SubmitKeeps, OpenProfileKeeps, ReadRowKeeps, ReadRestKeeps,
       OpenFormKeeps, StartKeeps, ShowWizardKeeps, PublishKeeps, CloseKeeps, SendKeeps,
       AbandonKeeps
<1>4. ASSUME NEW form \in forms, Expire(form) PROVE WizardIInv'
    BY <1>4, ExpireKeeps
<1>5. CASE Restarted
    BY <1>5, RestartedKeeps
<1> QED BY <1>1, <1>3, <1>4, <1>5 DEF WizardNext

\* Whatever Bill's interactions do, messages, forms and local variables hold
\* contracts of drafts that were started, and those that can still be used hold
\* the draft as it is.
THEOREM WizardInvariance == WizardSpec => []WizardIInv
<1>1. WizardInit => WizardIInv
    BY WizardInitIInv
<1>2. WizardIInv /\ [WizardNext]_wizardVars => WizardIInv'
    BY WizardNextKeeps
<1> QED BY <1>1, <1>2, PTL DEF WizardSpec

\* Every variable of the wizard has its type.
THEOREM WizardTypeCorrect == WizardSpec => []WizardTypeOK
<1>1. WizardIInv => WizardTypeOK
    BY DEF WizardIInv
<1> QED BY <1>1, WizardInvariance, PTL

\* A wizard message whose controls still work shows the draft as it is
\* (bill/components/profile.py:238-243).
THEOREM ScreensAreHonestCorrect == WizardSpec => []ScreensAreHonest
<1>1. WizardIInv => ScreensAreHonest
    BY DEF WizardIInv, MessageHolds, Honest, Usable, ScreensAreHonest
<1> QED BY <1>1, WizardInvariance, PTL

\* What was published is what the message with the Publish button showed.
THEOREM PublishedIsWhatWasShownCorrect == WizardSpec => []PublishedIsWhatWasShown
<1>1. WizardIInv => PublishedIsWhatWasShown
    BY DEF WizardIInv
<1> QED BY <1>1, WizardInvariance, PTL

-----------------------------------------------------------------------------
(***************************************************************************)
(* What an edit writes back of the sections it is not about.               *)
(***************************************************************************)
Sections == {"orientation", "labels", "details", "links", "preferred", "creator"}

\* A step leaves alone what its control is not about.
SectionsStand ==
    \A t \in Tasks, d \in DraftIds :
        (/\ tasks[t] # tasks'[t] /\ drafts[d].status = "active"
         /\ tasks[t].contract.draft = d) =>
            \A section \in DOMAIN Empty \ MayChange(tasks[t].control) :
                drafts'[d].doc[section] = drafts[d].doc[section]

LEMMA EmptySections == DOMAIN Empty = Sections
BY DEF Empty, Sections

\* What the Worker accepts comes from one that holds the draft as it is.
LEMMA HeldIsCurrent ==
    ASSUME WizardIInv, NEW t \in Tasks, Accepts(t), Informed(tasks[t])
    PROVE  Held(t) = Current(t)
<1>1. Honest(tasks[t].contract)
    BY TasksAreTyped DEF TaskHolds
<1> QED BY <1>1 DEF Honest, Usable, Accepts, Held, Current

LEMMA WriteStands ==
    ASSUME WizardIInv, NEW u \in Tasks, tasks[u].phase # "idle", NEW doc, NEW steps, NEW rec,
           Write(u, doc, steps, rec),
           \A section \in Sections \ MayChange(tasks[u].control) :
                doc[section] = Current(u)[section]
    PROVE  SectionsStand
<1> SUFFICES ASSUME NEW t \in Tasks, NEW d \in DraftIds,
                    tasks[t] # tasks'[t], drafts[d].status = "active",
                    tasks[t].contract.draft = d,
                    NEW section \in Sections \ MayChange(tasks[t].control)
             PROVE  drafts'[d].doc[section] = drafts[d].doc[section]
    BY EmptySections DEF SectionsStand
<1>1. tasks \in [Tasks -> TaskRecords] /\ drafts \in [DraftIds -> DraftRecords]
    BY DEF WizardIInv, WizardTypeOK
<1>2. t = u
    BY <1>1 DEF Write, SetTask
<1>3. PICK old \in DraftRecords : old = drafts[d]
    BY <1>1
<1> DEFINE new == [old EXCEPT !.doc = doc, !.steps = steps, !.revision = old.revision + 1]
<1>4. drafts' = [drafts EXCEPT ![d] = new]
    BY <1>2, <1>3 DEF Write
<1>5. new.doc = doc
    BY DEF DraftRecords
<1>6. drafts'[d] = new
    BY <1>1, <1>4
<1>7. Current(u) = drafts[d].doc
    BY <1>2 DEF Current
<1> HIDE DEF new
<1> QED BY <1>2, <1>5, <1>6, <1>7

LEMMA SaveStands ==
    ASSUME WizardIInv, NEW u \in Tasks, tasks[u].phase # "idle", NEW docs, NEW step,
           Save(u, docs, step),
           \A doc \in docs : \A section \in Sections \ MayChange(tasks[u].control) :
                doc[section] = Current(u)[section]
    PROVE  SectionsStand
<1>1. PICK doc \in docs :
        Write(u, doc, drafts[tasks[u].contract.draft].steps \cup ({step} \ {""}),
              [tasks[u] EXCEPT !.stage = "show"])
    BY DEF Save
<1>2. \A section \in Sections \ MayChange(tasks[u].control) :
        doc[section] = Current(u)[section]
    OBVIOUS
<1> QED BY <1>1, <1>2, WriteStands

LEMMA SaveOneStands ==
    ASSUME WizardIInv, NEW u \in Tasks, tasks[u].phase # "idle", NEW doc, NEW step,
           Save(u, {doc}, step),
           \A section \in Sections \ MayChange(tasks[u].control) :
                doc[section] = Current(u)[section]
    PROVE  SectionsStand
<1>1. \A next \in {doc} : \A section \in Sections \ MayChange(tasks[u].control) :
        next[section] = Current(u)[section]
    OBVIOUS
<1> QED BY <1>1, SaveStands

\* An edit that is accepted passed the Worker's comparison.
LEMMA SaveAccepts ==
    ASSUME NEW t, NEW docs, NEW step, Save(t, docs, step)
    PROVE  Accepts(t)
BY DEF Save, Write

\* What is not about a section leaves it.
LEMMA ChangedLinks ==
    ASSUME NEW doc \in Document, NEW l, NEW k
    PROVE  \A section \in Sections \ {"links"} : WithLink(doc, l, k)[section] = doc[section]
BY DEF WithLink, Document, Sections

LEMMA StepsStandDocuments ==
    ASSUME WizardIInv, NEW t \in Tasks,
           \/ OrientationSelect(t) \/ IdentitySelect(t) \/ IdentityModal(t)
           \/ CompleteLinks(t) \/ SkipThrone(t)
    PROVE  SectionsStand
<1>1. tasks[t].phase = "ready" /\ tasks[t].stage = "check"
    BY DEF OrientationSelect, IdentitySelect, IdentityModal, CompleteLinks, SkipThrone, Called
<1>2. PICK doc \in Document : doc = Current(t)
    BY <1>1, HandsAreTyped
<1>3. PICK held \in Document : held = Held(t)
    BY <1>1, HandsAreTyped
<1>4. Accepts(t) /\ tasks[t].control \notin Blind => held = doc
    BY <1>1, <1>2, <1>3, HeldIsCurrent DEF Informed
<1>5. CASE OrientationSelect(t)
  <2>1. tasks[t].control = "orientation"
      BY <1>5 DEF OrientationSelect, Called
  <2>2. MayChange(tasks[t].control) = {"orientation", "links", "preferred", "creator"}
      BY <2>1 DEF MayChange
  <2>3. ASSUME NEW o \in Offered, NEW section \in {"labels", "details"}
        PROVE  Normalised(doc, o)[section] = doc[section]
      BY DEF Normalised, Document
  <2>4. Save(t, {Normalised(doc, o) : o \in Offered}, "orientation")
      BY <1>2, <1>5 DEF OrientationSelect
  <2>5. \A next \in {Normalised(doc, o) : o \in Offered} :
            \A section \in Sections \ MayChange(tasks[t].control) :
                next[section] = Current(t)[section]
      BY <1>2, <2>2, <2>3 DEF Sections
  <2> QED BY <1>1, <2>4, <2>5, SaveStands
<1>6. CASE IdentitySelect(t)
  <2> DEFINE next == [doc EXCEPT !.labels = ~held.labels, !.details = held.details]
  <2>1. tasks[t].control = "labels"
      BY <1>6 DEF IdentitySelect, Called
  <2>2. MayChange(tasks[t].control) = {"labels"}
      BY <2>1 DEF MayChange
  <2>3. Save(t, {next}, "")
      BY <1>2, <1>3, <1>6 DEF IdentitySelect
  <2>4. held = doc
      BY <1>4, <2>1, <2>3, SaveAccepts DEF Blind
  <2>5. \A section \in Sections \ {"labels"} : next[section] = doc[section]
      BY <2>4 DEF Sections, Document
  <2> HIDE DEF next
  <2>6. \A section \in Sections \ MayChange(tasks[t].control) :
                next[section] = Current(t)[section]
      BY <1>2, <2>2, <2>5
  <2> QED BY <1>1, <2>3, <2>6, SaveOneStands
<1>7. CASE IdentityModal(t)
  <2> DEFINE next == [doc EXCEPT !.details = TRUE, !.labels = held.labels]
  <2>1. tasks[t].control = "save-identity"
      BY <1>7 DEF IdentityModal, Called
  <2>2. MayChange(tasks[t].control) = {"details"}
      BY <2>1 DEF MayChange
  <2>3. Save(t, {next}, "identity")
      BY <1>2, <1>3, <1>7 DEF IdentityModal
  <2>4. held = doc
      BY <1>4, <2>1, <2>3, SaveAccepts DEF Blind
  <2>5. \A section \in Sections \ {"details"} : next[section] = doc[section]
      BY <2>4 DEF Sections, Document
  <2> HIDE DEF next
  <2>6. \A changed \in {next} : \A section \in Sections \ MayChange(tasks[t].control) :
            changed[section] = Current(t)[section]
      BY <1>2, <2>2, <2>5
  <2> QED BY <1>1, <2>3, <2>6, SaveStands
<1>8. CASE CompleteLinks(t)
  <2> DEFINE next == [doc EXCEPT !.links = held.links]
  <2>1. tasks[t].control = "complete-links"
      BY <1>8 DEF CompleteLinks, Called
  <2>2. Save(t, {next}, "links")
      BY <1>2, <1>3, <1>8 DEF CompleteLinks
  <2>3. held = doc
      BY <1>4, <2>1, <2>2, SaveAccepts DEF Blind
  <2>4. \A section \in Sections : next[section] = doc[section]
      BY <2>3 DEF Sections, Document
  <2> HIDE DEF next
  <2> QED BY <1>1, <1>2, <2>2, <2>4, SaveStands
<1>9. CASE SkipThrone(t)
  <2> DEFINE next == [doc EXCEPT !.creator = FALSE, !.preferred = held.preferred]
  <2>1. tasks[t].control = "skip-throne"
      BY <1>9 DEF SkipThrone, Called
  <2>2. MayChange(tasks[t].control) = {"creator"}
      BY <2>1 DEF MayChange
  <2>3. Save(t, {next}, "throne")
      BY <1>2, <1>3, <1>9 DEF SkipThrone
  <2>4. held = doc
      BY <1>4, <2>1, <2>3, SaveAccepts DEF Blind
  <2>5. \A section \in Sections \ {"creator"} : next[section] = doc[section]
      BY <2>4 DEF Sections, Document
  <2> HIDE DEF next
  <2> QED BY <1>1, <1>2, <2>2, <2>3, <2>5, SaveStands
<1> QED BY <1>5, <1>6, <1>7, <1>8, <1>9

LEMMA StepsStandLinks ==
    ASSUME WizardIInv, NEW t \in Tasks,
           \/ LinkModal(t) \/ LinkModalEdit(t) \/ Remove(t) \/ Prefer(t)
           \/ CreateImport(t) \/ ConfirmImport(t)
    PROVE  SectionsStand
<1>1. tasks[t].phase = "ready" /\ tasks[t].stage = "check"
  <2>1. /\ LinkModal(t) => Called(t, "add-link")
        /\ CreateImport(t) => Called(t, "create-import")
        /\ ConfirmImport(t) => Called(t, "confirm-import")
      BY DEF LinkModal, CreateImport, ConfirmImport
  <2>2. LinkModalEdit(t) => Called(t, "edit-link")
      BY DEF LinkModalEdit
  <2>3. Remove(t) => Called(t, "remove-link")
      BY DEF Remove
  <2>4. Prefer(t) => Called(t, "prefer-link")
      BY DEF Prefer
  <2> QED BY <2>1, <2>2, <2>3, <2>4 DEF Called
<1>2. PICK doc \in Document : doc = Current(t)
    BY <1>1, HandsAreTyped
<1>3. PICK l \in Links \cup {Unset} : l = tasks[t].link
    BY TasksAreTyped DEF TaskRecords
<1>4. \A next \in Additions(doc) : \A section \in Sections \ {"links"} :
            next[section] = doc[section]
    BY ChangedLinks DEF Additions
<1>5. CASE LinkModal(t)
  <2>1. MayChange(tasks[t].control) = {"links"}
      BY <1>5 DEF MayChange, LinkModal, Called
  <2>2. Save(t, Additions(doc), "")
      BY <1>2, <1>5 DEF LinkModal
  <2>3. \A changed \in Additions(doc) :
            \A section \in Sections \ MayChange(tasks[t].control) :
                changed[section] = Current(t)[section]
      BY <1>2, <1>4, <2>1
  <2> QED BY <1>1, <2>2, <2>3, SaveStands
<1>6. CASE LinkModalEdit(t)
  <2> DEFINE docs == {WithLink(doc, l, type) : type \in Types(doc)}
  <2>1. MayChange(tasks[t].control) = {"links"}
      BY <1>6 DEF MayChange, LinkModalEdit, Called
  <2>2. Save(t, docs, "")
      BY <1>2, <1>3, <1>6 DEF LinkModalEdit
  <2>3. \A next \in docs : \A section \in Sections \ {"links"} : next[section] = doc[section]
      BY ChangedLinks
  <2> HIDE DEF docs
  <2>4. \A changed \in docs :
            \A section \in Sections \ MayChange(tasks[t].control) :
                changed[section] = Current(t)[section]
      BY <1>2, <2>1, <2>3
  <2> QED BY <1>1, <2>2, <2>4, SaveStands
<1>7. CASE Remove(t)
  <2> DEFINE kept == WithLink(doc, l, "none")
             next == [kept EXCEPT !.preferred = IF @ = l THEN Unset ELSE @]
  <2>1. MayChange(tasks[t].control) = {"links", "preferred"}
      BY <1>7 DEF MayChange, Remove, Called
  <2>2. Save(t, {next}, "")
      BY <1>2, <1>3, <1>7 DEF Remove
  <2>3. \A section \in Sections \ {"links"} : kept[section] = doc[section]
      BY ChangedLinks
  <2>4. kept \in Document
    <3>1. l \in LinksOf(doc)
        BY <1>2, <1>3, <1>7 DEF Remove
    <3> QED BY <3>1, LinkIsTyped DEF LinksOf
  <2> HIDE DEF kept
  <2>5. \A section \in Sections \ {"links", "preferred"} : next[section] = kept[section]
      BY <2>4 DEF Sections, Document
  <2> HIDE DEF next
  <2>6. \A section \in Sections \ MayChange(tasks[t].control) :
                next[section] = Current(t)[section]
      BY <1>2, <2>1, <2>3, <2>5
  <2> QED BY <1>1, <2>2, <2>6, SaveOneStands
<1>8. CASE Prefer(t)
  <2> DEFINE kept == WithLink(doc, l, "payment")
             next == [kept EXCEPT !.preferred = l]
  <2>1. tasks[t].control = "prefer-link"
      BY <1>8 DEF Prefer, Called
  <2>2. MayChange(tasks[t].control) = {"preferred"}
      BY <2>1 DEF MayChange
  <2>3. Save(t, {next}, "")
      BY <1>2, <1>3, <1>8 DEF Prefer
  <2>4. Held(t) = doc
      BY <1>1, <1>2, <2>1, <2>3, SaveAccepts, HeldIsCurrent DEF Informed, Blind
  <2>5. l \in Links /\ doc.links[l] = "payment"
    <3>1. l \in LinksOf(doc) /\ Held(t).links[l] = "payment"
        BY <1>2, <1>3, <1>8 DEF Prefer
    <3> QED BY <2>4, <3>1 DEF LinksOf
  <2>6. kept.links = doc.links
    <3>1. kept.links = [doc.links EXCEPT ![l] = "payment"]
        BY DEF WithLink, Document
    <3>2. doc.links \in [Links -> {"none", "social", "payment"}]
        BY DEF Document
    <3> QED BY <2>5, <3>1, <3>2
  <2>7. \A section \in Sections \ {"links"} : kept[section] = doc[section]
      BY ChangedLinks
  <2>8. kept \in Document
      BY <2>5, LinkIsTyped
  <2> HIDE DEF kept
  <2>9. \A section \in Sections : kept[section] = doc[section]
      BY <2>6, <2>7 DEF Sections
  <2>10. \A section \in Sections \ {"preferred"} : next[section] = kept[section]
      BY <2>8 DEF Sections, Document
  <2> HIDE DEF next
  <2>11. \A section \in Sections \ MayChange(tasks[t].control) :
                next[section] = Current(t)[section]
      BY <1>2, <2>2, <2>9, <2>10
  <2> QED BY <1>1, <2>3, <2>11, SaveOneStands
<1>9. CASE CreateImport(t)
  <2>1. Save(t, {doc}, "")
      BY <1>2, <1>9 DEF CreateImport
  <2>2. \A section \in Sections \ MayChange(tasks[t].control) :
                doc[section] = Current(t)[section]
      BY <1>2
  <2> QED BY <1>1, <2>1, <2>2, SaveOneStands
<1>10. CASE ConfirmImport(t)
  <2>1. MayChange(tasks[t].control) = {"links"}
      BY <1>10 DEF MayChange, ConfirmImport, Called
  <2>2. Save(t, {doc} \cup Additions(doc), "")
      BY <1>2, <1>10 DEF ConfirmImport
  <2>3. \A changed \in {doc} \cup Additions(doc) :
            \A section \in Sections \ MayChange(tasks[t].control) :
                changed[section] = Current(t)[section]
      BY <1>2, <1>4, <2>1
  <2> QED BY <1>1, <2>2, <2>3, SaveStands
<1> QED BY <1>5, <1>6, <1>7, <1>8, <1>9, <1>10

\* The second call of Throne writes back the creator and the preference that its
\* own first call was answered with.
LEMMA ThroneStands ==
    ASSUME WizardIInv, NEW t \in Tasks,
           AttachThrone(t) \/ RotateThrone(t) \/ SaveThrone(t)
    PROVE  SectionsStand
<1>1. tasks[t].phase = "ready"
    BY DEF AttachThrone, RotateThrone, SaveThrone, Called, At
<1>2. PICK doc \in Document : doc = Current(t)
    BY <1>1, HandsAreTyped
<1> DEFINE steps == drafts[tasks[t].contract.draft].steps
           first == [tasks[t] EXCEPT !.stage = "second", !.secret = secret']
<1>3. CASE AttachThrone(t)
  <2> DEFINE next == [doc EXCEPT !.creator = TRUE]
             rec == [tasks[t] EXCEPT !.stage = "second"]
  <2>1. tasks[t].control \in {"attach", "creator-select"}
      BY <1>3 DEF AttachThrone
  <2>2. MayChange(tasks[t].control) = {"creator"}
      BY <2>1 DEF MayChange
  <2>3. Write(t, next, steps, first) \/ Write(t, next, steps, rec)
      BY <1>2, <1>3 DEF AttachThrone, WriteSecret
  <2>4. \A section \in Sections \ {"creator"} : next[section] = doc[section]
      BY DEF Sections, Document
  <2> HIDE DEF next, rec, first, steps
  <2> QED BY <1>1, <1>2, <2>2, <2>3, <2>4, WriteStands
<1>4. CASE RotateThrone(t)
  <2>1. Write(t, doc, steps, first)
      BY <1>2, <1>4 DEF RotateThrone, WriteSecret
  <2> HIDE DEF first, steps
  <2> QED BY <1>1, <1>2, <2>1, WriteStands
<1>5. CASE SaveThrone(t)
  <2> DEFINE rec == [tasks[t] EXCEPT !.stage = "show"]
             next == [doc EXCEPT !.creator = Held(t).creator, !.preferred = Held(t).preferred]
             all == steps \cup {"throne"}
  <2>1. Write(t, next, all, rec)
      BY <1>2, <1>5 DEF SaveThrone
  <2>2. tasks[t].stage = "second"
      BY <1>5 DEF SaveThrone, At
  <2>3. Accepts(t)
      BY <2>1 DEF Write
  <2>4. Held(t) = doc
      BY <1>1, <1>2, <2>2, <2>3, HeldIsCurrent DEF Informed
  <2>5. \A section \in Sections : next[section] = doc[section]
      BY <2>4 DEF Sections, Document
  <2> HIDE DEF next, rec, all
  <2> QED BY <1>1, <1>2, <2>1, <2>5, WriteStands
<1> QED BY <1>3, <1>4, <1>5

LEMMA RestartStands ==
    ASSUME WizardIInv, NEW t \in Tasks, Restart(t)
    PROVE  SectionsStand
<1>1. PICK stage \in {"new", "intro"} :
        /\ tasks[t].control \in {"restart-here", "restart-saved"}
        /\ Write(t, Latest, {}, [tasks[t] EXCEPT !.stage = stage])
    BY DEF Restart
<1>2. tasks[t].phase # "idle"
    BY DEF Restart, At
<1>3. MayChange(tasks[t].control) = Sections
    BY <1>1, EmptySections DEF MayChange
<1> QED BY <1>1, <1>2, <1>3, WriteStands

LEMMA PublishStands ==
    ASSUME WizardIInv, NEW t \in Tasks, Publish(t)
    PROVE  SectionsStand
<1>1. /\ tasks[t] \in TaskRecords /\ tasks[t].contract.draft \in DraftIds
      /\ drafts \in [DraftIds -> DraftRecords]
    BY TasksAreTyped, HandsAreTyped DEF Publish, Called, WizardIInv, WizardTypeOK
<1>2. PICK p \in DraftIds : p = tasks[t].contract.draft
    BY <1>1
<1>3. PICK old \in DraftRecords : old = drafts[p]
    BY <1>1
<1> DEFINE new == [old EXCEPT !.status = "published", !.revision = old.revision + 1]
<1>4. drafts' = [drafts EXCEPT ![p] = new]
    BY <1>2, <1>3 DEF Publish
<1>5. new.doc = old.doc
    BY DEF DraftRecords
<1> HIDE DEF new
<1>6. \A d \in DraftIds : drafts'[d].doc = drafts[d].doc
    BY <1>1, <1>3, <1>4, <1>5
<1> QED BY <1>6 DEF SectionsStand

LEMMA OpenProfileStands ==
    ASSUME WizardIInv, NEW t \in Tasks, OpenProfile(t)
    PROVE  SectionsStand
<1>1. drafts \in [DraftIds -> DraftRecords]
    BY DEF WizardIInv, WizardTypeOK
<1>2. \/ UNCHANGED drafts
      \/ Active = {} /\ \E d \in DraftIds, new \in DraftRecords : drafts' = [drafts EXCEPT ![d] = new]
  <2>1. [NoDraft EXCEPT !.status = "active", !.doc = Latest] \in DraftRecords
      BY LatestIsTyped, WizardConstants DEF DraftRecords, NoDraft
  <2> QED BY <2>1 DEF OpenProfile, worker
<1>3. CASE UNCHANGED drafts
    BY <1>3 DEF SectionsStand
<1>4. CASE Active = {}
    BY <1>4 DEF SectionsStand, Active
<1> QED BY <1>2, <1>3, <1>4

\* Every save writes back what Bill had read of the sections it is not about:
\* it never undoes what another interaction saved there in between.
THEOREM WritesOnlyItsSectionCorrect == WizardSpec => WritesOnlyItsSection
<1>1. WizardIInv /\ [WizardNext]_wizardVars => [SectionsStand]_wizardVars
  <2> SUFFICES ASSUME WizardIInv, WizardNext PROVE SectionsStand
      OBVIOUS
  <2>1. UNCHANGED drafts => SectionsStand
      BY DEF SectionsStand
  <2>2. ASSUME NEW t \in Tasks, Steps(t) PROVE SectionsStand
      BY <2>2, StepsStandDocuments, StepsStandLinks, ThroneStands, RestartStands DEF Steps
  <2>3. ASSUME NEW t \in Tasks,
               \/ \E m \in 1..MaxMessages : Press(t, m)
               \/ \E form \in forms : Submit(t, form)
               \/ ReadRow(t) \/ ReadRest(t)
               \/ OpenForm(t) \/ Start(t) \/ ShowWizard(t)
               \/ Close(t) \/ Send(t) \/ Abandon(t)
        PROVE  UNCHANGED drafts
    <3>1. ASSUME NEW m, Press(t, m) PROVE UNCHANGED drafts
        BY <3>1 DEF Press, worker
    <3>2. ASSUME NEW form, Submit(t, form) PROVE UNCHANGED drafts
        BY <3>2 DEF Submit, worker
    <3>3. ReadRow(t) \/ ReadRest(t) => UNCHANGED drafts
        BY DEF ReadRow, ReadRest, ReadContract, worker
    <3>4. OpenForm(t) => UNCHANGED drafts
        BY DEF OpenForm, worker
    <3>5. Start(t) \/ Close(t) \/ Abandon(t) => UNCHANGED drafts
        BY DEF Start, Close, Abandon, worker
    <3>6. ShowWizard(t) => UNCHANGED drafts
        BY DEF ShowWizard, worker
    <3>7. Send(t) => UNCHANGED drafts
        BY DEF Send, worker
    <3> QED BY <2>3, <3>1, <3>2, <3>3, <3>4, <3>5, <3>6, <3>7
  <2>4. ASSUME NEW form, Expire(form) PROVE UNCHANGED drafts
      BY <2>4 DEF Expire, worker
  <2>5. Restarted => UNCHANGED drafts
      BY DEF Restarted, worker
  <2> QED BY <2>1, <2>2, <2>3, <2>4, <2>5, OpenProfileStands, PublishStands DEF WizardNext
<1>2. WizardSpec => [][SectionsStand]_wizardVars
    BY <1>1, WizardInvariance, PTL DEF WizardSpec
<1>3. [SectionsStand]_wizardVars
        => [\A t \in Tasks, d \in DraftIds :
              (/\ tasks[t] # tasks'[t] /\ drafts[d].status = "active"
               /\ tasks[t].contract.draft = d) =>
                  \A section \in DOMAIN Empty \ MayChange(tasks[t].control) :
                      drafts'[d].doc[section] = drafts[d].doc[section]]_wizardVars
    BY DEF SectionsStand
<1> QED BY <1>2, <1>3, PTL DEF WritesOnlyItsSection

============================================================================
