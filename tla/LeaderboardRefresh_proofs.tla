---------------------- MODULE LeaderboardRefresh_proofs ----------------------
(***************************************************************************)
(* Proofs about LeaderboardRefresh and the tables of SendNames below it,   *)
(* for all subs, names, registrations and sends, and any number of         *)
(* refreshes at a time.                                                    *)
(*                                                                         *)
(* The names are settled first, by the steps that touch their tables; to   *)
(* them a step of the leaderboard is one that posts a send or none.  Of    *)
(* the leaderboard the argument is that whoever is past its start holds    *)
(* the lock: no other refresh stores a hash between the storing of one and *)
(* the last edit it stands for.                                            *)
(***************************************************************************)
EXTENDS LeaderboardRefresh, FiniteSetTheorems, SequenceTheorems, TLAPS

-----------------------------------------------------------------------------
(***************************************************************************)
(* Send names.                                                             *)
(***************************************************************************)
\* What the leaderboard does to the tables: it posts a send.
Post(s) ==
    /\ sends[s].phase = "stored"
    /\ sends' = [sends EXCEPT ![s].phase = "posted"]
    /\ UNCHANGED <<rows, serial, open, erased>>

NamesStep ==
    \/ NamesNext
    \/ \E s \in Sends : Insert(s, modes.offline) \/ Post(s)

LEMMA Constants ==
    /\ \A r \in Asks : /\ r.user \in Subs /\ r.primary \in Names
                       /\ r.names \in SUBSET Names /\ r.primary \in r.names
    /\ \A s \in Sends : NameOf[s] \in Names
    /\ NoOne \notin Subs /\ NoOne \notin Names
    /\ \A sub \in Legacy : sub.user \in Subs /\ sub.name \in Names
    /\ MaxRows \in Nat /\ MaxRows > 0
  BY AsksAssumption DEF Request

USE Constants

LEMMA NamesInitIInv == NamesInit => NamesIInv
<1>. SUFFICES ASSUME NamesInit PROVE NamesIInv
  OBVIOUS
<1>1. /\ open = {} /\ erased = {} /\ sends = [s \in Sends |-> Unknown]
  BY DEF NamesInit
<1>2. \A u \in Subs : rows[u] = NoRow \/ \E n \in Names : rows[u] = Imported(n)
  BY DEF NamesInit
<1>3. \A u, v \in Subs : rows[u] # NoRow /\ rows[v] # NoRow => u = v
  BY DEF NamesInit
<1>4. NamesTypeOK
  <2>1. rows \in [Subs -> [id: 0..MaxRows, primary: Names \cup {NoOne}, names: SUBSET Names]]
    BY <1>2 DEF NamesInit, NoRow, Imported
  <2>2. serial \in 0..MaxRows
    BY DEF NamesInit
  <2>. QED  BY <1>1, <2>1, <2>2 DEF NamesTypeOK, Unknown
<1>5. RowsWhole
  <2>1. \A u \in Subs : rows[u] = NoRow => rows[u].id = 0
    BY DEF NoRow
  <2>2. \A u \in Subs, n \in Names : rows[u] = Imported(n) => rows[u].names = {}
    BY DEF Imported
  <2>. QED  BY <1>2, <2>1, <2>2 DEF RowsWhole
<1>6. OneOwner
  BY <1>3 DEF OneOwner, Owns, NoRow
<1>7. ImportedSeen /\ References
  BY <1>1 DEF ImportedSeen, References, Recorded, Unknown
<1>. QED  BY <1>4, <1>5, <1>6, <1>7 DEF NamesIInv

\* The conflict check passes over what the unique indexes do not see.
LEMMA CheckKeeps == ASSUME NamesIInv, NEW r \in Asks, CheckNames(r) PROVE NamesIInv'
<1>. USE DEF NamesIInv
<1>1. NamesTypeOK'  BY DEF CheckNames, NamesTypeOK
<1>2. RowsWhole' /\ OneOwner'  BY DEF CheckNames, RowsWhole, OneOwner, Owns
<1>3. ImportedSeen'
  BY DEF CheckNames, ImportedSeen, Conflict, Owns, RowsWhole
<1>4. References'
  BY DEF CheckNames, References, Recorded
<1>. QED  BY <1>1, <1>2, <1>3, <1>4

\* Nobody else owns a name that a registration is about to write.
LEMMA WrittenIsFree ==
    ASSUME NamesIInv, NEW r \in Asks, WriteNames(r), NEW u \in Subs \ {r.user}, NEW n \in r.names
    PROVE  ~Owns(u, n)
<1>. SUFFICES ASSUME rows[u].id # 0, n \in rows[u].names \cup {rows[u].primary}
              PROVE  FALSE
  BY DEF Owns
<1>1. rows[u].primary # r.primary /\ rows[u].names \cap r.names = {}
  BY DEF WriteNames, Unique
<1>2. n = rows[u].primary /\ rows[u].primary \notin rows[u].names
  BY <1>1
<1>3. rows[u].names = {}
  BY <1>2 DEF NamesIInv, RowsWhole
<1>. QED  BY <1>2, <1>3 DEF WriteNames, NamesIInv, ImportedSeen

LEMMA WriteKeeps == ASSUME NamesIInv, NEW r \in Asks, WriteNames(r) PROVE NamesIInv'
<1>. DEFINE new == IF rows[r.user].id = 0 THEN serial + 1 ELSE rows[r.user].id
<1>0. /\ r.user \in Subs /\ r.primary \in Names /\ r.names \in SUBSET Names
      /\ r.primary \in r.names
  BY DEF Request
<1>a. rows[r.user].id \in 0..MaxRows /\ serial \in 0..MaxRows
  BY <1>0 DEF NamesIInv, NamesTypeOK
<1>b. new <= MaxRows
  BY DEF WriteNames
<1>c. new \in 1..MaxRows
  BY <1>a, <1>b
<1>1. rows' = [rows EXCEPT ![r.user] = [id |-> new, primary |-> r.primary, names |-> r.names]]
  BY DEF WriteNames
<1>d. serial' = (IF new > serial THEN new ELSE serial)
  BY DEF WriteNames
<1>e. sends' = [s \in Sends |-> IF Backfilled(s, r)
                                THEN [sends[s] EXCEPT !.sub = r.user, !.id = new] ELSE sends[s]]
  BY DEF WriteNames
<1>g. \A s \in Sends : /\ ~Backfilled(s, r) => sends'[s] = sends[s]
                       /\ Backfilled(s, r) => /\ sends'[s].phase = sends[s].phase
                                              /\ sends'[s].sub = r.user
                                              /\ sends'[s].id = new
  BY <1>e DEF NamesIInv, NamesTypeOK
<1>f. open' = open \ {r} /\ erased' = erased \ {r.user}
  BY DEF WriteNames
<1>. HIDE DEF new
<1>2. NamesTypeOK'
  <2>0. [id |-> new, primary |-> r.primary, names |-> r.names]
            \in [id: 0..MaxRows, primary: Names \cup {NoOne}, names: SUBSET Names]
    BY <1>0, <1>c
  <2>1. rows' \in [Subs -> [id: 0..MaxRows, primary: Names \cup {NoOne}, names: SUBSET Names]]
    BY <1>1, <2>0 DEF NamesIInv, NamesTypeOK
  <2>2. serial' \in 0..MaxRows /\ open' \subseteq Asks /\ erased' \subseteq Subs
    BY <1>c, <1>d, <1>f DEF NamesIInv, NamesTypeOK
  <2>3. sends' \in [Sends -> [phase: {"unknown", "looked", "stored", "posted", "deleted"},
                             sub: Subs \cup {NoOne}, id: 0..MaxRows]]
    <3>1. \A s \in Sends :
             [sends[s] EXCEPT !.sub = r.user, !.id = new]
                \in [phase: {"unknown", "looked", "stored", "posted", "deleted"},
                     sub: Subs \cup {NoOne}, id: 0..MaxRows]
      <4>. TAKE s \in Sends
      <4>1. sends[s] \in [phase: {"unknown", "looked", "stored", "posted", "deleted"},
                          sub: Subs \cup {NoOne}, id: 0..MaxRows]
        BY DEF NamesIInv, NamesTypeOK
      <4>2. new \in 0..MaxRows
        BY <1>c
      <4>. QED  BY <1>0, <4>1, <4>2
    <3>. QED  BY <1>e, <3>1 DEF NamesIInv, NamesTypeOK
  <2>. QED  BY <2>1, <2>2, <2>3 DEF NamesTypeOK
<1>3. /\ rows'[r.user] = [id |-> new, primary |-> r.primary, names |-> r.names]
      /\ \A u \in Subs \ {r.user} : rows'[u] = rows[u]
  BY <1>0, <1>1 DEF NamesIInv, NamesTypeOK
<1>4. RowsWhole'
  BY <1>0, <1>3 DEF RowsWhole, NamesIInv
<1>5. \A n \in Names : Owns(r.user, n)' => n \in r.names
  BY <1>0, <1>3 DEF Owns
<1>6. \A u \in Subs \ {r.user}, n \in Names : Owns(u, n)' => Owns(u, n) /\ n \notin r.names
  BY <1>3, WrittenIsFree DEF Owns
<1>7. OneOwner'
  BY <1>5, <1>6 DEF OneOwner, NamesIInv
<1>8. ImportedSeen'
  <2>. SUFFICES ASSUME NEW q \in open', NEW u \in Subs \ {q.user},
                       rows'[u].id # 0, rows'[u].names = {}
                PROVE  rows'[u].primary \notin q.names
    BY DEF ImportedSeen
  <2>1. u # r.user
    BY <1>0, <1>3
  <2>. QED  BY <2>1, <1>f, <1>3 DEF ImportedSeen, NamesIInv
<1>9. References'
  <2>1. \A s \in Sends : sends'[s].id # 0 => sends'[s].sub # NoOne
    BY <1>0, <1>g DEF References, NamesIInv
  <2>2. ASSUME NEW s \in Sends, Recorded(s)', sends'[s].id # 0
        PROVE  rows'[sends'[s].sub].id = sends'[s].id
    <3>1. CASE Backfilled(s, r)
      BY <3>1, <1>3, <1>g
    <3>2. CASE ~Backfilled(s, r)
      <4>1. sends'[s] = sends[s] /\ Recorded(s) /\ sends[s].sub \in Subs
        BY <2>2, <3>2, <1>g DEF References, NamesIInv, NamesTypeOK, Recorded
      <4>2. rows[sends[s].sub].id = sends[s].id
        BY <2>2, <4>1 DEF References, NamesIInv
      <4>3. sends[s].sub = r.user => new = sends[s].id
        BY <2>2, <4>1, <4>2 DEF new
      <4>. QED  BY <1>3, <4>1, <4>2, <4>3
    <3>. QED  BY <3>1, <3>2
  <2>3. \A u \in erased' : rows'[u].id = 0
    BY <1>3, <1>f DEF References, NamesIInv, NamesTypeOK
  <2>. QED  BY <2>1, <2>2, <2>3 DEF References
<1>. QED  BY <1>2, <1>4, <1>7, <1>8, <1>9 DEF NamesIInv

\* The other steps change no row but to take it away.
LEMMA OtherNamesKeep ==
    ASSUME NamesIInv,
           \/ \E r \in Asks : RefuseNames(r)
           \/ \E s \in Sends, u \in Subs : LookUpMention(s, u)
           \/ \E s \in Sends : LookUp(s) \/ LoseLookUp(s) \/ Insert(s, modes.offline) \/ Post(s)
           \/ \E u \in Subs : RemoveSub(u) \/ EraseUser(u)
    PROVE  NamesIInv'
<1>. USE DEF NamesIInv, NamesTypeOK
<1>1. ASSUME NEW r \in Asks, RefuseNames(r) PROVE NamesIInv'
  BY <1>1 DEF RefuseNames, RowsWhole, OneOwner, Owns, ImportedSeen, References, Recorded
<1>2. ASSUME NEW s \in Sends,
             LookUp(s) \/ \E u \in Subs : LookUpMention(s, u)
      PROVE  NamesIInv'
  <2>1. PICK v \in {[phase |-> "looked", sub |-> NoOne, id |-> 0]}
                   \cup {Attributed(u) : u \in Subs} :
           sends' = [sends EXCEPT ![s] = v]
    BY <1>2 DEF LookUp, LookUpMention
  <2>2. /\ v \in [phase: {"looked"}, sub: Subs \cup {NoOne}, id: 0..MaxRows]
        /\ v.id # 0 => v.sub # NoOne
    BY <2>1 DEF Attributed
  <2>3. UNCHANGED <<rows, serial, open, erased>>
    BY <1>2 DEF LookUp, LookUpMention
  <2>4. NamesTypeOK'
    BY <2>1, <2>2, <2>3
  <2>5. References'
    BY <2>1, <2>2, <2>3 DEF References, Recorded
  <2>. QED  BY <2>3, <2>4, <2>5 DEF RowsWhole, OneOwner, Owns, ImportedSeen
<1>3. ASSUME NEW s \in Sends, LoseLookUp(s) PROVE NamesIInv'
  BY <1>3 DEF LoseLookUp, Unknown, RowsWhole, OneOwner, Owns, ImportedSeen, References, Recorded
<1>4. ASSUME NEW s \in Sends, Insert(s, modes.offline) PROVE NamesIInv'
  <2>1. UNCHANGED <<rows, serial, open, erased>>
    BY <1>4 DEF Insert
  <2>2. NamesTypeOK'
    BY <1>4 DEF Insert
  <2>3. References'
    BY <1>4 DEF Insert, RowStands, References, Recorded
  <2>. QED  BY <2>1, <2>2, <2>3 DEF RowsWhole, OneOwner, Owns, ImportedSeen
<1>5. ASSUME NEW s \in Sends, Post(s) PROVE NamesIInv'
  <2>1. UNCHANGED <<rows, serial, open, erased>>
    BY <1>5 DEF Post
  <2>2. NamesTypeOK'
    BY <1>5 DEF Post
  <2>3. References'
    BY <1>5 DEF Post, References, Recorded
  <2>. QED  BY <2>1, <2>2, <2>3 DEF RowsWhole, OneOwner, Owns, ImportedSeen
<1>6. ASSUME NEW u \in Subs, RemoveSub(u) PROVE NamesIInv'
  <2>1. rows' = [rows EXCEPT ![u] = NoRow] /\ UNCHANGED <<serial, open, sends, erased>>
    BY <1>6 DEF RemoveSub
  <2>a. rows' \in [Subs -> [id: 0..MaxRows, primary: Names \cup {NoOne}, names: SUBSET Names]]
    BY <2>1 DEF NoRow
  <2>2. NamesTypeOK' /\ RowsWhole'
    BY <2>a, <2>1 DEF NoRow, RowsWhole
  <2>3. \A s \in Sends : Recorded(s) /\ sends[s].id # 0 => sends[s].sub \in Subs \ {u}
    BY <1>6 DEF RemoveSub, References
  <2>4. References'
    BY <2>1, <2>3 DEF NoRow, References, Recorded
  <2>. QED  BY <2>1, <2>2, <2>4 DEF NoRow, OneOwner, Owns, ImportedSeen
<1>7. ASSUME NEW u \in Subs, EraseUser(u) PROVE NamesIInv'
  <2>1. rows' = [rows EXCEPT ![u] = NoRow] /\ erased' = erased \cup {u}
        /\ UNCHANGED <<serial, open>>
    BY <1>7 DEF EraseUser
  <2>a. rows' \in [Subs -> [id: 0..MaxRows, primary: Names \cup {NoOne}, names: SUBSET Names]]
    BY <2>1 DEF NoRow
  <2>b. sends' \in [Sends -> [phase: {"unknown", "looked", "stored", "posted", "deleted"},
                             sub: Subs \cup {NoOne}, id: 0..MaxRows]]
    BY <1>7 DEF EraseUser, Deleted
  <2>2. NamesTypeOK' /\ RowsWhole'
    BY <2>a, <2>b, <2>1 DEF NoRow, RowsWhole
  <2>3. OneOwner' /\ ImportedSeen'
    BY <2>1 DEF NoRow, OneOwner, Owns, ImportedSeen
  <2>4. References'
    BY <1>7, <2>1 DEF EraseUser, Deleted, NoRow, References, Recorded
  <2>. QED  BY <2>2, <2>3, <2>4
<1>. QED  BY <1>1, <1>2, <1>3, <1>4, <1>5, <1>6, <1>7

LEMMA NamesStepKeeps == NamesIInv /\ NamesStep => NamesIInv'
  BY CheckKeeps, WriteKeeps, OtherNamesKeep DEF NamesStep, NamesNext

LEMMA NamesStutterKeeps == NamesIInv /\ UNCHANGED nameVars => NamesIInv'
  BY DEF nameVars, NamesIInv, NamesTypeOK, RowsWhole, OneOwner, Owns, ImportedSeen, References,
         Recorded

\* To the tables a step of the whole is one of theirs, or none.
LEMMA NextIsNamesStep == ASSUME [Next]_vars PROVE NamesStep \/ UNCHANGED nameVars
<1>1. ASSUME NEW t \in Tasks, NEW s \in Sends, PostSend(t, s) PROVE NamesStep
  BY <1>1 DEF PostSend, NamesStep, Post
<1>. QED  BY <1>1 DEF Next, NamesStep, vars

LEMMA NamesNextKeeps == NamesIInv /\ [Next]_vars => NamesIInv'
  BY NextIsNamesStep, NamesStepKeeps, NamesStutterKeeps

LEMMA NamesInvariant == Spec => []NamesIInv
<1>1. Init => NamesIInv
  BY NamesInitIInv DEF Init
<1>. QED  BY <1>1, NamesNextKeeps, PTL DEF Spec

\* However registrations, imports and removals cross, a send name is answered
\* for by one sub at most (registration_service, the unique indexes of subs and
\* sub_send_names).
THEOREM NameHasOneOwnerCorrect == Spec => []NameHasOneOwner
<1>1. ASSUME NamesIInv PROVE NameHasOneOwner
  <2>. SUFFICES ASSUME NEW n \in Names
                PROVE  Cardinality({u \in Subs : Owns(u, n)}) <= 1
    BY DEF NameHasOneOwner
  <2>1. CASE \A u \in Subs : ~Owns(u, n)
    <3>1. {u \in Subs : Owns(u, n)} = {}
      BY <2>1
    <3>. QED  BY <3>1, FS_EmptySet
  <2>2. ASSUME NEW v \in Subs, Owns(v, n)
        PROVE  Cardinality({u \in Subs : Owns(u, n)}) <= 1
    <3>1. {u \in Subs : Owns(u, n)} = {v}
      BY <1>1, <2>2 DEF NamesIInv, OneOwner
    <3>2. Cardinality({v}) = 1
      BY FS_Singleton
    <3>. QED  BY <3>1, <3>2
  <2>. QED  BY <2>1, <2>2
<1>. QED  BY <1>1, NamesInvariant, PTL

\* A send that was looked up before its sub was erased and is stored after names
\* nobody who is erased, unless /add named that member by a mention (user_data,
\* the foreign key of sends.sub_id).
THEOREM ErasedStaysErasedCorrect == Spec => []ErasedStaysErased
<1>1. ASSUME NamesIInv PROVE ErasedStaysErased
  <2>. SUFFICES ASSUME NEW u \in erased, NEW s \in Sends, Recorded(s), sends[s].sub = u
                PROVE  ByMention(s)
    BY DEF ErasedStaysErased
  <2>1. rows[u].id = 0 /\ u \in Subs
    BY <1>1 DEF NamesIInv, NamesTypeOK, References
  <2>2. sends[s].id = 0
    BY <1>1, <2>1 DEF NamesIInv, References
  <2>. QED  BY <2>1, <2>2 DEF ByMention
<1>. QED  BY <1>1, NamesInvariant, PTL

\* No registration, removal or recording gives a send that is attributed to
\* another sub.
THEOREM AttributionStandsCorrect == Spec => AttributionStands
<1>. DEFINE Stands ==
        \A s \in Sends :
          Recorded(s) /\ sends[s].sub # NoOne /\ sends'[s].phase \in {"stored", "posted"}
              => sends'[s].sub = sends[s].sub
<1>1. ASSUME NamesIInv, NamesStep PROVE Stands
  <2>. USE <1>1 DEF NamesIInv, NamesTypeOK, Recorded
  <2>1. ASSUME NEW r \in Asks, CheckNames(r) \/ WriteNames(r) \/ RefuseNames(r) PROVE Stands
    BY <2>1 DEF CheckNames, WriteNames, RefuseNames, Backfilled
  <2>2. ASSUME NEW s \in Sends, LookUp(s) \/ LoseLookUp(s) \/ Insert(s, modes.offline) \/ Post(s)
        PROVE  Stands
    BY <2>2 DEF LookUp, LoseLookUp, Unknown, Insert, Post
  <2>4. ASSUME NEW s \in Sends, NEW u \in Subs, LookUpMention(s, u) PROVE Stands
    BY <2>4 DEF LookUpMention
  <2>3. ASSUME NEW u \in Subs, RemoveSub(u) \/ EraseUser(u) PROVE Stands
    BY <2>3 DEF RemoveSub, EraseUser, Deleted
  <2>. QED  BY <2>1, <2>2, <2>3, <2>4 DEF NamesStep, NamesNext
<1>2. NamesIInv /\ [Next]_vars => [Stands]_nameVars
  BY <1>1, NextIsNamesStep
<1>. QED  BY <1>2, NamesInvariant, PTL DEF Spec, AttributionStands

-----------------------------------------------------------------------------
(***************************************************************************)
(* The leaderboard.                                                        *)
(***************************************************************************)
LEMMA IdleTyped ==
    /\ Idle \in TaskRecords /\ Started \in TaskRecords
    /\ Idle.at \notin Busy /\ Started.at \notin Busy
    /\ Idle.at \notin {"edit", "save"} /\ Started.at \notin {"edit", "save"}
    /\ Idle.message = 0 /\ Started.message = 0
    /\ Idle.key = "leaderboard" /\ Started.key = "leaderboard"
    /\ \A at \in Busy : at \notin {"idle", "start"}
  BY DEF Idle, Started, TaskRecords, Keys, Figures, Busy

LEMMA BoardInitIInv == BoardInit => BoardIInv
<1>. SUFFICES ASSUME BoardInit PROVE BoardIInv
  OBVIOUS
<1>. USE BoardAssumption DEF BoardInit
<1>2. \A t \in Tasks : tasks[t] = Idle \/ tasks[t] = Started
  OBVIOUS
<1>3. \A t \in Tasks : /\ tasks[t].at \notin Busy /\ tasks[t].message = 0
                      /\ tasks[t].key = "leaderboard"
  BY <1>2, IdleTyped
<1>4. BoardTypeOK
  <2>1. tasks \in [Tasks -> TaskRecords]
    BY IdleTyped
  <2>2. messages \in Seq(MessageRecords) /\ Len(messages) = 0
    OBVIOUS
  <2>3. refs \in [Keys -> Nat] /\ \A k \in Keys : refs[k] = 0
    OBVIOUS
  <2>4. modes \in [Modes -> BOOLEAN] /\ asked \in BOOLEAN /\ channel \in Channels
    OBVIOUS
  <2>5. /\ hash \in {NoHash} \cup Hashes /\ lock \in Tasks \cup {NoOne}
        /\ spoilt \subseteq Keys /\ events \in 0..MaxEvents
    OBVIOUS
  <2>6. /\ \A k \in Keys : refs[k] <= Len(messages)
        /\ Len(messages) <= MaxMessages
        /\ \A t \in Tasks : /\ tasks[t].message <= Len(messages)
                            /\ tasks[t].at \in Busy => tasks[t].channel \in Channels
    BY <1>3, <2>2, <2>3
  <2>. QED  BY ONLY <2>1, <2>2, <2>3, <2>4, <2>5, <2>6 DEF BoardTypeOK
<1>5. OneRefresh /\ ShowsItsHash
  BY <1>3 DEF OneRefresh, ShowsItsHash, Busy
<1>6. RestFollows
  BY DEF RestFollows
<1>. QED  BY <1>4, <1>5, <1>6 DEF BoardIInv

\* What a change of one task keeps of the types.
LEMMA OneTaskTyped ==
    ASSUME BoardTypeOK, NEW t \in Tasks, NEW task \in TaskRecords,
           tasks' = [tasks EXCEPT ![t] = task]
    PROVE  /\ tasks' \in [Tasks -> TaskRecords]
           /\ tasks'[t] = task
           /\ \A u \in Tasks \ {t} : tasks'[u] = tasks[u]
  BY DEF BoardTypeOK

LEMMA SummaryTyped == Summary \in Figures
  BY DEF Summary, Posted, Unclaimed, Figures

\* Drop, begin, and the reading of the figures: neither hash nor message changes.
LEMMA ReadingKeeps ==
    ASSUME BoardIInv, NEW t \in Tasks,
           \/ Drop(t) \/ Begin(t) \/ ReadSummary(t) \/ ReadEntries(t) \/ Unchanged(t)
           \/ RefreshNow(t) \/ \E c \in Channels : SetChannel(t, c)
    PROVE  BoardIInv'
<1>. USE BoardAssumption DEF BoardIInv
<1>1. ASSUME NEW task \in TaskRecords, tasks' = [tasks EXCEPT ![t] = task],
             task.at \notin {"edit", "save"}, tasks[t].at \notin {"edit", "save"},
             task.message <= Len(messages), task.key = "leaderboard",
             task.at \in Busy => lock' = t /\ task.channel \in Channels,
             lock' # lock => lock = NoOne \/ lock = t,
             modes' = modes, asked' = asked, channel' \in Channels,
             UNCHANGED <<refs, messages, hash, spoilt>>, events' \in 0..MaxEvents,
             lock' \in Tasks \cup {NoOne}
      PROVE  BoardIInv'
  <2>1. /\ tasks' \in [Tasks -> TaskRecords] /\ tasks'[t] = task
        /\ \A u \in Tasks \ {t} : tasks'[u] = tasks[u]
    BY <1>1, OneTaskTyped
  <2>2. BoardTypeOK'
    BY <1>1, <2>1 DEF BoardTypeOK
  <2>3. OneRefresh'
    BY <1>1, <2>1 DEF OneRefresh
  <2>4. ShowsItsHash'
    BY <1>1, <2>1 DEF ShowsItsHash, Follows
  <2>5. \A k \in Keys : Ahead(k)' <=> Ahead(k)
    BY <1>1, <2>1 DEF Ahead
  <2>6. RestFollows'
    BY <1>1, <2>5 DEF RestFollows, Follows
  <2>. QED  BY <2>2, <2>3, <2>4, <2>6
<1>0. /\ channel \in Channels /\ events \in 0..MaxEvents /\ lock \in Tasks \cup {NoOne}
      /\ tasks[t] \in TaskRecords /\ tasks[t].message <= Len(messages)
      /\ tasks[t].at \in Busy => lock = t /\ tasks[t].channel \in Channels
      /\ tasks[t].at \notin {"edit", "save"} => tasks[t].key = "leaderboard"
      /\ Summary \in Figures /\ Posted \in SUBSET Sends /\ Len(messages) \in Nat
  BY SummaryTyped DEF BoardTypeOK, OneRefresh, Posted
<1>i. Idle.message <= Len(messages) /\ Started.message <= Len(messages)
  BY <1>0, IdleTyped
<1>2. CASE Drop(t)
  <2>1. tasks[t].at = "start" /\ tasks' = [tasks EXCEPT ![t] = Idle] /\ lock' = lock
        /\ UNCHANGED <<modes, asked, channel, refs, messages, hash, spoilt, events>>
    BY <1>2 DEF Drop, At, Finished
  <2>. QED  BY <1>0, <1>i, <1>1, <2>1, IdleTyped
<1>3. CASE Begin(t)
  <2>. DEFINE task == [tasks[t] EXCEPT !.at = "summary", !.channel = channel]
  <2>1. /\ task \in TaskRecords /\ task.at = "summary" /\ task.message = tasks[t].message
        /\ task.key = tasks[t].key
        /\ task.channel = channel
    BY <1>0 DEF TaskRecords, Busy
  <2>2. tasks[t].at = "start" /\ tasks' = [tasks EXCEPT ![t] = task]
    BY <1>3 DEF Begin, At
  <2>. HIDE DEF task
  <2>. QED  BY <1>0, <1>1, <1>3, <2>1, <2>2 DEF Begin
<1>4. CASE ReadSummary(t)
  <2>. DEFINE task == [tasks[t] EXCEPT !.at = "entries", !.summary = Summary]
  <2>1. /\ task \in TaskRecords /\ task.at = "entries" /\ task.message = tasks[t].message
        /\ task.key = tasks[t].key
        /\ task.channel = tasks[t].channel
    BY <1>0 DEF TaskRecords, Busy
  <2>2. tasks[t].at = "summary" /\ tasks' = [tasks EXCEPT ![t] = task]
    BY <1>4 DEF ReadSummary, At
  <2>. HIDE DEF task
  <2>. QED  BY <1>0, <1>1, <1>4, <2>1, <2>2 DEF ReadSummary, Busy
<1>5. CASE ReadEntries(t)
  <2>. DEFINE task == [tasks[t] EXCEPT !.at = "hash", !.entries = Posted]
  <2>1. /\ task \in TaskRecords /\ task.at = "hash" /\ task.message = tasks[t].message
        /\ task.key = tasks[t].key
        /\ task.channel = tasks[t].channel
    BY <1>0 DEF TaskRecords, Busy
  <2>2. tasks[t].at = "entries" /\ tasks' = [tasks EXCEPT ![t] = task]
    BY <1>5 DEF ReadEntries, At
  <2>. HIDE DEF task
  <2>. QED  BY <1>0, <1>1, <1>5, <2>1, <2>2 DEF ReadEntries, Busy
<1>6. CASE Unchanged(t)
  <2>1. tasks[t].at = "hash" /\ tasks' = [tasks EXCEPT ![t] = Idle]
        /\ UNCHANGED <<modes, asked, channel, refs, messages, hash, spoilt, events>>
    BY <1>6 DEF Unchanged, At, Finished
  <2>2. lock = t /\ lock' = NoOne
    BY <1>0, <1>6, <2>1 DEF Unchanged, Release, Busy
  <2>. QED  BY <1>0, <1>i, <1>1, <2>1, <2>2, IdleTyped
<1>7. CASE RefreshNow(t)
  <2>1. tasks[t].at = "idle" /\ tasks' = [tasks EXCEPT ![t] = Started]
        /\ UNCHANGED <<modes, asked, channel, refs, messages, hash, lock, spoilt, events>>
    BY <1>7 DEF RefreshNow, At, StartTask
  <2>. QED  BY <1>0, <1>i, <1>1, <2>1, IdleTyped
<1>8. ASSUME NEW c \in Channels, SetChannel(t, c) PROVE BoardIInv'
  <2>1. tasks[t].at = "idle" /\ tasks' = [tasks EXCEPT ![t] = Started] /\ channel' = c
        /\ UNCHANGED <<modes, asked, refs, messages, hash, lock, spoilt>>
    BY <1>8 DEF SetChannel, At, StartTask
  <2>2. events' \in 0..MaxEvents
    BY <1>0, <1>8 DEF SetChannel
  <2>. QED  BY <1>0, <1>i, <1>1, <2>1, <2>2, IdleTyped
<1>. QED  BY <1>2, <1>3, <1>4, <1>5, <1>6, <1>7, <1>8

\* The new hash covers both messages, and both are still to be done.
LEMMA StoreHashKeeps == ASSUME BoardIInv, NEW t \in Tasks, StoreHash(t) PROVE BoardIInv'
<1>. USE DEF BoardIInv
<1>. DEFINE task == [tasks[t] EXCEPT !.at = "edit", !.offline = modes.offline]
<1>1. /\ tasks[t].at = "hash" /\ tasks' = [tasks EXCEPT ![t] = task]
      /\ hash' = HashNow(t)
      /\ UNCHANGED <<modes, asked, channel, refs, messages, lock, spoilt, events>>
  BY DEF StoreHash, At
<1>2. /\ tasks[t] \in TaskRecords /\ tasks[t].key = "leaderboard" /\ lock = t
      /\ tasks[t].message <= Len(messages) /\ tasks[t].channel \in Channels
  BY <1>1 DEF BoardTypeOK, OneRefresh, Busy
<1>3. modes.offline \in BOOLEAN
  BY DEF BoardTypeOK, Modes
<1>4. /\ task \in TaskRecords /\ task.at = "edit" /\ task.key = "leaderboard"
      /\ task.message = tasks[t].message /\ task.channel = tasks[t].channel
      /\ task.summary = tasks[t].summary /\ task.entries = tasks[t].entries
      /\ task.offline = modes.offline
  BY <1>2, <1>3 DEF TaskRecords, Busy
<1>5. /\ HashNow(t) \in Hashes
      /\ HashNow(t).summary = tasks[t].summary /\ HashNow(t).entries = tasks[t].entries
      /\ modes.offline => HashNow(t).shut
  BY <1>2 DEF HashNow, Hashes, TaskRecords
<1>. HIDE DEF task
<1>6. /\ tasks' \in [Tasks -> TaskRecords] /\ tasks'[t] = task
      /\ \A u \in Tasks \ {t} : tasks'[u] = tasks[u] /\ tasks[u].at \notin Busy
  BY <1>1, <1>2, <1>4, OneTaskTyped DEF OneRefresh
<1>7. BoardTypeOK'
  BY <1>1, <1>2, <1>4, <1>5, <1>6 DEF BoardTypeOK
<1>8. OneRefresh'
  BY <1>1, <1>2, <1>4, <1>6 DEF OneRefresh
<1>9. ShowsItsHash'
  BY <1>1, <1>4, <1>5, <1>6 DEF ShowsItsHash, Busy
<1>10. RestFollows'
  <2>1. \A k \in Keys : Ahead(k)'
    BY <1>4, <1>6 DEF Ahead, Keys
  <2>. QED  BY <2>1 DEF RestFollows
<1>. QED  BY <1>7, <1>8, <1>9, <1>10

\* A message that a refresh fills shows what the refresh has hashed.
LEMMA RenderedFollows ==
    ASSUME BoardIInv, NEW t \in Tasks, tasks[t].at \in {"edit", "save"}
    PROVE  /\ Rendered(tasks[t]) \in Contents
           /\ \/ Rendered(tasks[t]) = [summary |-> hash.summary, entries |-> hash.entries]
              \/ hash.shut /\ Rendered(tasks[t]) = OfflineCard
<1>1. tasks[t] \in TaskRecords
  BY DEF BoardIInv, BoardTypeOK
<1>2. /\ hash.summary = tasks[t].summary /\ hash.entries = tasks[t].entries
      /\ tasks[t].offline => hash.shut
  BY DEF BoardIInv, ShowsItsHash
<1>. QED  BY <1>1, <1>2 DEF Rendered, Contents, TaskRecords

\* One message is done with, the other is next or the refresh is over.
LEMMA KeyDoneKeeps ==
    ASSUME BoardIInv, NEW t \in Tasks, tasks[t].at \in {"edit", "save"}, NextKey(t),
           modes' = modes, asked' = asked, channel' = channel, hash' = hash,
           events' \in 0..MaxEvents,
           messages' \in Seq(MessageRecords), Len(messages') = Len(messages),
           \A i \in 1..Len(messages) : Follows(i) => Follows(i)',
           refs' \in [Keys -> Nat], spoilt' \subseteq Keys,
           \A k \in Keys : refs'[k] <= Len(messages'),
           \A k \in Keys \ {tasks[t].key} : /\ refs'[k] = refs[k]
                                            /\ k \in spoilt => k \in spoilt',
           \A k \in Keys \ spoilt' : k = tasks[t].key => (refs[k] # 0 /\ Follows(refs[k]))'
    PROVE  BoardIInv'
<1>. USE BoardAssumption DEF BoardIInv
<1>1. /\ tasks[t] \in TaskRecords /\ lock = t /\ tasks[t].key \in Keys
      /\ tasks[t].message <= Len(messages) /\ tasks[t].channel \in Channels
      /\ Len(messages) \in Nat /\ Len(messages) <= MaxMessages
      /\ \A k \in Keys : refs[k] \in Nat /\ refs[k] <= Len(messages)
  BY DEF BoardTypeOK, OneRefresh, Busy, TaskRecords
<1>2. PICK task \in TaskRecords :
        /\ tasks' = [tasks EXCEPT ![t] = task]
        /\ task.message <= Len(messages)
        /\ \/ /\ tasks[t].key = "leaderboard"
              /\ task.at = "edit" /\ task.key = "leaderboard_stats" /\ lock' = t
              /\ task.channel = tasks[t].channel /\ task.summary = tasks[t].summary
              /\ task.entries = tasks[t].entries /\ task.offline = tasks[t].offline
           \/ /\ tasks[t].key = "leaderboard_stats"
              /\ task = Idle /\ lock' = NoOne
  <2>1. CASE tasks[t].key = "leaderboard"
    <3>. DEFINE task == [tasks[t] EXCEPT !.at = "edit", !.key = "leaderboard_stats"]
    <3>1. /\ task \in TaskRecords /\ task.at = "edit" /\ task.key = "leaderboard_stats"
          /\ task.message = tasks[t].message /\ task.channel = tasks[t].channel
          /\ task.summary = tasks[t].summary
          /\ task.entries = tasks[t].entries /\ task.offline = tasks[t].offline
      BY <1>1 DEF TaskRecords, Busy, Keys
    <3>2. tasks' = [tasks EXCEPT ![t] = task] /\ lock' = t
      BY <1>1, <2>1 DEF NextKey
    <3>. HIDE DEF task
    <3>. QED  BY <1>1, <2>1, <3>1, <3>2
  <2>2. CASE tasks[t].key = "leaderboard_stats"
    <3>1. tasks' = [tasks EXCEPT ![t] = Idle] /\ lock' = NoOne
      BY <1>1, <2>2 DEF NextKey, Finished, Release
    <3>2. Idle \in TaskRecords /\ Idle.message <= Len(messages)
      BY <1>1, IdleTyped
    <3>. QED  BY <2>2, <3>1, <3>2
  <2>. QED  BY <1>1, <2>1, <2>2 DEF Keys
<1>3. /\ tasks' \in [Tasks -> TaskRecords] /\ tasks'[t] = task
      /\ \A u \in Tasks \ {t} : tasks'[u] = tasks[u] /\ tasks[u].at \notin Busy
  BY <1>1, <1>2, OneTaskTyped DEF OneRefresh
<1>4. BoardTypeOK'
  BY <1>1, <1>2, <1>3, IdleTyped DEF BoardTypeOK
<1>5. OneRefresh'
  BY <1>2, <1>3, IdleTyped DEF OneRefresh
<1>6. ShowsItsHash'
  BY <1>2, <1>3, IdleTyped DEF ShowsItsHash, Busy
<1>7. RestFollows'
  <2>. SUFFICES ASSUME hash # NoHash, NEW k \in Keys \ spoilt', ~Ahead(k)'
                PROVE  (refs[k] # 0 /\ Follows(refs[k]))'
    BY DEF RestFollows
  <2>1. CASE k = tasks[t].key
    BY <2>1
  <2>2. CASE k # tasks[t].key
    <3>1. k = "leaderboard" /\ tasks[t].key = "leaderboard_stats"
      BY <1>1, <1>2, <1>3, <2>2 DEF Keys, Ahead
    <3>2. ~Ahead(k)
      BY <1>1, <1>3, <3>1 DEF Ahead, Busy
    <3>3. refs[k] # 0 /\ Follows(refs[k])
      BY <2>2, <3>2 DEF RestFollows
    <3>4. refs[k] \in 1..Len(messages) /\ refs'[k] = refs[k]
      BY <1>1, <2>2, <3>3
    <3>5. Follows(refs[k])'
      BY <3>3, <3>4 DEF Follows
    <3>. QED  BY <3>3, <3>4, <3>5
  <2>. QED  BY <2>1, <2>2
<1>. QED  BY <1>4, <1>5, <1>6, <1>7

LEMMA EditKeeps ==
    ASSUME BoardIInv, NEW t \in Tasks, Edit(t) \/ SaveRef(t) \/ EditFails(t)
    PROVE  BoardIInv'
<1>. USE BoardAssumption
<1>1. /\ tasks[t] \in TaskRecords /\ tasks[t].key \in Keys /\ events \in 0..MaxEvents
      /\ messages \in Seq(MessageRecords) /\ Len(messages) \in Nat
      /\ refs \in [Keys -> Nat] /\ \A k \in Keys : refs[k] <= Len(messages)
      /\ tasks[t].message \in Nat /\ tasks[t].message <= Len(messages)
      /\ spoilt \subseteq Keys
  BY DEF BoardIInv, BoardTypeOK, TaskRecords
<1>2. tasks[t].at \in {"edit", "save"} /\ NextKey(t)
  BY DEF Edit, SaveRef, EditFails, At
<1>3. CASE Edit(t)
  <2>. DEFINE shows == [messages[Ref(t)] EXCEPT !.content = Rendered(tasks[t])]
  <2>1. /\ messages' = [messages EXCEPT ![Ref(t)] = shows]
        /\ spoilt' = spoilt \ {tasks[t].key}
        /\ UNCHANGED <<modes, asked, channel, refs, hash, events>>
    BY <1>3 DEF Edit
  <2>2. Ref(t) \in 1..Len(messages)
    BY <1>1, <1>3 DEF Edit, Missing, Ref
  <2>3. messages[Ref(t)] \in MessageRecords
    BY <1>1, <2>2
  <2>4. shows \in MessageRecords /\ shows.content = Rendered(tasks[t])
    BY <1>2, <2>3, RenderedFollows DEF MessageRecords
  <2>. HIDE DEF shows
  <2>5. /\ messages' \in Seq(MessageRecords) /\ Len(messages') = Len(messages)
        /\ \A i \in 1..Len(messages) : messages'[i] = IF i = Ref(t) THEN shows ELSE messages[i]
    BY <1>1, <2>1, <2>2, <2>4, ExceptSeq
  <2>6. \A i \in 1..Len(messages) : i = Ref(t) \/ Follows(i) => Follows(i)'
    BY <1>2, <2>1, <2>4, <2>5, RenderedFollows DEF Follows
  <2>7. \A k \in Keys \ spoilt' : k = tasks[t].key => (refs[k] # 0 /\ Follows(refs[k]))'
    BY <2>1, <2>2, <2>6 DEF Ref
  <2>. QED  BY <1>1, <1>2, <2>1, <2>5, <2>6, <2>7, KeyDoneKeeps
<1>4. CASE SaveRef(t)
  <2>1. /\ refs' = [refs EXCEPT ![tasks[t].key] = tasks[t].message]
        /\ spoilt' = spoilt \ {tasks[t].key}
        /\ UNCHANGED <<modes, asked, channel, messages, hash, events>>
        /\ tasks[t].at = "save"
    BY <1>4 DEF SaveRef, At
  <2>2. tasks[t].message # 0 /\ Follows(tasks[t].message)
    BY <2>1 DEF BoardIInv, ShowsItsHash
  <2>3. /\ refs' \in [Keys -> Nat] /\ \A k \in Keys : refs'[k] <= Len(messages)
        /\ refs'[tasks[t].key] = tasks[t].message
        /\ \A k \in Keys \ {tasks[t].key} : refs'[k] = refs[k]
    BY <1>1, <2>1
  <2>4. \A i \in 1..Len(messages) : Follows(i) => Follows(i)'
    BY <2>1 DEF Follows
  <2>5. \A k \in Keys \ spoilt' : k = tasks[t].key => (refs[k] # 0 /\ Follows(refs[k]))'
    BY <2>1, <2>2, <2>3 DEF Follows
  <2>. QED  BY <1>1, <1>2, <2>1, <2>3, <2>4, <2>5, KeyDoneKeeps
<1>5. CASE EditFails(t)
  <2>1. /\ events < MaxEvents /\ events' = events + 1
        /\ spoilt' = spoilt \cup {tasks[t].key}
        /\ UNCHANGED <<modes, asked, channel, refs, messages, hash>>
    BY <1>5 DEF EditFails
  <2>2. events' \in 0..MaxEvents
    BY <1>1, <2>1
  <2>3. \A i \in 1..Len(messages) : Follows(i) => Follows(i)'
    BY <2>1 DEF Follows
  <2>. QED  BY <1>1, <1>2, <2>1, <2>2, <2>3, KeyDoneKeeps
<1>. QED  BY <1>3, <1>4, <1>5

LEMMA SendMessageKeeps == ASSUME BoardIInv, NEW t \in Tasks, SendMessage(t) PROVE BoardIInv'
<1>. USE BoardAssumption DEF BoardIInv
<1>. DEFINE sent == [key |-> tasks[t].key, channel |-> tasks[t].channel,
                     content |-> Rendered(tasks[t]), deleted |-> FALSE]
            task == [tasks[t] EXCEPT !.at = "save", !.message = Len(messages')]
<1>1. /\ tasks[t].at = "edit" /\ Len(messages) < MaxMessages
      /\ messages' = Append(messages, sent)
      /\ tasks' = [tasks EXCEPT ![t] = task]
      /\ UNCHANGED <<modes, asked, channel, refs, hash, lock, spoilt, events>>
  BY DEF SendMessage, At
<1>2. /\ tasks[t] \in TaskRecords /\ tasks[t].key \in Keys /\ lock = t
      /\ tasks[t].channel \in Channels
      /\ messages \in Seq(MessageRecords) /\ Len(messages) \in Nat
  BY <1>1 DEF BoardTypeOK, OneRefresh, Busy, TaskRecords
<1>3. sent \in MessageRecords /\ sent.content = Rendered(tasks[t])
  BY <1>1, <1>2, RenderedFollows DEF MessageRecords
<1>. HIDE DEF sent
<1>4. /\ messages' \in Seq(MessageRecords) /\ Len(messages') = Len(messages) + 1
      /\ \A i \in 1..Len(messages) : messages'[i] = messages[i]
      /\ messages'[Len(messages) + 1] = sent
  BY <1>1, <1>2, <1>3, AppendProperties
<1>a. Len(messages') \in Nat
  BY <1>2, <1>4
<1>5. /\ task \in TaskRecords /\ task.at = "save" /\ task.key = tasks[t].key
      /\ task.message = Len(messages) + 1 /\ task.channel = tasks[t].channel
      /\ task.summary = tasks[t].summary /\ task.entries = tasks[t].entries
      /\ task.offline = tasks[t].offline
  BY <1>2, <1>4, <1>a DEF TaskRecords, Busy
<1>. HIDE DEF task
<1>6. /\ tasks' \in [Tasks -> TaskRecords] /\ tasks'[t] = task
      /\ \A u \in Tasks \ {t} : tasks'[u] = tasks[u] /\ tasks[u].at \notin Busy
  BY <1>1, <1>2, <1>5, OneTaskTyped DEF OneRefresh
<1>7. \A i \in 1..Len(messages) : Follows(i) => Follows(i)'
  BY <1>1, <1>4 DEF Follows
<1>8. BoardTypeOK'
  <2>1. \A k \in Keys : refs[k] \in Nat /\ refs[k] <= Len(messages')
    BY <1>2, <1>4 DEF BoardTypeOK
  <2>2. \A u \in Tasks : tasks'[u].message <= Len(messages')
    BY <1>2, <1>4, <1>5, <1>6 DEF BoardTypeOK, TaskRecords
  <2>3. \A u \in Tasks : tasks'[u].at \in Busy => tasks'[u].channel \in Channels
    BY <1>2, <1>5, <1>6 DEF BoardTypeOK
  <2>4. Len(messages') <= MaxMessages
    BY <1>1, <1>2, <1>4
  <2>. QED  BY <1>1, <1>4, <1>6, <2>1, <2>2, <2>3, <2>4 DEF BoardTypeOK
<1>9. OneRefresh'
  BY <1>1, <1>2, <1>5, <1>6 DEF OneRefresh
<1>10. ShowsItsHash'
  BY <1>1, <1>2, <1>3, <1>4, <1>5, <1>6, RenderedFollows DEF ShowsItsHash, Follows, Busy
<1>11. RestFollows'
  <2>. SUFFICES ASSUME hash # NoHash, NEW k \in Keys \ spoilt, ~Ahead(k)'
                PROVE  (refs[k] # 0 /\ Follows(refs[k]))'
    BY <1>1 DEF RestFollows
  <2>1. ~Ahead(k)
    BY <1>1, <1>5, <1>6 DEF Ahead
  <2>2. refs[k] # 0 /\ Follows(refs[k])
    BY <2>1 DEF RestFollows
  <2>3. refs[k] \in 1..Len(messages) /\ refs' = refs
    BY <1>1, <1>2, <2>2 DEF BoardTypeOK
  <2>. QED  BY <1>1, <1>4, <2>2, <2>3 DEF Follows
<1>. QED  BY <1>8, <1>9, <1>10, <1>11

\* An exception ends a refresh: once its hash is stored, the message at hand and
\* what would have come after it are spoilt.
LEMMA RefreshRaisesKeeps ==
    ASSUME BoardIInv, NEW t \in Tasks, RefreshRaises(t) PROVE BoardIInv'
<1>. USE BoardAssumption DEF BoardIInv
<1>1. /\ tasks[t].at \in Busy /\ tasks' = [tasks EXCEPT ![t] = Idle]
      /\ events < MaxEvents /\ events' = events + 1
      /\ lock' = IF lock = t THEN NoOne ELSE lock
      /\ UNCHANGED <<modes, asked, channel, refs, messages, hash>>
  BY DEF RefreshRaises, Finished, Release, Busy
<1>a. spoilt' = IF tasks[t].at \in {"edit", "save"}
                THEN spoilt \cup {tasks[t].key, "leaderboard_stats"} ELSE spoilt
  BY DEF RefreshRaises
<1>2. /\ tasks[t] \in TaskRecords /\ tasks[t].key \in Keys /\ lock = t
      /\ events' \in 0..MaxEvents /\ Len(messages) \in Nat
  BY <1>1 DEF BoardTypeOK, OneRefresh, TaskRecords
<1>3. /\ tasks' \in [Tasks -> TaskRecords] /\ tasks'[t] = Idle
      /\ \A u \in Tasks \ {t} : tasks'[u] = tasks[u] /\ tasks[u].at \notin Busy
  BY <1>1, <1>2, IdleTyped, OneTaskTyped DEF OneRefresh
<1>4. BoardTypeOK'
  <2>1. Idle.message <= Len(messages)
    BY <1>2, IdleTyped
  <2>. QED  BY <1>1, <1>a, <1>2, <1>3, <2>1, IdleTyped DEF BoardTypeOK, Keys
<1>5. OneRefresh'
  BY <1>1, <1>3, IdleTyped DEF OneRefresh
<1>6. ShowsItsHash'
  BY <1>1, <1>3, IdleTyped DEF ShowsItsHash, Busy
<1>7. RestFollows'
  <2>. SUFFICES ASSUME hash # NoHash, NEW k \in Keys \ spoilt'
                PROVE  (refs[k] # 0 /\ Follows(refs[k]))'
    BY <1>1 DEF RestFollows
  <2>1. k \in Keys \ spoilt
    BY <1>a
  <2>2. ~Ahead(k)
    <3>1. CASE tasks[t].at \in {"edit", "save"}
      <4>1. k # tasks[t].key /\ k # "leaderboard_stats"
        BY <1>a, <3>1
      <4>. QED  BY <1>3, <4>1 DEF Ahead, Busy
    <3>2. CASE tasks[t].at \notin {"edit", "save"}
      BY <1>3, <3>2 DEF Ahead, Busy
    <3>. QED  BY <3>1, <3>2
  <2>. QED  BY <1>1, <2>1, <2>2 DEF RestFollows, Follows
<1>. QED  BY <1>4, <1>5, <1>6, <1>7

\* A refresh is started by whatever else the poller or the ops API does.
LEMMA StartKeeps ==
    ASSUME BoardIInv, NEW t \in Tasks, tasks[t].at = "idle",
           StartTask(t) \/ UNCHANGED tasks, asked' \in BOOLEAN,
           UNCHANGED <<modes, channel, refs, messages, hash, lock, spoilt, events>>
    PROVE  BoardIInv'
<1>. USE DEF BoardIInv
<1>1. CASE StartTask(t)
  <2>1. tasks' = [tasks EXCEPT ![t] = Started]
    BY <1>1 DEF StartTask
  <2>2. /\ tasks' \in [Tasks -> TaskRecords] /\ tasks'[t] = Started
        /\ \A u \in Tasks \ {t} : tasks'[u] = tasks[u]
    BY <2>1, IdleTyped, OneTaskTyped
  <2>3. Started.message <= Len(messages)
    BY IdleTyped DEF BoardTypeOK
  <2>4. BoardTypeOK'
    BY <2>2, <2>3, IdleTyped DEF BoardTypeOK
  <2>5. OneRefresh' /\ ShowsItsHash'
    BY <2>2, IdleTyped DEF OneRefresh, ShowsItsHash, Follows
  <2>6. \A k \in Keys : Ahead(k) <=> Ahead(k)'
    BY <2>2, IdleTyped DEF Ahead
  <2>7. RestFollows'
    BY <2>6 DEF RestFollows, Follows
  <2>. QED  BY <2>4, <2>5, <2>7
<1>2. CASE UNCHANGED tasks
  BY <1>2 DEF BoardTypeOK, OneRefresh, ShowsItsHash, RestFollows, Ahead, Follows
<1>. QED  BY <1>1, <1>2

\* The modes, the deletion of a message and a restart.
LEMMA OutsideKeeps ==
    ASSUME BoardIInv,
           \/ \E m \in Modes : SetMode(m)
           \/ \E i \in DOMAIN messages : DeleteMessage(i)
           \/ Restart
    PROVE  BoardIInv'
<1>. USE BoardAssumption DEF BoardIInv
<1>0. events \in 0..MaxEvents /\ messages \in Seq(MessageRecords) /\ Len(messages) \in Nat
  BY DEF BoardTypeOK
<1>1. ASSUME NEW m \in Modes, SetMode(m) PROVE BoardIInv'
  <2>1. events' \in 0..MaxEvents /\ modes' \in [Modes -> BOOLEAN] /\ asked' \in BOOLEAN
    BY <1>0, <1>1 DEF SetMode, BoardTypeOK
  <2>2. UNCHANGED <<channel, refs, messages, tasks, hash, lock, spoilt>>
    BY <1>1 DEF SetMode
  <2>. QED
    BY <2>1, <2>2 DEF BoardTypeOK, OneRefresh, ShowsItsHash, RestFollows, Ahead, Follows
<1>2. ASSUME NEW i \in DOMAIN messages, DeleteMessage(i) PROVE BoardIInv'
  <2>. DEFINE gone == [messages[i] EXCEPT !.deleted = TRUE]
  <2>1. /\ messages' = [messages EXCEPT ![i] = gone]
        /\ spoilt' = spoilt \cup {k \in Keys : refs[k] = i}
        /\ UNCHANGED <<modes, asked, channel, refs, tasks, hash, lock>>
    BY <1>2 DEF DeleteMessage
  <2>2. events' \in 0..MaxEvents
    BY <1>0, <1>2 DEF DeleteMessage
  <2>3. i \in 1..Len(messages) /\ messages[i] \in MessageRecords
    BY <1>0
  <2>4. gone \in MessageRecords /\ gone.content = messages[i].content
    BY <2>3 DEF MessageRecords
  <2>. HIDE DEF gone
  <2>5. /\ messages' \in Seq(MessageRecords) /\ Len(messages') = Len(messages)
        /\ \A j \in 1..Len(messages) : messages'[j] = IF j = i THEN gone ELSE messages[j]
    BY <1>0, <2>1, <2>3, <2>4, ExceptSeq
  <2>6. \A j \in 1..Len(messages) : Follows(j) => Follows(j)'
    BY <2>1, <2>4, <2>5 DEF Follows
  <2>7. /\ \A k \in Keys : refs[k] # 0 => refs[k] \in 1..Len(messages)
        /\ \A t \in Tasks : tasks[t].message # 0 => tasks[t].message \in 1..Len(messages)
    BY <1>0 DEF BoardTypeOK, TaskRecords
  <2>8. BoardTypeOK'
    BY <2>1, <2>2, <2>5 DEF BoardTypeOK
  <2>9. OneRefresh' /\ ShowsItsHash'
    BY <2>1, <2>6, <2>7 DEF OneRefresh, ShowsItsHash
  <2>10. RestFollows'
    BY <2>1, <2>6, <2>7 DEF RestFollows, Ahead
  <2>. QED  BY <2>8, <2>9, <2>10
<1>3. CASE Restart
  <2>1. /\ events' = events + 1 /\ events < MaxEvents
        /\ tasks' = [t \in Tasks |-> IF t = Poller THEN Started ELSE Idle]
        /\ hash' = NoHash /\ lock' = NoOne
        /\ UNCHANGED <<modes, asked, channel, refs, messages, spoilt>>
    BY <1>3 DEF Restart
  <2>2. events' \in 0..MaxEvents
    BY <1>0, <2>1
  <2>3. \A t \in Tasks : tasks'[t] = Started \/ tasks'[t] = Idle
    BY <2>1
  <2>4. \A t \in Tasks : /\ tasks'[t].at \notin Busy /\ tasks'[t].message <= Len(messages)
                         /\ tasks'[t].key = "leaderboard"
    BY <1>0, <2>3, IdleTyped
  <2>5. tasks' \in [Tasks -> TaskRecords]
    BY <2>1, IdleTyped
  <2>6. BoardTypeOK'
    BY <2>1, <2>2, <2>4, <2>5 DEF BoardTypeOK
  <2>7. OneRefresh' /\ ShowsItsHash' /\ RestFollows'
    BY <2>1, <2>4 DEF OneRefresh, ShowsItsHash, RestFollows, Busy
  <2>. QED  BY <2>6, <2>7
<1>. QED  BY <1>1, <1>2, <1>3

LEMMA BoardNextKeeps == BoardIInv /\ [Next]_vars => BoardIInv'
<1>. SUFFICES ASSUME BoardIInv, [Next]_vars PROVE BoardIInv'
  OBVIOUS
<1>1. CASE UNCHANGED boardVars
  BY <1>1 DEF boardVars, BoardIInv, BoardTypeOK, OneRefresh, ShowsItsHash, RestFollows, Ahead,
              Follows
<1>2. ASSUME NEW t \in Tasks, NEW s \in Sends, PostSend(t, s) PROVE BoardIInv'
  BY <1>2, StartKeeps DEF PostSend, At, BoardIInv, BoardTypeOK
<1>3. ASSUME NEW t \in Tasks, RefreshStep(t) PROVE BoardIInv'
  BY <1>3, ReadingKeeps, StoreHashKeeps, EditKeeps, SendMessageKeeps, RefreshRaisesKeeps
     DEF RefreshStep
<1>4. CASE ConsumeRequest
  BY <1>4, StartKeeps, BoardAssumption DEF ConsumeRequest, At
<1>. QED
  BY <1>1, <1>2, <1>3, <1>4, OutsideKeeps DEF Next, vars

\* The inductive invariant, of the tables and of the leaderboard.
THEOREM InductiveInvariant == Spec => []IInv
<1>1. Init => BoardIInv
  BY BoardInitIInv DEF Init
<1>2. Spec => []BoardIInv
  BY <1>1, BoardNextKeeps, PTL DEF Spec
<1>. QED  BY <1>2, NamesInvariant, PTL DEF IInv

\* Every value of the tables, of the messages and of a refresh in progress.
THEOREM TypeCorrect == Spec => []TypeOK
<1>1. IInv => TypeOK
  BY DEF IInv, NamesIInv, BoardIInv, TypeOK
<1>. QED  BY <1>1, InductiveInvariant, PTL

\* The skip by hash is sound: whoever finds the figures of the hash in memory
\* may leave both messages as they are, but for those that could not be edited,
\* that an exception kept its refresh from, or that were deleted (leaderboard_service, _refresh_locks and _content_hashes).
THEOREM BoardFollowsHashCorrect == Spec => []BoardFollowsHash
<1>1. ASSUME IInv PROVE BoardFollowsHash
  <2>. SUFFICES ASSUME lock = NoOne, hash # NoHash, NEW k \in Keys \ spoilt
                PROVE  refs[k] # 0 /\ Follows(refs[k])
    BY DEF BoardFollowsHash
  <2>1. ~Ahead(k)
    BY <1>1, BoardAssumption DEF IInv, BoardIInv, OneRefresh, Ahead, Busy
  <2>. QED  BY <1>1, <2>1 DEF IInv, BoardIInv, RestFollows
<1>. QED  BY <1>1, InductiveInvariant, PTL

=============================================================================
