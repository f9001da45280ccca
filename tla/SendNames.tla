------------------------------ MODULE SendNames ------------------------------
(***************************************************************************)
(* The send names of one guild: which sub owns a name, and which sends are *)
(* attributed to whom.  The tables subs and sub_send_names, the columns    *)
(* sub_id and sub_user_id of sends, and the four programs that write them: *)
(* a registration (modal, ops API, command line), the recording of a send  *)
(* (webhook process, /add), a removal and the erasure of a user's data.    *)
(*                                                                         *)
(* Postgres runs the statements of a transaction at READ COMMITTED, so a   *)
(* registration is two steps, the conflict check and the writes; the       *)
(* recording of a send looks its name up and inserts it later.  Case and   *)
(* white space of names are normalised before they get here.               *)
(***************************************************************************)
EXTENDS Naturals, FiniteSets

CONSTANTS
    Subs,      \* the users who register send names
    Names,     \* the names senders use
    Asks,      \* the registrations that may be made: a user, its names, the first of them
    Sends,     \* the sends that arrive
    NameOf,    \* the name each send carries
    Legacy,    \* subs imported with a name each: one of them may be there at the start
    MaxRows,   \* bound: rows of subs ever inserted
    NoOne      \* no user, no name

Request == [user: Subs, primary: Names, names: SUBSET Names]

ASSUME AsksAssumption ==
    /\ Asks \subseteq {r \in Request : r.primary \in r.names /\ Cardinality(r.names) <= 3}
    /\ NameOf \in [Sends -> Names]
    /\ NoOne \notin Subs \cup Names
    /\ Legacy \subseteq [user: Subs, name: Names]
    /\ MaxRows \in Nat \ {0}

VARIABLES
    rows,    \* subs with its sub_send_names, a row per user or none (id 0)
    serial,  \* the ids of subs given so far
    open,    \* registrations past their conflict check and not committed
    sends,   \* each send: how far it is, and the user and row it is attributed to
    erased   \* users erased and not registered since (history)

nameVars == <<rows, serial, open, sends, erased>>

NoRow == [id |-> 0, primary |-> NoOne, names |-> {}]

\* An imported sub has a row in subs and none in sub_send_names.
Imported(n) == [id |-> 1, primary |-> n, names |-> {}]

Unknown == [phase |-> "unknown", sub |-> NoOne, id |-> 0]
Deleted == [phase |-> "deleted", sub |-> NoOne, id |-> 0]

NamesInit ==
    /\ \/ rows = [u \in Subs |-> NoRow] /\ serial = 0
       \/ \E sub \in Legacy :
             /\ rows = [u \in Subs |-> IF u = sub.user THEN Imported(sub.name) ELSE NoRow]
             /\ serial = 1
    /\ open = {}
    /\ sends = [s \in Sends |-> Unknown]
    /\ erased = {}

Recorded(s) == sends[s].phase \in {"stored", "posted"}

Owns(u, n) ==
    /\ rows[u].id # 0
    /\ n \in rows[u].names \cup {rows[u].primary}

(***************************************************************************)
(* Registration.                                                           *)
(***************************************************************************)

Conflict(r) == \E u \in Subs \ {r.user} : \E n \in r.names : Owns(u, n)

\* Mutant: sub_send_names without its unique index.
UniqueFirst(r) ==
    \A u \in Subs \ {r.user} : rows[u].id # 0 => rows[u].primary # r.primary

\* The unique indexes on lower(send_name), of subs and of sub_send_names.
Unique(r) ==
    \A u \in Subs \ {r.user} :
        rows[u].id # 0 => rows[u].primary # r.primary /\ rows[u].names \cap r.names = {}

CheckNames(r) ==
    /\ r \notin open
    /\ ~Conflict(r)
    /\ open' = open \cup {r}
    /\ UNCHANGED <<rows, serial, sends, erased>>

\* Mutant: the backfill takes every send of the names.
BackfilledAll(s, r) == Recorded(s) /\ NameOf[s] \in r.names

\* What the last UPDATE of the transaction attributes to the new names.
Backfilled(s, r) == Recorded(s) /\ sends[s].sub = NoOne /\ NameOf[s] \in r.names

WriteNames(r) ==
    LET id == IF rows[r.user].id = 0 THEN serial + 1 ELSE rows[r.user].id
    IN  /\ r \in open
        /\ Unique(r)
        /\ id <= MaxRows
        /\ serial' = IF id > serial THEN id ELSE serial
        /\ rows' = [rows EXCEPT ![r.user] =
                       [id |-> id, primary |-> r.primary, names |-> r.names]]
        /\ sends' = [s \in Sends |->
                       IF Backfilled(s, r) THEN [sends[s] EXCEPT !.sub = r.user, !.id = id]
                                           ELSE sends[s]]
        /\ open' = open \ {r}
        /\ erased' = erased \ {r.user}

\* The unique index refuses the insert and the transaction is rolled back.
RefuseNames(r) ==
    /\ r \in open
    /\ ~Unique(r)
    /\ open' = open \ {r}
    /\ UNCHANGED <<rows, serial, sends, erased>>

(***************************************************************************)
(* Recording a send: the lookup of its name, then the insert.              *)
(***************************************************************************)

Attributed(u) == [phase |-> "looked", sub |-> u, id |-> rows[u].id]

LookUp(s) ==
    LET owners == {u \in Subs : Owns(u, NameOf[s])}
    IN  /\ sends[s].phase = "unknown"
        /\ \/ /\ owners = {}
              /\ sends' = [sends EXCEPT ![s] = [phase |-> "looked", sub |-> NoOne, id |-> 0]]
           \/ \E u \in owners : sends' = [sends EXCEPT ![s] = Attributed(u)]
        /\ UNCHANGED <<rows, serial, open, erased>>

\* /add with a mention in place of the name: the send is the mentioned user's,
\* by the row of that user or, where there is none, without one.
LookUpMention(s, u) ==
    /\ sends[s].phase = "unknown"
    /\ sends' = [sends EXCEPT ![s] = Attributed(u)]
    /\ UNCHANGED <<rows, serial, open, erased>>

\* Mutant: sends.sub_id without its foreign key.
RowNotChecked(s) == sends[s].phase = "looked"

\* sends.sub_id REFERENCES subs(id): the row found must still be there, if one
\* was found.  sub_user_id refers to nothing.
RowStands(s) == sends[s].id # 0 => rows[sends[s].sub].id = sends[s].id

\* With tracking disabled (Rob offline) a send is stored as posted already.
Insert(s, disabled) ==
    /\ sends[s].phase = "looked"
    /\ RowStands(s)
    /\ sends' = [sends EXCEPT ![s].phase = IF disabled THEN "posted" ELSE "stored"]
    /\ UNCHANGED <<rows, serial, open, erased>>

\* The foreign key refuses the insert, or the process stops: the delivery is made again.
LoseLookUp(s) ==
    /\ sends[s].phase = "looked"
    /\ sends' = [sends EXCEPT ![s] = Unknown]
    /\ UNCHANGED <<rows, serial, open, erased>>

(***************************************************************************)
(* Removal and erasure.                                                    *)
(***************************************************************************)

\* The same foreign key refuses to remove a sub who has sends; names cascade.
RemoveSub(u) ==
    /\ rows[u].id # 0
    /\ \A s \in Sends : Recorded(s) => sends[s].id # rows[u].id
    /\ rows' = [rows EXCEPT ![u] = NoRow]
    /\ UNCHANGED <<serial, open, sends, erased>>

\* One transaction: the sends of the user, by row or by mention, the names, the row.
EraseUser(u) ==
    /\ u \notin erased \/ \E s \in Sends : Recorded(s) /\ sends[s].sub = u
    /\ sends' = [s \in Sends |-> IF Recorded(s) /\ sends[s].sub = u THEN Deleted ELSE sends[s]]
    /\ rows' = [rows EXCEPT ![u] = NoRow]
    /\ erased' = erased \cup {u}
    /\ UNCHANGED <<serial, open>>

NamesNext ==
    \/ \E r \in Asks : CheckNames(r) \/ WriteNames(r) \/ RefuseNames(r)
    \/ \E s \in Sends : LookUp(s) \/ LoseLookUp(s)
    \/ \E s \in Sends, u \in Subs : LookUpMention(s, u)
    \/ \E u \in Subs : RemoveSub(u) \/ EraseUser(u)

(***************************************************************************)
(* Properties.                                                             *)
(***************************************************************************)

NamesTypeOK ==
    /\ rows \in [Subs -> [id: 0..MaxRows, primary: Names \cup {NoOne}, names: SUBSET Names]]
    /\ serial \in 0..MaxRows
    /\ open \subseteq Asks
    /\ sends \in [Sends -> [phase: {"unknown", "looked", "stored", "posted", "deleted"},
                            sub: Subs \cup {NoOne}, id: 0..MaxRows]]
    /\ erased \subseteq Subs

\* No send name is answered for by two subs, whether as the first name of one
\* or among the others, and however their registrations cross: a send of that
\* name could otherwise be attributed to either.
NameHasOneOwner ==
    \A n \in Names : Cardinality({u \in Subs : Owns(u, n)}) <= 1

\* Attributed to a mentioned user who had no row.
ByMention(s) == sends[s].sub # NoOne /\ sends[s].id = 0

\* A user whose data was erased and who did not register again is named by no
\* send that found the user by a send name or a row, though a webhook may have
\* looked the user up before the erasure and store its send after it.  Only
\* /add with a mention can name such a user: of one without a row it takes the
\* Discord id as it stands, and nothing refuses it.
ErasedStaysErased ==
    \A u \in erased, s \in Sends : Recorded(s) /\ sends[s].sub = u => ByMention(s)

\* Stated, and not kept: no send at all names a user after the erasure.
ErasedIsForgotten ==
    \A u \in erased, s \in Sends : Recorded(s) => sends[s].sub # u

\* An attribution is never taken over: who registers a name gets the sends of
\* that name nobody holds, and a sub who changes names keeps the old sends.
AttributionStands ==
    [][\A s \in Sends :
          Recorded(s) /\ sends[s].sub # NoOne /\ sends'[s].phase \in {"stored", "posted"}
              => sends'[s].sub = sends[s].sub]_nameVars

(***************************************************************************)
(* The inductive invariant behind the first two.                           *)
(***************************************************************************)
\* A row is that of an imported sub, with a first name only, or it has its
\* first name among its names.
RowsWhole ==
    \A u \in Subs :
        rows[u].id # 0 => rows[u].names = {} \/ rows[u].primary \in rows[u].names

OneOwner == \A u, v \in Subs, n \in Names : Owns(u, n) /\ Owns(v, n) => u = v

\* The names of an imported sub are in no unique index that a registration of
\* them as other names would meet: its conflict check has seen them, for a
\* sub is never imported later.
ImportedSeen ==
    \A r \in open : \A u \in Subs \ {r.user} :
        rows[u].id # 0 /\ rows[u].names = {} => rows[u].primary \notin r.names

\* A row of subs that a send refers to is there and is of the user the send
\* names; an erased user has none.
References ==
    /\ \A s \in Sends :
          /\ sends[s].id # 0 => sends[s].sub # NoOne
          /\ Recorded(s) /\ sends[s].id # 0 => rows[sends[s].sub].id = sends[s].id
    /\ \A u \in erased : rows[u].id = 0

NamesIInv == NamesTypeOK /\ RowsWhole /\ OneOwner /\ ImportedSeen /\ References
=============================================================================
