-------------------------- MODULE SendsRepository --------------------------
(***************************************************************************)
(* The SQL statements of rob/database/repositories/sends.py that decide    *)
(* the fate of a send, as operators on the columns of the sends table.     *)
(*                                                                         *)
(* A send is the serial id of its row.  A column is a function on ids; the *)
(* status of an id that was never inserted is Absent.  Each operator is    *)
(* one statement, and so atomic; nothing in the code wraps two of them in  *)
(* one transaction.                                                        *)
(***************************************************************************)
EXTENDS Naturals, FiniteSets

Absent == "absent"

Statuses == {"pending", "queued_maintenance", "posted", "failed", "ignored"}

\* The statuses a send waits in for the bot to deal with it.
WaitingStatuses == {"pending", "queued_maintenance"}

(***************************************************************************)
(* UPDATE sends SET status = 'pending' WHERE status = 'queued_maintenance' *)
(***************************************************************************)
\* Mutant: the WHERE clause is lost for rows that were already posted.
ReleasedAlsoPosted(st) ==
    [i \in DOMAIN st |-> IF st[i] \in {"queued_maintenance", "posted"}
                           THEN "pending" ELSE st[i]]
\* Mutant: nothing is released.
ReleasedNothing(st) == st

Released(st) ==
    [i \in DOMAIN st |-> IF st[i] = "queued_maintenance"
                           THEN "pending" ELSE st[i]]

(***************************************************************************)
(* SELECT ... WHERE status = s ORDER BY received_at, id LIMIT n: the n     *)
(* oldest sends in that status.                                            *)
(***************************************************************************)
InStatus(st, s) == {i \in DOMAIN st : st[i] = s}

FetchForStatus(st, s, n) ==
    {i \in InStatus(st, s) :
        Cardinality({j \in InStatus(st, s) : j < i}) < n}

IsOldest(i, S) == \A j \in S : i <= j

(***************************************************************************)
(* Updates by primary key do nothing when the row is gone.  mark_posted,   *)
(* mark_failed and update_status overwrite whatever status the row has;    *)
(* only mark_ignored looks at it (and reports whether it changed a row).   *)
(***************************************************************************)
Added(st, i, s) == [st EXCEPT ![i] = s]

Marked(st, i, s) == IF st[i] = Absent THEN st ELSE [st EXCEPT ![i] = s]

CanBeIgnored(st, i) == st[i] \in Statuses \ {"ignored"}

\* DELETE FROM sends, for the rows of one user (the data-privacy commands).
Deleted(st, S) == [i \in DOMAIN st |-> IF i \in S THEN Absent ELSE st[i]]

=============================================================================
