---------------------------- MODULE ProfileStore ----------------------------
(***************************************************************************)
(* What the Worker promises of one profile: drafts that change by one edit *)
(* at a time, and a line of published documents.  ProfileDrafts implements *)
(* this with rows read and written at different times.                     *)
(***************************************************************************)
EXTENDS Naturals, Sequences

CONSTANTS
    DraftIds,
    None,       \* no open draft
    Empty,      \* the document of a profile that is not there
    Changes,    \* the documents one edit may make of a document
    Allowed     \* the documents that may be published

VARIABLES
    working,    \* the open drafts: what each holds and the version it is based on
    published   \* the documents published so far

vars == <<working, published>>

Init == working = [d \in DraftIds |-> None] /\ published = <<>>

\* A version of the profile; version 0 is the profile that is not there.
Version(n) == IF n = 0 THEN Empty ELSE published[n]

\* A draft begins, and begins again, as a copy of some version published by
\* then; the latest may have changed since it was read.
Begin(d) ==
    /\ \A e \in DraftIds \ {d} : working[e] = None
    /\ \E n \in 0..Len(published) :
            working' = [working EXCEPT ![d] = [body |-> Version(n), base |-> n]]
    /\ UNCHANGED published

Edit(d) ==
    /\ working[d] # None
    /\ \E doc \in Changes[working[d].body] :
            working' = [working EXCEPT ![d] = [body |-> doc, base |-> working[d].base]]
    /\ UNCHANGED published

Publish(d) ==
    /\ working[d] # None
    /\ working[d].body \in Allowed
    /\ working[d].base = Len(published)
    /\ published' = Append(published, working[d].body)
    /\ working' = [working EXCEPT ![d] = None]

Next == \E d \in DraftIds : Begin(d) \/ Edit(d) \/ Publish(d)

Spec == Init /\ [][Next]_vars
=============================================================================
