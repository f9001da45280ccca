-------------------------- MODULE ProfileDocument --------------------------
(* What a profile document holds and what each step of the wizard may make  *)
(* of it: worker/src/profile/contracts.ts, and the part of draftService.ts, *)
(* linkService.ts, linkImportService.ts and throneDraftService.ts that      *)
(* computes a new snapshot from the one it read.  A link is its URL; names, *)
(* labels, bio and aliases are the one question whether the identity step   *)
(* has been filled in.                                                      *)
EXTENDS Naturals, FiniteSets

CONSTANTS
    Links,      \* the URLs a profile may link to
    Payment,    \* those of a payment service
    Offered,    \* the orientations the owner chooses from
    LinkCap,    \* LIMITS.linkMaxCount, 12 in the code
    None        \* a NULL column

Orientations == {"domme", "submissive", "switch_domme", "switch_submissive"}

ASSUME DocumentAssumption ==
    /\ IsFiniteSet(Links) /\ Payment \subseteq Links
    /\ Offered \subseteq Orientations
    /\ LinkCap \in Nat
    /\ None \notin Orientations

\* Which orientations have payment links and Throne.
Receives(o) == o \in Orientations \ {"submissive"}

StepKeys == {"orientation", "identity", "links", "throne", "review"}

\* The steps that must be complete before a document is published.
StepsFor(o) ==
    IF o = None THEN {"orientation"}
    ELSE {"orientation", "identity", "links"} \cup {s \in {"throne"} : Receives(o)}

Document ==
    [orientation : Orientations \cup {None}, named : BOOLEAN,
     links : SUBSET Links, creator : BOOLEAN]

Empty == [orientation |-> None, named |-> FALSE, links |-> {}, creator |-> FALSE]

\* A link set that an orientation may have.
Permitted(o, L) ==
    /\ Cardinality(L) <= LinkCap
    /\ L \cap Payment # {} => Receives(o)

\* Choosing an orientation drops what the new one does not have.
Normalised(doc, o) ==
    [doc EXCEPT !.orientation = o,
                !.links = IF Receives(o) THEN @ ELSE @ \ Payment,
                !.creator = @ /\ Receives(o)]

\* One operator per operation: the documents it may make of doc, none if it
\* is refused.  A choice stands for the caller's input.
Oriented(doc) == {Normalised(doc, o) : o \in Offered}

Identified(doc) ==
    {d \in {[doc EXCEPT !.named = TRUE]} : doc.orientation # None}

Relinked(doc) ==
    {[doc EXCEPT !.links = L] :
        L \in {M \in SUBSET Links : doc.orientation # None /\ Permitted(doc.orientation, M)}}

\* The throne step stores a creator the owner has, or none.
Throned(doc, owned) ==
    {[doc EXCEPT !.creator = c] : c \in {b \in {FALSE, owned} : Receives(doc.orientation)}}

MayLink(doc, l) ==
    /\ doc.orientation # None
    /\ l \in Payment => Receives(doc.orientation)

LinkAdded(doc) ==
    {[doc EXCEPT !.links = @ \cup {l}] :
        l \in {m \in Links \ doc.links : MayLink(doc, m) /\ Cardinality(doc.links) < LinkCap}}

LinkEdited(doc) ==
    {[doc EXCEPT !.links = (@ \ {p[1]}) \cup {p[2]}] :
        p \in {q \in doc.links \X Links :
                  MayLink(doc, q[2]) /\ (q[2] = q[1] \/ q[2] \notin doc.links)}}

LinkRemoved(doc) == {[doc EXCEPT !.links = @ \ {l}] : l \in doc.links}

\* The links of a page that were staged for this orientation.
Candidates(doc, page) == {l \in page : l \in Payment => Receives(doc.orientation)}

\* Mutant: links staged for one orientation are confirmed under another.
ImportedUnchecked(doc, staged) ==
    {[doc EXCEPT !.links = @ \cup N] :
        N \in {M \in SUBSET (staged \ doc.links) :
                  /\ doc.orientation # None
                  /\ Cardinality(doc.links) + Cardinality(M) <= LinkCap}}

\* Staged links are taken in order until the cap is reached; the order is the
\* page's, so any such set may come out.
Imported(doc, staged) ==
    LET fresh == staged \ doc.links
        room == LinkCap - Cardinality(doc.links)
    IN  {[doc EXCEPT !.links = @ \cup M] :
            M \in {N \in SUBSET fresh :
                      /\ doc.orientation # None
                      /\ staged \cap Payment # {} => Receives(doc.orientation)
                      /\ Cardinality(doc.links) <= LinkCap
                      /\ N = fresh \/ Cardinality(N) = room
                      /\ Cardinality(N) <= room}}

Attached(doc) == {d \in {[doc EXCEPT !.creator = TRUE]} : Receives(doc.orientation)}

\* Everything an edit may make of a document.
Edited(doc) ==
    UNION {Oriented(doc), Identified(doc), Relinked(doc), LinkRemoved(doc),
           LinkAdded(doc), LinkEdited(doc), Attached(doc),
           Throned(doc, TRUE), UNION {Imported(doc, S) : S \in SUBSET Links}}

\* What a document of an orientation can hold.
WithinLimits(doc) ==
    IF doc.orientation = None
      THEN doc = Empty
      ELSE /\ Permitted(doc.orientation, doc.links)
           /\ doc.creator => Receives(doc.orientation)

\* What publishDraft accepts.
Publishable(doc) ==
    /\ doc.orientation # None
    /\ doc.named
    /\ Permitted(doc.orientation, doc.links)
=============================================================================
