-------------------------- MODULE MCSendPipeline --------------------------
(***************************************************************************)
(* Small instances of SendPipeline for TLC: the .cfg files give the        *)
(* constants their values.                                                 *)
(*                                                                         *)
(* The delivery run explores two questions over one set of constants, to   *)
(* save the states in which both are mixed.                                *)
(***************************************************************************)
EXTENDS SendPipeline, TLC

MCSymmetry == Permutations(Hooks)

\* Throne's deliveries, with every fault, and no quiet mode.
OnlyThrone ==
    /\ highestPhase = 0
    /\ ~offlineSeen
    /\ \A c \in Commands : rpc[c] = "idle"
    /\ \A i \in SendIds : eventOf[i] = NoEvent => status[i] = Absent

\* One recording at a time, by a webhook or a command, with every quiet mode and
\* neither faults nor manual edits.
OnlyQuiet ==
    /\ faults = 0
    /\ removed \cup forced \cup forgotten = {}
    /\ \A r \in Recorders : revent[r] # "e2"
    /\ \A i \in SendIds : eventOf[i] # "e2"
    /\ Cardinality({r \in Recorders : rpc[r] # "idle"}) <= 1
    /\ Cardinality(batch) <= 1

MCOneQuestion ==
    \/ OnlyThrone
    \/ OnlyQuiet
=============================================================================
