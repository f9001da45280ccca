--------------------------- MODULE SendDelivery ---------------------------
(***************************************************************************)
(* What the send pipeline promises about announcements, whatever its       *)
(* queues, sweeps and settings do: a send is told about only after it was  *)
(* recorded, and told again only if the process forgot that it had told it *)
(* (a lapse: the bot was cut off between the Discord post and the row).    *)
(***************************************************************************)
EXTENDS Naturals

CONSTANT Sends

VARIABLES known, told, lapses

Init ==
    /\ known = {}
    /\ told = [s \in Sends |-> 0]
    /\ lapses = [s \in Sends |-> 0]

Record(s) ==
    /\ s \notin known
    /\ known' = known \cup {s}
    /\ UNCHANGED <<told, lapses>>

Tell(s) ==
    /\ s \in known /\ told[s] <= lapses[s]
    /\ told' = [told EXCEPT ![s] = @ + 1]
    /\ UNCHANGED <<known, lapses>>

Lapse(s) ==
    /\ lapses[s] < told[s]
    /\ lapses' = [lapses EXCEPT ![s] = @ + 1]
    /\ UNCHANGED <<known, told>>

Next == \E s \in Sends : Record(s) \/ Tell(s) \/ Lapse(s)

Spec == Init /\ [][Next]_<<known, told, lapses>>
=============================================================================
