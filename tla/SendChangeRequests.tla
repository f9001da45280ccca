------------------------- MODULE SendChangeRequests -------------------------
(***************************************************************************)
(* Backend changes to the sends of a Dom/me need the Dom/me's approval: an *)
(* operator asks for a send to be added, removed or given another amount,  *)
(* the bot DMs the Dom/me a card with two buttons, and a click applies or  *)
(* rejects the change.                                                     *)
(*                                                                         *)
(* The requests of one Dom/me are modelled; those of others touch other    *)
(* rows, and a click by somebody else is turned away before it reads       *)
(* anything else.  The handlers of several clicks run at the same time in  *)
(* the bot; an action is the code between two awaits.                      *)
(***************************************************************************)
EXTENDS Naturals, FiniteSets

CONSTANTS
    Requests,       \* requests that may be made
    Sends,          \* the Dom/me's posted sends
    Clicks,         \* button callbacks that may run at the same time
    MaxFaults       \* bound: crashes of the bot and unexpected exceptions

NoSend == "no send"
NoRequest == "no request"

ASSUME SendsAssumption == NoSend \notin Sends /\ NoRequest \notin Requests
ASSUME BoundsAssumption == MaxFaults \in Nat

VARIABLES
    \* table send_change_requests: action, status, target_send_id, and which
    \* rows hold the id of their DM
    action, rstatus, target, linked,
    \* tables sends and dommes
    counted, existing, registered,
    \* the bot: whether it runs, the requests whose buttons it listens to, the
    \* deliveries and the clicks it is handling
    up, bound, delivery, pc, req,
    \* history: how often a request took effect; requests with overlapping
    \* clicks or a click cut short; deliveries cut short, by the bot's death or by
    \* an exception
    applied, contested, cutDelivery, faults

requestRows == <<action, rstatus, target, linked>>
sendRows    == <<counted, existing, registered>>
clicking    == <<pc, req>>
changesHistory == <<applied, contested, cutDelivery, faults>>

changesVars == <<requestRows, sendRows, up, bound, delivery, clicking, changesHistory>>

Actions == {"add", "update", "remove"}
Decided == {"approved", "rejected", "failed"}

ChangesInit ==
    /\ action = [q \in Requests |-> "none"]
    /\ rstatus = [q \in Requests |-> "absent"]
    /\ target = [q \in Requests |-> NoSend]
    /\ linked = {}
    /\ counted = Sends /\ existing = Sends /\ registered = TRUE
    /\ up = TRUE /\ bound = {}
    /\ delivery = [q \in Requests |-> "none"]
    /\ pc = [c \in Clicks |-> "idle"] /\ req = [c \in Clicks |-> NoRequest]
    /\ applied = [q \in Requests |-> 0]
    /\ contested = {} /\ cutDelivery = {} /\ faults = 0

\* Mutant: the UPDATE of a decision forgets AND status = 'pending'.
DecideAnyway(q) == rstatus[q] # "absent"
\* mark_approved, mark_rejected and mark_failed change a pending row only.
MayDecide(q) == rstatus[q] = "pending"

Decide(q, s) == rstatus' = IF MayDecide(q) THEN [rstatus EXCEPT ![q] = s] ELSE rstatus

-----------------------------------------------------------------------------
(***************************************************************************)
(* Creation and delivery, in the handler of the operator's HTTP call.      *)
(***************************************************************************)
DeliveryRest == <<sendRows, up, clicking, applied, contested, faults>>

\* A send to remove or to update has to exist; it need not still be counted.
Create(q, a, s) ==
    /\ up /\ registered /\ action[q] = "none"
    /\ IF a = "add" THEN s = NoSend ELSE s \in existing
    /\ action' = [action EXCEPT ![q] = a]
    /\ target' = [target EXCEPT ![q] = s]
    /\ rstatus' = [rstatus EXCEPT ![q] = "pending"]
    /\ delivery' = [delivery EXCEPT ![q] = "dm"]
    /\ UNCHANGED <<DeliveryRest, linked, bound, cutDelivery>>

\* The DM with the buttons, which listen from the moment it is sent.
SendDm(q) ==
    /\ delivery[q] = "dm"
    /\ delivery' = [delivery EXCEPT ![q] = "link"]
    /\ bound' = bound \cup {q}
    /\ UNCHANGED <<DeliveryRest, requestRows, cutDelivery>>

\* The Dom/me cannot be found or takes no DMs.
DmFails(q) ==
    /\ delivery[q] = "dm"
    /\ delivery' = [delivery EXCEPT ![q] = "none"]
    /\ Decide(q, "failed")
    /\ UNCHANGED <<DeliveryRest, action, target, linked, bound, cutDelivery>>

\* set_delivery stores the DM's id; it raises if the row is gone.
Link(q) ==
    /\ delivery[q] = "link"
    /\ delivery' = [delivery EXCEPT ![q] = "none"]
    /\ linked' = IF rstatus[q] = "absent" THEN linked ELSE linked \cup {q}
    /\ UNCHANGED <<DeliveryRest, action, rstatus, target, bound, cutDelivery>>

\* What the delivery does not catch ends it with the bot alive: an error of the
\* DM that is not Discord's answer, the database in mark_failed, or, with the DM
\* out and its buttons listening, in set_delivery.  The request stays pending.
DeliveryRaises(q) ==
    /\ delivery[q] # "none" /\ faults < MaxFaults /\ faults' = faults + 1
    /\ delivery' = [delivery EXCEPT ![q] = "none"]
    /\ cutDelivery' = cutDelivery \cup {q}
    /\ UNCHANGED <<requestRows, sendRows, up, bound, clicking, applied, contested>>

-----------------------------------------------------------------------------
(***************************************************************************)
(* A click.  Between the read of the request and the UPDATE that decides   *)
(* it, an approval has already changed the sends.                          *)
(***************************************************************************)
Step(c, from, to) == pc[c] = from /\ pc' = [pc EXCEPT ![c] = to]

ClickRest == <<action, target, linked, registered, up, bound, delivery,
               cutDelivery, faults>>

\* States in which a click has found its request pending and not decided it.
InFlight == {"domme", "record", "target", "change", "failing", "approve", "reject"}
Rivals(c) == {d \in Clicks \ {c} : pc[d] \in InFlight /\ req[d] = req[c]}

Contest(q, rivals) ==
    contested' = IF rivals = {} THEN contested ELSE contested \cup {q}

Click(c, q, kind) ==
    /\ up /\ q \in bound
    /\ Step(c, "idle", kind)
    /\ req' = [req EXCEPT ![c] = q]
    /\ UNCHANGED <<ClickRest, rstatus, counted, existing, applied, contested>>

\* approve_request: the row has to be there and pending.
GetToApprove(c) ==
    /\ pc[c] = "getApprove"
    /\ IF rstatus[req[c]] = "pending"
         THEN /\ Step(c, "getApprove", IF action[req[c]] = "add" THEN "domme" ELSE "target")
              /\ Contest(req[c], Rivals(c))
         ELSE Step(c, "getApprove", "idle") /\ UNCHANGED contested
    /\ UNCHANGED <<ClickRest, req, rstatus, counted, existing, applied>>

\* reject_request: the row has to be there; the UPDATE sees to the rest.
GetToReject(c) ==
    /\ pc[c] = "getReject"
    /\ Step(c, "getReject", IF rstatus[req[c]] = "absent" THEN "idle" ELSE "reject")
    /\ Contest(req[c], Rivals(c))
    /\ UNCHANGED <<ClickRest, req, rstatus, counted, existing, applied>>

LookUpDomme(c) ==
    /\ Step(c, "domme", IF registered THEN "record" ELSE "failing")
    /\ UNCHANGED <<ClickRest, req, rstatus, counted, existing, applied, contested>>

\* Mutant: the approval is stored, and the send is not.
RecordNothing(q) == UNCHANGED applied
Took(q) == applied' = [applied EXCEPT ![q] = @ + 1]

\* record_manual_send: a row without an event id is no duplicate of another.
RecordSend(c) ==
    /\ Step(c, "record", "approve")
    /\ Took(req[c])
    /\ UNCHANGED <<ClickRest, req, rstatus, counted, existing, contested>>

LookUpTarget(c) ==
    /\ pc[c] = "target"
    /\ Step(c, "target", IF target[req[c]] \in existing THEN "change" ELSE "failing")
    /\ UNCHANGED <<ClickRest, req, rstatus, counted, existing, applied, contested>>

\* The profile it looked up is gone: the foreign key refuses the row, and the
\* callback ends in an exception.
RecordRefused(c) ==
    /\ Step(c, "orphan", "idle")
    /\ UNCHANGED <<ClickRest, req, rstatus, counted, existing, applied, contested>>

\* update_amount writes whatever the row's status; mark_ignored only a row that
\* is not ignored yet.
UpdateAmount(c) ==
    /\ pc[c] = "change" /\ action[req[c]] = "update"
    /\ IF target[req[c]] \in existing
         THEN Step(c, "change", "approve") /\ Took(req[c])
         ELSE Step(c, "change", "failing") /\ UNCHANGED applied
    /\ UNCHANGED <<ClickRest, req, rstatus, counted, existing, contested>>

MarkIgnored(c) ==
    /\ pc[c] = "change" /\ action[req[c]] = "remove"
    /\ IF target[req[c]] \in counted
         THEN Step(c, "change", "approve") /\ Took(req[c])
         ELSE Step(c, "change", "failing") /\ UNCHANGED applied
    /\ counted' = counted \ {target[req[c]]}
    /\ UNCHANGED <<ClickRest, req, rstatus, existing, contested>>

Settle(c, at, s) ==
    /\ Step(c, at, "idle")
    /\ Decide(req[c], s)
    /\ UNCHANGED <<ClickRest, req, counted, existing, applied, contested>>

\* What follows (notify the queue, edit the announcement, refresh the
\* leaderboard) is another component's.  The row cannot name a send that was
\* deleted meanwhile.
Dangling(c) == pc[c] = "approve" /\ target[req[c]] \notin existing \cup {NoSend}

Approve(c) == ~Dangling(c) /\ Settle(c, "approve", "approved")
RejectChange(c)  == Settle(c, "reject", "rejected")
Fail(c)    == Settle(c, "failing", "failed")

ApproveRefused(c) ==
    /\ Dangling(c) /\ Step(c, "approve", "idle")
    /\ contested' = contested \cup {req[c]}
    /\ UNCHANGED <<ClickRest, req, rstatus, counted, existing, applied>>

Callback(c) ==
    \/ GetToApprove(c) \/ LookUpDomme(c) \/ RecordSend(c) \/ RecordRefused(c)
    \/ LookUpTarget(c) \/ UpdateAmount(c) \/ MarkIgnored(c)
    \/ Approve(c) \/ ApproveRefused(c) \/ Fail(c)
    \/ GetToReject(c) \/ RejectChange(c)

-----------------------------------------------------------------------------
(***************************************************************************)
(* Faults, restarts, and changes from elsewhere.                           *)
(***************************************************************************)
\* A callback that fails in the database leaves what it has done.
Raise(c) ==
    /\ pc[c] # "idle" /\ faults < MaxFaults /\ faults' = faults + 1
    /\ pc' = [pc EXCEPT ![c] = "idle"]
    /\ contested' = IF pc[c] = "approve" THEN contested \cup {req[c]} ELSE contested
    /\ UNCHANGED <<requestRows, sendRows, up, bound, delivery, req, applied,
                   cutDelivery>>

BotCrash ==
    /\ up /\ faults < MaxFaults /\ faults' = faults + 1
    /\ up' = FALSE /\ bound' = {}
    /\ pc' = [c \in Clicks |-> "idle"]
    /\ delivery' = [q \in Requests |-> "none"]
    /\ contested' = contested \cup {req[c] : c \in {d \in Clicks : pc[d] = "approve"}}
    /\ cutDelivery' = cutDelivery \cup {q \in Requests : delivery[q] # "none"}
    /\ UNCHANGED <<requestRows, sendRows, req, applied>>

\* Mutant: a restart forgets the requests made before it.
RebindNothing == {}
\* rebind_pending_views
Rebound == {q \in linked : rstatus[q] = "pending"}

BotStart ==
    /\ ~up /\ up' = TRUE /\ bound' = Rebound
    /\ UNCHANGED <<requestRows, sendRows, delivery, clicking, changesHistory>>

ElsewhereRest == <<action, target, up, bound, delivery, req, changesHistory>>

Register ==
    /\ ~registered /\ registered' = TRUE
    /\ UNCHANGED <<ElsewhereRest, rstatus, linked, counted, existing, pc>>

\* A callback that has looked the profile up is left with a copy.
Orphaned == [c \in Clicks |-> IF pc[c] = "record" THEN "orphan" ELSE pc[c]]

\* The profile is removed; the foreign key forbids it while sends refer to it.
Unregister ==
    /\ registered /\ existing = {} /\ \A q \in Requests : applied[q] = 0
    /\ registered' = FALSE /\ pc' = Orphaned
    /\ UNCHANGED <<ElsewhereRest, rstatus, linked, counted, existing>>

\* A sub's data is deleted, and with it the sends the sub made.
ForgetSub(S) ==
    /\ S # {} /\ S \subseteq existing
    /\ counted' = counted \ S /\ existing' = existing \ S
    /\ UNCHANGED <<ElsewhereRest, rstatus, linked, registered, pc>>

\* The Dom/me's data is deleted: profile, sends and requests, in one
\* transaction.
ForgetDomme ==
    /\ registered /\ registered' = FALSE /\ counted' = {} /\ existing' = {}
    /\ rstatus' = [q \in Requests |-> "absent"] /\ linked' = {}
    /\ pc' = Orphaned
    /\ UNCHANGED ElsewhereRest

ChangesNext ==
    \/ \E q \in Requests :
         \/ \E a \in Actions, s \in Sends \cup {NoSend} : Create(q, a, s)
         \/ SendDm(q) \/ DmFails(q) \/ Link(q) \/ DeliveryRaises(q)
    \/ \E c \in Clicks :
         \/ \E q \in Requests, kind \in {"getApprove", "getReject"} : Click(c, q, kind)
         \/ Callback(c) \/ Raise(c)
    \/ BotCrash \/ BotStart
    \/ Register \/ Unregister \/ ForgetDomme \/ \E S \in SUBSET Sends : ForgetSub(S)

ChangesSpec == ChangesInit /\ [][ChangesNext]_changesVars

-----------------------------------------------------------------------------
ClickStates == {"idle", "getApprove", "getReject", "orphan"} \cup InFlight

ChangesTypeOK ==
    /\ action \in [Requests -> Actions \cup {"none"}]
    /\ rstatus \in [Requests -> {"absent", "pending"} \cup Decided]
    /\ target \in [Requests -> Sends \cup {NoSend}]
    /\ linked \subseteq Requests
    /\ counted \subseteq existing /\ existing \subseteq Sends
    /\ registered \in BOOLEAN
    /\ up \in BOOLEAN /\ bound \subseteq Requests
    /\ delivery \in [Requests -> {"none", "dm", "link"}]
    /\ pc \in [Clicks -> ClickStates]
    /\ req \in [Clicks -> Requests \cup {NoRequest}]
    /\ \A c \in Clicks : pc[c] # "idle" => req[c] \in Requests
    /\ applied \in [Requests -> Nat]
    /\ contested \subseteq Requests /\ cutDelivery \subseteq Requests
    /\ faults \in Nat

\* Unless two clicks on it overlapped, or one was cut short after its effect, a
\* request takes effect once if it is approved, and not at all if it is
\* rejected, failed or still open with no approval on its way.
DecisionMatchesEffect ==
    \A q \in Requests \ contested :
        /\ applied[q] <= 1
        /\ rstatus[q] = "approved" => applied[q] = 1
        /\ rstatus[q] \in {"rejected", "failed"} => applied[q] = 0
        /\ rstatus[q] = "pending" /\ applied[q] = 1
             => \E c \in Clicks : req[c] = q /\ pc[c] = "approve"

\* A decision is final, however many clicks race for it.
DecisionFinal ==
    [][\A q \in Requests :
         rstatus[q] \in Decided => rstatus'[q] \in {rstatus[q], "absent"}]_changesVars

\* Every open request can be decided, across restarts, unless its delivery was
\* cut short: by the bot's death, or by an exception.
PendingHasButtons ==
    up => \A q \in Requests :
            rstatus[q] = "pending" => \/ delivery[q] = "dm"
                                      \/ q \in bound
                                      \/ q \in cutDelivery

\* The card of a rejection: "Rob did not apply that backend send change."  Stated,
\* and not kept: an approval changes the sends before it decides the request.
RejectedIsNotApplied ==
    \A q \in Requests : rstatus[q] = "rejected" => applied[q] = 0

-----------------------------------------------------------------------------
(***************************************************************************)
(* The inductive invariant behind the safety properties.                   *)
(***************************************************************************)
\* Of an uncontested request at most one click is in flight, and its effect is
\* there exactly if that click has come past it.
OneClick ==
    /\ \A c, d \in Clicks :
         (pc[c] \in InFlight /\ pc[d] \in InFlight /\ req[c] = req[d] /\ c # d)
            => req[c] \in contested
    /\ \A c \in Clicks : req[c] \notin contested =>
         /\ pc[c] \in InFlight \ {"reject"} =>
              rstatus[req[c]] \in {"pending", "absent"}
         /\ pc[c] = "approve" => applied[req[c]] = 1
         /\ pc[c] \in InFlight \ {"approve", "reject"} => applied[req[c]] = 0

\* Requests that are not there yet have no effect and no click.
FreshUntouched ==
    /\ \A q \in Requests : action[q] = "none" =>
         rstatus[q] = "absent" /\ applied[q] = 0 /\ q \notin bound \cup linked
    /\ \A c \in Clicks : pc[c] # "idle" => action[req[c]] # "none"

\* Nobody clicks before the DM is sent, and nothing is delivered while the bot
\* is down.
DeliveryFirst ==
    /\ \A q \in Requests : delivery[q] # "none" => up /\ action[q] # "none"
    /\ \A q \in Requests : delivery[q] = "dm" =>
         /\ q \notin bound /\ applied[q] = 0
         /\ \A c \in Clicks : pc[c] # "idle" => req[c] # q

\* An open request is being delivered, or its row leads to its DM, or its
\* delivery was cut short; while the bot runs its buttons listen.
OpenReachable ==
    \A q \in Requests : rstatus[q] = "pending" =>
        /\ delivery[q] # "none" \/ q \in linked \/ q \in cutDelivery
        /\ up /\ (delivery[q] = "link" \/ q \in linked) => q \in bound

ChangesIInv ==
    /\ ChangesTypeOK /\ FreshUntouched /\ OneClick /\ DecisionMatchesEffect
    /\ DeliveryFirst /\ OpenReachable

=============================================================================
