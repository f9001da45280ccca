------------------------- MODULE DommeButtons_proofs -------------------------
(***************************************************************************)
(* Proofs about what a Dom/me decides by the buttons of direct messages:   *)
(* changes to her sends (SendChangeRequests), for every set of requests,   *)
(* sends and simultaneous clicks, and her setup (DommeSetup), for any      *)
(* number of members, creators and tasks at a time, and without the        *)
(* bounds: every secret belongs to the member it was made for, whoever     *)
(* holds it.                                                               *)
(***************************************************************************)
EXTENDS SendChangeRequests, DommeSetup, TLAPS

-----------------------------------------------------------------------------
(***************************************************************************)
(* Send change requests.                                                   *)
(***************************************************************************)

LEMMA ChangesInitIInv == ChangesInit => ChangesIInv
<1>. SUFFICES ASSUME ChangesInit PROVE ChangesIInv
  OBVIOUS
<1>. USE SendsAssumption, BoundsAssumption DEF ChangesInit
<1>1. ChangesTypeOK  BY DEF ChangesTypeOK, ClickStates, InFlight, Actions, Decided
<1>2. FreshUntouched  BY DEF FreshUntouched
<1>3. OneClick  BY DEF OneClick, InFlight
<1>4. DecisionMatchesEffect  BY DEF DecisionMatchesEffect
<1>5. DeliveryFirst  BY DEF DeliveryFirst
<1>6. OpenReachable  BY DEF OpenReachable
<1>. QED  BY <1>1, <1>2, <1>3, <1>4, <1>5, <1>6 DEF ChangesIInv

\* A step of a click.
LEMMA CallbackKeepsIInv == ASSUME ChangesIInv, NEW c \in Clicks, Callback(c) PROVE ChangesIInv'
<1>. USE SendsAssumption, BoundsAssumption
     DEF ChangesIInv, ChangesTypeOK, FreshUntouched, OneClick, DecisionMatchesEffect,
         DeliveryFirst, OpenReachable, InFlight,
         ClickStates, Actions, Decided, requestRows, sendRows, clicking, changesHistory
<1>1. CASE GetToApprove(c)
  <2>1. ChangesTypeOK'  BY <1>1 DEF GetToApprove, Step, ClickRest, Contest, Rivals
  <2>2. FreshUntouched'  BY <1>1 DEF GetToApprove, Step, ClickRest, Contest, Rivals
  <2>3. OneClick'  BY <1>1 DEF GetToApprove, Step, ClickRest, Contest, Rivals
  <2>4. DecisionMatchesEffect'  BY <1>1 DEF GetToApprove, Step, ClickRest, Contest, Rivals
  <2>5. DeliveryFirst'  BY <1>1 DEF GetToApprove, Step, ClickRest, Contest, Rivals
  <2>6. OpenReachable'  BY <1>1 DEF GetToApprove, Step, ClickRest, Contest, Rivals
  <2>. QED  BY <2>1, <2>2, <2>3, <2>4, <2>5, <2>6
<1>2. CASE GetToReject(c)
  <2>1. ChangesTypeOK'  BY <1>2 DEF GetToReject, Step, ClickRest, Contest, Rivals
  <2>2. FreshUntouched'  BY <1>2 DEF GetToReject, Step, ClickRest, Contest, Rivals
  <2>3. OneClick'  BY <1>2 DEF GetToReject, Step, ClickRest, Contest, Rivals
  <2>4. DecisionMatchesEffect'  BY <1>2 DEF GetToReject, Step, ClickRest, Contest, Rivals
  <2>5. DeliveryFirst'  BY <1>2 DEF GetToReject, Step, ClickRest, Contest, Rivals
  <2>6. OpenReachable'  BY <1>2 DEF GetToReject, Step, ClickRest, Contest, Rivals
  <2>. QED  BY <2>1, <2>2, <2>3, <2>4, <2>5, <2>6
<1>3. CASE LookUpDomme(c)
  <2>1. ChangesTypeOK'  BY <1>3 DEF LookUpDomme, Step, ClickRest
  <2>2. FreshUntouched'  BY <1>3 DEF LookUpDomme, Step, ClickRest
  <2>3. OneClick'  BY <1>3 DEF LookUpDomme, Step, ClickRest
  <2>4. DecisionMatchesEffect'  BY <1>3 DEF LookUpDomme, Step, ClickRest
  <2>5. DeliveryFirst'  BY <1>3 DEF LookUpDomme, Step, ClickRest
  <2>6. OpenReachable'  BY <1>3 DEF LookUpDomme, Step, ClickRest
  <2>. QED  BY <2>1, <2>2, <2>3, <2>4, <2>5, <2>6
<1>4. CASE RecordSend(c)
  <2>1. ChangesTypeOK'  BY <1>4 DEF RecordSend, Step, ClickRest, Took
  <2>2. FreshUntouched'  BY <1>4 DEF RecordSend, Step, ClickRest, Took
  <2>3. OneClick'  BY <1>4 DEF RecordSend, Step, ClickRest, Took
  <2>4. DecisionMatchesEffect'  BY <1>4 DEF RecordSend, Step, ClickRest, Took
  <2>5. DeliveryFirst'  BY <1>4 DEF RecordSend, Step, ClickRest, Took
  <2>6. OpenReachable'  BY <1>4 DEF RecordSend, Step, ClickRest, Took
  <2>. QED  BY <2>1, <2>2, <2>3, <2>4, <2>5, <2>6
<1>5. CASE RecordRefused(c)
  <2>1. ChangesTypeOK'  BY <1>5 DEF RecordRefused, Step, ClickRest
  <2>2. FreshUntouched'  BY <1>5 DEF RecordRefused, Step, ClickRest
  <2>3. OneClick'  BY <1>5 DEF RecordRefused, Step, ClickRest
  <2>4. DecisionMatchesEffect'  BY <1>5 DEF RecordRefused, Step, ClickRest
  <2>5. DeliveryFirst'  BY <1>5 DEF RecordRefused, Step, ClickRest
  <2>6. OpenReachable'  BY <1>5 DEF RecordRefused, Step, ClickRest
  <2>. QED  BY <2>1, <2>2, <2>3, <2>4, <2>5, <2>6
<1>6. CASE LookUpTarget(c)
  <2>1. ChangesTypeOK'  BY <1>6 DEF LookUpTarget, Step, ClickRest
  <2>2. FreshUntouched'  BY <1>6 DEF LookUpTarget, Step, ClickRest
  <2>3. OneClick'  BY <1>6 DEF LookUpTarget, Step, ClickRest
  <2>4. DecisionMatchesEffect'  BY <1>6 DEF LookUpTarget, Step, ClickRest
  <2>5. DeliveryFirst'  BY <1>6 DEF LookUpTarget, Step, ClickRest
  <2>6. OpenReachable'  BY <1>6 DEF LookUpTarget, Step, ClickRest
  <2>. QED  BY <2>1, <2>2, <2>3, <2>4, <2>5, <2>6
<1>7. CASE UpdateAmount(c)
  <2>1. ChangesTypeOK'  BY <1>7 DEF UpdateAmount, Step, ClickRest, Took
  <2>2. FreshUntouched'  BY <1>7 DEF UpdateAmount, Step, ClickRest, Took
  <2>3. OneClick'  BY <1>7 DEF UpdateAmount, Step, ClickRest, Took
  <2>4. DecisionMatchesEffect'  BY <1>7 DEF UpdateAmount, Step, ClickRest, Took
  <2>5. DeliveryFirst'  BY <1>7 DEF UpdateAmount, Step, ClickRest, Took
  <2>6. OpenReachable'  BY <1>7 DEF UpdateAmount, Step, ClickRest, Took
  <2>. QED  BY <2>1, <2>2, <2>3, <2>4, <2>5, <2>6
<1>8. CASE MarkIgnored(c)
  <2>1. ChangesTypeOK'  BY <1>8 DEF MarkIgnored, Step, ClickRest, Took
  <2>2. FreshUntouched'  BY <1>8 DEF MarkIgnored, Step, ClickRest, Took
  <2>3. OneClick'  BY <1>8 DEF MarkIgnored, Step, ClickRest, Took
  <2>4. DecisionMatchesEffect'  BY <1>8 DEF MarkIgnored, Step, ClickRest, Took
  <2>5. DeliveryFirst'  BY <1>8 DEF MarkIgnored, Step, ClickRest, Took
  <2>6. OpenReachable'  BY <1>8 DEF MarkIgnored, Step, ClickRest, Took
  <2>. QED  BY <2>1, <2>2, <2>3, <2>4, <2>5, <2>6
<1>9. CASE Approve(c)
  <2>1. ChangesTypeOK'  BY <1>9 DEF Approve, Step, ClickRest, Settle, Dangling, Decide, MayDecide
  <2>2. FreshUntouched'  BY <1>9 DEF Approve, Step, ClickRest, Settle, Dangling, Decide, MayDecide
  <2>3. OneClick'  BY <1>9 DEF Approve, Step, ClickRest, Settle, Dangling, Decide, MayDecide
  <2>4. DecisionMatchesEffect'  BY <1>9 DEF Approve, Step, ClickRest, Settle, Dangling, Decide, MayDecide
  <2>5. DeliveryFirst'  BY <1>9 DEF Approve, Step, ClickRest, Settle, Dangling, Decide, MayDecide
  <2>6. OpenReachable'  BY <1>9 DEF Approve, Step, ClickRest, Settle, Dangling, Decide, MayDecide
  <2>. QED  BY <2>1, <2>2, <2>3, <2>4, <2>5, <2>6
<1>10. CASE ApproveRefused(c)
  <2>1. ChangesTypeOK'  BY <1>10 DEF ApproveRefused, Step, ClickRest, Dangling
  <2>2. FreshUntouched'  BY <1>10 DEF ApproveRefused, Step, ClickRest, Dangling
  <2>3. OneClick'  BY <1>10 DEF ApproveRefused, Step, ClickRest, Dangling
  <2>4. DecisionMatchesEffect'  BY <1>10 DEF ApproveRefused, Step, ClickRest, Dangling
  <2>5. DeliveryFirst'  BY <1>10 DEF ApproveRefused, Step, ClickRest, Dangling
  <2>6. OpenReachable'  BY <1>10 DEF ApproveRefused, Step, ClickRest, Dangling
  <2>. QED  BY <2>1, <2>2, <2>3, <2>4, <2>5, <2>6
<1>11. CASE RejectChange(c)
  <2>1. ChangesTypeOK'  BY <1>11 DEF RejectChange, Step, ClickRest, Settle, Decide, MayDecide
  <2>2. FreshUntouched'  BY <1>11 DEF RejectChange, Step, ClickRest, Settle, Decide, MayDecide
  <2>3. OneClick'  BY <1>11 DEF RejectChange, Step, ClickRest, Settle, Decide, MayDecide
  <2>4. DecisionMatchesEffect'  BY <1>11 DEF RejectChange, Step, ClickRest, Settle, Decide, MayDecide
  <2>5. DeliveryFirst'  BY <1>11 DEF RejectChange, Step, ClickRest, Settle, Decide, MayDecide
  <2>6. OpenReachable'  BY <1>11 DEF RejectChange, Step, ClickRest, Settle, Decide, MayDecide
  <2>. QED  BY <2>1, <2>2, <2>3, <2>4, <2>5, <2>6
<1>12. CASE Fail(c)
  <2>1. ChangesTypeOK'  BY <1>12 DEF Fail, Step, ClickRest, Settle, Decide, MayDecide
  <2>2. FreshUntouched'  BY <1>12 DEF Fail, Step, ClickRest, Settle, Decide, MayDecide
  <2>3. OneClick'  BY <1>12 DEF Fail, Step, ClickRest, Settle, Decide, MayDecide
  <2>4. DecisionMatchesEffect'  BY <1>12 DEF Fail, Step, ClickRest, Settle, Decide, MayDecide
  <2>5. DeliveryFirst'  BY <1>12 DEF Fail, Step, ClickRest, Settle, Decide, MayDecide
  <2>6. OpenReachable'  BY <1>12 DEF Fail, Step, ClickRest, Settle, Decide, MayDecide
  <2>. QED  BY <2>1, <2>2, <2>3, <2>4, <2>5, <2>6
<1>. QED
  BY <1>1, <1>2, <1>3, <1>4, <1>5, <1>6, <1>7, <1>8, <1>9, <1>10, <1>11, <1>12 DEF Callback

\* Creation, delivery and new clicks.
LEMMA RequestKeepsIInv ==
    ASSUME ChangesIInv, NEW q \in Requests,
           \/ \E a \in Actions, s \in Sends \cup {NoSend} : Create(q, a, s)
           \/ SendDm(q) \/ DmFails(q) \/ Link(q) \/ DeliveryRaises(q)
           \/ \E c \in Clicks, kind \in {"getApprove", "getReject"} : Click(c, q, kind)
    PROVE  ChangesIInv'
<1>. USE SendsAssumption, BoundsAssumption
     DEF ChangesIInv, ChangesTypeOK, FreshUntouched, OneClick, DecisionMatchesEffect,
         DeliveryFirst, OpenReachable, InFlight,
         ClickStates, Actions, Decided, requestRows, sendRows, clicking, changesHistory
<1>1. ASSUME NEW a \in Actions, NEW s \in Sends \cup {NoSend}, Create(q, a, s)
      PROVE  ChangesIInv'
  <2>1. ChangesTypeOK'  BY <1>1 DEF Create, DeliveryRest
  <2>2. FreshUntouched'  BY <1>1 DEF Create, DeliveryRest
  <2>3. OneClick'  BY <1>1 DEF Create, DeliveryRest
  <2>4. DecisionMatchesEffect'  BY <1>1 DEF Create, DeliveryRest
  <2>5. DeliveryFirst'  BY <1>1 DEF Create, DeliveryRest
  <2>6. OpenReachable'  BY <1>1 DEF Create, DeliveryRest
  <2>. QED  BY <2>1, <2>2, <2>3, <2>4, <2>5, <2>6
<1>2. CASE SendDm(q)
  <2>1. ChangesTypeOK'  BY <1>2 DEF SendDm, DeliveryRest
  <2>2. FreshUntouched'  BY <1>2 DEF SendDm, DeliveryRest
  <2>3. OneClick'  BY <1>2 DEF SendDm, DeliveryRest
  <2>4. DecisionMatchesEffect'  BY <1>2 DEF SendDm, DeliveryRest
  <2>5. DeliveryFirst'  BY <1>2 DEF SendDm, DeliveryRest
  <2>6. OpenReachable'  BY <1>2 DEF SendDm, DeliveryRest
  <2>. QED  BY <2>1, <2>2, <2>3, <2>4, <2>5, <2>6
<1>3. CASE DmFails(q)
  <2>1. ChangesTypeOK'  BY <1>3 DEF DmFails, DeliveryRest, Decide, MayDecide
  <2>2. FreshUntouched'  BY <1>3 DEF DmFails, DeliveryRest, Decide, MayDecide
  <2>3. OneClick'  BY <1>3 DEF DmFails, DeliveryRest, Decide, MayDecide
  <2>4. DecisionMatchesEffect'  BY <1>3 DEF DmFails, DeliveryRest, Decide, MayDecide
  <2>5. DeliveryFirst'  BY <1>3 DEF DmFails, DeliveryRest, Decide, MayDecide
  <2>6. OpenReachable'  BY <1>3 DEF DmFails, DeliveryRest, Decide, MayDecide
  <2>. QED  BY <2>1, <2>2, <2>3, <2>4, <2>5, <2>6
<1>4. CASE Link(q)
  <2>1. ChangesTypeOK'  BY <1>4 DEF Link, DeliveryRest
  <2>2. FreshUntouched'  BY <1>4 DEF Link, DeliveryRest
  <2>3. OneClick'  BY <1>4 DEF Link, DeliveryRest
  <2>4. DecisionMatchesEffect'  BY <1>4 DEF Link, DeliveryRest
  <2>5. DeliveryFirst'  BY <1>4 DEF Link, DeliveryRest
  <2>6. OpenReachable'  BY <1>4 DEF Link, DeliveryRest
  <2>. QED  BY <2>1, <2>2, <2>3, <2>4, <2>5, <2>6
<1>5. ASSUME NEW c \in Clicks, NEW kind \in {"getApprove", "getReject"}, Click(c, q, kind)
      PROVE  ChangesIInv'
  <2>1. ChangesTypeOK'  BY <1>5 DEF Click, ClickRest, Step
  <2>2. FreshUntouched'  BY <1>5 DEF Click, ClickRest, Step
  <2>3. OneClick'  BY <1>5 DEF Click, ClickRest, Step
  <2>4. DecisionMatchesEffect'  BY <1>5 DEF Click, ClickRest, Step
  <2>5. DeliveryFirst'  BY <1>5 DEF Click, ClickRest, Step
  <2>6. OpenReachable'  BY <1>5 DEF Click, ClickRest, Step
  <2>. QED  BY <2>1, <2>2, <2>3, <2>4, <2>5, <2>6
<1>6. CASE DeliveryRaises(q)
  <2>1. ChangesTypeOK'  BY <1>6 DEF DeliveryRaises
  <2>2. FreshUntouched'  BY <1>6 DEF DeliveryRaises
  <2>3. OneClick'  BY <1>6 DEF DeliveryRaises
  <2>4. DecisionMatchesEffect'  BY <1>6 DEF DeliveryRaises
  <2>5. DeliveryFirst'  BY <1>6 DEF DeliveryRaises
  <2>6. OpenReachable'  BY <1>6 DEF DeliveryRaises
  <2>. QED  BY <2>1, <2>2, <2>3, <2>4, <2>5, <2>6
<1>. QED  BY <1>1, <1>2, <1>3, <1>4, <1>5, <1>6

\* Faults, the restart, and deletions.
LEMMA ElsewhereKeepsIInv ==
    ASSUME ChangesIInv,
           \/ BotCrash \/ BotStart \/ Register \/ Unregister \/ ForgetDomme
           \/ \E c \in Clicks : Raise(c)
           \/ \E S \in SUBSET Sends : ForgetSub(S)
    PROVE  ChangesIInv'
<1>. USE SendsAssumption, BoundsAssumption
     DEF ChangesIInv, ChangesTypeOK, FreshUntouched, OneClick, DecisionMatchesEffect,
         DeliveryFirst, OpenReachable, InFlight,
         ClickStates, Actions, Decided, requestRows, sendRows, clicking, changesHistory
<1>1. CASE BotCrash
  <2>a. contested' \subseteq Requests /\ cutDelivery' \subseteq Requests
    BY <1>1 DEF BotCrash
  <2>b. pc' \in [Clicks -> ClickStates] /\ delivery' \in [Requests -> {"none", "dm", "link"}]
    BY <1>1 DEF BotCrash
  <2>c. /\ \A c \in Clicks : pc'[c] = "idle"
        /\ faults' \in Nat /\ bound' = {} /\ up' = FALSE
    BY <1>1 DEF BotCrash
  <2>d. UNCHANGED <<requestRows, sendRows, req, applied>>
    BY <1>1 DEF BotCrash
  <2>1. ChangesTypeOK'  BY <2>a, <2>b, <2>c, <2>d
  <2>2. FreshUntouched'  BY <1>1 DEF BotCrash
  <2>3. OneClick'  BY <1>1 DEF BotCrash
  <2>4. DecisionMatchesEffect'  BY <1>1 DEF BotCrash
  <2>5. DeliveryFirst'  BY <1>1 DEF BotCrash
  <2>6. OpenReachable'  BY <1>1 DEF BotCrash
  <2>. QED  BY <2>1, <2>2, <2>3, <2>4, <2>5, <2>6
<1>2. CASE BotStart
  <2>1. ChangesTypeOK'  BY <1>2 DEF BotStart, Rebound
  <2>2. FreshUntouched'  BY <1>2 DEF BotStart, Rebound
  <2>3. OneClick'  BY <1>2 DEF BotStart, Rebound
  <2>4. DecisionMatchesEffect'  BY <1>2 DEF BotStart, Rebound
  <2>5. DeliveryFirst'  BY <1>2 DEF BotStart, Rebound
  <2>6. OpenReachable'  BY <1>2 DEF BotStart, Rebound
  <2>. QED  BY <2>1, <2>2, <2>3, <2>4, <2>5, <2>6
<1>3. CASE Register
  <2>1. ChangesTypeOK'  BY <1>3 DEF Register, ElsewhereRest
  <2>2. FreshUntouched'  BY <1>3 DEF Register, ElsewhereRest
  <2>3. OneClick'  BY <1>3 DEF Register, ElsewhereRest
  <2>4. DecisionMatchesEffect'  BY <1>3 DEF Register, ElsewhereRest
  <2>5. DeliveryFirst'  BY <1>3 DEF Register, ElsewhereRest
  <2>6. OpenReachable'  BY <1>3 DEF Register, ElsewhereRest
  <2>. QED  BY <2>1, <2>2, <2>3, <2>4, <2>5, <2>6
<1>4. CASE Unregister
  <2>1. ChangesTypeOK'  BY <1>4 DEF Unregister, Orphaned, ElsewhereRest
  <2>2. FreshUntouched'  BY <1>4 DEF Unregister, Orphaned, ElsewhereRest
  <2>3. OneClick'  BY <1>4 DEF Unregister, Orphaned, ElsewhereRest
  <2>4. DecisionMatchesEffect'  BY <1>4 DEF Unregister, Orphaned, ElsewhereRest
  <2>5. DeliveryFirst'  BY <1>4 DEF Unregister, Orphaned, ElsewhereRest
  <2>6. OpenReachable'  BY <1>4 DEF Unregister, Orphaned, ElsewhereRest
  <2>. QED  BY <2>1, <2>2, <2>3, <2>4, <2>5, <2>6
<1>5. CASE ForgetDomme
  <2>1. ChangesTypeOK'  BY <1>5 DEF ForgetDomme, Orphaned, ElsewhereRest
  <2>2. FreshUntouched'  BY <1>5 DEF ForgetDomme, Orphaned, ElsewhereRest
  <2>3. OneClick'  BY <1>5 DEF ForgetDomme, Orphaned, ElsewhereRest
  <2>4. DecisionMatchesEffect'  BY <1>5 DEF ForgetDomme, Orphaned, ElsewhereRest
  <2>5. DeliveryFirst'  BY <1>5 DEF ForgetDomme, Orphaned, ElsewhereRest
  <2>6. OpenReachable'  BY <1>5 DEF ForgetDomme, Orphaned, ElsewhereRest
  <2>. QED  BY <2>1, <2>2, <2>3, <2>4, <2>5, <2>6
<1>6. ASSUME NEW c \in Clicks, Raise(c) PROVE ChangesIInv'
  <2>1. ChangesTypeOK'  BY <1>6 DEF Raise
  <2>2. FreshUntouched'  BY <1>6 DEF Raise
  <2>3. OneClick'  BY <1>6 DEF Raise
  <2>4. DecisionMatchesEffect'  BY <1>6 DEF Raise
  <2>5. DeliveryFirst'  BY <1>6 DEF Raise
  <2>6. OpenReachable'  BY <1>6 DEF Raise
  <2>. QED  BY <2>1, <2>2, <2>3, <2>4, <2>5, <2>6
<1>7. ASSUME NEW S \in SUBSET Sends, ForgetSub(S) PROVE ChangesIInv'
  <2>1. ChangesTypeOK'  BY <1>7 DEF ForgetSub, ElsewhereRest
  <2>2. FreshUntouched'  BY <1>7 DEF ForgetSub, ElsewhereRest
  <2>3. OneClick'  BY <1>7 DEF ForgetSub, ElsewhereRest
  <2>4. DecisionMatchesEffect'  BY <1>7 DEF ForgetSub, ElsewhereRest
  <2>5. DeliveryFirst'  BY <1>7 DEF ForgetSub, ElsewhereRest
  <2>6. OpenReachable'  BY <1>7 DEF ForgetSub, ElsewhereRest
  <2>. QED  BY <2>1, <2>2, <2>3, <2>4, <2>5, <2>6
<1>. QED  BY <1>1, <1>2, <1>3, <1>4, <1>5, <1>6, <1>7

LEMMA ChangesStutterKeepsIInv == ChangesIInv /\ UNCHANGED changesVars => ChangesIInv'
  BY DEF ChangesIInv, ChangesTypeOK, FreshUntouched, OneClick, DecisionMatchesEffect,
         DeliveryFirst, OpenReachable, InFlight, changesVars,
         requestRows, sendRows, clicking, changesHistory

LEMMA ChangesNextKeepsIInv == ChangesIInv /\ [ChangesNext]_changesVars => ChangesIInv'
  BY CallbackKeepsIInv, RequestKeepsIInv, ElsewhereKeepsIInv, ChangesStutterKeepsIInv
     DEF ChangesNext

LEMMA ChangesInvariance == ChangesSpec => []ChangesIInv
  BY ChangesInitIInv, ChangesNextKeepsIInv, PTL DEF ChangesSpec

\* Type correctness of the change requests.
THEOREM ChangesTypeCorrect == ChangesSpec => []ChangesTypeOK
<1>1. ChangesIInv => ChangesTypeOK  BY DEF ChangesIInv
<1>. QED  BY <1>1, ChangesInvariance, PTL

\* What is decided about a request is what happened to the sends, unless two
\* clicks on it overlapped or one was cut short after its effect
\* (approve_request, reject_request).
THEOREM DecisionMatchesEffectCorrect == ChangesSpec => []DecisionMatchesEffect
<1>1. ChangesIInv => DecisionMatchesEffect  BY DEF ChangesIInv
<1>. QED  BY <1>1, ChangesInvariance, PTL

\* Every open request can be decided, across restarts, unless its delivery was
\* cut short by the bot's death or an exception (_deliver_request,
\* rebind_pending_views).
THEOREM PendingHasButtonsCorrect == ChangesSpec => []PendingHasButtons
<1>1. ChangesIInv => PendingHasButtons
  BY DEF ChangesIInv, ChangesTypeOK, OpenReachable, DeliveryFirst, PendingHasButtons
<1>. QED  BY <1>1, ChangesInvariance, PTL

\* A decision is final (mark_approved, mark_rejected, mark_failed).
THEOREM DecisionFinalCorrect == ChangesSpec => DecisionFinal
<1>. DEFINE Final == \A q \in Requests :
              rstatus[q] \in Decided => rstatus'[q] \in {rstatus[q], "absent"}
<1>1. ChangesIInv /\ [ChangesNext]_changesVars => [Final]_changesVars
  <2>. SUFFICES ASSUME ChangesIInv, ChangesNext PROVE Final
    OBVIOUS
  <2>. USE DEF ChangesIInv, ChangesTypeOK, FreshUntouched, Decided
  <2>1. ASSUME NEW q \in Requests, NEW a \in Actions, NEW s \in Sends \cup {NoSend},
               Create(q, a, s)
        PROVE  Final
    BY <2>1 DEF Create
  <2>2. ASSUME NEW q \in Requests, SendDm(q) \/ DmFails(q) \/ Link(q) \/ DeliveryRaises(q)
        PROVE  Final
    BY <2>2 DEF SendDm, DmFails, Link, DeliveryRaises, requestRows, Decide, MayDecide
  <2>3. ASSUME NEW c \in Clicks, NEW q \in Requests, NEW kind, Click(c, q, kind)
        PROVE  Final
    BY <2>3 DEF Click
  <2>4. ASSUME NEW c \in Clicks, Callback(c) PROVE Final
    <3>1. CASE Approve(c) \/ RejectChange(c) \/ Fail(c)
      BY <3>1 DEF Approve, RejectChange, Fail, Settle, Decide, MayDecide
    <3>2. CASE UNCHANGED rstatus
      BY <3>2
    <3>. QED
      BY <2>4, <3>1, <3>2
      DEF Callback, GetToApprove, GetToReject, LookUpDomme, RecordSend,
          RecordRefused, LookUpTarget, UpdateAmount, MarkIgnored, ApproveRefused
  <2>5. ASSUME NEW c \in Clicks, Raise(c) PROVE Final
    BY <2>5 DEF Raise, requestRows
  <2>6. CASE BotCrash \/ BotStart \/ Register \/ Unregister
    BY <2>6 DEF BotCrash, BotStart, Register, Unregister, requestRows
  <2>7. CASE ForgetDomme
    BY <2>7 DEF ForgetDomme
  <2>8. ASSUME NEW S \in SUBSET Sends, ForgetSub(S) PROVE Final
    BY <2>8 DEF ForgetSub
  <2>. QED  BY <2>1, <2>2, <2>3, <2>4, <2>5, <2>6, <2>7, <2>8 DEF ChangesNext
<1>. QED  BY <1>1, ChangesInvariance, PTL DEF ChangesSpec, DecisionFinal

-----------------------------------------------------------------------------
(***************************************************************************)
(* Setup.                                                                  *)
(***************************************************************************)

Own(u, secret) == secret \in 1..Len(secrets) /\ secrets[secret] = u

HookSteps == {"mark", "record", "touch", "ask", "advance"}
HookKinds == {"test", "tester", "send", "other"}
AcceptedOf(task) == [user |-> task.user, id |-> task.id,
                     link |-> LinkOf(task.creator, task.secret)]

\* What a task may have in hand at its step.
TaskSound(task) ==
    /\ task.at # "idle" => task.user \in Users
    /\ task.at \in {"pending", "others", "read", "upsert", "tell", "rotate"} =>
          task.creator \in Creators
    /\ task.at = "stage" => task.creator \in Creators
    /\ task.at \in {"upsert", "stage", "tell"} => Own(task.user, task.secret)
    /\ (task.at = "show" /\ task.card = "webhook") =>
          task.creator \in Creators /\ Own(task.user, task.secret)
    /\ task.at \in HookSteps => task.via \in HookKinds
    /\ task.via \in HookKinds =>
          task.at \in HookSteps \cup {"show"} /\ AcceptedOf(task) \in matched

TasksSound == \A t \in Tasks : TaskSound(tasks[t])
RowsOwn == \A u \in Users : Registered(u) => dommes[u].id <= serial /\ Own(u, dommes[u].secret)
RetiredOld == \A r \in retired : r[1] <= serial /\ r[2] <= Len(secrets)
GivenOwn == \A u \in Users : \A link \in given[u] : Own(u, link.secret)

IInv == /\ TypeOK
        /\ TasksSound
        /\ RowsOwn
        /\ RetiredOld
        /\ GivenOwn
        /\ DeliveriesReachTheirOwner
        /\ RotatedStaysDead

-----------------------------------------------------------------------------
LEMMA IdleTyped == Idle \in TaskRecords /\ TaskSound(Idle)
  BY DEF Idle, New, TaskRecords, TaskSound, Places, Kinds, HookSteps, HookKinds

LEMMA InitHolds == Init => IInv
<1>1. SUFFICES ASSUME Init PROVE IInv
  OBVIOUS
<1>2. TypeOK
  BY <1>1, IdleTyped DEF Init, TypeOK, Stages, Kinds
<1>3. TasksSound
  BY <1>1, IdleTyped DEF Init, TasksSound
<1>4. RowsOwn /\ RetiredOld /\ GivenOwn
  BY <1>1 DEF Init, RowsOwn, RetiredOld, GivenOwn, Registered
<1>5. DeliveriesReachTheirOwner /\ RotatedStaysDead
  BY <1>1 DEF Init, DeliveriesReachTheirOwner, RotatedStaysDead, Registered
<1>. QED  BY <1>2, <1>3, <1>4, <1>5 DEF IInv

\* What is owned stays owned: secrets are only appended.
Grows == \A u \in Users : \A secret \in Nat : Own(u, secret) => Own(u, secret)'

LEMMA SecretsGrow ==
  ASSUME TypeOK, NEW u \in Users, secrets' \in {secrets, Append(secrets, u)}
  PROVE  /\ Grows
         /\ secrets' \in Seq(Users)
         /\ Len(secrets) \in Nat /\ Len(secrets') >= Len(secrets)
         /\ secrets' # secrets => /\ Len(secrets') = Len(secrets) + 1
                                  /\ \A n \in Nat : n = Len(secrets) + 1 => Own(u, n)'
<1>1. secrets \in Seq(Users) /\ Len(secrets) \in Nat
  BY DEF TypeOK
<1>2. CASE secrets' = secrets
  BY <1>1, <1>2 DEF Grows, Own
<1>3. CASE secrets' = Append(secrets, u)
  <2>1. /\ secrets' \in Seq(Users)
        /\ Len(secrets') = Len(secrets) + 1
        /\ secrets'[Len(secrets) + 1] = u
        /\ \A n \in 1..Len(secrets) : secrets'[n] = secrets[n]
    BY <1>1, <1>3
  <2>2. Grows
    <3>1. SUFFICES ASSUME NEW v \in Users, NEW n \in Nat, Own(v, n) PROVE Own(v, n)'
      BY DEF Grows
    <3>. QED  BY <1>1, <2>1, <3>1 DEF Own
  <2>3. \A n \in Nat : n = Len(secrets) + 1 => Own(u, n)'
    BY <1>1, <2>1 DEF Own
  <2>. QED  BY <1>1, <2>1, <2>2, <2>3
<1>. QED  BY <1>2, <1>3

\* One task changes; the others rely on what it leaves standing.
LEMMA OneTask ==
  ASSUME TypeOK, TasksSound, NEW t \in Tasks, tasks' \in [Tasks -> TaskRecords],
         \A s \in Tasks \ {t} : tasks'[s] = tasks[s],
         TaskSound(tasks[t])', Grows, matched \subseteq matched'
  PROVE  TasksSound'
<1>1. SUFFICES ASSUME NEW s \in Tasks, s # t PROVE TaskSound(tasks[s])'
  BY DEF TasksSound
<1>2. tasks'[s] = tasks[s] /\ TaskSound(tasks[s])
  BY <1>1 DEF TasksSound
<1>3. tasks[s] \in TaskRecords
  BY DEF TypeOK
<1>4. /\ tasks[s].at \in {"upsert", "stage", "tell"} => Own(tasks[s].user, tasks[s].secret)'
      /\ (tasks[s].at = "show" /\ tasks[s].card = "webhook") =>
            Own(tasks[s].user, tasks[s].secret)'
  BY <1>2, <1>3 DEF TaskSound, Grows, TaskRecords
<1>. QED  BY <1>2, <1>4 DEF TaskSound, AcceptedOf, LinkOf, Own

\* The tables stand, and nobody is newly asked for preferences.
LEMMA RestStands ==
  ASSUME IInv, UNCHANGED <<dommes, serial, secrets, retired, matched, given, credited>>,
         \A u \in Users : setup'[u].stage = "preferences" => setup[u].stage = "preferences"
  PROVE  RowsOwn' /\ RetiredOld' /\ GivenOwn' /\ DeliveriesReachTheirOwner' /\ RotatedStaysDead'
<1>1. RowsOwn' /\ RetiredOld' /\ GivenOwn' /\ RotatedStaysDead'
  BY DEF IInv, RowsOwn, RetiredOld, GivenOwn, RotatedStaysDead, Registered, Own
<1>2. DeliveriesReachTheirOwner'
  BY DEF IInv, DeliveriesReachTheirOwner, Registered
<1>. QED  BY <1>1, <1>2

\* The two ways a task goes on.
LEMMA Gone ==
  ASSUME TypeOK, NEW t \in Tasks, tasks' = [tasks EXCEPT ![t] = tasks'[t]],
         tasks'[t] \in TaskRecords
  PROVE  /\ tasks' \in [Tasks -> TaskRecords]
         /\ \A s \in Tasks \ {t} : tasks'[s] = tasks[s]
<1>1. \A s \in Tasks : tasks'[s] = IF s = t THEN tasks'[t] ELSE tasks[s]
  BY DEF TypeOK
<1>2. DOMAIN tasks' = Tasks
  BY DEF TypeOK
<1>. QED  BY <1>1, <1>2 DEF TypeOK

\* A step that touches one task and, maybe, the screens and the blacklist.
QuietStep(t) ==
    /\ tasks' = [tasks EXCEPT ![t] = tasks'[t]] /\ tasks'[t] \in TaskRecords
    /\ TaskSound(tasks'[t])
    /\ started' \in Nat
    /\ UNCHANGED <<dommes, serial, secrets, history>>
    /\ blocked' \subseteq Users
    /\ setup' \in [Users -> [stage : Stages, pending : Creators \cup {Nothing}]]
    /\ cards' \in [Users -> [stored : Kinds, others : SUBSET Kinds]]
    /\ \A u \in Users : setup'[u].stage = "preferences" => setup[u].stage = "preferences"

LEMMA Quiet ==
  ASSUME IInv, NEW t \in Tasks, QuietStep(t)
  PROVE  IInv'
<1>1. TypeOK /\ TasksSound
  BY DEF IInv
<1>2. /\ tasks' \in [Tasks -> TaskRecords]
      /\ \A s \in Tasks \ {t} : tasks'[s] = tasks[s]
  BY <1>1, Gone DEF QuietStep
<1>3. TypeOK'
  BY <1>1, <1>2 DEF QuietStep, TypeOK, history
<1>4. TaskSound(tasks[t])'
  BY DEF QuietStep, TaskSound, Own, history
<1>5. TasksSound'
  BY <1>1, <1>2, <1>4, OneTask DEF QuietStep, history, Grows, Own
<1>6. RowsOwn' /\ RetiredOld' /\ GivenOwn' /\ DeliveriesReachTheirOwner' /\ RotatedStaysDead'
  BY RestStands DEF QuietStep, history
<1>. QED  BY <1>3, <1>5, <1>6 DEF IInv

-----------------------------------------------------------------------------
(***************************************************************************)
(* Presses and commands: a new task at an idle place.                      *)
(***************************************************************************)
LEMMA NewTyped ==
  ASSUME NEW u \in Users, NEW via \in {"card", "staff"} \cup HookKinds, NEW step \in Places
  PROVE  New(u, via, step) \in TaskRecords
<1>1. /\ via \in {"card", "staff", "test", "tester", "send", "other"}
      /\ "none" \in Kinds
  BY DEF HookKinds, Kinds
<1>. QED  BY <1>1 DEF TaskRecords, New

\* A new task of a member that waits for nothing, and one with a creator in hand.
PlainSteps == {"send", "show", "complete", "block", "rebuild"}
CreatorSteps == {"pending", "others", "read", "rotate"}

LEMMA NewSound ==
  ASSUME NEW u \in Users, NEW via \in {"card", "staff"}
  PROVE  /\ \A step \in PlainSteps :
               New(u, via, step) \in TaskRecords /\ TaskSound(New(u, via, step))
         /\ \A card \in {"intro", "identity"} :
               LET task == [New(u, via, "show") EXCEPT !.card = card]
               IN  task \in TaskRecords /\ TaskSound(task)
         /\ \A step \in CreatorSteps, c \in Creators :
               LET task == [New(u, via, step) EXCEPT !.creator = c]
               IN  task \in TaskRecords /\ TaskSound(task)
<1>1. ASSUME NEW step \in PlainSteps
      PROVE  New(u, via, step) \in TaskRecords /\ TaskSound(New(u, via, step))
  BY NewTyped DEF New, PlainSteps, Places, TaskSound, HookSteps, HookKinds
<1>2. ASSUME NEW card \in {"intro", "identity"}
      PROVE  LET task == [New(u, via, "show") EXCEPT !.card = card]
             IN  task \in TaskRecords /\ TaskSound(task)
  <2>1. [New(u, via, "show") EXCEPT !.card = card] =
           [at |-> "show", user |-> u, creator |-> Nothing, secret |-> 0,
            id |-> 0, via |-> via, card |-> card]
    BY DEF New
  <2>. QED  BY <2>1 DEF Places, TaskRecords, Kinds, TaskSound, HookSteps, HookKinds
<1>3. ASSUME NEW step \in CreatorSteps, NEW c \in Creators
      PROVE  LET task == [New(u, via, step) EXCEPT !.creator = c]
             IN  task \in TaskRecords /\ TaskSound(task)
  <2>1. [New(u, via, step) EXCEPT !.creator = c] =
           [at |-> step, user |-> u, creator |-> c, secret |-> 0,
            id |-> 0, via |-> via, card |-> "none"]
    BY DEF New
  <2>. QED
    BY <2>1 DEF Places, CreatorSteps, TaskRecords, Kinds, TaskSound, HookSteps, HookKinds
<1>. QED  BY <1>1, <1>2, <1>3

\* What QuietStep asks of a new task.
LEMMA Begun ==
  ASSUME TypeOK, NEW t \in Tasks, NEW task \in TaskRecords, Begin(t, task)
  PROVE  /\ tasks' = [tasks EXCEPT ![t] = tasks'[t]]
         /\ tasks'[t] = task /\ started' \in Nat
  BY DEF Begin, TypeOK

LEMMA StageTyped ==
  ASSUME TypeOK, NEW u \in Users, NEW stage \in Stages, SetStage(u, stage)
  PROVE  /\ setup' \in [Users -> [stage : Stages, pending : Creators \cup {Nothing}]]
         /\ \A v \in Users : \/ setup'[v].stage = setup[v].stage
                             \/ v = u /\ setup'[v].stage = stage
  BY DEF TypeOK, SetStage, Stages

LEMMA PressesKeep ==
  ASSUME IInv, NEW t \in Tasks, NEW u \in Users, Presses(t, u)
  PROVE  IInv'
<1>1. TypeOK /\ TasksSound
  BY DEF IInv
<1>. DEFINE With(step, c) == [New(u, "card", step) EXCEPT !.creator = c]
            Shows == [New(u, "card", "show") EXCEPT !.card = "intro"]
<1>2. /\ \A step \in PlainSteps :
            New(u, "card", step) \in TaskRecords /\ TaskSound(New(u, "card", step))
      /\ Shows \in TaskRecords /\ TaskSound(Shows)
      /\ \A step \in CreatorSteps, c \in Creators :
            With(step, c) \in TaskRecords /\ TaskSound(With(step, c))
  BY NewSound
<1>. HIDE DEF With, Shows
<1>3. CASE StartSetup(t, u)
  <2>1. New(u, "card", "send") \in TaskRecords /\ TaskSound(New(u, "card", "send"))
    BY <1>2 DEF PlainSteps
  <2>2. QuietStep(t)
    BY <1>1, <1>3, <2>1, Begun DEF StartSetup, QuietStep, tables, TypeOK, Stages
  <2>. QED  BY <2>2, Quiet
<1>4. ASSUME NEW c \in Creators, SubmitThrone(t, u, c) PROVE IInv'
  <2>1. With("pending", c) \in TaskRecords /\ TaskSound(With("pending", c))
    BY <1>2 DEF CreatorSteps
  <2>2. Begin(t, With("pending", c))
    BY <1>4 DEF SubmitThrone, With
  <2>3. QuietStep(t)
    BY <1>1, <1>4, <2>1, <2>2, Begun DEF SubmitThrone, QuietStep, tables, TypeOK
  <2>. QED  BY <2>3, Quiet
<1>5. CASE Confirm(t, u)
  <2>1. setup[u].pending \in Creators
    BY <1>1, <1>5 DEF Confirm, TypeOK
  <2>2. LET task == With("others", setup[u].pending)
        IN  task \in TaskRecords /\ TaskSound(task) /\ Begin(t, task)
    BY <1>2, <1>5, <2>1 DEF Confirm, With, CreatorSteps
  <2>3. QuietStep(t)
    BY <1>1, <1>5, <2>2, Begun DEF Confirm, QuietStep, tables, screens, TypeOK
  <2>. QED  BY <2>3, Quiet
<1>6. CASE Reject(t, u)
  <2>1. Begin(t, Shows)
    BY <1>6 DEF Reject, Shows
  <2>2. /\ setup' \in [Users -> [stage : Stages, pending : Creators \cup {Nothing}]]
        /\ \A v \in Users : setup'[v].stage = "preferences" => setup[v].stage = "preferences"
    BY <1>1, <1>6, StageTyped DEF Reject, Stages
  <2>3. QuietStep(t)
    BY <1>1, <1>2, <1>6, <2>1, <2>2, Begun DEF Reject, QuietStep, tables, TypeOK
  <2>. QED  BY <2>3, Quiet
<1>7. CASE Retry(t, u)
  <2>1. CASE Registered(u)
    <3>1. dommes[u].creator \in Creators
      BY <1>1, <2>1 DEF TypeOK, Registered, Rows
    <3>2. LET task == With("rotate", dommes[u].creator)
          IN  task \in TaskRecords /\ TaskSound(task) /\ Begin(t, task)
      BY <1>2, <1>7, <2>1, <3>1 DEF Retry, With, CreatorSteps
    <3>3. QuietStep(t)
      BY <1>1, <1>7, <3>2, Begun DEF Retry, QuietStep, tables, screens, TypeOK
    <3>. QED  BY <3>3, Quiet
  <2>2. CASE ~Registered(u)
    <3>1. LET task == New(u, "card", "rebuild")
          IN  task \in TaskRecords /\ TaskSound(task) /\ Begin(t, task)
      BY <1>2, <1>7, <2>2 DEF Retry, PlainSteps
    <3>2. QuietStep(t)
      BY <1>1, <1>7, <3>1, Begun DEF Retry, QuietStep, tables, screens, TypeOK
    <3>. QED  BY <3>2, Quiet
  <2>. QED  BY <2>1, <2>2
<1>8. CASE Save(t, u)
  <2>1. LET task == New(u, "card", "complete")
        IN  task \in TaskRecords /\ TaskSound(task) /\ Begin(t, task)
    BY <1>2, <1>8 DEF Save, PlainSteps
  <2>2. QuietStep(t)
    BY <1>1, <1>8, <2>1, Begun DEF Save, QuietStep, tables, screens, TypeOK
  <2>. QED  BY <2>2, Quiet
<1>. QED
  BY <1>3, <1>4, <1>5, <1>6, <1>7, <1>8 DEF Presses

LEMMA CommandsKeep ==
  ASSUME IInv, NEW t \in Tasks, NEW u \in Users,
         (\E c \in Creators : AddDomme(t, u, c)) \/ Reissue(t, u)
  PROVE  IInv'
<1>1. TypeOK /\ TasksSound
  BY DEF IInv
<1>2. \A step \in CreatorSteps, c \in Creators :
         LET task == [New(u, "staff", step) EXCEPT !.creator = c]
         IN  task \in TaskRecords /\ TaskSound(task)
  BY NewSound
<1>3. ASSUME NEW c \in Creators, AddDomme(t, u, c) PROVE IInv'
  <2>1. QuietStep(t)
    BY <1>1, <1>2, <1>3, Begun
       DEF AddDomme, QuietStep, tables, screens, TypeOK, CreatorSteps
  <2>. QED  BY <2>1, Quiet
<1>4. CASE Reissue(t, u)
  <2>1. dommes[u].creator \in Creators
    BY <1>1, <1>4 DEF TypeOK, Registered, Rows, Reissue
  <2>2. QuietStep(t)
    BY <1>1, <1>2, <1>4, <2>1, Begun
       DEF Reissue, QuietStep, tables, screens, TypeOK, CreatorSteps
  <2>. QED  BY <2>2, Quiet
<1>. QED  BY <1>3, <1>4

-----------------------------------------------------------------------------
(***************************************************************************)
(* Steps that leave the table of Dom/mes as it is.                         *)
(***************************************************************************)
\* What QuietStep asks of a task that goes on.
LEMMA GoesOn ==
  ASSUME TypeOK, NEW t \in Tasks, NEW task \in TaskRecords, Goes(t, task)
  PROVE  /\ tasks' = [tasks EXCEPT ![t] = tasks'[t]]
         /\ tasks'[t] = task /\ started' \in Nat
  BY DEF Goes, TypeOK

LEMMA QuietSteps ==
  ASSUME IInv, NEW t \in Tasks,
         \/ SendIntro(t) \/ SetPending(t) \/ MoveStage(t) \/ Complete(t)
         \/ CheckOthers(t) \/ Block(t) \/ Rebuild(t) \/ Ask(t)
  PROVE  IInv'
<1>1. TypeOK /\ TasksSound /\ TaskSound(tasks[t]) /\ tasks[t] \in TaskRecords
  BY DEF IInv, TasksSound, TypeOK
<1>. DEFINE u == tasks[t].user
<1>2. CASE SendIntro(t)
  <2>1. u \in Users
    BY <1>1, <1>2 DEF SendIntro, TaskSound
  <2>2. /\ cards[u].stored \in Kinds /\ cards[u].others \subseteq Kinds
    BY <1>1, <2>1 DEF TypeOK
  <2>3. (cards[u].others \cup {cards[u].stored}) \ {"none"} \subseteq Kinds
    BY <2>2
  <2>4. cards' \in [Users -> [stored : Kinds, others : SUBSET Kinds]]
    BY <1>1, <1>2, <2>1, <2>3 DEF SendIntro, NewCard, TypeOK, Kinds
  <2>5. QuietStep(t)
    BY <1>1, <1>2, <2>4, GoesOn, IdleTyped
       DEF SendIntro, Ends, Goes, QuietStep, tables, TypeOK
  <2>. QED  BY <2>5, Quiet
<1>3. CASE SetPending(t)
  <2>1. u \in Users /\ tasks[t].creator \in Creators
    BY <1>1, <1>3 DEF SetPending, TaskSound
  <2>2. PICK card \in {"identity", "intro"} :
            Goes(t, [tasks[t] EXCEPT !.at = "show", !.card = card])
    BY <1>3 DEF SetPending
  <2>3. LET task == [tasks[t] EXCEPT !.at = "show", !.card = card]
        IN  task \in TaskRecords /\ TaskSound(task)
    BY <1>1, <2>1, <1>3
       DEF TaskRecords, TaskSound, Places, Kinds, HookSteps, HookKinds, AcceptedOf, LinkOf, SetPending
  <2>4. /\ setup' \in [Users -> [stage : Stages, pending : Creators \cup {Nothing}]]
        /\ \A v \in Users : setup'[v].stage = "preferences" => setup[v].stage = "preferences"
    <3>. DEFINE new == IF setup[u].stage = "none" THEN setup[u]
                       ELSE [stage |-> "identity", pending |-> tasks[t].creator]
    <3>1. setup' = setup \/ setup' = [setup EXCEPT ![u] = new]
      BY <1>3 DEF SetPending
    <3>2. new \in [stage : Stages, pending : Creators \cup {Nothing}]
          /\ (new.stage = "preferences" => setup[u].stage = "preferences")
      BY <1>1, <2>1 DEF TypeOK, Stages
    <3>. HIDE DEF new
    <3>3. setup \in [Users -> [stage : Stages, pending : Creators \cup {Nothing}]]
      BY <1>1 DEF TypeOK
    <3>4. \A v \in Users : setup'[v] = setup[v] \/ (v = u /\ setup'[v] = new)
      BY <2>1, <3>1, <3>3
    <3>5. setup' \in [Users -> [stage : Stages, pending : Creators \cup {Nothing}]]
      BY <2>1, <3>1, <3>2, <3>3
    <3>. QED  BY <3>2, <3>4, <3>5
  <2>5. QuietStep(t)
    BY <1>1, <1>3, <2>2, <2>3, <2>4, GoesOn DEF SetPending, QuietStep, tables, TypeOK
  <2>. QED  BY <2>5, Quiet
<1>4. CASE MoveStage(t)
  <2>1. u \in Users /\ tasks[t].creator \in Creators /\ Own(u, tasks[t].secret)
    BY <1>1, <1>4 DEF MoveStage, TaskSound
  <2>2. LET task == [tasks[t] EXCEPT !.at = "show", !.card = "webhook"]
        IN  task \in TaskRecords /\ TaskSound(task)
    BY <1>1, <2>1
       DEF TaskRecords, TaskSound, Places, Kinds, HookSteps, HookKinds, AcceptedOf, LinkOf
  <2>3. /\ setup' \in [Users -> [stage : Stages, pending : Creators \cup {Nothing}]]
        /\ \A v \in Users : setup'[v].stage = "preferences" => setup[v].stage = "preferences"
    BY <1>1, <1>4, <2>1, StageTyped DEF MoveStage, Stages
  <2>4. QuietStep(t)
    BY <1>1, <1>4, <2>2, <2>3, GoesOn DEF MoveStage, QuietStep, tables, TypeOK
  <2>. QED  BY <2>4, Quiet
<1>5. CASE Complete(t)
  <2>1. u \in Users
    BY <1>1, <1>5 DEF Complete, TaskSound
  <2>2. LET task == [tasks[t] EXCEPT !.at = "show", !.card = "success"]
        IN  task \in TaskRecords /\ TaskSound(task)
    BY <1>1, <2>1
       DEF TaskRecords, TaskSound, Places, Kinds, HookSteps, HookKinds, AcceptedOf, LinkOf
  <2>3. /\ setup' \in [Users -> [stage : Stages, pending : Creators \cup {Nothing}]]
        /\ \A v \in Users : setup'[v].stage = "preferences" => setup[v].stage = "preferences"
    BY <1>1, <1>5, <2>1, StageTyped DEF Complete, Stages
  <2>4. QuietStep(t)
    BY <1>1, <1>5, <2>2, <2>3, GoesOn DEF Complete, QuietStep, tables, TypeOK
  <2>. QED  BY <2>4, Quiet
<1>6. CASE CheckOthers(t)
  <2>1. PICK task \in {Idle, [tasks[t] EXCEPT !.at = "read"]} : Goes(t, task)
    BY <1>6 DEF CheckOthers, Ends, Moves
  <2>2. task \in TaskRecords /\ TaskSound(task)
    BY <1>1, <1>6, <2>1, IdleTyped
       DEF CheckOthers, TaskRecords, TaskSound, Places, HookSteps, HookKinds, AcceptedOf, LinkOf
  <2>3. QuietStep(t)
    BY <1>1, <1>6, <2>1, <2>2, GoesOn DEF CheckOthers, QuietStep, tables, screens, TypeOK
  <2>. QED  BY <2>3, Quiet
<1>7. CASE Block(t)
  <2>1. u \in Users
    BY <1>1, <1>7 DEF Block, TaskSound
  <2>2. QuietStep(t)
    BY <1>1, <1>7, <2>1, GoesOn, IdleTyped DEF Block, Ends, QuietStep, screens, TypeOK
  <2>. QED  BY <2>2, Quiet
<1>8. CASE Rebuild(t)
  <2>1. u \in Users
    BY <1>1, <1>8 DEF Rebuild, TaskSound
  <2>2. CASE Registered(u)
    <3>1. /\ dommes[u].creator \in Creators /\ dommes[u].secret \in Nat
          /\ Own(u, dommes[u].secret)
      BY <1>1, <2>1, <2>2 DEF TypeOK, Rows, Registered, IInv, RowsOwn
    <3>. DEFINE task == [tasks[t] EXCEPT !.creator = dommes[u].creator,
                           !.secret = dommes[u].secret,
                           !.at = IF tasks[t].via = "card" THEN "show" ELSE "tell",
                           !.card = "webhook"]
    <3>2. task \in TaskRecords /\ TaskSound(task)
      BY <1>1, <1>8, <2>1, <3>1
         DEF Rebuild, TaskRecords, TaskSound, Places, Kinds, HookSteps, HookKinds, AcceptedOf, LinkOf
    <3>3. Goes(t, task)
      BY <1>8, <2>2 DEF Rebuild, Returns
    <3>4. QuietStep(t)
      BY <1>1, <1>8, <3>2, <3>3, GoesOn DEF Rebuild, QuietStep, tables, screens, TypeOK
    <3>. QED  BY <3>4, Quiet
  <2>3. CASE ~Registered(u)
    <3>1. QuietStep(t)
      BY <1>1, <1>8, <2>3, GoesOn, IdleTyped
         DEF Rebuild, Ends, QuietStep, tables, screens, TypeOK
    <3>. QED  BY <3>1, Quiet
  <2>. QED  BY <2>2, <2>3
<1>9. CASE Ask(t)
  <2>1. PICK task \in {Idle, [tasks[t] EXCEPT !.at = "advance"],
                       [tasks[t] EXCEPT !.at = "record"]} : Goes(t, task)
    BY <1>9 DEF Ask, Ends, Moves
  <2>2. task \in TaskRecords /\ TaskSound(task)
    BY <1>1, <1>9, <2>1, IdleTyped
       DEF Ask, TaskRecords, TaskSound, Places, HookSteps, HookKinds, AcceptedOf, LinkOf
  <2>3. QuietStep(t)
    BY <1>1, <1>9, <2>1, <2>2, GoesOn DEF Ask, QuietStep, tables, screens, TypeOK
  <2>. QED  BY <2>3, Quiet
<1>. QED
  BY <1>2, <1>3, <1>4, <1>5, <1>6, <1>7, <1>8, <1>9

-----------------------------------------------------------------------------
(***************************************************************************)
(* Steps that hand a link out.                                             *)
(***************************************************************************)
LEMMA HandOut ==
  ASSUME IInv, NEW t \in Tasks, Show(t) \/ Tell(t)
  PROVE  IInv'
<1>1. TypeOK /\ TasksSound /\ TaskSound(tasks[t]) /\ tasks[t] \in TaskRecords
  BY DEF IInv, TasksSound, TypeOK
<1>. DEFINE u == tasks[t].user
            link == LinkOf(tasks[t].creator, tasks[t].secret)
            more == [given EXCEPT ![u] = @ \cup {link}]
<1>2. u \in Users
  BY <1>1 DEF Show, Tell, TaskSound
<1>3. /\ given' \in {given, more}
      /\ given' # given => link \in [creator : Creators, secret : Nat] /\ Own(u, link.secret)
  <2>1. CASE Show(t) /\ tasks[t].card # "webhook"
    <3>1. given' = given
      BY <1>1, <1>2, <2>1 DEF Show, TypeOK
    <3>. QED  BY <3>1
  <2>2. CASE Show(t) /\ tasks[t].card = "webhook"
    <3>1. given' \in {given, more}
      BY <1>1, <1>2, <2>2 DEF Show
    <3>2. tasks[t].creator \in Creators /\ Own(u, tasks[t].secret) /\ tasks[t].secret \in Nat
      BY <1>1, <2>2 DEF Show, TaskSound, TaskRecords
    <3>. QED  BY <3>1, <3>2 DEF LinkOf
  <2>3. CASE Tell(t)
    <3>1. given' \in {given, more}
      BY <2>3 DEF Tell
    <3>2. tasks[t].creator \in Creators /\ Own(u, tasks[t].secret) /\ tasks[t].secret \in Nat
      BY <1>1, <2>3 DEF Tell, TaskSound, TaskRecords
    <3>. QED  BY <3>1, <3>2 DEF LinkOf
  <2>. QED  BY <2>1, <2>2, <2>3
<1>. HIDE DEF link
<1>4. /\ given' \in [Users -> SUBSET [creator : Creators, secret : Nat]]
      /\ \A v \in Users : given[v] \subseteq given'[v]
      /\ \A v \in Users : \A l \in given'[v] : l \in given[v] \/ (v = u /\ Own(u, l.secret))
  BY <1>1, <1>2, <1>3 DEF TypeOK
<1>5. /\ UNCHANGED <<dommes, serial, secrets, blocked, setup, retired, matched, credited>>
      /\ cards' \in [Users -> [stored : Kinds, others : SUBSET Kinds]]
      /\ started' = started
  <2>1. \/ cards' \in {cards, [cards EXCEPT ![u].stored = tasks[t].card]}
        \/ cards' = NewCard(u, tasks[t].card)
    BY DEF Show, Tell, screens
  <2>2. cards' \in [Users -> [stored : Kinds, others : SUBSET Kinds]]
    <3>1. /\ cards \in [Users -> [stored : Kinds, others : SUBSET Kinds]]
          /\ tasks[t].card \in Kinds
      BY <1>1 DEF TypeOK, TaskRecords
    <3>. HIDE DEF u
    <3>2. CASE cards' = [cards EXCEPT ![u].stored = tasks[t].card]
      BY <1>2, <3>1, <3>2
    <3>3. CASE cards' = NewCard(u, tasks[t].card)
      <4>1. (cards[u].others \cup {cards[u].stored}) \ {"none"} \in SUBSET Kinds
        BY <1>2, <3>1
      <4>. QED  BY <1>2, <3>1, <3>3, <4>1 DEF NewCard
    <3>. QED  BY <2>1, <3>1, <3>2, <3>3
  <2>. QED  BY <2>2 DEF Show, Tell, tables, screens, Moves, Ends, Goes
<1>6. PICK task \in {Idle, [tasks[t] EXCEPT !.at = "record"]} :
          Goes(t, task) /\ (task # Idle => tasks[t].via = "tester")
  BY DEF Show, Tell, Moves, Ends
<1>7. task \in TaskRecords /\ TaskSound(task)
  BY <1>1, <1>2, <1>6, IdleTyped
     DEF TaskRecords, TaskSound, Places, HookSteps, HookKinds, AcceptedOf, LinkOf
<1>8. /\ tasks' = [tasks EXCEPT ![t] = tasks'[t]] /\ tasks'[t] = task
      /\ tasks' \in [Tasks -> TaskRecords] /\ \A s \in Tasks \ {t} : tasks'[s] = tasks[s]
  BY <1>1, <1>6, <1>7, GoesOn, Gone
<1>9. TypeOK'
  BY <1>1, <1>4, <1>5, <1>8 DEF TypeOK
<1>10. TaskSound(tasks[t])' /\ Grows
  BY <1>5, <1>7, <1>8 DEF TaskSound, Own, Grows
<1>11. TasksSound'
  BY <1>1, <1>5, <1>8, <1>10, OneTask
<1>12. RowsOwn' /\ RetiredOld' /\ RotatedStaysDead'
  BY <1>5 DEF IInv, RowsOwn, RetiredOld, RotatedStaysDead, Registered, Own
<1>13. GivenOwn'
  BY <1>4, <1>5 DEF IInv, GivenOwn, Own
<1>14. DeliveriesReachTheirOwner'
  <2>1. \A s \in credited \cup matched : s.user \in Users
    BY <1>1 DEF TypeOK, Accepted
  <2>. QED  BY <1>4, <1>5, <2>1 DEF IInv, DeliveriesReachTheirOwner, Registered
<1>. QED  BY <1>9, <1>11, <1>12, <1>13, <1>14 DEF IInv

-----------------------------------------------------------------------------
(***************************************************************************)
(* Steps on the table of Dom/mes.                                          *)
(***************************************************************************)
\* A task goes on, or begins, in a step that keeps what the other tasks rely on.
LEMMA TaskGoes ==
  ASSUME IInv, NEW t \in Tasks, NEW task \in TaskRecords, Goes(t, task) \/ Begin(t, task),
         Grows, matched \subseteq matched'
  PROVE  /\ TaskSound(tasks[t])' => TasksSound'
         /\ tasks' \in [Tasks -> TaskRecords] /\ tasks'[t] = task /\ started' \in Nat
<1>1. TypeOK /\ TasksSound
  BY DEF IInv
<1>2. tasks' = [tasks EXCEPT ![t] = tasks'[t]] /\ tasks'[t] = task /\ started' \in Nat
  BY <1>1, GoesOn, Begun
<1>3. tasks' \in [Tasks -> TaskRecords] /\ \A s \in Tasks \ {t} : tasks'[s] = tasks[s]
  BY <1>1, <1>2, Gone
<1>. QED  BY <1>1, <1>2, <1>3, OneTask

\* The table stands while secrets are made.
LEMMA TableStands ==
  ASSUME IInv, Grows, Len(secrets) \in Nat, Len(secrets') \in Nat, Len(secrets') >= Len(secrets),
         UNCHANGED <<dommes, serial, retired, given, matched, credited, setup>>
  PROVE  RowsOwn' /\ RetiredOld' /\ GivenOwn' /\ DeliveriesReachTheirOwner' /\ RotatedStaysDead'
<1>1. TypeOK
  BY DEF IInv
<1>2. RowsOwn'
  BY <1>1 DEF IInv, RowsOwn, Registered, Grows, TypeOK, Rows
<1>3. GivenOwn'
  BY <1>1 DEF IInv, GivenOwn, Grows, TypeOK
<1>4. RetiredOld'
  BY <1>1 DEF IInv, RetiredOld, TypeOK
<1>5. DeliveriesReachTheirOwner' /\ RotatedStaysDead'
  BY DEF IInv, DeliveriesReachTheirOwner, RotatedStaysDead, Registered
<1>. QED  BY <1>2, <1>3, <1>4, <1>5

LEMMA ReadKeeps ==
  ASSUME IInv, NEW t \in Tasks, ReadSecret(t)
  PROVE  IInv'
<1>1. TypeOK /\ TasksSound /\ TaskSound(tasks[t]) /\ tasks[t] \in TaskRecords
  BY DEF IInv, TasksSound, TypeOK
<1>2. PICK u \in Users : u = tasks[t].user
  BY <1>1 DEF ReadSecret, TaskSound
<1>3. tasks[t].creator \in Creators /\ tasks[t].via \notin HookKinds
  BY <1>1 DEF ReadSecret, TaskSound, HookSteps
<1>4. secrets' \in {secrets, Append(secrets, u)} /\ Len(secrets) \in Nat
  BY <1>1, <1>2 DEF ReadSecret, TypeOK
<1>5. /\ Grows /\ secrets' \in Seq(Users) /\ Len(secrets') \in Nat
      /\ Len(secrets') >= Len(secrets)
  BY <1>1, <1>4, SecretsGrow
<1>6. PICK n \in Nat : Own(u, n)' /\ Goes(t, [tasks[t] EXCEPT !.at = "upsert", !.secret = n])
  <2>1. CASE Registered(u)
    <3>1. PICK n \in Nat : n = dommes[u].secret
      BY <1>1, <2>1 DEF TypeOK, Rows, Registered
    <3>2. Own(u, n)
      BY <2>1, <3>1 DEF IInv, RowsOwn
    <3>3. Own(u, n)'
      BY <1>5, <3>2 DEF Grows
    <3>. QED  BY <1>2, <2>1, <3>1, <3>3 DEF ReadSecret
  <2>2. CASE ~Registered(u)
    <3>1. PICK n \in Nat : n = Len(secrets) + 1
      BY <1>4
    <3>2. secrets' = Append(secrets, u)
      BY <1>2, <2>2 DEF ReadSecret
    <3>3. Own(u, n)'
      BY <1>1, <1>4, <3>1, <3>2, SecretsGrow
    <3>. QED  BY <1>2, <2>2, <3>1, <3>3 DEF ReadSecret
  <2>. QED  BY <2>1, <2>2
<1>7. [tasks[t] EXCEPT !.at = "upsert", !.secret = n] \in TaskRecords
  BY <1>1 DEF TaskRecords, Places
<1>8. PICK task \in TaskRecords :
          /\ Goes(t, task) /\ task.at = "upsert" /\ task.secret = n /\ task.user = u
          /\ task.creator \in Creators /\ task.via \notin HookKinds
  BY <1>1, <1>2, <1>3, <1>6, <1>7 DEF TaskRecords
<1>9. UNCHANGED <<dommes, serial, blocked, setup, cards, given, retired, matched, credited>>
  BY DEF ReadSecret, screens, history
<1>10. /\ TaskSound(tasks[t])' => TasksSound'
       /\ tasks' \in [Tasks -> TaskRecords] /\ tasks'[t] = task /\ started' \in Nat
  BY <1>5, <1>8, <1>9, TaskGoes
<1>11. TaskSound(tasks[t])'
  BY <1>2, <1>6, <1>8, <1>10 DEF TaskSound, HookSteps, Own
<1>12. TypeOK'
  BY <1>1, <1>5, <1>9, <1>10 DEF TypeOK
<1>. QED
  BY <1>4, <1>5, <1>9, <1>10, <1>11, <1>12, TableStands DEF IInv

LEMMA UpsertKeeps ==
  ASSUME IInv, NEW t \in Tasks, Upsert(t)
  PROVE  IInv'
<1>1. TypeOK /\ TasksSound /\ TaskSound(tasks[t]) /\ tasks[t] \in TaskRecords
  BY DEF IInv, TasksSound, TypeOK
<1>2. PICK u \in Users : u = tasks[t].user
  BY <1>1 DEF Upsert, TaskSound
<1>3. /\ tasks[t].creator \in Creators /\ tasks[t].via \notin HookKinds
      /\ tasks[t].secret \in Nat /\ Own(u, tasks[t].secret)
  BY <1>1, <1>2 DEF Upsert, TaskSound, HookSteps, TaskRecords
<1>4. UNCHANGED <<secrets, blocked, setup, cards, given, retired, matched, credited>> /\ Grows
  BY DEF Upsert, screens, history, Grows, Own
<1>5. PICK step \in {"stage", "tell"} : Goes(t, [tasks[t] EXCEPT !.at = step])
  BY DEF Upsert, Moves
<1>6. [tasks[t] EXCEPT !.at = step] \in TaskRecords
  BY <1>1 DEF TaskRecords, Places
<1>7. /\ TaskSound(tasks[t])' => TasksSound'
      /\ tasks' \in [Tasks -> TaskRecords] /\ tasks'[t] = [tasks[t] EXCEPT !.at = step]
      /\ started' \in Nat
  BY <1>4, <1>5, <1>6, TaskGoes
<1>8. TaskSound(tasks[t])'
  BY <1>1, <1>2, <1>3, <1>4, <1>7 DEF TaskSound, HookSteps, Own, TaskRecords
<1>. DEFINE row == [id |-> IF Registered(u) THEN dommes[u].id ELSE serial + 1,
                    creator |-> tasks[t].creator, tracking |-> FALSE,
                    secret |-> IF Registered(u) THEN dommes[u].secret ELSE tasks[t].secret]
<1>9. /\ dommes' = [dommes EXCEPT ![u] = row]
      /\ serial' = IF Registered(u) THEN serial ELSE serial + 1
  BY <1>1, <1>2 DEF Upsert, Upserted, Registered, TypeOK
<1>10. /\ serial \in Nat /\ serial' \in Nat /\ serial <= serial'
       /\ row \in Rows /\ row.id <= serial' /\ Own(u, row.secret)
  BY <1>1, <1>3, <1>9 DEF TypeOK, Rows, IInv, RowsOwn, Registered
<1>11. /\ row.tracking = FALSE
       /\ \/ Registered(u) /\ row.id = dommes[u].id /\ row.secret = dommes[u].secret
          \/ row.id = serial + 1
  OBVIOUS
<1>. HIDE DEF row
<1>12. /\ dommes' \in [Users -> Rows \cup {Nobody}] /\ dommes'[u] = row
       /\ \A v \in Users \ {u} : dommes'[v] = dommes[v]
  BY <1>1, <1>9, <1>10 DEF TypeOK
<1>13. TypeOK'
  BY <1>1, <1>4, <1>7, <1>10, <1>12 DEF TypeOK
<1>14. RowsOwn'
  <2>1. \A v \in Users \ {u} : Registered(v) => dommes[v].id \in Nat
    BY <1>1 DEF TypeOK, Rows, Registered
  <2>. QED
    BY <1>4, <1>10, <1>12, <2>1 DEF IInv, RowsOwn, Registered, Own
<1>15. RetiredOld' /\ GivenOwn'
  BY <1>1, <1>4, <1>10 DEF IInv, RetiredOld, GivenOwn, Own, TypeOK
<1>16. DeliveriesReachTheirOwner'
  BY <1>4, <1>11, <1>12 DEF IInv, DeliveriesReachTheirOwner, Registered
<1>17. RotatedStaysDead'
  <2>1. \A r \in retired : r[1] \in Nat /\ r[1] <= serial
    BY <1>1 DEF TypeOK, IInv, RetiredOld
  <2>2. <<row.id, row.secret>> \notin retired
    BY <1>10, <1>11, <2>1 DEF IInv, RotatedStaysDead
  <2>. QED  BY <1>4, <1>12, <2>2 DEF IInv, RotatedStaysDead, Registered
<1>. QED  BY <1>7, <1>8, <1>13, <1>14, <1>15, <1>16, <1>17 DEF IInv

LEMMA RotateKeeps ==
  ASSUME IInv, NEW t \in Tasks, Rotate(t)
  PROVE  IInv'
<1>1. TypeOK /\ TasksSound /\ TaskSound(tasks[t]) /\ tasks[t] \in TaskRecords
  BY DEF IInv, TasksSound, TypeOK
<1>2. PICK u \in Users : u = tasks[t].user
  BY <1>1 DEF Rotate, TaskSound
<1>3. tasks[t].creator \in Creators /\ tasks[t].via \notin HookKinds
  BY <1>1 DEF Rotate, TaskSound, HookSteps
<1>4. PICK n \in Nat : n = Len(secrets) + 1
  BY <1>1 DEF TypeOK
<1>5. secrets' = Append(secrets, u)
  BY <1>2 DEF Rotate
<1>6. /\ Grows /\ secrets' \in Seq(Users) /\ Len(secrets') = Len(secrets) + 1
      /\ Len(secrets) \in Nat /\ Own(u, n)'
  <2>1. secrets' # secrets
    BY <1>1, <1>5 DEF TypeOK
  <2>. QED  BY <1>1, <1>4, <1>5, <2>1, SecretsGrow
<1>7. UNCHANGED <<serial, blocked, setup, cards, given, matched, credited>>
  BY DEF Rotate, screens
<1>8. CASE Registered(u)
  <2>. DEFINE old == dommes[u]
              row == [id |-> old.id, creator |-> tasks[t].creator,
                      secret |-> n, tracking |-> FALSE]
  <2>1. old \in Rows /\ old.id <= serial /\ Own(u, old.secret)
    BY <1>1, <1>8 DEF TypeOK, Registered, IInv, RowsOwn
  <2>2. row \in Rows /\ dommes' = [dommes EXCEPT ![u] = row]
    BY <1>1, <1>2, <1>3, <1>4, <1>8, <2>1 DEF Rotate, Rotated, TypeOK, Rows
  <2>3. retired' = retired \cup {<<old.id, old.secret>>}
    BY <1>2, <1>8 DEF Rotate
  <2>4. PICK task : /\ task = [tasks[t] EXCEPT !.creator = tasks[t].creator, !.secret = n,
                                     !.at = IF tasks[t].via = "card" THEN "show" ELSE "tell",
                                     !.card = "webhook"]
                    /\ Goes(t, task)
    BY <1>2, <1>4, <1>8 DEF Rotate, Returns
  <2>5. /\ task \in TaskRecords /\ task.at \in {"show", "tell"} /\ task.secret = n
        /\ task.user = u /\ task.creator = tasks[t].creator /\ task.via = tasks[t].via
    BY <1>1, <1>2, <2>4 DEF TaskRecords, Places, Kinds
  <2>6. /\ TaskSound(tasks[t])' => TasksSound'
        /\ tasks' \in [Tasks -> TaskRecords] /\ tasks'[t] = task /\ started' \in Nat
    BY <1>6, <1>7, <2>4, <2>5, TaskGoes
  <2>7. TaskSound(tasks[t])'
    BY <1>3, <1>6, <2>5, <2>6 DEF TaskSound, HookSteps, Own
  <2>8. /\ row.id = old.id /\ row.secret = n /\ row.tracking = FALSE
        /\ old.id \in Nat /\ old.secret \in 1..Len(secrets) /\ secrets[old.secret] = u
    BY <2>1 DEF Rows, Own
  <2>. HIDE DEF row, old
  <2>9. /\ dommes' \in [Users -> Rows \cup {Nobody}] /\ dommes'[u] = row
        /\ \A v \in Users \ {u} : dommes'[v] = dommes[v]
    BY <1>1, <2>2 DEF TypeOK
  <2>10. TypeOK'
    BY <1>1, <1>6, <1>7, <2>3, <2>6, <2>8, <2>9 DEF TypeOK
  <2>11. RowsOwn'
    <3>1. \A v \in Users \ {u} : Registered(v) => dommes[v].secret \in Nat
      BY <1>1 DEF TypeOK, Rows, Registered
    <3>. QED
      BY <1>6, <1>7, <2>1, <2>8, <2>9, <3>1 DEF IInv, RowsOwn, Registered, Grows
  <2>12. RetiredOld'
    BY <1>1, <1>6, <1>7, <2>1, <2>3, <2>8 DEF IInv, RetiredOld, TypeOK
  <2>13. GivenOwn'
    BY <1>1, <1>6, <1>7 DEF IInv, GivenOwn, Grows, TypeOK
  <2>14. DeliveriesReachTheirOwner'
    BY <1>7, <2>8, <2>9 DEF IInv, DeliveriesReachTheirOwner, Registered
  <2>15. RotatedStaysDead'
    <3>1. <<row.id, row.secret>> \notin retired'
      BY <1>4, <1>6, <2>3, <2>8 DEF IInv, RetiredOld
    <3>2. ASSUME NEW v \in Users \ {u}, Registered(v)
          PROVE  <<dommes[v].id, dommes[v].secret>> \notin retired'
      <4>1. dommes[v].secret # old.secret
        BY <2>8, <3>2 DEF IInv, RowsOwn, Own
      <4>. QED  BY <2>3, <3>2, <4>1 DEF IInv, RotatedStaysDead
    <3>. QED  BY <2>9, <3>1, <3>2 DEF RotatedStaysDead, Registered
  <2>. QED  BY <2>6, <2>7, <2>10, <2>11, <2>12, <2>13, <2>14, <2>15 DEF IInv
<1>9. CASE ~Registered(u)
  <2>1. UNCHANGED <<dommes, retired>>
    BY <1>2, <1>9 DEF Rotate
  <2>2. PICK task \in {Idle, [tasks[t] EXCEPT !.at = "rebuild"]} : Goes(t, task)
    BY <1>2, <1>9 DEF Rotate, Moves, Ends
  <2>3. /\ task \in TaskRecords
        /\ task = Idle \/ (task.at = "rebuild" /\ task.user = u /\ task.via \notin HookKinds)
    BY <1>1, <1>2, <1>3, <2>2, IdleTyped DEF TaskRecords, Places
  <2>4. /\ TaskSound(tasks[t])' => TasksSound'
        /\ tasks' \in [Tasks -> TaskRecords] /\ tasks'[t] = task /\ started' \in Nat
    BY <1>6, <1>7, <2>2, <2>3, TaskGoes
  <2>5. TaskSound(tasks[t])'
    BY <2>3, <2>4 DEF TaskSound, HookSteps, HookKinds, Idle, New
  <2>6. TypeOK'
    BY <1>1, <1>6, <1>7, <2>1, <2>4 DEF TypeOK
  <2>. QED  BY <1>6, <1>7, <2>1, <2>4, <2>5, <2>6, TableStands DEF IInv
<1>. QED  BY <1>8, <1>9

\* A row is deleted, and what it held is retired.
LEMMA RowGone ==
  ASSUME IInv, NEW u \in Users, Deleted(u),
         UNCHANGED <<serial, secrets, setup, given, matched, credited>>
  PROVE  /\ dommes' \in [Users -> Rows \cup {Nobody}]
         /\ retired' \subseteq Nat \X Nat
         /\ RowsOwn' /\ RetiredOld' /\ GivenOwn'
         /\ DeliveriesReachTheirOwner' /\ RotatedStaysDead'
<1>1. TypeOK
  BY DEF IInv
<1>2. /\ dommes' \in [Users -> Rows \cup {Nobody}] /\ dommes'[u] = Nobody
      /\ \A v \in Users \ {u} : dommes'[v] = dommes[v]
  BY <1>1 DEF TypeOK, Deleted
<1>3. \A r \in retired' : \/ r \in retired
                          \/ Registered(u) /\ r = <<dommes[u].id, dommes[u].secret>>
  BY DEF Deleted, Registered
<1>4. Registered(u) => /\ dommes[u].id \in Nat /\ dommes[u].id <= serial
                       /\ dommes[u].secret \in 1..Len(secrets)
                       /\ secrets[dommes[u].secret] = u
  BY <1>1 DEF TypeOK, Rows, Registered, IInv, RowsOwn, Own
<1>5. Len(secrets) \in Nat
  BY <1>1 DEF TypeOK
<1>6. retired' \subseteq Nat \X Nat
  BY <1>1, <1>3, <1>4, <1>5 DEF TypeOK
<1>7. RowsOwn' /\ GivenOwn'
  BY <1>2 DEF IInv, RowsOwn, GivenOwn, Registered, Own
<1>8. RetiredOld'
  BY <1>3, <1>4, <1>5 DEF IInv, RetiredOld
<1>9. DeliveriesReachTheirOwner'
  BY <1>2 DEF IInv, DeliveriesReachTheirOwner, Registered
<1>10. RotatedStaysDead'
  <2>1. ASSUME NEW v \in Users \ {u}, Registered(v)
        PROVE  <<dommes[v].id, dommes[v].secret>> \notin retired'
    <3>1. Registered(u) => dommes[v].secret # dommes[u].secret
      BY <1>4, <2>1 DEF IInv, RowsOwn, Own
    <3>. QED  BY <1>3, <2>1, <3>1 DEF IInv, RotatedStaysDead
  <2>. QED  BY <1>2, <2>1 DEF RotatedStaysDead, Registered
<1>. QED  BY <1>2, <1>6, <1>7, <1>8, <1>9, <1>10

LEMMA RemovalsKeep ==
  ASSUME IInv, NEW u \in Users,
         RemoveDomme(u) \/ (\E t \in Tasks : ThroneBlacklist(t, u))
  PROVE  IInv'
<1>1. TypeOK /\ TasksSound
  BY DEF IInv
<1>2. CASE RemoveDomme(u)
  <2>1. /\ Deleted(u)
        /\ UNCHANGED <<serial, secrets, blocked, setup, cards, given, matched, credited,
                       tasks, started>>
    BY <1>2 DEF RemoveDomme, screens
  <2>2. TasksSound'
    BY <2>1 DEF IInv, TasksSound, TaskSound, AcceptedOf, LinkOf, Own
  <2>3. TypeOK'
    BY <1>1, <2>1, RowGone DEF TypeOK
  <2>. QED  BY <2>1, <2>2, <2>3, RowGone DEF IInv
<1>3. ASSUME NEW t \in Tasks, ThroneBlacklist(t, u) PROVE IInv'
  <2>1. /\ Deleted(u) /\ Begin(t, New(u, "staff", "block"))
        /\ UNCHANGED <<serial, secrets, blocked, setup, cards, given, matched, credited>>
    BY <1>3 DEF ThroneBlacklist, screens
  <2>2. LET task == New(u, "staff", "block") IN task \in TaskRecords /\ TaskSound(task)
    BY NewSound DEF PlainSteps
  <2>3. Grows
    BY <2>1 DEF Grows, Own
  <2>4. /\ TaskSound(tasks[t])' => TasksSound'
        /\ tasks' \in [Tasks -> TaskRecords] /\ tasks'[t] = New(u, "staff", "block")
        /\ started' \in Nat
    BY <2>1, <2>2, <2>3, TaskGoes
  <2>5. TaskSound(tasks[t])'
    BY <2>1, <2>2, <2>4 DEF TaskSound, Own
  <2>6. TypeOK'
    BY <1>1, <2>1, <2>4, RowGone DEF TypeOK
  <2>. QED  BY <2>1, <2>4, <2>5, <2>6, RowGone DEF IInv
<1>. QED  BY <1>2, <1>3

-----------------------------------------------------------------------------
(***************************************************************************)
(* Steps without a task, and deliveries.                                   *)
(***************************************************************************)
LEMMA AsidesKeep ==
  ASSUME IInv, NEW u \in Users, OpenForm(u) \/ SetBlocked(u)
  PROVE  IInv'
<1>1. TypeOK
  BY DEF IInv
<1>2. UNCHANGED <<dommes, serial, secrets, setup, tasks, history>>
  BY DEF OpenForm, SetBlocked, tables, screens
<1>3. /\ blocked' \subseteq Users /\ started' \in Nat
      /\ cards' \in [Users -> [stored : Kinds, others : SUBSET Kinds]]
  <2>1. /\ cards \in [Users -> [stored : Kinds, others : SUBSET Kinds]] /\ "form" \in Kinds
        /\ blocked \subseteq Users /\ started \in Nat
    BY <1>1 DEF TypeOK, Kinds
  <2>2. CASE OpenForm(u)
    BY <2>1, <2>2 DEF OpenForm, tables
  <2>3. CASE SetBlocked(u)
    BY <2>1, <2>3 DEF SetBlocked, screens
  <2>. QED  BY <2>2, <2>3
<1>4. TypeOK'
  BY <1>1, <1>2, <1>3 DEF TypeOK, history
<1>5. TasksSound'
  BY <1>2 DEF IInv, TasksSound, TaskSound, Own, history
<1>6. RowsOwn' /\ RetiredOld' /\ GivenOwn' /\ DeliveriesReachTheirOwner' /\ RotatedStaysDead'
  BY <1>2, RestStands DEF history
<1>. QED  BY <1>4, <1>5, <1>6 DEF IInv

\* A link that opens a member's row was given to that member: the secret is the
\* member's own, and nobody else was ever given one of those.
LEMMA DeliverKeeps ==
  ASSUME IInv, NEW t \in Tasks, NEW u \in Users, NEW link \in Links, NEW kind \in DOMAIN First,
         Deliver(t, u, link, kind)
  PROVE  IInv'
<1>1. TypeOK
  BY DEF IInv
<1>2. /\ link.creator \in Creators /\ link.secret \in Nat
      /\ link = LinkOf(link.creator, link.secret)
  BY DEF Links, LinkOf
<1>3. /\ Registered(u) /\ dommes[u].secret = link.secret /\ dommes[u].id \in Nat
  BY <1>1 DEF Deliver, Matches, Registered, TypeOK, Rows
<1>4. link \in given[u]
  <2>1. PICK v \in Users : link \in given[v]
    BY DEF Deliver
  <2>2. Own(v, link.secret) /\ Own(u, link.secret)
    BY <1>3, <2>1 DEF IInv, GivenOwn, RowsOwn
  <2>. QED  BY <2>1, <2>2 DEF Own
<1>. DEFINE hit == [user |-> u, id |-> dommes[u].id, link |-> link]
            task == [at |-> First[kind], user |-> u, creator |-> link.creator,
                     secret |-> link.secret, id |-> dommes[u].id, via |-> kind, card |-> "none"]
<1>5. /\ matched' = matched \cup {hit} /\ hit \in Accepted
      /\ UNCHANGED <<dommes, serial, secrets, blocked, setup, cards, given, retired, credited>>
  BY <1>2, <1>3 DEF Deliver, tables, screens, Accepted, Links
<1>6. kind \in HookKinds /\ First[kind] \in {"mark", "record", "touch"}
  BY DEF First, HookKinds
<1>7. task \in TaskRecords /\ task.at \in HookSteps \ {"idle"} /\ AcceptedOf(task) = hit
  BY <1>2, <1>3, <1>6
     DEF TaskRecords, Places, Kinds, HookSteps, HookKinds, AcceptedOf
<1>8. Begin(t, task)
  BY DEF Deliver
<1>9. Grows /\ matched \subseteq matched'
  BY <1>5 DEF Grows, Own
<1>10. /\ TaskSound(tasks[t])' => TasksSound'
       /\ tasks' \in [Tasks -> TaskRecords] /\ tasks'[t] = task /\ started' \in Nat
  BY <1>7, <1>8, <1>9, TaskGoes
<1>11. TaskSound(tasks[t])'
  BY <1>5, <1>6, <1>7, <1>10 DEF TaskSound, HookSteps, HookKinds, AcceptedOf
<1>12. TypeOK'
  BY <1>1, <1>5, <1>10 DEF TypeOK
<1>13. RowsOwn' /\ RetiredOld' /\ GivenOwn' /\ RotatedStaysDead'
  BY <1>5 DEF IInv, RowsOwn, RetiredOld, GivenOwn, RotatedStaysDead, Registered, Own
<1>14. DeliveriesReachTheirOwner'
  BY <1>4, <1>5 DEF IInv, DeliveriesReachTheirOwner, Registered
<1>. QED  BY <1>10, <1>11, <1>12, <1>13, <1>14 DEF IInv

LEMMA ActivatesKeep ==
  ASSUME IInv, NEW t \in Tasks, Mark(t) \/ Touch(t)
  PROVE  IInv'
<1>1. TypeOK /\ TasksSound /\ TaskSound(tasks[t]) /\ tasks[t] \in TaskRecords
  BY DEF IInv, TasksSound, TypeOK
<1>2. PICK u \in Users : u = tasks[t].user
  BY <1>1 DEF Mark, Touch, TaskSound
<1>3. /\ tasks[t].via \in HookKinds /\ AcceptedOf(tasks[t]) \in matched
      /\ AcceptedOf(tasks[t]).user = u /\ AcceptedOf(tasks[t]).id = tasks[t].id
  BY <1>1, <1>2 DEF Mark, Touch, TaskSound, HookSteps, AcceptedOf
<1>4. UNCHANGED <<serial, secrets, blocked, setup, cards, given, retired, matched, credited>>
  BY DEF Mark, Touch, screens, history
<1>5. Activates(t)
  BY DEF Mark, Touch
<1>6. /\ dommes' \in [Users -> Rows \cup {Nobody}]
      /\ \A v \in Users \ {u} : dommes'[v] = dommes[v]
      /\ \/ dommes'[u] = dommes[u]
         \/ /\ Registered(u) /\ dommes[u].id = tasks[t].id
            /\ dommes'[u].id = dommes[u].id /\ dommes'[u].secret = dommes[u].secret
  <2>1. CASE dommes[u] # Nobody /\ dommes[u].id = tasks[t].id
    <3>. DEFINE row == [dommes[u] EXCEPT !.tracking = TRUE]
    <3>1. /\ row \in Rows /\ row.id = dommes[u].id /\ row.secret = dommes[u].secret
      BY <1>1, <2>1 DEF TypeOK, Rows
    <3>2. dommes' = [dommes EXCEPT ![u] = row]
      BY <1>1, <1>2, <1>5, <2>1 DEF Activates, TypeOK
    <3>. HIDE DEF row
    <3>. QED  BY <1>1, <2>1, <3>1, <3>2 DEF TypeOK, Registered
  <2>2. CASE ~(dommes[u] # Nobody /\ dommes[u].id = tasks[t].id)
    <3>1. dommes' = dommes
      BY <1>1, <1>2, <1>5, <2>2 DEF Activates, TypeOK
    <3>. QED  BY <1>1, <3>1 DEF TypeOK
  <2>. QED  BY <2>1, <2>2
<1>7. PICK task \in {Idle, [tasks[t] EXCEPT !.at = "ask"]} : Goes(t, task)
  BY DEF Mark, Touch, Moves, Ends
<1>8. task \in TaskRecords /\ TaskSound(task)
  BY <1>1, <1>2, <1>3, <1>7, IdleTyped
     DEF TaskRecords, TaskSound, Places, HookSteps, HookKinds, AcceptedOf, LinkOf
<1>9. Grows
  BY <1>4 DEF Grows, Own
<1>10. /\ TaskSound(tasks[t])' => TasksSound'
       /\ tasks' \in [Tasks -> TaskRecords] /\ tasks'[t] = task /\ started' \in Nat
  BY <1>4, <1>7, <1>8, <1>9, TaskGoes
<1>11. TaskSound(tasks[t])'
  BY <1>4, <1>8, <1>10 DEF TaskSound, Own
<1>12. TypeOK'
  BY <1>1, <1>4, <1>6, <1>10 DEF TypeOK
<1>13. RowsOwn' /\ RetiredOld' /\ GivenOwn' /\ RotatedStaysDead'
  BY <1>4, <1>6 DEF IInv, RowsOwn, RetiredOld, GivenOwn, RotatedStaysDead, Registered, Own
<1>14. DeliveriesReachTheirOwner'
  BY <1>3, <1>4, <1>6 DEF IInv, DeliveriesReachTheirOwner, Registered
<1>. QED  BY <1>10, <1>11, <1>12, <1>13, <1>14 DEF IInv

LEMMA RecordKeeps ==
  ASSUME IInv, NEW t \in Tasks, Record(t)
  PROVE  IInv'
<1>1. TypeOK /\ TasksSound /\ TaskSound(tasks[t]) /\ tasks[t] \in TaskRecords
  BY DEF IInv, TasksSound, TypeOK
<1>2. /\ tasks[t].user \in Users /\ tasks[t].via \in HookKinds
      /\ AcceptedOf(tasks[t]) \in matched
  BY <1>1 DEF Record, TaskSound, HookSteps
<1>3. /\ credited' \in {credited, credited \cup {AcceptedOf(tasks[t])}}
      /\ UNCHANGED <<dommes, serial, secrets, blocked, setup, cards, given, retired, matched>>
  BY DEF Record, AcceptedOf, tables, screens
<1>4. PICK task \in {Idle, [tasks[t] EXCEPT !.at = "touch"]} : Goes(t, task)
  BY DEF Record, Moves, Ends
<1>5. task \in TaskRecords /\ TaskSound(task)
  BY <1>1, <1>2, <1>4, IdleTyped
     DEF TaskRecords, TaskSound, Places, HookSteps, HookKinds, AcceptedOf, LinkOf
<1>6. Grows
  BY <1>3 DEF Grows, Own
<1>7. /\ TaskSound(tasks[t])' => TasksSound'
      /\ tasks' \in [Tasks -> TaskRecords] /\ tasks'[t] = task /\ started' \in Nat
  BY <1>3, <1>4, <1>5, <1>6, TaskGoes
<1>8. TaskSound(tasks[t])'
  BY <1>3, <1>5, <1>7 DEF TaskSound, Own
<1>9. TypeOK'
  BY <1>1, <1>2, <1>3, <1>7 DEF TypeOK
<1>10. RowsOwn' /\ RetiredOld' /\ GivenOwn' /\ RotatedStaysDead'
  BY <1>3 DEF IInv, RowsOwn, RetiredOld, GivenOwn, RotatedStaysDead, Registered, Own
<1>11. DeliveriesReachTheirOwner'
  BY <1>2, <1>3 DEF IInv, DeliveriesReachTheirOwner, Registered
<1>. QED  BY <1>7, <1>8, <1>9, <1>10, <1>11 DEF IInv

\* The preferences are asked for by a task that holds an accepted delivery.
LEMMA AdvanceKeeps ==
  ASSUME IInv, NEW t \in Tasks, Advance(t)
  PROVE  IInv'
<1>1. TypeOK /\ TasksSound /\ TaskSound(tasks[t]) /\ tasks[t] \in TaskRecords
  BY DEF IInv, TasksSound, TypeOK
<1>2. PICK u \in Users : u = tasks[t].user
  BY <1>1 DEF Advance, TaskSound
<1>3. /\ tasks[t].via \in HookKinds /\ AcceptedOf(tasks[t]) \in matched
      /\ AcceptedOf(tasks[t]).user = u
  BY <1>1, <1>2 DEF Advance, TaskSound, HookSteps, AcceptedOf
<1>4. UNCHANGED <<dommes, serial, secrets, blocked, cards, given, retired, matched, credited>>
  BY DEF Advance, tables, history
<1>5. /\ setup' \in [Users -> [stage : Stages, pending : Creators \cup {Nothing}]]
      /\ \A v \in Users : setup'[v].stage = setup[v].stage \/ v = u
  BY <1>1, <1>2, StageTyped DEF Advance, Stages
<1>6. PICK task : /\ task = [tasks[t] EXCEPT !.at = "show", !.card = "preferences"]
                  /\ Goes(t, task)
  BY DEF Advance
<1>7. task \in TaskRecords /\ TaskSound(task)
  BY <1>1, <1>2, <1>3, <1>6
     DEF TaskRecords, TaskSound, Places, Kinds, HookSteps, HookKinds, AcceptedOf, LinkOf
<1>8. Grows
  BY <1>4 DEF Grows, Own
<1>9. /\ TaskSound(tasks[t])' => TasksSound'
      /\ tasks' \in [Tasks -> TaskRecords] /\ tasks'[t] = task /\ started' \in Nat
  BY <1>4, <1>6, <1>7, <1>8, TaskGoes
<1>10. TaskSound(tasks[t])'
  BY <1>4, <1>7, <1>9 DEF TaskSound, Own
<1>11. TypeOK'
  BY <1>1, <1>4, <1>5, <1>9 DEF TypeOK
<1>12. RowsOwn' /\ RetiredOld' /\ GivenOwn' /\ RotatedStaysDead'
  BY <1>4 DEF IInv, RowsOwn, RetiredOld, GivenOwn, RotatedStaysDead, Registered, Own
<1>13. DeliveriesReachTheirOwner'
  BY <1>3, <1>4, <1>5 DEF IInv, DeliveriesReachTheirOwner, Registered
<1>. QED  BY <1>9, <1>10, <1>11, <1>12, <1>13 DEF IInv

-----------------------------------------------------------------------------
LEMMA NextKeeps == IInv /\ [Next]_vars => IInv'
<1>1. SUFFICES ASSUME IInv, [Next]_vars PROVE IInv'
  OBVIOUS
<1>2. ASSUME NEW t \in Tasks, Steps(t) PROVE IInv'
  BY <1>1, <1>2, QuietSteps, HandOut, ReadKeeps, UpsertKeeps, RotateKeeps, ActivatesKeep,
     RecordKeeps, AdvanceKeeps DEF Steps
<1>3. ASSUME NEW t \in Tasks, NEW u \in Users, Presses(t, u) \/ Commands(t, u) PROVE IInv'
  BY <1>1, <1>3, PressesKeep, CommandsKeep, RemovalsKeep DEF Commands
<1>4. ASSUME NEW t \in Tasks, NEW u \in Users, NEW link \in Links, NEW kind \in DOMAIN First,
             Deliver(t, u, link, kind)
      PROVE  IInv'
  BY <1>1, <1>4, DeliverKeeps
<1>5. ASSUME NEW u \in Users, OpenForm(u) \/ RemoveDomme(u) \/ SetBlocked(u) PROVE IInv'
  BY <1>1, <1>5, AsidesKeep, RemovalsKeep
<1>6. CASE UNCHANGED vars
  <2>1. UNCHANGED <<dommes, serial, secrets, blocked, setup, cards, tasks, started,
                    given, retired, matched, credited>>
    BY <1>6 DEF vars, tables, screens, history
  <2>2. TypeOK' /\ TasksSound'
    BY <1>1, <2>1 DEF IInv, TypeOK, TasksSound, TaskSound, Own
  <2>. QED  BY <1>1, <2>1, <2>2, RestStands DEF IInv
<1>. QED  BY <1>1, <1>2, <1>3, <1>4, <1>5, <1>6 DEF Next

\* The inductive invariant: what tasks hold between two awaits, what the rows,
\* the links given out and the retired secrets are made of, and the properties
\* below hold in every state (register_domme, reissue, the webhook process).
THEOREM InductiveInvariant == Spec => []IInv
<1>1. Init => IInv
  BY InitHolds
<1>2. IInv /\ [Next]_vars => IInv'
  BY NextKeeps
<1>. QED  BY <1>1, <1>2, PTL DEF Spec

\* Every variable keeps its type, for any number of members and tasks.
THEOREM TypeCorrect == Spec => []TypeOK
<1>1. IInv => TypeOK
  BY DEF IInv
<1>. QED  BY <1>1, InductiveInvariant, PTL

\* Whatever tasks overlap, a delivery works for the member whose link it called:
\* sends, active tracking and the question for preferences all go back to a
\* delivery that matched that member's own row and link.
THEOREM DeliveriesOwned == Spec => []DeliveriesReachTheirOwner
<1>1. IInv => DeliveriesReachTheirOwner
  BY DEF IInv
<1>. QED  BY <1>1, InductiveInvariant, PTL

\* A secret that a rotation or a removal took from a row never opens that row
\* again, whatever a registration in flight had read.
THEOREM RotationsStand == Spec => []RotatedStaysDead
<1>1. IInv => RotatedStaysDead
  BY DEF IInv
<1>. QED  BY <1>1, InductiveInvariant, PTL

=============================================================================
