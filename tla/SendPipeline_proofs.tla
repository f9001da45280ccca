----------------------- MODULE SendPipeline_proofs -----------------------
(***************************************************************************)
(* Safety of the send pipeline for every set of events, handlers and       *)
(* commands, every batch limit and every bound.                            *)
(***************************************************************************)
EXTENDS SendPipeline, TLAPS

(***************************************************************************)
(* The table operators.                                                    *)
(***************************************************************************)
LEMMA ReleasedType ==
    ASSUME NEW st \in [SendIds -> Statuses \cup {Absent}]
    PROVE  /\ Released(st) \in [SendIds -> Statuses \cup {Absent}]
           /\ \A i \in SendIds :
                /\ Released(st)[i] = Absent <=> st[i] = Absent
                /\ Released(st)[i] \in WaitingStatuses <=> st[i] \in WaitingStatuses
                /\ Released(st)[i] = "posted" <=> st[i] = "posted"
  BY DEF Released, Statuses, WaitingStatuses, Absent

\* A fetched batch holds sends in the status asked for and nothing else.
LEMMA FetchedInStatus ==
    ASSUME NEW st \in [SendIds -> Statuses \cup {Absent}], NEW s
    PROVE  /\ FetchForStatus(st, s, BatchLimit) \subseteq SendIds
           /\ \A i \in FetchForStatus(st, s, BatchLimit) : st[i] = s
  BY DEF FetchForStatus, InStatus

LEMMA StatusAfterMark ==
    ASSUME NEW st \in [SendIds -> Statuses \cup {Absent}],
           NEW i \in SendIds, NEW s \in Statuses
    PROVE  /\ Marked(st, i, s) \in [SendIds -> Statuses \cup {Absent}]
           /\ Marked(st, i, s)[i] \in {s, Absent}
           /\ \A j \in SendIds : Marked(st, i, s)[j] = Absent <=> st[j] = Absent
           /\ \A j \in SendIds \ {i} : Marked(st, i, s)[j] = st[j]
  BY DEF Marked, Statuses, Absent

(***************************************************************************)
(* Type correctness.                                                       *)
(***************************************************************************)
LEMMA TypeInit == Init => TypeOK
<1> SUFFICES ASSUME Init PROVE TypeOK
  OBVIOUS
<1> USE DEF Init
<1>1. phase \in Phases /\ faults \in 0..MaxFaults /\ lastId \in 0..MaxSends
  BY BoundsAssumption, PhasesAssumption
<1>2. qpc \in QueueStates /\ qpc \notin InHand
  BY DEF QueueStates, InHand
<1>3. /\ rpc \in [Recorders -> {"idle", "offline", "maintenance", "insert", "notify"}]
      /\ rstatus \in [Recorders -> Statuses]
      /\ rsend \in [Recorders -> SendIds \cup {NoSend}]
      /\ \A r \in Recorders : rpc[r] # "notify"
  BY DEF Statuses
<1>4. notes \in Seq(SendIds)
  OBVIOUS
<1>5. QED
  BY <1>1, <1>2, <1>3, <1>4 DEF TypeOK, NoSend

LEMMA TypeNext == TypeOK /\ [Next]_vars => TypeOK'
<1> SUFFICES ASSUME TypeOK, [Next]_vars PROVE TypeOK'
  OBVIOUS
<1> USE BoundsAssumption DEF TypeOK
<1>1. ASSUME NEW h \in Hooks, NEW e \in Events, HookReceive(h, e) PROVE TypeOK'
  BY <1>1 DEF HookReceive, table, settings, discord, queue, history, edits, Goto, Statuses, Recorders
<1>2. ASSUME NEW c \in Commands, CommandReceive(c) PROVE TypeOK'
  BY <1>2 DEF CommandReceive, table, settings, discord, queue, history, edits, Goto, Statuses, Recorders
<1>3. ASSUME NEW c \in Commands, CommandNotify(c) PROVE TypeOK'
  BY <1>3 DEF CommandNotify, table, settings, discord, queue, history, edits, Goto, Finish, Statuses, Recorders
<1>4. ASSUME NEW r \in Recorders, ReadOffline(r) PROVE TypeOK'
  BY <1>4 DEF ReadOffline, table, settings, discord, queue, history, edits, Goto, Statuses, Recorders
<1>5. ASSUME NEW r \in Recorders, ReadMaintenance(r) PROVE TypeOK'
  BY <1>5 DEF ReadMaintenance, table, settings, discord, queue, history, edits, Goto, Statuses, Recorders, HeldStatus
<1>6. ASSUME NEW r \in Recorders, InsertSend(r) PROVE TypeOK'
  <2>1. CASE Duplicate(revent[r])
    BY <1>6, <2>1 DEF InsertSend, Goto, table, settings, discord, queue, history, edits, Recorders
  <2>2. CASE ~Duplicate(revent[r])
    <3>1. lastId + 1 \in SendIds /\ lastId' = lastId + 1 /\ lastId' \in 0..MaxSends
      BY <1>6, <2>2 DEF InsertSend, SendIds
    <3>2. status' \in [SendIds -> Statuses \cup {Absent}]
      <4>1. status' = Added(status, lastId + 1, rstatus[r]) /\ rstatus[r] \in Statuses
        BY <1>6, <2>2 DEF InsertSend
      <4>2. QED
        BY <3>1, <4>1 DEF Added
    <3>3. eventOf' \in [SendIds -> Events \cup {NoEvent}] /\ keyed' \subseteq SendIds
      <4>1. /\ eventOf' = [eventOf EXCEPT ![lastId + 1] = revent[r]]
            /\ keyed' = IF revent[r] = NoEvent THEN keyed ELSE keyed \cup {lastId + 1}
        BY ONLY <1>6, <2>2 DEF InsertSend
      <4>2. /\ eventOf \in [SendIds -> Events \cup {NoEvent}]
            /\ keyed \subseteq SendIds /\ revent[r] \in Events \cup {NoEvent}
        OBVIOUS
      <4>3. QED
        BY ONLY <3>1, <4>1, <4>2
    <3>4. /\ rsend' \in [Recorders -> SendIds \cup {NoSend}]
          /\ rpc' \in [Recorders -> {"idle", "offline", "maintenance", "insert", "notify"}]
          /\ \A q \in Recorders : rpc'[q] = "notify" => rsend'[q] \in SendIds
      BY <1>6, <2>2, <3>1 DEF InsertSend, Goto
    <3>5. QED
      BY <1>6, <2>2, <3>1, <3>2, <3>3, <3>4
      DEF InsertSend, settings, discord, queue, history, edits
  <2>3. QED
    BY <2>1, <2>2
<1>7. ASSUME NEW h \in Hooks, HookNotify(h) PROVE TypeOK'
  <2>1. rsend[h] \in SendIds /\ notes' \in Seq(SendIds)
    <3>1. rsend[h] \in SendIds
      BY <1>7 DEF HookNotify, Recorders
    <3>2. Append(notes, rsend[h]) \in Seq(SendIds)
      BY <3>1
    <3>3. QED
      BY <1>7, <3>1, <3>2 DEF HookNotify
  <2>2. /\ rpc' \in [Recorders -> {"idle", "offline", "maintenance", "insert", "notify"}]
        /\ revent' \in [Recorders -> Events \cup {NoEvent}]
        /\ rsend' \in [Recorders -> SendIds \cup {NoSend}]
        /\ \A q \in Recorders : rpc'[q] = "notify" => rsend'[q] \in SendIds
    BY <1>7 DEF HookNotify, Finish, Goto, Recorders
  <2>3. QED
    BY <1>7, <2>1, <2>2 DEF HookNotify, table, settings, discord, queue, history, edits
<1>8. CASE HookCrash
  BY <1>8 DEF HookCrash, table, settings, discord, queue, history, edits, Goto, Statuses, Recorders
<1>9. CASE BotStart
  BY <1>9 DEF BotStart, QueueRest, table, discord, recorder, settings, history, edits, Step, QueueStates, InHand
<1>10. CASE TakeNotification
  BY <1>10 DEF TakeNotification, QueueRest, table, discord, recorder, settings, history, edits, Step, QueueStates, InHand
<1>11. CASE PollTimeout
  BY <1>11 DEF PollTimeout, QueueRest, table, discord, recorder, settings, history, edits, Step, QueueStates, InHand
<1>12. CASE CycleCheck
  BY <1>12 DEF CycleCheck, QueueRest, table, discord, recorder, settings, history, edits, Step, QueueStates, InHand
<1>13. CASE CycleRelease
  BY <1>13, ReleasedType DEF CycleRelease, QueueRest, table, discord, recorder, settings, history, edits, Step, QueueStates, InHand
<1>14. CASE CycleFetch
  BY <1>14, FetchedInStatus DEF CycleFetch, QueueRest, table, discord, recorder, settings, history, edits, Step, QueueStates, InHand
<1>15. CASE CycleGate
  BY <1>15 DEF CycleGate, QueueRest, table, discord, recorder, settings, history, edits, Step, QueueStates, InHand
<1>16. CASE NextInBatch
  BY <1>16 DEF NextInBatch, QueueRest, table, discord, recorder, settings, history, edits, Step, QueueStates, InHand
<1>17. CASE Lookup
  BY <1>17 DEF Lookup, QueueRest, table, discord, recorder, settings, history, edits, Step, QueueStates, InHand
<1>18. CASE HeldCheck
  BY <1>18 DEF HeldCheck, QueueRest, table, discord, recorder, settings, history, edits, Step, QueueStates, InHand
<1>19. CASE HeldRelease
  BY <1>19, ReleasedType DEF HeldRelease, QueueRest, table, discord, recorder, settings, history, edits, Step, QueueStates, InHand
<1>20. CASE LookupAgain
  BY <1>20 DEF LookupAgain, QueueRest, table, discord, recorder, settings, history, edits, Step, QueueStates, InHand
<1>21. CASE PostCheckPhase
  BY <1>21 DEF PostCheckPhase, QueueRest, table, discord, recorder, settings, history, edits, Step, QueueStates, InHand
<1>22. CASE PostCheckOffline
  BY <1>22 DEF PostCheckOffline, QueueRest, table, discord, recorder, settings, history, edits, Step, QueueStates, InHand
<1>23. CASE PostCheckMaintenance
  BY <1>23 DEF PostCheckMaintenance, QueueRest, table, discord, recorder, settings, history, edits, Step, QueueStates, InHand
<1>24. CASE Deliver
  BY <1>24 DEF Deliver, QueueRest, table, discord, recorder, settings, history, edits, Step, SendMessage, QueueStates, InHand
<1>25. CASE DeliverFails
  BY <1>25 DEF DeliverFails, QueueRest, table, discord, recorder, settings, history, edits, Step, QueueStates, InHand
<1>26. CASE MarkPosted
  BY <1>26 DEF MarkPosted, QueueRest, table, discord, recorder, settings, history, edits, Step, MarkCur, Marked, QueueStates, InHand, Statuses
<1>27. CASE MarkSilently
  BY <1>27 DEF MarkSilently, QueueRest, table, discord, recorder, settings, history, edits, Step, MarkCur, Marked, QueueStates, InHand, Statuses
<1>28. CASE Hold
  BY <1>28 DEF Hold, QueueRest, table, discord, recorder, settings, history, edits, Step, MarkCur, Marked, QueueStates, InHand, Statuses, HeldStatus
<1>29. CASE MarkFailed
  BY <1>29 DEF MarkFailed, QueueRest, table, discord, recorder, settings, history, edits, Step, MarkCur, Marked, QueueStates, InHand, Statuses
<1>30. CASE BotCrash
  BY <1>30 DEF BotCrash, table, settings, discord, edits, recorder, Interrupt, QueueStates, InHand, NoSend, Recorders
<1>31. CASE QueueRaises
  BY <1>31 DEF QueueRaises, table, settings, discord, edits, recorder, Interrupt, QueueStates, InHand, NoSend, Recorders
<1>32. CASE MaintenanceOn
  BY <1>32 DEF MaintenanceOn, OperatorRest, table, settings, discord, recorder, queue, history, edits
<1>33. CASE MaintenanceOff
  BY <1>33 DEF MaintenanceOff, OperatorRest, table, settings, discord, recorder, queue, history, edits
<1>34. CASE SetOffline
  BY <1>34 DEF SetOffline, OperatorRest, table, settings, discord, recorder, queue, history, edits
<1>35. CASE SetPhase
  BY <1>35 DEF SetPhase, OperatorRest, table, settings, discord, recorder, queue, history, edits
<1>36. CASE FlushCheck
  BY <1>36 DEF FlushCheck, OperatorRest, table, settings, discord, recorder, queue, history, edits
<1>37. CASE FlushRelease
  BY <1>37, ReleasedType DEF FlushRelease, OperatorRest, table, settings, discord, recorder, queue, history, edits
<1>38. ASSUME NEW i \in SendIds, RemoveSend(i) PROVE TypeOK'
  BY <1>38 DEF RemoveSend, OperatorRest, table, settings, discord, recorder, queue, history, edits, Marked, Statuses
<1>39. ASSUME NEW i \in SendIds, ForceMarkPosted(i) PROVE TypeOK'
  BY <1>39 DEF ForceMarkPosted, OperatorRest, table, settings, discord, recorder, queue, history, edits, Marked, Statuses
<1>40. ASSUME NEW S \in SUBSET SendIds, ForgetUser(S) PROVE TypeOK'
  BY <1>40 DEF ForgetUser, table, settings, discord, recorder, queue, history, edits, Deleted
<1>41. CASE Anonymise
  BY <1>41 DEF Anonymise, table, settings, discord, recorder, queue, history, edits
<1>42. CASE UNCHANGED vars
  BY <1>42 DEF vars, table, settings, discord, recorder, queue, history, edits
<1>43. QED
  BY <1>1, <1>2, <1>3, <1>4, <1>5, <1>6, <1>7, <1>8, <1>9, <1>10, <1>11, <1>12, <1>13, <1>14, <1>15, <1>16, <1>17, <1>18, <1>19, <1>20, <1>21, <1>22, <1>23, <1>24, <1>25, <1>26, <1>27, <1>28, <1>29, <1>30, <1>31, <1>32, <1>33, <1>34, <1>35, <1>36, <1>37, <1>38, <1>39, <1>40, <1>41,
     <1>42 DEF Next, Recording, QueueStep, Operator

THEOREM TypeCorrect == Spec => []TypeOK
<1>1. Init => TypeOK
  BY TypeInit
<1>2. TypeOK /\ [Next]_vars => TypeOK'
  BY TypeNext
<1>3. QED
  BY <1>1, <1>2, PTL DEF Spec

(***************************************************************************)
(* What each group of steps leaves alone.                                  *)
(***************************************************************************)
\* Recording touches the table only to insert the next row.
LEMMA RecordingFrame ==
    ASSUME TypeOK, Recording
    PROVE  /\ UNCHANGED <<settings, discord, queue, flushing, history, edits>>
           /\ \/ UNCHANGED <<status, eventOf, keyed, lastId>>
              \/ \E r \in Recorders : InsertSend(r) /\ ~Duplicate(revent[r])
<1> USE DEF table
<1>1. ASSUME NEW h \in Hooks, NEW e \in Events, HookReceive(h, e)
      PROVE  UNCHANGED <<table, settings, discord, queue, flushing, history, edits>>
  BY <1>1 DEF HookReceive
<1>2. ASSUME NEW c \in Commands, CommandReceive(c) \/ CommandNotify(c)
      PROVE  UNCHANGED <<table, settings, discord, queue, flushing, history, edits>>
  BY <1>2 DEF CommandReceive, CommandNotify
<1>3. ASSUME NEW r \in Recorders, ReadOffline(r) \/ ReadMaintenance(r)
      PROVE  UNCHANGED <<table, settings, discord, queue, flushing, history, edits>>
  BY <1>3 DEF ReadOffline, ReadMaintenance
<1>4. ASSUME NEW r \in Recorders, InsertSend(r)
      PROVE  /\ UNCHANGED <<settings, discord, queue, flushing, history, edits>>
             /\ UNCHANGED table \/ ~Duplicate(revent[r])
  BY <1>4 DEF InsertSend
<1>5. ASSUME NEW h \in Hooks, HookNotify(h)
      PROVE  UNCHANGED <<table, settings, discord, queue, flushing, history, edits>>
  BY <1>5 DEF HookNotify
<1>6. CASE HookCrash
  BY <1>6 DEF HookCrash
<1>7. QED
  BY <1>1, <1>2, <1>3, <1>4, <1>5, <1>6 DEF Recording

\* The operator never inserts, and only a release makes a send wait for the
\* bot that did not already wait.
LEMMA OperatorFrame ==
    ASSUME TypeOK, Operator
    PROVE  /\ UNCHANGED <<recorder, queue, notes, history, announced>>
           /\ UNCHANGED <<eventOf, lastId>> /\ keyed' \subseteq keyed
           /\ \A i \in SendIds : Inserted(i)' => Inserted(i)
           /\ \A i \in SendIds : Waiting(i)' => Waiting(i)
<1> USE DEF OperatorRest, table, discord
<1>1. CASE MaintenanceOn \/ MaintenanceOff \/ SetOffline \/ SetPhase \/ FlushCheck
  BY <1>1 DEF MaintenanceOn, MaintenanceOff, SetOffline, SetPhase, FlushCheck,
              Inserted, Waiting
<1>2. CASE FlushRelease
  BY <1>2, ReleasedType DEF FlushRelease, TypeOK, Inserted, Waiting
<1>3. ASSUME NEW i \in SendIds, RemoveSend(i)
      PROVE  /\ UNCHANGED <<recorder, queue, notes, history, announced, eventOf, keyed, lastId>>
             /\ status' = Marked(status, i, "ignored") /\ Inserted(i)
  BY <1>3 DEF RemoveSend, CanBeIgnored, Inserted, Absent, Statuses
<1>4. ASSUME NEW i \in SendIds, ForceMarkPosted(i)
      PROVE  /\ UNCHANGED <<recorder, queue, notes, history, announced, eventOf, keyed, lastId>>
             /\ status' = Marked(status, i, "posted") /\ Inserted(i)
  BY <1>4 DEF ForceMarkPosted
<1>5. ASSUME NEW i \in SendIds, Inserted(i), NEW s \in {"ignored", "posted"},
             status' = Marked(status, i, s)
      PROVE  /\ \A j \in SendIds : Inserted(j)' => Inserted(j)
             /\ \A j \in SendIds : Waiting(j)' => Waiting(j)
  BY <1>5 DEF Marked, TypeOK, Inserted, Waiting, Statuses, Absent, WaitingStatuses
<1>6. ASSUME NEW S \in SUBSET SendIds, ForgetUser(S)
      PROVE  /\ UNCHANGED <<recorder, queue, notes, history, announced, eventOf, lastId>>
             /\ keyed' \subseteq keyed
             /\ \A j \in SendIds : Inserted(j)' => Inserted(j)
             /\ \A j \in SendIds : Waiting(j)' => Waiting(j)
  BY <1>6 DEF ForgetUser, Deleted, TypeOK, Inserted, Waiting, WaitingStatuses, Absent
<1>7. CASE Anonymise
  BY <1>7 DEF Anonymise, Inserted, Waiting
<1>8. QED
  BY <1>1, <1>2, <1>3, <1>4, <1>5, <1>6, <1>7 DEF Operator

LEMMA QueueFrame ==
    ASSUME QueueStep \/ BotStart
    PROVE  /\ UNCHANGED <<recorder, settings, flushing, history, edits>>
           /\ UNCHANGED <<eventOf, keyed, lastId>>
  BY DEF QueueStep, QueueRest, table, BotStart, TakeNotification, PollTimeout,
     CycleCheck, CycleRelease, CycleFetch, CycleGate, NextInBatch, Lookup,
     HeldCheck, HeldRelease, LookupAgain, PostCheckPhase, PostCheckOffline,
     PostCheckMaintenance, Deliver, DeliverFails, MarkPosted, MarkSilently,
     Hold, MarkFailed

\* Every row update of the queue task is of the send in hand or a release.
LEMMA QueueWrites ==
    ASSUME TypeOK, QueueStep \/ BotStart
    PROVE  \/ UNCHANGED status
           \/ status' = Released(status)
           \/ /\ qpc \in {"mark", "silent", "hold", "fail"}
              /\ cur \in SendIds
              /\ \E s \in Statuses \ {"ignored", "pending"} :
                   /\ status' = Marked(status, cur, s)
                   /\ qpc # "hold" => s \notin WaitingStatuses
<1>1. CASE MarkPosted \/ MarkSilently \/ Hold \/ MarkFailed
  BY <1>1 DEF MarkPosted, MarkSilently, Hold, MarkFailed, MarkCur, HeldStatus,
     Step, Statuses, WaitingStatuses, TypeOK, InHand, QueueStates
<1>2. CASE CycleRelease \/ HeldRelease
  BY <1>2 DEF CycleRelease, HeldRelease
<1>3. CASE ~(MarkPosted \/ MarkSilently \/ Hold \/ MarkFailed \/ CycleRelease \/ HeldRelease)
  BY <1>3 DEF QueueStep, QueueRest, table, BotStart, TakeNotification, PollTimeout,
     CycleCheck, CycleFetch, CycleGate, NextInBatch, Lookup,
     HeldCheck, LookupAgain, PostCheckPhase, PostCheckOffline,
     PostCheckMaintenance, Deliver, DeliverFails
<1>4. QED
  BY <1>1, <1>2, <1>3

(***************************************************************************)
(* Serial ids: nothing refers to a row that was not inserted.              *)
(***************************************************************************)
LEMMA StatusSerial ==
    ASSUME TypeOK, RowsSerial, ReferencesSerial, QueueStep \/ BotStart
    PROVE  \A i \in SendIds : Inserted(i)' => i <= lastId
<1> SUFFICES ASSUME NEW i \in SendIds, Inserted(i)' PROVE i <= lastId
  OBVIOUS
<1>1. CASE Inserted(i)
  BY <1>1 DEF RowsSerial, TypeOK, SendIds
<1>2. CASE ~Inserted(i)
  <2> DEFINE Column == Statuses \cup {Absent}
  <2>t. status \in [SendIds -> Column]
    BY DEF TypeOK
  <2>0. status'[i] # Absent /\ status[i] = Absent
    BY <1>2 DEF Inserted
  <2>1. status' # status /\ status' # Released(status)
    BY <2>0, <2>t, ReleasedType
  <2>2. PICK s \in Statuses : cur \in SendIds /\ status' = Marked(status, cur, s)
    BY <2>1, QueueWrites
  <2>3. i = cur
    BY <2>0, <2>t, <2>2, StatusAfterMark
  <2>4. QED
    BY <2>3 DEF ReferencesSerial
<1>3. QED
  BY <1>1, <1>2

LEMMA InsertedNext ==
    ASSUME TypeOK, RowsSerial, NEW r \in Recorders, InsertSend(r), ~Duplicate(revent[r])
    PROVE  /\ lastId' = lastId + 1 /\ lastId' \in SendIds
           /\ status' = Added(status, lastId', rstatus[r])
           /\ eventOf' = [eventOf EXCEPT ![lastId'] = revent[r]]
           /\ keyed' = IF revent[r] = NoEvent THEN keyed ELSE keyed \cup {lastId'}
           /\ rsend' = [rsend EXCEPT ![r] = lastId']
           /\ ~Inserted(lastId')
           /\ UNCHANGED <<announced, interrupted, qpc, batch, cur, notes>>
<1>1. lastId' = lastId + 1 /\ lastId' \in SendIds
  BY BoundsAssumption DEF InsertSend, TypeOK, SendIds
<1>2. QED
  BY <1>1 DEF InsertSend, RowsSerial, TypeOK, discord, history, queue

LEMMA RowsSerialNext ==
    ASSUME TypeOK, RowsSerial, ReferencesSerial, [Next]_vars
    PROVE  RowsSerial'
<1>1. CASE Recording
  <2>1. CASE UNCHANGED <<status, eventOf, keyed, lastId>>
    BY <2>1, <1>1, RecordingFrame DEF RowsSerial, Inserted, discord
  <2>2. ASSUME NEW r \in Recorders, InsertSend(r), ~Duplicate(revent[r])
        PROVE  RowsSerial'
    <3> SUFFICES ASSUME NEW i \in SendIds, i > lastId'
                 PROVE  ~Inserted(i)' /\ i \notin keyed' /\ announced'[i] = 0
      BY DEF RowsSerial
    <3>1. i > lastId /\ i # lastId'
      BY <2>2, InsertedNext DEF TypeOK, SendIds
    <3>2. QED
      BY <3>1, <2>2, InsertedNext DEF RowsSerial, Inserted, Added, TypeOK
  <2>3. QED
    BY <1>1, <2>1, <2>2, RecordingFrame
<1>2. CASE QueueStep \/ BotStart
  <2> SUFFICES ASSUME NEW i \in SendIds, i > lastId
               PROVE  ~Inserted(i)' /\ i \notin keyed' /\ announced'[i] = 0
    BY <1>2, QueueFrame DEF RowsSerial
  <2>1. ~Inserted(i)' /\ i \notin keyed'
    <3>1. ~(i <= lastId)
      BY DEF TypeOK, SendIds
    <3>2. QED
      BY <1>2, <3>1, StatusSerial, QueueFrame DEF RowsSerial
  <2>2. announced'[i] = announced[i]
    <3>1. i # cur
      BY DEF ReferencesSerial, TypeOK, SendIds
    <3>2. CASE Deliver
      BY <3>1, <3>2 DEF Deliver, SendMessage, TypeOK
    <3>3. CASE ~Deliver
      BY <1>2, <3>3 DEF QueueStep, QueueRest, discord, BotStart, TakeNotification,
         PollTimeout, CycleCheck, CycleRelease, CycleFetch, CycleGate, NextInBatch,
         Lookup, HeldCheck, HeldRelease, LookupAgain, PostCheckPhase,
         PostCheckOffline, PostCheckMaintenance, DeliverFails, MarkPosted,
         MarkSilently, Hold, MarkFailed
    <3>4. QED
      BY <3>2, <3>3
  <2>3. QED
    BY <2>1, <2>2 DEF RowsSerial
<1>3. CASE BotCrash \/ QueueRaises
  BY <1>3 DEF BotCrash, QueueRaises, Interrupt, table, discord, RowsSerial, Inserted
<1>4. CASE Operator
  BY <1>4, OperatorFrame DEF RowsSerial
<1>5. CASE UNCHANGED vars
  BY <1>5 DEF RowsSerial, Inserted, vars, table, discord
<1>6. QED
  BY <1>1, <1>2, <1>3, <1>4, <1>5 DEF Next

LEMMA ReferencesSerialNext ==
    ASSUME TypeOK, RowsSerial, ReferencesSerial, NotesSerial, [Next]_vars
    PROVE  ReferencesSerial'
<1>1. CASE Recording
  <2>1. /\ UNCHANGED <<batch, cur>>
        /\ lastId' \in Nat /\ lastId <= lastId'
    BY <1>1, RecordingFrame, InsertedNext DEF queue, TypeOK
  <2>2. \A r \in Recorders : rsend'[r] <= lastId'
    <3>1. ASSUME NEW h \in Hooks, NEW e \in Events, HookReceive(h, e)
          PROVE  UNCHANGED <<rsend, lastId>>
      BY <3>1 DEF HookReceive, table
    <3>2. ASSUME NEW c \in Commands, CommandReceive(c)
          PROVE  UNCHANGED <<rsend, lastId>>
      BY <3>2 DEF CommandReceive, table
    <3>3. ASSUME NEW r \in Recorders, ReadOffline(r) \/ ReadMaintenance(r)
          PROVE  UNCHANGED <<rsend, lastId>>
      BY <3>3 DEF ReadOffline, ReadMaintenance, table
    <3>4. ASSUME NEW r \in Recorders, InsertSend(r)
          PROVE  \A q \in Recorders : rsend'[q] <= lastId'
      <4>1. CASE Duplicate(revent[r])
        BY <3>4, <4>1 DEF InsertSend, table, ReferencesSerial
      <4>2. CASE ~Duplicate(revent[r])
        <5>1. lastId \in Nat /\ lastId' = lastId + 1 /\ rsend' = [rsend EXCEPT ![r] = lastId']
          BY <3>4, <4>2, InsertedNext DEF TypeOK
        <5>2. \A q \in Recorders : rsend[q] \in Nat /\ rsend[q] <= lastId
          BY DEF ReferencesSerial, TypeOK, SendIds, NoSend
        <5>3. rsend \in [Recorders -> SendIds \cup {NoSend}]
          BY DEF TypeOK
        <5>4. \A q \in Recorders : rsend'[q] \in {rsend[q], lastId'}
          BY <5>1, <5>3
        <5>5. QED
          BY <5>1, <5>2, <5>4
      <4>3. QED
        BY <4>1, <4>2
    <3>5. ASSUME NEW r \in Recorders, Finish(r), UNCHANGED table
          PROVE  \A q \in Recorders : rsend'[q] <= lastId'
      BY <3>5 DEF Finish, table, ReferencesSerial, TypeOK, NoSend
    <3>6. CASE HookCrash
      BY <3>6 DEF HookCrash, table, ReferencesSerial, TypeOK, NoSend
    <3>7. QED
      BY <1>1, <3>1, <3>2, <3>3, <3>4, <3>5, <3>6
      DEF Recording, HookNotify, CommandNotify, ReferencesSerial, Recorders
  <2>3. QED
    BY <2>1, <2>2 DEF ReferencesSerial, TypeOK, SendIds, NoSend
<1>2. CASE QueueStep \/ BotStart
  <2>1. CASE TakeNotification
    BY <2>1 DEF TakeNotification, QueueRest, recorder, table, NotesSerial,
       ReferencesSerial, TypeOK
  <2>2. CASE CycleFetch
    <3>1. \A i \in batch' : Inserted(i) /\ i \in SendIds
      BY <2>2, FetchedInStatus DEF CycleFetch, TypeOK, Inserted, Absent
    <3>2. QED
      BY <2>2, <3>1 DEF CycleFetch, QueueRest, recorder, table, RowsSerial,
         ReferencesSerial, TypeOK, SendIds
  <2>3. CASE CycleGate \/ NextInBatch
    BY <2>3 DEF CycleGate, NextInBatch, QueueRest, recorder, table,
       ReferencesSerial, TypeOK, NoSend
  <2>4. CASE ~(TakeNotification \/ CycleFetch \/ CycleGate \/ NextInBatch)
    BY <1>2, <2>4 DEF QueueStep, QueueRest, recorder, table, BotStart,
         PollTimeout, CycleCheck, CycleRelease, Lookup, HeldCheck, HeldRelease,
         LookupAgain, PostCheckPhase, PostCheckOffline, PostCheckMaintenance,
         Deliver, DeliverFails, MarkPosted, MarkSilently, Hold, MarkFailed,
         ReferencesSerial
  <2>5. QED
    BY <2>1, <2>2, <2>3, <2>4
<1>3. CASE BotCrash \/ QueueRaises
  <2>1. UNCHANGED lastId /\ batch' = {} /\ cur' = 0 /\ lastId \in Nat
    BY <1>3 DEF BotCrash, QueueRaises, Interrupt, table, TypeOK, NoSend
  <2>2. \A r \in Recorders : rsend'[r] \in {rsend[r], 0}
    BY <1>3 DEF BotCrash, QueueRaises, recorder, NoSend
  <2>3. QED
    BY <2>1, <2>2 DEF ReferencesSerial
<1>4. CASE Operator
  BY <1>4, OperatorFrame DEF ReferencesSerial, queue, recorder
<1>5. CASE UNCHANGED vars
  BY <1>5 DEF ReferencesSerial, vars, table, queue, recorder
<1>6. QED
  BY <1>1, <1>2, <1>3, <1>4, <1>5 DEF Next

LEMMA LastIdGrows ==
    ASSUME TypeOK, RowsSerial, [Next]_vars
    PROVE  lastId \in Nat /\ lastId' \in Nat /\ lastId <= lastId'
<1>0. lastId \in Nat
  BY DEF TypeOK
<1>1. CASE Recording
  BY <1>0, <1>1, RecordingFrame, InsertedNext
<1>2. CASE ~Recording
  <2>1. UNCHANGED lastId
    BY <1>2, QueueFrame, OperatorFrame
    DEF Next, BotCrash, QueueRaises, Interrupt, vars, table
  <2>2. QED
    BY <1>0, <2>1
<1>3. QED
  BY <1>1, <1>2

LEMMA NotesSerialNext ==
    ASSUME TypeOK, RowsSerial, ReferencesSerial, NotesSerial, [Next]_vars
    PROVE  NotesSerial'
<1> USE DEF NotesSerial
<1>0. notes \in Seq(SendIds) /\ lastId \in Nat /\ lastId' \in Nat /\ lastId <= lastId'
  BY LastIdGrows DEF TypeOK
<1>1. ASSUME NEW r \in Recorders, rpc[r] = "notify", UNCHANGED lastId,
             notes' = notes \/ notes' = Append(notes, rsend[r])
      PROVE  NotesSerial'
  <2>1. rsend[r] \in SendIds /\ rsend[r] <= lastId
    BY <1>1 DEF ReferencesSerial, TypeOK
  <2>2. CASE notes' = Append(notes, rsend[r])
    <3> SUFFICES ASSUME NEW k \in 1..Len(notes) + 1
                 PROVE  Append(notes, rsend[r])[k] <= lastId
      BY <1>0, <1>1, <2>1, <2>2
    <3>1. CASE k = Len(notes) + 1
      BY <1>0, <2>1, <3>1
    <3>2. CASE k \in 1..Len(notes)
      BY <1>0, <2>1, <3>2
    <3>3. QED
      BY <1>0, <3>1, <3>2
  <2>3. QED
    BY <1>1, <2>2
<1>2. CASE UNCHANGED notes
  <2>1. \A k \in 1..Len(notes) : notes[k] \in Nat
    <3>1. SendIds \subseteq Nat
      BY DEF SendIds
    <3>2. \A k \in 1..Len(notes) : notes[k] \in SendIds
      BY <1>0
    <3>3. QED
      BY <3>1, <3>2
  <2>2. \A k \in 1..Len(notes) : notes[k] <= lastId /\ notes'[k] = notes[k]
    BY <1>2
  <2>3. QED
    BY <1>0, <1>2, <2>1, <2>2
<1>3. CASE Recording /\ ~(UNCHANGED notes)
  <2>1. ASSUME NEW h \in Hooks, HookNotify(h)
        PROVE  NotesSerial'
    BY <1>1, <2>1 DEF HookNotify, table, Recorders
  <2>2. ASSUME NEW c \in Commands, CommandNotify(c)
        PROVE  NotesSerial'
    <3>1. rpc[c] = "notify" /\ UNCHANGED lastId /\ c \in Recorders
      BY <2>2 DEF CommandNotify, table, Recorders
    <3>2. notes' = notes \/ notes' = Append(notes, rsend[c])
      BY <2>2 DEF CommandNotify
    <3>3. QED
      BY <1>1, <3>1, <3>2
  <2>3. QED
    BY <1>3, <2>1, <2>2 DEF Recording, HookReceive, CommandReceive, ReadOffline,
       ReadMaintenance, InsertSend, HookCrash
<1>4. CASE TakeNotification
  <2>1. notes # <<>> /\ notes' = Tail(notes) /\ UNCHANGED lastId
    BY <1>4 DEF TakeNotification, table
  <2>2. \A k \in 1..Len(Tail(notes)) :
          k + 1 \in 1..Len(notes) /\ Tail(notes)[k] = notes[k + 1]
    BY <1>0, <2>1
  <2>3. QED
    BY <2>1, <2>2
<1>5. CASE BotCrash
  BY <1>5 DEF BotCrash
<1>6. QED
  BY <1>2, <1>3, <1>4, <1>5, OperatorFrame
  DEF Next, BotStart, QueueStep, QueueRaises, PollTimeout, CycleCheck,
      CycleRelease, CycleFetch, CycleGate, NextInBatch, Lookup, HeldCheck,
      HeldRelease, LookupAgain, PostCheckPhase, PostCheckOffline,
      PostCheckMaintenance, Deliver, DeliverFails, MarkPosted, MarkSilently,
      Hold, MarkFailed, vars

(***************************************************************************)
(* The unique index: a Throne event has one row.                           *)
(***************************************************************************)
LEMMA OneRowNext ==
    ASSUME TypeOK, RowsSerial, OneRowPerEvent, [Next]_vars
    PROVE  OneRowPerEvent'
<1>t. eventOf \in [SendIds -> Events \cup {NoEvent}] /\ keyed \subseteq SendIds
  BY DEF TypeOK
<1>1. CASE UNCHANGED eventOf /\ keyed' \subseteq keyed
  BY <1>1 DEF OneRowPerEvent
<1>2. ASSUME NEW r \in Recorders, InsertSend(r), ~Duplicate(revent[r])
      PROVE  OneRowPerEvent'
  <2>1. \A i \in keyed : eventOf[i] # revent[r]
    BY <1>2 DEF Duplicate
  <2>2. /\ lastId' \in SendIds /\ lastId' \notin keyed
        /\ eventOf' = [eventOf EXCEPT ![lastId'] = revent[r]]
        /\ keyed' = IF revent[r] = NoEvent THEN keyed ELSE keyed \cup {lastId'}
    <3>1. lastId' > lastId
      BY <1>2, InsertedNext DEF TypeOK
    <3>2. QED
      BY <1>2, <3>1, InsertedNext DEF RowsSerial
  <2>3. \A i \in keyed : eventOf'[i] = eventOf[i]
    BY <1>t, <2>2
  <2>4. eventOf'[lastId'] = revent[r]
    BY <1>t, <2>2
  <2>5. QED
    BY <2>1, <2>2, <2>3, <2>4 DEF OneRowPerEvent
<1>3. QED
  BY <1>1, <1>2, RecordingFrame, QueueFrame, OperatorFrame
  DEF Next, BotCrash, QueueRaises, Interrupt, vars, table

(***************************************************************************)
(* A batch is worked off by one sweep, one send at a time.                 *)
(***************************************************************************)
LEMMA BatchDisciplineNext ==
    ASSUME TypeOK, BatchDiscipline, [Next]_vars
    PROVE  BatchDiscipline'
<1> USE DEF BatchDiscipline, InHand, QueueStates
<1>1. CASE UNCHANGED queue
  BY <1>1 DEF queue
<1>2. CASE QueueStep \/ BotStart
  BY <1>2 DEF QueueStep, BotStart, TakeNotification, PollTimeout, CycleCheck,
     CycleRelease, CycleFetch, CycleGate, NextInBatch, Lookup, HeldCheck,
     HeldRelease, LookupAgain, PostCheckPhase, PostCheckOffline,
     PostCheckMaintenance, Deliver, DeliverFails, MarkPosted, MarkSilently,
     Hold, MarkFailed, Step
<1>3. CASE BotCrash \/ QueueRaises
  BY <1>3 DEF BotCrash, QueueRaises, Interrupt
<1>4. QED
  BY <1>1, <1>2, <1>3, RecordingFrame, OperatorFrame DEF Next, vars

(***************************************************************************)
(* What may still be announced has not been announced.                     *)
(***************************************************************************)
LEMMA CountsNat ==
    ASSUME TypeOK, NEW i \in SendIds
    PROVE  announced[i] \in Nat /\ interrupted[i] \in Nat
  BY DEF TypeOK

\* Steps that neither announce nor interrupt nor move the queue task keep the
\* bookkeeping as long as they open no send that was dealt with.
LEMMA OwedFrame ==
    ASSUME NothingOwedTwice, UNCHANGED <<announced, interrupted, queue>>,
           \A i \in SendIds : Waiting(i)' => Waiting(i) \/ Owed(i)
    PROVE  NothingOwedTwice'
  BY DEF NothingOwedTwice, Owed, queue

LEMMA RecordingOpens ==
    ASSUME TypeOK, RowsSerial, Recording
    PROVE  \A i \in SendIds : Waiting(i)' => Waiting(i) \/ Owed(i)
<1>1. ASSUME NEW r \in Recorders, InsertSend(r), ~Duplicate(revent[r]),
             NEW i \in SendIds, Waiting(i)'
      PROVE  Waiting(i) \/ Owed(i)
  <2>1. CASE i = lastId'
    <3>1. announced[i] = 0 /\ interrupted[i] \in Nat
      BY <1>1, <2>1, InsertedNext, CountsNat DEF RowsSerial, TypeOK
    <3>2. QED
      BY <3>1 DEF Owed
  <2>2. CASE i # lastId'
    <3>1. status \in [SendIds -> Statuses \cup {Absent}]
      BY DEF TypeOK
    <3>2. status'[i] = status[i]
      BY <1>1, <2>2, <3>1, InsertedNext DEF Added
    <3>3. QED
      BY <1>1, <3>2 DEF Waiting
  <2>3. QED
    BY <2>1, <2>2
<1>2. QED
  BY <1>1, RecordingFrame DEF Waiting

\* The queue task opens no send that was dealt with, but for the one it holds.
LEMMA QueueOpens ==
    ASSUME TypeOK, QueueStep \/ BotStart
    PROVE  \A i \in SendIds : Waiting(i)' => Waiting(i) \/ (qpc = "hold" /\ i = cur)
<1> SUFFICES ASSUME NEW i \in SendIds, Waiting(i)'
             PROVE  Waiting(i) \/ (qpc = "hold" /\ i = cur)
  OBVIOUS
<1>t. status \in [SendIds -> Statuses \cup {Absent}]
  BY DEF TypeOK
<1>1. CASE UNCHANGED status
  BY <1>1 DEF Waiting
<1>2. CASE status' = Released(status)
  BY <1>2, <1>t, ReleasedType DEF Waiting
<1>3. ASSUME cur \in SendIds, NEW s \in Statuses, status' = Marked(status, cur, s),
             qpc # "hold" => s \notin WaitingStatuses
      PROVE  Waiting(i) \/ (qpc = "hold" /\ i = cur)
  <2>1. CASE i = cur
    <3>1. status'[i] \in {s, Absent}
      BY <1>t, <1>3, <2>1 DEF Marked
    <3>2. QED
      BY <1>3, <2>1, <3>1 DEF Waiting, WaitingStatuses, Absent
  <2>2. CASE i # cur
    <3>1. status'[i] = status[i]
      BY <1>t, <1>3, <2>2 DEF Marked
    <3>2. QED
      BY <3>1 DEF Waiting
  <2>3. QED
    BY <2>1, <2>2
<1>4. QED
  BY <1>1, <1>2, <1>3, QueueWrites

LEMMA NothingOwedTwiceNext ==
    ASSUME TypeOK, RowsSerial, BatchDiscipline, NothingOwedTwice, [Next]_vars
    PROVE  NothingOwedTwice'
<1>1. CASE Recording
  BY <1>1, RecordingFrame, RecordingOpens, OwedFrame DEF discord, history
<1>2. CASE Operator
  <2>1. \A i \in SendIds : Waiting(i)' => Waiting(i)
    BY <1>2, OperatorFrame
  <2>2. QED
    BY <1>2, <2>1, OperatorFrame, OwedFrame DEF history
<1>3. CASE UNCHANGED vars
  BY <1>3, OwedFrame DEF vars, discord, history, table, Waiting
<1>4. CASE BotCrash \/ QueueRaises
  <2>1. /\ UNCHANGED <<status, announced>>
        /\ batch' = {} /\ qpc' \in {"down", "idle"}
        /\ interrupted' = IF qpc = "mark"
                            THEN [interrupted EXCEPT ![cur] = @ + 1]
                            ELSE interrupted
    BY <1>4 DEF BotCrash, QueueRaises, Interrupt, table, discord
  <2>2. interrupted \in [SendIds -> Nat] /\ announced \in [SendIds -> Nat]
        /\ (qpc = "mark" => cur \in SendIds)
    BY DEF TypeOK, InHand, QueueStates
  <2>3. \A i \in SendIds :
          /\ interrupted'[i] <= announced[i]
          /\ announced[i] <= interrupted'[i] + 1
          /\ Waiting(i) => announced[i] <= interrupted'[i]
    <3> SUFFICES ASSUME NEW i \in SendIds
                 PROVE  /\ interrupted'[i] <= announced[i]
                        /\ announced[i] <= interrupted'[i] + 1
                        /\ Waiting(i) => announced[i] <= interrupted'[i]
      OBVIOUS
    <3>1. CASE qpc = "mark" /\ i = cur
      <4>1. interrupted'[i] = interrupted[i] + 1 /\ announced[i] = interrupted[i] + 1
        BY <2>1, <2>2, <3>1 DEF NothingOwedTwice
      <4>2. QED
        BY <2>2, <4>1
    <3>2. CASE ~(qpc = "mark" /\ i = cur)
      <4>1. interrupted'[i] = interrupted[i]
        BY <2>1, <2>2, <3>2
      <4>2. QED
        BY <3>2, <4>1 DEF NothingOwedTwice, Owed
    <3>3. QED
      BY <3>1, <3>2
  <2>4. QED
    BY <2>1, <2>3 DEF NothingOwedTwice, Owed, Waiting
<1>5. CASE Deliver
  <2>1. /\ qpc = "deliver" /\ qpc' = "mark" /\ cur \in SendIds
        /\ UNCHANGED <<status, interrupted, batch, cur>>
        /\ announced' = [announced EXCEPT ![cur] = @ + 1]
        /\ cur \notin batch
    BY <1>5 DEF Deliver, SendMessage, Step, QueueRest, table, history, TypeOK,
       InHand, QueueStates, BatchDiscipline
  <2>2. interrupted \in [SendIds -> Nat] /\ announced \in [SendIds -> Nat]
        /\ batch \subseteq SendIds
    BY DEF TypeOK
  <2>3. announced[cur] = interrupted[cur] /\ announced'[cur] = interrupted[cur] + 1
    BY <2>1, <2>2 DEF NothingOwedTwice, Owed
  <2>4. \A i \in SendIds \ {cur} : announced'[i] = announced[i]
    BY <2>1, <2>2
  <2>5. \A i \in SendIds : interrupted[i] <= announced'[i] /\ announced'[i] <= interrupted[i] + 1
    <3> SUFFICES ASSUME NEW i \in SendIds
                 PROVE  interrupted[i] <= announced'[i] /\ announced'[i] <= interrupted[i] + 1
      OBVIOUS
    <3>1. CASE i = cur
      BY <2>2, <2>3, <3>1
    <3>2. CASE i # cur
      BY <2>4, <3>2 DEF NothingOwedTwice
    <3>3. QED
      BY <3>1, <3>2
  <2>6. \A i \in SendIds : Waiting(i) => announced'[i] <= interrupted[i] \/ i = cur
    BY <2>1, <2>4 DEF NothingOwedTwice, Owed
  <2>7. \A i \in batch : announced'[i] <= interrupted[i]
    BY <2>1, <2>2, <2>4 DEF NothingOwedTwice, Owed
  <2>8. QED
    BY <2>1, <2>3, <2>5, <2>6, <2>7 DEF NothingOwedTwice, Owed, Waiting
<1>6. CASE (QueueStep \/ BotStart) /\ ~Deliver
  <2>1. UNCHANGED <<announced, interrupted>>
    BY <1>6 DEF QueueStep, QueueRest, discord, history, BotStart, TakeNotification,
       PollTimeout, CycleCheck, CycleRelease, CycleFetch, CycleGate, NextInBatch,
       Lookup, HeldCheck, HeldRelease, LookupAgain, PostCheckPhase,
       PostCheckOffline, PostCheckMaintenance, DeliverFails, MarkPosted,
       MarkSilently, Hold, MarkFailed
  <2>2. \A i \in SendIds : Waiting(i) /\ qpc # "mark" => Owed(i)
    BY DEF NothingOwedTwice
  <2>3. \A i \in SendIds : Waiting(i)' => Owed(i) \/ (qpc' = "mark" /\ cur' = i)
    <3> SUFFICES ASSUME NEW i \in SendIds, Waiting(i)'
                 PROVE  Owed(i) \/ (qpc' = "mark" /\ cur' = i)
      OBVIOUS
    <3>1. CASE qpc # "mark"
      <4>1. qpc = "hold" /\ i = cur => Owed(i)
        BY DEF NothingOwedTwice
      <4>2. QED
        BY <1>6, <2>2, <3>1, <4>1, QueueOpens
    <3>2. CASE qpc = "mark"
      <4>1. MarkPosted
        BY <1>6, <3>2 DEF QueueStep, BotStart, TakeNotification, PollTimeout,
           CycleCheck, CycleRelease, CycleFetch, CycleGate, NextInBatch, Lookup,
           HeldCheck, HeldRelease, LookupAgain, PostCheckPhase, PostCheckOffline,
           PostCheckMaintenance, DeliverFails, MarkSilently, Hold, MarkFailed, Step
      <4>2. status' = Marked(status, cur, "posted") /\ cur \in SendIds
        BY <4>1, <3>2 DEF MarkPosted, MarkCur, TypeOK, InHand, QueueStates
      <4>3. status \in [SendIds -> Statuses \cup {Absent}]
        BY DEF TypeOK
      <4>4. i # cur
        BY <4>2, <4>3 DEF Marked, Waiting, WaitingStatuses, Absent
      <4>5. Waiting(i)
        BY <4>2, <4>3, <4>4 DEF Marked, Waiting
      <4>6. QED
        BY <4>4, <4>5 DEF NothingOwedTwice
    <3>3. QED
      BY <3>1, <3>2
  <2>4. \A i \in batch' : Owed(i)
    <3>1. CASE CycleFetch
      <4>1. \A i \in batch' : i \in SendIds /\ Waiting(i) /\ qpc # "mark"
        BY <3>1, FetchedInStatus DEF CycleFetch, Step, TypeOK, Waiting, WaitingStatuses
      <4>2. QED
        BY <2>2, <4>1
    <3>2. CASE ~CycleFetch
      <4>1. batch' \subseteq batch
        BY <1>6, <3>2 DEF QueueStep, QueueRest, BotStart, TakeNotification,
           PollTimeout, CycleCheck, CycleRelease, CycleGate, NextInBatch, Lookup,
           HeldCheck, HeldRelease, LookupAgain, PostCheckPhase, PostCheckOffline,
           PostCheckMaintenance, DeliverFails, MarkPosted, MarkSilently, Hold,
           MarkFailed
      <4>2. QED
        BY <4>1 DEF NothingOwedTwice
    <3>3. QED
      BY <3>1, <3>2
  <2>5. qpc' # "mark"
    BY <1>6 DEF QueueStep, BotStart, TakeNotification, PollTimeout, CycleCheck,
       CycleRelease, CycleFetch, CycleGate, NextInBatch, Lookup, HeldCheck,
       HeldRelease, LookupAgain, PostCheckPhase, PostCheckOffline,
       PostCheckMaintenance, DeliverFails, MarkPosted, MarkSilently, Hold,
       MarkFailed, Step
  <2>6. qpc' \in {"phase", "offline", "maint", "deliver", "hold"} => Owed(cur')
    <3>1. CASE NextInBatch
      BY <3>1 DEF NextInBatch, NothingOwedTwice
    <3>2. CASE Lookup \/ LookupAgain
      <4>1. /\ cur' = cur /\ cur \in SendIds /\ qpc # "mark"
            /\ qpc' \in {"phase", "offline", "maint", "deliver", "hold"}
                 => status[cur] = "pending"
        BY <3>2 DEF Lookup, LookupAgain, Step, TypeOK, InHand, QueueStates
      <4>2. QED
        BY <2>2, <4>1 DEF Waiting, WaitingStatuses
    <3>3. CASE PostCheckPhase \/ PostCheckOffline \/ PostCheckMaintenance
      BY <3>3 DEF PostCheckPhase, PostCheckOffline, PostCheckMaintenance, Step,
         NothingOwedTwice
    <3>4. CASE ~(NextInBatch \/ Lookup \/ LookupAgain \/ PostCheckPhase
                 \/ PostCheckOffline \/ PostCheckMaintenance)
      BY <1>6, <3>4 DEF QueueStep, BotStart, TakeNotification, PollTimeout,
         CycleCheck, CycleRelease, CycleFetch, CycleGate, HeldCheck, HeldRelease,
         DeliverFails, MarkPosted, MarkSilently, Hold, MarkFailed, Step
    <3>5. QED
      BY <3>1, <3>2, <3>3, <3>4
  <2>7. QED
    BY <2>1, <2>3, <2>4, <2>5, <2>6 DEF NothingOwedTwice, Owed
<1>7. QED
  BY <1>1, <1>2, <1>3, <1>4, <1>5, <1>6 DEF Next

(***************************************************************************)
(* The inductive invariant, and what follows from it.                      *)
(***************************************************************************)
LEMMA InvariantInit == Init => IInv
<1> SUFFICES ASSUME Init PROVE IInv
  OBVIOUS
<1>1. TypeOK
  BY TypeInit
<1>2. /\ status = [i \in SendIds |-> Absent] /\ eventOf = [i \in SendIds |-> NoEvent]
      /\ announced = [i \in SendIds |-> 0] /\ interrupted = [i \in SendIds |-> 0]
      /\ batch = {} /\ cur = 0 /\ lastId = 0 /\ notes = <<>> /\ qpc = "down"
      /\ rsend = [r \in Recorders |-> 0]
  BY DEF Init, NoSend
<1>3. RowsSerial /\ OneRowPerEvent
  BY <1>2 DEF Init, RowsSerial, OneRowPerEvent, Inserted
<1>4. ReferencesSerial /\ NotesSerial
  BY <1>2 DEF ReferencesSerial, NotesSerial
<1>5. BatchDiscipline
  BY <1>2 DEF BatchDiscipline
<1>6. NothingOwedTwice
  BY <1>2 DEF NothingOwedTwice, Owed
<1>7. QED
  BY <1>1, <1>3, <1>4, <1>5, <1>6 DEF IInv

LEMMA InvariantNext == IInv /\ [Next]_vars => IInv'
<1> SUFFICES ASSUME IInv, [Next]_vars PROVE IInv'
  OBVIOUS
<1>1. TypeOK'
  BY TypeNext DEF IInv
<1>2. RowsSerial' /\ ReferencesSerial' /\ NotesSerial'
  BY RowsSerialNext, ReferencesSerialNext, NotesSerialNext DEF IInv
<1>3. OneRowPerEvent' /\ BatchDiscipline'
  BY OneRowNext, BatchDisciplineNext DEF IInv
<1>4. NothingOwedTwice'
  BY NothingOwedTwiceNext DEF IInv
<1>5. QED
  BY <1>1, <1>2, <1>3, <1>4 DEF IInv

LEMMA Invariant == Spec => []IInv
<1>1. QED
  BY InvariantInit, InvariantNext, PTL DEF Spec

\* AnnouncedOnce for every bound: however handlers, sweeps, notifications,
\* crashes and operators interleave, an event has one announced row, and a
\* row is announced again only after the bot was cut off between the Discord
\* post and mark_posted.
THEOREM AnnouncedOnceCorrect == Spec => []AnnouncedOnce
<1>1. IInv => AnnouncedOnce
  BY DEF IInv, AnnouncedOnce, NothingOwedTwice, OneRowPerEvent
<1>2. QED
  BY <1>1, Invariant, PTL

(***************************************************************************)
(* Maintenance windows.                                                    *)
(***************************************************************************)
LEMMA WindowNext ==
    ASSUME TypeOK, WindowDiscipline, [Next]_vars
    PROVE  WindowDiscipline'
<1> USE DEF WindowDiscipline
<1>1. CASE Recording
  BY <1>1, RecordingFrame DEF settings, discord, queue
<1>2. CASE QueueStep \/ BotStart
  <2>0. UNCHANGED maintenance
    BY <1>2, QueueFrame DEF settings
  <2>1. CASE Deliver
    BY <2>0, <2>1 DEF Deliver, SendMessage, Step
  <2>2. CASE PostCheckMaintenance
    BY <2>0, <2>2 DEF PostCheckMaintenance, PostHeld, Step, discord
  <2>3. CASE ~(Deliver \/ PostCheckMaintenance)
    BY <1>2, <2>0, <2>3 DEF QueueStep, discord, BotStart, TakeNotification, PollTimeout,
       CycleCheck, CycleRelease, CycleFetch, CycleGate, NextInBatch, Lookup,
       HeldCheck, HeldRelease, LookupAgain, PostCheckPhase, PostCheckOffline,
       DeliverFails, MarkPosted, MarkSilently, Hold, MarkFailed, Step
  <2>4. QED
    BY <2>1, <2>2, <2>3
<1>3. CASE BotCrash \/ QueueRaises
  BY <1>3 DEF BotCrash, QueueRaises, Interrupt, settings, discord
<1>4. CASE Operator
  <2>1. UNCHANGED qpc
    BY <1>4, OperatorFrame DEF queue
  <2>2. CASE MaintenanceOn \/ MaintenanceOff
    BY <2>2 DEF MaintenanceOn, MaintenanceOff
  <2>3. CASE ~(MaintenanceOn \/ MaintenanceOff)
    BY <1>4, <2>1, <2>3 DEF Operator, SetOffline, SetPhase, FlushCheck, FlushRelease,
       RemoveSend, ForceMarkPosted, ForgetUser, Anonymise, settings, discord
  <2>4. QED
    BY <2>2, <2>3
<1>5. CASE UNCHANGED vars
  BY <1>5 DEF vars, settings, discord, queue
<1>6. QED
  BY <1>1, <1>2, <1>3, <1>4, <1>5 DEF Next

\* QuietDuringMaintenance for every bound: the only announcement that can slip
\* into a maintenance window is the one whose check came before the window.
THEOREM QuietDuringMaintenanceCorrect == Spec => []QuietDuringMaintenance
<1>1. Init => TypeOK /\ WindowDiscipline
  BY TypeInit DEF Init, WindowDiscipline
<1>2. TypeOK /\ WindowDiscipline /\ [Next]_vars => (TypeOK /\ WindowDiscipline)'
  BY TypeNext, WindowNext
<1>3. WindowDiscipline => QuietDuringMaintenance
  BY DEF WindowDiscipline, QuietDuringMaintenance
<1>4. QED
  BY <1>1, <1>2, <1>3, PTL DEF Spec

(***************************************************************************)
(* Quiet modes.                                                            *)
(***************************************************************************)
\* The evidence for a quiet mode is never withdrawn.
LEMMA EvidenceStays ==
    ASSUME TypeOK, QuietJustified, [Next]_vars
    PROVE  /\ highestPhase >= 1 => highestPhase' >= 1
           /\ offlineSeen => offlineSeen'
           /\ offline' => offlineSeen'
           /\ phase' >= 1 => highestPhase' >= 1
<1>1. CASE UNCHANGED settings
  BY <1>1 DEF settings, QuietJustified
<1>2. CASE MaintenanceOn \/ MaintenanceOff \/ SetOffline
  <2>1. UNCHANGED <<highestPhase, phase>>
    BY <1>2 DEF MaintenanceOn, MaintenanceOff, SetOffline
  <2>2. offlineSeen' = TRUE \/ UNCHANGED <<offline, offlineSeen>>
    BY <1>2 DEF MaintenanceOn, MaintenanceOff, SetOffline
  <2>3. QED
    BY <2>1, <2>2 DEF QuietJustified
<1>3. CASE SetPhase
  BY <1>3, PhasesAssumption DEF SetPhase, QuietJustified, TypeOK
<1>4. CASE Operator
  BY <1>1, <1>2, <1>3, <1>4 DEF Operator, FlushCheck, FlushRelease, RemoveSend,
     ForceMarkPosted, ForgetUser, Anonymise
<1>5. QED
  BY <1>1, <1>4, RecordingFrame, QueueFrame
  DEF Next, BotCrash, QueueRaises, Interrupt, vars

LEMMA QuietReadNext ==
    ASSUME TypeOK, QuietJustified, [Next]_vars, NEW q \in Recorders,
           rpc'[q] = "insert", rstatus'[q] = "posted"
    PROVE  offlineSeen' /\ IsMain(revent'[q])
<1> DEFINE Same(r) == rpc'[r] = rpc[r] /\ revent'[r] = revent[r] /\ rstatus'[r] = rstatus[r]
<1>t. /\ rpc \in [Recorders -> {"idle", "offline", "maintenance", "insert", "notify"}]
      /\ revent \in [Recorders -> Events \cup {NoEvent}]
      /\ rstatus \in [Recorders -> Statuses]
      /\ Hooks \subseteq Recorders /\ Commands \subseteq Recorders
  BY DEF TypeOK, Recorders
<1>0. Same(q) => offlineSeen' /\ IsMain(revent'[q])
  BY EvidenceStays DEF QuietJustified
<1>1. ASSUME NEW h \in Hooks, NEW e \in Events, HookReceive(h, e)
      PROVE  Same(q)
  BY <1>t, <1>1 DEF HookReceive, Goto
<1>2. ASSUME NEW c \in Commands, CommandReceive(c)
      PROVE  Same(q)
  BY <1>t, <1>2 DEF CommandReceive, Goto
<1>3. ASSUME NEW r \in Recorders, ReadOffline(r)
      PROVE  offlineSeen' /\ IsMain(revent'[q])
  <2>1. CASE q = r
    <3>1. TrackingDisabled(revent[r])
      BY <1>t, <1>3, <2>1 DEF ReadOffline, Goto
    <3>2. QED
      BY <1>3, <2>1, <3>1, EvidenceStays
      DEF ReadOffline, TrackingDisabled, QuietJustified, settings
  <2>2. CASE q # r
    BY <1>t, <1>0, <1>3, <2>2 DEF ReadOffline, Goto
  <2>3. QED
    BY <2>1, <2>2
<1>4. ASSUME NEW r \in Recorders, ReadMaintenance(r)
      PROVE  Same(q)
  BY <1>t, <1>4 DEF ReadMaintenance, Goto, HeldStatus
<1>5. ASSUME NEW r \in Recorders, InsertSend(r)
      PROVE  Same(q)
  BY <1>t, <1>5 DEF InsertSend, Goto
<1>6. ASSUME NEW r \in Recorders, Finish(r), UNCHANGED rstatus
      PROVE  Same(q)
  BY <1>t, <1>6 DEF Finish, Goto
<1>7. CASE HookCrash
  <2>1. q \notin Hooks
    BY <1>7 DEF HookCrash
  <2>2. rpc'[q] = rpc[q] /\ revent'[q] = revent[q]
    BY <1>7, <2>1 DEF HookCrash
  <2>3. rstatus'[q] = rstatus[q]
    BY <1>7 DEF HookCrash
  <2>4. QED
    BY <1>0, <2>2, <2>3
<1>8. CASE Recording
  BY <1>t, <1>0, <1>1, <1>2, <1>3, <1>4, <1>5, <1>6, <1>7, <1>8
  DEF Recording, HookNotify, CommandNotify
<1>9. CASE UNCHANGED recorder
  BY <1>0, <1>9 DEF recorder
<1>10. CASE BotCrash
  BY <1>t, <1>0, <1>10 DEF BotCrash
<1>11. QED
  BY <1>8, <1>9, <1>10, QueueFrame, OperatorFrame DEF Next, QueueRaises, vars

\* The event of a row is not rewritten.
LEMMA EventStays ==
    ASSUME IInv, [Next]_vars, NEW i \in SendIds, i <= lastId
    PROVE  eventOf'[i] = eventOf[i]
<1> USE DEF IInv
<1>1. ASSUME NEW r \in Recorders, InsertSend(r), ~Duplicate(revent[r])
      PROVE  eventOf'[i] = eventOf[i]
  <2>1. i # lastId'
    BY <1>1, InsertedNext DEF TypeOK
  <2>2. QED
    BY <1>1, <2>1, InsertedNext DEF TypeOK
<1>2. QED
  BY <1>1, RecordingFrame, QueueFrame, OperatorFrame
  DEF Next, BotCrash, QueueRaises, Interrupt, vars, table

LEMMA QuietJustifiedNext ==
    ASSUME IInv, QuietJustified, [Next]_vars
    PROVE  QuietJustified'
<1>t. TypeOK
  BY DEF IInv
<1>1. /\ offline' => offlineSeen'
      /\ phase' >= 1 => highestPhase' >= 1
      /\ \A r \in Recorders : (rpc'[r] = "insert" /\ rstatus'[r] = "posted")
           => offlineSeen' /\ IsMain(revent'[r])
  BY <1>t, EvidenceStays, QuietReadNext
<1>2. ASSUME qpc' = "silent"
      PROVE  highestPhase' >= 1 \/ (offlineSeen' /\ IsMain(eventOf'[cur']))
  <2>1. CASE PostCheckPhase
    BY <1>t, <1>2, <2>1, EvidenceStays
    DEF PostCheckPhase, Step, QueueRest, settings, QuietJustified
  <2>2. CASE PostCheckOffline
    BY <1>2, <2>2 DEF PostCheckOffline, Step, QueueRest, table, settings,
       QuietJustified, TrackingDisabled
  <2>3. CASE qpc = "silent" /\ cur' = cur
    <3>1. cur \in SendIds /\ cur <= lastId
      BY <2>3 DEF IInv, TypeOK, InHand, QueueStates, ReferencesSerial
    <3>2. eventOf'[cur'] = eventOf[cur]
      BY <2>3, <3>1, EventStays
    <3>3. QED
      BY <1>t, <2>3, <3>2, EvidenceStays DEF QuietJustified
  <2>4. CASE (QueueStep \/ BotStart) /\ ~(PostCheckPhase \/ PostCheckOffline)
    BY <1>2, <2>4 DEF QueueStep, BotStart, TakeNotification, PollTimeout, CycleCheck,
       CycleRelease, CycleFetch, CycleGate, NextInBatch, Lookup, HeldCheck,
       HeldRelease, LookupAgain, PostCheckMaintenance, Deliver, DeliverFails,
       MarkPosted, MarkSilently, Hold, MarkFailed, Step
  <2>5. QED
    BY <1>t, <1>2, <2>1, <2>2, <2>3, <2>4, RecordingFrame, OperatorFrame
    DEF Next, BotCrash, QueueRaises, vars, queue
<1>3. QED
  BY <1>1, <1>2 DEF QuietJustified

LEMMA PostedWasAnnouncedNext ==
    ASSUME IInv, QuietJustified, PostedWasAnnounced, [Next]_vars
    PROVE  PostedWasAnnounced'
<1> SUFFICES ASSUME NEW i \in SendIds, status'[i] = "posted", i \notin forced',
                    announced'[i] = 0
             PROVE  highestPhase' >= 1 \/ (offlineSeen' /\ IsMain(eventOf'[i]))
  BY DEF PostedWasAnnounced
<1>t. /\ TypeOK /\ RowsSerial
      /\ status \in [SendIds -> Statuses \cup {Absent}]
      /\ announced \in [SendIds -> Nat] /\ interrupted \in [SendIds -> Nat]
  BY DEF IInv, TypeOK
<1>f. forced \subseteq forced'
  BY <1>t, RecordingFrame, QueueFrame
  DEF Next, Operator, edits, OperatorRest, MaintenanceOn, MaintenanceOff, SetOffline,
      SetPhase, FlushCheck, FlushRelease, RemoveSend, ForceMarkPosted, ForgetUser, Anonymise,
      BotCrash,
      QueueRaises, Interrupt, vars
<1>a. UNCHANGED announced => announced[i] = 0
  OBVIOUS
<1>0. ASSUME status[i] = "posted", announced[i] = 0
      PROVE  highestPhase' >= 1 \/ (offlineSeen' /\ IsMain(eventOf'[i]))
  <2>1. i <= lastId
    BY <1>0, <1>t DEF RowsSerial, Inserted, Absent, TypeOK, SendIds
  <2>2. eventOf'[i] = eventOf[i]
    BY <2>1, EventStays
  <2>3. QED
    BY <1>0, <1>t, <1>f, <2>2, EvidenceStays DEF PostedWasAnnounced
<1>1. CASE Recording
  <2>1. ASSUME NEW r \in Recorders, InsertSend(r), ~Duplicate(revent[r]), i = lastId'
        PROVE  offlineSeen' /\ IsMain(eventOf'[i])
    <3>1. rstatus[r] = "posted" /\ rpc[r] = "insert"
      BY <1>t, <2>1, InsertedNext DEF Added, InsertSend
    <3>2. eventOf'[i] = revent[r]
      BY <1>t, <2>1, InsertedNext DEF TypeOK
    <3>3. QED
      BY <1>t, <2>1, <3>1, <3>2, EvidenceStays DEF QuietJustified
  <2>2. ASSUME NEW r \in Recorders, InsertSend(r), ~Duplicate(revent[r]), i # lastId'
        PROVE  status[i] = "posted"
    BY <1>t, <2>2, InsertedNext DEF Added
  <2>3. announced[i] = 0
    BY <1>1, <1>t, RecordingFrame DEF discord
  <2>4. QED
    BY <1>0, <1>1, <1>t, <2>1, <2>2, <2>3, RecordingFrame
<1>2. CASE Operator
  <2>1. announced[i] = 0
    BY <1>2, <1>t, OperatorFrame
  <2>2. CASE UNCHANGED status
    BY <1>0, <2>1, <2>2
  <2>3. CASE FlushRelease
    BY <1>0, <1>t, <2>1, <2>3, ReleasedType DEF FlushRelease
  <2>4. ASSUME NEW j \in SendIds, RemoveSend(j)
        PROVE  status[i] = "posted"
    BY <1>t, <2>4 DEF RemoveSend, Marked
  <2>5. ASSUME NEW j \in SendIds, ForceMarkPosted(j)
        PROVE  status[i] = "posted"
    BY <1>t, <2>5 DEF ForceMarkPosted, Marked
  <2>6. ASSUME NEW S \in SUBSET SendIds, ForgetUser(S)
        PROVE  status[i] = "posted"
    BY <1>t, <2>6 DEF ForgetUser, Deleted, Absent
  <2>7. QED
    BY <1>0, <1>2, <2>1, <2>2, <2>3, <2>4, <2>5, <2>6
    DEF Operator, Anonymise, MaintenanceOn, MaintenanceOff, SetOffline, SetPhase, FlushCheck,
        OperatorRest, table
<1>3. CASE BotCrash \/ QueueRaises \/ UNCHANGED vars
  BY <1>0, <1>3 DEF BotCrash, QueueRaises, Interrupt, vars, table, discord
<1>4. CASE QueueStep \/ BotStart
  <2>1. announced[i] = 0
    <3>1. CASE Deliver
      BY <1>t, <3>1 DEF Deliver, SendMessage
    <3>2. CASE ~Deliver
      BY <1>4, <3>2 DEF QueueStep, discord, BotStart, TakeNotification, PollTimeout,
         CycleCheck, CycleRelease, CycleFetch, CycleGate, NextInBatch, Lookup,
         HeldCheck, HeldRelease, LookupAgain, PostCheckPhase, PostCheckOffline,
         PostCheckMaintenance, DeliverFails, MarkPosted, MarkSilently, Hold,
         MarkFailed
    <3>3. QED
      BY <3>1, <3>2
  <2>2. CASE status[i] = "posted"
    BY <1>0, <2>1, <2>2
  <2>3. CASE status[i] # "posted"
    <3>1. i = cur /\ qpc \in {"mark", "silent", "hold", "fail"} /\ status' # status
      BY <1>4, <1>t, <2>3, QueueWrites, ReleasedType DEF Marked
    <3>2. qpc # "mark"
      BY <1>t, <2>1, <3>1 DEF IInv, NothingOwedTwice
    <3>3. qpc = "silent"
      <4>1. ASSUME NEW s, status' = Marked(status, cur, s)
            PROVE  s = "posted"
        BY <1>t, <3>1, <4>1 DEF Marked
      <4>2. ~Hold /\ ~MarkFailed
        BY <4>1 DEF Hold, MarkFailed, MarkCur, HeldStatus
      <4>3. QED
        BY <1>4, <3>1, <3>2, <4>2 DEF QueueStep, BotStart, TakeNotification,
           PollTimeout, CycleCheck, CycleRelease, CycleFetch, CycleGate, NextInBatch,
           Lookup, HeldCheck, HeldRelease, LookupAgain, PostCheckPhase,
           PostCheckOffline, PostCheckMaintenance, Deliver, DeliverFails, MarkPosted,
           MarkSilently, Step
    <3>4. eventOf'[i] = eventOf[cur] /\ UNCHANGED <<highestPhase, offlineSeen>>
      BY <1>4, <3>1, QueueFrame DEF settings
    <3>5. QED
      BY <3>3, <3>4 DEF QuietJustified
  <2>4. QED
    BY <2>2, <2>3
<1>5. QED
  BY <1>1, <1>2, <1>3, <1>4 DEF Next

\* PostedWasAnnounced for every bound: a row says posted without a Discord
\* message only if the operator forced it, or a quiet mode that covers its
\* guild had been switched on.
THEOREM PostedWasAnnouncedCorrect == Spec => []PostedWasAnnounced
<1>1. Init => QuietJustified /\ PostedWasAnnounced
  BY DEF Init, QuietJustified, PostedWasAnnounced, Absent
<1>2. IInv /\ QuietJustified /\ PostedWasAnnounced /\ [Next]_vars
        => (QuietJustified /\ PostedWasAnnounced)'
  BY QuietJustifiedNext, PostedWasAnnouncedNext
<1>3. QED
  BY <1>1, <1>2, Invariant, PTL DEF Spec

(***************************************************************************)
(* The pipeline implements SendDelivery.                                   *)
(***************************************************************************)
LEMMA DeliveryInit == Init => Delivery!Init
  BY DEF Init, Delivery!Init

LEMMA DeliveryStep == IInv /\ [Next]_vars => [Delivery!Next]_<<1..lastId, announced, interrupted>>
<1> SUFFICES ASSUME IInv, [Next]_vars
             PROVE  Delivery!Next \/ UNCHANGED <<1..lastId, announced, interrupted>>
  OBVIOUS
<1>t. /\ TypeOK /\ RowsSerial /\ lastId \in Nat
      /\ announced \in [SendIds -> Nat] /\ interrupted \in [SendIds -> Nat]
  BY DEF IInv, TypeOK
<1>1. ASSUME NEW r \in Recorders, InsertSend(r), ~Duplicate(revent[r])
      PROVE  Delivery!Next
  <2>1. /\ lastId' = lastId + 1 /\ lastId' \in SendIds
        /\ UNCHANGED <<announced, interrupted>>
    BY <1>1, <1>t, InsertedNext
  <2>2. lastId' \notin 1..lastId /\ 1..lastId' = (1..lastId) \cup {lastId'}
    BY <1>t, <2>1
  <2>3. Delivery!Record(lastId')
    BY <2>1, <2>2 DEF Delivery!Record
  <2>4. QED
    BY <2>1, <2>3 DEF Delivery!Next
<1>2. CASE Deliver
  <2>1. /\ cur \in SendIds /\ cur \in 1..lastId
        /\ announced' = [announced EXCEPT ![cur] = @ + 1]
        /\ UNCHANGED <<lastId, interrupted>>
    <3>1. cur \in SendIds /\ cur <= lastId
      BY <1>2 DEF Deliver, Step, IInv, TypeOK, InHand, QueueStates, ReferencesSerial
    <3>2. QED
      BY <1>2, <1>t, <3>1 DEF Deliver, SendMessage, QueueRest, table, history, SendIds
  <2>2. announced[cur] <= interrupted[cur]
    BY <1>2 DEF Deliver, Step, IInv, NothingOwedTwice, Owed
  <2>3. Delivery!Tell(cur)
    BY <2>1, <2>2 DEF Delivery!Tell
  <2>4. QED
    BY <2>1, <2>3 DEF Delivery!Next
<1>3. CASE BotCrash \/ QueueRaises
  <2>1. UNCHANGED <<lastId, announced>>
    BY <1>3 DEF BotCrash, QueueRaises, Interrupt, table, discord
  <2>2. CASE qpc = "mark"
    <3>1. cur \in SendIds /\ interrupted[cur] < announced[cur]
      BY <1>t, <2>2 DEF IInv, NothingOwedTwice, TypeOK, InHand, QueueStates
    <3>2. interrupted' = [interrupted EXCEPT ![cur] = @ + 1]
      BY <1>3, <2>2 DEF BotCrash, QueueRaises, Interrupt
    <3>3. Delivery!Lapse(cur)
      BY <2>1, <3>1, <3>2 DEF Delivery!Lapse
    <3>4. QED
      BY <3>1, <3>3 DEF Delivery!Next
  <2>3. CASE qpc # "mark"
    BY <1>3, <2>1, <2>3 DEF BotCrash, QueueRaises, Interrupt
  <2>4. QED
    BY <2>2, <2>3
<1>4. CASE Recording
  BY <1>1, <1>4, <1>t, RecordingFrame DEF discord, history
<1>5. CASE (QueueStep \/ BotStart) /\ ~Deliver
  <2>1. UNCHANGED announced
    BY <1>5 DEF QueueStep, discord, BotStart, TakeNotification, PollTimeout,
       CycleCheck, CycleRelease, CycleFetch, CycleGate, NextInBatch, Lookup,
       HeldCheck, HeldRelease, LookupAgain, PostCheckPhase, PostCheckOffline,
       PostCheckMaintenance, DeliverFails, MarkPosted, MarkSilently, Hold, MarkFailed
  <2>2. QED
    BY <1>5, <2>1, QueueFrame DEF history
<1>6. CASE Operator
  BY <1>6, <1>t, OperatorFrame DEF history
<1>7. CASE UNCHANGED vars
  BY <1>7 DEF vars, table, discord, history
<1>8. QED
  BY <1>1, <1>2, <1>3, <1>4, <1>5, <1>6, <1>7 DEF Next

\* ImplementsDelivery for every bound: every step of the pipeline records one
\* send, announces one that is owed, loses one mark, or changes nothing the
\* abstract delivery sees.
THEOREM Implementation == Spec => ImplementsDelivery
<1>1. IInv /\ [Next]_vars => [Delivery!Next]_<<1..lastId, announced, interrupted>>
  BY DeliveryStep
<1>2. QED
  BY <1>1, DeliveryInit, Invariant, PTL DEF Spec, ImplementsDelivery, Delivery!Spec

=============================================================================
