--------------------------- MODULE CountGame_proofs ---------------------------
(***************************************************************************)
(* Proofs about CountGame, for every set of members and of messages that   *)
(* are handled at the same time.                                           *)
(***************************************************************************)
EXTENDS CountGame, TLAPS

\* Process p moves to a local state that its place and the tables allow.
MovesTo(p, local) ==
    /\ local \in Locals /\ local.at \in StatesOf(p) /\ Sensible(p, local)
    /\ proc' = [proc EXCEPT ![p] = local]

\* What the invariant says of one process.
LEMMA LocalState ==
  ASSUME IInv, NEW p \in Procs
  PROVE  proc[p] \in Locals /\ proc[p].at \in StatesOf(p) /\ Sensible(p, proc[p])
BY DEF IInv, TypeOK, TablesTyped, ProcsTyped, LocalsSensible

LEMMA BlankRow ==
  ASSUME IInv
  PROVE  Blank \in Rows /\ Blank.number \in earned /\ Row \in Rows /\ Row.number \in earned
BY BoundsAssumption DEF IInv, TypeOK, TablesTyped, ProcsTyped, EarnedFromZero, Blank, Row, Rows, Numbers

LEMMA AllStates ==
  ASSUME NEW p \in Procs
  PROVE  StatesOf(p) \subseteq TickerStates \cup QueueStates \cup SetterStates \cup HandlerStates
BY DEF StatesOf

LEMMA KnownIds ==
  ASSUME IInv
  PROVE  Windows \subseteq WindowIds
BY BoundsAssumption DEF IInv, TypeOK, TablesTyped, ProcsTyped, Windows, WindowIds

LEMMA IdleSensible ==
  ASSUME IInv, NEW p \in Procs
  PROVE  /\ Idle \in Locals /\ Sensible(p, Idle)
         /\ Rest(p) \in Locals /\ Rest(p).at \in StatesOf(p) /\ Sensible(p, Rest(p))
         /\ p # Ticker => Idle.at \in StatesOf(p)
<1>. USE BoundsAssumption, ProcsAssumption
     DEF IInv, EarnedFromZero, TypeOK, Idle, Blank, Rows, Locals, Numbers, NoWindow
<1>1. Idle \in Locals
  BY DEF QueueStates, SetterStates, HandlerStates, TickerStates
<1>2. Sensible(p, Idle)
  BY DEF Sensible, HandStates, CancelStates, OpeningStates
<1>. DEFINE began == [Idle EXCEPT !.at = "sweep"]
<1>3. began \in Locals
  BY <1>1 DEF QueueStates, SetterStates, HandlerStates, TickerStates, SweepStates
<1>4. p \notin Handlers => Sensible(p, began)
  BY DEF Sensible, HandStates, CancelStates, OpeningStates
<1>5. Rest(p) = Idle \/ (p \notin Handlers /\ Rest(p) = began)
  BY DEF Rest
<1>6. Rest(p) \in Locals /\ Sensible(p, Rest(p))
  BY ONLY <1>1, <1>2, <1>3, <1>4, <1>5
<1>7. Rest(p).at \in StatesOf(p) /\ (p # Ticker => Idle.at \in StatesOf(p))
  BY DEF Rest, StatesOf, QueueStates, SetterStates, HandlerStates, TickerStates, SweepStates
<1>. QED  BY ONLY <1>1, <1>2, <1>6, <1>7

\* A move keeps every local state sensible: windows are only added, earned
\* numbers stay earned.
LEMMA MoveKeeps ==
  ASSUME IInv, NEW p \in Procs, NEW local, MovesTo(p, local),
         lastWindow' \in {lastWindow, lastWindow + 1}, earned \subseteq earned',
         TablesTyped', WindowsKnown', EarnedFromZero', OutcomeAppliedOnce', OutcomeInHand'
  PROVE  IInv'
<1>1. ProcsTyped'
  BY DEF IInv, TypeOK, ProcsTyped, MovesTo
<1>2. Windows \subseteq Windows'
  BY BoundsAssumption DEF IInv, TypeOK, TablesTyped, Windows
<1>3. ASSUME NEW q \in Procs, NEW l, Sensible(q, l) PROVE Sensible(q, l)'
  BY <1>2, <1>3 DEF Sensible
<1>4. LocalsSensible'
  BY <1>3 DEF LocalsSensible, IInv, TypeOK, ProcsTyped, MovesTo
<1>. QED  BY <1>1, <1>4 DEF IInv, TypeOK

\* Windows that have an outcome keep it, and no write is made for any.
OutcomesKept ==
    /\ \A w \in WindowIds :
         \/ resolution'[w] = resolution[w] /\ failed'[w] = failed[w]
         \/ /\ resolution[w] \in {"absent", "open"}
            /\ resolution'[w] \in {"absent", "open", "cancelled"}
    /\ UNCHANGED <<applied, blocked, cut>>

MovesQuietly(p) == \E local : MovesTo(p, local) /\ local.at \notin WritingStates

\* A process that is not carrying out an outcome keeps what is known of them.
LEMMA QuietKeeps ==
  ASSUME IInv, NEW p \in Procs, MovesQuietly(p), ~Writing(p), OutcomesKept,
         lastWindow' \in {lastWindow, lastWindow + 1}, earned \subseteq earned',
         TablesTyped', WindowsKnown', EarnedFromZero'
  PROVE  IInv'
<1>1. PICK local : MovesTo(p, local) /\ local.at \notin WritingStates
  BY DEF MovesQuietly
<1>. USE DEF IInv, TypeOK, ProcsTyped
<1>2. \A q \in Procs : Writing(q)' => Writing(q) /\ proc'[q] = proc[q]
  BY <1>1 DEF Writing, MovesTo
<1>3. \A q \in Procs : Writing(q) => Writing(q)' /\ proc'[q] = proc[q]
  BY <1>1 DEF Writing, MovesTo
<1>4. \A w \in WindowIds : Owed(w)' = Owed(w)
  BY DEF Owed, OutcomesKept
<1>5. OutcomeAppliedOnce'
  BY <1>3, <1>4 DEF OutcomeAppliedOnce, OutcomesKept
<1>6. \A q \in Procs : Writing(q) => proc[q].hand \in WindowIds
  BY KnownIds, LocalState DEF Writing, WritingStates, Sensible, HandStates
<1>7. OutcomeInHand'
  BY <1>2, <1>6 DEF OutcomeInHand, OutcomesKept, At, Writing, WritingStates
<1>. QED  BY <1>1, <1>5, <1>7, MoveKeeps

\* The same when windows are left alone altogether.
LEMMA PlainKeeps ==
  ASSUME IInv, NEW p \in Procs, MovesQuietly(p), ~Writing(p),
         UNCHANGED <<windowRows, applied, blocked, cut>>, earned \subseteq earned',
         covers' \subseteq Windows, TablesTyped', EarnedFromZero'
  PROVE  IInv'
<1>1. OutcomesKept
  BY DEF OutcomesKept, windowRows
<1>2. WindowsKnown'
  BY BoundsAssumption DEF IInv, TypeOK, TablesTyped, WindowsKnown, Windows, windowRows
<1>. QED  BY <1>1, <1>2, QuietKeeps DEF windowRows

-----------------------------------------------------------------------------
(***************************************************************************)
(* Where the shared pieces of the actions move a process.                  *)
(***************************************************************************)
LEMMA DoneMoves ==
  ASSUME IInv, NEW p \in Procs, p # Ticker, Done(p)
  PROVE  MovesQuietly(p)
<1>1. MovesTo(p, Idle)
  BY IdleSensible DEF Done, MovesTo
<1>. QED  BY <1>1 DEF MovesQuietly, Idle, WritingStates

LEMMA EditMoves ==
  ASSUME NEW p, NEW local \in Locals, local.at \in StatesOf(p), Sensible(p, local),
         local.at \notin WritingStates, proc' = [proc EXCEPT ![p] = local]
  PROVE  MovesQuietly(p)
BY DEF MovesQuietly, MovesTo

LEMMA AfterSweepMoves ==
  ASSUME IInv, NEW p \in Procs, p # Setter, proc[p].at # "idle", AfterSweep(p)
  PROVE  MovesQuietly(p)
<1>1. CASE p \in Handlers \/ (p = Queue /\ covers # {})
  <2>. DEFINE step == IF p = Queue THEN "list" ELSE "block"
              l == [proc[p] EXCEPT !.at = step, !.todo = {}, !.hand = NoWindow, !.copy = Blank]
  <2>1. p # Ticker /\ (p = Queue \/ p \in Handlers) /\ (p = Queue => p \notin Handlers)
    BY <1>1, ProcsAssumption DEF Ticker, Queue
  <2>2. step \in StatesOf(p) /\ step \notin HandStates \cup CancelStates \cup OpeningStates \cup {"count"}
    BY <2>1 DEF StatesOf, QueueStates, HandlerStates, Setter, Queue, HandStates, CancelStates, OpeningStates
  <2>3. l \in Locals /\ l.at = step
    BY <2>2, LocalState, BlankRow, AllStates DEF Locals, NoWindow
  <2>4. Sensible(p, l)
    BY <2>1, <2>2, LocalState, BlankRow DEF Sensible, Locals
  <2>5. MovesTo(p, l)
    BY <1>1, <2>2, <2>3, <2>4 DEF AfterSweep, MovesTo
  <2>. QED  BY <2>2, <2>3, <2>5 DEF WritingStates, HandStates, MovesQuietly
<1>2. CASE ~(p \in Handlers \/ (p = Queue /\ covers # {}))
  <2>1. MovesTo(p, Rest(p))
    BY <1>2, IdleSensible DEF AfterSweep, MovesTo
  <2>2. Rest(p).at \notin WritingStates
    BY DEF Rest, Idle, WritingStates
  <2>. QED  BY <2>1, <2>2 DEF MovesQuietly
<1>. QED  BY <1>1, <1>2

LEMMA SweepOnMoves ==
  ASSUME IInv, NEW p \in Procs, p # Setter, proc[p].at # "idle", SweepOn(p)
  PROVE  MovesQuietly(p)
<1>1. CASE AfterSweep(p)
  BY <1>1, AfterSweepMoves
<1>2. ASSUME NEW w \in proc[p].todo,
             proc' = [proc EXCEPT ![p].todo = @ \ {w}, ![p].hand = w, ![p].copy = Blank,
                              ![p].at = IF IsDue(w) THEN "expire" ELSE "flagRead"]
      PROVE  MovesQuietly(p)
  <2>. DEFINE step == IF IsDue(w) THEN "expire" ELSE "flagRead"
              l == [proc[p] EXCEPT !.todo = @ \ {w}, !.hand = w, !.copy = Blank, !.at = step]
  <2>1. proc[p].todo \subseteq Windows /\ w \in Windows /\ proc[p].todo \subseteq WindowIds
    BY LocalState DEF Sensible, Locals
  <2>2. step \in StatesOf(p) /\ step \notin WritingStates \cup CancelStates \cup OpeningStates \cup {"count"}
    BY DEF StatesOf, QueueStates, HandlerStates, TickerStates, SweepStates, WritingStates, CancelStates, OpeningStates
  <2>3. l \in Locals /\ l.at = step
    BY <2>1, <2>2, LocalState, BlankRow, AllStates DEF Locals
  <2>4. Sensible(p, l)
    BY <2>1, <2>2, LocalState, BlankRow DEF Sensible, Locals
  <2>5. MovesTo(p, l)
    BY <1>2, <2>2, <2>3, <2>4 DEF MovesTo
  <2>. QED  BY <2>2, <2>3, <2>5 DEF MovesQuietly
<1>. QED  BY <1>1, <1>2 DEF SweepOn

LEMMA ReturnMoves ==
  ASSUME IInv, NEW p \in Procs, p # Setter, At(p, "expire") \/ Writing(p), Return(p)
  PROVE  MovesQuietly(p)
<1>1. proc[p].at # "idle"
  BY DEF At, Writing, WritingStates
<1>2. CASE proc[p].reread
  <2>. DEFINE l == [proc[p] EXCEPT !.at = "reread"]
  <2>1. p \in Handlers
    BY <1>2, LocalState DEF Sensible
  <2>2. "reread" \in StatesOf(p)
    BY <2>1, ProcsAssumption DEF StatesOf, HandlerStates
  <2>3. l \in Locals /\ l.at = "reread"
    BY <2>2, LocalState, AllStates DEF Locals
  <2>4. Sensible(p, l)
    BY <1>1, LocalState DEF Sensible, Locals, HandStates, CancelStates, OpeningStates
  <2>5. MovesTo(p, l)
    BY <1>2, <2>2, <2>3, <2>4 DEF MovesTo, Return, Goto
  <2>. QED  BY <2>3, <2>5 DEF WritingStates, MovesQuietly
<1>3. CASE ~proc[p].reread
  BY <1>1, <1>3, SweepOnMoves DEF Return
<1>. QED  BY <1>2, <1>3

LEMMA JudgeMoves ==
  ASSUME IInv, NEW h \in Handlers, proc[h].at # "idle",
         NEW row \in Rows, row.number \in earned, Judge(h, row)
  PROVE  MovesQuietly(h)
<1>1. h \in Procs /\ h # Ticker /\ h # Queue /\ h # Setter
  BY ProcsAssumption DEF Procs
<1>2. CASE row.last = proc[h].author
  BY <1>1, <1>2, DoneMoves DEF Judge
<1>3. CASE row.last # proc[h].author
  <2>. DEFINE verdict == IF proc[h].posted = Following(row) THEN "count"
                ELSE IF proc[h].skip \/ proc[h].author \in Others THEN "reset" ELSE "window"
              l == [proc[h] EXCEPT !.at = "cancel", !.seen = row, !.hand = NoWindow,
                                   !.then = verdict]
  <2>1. "cancel" \in StatesOf(h)
    BY <1>1 DEF StatesOf, HandlerStates
  <2>2. verdict \in {"count", "reset", "window"}
    OBVIOUS
  <2>3. l \in Locals /\ l.at = "cancel"
    BY <1>1, <2>1, <2>2, LocalState, AllStates DEF Locals, NoWindow
  <2>4. proc[h].author \in Users
    BY <1>1, LocalState DEF Sensible
  <2>5. Sensible(h, l)
    BY <1>1, <2>2, <2>4, LocalState
       DEF Sensible, Locals, HandStates, CancelStates, OpeningStates, Users
  <2>6. MovesTo(h, l)
    BY <1>3, <2>1, <2>3, <2>5 DEF MovesTo, Judge
  <2>. QED  BY <2>3, <2>6 DEF WritingStates, MovesQuietly
<1>. QED  BY <1>2, <1>3

LEMMA CancelOnMoves ==
  ASSUME IInv, NEW p \in Procs, proc[p].at \in CancelStates, NEW S, S \subseteq Windows,
         CancelOn(p, S)
  PROVE  MovesQuietly(p)
<1>. DEFINE step == IF S = {} THEN proc[p].then ELSE "cancelEach"
            l == [proc[p] EXCEPT !.todo = S, !.at = step]
<1>1. S \subseteq WindowIds
  BY KnownIds
<1>2. p \in Handlers \/ p = Setter
  BY LocalState DEF Procs, StatesOf, TickerStates, QueueStates, SweepStates, CancelStates
<1>3. proc[p].then \in IF p = Setter THEN {"set"} ELSE {"count", "reset", "window"}
  BY LocalState DEF Sensible
<1>4. step \in StatesOf(p) /\ step \in {"cancelEach", proc[p].then}
  BY <1>2, <1>3, ProcsAssumption DEF StatesOf, HandlerStates, SetterStates, Ticker, Queue, Setter
<1>5. step \notin WritingStates \cup HandStates
  BY <1>3, <1>4 DEF WritingStates, HandStates, MovesQuietly
<1>6. l \in Locals /\ l.at = step
  BY <1>1, <1>4, LocalState, AllStates DEF Locals
<1>7. proc[p].at # "idle"
  BY DEF CancelStates
<1>8. l.then = proc[p].then /\ l.posted = proc[p].posted /\ l.seen = proc[p].seen
      /\ l.author = proc[p].author /\ l.todo = S /\ l.reread = proc[p].reread
      /\ l.copy = proc[p].copy
  BY LocalState DEF Locals
<1>9. Sensible(p, l)
  <2>. HIDE DEF l, step
  <2>. QED  BY <1>3, <1>4, <1>5, <1>6, <1>7, <1>8, LocalState DEF Sensible, CancelStates, OpeningStates
<1>10. MovesTo(p, l)
  BY <1>4, <1>6, <1>9 DEF MovesTo, CancelOn
<1>. QED  BY <1>5, <1>6, <1>10 DEF MovesQuietly

LEMMA RescueOnMoves ==
  ASSUME IInv, NEW S, S \subseteq Windows, RescueOn(S)
  PROVE  MovesQuietly(Queue)
<1>1. Queue \in Procs /\ Queue # Ticker /\ Queue # Setter /\ Queue \notin Handlers
  BY ProcsAssumption DEF Procs, Queue, Ticker, Setter
<1>2. CASE S = {}
  BY <1>1, <1>2, DoneMoves DEF RescueOn
<1>3. CASE S # {}
  <2>. DEFINE l == [proc[Queue] EXCEPT !.at = "rescue", !.todo = S]
  <2>1. S \subseteq WindowIds
    BY KnownIds
  <2>2. "rescue" \in StatesOf(Queue)
    BY <1>1 DEF StatesOf, QueueStates
  <2>3. l \in Locals /\ l.at = "rescue"
    BY <1>1, <2>1, <2>2, LocalState, AllStates DEF Locals
  <2>4. Sensible(Queue, l)
    BY <1>1, LocalState DEF Sensible, Locals, HandStates, CancelStates, OpeningStates
  <2>5. MovesTo(Queue, l)
    BY <1>3, <2>2, <2>3, <2>4 DEF MovesTo, RescueOn
  <2>. QED  BY <2>3, <2>5 DEF WritingStates, MovesQuietly
<1>. QED  BY <1>2, <1>3

-----------------------------------------------------------------------------
(***************************************************************************)
(* Every step keeps the invariant.  First the steps that leave windows and *)
(* outcomes alone.                                                         *)
(***************************************************************************)
LEMMA Sweeping ==
  ASSUME IInv, NEW p \in Procs, proc[p].at \in SweepStates
  PROVE  p # Setter /\ proc[p].at # "idle"
BY LocalState, ProcsAssumption
   DEF StatesOf, SetterStates, SweepStates, Ticker, Queue, Setter

LEMMA Handling ==
  ASSUME NEW h \in Handlers
  PROVE  h \in Procs /\ h # Ticker /\ h # Queue /\ h # Setter /\ StatesOf(h) = HandlerStates
BY ProcsAssumption DEF Procs, StatesOf

LEMMA NotWriting ==
  ASSUME NEW p, proc[p].at \notin WritingStates
  PROVE  ~Writing(p)
BY DEF Writing

\* The steps that write no table at all.
LEMMA ReadKeeps ==
  ASSUME IInv, NEW p \in Procs, MovesQuietly(p), ~Writing(p),
         UNCHANGED <<World, countRow, windowRows, blocked, covers, applied>>
  PROVE  IInv'
<1>. USE DEF World, countRow, windowRows, counters, IInv, TypeOK
<1>1. TablesTyped'
  BY DEF TablesTyped
<1>2. EarnedFromZero' /\ covers' \subseteq Windows
  BY DEF EarnedFromZero, WindowsKnown
<1>. QED  BY <1>1, <1>2, PlainKeeps

LEMMA SweepListKeeps ==
  ASSUME IInv, NEW p \in Procs, SweepList(p)
  PROVE  IInv'
<1>1. p # Setter /\ proc[p].at # "idle" /\ ~Writing(p)
  BY Sweeping DEF SweepList, At, SweepStates, Writing, WritingStates
<1>2. CASE AfterSweep(p)
  BY <1>1, <1>2, AfterSweepMoves, ReadKeeps DEF SweepList
<1>3. CASE proc' = [proc EXCEPT ![p].at = "gate", ![p].todo = Open]
  <2>. DEFINE l == [proc[p] EXCEPT !.at = "gate", !.todo = Open]
  <2>1. Open \subseteq Windows /\ Open \subseteq WindowIds
    BY KnownIds DEF Open
  <2>2. "gate" \in StatesOf(p)
    BY <1>1 DEF StatesOf, TickerStates, QueueStates, HandlerStates, SweepStates
  <2>3. l \in Locals /\ l.at = "gate"
    BY <2>1, <2>2, LocalState, AllStates DEF Locals
  <2>4. Sensible(p, l)
    BY <1>1, <2>1, LocalState DEF Sensible, Locals, HandStates, CancelStates, OpeningStates
  <2>5. MovesQuietly(p)
    BY <1>3, <2>2, <2>3, <2>4, EditMoves DEF WritingStates
  <2>. QED  BY <1>1, <2>5, ReadKeeps DEF SweepList
<1>. QED  BY <1>2, <1>3 DEF SweepList

LEMMA SweepGateKeeps ==
  ASSUME IInv, NEW p \in Procs, SweepGate(p)
  PROVE  IInv'
<1>1. p # Setter /\ proc[p].at # "idle" /\ ~Writing(p)
  BY Sweeping DEF SweepGate, At, SweepStates, Writing, WritingStates
<1>. QED  BY <1>1, AfterSweepMoves, SweepOnMoves, ReadKeeps DEF SweepGate

LEMMA FlagReadKeeps ==
  ASSUME IInv, NEW p \in Procs, FlagRead(p)
  PROVE  IInv'
<1>1. p # Setter /\ proc[p].at # "idle" /\ ~Writing(p)
  BY Sweeping DEF FlagRead, At, SweepStates, Writing, WritingStates
<1>2. CASE SweepOn(p)
  BY <1>1, <1>2, SweepOnMoves, ReadKeeps DEF FlagRead
<1>3. CASE proc' = [proc EXCEPT ![p].at = "flagWrite", ![p].copy = Row]
  <2>. DEFINE l == [proc[p] EXCEPT !.at = "flagWrite", !.copy = Row]
  <2>1. proc[p].hand \in Windows
    BY LocalState DEF FlagRead, At, Sensible, HandStates
  <2>2. "flagWrite" \in StatesOf(p)
    BY <1>1 DEF StatesOf, TickerStates, QueueStates, HandlerStates, SweepStates
  <2>3. l \in Locals /\ l.at = "flagWrite"
    BY <2>2, LocalState, AllStates, BlankRow DEF Locals
  <2>4. Sensible(p, l)
    BY <1>1, <2>1, LocalState, BlankRow
       DEF Sensible, Locals, CancelStates, OpeningStates
  <2>5. MovesQuietly(p)
    BY <1>3, <2>2, <2>3, <2>4, EditMoves DEF WritingStates
  <2>. QED  BY <1>1, <2>5, ReadKeeps DEF FlagRead
<1>. QED  BY <1>2, <1>3 DEF FlagRead

\* The count row is written, with a number that was earned.
LEMMA UpsertKeeps ==
  ASSUME IInv, NEW p \in Procs, MovesQuietly(p), ~Writing(p),
         NEW n \in earned', NEW user \in Users \cup {Nobody}, NEW flag \in BOOLEAN,
         Upsert(n, user, flag), earned \subseteq earned', earned' \subseteq Numbers,
         UNCHANGED <<windowRows, applied, blocked, cut, covers, due, disabled, messages, sends>>,
         disturbances' \in 0..MaxDisturbances
  PROVE  IInv'
<1>. USE DEF windowRows, IInv, TypeOK
<1>1. TablesTyped'
  BY DEF TablesTyped, Upsert
<1>2. EarnedFromZero' /\ covers' \subseteq Windows
  BY DEF EarnedFromZero, WindowsKnown, Upsert
<1>. QED  BY <1>1, <1>2, PlainKeeps

LEMMA FlagWriteKeeps ==
  ASSUME IInv, NEW p \in Procs, FlagWrite(p)
  PROVE  IInv'
<1>1. p # Setter /\ proc[p].at # "idle" /\ ~Writing(p)
  BY Sweeping DEF FlagWrite, At, SweepStates, Writing, WritingStates
<1>2. proc[p].copy.number \in earned /\ proc[p].copy.last \in Users \cup {Nobody}
  BY LocalState DEF Locals, Rows, Sensible
<1>3. UNCHANGED <<windowRows, applied, blocked, cut, covers, due, disabled, messages, sends>>
      /\ earned' = earned /\ disturbances' = disturbances
  BY DEF FlagWrite, World, counters
<1>. QED  BY <1>1, <1>2, <1>3, SweepOnMoves, UpsertKeeps DEF FlagWrite, IInv, TypeOK, TablesTyped

LEMMA ReceiveKeeps ==
  ASSUME IInv, NEW h \in Handlers, NEW user \in Users, NEW n \in Numbers, Receive(h, user, n)
  PROVE  IInv'
<1>. DEFINE l == [Idle EXCEPT !.at = "mode", !.author = user, !.posted = n, !.seen = Row]
<1>1. h \in Procs /\ ~Writing(h) /\ "mode" \in StatesOf(h)
  BY Handling DEF Receive, At, Writing, WritingStates, HandlerStates
<1>2. l \in Locals /\ l.at = "mode"
  BY <1>1, IdleSensible, BlankRow, AllStates DEF Locals
<1>3. Sensible(h, l)
  BY <1>1, IdleSensible, BlankRow DEF Sensible, Locals, HandStates, CancelStates, OpeningStates
<1>4. MovesQuietly(h)
  BY <1>1, <1>2, <1>3, EditMoves DEF Receive, WritingStates
<1>5. TablesTyped' /\ EarnedFromZero' /\ covers' \subseteq Windows
  BY BoundsAssumption DEF Receive, IInv, TypeOK, TablesTyped, EarnedFromZero, WindowsKnown, countRow, windowRows
<1>. QED  BY <1>1, <1>4, <1>5, PlainKeeps DEF Receive

LEMMA ReadModeKeeps ==
  ASSUME IInv, NEW h \in Handlers, ReadMode(h)
  PROVE  IInv'
<1>. DEFINE step == IF disabled THEN "block" ELSE "sweep"
            l == [proc[h] EXCEPT !.skip = disabled, !.at = step]
<1>1. h \in Procs /\ ~Writing(h) /\ proc[h].at # "idle" /\ step \in StatesOf(h)
      /\ step \notin WritingStates
  BY Handling DEF ReadMode, At, Writing, WritingStates, HandlerStates, SweepStates
<1>2. l \in Locals /\ l.at = step
  BY <1>1, LocalState, AllStates DEF Locals, IInv, TypeOK, TablesTyped
<1>3. Sensible(h, l)
  BY <1>1, LocalState DEF Sensible, Locals, HandStates, CancelStates, OpeningStates
<1>4. MovesQuietly(h)
  BY <1>1, <1>2, <1>3, EditMoves DEF ReadMode
<1>. QED  BY <1>1, <1>4, ReadKeeps DEF ReadMode

LEMMA CheckBlockKeeps ==
  ASSUME IInv, NEW h \in Handlers, CheckBlock(h)
  PROVE  IInv'
<1>1. h \in Procs /\ h # Ticker /\ ~Writing(h) /\ proc[h].at # "idle"
      /\ "active" \in StatesOf(h)
  BY Handling DEF CheckBlock, At, Writing, WritingStates, HandlerStates
<1>2. CASE Done(h)
  BY <1>1, <1>2, DoneMoves, ReadKeeps DEF CheckBlock
<1>3. CASE Judge(h, proc[h].seen)
  <2>1. proc[h].seen \in Rows /\ proc[h].seen.number \in earned
    BY <1>1, LocalState DEF Locals, Sensible
  <2>. QED  BY <1>1, <1>3, <2>1, JudgeMoves, ReadKeeps DEF CheckBlock
<1>4. CASE Goto(h, "active")
  <2>. DEFINE l == [proc[h] EXCEPT !.at = "active"]
  <2>1. l \in Locals /\ l.at = "active"
    BY <1>1, LocalState, AllStates DEF Locals
  <2>2. Sensible(h, l)
    BY <1>1, LocalState DEF Sensible, Locals, HandStates, CancelStates, OpeningStates
  <2>3. MovesQuietly(h)
    BY <1>1, <1>4, <2>1, <2>2, EditMoves DEF Goto, WritingStates
  <2>. QED  BY <1>1, <2>3, ReadKeeps DEF CheckBlock
<1>. QED  BY <1>2, <1>3, <1>4 DEF CheckBlock

LEMMA CheckWindowKeeps ==
  ASSUME IInv, NEW h \in Handlers, CheckWindow(h)
  PROVE  IInv'
<1>1. h \in Procs /\ h # Ticker /\ ~Writing(h) /\ proc[h].at # "idle"
      /\ "expire" \in StatesOf(h)
  BY Handling DEF CheckWindow, At, Writing, WritingStates, HandlerStates, SweepStates
<1>2. CASE Done(h)
  BY <1>1, <1>2, DoneMoves, ReadKeeps DEF CheckWindow
<1>3. CASE Judge(h, proc[h].seen)
  <2>1. proc[h].seen \in Rows /\ proc[h].seen.number \in earned
    BY <1>1, LocalState DEF Locals, Sensible
  <2>. QED  BY <1>1, <1>3, <2>1, JudgeMoves, ReadKeeps DEF CheckWindow
<1>4. ASSUME NEW w \in WindowIds, IsLatest(w),
             proc' = [proc EXCEPT ![h].at = "expire", ![h].hand = w, ![h].reread = TRUE]
      PROVE  IInv'
  <2>. DEFINE l == [proc[h] EXCEPT !.at = "expire", !.hand = w, !.reread = TRUE]
  <2>1. w \in Windows
    BY <1>4 DEF IsLatest, Open
  <2>2. l \in Locals /\ l.at = "expire"
    BY <1>1, <2>1, LocalState, AllStates DEF Locals
  <2>3. Sensible(h, l)
    BY <1>1, <2>1, LocalState DEF Sensible, Locals, CancelStates, OpeningStates
  <2>4. MovesQuietly(h)
    BY <1>1, <1>4, <2>2, <2>3, EditMoves DEF WritingStates
  <2>. QED  BY <1>1, <2>4, ReadKeeps DEF CheckWindow
<1>. QED  BY <1>2, <1>3, <1>4 DEF CheckWindow

LEMMA RereadKeeps ==
  ASSUME IInv, NEW h \in Handlers, Reread(h)
  PROVE  IInv'
<1>1. h \in Procs /\ ~Writing(h) /\ proc[h].at # "idle"
  BY Handling DEF Reread, At, Writing, WritingStates
<1>. QED  BY <1>1, BlankRow, JudgeMoves, ReadKeeps DEF Reread

LEMMA CancelListKeeps ==
  ASSUME IInv, NEW p \in Procs, CancelList(p)
  PROVE  IInv'
<1>1. ~Writing(p) /\ proc[p].at \in CancelStates /\ Open \subseteq Windows
  BY DEF CancelList, At, Writing, WritingStates, CancelStates, Open
<1>. QED  BY <1>1, CancelOnMoves, ReadKeeps DEF CancelList

LEMMA CountKeeps ==
  ASSUME IInv, NEW h \in Handlers, Count(h)
  PROVE  IInv'
<1>1. h \in Procs /\ h # Ticker /\ ~Writing(h) /\ proc[h].at # "idle"
  BY Handling DEF Count, At, Writing, WritingStates
<1>2. /\ proc[h].posted = proc[h].seen.number + 1 /\ proc[h].seen.number \in earned
      /\ proc[h].posted \in Numbers /\ proc[h].author \in Users
      /\ proc[h].seen.number \in Nat
  BY <1>1, LocalState, BoundsAssumption DEF Count, At, Sensible, Locals, Rows, Numbers, Following
<1>3. earned' = earned \cup {proc[h].posted}
  BY <1>2 DEF Count
<1>4. UNCHANGED <<windowRows, applied, blocked, cut, covers, due, disabled, messages, sends>>
      /\ earned' \subseteq Numbers /\ disturbances' \in 0..MaxDisturbances
  BY <1>2, <1>3 DEF Count, counters, IInv, TypeOK, TablesTyped
<1>. QED  BY <1>1, <1>2, <1>3, <1>4, DoneMoves, UpsertKeeps DEF Count

LEMMA ResetKeeps ==
  ASSUME IInv, NEW h \in Handlers, Reset(h)
  PROVE  IInv'
<1>1. h \in Procs /\ h # Ticker /\ ~Writing(h)
  BY Handling DEF Reset, At, Writing, WritingStates
<1>2. UNCHANGED <<windowRows, applied, blocked, cut, covers, due, disabled, messages, sends>>
      /\ 0 \in earned' /\ earned' = earned /\ disturbances' \in 0..MaxDisturbances
      /\ earned \subseteq Numbers
  BY DEF Reset, World, counters, IInv, TypeOK, TablesTyped, EarnedFromZero
<1>. QED  BY <1>1, <1>2, DoneMoves, UpsertKeeps DEF Reset

LEMMA WindowReadKeeps ==
  ASSUME IInv, NEW h \in Handlers, WindowRead(h)
  PROVE  IInv'
<1>. DEFINE l == [proc[h] EXCEPT !.at = "windowFlag", !.copy = Row]
<1>1. h \in Procs /\ ~Writing(h) /\ proc[h].at # "idle" /\ "windowFlag" \in StatesOf(h)
  BY Handling DEF WindowRead, At, Writing, WritingStates, HandlerStates
<1>2. l \in Locals /\ l.at = "windowFlag"
  BY <1>1, LocalState, BlankRow, AllStates DEF Locals
<1>3. proc[h].author \in Subs \cup Dommes
  BY <1>1, LocalState DEF WindowRead, At, Sensible, OpeningStates
<1>4. Sensible(h, l)
  BY <1>1, <1>3, LocalState, BlankRow DEF Sensible, Locals, HandStates, CancelStates
<1>5. MovesQuietly(h)
  BY <1>1, <1>2, <1>4, EditMoves DEF WindowRead, WritingStates
<1>. QED  BY <1>1, <1>5, ReadKeeps DEF WindowRead

LEMMA WindowFlagKeeps ==
  ASSUME IInv, NEW h \in Handlers, WindowFlag(h)
  PROVE  IInv'
<1>. DEFINE l == [proc[h] EXCEPT !.at = "windowClear", !.copy = Blank]
<1>1. h \in Procs /\ ~Writing(h) /\ proc[h].at # "idle" /\ "windowClear" \in StatesOf(h)
  BY Handling DEF WindowFlag, At, Writing, WritingStates, HandlerStates
<1>2. l \in Locals /\ l.at = "windowClear"
  BY <1>1, LocalState, BlankRow, AllStates DEF Locals
<1>3. proc[h].author \in Subs \cup Dommes
  BY <1>1, LocalState DEF WindowFlag, At, Sensible, OpeningStates
<1>4. Sensible(h, l)
  BY <1>1, <1>3, LocalState, BlankRow DEF Sensible, Locals, HandStates, CancelStates
<1>5. MovesQuietly(h)
  BY <1>1, <1>2, <1>4, EditMoves DEF WindowFlag, WritingStates
<1>6. proc[h].copy.number \in earned /\ proc[h].copy.last \in Users \cup {Nobody}
  BY <1>1, LocalState DEF Locals, Rows, Sensible
<1>7. UNCHANGED <<windowRows, applied, blocked, cut, covers, due, disabled, messages, sends>>
      /\ earned' = earned /\ disturbances' \in 0..MaxDisturbances /\ earned \subseteq Numbers
  BY DEF WindowFlag, World, counters, IInv, TypeOK, TablesTyped
<1>. QED  BY <1>1, <1>5, <1>6, <1>7, UpsertKeeps DEF WindowFlag

LEMMA QueueProc ==
  Queue \in Procs /\ Queue # Ticker /\ Queue # Setter /\ Queue \notin Handlers
  /\ StatesOf(Queue) = QueueStates
BY ProcsAssumption DEF Procs, Queue, Ticker, Setter, StatesOf

LEMMA TakeSendKeeps ==
  ASSUME IInv, NEW user \in Subs \cup Dommes, NEW k \in Windows, TakeSend(user, k)
  PROVE  IInv'
<1>. DEFINE l == [proc[Queue] EXCEPT !.at = "sweep"]
<1>1. ~Writing(Queue) /\ "sweep" \in StatesOf(Queue)
  BY QueueProc DEF TakeSend, At, Writing, WritingStates, QueueStates, SweepStates
<1>2. l \in Locals /\ l.at = "sweep"
  BY <1>1, QueueProc, LocalState, AllStates DEF Locals
<1>3. Sensible(Queue, l)
  BY QueueProc, LocalState DEF Sensible, Locals, HandStates, CancelStates, OpeningStates
<1>4. MovesQuietly(Queue)
  BY <1>1, <1>2, <1>3, EditMoves DEF TakeSend, Goto, WritingStates
<1>5. covers' \subseteq Windows /\ covers' \subseteq WindowIds
  BY KnownIds, BoundsAssumption DEF TakeSend, Windows, IInv, TypeOK, TablesTyped
<1>6. TablesTyped' /\ EarnedFromZero'
  BY <1>5, BoundsAssumption
     DEF TakeSend, IInv, TypeOK, TablesTyped, EarnedFromZero, countRow, windowRows
<1>. QED  BY <1>1, <1>4, <1>5, <1>6, QueueProc, PlainKeeps DEF TakeSend

LEMMA RescueListKeeps ==
  ASSUME IInv, RescueList
  PROVE  IInv'
<1>1. ~Writing(Queue)
  BY DEF RescueList, At, Writing, WritingStates
<1>2. MovesQuietly(Queue)
  <2>1. {w \in Open \cap covers : ~IsDue(w)} \subseteq Windows
    BY DEF Open
  <2>. QED  BY <2>1, RescueOnMoves DEF RescueList
<1>3. TablesTyped' /\ EarnedFromZero' /\ covers' \subseteq Windows
  BY DEF RescueList, World, counters, IInv, TypeOK, TablesTyped, EarnedFromZero, countRow, windowRows
<1>. QED  BY <1>1, <1>2, <1>3, QueueProc, PlainKeeps DEF RescueList, World

LEMMA SetterProc ==
  Setter \in Procs /\ Setter # Ticker /\ Setter # Queue /\ Setter \notin Handlers
  /\ StatesOf(Setter) = SetterStates
BY ProcsAssumption DEF Procs, Queue, Ticker, Setter, StatesOf

LEMMA OwnerSetsKeeps ==
  ASSUME IInv, OwnerSets
  PROVE  IInv'
<1>. DEFINE step == IF Open = {} THEN "set" ELSE "cancelEach"
            l == [proc[Setter] EXCEPT !.then = "set", !.todo = Open, !.at = step]
<1>1. ~Writing(Setter) /\ step \in StatesOf(Setter) /\ step \in {"set", "cancelEach"}
  BY SetterProc DEF OwnerSets, At, Writing, WritingStates, SetterStates
<1>2. Open \subseteq Windows /\ Open \subseteq WindowIds
  BY KnownIds DEF Open
<1>3. l \in Locals /\ l.at = step
  BY <1>1, <1>2, SetterProc, LocalState, AllStates DEF Locals
<1>4. Sensible(Setter, l)
  BY <1>1, <1>2, SetterProc, LocalState DEF Sensible, Locals, HandStates, OpeningStates
<1>5. l.at \notin WritingStates
  BY <1>1, <1>3 DEF WritingStates
<1>6. MovesQuietly(Setter)
  BY <1>1, <1>3, <1>4, <1>5, EditMoves DEF OwnerSets
<1>7. TablesTyped' /\ EarnedFromZero' /\ covers' \subseteq Windows
  BY BoundsAssumption DEF OwnerSets, Disturb, IInv, TypeOK, TablesTyped, EarnedFromZero, WindowsKnown,
     countRow, windowRows
<1>. QED  BY <1>1, <1>6, <1>7, SetterProc, PlainKeeps DEF OwnerSets

LEMMA SetNumberKeeps ==
  ASSUME IInv, NEW n \in SetTo, SetNumber(n)
  PROVE  IInv'
<1>1. ~Writing(Setter)
  BY DEF SetNumber, At, Writing, WritingStates
<1>2. MovesQuietly(Setter)
  BY SetterProc, DoneMoves DEF SetNumber
<1>3. earned' = earned \cup {n} /\ n \in Numbers /\ earned \subseteq Numbers
  BY BoundsAssumption DEF SetNumber, Numbers, IInv, TypeOK, TablesTyped
<1>4. disturbances' \in 0..MaxDisturbances
  BY BoundsAssumption DEF SetNumber, Disturb, IInv, TypeOK, TablesTyped
<1>. QED  BY <1>1, <1>2, <1>3, <1>4, SetterProc, UpsertKeeps DEF SetNumber

-----------------------------------------------------------------------------
(***************************************************************************)
(* The steps that open and cancel windows.                                 *)
(***************************************************************************)
\* Open windows may be cancelled by anyone who is not carrying out an outcome.
LEMMA CancelledKeeps ==
  ASSUME IInv, NEW p \in Procs, MovesQuietly(p), ~Writing(p), NEW S \in SUBSET Open,
         resolution' = [w \in WindowIds |-> IF w \in S THEN "cancelled" ELSE resolution[w]],
         UNCHANGED <<World, countRow, failed, expected, lastWindow, blocked, covers, applied>>
  PROVE  IInv'
<1>. USE DEF IInv, TypeOK
<1>1. \A w \in WindowIds :
        resolution'[w] = IF w \in S THEN "cancelled" ELSE resolution[w]
  OBVIOUS
<1>2. OutcomesKept
  BY <1>1 DEF OutcomesKept, Open, World
<1>3. resolution' \in [WindowIds ->
        {"absent", "open", "recovered", "blocked", "reset", "cancelled"}]
  BY DEF TablesTyped
<1>4. TablesTyped'
  BY <1>3 DEF TablesTyped, World, counters, countRow
<1>5. WindowsKnown'
  BY <1>1 DEF WindowsKnown, World, Open, Windows
<1>6. EarnedFromZero'
  BY DEF EarnedFromZero, World, countRow
<1>. QED  BY <1>2, <1>4, <1>5, <1>6, QuietKeeps DEF World

LEMMA CancelNextKeeps ==
  ASSUME IInv, NEW p \in Procs, CancelNext(p)
  PROVE  IInv'
<1>1. ~Writing(p) /\ proc[p].at \in CancelStates
  BY DEF CancelNext, At, Writing, WritingStates, CancelStates
<1>2. PICK w \in proc[p].todo : CancelOn(p, proc[p].todo \ {w}) /\ Resolve(w, "cancelled")
  BY DEF CancelNext
<1>3. proc[p].todo \subseteq Windows
  BY LocalState DEF Sensible
<1>4. MovesQuietly(p)
  BY <1>1, <1>2, <1>3, CancelOnMoves
<1>. DEFINE S == {v \in Open : v = w}
<1>5. resolution' = [v \in WindowIds |-> IF v \in S THEN "cancelled" ELSE resolution[v]]
  BY <1>2, <1>3, KnownIds DEF Resolve, MayResolve, Open, IInv, TypeOK, TablesTyped
<1>. QED  BY <1>1, <1>2, <1>4, <1>5, CancelledKeeps DEF CancelNext, Resolve

LEMMA WindowClearKeeps ==
  ASSUME IInv, NEW h \in Handlers, WindowClear(h)
  PROVE  IInv'
<1>. DEFINE l == [proc[h] EXCEPT !.at = "windowInsert"]
<1>1. h \in Procs /\ ~Writing(h) /\ proc[h].at # "idle" /\ "windowInsert" \in StatesOf(h)
  BY Handling DEF WindowClear, At, Writing, WritingStates, HandlerStates
<1>2. l \in Locals /\ l.at = "windowInsert"
  BY <1>1, LocalState, AllStates DEF Locals
<1>3. proc[h].author \in Subs \cup Dommes
  BY <1>1, LocalState DEF WindowClear, At, Sensible, OpeningStates
<1>4. Sensible(h, l)
  BY <1>1, <1>3, LocalState DEF Sensible, Locals, HandStates, CancelStates
<1>5. MovesQuietly(h)
  BY <1>1, <1>2, <1>4, EditMoves DEF WindowClear, Goto, WritingStates
<1>. QED  BY <1>1, <1>5, CancelledKeeps DEF WindowClear

LEMMA WindowInsertKeeps ==
  ASSUME IInv, NEW h \in Handlers, WindowInsert(h)
  PROVE  IInv'
<1>. DEFINE w == lastWindow + 1
<1>. USE DEF IInv, TypeOK
<1>1. h \in Procs /\ h # Ticker /\ ~Writing(h)
  BY Handling DEF WindowInsert, At, Writing, WritingStates
<1>2. proc[h].author \in Subs \cup Dommes /\ proc[h].seen.number \in earned
      /\ proc[h].seen.number \in 0..MaxNumber
  BY <1>1, LocalState DEF WindowInsert, At, Sensible, OpeningStates, Locals, Rows, Numbers
<1>3. MovesQuietly(h)
  BY <1>1, DoneMoves DEF WindowInsert
<1>4. w \in WindowIds /\ w \in Nat /\ w # lastWindow /\ lastWindow' = w /\ lastWindow \in Nat
      /\ resolution[w] = "absent" /\ applied[w] = 0
  BY BoundsAssumption DEF WindowInsert, TablesTyped, WindowsKnown, WindowIds
<1>5. \A v \in WindowIds \ {w} : resolution'[v] = resolution[v] /\ failed'[v] = failed[v]
        /\ expected'[v] = expected[v]
  BY DEF WindowInsert, TablesTyped
<1>6. resolution'[w] = "open" /\ failed'[w] = proc[h].author
      /\ expected'[w] = proc[h].seen.number + 1
  BY <1>4 DEF WindowInsert, TablesTyped, Following
<1>7. TablesTyped'
  <2>1. lastWindow' \in 0..MaxMessages
    BY <1>4, BoundsAssumption DEF WindowIds
  <2>2. proc[h].seen.number + 1 \in 0..(MaxNumber + 1)
    BY <1>2, BoundsAssumption
  <2>3. failed' \in [WindowIds -> Subs \cup Dommes \cup {Nobody}]
        /\ expected' \in [WindowIds -> 0..(MaxNumber + 1)]
        /\ resolution' \in [WindowIds ->
             {"absent", "open", "recovered", "blocked", "reset", "cancelled"}]
    BY <1>2, <2>2 DEF WindowInsert, TablesTyped, Following
  <2>. QED  BY <2>1, <2>3 DEF WindowInsert, TablesTyped, World, counters, countRow
<1>8. OutcomesKept
  BY <1>4, <1>5, <1>6 DEF OutcomesKept, WindowInsert, World
<1>9. WindowsKnown'
  <2>1. ASSUME NEW v \in WindowIds \ {w}
        PROVE  v \in Nat /\ (v <= w <=> v <= lastWindow)
    BY <1>4 DEF WindowIds
  <2>2. proc[h].author # Nobody /\ expected'[w] > 0 /\ expected'[w] - 1 = proc[h].seen.number
    BY <1>2, <1>6, RolesAssumption, BoundsAssumption DEF Users
  <2>3. covers \subseteq Windows'
    BY <1>4 DEF WindowsKnown, Windows
  <2>. QED  BY <1>2, <1>4, <1>5, <1>6, <2>1, <2>2, <2>3 DEF WindowsKnown, WindowInsert, World
<1>10. EarnedFromZero'
  BY DEF EarnedFromZero, WindowInsert, World, countRow
<1>. QED  BY <1>1, <1>3, <1>4, <1>7, <1>8, <1>9, <1>10, QuietKeeps DEF WindowInsert, World

-----------------------------------------------------------------------------
(***************************************************************************)
(* The steps that resolve a window and carry out its outcome.              *)
(***************************************************************************)
LEMMA HandKnown ==
  ASSUME IInv, NEW p \in Procs, proc[p].at \in HandStates
  PROVE  proc[p].hand \in Windows /\ proc[p].hand \in WindowIds
BY LocalState, KnownIds DEF Sensible

\* An open window owes nothing and is in nobody's hand to be written for.
LEMMA OpenUntouched ==
  ASSUME IInv, NEW w \in WindowIds, resolution[w] = "open"
  PROVE  applied[w] = 0 /\ \A p \in Procs : Writing(p) => proc[p].hand # w
<1>. USE DEF IInv, TypeOK
<1>1. applied[w] \in Nat /\ applied[w] <= Owed(w) /\ Owed(w) = 0
  BY DEF TablesTyped, OutcomeAppliedOnce, Owed
<1>2. \A p \in Procs : Writing(p) => proc[p].hand # w
  BY DEF OutcomeInHand, Writing, WritingStates, At
<1>. QED  BY <1>1, <1>2

\* A step that concerns one window, which nobody else has in hand.
LEMMA OutcomeKeeps ==
  ASSUME IInv, NEW p \in Procs, NEW local, MovesTo(p, local), NEW w \in Windows,
         \A v \in WindowIds \ {w} : resolution'[v] = resolution[v] /\ applied'[v] = applied[v],
         UNCHANGED <<failed, expected, lastWindow, covers, cut, earned>>,
         \A q \in Procs \ {p} : Writing(q) => proc[q].hand # w,
         Writing(p) => proc[p].hand = w,
         local.at \in WritingStates => local.hand = w,
         resolution'[w] # "absent", applied'[w] <= Owed(w)',
         applied'[w] = Owed(w)' \/ local.at \in WritingStates,
         local.at = "expireWrite" =>
           /\ resolution'[w] = IF failed[w] \in Dommes THEN "reset" ELSE "blocked"
           /\ applied'[w] = 0,
         local.at = "expireBlock" =>
           failed[w] \notin Dommes /\ resolution'[w] = "blocked" /\ applied'[w] = 1,
         local.at = "rescueWrite" => resolution'[w] = "recovered" /\ applied'[w] = 0,
         \A user \in blocked' : \E v \in WindowIds :
           failed[v] = user /\ resolution'[v] = "blocked",
         TablesTyped', EarnedFromZero'
  PROVE  IInv'
<1>. USE DEF IInv, TypeOK, ProcsTyped
<1>1. w \in WindowIds
  BY KnownIds
<1>2. \A q \in Procs \ {p} : proc'[q] = proc[q]
  BY DEF MovesTo
<1>3. proc'[p] = local
  BY DEF MovesTo
<1>4. WindowsKnown'
  BY DEF WindowsKnown, Windows
<1>5. OutcomeAppliedOnce'
  <2>1. ASSUME NEW v \in WindowIds \ {w}
        PROVE  /\ applied'[v] <= Owed(v)'
               /\ \/ applied'[v] = Owed(v)' \/ v \in cut'
                  \/ \E q \in Procs : Writing(q)' /\ proc'[q].hand = v
    <3>1. Owed(v)' = Owed(v)
      BY DEF Owed
    <3>. QED  BY <1>2, <3>1 DEF OutcomeAppliedOnce, Writing
  <2>2. applied'[w] = Owed(w)' \/ \E q \in Procs : Writing(q)' /\ proc'[q].hand = w
    BY <1>3 DEF Writing
  <2>. QED  BY <2>1, <2>2 DEF OutcomeAppliedOnce
<1>6. \A q \in Procs : Writing(q) => proc[q].hand \in WindowIds
  BY HandKnown DEF Writing, WritingStates, HandStates
<1>7. \A q \in Procs \ {p} : Writing(q) => proc[q].hand \in WindowIds \ {w}
  BY <1>6
<1>8. OutcomeInHand'
  <2>1. ASSUME NEW q \in Procs \ {p}
        PROVE  /\ At(q, "expireWrite")' =>
                    /\ resolution'[proc'[q].hand] =
                         IF failed'[proc'[q].hand] \in Dommes THEN "reset" ELSE "blocked"
                    /\ applied'[proc'[q].hand] = 0
               /\ At(q, "expireBlock")' =>
                    failed'[proc'[q].hand] \notin Dommes
                    /\ resolution'[proc'[q].hand] = "blocked" /\ applied'[proc'[q].hand] = 1
               /\ At(q, "rescueWrite")' =>
                    resolution'[proc'[q].hand] = "recovered" /\ applied'[proc'[q].hand] = 0
    BY <1>2, <1>7 DEF OutcomeInHand, At, Writing, WritingStates
  <2>2. /\ At(p, "expireWrite")' =>
             /\ resolution'[proc'[p].hand] =
                  IF failed'[proc'[p].hand] \in Dommes THEN "reset" ELSE "blocked"
             /\ applied'[proc'[p].hand] = 0
        /\ At(p, "expireBlock")' =>
             failed'[proc'[p].hand] \notin Dommes
             /\ resolution'[proc'[p].hand] = "blocked" /\ applied'[proc'[p].hand] = 1
        /\ At(p, "rescueWrite")' =>
             resolution'[proc'[p].hand] = "recovered" /\ applied'[proc'[p].hand] = 0
    BY <1>3 DEF At, WritingStates
  <2>3. ASSUME NEW q \in Procs, NEW r \in Procs \ {q}, Writing(q)', Writing(r)'
        PROVE  proc'[r].hand # proc'[q].hand
    <3>1. CASE q # p /\ r # p
      BY <1>2, <2>3, <3>1 DEF OutcomeInHand, Writing
    <3>2. CASE q = p
      BY <1>2, <1>3, <1>7, <2>3, <3>2 DEF Writing
    <3>3. CASE r = p
      BY <1>2, <1>3, <1>7, <2>3, <3>3 DEF Writing
    <3>. QED  BY <3>1, <3>2, <3>3
  <2>. QED  BY <2>1, <2>2, <2>3 DEF OutcomeInHand
<1>. QED  BY <1>4, <1>5, <1>8, MoveKeeps

LEMMA ExpireKeeps ==
  ASSUME IInv, NEW p \in Procs, Expire(p)
  PROVE  IInv'
<1>. USE DEF IInv, TypeOK
<1>1. p # Setter /\ proc[p].at # "idle" /\ ~Writing(p)
  BY Sweeping DEF Expire, At, SweepStates, Writing, WritingStates
<1>2. PICK w \in Windows : w = proc[p].hand /\ w \in WindowIds
  BY HandKnown DEF Expire, At, HandStates
<1>. DEFINE outcome == IF failed[w] \in Dommes THEN "reset" ELSE "blocked"
<1>3. CASE ~MayResolve(w)
  <2>1. UNCHANGED windowRows
    BY <1>2, <1>3 DEF Expire, Resolve, windowRows, TablesTyped
  <2>2. MovesQuietly(p)
    BY <1>1, <1>2, <1>3, ReturnMoves DEF Expire
  <2>. QED  BY <1>1, <2>1, <2>2, ReadKeeps DEF Expire
<1>4. CASE MayResolve(w)
  <2>. DEFINE l == [proc[p] EXCEPT !.at = "expireWrite"]
  <2>1. "expireWrite" \in StatesOf(p)
    BY <1>1 DEF StatesOf, TickerStates, QueueStates, HandlerStates, SweepStates
  <2>2. l \in Locals /\ l.at = "expireWrite" /\ l.hand = w
    BY <1>2, <2>1, LocalState, AllStates DEF Locals
  <2>3. Sensible(p, l)
    BY <1>1, <1>2, LocalState DEF Sensible, Locals, CancelStates, OpeningStates
  <2>4. MovesTo(p, l)
    BY <1>2, <1>4, <2>1, <2>2, <2>3 DEF Expire, Goto, MovesTo
  <2>5. resolution[w] = "open" /\ outcome \in {"reset", "blocked"}
        /\ resolution' = [resolution EXCEPT ![w] = outcome]
    BY <1>2, <1>4 DEF Expire, Resolve, MayResolve
  <2>6. \A v \in WindowIds \ {w} : resolution'[v] = resolution[v] /\ applied'[v] = applied[v]
    BY <2>5 DEF Expire, TablesTyped
  <2>7. resolution'[w] = outcome /\ applied'[w] = 0
    BY <1>2, <2>5, OpenUntouched DEF Expire, TablesTyped
  <2>8. TablesTyped' /\ EarnedFromZero'
    BY <2>5 DEF Expire, Resolve, World, counters, countRow, TablesTyped, EarnedFromZero
  <2>9. applied'[w] <= Owed(w)'
    BY <2>7 DEF Owed
  <2>10. UNCHANGED <<failed, expected, lastWindow, covers, cut, earned, blocked>>
    BY DEF Expire, Resolve, World
  <2>11. \A user \in blocked' : \E v \in WindowIds : failed[v] = user /\ resolution'[v] = "blocked"
    BY <2>5, <2>6, <2>10 DEF OutcomeAppliedOnce
  <2>12. \A q \in Procs \ {p} : Writing(q) => proc[q].hand # w
    BY <1>2, <2>5, OpenUntouched
  <2>. HIDE DEF l, outcome
  <2>. QED  BY <1>1, <1>2, <2>2, <2>4, <2>6, <2>7, <2>8, <2>9, <2>10, <2>11, <2>12, OutcomeKeeps
            DEF WritingStates, outcome
<1>. QED  BY <1>3, <1>4

\* What is known of the window in the hand of a process that writes for it.
LEMMA WritersHand ==
  ASSUME IInv, NEW p \in Procs, Writing(p)
  PROVE  /\ proc[p].hand \in Windows /\ proc[p].hand \in WindowIds
         /\ \A q \in Procs \ {p} : Writing(q) => proc[q].hand # proc[p].hand
         /\ expected[proc[p].hand] \in Nat /\ Restored(proc[p].hand) \in earned
<1>1. proc[p].hand \in Windows /\ proc[p].hand \in WindowIds
  BY HandKnown DEF Writing, WritingStates, HandStates
<1>2. \A q \in Procs \ {p} : Writing(q) => proc[q].hand # proc[p].hand
  BY DEF IInv, OutcomeInHand
<1>3. Restored(proc[p].hand) \in earned /\ expected[proc[p].hand] \in Nat
  BY <1>1 DEF IInv, TypeOK, TablesTyped, WindowsKnown, Restored, Windows
<1>. QED  BY <1>1, <1>2, <1>3

\* One of the writes for a window is made.
LEMMA WriteKeeps ==
  ASSUME IInv, NEW p \in Procs, Writing(p), Apply(proc[p].hand),
         NEW local, MovesTo(p, local),
         local.at \in WritingStates => local.at = "expireBlock" /\ local.hand = proc[p].hand,
         applied[proc[p].hand] + 1 <= Owed(proc[p].hand),
         applied[proc[p].hand] + 1 = Owed(proc[p].hand) \/ local.at = "expireBlock",
         local.at = "expireBlock" =>
           failed[proc[p].hand] \notin Dommes /\ resolution[proc[p].hand] = "blocked"
           /\ applied[proc[p].hand] = 0,
         UNCHANGED <<World, windowRows, covers>>,
         blocked' \subseteq Subs,
         \A user \in blocked' \ blocked : user = failed[proc[p].hand]
           /\ resolution[proc[p].hand] = "blocked",
         number' \in earned, last' \in Users \cup {Nobody}, pending' \in BOOLEAN
  PROVE  IInv'
<1>. USE DEF IInv, TypeOK
<1>0. PICK w \in Windows : w = proc[p].hand
  BY WritersHand
<1>1. w \in WindowIds /\ \A q \in Procs \ {p} : Writing(q) => proc[q].hand # w
  BY <1>0, WritersHand
<1>2. applied' = [applied EXCEPT ![w] = @ + 1] /\ applied \in [WindowIds -> Nat]
  BY <1>0 DEF Apply, TablesTyped
<1>3. \A v \in WindowIds \ {w} : resolution'[v] = resolution[v] /\ applied'[v] = applied[v]
  BY <1>2 DEF windowRows
<1>4. applied'[w] = applied[w] + 1 /\ applied[w] \in Nat /\ applied' \in [WindowIds -> Nat]
  BY <1>1, <1>2
<1>5. UNCHANGED <<failed, expected, lastWindow, covers, cut, earned, resolution>>
  BY DEF windowRows, World
<1>6. Owed(w)' = Owed(w)
  BY <1>5 DEF Owed
<1>7. TablesTyped' /\ EarnedFromZero'
  BY <1>4, <1>5 DEF TablesTyped, EarnedFromZero, World, counters, windowRows
<1>8. \A user \in blocked' : \E v \in WindowIds : failed[v] = user /\ resolution'[v] = "blocked"
  BY <1>0, <1>1, <1>5 DEF OutcomeAppliedOnce
<1>9. resolution'[w] # "absent"
  BY <1>1, <1>5 DEF WindowsKnown, Windows
<1>10. /\ local.at = "expireBlock" =>
            failed[w] \notin Dommes /\ resolution'[w] = "blocked" /\ applied'[w] = 1
       /\ local.at # "expireWrite" /\ local.at # "rescueWrite"
       /\ applied'[w] <= Owed(w)' /\ (applied'[w] = Owed(w)' \/ local.at \in WritingStates)
       /\ (local.at \in WritingStates => local.hand = w)
  BY <1>0, <1>4, <1>5, <1>6 DEF WritingStates
<1>. QED  BY <1>0, <1>1, <1>3, <1>5, <1>7, <1>8, <1>9, <1>10, OutcomeKeeps

LEMMA ExpireWriteKeeps ==
  ASSUME IInv, NEW p \in Procs, ExpireWrite(p)
  PROVE  IInv'
<1>. DEFINE w == proc[p].hand
<1>. USE DEF IInv, TypeOK
<1>1. p # Setter /\ proc[p].at = "expireWrite" /\ Writing(p)
  BY Sweeping DEF ExpireWrite, At, SweepStates, Writing, WritingStates
<1>2. w \in Windows /\ w \in WindowIds /\ Restored(w) \in earned
  BY <1>1, WritersHand
<1>3. resolution[w] = (IF failed[w] \in Dommes THEN "reset" ELSE "blocked") /\ applied[w] = 0
  BY <1>1 DEF OutcomeInHand, At
<1>4. UNCHANGED <<World, windowRows, covers>> /\ blocked' = blocked /\ blocked \subseteq Subs
      /\ Apply(w)
  BY DEF ExpireWrite, TablesTyped
<1>5. CASE failed[w] \in Dommes
  <2>1. Return(p) /\ Upsert(0, Nobody, FALSE)
    BY <1>5 DEF ExpireWrite
  <2>2. PICK local : MovesTo(p, local) /\ local.at \notin WritingStates
    BY <1>1, <2>1, ReturnMoves DEF MovesQuietly
  <2>3. Owed(w) = 1
    BY <1>3, <1>5 DEF Owed
  <2>4. number' \in earned /\ last' \in Users \cup {Nobody} /\ pending' \in BOOLEAN
    BY <2>1 DEF Upsert, EarnedFromZero
  <2>5. local.at # "expireBlock"
    BY <2>2 DEF WritingStates
  <2>. QED  BY <1>1, <1>3, <1>4, <2>2, <2>3, <2>4, <2>5, WriteKeeps
<1>6. CASE failed[w] \notin Dommes
  <2>. DEFINE l == [proc[p] EXCEPT !.at = "expireBlock"]
  <2>1. Goto(p, "expireBlock") /\ Upsert(Restored(w), Nobody, FALSE)
    BY <1>6 DEF ExpireWrite
  <2>2. "expireBlock" \in StatesOf(p)
    BY <1>1 DEF StatesOf, TickerStates, QueueStates, HandlerStates, SweepStates
  <2>3. l \in Locals /\ l.at = "expireBlock" /\ l.hand = w
    BY <2>2, LocalState, AllStates DEF Locals
  <2>4. Sensible(p, l)
    BY <1>1, <1>2, LocalState DEF Sensible, Locals, CancelStates, OpeningStates
  <2>5. MovesTo(p, l)
    BY <2>1, <2>2, <2>3, <2>4 DEF Goto, MovesTo
  <2>6. Owed(w) = 2
    BY <1>3, <1>6 DEF Owed
  <2>7. number' \in earned /\ last' \in Users \cup {Nobody} /\ pending' \in BOOLEAN
    BY <1>2, <2>1 DEF Upsert
  <2>. HIDE DEF l
  <2>. QED  BY <1>1, <1>3, <1>4, <1>6, <2>3, <2>5, <2>6, <2>7, WriteKeeps
<1>. QED  BY <1>5, <1>6

LEMMA ExpireBlockKeeps ==
  ASSUME IInv, NEW p \in Procs, ExpireBlock(p)
  PROVE  IInv'
<1>. DEFINE w == proc[p].hand
<1>. USE DEF IInv, TypeOK
<1>1. p # Setter /\ proc[p].at = "expireBlock" /\ Writing(p)
  BY Sweeping DEF ExpireBlock, At, SweepStates, Writing, WritingStates
<1>2. w \in Windows /\ w \in WindowIds
  BY <1>1, WritersHand
<1>3. failed[w] \notin Dommes /\ resolution[w] = "blocked" /\ applied[w] = 1
  BY <1>1 DEF OutcomeInHand, At
<1>4. failed[w] \in Subs
  BY <1>2, <1>3 DEF TablesTyped, WindowsKnown, Windows
<1>5. PICK local : MovesTo(p, local) /\ local.at \notin WritingStates
  BY <1>1, ReturnMoves DEF ExpireBlock, MovesQuietly
<1>6. Owed(w) = 2 /\ local.at # "expireBlock"
  BY <1>3, <1>5 DEF Owed, WritingStates
<1>7. UNCHANGED <<World, windowRows, covers>> /\ blocked' = blocked \cup {failed[w]}
      /\ Apply(w)
  BY DEF ExpireBlock
<1>8. number' \in earned /\ last' \in Users \cup {Nobody} /\ pending' \in BOOLEAN
      /\ blocked' \subseteq Subs
  BY <1>4, <1>7 DEF ExpireBlock, countRow, TablesTyped, EarnedFromZero
<1>. QED  BY <1>1, <1>3, <1>5, <1>6, <1>7, <1>8, WriteKeeps

LEMMA RescueNextKeeps ==
  ASSUME IInv, RescueNext
  PROVE  IInv'
<1>. USE DEF IInv, TypeOK
<1>1. ~Writing(Queue) /\ proc[Queue].todo \subseteq Windows
  BY QueueProc, LocalState DEF RescueNext, At, Writing, WritingStates, Sensible
<1>2. PICK w \in proc[Queue].todo :
        IF MayResolve(w)
          THEN /\ proc' = [proc EXCEPT ![Queue] = [Idle EXCEPT !.at = "rescueWrite", !.hand = w]]
               /\ Resolve(w, "recovered")
          ELSE RescueOn(proc[Queue].todo \ {w}) /\ UNCHANGED windowRows
  BY DEF RescueNext
<1>3. w \in Windows /\ w \in WindowIds
  BY <1>1, KnownIds
<1>4. CASE ~MayResolve(w)
  <2>1. MovesQuietly(Queue)
    BY <1>1, <1>2, <1>4, RescueOnMoves
  <2>. QED  BY <1>1, <1>2, <1>4, <2>1, QueueProc, ReadKeeps DEF RescueNext
<1>5. CASE MayResolve(w)
  <2>. DEFINE l == [Idle EXCEPT !.at = "rescueWrite", !.hand = w]
  <2>1. "rescueWrite" \in StatesOf(Queue)
    BY QueueProc DEF QueueStates
  <2>2. l \in Locals /\ l.at = "rescueWrite" /\ l.hand = w
    BY <1>3, <2>1, QueueProc, IdleSensible, AllStates DEF Locals
  <2>3. Sensible(Queue, l)
    BY <1>3, QueueProc, IdleSensible DEF Sensible, Locals, CancelStates, OpeningStates
  <2>4. MovesTo(Queue, l)
    BY <1>2, <1>5, <2>1, <2>2, <2>3 DEF MovesTo
  <2>5. resolution[w] = "open" /\ resolution' = [resolution EXCEPT ![w] = "recovered"]
    BY <1>2, <1>5 DEF Resolve, MayResolve
  <2>6. \A v \in WindowIds \ {w} : resolution'[v] = resolution[v] /\ applied'[v] = applied[v]
    BY <2>5 DEF RescueNext, TablesTyped
  <2>7. resolution'[w] = "recovered" /\ applied'[w] = 0
    BY <1>3, <2>5, OpenUntouched DEF RescueNext, TablesTyped
  <2>8. UNCHANGED <<failed, expected, lastWindow, covers, cut, earned, blocked>>
    BY <1>2, <1>5 DEF RescueNext, Resolve, World
  <2>9. TablesTyped' /\ EarnedFromZero'
    BY <2>5, <2>8 DEF RescueNext, World, counters, countRow, TablesTyped, EarnedFromZero
  <2>10. applied'[w] <= Owed(w)'
    BY <2>7 DEF Owed
  <2>11. \A user \in blocked' : \E v \in WindowIds : failed[v] = user /\ resolution'[v] = "blocked"
    BY <2>5, <2>6, <2>8 DEF OutcomeAppliedOnce
  <2>12. \A q \in Procs \ {Queue} : Writing(q) => proc[q].hand # w
    BY <1>3, <2>5, OpenUntouched
  <2>. HIDE DEF l
  <2>. QED  BY <1>1, <1>3, <2>2, <2>4, <2>6, <2>7, <2>8, <2>9, <2>10, <2>11, <2>12,
               QueueProc, OutcomeKeeps DEF WritingStates
<1>. QED  BY <1>4, <1>5

LEMMA RescueWriteKeeps ==
  ASSUME IInv, RescueWrite
  PROVE  IInv'
<1>. DEFINE w == proc[Queue].hand
<1>. USE DEF IInv, TypeOK
<1>1. proc[Queue].at = "rescueWrite" /\ Writing(Queue)
  BY DEF RescueWrite, At, Writing, WritingStates
<1>2. w \in Windows /\ w \in WindowIds /\ Restored(w) \in earned
  BY <1>1, QueueProc, WritersHand
<1>3. resolution[w] = "recovered" /\ applied[w] = 0 /\ Owed(w) = 1
  BY <1>1, QueueProc DEF OutcomeInHand, At, Owed
<1>4. MovesTo(Queue, Idle) /\ Idle.at \notin WritingStates /\ Idle.at # "expireBlock"
  BY QueueProc, IdleSensible DEF RescueWrite, Done, MovesTo, Idle, WritingStates
<1>5. UNCHANGED <<World, windowRows, covers>> /\ blocked' = blocked /\ blocked \subseteq Subs
      /\ Apply(w) /\ Upsert(Restored(w), Nobody, FALSE)
  BY DEF RescueWrite, TablesTyped
<1>6. number' \in earned /\ last' \in Users \cup {Nobody} /\ pending' \in BOOLEAN
  BY <1>2, <1>5 DEF Upsert
<1>. QED  BY <1>1, <1>3, <1>4, <1>5, <1>6, QueueProc, WriteKeeps

-----------------------------------------------------------------------------
(***************************************************************************)
(* Faults, and the steps of no process.                                    *)
(***************************************************************************)
\* The processes that are stopped leave the windows in their hands cut.
LEMMA FaultKeeps ==
  ASSUME IInv, NEW P \in SUBSET Procs, Fault(P), ProcsTyped', LocalsSensible',
         \A p \in Procs : IF p \in P THEN proc'[p].at \notin WritingStates
                                     ELSE proc'[p] = proc[p]
  PROVE  IInv'
<1>. USE DEF IInv, TypeOK
<1>1. UNCHANGED <<countRow, windowRows, applied, blocked, earned, due, disabled, messages, sends>>
      /\ covers' \subseteq covers /\ disturbances' \in 0..MaxDisturbances
  BY BoundsAssumption DEF Fault, Disturb, TablesTyped
<1>2. cut' = cut \cup {proc[p].hand : p \in {q \in P : Writing(q)}}
  BY DEF Fault
<1>3. cut' \subseteq WindowIds
  BY <1>2, WritersHand DEF TablesTyped
<1>4. TablesTyped'
  BY <1>1, <1>3 DEF TablesTyped, countRow, windowRows
<1>5. WindowsKnown' /\ EarnedFromZero'
  BY <1>1 DEF WindowsKnown, EarnedFromZero, Windows, windowRows, countRow
<1>6. \A p \in Procs : Writing(p) => (Writing(p)' /\ proc'[p] = proc[p]) \/ proc[p].hand \in cut'
  BY <1>2 DEF Writing
<1>7. \A p \in Procs : Writing(p)' => Writing(p) /\ proc'[p] = proc[p]
  BY DEF Writing
<1>8. \A w \in WindowIds : Owed(w)' = Owed(w)
  BY <1>1 DEF Owed, windowRows
<1>9. OutcomeAppliedOnce'
  BY <1>1, <1>2, <1>6, <1>8 DEF OutcomeAppliedOnce, windowRows
<1>10. OutcomeInHand'
  BY <1>1, <1>7 DEF OutcomeInHand, At, Writing, WritingStates, windowRows
<1>. QED  BY <1>4, <1>5, <1>9, <1>10

LEMMA RaisesKeeps ==
  ASSUME IInv, NEW p \in Procs, Raises(p)
  PROVE  IInv'
<1>. DEFINE step == IF p = Ticker THEN "dead" ELSE "idle"
            l == [Idle EXCEPT !.at = step]
<1>1. step \in StatesOf(p) /\ step \notin WritingStates
  BY DEF StatesOf, TickerStates, QueueStates, SetterStates, HandlerStates, WritingStates
<1>2. l \in Locals /\ l.at = step
  BY <1>1, IdleSensible, AllStates DEF Locals
<1>3. p = Ticker => p \notin Handlers
  BY ProcsAssumption
<1>4. Sensible(p, l)
  BY <1>3, IdleSensible DEF Sensible, Locals, HandStates, CancelStates, OpeningStates
<1>5. proc' = [proc EXCEPT ![p] = l]
  BY DEF Raises
<1>6. ProcsTyped'
  BY <1>1, <1>2, <1>5 DEF IInv, TypeOK, ProcsTyped
<1>7. lastWindow' = lastWindow /\ earned' = earned
  BY DEF Raises, Fault, windowRows
<1>8. \A q \in Procs : proc'[q] = IF q = p THEN l ELSE proc[q]
  BY <1>5 DEF IInv, TypeOK, ProcsTyped
<1>9. ASSUME NEW q, NEW local, Sensible(q, local) PROVE Sensible(q, local)'
  BY <1>7, <1>9 DEF Sensible, Windows
<1>10. LocalsSensible'
  <2>. HIDE DEF l
  <2>. QED  BY <1>4, <1>8, <1>9 DEF LocalsSensible, IInv
<1>11. \A q \in Procs : IF q \in {p} THEN proc'[q].at \notin WritingStates
                                     ELSE proc'[q] = proc[q]
  BY <1>1, <1>2, <1>8
<1>. QED  BY <1>6, <1>10, <1>11, FaultKeeps DEF Raises

LEMMA StartedSensible ==
  ASSUME IInv, NEW p \in Procs
  PROVE  Started[p] \in Locals /\ Started[p].at \in StatesOf(p) /\ Sensible(p, Started[p])
         /\ Started[p].at \notin WritingStates
<1>1. CASE p # Queue
  BY <1>1, IdleSensible DEF Started, Rest, Idle, WritingStates
<1>2. CASE p = Queue
  <2>. DEFINE l == [Idle EXCEPT !.at = "sweep"]
  <2>1. Started[p] = l /\ "sweep" \in StatesOf(p)
    BY <1>2, QueueProc DEF Started, QueueStates, SweepStates
  <2>2. l \in Locals /\ l.at = "sweep"
    BY <2>1, IdleSensible, AllStates DEF Locals
  <2>3. Sensible(p, l)
    BY <1>2, QueueProc, IdleSensible DEF Sensible, Locals, HandStates, CancelStates, OpeningStates
  <2>. QED  BY <2>1, <2>2, <2>3 DEF WritingStates
<1>. QED  BY <1>1, <1>2

LEMMA BotCrashKeeps ==
  ASSUME IInv, BotCrash
  PROVE  IInv'
<1>1. lastWindow' = lastWindow /\ earned' = earned /\ proc' = Started
  BY DEF BotCrash, Fault, windowRows
<1>2. Started = [p \in Procs |-> Started[p]]
  BY DEF Started
<1>3. ProcsTyped'
  BY <1>1, <1>2, StartedSensible DEF ProcsTyped
<1>4. ASSUME NEW q, NEW local, Sensible(q, local) PROVE Sensible(q, local)'
  BY <1>1, <1>4 DEF Sensible, Windows
<1>5. LocalsSensible'
  BY <1>1, <1>4, StartedSensible DEF LocalsSensible
<1>. QED  BY <1>1, <1>3, <1>5, StartedSensible, FaultKeeps DEF BotCrash

\* The mode is switched, a deadline passes, a block runs out, nothing happens.
LEMMA WorldKeeps ==
  ASSUME IInv, UNCHANGED <<countRow, windowRows, proc, covers, applied, cut, earned>>,
         blocked' \subseteq blocked, TablesTyped'
  PROVE  IInv'
<1>. USE DEF IInv, TypeOK, countRow, windowRows
<1>1. ProcsTyped'
  BY DEF ProcsTyped
<1>2. WindowsKnown' /\ LocalsSensible' /\ EarnedFromZero'
  BY DEF WindowsKnown, LocalsSensible, EarnedFromZero, Windows, Sensible
<1>3. OutcomeAppliedOnce' /\ OutcomeInHand'
  BY DEF OutcomeAppliedOnce, OutcomeInHand, Owed, Writing, At
<1>. QED  BY <1>1, <1>2, <1>3

LEMMA SwitchOfflineKeeps ==
  ASSUME IInv, SwitchOffline
  PROVE  IInv'
<1>1. TablesTyped'
  BY BoundsAssumption DEF SwitchOffline, Disturb, IInv, TypeOK, TablesTyped, countRow, windowRows
<1>. QED  BY <1>1, WorldKeeps DEF SwitchOffline

LEMMA DeadlineKeeps ==
  ASSUME IInv, NEW w \in WindowIds, Deadline(w)
  PROVE  IInv'
<1>1. TablesTyped'
  BY DEF Deadline, IInv, TypeOK, TablesTyped, countRow, windowRows, counters
<1>. QED  BY <1>1, WorldKeeps DEF Deadline

LEMMA UnblockKeeps ==
  ASSUME IInv, NEW user \in Subs, Unblock(user)
  PROVE  IInv'
<1>1. TablesTyped'
  BY DEF Unblock, World, IInv, TypeOK, TablesTyped, countRow, windowRows, counters
<1>. QED  BY <1>1, WorldKeeps DEF Unblock, World

-----------------------------------------------------------------------------
LEMMA InitIInv == Init => IInv
<1>. SUFFICES ASSUME Init PROVE IInv
  OBVIOUS
<1>. USE BoundsAssumption, RolesAssumption, ProcsAssumption DEF Init
<1>0. /\ failed \in [WindowIds -> Subs \cup Dommes \cup {Nobody}]
      /\ expected \in [WindowIds -> 0..(MaxNumber + 1)]
      /\ resolution \in [WindowIds ->
           {"absent", "open", "recovered", "blocked", "reset", "cancelled"}]
      /\ applied \in [WindowIds -> Nat] /\ 0 \in Numbers
  BY DEF Numbers
<1>1. TablesTyped /\ EarnedFromZero
  <2>1. number \in Numbers /\ earned \subseteq Numbers /\ 0 \in earned /\ number \in earned
    BY <1>0
  <2>2. /\ last \in Users \cup {Nobody} /\ pending \in BOOLEAN /\ disabled \in BOOLEAN
        /\ due \subseteq WindowIds /\ blocked \subseteq Subs /\ covers \subseteq WindowIds
        /\ cut \subseteq WindowIds
    OBVIOUS
  <2>3. /\ lastWindow \in 0..MaxMessages /\ messages \in 0..MaxMessages
        /\ sends \in 0..MaxSends /\ disturbances \in 0..MaxDisturbances
    OBVIOUS
  <2>. QED  BY ONLY <1>0, <2>1, <2>2, <2>3 DEF TablesTyped, EarnedFromZero
<1>2. WindowsKnown
  BY DEF WindowsKnown, Windows, WindowIds
<1>. DEFINE began == [Idle EXCEPT !.at = "sweep"]
<1>3. \A p \in Procs : proc[p] = (IF p \in {Ticker, Queue} THEN began ELSE Idle)
  BY DEF Started, Rest
<1>4. proc \in [Procs -> {Idle, began}]
  BY DEF Started, Rest
<1>5. Idle \in Locals /\ began \in Locals
  <2>1. Blank \in Rows
    BY <1>0 DEF Blank, Rows
  <2>2. "idle" \in QueueStates /\ "sweep" \in QueueStates
    BY DEF QueueStates, SweepStates
  <2>. QED  BY <1>0, <2>1, <2>2 DEF Idle, Locals, NoWindow
<1>6. Idle.at = "idle" /\ began.at = "sweep"
  BY DEF Idle
<1>7. ProcsTyped
  <2>1. \A p \in Procs : proc[p].at \in StatesOf(p)
    BY <1>3, <1>6 DEF StatesOf, TickerStates, QueueStates, SetterStates, HandlerStates,
                      SweepStates
  <2>. QED  BY <1>4, <1>5, <2>1 DEF ProcsTyped
<1>8. LocalsSensible
  <2>1. ASSUME NEW p \in Procs PROVE Sensible(p, Idle)
    BY DEF Sensible, Idle, Blank, HandStates, CancelStates, OpeningStates
  <2>2. ASSUME NEW p \in Procs \ Handlers PROVE Sensible(p, began)
    BY DEF Sensible, Idle, Blank, HandStates, CancelStates, OpeningStates
  <2>3. \A p \in Procs : p \in {Ticker, Queue} => p \in Procs \ Handlers
    OBVIOUS
  <2>. HIDE DEF began
  <2>. QED  BY ONLY <1>3, <2>1, <2>2, <2>3 DEF LocalsSensible
<1>9. \A p \in Procs : ~Writing(p)
  BY <1>3, <1>6 DEF Writing, WritingStates
<1>10. OutcomeAppliedOnce
  BY DEF OutcomeAppliedOnce, Owed
<1>11. OutcomeInHand
  BY <1>9 DEF OutcomeInHand, At, Writing, WritingStates
<1>. QED  BY <1>1, <1>2, <1>7, <1>8, <1>10, <1>11 DEF IInv, TypeOK

LEMMA StepKeeps == IInv /\ [Next]_vars => IInv'
<1>. SUFFICES ASSUME IInv, [Next]_vars PROVE IInv'
  OBVIOUS
<1>1. ASSUME NEW p \in Procs, Sweep(p) \/ Cancel(p) \/ Raises(p) PROVE IInv'
  BY <1>1, SweepListKeeps, SweepGateKeeps, FlagReadKeeps, FlagWriteKeeps, ExpireKeeps,
     ExpireWriteKeeps, ExpireBlockKeeps, CancelListKeeps, CancelNextKeeps, RaisesKeeps
     DEF Sweep, Cancel
<1>2. ASSUME NEW h \in Handlers, Handle(h) PROVE IInv'
  BY <1>2, ReadModeKeeps, CheckBlockKeeps, CheckWindowKeeps, RereadKeeps, CountKeeps,
     ResetKeeps, WindowReadKeeps, WindowFlagKeeps, WindowClearKeeps, WindowInsertKeeps
     DEF Handle
<1>3. CASE \E h \in Handlers, user \in Users, n \in Numbers : Receive(h, user, n)
  BY <1>3, ReceiveKeeps
<1>4. CASE (\E user \in Subs \cup Dommes, k \in Windows : TakeSend(user, k)) \/ Rescue
  BY <1>4, TakeSendKeeps, RescueListKeeps, RescueNextKeeps, RescueWriteKeeps DEF Rescue
<1>5. CASE OwnerSets \/ (\E n \in SetTo : SetNumber(n)) \/ SwitchOffline
  BY <1>5, OwnerSetsKeeps, SetNumberKeeps, SwitchOfflineKeeps
<1>6. CASE (\E w \in WindowIds : Deadline(w)) \/ (\E user \in Subs : Unblock(user)) \/ BotCrash
  BY <1>6, DeadlineKeeps, UnblockKeeps, BotCrashKeeps
<1>7. CASE UNCHANGED vars
  <2>1. TablesTyped'
    BY <1>7 DEF vars, counters, countRow, windowRows, IInv, TypeOK, TablesTyped
  <2>. QED  BY <1>7, <2>1, WorldKeeps DEF vars
<1>. QED  BY <1>1, <1>2, <1>3, <1>4, <1>5, <1>6, <1>7 DEF Next

LEMMA Inductive == Spec => []IInv
BY InitIInv, StepKeeps, PTL DEF Spec

-----------------------------------------------------------------------------
\* Every row, counter and local state of the counting service has its type,
\* whatever the interleaving of messages, sweeps, sends and crashes.
THEOREM TypeCorrect == Spec => []TypeOK
BY Inductive, PTL DEF IInv

\* A recovery window's outcome (saved, reset, blocked, cancelled) is decided
\* once and carried out once by the process that decided it: the conditional
\* UPDATE of resolve_recovery_window is enough, with any number of messages
\* and sweeps at the same time.
THEOREM OutcomeAppliedOnceCorrect == Spec => []OutcomeAppliedOnce
BY Inductive, PTL DEF IInv

\* The count never skips a number, although whole rows are written back from
\* copies that may be out of date.
THEOREM NumberEarnedCorrect == Spec => []NumberEarned
<1>1. IInv => NumberEarned
  BY DEF IInv, EarnedFromZero, NumberEarned
<1>. QED  BY <1>1, Inductive, PTL
=============================================================================
