------------------------------ MODULE RowProofs ------------------------------
(***************************************************************************)
(* Proofs about the rows the order path commits: no write ever runs into a *)
(* guard of the repository, a settled row tells the whole truth, the       *)
(* configuration follows the cycle, a stage holds what the log and the     *)
(* exchange say of its orders, and the order path implements StageLedger.  *)
(***************************************************************************)
EXTENDS EngineProofs, SumProofs

---------------------------------------------------------------------------
(* Shapes of the steps *)

LEMMA Updated ==
  ASSUME NEW row \in LogRow, NEW st \in Live \cup Terminal, NEW f \in Qty
  PROVE  /\ LogUpdate(row, st, f) \in LogRow
         /\ LogUpdate(row, st, f).st = st
         /\ LogUpdate(row, st, f).req = row.req
         /\ LogUpdate(row, st, f).fill = IF f > 0 THEN f ELSE row.fill
<1>1. LogUpdate(row, st, f) \in LogRow
  BY LogTypes
<1> QED
  BY <1>1 DEF LogUpdate, LogRow

\* Every step writes at most one stage row, and save_stage accepts it.
StageStep ==
  \/ stage' = stage
  \/ \E s \in Stages : \E row \in StageRow :
       /\ stage' = [stage EXCEPT ![s] = row]
       /\ StageAccepts(stage[s], row)
       /\ row.qty > 0 <=> Holds(row)

\* The transition into PENDING.
LEMMA PendingAccepted ==
  ASSUME NEW row \in StageRow, NEW side \in Sides, row.qty > 0 <=> Holds(row),
         row.status = IF side = "BUY" THEN "WAITING" ELSE "HOLDING"
  PROVE  /\ StageAccepts(row, ToPending(row, side))
         /\ ToPending(row, side).qty > 0 <=> Holds(ToPending(row, side))
BY DEF StageRow, StageStatus, StageAccepts, ToPending, PendingAs, Allowed, Holds, Sides

\* Back from PENDING without a fill.
LEMMA RestoreAccepted ==
  ASSUME NEW row \in StageRow, row.qty > 0 <=> Holds(row), Pending(row)
  PROVE  /\ StageAccepts(row, Restored(row))
         /\ Restored(row).qty > 0 <=> Holds(Restored(row))
BY DEF StageRow, StageStatus, StageAccepts, Restored, CancelBuy, CancelSell, Allowed,
       Holds, Pending

\* And with one.
LEMMA ApplyAccepted ==
  ASSUME NEW row \in StageRow, row.qty > 0 <=> Holds(row), Pending(row),
         NEW f \in Qty, f > 0
  PROVE  /\ StageAccepts(row, Applied(row, f))
         /\ Applied(row, f).qty > 0 <=> Holds(Applied(row, f))
<1> USE StageAssumption DEF Qty
<1>1. CASE row.status = "BUY_PENDING"
  BY <1>1 DEF Applied, ToHolding, StageAccepts, Allowed, Holds, StageRow, StageStatus
<1>2. CASE row.status = "SELL_PENDING"
  <2>1. CASE f >= row.qty
    BY <1>2, <2>1 DEF Applied, AfterSell, StageAccepts, Allowed, Holds, StageRow
  <2>2. CASE ~(f >= row.qty)
    <3>1. /\ Applied(row, f) = [row EXCEPT !.status = "HOLDING", !.qty = row.qty - f]
          /\ row.qty - f \in Nat /\ row.qty - f > 0 /\ row.qty - f < row.qty
      BY <1>2, <2>2 DEF Applied, CancelSell, StageRow
    <3> QED
      BY <1>2, <3>1 DEF StageAccepts, Allowed, Holds, StageRow
  <2> QED
    BY <2>1, <2>2
<1> QED
  BY <1>1, <1>2 DEF Pending

LEMMA EveryStageStep ==
  ASSUME TypeInv, OrderInv, ShapeInv, AmountInv, [Next]_vars PROVE StageStep
<1> USE DEF TypeInv, TypeOK, StageStep
<1>1. CASE MarkPending
  <2> DEFINE s == log[cur].stage
             row == ToPending(stage[s], log[cur].side)
  <2>1. cur \in Refs /\ s \in Stages /\ log[cur].side \in Sides
    BY <1>1 DEF MarkPending, OrderInv, PcInv, Sending, LogRow
  <2>2. stage[s].status = IF log[cur].side = "BUY" THEN "WAITING" ELSE "HOLDING"
    BY <1>1 DEF MarkPending, OrderInv, PcInv
  <2>3. /\ row \in StageRow
        /\ StageAccepts(stage[s], row)
        /\ row.qty > 0 <=> Holds(row)
    BY <2>1, <2>2, RowTypes, PendingAccepted, QtyFacts DEF ShapeInv
  <2>4. stage' = [stage EXCEPT ![s] = row]
    BY <1>1 DEF MarkPending
  <2> HIDE DEF row
  <2> QED
    BY <2>1, <2>3, <2>4
<1>2. ASSUME NEW row, stage' = [stage EXCEPT ![log[cur].stage] = row],
             pc \in {"unsend", "undo", "apply"},
             \/ row = Restored(stage[log[cur].stage])
             \/ pc = "apply" /\ row = Applied(stage[log[cur].stage], seen)
      PROVE  StageStep
  <2> DEFINE s == log[cur].stage
  <2>1. cur \in Refs /\ Open(cur)
    BY <1>2 DEF Sending, Polling, Open, InHand
  <2>2. s \in Stages /\ Pending(stage[s])
    BY <1>2, <2>1 DEF OrderInv, RowInv, WaitInv, PcInv, Pending, PendingAs, Terminal
  <2>3. row \in StageRow /\ StageAccepts(stage[s], row) /\ (row.qty > 0 <=> Holds(row))
    BY <1>2, <2>2, RowTypes, RestoreAccepted, ApplyAccepted DEF ShapeInv, AmountInv
  <2> QED
    BY <1>2, <2>2, <2>3
<1>3. CASE RestoreAfterSend \/ RestoreAfterPoll \/ ApplyFill
  BY <1>2, <1>3 DEF RestoreAfterSend, RestoreAfterPoll, ApplyFill, SetStage
<1>4. CASE UNCHANGED vars \/ Command \/ Tick \/ Exchange
  BY <1>4 DEF vars, db, Command, PauseCycle, ResumeCycle, Transition, Tick, OnTick,
              Exchange, Deliver, RejectLater, Fill, MarketClose, NextDay
<1>5. CASE Send
  BY <1>1, <1>3, <1>5
     DEF Send, GuardBlocks, RecordOrder, PlaceTaken, PlaceRefused, PlaceLost,
         LogAccepted, LogRejected, LogUnknown, ListLost, ListFound, ListMissing, SetLog, db
<1>6. CASE Poll
  BY <1>3, <1>6
     DEF Poll, StartPoll, PollSkip, PollDies, PollRejected, PollFilled, PollOpen, Settle,
         CancelTaken, CancelLost, CancelRefused, LogCanceled, SetLog, KeepCycle,
         CloseCycle, SetPnl, ReleaseConfig, PollDone, db
<1> QED
  BY <1>4, <1>5, <1>6 DEF Next, EngineStep

LEMMA ShapeNext ==
  ASSUME TypeInv, OrderInv, ShapeInv, AmountInv, [Next]_vars PROVE ShapeInv'
BY EveryStageStep DEF StageStep, ShapeInv, TypeInv, TypeOK

---------------------------------------------------------------------------
(* AmountInv is inductive, and update_order_log accepts every write *)

LogStep ==
  \/ log' = log
  \/ \E r \in Refs : \E row \in LogRow :
       /\ log' = [log EXCEPT ![r] = row]
       /\ row.st # "NONE" /\ row.fill <= row.req
       /\ IF log[r].st = "NONE" THEN row.req \in Qty ELSE row.req = log[r].req
       /\ log[r].st # "NONE" => LogAccepts(log[r], row.st, row.fill)

\* What a step may do with the status poll_fill has in hand.
SeenStep ==
  /\ pc' \in {"cancel", "canceled", "apply"} =>
       log'[cur'].st # "NONE" /\ seen' <= log'[cur'].req
  /\ pc' = "apply" => seen' > 0

LEMMA RowAccepted ==
  ASSUME NEW row \in LogRow, NEW st \in Live \cup Terminal, NEW f \in Qty,
         row.st \in Live, f <= row.req, row.fill <= row.req
  PROVE  /\ LogUpdate(row, st, f).fill <= LogUpdate(row, st, f).req
         /\ LogAccepts(row, LogUpdate(row, st, f).st, LogUpdate(row, st, f).fill)
<1> DEFINE new == LogUpdate(row, st, f)
<1>1. new.req = row.req /\ new.fill = IF f > 0 THEN f ELSE row.fill
  BY Updated
<1> HIDE DEF new
<1>2. new.fill <= row.req /\ row.st \notin Terminal
  BY <1>1 DEF Live, Terminal
<1> QED
  BY <1>1, <1>2 DEF new, LogAccepts

\* A step that writes one row the way update_order_log does.
LEMMA UpdateStep ==
  ASSUME TypeInv, AmountInv, NEW r \in Refs, NEW st \in Live \cup Terminal,
         NEW f \in Qty, log[r].st \in Live, f <= log[r].req,
         log' = [log EXCEPT ![r] = LogUpdate(log[r], st, f)]
  PROVE  /\ LogStep
         /\ log'[r].st # "NONE" /\ log'[r].req = log[r].req
<1> DEFINE row == LogUpdate(log[r], st, f)
<1>1. log[r] \in LogRow /\ log[r].fill <= log[r].req
  BY DEF TypeInv, TypeOK, AmountInv
<1>2. row \in LogRow /\ row.st = st /\ row.req = log[r].req
  BY <1>1, Updated
<1>3. row.fill <= row.req /\ LogAccepts(log[r], row.st, row.fill)
  BY <1>1, RowAccepted
<1>4. row.st # "NONE"
  BY <1>2 DEF Live, Terminal
<1> HIDE DEF row
<1>5. LogStep
  BY <1>1, <1>2, <1>3, <1>4 DEF LogStep, row, Live
<1>6. log'[r] = row
  BY DEF TypeInv, TypeOK, row
<1> QED
  BY <1>2, <1>4, <1>5, <1>6

LEMMA SendAmounts ==
  ASSUME TypeInv, OrderInv, AmountInv, Send PROVE LogStep /\ SeenStep
<1> USE DEF TypeInv, TypeOK
<1>1. pc' \notin {"cancel", "canceled", "apply"}
  BY DEF Send, GuardBlocks, RecordOrder, MarkPending, PlaceTaken, PlaceRefused,
         PlaceLost, LogAccepted, LogRejected, LogUnknown, ListLost, ListFound,
         ListMissing, RestoreAfterSend, Goto, SendDone
<1> SUFFICES LogStep
  BY <1>1 DEF SeenStep
<1>2. ASSUME NEW s \in Stages, NEW r \in Refs, RecordOrder(s, r) PROVE LogStep
  <2> DEFINE row == [st |-> "SENDING", stage |-> s, side |-> Side(s),
                     req |-> IF Side(s) = "BUY" THEN Lot ELSE stage[s].qty,
                     known |-> FALSE, fill |-> 0]
  <2>1. row \in LogRow /\ 0 <= row.req /\ row.req \in Qty
    BY StageAssumption, QtyFacts DEF LogRow, StageRow, Sides, Side, Live, Stages, Qty
  <2>2. log' = [log EXCEPT ![r] = row] /\ log[r].st = "NONE"
    BY <1>2 DEF RecordOrder, NextRef
  <2>3. row.st # "NONE" /\ row.fill = 0
    OBVIOUS
  <2> HIDE DEF row
  <2> QED
    BY <2>1, <2>2, <2>3 DEF LogStep
<1>3. CASE LogAccepted \/ ListFound
  <2> DEFINE row == [log[cur] EXCEPT !.st = "ACCEPTED", !.known = TRUE]
  <2>1. cur \in Refs /\ log[cur] \in LogRow /\ log[cur].st \in Live
    BY <1>3 DEF LogAccepted, ListFound, OrderInv, PcInv, Sending
  <2>2. /\ row \in LogRow /\ row.st = "ACCEPTED"
        /\ row.req = log[cur].req /\ row.fill = log[cur].fill
    BY <2>1 DEF LogRow, Live
  <2>3. log' = [log EXCEPT ![cur] = row]
    BY <1>3, <2>1 DEF LogAccepted, ListFound
  <2>4. row.fill <= row.req
    BY <2>1, <2>2 DEF AmountInv
  <2> HIDE DEF row
  <2> QED
    BY <2>1, <2>2, <2>3, <2>4 DEF LogStep, LogAccepts, Live, Terminal
<1>4. CASE LogRejected \/ LogUnknown \/ ListMissing
  <2>1. cur \in Refs /\ log[cur] \in LogRow /\ log[cur].st \in Live
    BY <1>4 DEF LogRejected, LogUnknown, ListMissing, OrderInv, PcInv, Sending
  <2>2. PICK st \in {"REJECTED", "UNKNOWN", "CANCELED"} :
          log' = [log EXCEPT ![cur] = LogUpdate(log[cur], st, 0)]
    BY <1>4, <2>1 DEF LogRejected, LogUnknown, ListMissing, SetLog
  <2>3. 0 <= log[cur].req /\ st \in Live \cup Terminal
    BY <2>1 DEF LogRow, Qty, Live, Terminal
  <2> QED
    BY <2>1, <2>2, <2>3, QtyFacts, UpdateStep
<1>5. CASE \/ MarkPending \/ PlaceRefused \/ PlaceLost \/ ListLost \/ RestoreAfterSend
           \/ \E s \in Stages : GuardBlocks(s)
           \/ \E f \in Qty : PlaceTaken(f)
  BY <1>5 DEF LogStep, MarkPending, PlaceRefused, PlaceLost, ListLost, RestoreAfterSend,
              SetStage, GuardBlocks, PlaceTaken, db
<1> QED
  BY <1>2, <1>3, <1>4, <1>5 DEF Send

LEMMA PollAmounts ==
  ASSUME TypeInv, OrderInv, AmountInv, Poll PROVE LogStep /\ SeenStep
<1> USE DEF TypeInv, TypeOK
<1>1. CASE \/ StartPoll \/ ApplyFill \/ RestoreAfterPoll \/ KeepCycle \/ CloseCycle
           \/ SetPnl \/ ReleaseConfig \/ PollDone \/ CancelLost \/ CancelRefused
           \/ \E r \in Refs : PollSkip(r) \/ PollDies(r)
  <2>1. log' = log
    BY <1>1 DEF StartPoll, ApplyFill, RestoreAfterPoll, SetStage, KeepCycle, CloseCycle,
                SetPnl, ReleaseConfig, PollDone, CancelLost, CancelRefused, PollSkip,
                PollDies, db
  <2>2. pc' \in {"poll", "closing", "pnl", "release", "tick", "dead"}
    BY <1>1 DEF StartPoll, ApplyFill, RestoreAfterPoll, KeepCycle, CloseCycle, SetPnl,
                ReleaseConfig, PollDone, CancelLost, CancelRefused, PollSkip, PollDies,
                Goto, NextRow, Die
  <2> QED
    BY <2>1, <2>2 DEF LogStep, SeenStep
<1>2. CASE CancelTaken
  <2>1. cur \in Refs /\ log[cur].st \in Live
    BY <1>2 DEF CancelTaken, OrderInv, PcInv, Polling
  <2> QED
    BY <1>2, <2>1 DEF CancelTaken, Goto, db, LogStep, SeenStep, AmountInv, Live
<1>3. CASE LogCanceled
  <2>1. cur \in Refs /\ log[cur].st \in Live /\ seen <= log[cur].req
    BY <1>3 DEF LogCanceled, OrderInv, PcInv, Polling, AmountInv
  <2>2. log' = [log EXCEPT ![cur] = LogUpdate(log[cur], "CANCELED", seen)]
    BY <1>3, <2>1 DEF LogCanceled, SetLog
  <2>3. "CANCELED" \in Live \cup Terminal
    BY DEF Terminal
  <2>4. LogStep /\ log'[cur].st # "NONE" /\ log'[cur].req = log[cur].req
    BY <2>1, <2>2, <2>3, UpdateStep
  <2>5. UNCHANGED <<cur, seen>> /\ pc' = IF seen > 0 THEN "apply" ELSE "undo"
    BY <1>3 DEF LogCanceled, Goto
  <2> QED
    BY <2>1, <2>4, <2>5 DEF SeenStep
\* poll_fill reads a status and records it.
<1>4. ASSUME NEW r \in Refs, NEW st \in Live \cup Terminal, NEW f \in {0, book[r].filled},
             NEW next, At(r), Settle(r, st, f, next), next = "apply" => book[r].filled > 0
      PROVE  LogStep /\ SeenStep
  <2>1. log[r].st \in Live
    BY <1>4 DEF At, OrderInv, TodoInv, Polling
  <2>2. book[r].filled \in Qty /\ book[r].filled <= log[r].req /\ log[r].req \in Qty
    BY DEF AmountInv, BookRow, LogRow
  <2>3. f \in Qty /\ f <= log[r].req
    BY <2>2, QtyFacts DEF Qty
  <2>4. LogStep /\ log'[r].st # "NONE" /\ log'[r].req = log[r].req
    BY <1>4, <2>1, <2>3, UpdateStep DEF Settle
  <2>5. cur' = r /\ seen' = book[r].filled /\ pc' = next
    BY <1>4 DEF Settle
  <2> QED
    BY <1>4, <2>2, <2>4, <2>5 DEF SeenStep
<1>5. ASSUME NEW r \in Refs, PollRejected(r) \/ PollFilled(r) PROVE LogStep /\ SeenStep
  BY <1>4, <1>5 DEF PollRejected, PollFilled, Asked, AmountInv, Terminal
<1>6. ASSUME NEW r \in Refs, NEW expired \in BOOLEAN, PollOpen(r, expired)
      PROVE  LogStep /\ SeenStep
  <2> DEFINE st == IF book[r].filled > 0 THEN "PARTIAL" ELSE log[r].st
             next == IF expired THEN "cancel" ELSE "closing"
  <2>1. At(r) /\ Settle(r, st, book[r].filled, next)
    BY <1>6 DEF PollOpen, Asked
  <2>2. st \in Live
    BY <2>1 DEF At, OrderInv, TodoInv, Polling, Live
  <2>3. next # "apply"
    OBVIOUS
  <2> HIDE DEF st, next
  <2> QED
    BY <2>1, <2>2, <2>3, <1>4
<1> QED
  BY <1>1, <1>2, <1>3, <1>5, <1>6 DEF Poll

\* What the exchange fills stays within the request.
LEMMA ExchangeAmounts ==
  ASSUME TypeInv, AmountInv, Exchange
  PROVE  /\ UNCHANGED <<db, local>>
         /\ \A r \in Refs : book'[r].filled <= log[r].req
         /\ \A r \in Refs : book'[r].st = "FILLED" => book'[r].filled > 0
<1> USE DEF TypeInv, TypeOK
<1>1. UNCHANGED <<db, local>>
  BY DEF Exchange, Deliver, RejectLater, Fill, MarketClose, NextDay
<1>2. \A r \in Refs : book[r] \in BookRow /\ log[r].req \in Qty
  BY DEF LogRow
<1>3. ASSUME NEW r \in Refs, \A q \in Refs : q # r => book'[q] = book[q],
             book'[r].filled <= log[r].req,
             book'[r].st = "FILLED" => book'[r].filled > 0
      PROVE  /\ \A q \in Refs : book'[q].filled <= log[q].req
             /\ \A q \in Refs : book'[q].st = "FILLED" => book'[q].filled > 0
  BY <1>3 DEF AmountInv
<1>4. ASSUME NEW r \in Refs, Deliver(r) PROVE book'[r].filled = 0 /\ book'[r].st = "OPEN"
  BY <1>4 DEF Deliver, Place
<1>5. ASSUME NEW r \in Refs, RejectLater(r)
      PROVE  book'[r].filled = book[r].filled /\ book'[r].st = "REJECTED"
  BY <1>2, <1>5 DEF RejectLater, BookRow
<1>6. ASSUME NEW r \in Refs, NEW f \in Qty, Fill(r, f)
      PROVE  book'[r].filled <= log[r].req /\ book'[r].filled > 0
  BY <1>2, <1>6 DEF Fill, BookRow, Qty
<1>7. ASSUME NEW r \in Refs, Deliver(r) \/ RejectLater(r) \/ \E f \in Qty : Fill(r, f)
      PROVE  \A q \in Refs : q # r => book'[q] = book[q]
  BY <1>7 DEF Deliver, Place, RejectLater, Fill
<1>8. CASE MarketClose
  BY <1>1, <1>2, <1>8 DEF MarketClose, BookRow, AmountInv, Working
<1>9. CASE NextDay
  BY <1>1, <1>9 DEF NextDay, AmountInv
<1>10. ASSUME NEW r \in Refs, Deliver(r) \/ RejectLater(r) \/ \E f \in Qty : Fill(r, f)
       PROVE  /\ book'[r].filled <= log[r].req
              /\ book'[r].st = "FILLED" => book'[r].filled > 0
  BY <1>2, <1>4, <1>5, <1>6, <1>10 DEF AmountInv, Qty
<1> QED
  BY <1>1, <1>3, <1>7, <1>8, <1>9, <1>10 DEF Exchange

LEMMA EveryAmountStep ==
  ASSUME TypeInv, OrderInv, AmountInv, [Next]_vars
  PROVE  LogStep /\ (SeenStep \/ UNCHANGED <<log, pc, cur, seen>>)
<1>1. CASE UNCHANGED vars \/ Command \/ Exchange
  BY <1>1, ExchangeAmounts DEF vars, db, local, Command, PauseCycle, ResumeCycle,
                               Transition, LogStep
<1>2. CASE Tick
  BY <1>2 DEF Tick, OnTick, db, LogStep, SeenStep
<1> QED
  BY <1>1, <1>2, SendAmounts, PollAmounts DEF Next, EngineStep

\* The engine moves the exchange only by placing and cancelling.
LEMMA EngineAmounts ==
  ASSUME TypeInv, OrderInv, AmountInv, [Next]_vars, ~Exchange
  PROVE  \/ book' = book
         \/ /\ log' = log
            /\ \A r \in Refs : book'[r].filled <= log[r].req
            /\ \A r \in Refs : book'[r].st = "FILLED" => book'[r].filled > 0
<1> USE DEF TypeInv, TypeOK
<1>1. ASSUME NEW f \in Qty, PlaceTaken(f)
      PROVE  /\ log' = log
             /\ \A r \in Refs : book'[r].filled <= log[r].req
             /\ \A r \in Refs : book'[r].st = "FILLED" => book'[r].filled > 0
  <2>1. /\ log' = log /\ cur \in Refs /\ f <= log[cur].req
        /\ \A r \in Refs : r # cur => book'[r] = book[r]
        /\ book'[cur].filled = f /\ (book'[cur].st = "FILLED" => f # 0)
    BY <1>1 DEF PlaceTaken, Place, db, Sending
  <2> QED
    BY <2>1 DEF AmountInv, Qty
<1>2. CASE PlaceLost \/ CancelTaken
  <2>1. /\ log' = log /\ cur \in Refs
        /\ \A r \in Refs : r # cur => book'[r] = book[r]
        /\ book'[cur].filled = book[cur].filled
        /\ book'[cur].st = "FILLED" => book[cur].st = "FILLED"
    BY <1>2 DEF PlaceLost, CancelTaken, db, Sending, Polling, BookRow
  <2> QED
    BY <2>1 DEF AmountInv
<1>3. CASE UNCHANGED vars \/ Command \/ Tick
  BY <1>3 DEF vars, market, Command, PauseCycle, ResumeCycle, Transition, Tick, OnTick
<1>4. CASE Send
  BY <1>1, <1>2, <1>4
     DEF Send, GuardBlocks, RecordOrder, MarkPending, PlaceRefused, LogAccepted,
         LogRejected, LogUnknown, ListLost, ListFound, ListMissing, RestoreAfterSend, market
<1>5. CASE Poll
  BY <1>2, <1>5
     DEF Poll, StartPoll, PollSkip, PollDies, PollRejected, PollFilled, PollOpen, Settle,
         CancelLost, CancelRefused, LogCanceled, ApplyFill, RestoreAfterPoll, KeepCycle,
         CloseCycle, SetPnl, ReleaseConfig, PollDone, market
<1> QED
  BY <1>3, <1>4, <1>5 DEF Next, EngineStep

LEMMA AmountNext ==
  ASSUME TypeInv, TypeInv', OrderInv, AmountInv, [Next]_vars PROVE AmountInv'
<1> USE DEF TypeInv, TypeOK
<1>1. LogStep /\ (SeenStep \/ UNCHANGED <<log, pc, cur, seen>>)
  BY EveryAmountStep
<1>2. \A r \in Refs : log'[r].fill <= log'[r].req
  BY <1>1 DEF LogStep, AmountInv
<1>3. \A r \in Refs : log'[r].st = "NONE" => log'[r].req = 0
  BY <1>1 DEF LogStep, AmountInv
<1>4. \A r \in Refs : log[r].req <= log'[r].req
  <2>1. \A r \in Refs : log[r].req \in Qty /\ log'[r].req \in Qty
    BY DEF LogRow
  <2>2. \A q \in Qty : 0 <= q /\ q <= q
    BY DEF Qty
  <2>3. \A r \in Refs : log'[r].req = log[r].req \/ log[r].st = "NONE"
    BY <1>1 DEF LogStep
  <2> QED
    BY <2>1, <2>2, <2>3 DEF AmountInv
<1>5. /\ \A r \in Refs : book'[r].filled <= log[r].req
      /\ \A r \in Refs : book'[r].st = "FILLED" => book'[r].filled > 0
  BY ExchangeAmounts, EngineAmounts DEF AmountInv
<1>6. \A r \in Refs : book'[r].filled <= log'[r].req
  <2>1. \A r \in Refs : /\ log[r].req \in Nat /\ log'[r].req \in Nat
                        /\ book'[r].filled \in Nat
    BY DEF LogRow, BookRow, Qty
  <2> QED
    BY <1>4, <1>5, <2>1
<1>7. /\ pc' \in {"cancel", "canceled", "apply"} => seen' <= log'[cur'].req
      /\ pc' = "apply" => seen' > 0
  BY <1>1 DEF SeenStep, AmountInv
<1> QED
  BY <1>2, <1>3, <1>5, <1>6, <1>7 DEF AmountInv

LEMMA GuardRowsInit == Init => ShapeInv /\ AmountInv
BY DEF Init, ShapeInv, AmountInv, FreshStage, Holds, NoRow

LEMMA GuardRowsInvariant == Spec => [](ShapeInv /\ AmountInv)
<1>1. TypeInv /\ TypeInv' /\ OrderInv /\ ShapeInv /\ AmountInv /\ [Next]_vars =>
        ShapeInv' /\ AmountInv'
  BY ShapeNext, AmountNext
<1> QED
  BY <1>1, GuardRowsInit, TypeInvariant, OrderInvariant, PTL DEF Spec

\* Whatever the exchange does, whichever answers are lost and in whatever order
\* fills, timeouts and cancels meet: no commit of the order path is one that
\* save_stage or update_order_log would refuse, and no holding is empty.
THEOREM GuardsNeverRefuse == Spec => RowGuardsHold
<1>1. ASSUME TypeInv, TypeInv', OrderInv, ShapeInv, ShapeInv', AmountInv, [Next]_vars
      PROVE  [/\ \A r \in Refs : log[r].st # "NONE" =>
                   LogAccepts(log[r], log'[r].st, log'[r].fill)
              /\ \A s \in Stages :
                   StageAccepts(stage[s], stage'[s]) /\ WellFormed(stage'[s])
             ]_<<log, stage>>
  <2> USE DEF TypeInv, TypeOK
  <2>1. \A r \in Refs : log[r].st # "NONE" => LogAccepts(log[r], log'[r].st, log'[r].fill)
    <3>1. \A r \in Refs : LogAccepts(log[r], log[r].st, log[r].fill)
      BY <1>1 DEF LogAccepts, AmountInv
    <3> QED
      BY <1>1, <3>1, EveryAmountStep DEF LogStep
  <2>2. \A s \in Stages : StageAccepts(stage[s], stage'[s])
    <3>1. \A s \in Stages : StageAccepts(stage[s], stage[s])
      BY DEF StageAccepts
    <3> QED
      BY <1>1, <3>1, EveryStageStep DEF StageStep
  <2>3. \A s \in Stages : WellFormed(stage'[s])
    BY <1>1 DEF ShapeInv, WellFormed, Holds
  <2> QED
    BY <2>1, <2>2, <2>3
<1> QED
  BY <1>1, TypeInvariant, OrderInvariant, GuardRowsInvariant, PTL DEF Spec, RowGuardsHold

---------------------------------------------------------------------------
(* The configuration and its cycle *)

\* The three commits of _close_if_complete, in their order.
ConfigInv ==
  /\ pc \in {"pnl", "release"} => cycle = "CLOSED" /\ config = "ACTIVE"
  /\ pc = "release" => pnl
  /\ pc \notin {"pnl", "release"} =>
       /\ config = "ACTIVE" <=> cycle # "CLOSED"
       /\ cycle = "CLOSED" => pnl

LEMMA ConfigNext == ASSUME TypeInv, ConfigInv, [Next]_vars PROVE ConfigInv'
<1> USE DEF TypeInv, TypeOK, ConfigInv
<1>1. CASE \/ UNCHANGED vars \/ Tick \/ Exchange \/ Send
  <2>1. UNCHANGED <<cycle, pnl, config>>
    BY <1>1 DEF vars, db, Tick, OnTick, Exchange, Deliver, RejectLater, Fill, MarketClose,
                NextDay, Send, GuardBlocks, RecordOrder, MarkPending, PlaceTaken,
                PlaceRefused, PlaceLost, LogAccepted, LogRejected, LogUnknown, ListLost,
                ListFound, ListMissing, RestoreAfterSend, SetLog, SetStage
  <2>2. pc' = pc \/ (pc \notin {"pnl", "release"} /\ pc' \notin {"pnl", "release"})
    BY <1>1 DEF vars, local, Tick, OnTick, Exchange, Deliver, RejectLater, Fill,
                MarketClose, NextDay, Send, GuardBlocks, RecordOrder, MarkPending,
                PlaceTaken, PlaceRefused, PlaceLost, LogAccepted, LogRejected, LogUnknown,
                ListLost, ListFound, ListMissing, RestoreAfterSend, Goto, SendDone
  <2> QED
    BY <2>1, <2>2
<1>2. CASE Command
  BY <1>2 DEF Command, PauseCycle, ResumeCycle, Transition, local
<1>3. CASE CloseCycle \/ SetPnl \/ ReleaseConfig
  BY <1>3 DEF CloseCycle, SetPnl, ReleaseConfig, Goto, NextRow
<1>4. CASE \/ StartPoll \/ CancelTaken \/ CancelLost \/ CancelRefused \/ LogCanceled
           \/ ApplyFill \/ RestoreAfterPoll \/ KeepCycle \/ PollDone
           \/ \E r \in Refs : \/ PollSkip(r) \/ PollDies(r)
                              \/ PollRejected(r) \/ PollFilled(r)
                              \/ \E expired \in BOOLEAN : PollOpen(r, expired)
  <2>1. UNCHANGED <<cycle, pnl, config>>
    BY <1>4 DEF db, StartPoll, CancelTaken, CancelLost, CancelRefused, LogCanceled, SetLog,
                ApplyFill, RestoreAfterPoll, SetStage, KeepCycle, PollDone, PollSkip,
                PollDies, PollRejected, PollFilled, PollOpen, Settle
  <2>2. pc \notin {"pnl", "release"} /\ pc' \notin {"pnl", "release"}
    BY <1>4 DEF StartPoll, CancelTaken, CancelLost, CancelRefused, LogCanceled, ApplyFill,
                RestoreAfterPoll, KeepCycle, PollDone, PollSkip, PollDies, PollRejected,
                PollFilled, PollOpen, Settle, Asked, At, Goto, NextRow, Die
  <2> QED
    BY <2>1, <2>2
<1>5. CASE Poll
  BY <1>3, <1>4, <1>5 DEF Poll
<1> QED
  BY <1>1, <1>2, <1>5 DEF Next, EngineStep

\* Between two ticks the configuration is ACTIVE exactly while it runs a cycle, and
\* a closed cycle has its realized profit, although three commits write them.
THEOREM ConfigFollowsItsCycle == Spec => []ConfigFollowsCycle
<1>1. Init => ConfigInv
  BY DEF Init, ConfigInv
<1>2. TypeInv /\ ConfigInv /\ [Next]_vars => ConfigInv'
  BY ConfigNext
<1>3. ConfigInv => ConfigFollowsCycle
  BY DEF ConfigInv, ConfigFollowsCycle
<1> QED
  BY <1>1, <1>2, <1>3, TypeInvariant, PTL DEF Spec

---------------------------------------------------------------------------
(* What a settled row tells, when nothing moves between two awaits *)

LEMMA TruthExchange ==
  ASSUME ~RacingFills, TypeInv, BookInv, TruthInv, Exchange PROVE TruthInv'
<1> USE DEF TypeInv, TypeOK
<1>1. pc = "tick" /\ UNCHANGED <<log, pc>>
  BY DEF Exchange, Deliver, RejectLater, Fill, MarketClose, NextDay, ExchangeMoves,
         TruthInv, db, local
<1>2. \A r \in Refs : /\ log[r].fill \in Nat /\ book[r].filled \in Nat
                      /\ book[r] \in BookRow
  BY DEF LogRow, BookRow, Qty
\* One live order moves on.
<1>3. ASSUME NEW r \in Refs, book[r].st \in Working,
             \A q \in Refs : q # r => book'[q] = book[q],
             book[r].filled <= book'[r].filled, book'[r].filled \in Nat,
             book'[r].st \notin {"NONE", "TRANSIT", "OPEN"},
             book'[r].st = "REJECTED" => book'[r].filled = 0
      PROVE  TruthInv'
  <2>1. log[r].st \in Live
    BY <1>3 DEF BookInv, AtExchange
  <2>2. log[r].fill <= book'[r].filled
    BY <1>2, <1>3 DEF TruthInv
  <2> QED
    BY <1>1, <1>3, <2>1, <2>2 DEF TruthInv, Live, Terminal
<1>4. ASSUME NEW r \in Refs, NEW f \in Qty, Fill(r, f) PROVE TruthInv'
  <2>1. /\ book[r].st \in Working /\ book'[r].filled = f /\ book[r].filled <= f /\ f \in Nat
        /\ \A q \in Refs : q # r => book'[q] = book[q]
        /\ book'[r].st \in {"FILLED", "PARTIAL"}
    BY <1>2, <1>4 DEF Fill, Qty
  <2> QED
    BY <2>1, <1>3
<1>5. ASSUME NEW r \in Refs, RejectLater(r) PROVE TruthInv'
  <2>1. /\ book[r].st \in Working /\ book'[r].filled = book[r].filled /\ book[r].filled = 0
        /\ \A q \in Refs : q # r => book'[q] = book[q]
        /\ book'[r].st = "REJECTED"
    BY <1>2, <1>5 DEF RejectLater, TruthInv, Working, BookRow
  <2> QED
    BY <2>1, <1>2, <1>3
<1>6. ASSUME NEW r \in Refs PROVE ~Deliver(r)
  BY DEF Deliver, TruthInv
<1>7. CASE MarketClose
  <2>1. \A r \in Refs : /\ book'[r].filled = book[r].filled
                        /\ book'[r].st = book[r].st \/ book'[r].st = "CANCELED"
                        /\ book[r].st = "NONE" => book'[r].st = "NONE"
    BY <1>2, <1>7 DEF MarketClose, BookRow, Working
  <2> QED
    BY <1>1, <2>1 DEF TruthInv
<1>8. CASE NextDay
  BY <1>1, <1>8 DEF NextDay, TruthInv
<1> QED
  BY <1>4, <1>5, <1>6, <1>7, <1>8 DEF Exchange

\* A step that writes one row, to what the exchange has filled when it settles it.
LEMMA TruthRow ==
  ASSUME TypeInv, TruthInv, book' = book, NEW r \in Refs, NEW row,
         log' = [log EXCEPT ![r] = row], row.st # "NONE",
         row.fill <= book[r].filled,
         row.st \in Terminal => row.fill = book[r].filled,
         pc' \notin {"recorded", "placing", "rejected"},
         pc' \in {"timeout", "listing"} => UNCHANGED <<cur, today>> /\ pc = "timeout",
         pc' \in {"cancel", "canceled"} => seen' = book[cur'].filled
  PROVE  TruthInv'
<1>1. \A q \in Refs : log'[q] = IF q = r THEN row ELSE log[q]
  BY DEF TypeInv, TypeOK
<1> QED
  BY <1>1 DEF TruthInv

\* update_order_log with what the exchange has filled, or with nothing where the
\* row already knows it.
LEMMA UpdatedFill ==
  ASSUME TypeInv, TruthInv, NEW r \in Refs, NEW st \in Live \cup Terminal,
         NEW f \in {0, book[r].filled}, f = 0 => book[r].filled = 0 \/ st \in Live
  PROVE  /\ LogUpdate(log[r], st, f).st = st /\ st # "NONE"
         /\ LogUpdate(log[r], st, f).fill <= book[r].filled
         /\ st \in Terminal => LogUpdate(log[r], st, f).fill = book[r].filled
<1>1. /\ log[r] \in LogRow /\ log[r].fill \in Nat
      /\ book[r].filled \in Nat /\ f \in Qty /\ f \in Nat
  BY QtyFacts DEF TypeInv, TypeOK, LogRow, BookRow, Qty
<1> DEFINE row == LogUpdate(log[r], st, f)
<1>2. row.st = st /\ row.fill = IF f > 0 THEN f ELSE log[r].fill
  BY <1>1, Updated
<1> HIDE DEF row
<1>3. log[r].fill <= book[r].filled
  BY DEF TruthInv
<1>4. row.fill <= book[r].filled
  BY <1>1, <1>2, <1>3
<1>5. st \in Terminal => row.fill = book[r].filled
  BY <1>1, <1>2, <1>3 DEF Live, Terminal
<1>6. st # "NONE"
  BY DEF Live, Terminal
<1> QED
  BY <1>2, <1>4, <1>5, <1>6 DEF row

LEMMA TruthSend ==
  ASSUME ~RacingFills, ~LateDelivery, TypeInv, OrderInv, TruthInv, Send
  PROVE  TruthInv'
<1> USE DEF TypeInv, TypeOK
<1>1. ASSUME NEW s \in Stages, GuardBlocks(s) PROVE TruthInv'
  BY <1>1 DEF GuardBlocks, db, market, TruthInv
<1>2. ASSUME NEW s \in Stages, NEW r \in Refs, RecordOrder(s, r) PROVE TruthInv'
  <2>1. /\ log[r].st = "NONE" /\ cur' = r /\ pc' = "recorded" /\ UNCHANGED <<book, today>>
        /\ \A q \in Refs : q # r => log'[q] = log[q]
        /\ log'[r].st = "SENDING" /\ log'[r].fill = 0
    BY <1>2 DEF RecordOrder, NextRef, market
  <2>2. book[r].st = "NONE" /\ book[r].filled = 0
    BY <2>1 DEF TruthInv
  <2> QED
    BY <2>1, <2>2 DEF TruthInv, Terminal
<1>3. CASE MarkPending \/ PlaceRefused \/ ListLost \/ RestoreAfterSend
  BY <1>3 DEF MarkPending, PlaceRefused, ListLost, RestoreAfterSend, SetStage, Goto,
              SendDone, db, market, TruthInv
<1>4. CASE PlaceLost
  <2>1. /\ UNCHANGED <<log, book, today, cur>> /\ pc = "placing" /\ pc' = "timeout"
        /\ cur \in Refs
    BY <1>4 DEF PlaceLost, Goto, db, Sending
  <2> QED
    BY <2>1 DEF TruthInv
<1>5. ASSUME NEW f \in Qty, PlaceTaken(f) PROVE TruthInv'
  <2>1. /\ pc = "placing" /\ pc' \in {"acked", "timeout"} /\ UNCHANGED <<log, cur>>
        /\ cur \in Refs /\ cur \in today'
        /\ \A q \in Refs : q # cur => book'[q] = book[q]
        /\ book'[cur].filled = f
        /\ book'[cur].st \in {"OPEN", "FILLED", "PARTIAL"}
        /\ book'[cur].st = "OPEN" => f = 0
    BY <1>5 DEF PlaceTaken, Place, Goto, db, Sending
  <2>2. log[cur].st \in Live /\ book[cur].filled = 0 /\ log[cur].fill \in Nat /\ f \in Nat
    BY <2>1 DEF OrderInv, PcInv, Sending, TruthInv, LogRow, Qty
  <2>3. log[cur].fill <= f
    BY <2>1, <2>2 DEF TruthInv
  <2> QED
    BY <2>1, <2>2, <2>3 DEF TruthInv, Live, Terminal
<1>6. CASE LogAccepted \/ ListFound
  <2> DEFINE row == [log[cur] EXCEPT !.st = "ACCEPTED", !.known = TRUE]
  <2>1. cur \in Refs /\ log[cur] \in LogRow
    BY <1>6 DEF LogAccepted, ListFound, Sending
  <2>2. row.st = "ACCEPTED" /\ row.fill = log[cur].fill
    BY <2>1 DEF LogRow
  <2>3. log' = [log EXCEPT ![cur] = row] /\ book' = book /\ pc' = "decide"
    BY <1>6, <2>1 DEF LogAccepted, ListFound, SendDone, market
  <2>4. row.fill <= book[cur].filled
    BY <2>1, <2>2 DEF TruthInv
  <2> HIDE DEF row
  <2> QED
    BY <2>1, <2>2, <2>3, <2>4, TruthRow DEF Terminal
<1>7. CASE LogRejected \/ LogUnknown \/ ListMissing
  <2>1. /\ cur \in Refs /\ book' = book /\ today' = today /\ cur' = cur
        /\ pc \in {"rejected", "timeout", "listing"}
        /\ pc' = IF pc = "timeout" THEN "listing" ELSE "unsend"
    BY <1>7 DEF LogRejected, LogUnknown, ListMissing, Goto, market, Sending
  <2>2. PICK st \in {"REJECTED", "UNKNOWN", "CANCELED"} :
          /\ log' = [log EXCEPT ![cur] = LogUpdate(log[cur], st, 0)]
          /\ st = "UNKNOWN" \/ book[cur].filled = 0
    BY <1>7, <2>1 DEF LogRejected, LogUnknown, ListMissing, SetLog, TruthInv
  <2> DEFINE row == LogUpdate(log[cur], st, 0)
  <2>3. st \in Live \cup Terminal /\ (st = "UNKNOWN" => st \in Live)
    BY DEF Live, Terminal
  <2>4. /\ row.st = st /\ st # "NONE" /\ row.fill <= book[cur].filled
        /\ st \in Terminal => row.fill = book[cur].filled
    BY <2>1, <2>2, <2>3, UpdatedFill
  <2>5. log' = [log EXCEPT ![cur] = row]
    BY <2>2
  <2> HIDE DEF row
  <2> QED
    BY <2>1, <2>4, <2>5, TruthRow
<1> QED
  BY <1>1, <1>2, <1>3, <1>4, <1>5, <1>6, <1>7 DEF Send

LEMMA TruthPoll ==
  ASSUME ~RacingFills, ~LateDelivery, TypeInv, OrderInv, TruthInv, Poll
  PROVE  TruthInv'
<1> USE DEF TypeInv, TypeOK
<1>1. CASE \/ StartPoll \/ ApplyFill \/ RestoreAfterPoll \/ KeepCycle \/ CloseCycle
           \/ SetPnl \/ ReleaseConfig \/ PollDone \/ CancelLost \/ CancelRefused
           \/ \E r \in Refs : PollSkip(r) \/ PollDies(r)
  <2>1. UNCHANGED <<log, book, today>>
    BY <1>1 DEF StartPoll, ApplyFill, RestoreAfterPoll, SetStage, KeepCycle, CloseCycle,
                SetPnl, ReleaseConfig, PollDone, CancelLost, CancelRefused, PollSkip,
                PollDies, db, market
  <2>2. pc' \in {"poll", "closing", "pnl", "release", "tick", "dead"}
    BY <1>1 DEF StartPoll, ApplyFill, RestoreAfterPoll, KeepCycle, CloseCycle, SetPnl,
                ReleaseConfig, PollDone, CancelLost, CancelRefused, PollSkip, PollDies,
                Goto, NextRow, Die
  <2> QED
    BY <2>1, <2>2 DEF TruthInv
<1>2. CASE CancelTaken
  <2>1. /\ pc = "cancel" /\ pc' \in {"canceled", "closing"}
        /\ UNCHANGED <<log, today, cur, seen>> /\ cur \in Refs
        /\ \A q \in Refs : q # cur => book'[q] = book[q]
        /\ book'[cur].filled = book[cur].filled /\ book'[cur].st = "CANCELED"
        /\ book[cur].st # "NONE"
    BY <1>2 DEF CancelTaken, Goto, db, Polling, BookRow, Working
  <2> QED
    BY <2>1 DEF TruthInv
<1>3. CASE LogCanceled
  <2> DEFINE row == LogUpdate(log[cur], "CANCELED", seen)
  <2>1. /\ cur \in Refs /\ book' = book /\ seen = book[cur].filled
        /\ pc' \in {"apply", "undo"}
    BY <1>3 DEF LogCanceled, Goto, market, Polling, TruthInv
  <2>2. log' = [log EXCEPT ![cur] = row]
    BY <1>3, <2>1 DEF LogCanceled, SetLog
  <2>3. /\ row.st = "CANCELED" /\ row.fill = book[cur].filled
        /\ row.fill <= book[cur].filled
    BY <2>1, UpdatedFill DEF Terminal
  <2> HIDE DEF row
  <2> QED
    BY <2>1, <2>2, <2>3, TruthRow
<1>4. ASSUME NEW r \in Refs, NEW st \in Live \cup Terminal, NEW f \in {0, book[r].filled},
             f = 0 => book[r].filled = 0 \/ st \in Live,
             NEW next \in {"undo", "apply", "cancel", "closing"}, Settle(r, st, f, next)
      PROVE  TruthInv'
  <2> DEFINE row == LogUpdate(log[r], st, f)
  <2>1. /\ log' = [log EXCEPT ![r] = row] /\ book' = book /\ cur' = r
        /\ seen' = book[r].filled /\ pc' = next
    BY <1>4 DEF Settle, market
  <2>2. /\ row.st = st /\ st # "NONE" /\ row.fill <= book[r].filled
        /\ st \in Terminal => row.fill = book[r].filled
    BY <1>4, UpdatedFill
  <2> HIDE DEF row
  <2> QED
    BY <2>1, <2>2, TruthRow
<1>5. ASSUME NEW r \in Refs, PollRejected(r) \/ PollFilled(r) PROVE TruthInv'
  BY <1>4, <1>5 DEF PollRejected, PollFilled, Terminal, TruthInv
<1>6. ASSUME NEW r \in Refs, NEW expired \in BOOLEAN, PollOpen(r, expired) PROVE TruthInv'
  <2> DEFINE st == IF book[r].filled > 0 THEN "PARTIAL" ELSE log[r].st
             next == IF expired THEN "cancel" ELSE "closing"
  <2>1. At(r) /\ Settle(r, st, book[r].filled, next)
    BY <1>6 DEF PollOpen, Asked
  <2>2. st \in Live /\ next \in {"cancel", "closing"}
    BY <2>1 DEF At, OrderInv, TodoInv, Polling, Live
  <2> HIDE DEF st, next
  <2> QED
    BY <2>1, <2>2, <1>4
<1> QED
  BY <1>1, <1>2, <1>3, <1>5, <1>6 DEF Poll

LEMMA TruthNext ==
  ASSUME ~RacingFills, ~LateDelivery, TypeInv, OrderInv, BookInv, TruthInv, [Next]_vars
  PROVE  TruthInv'
<1>1. CASE UNCHANGED vars \/ Command \/ Tick
  <2>1. /\ UNCHANGED <<log, book, today, cur, seen>>
        /\ pc' = pc \/ pc' = "decide"
    BY <1>1 DEF vars, db, market, local, Command, PauseCycle, ResumeCycle, Transition,
                Tick, OnTick
  <2> QED
    BY <2>1 DEF TruthInv
<1> QED
  BY <1>1, TruthExchange, TruthSend, TruthPoll DEF Next, EngineStep

\* When the exchange moves only between two ticks, as FakeBroker does, a settled row
\* tells the whole truth: the order is over, and the recorded fill is all of it.
THEOREM SettledRowsAreTrue ==
  ASSUME ~RacingFills, ~LateDelivery PROVE Spec => []SettledIsFinal
<1>1. Init => TruthInv
  BY DEF Init, TruthInv, NoRow, Terminal
<1>2. TypeInv /\ OrderInv /\ BookInv /\ TruthInv /\ [Next]_vars => TruthInv'
  BY TruthNext
<1>3. BookInv /\ TruthInv => SettledIsFinal
  BY DEF BookInv, TruthInv, SettledIsFinal, Live, Terminal
<1> QED
  BY <1>1, <1>2, <1>3, TypeInvariant, OrderInvariant, BookInvariant, PTL DEF Spec

---------------------------------------------------------------------------
(* FillsInv is inductive, whatever the exchange does and whenever *)

LEMMA FillsInit == Init => FillsInv
BY DEF Init, FillsInv, NoRow, Sending

\* Nothing the exchange does takes back a fill.
LEMMA FillsExchange ==
  ASSUME TypeInv, FillsInv, Exchange PROVE FillsInv'
<1> USE DEF TypeInv, TypeOK
<1>1. UNCHANGED <<log, pc, cur, seen>>
  BY DEF Exchange, Deliver, RejectLater, Fill, MarketClose, NextDay, db, local
<1>2. \A r \in Refs : /\ log[r].fill \in Nat /\ book[r].filled \in Nat
                      /\ book[r] \in BookRow /\ book'[r].filled \in Nat
  BY TypeNext DEF LogRow, BookRow, Qty, Next
<1>3. SUFFICES \A r \in Refs :
        /\ book[r].st = "NONE" => book'[r] = book[r]
        /\ book[r].filled <= book'[r].filled
        /\ book'[r].st \in {"NONE", "TRANSIT", "OPEN", "REJECTED"} => book'[r].filled = 0
  <2> SUFFICES ASSUME \A r \in Refs :
                 /\ book[r].st = "NONE" => book'[r] = book[r]
                 /\ book[r].filled <= book'[r].filled
                 /\ book'[r].st \in {"NONE", "TRANSIT", "OPEN", "REJECTED"} =>
                      book'[r].filled = 0
               PROVE  FillsInv'
    OBVIOUS
  <2>1. \A r \in Refs : log[r].fill <= book'[r].filled
    BY <1>2 DEF FillsInv
  <2>2. pc \in {"recorded", "placing", "rejected"} => cur \in Refs
    BY DEF Sending
  <2> QED
    BY <1>1, <2>1, <2>2 DEF FillsInv
<1>4. ASSUME NEW r \in Refs, Deliver(r) \/ RejectLater(r) \/ \E f \in Qty : Fill(r, f)
      PROVE  \A q \in Refs : q # r => book'[q] = book[q]
  BY <1>4 DEF Deliver, Place, RejectLater, Fill
<1>5. ASSUME NEW r \in Refs, Deliver(r) \/ RejectLater(r) \/ \E f \in Qty : Fill(r, f)
      PROVE  /\ book[r].st # "NONE" /\ book[r].filled <= book'[r].filled
             /\ book'[r].st \in {"NONE", "TRANSIT", "OPEN", "REJECTED"} =>
                  book'[r].filled = 0
  BY <1>2, <1>5 DEF Deliver, Place, RejectLater, Fill, BookRow, Qty, Working, FillsInv
<1>6. CASE MarketClose
  BY <1>2, <1>6 DEF MarketClose, BookRow, Working, FillsInv
<1>7. CASE NextDay
  BY <1>2, <1>7 DEF NextDay, FillsInv
<1>8. CASE \E r \in Refs : Deliver(r) \/ RejectLater(r) \/ \E f \in Qty : Fill(r, f)
  BY <1>2, <1>4, <1>5, <1>8 DEF FillsInv
<1> QED
  BY <1>6, <1>7, <1>8 DEF Exchange

\* A step that writes one row, to no more than the exchange has filled.
LEMMA FillsRow ==
  ASSUME TypeInv, FillsInv, book' = book, NEW r \in Refs, NEW row,
         log' = [log EXCEPT ![r] = row], row.st # "NONE",
         row.fill <= book[r].filled,
         pc' \notin {"recorded", "placing", "rejected"},
         pc' \in Sending \cup {"undo"} => cur' = r /\ row.fill = 0,
         pc' \in {"cancel", "canceled", "apply"} => cur' = r /\ seen' = row.fill
  PROVE  FillsInv'
<1>1. \A q \in Refs : log'[q] = IF q = r THEN row ELSE log[q]
  BY DEF TypeInv, TypeOK
<1> QED
  BY <1>1 DEF FillsInv

LEMMA FillsSend ==
  ASSUME TypeInv, OrderInv, FillsInv, Send PROVE FillsInv'
<1> USE DEF TypeInv, TypeOK
<1>1. ASSUME NEW s \in Stages, GuardBlocks(s) PROVE FillsInv'
  BY <1>1 DEF GuardBlocks, db, market, FillsInv
<1>2. ASSUME NEW s \in Stages, NEW r \in Refs, RecordOrder(s, r) PROVE FillsInv'
  <2>1. /\ log[r].st = "NONE" /\ cur' = r /\ pc' = "recorded" /\ UNCHANGED <<book, today>>
        /\ \A q \in Refs : q # r => log'[q] = log[q]
        /\ log'[r].st = "SENDING" /\ log'[r].fill = 0
    BY <1>2 DEF RecordOrder, NextRef, market
  <2>2. book[r].st = "NONE" /\ book[r].filled = 0
    BY <2>1 DEF FillsInv
  <2> QED
    BY <2>1, <2>2 DEF FillsInv
<1>3. CASE MarkPending \/ PlaceRefused \/ ListLost \/ RestoreAfterSend
  BY <1>3 DEF MarkPending, PlaceRefused, ListLost, RestoreAfterSend, SetStage, Goto,
              SendDone, db, market, FillsInv, Sending
<1>4. CASE PlaceLost
  <2>1. /\ UNCHANGED <<log, cur>> /\ pc = "placing" /\ pc' = "timeout" /\ cur \in Refs
        /\ \A q \in Refs : q # cur => book'[q] = book[q]
        /\ book'[cur].filled = book[cur].filled /\ log[cur].st \in Live
    BY <1>4 DEF PlaceLost, Goto, db, Sending, BookRow, OrderInv, PcInv
  <2>2. book[cur].filled = 0
    BY <2>1 DEF FillsInv
  <2> QED
    BY <2>1, <2>2 DEF FillsInv, Live, Sending
<1>5. ASSUME NEW f \in Qty, PlaceTaken(f) PROVE FillsInv'
  <2>1. /\ pc = "placing" /\ pc' \in {"acked", "timeout"} /\ UNCHANGED <<log, cur>>
        /\ cur \in Refs
        /\ \A q \in Refs : q # cur => book'[q] = book[q]
        /\ book'[cur].filled = f
        /\ book'[cur].st \in {"OPEN", "FILLED", "PARTIAL"}
        /\ book'[cur].st = "OPEN" => f = 0
    BY <1>5 DEF PlaceTaken, Place, Goto, db, Sending
  <2>2. log[cur].st \in Live /\ log[cur].fill = 0 /\ f \in Nat
    BY <2>1 DEF OrderInv, PcInv, Sending, FillsInv, Qty
  <2> QED
    BY <2>1, <2>2 DEF FillsInv, Live, Sending
<1>6. CASE LogAccepted \/ ListFound
  <2> DEFINE row == [log[cur] EXCEPT !.st = "ACCEPTED", !.known = TRUE]
  <2>1. cur \in Refs /\ log[cur] \in LogRow
    BY <1>6 DEF LogAccepted, ListFound, Sending
  <2>2. row.st = "ACCEPTED" /\ row.fill = log[cur].fill
    BY <2>1 DEF LogRow
  <2>3. log' = [log EXCEPT ![cur] = row] /\ book' = book /\ pc' = "decide"
    BY <1>6, <2>1 DEF LogAccepted, ListFound, SendDone, market
  <2>4. row.fill <= book[cur].filled
    BY <2>1, <2>2 DEF FillsInv
  <2> HIDE DEF row
  <2> QED
    BY <2>1, <2>2, <2>3, <2>4, FillsRow DEF Sending
<1>7. CASE LogRejected \/ LogUnknown \/ ListMissing
  <2>1. /\ cur \in Refs /\ book' = book /\ cur' = cur /\ log[cur] \in LogRow
        /\ log[cur].fill = 0 /\ pc' \in {"listing", "unsend"}
    BY <1>7 DEF LogRejected, LogUnknown, ListMissing, Goto, market, Sending, FillsInv
  <2>2. PICK st \in {"REJECTED", "UNKNOWN", "CANCELED"} :
          log' = [log EXCEPT ![cur] = LogUpdate(log[cur], st, 0)]
    BY <1>7, <2>1 DEF LogRejected, LogUnknown, ListMissing, SetLog
  <2> DEFINE row == LogUpdate(log[cur], st, 0)
  <2>3. st \in Live \cup Terminal /\ st # "NONE" /\ 0 \in Qty /\ ~(0 > 0)
    BY QtyFacts DEF Live, Terminal
  <2>4. row.st = st /\ row.fill = 0
    BY <2>1, <2>3, Updated
  <2>5. row.fill <= book[cur].filled
    BY <2>1, <2>4 DEF FillsInv
  <2>6. log' = [log EXCEPT ![cur] = row]
    BY <2>2
  <2> HIDE DEF row
  <2> QED
    BY <2>1, <2>3, <2>4, <2>5, <2>6, FillsRow
<1> QED
  BY <1>1, <1>2, <1>3, <1>4, <1>5, <1>6, <1>7 DEF Send

LEMMA FillsPoll ==
  ASSUME TypeInv, OrderInv, FillsInv, Poll PROVE FillsInv'
<1> USE DEF TypeInv, TypeOK
<1>1. CASE \/ StartPoll \/ ApplyFill \/ RestoreAfterPoll \/ KeepCycle \/ CloseCycle
           \/ SetPnl \/ ReleaseConfig \/ PollDone \/ CancelLost \/ CancelRefused
           \/ \E r \in Refs : PollSkip(r) \/ PollDies(r)
  <2>1. UNCHANGED <<log, book>>
    BY <1>1 DEF StartPoll, ApplyFill, RestoreAfterPoll, SetStage, KeepCycle, CloseCycle,
                SetPnl, ReleaseConfig, PollDone, CancelLost, CancelRefused, PollSkip,
                PollDies, db, market
  <2>2. pc' \in {"poll", "closing", "pnl", "release", "tick", "dead"}
    BY <1>1 DEF StartPoll, ApplyFill, RestoreAfterPoll, KeepCycle, CloseCycle, SetPnl,
                ReleaseConfig, PollDone, CancelLost, CancelRefused, PollSkip, PollDies,
                Goto, NextRow, Die
  <2> QED
    BY <2>1, <2>2 DEF FillsInv, Sending
<1>2. CASE CancelTaken
  <2>1. /\ pc = "cancel" /\ pc' \in {"canceled", "closing"}
        /\ UNCHANGED <<log, cur, seen>> /\ cur \in Refs
        /\ \A q \in Refs : q # cur => book'[q] = book[q]
        /\ book'[cur].filled = book[cur].filled /\ book'[cur].st = "CANCELED"
        /\ book[cur].st # "NONE"
    BY <1>2 DEF CancelTaken, Goto, db, Polling, BookRow, Working
  <2> QED
    BY <2>1 DEF FillsInv, Sending
<1>3. CASE LogCanceled
  <2> DEFINE row == LogUpdate(log[cur], "CANCELED", seen)
  <2>1. /\ cur \in Refs /\ book' = book /\ seen = log[cur].fill /\ UNCHANGED <<cur, seen>>
        /\ pc' = IF seen > 0 THEN "apply" ELSE "undo"
    BY <1>3 DEF LogCanceled, Goto, market, Polling, FillsInv
  <2>2. log' = [log EXCEPT ![cur] = row]
    BY <1>3, <2>1 DEF LogCanceled, SetLog
  <2>3. row.st = "CANCELED" /\ row.fill = seen /\ seen \in Nat
    BY <2>1, Updated DEF Terminal, Qty
  <2>4. row.fill <= book[cur].filled
    BY <2>1, <2>3 DEF FillsInv
  <2>5. pc' \in {"apply", "undo"} /\ (pc' = "undo" => row.fill = 0)
    BY <2>1, <2>3
  <2> HIDE DEF row
  <2>6. row.st # "NONE" /\ seen' = row.fill /\ cur' = cur
    BY <2>1, <2>3
  <2> QED
    BY <2>1, <2>2, <2>4, <2>5, <2>6, FillsRow DEF Sending
\* poll_fill goes on with what it records.
<1>4. ASSUME NEW r \in Refs, NEW st \in Live \cup Terminal, NEW f \in {0, book[r].filled},
             f = 0 => book[r].filled = 0,
             NEW next \in {"undo", "apply", "cancel", "closing"}, Settle(r, st, f, next),
             next = "undo" => book[r].filled = 0
      PROVE  FillsInv'
  <2> DEFINE row == LogUpdate(log[r], st, f)
  <2>1. /\ log' = [log EXCEPT ![r] = row] /\ book' = book /\ cur' = r
        /\ seen' = book[r].filled /\ pc' = next
    BY <1>4 DEF Settle, market
  <2>2. /\ log[r] \in LogRow /\ log[r].fill \in Nat /\ book[r].filled \in Qty
        /\ book[r].filled \in Nat /\ log[r].fill <= book[r].filled
    BY DEF LogRow, BookRow, Qty, FillsInv
  <2>3. row.st = st /\ row.fill = IF f > 0 THEN f ELSE log[r].fill
    BY <2>2, QtyFacts, Updated
  <2>4. row.fill = book[r].filled
    BY <1>4, <2>2, <2>3
  <2> HIDE DEF row
  <2>5. row.st # "NONE" /\ row.fill <= book[r].filled
    BY <2>2, <2>3, <2>4 DEF Live, Terminal
  <2> QED
    BY <1>4, <2>1, <2>4, <2>5, FillsRow DEF Sending
<1>5. ASSUME NEW r \in Refs, PollRejected(r) \/ PollFilled(r) PROVE FillsInv'
  BY <1>4, <1>5 DEF PollRejected, PollFilled, Terminal, FillsInv
<1>6. ASSUME NEW r \in Refs, NEW expired \in BOOLEAN, PollOpen(r, expired) PROVE FillsInv'
  <2> DEFINE st == IF book[r].filled > 0 THEN "PARTIAL" ELSE log[r].st
             next == IF expired THEN "cancel" ELSE "closing"
  <2>1. At(r) /\ Settle(r, st, book[r].filled, next)
    BY <1>6 DEF PollOpen, Asked
  <2>2. st \in Live /\ next \in {"cancel", "closing"}
    BY <2>1 DEF At, OrderInv, TodoInv, Polling, Live
  <2> HIDE DEF st, next
  <2> QED
    BY <2>1, <2>2, <1>4
<1> QED
  BY <1>1, <1>2, <1>3, <1>5, <1>6 DEF Poll

LEMMA FillsNext ==
  ASSUME TypeInv, OrderInv, FillsInv, [Next]_vars PROVE FillsInv'
<1>1. CASE UNCHANGED vars \/ Command \/ Tick
  <2>1. /\ UNCHANGED <<log, book, cur, seen>>
        /\ pc' = pc \/ pc' = "decide"
    BY <1>1 DEF vars, db, market, local, Command, PauseCycle, ResumeCycle, Transition,
                Tick, OnTick
  <2> QED
    BY <2>1 DEF FillsInv, Sending
<1> QED
  BY <1>1, FillsExchange, FillsSend, FillsPoll DEF Next, EngineStep

---------------------------------------------------------------------------
(* How a step may touch orders and stages *)

\* A step that opens or ends no order: it moves no share of a stage, takes none out
\* of PENDING, and rewrites no more of an ended order's row than what it says already.
Same ==
  /\ \A s \in Stages : /\ stage'[s].qty = stage[s].qty
                       /\ HeldQty(stage'[s]) = HeldQty(stage[s])
                       /\ Pending(stage[s]) => stage'[s] = stage[s]
  /\ \A r \in Refs : /\ log'[r].stage = log[r].stage
                     /\ log'[r].side = log[r].side
                     /\ log'[r].req = log[r].req
                     /\ Open(r)' <=> Open(r)
                     /\ ~Open(r) => log'[r].fill = log[r].fill
                     /\ log'[r].st = "SENDING" => log[r].st = "SENDING"

LEMMA SameFrame ==
  ASSUME UNCHANGED <<stage, log>>,
         pc' \in InHand => pc \in InHand /\ cur' = cur,
         pc \in InHand => log[cur].st \in Sent \/ (pc' \in InHand /\ cur' = cur)
  PROVE  Same
BY DEF Same, Open

LEMMA SameRow ==
  ASSUME TypeInv, stage' = stage, NEW r \in Refs, NEW row,
         log' = [log EXCEPT ![r] = row],
         row.stage = log[r].stage, row.side = log[r].side, row.req = log[r].req,
         row.st # "SENDING", Open(r),
         pc \in InHand => cur = r,
         row.st \in Sent \/ pc' \in InHand,
         pc' \in InHand => cur' = r
  PROVE  Same
<1>1. \A q \in Refs : log'[q] = IF q = r THEN row ELSE log[q]
  BY DEF TypeInv, TypeOK
<1>2. \A q \in Refs : Open(q)' <=> Open(q)
  BY <1>1 DEF Open
<1> QED
  BY <1>1, <1>2 DEF Same

\* The stage of an open order is one of the plan.
LEMMA OpenStage ==
  ASSUME OrderInv, NEW r \in Refs, Open(r) PROVE log[r].stage \in Stages
BY DEF OrderInv, RowInv, PcInv, Open, Sent, InHand, Live, Terminal

\* update_order_log never rewrites what the order is.
LEMMA UpdatedSame ==
  ASSUME TypeInv, NEW r \in Refs, NEW st \in Live \cup Terminal, NEW f \in Qty
  PROVE  /\ LogUpdate(log[r], st, f).st = st
         /\ LogUpdate(log[r], st, f).stage = log[r].stage
         /\ LogUpdate(log[r], st, f).side = log[r].side
         /\ LogUpdate(log[r], st, f).req = log[r].req
<1>1. log[r] \in LogRow
  BY DEF TypeInv, TypeOK
<1> QED
  BY <1>1, Updated, LogKeeps

Frees == RestoreAfterSend \/ RestoreAfterPoll \/ ApplyFill

LEMMA SameSend ==
  ASSUME TypeInv, OrderInv, Send
  PROVE  Same \/ Frees \/ \E s \in Stages, r \in Refs : RecordOrder(s, r)
<1> USE DEF TypeInv, TypeOK
<1>1. CASE \/ PlaceRefused \/ PlaceLost \/ ListLost
           \/ \E s \in Stages : GuardBlocks(s)
           \/ \E f \in Qty : PlaceTaken(f)
  <2>1. /\ UNCHANGED <<stage, log>>
        /\ pc' \in InHand => pc \in InHand /\ cur' = cur
        /\ pc \in InHand => pc = "listing" \/ (pc' \in InHand /\ cur' = cur)
    BY <1>1 DEF PlaceRefused, PlaceLost, ListLost, GuardBlocks, PlaceTaken, Goto,
                SendDone, db, InHand, Sending
  <2>2. pc = "listing" => log[cur].st \in Sent
    BY DEF OrderInv, PcInv
  <2> QED
    BY <2>1, <2>2, SameFrame
<1>2. CASE MarkPending
  <2> DEFINE s == log[cur].stage
  <2>1. /\ cur \in Refs /\ s \in Stages /\ log' = log /\ cur' = cur
        /\ pc = "recorded" /\ pc' = "placing"
        /\ stage' = [stage EXCEPT ![s] = ToPending(stage[s], log[cur].side)]
        /\ stage[s].status = IF log[cur].side = "BUY" THEN "WAITING" ELSE "HOLDING"
    BY <1>2 DEF MarkPending, Goto, OrderInv, PcInv, Sending
  <2>2. \A t \in Stages : t # s => stage'[t] = stage[t]
    BY <2>1
  <2>3. /\ stage'[s].qty = stage[s].qty
        /\ HeldQty(stage'[s]) = HeldQty(stage[s])
        /\ ~Pending(stage[s])
    BY <2>1 DEF ToPending, PendingAs, HeldQty, Holds, Pending, StageRow
  <2>4. \A r \in Refs : Open(r)' <=> Open(r)
    BY <2>1 DEF Open, InHand, Sending
  <2> QED
    BY <2>1, <2>2, <2>3, <2>4 DEF Same
<1>3. CASE LogAccepted \/ ListFound
  <2> DEFINE row == [log[cur] EXCEPT !.st = "ACCEPTED", !.known = TRUE]
  <2>1. cur \in Refs /\ log[cur] \in LogRow /\ Open(cur)
    BY <1>3 DEF LogAccepted, ListFound, Sending, Open, InHand
  <2>2. /\ row.st \in Sent /\ row.stage = log[cur].stage /\ row.side = log[cur].side
        /\ row.req = log[cur].req /\ row.st # "SENDING"
    BY <2>1 DEF LogRow, Sent, Live
  <2>3. log' = [log EXCEPT ![cur] = row] /\ stage' = stage /\ pc' \notin InHand
    BY <1>3, <2>1 DEF LogAccepted, ListFound, SendDone, InHand, Sending
  <2> HIDE DEF row
  <2> QED
    BY <2>1, <2>2, <2>3, SameRow
<1>4. CASE LogRejected \/ LogUnknown \/ ListMissing
  <2>1. /\ cur \in Refs /\ cur' = cur /\ stage' = stage /\ Open(cur) /\ pc' \in InHand
    BY <1>4 DEF LogRejected, LogUnknown, ListMissing, SetLog, Goto, Sending, Open, InHand
  <2>2. PICK st \in {"REJECTED", "UNKNOWN", "CANCELED"} :
          log' = [log EXCEPT ![cur] = LogUpdate(log[cur], st, 0)]
    BY <1>4, <2>1 DEF LogRejected, LogUnknown, ListMissing, SetLog
  <2>3. st \in Live \cup Terminal
    BY DEF Live, Terminal
  <2> DEFINE row == LogUpdate(log[cur], st, 0)
  <2>4. /\ row.st # "SENDING" /\ row.stage = log[cur].stage /\ row.side = log[cur].side
        /\ row.req = log[cur].req
    BY <2>1, <2>3, QtyFacts, UpdatedSame
  <2>5. log' = [log EXCEPT ![cur] = row]
    BY <2>2
  <2> HIDE DEF row
  <2> QED
    BY <2>1, <2>4, <2>5, SameRow
<1> QED
  BY <1>1, <1>2, <1>3, <1>4 DEF Send, Frees

LEMMA SamePoll ==
  ASSUME TypeInv, OrderInv, Poll PROVE Same \/ Frees
<1> USE DEF TypeInv, TypeOK
<1>1. CASE \/ StartPoll \/ KeepCycle \/ CloseCycle \/ SetPnl \/ ReleaseConfig
           \/ PollDone \/ CancelTaken \/ CancelLost \/ CancelRefused
           \/ \E r \in Refs : PollSkip(r) \/ PollDies(r)
  <2>1. UNCHANGED <<stage, log>>
    BY <1>1 DEF StartPoll, KeepCycle, CloseCycle, SetPnl, ReleaseConfig, PollDone,
                CancelTaken, CancelLost, CancelRefused, PollSkip, PollDies, db
  <2>2. pc \notin InHand /\ pc' \notin InHand
    BY <1>1 DEF StartPoll, KeepCycle, CloseCycle, SetPnl, ReleaseConfig, PollDone,
                CancelTaken, CancelLost, CancelRefused, PollSkip, PollDies, At,
                Goto, NextRow, Die, InHand, Sending
  <2> QED
    BY <2>1, <2>2, SameFrame
<1>2. ASSUME NEW r \in Refs, NEW st \in Live \cup Terminal, NEW f \in Qty, NEW next,
             log[r].st \in Sent, pc \notin InHand, stage' = stage,
             log' = [log EXCEPT ![r] = LogUpdate(log[r], st, f)], cur' = r, pc' = next,
             st # "SENDING", st \in Sent \/ next \in InHand
      PROVE  Same
  <2> DEFINE row == LogUpdate(log[r], st, f)
  <2>1. /\ row.st = st /\ row.stage = log[r].stage /\ row.side = log[r].side
        /\ row.req = log[r].req
    BY <1>2, UpdatedSame
  <2>2. log' = [log EXCEPT ![r] = row] /\ Open(r)
    BY <1>2 DEF Open
  <2> HIDE DEF row
  <2> QED
    BY <1>2, <2>1, <2>2, SameRow
<1>3. CASE LogCanceled
  <2>1. /\ cur \in Refs /\ log[cur].st \in Sent /\ cur' = cur /\ stage' = stage
        /\ pc \notin InHand /\ pc' \in InHand
        /\ log' = [log EXCEPT ![cur] = LogUpdate(log[cur], "CANCELED", seen)]
    BY <1>3 DEF LogCanceled, SetLog, Goto, OrderInv, PcInv, Polling, InHand, Sending
  <2>2. "CANCELED" \in Live \cup Terminal
    BY DEF Terminal
  <2> QED
    BY <1>2, <2>1, <2>2
<1>4. ASSUME NEW r \in Refs, Asked(r)
      PROVE  /\ log[r].st \in Sent /\ pc \notin InHand /\ book[r].filled \in Qty
  BY <1>4 DEF Asked, At, OrderInv, RowInv, TodoInv, Polling, Sent, InHand, Sending, BookRow
<1>5. ASSUME NEW r \in Refs, PollRejected(r) \/ PollFilled(r) PROVE Same
  <2>1. PICK st \in {"REJECTED", "FILLED"}, f \in {0, book[r].filled},
             next \in {"undo", "apply"} : Settle(r, st, f, next)
    BY <1>5 DEF PollRejected, PollFilled
  <2>2. Asked(r)
    BY <1>5 DEF PollRejected, PollFilled
  <2>3. st \in Live \cup Terminal /\ next \in InHand /\ f \in Qty
    BY <1>4, <2>2, QtyFacts DEF Terminal, InHand
  <2> QED
    BY <1>2, <1>4, <2>1, <2>2, <2>3 DEF Settle
<1>6. ASSUME NEW r \in Refs, NEW expired \in BOOLEAN, PollOpen(r, expired) PROVE Same
  <2> DEFINE st == IF book[r].filled > 0 THEN "PARTIAL" ELSE log[r].st
             next == IF expired THEN "cancel" ELSE "closing"
  <2>1. Asked(r) /\ Settle(r, st, book[r].filled, next)
    BY <1>6 DEF PollOpen
  <2>2. st \in Sent /\ st \in Live /\ st # "SENDING"
    BY <1>4, <2>1 DEF Sent, Live
  <2> HIDE DEF st, next
  <2> QED
    BY <1>2, <1>4, <2>1, <2>2 DEF Settle
<1> QED
  BY <1>1, <1>3, <1>5, <1>6 DEF Poll, Frees

LEMMA EveryOrderStep ==
  ASSUME TypeInv, OrderInv, [Next]_vars
  PROVE  Same \/ Frees \/ \E s \in Stages, r \in Refs : RecordOrder(s, r)
<1>1. CASE UNCHANGED vars \/ Command \/ Tick \/ Exchange
  <2>1. UNCHANGED <<stage, log>> /\ (UNCHANGED <<pc, cur>> \/ (pc = "tick" /\ pc' = "decide"))
    BY <1>1 DEF vars, db, local, Command, PauseCycle, ResumeCycle, Transition, Tick,
                OnTick, Exchange, Deliver, RejectLater, Fill, MarketClose, NextDay
  <2> QED
    BY <2>1, SameFrame DEF InHand, Sending
<1> QED
  BY <1>1, SameSend, SamePoll DEF Next, EngineStep

\* What the end of its order makes of a stage: nothing filled leaves it as it was, and
\* what was filled is bought or sold.
LEMMA EndedRow ==
  ASSUME NEW row \in StageRow, NEW side \in Sides, row.status = PendingAs(side),
         NEW f \in Qty, f <= IF side = "BUY" THEN Lot ELSE row.qty
  PROVE  /\ HeldQty(Restored(row)) = HeldQty(row)
         /\ HeldQty(Applied(row, f)) = HeldQty(row) + IF side = "BUY" THEN f ELSE 0 - f
<1>1. row.qty \in Nat /\ f \in Nat
  BY DEF StageRow, Qty
<1>2. HeldQty(Restored(row)) = HeldQty(row)
  BY DEF Restored, CancelBuy, CancelSell, HeldQty, Holds, PendingAs, StageRow, Sides
<1>3. CASE side = "BUY"
  <2>1. HeldQty(Applied(row, f)) = f /\ HeldQty(row) = 0
    BY <1>3 DEF Applied, ToHolding, HeldQty, Holds, PendingAs, StageRow
  <2> QED
    BY <1>1, <1>2, <1>3, <2>1
<1>4. CASE side = "SELL"
  <2>1. HeldQty(row) = row.qty
    BY <1>4 DEF HeldQty, Holds, PendingAs
  <2>2. CASE f >= row.qty
    <3>1. f = row.qty
      BY <1>1, <1>4, <2>2
    <3>2. HeldQty(Applied(row, f)) = 0
      BY <1>4, <2>2 DEF Applied, AfterSell, HeldQty, Holds, PendingAs
    <3> QED
      BY <1>1, <1>2, <1>4, <2>1, <3>1, <3>2
  <2>3. CASE ~(f >= row.qty)
    <3>1. HeldQty(Applied(row, f)) = row.qty - f
      BY <1>4, <2>3 DEF Applied, CancelSell, HeldQty, Holds, PendingAs, StageRow
    <3>2. row.qty - f = row.qty + (0 - f)
      BY <1>1
    <3> QED
      BY <1>2, <1>4, <2>1, <3>1, <3>2
  <2> QED
    BY <2>2, <2>3
<1> QED
  BY <1>3, <1>4 DEF Sides

\* The step that ends the order at hand.
LEMMA FreesOrder ==
  ASSUME TypeInv, OrderInv, FillsInv, ShapeInv, AskInv, AmountInv, Frees
  PROVE  /\ cur \in Refs /\ Open(cur) /\ log[cur].st \in Terminal /\ log' = log /\ book' = book
         /\ log[cur].stage \in Stages /\ log[cur].side \in Sides
         /\ \A r \in Refs : Open(r)' <=> Open(r) /\ r # cur
         /\ \A s \in Stages : s # log[cur].stage => stage'[s] = stage[s]
         /\ HeldQty(stage'[log[cur].stage]) = HeldQty(stage[log[cur].stage]) + Told(cur)
<1> USE DEF TypeInv, TypeOK
<1> DEFINE s == log[cur].stage
<1>1. /\ cur \in Refs /\ pc \in Ending /\ pc' \notin InHand /\ log' = log /\ book' = book
      /\ log[cur].st \in Terminal
  BY DEF Frees, RestoreAfterSend, RestoreAfterPoll, ApplyFill, SetStage, SendDone, Goto,
         Ending, InHand, Sending, Polling, market, OrderInv, PcInv
<1>2. Open(cur) /\ \A r \in Refs : Open(r)' <=> Open(r) /\ r # cur
  BY <1>1, EndingInHand DEF Open, Sent, Live, Terminal
<1>3. s \in Stages /\ log[cur].side \in Sides
  BY <1>1 DEF OrderInv, RowInv, Terminal, LogRow
<1>4. \A t \in Stages : t # s => stage'[t] = stage[t]
  BY <1>3 DEF Frees, RestoreAfterSend, RestoreAfterPoll, ApplyFill, SetStage
<1>5. /\ stage[s] \in StageRow /\ stage[s].status = PendingAs(log[cur].side)
      /\ log[cur].fill \in Qty
      /\ log[cur].fill <= IF log[cur].side = "BUY" THEN Lot ELSE stage[s].qty
  BY <1>1, <1>2, <1>3 DEF OrderInv, WaitInv, Ending, LogRow, AmountInv, AskInv
<1>6. /\ HeldQty(Restored(stage[s])) = HeldQty(stage[s])
      /\ HeldQty(Applied(stage[s], log[cur].fill)) = HeldQty(stage[s]) + Told(cur)
  BY <1>3, <1>5, EndedRow DEF Told
<1>7. HeldQty(stage'[s]) = HeldQty(stage[s]) + Told(cur)
  <2>1. CASE RestoreAfterSend \/ RestoreAfterPoll
    <3>1. stage'[s] = Restored(stage[s])
      BY <1>3, <2>1 DEF RestoreAfterSend, RestoreAfterPoll, SetStage
    <3>2. log[cur].fill = 0
      BY <2>1 DEF RestoreAfterSend, RestoreAfterPoll, FillsInv, Sending
    <3>3. Told(cur) = 0 /\ HeldQty(stage[s]) \in Nat
      BY <1>5, <3>2 DEF Told, HeldQty, StageRow, Qty
    <3> HIDE DEF s
    <3> QED
      BY <1>6, <3>1, <3>3
  <2>2. CASE ApplyFill
    <3>1. stage'[s] = Applied(stage[s], log[cur].fill)
      BY <1>3, <2>2 DEF ApplyFill, SetStage, FillsInv
    <3> QED
      BY <1>6, <3>1
  <2> QED
    BY <2>1, <2>2 DEF Frees
<1> QED
  BY <1>1, <1>2, <1>3, <1>4, <1>7

\* Its stage waits no more.
LEMMA FreesStage ==
  ASSUME TypeInv, OrderInv, FillsInv, ShapeInv, AskInv, AmountInv, Frees
  PROVE  ~Pending(stage'[log[cur].stage])
<1> DEFINE s == log[cur].stage
<1>1. s \in Stages /\ stage[s] \in StageRow
  BY FreesOrder DEF TypeInv, TypeOK
<1>2. stage'[s] = Restored(stage[s]) \/ stage'[s] = Applied(stage[s], seen)
  BY <1>1 DEF Frees, RestoreAfterSend, RestoreAfterPoll, ApplyFill, SetStage, TypeInv, TypeOK
<1> QED
  BY <1>1, <1>2, EndsPending DEF Pending

---------------------------------------------------------------------------
(* A stage holds what its ended orders have recorded *)

LEMMA RefsFinite == IsFiniteSet(Refs)
BY EngineAssumption, FS_Interval DEF Refs

LEMMA SharesAreInts ==
  ASSUME TypeOK, NEW r \in Refs
  PROVE  /\ Told(r) \in Int /\ Moved(r) \in Int
         /\ \A s : Recorded(s)[r] \in Int
<1>1. log[r].fill \in Nat /\ book[r].filled \in Nat
  BY DEF TypeInv, TypeOK, LogRow, BookRow, Qty
<1>2. Told(r) \in Int /\ Moved(r) \in Int
  BY <1>1 DEF Told, Moved
<1> QED
  BY <1>2 DEF Recorded

LEMMA AskNext ==
  ASSUME TypeInv, OrderInv, FillsInv, ShapeInv, AmountInv, AskInv, [Next]_vars
  PROVE  AskInv'
<1> USE DEF TypeInv, TypeOK
<1>1. \A r \in Refs : Open(r) => log[r].stage \in Stages
  BY OpenStage
<1>2. CASE Same
  BY <1>1, <1>2 DEF Same, AskInv
<1>3. CASE Frees
  <2>1. \A r \in Refs : Open(r)' => Open(r) /\ log[r].stage # log[cur].stage
    BY <1>3, FreesOrder DEF OrderInv, UniqueInv
  <2> QED
    BY <1>1, <1>3, <2>1, FreesOrder DEF AskInv
<1>4. ASSUME NEW s \in Stages, NEW r \in Refs, RecordOrder(s, r) PROVE AskInv'
  <2>1. /\ stage' = stage /\ \A q \in Refs : q # r => log'[q] = log[q]
        /\ log'[r].req = IF log'[r].side = "BUY" THEN Lot ELSE stage[s].qty
        /\ log'[r].stage = s
        /\ cur' = r
    BY <1>4 DEF RecordOrder
  <2>2. \A q \in Refs : Open(q)' => Open(q) \/ q = r
    BY <2>1 DEF Open
  <2> QED
    BY <2>1, <2>2 DEF AskInv
<1> QED
  BY <1>2, <1>3, <1>4, EveryOrderStep

\* The row on_tick inserts belongs to a stage that is not PENDING, and moves nothing.
LEMMA RecordsOrder ==
  ASSUME TypeInv, OrderInv, NEW t \in Stages, NEW r \in Refs, RecordOrder(t, r)
  PROVE  /\ stage' = stage /\ book' = book /\ cur' = r /\ pc' = "recorded"
         /\ log[r].st = "NONE" /\ ~Open(r) /\ ~Pending(stage[t])
         /\ log'[r].st = "SENDING" /\ log'[r].stage = t
         /\ \A q \in Refs : q # r => log'[q] = log[q]
         /\ \A q \in Refs : Open(q)' <=> Open(q) \/ q = r
<1>1. /\ stage' = stage /\ book' = book /\ cur' = r /\ pc' = "recorded" /\ pc = "decide"
      /\ log[r].st = "NONE" /\ \A q \in Refs : q # r => log'[q] = log[q]
      /\ log'[r].st = "SENDING" /\ log'[r].stage = t
  BY DEF RecordOrder, NextRef, market, TypeInv, TypeOK
<1>2. ~Pending(stage[t])
  BY DEF RecordOrder, Chosen, OrderInv, PlanInv, Pending
<1>3. ~Open(r) /\ \A q \in Refs : Open(q)' <=> Open(q) \/ q = r
  BY <1>1 DEF Open, Sent, Live, InHand, Sending
<1> QED
  BY <1>1, <1>2, <1>3

\* A stage the engine does not know of any more is not touched again.
LEMMA ForgottenStays ==
  ASSUME TypeInv, OrderInv, FillsInv, ShapeInv, AmountInv, AskInv, [Next]_vars,
         NEW s \in Stages, Forgotten(s)
  PROVE  Forgotten(s)'
<1>1. CASE Same
  BY <1>1 DEF Same, Forgotten
<1>2. ASSUME NEW t \in Stages, NEW r \in Refs, RecordOrder(t, r) PROVE Forgotten(s)'
  BY <1>2, RecordsOrder DEF Forgotten
<1>3. CASE Frees
  BY <1>3, FreesOrder DEF Forgotten
<1> QED
  BY <1>1, <1>2, <1>3, EveryOrderStep

LEMMA RecordedNext ==
  ASSUME TypeInv, TypeInv', OrderInv, FillsInv, ShapeInv, AmountInv, AskInv,
         HoldingsInv, [Next]_vars
  PROVE  HoldingsInv'
<1> SUFFICES ASSUME NEW s \in Stages, ~Forgotten(s)
             PROVE  HeldQty(stage'[s]) = SumFunctionOnSet(Recorded(s)', Refs)
  BY ForgottenStays DEF HoldingsInv
<1>1. HeldQty(stage[s]) = SumFunctionOnSet(Recorded(s), Refs)
  BY DEF HoldingsInv
<1>2. \A r \in Refs : Recorded(s)[r] \in Int /\ Recorded(s)'[r] \in Int
  <2>1. \A r \in Refs : Recorded(s)[r] \in Int
    BY SharesAreInts DEF TypeInv
  <2>2. \A r \in Refs : log'[r].fill \in Nat
    BY DEF TypeInv, TypeOK, LogRow, Qty
  <2>3. \A r \in Refs : Recorded(s)'[r] \in Int
    BY <2>2 DEF Recorded, Told
  <2> QED
    BY <2>1, <2>3
\* The stage and every order's share of it stay as they are.
<1>3. ASSUME HeldQty(stage'[s]) = HeldQty(stage[s]),
             \A r \in Refs : Recorded(s)'[r] = Recorded(s)[r]
      PROVE  HeldQty(stage'[s]) = SumFunctionOnSet(Recorded(s)', Refs)
  BY <1>1, <1>2, <1>3, RefsFinite, SumSame
<1>4. CASE Same
  <2>1. \A r \in Refs : Recorded(s)'[r] = Recorded(s)[r]
    BY <1>4 DEF Same, Recorded, Told
  <2> QED
    BY <1>3, <1>4, <2>1 DEF Same
<1>5. ASSUME NEW t \in Stages, NEW r \in Refs, RecordOrder(t, r)
      PROVE  HeldQty(stage'[s]) = SumFunctionOnSet(Recorded(s)', Refs)
  <2>1. /\ stage' = stage /\ \A q \in Refs : q # r => log'[q] = log[q]
        /\ log[r].st = "NONE"
        /\ \A q \in Refs : Open(q)' <=> Open(q) \/ q = r
    BY <1>5, RecordsOrder
  <2>2. Recorded(s)[r] = 0 /\ Recorded(s)'[r] = 0
    BY <2>1 DEF Recorded, Told, FillsInv
  <2>3. \A q \in Refs : q # r => Recorded(s)'[q] = Recorded(s)[q]
    BY <2>1 DEF Recorded, Told
  <2> QED
    BY <1>3, <2>1, <2>2, <2>3
<1>6. CASE Frees
  <2>1. /\ cur \in Refs /\ log[cur].stage \in Stages /\ log' = log /\ Open(cur)
        /\ \A r \in Refs : Open(r)' <=> Open(r) /\ r # cur
        /\ \A t \in Stages : t # log[cur].stage => stage'[t] = stage[t]
        /\ HeldQty(stage'[log[cur].stage]) = HeldQty(stage[log[cur].stage]) + Told(cur)
    BY <1>6, FreesOrder
  <2>2. \A r \in Refs : r # cur => Recorded(s)'[r] = Recorded(s)[r]
    BY <2>1 DEF Recorded, Told
  <2>3. /\ Recorded(s)[cur] = 0
        /\ Recorded(s)'[cur] = IF s = log[cur].stage THEN Told(cur) ELSE 0
    BY <2>1 DEF Recorded, Told
  <2>4. CASE s # log[cur].stage
    BY <1>3, <2>1, <2>2, <2>3, <2>4
  <2>5. CASE s = log[cur].stage
    <3> DEFINE A == Recorded(s)
               B == Recorded(s)'
    <3>1. \A r \in Refs : A[r] \in Int /\ B[r] \in Int /\ (r # cur => B[r] = A[r])
      BY <1>2, <2>2
    <3>2. A[cur] = 0 /\ B[cur] = Told(cur) /\ Told(cur) \in Int
      BY <2>1, <2>3, <2>5, SharesAreInts DEF TypeInv
    <3>3. HeldQty(stage[s]) = SumFunctionOnSet(A, Refs)
      BY <1>1
    <3>4. HeldQty(stage'[s]) = HeldQty(stage[s]) + Told(cur)
      BY <2>1, <2>5
    <3> HIDE DEF A, B
    <3>5. SumFunctionOnSet(B, Refs) = SumFunctionOnSet(A, Refs) + B[cur] - A[cur]
      BY <2>1, <3>1, RefsFinite, SumChange
    <3>6. SumFunctionOnSet(A, Refs) \in Int
      BY <3>1, RefsFinite, SumInt
    <3>7. HeldQty(stage'[s]) = SumFunctionOnSet(B, Refs)
      BY <3>2, <3>3, <3>4, <3>5, <3>6
    <3> QED
      BY <3>7 DEF B
  <2> QED
    BY <2>4, <2>5
<1> QED
  BY <1>4, <1>5, <1>6, EveryOrderStep

LEMMA RecordedInit == Init => AskInv /\ HoldingsInv /\ WholeInv
<1> SUFFICES ASSUME Init PROVE AskInv /\ HoldingsInv /\ WholeInv
  OBVIOUS
<1>1. \A r \in Refs : ~Open(r) /\ log[r].fill = 0 /\ log[r].st = "NONE"
  BY DEF Init, Open, NoRow, Sent, Live, InHand, Sending
<1>2. \A s \in Stages : HeldQty(stage[s]) = 0 /\ ~Pending(stage[s])
  BY DEF Init, FreshStage, HeldQty, Holds, Pending
<1>3. ASSUME NEW s \in Stages PROVE SumFunctionOnSet(Recorded(s), Refs) = 0
  <2>1. \A r \in Refs : Recorded(s)[r] = 0
    BY <1>1 DEF Recorded, Told
  <2> QED
    BY <2>1, RefsFinite, SumZero
<1> QED
  BY <1>1, <1>2, <1>3 DEF AskInv, HoldingsInv, WholeInv

LEMMA StageWriters ==
  ASSUME [Next]_vars PROVE stage' = stage \/ MarkPending \/ Frees
<1>1. CASE UNCHANGED vars \/ Command \/ Tick \/ Exchange
  BY <1>1 DEF vars, db, Command, PauseCycle, ResumeCycle, Transition, Tick, OnTick,
              Exchange, Deliver, RejectLater, Fill, MarketClose, NextDay
<1>2. CASE Send
  BY <1>2 DEF Send, GuardBlocks, RecordOrder, PlaceTaken, PlaceRefused, PlaceLost,
              LogAccepted, LogRejected, LogUnknown, ListLost, ListFound, ListMissing,
              SetLog, Frees, db
<1>3. CASE Poll
  BY <1>3 DEF Poll, StartPoll, PollSkip, PollDies, PollRejected, PollFilled, PollOpen,
              Settle, CancelTaken, CancelLost, CancelRefused, LogCanceled, SetLog,
              KeepCycle, CloseCycle, SetPnl, ReleaseConfig, PollDone, Frees, db
<1> QED
  BY <1>1, <1>2, <1>3 DEF Next, EngineStep

\* A stage becomes PENDING only for the open order at hand.
LEMMA NewPending ==
  ASSUME TypeInv, OrderInv, FillsInv, ShapeInv, AmountInv, AskInv, [Next]_vars,
         NEW s \in Stages, Pending(stage'[s])
  PROVE  \/ Pending(stage[s])
         \/ \E r \in Refs : log'[r].stage = s /\ Open(r)'
<1>1. CASE stage' = stage
  BY <1>1
<1>2. CASE MarkPending
  <2>1. /\ cur \in Refs /\ log' = log /\ cur' = cur /\ pc' = "placing"
        /\ \A t \in Stages : t # log[cur].stage => stage'[t] = stage[t]
    BY <1>2 DEF MarkPending, Goto, TypeInv, TypeOK, Sending
  <2>2. Open(cur)'
    BY <2>1 DEF Open, InHand, Sending
  <2> QED
    BY <2>1, <2>2
<1>3. CASE Frees
  <2>1. /\ \A t \in Stages : t # log[cur].stage => stage'[t] = stage[t]
        /\ ~Pending(stage'[log[cur].stage])
    BY <1>3, FreesOrder, FreesStage
  <2> QED
    BY <2>1
<1> QED
  BY <1>1, <1>2, <1>3, StageWriters

\* No path through send and poll_fill forgets a stage or leaves a row SENDING.
LEMMA WholeNext ==
  ASSUME TypeInv, OrderInv, FillsInv, ShapeInv, AmountInv, AskInv, WholeInv, [Next]_vars
  PROVE  WholeInv'
<1>1. ASSUME NEW s \in Stages, Pending(stage'[s])
      PROVE  \E r \in Refs : log'[r].stage = s /\ Open(r)'
  <2> SUFFICES ASSUME Pending(stage[s]) PROVE \E r \in Refs : log'[r].stage = s /\ Open(r)'
    BY <1>1, NewPending
  <2>1. PICK r \in Refs : log[r].stage = s /\ Open(r)
    BY DEF WholeInv
  <2>2. CASE Same
    BY <2>1, <2>2 DEF Same
  <2>3. ASSUME NEW t \in Stages, NEW q \in Refs, RecordOrder(t, q)
        PROVE  \E w \in Refs : log'[w].stage = s /\ Open(w)'
    BY <2>1, <2>3, RecordsOrder
  <2>4. CASE Frees
    <3>1. /\ log[cur].stage \in Stages /\ log' = log /\ cur \in Refs
          /\ \A q \in Refs : Open(q)' <=> Open(q) /\ q # cur
      BY <2>4, FreesOrder
    <3>2. ~Pending(stage'[log[cur].stage])
      BY <2>4, FreesStage
    <3> QED
      BY <1>1, <2>1, <3>1, <3>2
  <2> QED
    BY <2>2, <2>3, <2>4, EveryOrderStep
<1>2. ASSUME NEW r \in Refs, log'[r].st = "SENDING" PROVE Open(r)'
  <2>1. CASE Same
    BY <1>2, <2>1 DEF Same, WholeInv
  <2>2. ASSUME NEW t \in Stages, NEW q \in Refs, RecordOrder(t, q) PROVE Open(r)'
    BY <1>2, <2>2, RecordsOrder DEF WholeInv
  <2>3. CASE Frees
    BY <1>2, <2>3, FreesOrder DEF WholeInv, Terminal
  <2> QED
    BY <2>1, <2>2, <2>3, EveryOrderStep
<1> QED
  BY <1>1, <1>2 DEF WholeInv

LEMMA WholeHoldings == HoldingsInv /\ WholeInv => HoldingsAreRecorded
BY DEF HoldingsInv, WholeInv, Forgotten, HoldingsAreRecorded

LEMMA AccountInvariant == Spec => [](FillsInv /\ AskInv /\ HoldingsInv /\ WholeInv)
<1>1. ASSUME TypeInv, TypeInv', OrderInv, ShapeInv, AmountInv,
             FillsInv, AskInv, HoldingsInv, WholeInv, [Next]_vars
      PROVE  FillsInv' /\ AskInv' /\ HoldingsInv' /\ WholeInv'
  BY <1>1, FillsNext, AskNext, RecordedNext, WholeNext
<1> QED
  BY <1>1, FillsInit, RecordedInit, TypeInvariant, OrderInvariant, GuardRowsInvariant, PTL
     DEF Spec

\* Whatever the exchange does between two awaits and whichever answers are lost, a
\* stage holds exactly the fills recorded for its ended orders: the two commits
\* that end an order never count a fill twice and never drop one.
THEOREM HoldingsFollowTheLog == Spec => []HoldingsAreRecorded
BY WholeHoldings, AccountInvariant, PTL

\* A PENDING stage is always owed an answer, whatever the exchange does and
\* whichever calls are lost: no path through send and poll_fill forgets it.
THEOREM PendingSafety == Spec => []PendingIsOwed
<1>1. OrderInv /\ WholeInv => PendingIsOwed
  <2> SUFFICES ASSUME OrderInv, WholeInv, NEW s \in Stages, Pending(stage[s])
               PROVE  \E r \in Refs :
                        /\ log[r].stage = s
                        /\ log[r].st \in Live \/ (r = cur /\ pc \in {"unsend", "undo", "apply"})
    BY DEF PendingIsOwed
  <2>1. PICK r \in Refs : log[r].stage = s /\ Open(r)
    BY DEF WholeInv
  <2> QED
    BY <2>1 DEF OrderInv, PcInv, Open, Sent, InHand
<1> QED
  BY <1>1, OrderInvariant, AccountInvariant, PTL

---------------------------------------------------------------------------
(* Only a running cycle trades *)

\* How a step moves the engine through on_tick and send, and the cycle with it.
LEMMA SendingStep ==
  ASSUME TypeInv, OrderInv, FlatInv, [Next]_vars
  PROVE  /\ pc' \in Sending \/ plan' # {} => cycle' = "RUNNING"
         /\ cycle' = "CLOSED" => cycle = "CLOSED" \/ (Complete /\ stage' = stage)
<1> USE DEF TypeInv, TypeOK
<1>1. CASE Tick
  BY <1>1 DEF Tick, OnTick, db, Sending
<1>2. CASE Command
  BY <1>2 DEF Command, PauseCycle, ResumeCycle, Transition, local, OrderInv, PlanInv,
              Sending
<1>3. CASE UNCHANGED vars \/ Exchange
  BY <1>3 DEF vars, db, local, FlatInv, Exchange, Deliver, RejectLater, Fill, MarketClose,
              NextDay
<1>4. CASE Send
  <2>1. pc \in Sending \/ plan # {}
    BY <1>4 DEF Send, GuardBlocks, RecordOrder, MarkPending, PlaceTaken, PlaceRefused,
                PlaceLost, LogAccepted, LogRejected, LogUnknown, ListLost, ListFound,
                ListMissing, RestoreAfterSend, Chosen, Sending
  <2>2. cycle' = cycle
    BY <1>4 DEF Send, GuardBlocks, RecordOrder, MarkPending, PlaceTaken, PlaceRefused,
                PlaceLost, LogAccepted, LogRejected, LogUnknown, ListLost, ListFound,
                ListMissing, RestoreAfterSend, SetLog, SetStage, db
  <2> QED
    BY <2>1, <2>2 DEF FlatInv
<1>5. CASE Poll
  <2>1. pc' \notin Sending /\ (plan' = {} \/ (plan' = plan /\ pc # "decide" /\ pc \notin Sending))
    BY <1>5 DEF Poll, StartPoll, PollSkip, PollDies, PollRejected, PollFilled, PollOpen,
                Settle, CancelTaken, CancelLost, CancelRefused, LogCanceled, ApplyFill,
                RestoreAfterPoll, KeepCycle, CloseCycle, SetPnl, ReleaseConfig, PollDone,
                Asked, At, Goto, NextRow, Die, Sending
  <2>2. cycle' = cycle \/ (CloseCycle /\ Complete /\ stage' = stage)
    BY <1>5 DEF Poll, StartPoll, PollSkip, PollDies, PollRejected, PollFilled, PollOpen,
                Settle, CancelTaken, CancelLost, CancelRefused, LogCanceled, SetLog,
                ApplyFill, RestoreAfterPoll, SetStage, KeepCycle, CloseCycle, SetPnl,
                ReleaseConfig, PollDone, db
  <2>3. plan' = {}
    BY <2>1 DEF OrderInv, PlanInv
  <2> QED
    BY <2>1, <2>2, <2>3
<1> QED
  BY <1>1, <1>2, <1>3, <1>4, <1>5 DEF Next, EngineStep

LEMMA FlatNext ==
  ASSUME TypeInv, OrderInv, FillsInv, ShapeInv, AskInv, AmountInv, FlatInv, [Next]_vars
  PROVE  FlatInv'
<1>1. CASE cycle = "CLOSED"
  <2>1. pc \notin Sending
    BY <1>1 DEF FlatInv
  <2>2. ~Frees
    <3>1. ASSUME Frees PROVE FALSE
      <4>1. cur \in Refs /\ Open(cur) /\ log[cur].stage \in Stages /\ pc # "recorded"
        BY <2>1, <3>1, FreesOrder DEF Sending
      <4>2. Pending(stage[log[cur].stage])
        BY <4>1 DEF OrderInv, WaitInv, PendingAs, Pending
      <4> QED
        BY <1>1, <4>1, <4>2 DEF FlatInv
    <3> QED
      BY <3>1
  <2>3. stage' = stage
    BY <2>1, <2>2, StageWriters DEF MarkPending, Sending
  <2> QED
    BY <1>1, <2>3, SendingStep DEF FlatInv
<1>2. CASE cycle # "CLOSED"
  <2>1. cycle' = "CLOSED" => Complete /\ stage' = stage
    BY <1>2, SendingStep
  <2> QED
    BY <2>1, SendingStep DEF FlatInv, Complete
<1> QED
  BY <1>1, <1>2

LEMMA FlatInvariant == Spec => []FlatInv
<1>1. Init => FlatInv
  BY DEF Init, FlatInv, Sending
<1>2. TypeInv /\ OrderInv /\ FillsInv /\ ShapeInv /\ AskInv /\ AmountInv /\ FlatInv
        /\ [Next]_vars => FlatInv'
  BY FlatNext
<1> QED
  BY <1>1, <1>2, TypeInvariant, OrderInvariant, GuardRowsInvariant, AccountInvariant, PTL
     DEF Spec

\* The invariant of the order path as a whole.
THEOREM PathInvariant == ASSUME ~LateDelivery PROVE Spec => []PathInv
<1>1. OrderInv /\ WholeInv /\ BookInv /\ FillsInv /\ AskInv /\ FlatInv => PathInv
  BY DEF PathInv
<1> QED
  BY <1>1, OrderInvariant, BookInvariant, AccountInvariant, FlatInvariant, PTL

---------------------------------------------------------------------------
(* What the exchange holds for a stage, when nothing moves between two awaits *)

MatchInv ==
  /\ OrderInv /\ BookInv /\ ShapeInv /\ AmountInv /\ FillsInv /\ AskInv /\ FlatInv
  /\ TruthInv /\ HoldingsInv

LEMMA MatchInvariant ==
  ASSUME ~RacingFills, ~LateDelivery PROVE Spec => [](TypeInv /\ MatchInv)
<1>1. Init => TruthInv
  BY DEF Init, TruthInv, NoRow, Terminal
<1>2. TypeInv /\ OrderInv /\ BookInv /\ TruthInv /\ [Next]_vars => TruthInv'
  BY TruthNext
<1>3. ASSUME OrderInv, BookInv, ShapeInv, AmountInv, FillsInv, AskInv, FlatInv,
             TruthInv, HoldingsInv
      PROVE  MatchInv
  BY <1>3 DEF MatchInv
<1> QED
  BY <1>1, <1>2, <1>3, TypeInvariant, OrderInvariant, BookInvariant, GuardRowsInvariant,
     AccountInvariant, FlatInvariant, PTL DEF Spec

\* The row of an ended order tells what the exchange moved for it, and one that was
\* left SENDING moved nothing.
LEMMA ToldIsMoved ==
  ASSUME TypeInv, MatchInv, NEW r \in Refs, ~Open(r)
  PROVE  Told(r) = Moved(r) /\ (log[r].st \in Live => Told(r) = 0)
<1>1. /\ log[r].st \in Terminal \cup {"NONE", "SENDING"}
      /\ log[r].fill \in Nat /\ book[r].filled \in Nat
  BY DEF TypeInv, TypeOK, LogRow, BookRow, Qty, Open, Sent
<1>2. log[r].st = "SENDING" => book[r].filled = 0
  BY DEF MatchInv, BookInv, TruthInv, Open, InHand
<1>3. log[r].fill <= book[r].filled
  BY DEF MatchInv, TruthInv
<1>4. log[r].fill = book[r].filled
  BY <1>1, <1>2, <1>3 DEF MatchInv, TruthInv, FillsInv
<1>5. log[r].st \in Live => log[r].fill = 0
  BY <1>1, <1>2, <1>4 DEF Live, Terminal
<1> QED
  BY <1>4, <1>5 DEF Told, Moved

Shares(s) == [r \in Refs |-> IF log[r].stage = s THEN Moved(r) ELSE 0]

\* Without an open order the exchange holds for a stage what its row says, and with
\* one what that order has moved on top of it.
LEMMA Position ==
  ASSUME TypeInv, MatchInv, NEW s \in Stages
  PROVE  /\ ~Pending(stage[s]) /\ (\A r \in Refs : Open(r) => log[r].stage # s) =>
              Net(s, Refs) = HeldQty(stage[s])
         /\ \A r \in Refs : Open(r) /\ log[r].stage = s =>
              Net(s, Refs) = HeldQty(stage[s]) + Moved(r)
<1> DEFINE A == Recorded(s)
           N == Shares(s)
<1>1. \A r \in Refs : A[r] \in Int /\ N[r] \in Int /\ Moved(r) \in Int
  BY SharesAreInts DEF TypeInv, Shares
<1>2. \A r \in Refs : ~Open(r) => N[r] = A[r]
  BY ToldIsMoved DEF Recorded, Shares
<1>3. ~Forgotten(s) => HeldQty(stage[s]) = SumFunctionOnSet(A, Refs)
  BY DEF MatchInv, HoldingsInv
<1>4. Net(s, Refs) = SumFunctionOnSet(N, Refs)
  BY DEF Net, Shares
<1>5. \A r \in Refs : Open(r) => /\ A[r] = 0
                                 /\ N[r] = IF log[r].stage = s THEN Moved(r) ELSE 0
  BY DEF Recorded, Shares
<1> HIDE DEF A, N
<1>6. ASSUME ~Pending(stage[s]), \A r \in Refs : Open(r) => log[r].stage # s
      PROVE  Net(s, Refs) = HeldQty(stage[s])
  <2>1. \A r \in Refs : N[r] = A[r]
    BY <1>2, <1>5, <1>6
  <2>2. SumFunctionOnSet(N, Refs) = SumFunctionOnSet(A, Refs)
    BY <1>1, <2>1, RefsFinite, SumSame
  <2>3. ~Forgotten(s)
    BY <1>6 DEF Forgotten
  <2> QED
    BY <1>3, <1>4, <2>2, <2>3
<1>7. ASSUME NEW r \in Refs, Open(r), log[r].stage = s
      PROVE  Net(s, Refs) = HeldQty(stage[s]) + Moved(r)
  <2>1. \A q \in Refs : q # r /\ Open(q) => log[q].stage # s
    BY <1>7 DEF MatchInv, OrderInv, UniqueInv
  <2>2. \A q \in Refs : q # r => N[q] = A[q]
    BY <1>2, <1>5, <2>1
  <2>3. SumFunctionOnSet(N, Refs) = SumFunctionOnSet(A, Refs) + N[r] - A[r]
    BY <1>1, <2>2, RefsFinite, SumChange
  <2>4. SumFunctionOnSet(A, Refs) \in Int
    BY <1>1, RefsFinite, SumInt
  <2>5. N[r] = Moved(r) /\ A[r] = 0 /\ Moved(r) \in Int
    BY <1>1, <1>5, <1>7
  <2>6. ~Forgotten(s)
    BY <1>7 DEF Forgotten
  <2> QED
    BY <1>3, <1>4, <2>3, <2>4, <2>5, <2>6
<1> QED
  BY <1>6, <1>7

\* Between two ticks a stage holds what the exchange filled for it, unless a crash made
\* the engine forget it.
LEMMA TickMatches ==
  ASSUME TypeInv, MatchInv, pc = "tick", NEW s \in Stages, ~Forgotten(s)
  PROVE  HeldQty(stage[s]) = Net(s, Refs \ PendingRows)
<1> DEFINE A == Recorded(s)
           N == Shares(s)
           R == Refs \ PendingRows
<1>1. \A r \in Refs : (Open(r) => r \in PendingRows) /\ (r \in PendingRows => log[r].st \in Live)
  BY DEF PendingRows, Open, Sent, InHand, Sending
<1>2. \A r \in Refs : A[r] \in Int
  BY SharesAreInts DEF TypeInv
<1>3. /\ \A r \in Refs \ R : A[r] = 0
      /\ \A r \in R : N[r] = A[r]
  <2>1. \A r \in Refs \ R : Open(r) \/ Told(r) = 0
    BY <1>1, ToldIsMoved
  <2>2. \A r \in R : Told(r) = Moved(r) /\ ~Open(r)
    BY <1>1, ToldIsMoved
  <2> QED
    BY <2>1, <2>2 DEF Recorded, Shares
<1>4. R \subseteq Refs /\ IsFiniteSet(R)
  BY RefsFinite, FS_Subset
<1>5. HeldQty(stage[s]) = SumFunctionOnSet(A, Refs)
  BY DEF MatchInv, HoldingsInv
<1>6. Net(s, R) = SumFunctionOnSet(N, R)
  BY DEF Net, Shares
<1> HIDE DEF A, N, R
<1>7. SumFunctionOnSet(A, Refs) = SumFunctionOnSet(A, R)
  BY <1>2, <1>3, <1>4, RefsFinite, SumWithout
<1>8. \A r \in R : A[r] \in Int /\ N[r] = A[r]
  BY <1>2, <1>3, <1>4
<1>9. SumFunctionOnSet(N, R) = SumFunctionOnSet(A, R)
  BY <1>4, <1>8, SumSame
<1> QED
  BY <1>5, <1>6, <1>7, <1>9 DEF R

\* Between two ticks every stage holds exactly what the exchange filled for it, the
\* orders still pending in the log left aside: the ledger of FakeBroker and the
\* database never drift apart.
THEOREM StagesMatch ==
  ASSUME ~RacingFills, ~LateDelivery PROVE Spec => []StageMatchesExchange
<1>1. TypeInv /\ MatchInv /\ WholeInv => StageMatchesExchange
  BY TickMatches DEF StageMatchesExchange, WholeInv, Forgotten
<1> QED
  BY <1>1, MatchInvariant, AccountInvariant, PTL

LEMMA MatchCovered ==
  ASSUME TypeInv, MatchInv PROVE SellsAreCovered
<1> SUFFICES ASSUME NEW r \in Refs, log[r].side = "SELL", AtExchange(r)
             PROVE  log[r].req - book[r].filled <= Net(log[r].stage, Refs)
  BY DEF SellsAreCovered
<1> DEFINE s == log[r].stage
<1>1. Open(r) /\ ~(r = cur /\ pc = "recorded") /\ s \in Stages
  BY LiveIsOpen, OpenStage DEF MatchInv, BookInv
<1>2. stage[s].status = "SELL_PENDING" /\ log[r].req = stage[s].qty
  BY <1>1 DEF MatchInv, OrderInv, WaitInv, PendingAs, AskInv
<1>3. Net(s, Refs) = HeldQty(stage[s]) + Moved(r)
  BY <1>1, Position
<1>4. HeldQty(stage[s]) = log[r].req /\ Moved(r) = 0 - book[r].filled
  BY <1>2 DEF HeldQty, Holds, Moved
<1>5. log[r].req \in Nat /\ book[r].filled \in Nat
  BY DEF TypeInv, TypeOK, LogRow, BookRow, Qty
<1> QED
  BY <1>3, <1>4, <1>5

\* What a working sell may still take is covered by shares the exchange holds for
\* its stage: no order ever sells short.
THEOREM SellsAreAlwaysCovered ==
  ASSUME ~RacingFills, ~LateDelivery PROVE Spec => []SellsAreCovered
BY MatchCovered, MatchInvariant, PTL

\* No stage of a closed cycle waits for an order, so none is open.
LEMMA ClosedHasNoOrder ==
  ASSUME TypeInv, MatchInv, cycle = "CLOSED", NEW r \in Refs PROVE ~Open(r)
<1>1. pc \notin Sending
  BY DEF MatchInv, FlatInv
<1>2. ASSUME Open(r) PROVE FALSE
  <2>1. log[r].stage \in Stages
    BY <1>2, OpenStage DEF MatchInv
  <2>2. Pending(stage[log[r].stage])
    BY <1>1, <1>2 DEF MatchInv, OrderInv, WaitInv, Sending, Pending, PendingAs
  <2> QED
    BY <2>1, <2>2 DEF MatchInv, FlatInv
<1> QED
  BY <1>2

LEMMA MatchFlat ==
  ASSUME TypeInv, MatchInv PROVE ClosedIsFlat
<1>1. ASSUME cycle = "CLOSED", NEW s \in Stages
      PROVE  Net(s, Refs) = 0 /\ \A r \in Refs : ~AtExchange(r)
  <2>1. ~Pending(stage[s]) /\ HeldQty(stage[s]) = 0
    BY <1>1 DEF MatchInv, FlatInv
  <2>2. Net(s, Refs) = HeldQty(stage[s])
    BY <1>1, <2>1, ClosedHasNoOrder, Position
  <2>3. \A r \in Refs : ~AtExchange(r)
    BY <1>1, ClosedHasNoOrder, LiveIsOpen DEF MatchInv
  <2> QED
    BY <2>1, <2>2, <2>3
<1> QED
  BY <1>1 DEF ClosedIsFlat

\* A cycle closes only when the exchange has nothing left of it: no order that may
\* still be filled and no share.
THEOREM ClosedCyclesAreFlat ==
  ASSUME ~RacingFills, ~LateDelivery PROVE Spec => []ClosedIsFlat
BY MatchFlat, MatchInvariant, PTL

---------------------------------------------------------------------------
(* The order path implements the ledger *)

Flight(row) ==
  CASE row.status = "BUY_PENDING" -> "BUY" [] row.status = "SELL_PENDING" -> "SELL"
    [] OTHER -> "none"

LEMMA Flights ==
  ASSUME NEW row
  PROVE  Flight(row) = IF row.status = "BUY_PENDING" THEN "BUY"
                       ELSE IF row.status = "SELL_PENDING" THEN "SELL" ELSE "none"
BY DEF Flight

\* The steps of the ledger, in the words of the order path.
BeginStep(s) ==
  /\ Flight(stage[s]) = "none"
  /\ Flight(stage'[s]) = IF HeldQty(stage[s]) = 0 THEN "BUY" ELSE "SELL"
  /\ HeldQty(stage'[s]) = HeldQty(stage[s])
  /\ \A t \in Stages : t # s => stage'[t] = stage[t]
  /\ \A t \in Stages : Net(t, Refs)' = Net(t, Refs)

EndStep(s) ==
  /\ Flight(stage[s]) # "none" /\ Flight(stage'[s]) = "none"
  /\ HeldQty(stage'[s]) = Net(s, Refs)
  /\ \A t \in Stages : t # s => stage'[t] = stage[t]
  /\ \A t \in Stages : Net(t, Refs)' = Net(t, Refs)

MoveStep(s, q) ==
  /\ \/ Flight(stage[s]) = "BUY" /\ q > Net(s, Refs)
     \/ Flight(stage[s]) = "SELL" /\ q < Net(s, Refs)
  /\ Net(s, Refs)' = q
  /\ stage' = stage
  /\ \A t \in Stages : t # s => Net(t, Refs)' = Net(t, Refs)

LEMMA LedgerSteps ==
  ASSUME \/ \A t \in Stages : /\ Flight(stage'[t]) = Flight(stage[t])
                              /\ HeldQty(stage'[t]) = HeldQty(stage[t])
                              /\ Net(t, Refs)' = Net(t, Refs)
         \/ \E s \in Stages : BeginStep(s) \/ EndStep(s) \/ \E q \in Qty : MoveStep(s, q)
  PROVE  [Ledger!LNext]_(Ledger!lvars)
<1>1. ASSUME \A t \in Stages : /\ Flight(stage'[t]) = Flight(stage[t])
                               /\ HeldQty(stage'[t]) = HeldQty(stage[t])
                               /\ Net(t, Refs)' = Net(t, Refs)
      PROVE  UNCHANGED Ledger!lvars
  BY <1>1 DEF Ledger!lvars, Flight
<1>2. ASSUME NEW s \in Stages, BeginStep(s) PROVE Ledger!Begin(s)
  BY <1>2 DEF BeginStep, Ledger!Begin, Flight
<1>3. ASSUME NEW s \in Stages, EndStep(s) PROVE Ledger!End(s)
  BY <1>3 DEF EndStep, Ledger!End, Flight
<1>4. ASSUME NEW s \in Stages, NEW q \in Qty, MoveStep(s, q) PROVE Ledger!Move(s, q)
  BY <1>4 DEF MoveStep, Ledger!Move, Flight
<1>5. \A s \in Stages :
        BeginStep(s) \/ EndStep(s) \/ (\E q \in Qty : MoveStep(s, q)) => Ledger!LNext
  BY <1>2, <1>3, <1>4 DEF Ledger!LNext, Qty
<1> QED
  BY <1>1, <1>5

\* Where a fill changes, the exchange has moved one order.
LEMMA FillWriters ==
  ASSUME TypeInv, [Next]_vars
  PROVE  \/ \A r \in Refs : book'[r].filled = book[r].filled
         \/ \E r \in Refs, f \in Qty : Fill(r, f) \/ (r = cur /\ PlaceTaken(f))
         \/ \E r \in Refs : Deliver(r)
<1> USE DEF TypeInv, TypeOK
<1>1. CASE UNCHANGED vars \/ Command \/ Tick
  BY <1>1 DEF vars, market, Command, PauseCycle, ResumeCycle, Transition, Tick, OnTick
<1>2. CASE Send
  <2>1. ASSUME NEW f \in Qty, PlaceTaken(f) PROVE cur \in Refs
    BY <2>1 DEF PlaceTaken, Sending
  <2>2. CASE PlaceLost
    BY <2>2 DEF PlaceLost, BookRow
  <2> QED
    BY <1>2, <2>1, <2>2
       DEF Send, GuardBlocks, RecordOrder, MarkPending, PlaceRefused, LogAccepted,
           LogRejected, LogUnknown, ListLost, ListFound, ListMissing, RestoreAfterSend,
           market
<1>3. CASE Poll
  <2>1. CASE CancelTaken
    BY <2>1 DEF CancelTaken, BookRow
  <2> QED
    BY <1>3, <2>1
       DEF Poll, StartPoll, PollSkip, PollDies, PollRejected, PollFilled, PollOpen, Settle,
           CancelLost, CancelRefused, LogCanceled, ApplyFill, RestoreAfterPoll, KeepCycle,
           CloseCycle, SetPnl, ReleaseConfig, PollDone, market
<1>4. CASE Exchange
  <2>1. ASSUME NEW r \in Refs, RejectLater(r) PROVE \A q \in Refs : book'[q].filled = book[q].filled
    BY <2>1 DEF RejectLater, BookRow
  <2>2. CASE MarketClose \/ NextDay
    BY <2>2 DEF MarketClose, NextDay, BookRow
  <2> QED
    BY <1>4, <2>1, <2>2 DEF Exchange
<1> QED
  BY <1>1, <1>2, <1>3, <1>4 DEF Next, EngineStep

LEMMA NetSame ==
  ASSUME TypeOK, NEW s,
         \A r \in Refs : Shares(s)'[r] = Shares(s)[r]
  PROVE  Net(s, Refs)' = Net(s, Refs)
<1>1. \A r \in Refs : Shares(s)[r] \in Int
  BY SharesAreInts DEF Shares
<1> QED
  BY <1>1, RefsFinite, SumSame DEF Net, Shares

\* An order on which the exchange moves to f shares: its stage waits for it.
LEMMA FillMoves ==
  ASSUME TypeOK, TypeOK', NEW r \in Refs, NEW f \in Qty, UNCHANGED <<stage, log>>,
         NEW s \in Stages, log[r].stage = s,
         stage[s].status = PendingAs(log[r].side),
         log[r].req = IF log[r].side = "BUY" THEN Lot ELSE stage[s].qty,
         Net(s, Refs) = HeldQty(stage[s]) + Moved(r),
         f <= log[r].req, book[r].filled < f, book'[r].filled = f,
         \A q \in Refs : q # r => book'[q].filled = book[q].filled
  PROVE  \E t \in Stages, q \in Qty : MoveStep(t, q)
<1> DEFINE S == Shares(s)
           T == Shares(s)'
<1>1. stage[s].status = PendingAs(log[r].side) /\ stage[s] \in StageRow
  BY DEF TypeOK
<1>2. /\ f \in Nat /\ book[r].filled \in Nat /\ log[r].side \in Sides
      /\ stage[s].qty \in Nat /\ stage[s].qty <= Lot /\ Lot \in Nat
  BY <1>1, StageAssumption DEF TypeOK, LogRow, BookRow, StageRow, Qty
<1>3. \A q \in Refs : S[q] \in Int /\ T[q] \in Int /\ (q # r => T[q] = S[q])
  <2>1. \A q \in Refs : book'[q].filled \in Nat
    BY DEF TypeOK, BookRow, Qty
  <2> QED
    BY <2>1, SharesAreInts DEF Shares, Moved
<1>4. S[r] = Moved(r) /\ T[r] = Moved(r)' /\ Moved(r) \in Int /\ Moved(r)' \in Int
  BY <1>2, SharesAreInts DEF Shares, Moved
<1>5. Net(s, Refs) = SumFunctionOnSet(S, Refs) /\ Net(s, Refs)' = SumFunctionOnSet(T, Refs)
  BY DEF Net, Shares
<1> HIDE DEF S, T
<1>6. Net(s, Refs)' = Net(s, Refs) + Moved(r)' - Moved(r)
  <2>1. SumFunctionOnSet(T, Refs) = SumFunctionOnSet(S, Refs) + T[r] - S[r]
    BY <1>3, RefsFinite, SumChange
  <2> QED
    BY <1>4, <1>5, <2>1
<1>7. \A t \in Stages : t # s => Net(t, Refs)' = Net(t, Refs)
  <2>1. ASSUME NEW t \in Stages, t # s PROVE \A q \in Refs : Shares(t)'[q] = Shares(t)[q]
    BY <2>1 DEF Shares, Moved
  <2> QED
    BY <2>1, NetSame
<1>8. CASE log[r].side = "BUY"
  <2>1. HeldQty(stage[s]) = 0 /\ Moved(r) = book[r].filled /\ Moved(r)' = f
    BY <1>1, <1>8 DEF HeldQty, Holds, PendingAs, Moved
  <2>2. Net(s, Refs) = book[r].filled /\ Net(s, Refs)' = f
    BY <1>2, <1>6, <2>1
  <2>3. Flight(stage[s]) = "BUY"
    BY <1>1, <1>8, Flights DEF PendingAs
  <2>4. f > Net(s, Refs)
    BY <1>2, <2>2
  <2> QED
    BY <1>7, <2>2, <2>3, <2>4 DEF MoveStep
<1>9. CASE log[r].side = "SELL"
  <2> DEFINE q == stage[s].qty - f
  <2>1. /\ HeldQty(stage[s]) = stage[s].qty
        /\ Moved(r) = 0 - book[r].filled /\ Moved(r)' = 0 - f
    BY <1>1, <1>9 DEF HeldQty, Holds, PendingAs, Moved
  <2>2. Net(s, Refs) = stage[s].qty - book[r].filled /\ Net(s, Refs)' = q
    BY <1>2, <1>6, <2>1
  <2>3. Flight(stage[s]) = "SELL"
    BY <1>1, <1>9, Flights DEF PendingAs
  <2>4. q \in Qty /\ q < Net(s, Refs)
    BY <1>2, <1>9, <2>2 DEF Qty
  <2> HIDE DEF q
  <2> QED
    BY <1>7, <2>2, <2>3, <2>4 DEF MoveStep
<1> QED
  BY <1>2, <1>8, <1>9 DEF Sides

LEMMA LedgerNext ==
  ASSUME TypeInv, TypeInv', MatchInv, [Next]_vars
  PROVE  [Ledger!LNext]_(Ledger!lvars)
<1> USE DEF TypeInv, TypeOK
<1>1. ASSUME stage' = stage, \A s \in Stages : Net(s, Refs)' = Net(s, Refs)
      PROVE  [Ledger!LNext]_(Ledger!lvars)
  BY <1>1, LedgerSteps
<1>2. ASSUME \A r \in Refs : book'[r].filled = book[r].filled, Same
      PROVE  \A s \in Stages : Net(s, Refs)' = Net(s, Refs)
  <2>1. ASSUME NEW s \in Stages PROVE \A r \in Refs : Shares(s)'[r] = Shares(s)[r]
    BY <1>2 DEF Same, Shares, Moved
  <2> QED
    BY <2>1, NetSame
<1>3. CASE Frees
  <2> DEFINE s == log[cur].stage
  <2>1. /\ cur \in Refs /\ Open(cur) /\ log[cur].st \in Terminal /\ log' = log /\ book' = book
        /\ s \in Stages /\ \A t \in Stages : t # s => stage'[t] = stage[t]
        /\ HeldQty(stage'[s]) = HeldQty(stage[s]) + Told(cur)
    BY <1>3, FreesOrder DEF MatchInv
  <2>2. \A t \in Stages : Net(t, Refs)' = Net(t, Refs)
    BY <2>1 DEF Net, Moved
  <2>3. Told(cur) = Moved(cur)
    BY <2>1 DEF MatchInv, TruthInv, Told, Moved
  <2>4. Net(s, Refs) = HeldQty(stage[s]) + Moved(cur)
    BY <2>1, Position
  <2>5. Pending(stage[s]) /\ ~Pending(stage'[s])
    <3>1. pc # "recorded" /\ stage[s] \in StageRow /\ pc \in {"unsend", "undo", "apply"}
      BY <1>3, <2>1 DEF Frees, RestoreAfterSend, RestoreAfterPoll, ApplyFill
    <3>2. Pending(stage[s])
      BY <2>1, <3>1 DEF MatchInv, OrderInv, WaitInv, Pending, PendingAs
    <3> QED
      BY <1>3, <3>2, FreesStage DEF MatchInv
  <2>6. Flight(stage[s]) # "none" /\ Flight(stage'[s]) = "none"
    BY <2>5, Flights DEF Pending
  <2>7. EndStep(s)
    BY <2>1, <2>2, <2>3, <2>4, <2>6 DEF EndStep
  <2> QED
    BY <2>1, <2>7, LedgerSteps
<1>4. CASE MarkPending
  <2> DEFINE s == log[cur].stage
  <2>1. /\ cur \in Refs /\ s \in Stages /\ log' = log /\ book' = book
        /\ log[cur].side \in Sides
        /\ stage' = [stage EXCEPT ![s] = ToPending(stage[s], log[cur].side)]
        /\ stage[s].status = IF log[cur].side = "BUY" THEN "WAITING" ELSE "HOLDING"
    BY <1>4 DEF MarkPending, MatchInv, OrderInv, PcInv, Sending, market, LogRow
  <2>2. \A t \in Stages : Net(t, Refs)' = Net(t, Refs)
    BY <2>1 DEF Net, Moved
  <2>3. /\ stage'[s] = ToPending(stage[s], log[cur].side)
        /\ \A t \in Stages : t # s => stage'[t] = stage[t]
        /\ stage[s] \in StageRow
    BY <2>1
  <2>4. stage'[s].status = PendingAs(log[cur].side) /\ stage'[s].qty = stage[s].qty
    BY <2>3 DEF ToPending, StageRow
  <2>5. HeldQty(stage'[s]) = HeldQty(stage[s])
    BY <2>1, <2>4 DEF HeldQty, Holds, PendingAs
  <2>6. HeldQty(stage[s]) = 0 <=> log[cur].side = "BUY"
    <3>1. stage[s].qty > 0 <=> Holds(stage[s])
      BY <2>1 DEF MatchInv, ShapeInv
    <3> QED
      BY <2>1, <2>3, <3>1 DEF HeldQty, Holds, Sides, StageRow, Qty
  <2>7. /\ Flight(stage[s]) = "none"
        /\ Flight(stage'[s]) = IF HeldQty(stage[s]) = 0 THEN "BUY" ELSE "SELL"
    BY <2>1, <2>4, <2>6, Flights DEF PendingAs, Sides
  <2>8. BeginStep(s)
    BY <2>2, <2>3, <2>5, <2>7 DEF BeginStep
  <2> QED
    BY <2>1, <2>8, LedgerSteps
<1>5. ASSUME NEW s \in Stages, NEW r \in Refs, RecordOrder(s, r)
      PROVE  [Ledger!LNext]_(Ledger!lvars)
  <2>1. /\ stage' = stage /\ book' = book /\ log[r].st = "NONE"
        /\ \A q \in Refs : q # r => log'[q] = log[q]
    BY <1>5 DEF RecordOrder, NextRef, market
  <2>2. book[r].filled = 0
    BY <2>1 DEF MatchInv, FillsInv
  <2>3. ASSUME NEW t \in Stages PROVE \A q \in Refs : Shares(t)'[q] = Shares(t)[q]
    BY <2>1, <2>2 DEF Shares, Moved
  <2> QED
    BY <1>1, <2>1, <2>3, NetSame
<1>6. ASSUME NEW r \in Refs, NEW f \in Qty, Fill(r, f) \/ (r = cur /\ PlaceTaken(f))
      PROVE  [Ledger!LNext]_(Ledger!lvars)
  <2>1. /\ UNCHANGED <<stage, log>> /\ f <= log[r].req /\ book'[r].filled = f
        /\ \A q \in Refs : q # r => book'[q].filled = book[q].filled
    BY <1>6 DEF Fill, PlaceTaken, Place, db
  <2>2. Open(r) /\ ~(r = cur /\ pc = "recorded")
    <3>1. CASE Fill(r, f)
      BY <3>1, LiveIsOpen DEF Fill, AtExchange, MatchInv, BookInv
    <3>2. CASE r = cur /\ PlaceTaken(f)
      BY <3>2 DEF PlaceTaken, Open, InHand, Sending
    <3> QED
      BY <1>6, <3>1, <3>2
  <2>3. f # book[r].filled => book[r].filled < f
    <3>1. f \in Nat /\ book[r].filled \in Nat
      BY DEF BookRow, Qty
    <3>2. PlaceTaken(f) => book[cur].filled = 0
      BY DEF PlaceTaken, MatchInv, FillsInv, Sending
    <3> QED
      BY <1>6, <3>1, <3>2 DEF Fill
  <2>4. CASE f = book[r].filled
    <3>1. ASSUME NEW t \in Stages PROVE \A q \in Refs : Shares(t)'[q] = Shares(t)[q]
      BY <2>1, <2>4 DEF Shares, Moved
    <3> QED
      BY <1>1, <2>1, <3>1, NetSame
  <2>5. CASE f # book[r].filled
    <3> DEFINE t == log[r].stage
    <3>1. /\ t \in Stages /\ stage[t].status = PendingAs(log[r].side)
          /\ log[r].req = IF log[r].side = "BUY" THEN Lot ELSE stage[t].qty
          /\ Net(t, Refs) = HeldQty(stage[t]) + Moved(r)
      BY <2>2, OpenStage, Position DEF MatchInv, OrderInv, WaitInv, AskInv
    <3>2. \E s \in Stages, q \in Qty : MoveStep(s, q)
      BY <2>1, <2>3, <2>5, <3>1, FillMoves
    <3> QED
      BY <3>2, LedgerSteps
  <2> QED
    BY <2>4, <2>5
<1>7. ~ \E r \in Refs : Deliver(r)
  BY DEF Deliver, MatchInv, TruthInv
<1>8. CASE Same /\ \A r \in Refs : book'[r].filled = book[r].filled
  BY <1>1, <1>2, <1>3, <1>4, <1>8, StageWriters
<1> QED
  BY <1>3, <1>5, <1>6, <1>7, <1>8, FillWriters, EveryOrderStep DEF MatchInv

LEMMA LedgerInit == Init => Ledger!LInit
<1> SUFFICES ASSUME Init PROVE Ledger!LInit
  OBVIOUS
<1>1. \A s \in Stages : Flight(stage[s]) = "none" /\ HeldQty(stage[s]) = 0
  BY Flights DEF Init, FreshStage, HeldQty, Holds
<1>2. ASSUME NEW s \in Stages PROVE Net(s, Refs) = 0
  <2> DEFINE N == [r \in Refs |-> IF log[r].stage = s THEN Moved(r) ELSE 0]
  <2>1. \A r \in Refs : N[r] = 0
    BY DEF Init, Moved
  <2> HIDE DEF N
  <2>2. SumFunctionOnSet(N, Refs) = 0
    BY <2>1, RefsFinite, SumZero
  <2> QED
    BY <2>2 DEF N, Net
<1> QED
  BY <1>1, <1>2 DEF Ledger!LInit, Flight

\* The order path, with its logs, lost answers, inquiries, partial fills and cancels,
\* implements the ledger: at most one order in flight per stage, and when it ends the
\* stage becomes in one step, exactly once, what the exchange holds for it.
THEOREM PathImplementsLedger ==
  ASSUME ~RacingFills, ~LateDelivery PROVE Spec => LedgerSpec
<1>1. ASSUME TypeInv, TypeInv', MatchInv, [Next]_vars
      PROVE  [Ledger!LNext]_(Ledger!lvars)
  BY <1>1, LedgerNext
<1> QED
  BY <1>1, LedgerInit, MatchInvariant, PTL DEF Spec, LedgerSpec, Ledger!LSpec
=============================================================================
