---------------------------- MODULE EngineProofs ----------------------------
(***************************************************************************)
(* Proofs about the order path of Engine, for every number of stages and   *)
(* orders, every lot and every set of faults.                              *)
(***************************************************************************)
EXTENDS EngineInv, TLAPS

---------------------------------------------------------------------------
(* Types *)

LEMMA QtyFacts == 0 \in Qty /\ Lot \in Qty
BY StageAssumption DEF Qty

\* What becomes of a stage row when its order ends is again a stage row.
LEMMA RowTypes ==
  ASSUME NEW row \in StageRow, NEW f \in Qty
  PROVE  /\ Restored(row) \in StageRow
         /\ Applied(row, f) \in StageRow
         /\ \A side \in Sides : ToPending(row, side) \in StageRow
<1>1. ASSUME NEW q \in Qty
      PROVE  /\ ToHolding(row, q) \in StageRow
             /\ AfterSell(row) \in StageRow
             /\ CancelSell(row, q) \in StageRow
  BY QtyFacts DEF ToHolding, AfterSell, CancelSell, StageRow, StageStatus
<1>2. ~(f >= row.qty) => row.qty - f \in Qty
  BY StageAssumption DEF StageRow, Qty
<1>3. Applied(row, f) \in StageRow
  BY <1>1, <1>2, QtyFacts DEF Applied
<1>4. Restored(row) \in StageRow
  BY DEF Restored, CancelBuy, CancelSell, StageRow, StageStatus
<1>5. ASSUME NEW side \in Sides PROVE ToPending(row, side) \in StageRow
  BY DEF ToPending, PendingAs, StageRow, StageStatus
<1> QED
  BY <1>3, <1>4, <1>5

LEMMA LogTypes ==
  ASSUME NEW row \in LogRow, NEW st \in Live \cup Terminal \cup {"NONE"}, NEW f \in Qty
  PROVE  LogUpdate(row, st, f) \in LogRow
BY DEF LogUpdate, LogRow

LEMMA TypeInit == Init => TypeInv
<1>1. FreshStage \in StageRow
  BY QtyFacts DEF FreshStage, StageRow, StageStatus
<1>2. NoRow \in LogRow
  <2>1. 0 \in 0..MaxStages
    BY StageAssumption
  <2> QED
    BY <2>1, QtyFacts DEF NoRow, LogRow, Sides
<1>3. [st |-> "NONE", filled |-> 0] \in BookRow
  BY QtyFacts DEF BookRow, BookStatus
<1> QED
  BY <1>1, <1>2, <1>3, QtyFacts DEF Init, TypeInv, TypeOK, PCs, Sending, Polling

LEMMA TypeNext == TypeInv /\ [Next]_vars => TypeInv'
<1> SUFFICES ASSUME TypeInv, [Next]_vars PROVE TypeInv'
  OBVIOUS
<1> USE QtyFacts DEF TypeInv, TypeOK
<1>1. CASE UNCHANGED vars
  BY <1>1 DEF vars, db, market, local
<1>2. CASE Command
  BY <1>2 DEF Command, PauseCycle, ResumeCycle, Transition, market, local
<1>3. CASE Exchange
  <2>1. book' \in [Refs -> BookRow] /\ today' \subseteq Refs
    BY <1>3 DEF Exchange, Deliver, Place, Fill, RejectLater, MarketClose, NextDay,
                BookRow, BookStatus, LogRow, db, local
  <2> QED
    BY <1>3, <2>1 DEF Exchange, Deliver, Fill, RejectLater, MarketClose, NextDay,
                      db, local
<1>4. CASE Tick
  BY <1>4 DEF Tick, OnTick, db, market, PCs, Sending, Polling
<1>5. CASE Send
  <2> USE DEF PCs, Sending, Polling, Goto, SendDone, db, market
  <2>1. ASSUME NEW s \in Stages, GuardBlocks(s) PROVE TypeInv'
    BY <2>1 DEF GuardBlocks
  <2>2. ASSUME NEW s \in Stages, NEW r \in Refs, RecordOrder(s, r) PROVE TypeInv'
    <3>1. log' \in [Refs -> LogRow]
      BY <2>2, StageAssumption
         DEF RecordOrder, LogRow, StageRow, Sides, Side, Live, Stages
    <3> QED
      BY <2>2, <3>1 DEF RecordOrder
  <2>3. CASE MarkPending
    BY <2>3, RowTypes DEF MarkPending, LogRow
  <2>4. ASSUME NEW f \in Qty, PlaceTaken(f) PROVE TypeInv'
    BY <2>4 DEF PlaceTaken, Place, BookRow, BookStatus
  <2>5. CASE PlaceRefused
    BY <2>5 DEF PlaceRefused
  <2>6. CASE PlaceLost
    BY <2>6 DEF PlaceLost, BookRow, BookStatus
  <2>7. CASE LogAccepted \/ ListFound
    BY <2>7 DEF LogAccepted, ListFound, LogRow, Live
  <2>8. CASE LogRejected \/ LogUnknown \/ ListMissing
    <3>1. cur \in Refs /\ log[cur] \in LogRow
      BY <2>8 DEF LogRejected, LogUnknown, ListMissing
    <3>2. \A st \in Live \cup Terminal : LogUpdate(log[cur], st, 0) \in LogRow
      BY <3>1, LogTypes
    <3>3. log' \in [Refs -> LogRow]
      BY <2>8, <3>2
         DEF LogRejected, LogUnknown, ListMissing, SetLog, Live, Terminal
    <3> QED
      BY <2>8, <3>3 DEF LogRejected, LogUnknown, ListMissing, SetLog
  <2>9. CASE ListLost
    BY <2>9 DEF ListLost
  <2>10. CASE RestoreAfterSend
    BY <2>10, RowTypes DEF RestoreAfterSend, SetStage
  <2> QED
    BY <1>5, <2>1, <2>2, <2>3, <2>4, <2>5, <2>6, <2>7, <2>8, <2>9, <2>10 DEF Send
<1>6. CASE Poll
  <2> USE DEF PCs, Sending, Polling, Goto, NextRow, Die, db, market
  <2>1. CASE StartPoll
    BY <2>1 DEF StartPoll, PendingRows
  <2>2. ASSUME NEW r \in Refs, PollSkip(r) \/ PollDies(r)
        PROVE  TypeInv'
    BY <2>2 DEF PollSkip, PollDies, At
  <2>3. ASSUME NEW r \in Refs,
               \/ PollRejected(r) \/ PollFilled(r)
               \/ \E expired \in BOOLEAN : PollOpen(r, expired)
        PROVE  TypeInv'
    <3>1. \A st \in Live \cup Terminal \cup {"NONE"} :
            /\ LogUpdate(log[r], st, book[r].filled) \in LogRow
            /\ LogUpdate(log[r], st, 0) \in LogRow
      BY LogTypes DEF BookRow
    <3>2. log' \in [Refs -> LogRow]
      BY <2>3, <3>1
         DEF PollRejected, PollFilled, PollOpen, Settle, Live, Terminal, LogRow
    <3>3. /\ pc' \in {"undo", "apply", "cancel", "closing"}
          /\ cur' = r /\ seen' \in Qty
          /\ UNCHANGED <<stage, cycle, pnl, config, market, plan, todo>>
      BY <2>3 DEF PollRejected, PollFilled, PollOpen, Settle, BookRow
    <3> QED
      BY <3>2, <3>3
  <2>4. CASE CancelTaken
    BY <2>4 DEF CancelTaken, BookRow, BookStatus
  <2>5. CASE CancelLost \/ CancelRefused
    BY <2>5 DEF CancelLost, CancelRefused
  <2>6. CASE LogCanceled
    BY <2>6, LogTypes DEF LogCanceled, SetLog, Terminal
  <2>7. CASE ApplyFill \/ RestoreAfterPoll
    BY <2>7, RowTypes DEF ApplyFill, RestoreAfterPoll, SetStage
  <2>8. CASE KeepCycle \/ CloseCycle \/ SetPnl \/ ReleaseConfig \/ PollDone
    BY <2>8 DEF KeepCycle, CloseCycle, SetPnl, ReleaseConfig, PollDone
  <2> QED
    BY <1>6, <2>1, <2>2, <2>3, <2>4, <2>5, <2>6, <2>7, <2>8 DEF Poll
<1> QED
  BY <1>1, <1>2, <1>3, <1>4, <1>5, <1>6 DEF Next, EngineStep

LEMMA TypeInvariant == Spec => []TypeInv
BY TypeInit, TypeNext, PTL DEF Spec

\* Every row, order and local variable of the order path keeps its type.
THEOREM TypeSafety == Spec => []TypeOK
<1>1. TypeInv => TypeOK
  BY DEF TypeInv
<1> QED
  BY <1>1, TypeInvariant, PTL
---------------------------------------------------------------------------
(* Orders and their stages *)

OrderParts == RowInv /\ UniqueInv /\ WaitInv

\* A step that writes no stage and opens or closes no order keeps them in
\* agreement.
LEMMA KeepParts ==
  ASSUME OrderParts, stage' = stage, pc # "recorded", pc' # "recorded",
         \A r \in Refs : /\ log'[r].stage = log[r].stage
                         /\ log'[r].side = log[r].side
                         /\ log'[r].st # "NONE" => log[r].st # "NONE"
                         /\ log'[r].st = "SENDING" => ~log'[r].known
                         /\ Open(r)' <=> Open(r)
  PROVE  OrderParts'
<1> USE DEF OrderParts
<1>1. RowInv'
  BY DEF RowInv
<1>2. UniqueInv'
  BY DEF UniqueInv
<1>3. WaitInv'
  BY DEF WaitInv
<1> QED
  BY <1>1, <1>2, <1>3

\* Where an order is open although its row is settled.
Ending == {"unsend", "undo", "apply"}

LEMMA EndingInHand == Ending \subseteq InHand
BY DEF Ending, InHand, Sending

\* In particular a step that writes no row at all, and lets go of the order at hand
\* only when its row is one that was sent.
LEMMA KeepRows ==
  ASSUME OrderParts, UNCHANGED <<stage, log>>, pc # "recorded", pc' # "recorded",
         pc' \in InHand => pc \in InHand /\ cur' = cur,
         pc \in InHand => log[cur].st \in Sent \/ (pc' \in InHand /\ cur' = cur)
  PROVE  OrderParts'
<1>1. \A r \in Refs : Open(r)' <=> Open(r)
  BY DEF Open
<1>2. \A r \in Refs : log'[r].st = "SENDING" => ~log'[r].known
  BY DEF OrderParts, RowInv
<1> QED
  BY <1>1, <1>2, KeepParts

\* And one that leaves the engine where it stands.
LEMMA KeepFrame ==
  ASSUME OrderParts, UNCHANGED <<stage, log, local>> PROVE OrderParts'
<1>1. CASE pc = "recorded"
  BY <1>1 DEF OrderParts, RowInv, UniqueInv, WaitInv, Open, local
<1>2. CASE pc # "recorded"
  BY <1>2, KeepRows DEF local
<1> QED
  BY <1>1, <1>2

\* A step that writes the row of one open order, which is sent or in hand after it.
LEMMA KeepOne ==
  ASSUME OrderParts, TypeInv, stage' = stage, NEW r \in Refs, NEW row,
         log' = [log EXCEPT ![r] = row],
         row.stage = log[r].stage, row.side = log[r].side, row.st # "SENDING",
         Open(r), log[r].st # "NONE", pc # "recorded", pc' # "recorded",
         pc \in InHand => cur = r,
         row.st \in Sent \/ pc' \in InHand,
         pc' \in InHand => cur' = r
  PROVE  OrderParts'
<1>1. \A q \in Refs : log'[q] = IF q = r THEN row ELSE log[q]
  BY DEF TypeInv, TypeOK
<1>2. \A q \in Refs : Open(q)' <=> Open(q)
  BY <1>1 DEF Open
<1>3. \A q \in Refs : /\ log'[q].stage = log[q].stage
                      /\ log'[q].side = log[q].side
                      /\ log'[q].st # "NONE" => log[q].st # "NONE"
                      /\ log'[q].st = "SENDING" => ~log'[q].known
  BY <1>1 DEF OrderParts, RowInv
<1> QED
  BY <1>2, <1>3, KeepParts

\* A step that ends the order at hand and frees its stage.
LEMMA EndOrder ==
  ASSUME OrderParts, TypeInv, NEW row \in StageRow, ~Pending(row), log' = log,
         stage' = [stage EXCEPT ![log[cur].stage] = row],
         cur \in Refs, log[cur].st \in Terminal, pc \in Ending,
         pc' \notin InHand
  PROVE  OrderParts'
<1> USE DEF OrderParts
<1>1. \A r \in Refs : Open(r)' <=> Open(r) /\ r # cur
  BY EndingInHand DEF Open, Sent, Live, Terminal
<1>2. Open(cur)
  BY EndingInHand DEF Open
<1>3. \A s \in Stages : stage'[s] = IF s = log[cur].stage THEN row ELSE stage[s]
  BY DEF TypeInv, TypeOK
<1>4. RowInv' /\ UniqueInv'
  BY <1>1 DEF RowInv, UniqueInv
<1>5. WaitInv'
  <2> SUFFICES ASSUME NEW r \in Refs, Open(r)'
               PROVE  stage'[log[r].stage].status = PendingAs(log[r].side)
    BY DEF WaitInv, PendingAs
  <2>1. Open(r) /\ r # cur
    BY <1>1
  <2>2. log[r].stage # log[cur].stage
    BY <1>2, <2>1 DEF UniqueInv
  <2>3. log[r].stage \in Stages
    BY <2>1, EndingInHand DEF RowInv, Open, Sent, Live, Terminal
  <2>4. stage[log[r].stage].status = PendingAs(log[r].side)
    BY <2>1 DEF WaitInv, Ending
  <2> QED
    BY <1>3, <2>2, <2>3, <2>4
<1> QED
  BY <1>4, <1>5
---------------------------------------------------------------------------
(* OrderInv is inductive *)

Control == PcInv /\ PlanInv /\ TodoInv

LEMMA OrderSplit == OrderInv <=> OrderParts /\ Control
BY DEF OrderInv, OrderParts, Control

LEMMA OrderInit == Init => OrderInv
<1> SUFFICES ASSUME Init PROVE OrderInv
  OBVIOUS
<1>1. \A r \in Refs : ~Open(r) /\ log[r].st = "NONE"
  BY DEF Init, Open, NoRow, Sent, Live, InHand, Sending
<1>3. RowInv /\ UniqueInv /\ WaitInv
  BY <1>1 DEF RowInv, UniqueInv, WaitInv
<1>5. PcInv /\ PlanInv /\ TodoInv
  BY DEF Init, PcInv, PlanInv, TodoInv, Sending, Polling
<1> QED
  BY <1>3, <1>5 DEF OrderInv

\* The row on_tick inserts is the only open order of its stage.
LEMMA RecordKeeps ==
  ASSUME TypeInv, OrderInv, NEW s \in Stages, NEW r \in Refs, RecordOrder(s, r)
  PROVE  OrderInv'
<1> USE DEF TypeInv, TypeOK
<1> DEFINE new == log'[r]
<1>1. /\ pc = "decide" /\ pc' = "recorded" /\ cur' = r /\ stage' = stage
      /\ s \in plan /\ plan' = plan \ {s} /\ todo' = todo
  BY DEF RecordOrder, Chosen
<1>2. \A q \in Refs : q # r => log'[q] = log[q]
  BY DEF RecordOrder
<1>3. new.st = "SENDING" /\ new.stage = s /\ new.side = Side(s) /\ new.known = FALSE
  BY DEF RecordOrder
<1>4. stage[s].status \in {"WAITING", "HOLDING"}
  BY <1>1, OrderSplit DEF Control, PlanInv
<1>5. ~Open(r)
  BY <1>1 DEF Open, RecordOrder, NextRef, Sent, Live, InHand, Sending
<1>6. \A q \in Refs : Open(q)' <=> Open(q) \/ q = r
  BY <1>1, <1>2, <1>3, <1>5 DEF Open, InHand, Sending
<1>7. \A q \in Refs : Open(q) => log[q].stage # s
  BY <1>1, <1>4, OrderSplit DEF OrderParts, WaitInv, PendingAs
<1>8. RowInv' /\ UniqueInv' /\ WaitInv'
  <2>1. RowInv'
    BY <1>2, <1>3 DEF OrderInv, RowInv
  <2>2. UniqueInv'
    BY <1>2, <1>3, <1>5, <1>6, <1>7 DEF OrderInv, UniqueInv
  <2>3. WaitInv'
    BY <1>1, <1>2, <1>6 DEF OrderInv, WaitInv
  <2> QED
    BY <2>1, <2>2, <2>3
<1>10. PcInv' /\ PlanInv' /\ TodoInv'
  BY <1>1, <1>3, <1>4
     DEF OrderInv, PcInv, PlanInv, TodoInv, Sending, Polling, Live, Terminal, Side
<1> QED
  BY <1>8, <1>10 DEF OrderInv

\* The stage becomes PENDING on the side of the order just recorded, and no other
\* order was open for it.
LEMMA MarkKeeps ==
  ASSUME TypeInv, OrderInv, MarkPending PROVE OrderInv'
<1> USE DEF TypeInv, TypeOK
<1> DEFINE s == log[cur].stage
<1>1. /\ pc = "recorded" /\ pc' = "placing" /\ log' = log
      /\ UNCHANGED <<plan, todo, cur>>
  BY DEF MarkPending, Goto
<1>2. cur \in Refs /\ s \in Stages \ plan /\ log[cur].st = "SENDING"
  BY <1>1 DEF OrderInv, PcInv, Sending
<1>3. log[cur].side \in Sides
  BY <1>2 DEF LogRow
<1>4. \A t \in Stages : t # s => stage'[t] = stage[t]
  BY <1>2 DEF MarkPending
<1>5. stage'[s].status = PendingAs(log[cur].side)
  BY <1>2 DEF MarkPending, ToPending, StageRow
<1>6. \A r \in Refs : Open(r)' <=> Open(r)
  BY <1>1 DEF Open, InHand, Sending
<1>7. Open(cur)
  BY <1>1 DEF Open, InHand, Sending
<1>8. RowInv' /\ UniqueInv'
  BY <1>1, <1>6 DEF OrderInv, RowInv, UniqueInv
<1>9. WaitInv'
  <2> SUFFICES ASSUME NEW r \in Refs, Open(r)
               PROVE  stage'[log[r].stage].status = PendingAs(log[r].side)
    BY <1>1, <1>6 DEF WaitInv, PendingAs
  <2>1. CASE r = cur
    BY <2>1, <1>5
  <2>2. CASE r # cur
    <3>1. log[r].stage # s
      BY <2>2, <1>2, <1>7 DEF OrderInv, UniqueInv
    <3>2. log[r].stage \in Stages
      BY <1>1, <2>2 DEF OrderInv, RowInv, Open, Sent, Live
    <3> QED
      BY <2>2, <3>1, <3>2, <1>4 DEF OrderInv, WaitInv
  <2> QED
    BY <2>1, <2>2
<1>11. PcInv' /\ PlanInv' /\ TodoInv'
  <2>1. \A t \in plan : t # s
    BY <1>2
  <2> QED
    BY <1>1, <1>2, <1>4, <2>1
       DEF OrderInv, PcInv, PlanInv, TodoInv, Sending, Polling, Live
<1> QED
  BY <1>8, <1>9, <1>11 DEF OrderInv

LEMMA LogKeeps ==
  ASSUME NEW row \in LogRow, NEW st, NEW f
  PROVE  /\ LogUpdate(row, st, f).st = st
         /\ LogUpdate(row, st, f).stage = row.stage
         /\ LogUpdate(row, st, f).side = row.side
BY DEF LogUpdate, LogRow

LEMMA EndsPending ==
  ASSUME NEW row \in StageRow, NEW f
  PROVE  /\ Restored(row).status \notin {"BUY_PENDING", "SELL_PENDING"}
         /\ Applied(row, f).status \notin {"BUY_PENDING", "SELL_PENDING"}
BY DEF Restored, Applied, CancelBuy, CancelSell, ToHolding, AfterSell, StageRow

LEMMA SendKeeps ==
  ASSUME TypeInv, TypeInv', OrderInv, Send PROVE OrderInv'
<1> USE OrderSplit DEF TypeInv, TypeOK
<1>1. ASSUME NEW s \in Stages, GuardBlocks(s) PROVE OrderInv'
  <2>1. OrderParts'
    BY <1>1, KeepRows DEF GuardBlocks, db, InHand, Sending
  <2>2. Control'
    BY <1>1 DEF GuardBlocks, db, Control, PcInv, PlanInv, TodoInv, Sending, Polling
  <2> QED
    BY <2>1, <2>2 DEF OrderInv, OrderParts, Control
<1>2. CASE PlaceRefused \/ PlaceLost \/ ListLost \/ \E f \in Qty : PlaceTaken(f)
  <2>1. /\ pc \in {"placing", "listing"}
        /\ pc' \in {"acked", "timeout", "rejected", "decide"}
        /\ UNCHANGED <<stage, log, plan, todo>>
        /\ IF pc' = "decide" THEN pc = "listing" ELSE cur' = cur
    BY <1>2 DEF PlaceRefused, PlaceLost, ListLost, PlaceTaken, Goto, SendDone, db
  <2>2. OrderParts'
    <3>1. pc' = "decide" => log[cur].st \in Sent
      BY <2>1 DEF Control, PcInv
    <3> QED
      BY <2>1, <3>1, KeepRows DEF InHand, Sending
  <2>3. Control'
    BY <2>1 DEF Control, PcInv, PlanInv, TodoInv, Sending, Polling
  <2> QED
    BY <2>2, <2>3 DEF OrderInv, OrderParts, Control
<1>3. CASE LogAccepted \/ LogUnknown \/ ListFound
  <2>1. /\ pc \in {"acked", "timeout", "listing"}
        /\ pc' \in {"decide", "listing"}
        /\ UNCHANGED <<stage, plan, todo>>
        /\ pc' # "decide" => cur' = cur
    BY <1>3 DEF LogAccepted, LogUnknown, ListFound, SetLog, Goto, SendDone
  <2>2. cur \in Refs /\ log[cur].st \in Live
    BY <2>1 DEF Control, PcInv, Sending
  <2>3. PICK row : /\ log' = [log EXCEPT ![cur] = row]
                   /\ row.st \in Sent
                   /\ row.stage = log[cur].stage
                   /\ row.side = log[cur].side
    <3>1. log[cur] \in LogRow
      BY <2>2
    <3>2. CASE LogUnknown
      <4> DEFINE new == LogUpdate(log[cur], "UNKNOWN", 0)
      <4>1. log' = [log EXCEPT ![cur] = new]
        BY <3>2, <2>2 DEF LogUnknown, SetLog
      <4>2. new.st \in Sent /\ new.stage = log[cur].stage /\ new.side = log[cur].side
        BY <3>1, LogKeeps DEF Sent, Live
      <4> HIDE DEF new
      <4> QED
        BY <4>1, <4>2
    <3>3. CASE LogAccepted \/ ListFound
      <4> DEFINE new == [log[cur] EXCEPT !.st = "ACCEPTED", !.known = TRUE]
      <4>1. log' = [log EXCEPT ![cur] = new]
        BY <3>3, <2>2 DEF LogAccepted, ListFound
      <4>2. new.st \in Sent /\ new.stage = log[cur].stage /\ new.side = log[cur].side
        BY <3>1 DEF LogRow, Sent, Live
      <4> QED
        BY <4>1, <4>2
    <3> QED
      BY <1>3, <3>2, <3>3
  <2>4. OrderParts'
    <3>1. Open(cur) /\ log[cur].st # "NONE" /\ row.st # "SENDING"
      BY <2>1, <2>2, <2>3 DEF Open, InHand, Sending, Sent, Live
    <3> QED
      BY <2>1, <2>2, <2>3, <3>1, KeepOne DEF InHand, Sending
  <2>5. \A r \in Refs : r # cur => log'[r] = log[r]
    BY <2>3
  <2>6. /\ log'[cur].st \in Sent /\ log'[cur].st \in Live
        /\ log'[cur].stage = log[cur].stage
    BY <2>2, <2>3 DEF Sent
  <2>7. Control'
    BY <2>1, <2>2, <2>5, <2>6 DEF Control, PcInv, PlanInv, TodoInv, Sending, Polling
  <2> QED
    BY <2>4, <2>7 DEF OrderInv, OrderParts, Control
<1>4. CASE LogRejected \/ ListMissing
  <2>1. /\ pc \in {"rejected", "listing"} /\ pc' = "unsend"
        /\ UNCHANGED <<stage, plan, todo, cur>>
    BY <1>4 DEF LogRejected, ListMissing, SetLog, Goto
  <2>2. cur \in Refs /\ log[cur].st \in Live
    BY <2>1 DEF Control, PcInv, Sending
  <2>3. PICK row : /\ log' = [log EXCEPT ![cur] = row]
                   /\ row.st \in Terminal
                   /\ row.stage = log[cur].stage
                   /\ row.side = log[cur].side
    <3>1. log[cur] \in LogRow
      BY <2>2
    <3>2. PICK st \in Terminal : log' = [log EXCEPT ![cur] = LogUpdate(log[cur], st, 0)]
      BY <1>4, <2>2 DEF LogRejected, ListMissing, SetLog, Terminal
    <3> DEFINE new == LogUpdate(log[cur], st, 0)
    <3>3. new.st \in Terminal /\ new.stage = log[cur].stage /\ new.side = log[cur].side
      BY <3>1, <3>2, LogKeeps
    <3> HIDE DEF new
    <3> QED
      BY <3>2, <3>3 DEF new
  <2>4. OrderParts'
    <3>1. Open(cur) /\ log[cur].st # "NONE" /\ row.st # "SENDING"
      BY <2>1, <2>2, <2>3 DEF Open, InHand, Sending, Live, Terminal
    <3> QED
      BY <2>1, <2>2, <2>3, <3>1, KeepOne DEF InHand, Sending
  <2>5. /\ \A r \in Refs : r # cur => log'[r] = log[r]
        /\ log'[cur].st \in Terminal /\ log'[cur].stage = log[cur].stage
    BY <2>2, <2>3
  <2>6. Control'
    BY <2>1, <2>2, <2>5 DEF Control, PcInv, PlanInv, TodoInv, Sending, Polling
  <2> QED
    BY <2>4, <2>6 DEF OrderInv, OrderParts, Control
<1>5. CASE RestoreAfterSend
  <2> DEFINE row == Restored(stage[log[cur].stage])
  <2>1. /\ pc = "unsend" /\ pc' = "decide" /\ log' = log
        /\ UNCHANGED <<plan, todo>>
        /\ stage' = [stage EXCEPT ![log[cur].stage] = row]
    BY <1>5 DEF RestoreAfterSend, SetStage, SendDone
  <2>2. /\ cur \in Refs /\ log[cur].st \in Terminal
        /\ log[cur].stage \in Stages \ plan
    BY <2>1 DEF Control, PcInv, Sending
  <2>3. row \in StageRow /\ ~Pending(row)
    BY <2>2, RowTypes, EndsPending, QtyFacts DEF Pending
  <2>4. OrderParts'
    BY <2>1, <2>2, <2>3, EndOrder DEF Ending, InHand, Sending
  <2>5. \A s \in plan : stage'[s] = stage[s]
    BY <2>1, <2>2
  <2>6. Control'
    BY <2>1, <2>5 DEF Control, PcInv, PlanInv, TodoInv, Sending, Polling
  <2> QED
    BY <2>4, <2>6 DEF OrderInv, OrderParts, Control
<1> QED
  BY <1>1, <1>2, <1>3, <1>4, <1>5, RecordKeeps, MarkKeeps DEF Send

\* A row read by poll_pending is live until the step that settles it.
LEMMA PollKeeps ==
  ASSUME TypeInv, TypeInv', OrderInv, Poll PROVE OrderInv'
<1> USE OrderSplit DEF TypeInv, TypeOK
<1>1. CASE StartPoll \/ PollDone
  <2>1. /\ pc \in {"decide", "poll"} /\ pc' \in {"poll", "tick"}
        /\ UNCHANGED <<stage, log, plan>> /\ plan = {}
        /\ \A r \in todo' : log[r].st \in Live
        /\ pc' = "tick" => todo' = {}
    BY <1>1 DEF StartPoll, PollDone, Goto, PendingRows, db, OrderInv, PlanInv,
                TodoInv, Sending, Polling
  <2>2. OrderParts'
    BY <2>1, KeepRows DEF InHand, Sending
  <2>3. Control'
    BY <2>1 DEF Control, PcInv, PlanInv, TodoInv, Sending, Polling
  <2> QED
    BY <2>2, <2>3 DEF OrderInv, OrderParts, Control
<1>2. CASE \/ KeepCycle \/ ReleaseConfig \/ CancelRefused
           \/ \E r \in Refs : PollSkip(r) \/ PollDies(r)
  <2>1. /\ pc \in {"poll", "closing", "release", "cancel"}
        /\ pc' \in {"poll", "dead", "closing"}
        /\ UNCHANGED <<stage, log>>
        /\ plan = {} /\ plan' = {}
        /\ todo' \subseteq todo
        /\ pc' = "dead" => todo' = {}
        /\ pc' = "poll" => pc = "poll" \/ todo' = todo \ {cur}
        /\ pc' = "closing" => UNCHANGED <<todo, cur>> /\ pc = "cancel"
    BY <1>2 DEF KeepCycle, ReleaseConfig, CancelRefused, PollSkip, PollDies,
                Asked, At, Goto, NextRow, Die, db, OrderInv, PlanInv,
                Sending, Polling
  <2>2. OrderParts'
    BY <2>1, KeepRows DEF InHand, Sending
  <2>3. \A r \in todo' : log[r].st \in Live \/ pc' = "closing"
    BY <2>1 DEF OrderInv, TodoInv, Polling
  <2>4. Control'
    BY <2>1, <2>3 DEF Control, PcInv, PlanInv, TodoInv, Sending, Polling
  <2> QED
    BY <2>2, <2>4 DEF OrderInv, OrderParts, Control
<1>3. CASE CloseCycle \/ SetPnl \/ CancelTaken \/ CancelLost
  <2>1. /\ pc \in {"closing", "pnl", "cancel"}
        /\ pc' \in {"pnl", "release", "closing", "canceled"}
        /\ pc' = "canceled" => pc = "cancel"
        /\ UNCHANGED <<stage, log, plan, todo, cur>>
    BY <1>3 DEF CloseCycle, SetPnl, CancelTaken, CancelLost, Goto, db
  <2>2. OrderParts'
    BY <2>1, KeepRows DEF InHand, Sending
  <2>3. Control'
    BY <2>1 DEF Control, PcInv, PlanInv, TodoInv, Sending, Polling
  <2> QED
    BY <2>2, <2>3 DEF OrderInv, OrderParts, Control
<1>4. ASSUME NEW r \in Refs, NEW st \in Live \cup Terminal, NEW fill, NEW next,
             Asked(r), Settle(r, st, fill, next),
             \/ st \in Terminal /\ next \in {"undo", "apply"}
             \/ st \in Sent /\ next \in {"cancel", "closing"}
      PROVE  OrderInv'
  <2> DEFINE new == LogUpdate(log[r], st, fill)
  <2>1. /\ pc = "poll" /\ pc' = next /\ cur' = r /\ r \in todo
        /\ UNCHANGED <<stage, plan, todo>>
        /\ log' = [log EXCEPT ![r] = new]
    BY <1>4 DEF Asked, At, Settle
  <2>2. new.st = st /\ new.stage = log[r].stage /\ new.side = log[r].side
    BY LogKeeps
  <2> HIDE DEF new
  <2>3. /\ \A q \in todo : log[q].st \in Live
        /\ plan = {}
    BY <2>1 DEF Control, TodoInv, PlanInv, Sending, Polling
  <2>4. OrderParts'
    <3>1. log[r].st \in Sent
      BY <1>4, <2>1, <2>3 DEF Asked, OrderInv, RowInv, Sent
    <3>2. Open(r) /\ log[r].st # "NONE" /\ new.st # "SENDING"
      BY <1>4, <2>2, <3>1 DEF Open, Sent, Live, Terminal
    <3> QED
      BY <1>4, <2>1, <2>2, <3>2, KeepOne DEF InHand, Sending
  <2>5. /\ \A q \in Refs : q # r => log'[q] = log[q]
        /\ log'[r] = new
    BY <2>1
  <2>6. Control'
    BY <1>4, <2>1, <2>2, <2>3, <2>5
       DEF Control, PcInv, PlanInv, TodoInv, Sending, Polling, Sent
  <2> QED
    BY <2>4, <2>6 DEF OrderInv, OrderParts, Control
<1>5. ASSUME NEW r \in Refs,
             \/ PollRejected(r) \/ PollFilled(r)
             \/ \E expired \in BOOLEAN : PollOpen(r, expired)
      PROVE  OrderInv'
  <2>1. CASE PollRejected(r) \/ PollFilled(r)
    BY <1>4, <2>1 DEF PollRejected, PollFilled, Terminal
  <2>2. ASSUME NEW expired \in BOOLEAN, PollOpen(r, expired) PROVE OrderInv'
    <3> DEFINE st == IF book[r].filled > 0 THEN "PARTIAL" ELSE log[r].st
               next == IF expired THEN "cancel" ELSE "closing"
    <3>1. log[r].st \in Sent
      BY <2>2 DEF PollOpen, Asked, At, OrderInv, RowInv, TodoInv, Polling, Sent
    <3>2. st \in Sent /\ next \in {"cancel", "closing"}
      BY <3>1 DEF Sent, Live
    <3>3. Asked(r) /\ Settle(r, st, book[r].filled, next)
      BY <2>2 DEF PollOpen
    <3> HIDE DEF st, next
    <3>4. st \in Live \cup Terminal
      BY <3>2 DEF Sent
    <3> QED
      BY <3>2, <3>3, <3>4, <1>4
  <2> QED
    BY <1>5, <2>1, <2>2
<1>6. CASE LogCanceled
  <2> DEFINE new == LogUpdate(log[cur], "CANCELED", seen)
  <2>1. /\ pc = "canceled" /\ pc' \in {"apply", "undo"}
        /\ UNCHANGED <<stage, plan, todo, cur>>
        /\ cur \in Refs /\ log[cur].st \in Live /\ plan = {} /\ cur \in todo
    BY <1>6 DEF LogCanceled, SetLog, Goto, Control, PcInv, PlanInv, TodoInv,
                Sending, Polling
  <2>2. log' = [log EXCEPT ![cur] = new]
    BY <1>6, <2>1 DEF LogCanceled, SetLog
  <2>3. new.st = "CANCELED" /\ new.stage = log[cur].stage /\ new.side = log[cur].side
    BY <2>1, LogKeeps
  <2> HIDE DEF new
  <2>4. OrderParts'
    <3>1. Open(cur) /\ log[cur].st # "NONE" /\ new.st # "SENDING"
      BY <2>1, <2>3, OrderSplit DEF Open, Control, PcInv, Sent, Live
    <3> QED
      BY <2>1, <2>2, <2>3, <3>1, KeepOne DEF InHand, Sending
  <2>5. /\ \A q \in Refs : q # cur => log'[q] = log[q]
        /\ log'[cur] = new
    BY <2>1, <2>2
  <2>6. Control'
    BY <2>1, <2>3, <2>5
       DEF Control, PcInv, PlanInv, TodoInv, Sending, Polling, Terminal
  <2> QED
    BY <2>4, <2>6 DEF OrderInv, OrderParts, Control
<1>7. CASE ApplyFill \/ RestoreAfterPoll
  <2>1. /\ pc \in {"apply", "undo"} /\ pc' = "closing" /\ log' = log
        /\ UNCHANGED <<plan, todo, cur>>
        /\ cur \in Refs /\ log[cur].st \in Terminal /\ plan = {} /\ cur \in todo
    BY <1>7 DEF ApplyFill, RestoreAfterPoll, SetStage, Goto, Control, PcInv,
                PlanInv, TodoInv, Sending, Polling
  <2>2. log[cur].stage \in Stages
    BY <2>1 DEF OrderInv, RowInv, Terminal
  <2> DEFINE old == stage[log[cur].stage]
  <2>3. PICK row \in {Applied(old, seen), Restored(old)} :
          stage' = [stage EXCEPT ![log[cur].stage] = row]
    BY <1>7 DEF ApplyFill, RestoreAfterPoll, SetStage
  <2>4. row \in StageRow /\ ~Pending(row)
    BY <2>2, RowTypes, EndsPending DEF Pending
  <2>5. OrderParts'
    BY <2>1, <2>3, <2>4, EndOrder DEF Ending, InHand, Sending
  <2>6. Control'
    BY <2>1 DEF Control, PcInv, PlanInv, TodoInv, Sending, Polling
  <2> QED
    BY <2>5, <2>6 DEF OrderInv, OrderParts, Control
<1> QED
  BY <1>1, <1>2, <1>3, <1>5, <1>6, <1>7 DEF Poll

LEMMA OrderNext == TypeInv /\ OrderInv /\ [Next]_vars => OrderInv'
<1> SUFFICES ASSUME TypeInv, OrderInv, [Next]_vars PROVE OrderInv'
  OBVIOUS
<1>1. TypeInv'
  BY TypeNext
<1>2. CASE UNCHANGED vars \/ Command \/ Exchange
  <2>1. UNCHANGED <<stage, log, local>>
    BY <1>2 DEF vars, db, Command, PauseCycle, ResumeCycle, Transition, Exchange,
                Deliver, RejectLater, Fill, MarketClose, NextDay
  <2>2. OrderParts'
    BY <2>1, OrderSplit, KeepFrame
  <2>3. Control'
    BY <2>1, OrderSplit
       DEF local, Control, PcInv, PlanInv, TodoInv, Sending, Polling
  <2> QED
    BY <2>2, <2>3 DEF OrderInv, OrderParts, Control
<1>3. CASE Tick
  <2>1. PICK P \in SUBSET Stages : OnTick(P)
    BY <1>3 DEF Tick
  <2>2. /\ pc = "tick" /\ pc' = "decide" /\ UNCHANGED <<stage, log, todo, cur>>
        /\ plan' = P
    BY <2>1 DEF OnTick, db
  <2>3. \A s \in P : stage[s].status \in {"WAITING", "HOLDING"}
    <3>1. CASE P \in SUBSET {s \in Stages : stage[s].status = "HOLDING"}
      BY <3>1
    <3>2. CASE \E t \in Stages : stage[t].status = "WAITING" /\ P = {t}
      BY <3>2
    <3>3. P = {} \/ P \in Decisions
      BY <2>1 DEF OnTick
    <3>4. ASSUME P \in Decisions
          PROVE  \/ P \in SUBSET {s \in Stages : stage[s].status = "HOLDING"}
                 \/ \E t \in Stages : stage[t].status = "WAITING" /\ P = {t}
      <4> DEFINE first == {t \in Stages :
                   /\ stage[t].status = "WAITING"
                   /\ stage[t].sold => AllowRebuy
                   /\ \A u \in 1..(t - 1) : stage[u].status = "WAITING" => stage[u].sold}
      <4>1. \/ P \in SUBSET {s \in Stages : stage[s].status = "HOLDING"}
            \/ P \in {{s} : s \in first}
        BY <3>4 DEF Decisions, DecisionsOf
      <4>2. \A t \in first : t \in Stages /\ stage[t].status = "WAITING"
        OBVIOUS
      <4> HIDE DEF first
      <4> QED
        BY <4>1, <4>2
    <3> QED
      BY <3>1, <3>2, <3>3, <3>4
  <2>4. OrderParts'
    BY <2>2, OrderSplit, KeepRows DEF InHand, Sending
  <2>5. Control'
    BY <2>2, <2>3, OrderSplit DEF Control, PcInv, PlanInv, TodoInv, Sending, Polling
  <2> QED
    BY <2>4, <2>5 DEF OrderInv, OrderParts, Control
<1> QED
  BY <1>1, <1>2, <1>3, SendKeeps, PollKeeps DEF Next, EngineStep

\* The inductive invariant: whatever the faults, every row, stage and local variable
\* of the order path agree, and a stage has at most one open order.
THEOREM OrderInvariant == Spec => []OrderInv
<1>1. Init /\ [][Next]_vars => []OrderInv
  BY OrderInit, OrderNext, TypeInvariant, PTL DEF Spec
<1> QED
  BY <1>1 DEF Spec

LEMMA PollFinds == TypeInv /\ OrderInv => PollFindsItsStage
BY DEF TypeInv, TypeOK, OrderInv, RowInv, PollFindsItsStage, TodoInv, WaitInv, Open, Sent,
       Polling

\* poll_fill is only ever asked about a stage that waits for that very order, so
\* its ValueError cannot end the engine thread (as long as the process lives).
THEOREM PollSafety == Spec => []PollFindsItsStage
<1> QED
  BY PollFinds, TypeInvariant, OrderInvariant, PTL
---------------------------------------------------------------------------
(* The exchange and the log, when no order is delivered late *)

LEMMA BookInit == Init => BookInv
BY DEF Init, BookInv, AtExchange, Working

LEMMA ExchangeKeeps ==
  ASSUME TypeInv, OrderInv, BookInv, Exchange PROVE BookInv'
<1> USE DEF TypeInv, TypeOK, AtExchange, Working
<1>1. UNCHANGED <<log, pc, cur>>
  BY DEF Exchange, Deliver, RejectLater, Fill, MarketClose, NextDay, db, local
\* One order moves, and only one that is at the exchange already.
<1>2. ASSUME NEW r \in Refs, AtExchange(r), today \subseteq today',
             \A q \in Refs : q # r => book'[q] = book[q],
             book'[r].st \in Working => r \in today'
      PROVE  BookInv'
  <2>1. \A q \in Refs : book'[q].st \in Working \cup {"TRANSIT"} => AtExchange(q)
    BY <1>2
  <2>2. \A q \in Refs : book'[q].st \in Working => q \in today'
    BY <1>2 DEF BookInv
  <2>3. \A q \in Refs : book'[q].st # "NONE" => book[q].st # "NONE"
    BY <1>2
  <2> QED
    BY <1>1, <2>1, <2>2, <2>3 DEF BookInv, Sending, Polling
<1>3. ASSUME NEW r \in Refs, Deliver(r) PROVE BookInv'
  BY <1>2, <1>3 DEF Deliver, Place
<1>4. ASSUME NEW r \in Refs, NEW f \in Qty, Fill(r, f) PROVE BookInv'
  BY <1>2, <1>4 DEF Fill, BookInv
<1>5. ASSUME NEW r \in Refs, RejectLater(r) PROVE BookInv'
  BY <1>2, <1>5 DEF RejectLater, BookInv
<1>6. CASE MarketClose
  <2>1. \A r \in Refs : book'[r].st \in Working \cup {"TRANSIT"} => book'[r] = book[r]
    BY <1>6 DEF MarketClose, BookRow
  <2> QED
    BY <1>1, <1>6, <2>1 DEF MarketClose, BookInv, Sending, Polling
<1>7. CASE NextDay
  BY <1>1, <1>7 DEF NextDay, BookInv, Sending, Polling
<1> QED
  BY <1>3, <1>4, <1>5, <1>6, <1>7 DEF Exchange

LEMMA BookNext ==
  ASSUME ~LateDelivery, TypeInv, TypeInv', OrderInv, BookInv, [Next]_vars
  PROVE  BookInv'
<1> USE DEF TypeInv, TypeOK, AtExchange, Working
\* Steps that leave rows and exchange alone, do not start handling an order, and let
\* go of none that is being sent.
<1>1. ASSUME UNCHANGED <<log, book, today>>,
             pc \in Sending /\ log[cur].st = "SENDING" => pc' \in Sending /\ cur' = cur,
             pc' \in {"recorded", "placing", "rejected", "canceled"} =>
               /\ pc \in {"recorded", "placing", "rejected", "canceled"}
               /\ cur' = cur
      PROVE  BookInv'
  BY <1>1 DEF BookInv
\* Steps that write one row: it stays live, or its order is not at the exchange.
<1>2. ASSUME UNCHANGED <<book, today>>, NEW r \in Refs, NEW row,
             log' = [log EXCEPT ![r] = row],
             row.st \in Live \/ ~AtExchange(r),
             row.st # "SENDING", pc \in Sending => cur = r,
             pc' \notin {"recorded", "placing", "rejected", "canceled"}
      PROVE  BookInv'
  <2>1. \A q \in Refs : log'[q] = IF q = r THEN row ELSE log[q]
    BY <1>2
  <2> QED
    BY <1>2, <2>1 DEF BookInv
<1>3. CASE UNCHANGED vars
  BY <1>1, <1>3 DEF vars, db, market, local
<1>4. CASE Command
  BY <1>1, <1>4 DEF Command, PauseCycle, ResumeCycle, Transition, market, local, Sending
<1>5. CASE Tick
  BY <1>1, <1>5 DEF Tick, OnTick, db, market, Sending
<1>6. CASE Send
  <2>1. ASSUME NEW s \in Stages, GuardBlocks(s) PROVE BookInv'
    BY <1>1, <2>1 DEF GuardBlocks, db, market, Sending
  <2>2. ASSUME NEW s \in Stages, NEW r \in Refs, RecordOrder(s, r) PROVE BookInv'
    <3>1. ~AtExchange(r)
      BY <2>2 DEF RecordOrder, NextRef, BookInv, Live
    <3>2. \A q \in Refs : q # r => log'[q] = log[q]
      BY <2>2 DEF RecordOrder
    <3>3. UNCHANGED <<book, today>> /\ cur' = r /\ pc = "decide" /\ pc' = "recorded"
      BY <2>2 DEF RecordOrder, market
    <3> QED
      BY <3>1, <3>2, <3>3 DEF BookInv, Sending
  <2>3. CASE MarkPending \/ PlaceRefused \/ ListLost \/ RestoreAfterSend
    <3>1. ListLost \/ RestoreAfterSend => log[cur].st # "SENDING"
      BY DEF ListLost, RestoreAfterSend, OrderInv, PcInv, Sent, Terminal
    <3> QED
      BY <1>1, <2>3, <3>1
         DEF MarkPending, PlaceRefused, ListLost, RestoreAfterSend, Goto, SendDone,
             SetStage, db, market, Sending
  <2>4. CASE PlaceLost
    <3>1. /\ UNCHANGED <<log, today>> /\ pc = "placing" /\ pc' = "timeout" /\ cur \in Refs
          /\ \A q \in Refs : q # cur => book'[q] = book[q]
          /\ book'[cur].st \in Working => book[cur].st \in Working
          /\ cur' = cur
      BY <2>4 DEF PlaceLost, Goto, db, Sending, BookRow
    <3>2. log[cur].st \in Live
      BY <3>1 DEF OrderInv, PcInv, Sending
    <3> QED
      BY <3>1, <3>2 DEF BookInv, Sending
  <2>5. ASSUME NEW f \in Qty, PlaceTaken(f) PROVE BookInv'
    <3>1. /\ pc = "placing" /\ log' = log /\ cur' = cur /\ pc' \in {"acked", "timeout"}
          /\ today' = today \cup {cur} /\ cur \in Refs
      BY <2>5 DEF PlaceTaken, Place, Goto, db, Sending
    <3>2. log[cur].st \in Live
      BY <3>1 DEF OrderInv, PcInv, Sending
    <3>3. /\ \A q \in Refs : q # cur => book'[q] = book[q]
          /\ book'[cur].st \in {"OPEN", "FILLED", "PARTIAL"}
      BY <2>5, <3>1 DEF PlaceTaken, Place
    <3> QED
      BY <3>1, <3>2, <3>3 DEF BookInv, Sending
  <2>6. CASE LogAccepted \/ ListFound
    <3> DEFINE row == [log[cur] EXCEPT !.st = "ACCEPTED", !.known = TRUE]
    <3>1. cur \in Refs /\ log[cur] \in LogRow
      BY <2>6 DEF LogAccepted, ListFound, Sending
    <3>2. log' = [log EXCEPT ![cur] = row]
      BY <2>6, <3>1 DEF LogAccepted, ListFound
    <3>3. row.st \in Live /\ row.st # "SENDING"
      BY <3>1 DEF LogRow, Live
    <3>4. UNCHANGED <<book, today>> /\ pc' = "decide"
      BY <2>6 DEF LogAccepted, ListFound, SendDone, market
    <3> HIDE DEF row
    <3> QED
      BY <3>1, <3>2, <3>3, <3>4, <1>2
  <2>7. CASE LogRejected \/ LogUnknown \/ ListMissing
    <3>1. /\ cur \in Refs /\ log[cur] \in LogRow /\ UNCHANGED <<book, today>>
          /\ pc' \in {"unsend", "listing"}
      BY <2>7 DEF LogRejected, LogUnknown, ListMissing, Goto, market, Sending
    <3>2. PICK st \in {"REJECTED", "UNKNOWN", "CANCELED"} :
            /\ log' = [log EXCEPT ![cur] = LogUpdate(log[cur], st, 0)]
            /\ st # "UNKNOWN" => ~AtExchange(cur)
      \* an order the inquiry does not find is not on its way either
      BY <2>7, <3>1 DEF LogRejected, LogUnknown, ListMissing, SetLog, BookInv
    <3> DEFINE row == LogUpdate(log[cur], st, 0)
    <3>3. row.st = st
      BY <3>1, LogKeeps
    <3> HIDE DEF row
    <3> QED
      BY <3>1, <3>2, <3>3, <1>2 DEF row, Live
  <2> QED
    BY <1>6, <2>1, <2>2, <2>3, <2>4, <2>5, <2>6, <2>7 DEF Send
<1>7. CASE Poll
  <2>1. CASE StartPoll \/ PollDone \/ ApplyFill \/ RestoreAfterPoll
    BY <1>1, <2>1 DEF StartPoll, PollDone, ApplyFill, RestoreAfterPoll, SetStage,
                      Goto, db, market, Sending
  <2>2. CASE KeepCycle \/ CloseCycle \/ SetPnl \/ ReleaseConfig
    BY <1>1, <2>2 DEF KeepCycle, CloseCycle, SetPnl, ReleaseConfig, Goto, NextRow,
                      db, market, Sending
  <2>3. CASE \/ CancelLost \/ CancelRefused
             \/ \E r \in Refs : PollSkip(r) \/ PollDies(r)
    BY <1>1, <2>3 DEF CancelLost, CancelRefused, PollSkip, PollDies, At,
                      Goto, NextRow, Die, db, market, Sending
  <2>4. CASE CancelTaken
    <3>1. /\ log' = log /\ today' = today /\ cur' = cur /\ cur \in Refs
          /\ pc = "cancel" /\ pc' \in {"canceled", "closing"}
      BY <2>4 DEF CancelTaken, Goto, db, Polling
    <3>2. /\ \A q \in Refs : q # cur => book'[q] = book[q]
          /\ book'[cur].st = "CANCELED"
      BY <2>4, <3>1 DEF CancelTaken, BookRow
    <3>3. log[cur].st # "SENDING"
      BY <3>1 DEF OrderInv, PcInv, Sent
    <3> QED
      BY <3>1, <3>2, <3>3 DEF BookInv, Sending
  <2>5. ASSUME NEW r \in Refs, NEW st \in Live \cup Terminal, NEW fill, NEW next,
               Settle(r, st, fill, next), next \notin {"recorded", "placing", "rejected", "canceled"},
               st \in Live \/ ~AtExchange(r), pc = "poll", st # "SENDING"
        PROVE  BookInv'
    <3> DEFINE row == LogUpdate(log[r], st, fill)
    <3>1. /\ log' = [log EXCEPT ![r] = row] /\ UNCHANGED <<book, today>> /\ pc' = next
      BY <2>5 DEF Settle, market
    <3>2. row.st = st
      BY LogKeeps
    <3> HIDE DEF row
    <3> QED
      BY <2>5, <3>1, <3>2, <1>2 DEF Sending
  <2>6. ASSUME NEW r \in Refs, PollRejected(r) \/ PollFilled(r) PROVE BookInv'
    <3>1. CASE PollRejected(r)
      BY <2>5, <3>1 DEF PollRejected, Asked, At, Terminal
    <3>2. CASE PollFilled(r)
      <4>1. Settle(r, "FILLED", book[r].filled, "apply") /\ ~AtExchange(r) /\ pc = "poll"
        BY <3>2 DEF PollFilled, Asked, At
      <4>2. /\ "FILLED" \in Live \cup Terminal /\ "FILLED" # "SENDING"
            /\ "apply" \notin {"recorded", "placing", "rejected", "canceled"}
        BY DEF Terminal
      <4> QED
        BY <2>5, <4>1, <4>2, Zenon
    <3> QED
      BY <2>6, <3>1, <3>2
  <2>7. ASSUME NEW r \in Refs, NEW expired \in BOOLEAN, PollOpen(r, expired)
        PROVE  BookInv'
    <3> DEFINE st == IF book[r].filled > 0 THEN "PARTIAL" ELSE log[r].st
               next == IF expired THEN "cancel" ELSE "closing"
    <3>1. log[r].st \in Sent
      BY <2>7 DEF PollOpen, Asked, At, OrderInv, RowInv, TodoInv, Polling, Sent
    <3>2. st \in Live /\ st # "SENDING" /\ next \in {"cancel", "closing"}
      BY <3>1 DEF Sent, Live
    <3>3. Settle(r, st, book[r].filled, next) /\ pc = "poll"
      BY <2>7 DEF PollOpen, Asked, At
    <3> HIDE DEF st, next
    <3> QED
      BY <3>2, <3>3, <2>5
  <2>8. CASE LogCanceled
    <3> DEFINE row == LogUpdate(log[cur], "CANCELED", seen)
    <3>1. /\ cur \in Refs /\ UNCHANGED <<book, today>> /\ ~AtExchange(cur)
          /\ pc' \in {"apply", "undo"}
      BY <2>8 DEF LogCanceled, Goto, BookInv, market, Polling
    <3>2. log' = [log EXCEPT ![cur] = row]
      BY <2>8, <3>1 DEF LogCanceled, SetLog
    <3>3. row.st # "SENDING"
      BY <3>1, LogKeeps
    <3>4. pc \notin Sending
      BY <2>8 DEF LogCanceled, Sending
    <3> HIDE DEF row
    <3> QED
      BY <3>1, <3>2, <3>3, <3>4, <1>2
  <2> QED
    BY <1>7, <2>1, <2>2, <2>3, <2>4, <2>6, <2>7, <2>8 DEF Poll
<1> QED
  BY <1>3, <1>4, <1>5, <1>6, <1>7, ExchangeKeeps DEF Next, EngineStep

\* What the exchange still works on is pending in the log and in the list of today.
THEOREM BookInvariant == ASSUME ~LateDelivery PROVE Spec => []BookInv
<1>1. TypeInv /\ TypeInv' /\ OrderInv /\ BookInv /\ [Next]_vars => BookInv'
  BY BookNext
<1> QED
  BY <1>1, BookInit, TypeInvariant, OrderInvariant, PTL DEF Spec

\* What the exchange may still fill is open: it is not a row left SENDING.
LEMMA LiveIsOpen ==
  ASSUME BookInv, NEW r \in Refs, AtExchange(r) PROVE Open(r)
BY DEF BookInv, AtExchange, Working, Open, Sent, InHand

\* No stage ever has two orders that the exchange may still fill.
THEOREM NoDoubleOrder == ASSUME ~LateDelivery PROVE Spec => []OneOrderPerStage
<1>1. OrderInv /\ BookInv => OneOrderPerStage
  BY LiveIsOpen DEF OrderInv, UniqueInv, OneOrderPerStage
<1> QED
  BY <1>1, BookInvariant, OrderInvariant, PTL

\* What the exchange may still fill is pending in the log, and its stage waits
\* for it: neither a timeout nor a lost inquiry makes the engine forget an order.
THEOREM LiveOrderSafety == ASSUME ~LateDelivery PROVE Spec => []LiveOrderIsOnRecord
<1>1. OrderInv /\ BookInv => LiveOrderIsOnRecord
  BY LiveIsOpen DEF OrderInv, WaitInv, BookInv, LiveOrderIsOnRecord
<1> QED
  BY <1>1, BookInvariant, OrderInvariant, PTL
=============================================================================
