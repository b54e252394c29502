--------------------------- MODULE RecoveryProofs ---------------------------
(***************************************************************************)
(* Proofs about the engine whose process dies and restarts.  For any       *)
(* number of crashes, at any step, and whatever the exchange does          *)
(* meanwhile: types, no orphan orders, and settled rows stay settled.      *)
(* For one clean crash (CleanCrash): the inductive invariant CrashInv,     *)
(* the safety of the order path through the crash and the recovery, and    *)
(* the refinement of the ledger.                                           *)
(***************************************************************************)
EXTENDS RecoveryInv, RowProofs

\* The working order is a real one wherever an order is handled.
RTypeInv ==
  /\ RTypeOK
  /\ pc \in Sending \cup Polling \cup Correcting => cur \in Refs

\* A row the engine or recovery may still write is not settled.
RowsInv ==
  /\ pc \in (Sending \ {"unsend"}) \cup {"cancel", "canceled"} => log[cur].st \in Live
  /\ \A r \in todo :
       log[r].st \in Live \/ (r = cur /\ pc \in Polling \cup Correcting)
  /\ pc \in Polling \cup Correcting => cur \in todo
  /\ pc \notin Polling \cup Correcting \cup {"poll", "recover"} => todo = {}

Running == PCs \ {"down", "recover", "rundo", "rapply"}

---------------------------------------------------------------------------
(* Types *)

LEMMA RTypeInit == RInit => RTypeInv
<1> SUFFICES ASSUME RInit PROVE RTypeInv
  OBVIOUS
<1>1. TypeInv
  BY TypeInit DEF RInit
<1>2. crashes \in 0..MaxCrashes
  BY RecoveryAssumption DEF RInit
<1>3. listed \in [Refs -> BookRow]
  BY QtyFacts DEF RInit, NothingListed, Unlisted, BookRow, BookStatus
<1>4. pc = "tick"
  BY DEF RInit, Init
<1> QED
  BY <1>1, <1>2, <1>3, <1>4 DEF RTypeInv, RTypeOK, TypeInv, Correcting, Sending, Polling

\* While the process is down or recovers, or its engine thread has ended, only the
\* exchange takes a step of Next.
LEMMA OnlyTheExchange ==
  ASSUME Next, pc \notin Running \ {"dead"} PROVE Exchange
<1> USE DEF Running, PCs
<1>1. ~Command
  BY DEF Command, PauseCycle, ResumeCycle, Transition
<1>2. ~Tick
  BY DEF Tick, OnTick
<1>3. ~Send
  BY DEF Send, GuardBlocks, RecordOrder, MarkPending, PlaceTaken, PlaceRefused,
         PlaceLost, LogAccepted, LogRejected, LogUnknown, ListLost, ListFound,
         ListMissing, RestoreAfterSend
<1>4. ~Poll
  BY DEF Poll, StartPoll, PollSkip, PollDies, PollRejected, PollFilled, PollOpen,
         Asked, At, CancelTaken, CancelLost, CancelRefused, LogCanceled, ApplyFill,
         RestoreAfterPoll, KeepCycle, CloseCycle, SetPnl, ReleaseConfig, PollDone
<1> QED
  BY <1>1, <1>2, <1>3, <1>4 DEF Next, EngineStep

\* The exchange changes its own record only.
LEMMA ExchangeFrame ==
  ASSUME book \in [Refs -> BookRow], today \subseteq Refs, Exchange
  PROVE  /\ UNCHANGED <<db, local>>
         /\ book' \in [Refs -> BookRow] /\ today' \subseteq Refs
         /\ \A r \in Refs : book'[r].st # "NONE" => book[r].st # "NONE"
<1>1. ASSUME NEW r \in Refs, Deliver(r) \/ RejectLater(r) \/ \E f \in Qty : Fill(r, f)
      PROVE  /\ book[r].st # "NONE"
             /\ \A q \in Refs : q # r => book'[q] = book[q]
             /\ book' \in [Refs -> BookRow] /\ today' \subseteq Refs
  BY <1>1, QtyFacts DEF Deliver, RejectLater, Fill, Place, Working, BookRow, BookStatus
<1>2. CASE MarketClose
  BY <1>2 DEF MarketClose, BookRow, BookStatus, Working
<1>3. CASE NextDay
  BY <1>3 DEF NextDay
<1>4. UNCHANGED <<db, local>>
  BY DEF Exchange, Deliver, RejectLater, Fill, MarketClose, NextDay
<1> QED
  BY <1>1, <1>2, <1>3, <1>4 DEF Exchange, MarketClose, NextDay

LEMMA RTypeNext == RTypeInv /\ [RNext]_rvars => RTypeInv'
<1> SUFFICES ASSUME RTypeInv, [RNext]_rvars PROVE RTypeInv'
  OBVIOUS
<1> USE DEF RTypeInv, RTypeOK
<1>1. CASE UNCHANGED rvars
  BY <1>1 DEF rvars, vars, db, market, local, TypeOK
<1>2. CASE Next /\ UNCHANGED <<crashes, listed>>
  <2>1. CASE pc \in Running
    <3>1. TypeInv'
      BY <1>2, <2>1, TypeNext DEF TypeInv, Running
    <3> QED
      BY <1>2, <3>1 DEF TypeInv, Correcting
  <2>2. CASE pc \notin Running
    <3>1. Exchange
      BY <1>2, <2>2, OnlyTheExchange
    <3>2. TypeOK' /\ UNCHANGED <<pc, cur>>
      BY <3>1, ExchangeFrame DEF TypeOK, db, local
    <3> QED
      BY <1>2, <3>2
  <2> QED
    BY <2>1, <2>2
<1>3. CASE Crash
  BY <1>3, RecoveryAssumption, QtyFacts
     DEF Crash, TypeOK, PCs, db, market, NothingListed, Unlisted, BookRow, BookStatus,
         Sending, Polling, Correcting
<1>4. CASE Restart
  <2>1. listed' \in [Refs -> BookRow]
    BY <1>4, QtyFacts DEF Restart, TypeOK, Unlisted, BookRow, BookStatus
  <2> QED
    BY <1>4, <2>1 DEF Restart, TypeOK, PCs, db, market, PendingRows, Sending, Polling,
                      Correcting
<1>5. CASE RestartLost
  BY <1>5, QtyFacts DEF RestartLost, Die, TypeOK, PCs, db, market, Sending, Polling,
                        Correcting
<1>6. CASE RecoverStep /\ UNCHANGED <<crashes, listed>>
  <2> USE DEF TypeOK, PCs, Sending, Polling, Correcting, db, market
  <2>1. ASSUME NEW r \in Refs, RecoverSkip(r) PROVE RTypeInv'
    BY <1>6, <2>1 DEF RecoverSkip, RecoverAt
  <2>2. ASSUME NEW r \in Refs, NEW st \in Terminal, NEW known \in BOOLEAN,
               NEW next \in {"rundo", "rapply"}, RecoverWith(r, st, known, next)
        PROVE  RTypeInv'
    <3>1. LogUpdate(log[r], st, listed[r].filled) \in LogRow
      BY LogTypes DEF BookRow
    <3> DEFINE row == [LogUpdate(log[r], st, listed[r].filled) EXCEPT !.known = @ \/ known]
    <3>2. row \in LogRow
      BY <3>1 DEF LogRow
    <3>3. log' = [log EXCEPT ![r] = row]
      BY <2>2 DEF RecoverWith
    <3> HIDE DEF row
    <3>4. log' \in [Refs -> LogRow] /\ seen' \in Qty
      BY <2>2, <3>2, <3>3 DEF RecoverWith, BookRow
    <3> QED
      BY <1>6, <2>2, <3>4 DEF RecoverWith
  <2>3. ASSUME NEW r \in Refs, RecoverUnfilled(r) \/ RecoverFilled(r) PROVE RTypeInv'
    BY <2>2, <2>3 DEF RecoverUnfilled, RecoverFilled, Terminal
  <2>4. CASE RecoverRestore \/ RecoverApply
    <3>1. \E row : stage' = [stage EXCEPT ![log[cur].stage] = row]
                   /\ (row = Restored(stage[log[cur].stage])
                       \/ row = Applied(stage[log[cur].stage], seen))
      BY <2>4 DEF RecoverRestore, RecoverApply, SetStage
    <3> DEFINE k == log[cur].stage
    <3>2. stage' \in [Stages -> StageRow]
      <4>1. CASE k \in Stages
        <5>1. stage[k] \in StageRow
          BY <4>1
        <5>2. Restored(stage[k]) \in StageRow /\ Applied(stage[k], seen) \in StageRow
          BY <5>1, RowTypes
        <5> QED
          BY <3>1, <5>2
      <4>2. CASE k \notin Stages
        BY <3>1, <4>2
      <4> QED
        BY <4>1, <4>2
    <3> QED
      BY <1>6, <2>4, <3>2, QtyFacts
         DEF RecoverRestore, RecoverApply, SetStage, RecoverNext
  <2> QED
    BY <1>6, <2>1, <2>3, <2>4 DEF RecoverStep
<1>7. CASE Recovered
  BY <1>7, QtyFacts
     DEF Recovered, RecoverDone, Goto, Die, TypeOK, PCs, db, market, NothingListed,
         Unlisted, BookRow, BookStatus, Sending, Polling, Correcting
<1> QED
  BY <1>1, <1>2, <1>3, <1>4, <1>5, <1>6, <1>7 DEF RNext

LEMMA RTypeInvariant == RSpec => []RTypeInv
BY RTypeInit, RTypeNext, PTL DEF RSpec

\* Rows, orders and local variables keep their types through every crash and
\* restart, and so does the answer recovery works from.
THEOREM RecoveryTypes == RSpec => []RTypeOK
<1>1. RTypeInv => RTypeOK
  BY DEF RTypeInv
<1> QED
  BY <1>1, RTypeInvariant, PTL
---------------------------------------------------------------------------
(* No step writes a settled row, and no row is ever removed *)

RowStep ==
  \/ log' = log
  \/ \E r \in Refs : \E row \in LogRow :
       /\ log' = [log EXCEPT ![r] = row]
       /\ row.st # "NONE"
       /\ log[r].st \in Live \/ \E s \in Stages : RecordOrder(s, r)

LEMMA RowUpdated ==
  ASSUME NEW row \in LogRow, NEW st \in Live \cup Terminal, NEW f \in Qty
  PROVE  LogUpdate(row, st, f) \in LogRow /\ LogUpdate(row, st, f).st = st
BY LogTypes, LogKeeps

LEMMA SendRows == ASSUME RTypeInv, RowsInv, Send PROVE RowStep
<1> USE DEF RTypeInv, RTypeOK, TypeOK, RowStep
<1>1. CASE \/ MarkPending \/ PlaceRefused \/ PlaceLost \/ ListLost \/ RestoreAfterSend
           \/ \E s \in Stages : GuardBlocks(s)
           \/ \E f \in Qty : PlaceTaken(f)
  BY <1>1 DEF MarkPending, PlaceRefused, PlaceLost, ListLost, RestoreAfterSend, SetStage,
              GuardBlocks, PlaceTaken, db
<1>2. ASSUME NEW s \in Stages, NEW r \in Refs, RecordOrder(s, r) PROVE RowStep
  <2> DEFINE row == [st |-> "SENDING", stage |-> s, side |-> Side(s),
                     req |-> IF Side(s) = "BUY" THEN Lot ELSE stage[s].qty,
                     known |-> FALSE, fill |-> 0]
  <2>1. row \in LogRow
    BY StageAssumption, QtyFacts DEF LogRow, StageRow, Sides, Side, Live, Stages
  <2>2. log' = [log EXCEPT ![r] = row]
    BY <1>2 DEF RecordOrder
  <2> QED
    BY <1>2, <2>1, <2>2
<1>3. CASE LogAccepted \/ ListFound
  <2> DEFINE row == [log[cur] EXCEPT !.st = "ACCEPTED", !.known = TRUE]
  <2>1. cur \in Refs /\ log[cur] \in LogRow /\ log[cur].st \in Live
    BY <1>3 DEF LogAccepted, ListFound, RowsInv, Sending
  <2>2. row \in LogRow /\ row.st = "ACCEPTED"
    BY <2>1 DEF LogRow, Live
  <2>3. log' = [log EXCEPT ![cur] = row]
    BY <1>3, <2>1 DEF LogAccepted, ListFound
  <2> HIDE DEF row
  <2> QED
    BY <2>1, <2>2, <2>3 DEF Live, Terminal
<1>4. CASE LogRejected \/ LogUnknown \/ ListMissing
  <2>1. cur \in Refs /\ log[cur] \in LogRow /\ log[cur].st \in Live
    BY <1>4 DEF LogRejected, LogUnknown, ListMissing, RowsInv, Sending
  <2>2. PICK st \in {"REJECTED", "UNKNOWN", "CANCELED"} :
          log' = [log EXCEPT ![cur] = LogUpdate(log[cur], st, 0)]
    BY <1>4, <2>1 DEF LogRejected, LogUnknown, ListMissing, SetLog
  <2> DEFINE row == LogUpdate(log[cur], st, 0)
  <2>3. row \in LogRow /\ row.st = st
    BY <2>1, RowUpdated, QtyFacts DEF Live, Terminal
  <2> HIDE DEF row
  <2> QED
    BY <2>1, <2>2, <2>3 DEF row, Live, Terminal
<1> QED
  BY <1>1, <1>2, <1>3, <1>4 DEF Send

LEMMA PollRows == ASSUME RTypeInv, RowsInv, Poll PROVE RowStep
<1> USE DEF RTypeInv, RTypeOK, TypeOK, RowStep
<1>1. CASE \/ StartPoll \/ CancelTaken \/ CancelLost \/ CancelRefused
           \/ ApplyFill \/ RestoreAfterPoll \/ KeepCycle \/ CloseCycle \/ SetPnl
           \/ ReleaseConfig \/ PollDone
           \/ \E r \in Refs : PollSkip(r) \/ PollDies(r)
  BY <1>1 DEF StartPoll, CancelTaken, CancelLost, CancelRefused, ApplyFill,
              RestoreAfterPoll, SetStage, KeepCycle, CloseCycle, SetPnl, ReleaseConfig,
              PollDone, PollSkip, PollDies, db
<1>2. ASSUME NEW r \in Refs, NEW st \in Live \cup Terminal, NEW f \in Qty, NEW next,
             At(r), Settle(r, st, f, next)
      PROVE  RowStep
  <2>1. log[r].st \in Live
    BY <1>2 DEF At, RowsInv, Polling, Correcting
  <2> DEFINE row == LogUpdate(log[r], st, f)
  <2>2. log' = [log EXCEPT ![r] = row]
    BY <1>2 DEF Settle
  <2>3. row \in LogRow /\ row.st = st
    BY RowUpdated
  <2> HIDE DEF row
  <2> QED
    BY <2>1, <2>2, <2>3 DEF Live, Terminal
<1>3. ASSUME NEW r \in Refs, PollRejected(r) \/ PollFilled(r) PROVE RowStep
  BY <1>2, <1>3, QtyFacts DEF PollRejected, PollFilled, Asked, Terminal, BookRow
<1>4. ASSUME NEW r \in Refs, NEW expired \in BOOLEAN, PollOpen(r, expired) PROVE RowStep
  <2> DEFINE st == IF book[r].filled > 0 THEN "PARTIAL" ELSE log[r].st
             next == IF expired THEN "cancel" ELSE "closing"
  <2>1. At(r) /\ Settle(r, st, book[r].filled, next)
    BY <1>4 DEF PollOpen, Asked
  <2>2. st \in Live
    BY <2>1 DEF At, RowsInv, Polling, Correcting, Live
  <2>3. book[r].filled \in Qty
    BY DEF BookRow
  <2> HIDE DEF st, next
  <2> QED
    BY <2>1, <2>2, <2>3, <1>2
<1>5. CASE LogCanceled
  <2>1. cur \in Refs /\ log[cur].st \in Live
    BY <1>5 DEF LogCanceled, RowsInv, Polling
  <2> DEFINE row == LogUpdate(log[cur], "CANCELED", seen)
  <2>2. log' = [log EXCEPT ![cur] = row]
    BY <1>5, <2>1 DEF LogCanceled, SetLog
  <2>3. row \in LogRow /\ row.st = "CANCELED"
    BY <2>1, RowUpdated DEF Terminal
  <2> HIDE DEF row
  <2> QED
    BY <2>1, <2>2, <2>3 DEF Live, Terminal
<1> QED
  BY <1>1, <1>3, <1>4, <1>5 DEF Poll

LEMMA RecoverRows == ASSUME RTypeInv, RowsInv, RecoverStep PROVE RowStep
<1> USE DEF RTypeInv, RTypeOK, TypeOK, RowStep
<1>1. CASE RecoverRestore \/ RecoverApply \/ \E r \in Refs : RecoverSkip(r)
  BY <1>1 DEF RecoverRestore, RecoverApply, SetStage, RecoverSkip, db
<1>2. ASSUME NEW r \in Refs, NEW st \in Terminal, NEW known \in BOOLEAN, NEW next,
             RecoverWith(r, st, known, next)
      PROVE  RowStep
  <2> DEFINE row == [LogUpdate(log[r], st, listed[r].filled) EXCEPT !.known = @ \/ known]
  <2>1. log[r].st \in Live
    BY <1>2 DEF RecoverWith, RecoverAt, RowsInv, Polling, Correcting
  <2>2. LogUpdate(log[r], st, listed[r].filled) \in LogRow
    BY RowUpdated DEF BookRow
  <2>3. LogUpdate(log[r], st, listed[r].filled).st = st
    BY RowUpdated DEF BookRow
  <2>4. row \in LogRow /\ row.st = st
    BY <2>2, <2>3 DEF LogRow
  <2>5. log' = [log EXCEPT ![r] = row]
    BY <1>2 DEF RecoverWith
  <2> HIDE DEF row
  <2> QED
    BY <2>1, <2>4, <2>5 DEF Live, Terminal
<1>3. ASSUME NEW r \in Refs, RecoverUnfilled(r) \/ RecoverFilled(r) PROVE RowStep
  BY <1>2, <1>3 DEF RecoverUnfilled, RecoverFilled, Terminal
<1> QED
  BY <1>1, <1>3 DEF RecoverStep

LEMMA EveryRowStep == ASSUME RTypeInv, RowsInv, [RNext]_rvars PROVE RowStep
<1>1. CASE Next
  <2>1. CASE Command \/ Tick \/ Exchange
    BY <2>1, ExchangeFrame DEF Command, PauseCycle, ResumeCycle, Transition, Tick, OnTick,
       db, RowStep, RTypeInv, RTypeOK, TypeOK
  <2> QED
    BY <1>1, <2>1, SendRows, PollRows DEF Next, EngineStep
<1>2. CASE \/ UNCHANGED rvars \/ Crash \/ Restart \/ RestartLost \/ Recovered
  BY <1>2 DEF rvars, vars, db, Crash, Restart, RestartLost, Recovered, RecoverDone, RowStep
<1> QED
  BY <1>1, <1>2, RecoverRows DEF RNext

---------------------------------------------------------------------------
(* RowsInv is inductive *)

LEMMA RowsInit == RInit => RowsInv
BY DEF RInit, Init, RowsInv, Sending, Polling, Correcting

\* Steps that write no row and take up none.
LEMMA KeepRowsInv ==
  ASSUME RowsInv, log' = log, todo' = todo, cur' = cur,
         pc' \in (Sending \ {"unsend"}) \cup {"cancel", "canceled"} =>
           pc \in (Sending \ {"unsend"}) \cup {"cancel", "canceled"},
         pc \in Polling \cup Correcting <=> pc' \in Polling \cup Correcting,
         pc \in Polling \cup Correcting \cup {"poll", "recover"} <=>
           pc' \in Polling \cup Correcting \cup {"poll", "recover"}
  PROVE  RowsInv'
BY DEF RowsInv

LEMMA SendKeepsRows == ASSUME RTypeInv, RowsInv, Send PROVE RowsInv'
<1> USE DEF RTypeInv, RTypeOK, TypeOK
<1>1. /\ todo' = {} /\ pc \in Sending \cup {"decide"}
      /\ pc' \in Sending \cup {"decide"}
      /\ pc' \in Sending => cur' \in Refs
  BY DEF Send, GuardBlocks, RecordOrder, MarkPending, PlaceTaken, PlaceRefused,
         PlaceLost, LogAccepted, LogRejected, LogUnknown, ListLost, ListFound,
         ListMissing, RestoreAfterSend, Goto, SendDone, RowsInv, Sending, Polling,
         Correcting
<1>2. pc' \in Sending \ {"unsend"} => log'[cur'].st \in Live
  <2>1. ASSUME NEW s \in Stages, NEW r \in Refs, RecordOrder(s, r)
        PROVE  log'[cur'].st \in Live
    BY <2>1 DEF RecordOrder, Live
  <2>2. CASE LogUnknown
    <3>1. cur \in Refs /\ log[cur] \in LogRow
      BY <2>2 DEF LogUnknown, Sending
    <3>2. log'[cur] = LogUpdate(log[cur], "UNKNOWN", 0) /\ cur' = cur
      BY <2>2, <3>1 DEF LogUnknown, SetLog, Goto
    <3>3. LogUpdate(log[cur], "UNKNOWN", 0).st = "UNKNOWN"
      BY <3>1, LogKeeps
    <3> QED
      BY <3>2, <3>3 DEF Live
  <2>3. CASE MarkPending \/ PlaceRefused \/ PlaceLost \/ \E f \in Qty : PlaceTaken(f)
    BY <2>3 DEF MarkPending, PlaceRefused, PlaceLost, PlaceTaken, Goto, db, RowsInv,
                Sending
  <2>4. CASE \/ LogAccepted \/ LogRejected \/ ListLost \/ ListFound \/ ListMissing
             \/ RestoreAfterSend \/ \E s \in Stages : GuardBlocks(s)
    BY <2>4 DEF LogAccepted, LogRejected, ListLost, ListFound, ListMissing,
                RestoreAfterSend, GuardBlocks, Goto, SendDone, Sending
  <2> QED
    BY <2>1, <2>2, <2>3, <2>4 DEF Send
<1> QED
  BY <1>1, <1>2 DEF RowsInv, Sending, Polling, Correcting

\* A step that writes one row and keeps it at hand, or is done with it.
LEMMA TakeRow ==
  ASSUME RTypeInv, RowsInv, NEW r \in todo, pc \in {"poll", "recover"},
         \A q \in Refs : q # r => log'[q] = log[q],
         todo' = todo, cur' = r, pc' \in Polling \cup Correcting,
         pc' \in {"cancel", "canceled"} => log'[r].st \in Live
  PROVE  RowsInv'
BY DEF RTypeInv, RTypeOK, TypeOK, RowsInv, Sending, Polling, Correcting

LEMMA DropRow ==
  ASSUME RTypeInv, RowsInv, NEW r \in todo, log' = log, todo' = todo \ {r},
         pc' \in {"poll", "recover"}, pc \in Polling \cup Correcting => cur = r
  PROVE  RowsInv'
BY DEF RTypeInv, RTypeOK, TypeOK, RowsInv, Sending, Polling, Correcting

LEMMA PollKeepsRows == ASSUME RTypeInv, RowsInv, Poll PROVE RowsInv'
<1> USE DEF RTypeInv, RTypeOK, TypeOK
<1>1. CASE StartPoll \/ PollDone \/ \E r \in Refs : PollDies(r)
  BY <1>1 DEF StartPoll, PollDone, PollDies, Die, Goto, PendingRows, db, RowsInv,
              Sending, Polling, Correcting
<1>2. CASE \E r \in Refs : PollSkip(r)
  BY <1>2, DropRow DEF PollSkip, At, NextRow, db, Polling, Correcting
<1>3. CASE KeepCycle \/ ReleaseConfig
  BY <1>3, DropRow DEF KeepCycle, ReleaseConfig, NextRow, db, RowsInv, Polling, Correcting
<1>4. CASE \/ CancelTaken \/ CancelLost \/ ApplyFill \/ RestoreAfterPoll
           \/ CloseCycle \/ SetPnl
  BY <1>4, KeepRowsInv
     DEF CancelTaken, CancelLost, ApplyFill, RestoreAfterPoll, SetStage, CloseCycle,
         SetPnl, Goto, db, Sending, Polling, Correcting
<1>5. CASE CancelRefused
  <2>1. CASE Die
    BY <1>5, <2>1 DEF CancelRefused, Die, db, RowsInv, Sending, Polling, Correcting
  <2>2. CASE Goto("closing")
    BY <1>5, <2>2, KeepRowsInv DEF CancelRefused, Goto, db, Sending, Polling, Correcting
  <2> QED
    BY <1>5, <2>1, <2>2 DEF CancelRefused
<1>6. ASSUME NEW r \in Refs, PollRejected(r) \/ PollFilled(r) PROVE RowsInv'
  BY <1>6, TakeRow DEF PollRejected, PollFilled, Asked, At, Settle, Polling
<1>7. ASSUME NEW r \in Refs, NEW expired \in BOOLEAN, PollOpen(r, expired) PROVE RowsInv'
  <2> DEFINE st == IF book[r].filled > 0 THEN "PARTIAL" ELSE log[r].st
  <2>1. /\ pc = "poll" /\ r \in todo /\ todo' = todo /\ cur' = r
        /\ pc' \in {"cancel", "closing"}
        /\ log' = [log EXCEPT ![r] = LogUpdate(log[r], st, book[r].filled)]
    BY <1>7 DEF PollOpen, Asked, At, Settle
  <2>2. st \in Live
    BY <2>1 DEF RowsInv, Polling, Correcting, Live
  <2>3. LogUpdate(log[r], st, book[r].filled).st = st
    BY LogKeeps
  <2> HIDE DEF st
  <2>4. log'[r].st \in Live
    BY <2>1, <2>2, <2>3
  <2> QED
    BY <2>1, <2>4, TakeRow DEF Polling
<1>8. CASE LogCanceled
  <2>1. /\ pc = "canceled" /\ pc' \in {"apply", "undo"} /\ UNCHANGED <<todo, cur>>
        /\ \A q \in Refs : q # cur => log'[q] = log[q]
    BY <1>8 DEF LogCanceled, SetLog, Goto
  <2> QED
    BY <2>1 DEF RowsInv, Sending, Polling, Correcting
<1> QED
  BY <1>1, <1>2, <1>3, <1>4, <1>5, <1>6, <1>7, <1>8 DEF Poll

LEMMA RowsNext == RTypeInv /\ RowsInv /\ [RNext]_rvars => RowsInv'
<1> SUFFICES ASSUME RTypeInv, RowsInv, [RNext]_rvars PROVE RowsInv'
  OBVIOUS
<1> USE DEF RTypeInv, RTypeOK
<1>1. CASE UNCHANGED rvars \/ Command \/ Exchange
  <2>1. UNCHANGED <<log, local>>
    BY <1>1, ExchangeFrame
       DEF rvars, vars, db, TypeOK, Command, PauseCycle, ResumeCycle, Transition
  <2> QED
    BY <2>1, KeepRowsInv DEF local
<1>2. CASE Tick
  BY <1>2, KeepRowsInv DEF Tick, OnTick, db, Sending, Polling, Correcting
<1>3. CASE Crash \/ RestartLost
  BY <1>3 DEF Crash, RestartLost, Die, RowsInv, Sending, Polling, Correcting
<1>4. CASE Restart
  BY <1>4 DEF Restart, PendingRows, db, RowsInv, Sending, Polling, Correcting
<1>5. CASE Recovered
  BY <1>5 DEF Recovered, RecoverDone, Goto, Die, RowsInv, Sending, Polling, Correcting
<1>6. ASSUME NEW r \in Refs, RecoverUnfilled(r) \/ RecoverFilled(r) PROVE RowsInv'
  <2>1. PICK row : log' = [log EXCEPT ![r] = row]
    BY <1>6 DEF RecoverUnfilled, RecoverFilled, RecoverWith
  <2>2. /\ pc = "recover" /\ r \in todo /\ todo' = todo /\ cur' = r
        /\ pc' \in {"rundo", "rapply"}
    BY <1>6 DEF RecoverUnfilled, RecoverFilled, RecoverWith, RecoverAt
  <2>3. \A q \in Refs : q # r => log'[q] = log[q]
    BY <2>1 DEF TypeOK
  <2> QED
    BY <2>2, <2>3, TakeRow DEF Correcting
<1>7. CASE RecoverRestore \/ RecoverApply \/ \E r \in Refs : RecoverSkip(r)
  BY <1>7, DropRow
     DEF RecoverRestore, RecoverApply, SetStage, RecoverNext, RecoverSkip, RecoverAt, db,
         RowsInv, Polling, Correcting
<1> QED
  BY <1>1, <1>2, <1>3, <1>4, <1>5, <1>6, <1>7, SendKeepsRows, PollKeepsRows
     DEF RNext, Next, EngineStep, RecoverStep

LEMMA RowsInvariant == RSpec => []RowsInv
BY RowsInit, RowsNext, RTypeInvariant, PTL DEF RSpec

---------------------------------------------------------------------------
(* The theorems *)

\* A settled row never changes again: neither a late answer, nor a crash between
\* any two commits, nor the recovery after it rewrites what an order came to.
THEOREM SettledForGood == RSpec => TerminalIsFinal
<1>1. RTypeInv /\ RowsInv /\ [RNext]_rvars =>
        [\A r \in Refs : log[r].st \in Terminal => log'[r] = log[r]]_log
  <2> SUFFICES ASSUME RTypeInv, RowStep, NEW r \in Refs, log[r].st \in Terminal
               PROVE  log'[r] = log[r]
    BY EveryRowStep
  <2> QED
    BY DEF RowStep, RecordOrder, NextRef, Live, Terminal, RTypeInv, RTypeOK, TypeOK
<1> QED
  BY <1>1, RTypeInvariant, RowsInvariant, PTL DEF RSpec, TerminalIsFinal

\* Three steps of the program move the record of the exchange.
LEMMA BookMovers ==
  ASSUME [RNext]_rvars, book' # book
  PROVE  Exchange \/ PlaceLost \/ CancelTaken \/ \E f \in Qty : PlaceTaken(f)
BY DEF RNext, rvars, vars, Next, Command, PauseCycle, ResumeCycle, Transition,
       EngineStep, Tick, OnTick, Send, GuardBlocks, RecordOrder, MarkPending,
       PlaceRefused, LogAccepted, LogRejected, LogUnknown, ListLost, ListFound,
       ListMissing, RestoreAfterSend, Poll, StartPoll, PollSkip, PollDies,
       PollRejected, PollFilled, PollOpen, Settle, CancelLost, CancelRefused,
       LogCanceled, ApplyFill, RestoreAfterPoll, KeepCycle, CloseCycle, SetPnl,
       ReleaseConfig, PollDone, Crash, Restart, RestartLost, RecoverStep,
       RecoverSkip, RecoverUnfilled, RecoverFilled, RecoverWith, RecoverRestore,
       RecoverApply, Recovered, RecoverDone, market

\* Write-ahead holds through every crash: the exchange never has an order that
\* the log does not know.
THEOREM NoOrphanOrders == RSpec => []WriteAhead
<1>1. RInit => WriteAhead
  BY DEF RInit, Init, WriteAhead
<1>2. RTypeInv /\ RowsInv /\ WriteAhead /\ [RNext]_rvars => WriteAhead'
  <2> SUFFICES ASSUME RTypeInv, RowsInv, WriteAhead, [RNext]_rvars,
                      NEW r \in Refs, book'[r].st # "NONE"
               PROVE  log'[r].st # "NONE"
    BY DEF WriteAhead
  <2> USE DEF RTypeInv, RTypeOK, TypeOK
  <2>1. log[r].st # "NONE" => log'[r].st # "NONE"
    BY EveryRowStep DEF RowStep
  <2>2. CASE book[r].st # "NONE"
    BY <2>1, <2>2 DEF WriteAhead
  <2>3. CASE book[r].st = "NONE"
    <3>1. ~Exchange
      BY <2>3, ExchangeFrame
    <3>2. book' # book
      BY <2>3
    <3>3. \/ PlaceLost \/ CancelTaken
          \/ \E f \in Qty : PlaceTaken(f)
      BY <3>1, <3>2, BookMovers
    <3>4. r = cur /\ pc = "placing"
      BY <2>3, <3>3 DEF PlaceLost, CancelTaken, PlaceTaken, Place, Working
    <3>5. log[r].st \in Live
      BY <3>4 DEF RowsInv, Sending
    <3> QED
      BY <2>1, <3>5 DEF Live
  <2> QED
    BY <2>2, <2>3
<1> QED
  BY <1>1, <1>2, RTypeInvariant, RowsInvariant, PTL DEF RSpec
---------------------------------------------------------------------------
(* While the engine runs: RunInv is kept by every step of the order path *)

LEMMA RunMatches == RunInv => TypeInv /\ MatchInv
BY DEF RunInv, MatchInv

\* A row left SENDING is never taken for the order its stage waits for.
LEMMA OrphanNext ==
  ASSUME RunInv, TypeInv', [Next]_vars PROVE OrphanInv'
<1> USE DEF RunInv
<1> SUFFICES ASSUME NEW r \in Refs, log'[r].st = "SENDING", ~Open(r)',
                    Pending(stage'[log'[r].stage])
             PROVE  \E q \in Refs : Open(q)' /\ log'[q].stage = log'[r].stage
  BY DEF OrphanInv, Orphan
<1> DEFINE s == log'[r].stage
\* The row was left behind already, and its stage waits for another order.
<1>1. ASSUME log[r] = log'[r] \/ (log[r].st = "SENDING" /\ log[r].stage = s), ~Open(r)
      PROVE  \/ \E q \in Refs : Open(q) /\ log[q].stage = s
             \/ \E q \in Refs : Open(q)' /\ log'[q].stage = s
  <2>1. log[r].st = "SENDING" /\ log[r].stage = s /\ s \in Stages
    BY <1>1 DEF OrderInv, RowInv
  <2>2. Pending(stage[s]) => \E q \in Refs : Open(q) /\ log[q].stage = s
    BY <1>1, <2>1 DEF OrphanInv, Orphan
  <2> QED
    BY <2>1, <2>2, NewPending
<1>2. CASE Same
  <2>1. log[r].st = "SENDING" /\ log[r].stage = s /\ ~Open(r)
    BY <1>2 DEF Same
  <2> QED
    BY <1>1, <1>2, <2>1 DEF Same
<1>3. ASSUME NEW t \in Stages, NEW p \in Refs, RecordOrder(t, p)
      PROVE  \E q \in Refs : Open(q)' /\ log'[q].stage = s
  <2>1. /\ \A q \in Refs : q # p => log'[q] = log[q]
        /\ \A q \in Refs : Open(q)' <=> Open(q) \/ q = p
        /\ ~Open(p)
    BY <1>3, RecordsOrder
  <2> QED
    BY <1>1, <2>1
<1>4. CASE Frees
  <2>1. /\ log' = log /\ cur \in Refs /\ log[cur].st \in Terminal
        /\ \A q \in Refs : Open(q)' <=> Open(q) /\ q # cur
        /\ ~Pending(stage'[log[cur].stage])
    BY <1>4, FreesOrder, FreesStage
  <2>2. r # cur /\ ~Open(r)
    BY <2>1 DEF Terminal
  <2> QED
    BY <1>1, <2>1, <2>2
<1> QED
  BY <1>2, <1>3, <1>4, EveryOrderStep

\* Without a midnight in between, today's list keeps every order the exchange took.
LEMMA TodayNext ==
  ASSUME "midnight" \notin Expiry, TypeOK, TodayInv, [RNext]_rvars PROVE TodayInv'
<1> USE DEF TypeOK, TodayInv
<1>1. CASE book' = book
  <2>1. today \subseteq today'
    <3>1. today' = today \/ NextDay \/ (\E r \in Refs : Place(r, 0)) \/ \E f \in Qty : Place(cur, f)
      BY DEF RNext, rvars, vars, Next, Command, PauseCycle, ResumeCycle, Transition,
         EngineStep, Tick, OnTick, Send, GuardBlocks, RecordOrder, MarkPending,
         PlaceRefused, PlaceLost, PlaceTaken, LogAccepted, LogRejected, LogUnknown,
         ListLost, ListFound, ListMissing, RestoreAfterSend, Poll, StartPoll, PollSkip,
         PollDies, PollRejected, PollFilled, PollOpen, Settle, CancelTaken, CancelLost,
         CancelRefused, LogCanceled, ApplyFill, RestoreAfterPoll, KeepCycle, CloseCycle,
         SetPnl, ReleaseConfig, PollDone, Crash, Restart, RestartLost, RecoverStep,
         RecoverSkip, RecoverUnfilled, RecoverFilled, RecoverWith, RecoverRestore,
         RecoverApply, Recovered, RecoverDone, market, Exchange, Deliver, Fill, RejectLater,
         MarketClose
    <3> QED
      BY <3>1 DEF NextDay, Place
  <2> QED
    BY <1>1, <2>1
<1>2. CASE book' # book
  <2>1. Exchange \/ PlaceLost \/ CancelTaken \/ \E f \in Qty : PlaceTaken(f)
    BY <1>2, BookMovers
  <2>2. ASSUME NEW r \in Refs, Deliver(r) \/ RejectLater(r) \/ \E f \in Qty : Fill(r, f)
        PROVE  TodayInv'
    BY <2>2 DEF Deliver, RejectLater, Fill, Place, Working
  <2>3. CASE MarketClose
    BY <2>3 DEF MarketClose, Working
  <2>4. CASE PlaceLost \/ CancelTaken
    <3>1. today' = today
      BY <2>4 DEF PlaceLost, CancelTaken, db
    <3>2. ASSUME NEW r \in Refs, book'[r].st \notin {"NONE", "TRANSIT"}
          PROVE  book[r].st \notin {"NONE", "TRANSIT"}
      BY <2>4, <3>2 DEF PlaceLost, CancelTaken, Working, BookRow
    <3> QED
      BY <3>1, <3>2
  <2>5. ASSUME NEW f \in Qty, PlaceTaken(f) PROVE TodayInv'
    BY <2>5 DEF PlaceTaken, Place
  <2> QED
    BY <2>1, <2>2, <2>3, <2>4, <2>5 DEF Exchange, NextDay
<1> QED
  BY <1>1, <1>2

LEMMA RunNext ==
  ASSUME CleanCrash, RunInv, [Next]_vars, UNCHANGED <<crashes, listed>> PROVE RunInv'
<1>1. [Next]_vars /\ [RNext]_rvars
  BY DEF RNext, rvars
<1>2. TypeInv'
  BY <1>1, TypeNext DEF RunInv
<1>3. OrderInv' /\ BookInv' /\ FillsInv' /\ AskInv' /\ FlatInv'
  BY <1>1, <1>2, OrderNext, BookNext, FillsNext, AskNext, FlatNext DEF RunInv, CleanCrash
<1>4. ShapeInv' /\ AmountInv' /\ TruthInv' /\ HoldingsInv'
  BY <1>1, <1>2, ShapeNext, AmountNext, TruthNext, RecordedNext DEF RunInv, CleanCrash
<1>5. OrphanInv' /\ TodayInv'
  BY <1>1, <1>2, OrphanNext, TodayNext DEF RunInv, CleanCrash, TypeInv
<1> QED
  BY <1>2, <1>3, <1>4, <1>5 DEF RunInv

LEMMA RunInit == RInit => RunInv /\ WholeInv
<1> SUFFICES ASSUME Init PROVE RunInv /\ WholeInv
  BY DEF RInit
<1>1. TypeInv /\ OrderInv /\ BookInv /\ FillsInv
  BY TypeInit, OrderInit, BookInit, FillsInit
<1>2. AskInv /\ HoldingsInv /\ WholeInv /\ ShapeInv /\ AmountInv
  BY RecordedInit, GuardRowsInit
<1>3. FlatInv /\ TruthInv /\ OrphanInv /\ TodayInv
  BY DEF Init, FlatInv, TruthInv, OrphanInv, Orphan, TodayInv, NoRow, Sending, Terminal
<1> QED
  BY <1>1, <1>2, <1>3 DEF RunInv

---------------------------------------------------------------------------
(* The crash *)

\* Before the crash an order is open exactly if its stage waits for it, but for the one
\* in hand before its stage is marked and after its row is closed.
LEMMA OpenWaits ==
  ASSUME TypeInv, OrderInv, WholeInv, NEW r \in Refs
  PROVE  /\ Waits(r) => Open(r) /\ ~(r = cur /\ pc = "recorded")
         /\ Open(r) => \/ Waits(r)
                       \/ r = cur /\ pc = "recorded" /\ log[r].st = "SENDING"
                       \/ r = cur /\ pc \in Ending /\ log[r].st \in Terminal
<1>1. ASSUME Waits(r) PROVE Open(r) /\ ~(r = cur /\ pc = "recorded")
  <2>1. Open(r)
    BY <1>1 DEF Waits, WholeInv, Open, Sent
  <2>2. ~(r = cur /\ pc = "recorded")
    BY <1>1 DEF Waits, OrderInv, PcInv, Pending
  <2> QED
    BY <2>1, <2>2
<1>2. ASSUME Open(r), ~(r = cur /\ pc = "recorded"), ~(r = cur /\ pc \in Ending)
      PROVE  Waits(r)
  <2>1. log[r].st \in Live
    BY <1>2 DEF Open, Sent, InHand, Ending, Sending, OrderInv, PcInv
  <2>2. Pending(stage[log[r].stage])
    BY <1>2 DEF OrderInv, WaitInv, Pending, PendingAs
  <2> QED
    BY <2>1, <2>2 DEF Waits
<1>3. r = cur /\ pc = "recorded" => log[r].st = "SENDING"
  BY DEF OrderInv, PcInv
<1>4. r = cur /\ pc \in Ending => log[r].st \in Terminal
  BY DEF OrderInv, PcInv, Ending
<1> QED
  BY <1>1, <1>2, <1>3, <1>4

LEMMA RunTells == RunInv => RowsTell
<1> SUFFICES ASSUME RunInv PROVE RowsTell
  OBVIOUS
<1>1. \A r \in Refs : log[r].st \in Live \cup Terminal \cup {"NONE"}
  BY DEF RunInv, TypeInv, TypeOK, LogRow
<1> QED
  BY <1>1 DEF RunInv, OrderInv, RowInv, BookInv, FillsInv, AmountInv, TruthInv, RowsTell,
              AtExchange, Working

\* Whatever the engine was doing, the rows it leaves behind tell what recovery needs to
\* know; only the stage whose order had ended and was not booked yet is forgotten.
LEMMA CrashAway ==
  ASSUME RunInv, WholeInv, Crash, TypeOK' PROVE AwayInv'
<1> USE DEF RunInv
<1>1. /\ pc' = "down" /\ plan' = {} /\ todo' = {}
      /\ UNCHANGED <<stage, log, cycle, book, today>>
  BY DEF Crash, db, market
<1>2. /\ \A r \in Refs : Waits(r)' = Waits(r) /\ Owed(r)' = Waits(r)
      /\ \A r \in Refs : Told(r)' = Told(r)
  BY <1>1 DEF Waits, Owed, Correcting, Told
<1>3. RowsTell'
  BY <1>1, RunTells DEF RowsTell, AtExchange
<1>4. WaitsAgree'
  <2>1. \A q, r \in Refs : Waits(q) /\ Waits(r) /\ log[q].stage = log[r].stage => q = r
    BY OpenWaits DEF OrderInv, UniqueInv
  <2>2. ASSUME NEW r \in Refs, Waits(r)
        PROVE  /\ stage[log[r].stage].status = PendingAs(log[r].side)
               /\ log[r].req = IF log[r].side = "BUY" THEN Lot ELSE stage[log[r].stage].qty
    BY <2>2, OpenWaits DEF OrderInv, WaitInv, AskInv
  <2>3. ASSUME NEW r \in Refs, log[r].st \in Live, ~Waits(r)
        PROVE  log[r].st = "SENDING" /\ book[r].st = "NONE"
    <3>1. Open(r)
      BY <2>3 DEF WholeInv, Open, Sent
    <3>2. r = cur /\ pc = "recorded"
      BY <2>3, <3>1, OpenWaits DEF Live, Terminal
    <3> QED
      BY <3>2 DEF OrderInv, PcInv, TruthInv
  <2> QED
    BY <1>1, <1>2, <2>1, <2>2, <2>3 DEF WaitsAgree
<1>5. RecoverInv'
  BY <1>1 DEF RecoverInv, Correcting
<1>6. HoldingsAway'
  <2> SUFFICES ASSUME NEW s \in Stages
               PROVE  ForgottenAway(s)'
                      \/ HeldQty(stage[s]) = SumFunctionOnSet(RecordedAway(s)', Refs)
    BY <1>1 DEF HoldingsAway
  <2>1. CASE \E r \in Refs : r = cur /\ pc \in Ending /\ log[r].stage = s
    <3>1. /\ cur \in Refs /\ pc \in Ending /\ log[cur].stage = s
          /\ log[cur].st \in Terminal /\ Open(cur)
      BY <2>1, EndingInHand DEF OrderInv, PcInv, Ending, Open
    <3>2. Pending(stage[s])
      BY <3>1 DEF OrderInv, WaitInv, Ending, Pending, PendingAs
    <3>3. \A r \in Refs : Waits(r) => log[r].stage # s
      BY <3>1, OpenWaits DEF OrderInv, UniqueInv, Waits, Live, Terminal
    <3> QED
      BY <1>1, <1>2, <3>2, <3>3 DEF ForgottenAway
  <2>2. CASE ~\E r \in Refs : r = cur /\ pc \in Ending /\ log[r].stage = s
    <3>1. ASSUME NEW r \in Refs, log[r].stage = s, Open(r) # Waits(r) PROVE Told(r) = 0
      <4>1. r = cur /\ pc = "recorded"
        BY <2>2, <3>1, OpenWaits DEF Open, Waits
      <4> QED
        BY <4>1 DEF FillsInv, Sending, Told
    <3>2. RecordedAway(s)' = Recorded(s)
      BY <1>1, <1>2, <3>1 DEF RecordedAway, Recorded
    <3> QED
      BY <3>2, WholeHoldings DEF HoldingsAreRecorded
  <2> QED
    BY <2>1, <2>2
<1>7. ShapeInv' /\ TodayInv'
  BY <1>1 DEF ShapeInv, TodayInv
<1>8. cycle' = "CLOSED" => \A s \in Stages : ~Pending(stage'[s]) /\ HeldQty(stage'[s]) = 0
  BY <1>1 DEF FlatInv
<1> QED
  BY <1>1, <1>3, <1>4, <1>5, <1>6, <1>7, <1>8 DEF AwayInv

---------------------------------------------------------------------------
(* While the program is down *)

\* What the exchange does to an order, when no order is on its way and no day ends.
LEMMA ExchangeOne ==
  ASSUME TypeOK, RowsTell, Exchange, "midnight" \notin Expiry, NEW r \in Refs
  PROVE  \/ book'[r] = book[r]
         \/ /\ book[r].st \in Working
            /\ book'[r].st \in Working \cup Finished /\ book'[r].st # "OPEN"
            /\ book[r].filled <= book'[r].filled /\ book'[r].filled <= log[r].req
            /\ book'[r].st = "REJECTED" => book'[r].filled = 0
            /\ book'[r].st = "FILLED" => book'[r].filled > 0
<1> USE DEF TypeOK, BookRow, Qty
<1>1. /\ book[r].filled \in Nat /\ log[r].req \in Nat
      /\ book[r].filled <= log[r].req /\ (book[r].st = "OPEN" => book[r].filled = 0)
  BY DEF RowsTell, LogRow
<1>2. ASSUME NEW q \in Refs, Deliver(q) PROVE FALSE
  BY <1>2 DEF Deliver, RowsTell
<1>3. ASSUME NEW q \in Refs, RejectLater(q), book'[r] # book[r]
      PROVE  /\ book[r].st = "OPEN" /\ book'[r].st = "REJECTED"
             /\ book'[r].filled = book[r].filled
  BY <1>3 DEF RejectLater
<1>4. ASSUME NEW q \in Refs, NEW f \in Qty, Fill(q, f), book'[r] # book[r]
      PROVE  /\ book[r].st \in Working /\ book'[r].st \in {"FILLED", "PARTIAL"}
             /\ book'[r].filled = f /\ book[r].filled < f /\ f <= log[r].req
  BY <1>4 DEF Fill, Working
<1>5. ASSUME MarketClose, book'[r] # book[r]
      PROVE  /\ book[r].st \in Working /\ book'[r].st = "CANCELED"
             /\ book'[r].filled = book[r].filled
  BY <1>5 DEF MarketClose, Working
<1>6. ~NextDay
  BY DEF NextDay
<1> QED
  BY <1>1, <1>2, <1>3, <1>4, <1>5, <1>6 DEF Exchange, Working, Finished

LEMMA AwayExchange ==
  ASSUME CleanCrash, AwayInv, pc \in Away, Exchange, TypeOK' PROVE AwayInv'
<1>1. pc = "down"
  BY DEF CleanCrash, Away, Exchange, Deliver, Fill, RejectLater, MarketClose, NextDay,
         ExchangeMoves
<1>2. UNCHANGED <<stage, log, cycle, pc, plan, todo, cur, seen, today>>
  <2>1. ~NextDay /\ \A r \in Refs : ~Deliver(r)
    BY DEF CleanCrash, NextDay, AwayInv, RowsTell, Deliver
  <2> QED
    BY <2>1 DEF Exchange, RejectLater, Fill, MarketClose, db, local
<1>3. /\ \A r \in Refs : Waits(r)' = Waits(r) /\ Owed(r)' = Owed(r)
      /\ \A r \in Refs : Told(r)' = Told(r)
  BY <1>2 DEF Waits, Owed, Told
<1>4. ASSUME NEW r \in Refs
      PROVE  \/ book'[r] = book[r]
             \/ /\ book[r].st \in Working
                /\ book'[r].st \in Working \cup Finished /\ book'[r].st # "OPEN"
                /\ book[r].filled <= book'[r].filled /\ book'[r].filled <= log[r].req
                /\ book'[r].st = "REJECTED" => book'[r].filled = 0
                /\ book'[r].st = "FILLED" => book'[r].filled > 0
  BY ExchangeOne DEF AwayInv, CleanCrash
<1>5. \A r \in Refs : book[r].st \in Working => log[r].st \in Live
  BY DEF AwayInv, RowsTell, AtExchange
<1>6. \A r \in Refs : /\ log[r].fill \in Nat /\ book[r].filled \in Nat /\ book'[r].filled \in Nat
                      /\ log[r].st \in Live \cup Terminal \cup {"NONE"}
  BY DEF AwayInv, TypeOK, LogRow, BookRow, Qty
<1>7. RowsTell'
  BY <1>2, <1>4, <1>5, <1>6 DEF AwayInv, RowsTell, AtExchange, Working, Finished, Live,
                               Terminal
<1>8. WaitsAgree'
  <2>1. \A r \in Refs : book[r].st = "NONE" => book'[r].st = "NONE"
    BY <1>4 DEF Working
  <2> QED
    BY <1>2, <1>3, <2>1 DEF AwayInv, WaitsAgree
<1>9. RecoverInv'
  BY <1>1, <1>2 DEF AwayInv, RecoverInv, Correcting
<1>10. HoldingsAway'
  <2>1. \A s \in Stages : RecordedAway(s)' = RecordedAway(s)
                          /\ ForgottenAway(s)' = ForgottenAway(s)
    BY <1>2, <1>3 DEF RecordedAway, ForgottenAway
  <2> QED
    BY <1>2, <2>1 DEF AwayInv, HoldingsAway
<1>11. ShapeInv' /\ TodayInv'
  BY <1>2, <1>4 DEF AwayInv, ShapeInv, TodayInv, Working
<1> QED
  BY <1>2, <1>7, <1>8, <1>9, <1>10, <1>11 DEF AwayInv

---------------------------------------------------------------------------
(* The recovery *)

\* Steps that write neither a row nor a stage.
LEMMA KeepAway ==
  ASSUME AwayInv, UNCHANGED <<db, market, plan, cur, seen>>, TypeOK',
         pc \in Correcting <=> pc' \in Correcting, RecoverInv'
  PROVE  AwayInv'
<1> USE DEF db, market
<1>1. /\ \A r \in Refs : Waits(r)' = Waits(r) /\ Owed(r)' = Owed(r)
      /\ \A r \in Refs : Told(r)' = Told(r)
  BY DEF Waits, Owed, Told
<1>2. RowsTell' /\ ShapeInv' /\ TodayInv'
  BY DEF AwayInv, RowsTell, ShapeInv, TodayInv, AtExchange
<1>3. WaitsAgree'
  BY <1>1 DEF AwayInv, WaitsAgree
<1>4. HoldingsAway'
  <2>1. \A s \in Stages : RecordedAway(s)' = RecordedAway(s)
                          /\ ForgottenAway(s)' = ForgottenAway(s)
    BY <1>1 DEF RecordedAway, ForgottenAway
  <2> QED
    BY <2>1 DEF AwayInv, HoldingsAway
<1> QED
  BY <1>2, <1>3, <1>4 DEF AwayInv

LEMMA AwayRestart ==
  ASSUME CleanCrash, AwayInv, Restart, TypeOK' PROVE AwayInv'
<1>1. /\ pc = "down" /\ pc' = "recover" /\ todo' = PendingRows
      /\ UNCHANGED <<db, market, plan, cur, seen>>
      /\ \A r \in Refs : ~AtExchange(r)
      /\ listed' = [r \in Refs |-> IF r \in today THEN book[r] ELSE Unlisted]
  BY DEF Restart, CleanCrash
<1>2. RecoverInv'
  BY <1>1 DEF RecoverInv, Correcting, PendingRows, Waits, AtExchange, db, market
<1> QED
  BY <1>1, <1>2, KeepAway DEF Correcting

LEMMA AwaySkip ==
  ASSUME AwayInv, NEW r \in Refs, RecoverSkip(r), UNCHANGED listed, TypeOK' PROVE AwayInv'
<1>1. /\ pc = "recover" /\ pc' = pc /\ todo' = todo \ {r} /\ ~Waits(r)
      /\ UNCHANGED <<db, market, plan, cur, seen>>
  BY DEF RecoverSkip, RecoverAt, Waits
<1>2. RecoverInv'
  BY <1>1 DEF AwayInv, RecoverInv, Correcting, Waits, AtExchange, db, market
<1> QED
  BY <1>1, <1>2, KeepAway DEF Correcting

\* The list of the day tells the fill of every order that waits.
LEMMA ListTells ==
  ASSUME AwayInv, pc # "down", NEW r \in Refs PROVE listed[r].filled = book[r].filled
<1>1. CASE r \in today
  BY <1>1 DEF AwayInv, RecoverInv
<1>2. CASE r \notin today
  <2>1. book[r].st = "NONE"
    BY <1>2 DEF AwayInv, TodayInv, RowsTell
  <2> QED
    BY <1>2, <2>1 DEF AwayInv, RecoverInv, RowsTell, Unlisted
<1> QED
  BY <1>1, <1>2

\* The row recovery settles takes over what the exchange did, and stays owed to its stage.
LEMMA AwaySettle ==
  ASSUME AwayInv, NEW r \in Refs, RecoverUnfilled(r) \/ RecoverFilled(r), UNCHANGED listed,
         TypeOK'
  PROVE  AwayInv'
<1> DEFINE f == listed[r].filled
<1>1. PICK st \in Terminal, known \in BOOLEAN, next \in Correcting :
        RecoverWith(r, st, known, next) /\ (next = "rapply" <=> f > 0)
  <2>1. f \in Nat
    BY ListTells DEF AwayInv, TypeOK, BookRow, Qty, RecoverUnfilled, RecoverFilled,
       RecoverWith, RecoverAt
  <2>2. CASE RecoverUnfilled(r)
    <3>1. f = 0 /\ RecoverWith(r, "CANCELED", FALSE, "rundo")
      BY <2>2 DEF RecoverUnfilled
    <3>2. ~(f > 0)
      BY <3>1
    <3> QED
      BY <3>1, <3>2 DEF Terminal, Correcting
  <2>3. CASE RecoverFilled(r)
    <3>1. f > 0 /\ \E st \in Terminal : RecoverWith(r, st, TRUE, "rapply")
      BY <2>3 DEF RecoverFilled, Terminal
    <3> QED
      BY <3>1 DEF Correcting
  <2> QED
    BY <2>2, <2>3
<1>2. /\ pc = "recover" /\ r \in todo /\ Pending(stage[log[r].stage])
      /\ pc' = next /\ cur' = r /\ seen' = f
      /\ UNCHANGED <<stage, cycle, book, today, plan, todo>>
  BY <1>1 DEF RecoverWith, RecoverAt, market
<1>3. f = book[r].filled /\ f \in Nat /\ log[r].fill \in Nat /\ log[r].fill <= f
  BY <1>2, ListTells DEF AwayInv, TypeOK, BookRow, LogRow, Qty, RowsTell
<1>4. Waits(r) /\ log[r].st \in Live /\ ~AtExchange(r)
  BY <1>2 DEF AwayInv, RecoverInv, Correcting, Waits
<1>5. /\ \A q \in Refs : q # r => log'[q] = log[q]
      /\ log'[r].st = st /\ log'[r].fill = f /\ log'[r].stage = log[r].stage
      /\ log'[r].side = log[r].side /\ log'[r].req = log[r].req
  <2>1. log[r] \in LogRow /\ log \in [Refs -> LogRow]
    BY DEF AwayInv, TypeOK
  <2> DEFINE row == LogUpdate(log[r], st, f)
  <2>2. log' = [log EXCEPT ![r] = [row EXCEPT !.known = @ \/ known]]
    BY <1>1 DEF RecoverWith
  <2>3. f \in Qty
    BY <1>3, <2>1 DEF AwayInv, TypeOK, BookRow
  <2>4. /\ row \in LogRow /\ row.st = st /\ row.stage = log[r].stage
        /\ row.side = log[r].side /\ row.req = log[r].req
        /\ row.fill = IF f > 0 THEN f ELSE log[r].fill
    BY <2>1, <2>3, LogTypes, LogKeeps, Updated
  <2>5. row.fill = f
    BY <1>3, <2>4
  <2> HIDE DEF row, f
  <2> QED
    BY <2>1, <2>2, <2>4, <2>5 DEF LogRow
<1>6. ASSUME NEW q \in Refs
      PROVE  /\ Owed(q)' <=> Owed(q)
             /\ Waits(q)' <=> Waits(q) /\ q # r
             /\ log'[q].stage = log[q].stage /\ log'[q].side = log[q].side
             /\ log'[q].req = log[q].req /\ (q # r => Told(q)' = Told(q))
  BY <1>2, <1>4, <1>5 DEF Owed, Waits, Told, Correcting, Live, Terminal
<1> HIDE DEF f
<1>7. RowsTell'
  BY <1>2, <1>3, <1>4, <1>5 DEF AwayInv, RowsTell, AtExchange, Live, Terminal
<1>8. WaitsAgree'
  BY <1>2, <1>5, <1>6 DEF AwayInv, WaitsAgree, Live, Terminal
<1>9. RecoverInv'
  <2>1. \A q \in Refs : AtExchange(q)' = AtExchange(q)
    BY <1>2 DEF AtExchange
  <2>2. \A q \in todo' : log'[q].st \in Live \/ (q = cur' /\ pc' \in Correcting)
    BY <1>2, <1>5 DEF AwayInv, RecoverInv, TypeOK, Correcting
  <2> QED
    BY <1>1, <1>2, <1>5, <1>6, <2>1, <2>2 DEF AwayInv, RecoverInv, Correcting
<1>10. HoldingsAway'
  <2>1. ASSUME NEW s \in Stages
        PROVE  RecordedAway(s)' = RecordedAway(s) /\ (ForgottenAway(s)' <=> ForgottenAway(s))
    <3>1. Owed(r)
      BY <1>4 DEF Owed
    <3> QED
      BY <1>2, <1>6, <3>1 DEF RecordedAway, ForgottenAway
  <2> QED
    BY <1>2, <2>1 DEF AwayInv, HoldingsAway
<1>11. ShapeInv' /\ TodayInv'
  BY <1>2 DEF AwayInv, ShapeInv, TodayInv
<1> QED
  BY <1>2, <1>7, <1>8, <1>9, <1>10, <1>11 DEF AwayInv

\* The second commit of a recovered order books exactly what the first one recorded, and
\* its stage waits no more.
LEMMA AwayBooks ==
  ASSUME AwayInv, RecoverRestore \/ RecoverApply, TypeOK', NEW k, k = log[cur].stage
  PROVE  /\ pc \in Correcting /\ pc' = "recover" /\ todo' = todo \ {cur}
         /\ UNCHANGED <<log, cycle, book, today, plan>>
         /\ cur \in Refs /\ log[cur].st \in Terminal /\ Owed(cur) /\ k \in Stages
         /\ \A s \in Stages : s # k => stage'[s] = stage[s]
         /\ Pending(stage[k]) /\ ~Pending(stage'[k])
         /\ stage'[k].qty > 0 <=> Holds(stage'[k])
         /\ HeldQty(stage'[k]) = HeldQty(stage[k]) + Told(cur)
<1>1. /\ pc \in Correcting /\ pc' = "recover" /\ todo' = todo \ {cur}
      /\ UNCHANGED <<log, cycle, book, today, plan>>
  BY DEF RecoverRestore, RecoverApply, SetStage, RecoverNext, market, Correcting
<1>2. /\ cur \in Refs /\ log[cur].st \in Terminal /\ seen = log[cur].fill
      /\ pc = "rapply" <=> seen > 0
  BY <1>1 DEF AwayInv, RecoverInv
<1>3. Owed(cur) /\ k \in Stages /\ log[cur].side \in Sides
  BY <1>1, <1>2 DEF Owed, AwayInv, RowsTell, Terminal, TypeOK, LogRow
<1>4. /\ stage[k] \in StageRow /\ stage[k].status = PendingAs(log[cur].side)
      /\ seen \in Qty /\ log[cur].fill \in Nat
      /\ seen <= IF log[cur].side = "BUY" THEN Lot ELSE stage[k].qty
  <2>1. log[cur].fill \in Qty /\ log[cur].fill \in Nat /\ book[cur].filled \in Nat
        /\ log[cur].req \in Nat /\ stage[k] \in StageRow
    BY <1>2, <1>3 DEF AwayInv, TypeOK, LogRow, BookRow, Qty
  <2>2. log[cur].fill <= log[cur].req
    BY <1>2, <2>1 DEF AwayInv, RowsTell
  <2>3. /\ stage[k].status = PendingAs(log[cur].side)
        /\ log[cur].req = IF log[cur].side = "BUY" THEN Lot ELSE stage[k].qty
    BY <1>2, <1>3 DEF AwayInv, WaitsAgree
  <2> QED
    BY <1>2, <2>1, <2>2, <2>3
<1>5. Pending(stage[k]) /\ (stage[k].qty > 0 <=> Holds(stage[k]))
  BY <1>3, <1>4 DEF Pending, PendingAs, AwayInv, ShapeInv
<1> DEFINE row == IF pc = "rundo" THEN Restored(stage[k]) ELSE Applied(stage[k], seen)
<1>6. /\ stage'[k] = row /\ \A s \in Stages : s # k => stage'[s] = stage[s]
  BY <1>1, <1>3 DEF RecoverRestore, RecoverApply, SetStage, Correcting, AwayInv, TypeOK
<1>7. ~Pending(row) /\ (row.qty > 0 <=> Holds(row))
  BY <1>1, <1>2, <1>4, <1>5, EndsPending, RestoreAccepted, ApplyAccepted
     DEF Pending, Correcting
<1>8. HeldQty(row) = HeldQty(stage[k]) + Told(cur)
  <2>1. /\ HeldQty(Restored(stage[k])) = HeldQty(stage[k])
        /\ HeldQty(Applied(stage[k], seen)) = HeldQty(stage[k]) + Told(cur)
    BY <1>2, <1>3, <1>4, EndedRow DEF Told
  <2>2. CASE pc = "rundo"
    <3>1. log[cur].fill = 0
      BY <1>2, <1>4, <2>2
    <3>2. Told(cur) = 0 /\ HeldQty(stage[k]) \in Nat
      BY <1>4, <3>1 DEF Told, HeldQty, StageRow, Qty
    <3> QED
      BY <2>1, <2>2, <3>2
  <2>3. CASE pc # "rundo"
    BY <2>1, <2>3
  <2> QED
    BY <2>2, <2>3
<1> QED
  BY <1>1, <1>2, <1>3, <1>5, <1>6, <1>7, <1>8

\* With it the order is settled, and all that is said of the others stays true.
LEMMA AwayEnd ==
  ASSUME AwayInv, RecoverRestore \/ RecoverApply, UNCHANGED listed, TypeOK' PROVE AwayInv'
<1>0. PICK k : k = log[cur].stage
  OBVIOUS
<1>1. /\ pc \in Correcting /\ pc' = "recover" /\ todo' = todo \ {cur}
      /\ UNCHANGED <<log, cycle, book, today, plan>>
  BY AwayBooks
<1>2. /\ cur \in Refs /\ log[cur].st \in Terminal
      /\ Owed(cur) /\ k \in Stages /\ k = log[cur].stage
  BY <1>0, AwayBooks
<1>3. /\ \A s \in Stages : s # k => stage'[s] = stage[s]
      /\ Pending(stage[k]) /\ ~Pending(stage'[k])
      /\ stage'[k].qty > 0 <=> Holds(stage'[k])
      /\ HeldQty(stage'[k]) = HeldQty(stage[k]) + Told(cur)
  BY <1>0, AwayBooks
<1>4. ASSUME NEW q \in Refs
      PROVE  /\ Waits(q) => log[q].stage # k /\ log[q].stage \in Stages
             /\ Waits(q)' <=> Waits(q)
             /\ Owed(q)' <=> Owed(q) /\ q # cur
  <2>1. ~Waits(cur)
    BY <1>2 DEF Waits, Live, Terminal
  <2>2. Waits(q) => log[q].stage # k /\ log[q].stage \in Stages
    BY <1>2, <2>1 DEF AwayInv, WaitsAgree, Owed, Waits, RowsTell, Live
  <2>3. Waits(q)' => Waits(q)
    BY <1>1, <1>3 DEF Waits, AwayInv, RowsTell, Live
  <2>4. Waits(q) => Waits(q)'
    BY <1>1, <1>3, <2>2 DEF Waits
  <2> QED
    BY <1>1, <2>1, <2>2, <2>3, <2>4 DEF Owed, Correcting
<1>5. RowsTell' /\ TodayInv'
  BY <1>1 DEF AwayInv, RowsTell, TodayInv, AtExchange
<1>6. WaitsAgree'
  <2>1. \A q \in Refs : Owed(q)' => Waits(q) /\ Owed(q)
    BY <1>1, <1>4 DEF Owed, Correcting
  <2> QED
    BY <1>1, <1>3, <1>4, <2>1 DEF AwayInv, WaitsAgree
<1>7. RecoverInv'
  <2>1. \A q \in Refs : Waits(q)' => q \in todo'
    BY <1>1, <1>2, <1>4 DEF AwayInv, RecoverInv, Correcting, Waits, Live, Terminal
  <2> QED
    BY <1>1, <2>1 DEF AwayInv, RecoverInv, Correcting, AtExchange
<1>8. HoldingsAway'
  <2>1. ASSUME NEW s \in Stages, s # k
        PROVE  RecordedAway(s)' = RecordedAway(s) /\ (ForgottenAway(s)' <=> ForgottenAway(s))
    BY <1>1, <1>2, <1>3, <1>4, <2>1 DEF RecordedAway, ForgottenAway, Told
  <2> DEFINE A == RecordedAway(k)
             B == RecordedAway(k)'
  <2>2. \A q \in Refs : A[q] \in Int /\ B[q] \in Int /\ (q # cur => B[q] = A[q])
    <3>1. \A q \in Refs : Told(q) \in Int /\ Told(q)' = Told(q)
      BY <1>1 DEF AwayInv, TypeOK, LogRow, Qty, Told
    <3> QED
      BY <1>1, <1>4, <3>1 DEF RecordedAway
  <2>3. A[cur] = 0 /\ B[cur] = Told(cur) /\ Told(cur) \in Int
    <3>1. Told(cur) \in Int /\ \A r \in Refs : Told(r)' = Told(r)
      BY <1>1, <1>2, SharesAreInts DEF AwayInv, Told
    <3> QED
      BY <1>1, <1>2, <1>4, <3>1 DEF RecordedAway
  <2>4. HeldQty(stage[k]) = SumFunctionOnSet(A, Refs)
    BY <1>2 DEF AwayInv, HoldingsAway, ForgottenAway
  <2> HIDE DEF A, B
  <2>5. SumFunctionOnSet(B, Refs) = SumFunctionOnSet(A, Refs) + B[cur] - A[cur]
    BY <1>2, <2>2, RefsFinite, SumChange
  <2>6. SumFunctionOnSet(A, Refs) \in Int
    BY <2>2, RefsFinite, SumInt
  <2>7. HeldQty(stage'[k]) = SumFunctionOnSet(B, Refs)
    BY <1>3, <2>3, <2>4, <2>5, <2>6
  <2> QED
    BY <1>1, <1>3, <2>1, <2>7 DEF B, AwayInv, HoldingsAway
<1>9. ShapeInv'
  BY <1>3 DEF AwayInv, ShapeInv
<1>10. cycle' # "CLOSED"
  BY <1>1, <1>2, <1>3 DEF AwayInv
<1> QED
  BY <1>1, <1>5, <1>6, <1>7, <1>8, <1>9, <1>10 DEF AwayInv

\* What the exchange holds for a stage: what its row says, and on top of it what the
\* order has moved that recovery has not booked yet.
LEMMA AwayPosition ==
  ASSUME AwayInv, NEW s \in Stages
  PROVE  /\ ~Pending(stage[s]) =>
              /\ Net(s, Refs) = HeldQty(stage[s])
              /\ \A r \in Refs : log[r].stage = s => ~Owed(r)
         /\ \A r \in Refs : Owed(r) /\ log[r].stage = s =>
              Net(s, Refs) = HeldQty(stage[s]) + Moved(r)
<1> DEFINE A == RecordedAway(s)
           N == Shares(s)
<1>1. /\ \A r \in Refs : /\ log[r].st \in Live \cup Terminal \cup {"NONE"}
                        /\ log[r].fill \in Nat /\ book[r].filled \in Nat
      /\ \A r \in Refs : Told(r) \in Int /\ Moved(r) \in Int
  BY DEF AwayInv, TypeOK, LogRow, BookRow, Qty, Told, Moved
<1>2. ASSUME NEW r \in Refs, ~Owed(r) PROVE log[r].fill = book[r].filled
  <2>1. log[r].st \in Live => book[r].st = "NONE"
    BY <1>2 DEF AwayInv, WaitsAgree, Owed
  <2> QED
    BY <1>1, <2>1 DEF AwayInv, RowsTell
<1>3. /\ \A r \in Refs : ~Owed(r) => N[r] = A[r]
      /\ \A r \in Refs : Owed(r) => /\ A[r] = 0
                                    /\ N[r] = IF log[r].stage = s THEN Moved(r) ELSE 0
  BY <1>2 DEF RecordedAway, Shares, Told, Moved
<1>4. \A r \in Refs : A[r] \in Int /\ N[r] \in Int
  BY <1>1 DEF RecordedAway, Shares
<1>5. Net(s, Refs) = SumFunctionOnSet(N, Refs)
  BY DEF Net, Shares
<1>6. \A r \in Refs : Owed(r) /\ log[r].stage = s => Pending(stage[s])
  BY DEF AwayInv, WaitsAgree, Pending, PendingAs
<1>7. ForgottenAway(s) \/ HeldQty(stage[s]) = SumFunctionOnSet(A, Refs)
  BY DEF AwayInv, HoldingsAway
<1> HIDE DEF A, N
<1>8. CASE ~Pending(stage[s])
  <2>1. \A r \in Refs : log[r].stage = s => ~Owed(r)
    BY <1>6, <1>8
  <2>2. \A r \in Refs : N[r] = A[r]
    BY <1>3, <2>1
  <2>3. SumFunctionOnSet(N, Refs) = SumFunctionOnSet(A, Refs)
    BY <1>4, <2>2, RefsFinite, SumSame
  <2> QED
    BY <1>5, <1>6, <1>7, <1>8, <2>1, <2>3 DEF ForgottenAway
<1>9. ASSUME NEW r \in Refs, Owed(r), log[r].stage = s
      PROVE  Net(s, Refs) = HeldQty(stage[s]) + Moved(r)
  <2>1. \A q \in Refs : q # r /\ Owed(q) => log[q].stage # s
    BY <1>9 DEF AwayInv, WaitsAgree
  <2>2. \A q \in Refs : q # r => N[q] = A[q]
    BY <1>3, <2>1
  <2>3. SumFunctionOnSet(N, Refs) = SumFunctionOnSet(A, Refs) + N[r] - A[r]
    BY <1>4, <2>2, RefsFinite, SumChange
  <2>4. SumFunctionOnSet(A, Refs) \in Int
    BY <1>4, RefsFinite, SumInt
  <2>5. N[r] = Moved(r) /\ A[r] = 0 /\ Moved(r) \in Int
    BY <1>1, <1>3, <1>9
  <2>6. HeldQty(stage[s]) = SumFunctionOnSet(A, Refs)
    BY <1>7, <1>9 DEF ForgottenAway
  <2> QED
    BY <1>5, <2>3, <2>4, <2>5, <2>6
<1> QED
  BY <1>8, <1>9

\* Nothing the exchange still works on is left unsettled.
LEMMA AwaySound == AwayInv => Sound
<1> SUFFICES ASSUME AwayInv PROVE Sound
  OBVIOUS
<1>1. ASSUME NEW r \in Refs, AtExchange(r)
      PROVE  Owed(r) /\ log[r].st \in Live /\ log[r].stage \in Stages
  BY <1>1 DEF AwayInv, RowsTell, WaitsAgree, AtExchange, Working, Owed, Live
<1>2. OneOrderPerStage
  BY <1>1 DEF OneOrderPerStage, AwayInv, WaitsAgree
<1>3. SettledIsFinal
  BY DEF SettledIsFinal, AwayInv, RowsTell, Live, Terminal
<1>4. ASSUME NEW r \in Refs, log[r].side = "SELL", AtExchange(r)
      PROVE  log[r].req - book[r].filled <= Net(log[r].stage, Refs)
  <2> DEFINE s == log[r].stage
  <2>1. Owed(r) /\ s \in Stages
    BY <1>1, <1>4
  <2>2. stage[s].status = "SELL_PENDING" /\ log[r].req = stage[s].qty
    BY <1>4, <2>1 DEF AwayInv, WaitsAgree, PendingAs
  <2>3. Net(s, Refs) = HeldQty(stage[s]) + Moved(r)
    BY <2>1, AwayPosition
  <2>4. HeldQty(stage[s]) = log[r].req /\ Moved(r) = 0 - book[r].filled
    BY <1>4, <2>2 DEF HeldQty, Holds, Moved
  <2>5. log[r].req \in Nat /\ book[r].filled \in Nat
    BY DEF AwayInv, TypeOK, LogRow, BookRow, Qty
  <2> QED
    BY <2>3, <2>4, <2>5
<1>5. ASSUME cycle = "CLOSED", NEW s \in Stages
      PROVE  Net(s, Refs) = 0 /\ \A r \in Refs : log[r].stage = s => ~AtExchange(r)
  <2>1. ~Pending(stage[s]) /\ HeldQty(stage[s]) = 0
    BY <1>5 DEF AwayInv
  <2> QED
    BY <1>1, <2>1, AwayPosition
<1> QED
  BY <1>2, <1>3, <1>4, <1>5 DEF Sound, SellsAreCovered, ClosedIsFlat

\* When recovery is through, nothing is left to settle: the engine starts on rows that
\* tell the truth, and stages that match them.
LEMMA AwayOver ==
  ASSUME AwayInv, Recovered, pc' = "tick", TypeOK' PROVE RunInv'
<1>1. /\ pc = "recover" /\ todo = {}
      /\ UNCHANGED <<stage, log, cycle, book, today, plan, todo, cur, seen>>
  BY DEF Recovered, RecoverDone, Goto, Die, db, market
<1>2. ASSUME NEW r \in Refs
      PROVE  /\ ~Waits(r) /\ ~Owed(r) /\ ~Open(r)' /\ ~AtExchange(r)
             /\ log[r].st \in Live => log[r].st = "SENDING" /\ book[r].st = "NONE"
  <2>1. ~Waits(r) /\ ~AtExchange(r) /\ ~Owed(r)
    BY <1>1 DEF AwayInv, RecoverInv, Owed, Correcting
  <2>2. log[r].st \in Live => log[r].st = "SENDING" /\ book[r].st = "NONE"
    BY <2>1 DEF AwayInv, WaitsAgree
  <2>3. ~Open(r)'
    BY <1>1, <2>2 DEF Open, Sent, Live, InHand, Sending
  <2> QED
    BY <2>1, <2>2, <2>3
<1> USE DEF AwayInv
<1>3. TypeInv' /\ OrderInv'
  BY <1>1, <1>2 DEF TypeInv, OrderInv, RowInv, PcInv, PlanInv, TodoInv, UniqueInv,
     WaitInv, PCs, Sending, Polling, RowsTell
<1>4. BookInv' /\ FillsInv' /\ AskInv' /\ FlatInv'
  BY <1>1, <1>2 DEF BookInv, FillsInv, AskInv, FlatInv, AtExchange, Working, Sending,
     RowsTell, Live
<1>5. AmountInv' /\ TruthInv'
  <2>1. \A r \in Refs : /\ log[r].fill \in Nat /\ book[r].filled \in Nat
                        /\ log[r].req \in Nat
    BY DEF TypeOK, LogRow, BookRow, Qty
  <2> QED
    BY <1>1, <2>1 DEF AmountInv, TruthInv, RowsTell
<1>6. HoldingsInv'
  <2> SUFFICES ASSUME NEW s \in Stages
               PROVE  Forgotten(s)' \/ HeldQty(stage[s]) = SumFunctionOnSet(Recorded(s)', Refs)
    BY <1>1 DEF HoldingsInv
  <2>1. ForgottenAway(s) => Forgotten(s)'
    BY <1>1, <1>2 DEF ForgottenAway, Forgotten
  <2>2. Recorded(s)' = RecordedAway(s)
    BY <1>1, <1>2 DEF Recorded, RecordedAway, Told
  <2> QED
    BY <2>1, <2>2 DEF HoldingsAway
<1>7. OrphanInv'
  BY <1>1, <1>2 DEF OrphanInv, Orphan, Waits, Live
<1>8. ShapeInv' /\ TodayInv'
  BY <1>1 DEF ShapeInv, TodayInv
<1> QED
  BY <1>3, <1>4, <1>5, <1>6, <1>7, <1>8 DEF RunInv

---------------------------------------------------------------------------
(* One crash *)

LEMMA RunSound == RunInv => Sound
<1> SUFFICES ASSUME RunInv PROVE Sound
  OBVIOUS
<1>1. TypeInv /\ MatchInv
  BY RunMatches
<1>2. OneOrderPerStage /\ SettledIsFinal
  BY <1>1, LiveIsOpen
     DEF MatchInv, OrderInv, UniqueInv, BookInv, TruthInv, OneOrderPerStage,
         SettledIsFinal, Live, Terminal
<1> QED
  BY <1>1, <1>2, MatchCovered, MatchFlat DEF Sound

\* It speaks of the rows, the exchange and the cycle only.
LEMMA SoundFrame ==
  ASSUME Sound, log' = log, book' = book, cycle' = cycle PROVE Sound'
<1>1. OneOrderPerStage' /\ SettledIsFinal'
  BY DEF Sound, OneOrderPerStage, SettledIsFinal, AtExchange
<1>2. SellsAreCovered'
  <2> SUFFICES ASSUME NEW r \in Refs, log'[r].side = "SELL", AtExchange(r)'
               PROVE  log'[r].req - book'[r].filled <= Net(log[r].stage, Refs)'
    BY DEF SellsAreCovered
  <2>1. Net(log[r].stage, Refs)' = Net(log[r].stage, Refs)
    BY DEF Net, Moved
  <2>2. log[r].req - book[r].filled <= Net(log[r].stage, Refs)
    BY DEF Sound, SellsAreCovered, AtExchange
  <2> QED
    BY <2>1, <2>2
<1>3. ClosedIsFlat'
  <2>1. \A s \in Stages : Net(s, Refs)' = Net(s, Refs)
    BY DEF Net, Moved
  <2> QED
    BY <2>1 DEF Sound, ClosedIsFlat, AtExchange
<1> QED
  BY <1>1, <1>2, <1>3 DEF Sound

\* How the steps of recovery move the engine.
LEMMA RecoverFrame ==
  ASSUME RecoverStep
  PROVE  pc \in Away /\ pc' \in Away
BY DEF RecoverStep, RecoverSkip, RecoverUnfilled, RecoverFilled, RecoverWith, RecoverAt,
       RecoverRestore, RecoverApply, RecoverNext, Away

LEMMA CrashNext ==
  ASSUME CleanCrash, RTypeInv, RTypeInv', CrashInv, [RNext]_rvars PROVE CrashInv'
<1>1. /\ listed' \in [Refs -> BookRow] /\ TypeOK'
      /\ crashes \in Nat /\ MaxCrashes \in Nat /\ MaxCrashes <= 1
  BY RecoveryAssumption DEF RTypeInv, RTypeOK, CleanCrash
<1>2. RunInv => pc \notin Away
  BY DEF RunInv, TypeInv, Away
<1>3. ASSUME [Next]_vars, UNCHANGED <<crashes, listed>> PROVE CrashInv'
  <2>1. CASE RunInv
    <3>1. RunInv' /\ (WholeInv => WholeInv')
      BY <1>3, <2>1, RunNext, WholeNext DEF RunInv
    <3>2. (crashes = 0 /\ WholeInv) \/ crashes = 1
      BY <2>1 DEF CrashInv
    <3> QED
      BY <1>1, <1>3, <3>1, <3>2 DEF CrashInv
  <2>2. CASE crashes = 1 /\ pc \in Away /\ AwayInv
    <3>1. CASE UNCHANGED vars
      <4>1. UNCHANGED <<db, market, plan, todo, cur, seen, pc>>
        BY <3>1 DEF vars, local
      <4>2. RecoverInv'
        BY <1>3, <2>2, <4>1 DEF AwayInv, RecoverInv, Waits, AtExchange, db, market
      <4>3. AwayInv'
        BY <1>1, <2>2, <4>1, <4>2, KeepAway
      <4> QED
        BY <1>1, <1>3, <2>2, <4>1, <4>3 DEF CrashInv
    <3>2. CASE Next
      <4>1. Exchange
        BY <2>2, <3>2, OnlyTheExchange DEF Away, Running
      <4>2. AwayInv' /\ pc' = pc
        BY <1>1, <2>2, <4>1, AwayExchange, ExchangeFrame DEF AwayInv, TypeOK, local
      <4> QED
        BY <1>1, <1>3, <2>2, <4>2 DEF CrashInv
    <3> QED
      BY <1>3, <3>1, <3>2
  <2>3. CASE crashes = 1 /\ pc = "dead" /\ todo = {} /\ Sound
    <3>1. ~Next
      <4>1. ~Exchange
        BY <2>3 DEF CleanCrash, Exchange, Deliver, Fill, RejectLater, MarketClose,
                    NextDay, ExchangeMoves
      <4> QED
        BY <2>3, <4>1, OnlyTheExchange
    <3>2. UNCHANGED <<db, market, pc, todo>>
      BY <1>3, <3>1 DEF vars, local
    <3>3. Sound'
      BY <2>3, <3>2, SoundFrame DEF db, market
    <3> QED
      BY <1>1, <1>3, <2>3, <3>2, <3>3 DEF CrashInv
  <2> QED
    BY <2>1, <2>2, <2>3 DEF CrashInv
<1>4. CASE UNCHANGED rvars
  BY <1>3, <1>4 DEF rvars
<1>5. CASE Crash
  <2>1. crashes = 0 /\ RunInv /\ WholeInv
    BY <1>1, <1>5 DEF CrashInv, Crash
  <2>2. AwayInv'
    BY <1>1, <1>5, <2>1, CrashAway
  <2> QED
    BY <1>1, <1>5, <2>1, <2>2 DEF CrashInv, Crash, Away
<1>6. ASSUME Restart \/ RestartLost \/ RecoverStep \/ Recovered
      PROVE  crashes = 1 /\ pc \in Away /\ AwayInv
  <2>1. pc \in Away
    BY <1>6, RecoverFrame DEF Restart, RestartLost, Recovered, RecoverDone, Away
  <2> QED
    BY <1>2, <2>1 DEF CrashInv, Away
<1>7. CASE Restart
  <2>1. AwayInv'
    BY <1>1, <1>6, <1>7, AwayRestart
  <2> QED
    BY <1>1, <1>6, <1>7, <2>1 DEF CrashInv, Restart, Away
<1>8. CASE RecoverStep /\ UNCHANGED <<crashes, listed>>
  <2>1. AwayInv'
    BY <1>1, <1>6, <1>8, AwaySkip, AwaySettle, AwayEnd DEF RecoverStep
  <2> QED
    BY <1>1, <1>6, <1>8, <2>1, RecoverFrame DEF CrashInv
<1>9. CASE Recovered /\ pc' = "tick"
  <2>1. RunInv'
    BY <1>1, <1>6, <1>9, AwayOver
  <2> QED
    BY <1>1, <1>6, <1>9, <2>1 DEF CrashInv, Recovered
\* The inquiry fails: the engine thread ends, and with it all that this program does.
<1>10. CASE RestartLost \/ (Recovered /\ pc' # "tick")
  <2>1. /\ pc' = "dead" /\ todo' = {} /\ UNCHANGED <<db, market, crashes>>
    BY <1>10 DEF RestartLost, Recovered, RecoverDone, Goto, Die
  <2>2. Sound'
    BY <1>6, <1>10, <2>1, AwaySound, SoundFrame DEF db, market
  <2> QED
    BY <1>1, <1>6, <1>10, <2>1, <2>2 DEF CrashInv
<1> QED
  BY <1>3, <1>4, <1>5, <1>7, <1>8, <1>9, <1>10 DEF RNext

\* A crash at any step, of the engine or of recovery, and a restart after the close leave
\* an invariant that says what the rows, the stages and the exchange's record have to do
\* with each other.
THEOREM CrashInvariant == ASSUME CleanCrash PROVE RSpec => []CrashInv
<1>1. RInit => CrashInv
  <2>1. RInit => RTypeInv /\ crashes = 0
    BY RTypeInit DEF RInit
  <2> QED
    BY <2>1, RunInit DEF CrashInv, RTypeInv, RTypeOK
<1>2. RTypeInv /\ RTypeInv' /\ CrashInv /\ [RNext]_rvars => CrashInv'
  BY CrashNext
<1> QED
  BY <1>1, <1>2, RTypeInvariant, PTL DEF RSpec

LEMMA CrashSound == CrashInv => Sound
BY RunSound, AwaySound DEF CrashInv

\* What one crash can do to the position is confined to a stage it got stuck: between
\* two ticks every other stage holds exactly what the exchange filled for it.
THEOREM CrashOnlySticks == ASSUME CleanCrash PROVE RSpec => []OnlyStuckStagesDiffer
<1>1. CrashInv => OnlyStuckStagesDiffer
  <2> SUFFICES ASSUME CrashInv, pc = "tick", NEW s \in Stages
               PROVE  Stuck(s) \/ HeldQty(stage[s]) = Net(s, Refs \ PendingRows)
    BY DEF OnlyStuckStagesDiffer
  <2>1. RunInv
    BY DEF CrashInv, Away
  <2>2. ASSUME Forgotten(s), NEW r \in PendingRows PROVE log[r].stage # s
    <3>1. r \in Refs /\ log[r].st \in Live
      BY DEF PendingRows
    <3>2. CASE Open(r)
      BY <2>2, <3>1, <3>2 DEF Forgotten
    <3>3. CASE ~Open(r)
      <4>1. Orphan(r)
        BY <3>1, <3>3 DEF Orphan, Open, Sent
      <4> QED
        BY <2>1, <2>2, <3>1, <4>1 DEF RunInv, OrphanInv, Forgotten
    <3> QED
      BY <3>2, <3>3
  <2>3. Forgotten(s) => Stuck(s)
    BY <2>2 DEF Forgotten, Stuck
  <2>4. ~Forgotten(s) => HeldQty(stage[s]) = Net(s, Refs \ PendingRows)
    BY <2>1, RunMatches, TickMatches
  <2> QED
    BY <2>3, <2>4
<1> QED
  BY <1>1, CrashInvariant, PTL

\* A restart after the close never orders a stage twice.
THEOREM CrashNoDoubleOrder == ASSUME CleanCrash PROVE RSpec => []OneOrderPerStage
<1>1. CrashInv => OneOrderPerStage
  BY CrashSound DEF Sound
<1> QED
  BY <1>1, CrashInvariant, PTL

\* A row that is settled, by the engine or by recovery, tells what the exchange did.
THEOREM CrashSettlesTruly == ASSUME CleanCrash PROVE RSpec => []SettledIsFinal
<1>1. CrashInv => SettledIsFinal
  BY CrashSound DEF Sound
<1> QED
  BY <1>1, CrashInvariant, PTL

\* No crash makes an order sell short, nor closes a cycle that still has something.
THEOREM CrashStaysCovered ==
  ASSUME CleanCrash PROVE RSpec => [](SellsAreCovered /\ ClosedIsFlat)
<1>1. CrashInv => SellsAreCovered /\ ClosedIsFlat
  BY CrashSound DEF Sound
<1> QED
  BY <1>1, CrashInvariant, PTL

\* The rows recovery leaves pending are no trap for poll_fill: it is only asked about
\* stages that wait for that very order.
THEOREM CrashPollSafety == ASSUME CleanCrash PROVE RSpec => []PollFindsItsStage
<1>1. CrashInv => PollFindsItsStage
  <2>1. RunInv => PollFindsItsStage
    BY PollFinds DEF RunInv
  <2> QED
    BY <2>1 DEF CrashInv, Away, PollFindsItsStage
<1> QED
  BY <1>1, CrashInvariant, PTL

---------------------------------------------------------------------------
(* The ledger, with a crash *)

\* Steps that move no fill and leave the stages alone.
LEMMA LedgerStays ==
  ASSUME TypeOK, stage' = stage,
         \A r \in Refs : /\ book'[r].filled = book[r].filled
                         /\ \/ log'[r].stage = log[r].stage /\ log'[r].side = log[r].side
                            \/ book[r].filled = 0
  PROVE  [Ledger!LNext]_(Ledger!lvars)
<1>1. ASSUME NEW s \in Stages, NEW r \in Refs PROVE Shares(s)'[r] = Shares(s)[r]
  BY DEF Shares, Moved
<1>2. \A s \in Stages : Net(s, Refs)' = Net(s, Refs)
  BY <1>1, NetSame
<1> QED
  BY <1>2, LedgerSteps

\* While the program is down the exchange moves only the order a stage waits for,
LEMMA LedgerDown ==
  ASSUME AwayInv, pc \in Away, Exchange, TypeOK' PROVE [Ledger!LNext]_(Ledger!lvars)
<1> USE DEF AwayInv
<1>1. UNCHANGED <<stage, log>>
  BY ExchangeFrame DEF TypeOK, db
<1>2. ASSUME NEW r \in Refs, NEW f \in Qty, Fill(r, f) PROVE [Ledger!LNext]_(Ledger!lvars)
  <2>1. /\ AtExchange(r) /\ f <= log[r].req /\ book[r].filled < f /\ book'[r].filled = f
        /\ \A q \in Refs : q # r => book'[q].filled = book[q].filled
    BY <1>2 DEF Fill, AtExchange, TypeOK
  <2>2. Owed(r) /\ log[r].stage \in Stages
    BY <2>1 DEF RowsTell, WaitsAgree, AtExchange, Working, Owed, Live
  <2> DEFINE s == log[r].stage
  <2>3. /\ stage[s].status = PendingAs(log[r].side)
        /\ log[r].req = IF log[r].side = "BUY" THEN Lot ELSE stage[s].qty
        /\ Net(s, Refs) = HeldQty(stage[s]) + Moved(r)
    BY <2>2, AwayPosition DEF WaitsAgree
  <2>4. \E t \in Stages, q \in Qty : MoveStep(t, q)
    BY <1>1, <2>1, <2>2, <2>3, FillMoves
  <2> QED
    BY <2>4, LedgerSteps
<1>3. CASE \A r \in Refs : book'[r].filled = book[r].filled
  BY <1>1, <1>3, LedgerStays
<1>4. ASSUME NEW r \in Refs, RejectLater(r) PROVE \A q \in Refs : book'[q].filled = book[q].filled
  BY <1>4 DEF RejectLater, TypeOK, BookRow
<1>5. MarketClose \/ NextDay => \A q \in Refs : book'[q].filled = book[q].filled
  BY DEF MarketClose, NextDay, TypeOK, BookRow
<1>6. \A r \in Refs : ~Deliver(r)
  BY DEF Deliver, RowsTell
<1> QED
  BY <1>2, <1>3, <1>4, <1>5, <1>6 DEF Exchange

\* and recovery ends an order with all the exchange has made of it.
LEMMA LedgerEnds ==
  ASSUME AwayInv, RecoverRestore \/ RecoverApply, TypeOK'
  PROVE  [Ledger!LNext]_(Ledger!lvars)
<1>0. PICK k : k = log[cur].stage
  OBVIOUS
<1>1. /\ UNCHANGED <<log, book>>
      /\ cur \in Refs /\ log[cur].st \in Terminal /\ Owed(cur) /\ k \in Stages
      /\ \A s \in Stages : s # k => stage'[s] = stage[s]
      /\ Pending(stage[k]) /\ ~Pending(stage'[k])
      /\ HeldQty(stage'[k]) = HeldQty(stage[k]) + Told(cur)
  BY <1>0, AwayBooks
<1>2. \A t \in Stages : Net(t, Refs)' = Net(t, Refs)
  BY <1>1 DEF Net, Moved
<1>3. Told(cur) = Moved(cur)
  BY <1>1 DEF AwayInv, RowsTell, Told, Moved
<1>4. Net(k, Refs) = HeldQty(stage[k]) + Moved(cur)
  BY <1>0, <1>1, AwayPosition
<1>5. Flight(stage[k]) # "none" /\ Flight(stage'[k]) = "none"
  BY <1>1, Flights DEF Pending
<1>6. EndStep(k)
  BY <1>1, <1>2, <1>3, <1>4, <1>5 DEF EndStep
<1> QED
  BY <1>1, <1>6, LedgerSteps

LEMMA LedgerCrash ==
  ASSUME CleanCrash, RTypeInv, RTypeInv', CrashInv, [RNext]_rvars
  PROVE  [Ledger!LNext]_(Ledger!lvars)
<1>1. TypeOK /\ TypeOK'
  BY DEF RTypeInv, RTypeOK
<1>2. CASE UNCHANGED <<stage, log, book>>
  BY <1>1, <1>2, LedgerStays
<1>3. CASE \/ UNCHANGED rvars \/ Crash \/ Restart \/ RestartLost \/ Recovered
           \/ \E r \in Refs : RecoverSkip(r)
  BY <1>2, <1>3 DEF rvars, vars, db, market, Crash, Restart, RestartLost, Recovered,
                    RecoverDone, RecoverSkip
<1>4. RunInv \/ (pc \in Away /\ AwayInv) \/ pc = "dead"
  BY DEF CrashInv
<1>5. CASE Next /\ UNCHANGED <<crashes, listed>>
  <2>1. CASE RunInv
    <3>1. TypeInv /\ MatchInv /\ TypeInv'
      BY <1>5, <2>1, RunMatches, RunNext DEF RunInv
    <3> QED
      BY <1>5, <3>1, LedgerNext
  <2>2. CASE pc \in Away /\ AwayInv
    BY <1>1, <1>5, <2>2, OnlyTheExchange, LedgerDown DEF Away, Running
  <2>3. CASE pc = "dead"
    <3>1. Exchange
      BY <1>5, <2>3, OnlyTheExchange
    <3> QED
      BY <2>3, <3>1 DEF CleanCrash, Exchange, Deliver, Fill, RejectLater, MarketClose,
                        NextDay, ExchangeMoves
  <2> QED
    BY <1>4, <2>1, <2>2, <2>3
<1>6. ASSUME RecoverStep PROVE AwayInv /\ pc \in Away
  <2>1. pc \in Away
    BY <1>6, RecoverFrame
  <2> QED
    BY <2>1 DEF CrashInv, RunInv, TypeInv, Away
<1>7. ASSUME NEW r \in Refs, RecoverUnfilled(r) \/ RecoverFilled(r)
      PROVE  [Ledger!LNext]_(Ledger!lvars)
  <2>1. PICK st, known, next : RecoverWith(r, st, known, next)
    BY <1>7 DEF RecoverUnfilled, RecoverFilled
  <2> DEFINE row == [LogUpdate(log[r], st, listed[r].filled) EXCEPT !.known = @ \/ known]
  <2>2. row.stage = log[r].stage /\ row.side = log[r].side
    BY <1>1 DEF LogUpdate, LogRow, TypeOK
  <2>3. log' = [log EXCEPT ![r] = row] /\ stage' = stage /\ book' = book
    BY <2>1 DEF RecoverWith, market
  <2> HIDE DEF row
  <2>4. \A q \in Refs : log'[q].stage = log[q].stage /\ log'[q].side = log[q].side
    BY <1>1, <2>2, <2>3 DEF TypeOK
  <2> QED
    BY <1>1, <2>3, <2>4, LedgerStays
<1>8. CASE RecoverStep
  BY <1>1, <1>3, <1>6, <1>7, <1>8, LedgerEnds DEF RecoverStep
<1> QED
  BY <1>3, <1>5, <1>8 DEF RNext

\* Even a program that dies at any step and restarts after the close implements the
\* ledger: the order a crash interrupted is ended by recovery, once, with all the
\* exchange has made of it, and a stage that stays stuck is never booked twice.
THEOREM CrashImplementsLedger == ASSUME CleanCrash PROVE RSpec => LedgerSpec
<1>1. RInit => Ledger!LInit
  BY LedgerInit DEF RInit
<1>2. ASSUME RTypeInv, RTypeInv', CrashInv, [RNext]_rvars
      PROVE  [Ledger!LNext]_(Ledger!lvars)
  BY <1>2, LedgerCrash
<1> QED
  BY <1>1, <1>2, RTypeInvariant, CrashInvariant, PTL DEF RSpec, LedgerSpec, Ledger!LSpec
=============================================================================
