------------------------------- MODULE Engine -------------------------------
(***************************************************************************)
(* The order path of one running cycle: Orchestrator._cycle_once with its  *)
(* on_tick and poll_pending, the Executor they call (send, poll_fill), the *)
(* rows they commit and the exchange behind BrokerPort.                    *)
(*                                                                         *)
(* The engine is one coroutine.  A step of it ends at every commit and at  *)
(* every await, because these are the points where the exchange may act in *)
(* between and where the process may die.  pc names the place it stands.   *)
(***************************************************************************)
EXTENDS StageLife, FiniteSets, FiniteSetsExt

CONSTANTS
  MaxOrders,    \* bound: orders the model sends in one behaviour
  Losses,       \* the broker calls whose response may be lost (BrokerTimeout)
  LateDelivery, \* may a timed-out order reach the exchange after the inquiry?
  RacingFills,  \* may the exchange act between two awaits of the engine?
  Expiry,       \* the ends of day that occur: "close" cancels live orders,
                \* "midnight" empties today's order list
  RefusalDies   \* a cancel of a finished order raises ValueError (FakeBroker)
                \* instead of a BrokerError

Calls == {"place", "list", "query", "cancel"}

ASSUME EngineAssumption ==
  /\ MaxOrders \in Nat
  /\ Losses \subseteq Calls
  /\ Expiry \subseteq {"close", "midnight"}
  /\ {LateDelivery, RacingFills, RefusalDies} \subseteq BOOLEAN

Refs == 1..MaxOrders   \* order_log ids, in insertion order; 0 is no order

VARIABLES
  stage,   \* stage_state rows of the cycle
  log,     \* order_log rows
  cycle,   \* cycle.status
  pnl,     \* is cycle.realized_pnl set?
  config,  \* split_config.status
  book,    \* the exchange's own record of each order
  today,   \* orders list_orders_today still reports
  pc,      \* where the engine stands
  plan,    \* stages on_tick decided to trade and has not handled yet
  todo,    \* rows poll_pending loaded and has not handled yet
  cur,     \* the order being worked on
  seen     \* filled_qty of the status poll_fill read for it

db == <<stage, log, cycle, pnl, config>>
market == <<book, today>>
local == <<pc, plan, todo, cur, seen>>
vars == <<db, market, local>>

BookStatus == {"NONE", "TRANSIT", "OPEN", "PARTIAL", "FILLED", "CANCELED",
               "REJECTED"}
BookRow == [st: BookStatus, filled: Qty]

Working == {"OPEN", "PARTIAL"}                     \* FillState of a live order
Finished == {"FILLED", "CANCELED", "REJECTED"}

PCs == {"tick", "decide", "recorded", "placing", "acked", "rejected",
        "timeout", "listing", "unsend", "poll", "cancel", "canceled",
        "apply", "undo", "closing", "pnl", "release", "dead", "down",
        "recover", "rundo", "rapply"}

\* The states in which one order of a stage is being handled.
Sending == {"recorded", "placing", "acked", "rejected", "timeout", "listing",
            "unsend"}
Polling == {"cancel", "canceled", "apply", "undo", "closing", "pnl", "release"}

TypeOK ==
  /\ stage \in [Stages -> StageRow]
  /\ log \in [Refs -> LogRow]
  /\ cycle \in {"RUNNING", "PAUSED", "LIQUIDATING", "CLOSED"}
  /\ pnl \in BOOLEAN
  /\ config \in {"ACTIVE", "IDLE"}
  /\ book \in [Refs -> BookRow]
  /\ today \subseteq Refs
  /\ pc \in PCs
  /\ plan \subseteq Stages
  /\ todo \subseteq Refs
  /\ cur \in Refs \cup {0}
  /\ seen \in Qty

\* A cycle whose anchor has just been confirmed.
Init ==
  /\ stage = [s \in Stages |-> FreshStage]
  /\ log = [r \in Refs |-> NoRow]
  /\ cycle = "RUNNING"
  /\ pnl = FALSE
  /\ config = "ACTIVE"
  /\ book = [r \in Refs |-> [st |-> "NONE", filled |-> 0]]
  /\ today = {}
  /\ pc = "tick"
  /\ plan = {}
  /\ todo = {}
  /\ cur = 0
  /\ seen = 0

Goto(l) == pc' = l /\ UNCHANGED <<plan, todo, cur, seen>>

---------------------------------------------------------------------------
(* The exchange *)

Place(r, f) ==
  /\ book' = [book EXCEPT ![r] =
       [st |-> IF f = 0 THEN "OPEN"
               ELSE IF f = log[r].req THEN "FILLED" ELSE "PARTIAL",
        filled |-> f]]
  /\ today' = today \cup {r}

\* FakeBroker moves only when a tick is replayed; a real exchange at any time.
ExchangeMoves == RacingFills \/ pc \in {"tick", "down"}

Deliver(r) ==
  /\ ExchangeMoves
  /\ book[r].st = "TRANSIT"
  /\ Place(r, 0)
  /\ UNCHANGED <<db, local>>

\* filled_qty is cumulative; the order is FILLED when it reaches the request.
Fill(r, f) ==
  /\ ExchangeMoves
  /\ book[r].st \in Working
  /\ book[r].filled < f /\ f <= log[r].req
  /\ book' = [book EXCEPT ![r] =
       [st |-> IF f = log[r].req THEN "FILLED" ELSE "PARTIAL", filled |-> f]]
  /\ UNCHANGED <<db, today, local>>

RejectLater(r) ==
  /\ ExchangeMoves
  /\ book[r].st = "OPEN"
  /\ book' = [book EXCEPT ![r].st = "REJECTED"]
  /\ UNCHANGED <<db, today, local>>

\* A Korean order is valid for its day: the close cancels what is left of it.
MarketClose ==
  /\ "close" \in Expiry /\ ExchangeMoves
  /\ \E r \in Refs : book[r].st \in Working
  /\ book' = [r \in Refs |->
       IF book[r].st \in Working THEN [book[r] EXCEPT !.st = "CANCELED"]
       ELSE book[r]]
  /\ UNCHANGED <<db, today, local>>

\* list_orders_today speaks of today only.
NextDay ==
  /\ "midnight" \in Expiry /\ ExchangeMoves
  /\ today # {}
  /\ \A r \in Refs : book[r].st \notin Working
  /\ today' = {}
  /\ UNCHANGED <<db, book, local>>

Exchange ==
  \/ \E r \in Refs : Deliver(r) \/ RejectLater(r) \/ \E f \in Qty : Fill(r, f)
  \/ MarketClose
  \/ NextDay

---------------------------------------------------------------------------
(* Commands: pause, resume, stop, handled between two ticks *)

Transition(from, to) ==
  /\ pc = "tick" /\ cycle = from
  /\ cycle' = to
  /\ UNCHANGED <<stage, log, pnl, config, market, local>>

PauseCycle == Transition("RUNNING", "PAUSED")
ResumeCycle == Transition("PAUSED", "RUNNING")

---------------------------------------------------------------------------
(* on_tick: decide, then send each decision *)

Decisions == DecisionsOf(stage)

OnTick(P) ==
  /\ pc = "tick"
  /\ P = {} \/ (cycle = "RUNNING" /\ P \in Decisions)
  /\ pc' = "decide" /\ plan' = P
  /\ UNCHANGED <<db, market, todo, cur, seen>>

Chosen(s) == s \in plan /\ \A u \in plan : s <= u

\* GuardGate refuses the decision (rate, or a limit for a buy).
GuardBlocks(s) ==
  /\ pc = "decide" /\ Chosen(s)
  /\ plan' = plan \ {s}
  /\ UNCHANGED <<db, market, pc, todo, cur, seen>>

NextRef(r) == log[r].st = "NONE" /\ \A q \in Refs : q < r => log[q].st # "NONE"

Side(s) == IF stage[s].status \in {"WAITING", "BUY_PENDING"} THEN "BUY" ELSE "SELL"

\* Mutants: the row is not inserted; a sell asks for the planned quantity
\* instead of the shares the stage holds.
RecordNothing(s, r) ==
  /\ pc = "decide" /\ Chosen(s) /\ NextRef(r)
  /\ log' = [log EXCEPT ![r] = [@ EXCEPT !.stage = s, !.side = Side(s), !.req = Lot]]
  /\ pc' = "recorded" /\ cur' = r /\ plan' = plan \ {s}
  /\ UNCHANGED <<stage, cycle, pnl, config, market, todo, seen>>

RecordPlanned(s, r) ==
  /\ pc = "decide" /\ Chosen(s) /\ NextRef(r)
  /\ log' = [log EXCEPT ![r] =
       [st |-> "SENDING", stage |-> s, side |-> Side(s), req |-> Lot,
        known |-> FALSE, fill |-> 0]]
  /\ pc' = "recorded" /\ cur' = r /\ plan' = plan \ {s}
  /\ UNCHANGED <<stage, cycle, pnl, config, market, todo, seen>>

\* (3) the order is on record before anything else happens.
RecordOrder(s, r) ==
  /\ pc = "decide" /\ Chosen(s) /\ NextRef(r)
  /\ log' = [log EXCEPT ![r] =
       [st |-> "SENDING", stage |-> s, side |-> Side(s),
        req |-> IF Side(s) = "BUY" THEN Lot ELSE stage[s].qty,
        known |-> FALSE, fill |-> 0]]
  /\ pc' = "recorded" /\ cur' = r /\ plan' = plan \ {s}
  /\ UNCHANGED <<stage, cycle, pnl, config, market, todo, seen>>

\* (4) the stage is PENDING before the order goes out.
MarkPending ==
  /\ pc = "recorded"
  /\ stage' = [stage EXCEPT ![log[cur].stage] = ToPending(@, log[cur].side)]
  /\ Goto("placing")
  /\ UNCHANGED <<log, cycle, pnl, config, market>>

\* (5) the exchange takes the order, perhaps filling some of it at once; the
\* answer may be lost.
PlaceTaken(f) ==
  /\ pc = "placing" /\ f <= log[cur].req
  /\ Place(cur, f)
  /\ Goto("acked") \/ ("place" \in Losses /\ Goto("timeout"))
  /\ UNCHANGED db

PlaceRefused ==
  /\ pc = "placing"
  /\ Goto("rejected")
  /\ UNCHANGED <<db, market>>

\* The request itself is lost, or is still on its way.
PlaceLost ==
  /\ pc = "placing" /\ "place" \in Losses
  /\ \/ book' = book
     \/ /\ LateDelivery \/ RacingFills
        /\ book' = [book EXCEPT ![cur].st = "TRANSIT"]
  /\ Goto("timeout")
  /\ UNCHANGED <<db, today>>

SetLog(st, fill) ==
  /\ log' = [log EXCEPT ![cur] = LogUpdate(@, st, fill)]
  /\ UNCHANGED <<stage, cycle, pnl, config>>

\* The order leaves the hands of send: on to the next decision.
SendDone == pc' = "decide" /\ cur' = 0 /\ UNCHANGED <<plan, todo, seen>>

\* Mutant: the broker's order number is not stored.
LogAcceptedUnnamed ==
  /\ pc = "acked"
  /\ log' = [log EXCEPT ![cur].st = "ACCEPTED"]
  /\ SendDone
  /\ UNCHANGED <<stage, cycle, pnl, config, market>>

LogAccepted ==
  /\ pc = "acked"
  /\ log' = [log EXCEPT ![cur].st = "ACCEPTED", ![cur].known = TRUE]
  /\ SendDone
  /\ UNCHANGED <<stage, cycle, pnl, config, market>>

LogRejected ==
  /\ pc = "rejected"
  /\ SetLog("REJECTED", 0)
  /\ Goto("unsend")
  /\ UNCHANGED market

LogUnknown ==
  /\ pc = "timeout"
  /\ SetLog("UNKNOWN", 0)
  /\ Goto("listing")
  /\ UNCHANGED market

\* Mutant: a failed inquiry is taken for "not received".
ListLostRestores ==
  /\ pc = "listing" /\ "list" \in Losses
  /\ SetLog("CANCELED", 0)
  /\ Goto("unsend")
  /\ UNCHANGED market

\* The inquiry fails too: the order stays UNKNOWN and its stage PENDING.
ListLost ==
  /\ pc = "listing" /\ "list" \in Losses
  /\ SendDone
  /\ UNCHANGED <<db, market>>

ListFound ==
  /\ pc = "listing" /\ cur \in today
  /\ log' = [log EXCEPT ![cur].st = "ACCEPTED", ![cur].known = TRUE]
  /\ SendDone
  /\ UNCHANGED <<stage, cycle, pnl, config, market>>

\* An order that is not found was not received: the code relies on it, and only
\* with LateDelivery it may still be on its way.
ListMissing ==
  /\ pc = "listing" /\ cur \notin today
  /\ book[cur].st = "TRANSIT" => LateDelivery
  /\ SetLog("CANCELED", 0)
  /\ Goto("unsend")
  /\ UNCHANGED market

SetStage(row) ==
  /\ stage' = [stage EXCEPT ![log[cur].stage] = row]
  /\ UNCHANGED <<log, cycle, pnl, config>>

RestoreAfterSend ==
  /\ pc = "unsend"
  /\ SetStage(Restored(stage[log[cur].stage]))
  /\ SendDone
  /\ UNCHANGED market

Send ==
  \/ \E s \in Stages : GuardBlocks(s) \/ \E r \in Refs : RecordOrder(s, r)
  \/ MarkPending
  \/ \E f \in Qty : PlaceTaken(f)
  \/ PlaceRefused \/ PlaceLost
  \/ LogAccepted \/ LogRejected \/ LogUnknown
  \/ ListLost \/ ListFound \/ ListMissing
  \/ RestoreAfterSend

---------------------------------------------------------------------------
(* poll_pending: poll_fill for each pending row, then _close_if_complete *)

\* Mutant: finished rows are polled again.
AllRows == {r \in Refs : log[r].st # "NONE"}

PendingRows == {r \in Refs : log[r].st \in Live}

StartPoll ==
  /\ pc = "decide" /\ plan = {}
  /\ pc' = "poll" /\ todo' = PendingRows
  /\ UNCHANGED <<db, market, plan, cur, seen>>

At(r) == pc = "poll" /\ r \in todo /\ \A q \in todo : r <= q

NextRow(r) ==
  /\ pc' = "poll" /\ todo' = todo \ {r} /\ cur' = 0 /\ seen' = 0
  /\ UNCHANGED plan

Die == pc' = "dead" /\ plan' = {} /\ todo' = {} /\ cur' = 0 /\ seen' = 0

\* A row without broker_order_id cannot be asked about.
PollSkip(r) ==
  /\ At(r) /\ ~log[r].known
  /\ NextRow(r)
  /\ UNCHANGED <<db, market>>

Asked(r) == At(r) /\ log[r].known /\ Pending(stage[log[r].stage])

\* poll_fill raises: a ValueError for a stage that is not PENDING, or the
\* BrokerTimeout of get_order.  poll_pending catches neither and the engine
\* thread ends.
PollDies(r) ==
  /\ At(r) /\ log[r].known
  /\ "query" \in Losses \/ ~Asked(r)
  /\ Die
  /\ UNCHANGED <<db, market>>

Settle(r, st, fill, next) ==
  /\ log' = [log EXCEPT ![r] = LogUpdate(@, st, fill)]
  /\ pc' = next /\ cur' = r /\ seen' = book[r].filled
  /\ UNCHANGED <<stage, cycle, pnl, config, market, plan, todo>>

PollRejected(r) ==
  /\ Asked(r) /\ book[r].st = "REJECTED"
  /\ Settle(r, "REJECTED", 0, "undo")

PollFilled(r) ==
  /\ Asked(r) /\ book[r].st = "FILLED"
  /\ Settle(r, "FILLED", book[r].filled, "apply")

\* Mutant: the rest of an expired order is never cancelled at the exchange.
PollOpenNoCancel(r, expired) ==
  /\ Asked(r) /\ book[r].st \notin {"REJECTED", "FILLED"}
  /\ Settle(r, IF book[r].filled > 0 THEN "PARTIAL" ELSE log[r].st,
            book[r].filled, IF expired THEN "canceled" ELSE "closing")

\* Neither rejected nor filled.  A part filled so far is recorded; once the
\* timeout has passed the rest is cancelled.
PollOpen(r, expired) ==
  /\ Asked(r) /\ book[r].st \notin {"REJECTED", "FILLED"}
  /\ Settle(r, IF book[r].filled > 0 THEN "PARTIAL" ELSE log[r].st,
            book[r].filled, IF expired THEN "cancel" ELSE "closing")

CancelTaken ==
  /\ pc = "cancel" /\ book[cur].st \in Working
  /\ book' = [book EXCEPT ![cur].st = "CANCELED"]
  /\ Goto("canceled") \/ ("cancel" \in Losses /\ Goto("closing"))
  /\ UNCHANGED <<db, today>>

\* The request is lost on its way: any BrokerError leaves the order pending.
CancelLost ==
  /\ pc = "cancel" /\ "cancel" \in Losses /\ book[cur].st \in Working
  /\ Goto("closing")
  /\ UNCHANGED <<db, market>>

\* The exchange has nothing left to cancel.
CancelRefused ==
  /\ pc = "cancel" /\ book[cur].st \in Finished
  /\ IF RefusalDies THEN Die ELSE Goto("closing")
  /\ UNCHANGED <<db, market>>

\* Mutant: the fill is not recorded with the cancel.
LogCanceledBare ==
  /\ pc = "canceled"
  /\ log' = [log EXCEPT ![cur].st = "CANCELED", ![cur].fill = 0]
  /\ UNCHANGED <<stage, cycle, pnl, config, market>>
  /\ Goto(IF seen > 0 THEN "apply" ELSE "undo")

\* What is recorded and applied is the status read before the cancel.
LogCanceled ==
  /\ pc = "canceled"
  /\ SetLog("CANCELED", seen)
  /\ Goto(IF seen > 0 THEN "apply" ELSE "undo")
  /\ UNCHANGED market

ApplyFill ==
  /\ pc = "apply"
  /\ SetStage(Applied(stage[log[cur].stage], seen))
  /\ Goto("closing")
  /\ UNCHANGED market

RestoreAfterPoll ==
  /\ pc = "undo"
  /\ SetStage(Restored(stage[log[cur].stage]))
  /\ Goto("closing")
  /\ UNCHANGED market

\* Mutant: orders in flight do not keep the cycle open.
CompleteHeldOnly ==
  /\ \A s \in Stages : HeldQty(stage[s]) = 0
  /\ \E s \in Stages : stage[s].sold

\* is_cycle_complete, and the condition that something was ever sold.
Complete ==
  /\ \A s \in Stages : ~Pending(stage[s]) /\ HeldQty(stage[s]) = 0
  /\ \E s \in Stages : stage[s].sold

KeepCycle ==
  /\ pc = "closing" /\ ~Complete
  /\ NextRow(cur)
  /\ UNCHANGED <<db, market>>

\* Mutant: the configuration is not released.
CloseCycleOnly ==
  /\ pc = "closing" /\ Complete /\ cycle # "CLOSED"
  /\ cycle' = "CLOSED"
  /\ NextRow(cur)
  /\ UNCHANGED <<stage, log, pnl, config, market>>

CloseCycle ==
  /\ pc = "closing" /\ Complete /\ cycle # "CLOSED"
  /\ cycle' = "CLOSED"
  /\ Goto("pnl")
  /\ UNCHANGED <<stage, log, pnl, config, market>>

SetPnl ==
  /\ pc = "pnl"
  /\ pnl' = TRUE
  /\ Goto("release")
  /\ UNCHANGED <<stage, log, cycle, config, market>>

ReleaseConfig ==
  /\ pc = "release"
  /\ config' = "IDLE"
  /\ NextRow(cur)
  /\ UNCHANGED <<stage, log, cycle, pnl, market>>

PollDone ==
  /\ pc = "poll" /\ todo = {}
  /\ Goto("tick")
  /\ UNCHANGED <<db, market>>

Poll ==
  \/ StartPoll
  \/ \E r \in Refs :
       \/ PollSkip(r) \/ PollDies(r)
       \/ PollRejected(r) \/ PollFilled(r)
       \/ \E expired \in BOOLEAN : PollOpen(r, expired)
  \/ CancelTaken \/ CancelLost \/ CancelRefused
  \/ LogCanceled \/ ApplyFill \/ RestoreAfterPoll
  \/ KeepCycle \/ CloseCycle \/ SetPnl \/ ReleaseConfig
  \/ PollDone

---------------------------------------------------------------------------
Tick == \E P \in SUBSET Stages : OnTick(P)

EngineStep == Tick \/ Send \/ Poll

Command == PauseCycle \/ ResumeCycle

Next == EngineStep \/ Command \/ Exchange

Spec == Init /\ [][Next]_vars

---------------------------------------------------------------------------
(* Properties *)

AtExchange(r) == book[r].st \in Working \cup {"TRANSIT"}

\* "Rule 5 keeps a PENDING stage out of every decision, so there is no double
\* order": no stage ever has two orders that the exchange may still fill.
OneOrderPerStage ==
  \A q, r \in Refs :
    AtExchange(q) /\ AtExchange(r) /\ log[q].stage = log[r].stage => q = r

\* Write-ahead: an order the exchange may still fill is pending in the log and
\* holds its stage in the PENDING state of its side.
LiveOrderIsOnRecord ==
  \A r \in Refs : AtExchange(r) =>
    /\ log[r].st \in Live
    /\ stage[log[r].stage].status = PendingAs(log[r].side)

\* A settled row tells the whole truth: the order is over at the exchange and
\* the recorded fill is all that was filled.
SettledIsFinal ==
  \A r \in Refs : log[r].st \in Terminal =>
    ~AtExchange(r) /\ log[r].fill = book[r].filled

\* The shares an order has moved, as a change of the position.
Moved(r) == IF log[r].side = "BUY" THEN book[r].filled ELSE 0 - book[r].filled

\* What the exchange bought for a stage minus what it sold, over some orders.
Net(s, R) ==
  SumFunctionOnSet([r \in Refs |-> IF log[r].stage = s THEN Moved(r) ELSE 0], R)

\* Between two ticks a stage holds exactly what the exchange filled for it,
\* the orders still pending in the log left aside.
StageMatchesExchange ==
  pc = "tick" => \A s \in Stages : HeldQty(stage[s]) = Net(s, Refs \ PendingRows)

\* The rest of every working sell is covered by shares the stage really has.
SellsAreCovered ==
  \A r \in Refs : log[r].side = "SELL" /\ AtExchange(r) =>
    log[r].req - book[r].filled <= Net(log[r].stage, Refs)

\* A PENDING stage is always owed an answer: a pending row of it, or the step
\* that is about to move it.
PendingIsOwed ==
  \A s \in Stages : Pending(stage[s]) =>
    \E r \in Refs :
      /\ log[r].stage = s
      /\ log[r].st \in Live \/ (r = cur /\ pc \in {"unsend", "undo", "apply"})

\* poll_fill is only ever asked about a PENDING stage, and about the order of
\* the side that made it so; otherwise its ValueError ends the engine thread.
PollFindsItsStage ==
  \A r \in todo : log[r].known /\ pc = "poll" =>
    stage[log[r].stage].status = PendingAs(log[r].side)

\* No write of the order path runs into a guard of save_stage or
\* update_order_log, nor leaves an empty holding behind.
RowGuardsHold ==
  [][/\ \A r \in Refs : log[r].st # "NONE" =>
          LogAccepts(log[r], log'[r].st, log'[r].fill)
     /\ \A s \in Stages : StageAccepts(stage[s], stage'[s]) /\ WellFormed(stage'[s])
    ]_<<log, stage>>

\* Between two ticks the configuration says ACTIVE exactly while it runs a
\* cycle, and a closed cycle has its realized profit.
ConfigFollowsCycle ==
  pc = "tick" => /\ config = "ACTIVE" <=> cycle # "CLOSED"
                 /\ cycle = "CLOSED" => pnl

\* An order at the exchange is on record: there are no orphan orders.
WriteAhead == \A r \in Refs : book[r].st # "NONE" => log[r].st # "NONE"

\* A cycle closes only when the exchange has nothing left of it: no order and
\* no share.
ClosedIsFlat ==
  cycle = "CLOSED" => \A s \in Stages :
    /\ Net(s, Refs) = 0
    /\ \A r \in Refs : log[r].stage = s => ~AtExchange(r)

\* The order path implements the ledger.
Ledger == INSTANCE StageLedger WITH
  flight   <- [s \in Stages |-> CASE stage[s].status = "BUY_PENDING" -> "BUY"
                                  [] stage[s].status = "SELL_PENDING" -> "SELL"
                                  [] OTHER -> "none"],
  booked   <- [s \in Stages |-> HeldQty(stage[s])],
  position <- [s \in Stages |-> Net(s, Refs)]

LedgerSpec == Ledger!LSpec
=============================================================================
