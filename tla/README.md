# AutoTrading 7s in TLA+

AutoTrading 7s trades a stock by the "Seven Split" method: a *cycle* splits the
money into up to seven *stages*, buys stage n when the price has dropped n-1
steps below the anchor, and sells each stage on its own when it has gained its
target. There is no stop-loss. The program is one Python process: a Tkinter
window, an engine thread running one asyncio loop, a SQLite database, and a
broker behind a port (`FakeBroker` today; a real one is planned).

What is hardest to get right is the order path: an order is a row in the
database, a stage in the database and an object at the exchange, and the three
are written at different moments, with awaits, timeouts and crashes in between.
The first part of this project is about that path and the user's way out of it
(emergency liquidation, force close); the second about what surrounds it: the
commands, the birth and the ends of a cycle, several cycles in one account; the
third about the decisions, the money and the prices.

## 1. Inventory

Paths are relative to `src/src/autotrading7s/`.

| Component | State | Operations | What makes it correct |
|---|---|---|---|
| Stage (`domain/stage.py`) | status, trigger price, fill price and quantity, last sale | `to_buy_pending`, `to_holding`, `to_sell_pending`, `after_sell`, `cancel_buy`, `cancel_sell`, `force_sold` | transitions of the table only; a holding is never empty; a quantity only shrinks, and only when a sell is cancelled |
| Cycle (`domain/cycle.py`) | status, anchor, ladder, close reason | `start`, `confirm_anchor`, `pause`, `resume`, `begin_liquidation`, `close`, `force_close` | closes only when flat, with nothing in flight |
| Trigger rules (`domain/rules.py`, `ladder.py`, `tick_size.py`) | none | `decide`, `trigger_price`, `planned_qty`, `target_price`, `normalize_tick` | sells before buys, one buy per tick from the lowest stage, cooldown, no stage that is not WAITING or HOLDING |
| Guards (`domain/guards.py`, `engine/guards.py`) | the last minute's orders | `check_buy`, `check_sell`, `record_order`, `compute_exposure` | limits per stock and in total, orders per minute |
| Executor (`engine/executor.py`) | none of its own | `send`, `_resolve_unknown`, `poll_fill` | no double order, no lost fill, nothing sent that is not on record |
| Orchestrator (`engine/orchestrator.py`) | stop flag, last reconciliation | `drain_commands` and its handlers, `on_tick`, `poll_pending`, `_close_if_complete`, `run`, `_fallback` | one bad cycle does not stop the others; a cycle closes exactly when it is over |
| Recovery (`engine/recovery.py`) | none | `run` | after a restart every PENDING stage has the truth of the exchange |
| Emergency (`engine/emergency.py`) | none | `liquidate_all`, `liquidate_single`, `force_close` | everything is sold or reported, and logged |
| Reconciler (`engine/reconciler.py`) | baseline in the database | `run_once`, `reset_baseline` | a shortage at the broker pauses the cycle, nothing else does |
| Engine thread (`app/engine_thread.py`) | three queues, the thread | `start`, `send`, `send_priority`, `drain_events` | recovery before decisions; commands and events in order |
| Repository (`adapters/sqlite/repository.py`, `schema.sql`) | all rows | `save_stage`, `append_order_log`, `update_order_log`, `load_pending_orders`, `save_cycle`, `emergency_close_cycle`, ... | every write keeps the row invariants; settled orders never change |
| Fake broker (`adapters/fake/broker.py`) | orders, positions, cash, script | `place_limit_order`, `place_market_sell`, `cancel_order`, `get_order`, `list_orders_today`, `get_balance` | behaves as an exchange, with injected rejections, timeouts and disconnects |
| Mapping, codec, migrations | none | row conversion | a damaged row is refused, not repaired |
| UI (`ui/`), `cli.py` | view model | presentation | shows what the events say |

**Interactions.** The window puts commands into two queues and reads events from a
third; only the engine thread writes the database. The engine handles, per tick
and in this order: commands, decisions (`on_tick`, each one through
`Executor.send`), pending orders (`poll_pending`, each one through
`Executor.poll_fill` and `_close_if_complete`), reconciliation. All of it is one
coroutine, so the engine does not race with itself; it races with the exchange
(at each `await`) and with the death of the process (after each commit).

**What is hard.** A stage and its order are two rows, committed separately; the
answer of a placement may be lost; so may the inquiry that follows; an order
fills in parts; a status is stale by the time it is used; a crash can hit between
any two commits, and on the next start only the database and today's list of
orders are left. `PROJECT.json` lists these hazards line by line.

## 2. Modules

| Module | Models | Kind |
|---|---|---|
| `StageLife` | `domain/stage.py`, and the guards of `save_stage` and `update_order_log` | operators on rows, no state |
| `Engine` | commands, `on_tick`, `Executor`, `poll_pending`, `_close_if_complete` for one cycle, the rows, and the exchange behind the broker port | specification `Spec` |
| `StageLedger` | what the order path promises per stage | abstract specification `LSpec` |
| `EngineRecovery` | `Engine`, a process that dies at any step, and `Recovery.run` | specification `RSpec`, with fairness `RFairSpec` |
| `EngineEmergency` | `EngineRecovery`, `EmergencyHandler` with every await, and `Reconciler.run_once`, over one account | specification `ESpec` |
| `Desk` | the two queues, `Orchestrator.run` and `drain_commands`, `StartCycle`, `_confirm_anchor`, the three ends of a cycle, `liquidate_all`, the baseline and the reconciliation, for several configurations of one stock | specification `Spec`, with fairness |
| `DeskProofs` | theorems and proofs about `Desk`; extends `SumProofs` | proofs |
| `EngineInv` | the inductive invariants of the order path, and what its rows say of the holdings | definitions only |
| `SumProofs` | theorems about sums over finite sets | proofs |
| `EngineProofs` | theorems and proofs about `Engine` | proofs |
| `RowProofs` | theorems and proofs about the rows `Engine` commits, and that it implements `StageLedger`; extends `EngineProofs` and `SumProofs` | proofs |
| `RecoveryInv` | the inductive invariant of a program that dies once and recovers; extends `EngineRecovery` and `EngineInv` | definitions only |
| `RecoveryProofs` | theorems and proofs about `EngineRecovery`, its refinement of `StageLedger` for one crash included; extends `RecoveryInv` and `RowProofs` | proofs |
| `EmergencyProofs` | theorems and proofs about `EngineEmergency`; extends `RecoveryProofs` and `RowProofs` | proofs |
| `Ladder` | tick sizes, triggers, quantities and targets | operators, no state |
| `LadderProofs` | theorems and proofs about `Ladder` | proofs |
| `Market` | `_advance` with `decide`, the guards and the fills, for several cycles under a moving price | specification `Spec` |
| `MarketProofs` | theorems and proofs about `Market`; extends `LadderProofs` and `SumProofs` | proofs |

### State and steps

`stage`, `log`, `cycle`, `pnl` and `config` are the committed rows of one cycle;
`book` is the exchange's own record of each order and `today` what
`list_orders_today` reports. `pc`, `plan`, `todo`, `cur` and `seen` are the
locals of the coroutine: the decisions of `on_tick` not yet sent, the rows
`poll_pending` loaded and has not handled, the order in hand, and the
`filled_qty` of the status that `poll_fill` read for it.

A step ends at every commit and every await. `Executor.send` is
`RecordOrder` (order row, "(3)"), `MarkPending` (stage row, "(4)"), then the
placement at the exchange - `PlaceTaken`, `PlaceRefused` or `PlaceLost` - and the
row that its outcome writes: `LogAccepted`, or `LogRejected` and
`RestoreAfterSend`, or `LogUnknown` and the inquiry `ListFound`, `ListMissing`,
`ListLost`. `poll_fill` is `PollRejected`, `PollFilled` or `PollOpen` (get_order
and the first write), `CancelTaken`, `CancelLost` or `CancelRefused`
(cancel_order), `LogCanceled`, and the stage row in `ApplyFill` or
`RestoreAfterPoll`. `PollDies` is its `ValueError` or the
`BrokerTimeout` nobody catches: both end the engine thread (`pc = "dead"`).
`CloseCycle`, `SetPnl` and `ReleaseConfig` are the three commits of
`_close_if_complete`. `PendingRows` is `load_pending_orders`.

Which decision a price leads to is left open: `Decisions` is the set of all
decision lists that `decide` can return for the stages as they are, for any price
and any clock (`DecisionsOf` of `StageLife`). A guard may refuse each of them.
`Market` is the other half: there the price, the clock and the guards decide, and
the invariant `DecideIsCovered` shows that what they decide is in `DecisionsOf`.

In `Market`, `Tick` is one tick of one stock, and each active cycle of that stock
takes its turn: `ConfirmAnchor`, or `SendSells`, `SendBuy`, `BlockBuy`,
`NoDecision`, the outcomes of `decide` and `GuardGate`. `SettleBuy` and
`SettleSell` stand for the whole order path of `Engine`: an order ends, later than
the tick, with any number of shares at its limit or a better price, and
`_close_if_complete` follows. Money is exact: a ratio is an integer number of
`1/Den`, as the code's `Decimal` products are exact. `sent` and `overlap` are
history, not program state. One clock serves the ticks and the cooldown; the code
reads `tick.at` for the rate and `clock.now()` for the cooldown.

In `EngineRecovery`, `Crash` keeps the rows and the exchange and loses the
coroutine; `Restart` takes today's list once and loads the pending rows, and the
`Recover...` actions are the loop of `_resolve_pending_orders`, with the order
row and the stage row as separate commits.

`EngineEmergency` adds the account (`Balance`: the shares all orders have moved),
the rows of the market sells (`sale`), and the locals of the command in hand.
`BeginLiquidation` is everything up to the first await of `liquidate_single`;
`CancelOrder`, `CancelOrderLost`, `CancelOrderRefused` and `CommitCancel` are the
loop of `_cancel_open_orders`, over the limit orders and then (`CancelSale`,
`CommitSaleCancel`) over what an earlier market sell left open. Then comes one of
`BalanceFails`, `CloseEmpty`, or `RecordSale` with the placement
(`SaleTaken`, `SaleRefused`), its answer (`CommitSale`, `AskLost`,
`CommitRefusal`) and the close: `CloseSold`, `ESetPnl` and `EReleaseConfig`, three
commits. `BeginForceClose` and `ForceCloseCycle` are `force_close`, which uses the
balance it read before its cancels. All this happens at a tick, between two passes
of the engine, because `drain_commands` is called there. `Ordinary` is any step of
`EngineRecovery`; the crashes it may have are bounded by `CrashPoints`. A command
that is only logged (closed market, no cycle, a force close that is not allowed)
changes no row of the model and is not a step.

`Desk` looks at the same engine from further away: an order is one step
(`Buy`, `Sell`), a cycle holds one share or none, and the failures inside a
liquidation are one choice (`LiquidationStays` with any part of the account
sold). In return there are several cycles and configurations, two queues, the
drain, the loop and the sessions. `cyc` has for each cycle its row and its stage
rows; of a stage row only the origin of its `trigger_price` is kept, because that
is what `rows_to_stages` compares: none, the ladder of an interrupted attempt
(`old`), or the latest ladder (`new`). `BeginAnchor`, `ConfirmRow` and
`ConfirmAnchor` are the commits of `_confirm_anchor`; `RefuseAnchor` is a price that
makes no ladder: `to_ladder` raises before anything is written, `on_tick` catches it,
`_isolate` does nothing to a STARTING cycle, and the next tick tries again.
`StartCycle` and `Activate`
those of `_start_cycle`; `CloseCycle`, `SetPnl` and `ReleaseConfig` those of every
close. `alone`, `torn`, `strayed`, `waited` and `used` are history, not program
state. What the order path can do to a stage is in `EngineEmergency` only, what
two cycles can do to each other in `Desk` only.

**What is external.** How the exchange moves between calls is not in the source.
`Deliver` (a timed-out order arrives late), `RejectLater`, `MarketClose` (the
code relies on it: orders are valid for their day) and `NextDay` (today's list
starts empty) are modelled from how the source uses the port.

### Constants

`MaxStages`, `Lot` (shares of a planned buy) and `AllowRebuy` are the
configuration. `MaxOrders` bounds the orders of a behaviour, `MaxCrashes` the
crashes. The rest says which exchange and which network the engine meets:
`Losses` (calls whose response may be lost), `RacingFills` (does the exchange
act while the engine is between two awaits; FakeBroker does not, a real one
does), `Expiry` (do the close and the night occur), `LateDelivery`
(may a timed-out order arrive after the inquiry has missed it),
`RefusalDies` (cancelling a finished order raises `ValueError`, as FakeBroker
does, or a `BrokerError`), `RestartAfter` (when the program is started again).
With `RacingFills` a timed-out order may in any case arrive between the timeout and
the inquiry; without `LateDelivery` the inquiry is then right (`ListMissing` is
only possible when there is nothing left to arrive), which is what
`_resolve_unknown` relies on.

`MaxSales` bounds the market sells of `EngineEmergency`. `Desk` takes the number of
configurations of the stock, the stages of a ladder (`Levels`) and the shares the
user owns besides the program (`Foreign`); `MaxCycles`, `MaxSends`, `MaxHand` and
`MaxSessions` bound the cycles, the commands, the sales by hand and the starts of
the program in one behaviour.

`Ladder` takes the ratios `Drop` and `Target` in units of `1/Den`, `MaxStages` and
`Amount`; `LadderAssumption` is what `Ladder.__post_init__` demands of them, and
`LadderOk(anchor)` what it demands of an anchor. `Market` adds the cycles, the
limits, the rate and the cooldown of the configuration, and bounds the script by
`Prices` and `Horizon`.

## 3. Properties and runs

| Run | Exchange | Result |
|---|---|---|
| `engine_fake` | moves between ticks only; placements and inquiries get lost | `SettledIsFinal`, `StageMatchesExchange`, `SellsAreCovered`, `ClosedIsFlat`, `ConfigFollowsCycle`, and `Engine` implements `StageLedger` |
| `engine_live` | moves at any time, closes, forgets overnight; every response may get lost | the inductive invariant `PathInv`, `HoldingsAreRecorded`, `OneOrderPerStage`, `LiveOrderIsOnRecord`, `PendingIsOwed`, `PollFindsItsStage`, `RowGuardsHold` |
| `recovery_at_close` | moves between ticks, expires orders at the close; placements and inquiries get lost; one crash anywhere, restart after the close of the day | the inductive invariant `CrashInv`, `OneOrderPerStage`, `OnlyStuckStagesDiffer`, and the liveness `PendingIsAnswered` |
| `recovery_storm` | two crashes, restart any time, every loss, late deliveries | `WriteAhead`, `TerminalIsFinal` |
| `emergency` | moves at any time and expires orders at the close; every response may get lost; one crash inside a command | `LiquidationIsFinal`, `NumberedOrderIsWatched`, `NothingInvented`, `SuccessIsEmpty`, `PauseHasAReason` |
| `desk` | the account, with shares of the user's own and a sale by hand | `EveryRowLoads`, `ConfigIsHonest`, `BooksBalance`, `EmergencyWaitsOneTick`, and the liveness `StartIsConfirmed` |
| `market` | two cycles of one stock or of two, every script of six ticks, fills in part and at better prices | `OrderPrices`, `NoLoss`, `PlanBound`, `RateLimit`, `LimitHolds`, `DecideIsCovered` |
| `limit_overlap` | the same | violates `ExposureWithinLimits` |
| `engine_race` | a fill between `get_order` and `cancel_order` | violates `SettledIsFinal` |
| `crash_duplicate` | restart while an order is open | violates `OneOrderPerStage` |
| `crash_stuck` | crash between the order row and the stage row of a refused placement | violates `NoStageIsStuck` |
| `crash_overnight` | restart on the next day | violates `UnlistedMeansUnfilled` |

The last five are disagreements between the code and what its own comments say
of it; each is one entry of "findings". They also explain the constants of the
passing runs: `LimitHolds` speaks of the time before two buys were in flight
together, because `limit_overlap` is what happens then; `engine_fake` has no racing fills because `engine_race` is what
happens with them, and `recovery_at_close` restarts after the close and before
midnight because at other times `crash_duplicate` and `crash_overnight` happen. It has one
crash, because two can confuse recovery: a crash between the order row and the stage
row leaves a SENDING row that recovery skips; if the process dies again while the
next order of that stage is out, recovery settles the stale row, restores the stage
through it and then skips the row of the real order, as "already corrected"; the next
poll of that row raises `ValueError`. (With `MaxCrashes = 2` in `CrashStuck.cfg`, TLC
finds this as a violation of `PollFindsItsStage` within a second.)
TLC's trace of `crash_stuck` is the shortest one: the process dies in `send`, after the
REJECTED row and before `_restore`. `poll_fill` and `_apply_fill` have the same pair
of commits, and a crash there strands the stage too, with a fill it has not been told
of. `OnlyStuckStagesDiffer` bounds the damage of both: a crash makes no other stage
differ from the exchange.

**Bounds.** Two stages are the least at which one stage's order can hurt another
(a plan with two sells, a list of pending rows in which the first one changes
what the second one finds). Two shares per lot give an unfilled, a partly filled
and a filled order, and a second sell of the rest. Three orders on two stages are
a buy, a partial sell and a sell of the rest beside an order of the other stage;
`engine_fake` has four, so that a re-bought stage can be sold again. One crash
reaches every pair of commits; the second one of `recovery_storm` hits recovery
itself.

In `market`, the prices 1996, 2000 and 2005 lie on both sides of a boundary of the
tick table, and drop and target are 0.2 %, so that every rounding matters: the
trigger below 2005 is 2000.99 won, the target over 2000 is 2004 won, and rounding
that one down would sell at cost. An amount of 4010 won is two shares, so orders
fill in parts. A second stage of a cycle only fits the stock limit if the first
filled in part, and a second cycle only fits the total limit likewise. Six ticks
reach an anchor, two buys, a sale, a re-buy kept back by the cooldown and the
re-buy itself; a sale after a re-buy needs seven.

In `emergency` one stage and two orders are enough to have an order still open, or
partly filled, or `UNKNOWN`, when the command comes, and a buy and a sell of the
same shares; two market sells are a first attempt that fails or stays `PARTIAL`
and its retry. A second stage would only repeat the loop. The crash is placed
between the market sell and its row or between the commits of the close, where
nothing else dies; crashes elsewhere are the matter of the recovery runs.

In `desk` two configurations of one stock and two cycles are the least at which
one cycle takes another's shares; two stages the least at which rows of two
attempts can mix; one share of the user's own and one sale by hand make the
account differ from the stages in both directions. Three commands are two that
arrive while the first is being handled; two sessions reach a restart at every
commit. A command is sent only while the engine drains: the queues are looked at
nowhere else, so an earlier command is the same as one at the start of the drain.

**The exceptions in the properties.** Where the program really can go wrong in a
way its design accepts, the property says so instead of leaving the case out.
`SuccessIsEmpty`: after an emergency close with SUCCESS the account can hold
shares, bought by an order without a number, which no cancel loop sees; whatever
is there comes from an order whose row does not tell the whole story.
`PauseHasAReason`: a fill the row does not tell yet can pause a cycle, and so can a
restart. `ConfigIsHonest` says for how long a configuration may be wrong: after a
crash between two commits until its status is written next (`torn`), after a second
start until the cycles are closed (`Crowded`). `BooksBalance` excepts shares that
strayed: sold by hand, sold along with another cycle's (a market sell is for the
whole balance of the stock), or put on record as left behind by a force close while
other cycles hold shares or some were left before. These are the known ways in which
the books of one cycle are spoiled by another's end; what the property shows is that
there is no further one, and that the reset and the sums of claims and baseline are
right. `EmergencyWaitsOneTick` allows the one call of `on_tick` that the
drain has already been promised to. `StartIsConfirmed` ends with the engine:
`run` returns when no cycle is active, and a `StartCycle` that arrives later is
never handled. It also asks something of the prices, per cycle: a cycle whose every
first price is above `amount_per_stage`, say, stays STARTING for ever.

**Deadlock.** `market` ends with its script. `engine_fake` checks it: a tick without
a decision is always possible. Where a lost query may end the engine thread
(`engine_live`, `emergency`), the process may die for the last time or fail in
recovery (the recovery runs), or `run` returns (`desk`), the system really stops
and the check is off.

**Fairness.** `RFairSpec` assumes that the engine keeps running (`_cycle_once` is
called for each tick, and the fallback produces ticks when the stream is lost),
in recovery as in the loop, and that a row that is polled again and again is at
some time polled after its timeout: `sent_at` never changes, the clock does.
Nothing is assumed of the exchange, and nobody has to start a program that died: an
order that is never filled is cancelled, and the cancel is answered. Lost cancels
and lost status inquiries are left out; a row left without a `broker_order_id` and
an order that expired before its cancel wait for the next recovery (`Lingers`).
`Desk` assumes the same in one conjunct, `WF_vars(Drain \/ Run)`: the coroutine
goes on, and a tick comes or the stream ends. Of the prices it assumes nothing,
because the code has no say in them; the premise of `StartIsConfirmed`,
`SF_vars(BeginAnchor(k))`, is that of the ticks cycle k gets one now and then has a
price that makes a ladder. It concerns the first step of the attempt only: that the
rest of `_confirm_anchor` follows, and that commands, other cycles, an interrupted
attempt or a restart do not keep it off, is what the run shows.

## 4. Proofs

`EngineProofs` proves about `Spec`, for every number of stages, shares and orders
and every setting of the other constants:

- `TypeSafety`: `Spec => []TypeOK`.
- `OrderInvariant`: `Spec => []OrderInv`.
- `BookInvariant`: if `~LateDelivery`, `Spec => []BookInv`.
- `PollSafety`: `Spec => []PollFindsItsStage`.
- `NoDoubleOrder`: if `~LateDelivery`, `Spec => []OneOrderPerStage`.
- `LiveOrderSafety`: if `~LateDelivery`, `Spec => []LiveOrderIsOnRecord`.

`~LateDelivery` is the assumption the code makes in `_resolve_unknown`: an order
the inquiry does not find was not received. An order that arrives late, but before
the inquiry, is covered.

The last three are not inductive. The argument goes in three layers, all in `EngineInv`
and checked by the run `engine_live` first (as parts of `PathInv`).

1. `TypeInv`: types, and that the order in hand is a real one wherever the engine
   handles one.
2. `OrderInv`: an order is *open* from the moment it is in the engine's hand until
   its stage row is written: while it is sent and pending in the log, and while it is
   settled there and the stage row is about to follow. A stage has at most one open order
   (`UniqueInv`) and waits for it on the order's side (`WaitInv`). The converse, that
   a PENDING stage has one, is `WholeInv`: it is kept apart, because a crash breaks
   it and nothing else. What keeps `OrderInv` up are facts about
   the coroutine: the decisions still to send concern stages without an order
   (`PlanInv`), the rows still to poll are pending, but for the one in hand
   (`TodoInv`), and at each place of `send` and `poll_fill` the row in hand has
   the status that place left in it (`PcInv`). The data parts
   only depend on `stage`, `log` and which order is open, so the lemmas
   `KeepRows`, `KeepOne` and `EndOrder` deal once with the three shapes a step
   can have: it leaves the open orders as they are, it rewrites the row of one, or
   it ends one together with its stage's PENDING state. `OrderInvariant` is this layer.
3. `BookInv`: an order the exchange works on is pending in the log. Here the
   exchange's moves, the lost responses and `today` come in (`BookInvariant`);
   `OrderInv` then gives the double-order and on-record theorems.

`RowProofs` proves about the same `Spec` what the repository guards:

- `GuardsNeverRefuse`: `Spec => RowGuardsHold`, an action property: no write of a
  stage or of an order row is one that `save_stage` or `update_order_log` refuses.
- `ConfigFollowsItsCycle`: `Spec => []ConfigFollowsCycle`.
- `HoldingsFollowTheLog`: `Spec => []HoldingsAreRecorded`.
- `PendingSafety`: `Spec => []PendingIsOwed`, from `WholeInv`.
- `PathInvariant`: if `~LateDelivery`, `Spec => []PathInv`.
- `SettledRowsAreTrue`, `StagesMatch`, `SellsAreAlwaysCovered`,
  `ClosedCyclesAreFlat`, `PathImplementsLedger`: if `~RacingFills` and
  `~LateDelivery`, `Spec` implies `[]SettledIsFinal`, `[]StageMatchesExchange`,
  `[]SellsAreCovered`, `[]ClosedIsFlat` and the refinement `LedgerSpec`. Without
  the first assumption they are false, as the run `engine_race` shows.

A guard is about the row a write replaces, so the first needs `OrderInv` (which
status the place of `send` or `poll_fill` left in that row), `ShapeInv` (a stage
has shares exactly in the states that hold some) and `AmountInv` (no fill exceeds
what was asked for, at the exchange, in the log, or in the status in hand).
`ConfigInv` follows the three commits of `_close_if_complete`. `TruthInv` adds to
`SettledIsFinal` that the log never knows more than the exchange, and that between
two awaits the status in hand is still the exchange's own.

`HoldingsAreRecorded` says that a stage holds the sum, over its ended orders, of
what their rows say they changed. It needs no assumption about the exchange and
holds between any two commits, because an order counts as open until its stage row
is written. Its inductive form, `HoldingsInv`, excepts the
stages that a crash has stranded, of which without a crash there are none; it needs
two parts besides `OrderInv`: `FillsInv` (an order
being sent has no fill in its row, and what `poll_fill` is about to apply is what
the row says) and `AskInv` (an open sell asks for all its stage holds, an open buy
for the lot; this is why `_apply_fill` may replace a bought stage by the fill and
take a sold one down by it). The step that matters is the one that writes the stage
row: one order leaves the open ones, its term of the sum appears, and the holding
changes by exactly that term (`SumChange`). When the exchange rests between awaits,
`TruthInv` turns "what the rows say" into "what the exchange did"; that is
`StageMatchesExchange`, and with a single open order per stage the exchange's
position is the holding plus that order's own fills (`Position`), from which the
other two follow. The same equation is the refinement mapping: recording an order
and marking its stage is a `Begin`, a fill is a `Move`, the write of the stage row
is an `End`, and every other step changes nothing the ledger sees.

`RecoveryProofs` proves about `RSpec`, for every number of crashes, at every step,
and every setting of the constants, late deliveries and lost answers included:

- `RecoveryTypes`: `RSpec => []RTypeOK`.
- `SettledForGood`: `RSpec => TerminalIsFinal`, an action property.
- `NoOrphanOrders`: `RSpec => []WriteAhead`.

With any number of crashes at any time the engine's own invariants do not survive
(`crash_duplicate`, `crash_stuck`, and the second crash of section 3), so `RowsInv` is weaker and made
for the one question which rows may still be written: the row in hand and the rows
still to do are not settled, except the row in hand after its own last write.
`NoOrphanOrders` needs only that an order goes to the exchange from a place where its
row is written.

For one crash, at any step, `RecoveryProofs` proves that the order path stays sound.
The hypothesis of these theorems is `CleanCrash`: one crash at most, a restart after
the close and before midnight, an exchange that rests between two awaits, and no
order that arrives after its inquiry. The run `recovery_at_close` is an instance of
it. Each clause excludes what is known to go wrong: a second crash
(section 3), a restart before the close (`crash_duplicate`) or after midnight
(`crash_overnight`), a fill between two awaits (`engine_race`); that no order arrives
after its inquiry is what `_resolve_unknown` relies on.

- `CrashInvariant`: `RSpec => []CrashInv`.
- `CrashOnlySticks`: `RSpec => []OnlyStuckStagesDiffer`.
- `CrashNoDoubleOrder`: `RSpec => []OneOrderPerStage`.
- `CrashSettlesTruly`: `RSpec => []SettledIsFinal`.
- `CrashStaysCovered`: `RSpec => [](SellsAreCovered /\ ClosedIsFlat)`.
- `CrashPollSafety`: `RSpec => []PollFindsItsStage`.
- `CrashImplementsLedger`: `RSpec => LedgerSpec`.

The run checks `CrashInv`, from which the others follow, and the two of them that are
most telling; each of the rest is also a property of `engine_fake` or `engine_live`,
without the crash.

`CrashInv` has a disjunct for each part of such a behaviour. Before the crash it is
`RunInv`, all of the engine's invariants in the form that a crash leaves alone, with
`WholeInv`. While the program is down and recovers it is `AwayInv`, which has no
place of the coroutine to speak of and says what the rows and the exchange determine
between them: a pending row of a PENDING stage *waits* for recovery, there is one per
stage, and any other pending row was left SENDING and never reached the exchange
(`WaitsAgree`); what the log says of an order is true or too little (`RowsTell`);
recovery has every waiting row still to do, and works from a list that is the
exchange's own record (`RecoverInv`), because the market is closed and the day not
over (`TodayInv`); and a stage holds the fills of all its orders but the waiting one
(`HoldingsAway`). When the last row is done nothing waits, so no order is at the
exchange, and `RunInv` holds again: what is left of the crash are rows that stay
SENDING (`OrphanInv`: their stage is PENDING only for another order) and stages
that stay PENDING (`Forgotten`), the two exceptions the engine's invariants make. The
argument for `OneOrderPerStage` and the others then is the engine's own, and
`OrphanInv` is also where a second crash breaks in: it allows a SENDING row beside
the open order of a stage, and recovery cannot tell the two apart.

In the refinement the crash is a stutter, a fill while the program is down is a
`Move` of the order its stage waits for (`LedgerDown`), the write of the order row in
recovery is a stutter, and the write of the stage row is the `End` the crash had
kept from happening (`LedgerEnds`).

`EmergencyProofs` proves about `ESpec`, for every number of market sells besides:

- `EmergencyTypeCorrect`: `ESpec => []ETypeOK`.
- `LiquidationNeverUndone`: `ESpec => LiquidationIsFinal`, an action property.
- `OrdersAreWatched`: `ESpec => []NumberedOrderIsWatched`.
- `FillsAreReal`: `ESpec => []NothingInvented`.
- `SuccessLeavesNothing`: `ESpec => []SuccessIsEmpty`.
- `PausesAreJustified`: `ESpec => []PauseHasAReason`.

`ERowsInv` extends `RowsInv` to the loop of `_cancel_open_orders`: the rows it has
not handled are pending. `LiqInv` says why nothing can undo a liquidation:
decisions and orders in hand exist in a RUNNING cycle only, a command works on a
LIQUIDATING one, and a closed cycle has no PENDING stage, so no poll and no
recovery that comes later has a stage to write. `WatchInv` says that, before the
first crash, a row is settled only after the exchange is done with its order: at
the commit of a cancel, in `poll_fill` or in the command's loop, the order is no
longer at the exchange, and an order being sent has no number yet. `FillInv` is
that nobody holds a fill the exchange does not have: no row, not the status in
hand, not the list recovery took. `SaleInv` says the same of market sells, whose
rows are used in their order.

`EmptyInv` follows the balance through a command. `Matched` says that the rows tell
all that was bought; while that is so, the balance can only fall once a command has
seen it, because sells and market sells lower it and a buy that raises it is one no
row tells of. So what is in the account when the market sell was asked for bounds
the balance until its answer is in (`Balance` plus what the sell has done is at most
what it asked for), and a close as a success finds nothing left. A crash keeps all
of this: the invariant speaks of rows and of the exchange, and a liquidation that a
crash cut off is begun anew. `EarlyInv` carries the invariants of `RowProofs` into
`ESpec`, where they hold until the first crash or the first command, for those steps
are the steps of `Engine`. In that time the account has seen limit orders only; if
every row tells what the exchange did, the shares of all stages together are the
balance, because the sum over the orders can be taken stage by stage (`SumByClass`).

`LadderProofs` proves about `Ladder`, for every denominator, ratio, amount, anchor
and raw price of at least one won:

- `RoundDownValid`, `RoundDownGreatest`: a buy is rounded to the greatest price
  the exchange accepts that is not above the raw one.
- `RoundUpValid`, `RoundUpLeast`: a sell is rounded to the least such price not
  below it, also where the rounding crosses into the next band.
- `TriggersFall`, `EveryStageBuysOne`, `PlanFits`: the checks of `Ladder` on the
  first and last stage are enough for all of them.
- `TargetKeepsProfit`: a target is valid, keeps the whole profit and is above
  cost.

The argument: a quotient times its unit is a multiple of the unit (`Multiple`,
`Quotient`), each unit divides the coarser ones (`Bands`, `Divides`), and a band
starts at a multiple of its unit, so a price rounded up by less than a unit is
valid even at the boundary (`NextBand`) and a price of a lower band leaves room
for a multiple of this one's unit (`Room`). `TriggersFall` then needs only that
rounding down is the greatest valid price. The rows of `market` use these
operators as they are.

`MarketProofs` proves about `Market`, for every number of cycles, stages, stocks,
limits and prices, and every script:

- `PricesAreSound`: `Spec => []OrderPrices`.
- `PlanIsABound`: `Spec => []PlanBound`.
- `DecisionsAreCovered`: `Spec => []DecideIsCovered`.
- `RowsAreWellFormed`: `Spec => []MarketTypeOK`.
- `NoCycleLoses`: `Spec => []NoLoss`.
- `LimitsHold`: `Spec => []LimitHolds`.
- `RateIsLimited`: `Spec => []RateLimit`.

`MarketInv` is what the rows remember of the ladder: the anchor of a running cycle
is one `Ladder` accepts, a buy in flight is not above its stage's trigger, what is
held was bought at most there and is at most the planned quantity, and a sell is at
the target of the price paid. Each of these is set in one step and used in a later
one, at another price; the bounds then follow from `LadderProofs`.
`DecisionsAreCovered` ties the two halves together: what `decide` does with a price
and a clock is among the decisions `Engine` starts from.

`ShapeInv` (limits, prices and shares only where the status has them) completes the
types. `MoneyInv` is the bookkeeping of a cycle: cash plus holdings at cost is not
negative, and positive once something was sold; a fill moves the same amount
between the two at cost, or turns cost into cost and profit (`TargetKeepsProfit`).
`LimitInv` says, while no two buys have overlapped, that there is one buy in flight
at most and that the limits have room for it: `check_buy` estimated it at the
planned quantity, and it fills with no more at no higher price. `RateInv` relates
the deque to the orders actually sent: every window that reaches back less than
`RateWindow` holds as many orders as the deque has stamps in it, so the oldest
stamps that `count` drops are exactly those no later window needs. The sums of
orders are compared window by window with `SumWithout` and `SumZero`.

`DeskProofs` proves about `Desk`, for every number of configurations, stages, own
shares, cycles, commands, sales by hand and sessions, crashes at every commit
included:

- `RowsSafety`: `Spec => []EveryRowLoads`.
- `ConfigSafety`: `Spec => []ConfigIsHonest`.
- `WaitSafety`: `Spec => []EmergencyWaitsOneTick`.
- `BooksSafety`: `Spec => []BooksBalance`.
- `DeskTypes`: `Spec => []DTypeOK`.

`EveryRowLoads` alone is not inductive: it would let the cycle get its anchor over
rows of another attempt. `RowsInv` adds what is known of the cycle in hand
(`HandInv`): while `_confirm_anchor` writes, it is STARTING and every row below
`level` is of this tick's ladder; and a STARTING cycle has no anchor (`RowOk`), so
old rows are nobody's contradiction yet. When the last row is written all are new,
and only then the cycle gets its anchor: the order that `_confirm_anchor`'s
docstring argues for is what the proof uses. `ConfInv` speaks of a configuration
that is not `Crowded`: its status tells whether it has an open cycle, except between
the two commits of a start or after the close (`Midway`) or if a crash fell there
(`torn`). Why a close may then write IDLE is `SecondsAreMarked`: of two open cycles
the later one is marked as started beside another, so if one stays open when the
other closes, the configuration is crowded still.
`WaitInv` says where an emergency that has waited can be: still in its queue, with
the drain of the ordinary commands over, so the next drain takes it first.
`BooksBalance` is inductive as it stands, given `RowsInv`: each step that writes a
cycle changes the claims and the baseline by what that one cycle contributed before
and after (`BooksWrite`), and the account by at least as much, or sets `strayed`. The
types need that the bounds of the model hold: `RoomInv` gives each cycle one share
to buy, once, and `CellsInv` that the lists `liquidate_all` and `on_tick` walk are
lists of cycles that are there.

`SumProofs` is what makes the sums provable. `SumFunctionOnSet` of the community
modules is a fold, a recursive function on the subsets of a finite set. Of the
subsets for which a claim fails there would be a smallest one (`SmallestSubset`, from
the library's theorem that strict inclusion is well-founded on finite subsets); so
the fold is what its equation says (`SumUnfold`), removing an element removes its
term (`SumRemove`), and from there come the facts the other modules cite: two
functions that agree have the same sum, one changed term changes the sum by the
difference, a sum splits over a partition (`SumPart`, `SumByClass`). The set of
claims that fail is an ordinary set, so no theorem with an operator parameter is
needed.

Not proved, only model-checked: liveness (`PendingIsAnswered`, `StartIsConfirmed`)
and whatever needs ENABLED, which the prover does not reach. Every invariant and
every action property of the passing runs is a theorem; those of `recovery_at_close`
for one crash under `CleanCrash`, where more is false.

## 5. Not modelled, and the plan

Not modelled, because no state of the engine depends on it: the user interface (it
presents events and snapshots and never touches the database), the command line,
events, snapshots and settings, the text codec and the migration, the history logs
nobody reads back (`emergency_liquidation_log`, `reconcile_log` but for the reset
of the baseline), logging and the wording of reasons.

Not modelled although it is control: `_save_config` and `update_config` (the window
only creates configurations, `config_id` is always `None`; an existing one that is
IDLE could be changed by a command nothing sends), and of `_isolate` the pause of
a RUNNING cycle whose rows cannot be loaded - a state that, by `RowsSafety`, no sequence of
commits reaches. (What it does to a STARTING one, nothing, is `RefuseAnchor`.)

Met while modelling, and not a property: `Cycle.start` and `abort_start` are never
called, `create_cycle` inserts STARTING; a cycle that was liquidated before it had
a stage row cannot be closed while the account has no shares, because `close`
refuses an empty list of stages; a failed cancel followed by the close leaves a
pending row on a SOLD stage, whose next poll raises `ValueError` and ends the
engine, after every restart again, because recovery skips such a row.

What is left, in the order of its worth:

1. **Several stocks** in `Desk`: the subscription of `run` and the per-stock
   baselines; today all configurations are of one stock.
2. **Saving a configuration**, when the window learns to change one.
