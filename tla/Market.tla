-------------------------------- MODULE Market --------------------------------
(***************************************************************************)
(* Decisions under a moving price: Orchestrator._advance with domain/rules *)
(* and the GuardGate, for several cycles over one script of ticks.         *)
(*                                                                         *)
(* Here the prices, the clock and the money matter, and not how an order   *)
(* travels (Engine has that): an order is in flight until Settle, which    *)
(* stands for everything the Executor does with it until the order ended,  *)
(* filled in whole, in part or not at all.                                 *)
(***************************************************************************)
EXTENDS Ladder, Sequences, SequencesExt, FiniteSetsExt

CONSTANTS
  Cycles,      \* ids of the cycles, in the order load_active_cycles gives them
  AllowRebuy,  \* split_config.allow_rebuy
  Cooldown,    \* rebuy_cooldown_sec
  StockLimit,  \* split_config.total_limit, per stock
  TotalLimit,  \* EngineSettings.total_limit
  MaxRate,     \* max_orders_per_minute
  RateWindow,  \* the length of that minute
  Prices,      \* bound: the prices of the ticks
  Horizon      \* bound: the number of ticks

ASSUME MarketAssumption ==
  /\ Cycles \subseteq Nat \ {0} /\ IsFiniteSet(Cycles)
  /\ AllowRebuy \in BOOLEAN
  /\ {Cooldown, StockLimit, TotalLimit, MaxRate, Horizon} \subseteq Nat
  /\ RateWindow \in Nat \ {0}
  /\ Prices \subseteq Nat /\ \A p \in Prices : ValidPrice(p)

VARIABLES
  stock,    \* the stock each cycle trades
  now,      \* the time of the last tick
  tick,     \* its price
  todo,     \* cycles of its stock that _advance has not visited yet
  status,   \* cycle.status
  anchor,   \* cycle.anchor_price
  stages,   \* stage_state rows
  stamps,   \* OrderRateWindow._stamps
  cash,     \* proceeds of a cycle's fills less their cost
  sent,     \* history: the number of orders sent at each time
  overlap   \* history: was a buy sent while another one was in flight?

vars == <<stock, now, tick, todo, status, anchor, stages, stamps, cash, sent,
          overlap>>

\* The stage rows as Engine has them, without prices and times.
L == INSTANCE StageLife WITH Lot <- Amount

Fresh == [status |-> "WAITING", price |-> 0, qty |-> 0, sold |-> 0, limit |-> 0]

\* Several configurations may trade one stock.
Init ==
  /\ stock \in {f \in [Cycles -> Cycles] : \A c \in Cycles : f[c] <= c}
  /\ now = 0 /\ tick = 0 /\ todo = {}
  /\ status = [c \in Cycles |-> "STARTING"]
  /\ anchor = [c \in Cycles |-> 0]
  /\ stages = [c \in Cycles |-> [n \in Stages |-> Fresh]]
  /\ stamps = <<>>
  /\ cash = [c \in Cycles |-> 0]
  /\ sent = [t \in 1..Horizon |-> 0]
  /\ overlap = FALSE

---------------------------------------------------------------------------
(* Money *)

\* The cost of what a stage holds, sold or not yet.
Cost(row) ==
  IF row.status \in {"HOLDING", "SELL_PENDING"} THEN row.price * row.qty ELSE 0

\* invested_amount
Invested(c) == SumFunction([n \in Stages |-> Cost(stages[c][n])])

\* compute_exposure over the active cycles C: a buy in flight is not in it.
Exposure(C) ==
  SumFunctionOnSet([c \in Cycles |-> Invested(c)], {c \in C : status[c] # "CLOSED"})

SameStock(c) == {d \in Cycles : stock[d] = stock[c]}

---------------------------------------------------------------------------
(* The order rate window *)

\* Mutant: the window is one second short.
ExpiredEarly ==
  {i \in 1..Len(stamps) : \A j \in 1..i : stamps[j] <= now - RateWindow + 1}

\* OrderRateWindow.count pops from the left what is as old as the window or older.
Expired ==
  {i \in 1..Len(stamps) : \A j \in 1..i : stamps[j] <= now - RateWindow}

Recent == SubSeq(stamps, Cardinality(Expired) + 1, Len(stamps))

\* record_order for each of k orders.
Record(k) ==
  /\ stamps' = Recent \o [i \in 1..k |-> now]
  /\ sent' = [sent EXCEPT ![now] = @ + k]

---------------------------------------------------------------------------
(* decide *)

\* _eval_sells: every holding that reached its target.
Sells(c) ==
  {n \in Stages : /\ stages[c][n].status = "HOLDING"
                  /\ tick >= TargetPrice(stages[c][n].price)}

CooledDown(row) == row.sold # 0 => AllowRebuy /\ now - row.sold >= Cooldown

Buyable(c) ==
  {n \in Stages : /\ stages[c][n].status = "WAITING"
                  /\ CooledDown(stages[c][n])
                  /\ tick <= Trigger(anchor[c], n)}

\* Mutants: the trigger is not looked at; the highest stage goes first.
BuyAnyPrice(c) ==
  LET B == {n \in Stages : /\ stages[c][n].status = "WAITING"
                           /\ CooledDown(stages[c][n])}
  IN  IF Sells(c) = {} /\ B # {} THEN {Min(B)} ELSE {}

BuyHighest(c) ==
  IF Sells(c) = {} /\ Buyable(c) # {} THEN {Max(Buyable(c))} ELSE {}

\* _eval_buy: the lowest stage that may be bought, when nothing is to be sold.
Buy(c) == IF Sells(c) = {} /\ Buyable(c) # {} THEN {Min(Buyable(c))} ELSE {}

---------------------------------------------------------------------------
(* on_tick: each active cycle of the stock in turn *)

Tick(p, s) ==
  /\ todo = {} /\ now < Horizon
  /\ now' = now + 1 /\ tick' = p
  /\ todo' = {c \in Cycles : stock[c] = s /\ status[c] # "CLOSED"}
  /\ UNCHANGED <<stock, status, anchor, stages, stamps, cash, sent, overlap>>

Turn(c) == c \in todo /\ c = Min(todo) /\ todo' = todo \ {c}

\* _confirm_anchor; a price that makes no ladder leaves the cycle STARTING.
ConfirmAnchor(c) ==
  /\ Turn(c) /\ status[c] = "STARTING"
  /\ IF LadderOk(tick)
     THEN /\ status' = [status EXCEPT ![c] = "RUNNING"]
          /\ anchor' = [anchor EXCEPT ![c] = tick]
          /\ stages' = [stages EXCEPT ![c] = [n \in Stages |-> Fresh]]
     ELSE UNCHANGED <<status, anchor, stages>>
  /\ UNCHANGED <<stock, now, tick, stamps, cash, sent, overlap>>

NoDecision(c) ==
  /\ Turn(c) /\ status[c] = "RUNNING"
  /\ Sells(c) = {} /\ Buy(c) = {}
  /\ UNCHANGED <<stock, now, tick, status, anchor, stages, stamps, cash, sent,
                 overlap>>

Offered(row) ==
  [row EXCEPT !.status = "SELL_PENDING", !.limit = TargetPrice(row.price)]

\* The rate guard is asked before each sell, in the order of the stages.
SendSells(c) ==
  /\ Turn(c) /\ status[c] = "RUNNING"
  /\ Sells(c) # {}
  /\ LET go == {n \in Sells(c) :
                  Len(Recent) + Cardinality({m \in Sells(c) : m < n}) < MaxRate}
     IN  /\ stages' = [stages EXCEPT ![c] = [n \in Stages |->
              IF n \in go THEN Offered(stages[c][n]) ELSE stages[c][n]]]
         /\ Record(Cardinality(go))
  /\ UNCHANGED <<stock, now, tick, status, anchor, cash, overlap>>

\* Mutant: the shares to be bought are not added to what is held.
GuardIgnoresEstimate(c, n) ==
  /\ Len(Recent) < MaxRate
  /\ Exposure(SameStock(c)) <= StockLimit
  /\ Exposure(Cycles) <= TotalLimit

\* check_buy
GuardAllows(c, n) ==
  LET estimate == tick * PlannedQty(anchor[c], n)
  IN  /\ Len(Recent) < MaxRate
      /\ Exposure(SameStock(c)) + estimate <= StockLimit
      /\ Exposure(Cycles) + estimate <= TotalLimit

InFlight ==
  {x \in Cycles \X Stages : stages[x[1]][x[2]].status = "BUY_PENDING"}

SendBuy(c, n) ==
  /\ Turn(c) /\ status[c] = "RUNNING"
  /\ n \in Buy(c) /\ GuardAllows(c, n)
  /\ stages' = [stages EXCEPT ![c][n].status = "BUY_PENDING",
                                ![c][n].limit = tick]
  /\ Record(1)
  /\ overlap' = (overlap \/ InFlight # {})
  /\ UNCHANGED <<stock, now, tick, status, anchor, cash>>

BlockBuy(c, n) ==
  /\ Turn(c) /\ status[c] = "RUNNING"
  /\ n \in Buy(c) /\ ~GuardAllows(c, n)
  /\ stamps' = Recent
  /\ UNCHANGED <<stock, now, tick, status, anchor, stages, cash, sent, overlap>>

---------------------------------------------------------------------------
(* poll_pending, once the order has ended with f shares at price p *)

\* Mutant: an order that ended without a fill makes a holding too.
BoughtEmpty(row, f, p) ==
  [row EXCEPT !.status = "HOLDING", !.limit = 0, !.price = p, !.qty = f]

Bought(row, f, p) ==
  IF f = 0 THEN [row EXCEPT !.status = "WAITING", !.limit = 0]
  ELSE [row EXCEPT !.status = "HOLDING", !.limit = 0, !.price = p, !.qty = f]

Sold(row, f) ==
  IF f = row.qty
  THEN [Fresh EXCEPT !.status = IF AllowRebuy THEN "WAITING" ELSE "SOLD",
                     !.sold = now]
  ELSE [row EXCEPT !.status = "HOLDING", !.limit = 0, !.qty = @ - f]

\* is_cycle_complete, and something was ever sold.
Complete(rows) ==
  /\ \A n \in Stages : rows[n].status \in {"WAITING", "SOLD"}
  /\ \E n \in Stages : rows[n].sold # 0

Close(c) ==
  status' = [status EXCEPT ![c] = IF Complete(stages'[c]) THEN "CLOSED" ELSE @]

\* A limit order fills at its limit or better.
SettleBuy(c, n, p) ==
  /\ todo = {}
  /\ stages[c][n].status = "BUY_PENDING" /\ p <= stages[c][n].limit
  /\ \E f \in 0..PlannedQty(anchor[c], n) :
       /\ stages' = [stages EXCEPT ![c][n] = Bought(@, f, p)]
       /\ cash' = [cash EXCEPT ![c] = @ - f * p]
  /\ Close(c)
  /\ UNCHANGED <<stock, now, tick, todo, anchor, stamps, sent, overlap>>

SettleSell(c, n, p) ==
  /\ todo = {}
  /\ stages[c][n].status = "SELL_PENDING" /\ p >= stages[c][n].limit
  /\ \E f \in 0..stages[c][n].qty :
       /\ stages' = [stages EXCEPT ![c][n] = Sold(@, f)]
       /\ cash' = [cash EXCEPT ![c] = @ + f * p]
  /\ Close(c)
  /\ UNCHANGED <<stock, now, tick, todo, anchor, stamps, sent, overlap>>

Next ==
  \/ \E p \in Prices, c \in Cycles : Tick(p, stock[c])
  \/ \E c \in Cycles :
       \/ ConfirmAnchor(c) \/ NoDecision(c) \/ SendSells(c)
       \/ \E n \in Stages :
            \/ SendBuy(c, n) \/ BlockBuy(c, n)
            \/ \E p \in Prices : SettleBuy(c, n, p) \/ SettleSell(c, n, p)

Spec == Init /\ [][Next]_vars

---------------------------------------------------------------------------
(* Properties *)

\* Rows are well-formed (StageState.__post_init__): what is held has a price and
\* shares, and exactly what is in flight has a limit.
MarketTypeOK ==
  /\ now \in 0..Horizon /\ tick \in Prices \cup {0} /\ todo \subseteq Cycles
  /\ status \in [Cycles -> {"STARTING", "RUNNING", "CLOSED"}]
  /\ anchor \in [Cycles -> Prices \cup {0}]
  /\ cash \in [Cycles -> Int]
  /\ \A i \in 1..Len(stamps) : stamps[i] \in 1..now
  /\ \A c \in Cycles, n \in Stages :
       LET row == stages[c][n]
       IN  /\ row.status \in L!StageStatus
           /\ row.sold \in 0..now
           /\ (row.limit # 0) = (row.status \in {"BUY_PENDING", "SELL_PENDING"})
           /\ IF row.status \in {"HOLDING", "SELL_PENDING"}
              THEN row.price > 0 /\ row.qty \in 1..Amount
              ELSE row.price = 0 /\ row.qty = 0

\* Every order carries a price the exchange accepts; a buy is not above the raw
\* drop of its stage, and a sell keeps the target profit over the cost of the
\* shares, whatever the rounding did.
OrderPrices ==
  \A c \in Cycles, n \in Stages :
    LET row == stages[c][n]
    IN  /\ row.status = "BUY_PENDING" =>
             /\ ValidPrice(row.limit)
             /\ row.limit * Den <= RawTrigger(anchor[c], n)
        /\ row.status = "SELL_PENDING" =>
             /\ ValidPrice(row.limit)
             /\ row.limit * Den >= row.price * (Den + Target)

\* The strategy never sells at a loss: what a cycle has spent is held at cost or
\* has come back with a profit, through partial fills, re-buys and prices better
\* than the limit; and a cycle that closed has earned something.
NoLoss ==
  \A c \in Cycles :
    /\ cash[c] + Invested(c) >= 0
    /\ status[c] = "CLOSED" => cash[c] > 0 /\ Invested(c) = 0

\* No stage ever holds or orders for more than amount_per_stage (the plan the
\* user approved), however far the price gapped below the trigger.
PlanBound ==
  \A c \in Cycles, n \in Stages :
    /\ Cost(stages[c][n]) <= Amount
    /\ stages[c][n].status = "BUY_PENDING" =>
         stages[c][n].limit * PlannedQty(anchor[c], n) <= Amount

\* In no window of RateWindow seconds more than MaxRate orders are sent, counted
\* from the orders themselves and not from the deque.
RateLimit ==
  \A t \in 1..Horizon :
    SumFunctionOnSet(sent, {u \in 1..t : u > t - RateWindow}) <= MaxRate

\* compute_exposure's comment: what the limits restrict is the simultaneous
\* exposure, per stock and in total.
ExposureWithinLimits ==
  /\ Exposure(Cycles) <= TotalLimit
  /\ \A c \in Cycles : Exposure(SameStock(c)) <= StockLimit

\* The limits hold as long as no two buys were in flight together; the exposure
\* leaves out what is in flight, so together they may exceed a limit.
LimitHolds == ~overlap => ExposureWithinLimits

\* Engine leaves prices and clocks out and lets a tick choose any of Decisions;
\* that covers what decide returns, because triggers fall from stage to stage.
DecideIsCovered ==
  \A c \in todo :
    status[c] = "RUNNING" =>
      LET rows == [n \in Stages |-> [status |-> stages[c][n].status,
                                     qty    |-> stages[c][n].qty,
                                     sold   |-> stages[c][n].sold # 0]]
      IN  {Sells(c), Buy(c)} \subseteq L!DecisionsOf(rows) \cup {{}}
===============================================================================
