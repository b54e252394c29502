---------------------------- MODULE MarketProofs ----------------------------
(***************************************************************************)
(* Proofs about the decisions of Market, for every ladder, every set of    *)
(* prices and any number of cycles: what an order may cost, and that a     *)
(* sell keeps its profit, from the arithmetic of LadderProofs; that no     *)
(* cycle loses, and that the limits and the rate of the guards hold.       *)
(***************************************************************************)
EXTENDS Market, LadderProofs, SumProofs, SequenceTheorems

MarketRow == [status: L!StageStatus, price: Nat, qty: Nat, sold: Nat, limit: Nat]

Held == {"HOLDING", "SELL_PENDING"}

\* What a row of stage n is under an anchor a: a buy in flight is limited by the
\* trigger, what is held was bought at most there, and a sell asks for its target.
RowOk(a, n, row) ==
  /\ row.status = "BUY_PENDING" =>
       LadderOk(a) /\ ValidPrice(row.limit) /\ row.limit <= Trigger(a, n)
  /\ row.status \in Held =>
       /\ LadderOk(a) /\ row.price > 0 /\ row.price <= Trigger(a, n)
       /\ row.qty > 0 /\ row.qty <= PlannedQty(a, n)
  /\ row.status = "SELL_PENDING" => row.limit = TargetPrice(row.price)

Types ==
  /\ now \in Nat /\ tick \in Prices \cup {0} /\ todo \subseteq Cycles
  /\ todo # {} => tick \in Prices
  /\ status \in [Cycles -> {"STARTING", "RUNNING", "CLOSED"}]
  /\ anchor \in [Cycles -> Nat]
  /\ stages \in [Cycles -> [Stages -> MarketRow]]

LadderInv ==
  /\ \A c \in Cycles : status[c] = "RUNNING" => LadderOk(anchor[c])
  /\ \A c \in Cycles, n \in Stages : RowOk(anchor[c], n, stages[c][n])

MarketInv == Types /\ LadderInv

---------------------------------------------------------------------------
(* Rows *)

LEMMA FreshOk ==
  ASSUME NEW a \in Nat, NEW n \in Stages
  PROVE  Fresh \in MarketRow /\ RowOk(a, n, Fresh)
BY DEF Fresh, MarketRow, RowOk, Held, L!StageStatus

\* The smallest of some stages is one of them.
LEMMA MinIsOne ==
  ASSUME NEW S \in SUBSET Stages, S # {}
  PROVE  Min(S) \in S /\ \A y \in S : Min(S) <= y
<1>1. \A x \in S : x \in 1..7
  BY LadderAssumption DEF Stages
<1>2. \E x \in S : \A y \in S : x <= y
  <2>1. CASE 1 \in S
    BY <1>1, <2>1
  <2>2. CASE 1 \notin S /\ 2 \in S
    BY <1>1, <2>2
  <2>3. CASE 1 \notin S /\ 2 \notin S /\ 3 \in S
    BY <1>1, <2>3
  <2>4. CASE 1 \notin S /\ 2 \notin S /\ 3 \notin S /\ 4 \in S
    BY <1>1, <2>4
  <2>5. CASE 1 \notin S /\ 2 \notin S /\ 3 \notin S /\ 4 \notin S /\ 5 \in S
    BY <1>1, <2>5
  <2>6. CASE 1 \notin S /\ 2 \notin S /\ 3 \notin S /\ 4 \notin S /\ 5 \notin S /\ 6 \in S
    BY <1>1, <2>6
  <2>7. CASE 1 \notin S /\ 2 \notin S /\ 3 \notin S /\ 4 \notin S /\ 5 \notin S /\ 6 \notin S
    BY <1>1, <2>7
  <2> QED
    BY <2>1, <2>2, <2>3, <2>4, <2>5, <2>6, <2>7
<1> QED
  BY <1>2 DEF Min

LEMMA BuyIsBuyable ==
  ASSUME NEW c \in Cycles, NEW n \in Stages, n \in Buy(c)
  PROVE  /\ stages[c][n].status = "WAITING"
         /\ tick <= Trigger(anchor[c], n)
<1>1. Buyable(c) # {} /\ n = Min(Buyable(c))
  BY DEF Buy
<1>2. Buyable(c) \in SUBSET Stages
  BY DEF Buyable
<1>3. n \in Buyable(c)
  BY <1>1, <1>2, MinIsOne
<1> QED
  BY <1>3 DEF Buyable

\* The three ways an order writes its row.
LEMMA OrderedOk ==
  ASSUME NEW a \in Nat, LadderOk(a), NEW n \in Stages, NEW row \in MarketRow,
         NEW p \in Nat, ValidPrice(p), p <= Trigger(a, n),
         NEW new, new = [row EXCEPT !.status = "BUY_PENDING", !.limit = p]
  PROVE  new \in MarketRow /\ RowOk(a, n, new)
BY DEF MarketRow, RowOk, Held, L!StageStatus

LEMMA OfferedOk ==
  ASSUME NEW a \in Nat, NEW n \in Stages, NEW row \in MarketRow,
         row.status = "HOLDING", RowOk(a, n, row)
  PROVE  Offered(row) \in MarketRow /\ RowOk(a, n, Offered(row))
<1>1. row.price \in Nat \ {0}
  BY DEF RowOk, Held, MarketRow
<1>2. TargetPrice(row.price) \in Nat
  <2>1. row.price * (Den + Target) \in Nat /\ row.price * (Den + Target) >= Den
    BY <1>1, LadderAssumption, Z3
  <2> QED
    BY <2>1, RoundUpValid DEF TargetPrice
<1> QED
  BY <1>2 DEF Offered, MarketRow, RowOk, Held, L!StageStatus

LEMMA BoughtOk ==
  ASSUME NEW a \in Nat, NEW n \in Stages, NEW row \in MarketRow,
         row.status = "BUY_PENDING", RowOk(a, n, row), NEW p \in Nat, ValidPrice(p),
         p <= row.limit, NEW f \in 0..PlannedQty(a, n)
  PROVE  Bought(row, f, p) \in MarketRow /\ RowOk(a, n, Bought(row, f, p))
<1>1. LadderOk(a) /\ row.limit <= Trigger(a, n) /\ row.limit \in Nat /\ p > 0
  BY DEF RowOk, MarketRow, ValidPrice
<1>2. Trigger(a, n) \in Nat /\ PlannedQty(a, n) \in Nat
  BY <1>1, RawTriggers, RoundDownValid, EveryStageBuysOne DEF Trigger
<1>3. p <= Trigger(a, n)
  BY <1>1, <1>2
<1>4. CASE f = 0
  BY <1>4 DEF Bought, MarketRow, RowOk, Held, L!StageStatus
<1>5. CASE f # 0
  <2>1. f \in Nat /\ f > 0 /\ f <= PlannedQty(a, n)
    BY <1>2, <1>5
  <2> DEFINE new == [row EXCEPT !.status = "HOLDING", !.limit = 0, !.price = p, !.qty = f]
  <2>2. Bought(row, f, p) = new
    BY <1>5 DEF Bought
  <2>3. new \in MarketRow /\ new.status = "HOLDING" /\ new.price = p /\ new.qty = f
    BY <2>1 DEF MarketRow, L!StageStatus
  <2> HIDE DEF new
  <2> QED
    BY <1>1, <1>3, <2>1, <2>2, <2>3 DEF RowOk, Held
<1> QED
  BY <1>4, <1>5

LEMMA SoldOk ==
  ASSUME NEW a \in Nat, NEW n \in Stages, NEW row \in MarketRow, now \in Nat,
         row.status = "SELL_PENDING", RowOk(a, n, row), NEW f \in 0..row.qty
  PROVE  Sold(row, f) \in MarketRow /\ RowOk(a, n, Sold(row, f))
<1>1. CASE f = row.qty
  BY <1>1 DEF Sold, Fresh, MarketRow, RowOk, Held, L!StageStatus
<1>2. CASE f # row.qty
  <2>1. LadderOk(a) /\ row.qty \in Nat /\ f \in Nat /\ f < row.qty
    BY <1>2 DEF RowOk, Held, MarketRow
  <2>2. PlannedQty(a, n) \in Nat /\ row.qty <= PlannedQty(a, n)
    BY <2>1, EveryStageBuysOne DEF RowOk, Held
  <2>3. row.qty - f \in Nat /\ row.qty - f > 0 /\ row.qty - f <= PlannedQty(a, n)
    BY <2>1, <2>2
  <2> QED
    BY <1>2, <2>1, <2>3 DEF Sold, MarketRow, RowOk, Held, L!StageStatus
<1> QED
  BY <1>1, <1>2

---------------------------------------------------------------------------
(* MarketInv is inductive *)

LEMMA MarketInit == Init => MarketInv
<1> SUFFICES ASSUME Init PROVE MarketInv
  OBVIOUS
<1>1. \A c \in Cycles : anchor[c] \in Nat
  BY DEF Init
<1>2. \A c \in Cycles, n \in Stages :
        stages[c][n] = Fresh /\ Fresh \in MarketRow /\ RowOk(anchor[c], n, stages[c][n])
  BY <1>1, FreshOk DEF Init
<1> QED
  BY <1>1, <1>2 DEF Init, MarketInv, Types, LadderInv

\* A step that writes one row of a cycle.
LEMMA OneRow ==
  ASSUME MarketInv, NEW c \in Cycles, NEW n \in Stages, NEW row \in MarketRow,
         stages' = [stages EXCEPT ![c][n] = row], RowOk(anchor[c], n, row),
         UNCHANGED <<now, tick, anchor>>, todo' \subseteq todo,
         status' \in [Cycles -> {"STARTING", "RUNNING", "CLOSED"}],
         \A d \in Cycles : status'[d] = "RUNNING" => status[d] = "RUNNING"
  PROVE  MarketInv'
<1> USE DEF MarketInv, Types, LadderInv
<1>1. \A d \in Cycles, m \in Stages :
        stages'[d][m] = IF d = c /\ m = n THEN row ELSE stages[d][m]
  OBVIOUS
<1>2. stages' \in [Cycles -> [Stages -> MarketRow]]
  OBVIOUS
<1>3. \A d \in Cycles, m \in Stages : RowOk(anchor'[d], m, stages'[d][m])
  BY <1>1
<1>4. LadderInv'
  BY <1>3
<1> QED
  BY <1>2, <1>4

\* And one that writes none.
LEMMA NoRow ==
  ASSUME MarketInv, UNCHANGED <<stages, now, tick, anchor, status>>, todo' \subseteq todo
  PROVE  MarketInv'
BY DEF MarketInv, Types, LadderInv

LEMMA MarketNext == MarketInv /\ [Next]_vars => MarketInv'
<1> SUFFICES ASSUME MarketInv, [Next]_vars PROVE MarketInv'
  OBVIOUS
<1> USE DEF MarketInv, Types
<1>1. CASE UNCHANGED vars
  BY <1>1, NoRow DEF vars
<1>2. ASSUME NEW p \in Prices, NEW c \in Cycles, Tick(p, stock[c]) PROVE MarketInv'
  BY <1>2 DEF Tick, LadderInv
<1>3. ASSUME NEW c \in Cycles, ConfirmAnchor(c) PROVE MarketInv'
  <2>1. CASE LadderOk(tick)
    <3>1. tick \in Nat
      BY MarketAssumption
    <3>2. /\ status' = [status EXCEPT ![c] = "RUNNING"]
          /\ anchor' = [anchor EXCEPT ![c] = tick]
          /\ stages' = [stages EXCEPT ![c] = [n \in Stages |-> Fresh]]
          /\ UNCHANGED <<now, tick>> /\ todo' = todo \ {c}
      BY <1>3, <2>1 DEF ConfirmAnchor, Turn
    <3>3. \A n \in Stages : Fresh \in MarketRow /\ RowOk(tick, n, Fresh)
      BY <3>1, FreshOk
    <3>4. Types'
      BY <3>1, <3>2, <3>3
    <3>5. \A d \in Cycles, n \in Stages : RowOk(anchor'[d], n, stages'[d][n])
      BY <3>2, <3>3 DEF LadderInv
    <3>6. \A d \in Cycles : status'[d] = "RUNNING" => LadderOk(anchor'[d])
      BY <2>1, <3>2 DEF LadderInv
    <3> QED
      BY <3>4, <3>5, <3>6 DEF LadderInv
  <2>2. CASE ~LadderOk(tick)
    BY <1>3, <2>2, NoRow DEF ConfirmAnchor, Turn
  <2> QED
    BY <2>1, <2>2
<1>4. ASSUME NEW c \in Cycles, NoDecision(c) PROVE MarketInv'
  BY <1>4, NoRow DEF NoDecision, Turn
<1>5. ASSUME NEW c \in Cycles, SendSells(c) PROVE MarketInv'
  <2> DEFINE go == {n \in Sells(c) :
                      Len(Recent) + Cardinality({m \in Sells(c) : m < n}) < MaxRate}
  <2>1. /\ stages' = [stages EXCEPT ![c] = [n \in Stages |->
             IF n \in go THEN Offered(stages[c][n]) ELSE stages[c][n]]]
        /\ UNCHANGED <<now, tick, anchor, status>> /\ todo' = todo \ {c}
    BY <1>5 DEF SendSells, Turn
  <2>2. \A n \in go : n \in Stages /\ stages[c][n].status = "HOLDING"
    BY DEF Sells
  <2> HIDE DEF go
  <2>3. \A n \in go : /\ Offered(stages[c][n]) \in MarketRow
                      /\ RowOk(anchor[c], n, Offered(stages[c][n]))
    BY <2>2, OfferedOk DEF LadderInv
  <2>4. \A d \in Cycles, n \in Stages :
          /\ stages'[d][n] \in MarketRow
          /\ RowOk(anchor[d], n, stages'[d][n])
    BY <2>1, <2>3 DEF LadderInv
  <2>5. stages' \in [Cycles -> [Stages -> MarketRow]]
    BY <2>1, <2>3
  <2> QED
    BY <2>1, <2>4, <2>5 DEF LadderInv
<1>6. ASSUME NEW c \in Cycles, NEW n \in Stages, SendBuy(c, n) PROVE MarketInv'
  <2> DEFINE row == [stages[c][n] EXCEPT !.status = "BUY_PENDING", !.limit = tick]
  <2>1. /\ c \in todo /\ status[c] = "RUNNING" /\ n \in Buy(c)
        /\ stages' = [stages EXCEPT ![c][n] = row]
        /\ UNCHANGED <<now, tick, anchor, status>> /\ todo' = todo \ {c}
    BY <1>6 DEF SendBuy, Turn, MarketRow
  <2>2. tick \in Nat /\ ValidPrice(tick) /\ LadderOk(anchor[c])
    BY <2>1, MarketAssumption DEF LadderInv
  <2>3. stages[c][n].status = "WAITING" /\ tick <= Trigger(anchor[c], n)
    BY <2>1, BuyIsBuyable
  <2>4. row \in MarketRow /\ RowOk(anchor[c], n, row)
    <3>1. anchor[c] \in Nat /\ stages[c][n] \in MarketRow
      OBVIOUS
    <3> QED
      BY <2>2, <2>3, <3>1, OrderedOk
  <2> HIDE DEF row
  <2> QED
    BY <2>1, <2>4, OneRow
<1>7. ASSUME NEW c \in Cycles, NEW n \in Stages, BlockBuy(c, n) PROVE MarketInv'
  BY <1>7, NoRow DEF BlockBuy, Turn
<1>8. ASSUME NEW c \in Cycles, NEW n \in Stages, NEW row \in MarketRow, Close(c),
             stages' = [stages EXCEPT ![c][n] = row], RowOk(anchor[c], n, row),
             UNCHANGED <<now, tick, todo, anchor>>
      PROVE  MarketInv'
  <2>1. \A d \in Cycles : status'[d] = status[d] \/ status'[d] = "CLOSED"
    BY <1>8 DEF Close
  <2>2. status' \in [Cycles -> {"STARTING", "RUNNING", "CLOSED"}]
    BY <1>8 DEF Close
  <2> QED
    BY <1>8, <2>1, <2>2, OneRow
<1>9. ASSUME NEW c \in Cycles, NEW n \in Stages, NEW p \in Prices, SettleBuy(c, n, p)
      PROVE  MarketInv'
  <2>1. PICK f \in 0..PlannedQty(anchor[c], n) :
          stages' = [stages EXCEPT ![c][n] = Bought(stages[c][n], f, p)]
    BY <1>9 DEF SettleBuy
  <2>2. p \in Nat /\ ValidPrice(p)
    BY MarketAssumption
  <2> DEFINE row == Bought(stages[c][n], f, p)
  <2>3. row \in MarketRow /\ RowOk(anchor[c], n, row)
    BY <1>9, <2>2, BoughtOk DEF SettleBuy, LadderInv
  <2> HIDE DEF row
  <2> QED
    BY <1>8, <1>9, <2>1, <2>3 DEF SettleBuy, row
<1>10. ASSUME NEW c \in Cycles, NEW n \in Stages, NEW p \in Prices, SettleSell(c, n, p)
       PROVE  MarketInv'
  <2>1. PICK f \in 0..stages[c][n].qty :
          stages' = [stages EXCEPT ![c][n] = Sold(stages[c][n], f)]
    BY <1>10 DEF SettleSell
  <2> DEFINE row == Sold(stages[c][n], f)
  <2>2. row \in MarketRow /\ RowOk(anchor[c], n, row)
    BY <1>10, SoldOk DEF SettleSell, LadderInv
  <2> HIDE DEF row
  <2> QED
    BY <1>8, <1>10, <2>1, <2>2 DEF SettleSell, row
<1> QED
  BY <1>1, <1>2, <1>3, <1>4, <1>5, <1>6, <1>7, <1>9, <1>10 DEF Next

LEMMA MarketInvariant == Spec => []MarketInv
BY MarketInit, MarketNext, PTL DEF Spec

\* Every order carries a price the exchange accepts, a buy not above the raw drop
\* of its stage and a sell with the target profit, for every ladder and price.
THEOREM PricesAreSound == Spec => []OrderPrices
<1>1. MarketInv => OrderPrices
  <2> SUFFICES ASSUME MarketInv, NEW c \in Cycles, NEW n \in Stages
               PROVE  LET row == stages[c][n]
                      IN  /\ row.status = "BUY_PENDING" =>
                               /\ ValidPrice(row.limit)
                               /\ row.limit * Den <= RawTrigger(anchor[c], n)
                          /\ row.status = "SELL_PENDING" =>
                               /\ ValidPrice(row.limit)
                               /\ row.limit * Den >= row.price * (Den + Target)
    BY DEF OrderPrices
  <2> DEFINE row == stages[c][n]
             a == anchor[c]
  <2>1. /\ a \in Nat /\ row \in MarketRow /\ row.limit \in Nat /\ row.price \in Nat
        /\ RowOk(a, n, row)
    BY DEF MarketInv, Types, LadderInv, MarketRow
  <2>2. ASSUME row.status = "BUY_PENDING"
        PROVE  ValidPrice(row.limit) /\ row.limit * Den <= RawTrigger(a, n)
    <3>1. LadderOk(a) /\ ValidPrice(row.limit) /\ row.limit <= Trigger(a, n)
      BY <2>1, <2>2 DEF RowOk
    <3>2. /\ RawTrigger(a, n) \in Nat /\ Trigger(a, n) \in Nat
          /\ Trigger(a, n) * Den <= RawTrigger(a, n)
      BY <2>1, <3>1, RawTriggers, RoundDownValid DEF Trigger
    <3> HIDE DEF row, a
    <3>3. Den \in Nat \ {0}
      BY LadderAssumption
    <3>4. row.limit * Den <= Trigger(a, n) * Den
      BY <2>1, <3>1, <3>2, <3>3, Cancel
    <3>5. row.limit * Den \in Nat /\ Trigger(a, n) * Den \in Nat
      BY <2>1, <3>2, <3>3
    <3> QED
      BY <3>1, <3>2, <3>4, <3>5
  <2>3. ASSUME row.status = "SELL_PENDING"
        PROVE  ValidPrice(row.limit) /\ row.limit * Den >= row.price * (Den + Target)
    <3>1. row.price \in Nat \ {0} /\ row.limit = TargetPrice(row.price)
      BY <2>1, <2>3 DEF RowOk, Held
    <3> QED
      BY <3>1, TargetKeepsProfit
  <2> QED
    BY <2>2, <2>3
<1> QED
  BY <1>1, MarketInvariant, PTL

\* No stage ever holds or orders for more than amount_per_stage.
THEOREM PlanIsABound == Spec => []PlanBound
<1>1. MarketInv => PlanBound
  <2> SUFFICES ASSUME MarketInv, NEW c \in Cycles, NEW n \in Stages
               PROVE  /\ Cost(stages[c][n]) <= Amount
                      /\ stages[c][n].status = "BUY_PENDING" =>
                           stages[c][n].limit * PlannedQty(anchor[c], n) <= Amount
    BY DEF PlanBound
  <2> DEFINE row == stages[c][n]
             a == anchor[c]
  <2>1. /\ a \in Nat /\ row \in MarketRow /\ row.limit \in Nat /\ row.price \in Nat
        /\ row.qty \in Nat /\ RowOk(a, n, row)
    BY DEF MarketInv, Types, LadderInv, MarketRow
  <2> HIDE DEF row, a
  <2>2. ASSUME NEW p \in Nat, LadderOk(a), p <= Trigger(a, n)
        PROVE  /\ PlannedQty(a, n) \in Nat
               /\ PlannedQty(a, n) * p <= Amount /\ p * PlannedQty(a, n) <= Amount
    <3>1. PlannedQty(a, n) \in Nat /\ PlannedQty(a, n) * p <= Amount
      BY <2>1, <2>2, PlanFits, EveryStageBuysOne
    <3> QED
      BY <3>1
  <2>3. row.status = "BUY_PENDING" => row.limit * PlannedQty(a, n) <= Amount
    BY <2>1, <2>2 DEF RowOk
  <2>4. Cost(row) <= Amount
    <3>1. CASE row.status \in Held
      <4>1. LadderOk(a) /\ row.price <= Trigger(a, n) /\ row.qty <= PlannedQty(a, n)
        BY <2>1, <3>1 DEF RowOk
      <4>2. PlannedQty(a, n) \in Nat /\ row.price * PlannedQty(a, n) <= Amount
        BY <2>1, <2>2, <4>1
      <4>3. row.price * row.qty <= row.price * PlannedQty(a, n)
        BY <2>1, <4>1, <4>2, Scale
      <4>4. row.price * row.qty \in Nat /\ row.price * PlannedQty(a, n) \in Nat
        BY <2>1, <4>2
      <4> QED
        BY <3>1, <4>2, <4>3, <4>4, LadderAssumption DEF Cost, Held
    <3>2. CASE row.status \notin Held
      BY <3>2, LadderAssumption DEF Cost, Held
    <3> QED
      BY <3>1, <3>2
  <2> QED
    BY <2>3, <2>4 DEF row, a
<1> QED
  BY <1>1, MarketInvariant, PTL

\* What decide returns is one of the decisions Engine lets a tick make: several
\* holdings to sell, or one stage to buy below which nothing waits uncooled.
THEOREM DecisionsAreCovered == Spec => []DecideIsCovered
<1>1. MarketInv => DecideIsCovered
  <2> SUFFICES ASSUME MarketInv, NEW c \in Cycles, status[c] = "RUNNING",
                      NEW rows,
                      rows = [n \in Stages |-> [status |-> stages[c][n].status,
                                                qty    |-> stages[c][n].qty,
                                                sold   |-> stages[c][n].sold # 0]]
               PROVE  {Sells(c), Buy(c)} \subseteq L!DecisionsOf(rows) \cup {{}}
    BY DEF DecideIsCovered, MarketInv, Types
  <2>1. /\ anchor[c] \in Nat /\ LadderOk(anchor[c]) /\ todo \subseteq Cycles
        /\ \A n \in Stages : stages[c][n] \in MarketRow
    BY DEF MarketInv, Types, LadderInv
  <2>2. L!Stages = Stages
    BY DEF Stages, L!Stages
  <2>3. Sells(c) \in SUBSET {s \in L!Stages : rows[s].status = "HOLDING"}
    BY <2>2 DEF Sells
  <2>4. ASSUME Buy(c) # {}
        PROVE  \E t \in Stages :
                 /\ Buy(c) = {t} /\ rows[t].status = "WAITING"
                 /\ rows[t].sold => AllowRebuy
                 /\ \A u \in 1..(t - 1) : rows[u].status = "WAITING" => rows[u].sold
    <3> DEFINE t == Min(Buyable(c))
    <3>1. Buy(c) = {t} /\ Buyable(c) # {} /\ Buyable(c) \in SUBSET Stages
      BY <2>4 DEF Buy, Buyable
    <3>2. t \in Buyable(c) /\ \A u \in Buyable(c) : t <= u
      BY <3>1, MinIsOne
    <3> HIDE DEF t
    <3>3. /\ t \in Stages /\ rows[t].status = "WAITING" /\ (rows[t].sold => AllowRebuy)
          /\ tick <= Trigger(anchor[c], t)
      BY <3>2 DEF Buyable, CooledDown
    <3>4. ASSUME NEW u \in 1..(t - 1), rows[u].status = "WAITING" PROVE rows[u].sold
      <4>1. u \in Stages /\ u <= t /\ u < t
        BY <3>3, LadderAssumption DEF Stages
      <4>2. u \notin Buyable(c)
        <5>1. t \in Nat /\ u \in Nat /\ ~(t <= u)
          BY <3>3, <4>1 DEF Stages
        <5> QED
          BY <3>2, <5>1
      <4>3. Trigger(anchor[c], t) <= Trigger(anchor[c], u)
        BY <2>1, <3>3, <4>1, TriggersFall
      <4>4. /\ Trigger(anchor[c], t) \in Nat /\ Trigger(anchor[c], u) \in Nat
            /\ tick \in Nat
        <5>1. \A n \in Stages : Trigger(anchor[c], n) \in Nat
          BY <2>1, RawTriggers, RoundDownValid DEF Trigger
        <5>2. tick \in Nat
          BY MarketAssumption DEF MarketInv, Types
        <5> QED
          BY <3>3, <4>1, <5>1, <5>2
      <4>5. tick <= Trigger(anchor[c], u)
        BY <3>3, <4>3, <4>4
      <4>6. ~CooledDown(stages[c][u])
        BY <3>4, <4>1, <4>2, <4>5 DEF Buyable
      <4> QED
        BY <4>1, <4>6 DEF CooledDown
    <3> QED
      BY <3>1, <3>3, <3>4
  <2>5. Sells(c) \in L!DecisionsOf(rows)
    BY <2>3 DEF L!DecisionsOf
  <2>6. Buy(c) = {} \/ Buy(c) \in L!DecisionsOf(rows)
    BY <2>2, <2>4 DEF L!DecisionsOf
  <2> QED
    BY <2>5, <2>6
<1> QED
  BY <1>1, MarketInvariant, PTL

---------------------------------------------------------------------------
(* The shape of the rows, and the deque of stamps *)

Pending == {"BUY_PENDING", "SELL_PENDING"}

\* A row has a limit only while an order of its is in flight, and a price and
\* shares only while it holds.
Shape(row) ==
  /\ row.sold <= now
  /\ row.status \notin Pending => row.limit = 0
  /\ row.status \notin Held => row.price = 0 /\ row.qty = 0

ShapeInv ==
  /\ now <= Horizon /\ (todo # {} => now > 0)
  /\ anchor \in [Cycles -> Prices \cup {0}]
  /\ cash \in [Cycles -> Int]
  /\ \A c \in Cycles, n \in Stages : Shape(stages[c][n])
  /\ stamps \in Seq(Nat) /\ \A i \in 1..Len(stamps) : stamps[i] \in 1..now

\* Recent is what is left when the first d stamps are popped: all of them are
\* old, and the one after them, if there is one, is not.
LEMMA RecentIs ==
  ASSUME now \in Nat, stamps \in Seq(Nat)
  PROVE  \E d \in 0..Len(stamps) :
           /\ Recent \in Seq(Nat) /\ Len(Recent) = Len(stamps) - d
           /\ \A i \in 1..(Len(stamps) - d) : Recent[i] = stamps[d + i]
           /\ \A i \in 1..d : stamps[i] <= now - RateWindow
           /\ d < Len(stamps) => stamps[d + 1] > now - RateWindow
<1> DEFINE k == Len(stamps)
<1>1. k \in Nat /\ RateWindow \in Nat /\ \A i \in 1..k : stamps[i] \in Nat
  BY MarketAssumption
<1>2. Expired \in SUBSET (1..k) /\ \A i \in Expired : \A j \in 1..i : j \in Expired
  BY <1>1 DEF Expired
<1> HIDE DEF k
<1>3. PICK d \in 0..k : Expired = 1..d /\ Cardinality(Expired) = d
  BY <1>1, <1>2, InitialInterval
<1>4. Recent = SubSeq(stamps, d + 1, k)
  BY <1>3 DEF Recent, k
<1>5. /\ Recent \in Seq(Nat) /\ Len(Recent) = k - d
      /\ \A i \in 1..(k - d) : Recent[i] = stamps[d + i]
  <2>1. d + 1 \in Int /\ k \in Int /\ \A i \in (d + 1)..k : stamps[i] \in Nat
    BY <1>1
  <2>2. /\ SubSeq(stamps, d + 1, k) \in Seq(Nat)
        /\ Len(SubSeq(stamps, d + 1, k)) = IF d + 1 <= k THEN k - (d + 1) + 1 ELSE 0
        /\ \A i \in 1..(k - (d + 1) + 1) :
             SubSeq(stamps, d + 1, k)[i] = stamps[(d + 1) + i - 1]
    BY <2>1, SubSeqProperties
  <2>3. \A i \in 1..(k - d) : i \in 1..(k - (d + 1) + 1) /\ (d + 1) + i - 1 = d + i
    BY <1>1
  <2>4. (IF d + 1 <= k THEN k - (d + 1) + 1 ELSE 0) = k - d
    BY <1>1
  <2> QED
    BY <1>4, <2>2, <2>3, <2>4
<1>6. \A i \in 1..d : stamps[i] <= now - RateWindow
  <2> SUFFICES ASSUME NEW i \in 1..d PROVE stamps[i] <= now - RateWindow
    OBVIOUS
  <2>1. i \in Expired /\ i \in 1..i
    BY <1>3
  <2> QED
    BY <2>1 DEF Expired
<1>7. d < k => stamps[d + 1] > now - RateWindow
  <2> SUFFICES ASSUME d < k PROVE stamps[d + 1] > now - RateWindow
    OBVIOUS
  <2>1. d + 1 \in 1..k /\ d + 1 \notin Expired
    BY <1>1, <1>3
  <2>2. ~ \A j \in 1..(d + 1) : stamps[j] <= now - RateWindow
    BY <2>1 DEF Expired, k
  <2>3. PICK j \in 1..(d + 1) : ~(stamps[j] <= now - RateWindow)
    BY <2>2
  <2>4. j = d + 1
    BY <1>6, <2>3
  <2>5. stamps[d + 1] \in Nat
    BY <1>1, <2>1
  <2> QED
    BY <1>1, <2>3, <2>4, <2>5
<1> QED
  BY <1>5, <1>6, <1>7 DEF k

\* What Record(k) leaves in the deque.
LEMMA Recorded ==
  ASSUME now \in Nat, stamps \in Seq(Nat), NEW k \in Nat,
         stamps' = Recent \o [i \in 1..k |-> now]
  PROVE  /\ stamps' \in Seq(Nat) /\ Len(stamps') = Len(Recent) + k
         /\ \A i \in 1..Len(stamps') :
              stamps'[i] = IF i <= Len(Recent) THEN Recent[i] ELSE now
<1>1. Recent \in Seq(Nat)
  BY RecentIs
<1>2. [i \in 1..k |-> now] \in Seq(Nat) /\ Len([i \in 1..k |-> now]) = k
  OBVIOUS
<1>3. Len(Recent) \in Nat
  BY <1>1
<1> DEFINE new == [i \in 1..k |-> now]
<1> HIDE DEF new
<1>4. /\ Recent \o new \in Seq(Nat) /\ Len(Recent \o new) = Len(Recent) + k
      /\ \A i \in 1..Len(Recent) + k :
           (Recent \o new)[i] = IF i <= Len(Recent) THEN Recent[i] ELSE new[i - Len(Recent)]
  BY <1>1, <1>2, ConcatProperties DEF new
<1>5. \A i \in 1..Len(Recent) + k : ~(i <= Len(Recent)) => i - Len(Recent) \in 1..k
  BY <1>3
<1> QED
  BY <1>4, <1>5 DEF new

LEMMA StampsKept ==
  ASSUME now \in Nat, stamps \in Seq(Nat), \A i \in 1..Len(stamps) : stamps[i] \in 1..now
  PROVE  /\ Recent \in Seq(Nat) /\ \A i \in 1..Len(Recent) : Recent[i] \in 1..now
<1>1. PICK d \in 0..Len(stamps) :
        /\ Recent \in Seq(Nat) /\ Len(Recent) = Len(stamps) - d
        /\ \A i \in 1..(Len(stamps) - d) : Recent[i] = stamps[d + i]
  BY RecentIs
<1>2. \A i \in 1..(Len(stamps) - d) : d + i \in 1..Len(stamps)
  OBVIOUS
<1> QED
  BY <1>1, <1>2

LEMMA ShapeInit == Init => ShapeInv
<1> SUFFICES ASSUME Init PROVE ShapeInv
  OBVIOUS
<1>1. /\ stamps = <<>> /\ now = 0 /\ todo = {} /\ anchor = [c \in Cycles |-> 0]
      /\ cash = [c \in Cycles |-> 0] /\ stages = [c \in Cycles |-> [n \in Stages |-> Fresh]]
  BY DEF Init
<1>2. stamps \in Seq(Nat) /\ Len(stamps) = 0 /\ now <= Horizon
  BY <1>1, MarketAssumption
<1>3. \A c \in Cycles, n \in Stages : Shape(stages[c][n])
  BY <1>1 DEF Shape, Fresh
<1> QED
  BY <1>1, <1>2, <1>3 DEF ShapeInv

\* A step that writes no stamp and one row.
LEMMA ShapeRow ==
  ASSUME MarketInv, ShapeInv, NEW c \in Cycles, NEW n \in Stages, NEW row,
         stages' = [stages EXCEPT ![c][n] = row], Shape(row),
         UNCHANGED <<now, anchor>>, cash' \in [Cycles -> Int]
  PROVE  \A d \in Cycles, m \in Stages : Shape(stages'[d][m])
<1>1. \A d \in Cycles, m \in Stages :
        stages'[d][m] = IF d = c /\ m = n THEN row ELSE stages[d][m]
  BY DEF MarketInv, Types
<1> QED
  BY <1>1 DEF ShapeInv

\* The shares and the proceeds of an order that ended.
LEMMA Ended ==
  ASSUME MarketInv, NEW c \in Cycles, NEW n \in Stages, NEW p \in Prices
  PROVE  /\ p \in Nat /\ p > 0 /\ stages[c][n] \in MarketRow
         /\ SettleBuy(c, n, p) =>
              \E f \in Nat : /\ f <= PlannedQty(anchor[c], n) /\ f * p \in Nat
                             /\ stages' = [stages EXCEPT ![c][n] = Bought(stages[c][n], f, p)]
                             /\ cash' = [cash EXCEPT ![c] = cash[c] - f * p]
         /\ SettleSell(c, n, p) =>
              \E f \in Nat : /\ f <= stages[c][n].qty /\ f * p \in Nat
                             /\ stages' = [stages EXCEPT ![c][n] = Sold(stages[c][n], f)]
                             /\ cash' = [cash EXCEPT ![c] = cash[c] + f * p]
<1>1. p \in Nat /\ p > 0
  BY MarketAssumption DEF ValidPrice
<1>2. stages[c][n] \in MarketRow /\ stages[c][n].qty \in Nat /\ anchor[c] \in Nat
  BY DEF MarketInv, Types, MarketRow
<1>3. ASSUME SettleBuy(c, n, p)
      PROVE  \E f \in Nat : /\ f <= PlannedQty(anchor[c], n) /\ f * p \in Nat
                            /\ stages' = [stages EXCEPT ![c][n] = Bought(stages[c][n], f, p)]
                            /\ cash' = [cash EXCEPT ![c] = cash[c] - f * p]
  <2>1. LadderOk(anchor[c])
    BY <1>3 DEF SettleBuy, MarketInv, LadderInv, RowOk
  <2>2. PlannedQty(anchor[c], n) \in Nat
    BY <1>2, <2>1, EveryStageBuysOne
  <2>3. PICK f \in 0..PlannedQty(anchor[c], n) :
          /\ stages' = [stages EXCEPT ![c][n] = Bought(stages[c][n], f, p)]
          /\ cash' = [cash EXCEPT ![c] = cash[c] - f * p]
    BY <1>3 DEF SettleBuy
  <2>4. f \in Nat /\ f <= PlannedQty(anchor[c], n) /\ f * p \in Nat
    BY <1>1, <2>2
  <2> QED
    BY <2>3, <2>4
<1>4. ASSUME SettleSell(c, n, p)
      PROVE  \E f \in Nat : /\ f <= stages[c][n].qty /\ f * p \in Nat
                            /\ stages' = [stages EXCEPT ![c][n] = Sold(stages[c][n], f)]
                            /\ cash' = [cash EXCEPT ![c] = cash[c] + f * p]
  <2>3. PICK f \in 0..stages[c][n].qty :
          /\ stages' = [stages EXCEPT ![c][n] = Sold(stages[c][n], f)]
          /\ cash' = [cash EXCEPT ![c] = cash[c] + f * p]
    BY <1>4 DEF SettleSell
  <2>4. f \in Nat /\ f <= stages[c][n].qty /\ f * p \in Nat
    BY <1>1, <1>2
  <2> QED
    BY <2>3, <2>4
<1> QED
  BY <1>1, <1>2, <1>3, <1>4

LEMMA ShapeNext == MarketInv /\ ShapeInv /\ [Next]_vars => ShapeInv'
<1> SUFFICES ASSUME MarketInv, ShapeInv, [Next]_vars PROVE ShapeInv'
  OBVIOUS
<1>0. /\ now \in Nat /\ stages \in [Cycles -> [Stages -> MarketRow]]
      /\ stamps \in Seq(Nat) /\ \A i \in 1..Len(stamps) : stamps[i] \in 1..now
      /\ \A c \in Cycles, n \in Stages : stages[c][n] \in MarketRow /\ Shape(stages[c][n])
  BY DEF MarketInv, Types, ShapeInv
<1>a. ASSUME NEW k \in Nat, stamps' = Recent \o [i \in 1..k |-> now], now' = now, now > 0
      PROVE  stamps' \in Seq(Nat) /\ \A i \in 1..Len(stamps') : stamps'[i] \in 1..now'
  BY <1>0, <1>a, Recorded, StampsKept
<1>1. CASE UNCHANGED vars
  BY <1>1 DEF vars, ShapeInv, Shape
<1>2. ASSUME NEW p \in Prices, NEW c \in Cycles, Tick(p, stock[c]) PROVE ShapeInv'
  <2>1. /\ now' = now + 1 /\ now + 1 <= Horizon
        /\ UNCHANGED <<anchor, stages, stamps, cash>>
    BY <1>0, <1>2, MarketAssumption DEF Tick
  <2>2. \A d \in Cycles, m \in Stages : stages[d][m].sold \in Nat
    BY <1>0 DEF MarketRow
  <2>3. \A d \in Cycles, m \in Stages : Shape(stages[d][m])'
    BY <1>0, <2>1, <2>2 DEF Shape
  <2>4. \A i \in 1..Len(stamps) : stamps[i] \in 1..now'
    BY <1>0, <2>1
  <2> QED
    BY <1>0, <2>1, <2>3, <2>4 DEF ShapeInv
<1>3. ASSUME NEW c \in Cycles, ConfirmAnchor(c) PROVE ShapeInv'
  <2>1. UNCHANGED <<now, stamps, cash>> /\ (todo # {} => tick \in Prices) /\ c \in todo
    BY <1>3 DEF ConfirmAnchor, Turn, MarketInv, Types
  <2>2. CASE UNCHANGED <<stages, anchor>>
    BY <2>1, <2>2 DEF ShapeInv, Shape
  <2>3. CASE /\ anchor' = [anchor EXCEPT ![c] = tick]
             /\ stages' = [stages EXCEPT ![c] = [n \in Stages |-> Fresh]]
    <3>1. Shape(Fresh)
      BY <1>0 DEF Shape, Fresh
    <3>2. \A d \in Cycles, m \in Stages : Shape(stages'[d][m])
      BY <1>0, <2>3, <3>1
    <3>3. \A d \in Cycles, m \in Stages : Shape(stages[d][m])'
      BY <2>1, <3>2 DEF Shape
    <3> QED
      BY <2>1, <2>3, <3>3 DEF ShapeInv
  <2> QED
    BY <1>3, <2>2, <2>3 DEF ConfirmAnchor
<1>4. ASSUME NEW c \in Cycles, NoDecision(c) PROVE ShapeInv'
  BY <1>4 DEF NoDecision, Turn, ShapeInv, Shape
<1>5. ASSUME NEW c \in Cycles, SendSells(c) PROVE ShapeInv'
  <2> DEFINE go == {n \in Sells(c) :
                      Len(Recent) + Cardinality({m \in Sells(c) : m < n}) < MaxRate}
  <2>1. /\ stages' = [stages EXCEPT ![c] = [n \in Stages |->
             IF n \in go THEN Offered(stages[c][n]) ELSE stages[c][n]]]
        /\ stamps' = Recent \o [i \in 1..Cardinality(go) |-> now]
        /\ UNCHANGED <<now, anchor, cash>> /\ todo' = todo \ {c} /\ c \in todo
    BY <1>5 DEF SendSells, Turn, Record
  <2>2. go \in SUBSET Stages /\ \A n \in go : stages[c][n].status = "HOLDING"
    BY DEF Sells
  <2> HIDE DEF go
  <2>3. Cardinality(go) \in Nat
    <3>1. IsFiniteSet(Stages)
      BY LadderAssumption, FS_Interval DEF Stages
    <3> QED
      BY <2>2, <3>1, FS_Subset, FS_CardinalityType
  <2>4. \A n \in go : Shape(Offered(stages[c][n]))
    BY <1>0, <2>2 DEF Shape, Offered, Pending, Held, MarketRow
  <2>5. \A d \in Cycles, m \in Stages : Shape(stages'[d][m])
    BY <1>0, <2>1, <2>4
  <2>6. \A d \in Cycles, m \in Stages : Shape(stages[d][m])'
    BY <2>1, <2>5 DEF Shape
  <2>7. now > 0
    BY <2>1 DEF ShapeInv
  <2> QED
    BY <1>a, <2>1, <2>3, <2>6, <2>7 DEF ShapeInv
<1>6. ASSUME NEW c \in Cycles, NEW n \in Stages, SendBuy(c, n) PROVE ShapeInv'
  <2> DEFINE row == [stages[c][n] EXCEPT !.status = "BUY_PENDING", !.limit = tick]
  <2>1. /\ stages' = [stages EXCEPT ![c][n] = row]
        /\ stamps' = Recent \o [i \in 1..1 |-> now]
        /\ UNCHANGED <<now, anchor, cash>> /\ todo' = todo \ {c} /\ c \in todo
    BY <1>0, <1>6 DEF SendBuy, Turn, Record, MarketRow
  <2>2. stages[c][n].status = "WAITING"
    BY <1>6, BuyIsBuyable DEF SendBuy
  <2>3. Shape(row)
    BY <1>0, <2>2 DEF Shape, Pending, Held, MarketRow
  <2> HIDE DEF row
  <2>4. \A d \in Cycles, m \in Stages : Shape(stages'[d][m])
    BY <2>1, <2>3, ShapeRow DEF ShapeInv
  <2>5. \A d \in Cycles, m \in Stages : Shape(stages[d][m])'
    BY <2>1, <2>4 DEF Shape
  <2>6. now > 0
    BY <2>1 DEF ShapeInv
  <2> QED
    BY <1>a, <2>1, <2>5, <2>6 DEF ShapeInv
<1>7. ASSUME NEW c \in Cycles, NEW n \in Stages, BlockBuy(c, n) PROVE ShapeInv'
  <2>1. /\ stamps' = Recent /\ UNCHANGED <<now, anchor, cash, stages>>
        /\ todo' = todo \ {c}
    BY <1>7 DEF BlockBuy, Turn
  <2>2. Recent \in Seq(Nat) /\ \A i \in 1..Len(Recent) : Recent[i] \in 1..now
    BY <1>0, StampsKept
  <2> QED
    BY <2>1, <2>2 DEF ShapeInv, Shape
<1>8. ASSUME NEW c \in Cycles, NEW n \in Stages, NEW row,
             stages' = [stages EXCEPT ![c][n] = row], Shape(row),
             UNCHANGED <<now, anchor, stamps, todo>>, cash' \in [Cycles -> Int]
      PROVE  ShapeInv'
  <2>1. \A d \in Cycles, m \in Stages : Shape(stages'[d][m])
    BY <1>8, ShapeRow
  <2>2. \A d \in Cycles, m \in Stages : Shape(stages[d][m])'
    BY <1>8, <2>1 DEF Shape
  <2> QED
    BY <1>8, <2>2 DEF ShapeInv
<1>9. ASSUME NEW c \in Cycles, NEW n \in Stages, NEW p \in Prices, SettleBuy(c, n, p)
      PROVE  ShapeInv'
  <2>1. PICK f \in Nat :
          /\ f <= PlannedQty(anchor[c], n) /\ f * p \in Nat
          /\ stages' = [stages EXCEPT ![c][n] = Bought(stages[c][n], f, p)]
          /\ cash' = [cash EXCEPT ![c] = cash[c] - f * p]
    BY <1>9, Ended
  <2>2. stages[c][n].status = "BUY_PENDING" /\ UNCHANGED <<now, anchor, stamps, todo>>
    BY <1>9 DEF SettleBuy
  <2>3. Shape(Bought(stages[c][n], f, p))
    BY <1>0, <2>2 DEF Shape, Bought, Pending, Held, MarketRow
  <2>4. cash' \in [Cycles -> Int]
    BY <2>1 DEF ShapeInv
  <2> QED
    BY <1>8, <2>1, <2>2, <2>3, <2>4
<1>10. ASSUME NEW c \in Cycles, NEW n \in Stages, NEW p \in Prices, SettleSell(c, n, p)
       PROVE  ShapeInv'
  <2>1. PICK f \in Nat :
          /\ f <= stages[c][n].qty /\ f * p \in Nat
          /\ stages' = [stages EXCEPT ![c][n] = Sold(stages[c][n], f)]
          /\ cash' = [cash EXCEPT ![c] = cash[c] + f * p]
    BY <1>10, Ended
  <2>2. stages[c][n].status = "SELL_PENDING" /\ UNCHANGED <<now, anchor, stamps, todo>>
    BY <1>10 DEF SettleSell
  <2>3. Shape(Sold(stages[c][n], f))
    BY <1>0, <2>2 DEF Shape, Sold, Fresh, Pending, Held, MarketRow
  <2>4. cash' \in [Cycles -> Int]
    BY <2>1 DEF ShapeInv
  <2> QED
    BY <1>8, <2>1, <2>2, <2>3, <2>4
<1> QED
  BY <1>1, <1>2, <1>3, <1>4, <1>5, <1>6, <1>7, <1>9, <1>10 DEF Next

LEMMA ShapeInvariant == Spec => []ShapeInv
BY ShapeInit, ShapeNext, MarketInvariant, PTL DEF Spec

\* Rows stay well-formed: what is held has a price and at least one share, never
\* more than the budget of a stage buys, and exactly what is in flight has a limit.
THEOREM RowsAreWellFormed == Spec => []MarketTypeOK
<1>1. MarketInv /\ ShapeInv => MarketTypeOK
  <2> SUFFICES ASSUME MarketInv, ShapeInv PROVE MarketTypeOK
    OBVIOUS
  <2>1. ASSUME NEW c \in Cycles, NEW n \in Stages
        PROVE  LET row == stages[c][n]
               IN  /\ row.status \in L!StageStatus
                   /\ row.sold \in 0..now
                   /\ (row.limit # 0) = (row.status \in {"BUY_PENDING", "SELL_PENDING"})
                   /\ IF row.status \in {"HOLDING", "SELL_PENDING"}
                      THEN row.price > 0 /\ row.qty \in 1..Amount
                      ELSE row.price = 0 /\ row.qty = 0
    <3> DEFINE row == stages[c][n]
               a == anchor[c]
    <3>1. /\ a \in Nat /\ row \in MarketRow /\ RowOk(a, n, row) /\ Shape(row)
          /\ now \in Nat
      BY DEF MarketInv, Types, LadderInv, ShapeInv
    <3> HIDE DEF row, a
    <3>2. /\ row.status \in L!StageStatus /\ row.price \in Nat /\ row.qty \in Nat
          /\ row.sold \in Nat /\ row.limit \in Nat
      BY <3>1 DEF MarketRow
    <3>3. row.status \in Pending => row.limit # 0
      <4>1. row.status = "BUY_PENDING" => row.limit > 0
        BY <3>1 DEF RowOk, ValidPrice
      <4>2. row.status = "SELL_PENDING" => row.limit > 0
        <5> SUFFICES ASSUME row.status = "SELL_PENDING" PROVE row.limit > 0
          OBVIOUS
        <5>1. row.price \in Nat \ {0} /\ row.limit = TargetPrice(row.price)
          BY <3>1, <3>2 DEF RowOk, Held
        <5> QED
          BY <5>1, TargetKeepsProfit DEF ValidPrice
      <4> QED
        BY <3>2, <4>1, <4>2 DEF Pending
    <3>4. row.status \in Held => row.price > 0 /\ row.qty \in 1..Amount
      <4> SUFFICES ASSUME row.status \in Held PROVE row.price > 0 /\ row.qty \in 1..Amount
        OBVIOUS
      <4>1. /\ LadderOk(a) /\ row.price > 0 /\ row.qty > 0 /\ row.price <= Trigger(a, n)
            /\ row.qty <= PlannedQty(a, n)
        BY <3>1 DEF RowOk
      <4>2. PlannedQty(a, n) \in Nat /\ PlannedQty(a, n) * row.price <= Amount
        BY <3>1, <3>2, <4>1, PlanFits, EveryStageBuysOne
      <4>3. PlannedQty(a, n) * 1 <= PlannedQty(a, n) * row.price
        BY <3>2, <4>1, <4>2, Scale
      <4>4. PlannedQty(a, n) * row.price \in Nat /\ Amount \in Nat
        BY <3>2, <4>2, LadderAssumption
      <4>5. PlannedQty(a, n) <= Amount
        BY <4>2, <4>3, <4>4
      <4> QED
        BY <3>2, <4>1, <4>2, <4>4, <4>5
    <3> QED
      BY <3>1, <3>2, <3>3, <3>4 DEF Shape, Pending, Held, row
  <2> QED
    BY <2>1 DEF MarketInv, Types, ShapeInv, MarketTypeOK
<1> QED
  BY <1>1, MarketInvariant, ShapeInvariant, PTL

---------------------------------------------------------------------------
(* What a cycle's holdings have cost *)

CostOf(rows) == [n \in Stages |-> Cost(rows[n])]

Worth(rows) == SumFunctionOnSet(CostOf(rows), Stages)

LEMMA InvestedIsWorth == \A c \in Cycles : Invested(c) = Worth(stages[c])
BY DEF Invested, Worth, CostOf, SumFunction

LEMMA InvestedWillBeWorth == \A c \in Cycles : Invested(c)' = Worth(stages'[c])
BY DEF Invested, Worth, CostOf, SumFunction, Cost

LEMMA StagesFinite == IsFiniteSet(Stages)
BY LadderAssumption, FS_Interval DEF Stages

LEMMA CostNat == ASSUME NEW row \in MarketRow PROVE Cost(row) \in Nat
<1>1. row.price \in Nat /\ row.qty \in Nat
  BY DEF MarketRow
<1> QED
  BY <1>1 DEF Cost

LEMMA WorthNat ==
  ASSUME NEW rows \in [Stages -> MarketRow]
  PROVE  Worth(rows) \in Nat
<1> DEFINE f == CostOf(rows)
<1>1. \A n \in Stages : f[n] \in Nat
  BY CostNat DEF CostOf
<1> HIDE DEF f
<1> QED
  BY <1>1, SumNat, StagesFinite DEF Worth, f

\* Rows of the same cost are worth the same.
LEMMA WorthSame ==
  ASSUME NEW rows, NEW new, \A n \in Stages : Cost(new[n]) = Cost(rows[n])
  PROVE  Worth(new) = Worth(rows)
<1>1. CostOf(new) = CostOf(rows)
  BY DEF CostOf
<1> QED
  BY <1>1 DEF Worth

LEMMA WorthRow ==
  ASSUME NEW rows \in [Stages -> MarketRow], NEW n \in Stages, NEW row \in MarketRow,
         NEW new, new = [rows EXCEPT ![n] = row]
  PROVE  Worth(new) = Worth(rows) + Cost(row) - Cost(rows[n])
<1> DEFINE f == CostOf(rows)
           g == CostOf(new)
<1>1. \A m \in Stages : f[m] \in Int /\ g[m] \in Int /\ (m # n => g[m] = f[m])
  BY CostNat DEF CostOf
<1>2. f[n] = Cost(rows[n]) /\ g[n] = Cost(row)
  BY DEF CostOf
<1> HIDE DEF f, g
<1>3. SumFunctionOnSet(g, Stages) = SumFunctionOnSet(f, Stages) + g[n] - f[n]
  BY <1>1, SumChange, StagesFinite
<1> QED
  BY <1>2, <1>3 DEF Worth, f, g

LEMMA FreshIsWorthNothing ==
  ASSUME NEW rows, \A n \in Stages : rows[n] = Fresh
  PROVE  Worth(rows) = 0
<1> DEFINE f == CostOf(rows)
<1>1. \A n \in Stages : f[n] = 0
  BY DEF CostOf, Cost, Fresh
<1> HIDE DEF f
<1> QED
  BY <1>1, SumZero, StagesFinite DEF Worth, f

\* And so are rows of which none is held.
LEMMA NothingHeld ==
  ASSUME NEW rows, \A n \in Stages : rows[n].status \notin Held
  PROVE  Worth(rows) = 0
<1> DEFINE f == CostOf(rows)
<1>1. \A n \in Stages : f[n] = 0
  BY DEF CostOf, Cost, Held
<1> HIDE DEF f
<1> QED
  BY <1>1, SumZero, StagesFinite DEF Worth, f

---------------------------------------------------------------------------
(* What a step does to the money *)

\* A cycle that has sold, and what it has gained.
EverSold(rows) == \E n \in Stages : rows[n].sold # 0

\* A step that ends no order moves no money: no row changes its cost or the time
\* of its last sale, and none comes into or out of the books of a closed cycle.
LEMMA QuietSteps ==
  ASSUME MarketInv, [Next]_vars,
         \A c \in Cycles, n \in Stages, p \in Prices :
           ~SettleBuy(c, n, p) /\ ~SettleSell(c, n, p)
  PROVE  /\ cash' = cash
         /\ \A c \in Cycles :
              \/ /\ status'[c] = status[c]
                 /\ \A n \in Stages : /\ Cost(stages'[c][n]) = Cost(stages[c][n])
                                      /\ stages'[c][n].sold = stages[c][n].sold
                 /\ status[c] # "RUNNING" => stages'[c] = stages[c]
              \/ /\ status[c] = "STARTING" /\ status'[c] = "RUNNING"
                 /\ \A n \in Stages : stages'[c][n] = Fresh
<1>0. /\ stages \in [Cycles -> [Stages -> MarketRow]]
      /\ status \in [Cycles -> {"STARTING", "RUNNING", "CLOSED"}]
  BY DEF MarketInv, Types
<1>1. CASE UNCHANGED vars
  BY <1>1 DEF vars
<1>2. ASSUME NEW p \in Prices, NEW c \in Cycles, Tick(p, stock[c])
      PROVE  UNCHANGED <<cash, stages, status>>
  BY <1>2 DEF Tick
<1>3. ASSUME NEW c \in Cycles, NoDecision(c) PROVE UNCHANGED <<cash, stages, status>>
  BY <1>3 DEF NoDecision
<1>4. ASSUME NEW c \in Cycles, NEW n \in Stages, BlockBuy(c, n)
      PROVE  UNCHANGED <<cash, stages, status>>
  BY <1>4 DEF BlockBuy
<1>5. ASSUME NEW c \in Cycles, ConfirmAnchor(c)
      PROVE  /\ cash' = cash
             /\ \A d \in Cycles :
                  \/ status'[d] = status[d] /\ stages'[d] = stages[d]
                  \/ /\ status[d] = "STARTING" /\ status'[d] = "RUNNING"
                     /\ \A n \in Stages : stages'[d][n] = Fresh
  BY <1>0, <1>5 DEF ConfirmAnchor
<1>6. ASSUME NEW c \in Cycles, SendSells(c)
      PROVE  /\ UNCHANGED <<cash, status>> /\ status[c] = "RUNNING"
             /\ \A d \in Cycles : d # c => stages'[d] = stages[d]
             /\ \A d \in Cycles, n \in Stages :
                  /\ Cost(stages'[d][n]) = Cost(stages[d][n])
                  /\ stages'[d][n].sold = stages[d][n].sold
  <2> DEFINE go == {n \in Sells(c) :
                      Len(Recent) + Cardinality({m \in Sells(c) : m < n}) < MaxRate}
  <2>1. /\ stages' = [stages EXCEPT ![c] = [n \in Stages |->
             IF n \in go THEN Offered(stages[c][n]) ELSE stages[c][n]]]
        /\ UNCHANGED <<cash, status>> /\ status[c] = "RUNNING"
    BY <1>6 DEF SendSells
  <2>2. \A n \in go : n \in Stages /\ stages[c][n].status = "HOLDING"
    BY DEF Sells
  <2> HIDE DEF go
  <2>3. \A n \in go : /\ Cost(Offered(stages[c][n])) = Cost(stages[c][n])
                      /\ Offered(stages[c][n]).sold = stages[c][n].sold
    BY <1>0, <2>2 DEF Offered, Cost, MarketRow
  <2> QED
    BY <1>0, <2>1, <2>3
<1>7. ASSUME NEW c \in Cycles, NEW n \in Stages, SendBuy(c, n)
      PROVE  /\ UNCHANGED <<cash, status>> /\ status[c] = "RUNNING"
             /\ \A d \in Cycles : d # c => stages'[d] = stages[d]
             /\ \A d \in Cycles, m \in Stages :
                  /\ Cost(stages'[d][m]) = Cost(stages[d][m])
                  /\ stages'[d][m].sold = stages[d][m].sold
  <2> DEFINE row == [stages[c][n] EXCEPT !.status = "BUY_PENDING", !.limit = tick]
  <2>1. /\ stages' = [stages EXCEPT ![c][n] = row]
        /\ UNCHANGED <<cash, status>> /\ status[c] = "RUNNING"
    BY <1>0, <1>7 DEF SendBuy, MarketRow
  <2>2. stages[c][n].status = "WAITING"
    BY <1>7, BuyIsBuyable DEF SendBuy
  <2>3. Cost(row) = Cost(stages[c][n]) /\ row.sold = stages[c][n].sold
    BY <1>0, <2>2 DEF Cost, MarketRow
  <2> HIDE DEF row
  <2> QED
    BY <1>0, <2>1, <2>3
<1>8. CASE \E p \in Prices, c \in Cycles : Tick(p, stock[c])
  BY <1>2, <1>8
<1>9. CASE \E c \in Cycles : ConfirmAnchor(c) \/ NoDecision(c)
  BY <1>3, <1>5, <1>9
<1>10. CASE \E c \in Cycles : SendSells(c)
  BY <1>6, <1>10
<1>11. CASE \E c \in Cycles, n \in Stages : SendBuy(c, n) \/ BlockBuy(c, n)
  BY <1>4, <1>7, <1>11
<1> QED
  BY <1>1, <1>8, <1>9, <1>10, <1>11 DEF Next

\* A buy that ended turns money into holdings of the same cost.
LEMMA BuyMoves ==
  ASSUME MarketInv, ShapeInv, NEW c \in Cycles, NEW n \in Stages, NEW p \in Prices,
         SettleBuy(c, n, p)
  PROVE  /\ \E v \in Nat :
              /\ v <= stages[c][n].limit * PlannedQty(anchor[c], n)
              /\ Worth(stages'[c]) = Worth(stages[c]) + v
              /\ cash' = [cash EXCEPT ![c] = cash[c] - v]
         /\ \A m \in Stages : stages'[c][m].sold = stages[c][m].sold
         /\ \A d \in Cycles : d # c => stages'[d] = stages[d]
<1>0. /\ stages \in [Cycles -> [Stages -> MarketRow]] /\ anchor[c] \in Nat
      /\ stages[c][n].status = "BUY_PENDING" /\ p <= stages[c][n].limit
      /\ RowOk(anchor[c], n, stages[c][n]) /\ stages[c][n].limit \in Nat
      /\ p \in Nat /\ ValidPrice(p) /\ stages[c][n] \in MarketRow
  BY MarketAssumption DEF SettleBuy, MarketInv, Types, LadderInv, MarketRow
<1>1. PICK f \in Nat :
        /\ f <= PlannedQty(anchor[c], n) /\ f * p \in Nat
        /\ stages' = [stages EXCEPT ![c][n] = Bought(stages[c][n], f, p)]
        /\ cash' = [cash EXCEPT ![c] = cash[c] - f * p]
  BY Ended
<1>2. PlannedQty(anchor[c], n) \in Nat
  BY <1>0, EveryStageBuysOne DEF RowOk
<1> DEFINE row == Bought(stages[c][n], f, p)
<1>3. row \in MarketRow /\ row.sold = stages[c][n].sold
  <2>1. row \in MarketRow
    BY <1>0, <1>1, <1>2, BoughtOk
  <2>2. row.sold = stages[c][n].sold
    BY <1>0 DEF Bought, MarketRow
  <2> QED
    BY <2>1, <2>2
<1>4. Cost(row) = f * p /\ Cost(stages[c][n]) = 0
  <2>1. CASE f = 0
    BY <1>0, <1>1, <2>1 DEF Bought, Cost, MarketRow
  <2>2. CASE f # 0
    BY <1>0, <1>1, <2>2 DEF Bought, Cost, MarketRow
  <2> QED
    BY <1>0, <2>1, <2>2
<1>5. f * p <= stages[c][n].limit * PlannedQty(anchor[c], n)
  <2> DEFINE l == stages[c][n].limit
             q == PlannedQty(anchor[c], n)
  <2>1. l \in Nat /\ q \in Nat /\ f <= q /\ p <= l
    BY <1>0, <1>1, <1>2
  <2> HIDE DEF l, q
  <2>2. f * p <= f * l /\ l * f <= l * q
    BY <1>0, <1>1, <2>1, Scale
  <2>3. f * p \in Nat /\ f * l \in Nat /\ l * q \in Nat /\ f * l = l * f
    BY <1>0, <2>1
  <2>4. f * p <= l * q
    BY <2>2, <2>3
  <2> QED
    BY <2>4 DEF l, q
<1> HIDE DEF row
<1>6. stages'[c] = [stages[c] EXCEPT ![n] = row]
  BY <1>0, <1>1 DEF row
<1>7. Worth(stages'[c]) = Worth(stages[c]) + f * p
  <2>1. stages[c] \in [Stages -> MarketRow]
    BY <1>0
  <2>2. Worth(stages'[c]) = Worth(stages[c]) + Cost(row) - Cost(stages[c][n])
    BY <1>3, <1>6, <2>1, WorthRow
  <2>3. Worth(stages[c]) \in Nat
    BY <2>1, WorthNat
  <2> QED
    BY <1>1, <1>4, <2>2, <2>3
<1>8. \A m \in Stages : stages'[c][m].sold = stages[c][m].sold
  BY <1>0, <1>3, <1>6
<1>9. \A d \in Cycles : d # c => stages'[d] = stages[d]
  BY <1>0, <1>1
<1> QED
  BY <1>1, <1>5, <1>7, <1>8, <1>9

\* A sell that ended gets back more than its shares had cost, and a stage that
\* is marked as sold has sold at least one.
LEMMA SellMoves ==
  ASSUME MarketInv, ShapeInv, NEW c \in Cycles, NEW n \in Stages, NEW p \in Prices,
         SettleSell(c, n, p)
  PROVE  /\ \E v \in Nat, w \in Nat :
              /\ Worth(stages'[c]) = Worth(stages[c]) - v
              /\ cash' = [cash EXCEPT ![c] = cash[c] + w]
              /\ v <= w /\ (v < w \/ \A m \in Stages : stages'[c][m].sold = stages[c][m].sold)
         /\ \A d \in Cycles : d # c => stages'[d] = stages[d]
<1>0. /\ stages \in [Cycles -> [Stages -> MarketRow]] /\ anchor[c] \in Nat /\ now \in Nat
      /\ stages[c][n].status = "SELL_PENDING" /\ p >= stages[c][n].limit
      /\ RowOk(anchor[c], n, stages[c][n]) /\ stages[c][n].limit \in Nat
      /\ stages[c][n].price \in Nat /\ stages[c][n].qty \in Nat
      /\ p \in Nat /\ stages[c][n] \in MarketRow
  BY MarketAssumption DEF SettleSell, MarketInv, Types, LadderInv, MarketRow
<1>1. PICK f \in Nat :
        /\ f <= stages[c][n].qty /\ f * p \in Nat
        /\ stages' = [stages EXCEPT ![c][n] = Sold(stages[c][n], f)]
        /\ cash' = [cash EXCEPT ![c] = cash[c] + f * p]
  BY Ended
<1> DEFINE row == Sold(stages[c][n], f)
           q == stages[c][n].qty
           b == stages[c][n].price
<1>2. row \in MarketRow
  BY <1>0, <1>1, SoldOk
<1>3. b \in Nat \ {0} /\ q \in Nat \ {0} /\ b < p
  <2>1. b \in Nat \ {0} /\ q \in Nat \ {0} /\ stages[c][n].limit = TargetPrice(b)
    BY <1>0 DEF RowOk, Held
  <2>2. TargetPrice(b) > b
    BY <2>1, TargetKeepsProfit
  <2> QED
    BY <1>0, <2>1, <2>2
<1>4. Cost(stages[c][n]) = b * q
  BY <1>0 DEF Cost
<1>5. Cost(row) = b * q - b * f /\ (f = q \/ row.sold = stages[c][n].sold)
  <2>1. CASE f = q
    <3>1. Cost(row) = 0
      BY <2>1 DEF Sold, Cost, Fresh
    <3>2. b * q \in Nat
      BY <1>3
    <3> QED
      BY <2>1, <3>1, <3>2
  <2>2. CASE f # q
    <3>1. row = [stages[c][n] EXCEPT !.status = "HOLDING", !.limit = 0, !.qty = @ - f]
      BY <2>2 DEF Sold
    <3>2. row.status = "HOLDING" /\ row.price = b /\ row.qty = q - f /\ row.sold = stages[c][n].sold
      BY <1>0, <3>1 DEF MarketRow
    <3>3. Cost(row) = b * (q - f)
      BY <3>2 DEF Cost
    <3> HIDE DEF b, q, row
    <3>4. b * (q - f) = b * q - b * f
      BY <1>1, <1>3, Z3
    <3> QED
      BY <3>2, <3>3, <3>4
  <2> QED
    BY <2>1, <2>2
<1>6. b * f \in Nat /\ b * f <= f * p /\ (f # 0 => b * f < f * p)
  <2> HIDE DEF b, q, row
  <2>1. b * f \in Nat
    BY <1>1, <1>3
  <2>2. CASE f = 0
    BY <1>0, <1>3, <2>1, <2>2
  <2>3. CASE f # 0
    <3>1. f \in Nat \ {0}
      BY <2>3
    <3>2. b * f < p * f
      BY <1>0, <1>3, <3>1, Cancel
    <3>3. p * f = f * p
      BY <1>0, <3>1
    <3> QED
      BY <1>1, <2>1, <3>2, <3>3
  <2> QED
    BY <2>2, <2>3
<1> HIDE DEF row
<1>7. stages'[c] = [stages[c] EXCEPT ![n] = row]
  BY <1>0, <1>1 DEF row
<1>8. Worth(stages'[c]) = Worth(stages[c]) - b * f
  <2>1. stages[c] \in [Stages -> MarketRow]
    BY <1>0
  <2>2. Worth(stages'[c]) = Worth(stages[c]) + Cost(row) - Cost(stages[c][n])
    BY <1>2, <1>7, <2>1, WorthRow
  <2>3. Worth(stages[c]) \in Nat /\ b * q \in Nat
    BY <1>3, <2>1, WorthNat
  <2> HIDE DEF b, q
  <2> QED
    BY <1>4, <1>5, <1>6, <2>2, <2>3
<1>9. b * f < f * p \/ \A m \in Stages : stages'[c][m].sold = stages[c][m].sold
  <2>1. CASE f = 0
    <3>1. row.sold = stages[c][n].sold
      BY <1>3, <1>5, <2>1
    <3> QED
      BY <1>0, <1>7, <3>1
  <2>2. CASE f # 0
    BY <1>6, <2>2
  <2> QED
    BY <2>1, <2>2
<1>10. \A d \in Cycles : d # c => stages'[d] = stages[d]
  BY <1>0, <1>1
<1> HIDE DEF b, q
<1> QED
  BY <1>1, <1>6, <1>8, <1>9, <1>10

---------------------------------------------------------------------------
(* A cycle never loses *)

MoneyInv ==
  \A c \in Cycles :
    /\ status[c] = "STARTING" => cash[c] = 0 /\ \A n \in Stages : stages[c][n] = Fresh
    /\ cash[c] + Worth(stages[c]) >= 0
    /\ EverSold(stages[c]) => cash[c] + Worth(stages[c]) > 0
    /\ status[c] = "CLOSED" => Complete(stages[c])

LEMMA MoneyInit == Init => MoneyInv
<1> SUFFICES ASSUME Init, NEW c \in Cycles
             PROVE  /\ status[c] = "STARTING" =>
                         cash[c] = 0 /\ \A n \in Stages : stages[c][n] = Fresh
                    /\ cash[c] + Worth(stages[c]) >= 0
                    /\ EverSold(stages[c]) => cash[c] + Worth(stages[c]) > 0
                    /\ status[c] = "CLOSED" => Complete(stages[c])
  BY DEF MoneyInv
<1>1. /\ cash[c] = 0 /\ \A n \in Stages : stages[c][n] = Fresh
      /\ status[c] = "STARTING"
  BY DEF Init
<1>2. Worth(stages[c]) = 0
  BY <1>1, FreshIsWorthNothing
<1>3. ~EverSold(stages[c])
  BY <1>1 DEF EverSold, Fresh
<1> QED
  BY <1>1, <1>2, <1>3

\* What MoneyInv asks of a cycle holds again when its gain has not shrunk, and
\* has grown if it has sold for the first time.
LEMMA MoneyKept ==
  ASSUME MarketInv, ShapeInv, MoneyInv, NEW c \in Cycles,
         NEW g \in Int, g = cash'[c] + Worth(stages'[c]),
         g >= cash[c] + Worth(stages[c]),
         \/ g > cash[c] + Worth(stages[c])
         \/ \A n \in Stages : stages'[c][n].sold = stages[c][n].sold,
         status'[c] # "STARTING",
         status'[c] = "CLOSED" => Complete(stages'[c])
  PROVE  /\ status'[c] = "STARTING" =>
              cash'[c] = 0 /\ \A n \in Stages : stages'[c][n] = Fresh
         /\ cash'[c] + Worth(stages'[c]) >= 0
         /\ EverSold(stages'[c]) => cash'[c] + Worth(stages'[c]) > 0
         /\ status'[c] = "CLOSED" => Complete(stages'[c])
<1>1. cash[c] \in Int /\ Worth(stages[c]) \in Nat
  <2>1. stages[c] \in [Stages -> MarketRow]
    BY DEF MarketInv, Types
  <2> QED
    BY <2>1, WorthNat DEF ShapeInv
<1>2. /\ cash[c] + Worth(stages[c]) >= 0
      /\ EverSold(stages[c]) => cash[c] + Worth(stages[c]) > 0
  BY DEF MoneyInv
<1>3. g > cash[c] + Worth(stages[c]) \/ (EverSold(stages'[c]) => EverSold(stages[c]))
  BY DEF EverSold
<1> QED
  BY <1>1, <1>2, <1>3

LEMMA MoneyNext == MarketInv /\ ShapeInv /\ MoneyInv /\ [Next]_vars => MoneyInv'
<1> SUFFICES ASSUME MarketInv, ShapeInv, MoneyInv, [Next]_vars, NEW c \in Cycles
             PROVE  /\ status'[c] = "STARTING" =>
                         cash'[c] = 0 /\ \A n \in Stages : stages'[c][n] = Fresh
                    /\ cash'[c] + Worth(stages'[c]) >= 0
                    /\ EverSold(stages'[c]) => cash'[c] + Worth(stages'[c]) > 0
                    /\ status'[c] = "CLOSED" => Complete(stages'[c])
  BY DEF MoneyInv, EverSold, Complete, Worth, CostOf, Cost
<1>0. /\ cash \in [Cycles -> Int] /\ stages[c] \in [Stages -> MarketRow]
      /\ status \in [Cycles -> {"STARTING", "RUNNING", "CLOSED"}]
      /\ Worth(stages[c]) \in Nat
  <2>1. stages[c] \in [Stages -> MarketRow]
    BY DEF MarketInv, Types
  <2> QED
    BY <2>1, WorthNat DEF MarketInv, Types, ShapeInv
<1>1. ASSUME \A d \in Cycles, n \in Stages, p \in Prices :
               ~SettleBuy(d, n, p) /\ ~SettleSell(d, n, p)
      PROVE  /\ status'[c] = "STARTING" =>
                  cash'[c] = 0 /\ \A n \in Stages : stages'[c][n] = Fresh
             /\ cash'[c] + Worth(stages'[c]) >= 0
             /\ EverSold(stages'[c]) => cash'[c] + Worth(stages'[c]) > 0
             /\ status'[c] = "CLOSED" => Complete(stages'[c])
  <2>1. /\ cash' = cash
        /\ \/ /\ status'[c] = status[c]
              /\ \A n \in Stages : /\ Cost(stages'[c][n]) = Cost(stages[c][n])
                                   /\ stages'[c][n].sold = stages[c][n].sold
              /\ status[c] # "RUNNING" => stages'[c] = stages[c]
           \/ /\ status[c] = "STARTING" /\ status'[c] = "RUNNING"
              /\ \A n \in Stages : stages'[c][n] = Fresh
    BY <1>1, QuietSteps
  <2>2. CASE /\ status'[c] = status[c]
             /\ \A n \in Stages : /\ Cost(stages'[c][n]) = Cost(stages[c][n])
                                  /\ stages'[c][n].sold = stages[c][n].sold
             /\ status[c] # "RUNNING" => stages'[c] = stages[c]
    <3>1. Worth(stages'[c]) = Worth(stages[c])
      BY <2>2, WorthSame
    <3>2. EverSold(stages'[c]) <=> EverSold(stages[c])
      BY <2>2 DEF EverSold
    <3> QED
      BY <2>1, <2>2, <3>1, <3>2 DEF MoneyInv
  <2>3. CASE /\ status[c] = "STARTING" /\ status'[c] = "RUNNING"
             /\ \A n \in Stages : stages'[c][n] = Fresh
    <3>1. Worth(stages'[c]) = 0
      BY <2>3, FreshIsWorthNothing
    <3>2. cash'[c] = 0 /\ ~EverSold(stages'[c])
      BY <2>1, <2>3 DEF MoneyInv, EverSold, Fresh
    <3> QED
      BY <2>3, <3>1, <3>2
  <2> QED
    BY <2>1, <2>2, <2>3
<1>2. ASSUME NEW d \in Cycles, NEW n \in Stages, NEW p \in Prices,
             SettleBuy(d, n, p) \/ SettleSell(d, n, p)
      PROVE  /\ status'[c] = "STARTING" =>
                  cash'[c] = 0 /\ \A m \in Stages : stages'[c][m] = Fresh
             /\ cash'[c] + Worth(stages'[c]) >= 0
             /\ EverSold(stages'[c]) => cash'[c] + Worth(stages'[c]) > 0
             /\ status'[c] = "CLOSED" => Complete(stages'[c])
  <2>1. /\ Close(d) /\ stages[d][n].status \in Pending
    BY <1>2 DEF SettleBuy, SettleSell, Pending
  <2>2. CASE c # d
    <3>1. status'[c] = status[c] /\ stages'[c] = stages[c] /\ cash'[c] = cash[c]
      BY <1>0, <1>2, <2>1, <2>2, BuyMoves, SellMoves DEF Close
    <3> QED
      BY <3>1 DEF MoneyInv
  <2>3. CASE c = d
    <3>1. status'[c] # "STARTING" /\ (status'[c] = "CLOSED" => Complete(stages'[c]))
      <4>1. status[c] # "STARTING" /\ status[c] # "CLOSED"
        BY <2>1, <2>3 DEF MoneyInv, Complete, Fresh, Pending
      <4> QED
        BY <1>0, <2>1, <2>3, <4>1 DEF Close
    <3>2. CASE SettleBuy(d, n, p)
      <4>1. PICK v \in Nat : /\ Worth(stages'[c]) = Worth(stages[c]) + v
                             /\ cash' = [cash EXCEPT ![c] = cash[c] - v]
        BY <2>3, <3>2, BuyMoves
      <4>2. \A m \in Stages : stages'[c][m].sold = stages[c][m].sold
        BY <2>3, <3>2, BuyMoves
      <4> DEFINE g == cash'[c] + Worth(stages'[c])
      <4>3. g \in Int /\ g >= cash[c] + Worth(stages[c])
        BY <1>0, <4>1
      <4> HIDE DEF g
      <4>4. g = cash'[c] + Worth(stages'[c])
        BY DEF g
      <4> QED
        BY <3>1, <4>2, <4>3, <4>4, MoneyKept
    <3>3. CASE SettleSell(d, n, p)
      <4>1. PICK v \in Nat, w \in Nat :
              /\ Worth(stages'[c]) = Worth(stages[c]) - v
              /\ cash' = [cash EXCEPT ![c] = cash[c] + w]
              /\ v <= w /\ (v < w \/ \A m \in Stages : stages'[c][m].sold = stages[c][m].sold)
        BY <2>3, <3>3, SellMoves
      <4> DEFINE g == cash'[c] + Worth(stages'[c])
      <4>2. g = cash[c] + w + Worth(stages[c]) - v
        BY <1>0, <4>1
      <4>3. /\ g \in Int /\ g >= cash[c] + Worth(stages[c])
            /\ v < w => g > cash[c] + Worth(stages[c])
        BY <1>0, <4>1, <4>2
      <4> HIDE DEF g
      <4>4. g = cash'[c] + Worth(stages'[c])
        BY DEF g
      <4> QED
        BY <3>1, <4>1, <4>3, <4>4, MoneyKept
    <3> QED
      BY <1>2, <3>2, <3>3
  <2> QED
    BY <2>2, <2>3
<1> QED
  BY <1>1, <1>2

LEMMA MoneyInvariant == Spec => []MoneyInv
BY MoneyInit, MoneyNext, MarketInvariant, ShapeInvariant, PTL DEF Spec

\* The strategy never sells at a loss, through partial fills, re-buys and prices
\* better than the limit, and a cycle that has closed has earned something: for
\* every ladder, every target and every path the prices take.
THEOREM NoCycleLoses == Spec => []NoLoss
<1>1. MarketInv /\ ShapeInv /\ MoneyInv => NoLoss
  <2> SUFFICES ASSUME MarketInv, ShapeInv, MoneyInv, NEW c \in Cycles
               PROVE  /\ cash[c] + Invested(c) >= 0
                      /\ status[c] = "CLOSED" => cash[c] > 0 /\ Invested(c) = 0
    BY DEF NoLoss
  <2>1. Invested(c) = Worth(stages[c]) /\ cash[c] \in Int
    BY InvestedIsWorth DEF ShapeInv
  <2>2. ASSUME status[c] = "CLOSED" PROVE Worth(stages[c]) = 0 /\ EverSold(stages[c])
    <3>1. Complete(stages[c])
      BY <2>2 DEF MoneyInv
    <3>2. \A n \in Stages : stages[c][n].status \notin Held
      BY <3>1 DEF Complete, Held
    <3> QED
      BY <3>1, <3>2, NothingHeld DEF Complete, EverSold
  <2> QED
    BY <2>1, <2>2 DEF MoneyInv
<1> QED
  BY <1>1, MarketInvariant, ShapeInvariant, MoneyInvariant, PTL

---------------------------------------------------------------------------
(* The limits on the exposure *)

\* What the holdings of the cycles C have cost.
Outlay(rows, C) == SumFunctionOnSet([c \in Cycles |-> Worth(rows[c])], C)

LEMMA OutlaySame ==
  ASSUME NEW rows, NEW new, \A c \in Cycles : Worth(new[c]) = Worth(rows[c]), NEW C
  PROVE  Outlay(new, C) = Outlay(rows, C)
<1>1. [c \in Cycles |-> Worth(new[c])] = [c \in Cycles |-> Worth(rows[c])]
  OBVIOUS
<1> QED
  BY <1>1 DEF Outlay

LEMMA OutlayInt ==
  ASSUME NEW rows, \A c \in Cycles : Worth(rows[c]) \in Int, NEW C \in SUBSET Cycles
  PROVE  Outlay(rows, C) \in Int
<1> DEFINE f == [c \in Cycles |-> Worth(rows[c])]
<1>1. IsFiniteSet(C) /\ \A c \in C : f[c] \in Int
  BY MarketAssumption, FS_Subset
<1> HIDE DEF f
<1>2. SumFunctionOnSet(f, C) \in Int
  BY <1>1, SumInt
<1> QED
  BY <1>2 DEF f, Outlay

\* When the holdings of one cycle change, so does the outlay of the sets it is in.
LEMMA OutlayMoves ==
  ASSUME NEW rows, NEW new, NEW c \in Cycles,
         \A d \in Cycles : /\ Worth(rows[d]) \in Int /\ Worth(new[d]) \in Int
                           /\ d # c => Worth(new[d]) = Worth(rows[d]),
         NEW C \in SUBSET Cycles
  PROVE  /\ c \in C => Outlay(new, C) = Outlay(rows, C) + Worth(new[c]) - Worth(rows[c])
         /\ c \notin C => Outlay(new, C) = Outlay(rows, C)
<1> DEFINE f == [d \in Cycles |-> Worth(rows[d])]
           g == [d \in Cycles |-> Worth(new[d])]
<1>1. IsFiniteSet(C)
  BY MarketAssumption, FS_Subset
<1>2. \A d \in C : f[d] \in Int /\ g[d] \in Int /\ (d # c => g[d] = f[d])
  OBVIOUS
<1>3. f[c] = Worth(rows[c]) /\ g[c] = Worth(new[c])
  OBVIOUS
<1> HIDE DEF f, g
<1>4. CASE c \in C
  <2>1. SumFunctionOnSet(g, C) = SumFunctionOnSet(f, C) + g[c] - f[c]
    BY <1>1, <1>2, <1>4, SumChange
  <2> QED
    BY <1>3, <1>4, <2>1 DEF f, g, Outlay
<1>5. CASE c \notin C
  <2>1. SumFunctionOnSet(g, C) = SumFunctionOnSet(f, C)
    BY <1>1, <1>2, <1>5, SumSame
  <2> QED
    BY <1>5, <2>1 DEF f, g, Outlay
<1> QED
  BY <1>4, <1>5

LEMMA WorthIsNat ==
  MarketInv => \A c \in Cycles : stages[c] \in [Stages -> MarketRow] /\ Worth(stages[c]) \in Nat
<1> SUFFICES ASSUME MarketInv, NEW c \in Cycles
             PROVE  stages[c] \in [Stages -> MarketRow] /\ Worth(stages[c]) \in Nat
  OBVIOUS
<1>1. stages[c] \in [Stages -> MarketRow]
  BY DEF MarketInv, Types
<1> QED
  BY <1>1, WorthNat

\* The exposure compute_exposure adds up leaves out the closed cycles, which
\* hold nothing any more.
LEMMA ExposureIsOutlay ==
  MarketInv /\ MoneyInv => \A C \in SUBSET Cycles : Exposure(C) = Outlay(stages, C)
<1> SUFFICES ASSUME MarketInv, MoneyInv, NEW C \in SUBSET Cycles
             PROVE  Exposure(C) = Outlay(stages, C)
  OBVIOUS
<1> DEFINE f == [c \in Cycles |-> Worth(stages[c])]
           D == {c \in C : status[c] # "CLOSED"}
<1>1. Exposure(C) = SumFunctionOnSet(f, D)
  <2>1. [c \in Cycles |-> Invested(c)] = f
    BY InvestedIsWorth
  <2> QED
    BY <2>1 DEF Exposure
<1>2. IsFiniteSet(C) /\ D \subseteq C /\ \A c \in C : f[c] \in Int
  BY MarketAssumption, FS_Subset, WorthIsNat
<1>3. \A c \in C \ D : f[c] = 0
  <2> SUFFICES ASSUME NEW c \in C \ D PROVE Worth(stages[c]) = 0
    OBVIOUS
  <2>1. Complete(stages[c])
    BY DEF MoneyInv
  <2>2. \A n \in Stages : stages[c][n].status \notin Held
    BY <2>1 DEF Complete, Held
  <2> QED
    BY <2>2, NothingHeld
<1> HIDE DEF f, D
<1>4. SumFunctionOnSet(f, C) = SumFunctionOnSet(f, D)
  BY <1>2, <1>3, SumWithout
<1> QED
  BY <1>1, <1>4 DEF f, Outlay

\* What the order of stage n may still spend.
Planned(c, n) == stages[c][n].limit * PlannedQty(anchor[c], n)

Buying(c, n) == stages[c][n].status = "BUY_PENDING"

Within(c, v) ==
  /\ Outlay(stages, Cycles) + v <= TotalLimit
  /\ Outlay(stages, SameStock(c)) + v <= StockLimit

\* As long as no two buys were in flight together: there is one at most, and the
\* limits have room for it.
LimitInv ==
  ~overlap =>
    /\ \A c \in Cycles, d \in Cycles, n \in Stages, m \in Stages :
         Buying(c, n) /\ Buying(d, m) => c = d /\ n = m
    /\ Outlay(stages, Cycles) <= TotalLimit
    /\ \A c \in Cycles : Outlay(stages, SameStock(c)) <= StockLimit
    /\ \A c \in Cycles, n \in Stages : Buying(c, n) => Within(c, Planned(c, n))

LEMMA LimitInit == Init => LimitInv
<1> SUFFICES ASSUME Init PROVE LimitInv
  OBVIOUS
<1>1. \A c \in Cycles, n \in Stages : stages[c][n] = Fresh
  BY DEF Init
<1>2. \A c \in Cycles : Worth(stages[c]) = 0
  BY <1>1, FreshIsWorthNothing
<1>3. ASSUME NEW C \in SUBSET Cycles PROVE Outlay(stages, C) = 0
  <2> DEFINE f == [c \in Cycles |-> Worth(stages[c])]
  <2>1. IsFiniteSet(C) /\ \A c \in C : f[c] = 0
    BY <1>2, MarketAssumption, FS_Subset
  <2> HIDE DEF f
  <2>2. SumFunctionOnSet(f, C) = 0
    BY <2>1, SumZero
  <2> QED
    BY <2>2 DEF f, Outlay
<1>4. \A c \in Cycles, n \in Stages : ~Buying(c, n)
  BY <1>1 DEF Buying, Fresh
<1>5. TotalLimit \in Nat /\ StockLimit \in Nat
  BY MarketAssumption
<1>6. \A c \in Cycles : SameStock(c) \in SUBSET Cycles
  BY DEF SameStock
<1> QED
  BY <1>3, <1>4, <1>5, <1>6 DEF LimitInv

\* A step that neither sends nor ends a buy leaves the buys in flight as they are.
LEMMA FlightKept ==
  ASSUME MarketInv, [Next]_vars,
         \A c \in Cycles, n \in Stages :
           ~SendBuy(c, n) /\ \A p \in Prices : ~SettleBuy(c, n, p)
  PROVE  /\ overlap' = overlap /\ stock' = stock
         /\ \A c \in Cycles, n \in Stages :
              Buying(c, n)' => Buying(c, n) /\ Planned(c, n)' = Planned(c, n)
<1>0. /\ stages \in [Cycles -> [Stages -> MarketRow]] /\ anchor \in [Cycles -> Nat]
      /\ status \in [Cycles -> {"STARTING", "RUNNING", "CLOSED"}]
  BY DEF MarketInv, Types
<1> USE DEF Buying, Planned
<1>1. CASE UNCHANGED <<overlap, stock, anchor, stages>>
  BY <1>1
<1>2. ASSUME NEW c \in Cycles, ConfirmAnchor(c)
      PROVE  /\ overlap' = overlap /\ stock' = stock
             /\ \A d \in Cycles, n \in Stages :
                  Buying(d, n)' => Buying(d, n) /\ Planned(d, n)' = Planned(d, n)
  <2>1. CASE UNCHANGED <<stages, anchor>>
    BY <1>2, <2>1 DEF ConfirmAnchor
  <2>2. CASE /\ anchor' = [anchor EXCEPT ![c] = tick]
             /\ stages' = [stages EXCEPT ![c] = [n \in Stages |-> Fresh]]
    BY <1>0, <1>2, <2>2 DEF ConfirmAnchor, Fresh
  <2> QED
    BY <1>2, <2>1, <2>2 DEF ConfirmAnchor
<1>3. ASSUME NEW c \in Cycles, SendSells(c)
      PROVE  /\ overlap' = overlap /\ stock' = stock
             /\ \A d \in Cycles, n \in Stages :
                  Buying(d, n)' => Buying(d, n) /\ Planned(d, n)' = Planned(d, n)
  <2> DEFINE go == {n \in Sells(c) :
                      Len(Recent) + Cardinality({m \in Sells(c) : m < n}) < MaxRate}
  <2>1. /\ stages' = [stages EXCEPT ![c] = [n \in Stages |->
             IF n \in go THEN Offered(stages[c][n]) ELSE stages[c][n]]]
        /\ UNCHANGED <<overlap, stock, anchor>>
    BY <1>3 DEF SendSells
  <2> HIDE DEF go
  <2>2. \A n \in Stages : Offered(stages[c][n]).status = "SELL_PENDING"
    BY <1>0 DEF Offered, MarketRow
  <2> QED
    BY <1>0, <2>1, <2>2
<1>4. ASSUME NEW c \in Cycles, NEW n \in Stages, NEW p \in Prices, SettleSell(c, n, p)
      PROVE  /\ overlap' = overlap /\ stock' = stock
             /\ \A d \in Cycles, m \in Stages :
                  Buying(d, m)' => Buying(d, m) /\ Planned(d, m)' = Planned(d, m)
  <2>1. PICK f : /\ stages' = [stages EXCEPT ![c][n] = Sold(stages[c][n], f)]
                 /\ UNCHANGED <<overlap, stock, anchor>>
    BY <1>4 DEF SettleSell
  <2>2. Sold(stages[c][n], f).status # "BUY_PENDING"
    BY <1>0 DEF Sold, Fresh, MarketRow
  <2> QED
    BY <1>0, <2>1, <2>2
<1> HIDE DEF Buying, Planned
<1>5. CASE \E p \in Prices, c \in Cycles : Tick(p, stock[c])
  BY <1>1, <1>5 DEF Tick
<1>6. CASE \E c \in Cycles : NoDecision(c)
  BY <1>1, <1>6 DEF NoDecision
<1>7. CASE \E c \in Cycles, n \in Stages : BlockBuy(c, n)
  BY <1>1, <1>7 DEF BlockBuy
<1>8. CASE UNCHANGED vars
  BY <1>1, <1>8 DEF vars
<1> QED
  BY <1>2, <1>3, <1>4, <1>5, <1>6, <1>7, <1>8 DEF Next

\* LimitInv holds again when no buy has come into flight and no outlay has grown.
LEMMA LimitKept ==
  ASSUME LimitInv,
         overlap' = overlap, stock' = stock,
         \A c \in Cycles, n \in Stages :
           Buying(c, n)' => Buying(c, n) /\ Planned(c, n)' = Planned(c, n),
         \A c \in Cycles, n \in Stages : Buying(c, n) => Planned(c, n) \in Int,
         \A C \in SUBSET Cycles : /\ Outlay(stages, C) \in Int /\ Outlay(stages', C) \in Int
                                  /\ Outlay(stages', C) <= Outlay(stages, C)
  PROVE  LimitInv'
<1>1. SUFFICES ASSUME ~overlap
               PROVE  /\ \A c \in Cycles, d \in Cycles, n \in Stages, m \in Stages :
                           Buying(c, n)' /\ Buying(d, m)' => c = d /\ n = m
                      /\ Outlay(stages', Cycles) <= TotalLimit
                      /\ \A c \in Cycles : Outlay(stages', SameStock(c)') <= StockLimit
                      /\ \A c \in Cycles, n \in Stages :
                           Buying(c, n)' => Within(c, Planned(c, n))'
  BY DEF LimitInv
<1>2. /\ Cycles \in SUBSET Cycles
      /\ \A c \in Cycles : SameStock(c)' = SameStock(c) /\ SameStock(c) \in SUBSET Cycles
  BY DEF SameStock
<1>3. TotalLimit \in Nat /\ StockLimit \in Nat
  BY MarketAssumption
<1>4. ASSUME NEW c \in Cycles, NEW n \in Stages, Buying(c, n)'
      PROVE  Within(c, Planned(c, n))'
  <2>1. Planned(c, n)' = Planned(c, n) /\ Within(c, Planned(c, n)) /\ Planned(c, n) \in Int
    BY <1>1, <1>4 DEF LimitInv
  <2> QED
    BY <1>2, <1>3, <2>1 DEF Within
<1>5. \A c \in Cycles, d \in Cycles, n \in Stages, m \in Stages :
        Buying(c, n)' /\ Buying(d, m)' => c = d /\ n = m
  BY <1>1 DEF LimitInv
<1>6. /\ Outlay(stages', Cycles) <= TotalLimit
      /\ \A c \in Cycles : Outlay(stages', SameStock(c)') <= StockLimit
  BY <1>1, <1>2, <1>3 DEF LimitInv
<1> QED
  BY <1>4, <1>5, <1>6

LEMMA PlannedInt ==
  MarketInv => \A c \in Cycles, n \in Stages :
                 Buying(c, n) => Planned(c, n) \in Nat /\ PlannedQty(anchor[c], n) \in Nat
<1> SUFFICES ASSUME MarketInv, NEW c \in Cycles, NEW n \in Stages, Buying(c, n)
             PROVE  Planned(c, n) \in Nat /\ PlannedQty(anchor[c], n) \in Nat
  OBVIOUS
<1>1. anchor[c] \in Nat /\ LadderOk(anchor[c]) /\ stages[c][n].limit \in Nat
  BY DEF MarketInv, Types, LadderInv, RowOk, MarketRow, Buying
<1>2. PlannedQty(anchor[c], n) \in Nat
  BY <1>1, EveryStageBuysOne
<1> QED
  BY <1>1, <1>2 DEF Planned

LEMMA QuietWorth ==
  ASSUME MarketInv, MoneyInv, [Next]_vars,
         \A c \in Cycles, n \in Stages, p \in Prices :
           ~SettleBuy(c, n, p) /\ ~SettleSell(c, n, p)
  PROVE  \A c \in Cycles : Worth(stages'[c]) = Worth(stages[c])
<1> SUFFICES ASSUME NEW c \in Cycles PROVE Worth(stages'[c]) = Worth(stages[c])
  OBVIOUS
<1>1. \/ \A n \in Stages : Cost(stages'[c][n]) = Cost(stages[c][n])
      \/ status[c] = "STARTING" /\ \A n \in Stages : stages'[c][n] = Fresh
  BY QuietSteps
<1>2. CASE \A n \in Stages : Cost(stages'[c][n]) = Cost(stages[c][n])
  BY <1>2, WorthSame
<1>3. CASE status[c] = "STARTING" /\ \A n \in Stages : stages'[c][n] = Fresh
  <2>1. \A n \in Stages : stages[c][n] = Fresh
    BY <1>3 DEF MoneyInv
  <2> QED
    BY <1>3, <2>1, FreshIsWorthNothing
<1> QED
  BY <1>1, <1>2, <1>3

LEMMA LimitNext ==
  MarketInv /\ MarketInv' /\ ShapeInv /\ MoneyInv /\ LimitInv /\ [Next]_vars => LimitInv'
<1> SUFFICES ASSUME MarketInv, MarketInv', ShapeInv, MoneyInv, LimitInv, [Next]_vars
             PROVE  LimitInv'
  OBVIOUS
<1>0. /\ \A c \in Cycles : Worth(stages[c]) \in Nat
      /\ \A c \in Cycles : Worth(stages'[c]) \in Nat
  <2>1. (\A c \in Cycles : stages[c] \in [Stages -> MarketRow] /\ Worth(stages[c]) \in Nat)'
    BY WorthIsNat, PTL
  <2>2. \A c \in Cycles : Worth(stages[c]) \in Nat
    BY WorthIsNat
  <2>3. \A c \in Cycles : Worth(stages'[c]) \in Nat
    BY <2>1 DEF Worth, CostOf, Cost
  <2> QED
    BY <2>2, <2>3
<1>1. \A C \in SUBSET Cycles : Outlay(stages, C) \in Int /\ Outlay(stages', C) \in Int
  BY <1>0, OutlayInt
<1>2. \A c \in Cycles, n \in Stages : Buying(c, n) => Planned(c, n) \in Int
  BY PlannedInt
<1>3. /\ Cycles \in SUBSET Cycles /\ TotalLimit \in Nat /\ StockLimit \in Nat
      /\ \A c \in Cycles : SameStock(c) \in SUBSET Cycles /\ c \in SameStock(c)
  BY MarketAssumption DEF SameStock
<1>4. /\ stages \in [Cycles -> [Stages -> MarketRow]] /\ anchor \in [Cycles -> Nat]
      /\ status \in [Cycles -> {"STARTING", "RUNNING", "CLOSED"}]
  BY DEF MarketInv, Types
<1>5. ASSUME NEW c \in Cycles, NEW n \in Stages, SendBuy(c, n) PROVE LimitInv'
  <2> DEFINE row == [stages[c][n] EXCEPT !.status = "BUY_PENDING", !.limit = tick]
             e == tick * PlannedQty(anchor[c], n)
  <2>1. /\ stages' = [stages EXCEPT ![c][n] = row] /\ n \in Buy(c)
        /\ UNCHANGED <<stock, anchor>> /\ (overlap' = (overlap \/ InFlight # {}))
    BY <1>4, <1>5 DEF SendBuy, MarketRow
  <2>2. SUFFICES ASSUME ~overlap'
                 PROVE  /\ \A d \in Cycles, e1 \in Cycles, k \in Stages, m \in Stages :
                             Buying(d, k)' /\ Buying(e1, m)' => d = e1 /\ k = m
                        /\ Outlay(stages', Cycles) <= TotalLimit
                        /\ \A d \in Cycles : Outlay(stages', SameStock(d)') <= StockLimit
                        /\ \A d \in Cycles, m \in Stages :
                             Buying(d, m)' => Within(d, Planned(d, m))'
    BY DEF LimitInv
  <2>3. ~overlap /\ InFlight = {}
    BY <2>1, <2>2
  <2>4. \A d \in Cycles, m \in Stages : ~Buying(d, m)
    <3> SUFFICES ASSUME NEW d \in Cycles, NEW m \in Stages, Buying(d, m) PROVE FALSE
      OBVIOUS
    <3>1. <<d, m>> \in InFlight
      BY DEF InFlight, Buying
    <3> QED
      BY <2>3, <3>1
  <2>5. row.limit = tick /\ row.status = "BUY_PENDING"
    BY <1>4 DEF MarketRow
  <2>6. /\ stages'[c][n] = row
        /\ \A d \in Cycles, m \in Stages : d # c \/ m # n => stages'[d][m] = stages[d][m]
    BY <1>4, <2>1
  <2>7. \A d \in Cycles, m \in Stages : Buying(d, m)' => d = c /\ m = n
    BY <2>4, <2>6 DEF Buying
  <2>8. Planned(c, n)' = e
    BY <2>1, <2>5, <2>6 DEF Planned
  <2>9. \A C \in SUBSET Cycles : Outlay(stages', C) = Outlay(stages, C)
    <3>1. \A d \in Cycles, k \in Stages, p \in Prices :
            ~SettleBuy(d, k, p) /\ ~SettleSell(d, k, p)
      BY <1>5 DEF SendBuy, Turn, SettleBuy, SettleSell
    <3>2. \A d \in Cycles : Worth(stages'[d]) = Worth(stages[d])
      BY <3>1, QuietWorth
    <3> QED
      BY <3>2, OutlaySame
  <2>10. /\ Outlay(stages, SameStock(c)) + e <= StockLimit
         /\ Outlay(stages, Cycles) + e <= TotalLimit
    <3>1. GuardAllows(c, n)
      BY <1>5 DEF SendBuy
    <3> QED
      BY <1>3, <3>1, ExposureIsOutlay DEF GuardAllows
  <2>11. \A d \in Cycles : SameStock(d)' = SameStock(d)
    BY <2>1 DEF SameStock
  <2>12. Within(c, Planned(c, n))'
    BY <1>3, <2>8, <2>9, <2>10, <2>11 DEF Within
  <2> HIDE DEF row, e
  <2>13. /\ Outlay(stages', Cycles) <= TotalLimit
         /\ \A d \in Cycles : Outlay(stages', SameStock(d)') <= StockLimit
    BY <1>3, <2>3, <2>9, <2>11 DEF LimitInv
  <2> QED
    BY <2>7, <2>12, <2>13
<1>6. ASSUME NEW c \in Cycles, NEW n \in Stages, NEW p \in Prices, SettleBuy(c, n, p)
      PROVE  LimitInv'
  <2>1. PICK v \in Nat :
          /\ v <= Planned(c, n)
          /\ Worth(stages'[c]) = Worth(stages[c]) + v
    BY <1>6, BuyMoves DEF Planned
  <2>2. \A d \in Cycles : d # c => stages'[d] = stages[d]
    BY <1>6, BuyMoves
  <2>3. /\ Buying(c, n) /\ UNCHANGED <<overlap, stock, anchor>>
        /\ \E f : stages' = [stages EXCEPT ![c][n] = Bought(stages[c][n], f, p)]
    BY <1>6 DEF SettleBuy, Buying
  <2>4. SUFFICES ASSUME ~overlap
                 PROVE  /\ \A d \in Cycles, m \in Stages : ~Buying(d, m)'
                        /\ Outlay(stages', Cycles) <= TotalLimit
                        /\ \A d \in Cycles : Outlay(stages', SameStock(d)') <= StockLimit
    BY <2>3 DEF LimitInv
  <2>5. /\ \A d \in Cycles, m \in Stages : Buying(d, m) => d = c /\ m = n
        /\ Within(c, Planned(c, n)) /\ Planned(c, n) \in Int
        /\ \A d \in Cycles : Outlay(stages, SameStock(d)) <= StockLimit
    BY <1>2, <2>3, <2>4 DEF LimitInv
  <2>6. \A d \in Cycles, m \in Stages : ~Buying(d, m)'
    <3>1. PICK f : stages' = [stages EXCEPT ![c][n] = Bought(stages[c][n], f, p)]
      BY <2>3
    <3>2. Bought(stages[c][n], f, p).status # "BUY_PENDING"
      BY <1>4 DEF Bought, MarketRow
    <3>3. \A d \in Cycles, m \in Stages :
            stages'[d][m] = IF d = c /\ m = n THEN Bought(stages[c][n], f, p)
                            ELSE stages[d][m]
      BY <1>4, <3>1
    <3> QED
      BY <2>5, <3>2, <3>3 DEF Buying
  <2>7. ASSUME NEW C \in SUBSET Cycles
        PROVE  Outlay(stages', C) = IF c \in C THEN Outlay(stages, C) + v ELSE Outlay(stages, C)
    <3>1. \A d \in Cycles : /\ Worth(stages[d]) \in Int /\ Worth(stages'[d]) \in Int
                            /\ d # c => Worth(stages'[d]) = Worth(stages[d])
      BY <1>0, <2>2
    <3>2. /\ c \in C => Outlay(stages', C) = Outlay(stages, C) + Worth(stages'[c]) - Worth(stages[c])
          /\ c \notin C => Outlay(stages', C) = Outlay(stages, C)
      BY <3>1, OutlayMoves
    <3>3. Outlay(stages, C) \in Int /\ Worth(stages[c]) \in Nat
      BY <1>0, <1>1
    <3> QED
      BY <2>1, <3>2, <3>3
  <2>8. /\ Outlay(stages, Cycles) + Planned(c, n) <= TotalLimit
        /\ Outlay(stages, SameStock(c)) + Planned(c, n) <= StockLimit
    BY <2>5 DEF Within
  <2>9. Outlay(stages', Cycles) <= TotalLimit
    BY <1>1, <1>3, <2>1, <2>5, <2>7, <2>8
  <2>10. ASSUME NEW d \in Cycles PROVE Outlay(stages', SameStock(d)') <= StockLimit
    <3>1. SameStock(d)' = SameStock(d) /\ SameStock(d) \in SUBSET Cycles
      BY <1>3, <2>3 DEF SameStock
    <3>2. CASE c \in SameStock(d)
      <4>1. SameStock(d) = SameStock(c)
        BY <3>2 DEF SameStock
      <4> QED
        BY <1>1, <1>3, <2>1, <2>5, <2>7, <2>8, <3>1, <4>1
    <3>3. CASE c \notin SameStock(d)
      BY <2>5, <2>7, <3>1, <3>3
    <3> QED
      BY <3>2, <3>3
  <2> QED
    BY <2>6, <2>9, <2>10
<1>7. ASSUME \A c \in Cycles, n \in Stages :
               ~SendBuy(c, n) /\ \A p \in Prices : ~SettleBuy(c, n, p)
      PROVE  LimitInv'
  <2>1. ASSUME NEW C \in SUBSET Cycles PROVE Outlay(stages', C) <= Outlay(stages, C)
    <3>1. CASE \A c \in Cycles, n \in Stages, p \in Prices : ~SettleSell(c, n, p)
      <4>1. \A c \in Cycles : Worth(stages'[c]) = Worth(stages[c])
        BY <1>7, <3>1, QuietWorth
      <4>2. Outlay(stages', C) = Outlay(stages, C)
        BY <4>1, OutlaySame
      <4> QED
        BY <1>1, <4>2
    <3>2. ASSUME NEW c \in Cycles, NEW n \in Stages, NEW p \in Prices, SettleSell(c, n, p)
          PROVE  Outlay(stages', C) <= Outlay(stages, C)
      <4>1. PICK v \in Nat : Worth(stages'[c]) = Worth(stages[c]) - v
        BY <3>2, SellMoves
      <4>2. \A d \in Cycles : d # c => stages'[d] = stages[d]
        BY <3>2, SellMoves
      <4>3. \A d \in Cycles : /\ Worth(stages[d]) \in Int /\ Worth(stages'[d]) \in Int
                              /\ d # c => Worth(stages'[d]) = Worth(stages[d])
        BY <1>0, <4>2
      <4>4. /\ c \in C =>
                 Outlay(stages', C) = Outlay(stages, C) + Worth(stages'[c]) - Worth(stages[c])
            /\ c \notin C => Outlay(stages', C) = Outlay(stages, C)
        <5> DEFINE new == stages'
        <5>1. \A d \in Cycles : /\ Worth(stages[d]) \in Int /\ Worth(new[d]) \in Int
                                /\ d # c => Worth(new[d]) = Worth(stages[d])
          BY <4>3
        <5> HIDE DEF new
        <5>2. /\ c \in C =>
                   Outlay(new, C) = Outlay(stages, C) + Worth(new[c]) - Worth(stages[c])
              /\ c \notin C => Outlay(new, C) = Outlay(stages, C)
          BY <5>1, OutlayMoves
        <5> QED
          BY <5>2 DEF new
      <4>5. Outlay(stages, C) \in Int /\ Worth(stages[c]) \in Nat
        BY <1>0, <1>1
      <4> QED
        BY <4>1, <4>4, <4>5
    <3> QED
      BY <3>1, <3>2
  <2> QED
    BY <1>1, <1>2, <1>7, <2>1, FlightKept, LimitKept
<1> QED
  BY <1>5, <1>6, <1>7

LEMMA LimitInvariant == Spec => []LimitInv
BY LimitInit, LimitNext, MarketInvariant, ShapeInvariant, MoneyInvariant, PTL DEF Spec

\* The limits per stock and in total hold in every state, closed cycles, partial
\* fills and better prices included, as long as no two buys were in flight
\* together: for any number of cycles and stocks and every limit.
THEOREM LimitsHold == Spec => []LimitHolds
<1>1. MarketInv /\ MoneyInv /\ LimitInv => LimitHolds
  <2> SUFFICES ASSUME MarketInv, MoneyInv, LimitInv, ~overlap
               PROVE  /\ Exposure(Cycles) <= TotalLimit
                      /\ \A c \in Cycles : Exposure(SameStock(c)) <= StockLimit
    BY DEF LimitHolds, ExposureWithinLimits
  <2>1. \A c \in Cycles : SameStock(c) \in SUBSET Cycles
    BY DEF SameStock
  <2> QED
    BY <2>1, ExposureIsOutlay DEF LimitInv
<1> QED
  BY <1>1, MarketInvariant, MoneyInvariant, LimitInvariant, PTL

---------------------------------------------------------------------------
(* The order rate *)

\* The orders sent after b.
SentAfter(b) == {u \in 1..Horizon : u > b}

\* The first k stamps are not after b, and the next one is.
Splits(k, b) ==
  /\ \A i \in 1..k : stamps[i] <= b
  /\ k < Len(stamps) => stamps[k + 1] > b

\* The deque accounts for every order of the window and of each shorter one.
RateInv ==
  /\ sent \in [1..Horizon -> Nat]
  /\ \A u \in 1..Horizon : u > now => sent[u] = 0
  /\ \A b \in Int : b >= now - RateWindow =>
       \A k \in 0..Len(stamps) :
         Splits(k, b) => SumFunctionOnSet(sent, SentAfter(b)) = Len(stamps) - k
  /\ RateLimit

LEMMA SentFinite == ASSUME NEW b PROVE IsFiniteSet(SentAfter(b))
<1>1. IsFiniteSet(1..Horizon) /\ SentAfter(b) \in SUBSET (1..Horizon)
  BY MarketAssumption, FS_Interval DEF SentAfter
<1> QED
  BY <1>1, FS_Subset

LEMMA RateInit == Init => RateInv
<1> SUFFICES ASSUME Init PROVE RateInv
  OBVIOUS
<1>1. sent = [t \in 1..Horizon |-> 0] /\ stamps = <<>> /\ Len(stamps) = 0
  BY DEF Init
<1>2. ASSUME NEW b \in Int PROVE SumFunctionOnSet(sent, SentAfter(b)) = 0
  <2>1. \A u \in SentAfter(b) : sent[u] = 0
    BY <1>1 DEF SentAfter
  <2> QED
    BY <2>1, SentFinite, SumZero
<1>3. RateLimit
  <2> SUFFICES ASSUME NEW t \in 1..Horizon
               PROVE  SumFunctionOnSet(sent, {u \in 1..t : u > t - RateWindow}) <= MaxRate
    BY DEF RateLimit
  <2> DEFINE W == {u \in 1..t : u > t - RateWindow}
  <2>1. IsFiniteSet(1..t) /\ W \in SUBSET (1..t) /\ MaxRate \in Nat
    BY FS_Interval, MarketAssumption
  <2>2. \A u \in W : sent[u] = 0
    BY <1>1, MarketAssumption
  <2>3. IsFiniteSet(W)
    BY <2>1, FS_Subset
  <2> HIDE DEF W
  <2>4. SumFunctionOnSet(sent, W) = 0
    BY <2>2, <2>3, SumZero
  <2> QED
    BY <2>1, <2>4 DEF W
<1>4. \A k \in 0..Len(stamps) : Len(stamps) - k = 0
  BY <1>1
<1>5. sent \in [1..Horizon -> Nat] /\ \A u \in 1..Horizon : sent[u] = 0
  BY <1>1
<1> QED
  BY <1>2, <1>3, <1>4, <1>5 DEF RateInv

\* When q orders are sent now, the deque accounts for them too.
LEMMA RateRecord ==
  ASSUME MarketInv, ShapeInv, RateInv, now > 0, NEW q \in Nat,
         now' = now, sent' = [sent EXCEPT ![now] = sent[now] + q],
         stamps' \in Seq(Nat), Len(stamps') = Len(Recent) + q,
         \A i \in 1..Len(stamps') :
           stamps'[i] = IF i <= Len(Recent) THEN Recent[i] ELSE now,
         q # 0 => Len(Recent) + q <= MaxRate
  PROVE  RateInv'
<1>0. /\ now \in 1..Horizon /\ RateWindow \in Nat \ {0} /\ MaxRate \in Nat /\ Horizon \in Nat
      /\ stamps \in Seq(Nat) /\ sent \in [1..Horizon -> Nat]
      /\ \A u \in 1..Horizon : u > now => sent[u] = 0
  BY MarketAssumption DEF MarketInv, Types, ShapeInv, RateInv
<1>1. PICK d \in 0..Len(stamps) :
        /\ Recent \in Seq(Nat) /\ Len(Recent) = Len(stamps) - d
        /\ \A i \in 1..(Len(stamps) - d) : Recent[i] = stamps[d + i]
        /\ \A i \in 1..d : stamps[i] <= now - RateWindow
        /\ d < Len(stamps) => stamps[d + 1] > now - RateWindow
  BY <1>0, RecentIs
<1> DEFINE r == Len(Recent)
<1>2. /\ r \in Nat /\ Len(stamps) \in Nat /\ r = Len(stamps) - d
      /\ Len(stamps') = r + q /\ Len(stamps') \in Nat
      /\ \A i \in 1..r : Recent[i] \in Nat
      /\ \A i \in 1..Len(stamps) : stamps[i] \in 1..now
  <2>1. r \in Nat /\ \A i \in 1..r : Recent[i] \in Nat
    BY <1>1
  <2>2. Len(stamps) \in Nat /\ \A i \in 1..Len(stamps) : stamps[i] \in 1..now
    BY <1>0 DEF ShapeInv
  <2> QED
    BY <1>1, <2>1, <2>2
<1>3. /\ sent' \in [1..Horizon -> Nat] /\ sent'[now] = sent[now] + q /\ sent[now] \in Nat
      /\ \A u \in 1..Horizon : u # now => sent'[u] = sent[u]
  BY <1>0
<1>4. \A u \in 1..Horizon : u > now' => sent'[u] = 0
  BY <1>0, <1>3
<1>5. ASSUME NEW b \in Int, b >= now - RateWindow, NEW k \in 0..Len(stamps'), Splits(k, b)'
      PROVE  SumFunctionOnSet(sent', SentAfter(b)) = Len(stamps') - k
  <2>1. /\ \A i \in 1..k : stamps'[i] <= b
        /\ k < Len(stamps') => stamps'[k + 1] > b
    BY <1>5 DEF Splits
  <2>2. CASE b >= now
    <3>1. \A i \in 1..Len(stamps') : stamps'[i] <= now
      <4> SUFFICES ASSUME NEW i \in 1..Len(stamps') PROVE stamps'[i] <= now
        OBVIOUS
      <4>1. CASE i <= r
        <5>1. i \in 1..r /\ d + i \in 1..Len(stamps) /\ stamps'[i] = stamps[d + i]
          BY <1>1, <1>2, <4>1
        <5> QED
          BY <1>0, <1>2, <5>1
      <4>2. CASE ~(i <= r)
        BY <1>0, <4>2
      <4> QED
        BY <4>1, <4>2
    <3>2. k = Len(stamps')
      <4>0. k \in Nat /\ k <= Len(stamps') /\ Len(stamps') \in Nat
        BY <1>2
      <4> SUFFICES ASSUME k < Len(stamps') PROVE FALSE
        BY <4>0
      <4>1. k + 1 \in 1..Len(stamps')
        BY <1>2
      <4>2. stamps'[k + 1] <= now /\ stamps'[k + 1] > b /\ stamps'[k + 1] \in Nat
        BY <2>1, <3>1, <4>1
      <4> QED
        BY <1>0, <2>2, <4>2
    <3>3. \A u \in SentAfter(b) : sent'[u] = 0
      BY <1>0, <1>3, <2>2 DEF SentAfter
    <3>4. SumFunctionOnSet(sent', SentAfter(b)) = 0
      BY <3>3, SentFinite, SumZero
    <3> QED
      BY <1>2, <3>2, <3>4
  <2>3. CASE b < now
    <3>1. k <= r
      <4> SUFFICES ASSUME k > r PROVE FALSE
        BY <1>2
      <4>1. k \in 1..Len(stamps') /\ k \in 1..k /\ ~(k <= r)
        BY <1>2
      <4>2. stamps'[k] = now /\ stamps'[k] <= b
        BY <2>1, <4>1
      <4> QED
        BY <1>0, <2>3, <4>2
    <3>2. d + k \in 0..Len(stamps) /\ k \in 0..r
      BY <1>2, <3>1
    <3>3. Splits(d + k, b)
      <4>1. ASSUME NEW i \in 1..(d + k) PROVE stamps[i] <= b
        <5>0. stamps[i] \in Nat
          BY <1>2, <3>2
        <5>1. CASE i <= d
          <6>1. stamps[i] <= now - RateWindow
            BY <1>1, <5>1
          <6> QED
            BY <1>0, <1>5, <5>0, <6>1
        <5>2. CASE i > d
          <6>1. i - d \in 1..k /\ i - d \in 1..r /\ d + (i - d) = i /\ i - d \in 1..Len(stamps')
            BY <1>2, <3>2, <5>2
          <6>2. stamps'[i - d] = Recent[i - d] /\ Recent[i - d] = stamps[d + (i - d)]
            BY <1>1, <1>2, <6>1
          <6>3. stamps'[i - d] <= b
            BY <2>1, <6>1
          <6> QED
            BY <6>1, <6>2, <6>3
        <5> QED
          BY <5>1, <5>2
      <4>2. ASSUME d + k < Len(stamps) PROVE stamps[d + k + 1] > b
        <5>1. /\ k + 1 \in 1..r /\ k + 1 <= r /\ k + 1 \in 1..Len(stamps')
              /\ d + (k + 1) = d + k + 1 /\ k < Len(stamps')
          BY <1>2, <3>2, <4>2
        <5>2. stamps'[k + 1] = Recent[k + 1] /\ Recent[k + 1] = stamps[d + (k + 1)]
          BY <1>1, <1>2, <5>1
        <5> QED
          BY <2>1, <5>1, <5>2
      <4> QED
        BY <4>1, <4>2 DEF Splits
    <3>4. SumFunctionOnSet(sent, SentAfter(b)) = Len(stamps) - (d + k)
      BY <1>5, <3>2, <3>3 DEF RateInv
    <3>5. SumFunctionOnSet(sent', SentAfter(b)) =
            SumFunctionOnSet(sent, SentAfter(b)) + sent'[now] - sent[now]
      <4>1. now \in SentAfter(b)
        BY <1>0, <2>3 DEF SentAfter
      <4>2. \A u \in SentAfter(b) : /\ sent[u] \in Int /\ sent'[u] \in Int
                                    /\ u # now => sent'[u] = sent[u]
        BY <1>0, <1>3 DEF SentAfter
      <4> DEFINE new == sent'
                 S == SentAfter(b)
      <4>3. \A u \in S : sent[u] \in Int /\ new[u] \in Int /\ (u # now => new[u] = sent[u])
        BY <4>2
      <4>4. IsFiniteSet(S) /\ now \in S
        BY <4>1, SentFinite
      <4> HIDE DEF new, S
      <4>5. SumFunctionOnSet(new, S) = SumFunctionOnSet(sent, S) + new[now] - sent[now]
        BY <4>3, <4>4, SumChange
      <4> QED
        BY <4>5 DEF new, S
    <3> QED
      BY <1>2, <1>3, <3>2, <3>4, <3>5
  <2> QED
    BY <1>0, <2>2, <2>3
<1>6. RateLimit'
  <2> SUFFICES ASSUME NEW t \in 1..Horizon
               PROVE  SumFunctionOnSet(sent', {u \in 1..t : u > t - RateWindow}) <= MaxRate
    BY DEF RateLimit
  <2> DEFINE W == {u \in 1..t : u > t - RateWindow}
             new == sent'
  <2>1. W \in SUBSET (1..Horizon) /\ IsFiniteSet(1..Horizon)
    <3>1. W \in SUBSET (1..Horizon)
      BY <1>0
    <3>2. Horizon \in Int
      BY <1>0
    <3>3. IsFiniteSet(1..Horizon)
      BY <3>2, FS_Interval
    <3> QED
      BY <3>1, <3>3
  <2>2. IsFiniteSet(W)
    <3> HIDE DEF W
    <3> QED
      BY <2>1, FS_Subset
  <2>3. SumFunctionOnSet(sent, W) <= MaxRate
    BY DEF RateInv, RateLimit
  <2>4. CASE t < now \/ q = 0
    <3>1. \A u \in W : sent[u] \in Int /\ new[u] = sent[u]
      BY <1>0, <1>3, <2>1, <2>4
    <3> HIDE DEF W, new
    <3>2. SumFunctionOnSet(new, W) = SumFunctionOnSet(sent, W)
      BY <2>2, <3>1, SumSame
    <3> QED
      BY <2>3, <3>2 DEF W, new
  <2>5. CASE t >= now /\ q # 0
    <3> DEFINE b == now - RateWindow
    <3>1. b \in Int /\ b >= now - RateWindow /\ 0 \in 0..Len(stamps')
      BY <1>0, <1>2
    <3>2. Splits(0, b)'
      <4>1. ASSUME 0 < Len(stamps') PROVE stamps'[0 + 1] > b
        <5>1. CASE r = 0
          <6>1. stamps'[1] = now
            BY <1>2, <4>1, <5>1
          <6> QED
            BY <1>0, <6>1
        <5>2. CASE r # 0
          <6>1. 1 \in 1..r /\ 1 <= r /\ 1 \in 1..Len(stamps')
            BY <1>2, <5>2
          <6>2. 1 \in 1..(Len(stamps) - d) /\ d < Len(stamps)
            BY <1>2, <5>2
          <6>3. stamps'[1] = stamps[d + 1]
            BY <1>1, <6>1, <6>2
          <6> QED
            BY <1>1, <6>2, <6>3
        <5> QED
          BY <5>1, <5>2
      <4> QED
        BY <1>0, <4>1 DEF Splits
    <3> DEFINE S == SentAfter(b)
    <3>3. SumFunctionOnSet(new, S) = Len(stamps')
      <4>1. SumFunctionOnSet(new, S) = Len(stamps') - 0
        BY <1>5, <3>1, <3>2
      <4> QED
        BY <1>2, <4>1
    <3>4. W \subseteq S /\ \A u \in S : new[u] \in Nat
      <4>1. ASSUME NEW u \in W PROVE u \in S
        <5>1. /\ u \in 1..t /\ u > t - RateWindow /\ t \in Nat /\ t >= now /\ t <= Horizon
              /\ now \in Nat /\ RateWindow \in Nat /\ Horizon \in Nat
          BY <1>0, <2>5
        <5>2. u > now - RateWindow /\ u \in 1..Horizon
          BY <5>1
        <5> QED
          BY <5>2 DEF SentAfter
      <4>2. \A u \in S : new[u] \in Nat
        BY <1>3 DEF SentAfter
      <4> QED
        BY <4>1, <4>2
    <3>5. IsFiniteSet(S)
      BY SentFinite
    <3> HIDE DEF W, new, S, b
    <3>6. SumFunctionOnSet(new, W) <= SumFunctionOnSet(new, S)
      BY <3>4, <3>5, SumSubset
    <3>7. SumFunctionOnSet(new, W) \in Int
      <4>1. \A u \in W : new[u] \in Int
        BY <3>4
      <4> QED
        BY <2>2, <4>1, SumInt
    <3>8. SumFunctionOnSet(new, W) <= MaxRate
      BY <1>0, <1>2, <2>5, <3>3, <3>6, <3>7
    <3> QED
      BY <3>8 DEF W, new
  <2> QED
    BY <1>0, <2>4, <2>5
<1> QED
  BY <1>3, <1>4, <1>5, <1>6 DEF RateInv, SentAfter

\* The sells that the rate guard lets through fit in what is left of the window.
LEMMA SellsFit ==
  ASSUME NEW r \in Nat, NEW S \in SUBSET Stages,
         NEW go, go = {n \in S : r + Cardinality({m \in S : m < n}) < MaxRate}
  PROVE  Cardinality(go) \in Nat /\ (go # {} => r + Cardinality(go) <= MaxRate)
<1>1. go \in SUBSET Stages /\ IsFiniteSet(go) /\ Cardinality(go) \in Nat
  <2>1. go \in SUBSET Stages
    OBVIOUS
  <2> QED
    BY <2>1, StagesFinite, FS_Subset, FS_CardinalityType
<1>2. ASSUME go # {} PROVE r + Cardinality(go) <= MaxRate
  <2>1. PICK n \in go : \A m \in go : m <= n
    <3>1. go \in SUBSET (1..MaxStages) /\ MaxStages \in Nat
      BY <1>1, LadderAssumption DEF Stages
    <3> QED
      BY <1>2, <3>1, Largest
  <2> DEFINE below == {m \in S : m < n}
  <2>2. IsFiniteSet(below) /\ Cardinality(below) \in Nat
    <3>1. below \in SUBSET Stages
      OBVIOUS
    <3> HIDE DEF below
    <3> QED
      BY <3>1, StagesFinite, FS_Subset, FS_CardinalityType
  <2>3. go \subseteq below \cup {n}
    <3> SUFFICES ASSUME NEW m \in go, m # n PROVE m < n /\ m \in S
      OBVIOUS
    <3>1. m \in 1..MaxStages /\ n \in 1..MaxStages /\ m <= n
      BY <1>1, <2>1 DEF Stages
    <3> QED
      BY <3>1
  <2>4. r + Cardinality(below) < MaxRate
    BY <2>1
  <2> HIDE DEF below
  <2>5. IsFiniteSet(below \cup {n}) /\ Cardinality(below \cup {n}) <= Cardinality(below) + 1
    <3>1. /\ IsFiniteSet(below \cup {n})
          /\ Cardinality(below \cup {n}) = IF n \in below THEN Cardinality(below)
                                           ELSE Cardinality(below) + 1
      BY <2>2, FS_AddElement
    <3> QED
      BY <2>2, <3>1
  <2>6. Cardinality(go) <= Cardinality(below \cup {n}) /\ Cardinality(below \cup {n}) \in Nat
    BY <2>3, <2>5, FS_Subset, FS_CardinalityType
  <2>7. MaxRate \in Nat
    BY MarketAssumption
  <2> QED
    BY <1>1, <2>2, <2>4, <2>5, <2>6, <2>7
<1> QED
  BY <1>1, <1>2

LEMMA RateNext ==
  MarketInv /\ ShapeInv /\ RateInv /\ [Next]_vars => RateInv'
<1> SUFFICES ASSUME MarketInv, ShapeInv, RateInv, [Next]_vars PROVE RateInv'
  OBVIOUS
<1>0. /\ now \in Nat /\ stamps \in Seq(Nat) /\ RateWindow \in Nat /\ Horizon \in Nat
      /\ MaxRate \in Nat /\ sent \in [1..Horizon -> Nat] /\ now <= Horizon
  BY MarketAssumption DEF MarketInv, Types, ShapeInv, RateInv
<1>1. ASSUME UNCHANGED <<stamps, sent>>, now' = now \/ now' = now + 1
      PROVE  RateInv'
  <2>1. \A b \in Int : b >= now' - RateWindow => b >= now - RateWindow
    BY <1>0, <1>1
  <2>2. \A u \in 1..Horizon : u > now' => sent'[u] = 0
    BY <1>0, <1>1 DEF RateInv
  <2>3. \A b \in Int, k \in 0..Len(stamps) : Splits(k, b)' <=> Splits(k, b)
    BY <1>1 DEF Splits
  <2>4. RateLimit'
    BY <1>1 DEF RateInv, RateLimit
  <2> QED
    BY <1>1, <2>1, <2>2, <2>3, <2>4 DEF RateInv, SentAfter
<1>2. ASSUME NEW q \in Nat, now > 0, now' = now, Record(q),
             q # 0 => Len(Recent) + q <= MaxRate
      PROVE  RateInv'
  <2>1. /\ stamps' = Recent \o [i \in 1..q |-> now]
        /\ sent' = [sent EXCEPT ![now] = sent[now] + q]
    BY <1>2 DEF Record
  <2>2. /\ stamps' \in Seq(Nat) /\ Len(stamps') = Len(Recent) + q
        /\ \A i \in 1..Len(stamps') :
             stamps'[i] = IF i <= Len(Recent) THEN Recent[i] ELSE now
    BY <1>0, <2>1, Recorded
  <2> QED
    BY <1>2, <2>1, <2>2, RateRecord
<1>3. CASE UNCHANGED vars
  BY <1>1, <1>3 DEF vars
<1>4. ASSUME NEW p \in Prices, NEW c \in Cycles, Tick(p, stock[c]) PROVE RateInv'
  BY <1>1, <1>4 DEF Tick
<1>5. ASSUME NEW c \in Cycles, ConfirmAnchor(c) \/ NoDecision(c) PROVE RateInv'
  BY <1>1, <1>5 DEF ConfirmAnchor, NoDecision
<1>6. ASSUME NEW c \in Cycles, SendSells(c) PROVE RateInv'
  <2> DEFINE go == {n \in Sells(c) :
                      Len(Recent) + Cardinality({m \in Sells(c) : m < n}) < MaxRate}
  <2>1. Record(Cardinality(go)) /\ now' = now /\ c \in todo
    BY <1>6 DEF SendSells, Turn
  <2>2. now > 0
    BY <2>1 DEF ShapeInv
  <2>3. Len(Recent) \in Nat /\ Sells(c) \in SUBSET Stages
    BY <1>0, RecentIs DEF Sells
  <2>4. /\ Cardinality(go) \in Nat
        /\ go # {} => Len(Recent) + Cardinality(go) <= MaxRate
    BY <2>3, SellsFit
  <2>5. Cardinality(go) # 0 => go # {}
    BY FS_EmptySet
  <2> HIDE DEF go
  <2> QED
    BY <1>2, <2>1, <2>2, <2>4, <2>5
<1>7. ASSUME NEW c \in Cycles, NEW n \in Stages, SendBuy(c, n) PROVE RateInv'
  <2>1. Record(1) /\ now' = now /\ c \in todo /\ Len(Recent) < MaxRate
    BY <1>7 DEF SendBuy, Turn, GuardAllows
  <2>2. now > 0 /\ Len(Recent) \in Nat
    BY <1>0, <2>1, RecentIs DEF ShapeInv
  <2>3. 1 # 0 => Len(Recent) + 1 <= MaxRate
    BY <1>0, <2>1, <2>2
  <2> QED
    BY <1>2, <2>1, <2>2, <2>3
<1>8. ASSUME NEW c \in Cycles, NEW n \in Stages, BlockBuy(c, n) PROVE RateInv'
  <2>1. stamps' = Recent /\ UNCHANGED <<now, sent>> /\ c \in todo
    BY <1>8 DEF BlockBuy, Turn
  <2>2. now \in 1..Horizon
    BY <1>0, <2>1 DEF ShapeInv
  <2>3. PICK q \in Nat : q = 0
    OBVIOUS
  <2>4. Recent \in Seq(Nat) /\ Len(Recent) \in Nat /\ Len(stamps') = Len(Recent) + q
    BY <1>0, <2>1, <2>3, RecentIs
  <2>5. sent' = [sent EXCEPT ![now] = sent[now] + q]
    BY <1>0, <2>1, <2>2, <2>3
  <2>6. \A i \in 1..Len(stamps') :
          stamps'[i] = IF i <= Len(Recent) THEN Recent[i] ELSE now
    BY <2>1, <2>4
  <2>7. stamps' \in Seq(Nat) /\ now > 0 /\ now' = now
    BY <2>1, <2>2, <2>4
  <2> QED
    BY <2>3, <2>4, <2>5, <2>6, <2>7, RateRecord
<1>9. ASSUME NEW c \in Cycles, NEW n \in Stages, NEW p \in Prices,
             SettleBuy(c, n, p) \/ SettleSell(c, n, p)
      PROVE  RateInv'
  BY <1>1, <1>9 DEF SettleBuy, SettleSell
<1> QED
  BY <1>3, <1>4, <1>5, <1>6, <1>7, <1>8, <1>9 DEF Next

LEMMA RateInvariant == Spec => []RateInv
BY RateInit, RateNext, MarketInvariant, ShapeInvariant, PTL DEF Spec

\* In no window of RateWindow seconds more than MaxRate orders are sent, counted
\* from the orders and not from the deque, though the deque is cleaned only when
\* it is looked at and several sells of one tick ask it one after the other.
THEOREM RateIsLimited == Spec => []RateLimit
<1>1. RateInv => RateLimit
  BY DEF RateInv
<1> QED
  BY <1>1, RateInvariant, PTL
=============================================================================
