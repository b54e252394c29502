----------------------------- MODULE StageLife -----------------------------
(***************************************************************************)
(* The life of one stage of the ladder (domain/stage.py) and the guards    *)
(* SqliteRepository puts on the two rows an order touches: the stage_state *)
(* row (save_stage) and the order_log row (update_order_log).              *)
(*                                                                         *)
(* A stage row keeps its status, the shares it holds (fill_qty, 0 for      *)
(* NULL) and whether it has ever been sold (last_sold_at / rebuy_count).   *)
(* Prices and timestamps are left out: no property here compares them.     *)
(***************************************************************************)
EXTENDS Naturals

CONSTANTS
  MaxStages,   \* stages of the ladder (7 in production)
  Lot,         \* shares a stage plans to buy (planned_qty)
  AllowRebuy   \* split_config.allow_rebuy

ASSUME StageAssumption ==
  /\ MaxStages \in Nat \ {0}
  /\ Lot \in Nat \ {0}
  /\ AllowRebuy \in BOOLEAN

Stages == 1..MaxStages
Qty == 0..Lot

---------------------------------------------------------------------------
(* Stage rows *)

StageStatus == {"WAITING", "BUY_PENDING", "HOLDING", "SELL_PENDING", "SOLD"}

StageRow == [status: StageStatus, qty: Qty, sold: BOOLEAN]

\* The transition table of the design, section 4.1.
Allowed == [WAITING      |-> {"BUY_PENDING"},
            BUY_PENDING  |-> {"HOLDING", "WAITING"},
            HOLDING      |-> {"SELL_PENDING"},
            SELL_PENDING |-> {"HOLDING", "WAITING", "SOLD"},
            SOLD         |-> {}]

FreshStage == [status |-> "WAITING", qty |-> 0, sold |-> FALSE]

Pending(row) == row.status \in {"BUY_PENDING", "SELL_PENDING"}

Holds(row) == row.status \in {"HOLDING", "SELL_PENDING"}

HeldQty(row) == IF Holds(row) THEN row.qty ELSE 0

\* What StageState.__post_init__ demands of a row: a holding is not empty.
WellFormed(row) == Holds(row) => row.qty > 0

PendingAs(side) == IF side = "BUY" THEN "BUY_PENDING" ELSE "SELL_PENDING"

ToPending(row, side) == [row EXCEPT !.status = PendingAs(side)]

ToHolding(row, q) == [row EXCEPT !.status = "HOLDING", !.qty = q]

AfterSell(row) ==
  [status |-> IF AllowRebuy THEN "WAITING" ELSE "SOLD", qty |-> 0, sold |-> TRUE]

CancelBuy(row) == [row EXCEPT !.status = "WAITING"]

CancelSell(row, remaining) == [row EXCEPT !.status = "HOLDING", !.qty = remaining]

ForceSold(row) == [status |-> "SOLD", qty |-> 0, sold |-> TRUE]

\* An order that ended without a fill puts the stage back where it was.
Restored(row) ==
  IF row.status = "BUY_PENDING" THEN CancelBuy(row) ELSE CancelSell(row, row.qty)

\* Mutants: a partly filled sell gives the stage its shares back, or more.
AppliedNoShrink(row, f) ==
  IF row.status = "BUY_PENDING" THEN ToHolding(row, f)
  ELSE IF f >= row.qty THEN AfterSell(row)
  ELSE CancelSell(row, row.qty)

AppliedGrows(row, f) ==
  IF row.status = "BUY_PENDING" THEN ToHolding(row, f)
  ELSE IF f >= row.qty THEN AfterSell(row)
  ELSE CancelSell(row, row.qty + f)

\* An order that ended with f shares: a bought part becomes the holding, a
\* sold part shrinks it, and selling it all empties the stage.
Applied(row, f) ==
  IF row.status = "BUY_PENDING" THEN ToHolding(row, f)
  ELSE IF f >= row.qty THEN AfterSell(row)
  ELSE CancelSell(row, row.qty - f)

\* The guards of save_stage: a legal transition, and fill_qty fixed once
\* written except for the shrink of a cancelled sell.
StageAccepts(old, new) ==
  /\ new.status # old.status => new.status \in Allowed[old.status]
  /\ old.qty > 0 /\ new.qty > 0 /\ new.qty # old.qty =>
       /\ old.status = "SELL_PENDING"
       /\ new.status = "HOLDING"
       /\ new.qty < old.qty

\* decide for the rows st of a ladder, whatever the price and the clock: any
\* holdings may have reached their target; without a sell, one stage may be
\* bought: WAITING, cooled down, and below it only waiting stages that are
\* still cooling down.
DecisionsOf(st) ==
  (SUBSET {s \in Stages : st[s].status = "HOLDING"}) \cup
  {{s} : s \in {t \in Stages :
     /\ st[t].status = "WAITING"
     /\ st[t].sold => AllowRebuy
     /\ \A u \in 1..(t - 1) : st[u].status = "WAITING" => st[u].sold}}

---------------------------------------------------------------------------
(* Order-log rows *)

\* Mutant: a partly filled order is not seen as pending.
LiveNoPartial == {"SENDING", "ACCEPTED", "UNKNOWN"}

Live == {"SENDING", "ACCEPTED", "PARTIAL", "UNKNOWN"}   \* _PENDING_STATUSES
Terminal == {"FILLED", "CANCELED", "REJECTED"}          \* _TERMINAL_STATUSES

Sides == {"BUY", "SELL"}

\* "known" says broker_order_id is not NULL; "NONE" is a row not yet inserted.
LogRow == [st: Live \cup Terminal \cup {"NONE"}, stage: 0..MaxStages,
           side: Sides, req: Qty, known: BOOLEAN, fill: Qty]

NoRow == [st |-> "NONE", stage |-> 0, side |-> "BUY", req |-> 0,
          known |-> FALSE, fill |-> 0]

\* The guards of update_order_log: a terminal row neither changes status nor
\* its recorded fill, and no fill exceeds the request (fill 0 stands for NULL).
LogAccepts(row, st, fill) ==
  /\ row.st \in Terminal => /\ st = row.st
                            /\ row.fill > 0 /\ fill > 0 => fill = row.fill
  /\ fill <= row.req

\* Mutant: the cumulative quantity is taken for an increment.
LogUpdateAdds(row, st, fill) == [row EXCEPT !.st = st, !.fill = @ + fill]

\* COALESCE(?, fill_qty): a missing value keeps the stored one.
LogUpdate(row, st, fill) ==
  [row EXCEPT !.st = st, !.fill = IF fill > 0 THEN fill ELSE @]
=============================================================================
