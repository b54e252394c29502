------------------------------- MODULE Ladder -------------------------------
(***************************************************************************)
(* The arithmetic of the ladder: tick sizes (domain/tick_size.py), trigger *)
(* prices, quantities and target prices (domain/ladder.py).                *)
(*                                                                         *)
(* A Decimal ratio is an integer number of 1/Den, and a raw price the      *)
(* integer number of 1/Den of a won that the code's exact product is.  The *)
(* division by a tick size is exact in the code too: 28 digits are enough. *)
(***************************************************************************)
EXTENDS Integers

CONSTANTS
  Den,        \* denominator of the ratios
  Drop,       \* drop_pct * Den
  Target,     \* target_pct * Den
  MaxStages,  \* max_stages
  Amount      \* amount_per_stage, in won

\* What Ladder demands of a configuration before it looks at an anchor.
ASSUME LadderAssumption ==
  /\ Den \in Nat \ {0}
  /\ Drop \in 1..(Den - 1)
  /\ Target \in Nat \ {0}
  /\ MaxStages \in 2..7
  /\ Amount \in Nat \ {0}
  /\ Drop * (MaxStages - 1) < Den

Stages == 1..MaxStages

---------------------------------------------------------------------------
(* Tick sizes *)

\* _TICK_TABLE, and _TICK_ABOVE_TABLE at its end.
TickUnit(price) ==
  IF price < 2000 THEN 1
  ELSE IF price < 5000 THEN 5
  ELSE IF price < 20000 THEN 10
  ELSE IF price < 50000 THEN 50
  ELSE IF price < 200000 THEN 100
  ELSE IF price < 500000 THEN 500
  ELSE 1000

\* A price the exchange accepts.
ValidPrice(price) == price > 0 /\ price % TickUnit(price) = 0

\* normalize_tick of raw/Den: down for a buy, up for a sell.
TickOf(raw) == TickUnit(raw \div Den)

RoundDown(raw) == (raw \div (Den * TickOf(raw))) * TickOf(raw)

RoundUp(raw) ==
  ((raw + Den * TickOf(raw) - 1) \div (Den * TickOf(raw))) * TickOf(raw)

---------------------------------------------------------------------------
(* The ladder of an anchor price *)

RawTrigger(anchor, n) == anchor * (Den - Drop * (n - 1))

Trigger(anchor, n) == RoundDown(RawTrigger(anchor, n))

\* Mutant: the quantity is rounded up.
QtyRoundedUp(anchor, n) ==
  (Amount + Trigger(anchor, n) - 1) \div Trigger(anchor, n)

PlannedQty(anchor, n) == Amount \div Trigger(anchor, n)

\* Ladder.__post_init__: the last trigger is at least one won, and stage 1 can
\* buy one share.
LadderOk(anchor) ==
  /\ anchor > 0
  /\ RawTrigger(anchor, MaxStages) >= Den
  /\ PlannedQty(anchor, 1) # 0

\* Mutant: the target is rounded down.
TargetRoundedDown(fill) == RoundDown(fill * (Den + Target))

TargetPrice(fill) == RoundUp(fill * (Den + Target))
=============================================================================
