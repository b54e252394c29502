---------------------------- MODULE LadderProofs ----------------------------
(***************************************************************************)
(* What the rounding of the ladder guarantees for every price, ratio and   *)
(* amount: prices the exchange accepts, triggers that fall from stage to   *)
(* stage, at least one share per stage, and targets that keep the profit.  *)
(***************************************************************************)
EXTENDS Ladder, TLAPS

\* Division leaves a remainder below the divisor.
LEMMA Division ==
  ASSUME NEW n \in Nat, NEW u \in Nat \ {0}
  PROVE  /\ n \div u \in Nat
         /\ (n \div u) * u <= n
         /\ n < (n \div u) * u + u
  BY Z3

LEMMA Units ==
  ASSUME NEW p \in Nat
  PROVE  TickUnit(p) \in {1, 5, 10, 50, 100, 500, 1000}
  BY DEF TickUnit

\* The won part of a raw price and its tick.
LEMMA RawTick ==
  ASSUME NEW raw \in Nat
  PROVE  /\ raw \div Den \in Nat
         /\ TickOf(raw) \in Nat \ {0}
         /\ Den * TickOf(raw) \in Nat \ {0}
  <1>1. Den \in Nat \ {0}
    BY LadderAssumption
  <1>2. raw \div Den \in Nat
    BY <1>1, Division
  <1>3. TickOf(raw) \in {1, 5, 10, 50, 100, 500, 1000}
    BY <1>2, Units DEF TickOf
  <1> QED
    BY <1>1, <1>2, <1>3


---------------------------------------------------------------------------
(* Rounding *)

\* Where the unit grows, the price is a multiple of the coarser unit.
LEMMA Bands ==
  ASSUME NEW p \in Nat \ {0}, NEW q \in Nat, p <= q, p % TickUnit(q) = 0
  PROVE  p % TickUnit(p) = 0
  BY Z3 DEF TickUnit

LEMMA Multiple ==
  ASSUME NEW a \in Nat, NEW p \in Nat
  PROVE  (a * TickUnit(p)) % TickUnit(p) = 0
  <1>1. TickUnit(p) \in {1, 5, 10, 50, 100, 500, 1000}
    BY Units
  <1>2. ASSUME NEW u \in {1, 5, 10, 50, 100, 500, 1000}
        PROVE  (a * u) % u = 0
    BY <1>2, Z3
  <1> QED
    BY <1>1, <1>2

LEMMA Cancel ==
  ASSUME NEW a \in Nat, NEW b \in Nat, NEW d \in Nat \ {0}
  PROVE  /\ a * d < b * d <=> a < b
         /\ a * d <= b * d <=> a <= b
  BY Z3

\* A multiple of u is its quotient times u.
LEMMA Quotient ==
  ASSUME NEW p \in Nat, NEW u \in {1, 5, 10, 50, 100, 500, 1000}, p % u = 0
  PROVE  p \div u \in Nat /\ p = (p \div u) * u
  BY Z3

\* normalize_tick(raw, BUY) of at least one won: a price the exchange accepts,
\* not above raw and less than one tick below it.
THEOREM RoundDownValid ==
  ASSUME NEW raw \in Nat, raw >= Den
  PROVE  /\ RoundDown(raw) \in Nat \ {0}
         /\ ValidPrice(RoundDown(raw))
         /\ RoundDown(raw) * Den <= raw
         /\ raw < (RoundDown(raw) + TickOf(raw)) * Den
  <1> DEFINE w == raw \div Den
             u == TickOf(raw)
             k == raw \div (Den * u)
  <1>1. Den \in Nat \ {0} /\ w \in Nat /\ u \in Nat \ {0} /\ Den * u \in Nat \ {0}
    BY RawTick, LadderAssumption
  <1>2. w * Den <= raw /\ raw < w * Den + Den
    BY <1>1, Division
  <1>3. k \in Nat /\ k * (Den * u) <= raw /\ raw < k * (Den * u) + Den * u
    BY <1>1, Division
  <1>4. RoundDown(raw) = k * u
    BY DEF RoundDown
  <1> HIDE DEF k
  <1>5. k * u \in Nat /\ (k * u) * Den = k * (Den * u)
        /\ (k * u + u) * Den = k * (Den * u) + Den * u
    BY <1>1, <1>3, Z3
  <1>6. k * u <= w
    <2>1. (k * u) * Den < (w + 1) * Den
      BY <1>1, <1>2, <1>3, <1>5, Z3
    <2> HIDE DEF u, w
    <2> QED
      BY <2>1, <1>1, <1>5, Cancel
  <1>7. k * u > 0
    <2>1. w > 0
      BY <1>1, <1>2, Z3
    <2>2. u <= w
      BY <1>1, <2>1 DEF TickOf, TickUnit
    <2>3. Den * u <= Den * w
      BY <1>1, <2>2, Z3
    <2>4. k # 0
      BY <1>1, <1>2, <1>3, <2>3, Z3
    <2> QED
      BY <1>1, <1>3, <2>4, Z3
  <1>8. (k * u) % TickUnit(w) = 0
    BY <1>1, <1>3, Multiple DEF TickOf
  <1>9. ValidPrice(k * u)
    BY <1>1, <1>5, <1>6, <1>7, <1>8, Bands DEF ValidPrice
  <1> QED
    BY <1>1, <1>3, <1>4, <1>5, <1>7, <1>9

LEMMA Divides ==
  ASSUME NEW p \in Nat \ {0}, NEW q \in Nat, q <= p, p % TickUnit(p) = 0
  PROVE  p % TickUnit(q) = 0
  BY Z3 DEF TickUnit

\* Below w with its unit there is room for every price the exchange accepts.
LEMMA Room ==
  ASSUME NEW w \in Nat, NEW p \in Nat \ {0}, p <= w, p % TickUnit(p) = 0
  PROVE  \E q \in Nat : p <= q /\ q <= w /\ q % TickUnit(w) = 0
  <1>1. CASE TickUnit(w) = TickUnit(p)
    BY <1>1
  <1>2. CASE TickUnit(w) # TickUnit(p)
    <2> DEFINE b == IF w < 5000 THEN 2000
                    ELSE IF w < 20000 THEN 5000
                    ELSE IF w < 50000 THEN 20000
                    ELSE IF w < 200000 THEN 50000
                    ELSE IF w < 500000 THEN 200000
                    ELSE 500000
    <2>1. b \in Nat /\ p <= b /\ b <= w /\ b % TickUnit(w) = 0
      BY <1>2, Z3 DEF TickUnit
    <2> QED
      BY <2>1
  <1> QED
    BY <1>1, <1>2

\* normalize_tick(raw, BUY) is the greatest price the exchange accepts that is
\* not above raw.
THEOREM RoundDownGreatest ==
  ASSUME NEW raw \in Nat, raw >= Den,
         NEW p \in Nat, ValidPrice(p), p * Den <= raw
  PROVE  p <= RoundDown(raw)
  <1> DEFINE w == raw \div Den
             u == TickOf(raw)
             k == raw \div (Den * u)
  <1>1. Den \in Nat \ {0} /\ w \in Nat /\ u \in Nat \ {0} /\ Den * u \in Nat \ {0}
    BY RawTick, LadderAssumption
  <1>2. raw < (w + 1) * Den
    <2>1. raw < w * Den + Den
      BY <1>1, Division
    <2> QED
      BY <1>1, <2>1, Z3
  <1>3. k \in Nat /\ k * (Den * u) <= raw /\ raw < k * (Den * u) + Den * u
    BY <1>1, Division
  <1>4. RoundDown(raw) = k * u
    BY DEF RoundDown
  <1>5. p <= w
    <2>1. p * Den < (w + 1) * Den
      BY <1>1, <1>2, Z3
    <2> HIDE DEF w
    <2> QED
      BY <2>1, <1>1, Cancel
  <1>6. PICK q \in Nat : p <= q /\ q <= w /\ q % TickUnit(w) = 0
    BY <1>1, <1>5, Room DEF ValidPrice
  <1>7. TickUnit(w) = u /\ u \in {1, 5, 10, 50, 100, 500, 1000}
    BY <1>1, Units DEF TickOf
  <1> DEFINE j == q \div u
  <1>8. j \in Nat /\ q = j * u
    <2>1. q % u = 0
      BY <1>6, <1>7
    <2>2. u \in {1, 5, 10, 50, 100, 500, 1000}
      BY <1>7
    <2> HIDE DEF k, u
    <2> QED
      BY <2>1, <2>2, Quotient
  <1> HIDE DEF j, k, u, w
  <1>9. j * (Den * u) <= raw
    <2>1. q * Den <= w * Den
      BY <1>1, <1>6, Cancel
    <2>2. w * Den <= raw
      BY <1>1, Division DEF w
    <2>3. j * (Den * u) = q * Den
      BY <1>1, <1>8, Z3
    <2> QED
      BY <2>1, <2>2, <2>3, <1>1, Z3
  <1>10. j * (Den * u) < (k + 1) * (Den * u)
    BY <1>1, <1>3, <1>8, <1>9, Z3
  <1>11. j <= k
    <2>1. j < k + 1
      BY <1>10, <1>1, <1>3, <1>8, Cancel
    <2> QED
      BY <2>1, <1>3, <1>8
  <1>12. j * u <= k * u
    BY <1>1, <1>3, <1>8, <1>11, Cancel
  <1> QED
    BY <1>1, <1>3, <1>4, <1>6, <1>8, <1>12, Z3

\* Division rounded up.
LEMMA Ceiling ==
  ASSUME NEW n \in Nat, NEW d \in Nat \ {0}
  PROVE  /\ (n + d - 1) \div d \in Nat
         /\ n <= ((n + d - 1) \div d) * d
         /\ ((n + d - 1) \div d) * d < n + d
  <1> DEFINE m == n + d - 1
  <1>1. m \in Nat
    OBVIOUS
  <1> HIDE DEF m
  <1>2. m \div d \in Nat /\ (m \div d) * d <= m /\ m < (m \div d) * d + d
    BY <1>1, Division
  <1>3. (m \div d) * d \in Nat
    BY <1>2
  <1>4. m = n + d - 1
    BY DEF m
  <1>5. n <= (m \div d) * d /\ (m \div d) * d < n + d
    BY <1>2, <1>3, <1>4
  <1> QED
    BY <1>2, <1>5 DEF m

\* Rounding up by less than a unit leaves the band at its first price at most.
LEMMA NextBand ==
  ASSUME NEW w \in Nat, NEW p \in Nat, w <= p, p <= w + TickUnit(w),
         p % TickUnit(w) = 0
  PROVE  p % TickUnit(p) = 0
  BY Z3 DEF TickUnit

\* normalize_tick(raw, SELL) of at least one won: a price the exchange accepts
\* even where rounding crosses a boundary of the tick table, and not below raw.
THEOREM RoundUpValid ==
  ASSUME NEW raw \in Nat, raw >= Den
  PROVE  /\ RoundUp(raw) \in Nat \ {0}
         /\ ValidPrice(RoundUp(raw))
         /\ raw <= RoundUp(raw) * Den
  <1> DEFINE w == raw \div Den
             u == TickOf(raw)
             k == (raw + Den * u - 1) \div (Den * u)
  <1>1. Den \in Nat \ {0} /\ w \in Nat /\ u \in Nat \ {0} /\ Den * u \in Nat \ {0}
    BY RawTick, LadderAssumption
  <1>2. w * Den <= raw /\ raw < w * Den + Den
    BY <1>1, Division
  <1>3. k \in Nat /\ raw <= k * (Den * u) /\ k * (Den * u) < raw + Den * u
    BY <1>1, Ceiling
  <1>4. RoundUp(raw) = k * u
    BY DEF RoundUp
  <1>5. TickUnit(w) = u
    BY DEF TickOf
  <1> HIDE DEF k
  <1>6. k * u \in Nat /\ (k * u) * Den = k * (Den * u)
    BY <1>1, <1>3, Z3
  <1>7. w <= k * u
    <2>1. w * Den <= (k * u) * Den
      BY <1>1, <1>2, <1>3, <1>6, Z3
    <2> HIDE DEF u, w
    <2> QED
      BY <2>1, <1>1, <1>6, Cancel
  <1>8. k * u <= w + u
    <2>1. (k * u) * Den < (w + u + 1) * Den
      BY <1>1, <1>2, <1>3, <1>6, Z3
    <2> HIDE DEF u, w
    <2>2. k * u < w + u + 1
      BY <2>1, <1>1, <1>6, Cancel
    <2> QED
      BY <2>2, <1>1, <1>6
  <1>9. (k * u) % TickUnit(w) = 0
    BY <1>1, <1>3, <1>5, Multiple
  <1>10. k * u # 0
    <2>1. w # 0
      BY <1>1, <1>2
    <2> QED
      BY <2>1, <1>1, <1>6, <1>7
  <1>11. ValidPrice(k * u)
    BY <1>1, <1>5, <1>6, <1>7, <1>8, <1>9, <1>10, NextBand DEF ValidPrice
  <1> QED
    BY <1>3, <1>4, <1>6, <1>10, <1>11

\* normalize_tick(raw, SELL) is the least price the exchange accepts that is not
\* below raw.
THEOREM RoundUpLeast ==
  ASSUME NEW raw \in Nat, raw >= Den,
         NEW p \in Nat, ValidPrice(p), raw <= p * Den
  PROVE  RoundUp(raw) <= p
  <1> DEFINE w == raw \div Den
             u == TickOf(raw)
             k == (raw + Den * u - 1) \div (Den * u)
             j == p \div u
  <1>1. Den \in Nat \ {0} /\ w \in Nat /\ u \in Nat \ {0} /\ Den * u \in Nat \ {0}
    BY RawTick, LadderAssumption
  <1>2. k \in Nat /\ k * (Den * u) < raw + Den * u
    BY <1>1, Ceiling
  <1>3. RoundUp(raw) = k * u
    BY DEF RoundUp
  <1>4. w <= p
    <2>1. w * Den <= p * Den
      BY <1>1, Division, Z3
    <2> HIDE DEF w
    <2> QED
      BY <2>1, <1>1, Cancel
  <1>5. j \in Nat /\ p = j * u
    <2>1. p % u = 0
      BY <1>1, <1>4, Divides DEF ValidPrice, TickOf
    <2>2. u \in {1, 5, 10, 50, 100, 500, 1000}
      BY <1>1, Units DEF TickOf
    <2> HIDE DEF k, u
    <2> QED
      BY <2>1, <2>2, Quotient
  <1> HIDE DEF j, k, u, w
  <1>6. k * (Den * u) < (j + 1) * (Den * u)
    <2>1. (j + 1) * (Den * u) = p * Den + Den * u
      BY <1>1, <1>5, Z3
    <2>2. k * (Den * u) \in Nat /\ p * Den \in Nat
      BY <1>1, <1>2
    <2> QED
      BY <1>1, <1>2, <2>1, <2>2
  <1>7. k < j + 1
    BY <1>1, <1>2, <1>5, <1>6, Cancel
  <1>8. k <= j
    BY <1>2, <1>5, <1>7
  <1> QED
    BY <1>1, <1>2, <1>3, <1>5, <1>8, Cancel

---------------------------------------------------------------------------
(* The ladder *)

LEMMA Scale ==
  ASSUME NEW a \in Nat, NEW x \in Int, NEW y \in Int, x <= y
  PROVE  a * x <= a * y
  BY Z3

\* Raw triggers fall from stage to stage.
LEMMA RawFalls ==
  ASSUME NEW anchor \in Nat, NEW m \in Stages, NEW n \in Stages, m <= n
  PROVE  /\ RawTrigger(anchor, n) \in Int
         /\ RawTrigger(anchor, n) <= RawTrigger(anchor, m)
         /\ RawTrigger(anchor, m) <= anchor * Den
  <1>1. /\ Den \in Nat /\ Drop \in Nat
        /\ m - 1 \in Nat /\ n - 1 \in Nat /\ m - 1 <= n - 1
    BY LadderAssumption DEF Stages
  <1>2. Drop * (m - 1) \in Nat /\ Drop * (n - 1) \in Nat
    BY <1>1
  <1>3. Drop * (m - 1) <= Drop * (n - 1)
    BY <1>1, Scale
  <1>4. Den - Drop * (n - 1) <= Den - Drop * (m - 1) /\ Den - Drop * (m - 1) <= Den
    BY <1>1, <1>2, <1>3
  <1>5. anchor * (Den - Drop * (n - 1)) <= anchor * (Den - Drop * (m - 1))
    BY <1>1, <1>2, <1>4, Scale
  <1>6. anchor * (Den - Drop * (m - 1)) <= anchor * Den
    BY <1>1, <1>2, <1>4, Scale
  <1> QED
    BY <1>1, <1>2, <1>5, <1>6 DEF RawTrigger

\* Every raw trigger of a ladder is at least one won.
LEMMA RawTriggers ==
  ASSUME NEW anchor \in Nat, LadderOk(anchor), NEW n \in Stages
  PROVE  RawTrigger(anchor, n) \in Nat /\ RawTrigger(anchor, n) >= Den
  <1>1. MaxStages \in Stages /\ n <= MaxStages /\ n \in Nat /\ Den \in Nat
    BY LadderAssumption DEF Stages
  <1>2. RawTrigger(anchor, MaxStages) <= RawTrigger(anchor, n)
    BY <1>1, RawFalls
  <1>3. RawTrigger(anchor, n) \in Int /\ RawTrigger(anchor, MaxStages) \in Int
    BY <1>1, RawFalls
  <1>4. RawTrigger(anchor, MaxStages) >= Den
    BY DEF LadderOk
  <1> QED
    BY <1>1, <1>2, <1>3, <1>4

\* Ladder: a later stage never triggers at a higher price than an earlier one,
\* and none above the anchor, so the checks of __post_init__ need to look at the
\* first and the last stage only.
THEOREM TriggersFall ==
  ASSUME NEW anchor \in Nat, LadderOk(anchor), NEW m \in Stages, NEW n \in Stages,
         m <= n
  PROVE  /\ Trigger(anchor, n) <= Trigger(anchor, m)
         /\ Trigger(anchor, m) <= anchor
         /\ ValidPrice(Trigger(anchor, n))
  <1> DEFINE lo == RawTrigger(anchor, n)
             hi == RawTrigger(anchor, m)
  <1>1. lo \in Nat /\ lo >= Den /\ hi \in Nat /\ hi >= Den /\ Den \in Nat \ {0}
    BY RawTriggers, LadderAssumption
  <1>2. lo <= hi /\ hi <= anchor * Den
    BY RawFalls
  <1> HIDE DEF lo, hi
  <1>3. /\ RoundDown(lo) \in Nat \ {0} /\ ValidPrice(RoundDown(lo))
        /\ RoundDown(lo) * Den <= lo
    BY <1>1, RoundDownValid
  <1>4. RoundDown(hi) \in Nat \ {0} /\ RoundDown(hi) * Den <= hi
    BY <1>1, RoundDownValid
  <1>5. RoundDown(lo) * Den <= hi
    BY <1>1, <1>2, <1>3
  <1>6. RoundDown(lo) <= RoundDown(hi)
    BY <1>1, <1>3, <1>5, RoundDownGreatest
  <1>7. RoundDown(hi) * Den <= anchor * Den
    BY <1>1, <1>2, <1>4
  <1>8. RoundDown(hi) <= anchor
    BY <1>1, <1>4, <1>7, Cancel
  <1> QED
    BY <1>3, <1>6, <1>8 DEF Trigger, lo, hi

\* Ladder.planned_qty: every stage can buy at least one share, because the first
\* one can.
THEOREM EveryStageBuysOne ==
  ASSUME NEW anchor \in Nat, LadderOk(anchor), NEW n \in Stages
  PROVE  PlannedQty(anchor, n) \in Nat \ {0}
  <1> DEFINE t == Trigger(anchor, n)
             f == Trigger(anchor, 1)
  <1>1. 1 \in Stages /\ 1 <= n /\ Amount \in Nat
    BY LadderAssumption DEF Stages
  <1>2. t <= f
    BY <1>1, TriggersFall
  <1>3. t \in Nat \ {0} /\ f \in Nat \ {0}
    BY <1>1, RawTriggers, RoundDownValid DEF Trigger
  <1>4. Amount \div f # 0
    BY DEF LadderOk, PlannedQty
  <1> HIDE DEF t, f
  <1>5. Amount \div f \in Nat /\ (Amount \div f) * f <= Amount
    BY <1>1, <1>3, Division
  <1>6. f <= Amount
    BY <1>1, <1>3, <1>4, <1>5, Z3
  <1>7. Amount \div t \in Nat /\ Amount < (Amount \div t) * t + t
    BY <1>1, <1>3, Division
  <1>8. Amount \div t # 0
    BY <1>1, <1>2, <1>3, <1>6, <1>7, Z3
  <1> QED
    BY <1>7, <1>8 DEF PlannedQty, t

\* A buy at any limit up to the trigger costs at most the amount of a stage.
THEOREM PlanFits ==
  ASSUME NEW anchor \in Nat, LadderOk(anchor), NEW n \in Stages,
         NEW limit \in Nat, limit <= Trigger(anchor, n)
  PROVE  PlannedQty(anchor, n) * limit <= Amount
  <1> DEFINE t == Trigger(anchor, n)
             q == Amount \div t
  <1>1. t \in Nat \ {0} /\ Amount \in Nat
    BY RawTriggers, RoundDownValid, LadderAssumption DEF Trigger
  <1>2. limit <= t
    OBVIOUS
  <1> HIDE DEF t
  <1>3. q \in Nat /\ q * t <= Amount
    BY <1>1, Division
  <1> HIDE DEF q
  <1>4. q * limit <= q * t
    BY <1>1, <1>2, <1>3, Scale
  <1>5. q * limit \in Nat /\ q * t \in Nat
    BY <1>1, <1>3
  <1> QED
    BY <1>1, <1>3, <1>4, <1>5 DEF PlannedQty, q, t

\* target_price: a price the exchange accepts that keeps the target profit of
\* the shares bought at fill, and is above fill however small the target is.
THEOREM TargetKeepsProfit ==
  ASSUME NEW fill \in Nat \ {0}
  PROVE  /\ ValidPrice(TargetPrice(fill))
         /\ TargetPrice(fill) * Den >= fill * (Den + Target)
         /\ TargetPrice(fill) > fill
  <1> DEFINE raw == fill * (Den + Target)
  <1>1. Den \in Nat \ {0} /\ Target \in Nat \ {0}
    BY LadderAssumption
  <1>2. raw \in Nat /\ raw > fill * Den /\ raw >= Den
    BY <1>1, Z3
  <1> HIDE DEF raw
  <1>3. /\ RoundUp(raw) \in Nat \ {0} /\ ValidPrice(RoundUp(raw))
        /\ raw <= RoundUp(raw) * Den
    BY <1>2, RoundUpValid
  <1>4. fill * Den < RoundUp(raw) * Den
    BY <1>1, <1>2, <1>3, Z3
  <1>5. fill < RoundUp(raw)
    BY <1>1, <1>3, <1>4, Cancel
  <1> QED
    BY <1>1, <1>2, <1>3, <1>5 DEF TargetPrice, raw
=============================================================================
