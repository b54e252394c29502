----------------------------- MODULE DeskProofs -----------------------------
(***************************************************************************)
(* Proofs about Desk, for every number of configurations, stages, cycles   *)
(* and commands, and every number of sessions: rows that load, honest      *)
(* configurations, the account against what the cycles claim, the wait of  *)
(* an emergency, and the types.                                            *)
(***************************************************************************)
EXTENDS Desk, SumProofs, SequenceTheorems

---------------------------------------------------------------------------
(* The inductive invariants *)

TypeInv ==
  /\ cyc \in Seq(CycleRow) /\ account \in Nat
  /\ level \in 1..(Levels + 1) /\ pc \in PCs

\* A row that can be loaded; until its ladder is confirmed the cycle has none.
RowOk(x) == Loads(x) /\ (x.status = "STARTING" => ~x.anchor)

\* Where the engine has a cycle in hand, it is there; and while the stage rows are
\* written, those before the next one belong to the ladder of this tick.
HandInv ==
  /\ pc \in {"activate", "selling", "pnl", "release", "anchor"} => cur \in DOMAIN cyc
  /\ pc = "selling" => cyc[cur].status = "LIQUIDATING"
  /\ pc # "anchor" => level = 1
  /\ pc = "anchor" =>
       /\ cyc[cur].status = "STARTING"
       /\ \A n \in 1..(level - 1) : cyc[cur].rows[n] = "new"

RowsInv == TypeInv /\ HandInv /\ \A k \in DOMAIN cyc : RowOk(cyc[k])

\* The configuration whose status the engine is about to write.
Midway(c) == pc \in {"activate", "pnl", "release"} /\ cyc[cur].config = c

\* An open cycle is marked as started beside another one, if an earlier cycle of
\* its configuration is still open.
SecondsAreMarked ==
  \A j, k \in DOMAIN cyc :
    j < k /\ cyc[j].config = cyc[k].config /\ cyc[k].alone => ~Open(j)

\* A configuration that is not crowded says what its cycles are, unless the engine
\* is just about to write it or a crash has kept it from writing.
ConfInv ==
  /\ conf \in [Configs -> {"IDLE", "ACTIVE"}]
  /\ pc \in {"pnl", "release"} => ~Open(cur)
  /\ pc = "activate" => Open(cur)
  /\ SecondsAreMarked
  /\ \A c \in Configs : ~Crowded(c) =>
       /\ pc \in {"pnl", "release"} /\ Midway(c) => ActiveOf(c) = {}
       /\ c \notin torn /\ ~Midway(c) => ((conf[c] = "ACTIVE") = (ActiveOf(c) # {}))

\* An emergency that has waited is still in its queue, and the drain of the
\* commands is over.
WaitInv ==
  /\ prio \in Seq(Urgent) /\ waited \in {0, 1}
  /\ waited = 1 => prio # <<>> /\ pc \notin {"normal", "activate"}

---------------------------------------------------------------------------
(* Rows *)

\* Field by field, a row stays a row.
LEMMA Fields ==
  ASSUME NEW x \in CycleRow
  PROVE  /\ \A v \in {"STARTING", "RUNNING", "PAUSED", "LIQUIDATING", "CLOSED"} :
              [x EXCEPT !.status = v] \in CycleRow
         /\ [x EXCEPT !.anchor = TRUE] \in CycleRow
         /\ \A v \in [1..Levels -> Trigger] : [x EXCEPT !.rows = v] \in CycleRow
         /\ \A v \in 0..1 : [x EXCEPT !.held = v] \in CycleRow
         /\ \A v \in {"NORMAL", "EMERGENCY", "FORCED"} : [x EXCEPT !.reason = v] \in CycleRow
         /\ \A v \in Nat : [x EXCEPT !.left = v] \in CycleRow
         /\ [x EXCEPT !.pnl = TRUE] \in CycleRow
         /\ \A v \in BOOLEAN : [x EXCEPT !.counted = v] \in CycleRow
<1>1. \A v \in {"STARTING", "RUNNING", "PAUSED", "LIQUIDATING", "CLOSED"} :
        [x EXCEPT !.status = v] \in CycleRow
  BY DEF CycleRow
<1>2. [x EXCEPT !.anchor = TRUE] \in CycleRow
  BY DEF CycleRow
<1>3. \A v \in [1..Levels -> Trigger] : [x EXCEPT !.rows = v] \in CycleRow
  BY DEF CycleRow
<1>4. \A v \in 0..1 : [x EXCEPT !.held = v] \in CycleRow
  BY DEF CycleRow
<1>5. \A v \in {"NORMAL", "EMERGENCY", "FORCED"} : [x EXCEPT !.reason = v] \in CycleRow
  BY DEF CycleRow
<1>6. \A v \in Nat : [x EXCEPT !.left = v] \in CycleRow
  BY DEF CycleRow
<1>7. [x EXCEPT !.pnl = TRUE] \in CycleRow
  BY DEF CycleRow
<1>8. \A v \in BOOLEAN : [x EXCEPT !.counted = v] \in CycleRow
  BY DEF CycleRow
<1> QED
  BY <1>1, <1>2, <1>3, <1>4, <1>5, <1>6, <1>7, <1>8

LEMMA ClosedRow ==
  ASSUME NEW x \in CycleRow, NEW why \in {"NORMAL", "EMERGENCY", "FORCED"}, NEW left \in Nat
  PROVE  [x EXCEPT !.status = "CLOSED", !.reason = why, !.left = left,
                   !.counted = TRUE, !.held = 0] \in CycleRow
<1> DEFINE a == [x EXCEPT !.status = "CLOSED"]
           b == [a EXCEPT !.reason = why]
           c == [b EXCEPT !.left = left]
           d == [c EXCEPT !.counted = TRUE]
<1>1. a \in CycleRow
  BY Fields
<1> HIDE DEF a
<1>2. b \in CycleRow
  BY <1>1, Fields
<1> HIDE DEF b
<1>3. c \in CycleRow
  BY <1>2, Fields
<1> HIDE DEF c
<1>4. d \in CycleRow
  BY <1>3, Fields
<1> HIDE DEF d
<1>5. 0 \in 0..1
  OBVIOUS
<1>6. [d EXCEPT !.held = 0] \in CycleRow
  BY <1>4, <1>5, Fields
<1> QED
  BY <1>6 DEF a, b, c, d

LEMMA BornRow ==
  ASSUME NEW c \in Configs, NEW b \in BOOLEAN
  PROVE  Born(c, b) \in CycleRow
<1>1. [n \in 1..Levels |-> "none"] \in [1..Levels -> Trigger]
  BY DEF Trigger
<1> QED
  BY <1>1, SMTT(60) DEF Born, CycleRow

LEMMA AnchoredRow ==
  ASSUME NEW x \in CycleRow
  PROVE  Anchored(x) \in CycleRow
<1> DEFINE a == [x EXCEPT !.status = "RUNNING"]
           b == [a EXCEPT !.anchor = TRUE]
<1>1. a \in CycleRow
  BY Fields
<1> HIDE DEF a
<1>2. b \in CycleRow
  BY <1>1, Fields
<1> HIDE DEF b
<1>3. [n \in 1..Levels |-> "new"] \in [1..Levels -> Trigger]
  BY DEF Trigger
<1>4. [b EXCEPT !.rows = [n \in 1..Levels |-> "new"]] \in CycleRow
  BY <1>2, <1>3, Fields
<1> QED
  BY <1>4 DEF a, b, Anchored

\* One row of cycle is written.
LEMMA WriteOne ==
  ASSUME TypeInv, NEW k \in DOMAIN cyc, NEW x \in CycleRow,
         cyc' = [cyc EXCEPT ![k] = x]
  PROVE  /\ cyc' \in Seq(CycleRow) /\ DOMAIN cyc' = DOMAIN cyc
         /\ cyc'[k] = x
         /\ \A j \in DOMAIN cyc : j # k => cyc'[j] = cyc[j]
<1>1. k \in 1..Len(cyc) /\ cyc \in Seq(CycleRow)
  BY LenProperties DEF TypeInv
<1>2. cyc' \in Seq(CycleRow)
  BY <1>1, ExceptSeq
<1> QED
  BY <1>1, <1>2

\* Rows of cycle are written here and there.
LEMMA WriteSome ==
  ASSUME TypeInv, NEW f, f = [k \in DOMAIN cyc |-> f[k]],
         \A k \in DOMAIN cyc : f[k] \in CycleRow
  PROVE  f \in Seq(CycleRow) /\ DOMAIN f = DOMAIN cyc
<1>1. Len(cyc) \in Nat /\ DOMAIN cyc = 1..Len(cyc)
  BY LenProperties DEF TypeInv
<1>2. f \in [1..Len(cyc) -> CycleRow]
  BY <1>1
<1> QED
  BY <1>1, <1>2, SeqDef

LEMMA RowAt ==
  ASSUME TypeInv, NEW k \in DOMAIN cyc PROVE cyc[k] \in CycleRow
BY LenProperties, ElementOfSeq DEF TypeInv

\* A change of the status, of the holding or of the profit keeps a row loadable.
LEMMA KeepRow ==
  ASSUME NEW x, NEW y, RowOk(x),
         y.anchor = x.anchor, y.rows = x.rows, y.reason = x.reason, y.left = x.left,
         y.status = "STARTING" => x.status = "STARTING",
         y.status \in {"RUNNING", "PAUSED"} => x.status \in {"RUNNING", "PAUSED"}
  PROVE  RowOk(y)
BY DEF RowOk, Loads, CycleLoads, StagesLoad, Loaded

\* So does the end of the cycle, if a close by sale finds a stage.
LEMMA CloseRow ==
  ASSUME RowsInv, NEW k \in DOMAIN cyc, NEW why, NEW left \in Nat, CloseCycle(k, why, left),
         why \in {"NORMAL", "EMERGENCY", "FORCED"}, account' \in Nat,
         level = 1, why # "FORCED" => Has(k) # {} /\ left = 0, why = "FORCED" => left > 0
  PROVE  RowsInv'
<1> DEFINE x == [cyc[k] EXCEPT !.status = "CLOSED", !.reason = why, !.left = left,
                               !.counted = TRUE, !.held = 0]
<1>1. cyc[k] \in CycleRow /\ RowOk(cyc[k])
  BY RowAt DEF RowsInv
<1>2. x \in CycleRow
  BY <1>1, ClosedRow
<1>3. cyc' = [cyc EXCEPT ![k] = x]
  BY DEF CloseCycle
<1>4. x.status = "CLOSED" /\ x.anchor = cyc[k].anchor /\ x.rows = cyc[k].rows /\ x.reason = why
      /\ x.left = left
  BY <1>1 DEF CycleRow
<1>5. RowOk(x)
  BY <1>1, <1>4 DEF RowOk, Loads, CycleLoads, StagesLoad, Loaded, Has
<1> HIDE DEF x
<1>6. /\ cyc' \in Seq(CycleRow) /\ DOMAIN cyc' = DOMAIN cyc
      /\ \A j \in DOMAIN cyc : RowOk(cyc'[j])
  BY <1>2, <1>3, <1>5, WriteOne DEF RowsInv
<1> QED
  BY <1>6 DEF RowsInv, TypeInv, HandInv, CloseCycle, PCs

LEMMA RowsInit == Init => RowsInv
<1> SUFFICES ASSUME Init PROVE RowsInv
  OBVIOUS
<1>1. Levels \in Nat \ {0} /\ MaxConfigs \in Nat \ {0} /\ Foreign \in Nat
  BY DeskAssumption
<1> DEFINE x == Anchored(Born(1, TRUE))
<1>0. Born(1, TRUE) \in CycleRow
  <2>1. 1 \in Configs /\ TRUE \in BOOLEAN
    BY <1>1 DEF Configs
  <2> QED
    BY <2>1, BornRow
<1>2. x \in CycleRow /\ x.status = "RUNNING" /\ x.anchor /\ x.reason = "NONE" /\ x.left = 0
      /\ x.rows = [n \in 1..Levels |-> "new"]
  <2>1. x \in CycleRow
    BY <1>0, AnchoredRow
  <2> QED
    BY <2>1 DEF Anchored, Born
<1> HIDE DEF x
<1>3. RowOk(x)
  <2>1. Loaded(x) = 1..Levels
    BY <1>2 DEF Loaded
  <2>2. \A n \in 1..Levels : 1..n \subseteq 1..Levels
    BY <1>1
  <2> QED
    BY <1>2, <2>1, <2>2 DEF RowOk, Loads, CycleLoads, StagesLoad
<1>5. cyc \in Seq(CycleRow) /\ \A k \in DOMAIN cyc : cyc[k] = x
  <2>1. CASE cyc = <<>>
    BY <2>1, EmptySeq
  <2>2. CASE cyc = <<x>>
    BY <1>2, <2>2
  <2> QED
    BY <2>1, <2>2 DEF Init, x
<1> QED
  BY <1>1, <1>3, <1>5 DEF Init, RowsInv, TypeInv, HandInv, PCs

LEMMA EditRow ==
  ASSUME RowsInv, NEW k \in DOMAIN cyc, NEW x \in CycleRow, RowOk(x),
         cyc' = [cyc EXCEPT ![k] = x]
  PROVE  /\ cyc' \in Seq(CycleRow) /\ DOMAIN cyc' = DOMAIN cyc /\ cyc'[k] = x
         /\ \A j \in DOMAIN cyc' : RowOk(cyc'[j])
BY WriteOne DEF RowsInv

\* Several rows change their status or leave the baseline.
LEMMA EditSome ==
  ASSUME RowsInv, NEW f, f = [k \in DOMAIN cyc |-> f[k]],
         \A k \in DOMAIN cyc :
           \/ f[k] = cyc[k]
           \/ \E v \in {"RUNNING", "PAUSED"} :
                cyc[k].status \in {"RUNNING", "PAUSED"} /\ f[k] = [cyc[k] EXCEPT !.status = v]
           \/ f[k] = [cyc[k] EXCEPT !.counted = FALSE]
  PROVE  /\ f \in Seq(CycleRow) /\ DOMAIN f = DOMAIN cyc
         /\ \A k \in DOMAIN f : RowOk(f[k])
<1>1. ASSUME NEW k \in DOMAIN cyc PROVE f[k] \in CycleRow /\ RowOk(f[k])
  <2>1. cyc[k] \in CycleRow /\ RowOk(cyc[k])
    BY RowAt DEF RowsInv
  <2>2. CASE f[k] = cyc[k]
    BY <2>1, <2>2
  <2>3. ASSUME NEW v \in {"RUNNING", "PAUSED"}, cyc[k].status \in {"RUNNING", "PAUSED"},
               f[k] = [cyc[k] EXCEPT !.status = v]
        PROVE  f[k] \in CycleRow /\ RowOk(f[k])
    <3>1. f[k] \in CycleRow
      <4>1. [cyc[k] EXCEPT !.status = v] \in CycleRow
        BY <2>1, Fields
      <4> QED
        BY <2>3, <4>1
    <3>2. f[k].anchor = cyc[k].anchor /\ f[k].rows = cyc[k].rows
          /\ f[k].reason = cyc[k].reason /\ f[k].left = cyc[k].left /\ f[k].status = v
      BY <2>1, <2>3 DEF CycleRow
    <3> QED
      BY <2>1, <2>3, <3>1, <3>2, KeepRow
  <2>4. CASE f[k] = [cyc[k] EXCEPT !.counted = FALSE]
    <3>1. f[k] \in CycleRow
      <4>1. FALSE \in BOOLEAN
        OBVIOUS
      <4>2. [cyc[k] EXCEPT !.counted = FALSE] \in CycleRow
        BY <2>1, <4>1, Fields
      <4> QED
        BY <2>4, <4>2
    <3>2. f[k].anchor = cyc[k].anchor /\ f[k].rows = cyc[k].rows
          /\ f[k].reason = cyc[k].reason /\ f[k].left = cyc[k].left /\ f[k].status = cyc[k].status
      BY <2>1, <2>4 DEF CycleRow
    <3> QED
      BY <2>1, <3>1, <3>2, KeepRow
  <2> QED
    BY <2>2, <2>3, <2>4
<1> QED
  BY <1>1, WriteSome DEF RowsInv

\* What does not touch the rows, and has no cycle in hand afterwards, or the same.
LEMMA Untouched ==
  ASSUME RowsInv, cyc' = cyc, account' \in Nat, pc' \in PCs, pc' \notin {"anchor", "selling"},
         level' = 1, pc' \in {"activate", "pnl", "release"} => cur' \in DOMAIN cyc
  PROVE  RowsInv'
<1>1. 1 \in 1..(Levels + 1)
  BY DeskAssumption
<1> QED
  BY <1>1 DEF RowsInv, TypeInv, HandInv

LEMMA RowsDrain == RowsInv /\ Drain => RowsInv'
<1> SUFFICES ASSUME RowsInv, Drain PROVE RowsInv'
  OBVIOUS
<1>1. level \in 1..(Levels + 1) /\ pc \in PCs /\ account \in Nat /\ cyc \in Seq(CycleRow)
      /\ (pc # "anchor" => level = 1)
  BY DEF RowsInv, TypeInv, HandInv
<1> USE DEF db, engine, queues, history, Goto, TakeNormal, TakeForce, PCs
<1>2. CASE ToNormal \/ Drained \/ Activate \/ Shutdown \/ NothingToLiquidate \/ ReleaseConfig
  BY <1>1, <1>2, Untouched
     DEF ToNormal, Drained, Activate, Shutdown, NothingToLiquidate, ReleaseConfig, RowsInv, HandInv
<1>3. ASSUME NEW c \in Configs, StartCycle(c) PROVE RowsInv'
  <2>1. CASE Len(cyc) < MaxCycles
    <3> DEFINE x == Born(c, ActiveOf(c) = {})
    <3>1. x \in CycleRow
      BY BornRow
    <3>2. x.status = "STARTING" /\ ~x.anchor /\ x.reason = "NONE" /\ x.left = 0 /\ Loaded(x) = {}
      BY DEF Born, Loaded
    <3>3. RowOk(x)
      BY <3>2 DEF RowOk, Loads, CycleLoads, StagesLoad
    <3>4. cyc' = Append(cyc, x) /\ cur' = Len(cyc) + 1 /\ pc' = "activate" /\ pc = "normal"
          /\ level' = level /\ account' = account
      BY <1>3, <2>1 DEF StartCycle
    <3> HIDE DEF x
    <3>5. /\ cyc' \in Seq(CycleRow) /\ DOMAIN cyc' = 1..(Len(cyc) + 1)
          /\ cyc'[Len(cyc) + 1] = x /\ \A k \in 1..Len(cyc) : cyc'[k] = cyc[k]
          /\ DOMAIN cyc = 1..Len(cyc) /\ Len(cyc) \in Nat
      BY <1>1, <3>1, <3>4, AppendProperties, LenProperties
    <3>6. \A k \in DOMAIN cyc' : RowOk(cyc'[k])
      BY <3>3, <3>5 DEF RowsInv
    <3> QED
      BY <1>1, <3>4, <3>5, <3>6 DEF RowsInv, TypeInv, HandInv
  <2>2. CASE ~(Len(cyc) < MaxCycles)
    BY <1>1, <1>3, <2>2, Untouched DEF StartCycle
  <2> QED
    BY <2>1, <2>2
<1>4. ASSUME NEW c \in Configs, NEW op, NEW from \in {"RUNNING", "PAUSED"},
             NEW to \in {"RUNNING", "PAUSED"}, Transition(op, from, to, c)
      PROVE  RowsInv'
  <2>1. /\ cyc' = [k \in DOMAIN cyc |-> IF cyc[k].config = c /\ cyc[k].status = from
                                        THEN [cyc[k] EXCEPT !.status = to] ELSE cyc[k]]
        /\ pc' = pc /\ pc = "normal" /\ level' = level /\ cur' = cur /\ account' = account
    BY <1>4 DEF Transition
  <2>2. /\ cyc' \in Seq(CycleRow) /\ DOMAIN cyc' = DOMAIN cyc
        /\ \A k \in DOMAIN cyc' : RowOk(cyc'[k])
    BY <2>1, EditSome
  <2> QED
    BY <1>1, <2>1, <2>2 DEF RowsInv, TypeInv, HandInv
<1>5. CASE ResetBaseline
  <2>1. /\ cyc' = [k \in DOMAIN cyc |-> [cyc[k] EXCEPT !.counted = FALSE]]
        /\ pc' = pc /\ pc = "normal" /\ level' = level /\ cur' = cur /\ account' = account
    BY <1>5 DEF ResetBaseline
  <2>2. /\ cyc' \in Seq(CycleRow) /\ DOMAIN cyc' = DOMAIN cyc
        /\ \A k \in DOMAIN cyc' : RowOk(cyc'[k])
    BY <2>1, EditSome
  <2> QED
    BY <1>1, <2>1, <2>2 DEF RowsInv, TypeInv, HandInv
<1>6. ASSUME NEW c \in Configs \cup {0}, TakeLiquidate(c) PROVE RowsInv'
  BY <1>1, <1>6, Untouched DEF TakeLiquidate
<1>7. ASSUME NEW c \in Configs, ForceFails(c) PROVE RowsInv'
  BY <1>1, <1>7, Untouched DEF ForceFails
<1>8. ASSUME NEW n \in 0..(Foreign + MaxCycles), LiquidationStays(n) PROVE RowsInv'
  <2>1. account - n \in Nat
    BY <1>1, <1>8, DeskAssumption DEF LiquidationStays
  <2> QED
    BY <1>1, <1>8, <2>1, Untouched DEF LiquidationStays, Take
<1>9. ASSUME NEW k \in DOMAIN cyc, BeginLiquidation(k) PROVE RowsInv'
  <2> DEFINE x == [cyc[k] EXCEPT !.status = "LIQUIDATING"]
  <2>1. cyc[k] \in CycleRow /\ RowOk(cyc[k])
    BY RowAt DEF RowsInv
  <2>2. x \in CycleRow
    BY <2>1, Fields
  <2>3. x.anchor = cyc[k].anchor /\ x.rows = cyc[k].rows /\ x.reason = cyc[k].reason
        /\ x.left = cyc[k].left
        /\ x.status = "LIQUIDATING"
    BY <2>1 DEF CycleRow
  <2>4. RowOk(x)
    BY <2>1, <2>3, KeepRow
  <2>5. cyc' = [cyc EXCEPT ![k] = x] /\ cur' = k /\ pc' = "selling" /\ level' = level
        /\ account' = account /\ pc = "urgent"
    BY <1>9 DEF BeginLiquidation
  <2> HIDE DEF x
  <2>6. /\ cyc' \in Seq(CycleRow) /\ DOMAIN cyc' = DOMAIN cyc /\ cyc'[k] = x
        /\ \A j \in DOMAIN cyc' : RowOk(cyc'[j])
    BY <2>2, <2>4, <2>5, EditRow
  <2> QED
    BY <1>1, <2>3, <2>5, <2>6 DEF RowsInv, TypeInv, HandInv
<1>10. CASE LiquidationCloses
  <2>1. cur \in DOMAIN cyc /\ level = 1 /\ account' = 0
    BY <1>1, <1>10 DEF LiquidationCloses, RowsInv, HandInv, Take
  <2> QED
    BY <1>10, <2>1, CloseRow DEF LiquidationCloses
<1>11. ASSUME NEW c \in Configs, NEW k \in DOMAIN cyc, ForceClose(k, c) PROVE RowsInv'
  BY <1>1, <1>11, CloseRow DEF ForceClose
<1>12. ASSUME NEW c \in Configs, NEW k \in DOMAIN cyc, ForceCloseEmpty(k, c) PROVE RowsInv'
  BY <1>1, <1>12, CloseRow DEF ForceCloseEmpty
<1>13. CASE SetPnl
  <2> DEFINE x == [cyc[cur] EXCEPT !.pnl = TRUE]
  <2>1. cur \in DOMAIN cyc /\ cyc[cur] \in CycleRow /\ RowOk(cyc[cur])
    BY <1>13, RowAt DEF SetPnl, RowsInv, HandInv
  <2>2. x \in CycleRow
    BY <2>1, Fields
  <2>3. x.anchor = cyc[cur].anchor /\ x.rows = cyc[cur].rows /\ x.reason = cyc[cur].reason
        /\ x.left = cyc[cur].left
        /\ x.status = cyc[cur].status
    BY <2>1 DEF CycleRow
  <2>4. RowOk(x)
    BY <2>1, <2>3, KeepRow
  <2>5. cyc' = [cyc EXCEPT ![cur] = x] /\ cur' = cur /\ pc' = "release" /\ level' = level
        /\ account' = account /\ pc = "pnl"
    BY <1>13 DEF SetPnl
  <2> HIDE DEF x
  <2>6. /\ cyc' \in Seq(CycleRow) /\ DOMAIN cyc' = DOMAIN cyc
        /\ \A j \in DOMAIN cyc' : RowOk(cyc'[j])
    BY <2>1, <2>2, <2>4, <2>5, EditRow
  <2> QED
    BY <1>1, <2>1, <2>5, <2>6 DEF RowsInv, TypeInv, HandInv
<1> QED
  BY <1>2, <1>3, <1>4, <1>5, <1>6, <1>7, <1>8, <1>9, <1>10, <1>11, <1>12, <1>13 DEF Drain

LEMMA RowsRun == RowsInv /\ Run => RowsInv'
<1> SUFFICES ASSUME RowsInv, Run PROVE RowsInv'
  OBVIOUS
<1>1. level \in 1..(Levels + 1) /\ pc \in PCs /\ account \in Nat /\ cyc \in Seq(CycleRow)
      /\ (pc # "anchor" => level = 1) /\ Levels \in Nat \ {0}
  BY DeskAssumption DEF RowsInv, TypeInv, HandInv
<1> USE DEF db, queues, history, Goto, PCs, Turn, NextCycle, OnTickDone
<1>2. CASE Loop \/ StreamEnds \/ TickArrives \/ ReconcileLost \/ TickOver
  BY <1>1, <1>2, Untouched DEF Loop, StreamEnds, TickArrives, ReconcileLost, TickOver
<1>3. ASSUME NEW k \in DOMAIN cyc, RefuseAnchor(k) \/ SkipCycle(k) PROVE RowsInv'
  BY <1>1, <1>3, Untouched DEF RefuseAnchor, SkipCycle
<1>4. ASSUME NEW k \in DOMAIN cyc, BeginAnchor(k) PROVE RowsInv'
  <2> DEFINE rs == [n \in 1..Levels |-> IF n \in Has(k) THEN "old" ELSE "none"]
             x == [cyc[k] EXCEPT !.rows = rs]
  <2>1. cyc[k] \in CycleRow /\ RowOk(cyc[k])
    BY RowAt DEF RowsInv
  <2>2. rs \in [1..Levels -> Trigger]
    BY DEF Trigger
  <2>3. x \in CycleRow
    BY <2>1, <2>2, Fields
  <2>4. x.anchor = cyc[k].anchor /\ x.rows = rs /\ x.reason = cyc[k].reason
        /\ x.left = cyc[k].left
        /\ x.status = cyc[k].status /\ Loaded(x) = Loaded(cyc[k])
    BY <2>1 DEF CycleRow, Loaded, Has
  <2>5. cyc' = [cyc EXCEPT ![k] = x] /\ cur' = k /\ pc' = "anchor" /\ level' = level
        /\ account' = account /\ pc = "tick" /\ cyc[k].status = "STARTING"
    BY <1>4 DEF BeginAnchor
  <2> HIDE DEF x
  <2>6. RowOk(x)
    BY <2>1, <2>4, <2>5 DEF RowOk, Loads, CycleLoads, StagesLoad
  <2>7. /\ cyc' \in Seq(CycleRow) /\ DOMAIN cyc' = DOMAIN cyc /\ cyc'[k] = x
        /\ \A j \in DOMAIN cyc' : RowOk(cyc'[j])
    BY <2>3, <2>5, <2>6, EditRow
  <2> QED
    BY <1>1, <2>4, <2>5, <2>7 DEF RowsInv, TypeInv, HandInv
<1>5. CASE ConfirmRow
  <2> DEFINE rs == [cyc[cur].rows EXCEPT ![level] = "new"]
             x == [cyc[cur] EXCEPT !.rows = rs]
  <2>1. cur \in DOMAIN cyc /\ cyc[cur] \in CycleRow /\ RowOk(cyc[cur])
    BY <1>5, RowAt DEF ConfirmRow, RowsInv, HandInv
  <2>2. level \in 1..Levels
    BY <1>1, <1>5 DEF ConfirmRow
  <2>3. rs \in [1..Levels -> Trigger]
    BY <2>1 DEF CycleRow, Trigger
  <2>4. x \in CycleRow
    BY <2>1, <2>3, Fields
  <2>5. x.anchor = cyc[cur].anchor /\ x.rows = rs /\ x.reason = cyc[cur].reason
        /\ x.left = cyc[cur].left
        /\ x.status = cyc[cur].status /\ cyc[cur].rows \in [1..Levels -> Trigger]
    BY <2>1 DEF CycleRow
  <2>6. cyc' = [cyc EXCEPT ![cur] = x] /\ cur' = cur /\ pc' = pc /\ level' = level + 1
        /\ account' = account /\ pc = "anchor" /\ cyc[cur].status = "STARTING"
        /\ \A n \in 1..(level - 1) : cyc[cur].rows[n] = "new"
    BY <1>5 DEF ConfirmRow, RowsInv, HandInv
  <2> HIDE DEF x
  <2> DEFINE old == cyc[cur].rows
  <2>7. \A n \in 1..Levels : rs[n] = IF n = level THEN "new" ELSE old[n]
    BY <2>2, <2>5
  <2> HIDE DEF rs
  <2>8. \A n \in 1..level : rs[n] = "new"
    <3>1. \A n \in 1..level : n \in 1..Levels /\ (n = level \/ n \in 1..(level - 1))
      BY <1>1, <2>2
    <3> QED
      BY <2>6, <2>7, <3>1
  <2>9. Loaded(x) = Loaded(cyc[cur]) \cup {level} /\ 1..level \subseteq Loaded(x)
    <3>1. 1..level \subseteq 1..Levels
      BY <1>1, <2>2
    <3>2. \A n \in 1..Levels : n \in Loaded(x) <=> (n \in Loaded(cyc[cur]) \/ n = level)
      BY <2>5, <2>7 DEF Loaded
    <3>3. Loaded(x) \subseteq 1..Levels /\ Loaded(cyc[cur]) \subseteq 1..Levels
      BY DEF Loaded
    <3>4. 1..level \subseteq Loaded(x)
      BY <2>5, <2>8, <3>1 DEF Loaded
    <3> QED
      BY <2>2, <3>2, <3>3, <3>4
  <2>10. RowOk(x)
    BY <2>1, <2>5, <2>6, <2>9 DEF RowOk, Loads, CycleLoads, StagesLoad
  <2>11. /\ cyc' \in Seq(CycleRow) /\ DOMAIN cyc' = DOMAIN cyc /\ cyc'[cur] = x
         /\ \A j \in DOMAIN cyc' : RowOk(cyc'[j])
    BY <2>1, <2>4, <2>6, <2>10, EditRow
  <2> QED
    BY <1>1, <2>1, <2>2, <2>5, <2>6, <2>8, <2>11 DEF RowsInv, TypeInv, HandInv
<1>6. CASE ConfirmAnchor
  <2> DEFINE a == [cyc[cur] EXCEPT !.status = "RUNNING"]
             x == [a EXCEPT !.anchor = TRUE]
  <2>1. cur \in DOMAIN cyc /\ cyc[cur] \in CycleRow /\ RowOk(cyc[cur])
    BY <1>6, RowAt DEF ConfirmAnchor, RowsInv, HandInv
  <2>2. a \in CycleRow
    BY <2>1, Fields
  <2>3. x \in CycleRow
    BY <2>2, Fields
  <2>4. x.anchor = TRUE /\ x.rows = cyc[cur].rows /\ x.reason = cyc[cur].reason
        /\ x.left = cyc[cur].left
        /\ x.status = "RUNNING"
    BY <2>1 DEF CycleRow
  <2>5. cyc' = [cyc EXCEPT ![cur] = x]
    BY <1>6 DEF ConfirmAnchor
  <2>6. pc' = "tick" /\ level' = 1 /\ account' = account
        /\ level = Levels + 1 /\ \A n \in 1..Levels : cyc[cur].rows[n] = "new"
    BY <1>1, <1>6 DEF ConfirmAnchor, RowsInv, HandInv
  <2> HIDE DEF x
  <2>7. Loaded(x) = Loaded(cyc[cur])
    BY <2>4 DEF Loaded
  <2>8. RowOk(x)
    BY <2>1, <2>4, <2>6, <2>7 DEF RowOk, Loads, CycleLoads, StagesLoad
  <2>9. /\ cyc' \in Seq(CycleRow) /\ DOMAIN cyc' = DOMAIN cyc
        /\ \A j \in DOMAIN cyc' : RowOk(cyc'[j])
    BY <2>1, <2>3, <2>5, <2>8, EditRow
  <2> QED
    BY <1>1, <2>6, <2>9 DEF RowsInv, TypeInv, HandInv
<1>7. ASSUME NEW k \in DOMAIN cyc, Buy(k) PROVE RowsInv'
  <2> DEFINE x == [cyc[k] EXCEPT !.held = 1]
  <2>1. cyc[k] \in CycleRow /\ RowOk(cyc[k])
    BY RowAt DEF RowsInv
  <2>2. 1 \in 0..1
    OBVIOUS
  <2>3. x \in CycleRow
    BY <2>1, <2>2, Fields
  <2>4. x.anchor = cyc[k].anchor /\ x.rows = cyc[k].rows /\ x.reason = cyc[k].reason
        /\ x.left = cyc[k].left
        /\ x.status = cyc[k].status
    BY <2>1 DEF CycleRow
  <2>5. RowOk(x)
    BY <2>1, <2>4, KeepRow
  <2>6. cyc' = [cyc EXCEPT ![k] = x]
    BY <1>7 DEF Buy
  <2> HIDE DEF x
  <2>7. /\ cyc' \in Seq(CycleRow) /\ DOMAIN cyc' = DOMAIN cyc
        /\ \A j \in DOMAIN cyc' : RowOk(cyc'[j])
    BY <2>3, <2>5, <2>6, EditRow
  <2>8. pc' = "tick" /\ level' = 1 /\ account' \in Nat /\ 1 \in 1..(Levels + 1)
    BY <1>1, <1>7 DEF Buy
  <2> QED
    BY <2>7, <2>8 DEF RowsInv, TypeInv, HandInv
<1>8. ASSUME NEW k \in DOMAIN cyc, Sell(k) PROVE RowsInv'
  <2>1. cyc[k].status = "RUNNING" /\ RowOk(cyc[k]) /\ account' \in Nat /\ level = 1
    BY <1>1, <1>8 DEF Sell, Take, RowsInv
  <2>2. 1 \in Has(k)
    BY <1>1, <2>1 DEF RowOk, Loads, CycleLoads, StagesLoad, Loaded, Has
  <2> QED
    BY <1>8, <2>1, <2>2, CloseRow DEF Sell
<1>9. CASE Reconcile
  <2>1. /\ cyc' = [k \in DOMAIN cyc |->
              IF cyc[k].status = "RUNNING" /\ cyc[k].held > account - Baseline
              THEN [cyc[k] EXCEPT !.status = "PAUSED"] ELSE cyc[k]]
        /\ pc' = pc /\ pc = "tick" /\ level' = level /\ account' = account
    BY <1>9 DEF Reconcile, engine
  <2>2. /\ cyc' \in Seq(CycleRow) /\ DOMAIN cyc' = DOMAIN cyc
        /\ \A k \in DOMAIN cyc' : RowOk(cyc'[k])
    BY <2>1, EditSome
  <2> QED
    BY <1>1, <2>1, <2>2 DEF RowsInv, TypeInv, HandInv
<1> QED
  BY <1>2, <1>3, <1>4, <1>5, <1>6, <1>7, <1>8, <1>9 DEF Run

LEMMA RowsNext == RowsInv /\ [Next]_vars => RowsInv'
<1> SUFFICES ASSUME RowsInv, [Next]_vars PROVE RowsInv'
  OBVIOUS
<1> USE DEF db, engine, queues, history
<1>1. CASE UNCHANGED vars
  BY <1>1 DEF vars, RowsInv, TypeInv, HandInv
<1>2. CASE Send
  BY <1>2 DEF Send, RowsInv, TypeInv, HandInv
<1>3. CASE SellByHand
  BY <1>3 DEF SellByHand, Take, RowsInv, TypeInv, HandInv
<1>4. CASE Crash \/ Restart
  BY <1>4, Untouched DEF Crash, Restart, Goto, RowsInv, TypeInv, HandInv, PCs
<1> QED
  BY <1>1, <1>2, <1>3, <1>4, RowsDrain, RowsRun DEF Next

\* Whatever commit was the last one, the rows it leaves can be loaded again: the
\* anchor is confirmed row by row with the cycle last (Orchestrator._confirm_anchor),
\* and no cycle is closed by sale without a stage.
THEOREM RowsSafety == Spec => []EveryRowLoads
<1>1. RowsInv => EveryRowLoads
  BY DEF RowsInv, RowOk, EveryRowLoads
<1> QED
  BY <1>1, RowsInit, RowsNext, PTL DEF Spec

---------------------------------------------------------------------------
(* The queues *)

LEMMA WaitNext == WaitInv /\ [Next]_vars => WaitInv'
<1> SUFFICES ASSUME WaitInv, [Next]_vars PROVE WaitInv'
  OBVIOUS
<1> USE DEF WaitInv, db, engine, queues, history, Goto
<1>1. CASE UNCHANGED vars
  BY <1>1 DEF vars
<1>2. CASE Send
  <2>1. ASSUME NEW m \in Urgent PROVE Append(prio, m) \in Seq(Urgent) /\ Append(prio, m) # <<>>
    BY AppendProperties
  <2> QED
    BY <1>2, <2>1 DEF Send
<1>3. CASE SellByHand \/ Restart
  BY <1>3 DEF SellByHand, Restart
<1>4. CASE Crash
  <2>1. <<>> \in Seq(Urgent)
    BY EmptySeq
  <2> QED
    BY <1>4, <2>1 DEF Crash
<1>5. CASE Drained
  BY <1>5 DEF Drained
<1>6. CASE ToNormal
  BY <1>6 DEF ToNormal, NoMoreUrgent
<1>7. ASSUME NEW c, TakeLiquidate(c) \/ ForceFails(c)
                    \/ \E k \in DOMAIN cyc : ForceClose(k, c) \/ ForceCloseEmpty(k, c)
      PROVE  WaitInv'
  <2>1. prio # <<>> /\ prio' = Tail(prio) /\ waited' = 0
    BY <1>7 DEF TakeLiquidate, ForceFails, ForceClose, ForceCloseEmpty, TakeForce
  <2> QED
    BY <2>1, HeadTailProperties
<1>8. ASSUME NEW c \in Configs,
             \/ StartCycle(c)
             \/ Transition("pause", "RUNNING", "PAUSED", c)
             \/ Transition("resume", "PAUSED", "RUNNING", c)
      PROVE  WaitInv'
  BY <1>8 DEF StartCycle, Transition, TakeNormal
<1>9. CASE Activate \/ ResetBaseline \/ Shutdown
  BY <1>9 DEF Activate, ResetBaseline, Shutdown, TakeNormal
<1>10. CASE NothingToLiquidate \/ (\E k \in DOMAIN cyc : BeginLiquidation(k)) \/ LiquidationCloses
           \/ SetPnl \/ ReleaseConfig \/ \E n \in 0..(Foreign + MaxCycles) : LiquidationStays(n)
  BY <1>10 DEF NothingToLiquidate, BeginLiquidation, LiquidationCloses, LiquidationStays,
              CloseCycle, SetPnl, ReleaseConfig
<1>11. CASE Run
  <2>1. prio' = prio /\ waited' = waited /\ (pc' = pc \/ pc' \notin {"normal", "activate"})
    BY <1>11 DEF Run, Loop, StreamEnds, TickArrives, BeginAnchor, RefuseAnchor, SkipCycle, Buy, Sell, ConfirmRow,
                 ConfirmAnchor, Reconcile, ReconcileLost, TickOver, NextCycle, CloseCycle
  <2> QED
    BY <2>1
<1> QED
  BY <1>1, <1>2, <1>3, <1>4, <1>5, <1>6, <1>7, <1>8, <1>9, <1>10, <1>11 DEF Next, Drain

\* An emergency that arrives while Orchestrator.drain_commands is at the ordinary
\* commands waits for one on_tick at most, however many of them there are.
THEOREM WaitSafety == Spec => []EmergencyWaitsOneTick
<1>1. Init => WaitInv
  BY EmptySeq DEF Init, WaitInv
<1>2. WaitInv => EmergencyWaitsOneTick
  BY DEF WaitInv, EmergencyWaitsOneTick
<1> QED
  BY <1>1, <1>2, WaitNext, PTL DEF Spec

---------------------------------------------------------------------------
(* Configurations *)

\* Places where the status of a configuration is about to be written.
Mid == {"activate", "pnl", "release"}

\* No cycle is born or closed, and the engine stays where it is, as far as the
\* configurations are concerned.
LEMMA ConfKept ==
  ASSUME ConfInv, conf' = conf, torn' = torn, DOMAIN cyc' = DOMAIN cyc,
         \A k \in DOMAIN cyc :
           /\ cyc'[k].config = cyc[k].config /\ cyc'[k].alone = cyc[k].alone
           /\ cyc'[k].status = "CLOSED" <=> cyc[k].status = "CLOSED",
         pc' = "activate" <=> pc = "activate",
         pc' \in {"pnl", "release"} <=> pc \in {"pnl", "release"},
         pc \in Mid => cur' = cur /\ cur \in DOMAIN cyc
  PROVE  ConfInv'
<1>1. ASSUME NEW c \in Configs
      PROVE  /\ ActiveOf(c)' = ActiveOf(c)
             /\ Crowded(c)' <=> Crowded(c)
             /\ Midway(c)' <=> Midway(c)
  <2>1. ActiveOf(c)' = ActiveOf(c)
    BY DEF ActiveOf, Active, Open
  <2>2. Crowded(c)' <=> Crowded(c)
    BY <2>1 DEF Crowded
  <2>3. Midway(c)' <=> Midway(c)
    BY DEF Midway, Mid
  <2> QED
    BY <2>1, <2>2, <2>3
<1>2. /\ pc' \in {"pnl", "release"} => ~Open(cur)'
      /\ pc' = "activate" => Open(cur)'
  BY DEF ConfInv, Open, Mid
<1>3. SecondsAreMarked'
  BY DEF ConfInv, SecondsAreMarked, Open
<1> QED
  BY <1>1, <1>2, <1>3 DEF ConfInv

LEMMA ConfClose ==
  ASSUME RowsInv, ConfInv, NEW k \in DOMAIN cyc, NEW why, NEW left,
         CloseCycle(k, why, left), Open(k), pc \notin Mid, torn' = torn
  PROVE  ConfInv'
<1>1. conf' = conf /\ cur' = k /\ pc' = "pnl" /\ DOMAIN cyc' = DOMAIN cyc
      /\ \A j \in DOMAIN cyc : j # k => cyc'[j] = cyc[j]
  BY DEF CloseCycle
<1>2. /\ cyc'[k].status = "CLOSED" /\ cyc'[k].config = cyc[k].config
      /\ cyc'[k].alone = cyc[k].alone
  <2>1. cyc[k] \in CycleRow
    BY RowAt DEF RowsInv
  <2> QED
    BY <2>1 DEF CycleRow, CloseCycle
<1>3. ASSUME NEW c \in Configs
      PROVE  /\ Midway(c)' <=> c = cyc[k].config
             /\ ~Midway(c)
             /\ ActiveOf(c)' = ActiveOf(c) \ {k}
             /\ c # cyc[k].config => k \notin ActiveOf(c)
             /\ c = cyc[k].config => k \in ActiveOf(c)
  BY <1>1, <1>2 DEF ActiveOf, Active, Open, Midway, Mid
<1>4. ASSUME NEW c \in Configs
      PROVE  Crowded(c)' <=> \E i \in DOMAIN cyc :
               cyc[i].config = c /\ ~cyc[i].alone /\ \E j \in ActiveOf(c) \ {k} : j <= i
  BY <1>1, <1>2, <1>3 DEF Crowded
\* Where two cycles were open, the later one is marked, and it and the one that
\* stays open keep the configuration crowded.
<1>5. ASSUME NEW c \in Configs, ~Crowded(c)', c = cyc[k].config
      PROVE  ActiveOf(c)' = {}
  <2> SUFFICES ASSUME NEW i \in ActiveOf(c), i # k PROVE FALSE
    BY <1>3, <1>5
  <2>1. i \in DOMAIN cyc /\ cyc[i].config = c /\ Open(i)
    BY DEF ActiveOf, Active
  <2>2. i \in Nat /\ k \in Nat
    BY <2>1, LenProperties DEF RowsInv, TypeInv
  <2>3. CASE i < k
    BY <1>4, <1>5, <2>1, <2>2, <2>3 DEF ConfInv, SecondsAreMarked
  <2>4. CASE k < i
    BY <1>4, <1>5, <2>1, <2>2, <2>4 DEF ConfInv, SecondsAreMarked
  <2> QED
    BY <2>2, <2>3, <2>4
<1>6. ASSUME NEW c \in Configs, ~Crowded(c)', c # cyc[k].config
      PROVE  ~Crowded(c) /\ ActiveOf(c)' = ActiveOf(c)
  <2>1. ActiveOf(c)' = ActiveOf(c) /\ ActiveOf(c) \ {k} = ActiveOf(c)
    BY <1>3, <1>6
  <2>2. Crowded(c)' <=> Crowded(c)
    BY <1>4, <2>1 DEF Crowded
  <2> QED
    BY <1>6, <2>1, <2>2
<1>7. ~Open(cur)' /\ SecondsAreMarked'
  BY <1>1, <1>2 DEF Open, ConfInv, SecondsAreMarked
<1>8. ASSUME NEW c \in Configs, ~Crowded(c)'
      PROVE  /\ Midway(c)' => ActiveOf(c)' = {}
             /\ c \notin torn /\ ~Midway(c)' => ((conf[c] = "ACTIVE") = (ActiveOf(c)' # {}))
  BY <1>3, <1>5, <1>6, <1>8 DEF ConfInv
<1> QED
  BY <1>1, <1>7, <1>8 DEF ConfInv

LEMMA ConfStart ==
  ASSUME RowsInv, ConfInv, NEW c \in Configs, StartCycle(c)
  PROVE  ConfInv'
<1>1. CASE Len(cyc) < MaxCycles
  <2> DEFINE x == Born(c, ActiveOf(c) = {})
             n == Len(cyc) + 1
  <2>1. x.config = c /\ x.status = "STARTING" /\ x.alone = (ActiveOf(c) = {})
    BY DEF Born
  <2>2. x \in CycleRow
    BY BornRow
  <2>3. cyc' = Append(cyc, x) /\ cur' = n /\ pc' = "activate" /\ pc = "normal"
        /\ conf' = conf /\ torn' = torn
    BY <1>1 DEF StartCycle, TakeNormal
  <2> HIDE DEF x
  <2>4. /\ DOMAIN cyc' = DOMAIN cyc \cup {n} /\ n \in Nat
        /\ cyc'[n] = x /\ \A k \in DOMAIN cyc : cyc'[k] = cyc[k] /\ k \in Nat /\ k < n
    BY <2>2, <2>3, AppendProperties, LenProperties DEF RowsInv, TypeInv
  <2> HIDE DEF n
  <2>5. ASSUME NEW d \in Configs, d # c
        PROVE  /\ Crowded(d)' <=> Crowded(d)
               /\ ~Midway(d)' /\ ~Midway(d)
               /\ ActiveOf(d)' = ActiveOf(d)
    <3>1. ~Midway(d)' /\ ~Midway(d) /\ ActiveOf(d)' = ActiveOf(d)
      BY <2>1, <2>3, <2>4, <2>5 DEF ActiveOf, Active, Open, Midway
    <3>2. Crowded(d)' <=> Crowded(d)
      BY <2>1, <2>4, <2>5, <3>1 DEF Crowded
    <3> QED
      BY <3>1, <3>2
  <2>6. Midway(c)' /\ ActiveOf(c)' = ActiveOf(c) \cup {n}
    BY <2>1, <2>3, <2>4 DEF ActiveOf, Active, Open, Midway
  <2>7. Open(cur)'
    BY <2>1, <2>3, <2>4 DEF Open
  <2>8. SecondsAreMarked'
    <3> SUFFICES ASSUME NEW j \in DOMAIN cyc', NEW k \in DOMAIN cyc', j < k,
                        cyc'[j].config = cyc'[k].config, cyc'[k].alone
                 PROVE  ~Open(j)'
      BY DEF SecondsAreMarked
    <3>1. j \in DOMAIN cyc
      BY <2>4
    <3>2. CASE k = n
      <4>1. ActiveOf(c) = {}
        BY <2>1, <2>4, <3>2
      <4>2. cyc[j].config = c /\ cyc'[j] = cyc[j]
        BY <2>1, <2>4, <3>1, <3>2
      <4> QED
        BY <3>1, <4>1, <4>2 DEF Open, ActiveOf, Active
    <3>3. CASE k # n
      BY <2>4, <3>1, <3>3 DEF Open, ConfInv, SecondsAreMarked
    <3> QED
      BY <3>2, <3>3
  <2>9. ASSUME NEW d \in Configs, ~Crowded(d)'
        PROVE  d \notin torn' /\ ~Midway(d)' => ((conf'[d] = "ACTIVE") = (ActiveOf(d)' # {}))
    BY <2>3, <2>5, <2>6, <2>9 DEF ConfInv
  <2> QED
    BY <2>3, <2>7, <2>8, <2>9 DEF ConfInv
<1>2. CASE ~(Len(cyc) < MaxCycles)
  BY <1>2, ConfKept DEF StartCycle, TakeNormal, Mid
<1> QED
  BY <1>1, <1>2

LEMMA ConfWrite ==
  ASSUME RowsInv, ConfInv, Activate \/ ReleaseConfig
  PROVE  ConfInv'
<1> DEFINE c == cyc[cur].config
<1>1. /\ cyc' = cyc /\ torn' = torn \ {c} /\ pc \in Mid /\ cur \in DOMAIN cyc /\ pc' \notin Mid
      /\ conf' = [conf EXCEPT ![c] = IF pc = "activate" THEN "ACTIVE" ELSE "IDLE"]
  BY DEF Activate, ReleaseConfig, Mid, RowsInv, HandInv
<1>2. c \in Configs
  <2>1. cyc[cur] \in CycleRow
    BY <1>1, RowAt DEF RowsInv
  <2> QED
    BY <2>1 DEF CycleRow
<1>3. ASSUME NEW d \in Configs
      PROVE  /\ ActiveOf(d)' = ActiveOf(d)
             /\ Crowded(d)' <=> Crowded(d)
             /\ ~Midway(d)'
             /\ Midway(d) <=> d = c
  BY <1>1 DEF ActiveOf, Active, Open, Crowded, Midway, Mid
<1>4. pc = "activate" => cur \in ActiveOf(c)
  BY <1>1 DEF ConfInv, ActiveOf, Active
<1>5. pc # "activate" /\ ~Crowded(c) => ActiveOf(c) = {}
  BY <1>1, <1>2, <1>3 DEF ConfInv, Mid
<1>6. /\ conf' \in [Configs -> {"IDLE", "ACTIVE"}]
      /\ \A d \in Configs : d # c => conf'[d] = conf[d]
      /\ conf'[c] = IF pc = "activate" THEN "ACTIVE" ELSE "IDLE"
  BY <1>1, <1>2 DEF ConfInv
<1>7. SecondsAreMarked'
  BY <1>1 DEF ConfInv, SecondsAreMarked, Open
<1> HIDE DEF c
<1>8. ASSUME NEW d \in Configs, ~Crowded(d), d \notin torn'
      PROVE  (conf'[d] = "ACTIVE") = (ActiveOf(d) # {})
  <2>1. CASE d = c
    BY <1>4, <1>5, <1>6, <1>8, <2>1
  <2>2. CASE d # c
    BY <1>1, <1>3, <1>6, <1>8, <2>2 DEF ConfInv
  <2> QED
    BY <2>1, <2>2
<1> QED
  BY <1>1, <1>3, <1>6, <1>7, <1>8 DEF ConfInv, Mid

\* A change of one row that leaves what ConfKept asks for.
LEMMA ConfEdit ==
  ASSUME RowsInv, ConfInv, NEW k \in DOMAIN cyc, NEW x,
         cyc' = [cyc EXCEPT ![k] = x],
         x.config = cyc[k].config, x.alone = cyc[k].alone,
         x.status = "CLOSED" <=> cyc[k].status = "CLOSED",
         conf' = conf, torn' = torn,
         pc' = "activate" <=> pc = "activate",
         pc' \in {"pnl", "release"} <=> pc \in {"pnl", "release"},
         pc \in Mid => cur' = cur /\ cur \in DOMAIN cyc
  PROVE  ConfInv'
<1>1. /\ DOMAIN cyc' = DOMAIN cyc /\ cyc'[k] = x
      /\ \A j \in DOMAIN cyc : j # k => cyc'[j] = cyc[j]
  OBVIOUS
<1>2. \A j \in DOMAIN cyc :
        /\ cyc'[j].config = cyc[j].config /\ cyc'[j].alone = cyc[j].alone
        /\ cyc'[j].status = "CLOSED" <=> cyc[j].status = "CLOSED"
  BY <1>1
<1> QED
  BY <1>1, <1>2, ConfKept

LEMMA ConfDrain == RowsInv /\ ConfInv /\ Drain => ConfInv'
<1> SUFFICES ASSUME RowsInv, ConfInv, Drain PROVE ConfInv'
  OBVIOUS
<1>0. \A k \in DOMAIN cyc : cyc[k] \in CycleRow
  BY RowAt DEF RowsInv
<1> USE DEF db, engine, queues, history, Goto, TakeNormal, TakeForce, Mid
<1>1. CASE ToNormal \/ Drained \/ Shutdown \/ NothingToLiquidate
  <2>1. cyc' = cyc /\ conf' = conf /\ torn' = torn /\ pc \notin Mid /\ pc' \notin Mid
    BY <1>1 DEF ToNormal, Drained, Shutdown, NothingToLiquidate
  <2> QED
    BY <2>1, ConfKept
<1>2. ASSUME NEW c, NEW n, TakeLiquidate(c) \/ ForceFails(c) \/ LiquidationStays(n)
      PROVE  ConfInv'
  <2>1. cyc' = cyc /\ conf' = conf /\ torn' = torn /\ pc \notin Mid /\ pc' \notin Mid
    BY <1>2 DEF TakeLiquidate, ForceFails, LiquidationStays
  <2> QED
    BY <2>1, ConfKept
<1>3. CASE Activate \/ ReleaseConfig
  BY <1>3, ConfWrite
<1>4. ASSUME NEW c \in Configs, StartCycle(c) PROVE ConfInv'
  BY <1>4, ConfStart
<1>5. ASSUME NEW c \in Configs, NEW op, NEW from \in {"RUNNING", "PAUSED"},
             NEW to \in {"RUNNING", "PAUSED"}, Transition(op, from, to, c)
      PROVE  ConfInv'
  <2>1. /\ cyc' = [k \in DOMAIN cyc |-> IF cyc[k].config = c /\ cyc[k].status = from
                                        THEN [cyc[k] EXCEPT !.status = to] ELSE cyc[k]]
        /\ conf' = conf /\ torn' = torn /\ pc' = pc /\ pc = "normal"
    BY <1>5 DEF Transition
  <2>2. ASSUME NEW k \in DOMAIN cyc
        PROVE  /\ cyc'[k].config = cyc[k].config /\ cyc'[k].alone = cyc[k].alone
               /\ cyc'[k].status = "CLOSED" <=> cyc[k].status = "CLOSED"
    BY <1>0, <2>1 DEF CycleRow
  <2> QED
    BY <2>1, <2>2, ConfKept
<1>6. CASE ResetBaseline
  <2>1. /\ cyc' = [k \in DOMAIN cyc |-> [cyc[k] EXCEPT !.counted = FALSE]]
        /\ conf' = conf /\ torn' = torn /\ pc' = pc /\ pc = "normal"
    BY <1>6 DEF ResetBaseline
  <2>2. ASSUME NEW k \in DOMAIN cyc
        PROVE  /\ cyc'[k].config = cyc[k].config /\ cyc'[k].alone = cyc[k].alone
               /\ cyc'[k].status = "CLOSED" <=> cyc[k].status = "CLOSED"
    BY <1>0, <2>1 DEF CycleRow
  <2> QED
    BY <2>1, <2>2, ConfKept
<1>7. ASSUME NEW k \in DOMAIN cyc, BeginLiquidation(k) PROVE ConfInv'
  <2> DEFINE x == [cyc[k] EXCEPT !.status = "LIQUIDATING"]
  <2>1. x.config = cyc[k].config /\ x.alone = cyc[k].alone /\ x.status = "LIQUIDATING"
    BY <1>0 DEF CycleRow
  <2>2. cyc' = [cyc EXCEPT ![k] = x] /\ cyc[k].status # "CLOSED" /\ conf' = conf /\ torn' = torn
        /\ pc \notin Mid /\ pc' \notin Mid
    BY <1>7 DEF BeginLiquidation, IsFirst, ActiveOf, Active, Open
  <2> HIDE DEF x
  <2> QED
    BY <2>1, <2>2, ConfEdit
<1>8. CASE LiquidationCloses
  <2>1. cur \in DOMAIN cyc /\ CloseCycle(cur, "EMERGENCY", 0) /\ pc \notin Mid /\ torn' = torn
    BY <1>8 DEF LiquidationCloses, RowsInv, HandInv
  <2>2. Open(cur)
    BY <1>8 DEF LiquidationCloses, RowsInv, HandInv, Open
  <2> QED
    BY <2>1, <2>2, ConfClose
<1>9. ASSUME NEW c \in Configs, NEW k \in DOMAIN cyc, ForceClose(k, c) \/ ForceCloseEmpty(k, c)
      PROVE  ConfInv'
  <2>1. Open(k) /\ pc \notin Mid /\ torn' = torn
    BY <1>9 DEF ForceClose, ForceCloseEmpty, Forcible, Open
  <2> QED
    BY <1>9, <2>1, ConfClose DEF ForceClose, ForceCloseEmpty
<1>10. CASE SetPnl
  <2> DEFINE x == [cyc[cur] EXCEPT !.pnl = TRUE]
  <2>1. cur \in DOMAIN cyc /\ cyc' = [cyc EXCEPT ![cur] = x] /\ conf' = conf /\ torn' = torn
        /\ pc = "pnl" /\ pc' = "release" /\ cur' = cur
    BY <1>10 DEF SetPnl, RowsInv, HandInv
  <2>2. x.config = cyc[cur].config /\ x.alone = cyc[cur].alone /\ x.status = cyc[cur].status
    BY <1>0, <2>1 DEF CycleRow
  <2> HIDE DEF x
  <2> QED
    BY <2>1, <2>2, ConfEdit
<1> QED
  BY <1>1, <1>2, <1>3, <1>4, <1>5, <1>6, <1>7, <1>8, <1>9, <1>10 DEF Drain

LEMMA ConfRun == RowsInv /\ ConfInv /\ Run => ConfInv'
<1> SUFFICES ASSUME RowsInv, ConfInv, Run PROVE ConfInv'
  OBVIOUS
<1>0. \A k \in DOMAIN cyc : cyc[k] \in CycleRow
  BY RowAt DEF RowsInv
<1> USE DEF db, engine, queues, history, Goto, Turn, NextCycle, OnTickDone, Mid
<1>1. CASE Loop \/ StreamEnds \/ TickArrives \/ ReconcileLost \/ TickOver
           \/ \E k \in DOMAIN cyc : RefuseAnchor(k) \/ SkipCycle(k)
  <2>1. cyc' = cyc /\ conf' = conf /\ torn' = torn /\ pc \notin Mid /\ pc' \notin Mid
    BY <1>1 DEF Loop, StreamEnds, TickArrives, ReconcileLost, TickOver, RefuseAnchor,
               SkipCycle
  <2> QED
    BY <2>1, ConfKept
<1>2. ASSUME NEW k \in DOMAIN cyc, BeginAnchor(k) PROVE ConfInv'
  <2> DEFINE x == [cyc[k] EXCEPT !.rows =
                     [n \in 1..Levels |-> IF n \in Has(k) THEN "old" ELSE "none"]]
  <2>1. x.config = cyc[k].config /\ x.alone = cyc[k].alone /\ x.status = cyc[k].status
    BY <1>0 DEF CycleRow
  <2>2. cyc' = [cyc EXCEPT ![k] = x] /\ conf' = conf /\ torn' = torn
        /\ pc \notin Mid /\ pc' \notin Mid
    BY <1>2 DEF BeginAnchor
  <2> HIDE DEF x
  <2> QED
    BY <2>1, <2>2, ConfEdit
<1>3. CASE ConfirmRow
  <2> DEFINE x == [cyc[cur] EXCEPT !.rows = [cyc[cur].rows EXCEPT ![level] = "new"]]
  <2>1. cur \in DOMAIN cyc /\ cyc' = [cyc EXCEPT ![cur] = x] /\ conf' = conf /\ torn' = torn
        /\ pc \notin Mid /\ pc' \notin Mid
    BY <1>3 DEF ConfirmRow, RowsInv, HandInv
  <2>2. x.config = cyc[cur].config /\ x.alone = cyc[cur].alone /\ x.status = cyc[cur].status
    BY <1>0, <2>1 DEF CycleRow
  <2> HIDE DEF x
  <2> QED
    BY <2>1, <2>2, ConfEdit
<1>4. CASE ConfirmAnchor
  <2> DEFINE a == [cyc[cur] EXCEPT !.status = "RUNNING"]
             x == [a EXCEPT !.anchor = TRUE]
  <2>1. cur \in DOMAIN cyc /\ cyc' = [cyc EXCEPT ![cur] = x] /\ conf' = conf /\ torn' = torn
        /\ pc \notin Mid /\ pc' \notin Mid /\ cyc[cur].status = "STARTING"
    BY <1>4 DEF ConfirmAnchor, RowsInv, HandInv
  <2>2. x.config = cyc[cur].config /\ x.alone = cyc[cur].alone /\ x.status = "RUNNING"
    BY <1>0, <2>1 DEF CycleRow
  <2> HIDE DEF x
  <2> QED
    BY <2>1, <2>2, ConfEdit
<1>5. ASSUME NEW k \in DOMAIN cyc, Buy(k) PROVE ConfInv'
  <2> DEFINE x == [cyc[k] EXCEPT !.held = cyc[k].held + 1]
  <2>1. x.config = cyc[k].config /\ x.alone = cyc[k].alone /\ x.status = cyc[k].status
    BY <1>0 DEF CycleRow
  <2>2. cyc' = [cyc EXCEPT ![k] = x] /\ conf' = conf /\ torn' = torn
        /\ pc \notin Mid /\ pc' \notin Mid
    BY <1>5 DEF Buy
  <2> HIDE DEF x
  <2> QED
    BY <2>1, <2>2, ConfEdit
<1>6. ASSUME NEW k \in DOMAIN cyc, Sell(k) PROVE ConfInv'
  <2>1. Open(k) /\ pc \notin Mid /\ torn' = torn /\ CloseCycle(k, "NORMAL", 0)
    BY <1>6 DEF Sell, Open
  <2> QED
    BY <2>1, ConfClose
<1>7. CASE Reconcile
  <2>1. /\ cyc' = [k \in DOMAIN cyc |->
              IF cyc[k].status = "RUNNING" /\ cyc[k].held > account - Baseline
              THEN [cyc[k] EXCEPT !.status = "PAUSED"] ELSE cyc[k]]
        /\ conf' = conf /\ torn' = torn /\ pc' = pc /\ pc \notin Mid
    BY <1>7 DEF Reconcile
  <2>2. ASSUME NEW k \in DOMAIN cyc
        PROVE  /\ cyc'[k].config = cyc[k].config /\ cyc'[k].alone = cyc[k].alone
               /\ cyc'[k].status = "CLOSED" <=> cyc[k].status = "CLOSED"
    BY <1>0, <2>1 DEF CycleRow
  <2> QED
    BY <2>1, <2>2, ConfKept
<1> QED
  BY <1>1, <1>2, <1>3, <1>4, <1>5, <1>6, <1>7 DEF Run

LEMMA ConfNext == RowsInv /\ ConfInv /\ [Next]_vars => ConfInv'
<1> SUFFICES ASSUME RowsInv, ConfInv, [Next]_vars PROVE ConfInv'
  OBVIOUS
<1> USE DEF db, engine, queues, history
<1>0. pc \in Mid => cur \in DOMAIN cyc
  BY DEF RowsInv, HandInv, Mid
<1>1. CASE UNCHANGED vars
  BY <1>0, <1>1, ConfKept DEF vars
<1>2. CASE Send \/ SellByHand
  BY <1>0, <1>2, ConfKept DEF Send, SellByHand
<1>3. CASE Restart
  BY <1>3, ConfKept DEF Restart, Goto, Mid
<1>4. CASE Crash
  <2>1. cyc' = cyc /\ conf' = conf /\ pc' = "down"
        /\ torn' = IF pc \in Mid THEN torn \cup {cyc[cur].config} ELSE torn
    BY <1>4 DEF Crash, Mid
  <2>2. ASSUME NEW c \in Configs
        PROVE  /\ ActiveOf(c)' = ActiveOf(c)
               /\ Crowded(c)' <=> Crowded(c)
               /\ ~Midway(c)'
               /\ c \notin torn' => c \notin torn /\ ~Midway(c)
    BY <2>1 DEF ActiveOf, Active, Open, Crowded, Midway, Mid
  <2>3. SecondsAreMarked'
    BY <2>1 DEF ConfInv, SecondsAreMarked, Open
  <2> QED
    BY <2>1, <2>2, <2>3 DEF ConfInv
<1> QED
  BY <1>1, <1>2, <1>3, <1>4, ConfDrain, ConfRun DEF Next

LEMMA ConfInit == Init => ConfInv
<1> SUFFICES ASSUME Init PROVE ConfInv
  OBVIOUS
<1>1. 1 \in Configs
  BY DeskAssumption DEF Configs
<1>2. pc = "urgent" /\ torn = {} /\ conf \in [Configs -> {"IDLE", "ACTIVE"}]
  BY DEF Init
<1>3. CASE cyc = <<>> /\ conf = [c \in Configs |-> "IDLE"]
  <2>1. SecondsAreMarked /\ \A c \in Configs : ActiveOf(c) = {}
    BY <1>3 DEF SecondsAreMarked, ActiveOf, Active
  <2> QED
    BY <1>2, <1>3, <2>1 DEF ConfInv
<1>4. CASE /\ cyc = <<Anchored(Born(1, TRUE))>>
           /\ conf = [c \in Configs |-> IF c = 1 THEN "ACTIVE" ELSE "IDLE"]
  <2> DEFINE x == Anchored(Born(1, TRUE))
  <2>1. x.config = 1 /\ x.status = "RUNNING"
    BY DEF Anchored, Born
  <2> HIDE DEF x
  <2>2. cyc = <<x>>
    BY <1>4 DEF x
  <2>3. DOMAIN cyc = {1} /\ cyc[1].config = 1 /\ cyc[1].status = "RUNNING"
    BY <2>1, <2>2
  <2>4. \A c \in Configs : ActiveOf(c) = IF c = 1 THEN {1} ELSE {}
    BY <2>3 DEF ActiveOf, Active, Open
  <2>5. SecondsAreMarked
    BY <2>3 DEF SecondsAreMarked
  <2> QED
    BY <1>2, <1>4, <2>4, <2>5 DEF ConfInv
<1> QED
  BY <1>3, <1>4 DEF Init

\* A configuration says ACTIVE exactly while one of its cycles is open, wherever
\* the commands are drained or a tick is waited for: _start_cycle,
\* _close_if_complete and EmergencyHandler._close each keep the two rows together.
\* If the process dies between them, that lasts until one of the three writes the
\* status again; if the configuration is started twice, until the cycles are closed.
THEOREM ConfigSafety == Spec => []ConfigIsHonest
<1>1. ConfInv => ConfigIsHonest
  BY DEF ConfInv, ConfigIsHonest, Midway
<1>2. RowsInv /\ ConfInv /\ [Next]_vars => (RowsInv /\ ConfInv)'
  BY RowsNext, ConfNext
<1> QED
  BY <1>1, <1>2, RowsInit, ConfInit, PTL DEF Spec


---------------------------------------------------------------------------
(* What a row contributes to the books *)

\* The shares an open cycle counts on, those a closed one has left behind, and
\* whether the cycle has had its share.
ClaimOf(x) == IF x.status \notin {"CLOSED", "LIQUIDATING"} THEN x.held ELSE 0
BaseOf(x) == IF x.status = "CLOSED" /\ x.counted THEN x.left ELSE 0
Spent(x) == x.held = 1 \/ x.status = "CLOSED"

SameBooks(x, y) ==
  /\ ClaimOf(y) = ClaimOf(x) /\ BaseOf(y) = BaseOf(x)
  /\ Spent(y) <=> Spent(x)

Claims(rows) == [k \in DOMAIN rows |-> ClaimOf(rows[k])]
Bases(rows) == [k \in DOMAIN rows |-> BaseOf(rows[k])]

LEMMA Weights ==
  ASSUME NEW rows \in Seq(CycleRow)
  PROVE  /\ IsFiniteSet(DOMAIN rows)
         /\ \A k \in DOMAIN rows : Claims(rows)[k] \in Nat /\ Bases(rows)[k] \in Nat
<1>1. DOMAIN rows = 1..Len(rows) /\ Len(rows) \in Nat
  BY LenProperties
<1>2. IsFiniteSet(DOMAIN rows)
  BY <1>1, FS_Interval
<1>3. \A k \in DOMAIN rows : rows[k] \in CycleRow
  BY ElementOfSeq, <1>1
<1>4. \A k \in DOMAIN rows : rows[k].held \in Nat /\ rows[k].left \in Nat
  BY <1>3 DEF CycleRow
<1> QED
  BY <1>2, <1>4 DEF Claims, Bases, ClaimOf, BaseOf

\* The sums of the model run over some of the cycles; the others weigh nothing.
LEMMA BooksAreSums ==
  TypeInv => /\ Claimed = SumFunctionOnSet(Claims(cyc), DOMAIN cyc)
             /\ Baseline = SumFunctionOnSet(Bases(cyc), DOMAIN cyc)
             /\ Claimed \in Nat /\ Baseline \in Nat
<1> SUFFICES ASSUME TypeInv
             PROVE  /\ Claimed = SumFunctionOnSet(Claims(cyc), DOMAIN cyc)
                    /\ Baseline = SumFunctionOnSet(Bases(cyc), DOMAIN cyc)
                    /\ Claimed \in Nat /\ Baseline \in Nat
  OBVIOUS
<1> DEFINE D == DOMAIN cyc
           f == Claims(cyc)
           g == Bases(cyc)
           S == {k \in Active : cyc[k].status # "LIQUIDATING"}
           T == {k \in D : ~Open(k) /\ cyc[k].counted}
           h == [k \in D |-> cyc[k].held]
           l == [k \in D |-> cyc[k].left]
<1>1. IsFiniteSet(D) /\ \A k \in D : f[k] \in Nat /\ g[k] \in Nat
  BY Weights DEF TypeInv
<1>2. S \subseteq D /\ T \subseteq D
  BY DEF Active
<1>3. /\ \A k \in S : h[k] = f[k]
      /\ \A k \in D \ S : f[k] = 0
  BY DEF Active, Open, Claims, ClaimOf
<1>4. /\ \A k \in T : l[k] = g[k]
      /\ \A k \in D \ T : g[k] = 0
  BY DEF Open, Bases, BaseOf
<1>5. Claimed = SumFunctionOnSet(h, S) /\ Baseline = SumFunctionOnSet(l, T)
  BY DEF Claimed, Baseline
<1> HIDE DEF f, g, h, l, S, T, D
<1>6. IsFiniteSet(S) /\ IsFiniteSet(T)
  BY <1>1, <1>2, FS_Subset
<1>7. \A k \in D : f[k] \in Int /\ g[k] \in Int
  BY <1>1
<1>8. SumFunctionOnSet(f, D) = SumFunctionOnSet(f, S)
  BY <1>1, <1>2, <1>3, <1>7, SumWithout
<1>9. SumFunctionOnSet(g, D) = SumFunctionOnSet(g, T)
  BY <1>1, <1>2, <1>4, <1>7, SumWithout
<1>10. SumFunctionOnSet(h, S) = SumFunctionOnSet(f, S)
  BY <1>2, <1>3, <1>6, <1>7, SumSame
<1>11. SumFunctionOnSet(l, T) = SumFunctionOnSet(g, T)
  BY <1>2, <1>4, <1>6, <1>7, SumSame
<1>12. SumFunctionOnSet(f, D) \in Nat /\ SumFunctionOnSet(g, D) \in Nat
  BY <1>1, SumNat
<1> QED
  BY <1>5, <1>8, <1>9, <1>10, <1>11, <1>12 DEF f, g, D

LEMMA BooksWillBeSums ==
  TypeInv' => /\ Claimed' = SumFunctionOnSet(Claims(cyc'), DOMAIN cyc')
              /\ Baseline' = SumFunctionOnSet(Bases(cyc'), DOMAIN cyc')
              /\ Claimed' \in Nat /\ Baseline' \in Nat
<1>1. TypeInv' => (/\ Claimed = SumFunctionOnSet(Claims(cyc), DOMAIN cyc)
                   /\ Baseline = SumFunctionOnSet(Bases(cyc), DOMAIN cyc)
                   /\ Claimed \in Nat /\ Baseline \in Nat)'
  BY BooksAreSums, PTL
<1> QED
  BY <1>1 DEF Claims, Bases, ClaimOf, BaseOf

\* Rows that weigh the same leave the books as they are.
LEMMA BooksSame ==
  ASSUME TypeInv, TypeInv', DOMAIN cyc' = DOMAIN cyc,
         \A k \in DOMAIN cyc : SameBooks(cyc[k], cyc'[k])
  PROVE  Claimed' = Claimed /\ Baseline' = Baseline
<1>1. Claims(cyc') = Claims(cyc) /\ Bases(cyc') = Bases(cyc)
  BY DEF Claims, Bases, SameBooks
<1> QED
  BY <1>1, BooksAreSums, BooksWillBeSums

\* And a new row, or another one in the place of a row, adds its difference.
LEMMA BooksWrite ==
  ASSUME TypeInv, TypeInv', NEW k \in DOMAIN cyc, NEW x \in CycleRow,
         cyc' = [cyc EXCEPT ![k] = x]
  PROVE  /\ Claimed' = Claimed + ClaimOf(x) - ClaimOf(cyc[k])
         /\ Baseline' = Baseline + BaseOf(x) - BaseOf(cyc[k])
<1> DEFINE D == DOMAIN cyc
           f == Claims(cyc)
           g == Bases(cyc)
           p == Claims(cyc')
           q == Bases(cyc')
<1>1. DOMAIN cyc' = D /\ cyc'[k] = x /\ \A j \in D : j # k => cyc'[j] = cyc[j]
  OBVIOUS
<1>2. IsFiniteSet(D) /\ \A j \in D : f[j] \in Nat /\ g[j] \in Nat
  BY Weights DEF TypeInv
<1>3. \A j \in D : p[j] \in Nat /\ q[j] \in Nat
  BY <1>1, Weights DEF TypeInv
<1>4. /\ \A j \in D : j # k => p[j] = f[j] /\ q[j] = g[j]
      /\ p[k] = ClaimOf(x) /\ f[k] = ClaimOf(cyc[k])
      /\ q[k] = BaseOf(x) /\ g[k] = BaseOf(cyc[k]) /\ k \in D
  BY <1>1 DEF Claims, Bases
<1>5. /\ Claimed = SumFunctionOnSet(f, D) /\ Baseline = SumFunctionOnSet(g, D)
      /\ Claimed' = SumFunctionOnSet(p, D) /\ Baseline' = SumFunctionOnSet(q, D)
  BY <1>1, BooksAreSums, BooksWillBeSums
<1> HIDE DEF f, g, p, q, D
<1>6. \A j \in D : f[j] \in Int /\ p[j] \in Int /\ (j # k => p[j] = f[j])
  BY <1>2, <1>3, <1>4
<1>7. \A j \in D : g[j] \in Int /\ q[j] \in Int /\ (j # k => q[j] = g[j])
  BY <1>2, <1>3, <1>4
<1>8. SumFunctionOnSet(p, D) = SumFunctionOnSet(f, D) + p[k] - f[k]
  BY <1>2, <1>4, <1>6, SumChange
<1>9. SumFunctionOnSet(q, D) = SumFunctionOnSet(g, D) + q[k] - g[k]
  BY <1>2, <1>4, <1>7, SumChange
<1> QED
  BY <1>4, <1>5, <1>8, <1>9

LEMMA BooksAppend ==
  ASSUME TypeInv, TypeInv', NEW x \in CycleRow, cyc' = Append(cyc, x),
         ClaimOf(x) = 0, BaseOf(x) = 0
  PROVE  Claimed' = Claimed /\ Baseline' = Baseline
<1> DEFINE D == DOMAIN cyc
           E == DOMAIN cyc'
           f == Claims(cyc)
           g == Bases(cyc)
           p == Claims(cyc')
           q == Bases(cyc')
           n == Len(cyc) + 1
<1>1. E = D \cup {n} /\ n \notin D /\ cyc'[n] = x /\ \A j \in D : cyc'[j] = cyc[j]
  <2>1. cyc \in Seq(CycleRow) /\ D = 1..Len(cyc) /\ Len(cyc) \in Nat
    BY LenProperties DEF TypeInv
  <2>2. /\ Append(cyc, x) \in Seq(CycleRow) /\ Len(Append(cyc, x)) = Len(cyc) + 1
        /\ \A i \in 1..Len(cyc) : Append(cyc, x)[i] = cyc[i]
        /\ Append(cyc, x)[Len(cyc) + 1] = x
    BY <2>1, AppendProperties
  <2>3. E = 1..(Len(cyc) + 1)
    BY <2>2, LenProperties
  <2> QED
    BY <2>1, <2>2, <2>3
<1>2. IsFiniteSet(D) /\ IsFiniteSet(E) /\ \A j \in D : f[j] \in Int /\ g[j] \in Int
  <2>1. IsFiniteSet(D) /\ \A j \in D : f[j] \in Nat /\ g[j] \in Nat
    BY Weights DEF TypeInv
  <2>2. IsFiniteSet(E)
    BY Weights DEF TypeInv
  <2> QED
    BY <2>1, <2>2
<1>3. \A j \in E : p[j] \in Int /\ q[j] \in Int
  <2>1. \A j \in E : p[j] \in Nat /\ q[j] \in Nat
    BY Weights DEF TypeInv
  <2> QED
    BY <2>1
<1>4. /\ \A j \in D : p[j] = f[j] /\ q[j] = g[j]
      /\ \A j \in E \ D : p[j] = 0 /\ q[j] = 0
  BY <1>1 DEF Claims, Bases
<1>5. /\ Claimed = SumFunctionOnSet(f, D) /\ Baseline = SumFunctionOnSet(g, D)
      /\ Claimed' = SumFunctionOnSet(p, E) /\ Baseline' = SumFunctionOnSet(q, E)
  BY BooksAreSums, BooksWillBeSums
<1>6. D \subseteq E
  BY <1>1
<1> HIDE DEF f, g, p, q, D, E
<1>7. SumFunctionOnSet(p, E) = SumFunctionOnSet(p, D)
  BY <1>2, <1>3, <1>4, <1>6, SumWithout
<1>8. SumFunctionOnSet(q, E) = SumFunctionOnSet(q, D)
  BY <1>2, <1>3, <1>4, <1>6, SumWithout
<1>9. SumFunctionOnSet(p, D) = SumFunctionOnSet(f, D)
  BY <1>2, <1>4, SumSame
<1>10. SumFunctionOnSet(q, D) = SumFunctionOnSet(g, D)
  BY <1>2, <1>4, SumSame
<1> QED
  BY <1>5, <1>7, <1>8, <1>9, <1>10

\* No row changes what it contributes.
Kept == DOMAIN cyc' = DOMAIN cyc /\ \A k \in DOMAIN cyc : SameBooks(cyc[k], cyc'[k])

Calm == Kept /\ account' = account /\ strayed' = strayed

LEMMA KeptSame == ASSUME cyc' = cyc PROVE Kept
BY DEF Kept, SameBooks

\* One row is written that weighs the same.
LEMMA KeptOne ==
  ASSUME NEW k \in DOMAIN cyc, NEW x, cyc' = [cyc EXCEPT ![k] = x], SameBooks(cyc[k], x)
  PROVE  Kept
<1>1. /\ DOMAIN cyc' = DOMAIN cyc /\ cyc'[k] = x
      /\ \A j \in DOMAIN cyc : j # k => cyc'[j] = cyc[j]
  OBVIOUS
<1> QED
  BY <1>1 DEF Kept, SameBooks

\* RUNNING and PAUSED weigh the same.
LEMMA KeptStatus ==
  ASSUME RowsInv, NEW from \in {"RUNNING", "PAUSED"}, NEW to \in {"RUNNING", "PAUSED"},
         NEW K, cyc' = [k \in DOMAIN cyc |->
                          IF k \in K /\ cyc[k].status = from
                          THEN [cyc[k] EXCEPT !.status = to] ELSE cyc[k]]
  PROVE  Kept
<1>1. DOMAIN cyc' = DOMAIN cyc
  OBVIOUS
<1>2. ASSUME NEW k \in DOMAIN cyc PROVE SameBooks(cyc[k], cyc'[k])
  <2>1. cyc[k] \in CycleRow
    BY RowAt DEF RowsInv
  <2>2. CASE k \in K /\ cyc[k].status = from
    <3>1. cyc'[k] = [cyc[k] EXCEPT !.status = to]
      BY <2>2
    <3>2. cyc'[k].status = to /\ cyc'[k].held = cyc[k].held
      BY <2>1, <3>1 DEF CycleRow
    <3> QED
      BY <2>2, <3>2 DEF SameBooks, ClaimOf, BaseOf, Spent
  <2>3. CASE ~(k \in K /\ cyc[k].status = from)
    BY <2>3 DEF SameBooks
  <2> QED
    BY <2>2, <2>3
<1> QED
  BY <1>1, <1>2 DEF Kept

LEMMA CalmDrain ==
  ASSUME RowsInv, Drain
  PROVE  \/ Calm
         \/ \E c \in Configs : StartCycle(c) /\ Len(cyc) < MaxCycles
         \/ ResetBaseline \/ \E k \in DOMAIN cyc : BeginLiquidation(k)
         \/ \E n \in 0..(Foreign + MaxCycles) : LiquidationStays(n)
         \/ LiquidationCloses
         \/ \E c \in Configs, k \in DOMAIN cyc : ForceClose(k, c) \/ ForceCloseEmpty(k, c)
<1> USE DEF db, engine, queues, history, Goto, TakeNormal, TakeForce
<1>1. CASE \/ ToNormal \/ Drained \/ Activate \/ Shutdown \/ NothingToLiquidate \/ ReleaseConfig
           \/ \E c \in Configs : ForceFails(c)
           \/ \E c \in Configs \cup {0} : TakeLiquidate(c)
  <2>1. UNCHANGED <<cyc, account, strayed>>
    BY <1>1 DEF ToNormal, Drained, Activate, Shutdown, NothingToLiquidate, ReleaseConfig,
                ForceFails, TakeLiquidate
  <2> QED
    BY <2>1, KeptSame DEF Calm
<1>2. ASSUME NEW c \in Configs, StartCycle(c), ~(Len(cyc) < MaxCycles) PROVE Calm
  <2>1. UNCHANGED <<cyc, account, strayed>>
    BY <1>2 DEF StartCycle
  <2> QED
    BY <2>1, KeptSame DEF Calm
<1>3. ASSUME NEW c \in Configs, NEW op, NEW from \in {"RUNNING", "PAUSED"},
             NEW to \in {"RUNNING", "PAUSED"}, Transition(op, from, to, c)
      PROVE  Calm
  <2> DEFINE K == {k \in DOMAIN cyc : cyc[k].config = c}
  <2>1. /\ cyc' = [k \in DOMAIN cyc |-> IF k \in K /\ cyc[k].status = from
                                      THEN [cyc[k] EXCEPT !.status = to] ELSE cyc[k]]
        /\ UNCHANGED <<account, strayed>>
    BY <1>3 DEF Transition
  <2> HIDE DEF K
  <2> QED
    BY <2>1, KeptStatus DEF Calm
<1>4. CASE SetPnl
  <2> DEFINE x == [cyc[cur] EXCEPT !.pnl = TRUE]
  <2>1. cur \in DOMAIN cyc /\ cyc' = [cyc EXCEPT ![cur] = x] /\ UNCHANGED <<account, strayed>>
    BY <1>4 DEF SetPnl, RowsInv, HandInv
  <2>2. cyc[cur] \in CycleRow
    BY <2>1, RowAt DEF RowsInv
  <2>3. SameBooks(cyc[cur], x)
    BY <2>2 DEF SameBooks, ClaimOf, BaseOf, Spent, CycleRow
  <2> HIDE DEF x
  <2> QED
    BY <2>1, <2>3, KeptOne DEF Calm
<1>5. CASE \E c \in Configs : \/ Transition("pause", "RUNNING", "PAUSED", c)
                              \/ Transition("resume", "PAUSED", "RUNNING", c)
  BY <1>3, <1>5
<1> QED
  BY <1>1, <1>2, <1>4, <1>5 DEF Drain

LEMMA CalmRun ==
  ASSUME RowsInv, Run
  PROVE  Calm \/ \E k \in DOMAIN cyc : Buy(k) \/ Sell(k)
<1> USE DEF db, engine, queues, history, Goto
<1>1. CASE Loop \/ StreamEnds \/ TickArrives \/ ReconcileLost \/ TickOver
           \/ \E k \in DOMAIN cyc : RefuseAnchor(k) \/ SkipCycle(k)
  <2>1. UNCHANGED <<cyc, account, strayed>>
    BY <1>1 DEF Loop, StreamEnds, TickArrives, ReconcileLost, TickOver, RefuseAnchor,
               SkipCycle
  <2> QED
    BY <2>1, KeptSame DEF Calm
<1>2. ASSUME NEW k \in DOMAIN cyc, NEW x, cyc' = [cyc EXCEPT ![k] = x],
             UNCHANGED <<account, strayed>>, x.held = cyc[k].held, x.left = cyc[k].left,
             x.counted = cyc[k].counted,
             \/ x.status = cyc[k].status
             \/ cyc[k].status = "STARTING" /\ x.status = "RUNNING"
      PROVE  Calm
  <2>1. SameBooks(cyc[k], x)
    BY <1>2 DEF SameBooks, ClaimOf, BaseOf, Spent
  <2> QED
    BY <1>2, <2>1, KeptOne DEF Calm
<1>3. ASSUME NEW k \in DOMAIN cyc, BeginAnchor(k) PROVE Calm
  <2> DEFINE x == [cyc[k] EXCEPT !.rows = [n \in 1..Levels |-> IF n \in Has(k) THEN "old" ELSE "none"]]
  <2>1. cyc' = [cyc EXCEPT ![k] = x] /\ UNCHANGED <<account, strayed>>
    BY <1>3 DEF BeginAnchor
  <2>2. cyc[k] \in CycleRow
    BY RowAt DEF RowsInv
  <2>3. /\ x.held = cyc[k].held /\ x.left = cyc[k].left /\ x.counted = cyc[k].counted
        /\ x.status = cyc[k].status
    BY <2>2 DEF CycleRow
  <2> HIDE DEF x
  <2> QED
    BY <1>2, <2>1, <2>3
<1>4. CASE ConfirmRow
  <2> DEFINE x == [cyc[cur] EXCEPT !.rows[level] = "new"]
  <2>1. cur \in DOMAIN cyc /\ cyc' = [cyc EXCEPT ![cur] = x] /\ UNCHANGED <<account, strayed>>
    BY <1>4 DEF ConfirmRow, RowsInv, HandInv
  <2>2. cyc[cur] \in CycleRow
    BY <2>1, RowAt DEF RowsInv
  <2>3. /\ x.held = cyc[cur].held /\ x.left = cyc[cur].left /\ x.counted = cyc[cur].counted
        /\ x.status = cyc[cur].status
    BY <2>2 DEF CycleRow
  <2> HIDE DEF x
  <2> QED
    BY <1>2, <2>1, <2>3
<1>5. CASE ConfirmAnchor
  <2> DEFINE x == [cyc[cur] EXCEPT !.status = "RUNNING", !.anchor = TRUE]
  <2>1. /\ cur \in DOMAIN cyc /\ cyc[cur].status = "STARTING"
        /\ UNCHANGED <<account, strayed>>
    BY <1>5 DEF ConfirmAnchor, RowsInv, HandInv
  <2>2. cyc[cur] \in CycleRow
    BY <2>1, RowAt DEF RowsInv
  <2>3. cyc' = [cyc EXCEPT ![cur] = x]
    BY <1>5, <2>1, <2>2 DEF ConfirmAnchor, CycleRow
  <2>4. /\ x.held = cyc[cur].held /\ x.left = cyc[cur].left /\ x.counted = cyc[cur].counted
        /\ x.status = "RUNNING"
    BY <2>2 DEF CycleRow
  <2> HIDE DEF x
  <2> QED
    BY <1>2, <2>1, <2>3, <2>4
<1>6. CASE Reconcile
  <2> DEFINE K == {k \in DOMAIN cyc : cyc[k].held > account - Baseline}
  <2>1. /\ cyc' = [k \in DOMAIN cyc |-> IF k \in K /\ cyc[k].status = "RUNNING"
                                      THEN [cyc[k] EXCEPT !.status = "PAUSED"] ELSE cyc[k]]
        /\ UNCHANGED <<account, strayed>>
    BY <1>6 DEF Reconcile
  <2> HIDE DEF K
  <2> QED
    BY <2>1, KeptStatus DEF Calm
<1> QED
  BY <1>1, <1>3, <1>4, <1>5, <1>6 DEF Run

\* What a step does to the books: nothing; or shares leave the account; or one of
\* the steps that write what a row contributes.
LEMMA BookSteps ==
  ASSUME RowsInv, [Next]_vars
  PROVE  \/ Calm
         \/ Kept /\ \E n \in Nat : n <= account /\ Take(n, 0)
         \/ \E c \in Configs : StartCycle(c) /\ Len(cyc) < MaxCycles
         \/ ResetBaseline \/ \E k \in DOMAIN cyc : BeginLiquidation(k)
         \/ LiquidationCloses
         \/ \E c \in Configs, k \in DOMAIN cyc : ForceClose(k, c) \/ ForceCloseEmpty(k, c)
         \/ \E k \in DOMAIN cyc : Buy(k) \/ Sell(k)
<1>0. account \in Nat
  BY DEF RowsInv, TypeInv
<1>1. CASE Send \/ Crash \/ Restart \/ UNCHANGED vars
  <2>1. UNCHANGED <<cyc, account, strayed>>
    BY <1>1 DEF Send, Crash, Restart, vars, db, engine, queues, history, Goto
  <2> QED
    BY <2>1, KeptSame DEF Calm
<1>2. CASE SellByHand
  <2>1. cyc' = cyc /\ Take(1, 0) /\ 1 <= account
    BY <1>0, <1>2 DEF SellByHand, db
  <2> QED
    BY <2>1, KeptSame
<1>3. ASSUME NEW n \in 0..(Foreign + MaxCycles), LiquidationStays(n)
      PROVE  Kept /\ \E m \in Nat : m <= account /\ Take(m, 0)
  <2>1. cyc' = cyc /\ Take(n, 0) /\ n <= account /\ n \in Nat
    BY <1>3 DEF LiquidationStays, db
  <2> QED
    BY <2>1, KeptSame
<1>4. CASE Drain
  BY <1>3, <1>4, CalmDrain
<1>5. CASE Run
  BY <1>5, CalmRun
<1> QED
  BY <1>1, <1>2, <1>4, <1>5 DEF Next

---------------------------------------------------------------------------
(* The books and the account *)

LEMMA CloseBooks ==
  ASSUME RowsInv, RowsInv', NEW k \in DOMAIN cyc, Open(k),
         NEW why \in {"NORMAL", "EMERGENCY", "FORCED"}, NEW left \in Nat,
         CloseCycle(k, why, left)
  PROVE  /\ Claimed' = Claimed - ClaimOf(cyc[k])
         /\ Baseline' = Baseline + left
         /\ DOMAIN cyc' = DOMAIN cyc
         /\ Spent(cyc'[k]) /\ \A j \in DOMAIN cyc : j # k => cyc'[j] = cyc[j]
<1> DEFINE x == [cyc[k] EXCEPT !.status = "CLOSED", !.reason = why, !.left = left,
                               !.counted = TRUE, !.held = 0]
<1>1. cyc[k] \in CycleRow /\ cyc' = [cyc EXCEPT ![k] = x] /\ TypeInv /\ TypeInv'
  BY RowAt DEF RowsInv, CloseCycle
<1>2. x \in CycleRow
  BY <1>1, ClosedRow
<1>3. x.status = "CLOSED" /\ x.left = left /\ x.counted
  BY <1>1 DEF CycleRow
<1>4. ClaimOf(x) = 0 /\ BaseOf(x) = left /\ BaseOf(cyc[k]) = 0 /\ Spent(x)
  BY <1>3 DEF ClaimOf, BaseOf, Open, Spent
<1>5. ClaimOf(cyc[k]) \in Nat
  BY <1>1 DEF ClaimOf, CycleRow
<1> HIDE DEF x
<1>6. /\ Claimed' = Claimed + ClaimOf(x) - ClaimOf(cyc[k])
      /\ Baseline' = Baseline + BaseOf(x) - BaseOf(cyc[k])
  BY <1>1, <1>2, BooksWrite
<1>7. Claimed \in Nat /\ Baseline \in Nat
  BY <1>1, BooksAreSums
<1> QED
  BY <1>1, <1>4, <1>5, <1>6, <1>7

BooksInv == strayed \in BOOLEAN /\ BooksBalance

LEMMA BooksInit == Init => BooksInv
<1> SUFFICES ASSUME Init PROVE BooksInv
  OBVIOUS
<1>1. TypeInv
  BY RowsInit DEF RowsInv
<1> DEFINE f == Claims(cyc)
           g == Bases(cyc)
           D == DOMAIN cyc
<1>2. IsFiniteSet(D)
  BY <1>1, Weights DEF TypeInv
<1>3. \A k \in D : f[k] = 0 /\ g[k] = 0
  <2>1. CASE cyc = <<>>
    BY <2>1
  <2>2. CASE cyc = <<Anchored(Born(1, TRUE))>>
    <3> DEFINE x == Anchored(Born(1, TRUE))
    <3>1. \A k \in DOMAIN cyc : cyc[k] = x
      <4>1. cyc = <<x>>
        BY <2>2
      <4> HIDE DEF x
      <4> QED
        BY <4>1
    <3>2. Anchored(Born(1, TRUE)).held = 0 /\ Anchored(Born(1, TRUE)).status = "RUNNING"
      BY DEF Anchored, Born
    <3> QED
      BY <3>1, <3>2 DEF Claims, Bases, ClaimOf, BaseOf
  <2> QED
    BY <2>1, <2>2 DEF Init
<1>4. Claimed = SumFunctionOnSet(f, D) /\ Baseline = SumFunctionOnSet(g, D)
  BY <1>1, BooksAreSums
<1> HIDE DEF f, g, D
<1>5. SumFunctionOnSet(f, D) = 0 /\ SumFunctionOnSet(g, D) = 0
  BY <1>2, <1>3, SumZero
<1> QED
  <2>1. Claimed = 0 /\ Baseline = 0
    BY <1>4, <1>5
  <2>2. strayed = FALSE /\ account = Foreign /\ Foreign \in Nat
    BY DeskAssumption DEF Init
  <2>3. Free >= 0
    BY <2>1, <2>2 DEF Free
  <2> QED
    BY <2>2, <2>3 DEF BooksInv, BooksBalance

LEMMA BooksNext == RowsInv /\ RowsInv' /\ BooksInv /\ [Next]_vars => BooksInv'
<1> SUFFICES ASSUME RowsInv, RowsInv', BooksInv, [Next]_vars PROVE BooksInv'
  OBVIOUS
<1>0. /\ TypeInv /\ TypeInv' /\ account \in Nat /\ account' \in Nat
      /\ Claimed \in Nat /\ Baseline \in Nat /\ Claimed' \in Nat /\ Baseline' \in Nat
      /\ strayed \in BOOLEAN /\ (strayed \/ Free >= 0)
  BY BooksAreSums, BooksWillBeSums DEF RowsInv, TypeInv, BooksInv, BooksBalance
<1>1. /\ Free = account - Claimed - Baseline /\ Free \in Int
      /\ Free' = account' - Claimed' - Baseline'
  BY <1>0 DEF Free
<1>2. SUFFICES strayed' \in BOOLEAN /\ (strayed' \/ Free' >= 0)
  BY DEF BooksInv, BooksBalance
<1>3. ASSUME NEW n \in Nat, NEW own \in Nat, Take(n, own),
             Claimed' + Baseline' <= Claimed + Baseline - own
      PROVE  strayed' \in BOOLEAN /\ (strayed' \/ Free' >= 0)
  <2>1. account' = account - n /\ strayed' = (strayed \/ n > own + Free)
    BY <1>3 DEF Take
  <2>2. ASSUME ~(n > own + Free) PROVE Free' >= 0
    <3>1. n \in Nat /\ own \in Nat /\ n <= own + Free /\ account' = account - n
      BY <1>1, <2>1, <2>2
    <3>2. Claimed' + Baseline' <= Claimed + Baseline - own
      BY <1>3
    <3> DEFINE a == account  b == account'  p == Claimed  q == Claimed'
               r == Baseline  t == Baseline'  m == Free
    <3>3. /\ a \in Nat /\ b \in Nat /\ p \in Nat /\ q \in Nat /\ r \in Nat /\ t \in Nat
          /\ m \in Int /\ m = a - p - r
      BY <1>0, <1>1
    <3>4. n <= own + m /\ b = a - n /\ q + t <= p + r - own
      BY <3>1, <3>2
    <3>5. Free' = b - q - t
      BY <1>1
    <3> HIDE DEF a, b, p, q, r, t, m
    <3>6. b - q - t >= 0
      BY <3>3, <3>4
    <3> QED
      BY <3>5, <3>6
  <2> QED
    BY <1>0, <2>1, <2>2
<1>4. CASE Calm
  <2>1. Claimed' = Claimed /\ Baseline' = Baseline
    BY <1>0, <1>4, BooksSame DEF Calm, Kept
  <2> QED
    BY <1>0, <1>1, <1>4, <2>1 DEF Calm
<1>5. ASSUME Kept, NEW n \in Nat, Take(n, 0) PROVE strayed' \in BOOLEAN /\ (strayed' \/ Free' >= 0)
  <2>1. Claimed' = Claimed /\ Baseline' = Baseline
    BY <1>0, <1>5, BooksSame DEF Kept
  <2>2. Claimed' + Baseline' <= Claimed + Baseline - 0
    BY <1>0, <2>1
  <2>3. 0 \in Nat
    OBVIOUS
  <2> QED
    BY <1>3, <1>5, <2>2, <2>3
<1>6. ASSUME NEW c \in Configs, StartCycle(c), Len(cyc) < MaxCycles
      PROVE  strayed' \in BOOLEAN /\ (strayed' \/ Free' >= 0)
  <2> DEFINE x == Born(c, ActiveOf(c) = {})
  <2>1. x \in CycleRow
    BY BornRow
  <2>2. ClaimOf(x) = 0 /\ BaseOf(x) = 0
    BY DEF Born, ClaimOf, BaseOf
  <2>3. cyc' = Append(cyc, x) /\ UNCHANGED <<account, strayed>>
    BY <1>6 DEF StartCycle, TakeNormal
  <2> HIDE DEF x
  <2>4. Claimed' = Claimed /\ Baseline' = Baseline
    BY <1>0, <2>1, <2>2, <2>3, BooksAppend
  <2> QED
    BY <1>0, <1>1, <2>3, <2>4
<1>7. CASE ResetBaseline
  <2>1. /\ cyc' = [k \in DOMAIN cyc |-> [cyc[k] EXCEPT !.counted = FALSE]]
        /\ strayed' = (Claimed > account) /\ account' = account
    BY <1>7 DEF ResetBaseline, TakeNormal
  <2>2. ASSUME NEW k \in DOMAIN cyc
        PROVE  ClaimOf(cyc'[k]) = ClaimOf(cyc[k]) /\ BaseOf(cyc'[k]) = 0
    <3>1. cyc[k] \in CycleRow
      BY RowAt DEF RowsInv
    <3>2. /\ cyc'[k].status = cyc[k].status /\ cyc'[k].held = cyc[k].held
          /\ cyc'[k].counted = FALSE
      BY <2>1, <3>1 DEF CycleRow
    <3> QED
      BY <3>2 DEF ClaimOf, BaseOf
  <2>3. DOMAIN cyc' = DOMAIN cyc
    BY <2>1
  <2>4. Claimed' = Claimed
    <3>1. Claims(cyc') = Claims(cyc)
      BY <2>2, <2>3 DEF Claims
    <3> QED
      BY <1>0, <2>3, <3>1, BooksAreSums, BooksWillBeSums
  <2>5. Baseline' = 0
    <3> DEFINE g == Bases(cyc')
               D == DOMAIN cyc'
    <3>1. \A k \in D : g[k] = 0
      BY <2>2, <2>3 DEF Bases
    <3>2. IsFiniteSet(D)
      BY <1>0, Weights DEF TypeInv
    <3>3. Baseline' = SumFunctionOnSet(g, D)
      BY <1>0, BooksWillBeSums
    <3> HIDE DEF g, D
    <3> QED
      BY <3>1, <3>2, <3>3, SumZero
  <2>6. ~(Claimed > account) => Free' >= 0
    BY <1>0, <1>1, <2>1, <2>4, <2>5
  <2>7. strayed' \in BOOLEAN
    <3>1. CASE Claimed > account
      BY <2>1, <3>1
    <3>2. CASE ~(Claimed > account)
      BY <2>1, <3>2
    <3> QED
      BY <3>1, <3>2
  <2>8. ~strayed' => Free' >= 0
    BY <2>1, <2>6
  <2> QED
    BY <2>7, <2>8
<1>8. ASSUME NEW k \in DOMAIN cyc, BeginLiquidation(k)
      PROVE  strayed' \in BOOLEAN /\ (strayed' \/ Free' >= 0)
  <2> DEFINE x == [cyc[k] EXCEPT !.status = "LIQUIDATING"]
  <2>1. /\ cyc' = [cyc EXCEPT ![k] = x] /\ UNCHANGED <<account, strayed>>
        /\ cyc[k].status # "CLOSED" /\ cyc[k] \in CycleRow
    BY <1>8, RowAt DEF BeginLiquidation, IsFirst, ActiveOf, Active, Open, history, RowsInv
  <2>2. x \in CycleRow /\ x.status = "LIQUIDATING"
    <3>1. x \in CycleRow
      BY <2>1, Fields
    <3> QED
      BY <2>1, <3>1 DEF CycleRow
  <2>3. ClaimOf(x) = 0 /\ BaseOf(x) = 0 /\ BaseOf(cyc[k]) = 0 /\ ClaimOf(cyc[k]) \in Nat
    BY <2>1, <2>2 DEF ClaimOf, BaseOf, CycleRow
  <2> HIDE DEF x
  <2>4. /\ Claimed' = Claimed + ClaimOf(x) - ClaimOf(cyc[k])
        /\ Baseline' = Baseline + BaseOf(x) - BaseOf(cyc[k])
    BY <1>0, <2>1, <2>2, BooksWrite
  <2> QED
    BY <1>0, <1>1, <2>1, <2>3, <2>4
<1>9. CASE LiquidationCloses
  <2>1. /\ cur \in DOMAIN cyc /\ cyc[cur].status = "LIQUIDATING" /\ Open(cur)
        /\ CloseCycle(cur, "EMERGENCY", 0) /\ Take(account, 0)
    BY <1>9 DEF LiquidationCloses, RowsInv, HandInv, Open
  <2>2. ClaimOf(cyc[cur]) = 0
    BY <2>1 DEF ClaimOf
  <2>3. Claimed' = Claimed - ClaimOf(cyc[cur]) /\ Baseline' = Baseline + 0
    BY <2>1, CloseBooks
  <2>4. Claimed' + Baseline' <= Claimed + Baseline - 0
    BY <1>0, <2>2, <2>3
  <2>5. 0 \in Nat
    OBVIOUS
  <2> QED
    BY <1>0, <1>3, <2>1, <2>4, <2>5
<1>10. ASSUME NEW c \in Configs, NEW k \in DOMAIN cyc, ForceClose(k, c)
       PROVE  strayed' \in BOOLEAN /\ (strayed' \/ Free' >= 0)
  <2>1. /\ cyc[k].status = "LIQUIDATING" /\ Open(k) /\ CloseCycle(k, "FORCED", account)
        /\ account' = account /\ strayed' = (strayed \/ Claimed + Baseline > 0)
    BY <1>10 DEF ForceClose, Forcible, Open, TakeForce
  <2>2. ClaimOf(cyc[k]) = 0
    BY <2>1 DEF ClaimOf
  <2>3. Claimed' = Claimed - ClaimOf(cyc[k]) /\ Baseline' = Baseline + account
    BY <1>0, <2>1, CloseBooks
  <2>4. ~(Claimed + Baseline > 0) => Free' >= 0
    BY <1>0, <1>1, <2>1, <2>2, <2>3
  <2> QED
    BY <1>0, <2>1, <2>4
<1>11. ASSUME NEW c \in Configs, NEW k \in DOMAIN cyc, ForceCloseEmpty(k, c)
       PROVE  strayed' \in BOOLEAN /\ (strayed' \/ Free' >= 0)
  <2>1. /\ cyc[k].status = "LIQUIDATING" /\ Open(k) /\ CloseCycle(k, "EMERGENCY", 0)
        /\ account' = account /\ strayed' = strayed
    BY <1>11 DEF ForceCloseEmpty, Forcible, Open, TakeForce
  <2>2. ClaimOf(cyc[k]) = 0
    BY <2>1 DEF ClaimOf
  <2>3. Claimed' = Claimed - ClaimOf(cyc[k]) /\ Baseline' = Baseline + 0
    BY <1>0, <2>1, CloseBooks
  <2> QED
    BY <1>0, <1>1, <2>1, <2>2, <2>3
<1>12. ASSUME NEW k \in DOMAIN cyc, Buy(k)
       PROVE  strayed' \in BOOLEAN /\ (strayed' \/ Free' >= 0)
  <2> DEFINE x == [cyc[k] EXCEPT !.held = 1]
  <2>1. /\ cyc[k].status = "RUNNING" /\ cyc[k].held = 0 /\ cyc[k] \in CycleRow
        /\ account' = account + 1 /\ strayed' = strayed
    BY <1>12, RowAt DEF Buy, RowsInv, history
  <2>2. cyc' = [cyc EXCEPT ![k] = x]
    BY <1>12, <2>1 DEF Buy, CycleRow
  <2>3. x \in CycleRow /\ x.status = "RUNNING" /\ x.held = 1
    <3>1. 1 \in 0..1
      OBVIOUS
    <3>2. x \in CycleRow
      BY <2>1, <3>1, Fields
    <3> QED
      BY <2>1, <3>2 DEF CycleRow
  <2>4. ClaimOf(x) = 1 /\ BaseOf(x) = 0 /\ BaseOf(cyc[k]) = 0 /\ ClaimOf(cyc[k]) = 0
    BY <2>1, <2>3 DEF ClaimOf, BaseOf
  <2> HIDE DEF x
  <2>5. /\ Claimed' = Claimed + ClaimOf(x) - ClaimOf(cyc[k])
        /\ Baseline' = Baseline + BaseOf(x) - BaseOf(cyc[k])
    BY <1>0, <2>2, <2>3, BooksWrite
  <2> QED
    BY <1>0, <1>1, <2>1, <2>4, <2>5
<1>13. ASSUME NEW k \in DOMAIN cyc, Sell(k)
       PROVE  strayed' \in BOOLEAN /\ (strayed' \/ Free' >= 0)
  <2>1. /\ cyc[k].status = "RUNNING" /\ cyc[k].held = 1 /\ Open(k)
        /\ CloseCycle(k, "NORMAL", 0) /\ Take(1, 1)
    BY <1>13 DEF Sell, Open
  <2>2. ClaimOf(cyc[k]) = 1
    BY <2>1 DEF ClaimOf
  <2>3. Claimed' = Claimed - ClaimOf(cyc[k]) /\ Baseline' = Baseline + 0
    BY <2>1, CloseBooks
  <2>4. Claimed' + Baseline' <= Claimed + Baseline - 1
    BY <1>0, <2>2, <2>3
  <2>5. 1 \in Nat
    OBVIOUS
  <2> QED
    BY <1>3, <2>1, <2>4, <2>5
<1> QED
  BY <1>4, <1>5, <1>6, <1>7, <1>8, <1>9, <1>10, <1>11, <1>12, <1>13, BookSteps

\* What the open cycles and the baseline count on is in the account, unless shares
\* were taken that another one counts on: for every number of configurations,
\* cycles, commands and sessions, and wherever the process dies.
THEOREM BooksSafety == Spec => []BooksBalance
<1>1. BooksInv => BooksBalance
  BY DEF BooksInv
<1>2. Spec => []RowsInv
  BY RowsInit, RowsNext, PTL DEF Spec
<1>3. Spec => []BooksInv
  BY <1>2, BooksInit, BooksNext, PTL DEF Spec
<1> QED
  BY <1>1, <1>3, PTL

---------------------------------------------------------------------------
(* The bounds of the model hold *)

\* The cycles that have had their share: each buys one, once.
SpentIds == {k \in DOMAIN cyc : Spent(cyc[k])}

RoomInv == Len(cyc) <= MaxCycles /\ account <= Foreign + Cardinality(SpentIds)

LEMMA SpentCount ==
  TypeInv => /\ IsFiniteSet(SpentIds) /\ Cardinality(SpentIds) \in Nat
             /\ Len(cyc) \in Nat /\ DOMAIN cyc = 1..Len(cyc)
             /\ Cardinality(SpentIds) <= Len(cyc)
<1> SUFFICES ASSUME TypeInv
             PROVE  /\ IsFiniteSet(SpentIds) /\ Cardinality(SpentIds) \in Nat
                    /\ Len(cyc) \in Nat /\ DOMAIN cyc = 1..Len(cyc)
                    /\ Cardinality(SpentIds) <= Len(cyc)
  OBVIOUS
<1>1. Len(cyc) \in Nat /\ DOMAIN cyc = 1..Len(cyc)
  BY LenProperties DEF TypeInv
<1>2. SpentIds \subseteq 1..Len(cyc)
  BY <1>1 DEF SpentIds
<1>3. IsFiniteSet(1..Len(cyc)) /\ Cardinality(1..Len(cyc)) = Len(cyc)
  <2> DEFINE n == Len(cyc)
  <2>1. n \in Nat /\ 1 \in Int /\ n \in Int
    BY <1>1
  <2> HIDE DEF n
  <2>2. IsFiniteSet(1..n) /\ Cardinality(1..n) = IF 1 > n THEN 0 ELSE n - 1 + 1
    BY <2>1, FS_Interval
  <2>3. Cardinality(1..n) = n
    BY <2>1, <2>2
  <2> QED
    BY <2>2, <2>3 DEF n
<1>4. IsFiniteSet(SpentIds) /\ Cardinality(SpentIds) <= Cardinality(1..Len(cyc))
  BY <1>2, <1>3, FS_Subset
<1> QED
  BY <1>1, <1>3, <1>4, FS_CardinalityType

LEMMA SpentCountNext ==
  TypeInv' => /\ IsFiniteSet(SpentIds') /\ Cardinality(SpentIds') \in Nat
              /\ Len(cyc') \in Nat /\ DOMAIN cyc' = 1..Len(cyc')
              /\ SpentIds' = {k \in DOMAIN cyc' : Spent(cyc'[k])}
<1>1. TypeInv' => (/\ IsFiniteSet(SpentIds) /\ Cardinality(SpentIds) \in Nat
                   /\ Len(cyc) \in Nat /\ DOMAIN cyc = 1..Len(cyc)
                   /\ Cardinality(SpentIds) <= Len(cyc))'
  BY SpentCount, PTL
<1>2. SpentIds' = {k \in DOMAIN cyc' : Spent(cyc'[k])}
  BY DEF SpentIds, Spent
<1> QED
  BY <1>1, <1>2

\* A step that lets no share in, and takes none of its cycles back from what has
\* had its share.
LEMMA RoomKept ==
  ASSUME TypeInv, TypeInv', RoomInv, DOMAIN cyc' = DOMAIN cyc,
         \A k \in DOMAIN cyc : Spent(cyc[k]) => Spent(cyc'[k]), account' <= account
  PROVE  RoomInv'
<1> DEFINE S == SpentIds
           T == SpentIds'
<1>1. /\ IsFiniteSet(T) /\ Cardinality(T) \in Nat /\ Cardinality(S) \in Nat
      /\ S \subseteq T
  <2>1. IsFiniteSet(T) /\ Cardinality(T) \in Nat /\ Cardinality(S) \in Nat
    BY SpentCount, SpentCountNext
  <2>2. S \subseteq T
    BY SpentCountNext DEF SpentIds
  <2> QED
    BY <2>1, <2>2
<1>2. Len(cyc') = Len(cyc)
  <2>1. Len(cyc) \in Nat /\ Len(cyc') \in Nat /\ 1..Len(cyc') = 1..Len(cyc)
    BY SpentCount, SpentCountNext
  <2> DEFINE a == Len(cyc)
             b == Len(cyc')
  <2>2. a \in Nat /\ b \in Nat /\ 1..b = 1..a
    BY <2>1
  <2> HIDE DEF a, b
  <2>3. a = b
    BY <2>2
  <2> QED
    BY <2>3 DEF a, b
<1>3. account \in Nat /\ account' \in Nat /\ account <= Foreign + Cardinality(S) /\ Foreign \in Nat
      /\ Len(cyc) <= MaxCycles
  BY DeskAssumption DEF TypeInv, RoomInv
<1>4. RoomInv' <=> (Len(cyc') <= MaxCycles /\ account' <= Foreign + Cardinality(T))
  BY DEF RoomInv
<1> HIDE DEF S, T
<1>5. Cardinality(S) <= Cardinality(T)
  BY <1>1, FS_Subset
<1>6. account' <= Foreign + Cardinality(T)
  BY <1>1, <1>3, <1>5
<1> QED
  BY <1>2, <1>3, <1>4, <1>6

LEMMA RoomNext == RowsInv /\ RowsInv' /\ RoomInv /\ [Next]_vars => RoomInv'
<1> SUFFICES ASSUME RowsInv, RowsInv', RoomInv, [Next]_vars PROVE RoomInv'
  OBVIOUS
<1>0. TypeInv /\ TypeInv' /\ account \in Nat /\ account' \in Nat
  BY DEF RowsInv, TypeInv
<1>1. ASSUME Kept, account' <= account PROVE RoomInv'
  BY <1>0, <1>1, RoomKept DEF Kept, SameBooks
<1>2. CASE Calm
  <2>1. account' <= account
    BY <1>0, <1>2 DEF Calm
  <2> QED
    BY <1>1, <1>2, <2>1 DEF Calm
<1>3. ASSUME Kept, NEW n \in Nat, Take(n, 0) PROVE RoomInv'
  <2>1. account' <= account
    BY <1>0, <1>3 DEF Take
  <2> QED
    BY <1>1, <1>3, <2>1
<1>4. ASSUME NEW c \in Configs, StartCycle(c), Len(cyc) < MaxCycles PROVE RoomInv'
  <2> DEFINE x == Born(c, ActiveOf(c) = {})
             n == Len(cyc)
  <2>1. x \in CycleRow
    BY BornRow
  <2>2. ~Spent(x)
    BY DEF Born, Spent
  <2>3. cyc' = Append(cyc, x) /\ account' = account
    BY <1>4 DEF StartCycle, TakeNormal
  <2>4. cyc \in Seq(CycleRow) /\ n \in Nat /\ DOMAIN cyc = 1..n
    BY <1>0, LenProperties DEF TypeInv
  <2> HIDE DEF x
  <2>5. /\ Len(cyc') = n + 1 /\ cyc'[n + 1] = x
        /\ \A i \in 1..n : cyc'[i] = cyc[i]
    BY <2>1, <2>3, <2>4, AppendProperties
  <2>6. DOMAIN cyc' = 1..(n + 1)
    BY <1>0, <2>5, SpentCountNext
  <2>7. SpentIds' = SpentIds
    <3>1. SpentIds' = {k \in DOMAIN cyc' : Spent(cyc'[k])}
      BY <1>0, SpentCountNext
    <3>2. SpentIds' = {k \in 1..n : Spent(cyc'[k])}
      BY <2>2, <2>4, <2>5, <2>6, <3>1
    <3>3. {k \in 1..n : Spent(cyc'[k])} = {k \in 1..n : Spent(cyc[k])}
      BY <2>5
    <3> QED
      BY <2>4, <3>2, <3>3 DEF SpentIds
  <2>8. n + 1 <= MaxCycles
    BY <1>4, <2>4, DeskAssumption
  <2> QED
    BY <2>3, <2>5, <2>7, <2>8 DEF RoomInv
<1>5. CASE ResetBaseline
  <2>1. cyc' = [k \in DOMAIN cyc |-> [cyc[k] EXCEPT !.counted = FALSE]] /\ account' = account
    BY <1>5 DEF ResetBaseline, TakeNormal
  <2>2. \A k \in DOMAIN cyc : cyc[k] \in CycleRow
    BY <1>0, RowAt
  <2>3. ASSUME NEW k \in DOMAIN cyc PROVE Spent(cyc[k]) => Spent(cyc'[k])
    BY <2>1, <2>2 DEF CycleRow, Spent
  <2>4. DOMAIN cyc' = DOMAIN cyc /\ account' <= account
    BY <1>0, <2>1
  <2> QED
    BY <1>0, <2>3, <2>4, RoomKept
<1>6. ASSUME NEW k \in DOMAIN cyc, BeginLiquidation(k) PROVE RoomInv'
  <2> DEFINE x == [cyc[k] EXCEPT !.status = "LIQUIDATING"]
  <2>1. /\ cyc' = [cyc EXCEPT ![k] = x] /\ account' = account
        /\ cyc[k].status # "CLOSED" /\ cyc[k] \in CycleRow
    BY <1>0, <1>6, RowAt DEF BeginLiquidation, IsFirst, ActiveOf, Active, Open, history
  <2>2. Spent(cyc[k]) => Spent(x)
    BY <2>1 DEF CycleRow, Spent
  <2> HIDE DEF x
  <2>3. DOMAIN cyc' = DOMAIN cyc /\ account' <= account
        /\ \A j \in DOMAIN cyc : Spent(cyc[j]) => Spent(cyc'[j])
    BY <1>0, <2>1, <2>2
  <2> QED
    BY <1>0, <2>3, RoomKept
<1>7. ASSUME NEW k \in DOMAIN cyc, NEW why \in {"NORMAL", "EMERGENCY", "FORCED"},
             NEW left \in Nat, Open(k), CloseCycle(k, why, left), account' <= account
      PROVE  RoomInv'
  <2>1. /\ DOMAIN cyc' = DOMAIN cyc /\ Spent(cyc'[k])
        /\ \A j \in DOMAIN cyc : j # k => cyc'[j] = cyc[j]
    BY <1>7, CloseBooks
  <2>2. \A j \in DOMAIN cyc : Spent(cyc[j]) => Spent(cyc'[j])
    BY <2>1
  <2> QED
    BY <1>0, <1>7, <2>1, <2>2, RoomKept
<1>8. CASE LiquidationCloses
  <2>1. /\ cur \in DOMAIN cyc /\ Open(cur) /\ CloseCycle(cur, "EMERGENCY", 0)
        /\ account' = account - account /\ 0 \in Nat
    BY <1>8 DEF LiquidationCloses, RowsInv, HandInv, Open, Take
  <2>2. account' <= account
    BY <1>0, <2>1
  <2> QED
    BY <1>7, <2>1, <2>2
<1>9. ASSUME NEW c \in Configs, NEW k \in DOMAIN cyc, ForceClose(k, c) \/ ForceCloseEmpty(k, c)
      PROVE  RoomInv'
  <2>1. Open(k) /\ account' = account /\ 0 \in Nat
        /\ (CloseCycle(k, "FORCED", account) \/ CloseCycle(k, "EMERGENCY", 0))
    BY <1>9 DEF ForceClose, ForceCloseEmpty, Forcible, Open, TakeForce
  <2>2. account' <= account
    BY <1>0, <2>1
  <2> QED
    BY <1>0, <1>7, <2>1, <2>2
<1>10. ASSUME NEW k \in DOMAIN cyc, Buy(k) PROVE RoomInv'
  <2> DEFINE x == [cyc[k] EXCEPT !.held = @ + 1]
             S == SpentIds
             T == SpentIds'
  <2>1. /\ cyc[k].status = "RUNNING" /\ cyc[k].held = 0 /\ cyc[k] \in CycleRow
        /\ account' = account + 1 /\ cyc' = [cyc EXCEPT ![k] = x]
    BY <1>0, <1>10, RowAt DEF Buy
  <2>2. Spent(x) /\ ~Spent(cyc[k])
    BY <2>1 DEF CycleRow, Spent
  <2> HIDE DEF x
  <2>3. DOMAIN cyc' = DOMAIN cyc /\ cyc'[k] = x /\ \A j \in DOMAIN cyc : j # k => cyc'[j] = cyc[j]
    BY <2>1
  <2>4. T = S \cup {k} /\ k \notin S
    <3>1. T = {j \in DOMAIN cyc : Spent(cyc'[j])}
      BY <1>0, <2>3, SpentCountNext
    <3> QED
      BY <2>2, <2>3, <3>1 DEF SpentIds
  <2>5. IsFiniteSet(S) /\ Cardinality(S) \in Nat /\ Len(cyc) \in Nat /\ Len(cyc') \in Nat
    BY <1>0, SpentCount, SpentCountNext
  <2>6. Len(cyc') = Len(cyc)
    <3> DEFINE a == Len(cyc)
               b == Len(cyc')
    <3>1. a \in Nat /\ b \in Nat /\ 1..b = 1..a
      BY <1>0, <2>3, <2>5, SpentCount, SpentCountNext
    <3> HIDE DEF a, b
    <3>2. a = b
      BY <3>1
    <3> QED
      BY <3>2 DEF a, b
  <2>7. account <= Foreign + Cardinality(S) /\ Foreign \in Nat /\ Len(cyc) <= MaxCycles
    BY DeskAssumption DEF RoomInv
  <2>8. RoomInv' <=> (Len(cyc') <= MaxCycles /\ account' <= Foreign + Cardinality(T))
    BY DEF RoomInv
  <2> HIDE DEF S, T
  <2>9. Cardinality(T) = Cardinality(S) + 1
    BY <2>4, <2>5, FS_AddElement
  <2>10. account' <= Foreign + Cardinality(T)
    BY <1>0, <2>1, <2>5, <2>7, <2>9
  <2> QED
    BY <2>6, <2>7, <2>8, <2>10
<1>11. ASSUME NEW k \in DOMAIN cyc, Sell(k) PROVE RoomInv'
  <2>1. Open(k) /\ CloseCycle(k, "NORMAL", 0) /\ account' = account - 1 /\ 0 \in Nat
    BY <1>11 DEF Sell, Open, Take
  <2>2. account' <= account
    BY <1>0, <2>1
  <2> QED
    BY <1>7, <2>1, <2>2
<1> QED
  BY <1>2, <1>3, <1>4, <1>5, <1>6, <1>8, <1>9, <1>10, <1>11, BookSteps

LEMMA RoomInit == Init => RoomInv
<1> SUFFICES ASSUME Init PROVE RoomInv
  OBVIOUS
<1>1. TypeInv
  BY RowsInit DEF RowsInv
<1>2. Len(cyc) <= MaxCycles
  <2>1. CASE cyc = <<>>
    BY <2>1, DeskAssumption
  <2>2. CASE cyc = <<Anchored(Born(1, TRUE))>>
    <3> DEFINE x == Anchored(Born(1, TRUE))
    <3>1. cyc = <<x>>
      BY <2>2
    <3> HIDE DEF x
    <3> QED
      BY <3>1, DeskAssumption
  <2> QED
    BY <2>1, <2>2 DEF Init
<1>3. account = Foreign /\ Foreign \in Nat /\ Cardinality(SpentIds) \in Nat
  BY <1>1, SpentCount, DeskAssumption DEF Init
<1> QED
  BY <1>2, <1>3 DEF RoomInv

---------------------------------------------------------------------------
(* The types of the rest *)

Work == 1..(MaxCycles + MaxConfigs)

CellsInv ==
  /\ stopped \in BOOLEAN /\ ticking \in BOOLEAN
  /\ cmds \in Seq(Normal)
  /\ todo \in Seq(Work) /\ (pc = "anchor" => todo # <<>>)
  /\ cur \in DOMAIN cyc \cup {0} /\ torn \subseteq Configs

\* What on_tick walks, and liquidate_all: cycles that are there, of configurations
\* that are there.
LEMMA WorkLists ==
  ASSUME TypeInv, Len(cyc) <= MaxCycles
  PROVE  /\ Loading \in Seq(Work)
         /\ [i \in DOMAIN Loading |-> cyc[Loading[i]].config] \in Seq(Work)
<1> DEFINE n == Len(cyc)
           c == Cardinality(Active)
<1>1. n \in Nat /\ DOMAIN cyc = 1..n
  BY SpentCount
<1>2. Active \subseteq 1..n
  BY <1>1 DEF Active
<1>3. c \in Nat
  <2>1. IsFiniteSet(1..n)
    BY <1>1, FS_Interval
  <2> QED
    BY <1>2, <2>1, FS_Subset, FS_CardinalityType
<1>4. Loading \in Increasing(Active)
  <2>1. Increasing(Active) # {}
    BY <1>1, <1>2, Enumeration
  <2> QED
    BY <2>1 DEF Loading, Increasing
<1>5. Loading \in [1..c -> Active]
  BY <1>4 DEF Increasing
<1>6. Active \subseteq Work /\ Configs \subseteq Work
  BY <1>1, <1>2, DeskAssumption DEF Work, Configs
<1>7. Loading \in [1..c -> Work]
  BY <1>5, <1>6
<1>8. \A k \in Active : cyc[k].config \in Work
  BY <1>6, RowAt DEF Active, CycleRow
<1>9. [i \in DOMAIN Loading |-> cyc[Loading[i]].config] \in [1..c -> Work]
  BY <1>5, <1>8
<1> QED
  BY <1>3, <1>7, <1>9, SeqDef

LEMMA Grows == ASSUME RowsInv, RowsInv', [Next]_vars PROVE DOMAIN cyc \subseteq DOMAIN cyc'
<1> USE DEF db, engine, queues, history, Goto, TakeNormal, TakeForce
<1>1. ASSUME NEW c \in Configs, StartCycle(c) PROVE DOMAIN cyc \subseteq DOMAIN cyc'
  <2>1. CASE cyc' = cyc
    BY <2>1
  <2>2. CASE cyc' = Append(cyc, Born(c, ActiveOf(c) = {}))
    <3> DEFINE x == Born(c, ActiveOf(c) = {})
    <3>1. cyc \in Seq(CycleRow) /\ x \in CycleRow /\ cyc' = Append(cyc, x)
      BY <2>2, BornRow DEF RowsInv, TypeInv
    <3> HIDE DEF x
    <3>2. Len(cyc') = Len(cyc) + 1
      BY <3>1, AppendProperties
    <3>3. /\ DOMAIN cyc = 1..Len(cyc) /\ DOMAIN cyc' = 1..Len(cyc') /\ Len(cyc) \in Nat
      BY SpentCount, SpentCountNext DEF RowsInv
    <3> QED
      BY <3>2, <3>3
  <2> QED
    BY <1>1, <2>1, <2>2 DEF StartCycle
<1>2. CASE cyc' = cyc
  BY <1>2
<1>3. CASE Drain
  <2>1. \/ cyc' = cyc \/ DOMAIN cyc' = DOMAIN cyc \/ \E c \in Configs : StartCycle(c)
    BY <1>3 DEF Drain, ToNormal, Drained, Transition, ForceFails, ForceClose, ForceCloseEmpty,
                Activate, ResetBaseline, Shutdown, TakeLiquidate, NothingToLiquidate,
                BeginLiquidation, LiquidationStays, LiquidationCloses, SetPnl, ReleaseConfig,
                CloseCycle
  <2> QED
    BY <1>1, <2>1
<1>4. CASE Run
  BY <1>4 DEF Run, Loop, StreamEnds, TickArrives, BeginAnchor, RefuseAnchor, SkipCycle, Buy, Sell, ConfirmRow,
              ConfirmAnchor, Reconcile, ReconcileLost, TickOver, NextCycle, CloseCycle
<1>5. CASE Send \/ SellByHand \/ Crash \/ Restart \/ UNCHANGED vars
  BY <1>5 DEF Send, SellByHand, Crash, Restart, vars
<1> QED
  BY <1>3, <1>4, <1>5 DEF Next

LEMMA CellsNext ==
  RowsInv /\ RowsInv' /\ RoomInv /\ CellsInv /\ [Next]_vars => CellsInv'
<1> SUFFICES ASSUME RowsInv, RowsInv', RoomInv, CellsInv, [Next]_vars PROVE CellsInv'
  OBVIOUS
<1> USE DEF db, engine, queues, history, Goto, TakeNormal, TakeForce
<1>0. /\ TypeInv /\ Len(cyc) <= MaxCycles /\ DOMAIN cyc \subseteq DOMAIN cyc'
      /\ 0 \in DOMAIN cyc' \cup {0}
  BY Grows DEF RowsInv, RoomInv
<1>1. \/ stopped' = stopped \/ stopped' = TRUE \/ stopped' = FALSE
  BY DEF Next, vars, Send, SellByHand, Crash, Restart, Drain, ToNormal, Drained, StartCycle,
         Transition, ForceFails, ForceClose, ForceCloseEmpty, Activate, ResetBaseline, Shutdown,
         TakeLiquidate, NothingToLiquidate, BeginLiquidation, LiquidationStays,
         LiquidationCloses, SetPnl, ReleaseConfig, CloseCycle, Run, Loop, StreamEnds,
         TickArrives, BeginAnchor, RefuseAnchor, SkipCycle, Buy, Sell, ConfirmRow, ConfirmAnchor, Reconcile,
         ReconcileLost, TickOver, NextCycle
<1>2. \/ ticking' = ticking \/ ticking' = TRUE \/ ticking' = FALSE
  BY DEF Next, vars, Send, SellByHand, Crash, Restart, Drain, ToNormal, Drained, StartCycle,
         Transition, ForceFails, ForceClose, ForceCloseEmpty, Activate, ResetBaseline, Shutdown,
         TakeLiquidate, NothingToLiquidate, BeginLiquidation, LiquidationStays,
         LiquidationCloses, SetPnl, ReleaseConfig, CloseCycle, Run, Loop, StreamEnds,
         TickArrives, BeginAnchor, RefuseAnchor, SkipCycle, Buy, Sell, ConfirmRow, ConfirmAnchor, Reconcile,
         ReconcileLost, TickOver, NextCycle
<1>3. cmds' \in Seq(Normal)
  <2>1. /\ cmds \in Seq(Normal) /\ <<>> \in Seq(Normal)
        /\ \A m \in Normal : Append(cmds, m) \in Seq(Normal)
        /\ cmds # <<>> => Tail(cmds) \in Seq(Normal)
    BY EmptySeq, AppendProperties, HeadTailProperties DEF CellsInv
  <2>2. CASE Send
    BY <2>1, <2>2, Zenon DEF Send
  <2>3. CASE Crash
    BY <2>1, <2>3, Zenon DEF Crash
  <2>4. CASE SellByHand \/ Restart \/ UNCHANGED vars
    BY <2>1, <2>4 DEF SellByHand, Restart, vars
  <2>5. ASSUME NEW op, NEW c, TakeNormal(op, c) PROVE cmds' \in Seq(Normal)
    BY <2>1, <2>5, Zenon
  <2>6. CASE \/ ResetBaseline \/ Shutdown
             \/ \E c \in Configs : \/ StartCycle(c)
                                  \/ Transition("pause", "RUNNING", "PAUSED", c)
                                  \/ Transition("resume", "PAUSED", "RUNNING", c)
    <3>1. \E op : \E c : TakeNormal(op, c)
      BY <2>6, Zenon DEF ResetBaseline, Shutdown, StartCycle, Transition
    <3> QED
      BY <2>5, <3>1, Zenon
  <2>7. CASE ToNormal \/ Drained \/ Activate \/ NothingToLiquidate \/ LiquidationCloses
             \/ SetPnl \/ ReleaseConfig \/ (\E k \in DOMAIN cyc : BeginLiquidation(k))
             \/ (\E n \in 0..(Foreign + MaxCycles) : LiquidationStays(n))
             \/ (\E c \in Configs : ForceFails(c))
             \/ (\E c \in Configs : \E k \in DOMAIN cyc : ForceClose(k, c) \/ ForceCloseEmpty(k, c))
             \/ \E c \in Configs \cup {0} : TakeLiquidate(c)
    <3>1. cmds' = cmds
      BY <2>7 DEF ToNormal, Drained, Activate, NothingToLiquidate, LiquidationCloses, SetPnl,
                  ReleaseConfig, BeginLiquidation, LiquidationStays, ForceFails, ForceClose,
                  ForceCloseEmpty, TakeLiquidate
    <3> QED
      BY <2>1, <3>1
  <2>8. CASE Run
    <3>1. cmds' = cmds
      BY <2>8 DEF Run, Loop, StreamEnds, TickArrives, BeginAnchor, RefuseAnchor, SkipCycle, Buy, Sell,
                  ConfirmRow, ConfirmAnchor, Reconcile, ReconcileLost, TickOver
    <3> QED
      BY <2>1, <3>1
  <2>9. CASE Drain
    BY <2>6, <2>7, <2>9, Zenon DEF Drain
  <2> QED
    BY <2>2, <2>3, <2>4, <2>8, <2>9 DEF Next
<1>4. todo' \in Seq(Work)
  <2> DEFINE Configured == [i \in DOMAIN Loading |-> cyc[Loading[i]].config]
  <2>1. /\ todo \in Seq(Work) /\ <<>> \in Seq(Work)
        /\ todo # <<>> => Tail(todo) \in Seq(Work)
    BY EmptySeq, HeadTailProperties DEF CellsInv
  <2>2. Loading \in Seq(Work) /\ Configured \in Seq(Work)
    BY <1>0, WorkLists
  <2>3. \A c \in Configs : <<c>> \in Seq(Work)
    BY DeskAssumption DEF Configs, Work
  <2>4. CASE Send \/ SellByHand \/ Crash \/ Restart \/ UNCHANGED vars
    <3>1. todo' = todo \/ todo' = <<>>
      BY <2>4, Zenon DEF vars, Send, SellByHand, Crash, Restart
    <3> QED
      BY <2>1, <3>1, Zenon
  <2>5. CASE Drained
    BY <2>1, <2>2, <2>5, Zenon DEF Drained
  <2>6. ASSUME NEW c \in Configs \cup {0}, TakeLiquidate(c) PROVE todo' \in Seq(Work)
    <3>1. todo' = IF c # 0 THEN <<c>> ELSE Configured
      BY <2>6 DEF TakeLiquidate
    <3> HIDE DEF Configured
    <3>2. CASE c # 0
      BY <2>3, <3>1, <3>2, Zenon
    <3>3. CASE c = 0
      BY <2>2, <3>1, <3>3, Zenon
    <3> QED
      BY <3>2, <3>3
  <2>7. CASE NothingToLiquidate \/ \E k \in DOMAIN cyc : BeginLiquidation(k)
    <3>1. todo # <<>> /\ todo' = Tail(todo)
      BY <2>7, Zenon DEF NothingToLiquidate, BeginLiquidation
    <3> QED
      BY <2>1, <3>1, Zenon
  <2>8. CASE ToNormal \/ Activate \/ LiquidationCloses \/ ResetBaseline \/ Shutdown
             \/ SetPnl \/ ReleaseConfig
             \/ (\E n \in 0..(Foreign + MaxCycles) : LiquidationStays(n))
             \/ (\E c \in Configs : \/ ForceFails(c) \/ StartCycle(c)
                                   \/ Transition("pause", "RUNNING", "PAUSED", c)
                                   \/ Transition("resume", "PAUSED", "RUNNING", c))
             \/ \E c \in Configs : \E k \in DOMAIN cyc : ForceClose(k, c) \/ ForceCloseEmpty(k, c)
    <3>1. todo' = todo \/ todo' = <<>>
      BY <2>8 DEF ToNormal, Activate, LiquidationCloses, ResetBaseline, Shutdown, SetPnl,
                  ReleaseConfig, LiquidationStays, ForceFails, StartCycle, Transition,
                  ForceClose, ForceCloseEmpty
    <3> QED
      BY <2>1, <3>1, Zenon
  <2>9. CASE ConfirmAnchor \/ \E k \in DOMAIN cyc : RefuseAnchor(k) \/ SkipCycle(k) \/ Buy(k) \/ Sell(k)
    <3>1. todo # <<>> /\ todo' = Tail(todo)
      BY <2>9, Zenon DEF ConfirmAnchor, RefuseAnchor, SkipCycle, Buy, Sell, NextCycle, Turn, CellsInv
    <3> QED
      BY <2>1, <3>1, Zenon
  <2>10. CASE Run
    <3>1. \/ ConfirmAnchor \/ \E k \in DOMAIN cyc : RefuseAnchor(k) \/ SkipCycle(k) \/ Buy(k) \/ Sell(k)
          \/ todo' = todo
      BY <2>10, Zenon DEF Run, Loop, StreamEnds, TickArrives, BeginAnchor, ConfirmRow, Reconcile,
                          ReconcileLost, TickOver
    <3> QED
      BY <2>1, <2>9, <3>1, Zenon
  <2>11. CASE Drain
    BY <2>5, <2>6, <2>7, <2>8, <2>11, Zenon DEF Drain
  <2> QED
    BY <2>4, <2>10, <2>11, Zenon DEF Next
<1>5. cur' \in DOMAIN cyc' \cup {0}
  <2>1. CASE Send \/ SellByHand \/ Crash \/ Restart \/ UNCHANGED vars
    BY <1>0, <2>1 DEF vars, Send, SellByHand, Crash, Restart, CellsInv
  <2>2. CASE Run
    BY <1>0, <2>2 DEF Run, Loop, StreamEnds, TickArrives, BeginAnchor, RefuseAnchor, SkipCycle, Buy, Sell,
                ConfirmRow, ConfirmAnchor, Reconcile, ReconcileLost, TickOver, NextCycle,
                CloseCycle, CellsInv
  <2>3. ASSUME NEW c \in Configs, StartCycle(c) PROVE cur' \in DOMAIN cyc' \cup {0}
    <3>1. CASE cur' = cur
      BY <1>0, <3>1 DEF CellsInv
    <3>2. CASE pc' = "activate"
      BY <3>2 DEF RowsInv, HandInv
    <3> QED
      BY <2>3, <3>1, <3>2 DEF StartCycle
  <2>4. CASE Drain
    <3>1. cur' \in DOMAIN cyc \cup {0, cur} \/ \E c \in Configs : StartCycle(c)
      BY <2>4 DEF Drain, ToNormal, Drained, Transition, ForceFails, ForceClose,
                  ForceCloseEmpty, Activate, ResetBaseline, Shutdown, TakeLiquidate,
                  NothingToLiquidate, BeginLiquidation, LiquidationStays, LiquidationCloses,
                  SetPnl, ReleaseConfig, CloseCycle
    <3> QED
      BY <1>0, <2>3, <3>1 DEF CellsInv
  <2> QED
    BY <2>1, <2>2, <2>4 DEF Next
<1>6. torn' \subseteq Configs
  <2>1. CASE Crash
    <3>1. CASE pc \in {"activate", "pnl", "release"}
      <4>1. cur \in DOMAIN cyc
        BY <3>1 DEF RowsInv, HandInv
      <4>2. cyc[cur].config \in Configs
        BY <1>0, <4>1, RowAt DEF CycleRow
      <4> QED
        BY <2>1, <3>1, <4>2 DEF Crash, CellsInv
    <3> QED
      BY <2>1, <3>1 DEF Crash, CellsInv
  <2>2. CASE ~Crash
    <3>1. \/ torn' = torn
          \/ torn' = torn \ {cyc[cur].config} /\ (Activate \/ ReleaseConfig)
      BY <2>2
      DEF Next, vars, Send, SellByHand, Restart, Drain, ToNormal, Drained, StartCycle,
           Transition, ForceFails, ForceClose, ForceCloseEmpty, Activate, ResetBaseline,
           Shutdown, TakeLiquidate, NothingToLiquidate, BeginLiquidation, LiquidationStays,
           LiquidationCloses, SetPnl, ReleaseConfig, CloseCycle, Run, Loop, StreamEnds,
           TickArrives, BeginAnchor, RefuseAnchor, SkipCycle, Buy, Sell, ConfirmRow, ConfirmAnchor, Reconcile,
           ReconcileLost, TickOver, NextCycle
    <3> QED
      BY <3>1 DEF CellsInv
  <2> QED
    BY <2>1, <2>2
<1>7. stopped' \in BOOLEAN
  BY <1>1, Zenon DEF CellsInv
<1>8. ticking' \in BOOLEAN
  BY <1>2, Zenon DEF CellsInv
<1>9. pc' = "anchor" => todo' # <<>>
  <2>1. CASE Run
    BY <2>1 DEF Run, Loop, StreamEnds, TickArrives, BeginAnchor, RefuseAnchor, SkipCycle, Buy, Sell,
                ConfirmRow, ConfirmAnchor, Reconcile, ReconcileLost, TickOver, NextCycle,
                CloseCycle, Turn, CellsInv
  <2>2. CASE Drain
    <3>1. pc' # "anchor"
      BY <2>2 DEF Drain, ToNormal, Drained, StartCycle, Transition, ForceFails, ForceClose,
                  ForceCloseEmpty, Activate, ResetBaseline, Shutdown, TakeLiquidate,
                  NothingToLiquidate, BeginLiquidation, LiquidationStays, LiquidationCloses,
                  SetPnl, ReleaseConfig, CloseCycle
    <3> QED
      BY <3>1
  <2>3. CASE Send \/ SellByHand \/ Crash \/ Restart \/ UNCHANGED vars
    BY <2>3 DEF Send, SellByHand, Crash, Restart, vars, CellsInv
  <2> QED
    BY <2>1, <2>2, <2>3 DEF Next
<1> QED
  BY <1>3, <1>4, <1>5, <1>6, <1>7, <1>8, <1>9 DEF CellsInv

\* Every variable of the whole engine keeps its type, within the bounds of the
\* model: no cycle holds more than its share, no account more than what was there
\* and one share for each cycle, and the engine never has a row in hand that is
\* not there.
THEOREM DeskTypes == Spec => []DTypeOK
<1>1. Init => CellsInv
  <2> SUFFICES ASSUME Init PROVE CellsInv
    OBVIOUS
  <2>1. /\ torn \subseteq Configs /\ cur \in DOMAIN cyc \cup {0}
        /\ cmds = <<>> /\ todo = <<>> /\ pc # "anchor"
    BY DEF Init
  <2>2. stopped \in BOOLEAN /\ ticking \in BOOLEAN
    BY DEF Init
  <2> QED
    BY <2>1, <2>2, EmptySeq DEF CellsInv
<1>2. RowsInv /\ ConfInv /\ WaitInv /\ BooksInv /\ RoomInv /\ CellsInv => DTypeOK
  <2> SUFFICES ASSUME RowsInv, ConfInv, WaitInv, BooksInv, RoomInv, CellsInv PROVE DTypeOK
    OBVIOUS
  <2>1. TypeInv
    BY DEF RowsInv
  <2> DEFINE c == Cardinality(SpentIds)
  <2>2. /\ c \in Nat /\ Len(cyc) \in Nat /\ DOMAIN cyc = 1..Len(cyc)
        /\ c <= Len(cyc) /\ Len(cyc) <= MaxCycles /\ account <= Foreign + c /\ account \in Nat
    BY <2>1, SpentCount DEF RoomInv, TypeInv
  <2> HIDE DEF c
  <2>3. account \in 0..(Foreign + MaxCycles) /\ DOMAIN cyc \cup {0} \subseteq 0..MaxCycles
    BY <2>2, DeskAssumption
  <2>4. /\ \A i \in DOMAIN prio : prio[i] \in Urgent
        /\ \A i \in DOMAIN cmds : cmds[i] \in Normal
        /\ \A i \in DOMAIN todo : todo[i] \in Work
    BY LenProperties, ElementOfSeq DEF WaitInv, CellsInv
  <2>5. \A k \in DOMAIN cyc : cyc[k] \in CycleRow
    BY <2>1, RowAt
  <2>6. {stopped, ticking, strayed} \subseteq BOOLEAN
    BY Zenon DEF CellsInv, BooksInv
  <2>7. pc \in PCs /\ level \in 1..(Levels + 1) /\ conf \in [Configs -> {"IDLE", "ACTIVE"}]
    BY <2>1 DEF TypeInv, ConfInv
  <2>8. cur \in 0..MaxCycles /\ torn \subseteq Configs
    BY <2>3 DEF CellsInv
  <2> QED
    BY <2>2, <2>3, <2>4, <2>5, <2>6, <2>7, <2>8 DEF DTypeOK, Work
<1>3. Spec => []RowsInv
  BY RowsInit, RowsNext, PTL DEF Spec
<1>4. Spec => []ConfInv
  BY <1>3, ConfInit, ConfNext, PTL DEF Spec
<1>5. Spec => []WaitInv
  <2>1. Init => WaitInv
    BY EmptySeq DEF Init, WaitInv
  <2> QED
    BY <2>1, WaitNext, PTL DEF Spec
<1>6. Spec => []BooksInv
  BY <1>3, BooksInit, BooksNext, PTL DEF Spec
<1>7. Spec => []RoomInv
  BY <1>3, RoomInit, RoomNext, PTL DEF Spec
<1>8. Spec => []CellsInv
  BY <1>1, <1>3, <1>7, CellsNext, PTL DEF Spec
<1> QED
  BY <1>2, <1>3, <1>4, <1>5, <1>6, <1>7, <1>8, PTL
=============================================================================
