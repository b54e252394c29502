--------------------------- MODULE EmergencyProofs ---------------------------
(***************************************************************************)
(* Proofs about the engine with the user's way out, for any number of      *)
(* stages, orders, market sells and crashes: once liquidation has begun    *)
(* nothing brings the cycle back, an order with a number is watched until  *)
(* it is over, no recorded fill exceeds what was traded, a liquidation     *)
(* that succeeded left nothing, and no cycle is paused without a reason.   *)
(***************************************************************************)
EXTENDS EngineEmergency, RecoveryProofs, RowProofs

ETypeInv ==
  /\ ETypeOK
  /\ today \subseteq Refs /\ plan \subseteq Stages /\ seen \in Qty
  /\ cur \in Refs \cup {0} /\ crashes \in 0..MaxCrashes
  /\ pc \in Sending \cup Polling \cup Correcting => cur \in Refs

\* The rows the cancel loop has not handled yet are pending.
ERowsInv ==
  /\ pc \in PCs => RowsInv
  /\ pc \in EPCs => \A r \in todo : log[r].st \in Live

\* Where the stage of the order at hand is about to be written.
Writing == {"cancel", "canceled", "apply", "undo"} \cup Correcting

\* Only a running cycle has decisions, a command closes what is being
\* liquidated, and a closed cycle has no stage anybody could still write.
LiqInv ==
  /\ plan # {} => pc \in Sending \cup {"decide"}
  /\ pc \in Sending \/ plan # {} => cycle = "RUNNING"
  /\ pc \in EPCs \ {"epnl", "erelease"} => cycle = "LIQUIDATING"
  /\ cycle = "CLOSED" => \A s \in Stages : ~Pending(stage[s])
  /\ pc \in Writing => Pending(stage[log[cur].stage])

\* A row without a crash behind it ends only after its order has.
WatchInv ==
  /\ NumberedOrderIsWatched
  /\ crashes = 0 => pc \notin {"down", "recover"} \cup Correcting
  /\ pc \in Sending \ {"acked", "unsend"} => ~log[cur].known
  /\ pc = "canceled" => ~AtExchange(cur)
  /\ pc = "cancelled" => \A r \in todo : (\A q \in todo : r <= q) => ~AtExchange(r)

\* Nobody reads a fill that the exchange does not have.
FillInv ==
  /\ \A r \in Refs : log[r].fill <= book[r].filled
  /\ \A r \in Refs : listed[r].filled <= book[r].filled
  /\ \A r \in Refs : book[r].st \in {"NONE", "TRANSIT"} => book[r].filled = 0
  /\ WriteAhead
  /\ pc \in {"recorded", "placing"} => book[cur].st = "NONE"
  /\ pc \in {"cancel", "canceled"} => seen <= book[cur].filled

SaleInv ==
  /\ \A k \in Sales : sale[k].fill <= sale[k].done
  /\ \A j, k \in Sales : j < k /\ sale[k].st # "NONE" => sale[j].st # "NONE"
  /\ pc = "selling" => \A k \in Sales : CurSale(k) => sale[k].fill = 0
  /\ \A k \in stodo : sale[k].st # "NONE"

---------------------------------------------------------------------------
(* Steps *)

LEMMA PCsApart == PCs \cap EPCs = {} /\ "tick" \in PCs /\ Correcting \subseteq PCs
BY DEF PCs, EPCs, Correcting

LEMMA ShareFacts == MaxShares \in Nat
BY StageAssumption DEF MaxShares

\* An emergency command keeps the program's place in the ordinary loop.
LEMMA EmergencyFrame ==
  ASSUME Emergency
  PROVE  /\ pc \in {"tick"} \cup EPCs /\ pc' \in {"tick"} \cup EPCs
         /\ UNCHANGED <<today, plan, cur, seen, crashes, listed>>
         /\ pc' = "tick" => todo' = {}
<1> USE DEF EPCs, EGoto, CommandDone, CancelLoop, SkipRow, db, market
<1>1. CASE BeginLiquidation \/ \E b \in 0..MaxShares : BeginForceClose(b)
  BY <1>1 DEF BeginLiquidation, BeginForceClose
<1>2. CASE \E r \in Refs : CancelOrder(r) \/ CancelOrderLost(r) \/ CancelOrderRefused(r)
  BY <1>2 DEF CancelOrder, CancelOrderLost, CancelOrderRefused, CancelAt
<1>3. CASE CommitCancel \/ CommitSaleCancel \/ BalanceFails
  BY <1>3 DEF CommitCancel, CommitSaleCancel, BalanceFails, LoopOver
<1>4. CASE \E k \in Sales : CancelSale(k) \/ CommitRefusal(k) \/ CommitSale(k)
  BY <1>4 DEF CancelSale, CommitRefusal, CommitSale
<1>5. CASE \E k \in Sales : \E n \in 0..MaxShares : RecordSale(k, n) \/ SaleTaken(k, n)
  BY <1>5 DEF RecordSale, SaleTaken, LoopOver
<1>6. CASE SaleRefused \/ AskLost
  BY <1>6 DEF SaleRefused, AskLost
<1>7. CASE CloseEmpty \/ CloseSold \/ ForceCloseCycle \/ ESetPnl \/ EReleaseConfig
  BY <1>7 DEF CloseEmpty, CloseSold, ForceCloseCycle, CloseAs, LoopOver, ESetPnl,
              EReleaseConfig
<1> QED
  BY <1>1, <1>2, <1>3, <1>4, <1>5, <1>6, <1>7 DEF Emergency

\* While a command runs, the ordinary loop stands still.
LEMMA LoopStandsStill ==
  ASSUME pc \in EPCs, RNext
  PROVE  (Exchange /\ UNCHANGED <<crashes, listed>>) \/ Crash
<1>1. pc \notin {"down", "recover", "rundo", "rapply"} /\ pc \notin Running
  BY DEF EPCs, Running, PCs
<1>2. ~Restart /\ ~RestartLost /\ ~RecoverStep /\ ~Recovered
  BY <1>1 DEF Restart, RestartLost, RecoverStep, RecoverSkip, RecoverUnfilled,
              RecoverFilled, RecoverWith, RecoverAt, RecoverRestore, RecoverApply,
              Recovered, RecoverDone
<1> QED
  BY <1>1, <1>2, OnlyTheExchange DEF RNext

LEMMA LoopTypes == ETypeInv /\ pc \in PCs => RTypeInv
BY DEF ETypeInv, ETypeOK, RTypeInv, RTypeOK, TypeOK

\* The parts of the state an emergency command or the account moves.
LEMMA LoopTypesBack ==
  ASSUME RTypeInv', sale' \in [Sales -> SaleRow], closed' \in Closings,
         doing' \in {"nothing", "liquidate", "force"}, stodo' \subseteq Sales,
         actual' \in 0..MaxShares
  PROVE  ETypeInv'
BY DEF ETypeInv, ETypeOK, RTypeInv, RTypeOK, TypeOK

---------------------------------------------------------------------------
(* Types *)

LEMMA ETypeInit == EInit => ETypeInv
<1> SUFFICES ASSUME EInit PROVE ETypeInv
  OBVIOUS
<1>1. RTypeInv
  BY RTypeInit DEF EInit
<1>2. NoSale \in SaleRow
  BY ShareFacts DEF NoSale, SaleRow
<1> QED
  BY <1>1, <1>2, ShareFacts
     DEF EInit, ETypeInv, ETypeOK, RTypeInv, RTypeOK, TypeOK, Closings

LEMMA OrdinaryTypes == ASSUME ETypeInv, Ordinary PROVE ETypeInv'
<1>1. /\ sale' \in [Sales -> SaleRow] /\ closed' \in Closings
      /\ doing' \in {"nothing", "liquidate", "force"} /\ stodo' \subseteq Sales
      /\ actual' \in 0..MaxShares
  BY ShareFacts DEF Ordinary, ETypeInv, ETypeOK, Closings, elocal
<1>2. CASE pc \in PCs
  BY <1>1, <1>2, LoopTypes, RTypeNext, LoopTypesBack DEF Ordinary
<1>3. CASE pc \in EPCs
  <2>1. CASE Exchange /\ UNCHANGED <<crashes, listed>>
    <3>1. /\ UNCHANGED <<db, local>>
          /\ book' \in [Refs -> BookRow] /\ today' \subseteq Refs
      BY <2>1, ExchangeFrame DEF ETypeInv, ETypeOK
    <3> QED
      BY <1>1, <2>1, <3>1 DEF ETypeInv, ETypeOK, db, local
  <2>2. CASE Crash
    BY <1>1, <2>2, RecoveryAssumption, QtyFacts
       DEF Crash, ETypeInv, ETypeOK, PCs, db, market, NothingListed, Unlisted, BookRow,
           BookStatus, Sending, Polling, Correcting
  <2> QED
    BY <1>3, <2>1, <2>2, LoopStandsStill DEF Ordinary
<1> QED
  BY <1>2, <1>3 DEF ETypeInv, ETypeOK

NewSale(n) == [st |-> "SENDING", req |-> n, fill |-> 0, at |-> "NONE", done |-> 0]

\* Every way in which the row of a market sell is written.
LEMMA SaleTypes ==
  ASSUME sale \in [Sales -> SaleRow], NEW k \in Sales
  PROVE  /\ \A n \in 0..MaxShares, a \in {"NONE", "WORKING", "OVER"} :
              [sale EXCEPT ![k].done = n, ![k].at = a] \in [Sales -> SaleRow]
         /\ [sale EXCEPT ![k].at = "OVER"] \in [Sales -> SaleRow]
         /\ \A st \in {"PARTIAL", "FILLED", "CANCELED", "REJECTED"} :
              /\ [sale EXCEPT ![k].st = st] \in [Sales -> SaleRow]
              /\ [sale EXCEPT ![k].st = st, ![k].fill = sale[k].done]
                   \in [Sales -> SaleRow]
         /\ \A n \in 0..MaxShares : [sale EXCEPT ![k] = NewSale(n)] \in [Sales -> SaleRow]
<1>1. sale[k] \in SaleRow
  OBVIOUS
<1>2. ASSUME NEW n \in 0..MaxShares, NEW a \in {"NONE", "WORKING", "OVER"}
      PROVE  [sale EXCEPT ![k].done = n, ![k].at = a] \in [Sales -> SaleRow]
  <2>1. [sale[k] EXCEPT !.done = n, !.at = a] \in SaleRow
    BY <1>1 DEF SaleRow
  <2>2. [sale EXCEPT ![k].done = n, ![k].at = a]
          = [sale EXCEPT ![k] = [sale[k] EXCEPT !.done = n, !.at = a]]
    OBVIOUS
  <2> QED
    BY <2>1, <2>2
<1>3. [sale EXCEPT ![k].at = "OVER"] \in [Sales -> SaleRow]
  <2>1. [sale[k] EXCEPT !.at = "OVER"] \in SaleRow
    BY <1>1 DEF SaleRow
  <2> QED
    BY <2>1
<1>4. ASSUME NEW st \in {"PARTIAL", "FILLED", "CANCELED", "REJECTED"}
      PROVE  /\ [sale EXCEPT ![k].st = st] \in [Sales -> SaleRow]
             /\ [sale EXCEPT ![k].st = st, ![k].fill = sale[k].done]
                  \in [Sales -> SaleRow]
  <2>1. [sale[k] EXCEPT !.st = st] \in SaleRow
    BY <1>1 DEF SaleRow
  <2>2. [sale[k] EXCEPT !.st = st, !.fill = sale[k].done] \in SaleRow
    BY <1>1 DEF SaleRow
  <2>3. [sale EXCEPT ![k].st = st, ![k].fill = sale[k].done]
          = [sale EXCEPT ![k] = [sale[k] EXCEPT !.st = st, !.fill = sale[k].done]]
    OBVIOUS
  <2> QED
    BY <2>1, <2>2, <2>3
<1>5. ASSUME NEW n \in 0..MaxShares PROVE NewSale(n) \in SaleRow
  BY <1>5, ShareFacts DEF SaleRow, NewSale
<1> QED
  BY <1>2, <1>3, <1>4, <1>5

LEMMA SaleWritten ==
  ASSUME sale \in [Sales -> SaleRow], NEW k \in Sales,
         \/ sale' = sale \/ sale' = [sale EXCEPT ![k].at = "OVER"]
         \/ \E st \in {"PARTIAL", "FILLED", "CANCELED", "REJECTED"} :
              \/ sale' = [sale EXCEPT ![k].st = st]
              \/ sale' = [sale EXCEPT ![k].st = st, ![k].fill = sale[k].done]
         \/ \E n \in 0..MaxShares :
              \/ sale' = [sale EXCEPT ![k] = NewSale(n)]
              \/ \E a \in {"NONE", "WORKING", "OVER"} :
                   sale' = [sale EXCEPT ![k].done = n, ![k].at = a]
  PROVE  sale' \in [Sales -> SaleRow]
<1>1. CASE sale' = sale
  BY <1>1
<1>2. CASE sale' = [sale EXCEPT ![k].at = "OVER"]
  BY <1>2, SaleTypes, Zenon
<1>5. ASSUME NEW st \in {"PARTIAL", "FILLED", "CANCELED", "REJECTED"},
             sale' = [sale EXCEPT ![k].st = st]
      PROVE  sale' \in [Sales -> SaleRow]
  BY <1>5, SaleTypes, Zenon
<1>6. ASSUME NEW st \in {"PARTIAL", "FILLED", "CANCELED", "REJECTED"},
             sale' = [sale EXCEPT ![k].st = st, ![k].fill = sale[k].done]
      PROVE  sale' \in [Sales -> SaleRow]
  BY <1>6, SaleTypes, Zenon
<1>3. ASSUME NEW n \in 0..MaxShares, sale' = [sale EXCEPT ![k] = NewSale(n)]
      PROVE  sale' \in [Sales -> SaleRow]
  BY <1>3, SaleTypes, Zenon
<1>4. ASSUME NEW n \in 0..MaxShares, NEW a \in {"NONE", "WORKING", "OVER"},
             sale' = [sale EXCEPT ![k].done = n, ![k].at = a]
      PROVE  sale' \in [Sales -> SaleRow]
  BY <1>4, SaleTypes, Zenon
<1> QED
  BY <1>1, <1>2, <1>3, <1>4, <1>5, <1>6, Zenon

LEMMA EmergencyTypes == ASSUME ETypeInv, Emergency PROVE ETypeInv'
<1> USE ShareFacts DEF ETypeInv, ETypeOK
<1>1. /\ pc' \in PCs \cup EPCs
      /\ today' \subseteq Refs /\ plan' \subseteq Stages /\ seen' \in Qty
      /\ cur' \in Refs \cup {0} /\ crashes' \in 0..MaxCrashes
      /\ listed' \in [Refs -> BookRow]
      /\ pc' \in Sending \cup Polling \cup Correcting => cur' \in Refs
  BY EmergencyFrame DEF PCs, EPCs, Sending, Polling, Correcting
<1> DEFINE Local == /\ todo' \subseteq Refs /\ stodo' \subseteq Sales
                    /\ doing' \in {"nothing", "liquidate", "force"}
                    /\ actual' \in 0..MaxShares
           Kept == UNCHANGED <<log, pnl, config, market, sale>>
           Traded == UNCHANGED <<db, market, closed>> /\ sale' \in [Sales -> SaleRow]
<1>2. ASSUME NEW r \in Refs, CancelOrder(r) \/ CancelOrderLost(r) \/ CancelOrderRefused(r)
      PROVE  ETypeInv'
  <2>1. book' \in [Refs -> BookRow]
    BY <1>2 DEF CancelOrder, CancelOrderLost, CancelOrderRefused, market, BookRow, BookStatus
  <2>2. Local
    BY <1>2 DEF CancelOrder, CancelOrderLost, CancelOrderRefused, EGoto, SkipRow, CommandDone,
                elocal
  <2>3. UNCHANGED <<db, sale, closed>>
    BY <1>2 DEF CancelOrder, CancelOrderLost, CancelOrderRefused
  <2> QED
    BY <1>1, <2>1, <2>2, <2>3 DEF db
<1>3. CASE BeginLiquidation \/ \E b \in 0..MaxShares : BeginForceClose(b)
  <2>1. Local
    BY <1>3 DEF BeginLiquidation, BeginForceClose, CancelLoop, PendingRows, db
  <2>2. Kept /\ UNCHANGED <<stage, closed>> /\ cycle' \in {cycle, "LIQUIDATING"}
    BY <1>3 DEF BeginLiquidation, BeginForceClose, db
  <2> QED
    BY <1>1, <2>1, <2>2 DEF market
<1>4. CASE CommitCancel
  <2>1. PICK r \in todo : log' = [log EXCEPT ![r] = LogUpdate(@, "CANCELED", 0)] /\ SkipRow(r)
    BY <1>4 DEF CommitCancel
  <2>2. LogUpdate(log[r], "CANCELED", 0) \in LogRow
    BY LogTypes, QtyFacts DEF Terminal
  <2>3. log' \in [Refs -> LogRow]
    BY <2>1, <2>2
  <2>4. Local
    BY <2>1 DEF SkipRow, elocal
  <2> QED
    BY <1>1, <1>4, <2>3, <2>4 DEF CommitCancel, market
<1>5. ASSUME Traded, Local PROVE ETypeInv'
  BY <1>1, <1>5 DEF db, market
<1>6. CASE CommitSaleCancel \/ BalanceFails \/ SaleRefused \/ AskLost
  <2>1. Traded
    <3>1. CASE CommitSaleCancel
      <4>1. PICK k \in Sales : sale' = [sale EXCEPT ![k].st = "CANCELED"]
        BY <3>1 DEF CommitSaleCancel
      <4> QED
        BY <3>1, <4>1, SaleTypes DEF CommitSaleCancel
    <3>2. CASE BalanceFails \/ SaleRefused \/ AskLost
      BY <3>2 DEF BalanceFails, SaleRefused, AskLost, evars
    <3> QED
      BY <1>6, <3>1, <3>2
  <2>2. Local
    BY <1>6 DEF CommitSaleCancel, BalanceFails, SaleRefused, AskLost, EGoto, CommandDone,
                evars
  <2> QED
    BY <1>5, <2>1, <2>2
<1>7. ASSUME NEW k \in Sales, CancelSale(k) \/ CommitRefusal(k) \/ CommitSale(k)
      PROVE  ETypeInv'
  <2>1. Traded
    <3>1. \/ sale' = sale \/ sale' = [sale EXCEPT ![k].at = "OVER"]
          \/ sale' = [sale EXCEPT ![k].st = "REJECTED"]
          \/ \E st \in {"FILLED", "PARTIAL"} :
               sale' = [sale EXCEPT ![k].st = st, ![k].fill = sale[k].done]
      BY <1>7 DEF CancelSale, CommitRefusal, CommitSale
    <3>2. UNCHANGED <<db, market, closed>>
      BY <1>7 DEF CancelSale, CommitRefusal, CommitSale
    <3>3. sale' \in [Sales -> SaleRow]
      BY <3>1, SaleWritten
    <3> QED
      BY <3>2, <3>3
  <2>2. Local
    BY <1>7 DEF CancelSale, CommitRefusal, CommitSale, EGoto, CommandDone, elocal
  <2> QED
    BY <1>5, <2>1, <2>2
<1>8. ASSUME NEW k \in Sales, NEW n \in 0..MaxShares, RecordSale(k, n) \/ SaleTaken(k, n)
      PROVE  ETypeInv'
  <2>1. Traded
    <3>1. \/ sale' = [sale EXCEPT ![k] = NewSale(n)]
          \/ \E a \in {"WORKING", "OVER"} :
               sale' = [sale EXCEPT ![k].done = n, ![k].at = a]
      BY <1>8 DEF RecordSale, SaleTaken, NewSale
    <3>2. UNCHANGED <<db, market, closed>>
      BY <1>8 DEF RecordSale, SaleTaken
    <3>3. sale' \in [Sales -> SaleRow]
      BY <3>1, SaleWritten
    <3> QED
      BY <3>2, <3>3
  <2>2. Local
    BY <1>8 DEF RecordSale, SaleTaken, EGoto, elocal
  <2> QED
    BY <1>5, <2>1, <2>2
<1>9. CASE CloseEmpty \/ CloseSold \/ ForceCloseCycle
  <2>1. \A s \in Stages : ForceSold(stage[s]) \in StageRow
    BY QtyFacts DEF ForceSold, StageRow, StageStatus
  <2>2. Kept /\ UNCHANGED elocal /\ todo' = todo /\ cycle' = "CLOSED"
        /\ stage' = [s \in Stages |-> ForceSold(stage[s])] /\ closed' \in Closings
    BY <1>9 DEF CloseEmpty, CloseSold, ForceCloseCycle, CloseAs, EGoto, Closings
  <2> QED
    BY <1>1, <2>1, <2>2 DEF market, elocal
<1>10. CASE ESetPnl \/ EReleaseConfig
  <2>1. /\ UNCHANGED <<stage, log, cycle, market, sale, closed>>
        /\ pnl' \in BOOLEAN /\ config' \in {"ACTIVE", "IDLE"}
    BY <1>10 DEF ESetPnl, EReleaseConfig, evars
  <2>2. Local
    BY <1>10 DEF ESetPnl, EReleaseConfig, EGoto, CommandDone, evars
  <2> QED
    BY <1>1, <2>1, <2>2 DEF market
<1> QED
  BY <1>2, <1>3, <1>4, <1>6, <1>7, <1>8, <1>9, <1>10 DEF Emergency

LEMMA ETypeNext == ETypeInv /\ [ENext]_allvars => ETypeInv'
<1> SUFFICES ASSUME ETypeInv, [ENext]_allvars PROVE ETypeInv'
  OBVIOUS
<1>1. CASE UNCHANGED allvars
  BY <1>1 DEF allvars, rvars, vars, db, market, local, evars, ETypeInv, ETypeOK
<1>2. CASE Account
  <2>1. sale' \in [Sales -> SaleRow]
    <3>1. PICK k \in Sales : SaleExpires(k) \/ \E n \in 1..MaxShares : SaleFills(k, n)
      BY <1>2 DEF Account
    <3>2. CASE SaleExpires(k)
      BY <3>2, SaleTypes DEF SaleExpires, ETypeInv, ETypeOK
    <3>3. ASSUME NEW n \in 1..MaxShares, SaleFills(k, n) PROVE sale' \in [Sales -> SaleRow]
      <4> DEFINE sum == sale[k].done + n
                 at == IF sum = sale[k].req THEN "OVER" ELSE "WORKING"
      <4>1. sale[k] \in SaleRow
        BY DEF ETypeInv, ETypeOK
      <4>2. sum \in 0..MaxShares
        BY <3>3, <4>1, ShareFacts DEF SaleFills, SaleRow
      <4>3. sale' = [sale EXCEPT ![k].done = sum, ![k].at = at]
        BY <3>3 DEF SaleFills, ETypeInv, ETypeOK
      <4> HIDE DEF sum
      <4> QED
        BY <4>2, <4>3, SaleTypes DEF ETypeInv, ETypeOK
    <3> QED
      BY <3>1, <3>2, <3>3
  <2> QED
    BY <1>2, <2>1 DEF Account, SaleExpires, SaleFills, rvars, vars, db, market, local,
                      elocal, ETypeInv, ETypeOK
<1>3. CASE Reconcile \/ ReconcileLost
  BY <1>3, QtyFacts DEF Reconcile, ReconcileLost, Die, db, market, local, evars, ETypeInv,
                        ETypeOK, PCs, Sending, Polling, Correcting
<1> QED
  BY <1>1, <1>2, <1>3, OrdinaryTypes, EmergencyTypes DEF ENext

LEMMA ETypeInvariant == ESpec => []ETypeInv
BY ETypeInit, ETypeNext, PTL DEF ESpec

\* Stages, orders and market sells keep their types through every interleaving of
\* ticks, commands, crashes and the exchange.
THEOREM EmergencyTypeCorrect == ESpec => []ETypeOK
<1>1. ETypeInv => ETypeOK
  BY DEF ETypeInv
<1> QED
  BY <1>1, ETypeInvariant, PTL

---------------------------------------------------------------------------
(* What an emergency command does to the cycle and to the rows *)

Commanding == EPCs \ {"epnl", "erelease"}

\* A command opens on a cycle it is about to liquidate, and its only other
\* write to the cycle closes it with all its stages.
LEMMA EmergencyCycle ==
  ASSUME Emergency
  PROVE  \/ /\ UNCHANGED <<stage, closed>>
            /\ \/ cycle' = cycle /\ (pc \in Commanding => pc' \in Commanding \cup {"tick"})
                  /\ (pc \notin Commanding => pc' \notin Commanding)
               \/ /\ pc = "tick" /\ cycle # "CLOSED" /\ cycle' = "LIQUIDATING"
                  /\ pc' = "cancelling"
         \/ /\ pc \in Commanding /\ pc' = "epnl" /\ cycle' = "CLOSED"
            /\ stage' = [s \in Stages |-> ForceSold(stage[s])]
<1> USE DEF Commanding, EPCs, EGoto, CommandDone, CancelLoop, SkipRow, db, evars
<1>1. CASE BeginLiquidation \/ \E b \in 0..MaxShares : BeginForceClose(b)
  BY <1>1 DEF BeginLiquidation, BeginForceClose
<1>2. CASE \E r \in Refs : CancelOrder(r) \/ CancelOrderLost(r) \/ CancelOrderRefused(r)
  BY <1>2 DEF CancelOrder, CancelOrderLost, CancelOrderRefused, CancelAt
<1>3. CASE CommitCancel \/ CommitSaleCancel \/ BalanceFails
  BY <1>3 DEF CommitCancel, CommitSaleCancel, BalanceFails, LoopOver
<1>4. CASE \E k \in Sales : CancelSale(k) \/ CommitRefusal(k) \/ CommitSale(k)
  BY <1>4 DEF CancelSale, CommitRefusal, CommitSale
<1>5. CASE \E k \in Sales : \E n \in 0..MaxShares : RecordSale(k, n) \/ SaleTaken(k, n)
  BY <1>5 DEF RecordSale, SaleTaken, LoopOver
<1>6. CASE SaleRefused \/ AskLost
  BY <1>6 DEF SaleRefused, AskLost
<1>7. CASE CloseEmpty \/ CloseSold \/ ForceCloseCycle \/ ESetPnl \/ EReleaseConfig
  BY <1>7 DEF CloseEmpty, CloseSold, ForceCloseCycle, CloseAs, LoopOver, ESetPnl,
              EReleaseConfig
<1> QED
  BY <1>1, <1>2, <1>3, <1>4, <1>5, <1>6, <1>7 DEF Emergency

\* It writes the row of an order only to settle it, after a cancel that worked.
LEMMA EmergencyRows ==
  ASSUME Emergency
  PROVE  \/ log' = log /\ (pc' = "tick" \/ todo' \subseteq PendingRows
                           \/ (pc \in EPCs /\ todo' \subseteq todo))
         \/ CommitCancel
<1> USE DEF EPCs, EGoto, CommandDone, CancelLoop, SkipRow, db, evars
<1>1. CASE BeginLiquidation \/ \E b \in 0..MaxShares : BeginForceClose(b)
  BY <1>1 DEF BeginLiquidation, BeginForceClose
<1>2. CASE \E r \in Refs : CancelOrder(r) \/ CancelOrderLost(r) \/ CancelOrderRefused(r)
  BY <1>2 DEF CancelOrder, CancelOrderLost, CancelOrderRefused, CancelAt
<1>3. CASE CommitSaleCancel \/ BalanceFails
  BY <1>3 DEF CommitSaleCancel, BalanceFails, LoopOver
<1>4. CASE \E k \in Sales : CancelSale(k) \/ CommitRefusal(k) \/ CommitSale(k)
  BY <1>4 DEF CancelSale, CommitRefusal, CommitSale
<1>5. CASE \E k \in Sales : \E n \in 0..MaxShares : RecordSale(k, n) \/ SaleTaken(k, n)
  BY <1>5 DEF RecordSale, SaleTaken, LoopOver
<1>6. CASE SaleRefused \/ AskLost
  BY <1>6 DEF SaleRefused, AskLost
<1>7. CASE CloseEmpty \/ CloseSold \/ ForceCloseCycle \/ ESetPnl \/ EReleaseConfig
  BY <1>7 DEF CloseEmpty, CloseSold, ForceCloseCycle, CloseAs, LoopOver, ESetPnl,
              EReleaseConfig
<1> QED
  BY <1>1, <1>2, <1>3, <1>4, <1>5, <1>6, <1>7 DEF Emergency

LEMMA SettledByCommand ==
  ASSUME ETypeInv, CommitCancel
  PROVE  \E r \in todo : /\ \A q \in todo : r <= q
                         /\ log' = [log EXCEPT ![r] = LogUpdate(log[r], "CANCELED", 0)]
                         /\ todo' = todo \ {r} /\ pc' = "cancelling"
BY DEF CommitCancel, SkipRow, ETypeInv, ETypeOK

---------------------------------------------------------------------------
(* ERowsInv is inductive *)

LEMMA ERowsInit == EInit => ERowsInv
BY RowsInit, PCsApart DEF EInit, RInit, Init, ERowsInv

LEMMA ERowsNext == ETypeInv /\ ERowsInv /\ [ENext]_allvars => ERowsInv'
<1> SUFFICES ASSUME ETypeInv, ERowsInv, [ENext]_allvars PROVE ERowsInv'
  OBVIOUS
<1>1. CASE pc' \in {"tick", "down", "dead"} /\ todo' = {}
  BY <1>1, PCsApart DEF ERowsInv, RowsInv, PCs, EPCs, Sending, Polling, Correcting
<1>2. CASE UNCHANGED <<pc, log, todo, cur>>
  BY <1>2 DEF ERowsInv, RowsInv
<1>3. CASE UNCHANGED allvars \/ Account \/ Reconcile
  BY <1>2, <1>3 DEF allvars, rvars, vars, db, local, Account, SaleExpires, SaleFills,
                    Reconcile
<1>4. CASE ReconcileLost
  BY <1>1, <1>4 DEF ReconcileLost, Die
<1>5. CASE Ordinary
  <2>1. CASE pc \in PCs
    BY <1>5, <2>1, LoopTypes, RTypeNext, RowsNext, PCsApart
       DEF Ordinary, ERowsInv, RTypeInv, RTypeOK, TypeOK
  <2>2. CASE pc \in EPCs
    <3>1. CASE Exchange
      BY <1>2, <3>1, ExchangeFrame DEF ETypeInv, ETypeOK, db, local
    <3>2. CASE Crash
      BY <1>1, <3>2 DEF Crash
    <3> QED
      BY <1>5, <2>2, <3>1, <3>2, LoopStandsStill DEF Ordinary
  <2> QED
    BY <2>1, <2>2 DEF ETypeInv, ETypeOK
<1>6. CASE Emergency
  <2>1. CASE pc' = "tick"
    BY <1>1, <1>6, <2>1, EmergencyFrame
  <2>2. CASE pc' \in EPCs
    <3>1. \A r \in todo' : log'[r].st \in Live
      <4>1. CASE CommitCancel
        BY <4>1, SettledByCommand, EmergencyFrame DEF ERowsInv, ETypeInv, ETypeOK, CommitCancel, EPCs
      <4>2. CASE ~CommitCancel
        BY <1>6, <2>2, <4>2, EmergencyRows, PCsApart DEF ERowsInv, PendingRows
      <4> QED
        BY <4>1, <4>2
    <3> QED
      BY <2>2, <3>1, PCsApart DEF ERowsInv
  <2> QED
    BY <1>6, <2>1, <2>2, EmergencyFrame
<1> QED
  BY <1>3, <1>4, <1>5, <1>6 DEF ENext

LEMMA ERowsInvariant == ESpec => []ERowsInv
BY ERowsInit, ERowsNext, ETypeInvariant, PTL DEF ESpec

---------------------------------------------------------------------------
(* LiqInv is inductive *)

LEMMA CycleMovers ==
  ASSUME [RNext]_rvars, cycle' # cycle
  PROVE  PauseCycle \/ ResumeCycle \/ CloseCycle
BY DEF RNext, rvars, vars, Next, Command, EngineStep, Tick, OnTick, Exchange, Deliver,
       Fill, RejectLater, MarketClose, NextDay, Send, GuardBlocks, RecordOrder,
       MarkPending, PlaceTaken, PlaceRefused, PlaceLost, LogAccepted, LogRejected,
       LogUnknown, ListLost, ListFound, ListMissing, RestoreAfterSend, SetLog, SetStage,
       Poll, StartPoll, PollSkip, PollDies, PollRejected, PollFilled, PollOpen, Settle,
       CancelTaken, CancelLost, CancelRefused, LogCanceled, ApplyFill, RestoreAfterPoll,
       KeepCycle, SetPnl, ReleaseConfig, PollDone, Crash, Restart, RestartLost,
       RecoverStep, RecoverSkip, RecoverUnfilled, RecoverFilled, RecoverWith,
       RecoverRestore, RecoverApply, Recovered, RecoverDone, db

LEMMA StageMovers ==
  ASSUME [RNext]_rvars, stage' # stage
  PROVE  /\ \/ MarkPending \/ RestoreAfterSend \/ ApplyFill \/ RestoreAfterPoll
            \/ RecoverRestore \/ RecoverApply
         /\ pc \in Sending \cup Writing
         /\ \E row : stage' = [stage EXCEPT ![log[cur].stage] = row]
<1>1. \/ MarkPending \/ RestoreAfterSend \/ ApplyFill \/ RestoreAfterPoll
      \/ RecoverRestore \/ RecoverApply
  BY DEF RNext, rvars, vars, Next, Command, PauseCycle, ResumeCycle, Transition,
         EngineStep, Tick, OnTick, Exchange, Deliver, Fill, RejectLater, MarketClose,
         NextDay, Send, GuardBlocks, RecordOrder, PlaceTaken, PlaceRefused, PlaceLost,
         LogAccepted, LogRejected, LogUnknown, ListLost, ListFound, ListMissing, SetLog,
         Poll, StartPoll, PollSkip, PollDies, PollRejected, PollFilled, PollOpen, Settle,
         CancelTaken, CancelLost, CancelRefused, LogCanceled, KeepCycle, CloseCycle,
         SetPnl, ReleaseConfig, PollDone, Crash, Restart, RestartLost, RecoverStep,
         RecoverSkip, RecoverUnfilled, RecoverFilled, RecoverWith, Recovered,
         RecoverDone, db
<1> QED
  BY <1>1 DEF MarkPending, RestoreAfterSend, ApplyFill, RestoreAfterPoll, RecoverRestore,
              RecoverApply, SetStage, Sending, Writing, Correcting

\* In a closed cycle no order is in hand whose stage could be written.
LEMMA LoopKeepsClosed ==
  ASSUME RTypeInv, LiqInv, [RNext]_rvars, cycle = "CLOSED"
  PROVE  stage' = stage /\ cycle' = cycle
<1>1. cycle' = cycle
  BY CycleMovers DEF PauseCycle, ResumeCycle, Transition, CloseCycle
<1>2. ASSUME stage' # stage PROVE FALSE
  <2>1. pc \in Writing
    BY <1>2, StageMovers DEF LiqInv
  <2>2. log[cur].stage \notin Stages
    BY <2>1 DEF LiqInv
  <2>3. PICK row : stage' = [stage EXCEPT ![log[cur].stage] = row]
    BY <1>2, StageMovers
  <2>4. stage' = stage
    BY <2>2, <2>3 DEF RTypeInv, RTypeOK, TypeOK
  <2> QED
    BY <1>2, <2>4
<1> QED
  BY <1>1, <1>2

\* Decisions and orders in hand live between two ticks of a running cycle.
LEMMA LoopPlan ==
  ASSUME RTypeInv, LiqInv, [RNext]_rvars
  PROVE  /\ plan' # {} => pc' \in Sending \cup {"decide"}
         /\ pc' \in Sending \/ plan' # {} => pc \in Sending \/ plan # {} \/ cycle = "RUNNING"
         /\ pc' \in Sending \/ plan' # {} => cycle' = cycle
<1> USE DEF LiqInv, Sending, db
<1>1. CASE UNCHANGED rvars \/ Command \/ Exchange
  BY <1>1, ExchangeFrame DEF rvars, vars, local, Command, PauseCycle, ResumeCycle,
           Transition, RTypeInv, RTypeOK, TypeOK
<1>2. CASE Tick
  BY <1>2 DEF Tick, OnTick
<1>3. CASE Send
  BY <1>3 DEF Send, GuardBlocks, RecordOrder, Chosen, MarkPending, PlaceTaken,
              PlaceRefused, PlaceLost, LogAccepted, LogRejected, LogUnknown, ListLost,
              ListFound, ListMissing, RestoreAfterSend, Goto, SendDone, SetLog, SetStage
<1>4. CASE Poll
  BY <1>4 DEF Poll, StartPoll, PollSkip, PollDies, PollRejected, PollFilled, PollOpen,
              At, Asked, Settle, CancelTaken, CancelLost, CancelRefused, LogCanceled,
              ApplyFill, RestoreAfterPoll, KeepCycle, CloseCycle, SetPnl, ReleaseConfig,
              PollDone, Goto, NextRow, Die, SetLog, SetStage
<1>5. CASE Crash \/ Restart \/ RestartLost \/ RecoverStep \/ Recovered
  BY <1>5 DEF Crash, Restart, RestartLost, RecoverStep, RecoverSkip, RecoverAt,
              RecoverUnfilled, RecoverFilled, RecoverWith, RecoverRestore, RecoverApply,
              RecoverNext, SetStage, Recovered, RecoverDone, Goto, Die
<1> QED
  BY <1>1, <1>2, <1>3, <1>4, <1>5 DEF RNext, Next, EngineStep

\* Polling and recovery take up an order only while its stage waits for it.
LEMMA LoopWriting ==
  ASSUME RTypeInv, LiqInv, [RNext]_rvars, pc' \in Writing
  PROVE  Pending(stage'[log'[cur'].stage])
<1> USE DEF RTypeInv, RTypeOK, TypeOK
<1> USE DEF Writing, Correcting
<1>1. CASE UNCHANGED <<cur, log, stage>> /\ pc \in Writing
  BY <1>1 DEF LiqInv
<1>2. ASSUME NEW r \in Refs, NEW st, NEW fill, NEW known, cur' = r, stage' = stage,
             Pending(stage[log[r].stage]),
             \/ log' = [log EXCEPT ![r] = LogUpdate(log[r], st, fill)]
             \/ log' = [log EXCEPT ![r] = [LogUpdate(log[r], st, fill) EXCEPT !.known = known]]
      PROVE  Pending(stage'[log'[cur'].stage])
  <2>1. log'[r].stage = log[r].stage
    <3>1. /\ LogUpdate(log[r], st, fill).stage = log[r].stage
          /\ [LogUpdate(log[r], st, fill) EXCEPT !.known = known].stage = log[r].stage
      BY DEF LogUpdate, LogRow
    <3> QED
      BY <1>2, <3>1
  <2> QED
    BY <1>2, <2>1
<1>3. CASE UNCHANGED rvars \/ Command \/ Exchange
  BY <1>1, <1>3, ExchangeFrame DEF rvars, vars, local, db, Command, PauseCycle,
                                   ResumeCycle, Transition
<1>4. CASE Tick \/ Send
  BY <1>4 DEF Tick, OnTick, Send, GuardBlocks, RecordOrder, MarkPending, PlaceTaken,
              PlaceRefused, PlaceLost, LogAccepted, LogRejected, LogUnknown, ListLost,
              ListFound, ListMissing, RestoreAfterSend, Goto, SendDone
<1>5. CASE Poll
  <2>1. CASE CancelTaken
    BY <1>1, <2>1 DEF CancelTaken, Goto, db
  <2>2. CASE LogCanceled
    <3>1. /\ cur \in Refs /\ cur' = cur /\ stage' = stage
          /\ log' = [log EXCEPT ![cur] = LogUpdate(log[cur], "CANCELED", seen)]
      BY <2>2 DEF LogCanceled, SetLog, Goto, Polling
    <3>2. Pending(stage[log[cur].stage])
      BY <2>2 DEF LogCanceled, LiqInv
    <3> QED
      BY <1>2, <3>1, <3>2
  <2>3. ASSUME NEW r \in Refs, NEW st, NEW fill, NEW next, Asked(r), Settle(r, st, fill, next)
        PROVE  Pending(stage'[log'[cur'].stage])
    <3>1. /\ cur' = r /\ stage' = stage /\ Pending(stage[log[r].stage])
          /\ log' = [log EXCEPT ![r] = LogUpdate(log[r], st, fill)]
      BY <2>3 DEF Asked, Settle
    <3> QED
      BY <1>2, <3>1
  <2>4. ASSUME NEW r \in Refs,
               PollRejected(r) \/ PollFilled(r) \/ \E expired \in BOOLEAN : PollOpen(r, expired)
        PROVE  Pending(stage'[log'[cur'].stage])
    BY <2>3, <2>4 DEF PollRejected, PollFilled, PollOpen
  <2> QED
    BY <1>5, <2>1, <2>2, <2>4
       DEF Poll, StartPoll, PollSkip, PollDies, CancelLost, CancelRefused, ApplyFill,
           RestoreAfterPoll, KeepCycle, CloseCycle, SetPnl, ReleaseConfig, PollDone, Goto,
           NextRow, Die
<1>6. CASE RecoverStep
  <2>1. ASSUME NEW r \in Refs, RecoverUnfilled(r) \/ RecoverFilled(r)
        PROVE  Pending(stage'[log'[cur'].stage])
    <3>1. /\ cur' = r /\ stage' = stage /\ Pending(stage[log[r].stage])
          /\ \E st, known : log' = [log EXCEPT ![r] =
               [LogUpdate(log[r], st, listed[r].filled) EXCEPT !.known = known]]
      BY <2>1 DEF RecoverUnfilled, RecoverFilled, RecoverWith
    <3> QED
      BY <1>2, <3>1
  <2> QED
    BY <1>6, <2>1 DEF RecoverStep, RecoverSkip, RecoverAt, RecoverRestore, RecoverApply,
                      RecoverNext
<1>7. CASE Crash \/ Restart \/ RestartLost \/ Recovered
  BY <1>7 DEF Crash, Restart, RestartLost, Recovered, RecoverDone, Goto, Die
<1> QED
  BY <1>3, <1>4, <1>5, <1>6, <1>7 DEF RNext, Next, EngineStep

LEMMA LiqInit == EInit => LiqInv
BY DEF EInit, RInit, Init, LiqInv, Sending, Writing, Correcting, EPCs

LEMMA LiqNext == ETypeInv /\ LiqInv /\ [ENext]_allvars => LiqInv'
<1> SUFFICES ASSUME ETypeInv, LiqInv, [ENext]_allvars PROVE LiqInv'
  OBVIOUS
<1>1. CASE UNCHANGED <<plan, pc, cycle, stage, log, cur>>
  BY <1>1 DEF LiqInv
<1>2. CASE pc' \in {"down", "dead"} /\ plan' = {} /\ UNCHANGED <<stage, cycle>>
  BY <1>2 DEF LiqInv, Sending, Writing, Correcting, EPCs
<1>3. CASE UNCHANGED allvars \/ Account
  BY <1>1, <1>3 DEF allvars, rvars, vars, db, local, Account, SaleExpires, SaleFills
<1>4. CASE Reconcile
  BY <1>4 DEF Reconcile, LiqInv, local, Sending, Writing, Correcting, EPCs
<1>5. CASE ReconcileLost
  BY <1>2, <1>5 DEF ReconcileLost, Die, db
<1>6. CASE Ordinary
  <2>1. CASE pc \in PCs
    <3>1. RTypeInv /\ [RNext]_rvars /\ RTypeInv'
      BY <1>6, <2>1, LoopTypes, RTypeNext DEF Ordinary
    <3>2. pc' \notin EPCs
      BY <3>1, PCsApart DEF RTypeInv, RTypeOK, TypeOK
    <3>3. ASSUME cycle' = "CLOSED" PROVE \A s \in Stages : ~Pending(stage'[s])
      <4>1. CASE cycle = "CLOSED"
        BY <3>1, <3>3, <4>1, LoopKeepsClosed DEF LiqInv
      <4>2. CASE cycle # "CLOSED"
        <5>1. CloseCycle
          BY <3>1, <3>3, <4>2, CycleMovers DEF PauseCycle, ResumeCycle, Transition
        <5> QED
          BY <5>1 DEF CloseCycle, Complete
      <4> QED
        BY <4>1, <4>2
    <3>4. /\ plan' # {} => pc' \in Sending \cup {"decide"}
          /\ pc' \in Sending \/ plan' # {} => cycle' = "RUNNING"
      BY <3>1, LoopPlan DEF LiqInv
    <3>5. pc' \in Writing => Pending(stage'[log'[cur'].stage])
      BY <3>1, LoopWriting
    <3> QED
      BY <3>2, <3>3, <3>4, <3>5 DEF LiqInv, Pending
  <2>2. CASE pc \in EPCs
    <3>1. CASE Exchange
      BY <1>1, <3>1, ExchangeFrame DEF ETypeInv, ETypeOK, db, local
    <3>2. CASE Crash
      BY <1>2, <3>2 DEF Crash, db
    <3> QED
      BY <1>6, <2>2, <3>1, <3>2, LoopStandsStill DEF Ordinary
  <2> QED
    BY <2>1, <2>2 DEF ETypeInv, ETypeOK
<1>7. CASE Emergency
  <2>1. plan' = {} /\ pc' \notin Sending \cup Writing
    BY <1>7, EmergencyFrame DEF LiqInv, EPCs, Sending, Writing, Correcting
  <2>2. pc' \in Commanding => cycle' = "LIQUIDATING"
    BY <1>7, EmergencyCycle DEF LiqInv, Commanding
  <2>3. ASSUME cycle' = "CLOSED" PROVE \A s \in Stages : ~Pending(stage'[s])
    <3>1. CASE stage' = [s \in Stages |-> ForceSold(stage[s])]
      BY <3>1 DEF ForceSold, Pending
    <3>2. CASE stage' = stage /\ cycle' = cycle
      BY <2>3, <3>2 DEF LiqInv
    <3> QED
      BY <1>7, <2>3, <3>1, <3>2, EmergencyCycle
  <2> QED
    BY <2>1, <2>2, <2>3 DEF LiqInv, Commanding, Pending
<1> QED
  BY <1>3, <1>4, <1>5, <1>6, <1>7 DEF ENext

LEMMA LiqInvariant == ESpec => []LiqInv
BY LiqInit, LiqNext, ETypeInvariant, PTL DEF ESpec

---------------------------------------------------------------------------
(* What is recorded is true *)

\* The record of the exchange never shrinks, and an order appears in it only
\* when it is placed.
BookGrows ==
  \A r \in Refs :
    /\ book[r].filled <= book'[r].filled
    /\ book'[r].st \in {"NONE", "TRANSIT"} => book'[r].filled = 0
    /\ book'[r].st # "NONE" => \/ book[r].st # "NONE"
                               \/ /\ r = cur /\ pc = "placing"
                                  /\ pc' \notin {"recorded", "placing"}
    /\ book'[r].st \in Working \cup {"TRANSIT"} =>
         \/ book[r].st \in Working \cup {"TRANSIT"}
         \/ r = cur /\ pc = "placing"

\* A row is written with a fill the exchange has; and it is settled, as long as
\* nothing has crashed, only when the exchange is done with the order.
TrueRow ==
  \/ log' = log
  \/ \E r \in Refs : \E row \in LogRow :
       /\ log' = [log EXCEPT ![r] = row] /\ book' = book
       /\ row.st # "NONE" /\ row.fill <= book[r].filled
       /\ crashes' = 0 /\ row.known /\ row.st \in Terminal => ~AtExchange(r)

LEMMA BookGrowsInLoop ==
  ASSUME book \in [Refs -> BookRow], log \in [Refs -> LogRow],
         pc \in Sending \cup Polling => cur \in Refs, FillInv, [RNext]_rvars
  PROVE  BookGrows
<1> USE DEF BookGrows
<1>1. \A r \in Refs : book[r].filled \in Nat
  BY DEF BookRow, Qty
<1>2. CASE book' = book
  BY <1>1, <1>2 DEF FillInv
<1>3. CASE Exchange
  <2>1. ASSUME NEW r \in Refs, Deliver(r) PROVE BookGrows
    BY <1>1, <2>1 DEF Deliver, Place, FillInv, BookRow, Working
  <2>2. ASSUME NEW r \in Refs, NEW f \in Qty, Fill(r, f) PROVE BookGrows
    BY <1>1, <2>2 DEF Fill, FillInv, BookRow, Working, Qty
  <2>3. ASSUME NEW r \in Refs, RejectLater(r) PROVE BookGrows
    BY <1>1, <2>3 DEF RejectLater, FillInv, BookRow, Working
  <2>4. CASE MarketClose
    BY <1>1, <2>4 DEF MarketClose, FillInv, BookRow, Working
  <2> QED
    BY <1>2, <1>3, <2>1, <2>2, <2>3, <2>4 DEF Exchange, NextDay
<1>4. CASE PlaceLost
  BY <1>1, <1>4 DEF PlaceLost, Goto, FillInv, BookRow, Sending
<1>5. ASSUME NEW f \in Qty, PlaceTaken(f) PROVE BookGrows
  BY <1>1, <1>5 DEF PlaceTaken, Place, Goto, FillInv, BookRow, Sending, Qty
<1>6. CASE CancelTaken
  BY <1>1, <1>6 DEF CancelTaken, FillInv, BookRow, Polling, Working
<1> QED
  BY <1>2, <1>3, <1>4, <1>5, <1>6, BookMovers

LEMMA RowFacts ==
  ASSUME NEW row \in LogRow, NEW st \in Live \cup Terminal, NEW f \in Qty, NEW b \in Qty,
         row.fill <= b, f <= b
  PROVE  /\ LogUpdate(row, st, f) \in LogRow
         /\ LogUpdate(row, st, f).st = st
         /\ LogUpdate(row, st, f).known = row.known
         /\ LogUpdate(row, st, f).fill <= b
BY DEF LogUpdate, LogRow

LEMMA TrueRowInLoop ==
  ASSUME RTypeInv, RowsInv, FillInv, WatchInv, [RNext]_rvars
  PROVE  TrueRow
<1> USE QtyFacts DEF RTypeInv, RTypeOK, TypeOK
<1>1. \A r \in Refs : /\ log[r] \in LogRow /\ book[r].filled \in Qty
                      /\ log[r].fill <= book[r].filled /\ 0 <= book[r].filled
  BY DEF BookRow, FillInv, Qty
<1>2. ASSUME NEW r \in Refs, NEW st \in Live \cup Terminal, NEW f \in Qty,
             f <= book[r].filled, book' = book,
             log' = [log EXCEPT ![r] = LogUpdate(log[r], st, f)],
             crashes' = 0 /\ log[r].known /\ st \in Terminal => ~AtExchange(r)
      PROVE  TrueRow
  <2> DEFINE row == LogUpdate(log[r], st, f)
  <2>1. /\ row \in LogRow /\ row.st = st /\ row.known = log[r].known
        /\ row.fill <= book[r].filled
    BY <1>1, <1>2, RowFacts
  <2> HIDE DEF row
  <2> QED
    BY <1>2, <2>1 DEF row, TrueRow, Live, Terminal
<1>3. CASE log' = log
  BY <1>3 DEF TrueRow
<1>4. CASE Send
  <2>1. ASSUME NEW s \in Stages, NEW r \in Refs, RecordOrder(s, r) PROVE TrueRow
    <3> DEFINE row == [st |-> "SENDING", stage |-> s, side |-> Side(s),
                       req |-> IF Side(s) = "BUY" THEN Lot ELSE stage[s].qty,
                       known |-> FALSE, fill |-> 0]
    <3>1. row \in LogRow
      BY StageAssumption DEF LogRow, StageRow, Sides, Side, Live, Stages
    <3>2. log' = [log EXCEPT ![r] = row] /\ book' = book
      BY <2>1 DEF RecordOrder, market
    <3> QED
      BY <1>1, <3>1, <3>2 DEF TrueRow
  <2>2. CASE LogAccepted \/ ListFound
    <3> DEFINE row == [log[cur] EXCEPT !.st = "ACCEPTED", !.known = TRUE]
    <3>1. cur \in Refs
      BY <2>2 DEF LogAccepted, ListFound, Sending
    <3>2. row \in LogRow /\ row.st = "ACCEPTED" /\ row.fill = log[cur].fill
      BY <3>1 DEF LogRow, Live
    <3>3. log' = [log EXCEPT ![cur] = row] /\ book' = book
      BY <2>2, <3>1 DEF LogAccepted, ListFound, market
    <3> HIDE DEF row
    <3> QED
      BY <1>1, <3>1, <3>2, <3>3 DEF TrueRow, Terminal
  <2>3. CASE LogRejected \/ LogUnknown \/ ListMissing
    <3>1. cur \in Refs /\ ~log[cur].known /\ book' = book
      BY <2>3 DEF LogRejected, LogUnknown, ListMissing, Sending, WatchInv, market
    <3>2. PICK st \in Live \cup Terminal :
            log' = [log EXCEPT ![cur] = LogUpdate(log[cur], st, 0)]
      BY <2>3, <3>1 DEF LogRejected, LogUnknown, ListMissing, SetLog, Live, Terminal
    <3> QED
      BY <1>1, <1>2, <3>1, <3>2
  <2> QED
    BY <1>3, <1>4, <2>1, <2>2, <2>3
       DEF Send, GuardBlocks, MarkPending, PlaceTaken, PlaceRefused, PlaceLost, ListLost,
           RestoreAfterSend, SetStage, db
<1>5. CASE Poll
  <2>1. ASSUME NEW r \in Refs, NEW st \in Live \cup Terminal, NEW f \in {0, book[r].filled},
               NEW next, Settle(r, st, f, next), st \in Live \/ ~AtExchange(r)
        PROVE  TrueRow
    <3>1. /\ book' = book
          /\ log' = [log EXCEPT ![r] = LogUpdate(log[r], st, f)]
      BY <2>1 DEF Settle, market
    <3>2. f \in Qty /\ f <= book[r].filled
      BY <1>1 DEF Qty
    <3> QED
      BY <1>2, <2>1, <3>1, <3>2 DEF Live, Terminal
  <2>2. ASSUME NEW r \in Refs, PollRejected(r) \/ PollFilled(r) PROVE TrueRow
    <3>1. CASE PollRejected(r)
      <4>1. Settle(r, "REJECTED", 0, "undo") /\ ~AtExchange(r)
        BY <3>1 DEF PollRejected, AtExchange, Working
      <4>2. "REJECTED" \in Live \cup Terminal
        BY DEF Terminal
      <4> QED
        BY <2>1, <4>1, <4>2
    <3>2. CASE PollFilled(r)
      <4>1. Settle(r, "FILLED", book[r].filled, "apply") /\ ~AtExchange(r)
        BY <3>2 DEF PollFilled, AtExchange, Working
      <4>2. "FILLED" \in Live \cup Terminal
        BY DEF Terminal
      <4> QED
        BY <2>1, <4>1, <4>2
    <3> QED
      BY <2>2, <3>1, <3>2
  <2>3. ASSUME NEW r \in Refs, NEW expired \in BOOLEAN, PollOpen(r, expired) PROVE TrueRow
    <3> DEFINE st == IF book[r].filled > 0 THEN "PARTIAL" ELSE log[r].st
               next == IF expired THEN "cancel" ELSE "closing"
    <3>1. At(r) /\ Settle(r, st, book[r].filled, next)
      BY <2>3 DEF PollOpen, Asked
    <3>2. st \in Live
      BY <3>1 DEF At, RowsInv, Polling, Correcting, Live
    <3> HIDE DEF st, next
    <3> QED
      BY <2>1, <3>1, <3>2
  <2>4. CASE LogCanceled
    <3>1. /\ cur \in Refs /\ book' = book /\ seen <= book[cur].filled
          /\ log' = [log EXCEPT ![cur] = LogUpdate(log[cur], "CANCELED", seen)]
      BY <2>4 DEF LogCanceled, SetLog, Polling, FillInv, market
    <3>2. ~AtExchange(cur) /\ "CANCELED" \in Live \cup Terminal
      BY <2>4 DEF LogCanceled, WatchInv, Terminal
    <3> QED
      BY <1>2, <3>1, <3>2
  <2> QED
    BY <1>3, <1>5, <2>2, <2>3, <2>4
       DEF Poll, StartPoll, PollSkip, PollDies, CancelTaken, CancelLost, CancelRefused,
           ApplyFill, RestoreAfterPoll, SetStage, KeepCycle, CloseCycle, SetPnl,
           ReleaseConfig, PollDone, db
<1>6. CASE RecoverStep /\ UNCHANGED <<crashes, listed>>
  <2>1. ASSUME NEW r \in Refs, NEW st \in Terminal, NEW known \in BOOLEAN, NEW next,
               RecoverWith(r, st, known, next)
        PROVE  TrueRow
    <3> DEFINE new == LogUpdate(log[r], st, listed[r].filled)
               row == [new EXCEPT !.known = @ \/ known]
    <3>1. listed[r].filled \in Qty /\ listed[r].filled <= book[r].filled
      BY DEF FillInv, BookRow
    <3>2. new \in LogRow /\ new.st = st /\ new.fill <= book[r].filled
      BY <1>1, <3>1, RowFacts
    <3> HIDE DEF new
    <3>3. row \in LogRow /\ row.st = st /\ row.fill <= book[r].filled
      BY <3>2 DEF LogRow
    <3>4. log' = [log EXCEPT ![r] = row] /\ book' = book
      BY <2>1 DEF RecoverWith, market, new
    <3>5. crashes' # 0
      BY <1>6, <2>1 DEF RecoverWith, RecoverAt, WatchInv
    <3> HIDE DEF row
    <3> QED
      BY <3>3, <3>4, <3>5 DEF TrueRow, Terminal
  <2>2. ASSUME NEW r \in Refs, RecoverUnfilled(r) \/ RecoverFilled(r) PROVE TrueRow
    BY <2>1, <2>2 DEF RecoverUnfilled, RecoverFilled, Terminal
  <2> QED
    BY <1>3, <1>6, <2>2 DEF RecoverStep, RecoverSkip, RecoverRestore, RecoverApply,
                            SetStage, db
<1> QED
  BY <1>3, <1>4, <1>5, <1>6, ExchangeFrame
     DEF RNext, rvars, vars, Next, EngineStep, Command, PauseCycle, ResumeCycle, Transition,
         Tick, OnTick, Crash, Restart, RestartLost, Recovered, RecoverDone, db

\* How the engine comes to send an order, and to cancel one.
LEMMA ReachSending ==
  ASSUME [RNext]_rvars, pc' \in {"recorded", "placing"}
  PROVE  \/ pc' = pc /\ cur' = cur
         \/ pc = "recorded" /\ cur' = cur /\ book' = book
         \/ \E s \in Stages, r \in Refs : RecordOrder(s, r)
<1>1. CASE UNCHANGED rvars \/ Command \/ Exchange
  BY <1>1 DEF rvars, vars, local, Command, PauseCycle, ResumeCycle, Transition, Exchange,
              Deliver, Fill, RejectLater, MarketClose, NextDay
<1>2. CASE Tick \/ Send
  BY <1>2 DEF Tick, OnTick, Send, GuardBlocks, MarkPending, PlaceTaken, PlaceRefused,
              PlaceLost, LogAccepted, LogRejected, LogUnknown, ListLost, ListFound,
              ListMissing, RestoreAfterSend, Goto, SendDone, market
<1>3. CASE Poll
  BY <1>3 DEF Poll, StartPoll, PollSkip, PollDies, PollRejected, PollFilled, PollOpen,
              Settle, CancelTaken, CancelLost, CancelRefused, LogCanceled, ApplyFill,
              RestoreAfterPoll, KeepCycle, CloseCycle, SetPnl, ReleaseConfig, PollDone,
              Goto, NextRow, Die
<1>4. CASE Crash \/ Restart \/ RestartLost \/ RecoverStep \/ Recovered
  BY <1>4 DEF Crash, Restart, RestartLost, RecoverStep, RecoverSkip, RecoverAt,
              RecoverUnfilled, RecoverFilled, RecoverWith, RecoverRestore, RecoverApply,
              RecoverNext, Recovered, RecoverDone, Goto, Die
<1> QED
  BY <1>1, <1>2, <1>3, <1>4 DEF RNext, Next, EngineStep

LEMMA ReachCancel ==
  ASSUME [RNext]_rvars, pc' \in {"cancel", "canceled"}
  PROVE  \/ UNCHANGED <<pc, cur, seen>>
         \/ CancelTaken
         \/ /\ pc' = "cancel" /\ book' = book
            /\ \E r \in Refs : cur' = r /\ seen' = book[r].filled
<1>1. CASE UNCHANGED rvars \/ Command \/ Exchange
  BY <1>1 DEF rvars, vars, local, Command, PauseCycle, ResumeCycle, Transition, Exchange,
              Deliver, Fill, RejectLater, MarketClose, NextDay
<1>2. CASE Tick \/ Send
  BY <1>2 DEF Tick, OnTick, Send, GuardBlocks, RecordOrder, MarkPending, PlaceTaken,
              PlaceRefused, PlaceLost, LogAccepted, LogRejected, LogUnknown, ListLost,
              ListFound, ListMissing, RestoreAfterSend, Goto, SendDone
<1>3. CASE Poll
  BY <1>3 DEF Poll, StartPoll, PollSkip, PollDies, PollRejected, PollFilled, PollOpen,
              Settle, CancelLost, CancelRefused, LogCanceled, ApplyFill, RestoreAfterPoll,
              KeepCycle, CloseCycle, SetPnl, ReleaseConfig, PollDone, Goto, NextRow, Die,
              market
<1>4. CASE Crash \/ Restart \/ RestartLost \/ RecoverStep \/ Recovered
  BY <1>4 DEF Crash, Restart, RestartLost, RecoverStep, RecoverSkip, RecoverAt,
              RecoverUnfilled, RecoverFilled, RecoverWith, RecoverRestore, RecoverApply,
              RecoverNext, Recovered, RecoverDone, Goto, Die
<1> QED
  BY <1>1, <1>2, <1>3, <1>4 DEF RNext, Next, EngineStep

LEMMA ListedMoves ==
  ASSUME [RNext]_rvars
  PROVE  \/ listed' = listed \/ listed' = NothingListed
         \/ /\ listed' = [r \in Refs |-> IF r \in today THEN book[r] ELSE Unlisted]
            /\ book' = book
BY DEF RNext, rvars, Crash, Restart, RestartLost, Recovered, market

LEMMA FillLoop ==
  ASSUME RTypeInv, RowsInv, RTypeInv', FillInv, WatchInv, [RNext]_rvars
  PROVE  FillInv'
<1> USE DEF RTypeInv, RTypeOK, TypeOK
<1>1. BookGrows
  BY BookGrowsInLoop
<1>2. \A r \in Refs : /\ book[r].filled \in Nat /\ book'[r].filled \in Nat
                      /\ log[r].fill \in Nat /\ listed[r].filled \in Nat
  BY DEF BookRow, LogRow, Qty
<1>3. ASSUME NEW r \in Refs PROVE log'[r].fill <= book'[r].filled
  <2>1. CASE log'[r] = log[r]
    BY <1>1, <1>2, <2>1 DEF FillInv, BookGrows
  <2>2. CASE log'[r] # log[r]
    BY <2>2, TrueRowInLoop DEF TrueRow
  <2> QED
    BY <2>1, <2>2
<1>4. ASSUME NEW r \in Refs PROVE listed'[r].filled <= book'[r].filled
  <2>1. CASE listed' = listed
    BY <1>1, <1>2, <2>1 DEF FillInv, BookGrows
  <2>2. CASE listed' = NothingListed
    BY <1>2, <2>2 DEF NothingListed, Unlisted
  <2>3. CASE /\ listed' = [q \in Refs |-> IF q \in today THEN book[q] ELSE Unlisted]
             /\ book' = book
    BY <1>2, <2>3 DEF Unlisted
  <2> QED
    BY <2>1, <2>2, <2>3, ListedMoves
<1>5. ASSUME NEW r \in Refs, book'[r].st # "NONE" PROVE log'[r].st # "NONE"
  <2>1. log[r].st # "NONE"
    <3>1. CASE book[r].st # "NONE"
      BY <3>1 DEF FillInv, WriteAhead
    <3>2. CASE r = cur /\ pc = "placing"
      BY <3>2 DEF RowsInv, Sending, Live
    <3> QED
      BY <1>1, <1>5, <3>1, <3>2 DEF BookGrows
  <2> QED
    BY <2>1, TrueRowInLoop DEF TrueRow
<1>6. ASSUME pc' \in {"recorded", "placing"} PROVE book'[cur'].st = "NONE"
  <2>1. CASE pc' = pc /\ cur' = cur
    BY <1>1, <1>6, <2>1 DEF FillInv, BookGrows, Sending
  <2>2. CASE pc = "recorded" /\ cur' = cur /\ book' = book
    BY <2>2 DEF FillInv
  <2>3. ASSUME NEW s \in Stages, NEW r \in Refs, RecordOrder(s, r)
        PROVE  book'[cur'].st = "NONE"
    BY <2>3 DEF RecordOrder, NextRef, FillInv, WriteAhead, market
  <2> QED
    BY <1>6, <2>1, <2>2, <2>3, ReachSending
<1>7. ASSUME pc' \in {"cancel", "canceled"} PROVE seen' <= book'[cur'].filled
  <2>1. CASE UNCHANGED <<pc, cur, seen>>
    <3>1. cur \in Refs /\ seen <= book[cur].filled /\ seen \in Nat
      BY <1>7, <2>1 DEF FillInv, Polling, Qty
    <3> QED
      BY <1>1, <1>2, <2>1, <3>1 DEF BookGrows
  <2>2. CASE CancelTaken
    <3>1. cur \in Refs /\ cur' = cur /\ seen' = seen /\ seen <= book[cur].filled
          /\ seen \in Nat
      BY <1>7, <2>2 DEF CancelTaken, Goto, FillInv, Polling, Qty
    <3> QED
      BY <1>1, <1>2, <3>1 DEF BookGrows
  <2>3. ASSUME NEW r \in Refs, cur' = r, seen' = book[r].filled, book' = book
        PROVE  seen' <= book'[cur'].filled
    BY <1>2, <2>3
  <2> QED
    BY <1>7, <2>1, <2>2, <2>3, ReachCancel
<1> QED
  BY <1>1, <1>3, <1>4, <1>5, <1>6, <1>7 DEF FillInv, WriteAhead, BookGrows

\* A command cancels orders at the exchange and does nothing else to them.
LEMMA EmergencyBook ==
  ASSUME Emergency
  PROVE  \/ book' = book
         \/ \E r \in Refs : /\ book[r].st \in Working
                            /\ book' = [book EXCEPT ![r].st = "CANCELED"]
<1> USE DEF db, market, evars
<1>1. CASE BeginLiquidation \/ \E b \in 0..MaxShares : BeginForceClose(b)
  BY <1>1 DEF BeginLiquidation, BeginForceClose
<1>2. CASE \E r \in Refs : CancelOrder(r) \/ CancelOrderLost(r) \/ CancelOrderRefused(r)
  BY <1>2 DEF CancelOrder, CancelOrderLost, CancelOrderRefused
<1>3. CASE CommitCancel \/ CommitSaleCancel \/ BalanceFails
  BY <1>3 DEF CommitCancel, CommitSaleCancel, BalanceFails
<1>4. CASE \E k \in Sales : CancelSale(k) \/ CommitRefusal(k) \/ CommitSale(k)
  BY <1>4 DEF CancelSale, CommitRefusal, CommitSale
<1>5. CASE \E k \in Sales : \E n \in 0..MaxShares : RecordSale(k, n) \/ SaleTaken(k, n)
  BY <1>5 DEF RecordSale, SaleTaken
<1>6. CASE SaleRefused \/ AskLost
  BY <1>6 DEF SaleRefused, AskLost
<1>7. CASE CloseEmpty \/ CloseSold \/ ForceCloseCycle \/ ESetPnl \/ EReleaseConfig
  BY <1>7 DEF CloseEmpty, CloseSold, ForceCloseCycle, CloseAs, ESetPnl, EReleaseConfig
<1> QED
  BY <1>1, <1>2, <1>3, <1>4, <1>5, <1>6, <1>7 DEF Emergency

LEMMA FillInit == EInit => FillInv
BY DEF EInit, RInit, Init, FillInv, WriteAhead, NothingListed, Unlisted, NoRow

LEMMA FillNext ==
  ETypeInv /\ ERowsInv /\ FillInv /\ WatchInv /\ [ENext]_allvars => FillInv'
<1> SUFFICES ASSUME ETypeInv, ERowsInv, FillInv, WatchInv, [ENext]_allvars
             PROVE  FillInv'
  OBVIOUS
<1> USE DEF ETypeInv, ETypeOK
<1>1. CASE UNCHANGED <<log, book, listed>> /\ (UNCHANGED local \/ pc' = "dead")
  BY <1>1 DEF FillInv, WriteAhead, local
<1>2. CASE UNCHANGED allvars \/ Account \/ Reconcile \/ ReconcileLost
  BY <1>1, <1>2 DEF allvars, rvars, vars, db, market, Account, SaleExpires, SaleFills,
                    Reconcile, ReconcileLost, Die
<1>3. CASE Ordinary
  <2>1. CASE pc \in PCs
    BY <1>3, <2>1, LoopTypes, RTypeNext, FillLoop DEF Ordinary, ERowsInv
  <2>2. CASE pc \in EPCs
    <3>1. CASE Exchange /\ UNCHANGED <<crashes, listed>>
      <4>1. UNCHANGED <<db, local, listed>> /\ BookGrows /\ book' \in [Refs -> BookRow]
        BY <1>3, <3>1, ExchangeFrame, BookGrowsInLoop DEF Ordinary
      <4>2. pc' \notin {"recorded", "placing", "cancel", "canceled"} /\ pc # "placing"
        BY <2>2, <4>1 DEF local, EPCs
      <4>3. \A r \in Refs : /\ book[r].filled \in Nat /\ book'[r].filled \in Nat
                            /\ log[r].fill \in Nat /\ listed[r].filled \in Nat
        BY <4>1 DEF BookRow, LogRow, Qty
      <4> QED
        BY <4>1, <4>2, <4>3 DEF FillInv, WriteAhead, BookGrows, db
    <3>2. CASE Crash
      BY <3>2 DEF Crash, FillInv, WriteAhead, NothingListed, Unlisted, db, market, BookRow, Qty
    <3> QED
      BY <1>3, <2>2, <3>1, <3>2, LoopStandsStill DEF Ordinary
  <2> QED
    BY <2>1, <2>2
<1>4. CASE Emergency
  <2>1. UNCHANGED listed /\ pc' \notin {"recorded", "placing", "cancel", "canceled"}
    BY <1>4, EmergencyFrame DEF EPCs
  <2>2. \A r \in Refs : /\ book'[r].filled = book[r].filled
                        /\ book'[r].st \in {"NONE", "TRANSIT"} => book[r].st \in {"NONE", "TRANSIT"}
                        /\ book'[r].st # "NONE" => book[r].st # "NONE"
    BY <1>4, EmergencyBook DEF BookRow, Working
  <2>3. \A r \in Refs : /\ log'[r].fill = log[r].fill
                        /\ log[r].st # "NONE" => log'[r].st # "NONE"
    <3>1. CASE CommitCancel
      <4>1. PICK r \in todo : log' = [log EXCEPT ![r] = LogUpdate(log[r], "CANCELED", 0)]
        BY <3>1, SettledByCommand
      <4>2. /\ LogUpdate(log[r], "CANCELED", 0).st = "CANCELED"
            /\ LogUpdate(log[r], "CANCELED", 0).fill = log[r].fill
        BY DEF LogUpdate, LogRow
      <4> QED
        BY <4>1, <4>2
    <3> QED
      BY <1>4, <3>1, EmergencyRows
  <2> QED
    BY <2>1, <2>2, <2>3 DEF FillInv, WriteAhead
<1> QED
  BY <1>2, <1>3, <1>4 DEF ENext

---------------------------------------------------------------------------
(* An order is settled when it is over *)

LEMMA WatchInit == EInit => WatchInv
BY DEF EInit, RInit, Init, WatchInv, NumberedOrderIsWatched, NoRow, Terminal, Sending,
       Correcting

\* The order in hand gets its number with its answer, and only a cancel that
\* worked leads to "canceled".
LEMMA LoopInHand ==
  ASSUME RTypeInv, WatchInv, [RNext]_rvars
  PROVE  /\ pc' \in Sending \ {"acked", "unsend"} => ~log'[cur'].known
         /\ pc' = "canceled" => CancelTaken \/ UNCHANGED <<pc, cur>>
         /\ pc' \in {"down", "recover"} \cup Correcting =>
              crashes' > 0 \/ pc \in {"down", "recover"} \cup Correcting
<1> USE DEF RTypeInv, RTypeOK, TypeOK, Correcting
<1>1. CASE UNCHANGED rvars \/ Command \/ Exchange
  BY <1>1, ExchangeFrame DEF rvars, vars, db, local, Command, PauseCycle, ResumeCycle,
                             Transition, WatchInv
<1>2. CASE Tick
  BY <1>2 DEF Tick, OnTick, Sending
<1>3. CASE Send
  <2>1. pc' \notin {"canceled", "down", "recover", "rundo", "rapply"}
    BY <1>3 DEF Send, GuardBlocks, RecordOrder, MarkPending, PlaceTaken, PlaceRefused,
                PlaceLost, LogAccepted, LogRejected, LogUnknown, ListLost, ListFound,
                ListMissing, RestoreAfterSend, Goto, SendDone
  <2>2. ASSUME pc' \in Sending \ {"acked", "unsend"} PROVE ~log'[cur'].known
    <3>1. ASSUME NEW s \in Stages, NEW r \in Refs, RecordOrder(s, r)
          PROVE  ~log'[cur'].known
      BY <3>1 DEF RecordOrder
    <3>2. CASE LogUnknown
      <4>1. cur \in Refs /\ cur' = cur /\ ~log[cur].known
            /\ log' = [log EXCEPT ![cur] = LogUpdate(log[cur], "UNKNOWN", 0)]
        BY <3>2 DEF LogUnknown, SetLog, Goto, Sending, WatchInv
      <4>2. LogUpdate(log[cur], "UNKNOWN", 0).known = log[cur].known
        BY <4>1 DEF LogUpdate, LogRow
      <4> QED
        BY <4>1, <4>2
    <3>3. CASE MarkPending \/ PlaceRefused \/ PlaceLost \/ \E f \in Qty : PlaceTaken(f)
      BY <3>3 DEF MarkPending, PlaceRefused, PlaceLost, PlaceTaken, Goto, db, WatchInv,
                  Sending
    <3> QED
      BY <1>3, <2>2, <3>1, <3>2, <3>3
         DEF Send, GuardBlocks, LogAccepted, LogRejected, ListLost, ListFound, ListMissing,
             RestoreAfterSend, Goto, SendDone, Sending
  <2> QED
    BY <2>1, <2>2
<1>4. CASE Poll
  BY <1>4 DEF Poll, StartPoll, PollSkip, PollDies, PollRejected, PollFilled, PollOpen,
              Settle, CancelLost, CancelRefused, LogCanceled, ApplyFill, RestoreAfterPoll,
              KeepCycle, CloseCycle, SetPnl, ReleaseConfig, PollDone, Goto, NextRow, Die,
              CancelTaken, Sending
<1>5. CASE Crash
  BY <1>5 DEF Crash, Sending
<1>6. CASE Restart \/ RestartLost \/ RecoverStep \/ Recovered
  BY <1>6 DEF Restart, RestartLost, RecoverStep, RecoverSkip, RecoverAt, RecoverUnfilled,
              RecoverFilled, RecoverWith, RecoverRestore, RecoverApply, RecoverNext,
              Recovered, RecoverDone, Goto, Die, Sending
<1> QED
  BY <1>1, <1>2, <1>3, <1>4, <1>5, <1>6 DEF RNext, Next, EngineStep

LEMMA CrashesGrow == ASSUME [RNext]_rvars, crashes \in Nat PROVE crashes' >= crashes
BY DEF RNext, rvars, Crash, Restart, RestartLost, Recovered

LEMMA WatchLoop ==
  ASSUME RTypeInv, RowsInv, FillInv, WatchInv, [RNext]_rvars, pc' \notin EPCs
  PROVE  WatchInv'
<1> USE DEF RTypeInv, RTypeOK, TypeOK
<1>1. crashes \in Nat /\ crashes' >= crashes
  BY CrashesGrow, RecoveryAssumption
<1>2. BookGrows /\ TrueRow
  BY BookGrowsInLoop, TrueRowInLoop
<1>3. ASSUME crashes' = 0, NEW r \in Refs, log'[r].known, log'[r].st \in Terminal
      PROVE  ~AtExchange(r)'
  <2>1. CASE log'[r] = log[r]
    <3>1. ~AtExchange(r)
      BY <1>1, <1>3, <2>1 DEF WatchInv, NumberedOrderIsWatched
    <3>2. ~(r = cur /\ pc = "placing")
      BY <1>3, <2>1 DEF RowsInv, Sending, Live, Terminal
    <3> QED
      BY <1>2, <3>1, <3>2 DEF BookGrows, AtExchange
  <2>2. CASE log'[r] # log[r]
    BY <1>2, <1>3, <2>2 DEF TrueRow, AtExchange
  <2> QED
    BY <2>1, <2>2
<1>4. ASSUME pc' = "canceled" PROVE ~AtExchange(cur)'
  <2>1. CASE CancelTaken
    BY <2>1 DEF CancelTaken, Goto, AtExchange, Working, Polling
  <2>2. CASE UNCHANGED <<pc, cur>>
    BY <1>2, <1>4, <2>2 DEF WatchInv, BookGrows, AtExchange, Polling
  <2> QED
    BY <1>4, <2>1, <2>2, LoopInHand
<1>5. crashes' = 0 => pc' \notin {"down", "recover"} \cup Correcting
  BY <1>1, LoopInHand DEF WatchInv
<1>6. pc' \in Sending \ {"acked", "unsend"} => ~log'[cur'].known
  BY LoopInHand
<1>7. pc' # "cancelled"
  BY DEF EPCs
<1> QED
  BY <1>3, <1>4, <1>5, <1>6, <1>7 DEF WatchInv, NumberedOrderIsWatched

\* The cancel of a command that worked is the one its next commit is about.
LEMMA ReachCancelled ==
  ASSUME ETypeInv, Emergency, pc' = "cancelled"
  PROVE  /\ todo' = todo
         /\ \E r \in todo : /\ \A q \in todo : r <= q
                            /\ book' = [book EXCEPT ![r].st = "CANCELED"]
<1> USE DEF EGoto, CommandDone, CancelLoop, SkipRow
<1>1. \E r \in Refs : CancelOrder(r) \/ CancelOrderLost(r) \/ CancelOrderRefused(r)
  BY DEF Emergency, BeginLiquidation, BeginForceClose, CommitCancel, CommitSaleCancel,
         BalanceFails, CancelSale, CommitRefusal, CommitSale, RecordSale, SaleTaken,
         SaleRefused, AskLost, CloseEmpty, CloseSold, ForceCloseCycle, CloseAs, ESetPnl,
         EReleaseConfig
<1> QED
  BY <1>1 DEF CancelOrder, CancelOrderLost, CancelOrderRefused, CancelAt

LEMMA WatchNext ==
  ETypeInv /\ ERowsInv /\ FillInv /\ WatchInv /\ [ENext]_allvars => WatchInv'
<1> SUFFICES ASSUME ETypeInv, ERowsInv, FillInv, WatchInv, [ENext]_allvars
             PROVE  WatchInv'
  OBVIOUS
<1> USE DEF ETypeInv, ETypeOK
<1>1. CASE UNCHANGED <<log, book, crashes>> /\ (UNCHANGED local \/ pc' = "dead")
  BY <1>1 DEF WatchInv, NumberedOrderIsWatched, AtExchange, local, Sending, Correcting
<1>2. CASE UNCHANGED allvars \/ Account \/ Reconcile \/ ReconcileLost
  BY <1>1, <1>2 DEF allvars, rvars, vars, db, market, Account, SaleExpires, SaleFills,
                    Reconcile, ReconcileLost, Die
<1>3. CASE Ordinary
  <2>1. CASE pc \in PCs
    <3>1. RTypeInv /\ RowsInv /\ [RNext]_rvars /\ RTypeInv'
      BY <1>3, <2>1, LoopTypes, RTypeNext DEF Ordinary, ERowsInv
    <3>2. pc' \notin EPCs
      BY <3>1, PCsApart DEF RTypeInv, RTypeOK, TypeOK
    <3> QED
      BY <3>1, <3>2, WatchLoop
  <2>2. CASE pc \in EPCs
    <3>1. CASE Exchange /\ UNCHANGED <<crashes, listed>>
      <4>1. UNCHANGED <<db, local, crashes>> /\ BookGrows
        BY <1>3, <3>1, ExchangeFrame, BookGrowsInLoop DEF Ordinary
      <4>2. \A r \in Refs : ~AtExchange(r) => ~AtExchange(r)'
        BY <2>2, <4>1 DEF BookGrows, AtExchange, EPCs
      <4>3. pc \notin Sending \cup Correcting \cup {"canceled", "down", "recover"}
        BY <2>2 DEF EPCs, Sending, Correcting
      <4> QED
        BY <4>1, <4>2, <4>3 DEF WatchInv, NumberedOrderIsWatched, db, local
    <3>2. CASE Crash
      BY <3>2, RecoveryAssumption DEF Crash, WatchInv, NumberedOrderIsWatched, Sending,
                                      Correcting
    <3> QED
      BY <1>3, <2>2, <3>1, <3>2, LoopStandsStill DEF Ordinary
  <2> QED
    BY <2>1, <2>2
<1>4. CASE Emergency
  <2>1. /\ UNCHANGED <<crashes, cur>>
        /\ pc' \notin Sending \cup Correcting \cup {"canceled", "down", "recover"}
    BY <1>4, EmergencyFrame DEF EPCs, Sending, Correcting
  <2>2. \A r \in Refs : ~AtExchange(r) => ~AtExchange(r)'
    BY <1>4, EmergencyBook DEF AtExchange, Working
  <2>3. ASSUME crashes' = 0, NEW r \in Refs, log'[r].known, log'[r].st \in Terminal
        PROVE  ~AtExchange(r)
    <3>1. CASE log'[r] = log[r]
      BY <2>1, <2>3, <3>1 DEF WatchInv, NumberedOrderIsWatched
    <3>2. CASE log'[r] # log[r]
      <4>1. CommitCancel
        BY <1>4, <3>2, EmergencyRows
      <4>2. r \in todo /\ \A q \in todo : r <= q
        BY <3>2, <4>1, SettledByCommand
      <4> QED
        BY <4>1, <4>2 DEF CommitCancel, WatchInv
    <3> QED
      BY <3>1, <3>2
  <2>4. ASSUME pc' = "cancelled", NEW r \in todo', \A q \in todo' : r <= q
        PROVE  ~AtExchange(r)'
    <3>1. PICK k \in todo : /\ \A q \in todo : k <= q /\ todo' = todo
                            /\ book' = [book EXCEPT ![k].st = "CANCELED"]
      BY <1>4, <2>4, ReachCancelled
    <3>2. k = r
      BY <2>4, <3>1 DEF Refs
    <3> QED
      BY <3>1, <3>2 DEF AtExchange, Working
  <2> QED
    BY <2>1, <2>2, <2>3, <2>4 DEF WatchInv, NumberedOrderIsWatched
<1> QED
  BY <1>2, <1>3, <1>4 DEF ENext

LEMMA TruthInvariant == ESpec => [](FillInv /\ WatchInv)
BY FillInit, FillNext, WatchInit, WatchNext, ETypeInvariant, ERowsInvariant, PTL DEF ESpec

---------------------------------------------------------------------------
(* The market sells *)

LEMMA SaleInit == EInit => SaleInv
BY DEF EInit, RInit, Init, SaleInv, NoSale

LEMMA SalesToCancel ==
  ASSUME Emergency
  PROVE  stodo' \subseteq stodo \/ stodo' = {k \in Sales : sale[k].st = "PARTIAL"}
<1> USE DEF EGoto, CommandDone, CancelLoop, SkipRow, elocal, evars
<1>1. CASE BeginLiquidation \/ \E b \in 0..MaxShares : BeginForceClose(b)
  BY <1>1 DEF BeginLiquidation, BeginForceClose
<1>2. CASE \E r \in Refs : CancelOrder(r) \/ CancelOrderLost(r) \/ CancelOrderRefused(r)
  BY <1>2 DEF CancelOrder, CancelOrderLost, CancelOrderRefused
<1>3. CASE CommitCancel \/ CommitSaleCancel \/ BalanceFails
  BY <1>3 DEF CommitCancel, CommitSaleCancel, BalanceFails
<1>4. CASE \E k \in Sales : CancelSale(k) \/ CommitRefusal(k) \/ CommitSale(k)
  BY <1>4 DEF CancelSale, CommitRefusal, CommitSale
<1>5. CASE \E k \in Sales : \E n \in 0..MaxShares : RecordSale(k, n) \/ SaleTaken(k, n)
  BY <1>5 DEF RecordSale, SaleTaken
<1>6. CASE SaleRefused \/ AskLost
  BY <1>6 DEF SaleRefused, AskLost
<1>7. CASE CloseEmpty \/ CloseSold \/ ForceCloseCycle \/ ESetPnl \/ EReleaseConfig
  BY <1>7 DEF CloseEmpty, CloseSold, ForceCloseCycle, CloseAs, ESetPnl, EReleaseConfig
<1> QED
  BY <1>1, <1>2, <1>3, <1>4, <1>5, <1>6, <1>7 DEF Emergency

LEMMA SaleNext == ETypeInv /\ SaleInv /\ [ENext]_allvars => SaleInv'
<1> SUFFICES ASSUME ETypeInv, SaleInv, [ENext]_allvars PROVE SaleInv'
  OBVIOUS
<1>1. /\ sale \in [Sales -> SaleRow] /\ Sales \subseteq Nat
      /\ \A k \in Sales : sale[k].done \in Nat /\ sale[k].fill \in Nat
  BY ShareFacts DEF ETypeInv, ETypeOK, SaleRow, Sales
<1>2. CASE /\ sale' = sale /\ (pc' = pc \/ pc' # "selling")
           /\ \A k \in stodo' : sale[k].st # "NONE"
  BY <1>2 DEF SaleInv, CurSale
<1>3. CASE UNCHANGED allvars \/ Reconcile \/ ReconcileLost
  BY <1>2, <1>3 DEF allvars, rvars, vars, evars, local, Reconcile, ReconcileLost, Die,
                    SaleInv
<1>4. CASE Ordinary
  <2>3. sale' = sale /\ \A k \in stodo' : sale[k].st # "NONE"
    BY <1>4 DEF Ordinary, SaleInv, elocal
  <2>1. CASE pc \in PCs
    BY <1>2, <1>4, <2>1, <2>3, LoopTypes, RTypeNext
       DEF Ordinary, RTypeInv, RTypeOK, TypeOK, PCs
  <2>2. CASE pc \in EPCs
    BY <1>2, <1>4, <2>2, <2>3, LoopStandsStill, ExchangeFrame
       DEF Ordinary, Crash, local, ETypeInv, ETypeOK
  <2> QED
    BY <2>1, <2>2 DEF ETypeInv, ETypeOK
<1>5. CASE Account
  <2>1. PICK k \in Sales : SaleExpires(k) \/ \E n \in 1..MaxShares : SaleFills(k, n)
    BY <1>5 DEF Account
  <2>2. pc' = pc /\ stodo' = stodo
    BY <2>1 DEF SaleExpires, SaleFills, rvars, vars, local, elocal
  <2>3. \A j \in Sales : sale'[j].st = sale[j].st /\ sale'[j].fill = sale[j].fill
    <3>1. CASE SaleExpires(k)
      BY <1>1, <3>1 DEF SaleExpires, SaleRow
    <3>2. ASSUME NEW n \in 1..MaxShares, SaleFills(k, n)
          PROVE  \A j \in Sales : sale'[j].st = sale[j].st /\ sale'[j].fill = sale[j].fill
      BY <1>1, <3>2 DEF SaleFills, SaleRow
    <3> QED
      BY <2>1, <3>1, <3>2
  <2>4. ASSUME NEW j \in Sales PROVE sale[j].fill <= sale'[j].done
    <3>1. CASE SaleExpires(k)
      BY <1>1, <3>1 DEF SaleExpires, SaleRow, SaleInv
    <3>2. ASSUME NEW n \in 1..MaxShares, SaleFills(k, n) PROVE sale[j].fill <= sale'[j].done
      <4>1. /\ n \in Nat /\ j # k => sale'[j] = sale[j]
            /\ j = k => sale'[j].done = sale[j].done + n
        BY <1>1, <3>2 DEF SaleFills, SaleRow
      <4> QED
        BY <1>1, <4>1 DEF SaleInv
    <3> QED
      BY <2>1, <3>1, <3>2
  <2>5. \A j \in Sales : CurSale(j)' => CurSale(j)
    BY <2>3 DEF CurSale, Sales
  <2>6. stodo \subseteq Sales
    BY DEF ETypeInv, ETypeOK
  <2> QED
    BY <2>2, <2>3, <2>4, <2>5, <2>6 DEF SaleInv
<1>6. CASE Emergency
  <2> USE DEF EGoto, CommandDone, CancelLoop, SkipRow
  <2>9. stodo' \subseteq Sales /\ \A k \in stodo' : sale[k].st # "NONE"
    BY <1>6, SalesToCancel DEF SaleInv, ETypeInv, ETypeOK
  <2>1. ASSUME NEW k \in Sales, CancelSale(k) PROVE SaleInv'
    <3>1. pc' # "selling" /\ (sale' = sale \/ sale' = [sale EXCEPT ![k].at = "OVER"])
      BY <2>1 DEF CancelSale
    <3>2. \A j \in Sales : /\ sale'[j].st = sale[j].st /\ sale'[j].fill = sale[j].fill
                           /\ sale'[j].done = sale[j].done
      BY <1>1, <3>1 DEF SaleRow
    <3> QED
      BY <2>9, <3>1, <3>2 DEF SaleInv
  <2>2. ASSUME NEW k \in Sales, NEW st \in {"CANCELED", "REJECTED"}, pc' # "selling",
               sale' = [sale EXCEPT ![k].st = st], sale[k].st # "NONE"
        PROVE  SaleInv'
    <3>1. \A j \in Sales : /\ sale'[j].st # "NONE" <=> sale[j].st # "NONE"
                           /\ sale'[j].fill = sale[j].fill /\ sale'[j].done = sale[j].done
      BY <1>1, <2>2 DEF SaleRow
    <3> QED
      BY <2>2, <2>9, <3>1 DEF SaleInv
  <2>3. ASSUME NEW k \in Sales, CommitSale(k) PROVE SaleInv'
    <3>1. PICK st \in {"FILLED", "PARTIAL"} :
            sale' = [sale EXCEPT ![k].st = st, ![k].fill = sale[k].done]
      BY <2>3 DEF CommitSale
    <3>2. pc' # "selling" /\ sale[k].st # "NONE"
      BY <2>3 DEF CommitSale, CurSale
    <3>3. \A j \in Sales : /\ sale'[j].st # "NONE" <=> sale[j].st # "NONE"
                           /\ sale'[j].done = sale[j].done
                           /\ sale'[j].fill \in {sale[j].fill, sale[j].done}
      BY <1>1, <3>1, <3>2 DEF SaleRow
    <3> QED
      BY <1>1, <2>9, <3>2, <3>3 DEF SaleInv
  <2>4. ASSUME NEW k \in Sales, NEW n \in 0..MaxShares, RecordSale(k, n) PROVE SaleInv'
    <3>1. /\ sale[k].st = "NONE" /\ \A j \in 1..(k - 1) : sale[j].st # "NONE"
          /\ sale' = [sale EXCEPT ![k] = NewSale(n)]
      BY <2>4 DEF RecordSale, NewSale
    <3>2. /\ sale'[k].st # "NONE" /\ sale'[k].fill = 0 /\ sale'[k].done = 0
          /\ \A j \in Sales : j # k => sale'[j] = sale[j]
      BY <1>1, <3>1 DEF NewSale
    <3>3. \A j \in Sales : j > k => sale[j].st = "NONE"
      BY <1>1, <3>1 DEF SaleInv
    <3>4. \A j \in Sales : j < k => sale[j].st # "NONE"
      BY <3>1 DEF Sales
    <3>5. \A j \in Sales : CurSale(j)' => j = k
      BY <1>1, <3>2, <3>3 DEF CurSale, Sales
    <3>6. \A i, j \in Sales : i < j /\ sale'[j].st # "NONE" => sale'[i].st # "NONE"
      BY <1>1, <3>2, <3>3, <3>4 DEF Sales
    <3> QED
      BY <2>9, <3>2, <3>5, <3>6 DEF SaleInv
  <2>5. ASSUME NEW k \in Sales, NEW n \in 0..MaxShares, SaleTaken(k, n) PROVE SaleInv'
    <3>1. pc' # "selling" /\ sale[k].fill = 0
      BY <2>5 DEF SaleTaken, SaleInv
    <3>2. PICK a : sale' = [sale EXCEPT ![k].done = n, ![k].at = a]
      BY <2>5 DEF SaleTaken
    <3>3. \A j \in Sales : /\ sale'[j].st = sale[j].st /\ sale'[j].fill = sale[j].fill
                           /\ sale'[j].done = IF j = k THEN n ELSE sale[j].done
      BY <1>1, <3>2 DEF SaleRow
    <3>4. n >= 0
      BY ShareFacts
    <3> QED
      BY <2>9, <3>1, <3>3, <3>4 DEF SaleInv
  <2>6. CASE CommitSaleCancel
    <3>1. PICK k \in stodo : sale' = [sale EXCEPT ![k].st = "CANCELED"]
      BY <2>6 DEF CommitSaleCancel
    <3>2. k \in Sales /\ pc' # "selling"
      BY <2>6 DEF CommitSaleCancel, ETypeInv, ETypeOK
    <3>3. sale[k].st # "NONE"
      BY <3>1 DEF SaleInv
    <3> QED
      BY <2>2, <3>1, <3>2, <3>3
  <2>7. ASSUME NEW k \in Sales, CommitRefusal(k) PROVE SaleInv'
    BY <2>2, <2>7 DEF CommitRefusal, CurSale
  <2>8. ASSUME ~\E k \in Sales : \/ CancelSale(k) \/ CommitRefusal(k) \/ CommitSale(k)
                                 \/ \E n \in 0..MaxShares : RecordSale(k, n) \/ SaleTaken(k, n),
               ~CommitSaleCancel
        PROVE  sale' = sale /\ pc' # "selling"
    BY <1>6, <2>8
       DEF Emergency, BeginLiquidation, BeginForceClose, CancelOrder, CancelOrderLost,
           CancelOrderRefused, CommitCancel, BalanceFails, SaleRefused, AskLost, CloseEmpty,
           CloseSold, ForceCloseCycle, CloseAs, ESetPnl, EReleaseConfig, evars
  <2> QED
    BY <1>2, <2>1, <2>3, <2>4, <2>5, <2>6, <2>7, <2>8, <2>9
<1> QED
  BY <1>3, <1>4, <1>5, <1>6 DEF ENext

LEMMA SaleInvariant == ESpec => []SaleInv
BY SaleInit, SaleNext, ETypeInvariant, PTL DEF ESpec

---------------------------------------------------------------------------
(* The account *)

\* What the orders of the stages and the market sells moved, one by one.
Trades == [r \in Refs |-> Moved(r)]
Sold == [k \in Sales |-> sale[k].done]

\* The rows tell all that was bought.
Matched == \A r \in Refs : log[r].side = "BUY" => log[r].fill = book[r].filled

\* From the moment a command has seen the balance, nothing but a buy no row tells
\* of can raise it: sells and market sells only lower it.
EmptyInv ==
  /\ \A r \in Refs : log[r].st # "NONE" => log[r].stage \in Stages
  /\ closed.reason # "NONE" => cycle = "CLOSED"
  /\ closed.reason = "EMERGENCY" /\ Matched => Balance <= 0
  /\ \A k \in Sales : sale[k].st = "NONE" => sale[k] = NoSale
  /\ pc = "selling" =>
       \A k \in Sales : CurSale(k) => sale[k].at = "NONE" /\ sale[k].done = 0
  /\ pc \in {"selling", "asking"} /\ Matched =>
       \A k \in Sales : CurSale(k) => Balance + sale[k].done <= sale[k].req
  /\ pc = "closing_all" /\ Matched => Balance <= 0
  /\ doing = "force" /\ pc \in {"cancelling", "cancelled", "sold"} /\ actual = 0 /\ Matched =>
       Balance <= 0

LEMMA BalanceSum ==
  Balance = SumFunctionOnSet(Trades, Refs) - SumFunctionOnSet(Sold, Sales)
BY DEF Balance, SumFunction, SumFunctionOnSet, FoldFunction, Trades, Sold

LEMMA FiniteRefs == IsFiniteSet(Refs) /\ IsFiniteSet(Sales)
BY EngineAssumption, EmergencyAssumption, FS_Interval DEF Refs, Sales

LEMMA BalanceTypes ==
  ASSUME ETypeInv
  PROVE  /\ \A r \in Refs : Trades[r] \in Int /\ Trades[r] = Moved(r)
         /\ \A k \in Sales : Sold[k] \in Int /\ Sold[k] = sale[k].done
         /\ SumFunctionOnSet(Trades, Refs) \in Int /\ SumFunctionOnSet(Sold, Sales) \in Int
         /\ Balance \in Int
<1>1. \A r \in Refs : Trades[r] \in Int /\ Trades[r] = Moved(r)
  <2>1. \A r \in Refs : book[r].filled \in Int
    BY DEF ETypeInv, ETypeOK, BookRow, Qty
  <2> QED
    BY <2>1 DEF Trades, Moved
<1>2. \A k \in Sales : Sold[k] \in Int /\ Sold[k] = sale[k].done
  BY ShareFacts DEF ETypeInv, ETypeOK, SaleRow, Sold
<1>3. SumFunctionOnSet(Trades, Refs) \in Int /\ SumFunctionOnSet(Sold, Sales) \in Int
  BY <1>1, <1>2, FiniteRefs, SumInt
<1> QED
  BY <1>1, <1>2, <1>3, BalanceSum

\* What the exchange adds while the rows stand still lowers the balance, unless a
\* buy is no longer told.
LEMMA Drift ==
  ASSUME ETypeInv, ETypeInv', \A r \in Refs : log[r].fill <= book[r].filled,
         \A r \in Refs : /\ log'[r].side = log[r].side /\ log'[r].fill = log[r].fill
                         /\ book[r].filled <= book'[r].filled,
         Matched'
  PROVE  /\ Matched
         /\ SumFunctionOnSet(Trades', Refs) <= SumFunctionOnSet(Trades, Refs)
<1>1. \A r \in Refs : /\ log[r].fill \in Int /\ book[r].filled \in Int
                      /\ book'[r].filled \in Int /\ log[r].side \in Sides
  BY DEF ETypeInv, ETypeOK, LogRow, BookRow, Qty
<1>2. ASSUME NEW r \in Refs, log[r].side = "BUY"
      PROVE  log[r].fill = book[r].filled /\ book'[r].filled = book[r].filled
  <2>1. log[r].fill = book'[r].filled
    BY <1>2 DEF Matched
  <2> QED
    BY <1>1, <2>1
<1>3. Matched
  BY <1>2 DEF Matched
<1>4. ASSUME NEW r \in Refs PROVE Trades'[r] <= Trades[r]
  <2>1. CASE log[r].side = "BUY"
    BY <1>1, <1>2, <2>1 DEF Trades, Moved
  <2>2. CASE log[r].side # "BUY"
    BY <1>1, <2>2 DEF Trades, Moved
  <2> QED
    BY <2>1, <2>2
<1>5. \A r \in Refs : Trades[r] \in Int /\ Trades'[r] \in Int
  <2>1. \A r \in Refs : Trades[r] \in Int
    BY BalanceTypes
  <2>2. (ETypeInv => \A r \in Refs : Trades[r] \in Int)'
    BY DEF Trades, Moved, ETypeInv, ETypeOK, BookRow, Qty
  <2> QED
    BY <2>1, <2>2
<1> QED
  BY <1>3, <1>4, <1>5, FiniteRefs, SumLeq

\* With the market sells as they are, so does the whole balance.
LEMMA BalanceFalls ==
  ASSUME ETypeInv, ETypeInv', sale' = sale,
         SumFunctionOnSet(Trades', Refs) <= SumFunctionOnSet(Trades, Refs)
  PROVE  Balance' <= Balance
<1>1. (Balance = SumFunctionOnSet(Trades, Refs) - SumFunctionOnSet(Sold, Sales))'
  BY BalanceSum, PTL
<1>2. Sold' = Sold
  BY DEF Sold
<1>3. (ETypeInv => SumFunctionOnSet(Trades, Refs) \in Int)'
  BY BalanceTypes, PTL
<1> QED
  BY <1>1, <1>2, <1>3, BalanceSum, BalanceTypes

\* An updated row stays the row of its order.
LEMMA SameOrder ==
  ASSUME NEW row \in LogRow, NEW st, NEW f, NEW known
  PROVE  /\ LogUpdate(row, st, f).stage = row.stage /\ LogUpdate(row, st, f).side = row.side
         /\ [LogUpdate(row, st, f) EXCEPT !.known = known].stage = row.stage
         /\ [LogUpdate(row, st, f) EXCEPT !.known = known].side = row.side
BY DEF LogUpdate, LogRow

\* The rows a step of the loop writes: one it is sending, or one whose stage still
\* waits; and what a row is for is fixed when it is recorded.
LEMMA WhoWrites ==
  ASSUME RTypeInv, [RNext]_rvars, log' # log
  PROVE  \/ pc = "decide" /\ \E s \in Stages, r \in Refs : Chosen(s) /\ RecordOrder(s, r)
         \/ /\ \/ pc \in Sending \cup {"canceled"}
               \/ pc \in {"poll", "recover"} /\ \E r \in todo : Pending(stage[log[r].stage])
            /\ \A r \in Refs : log'[r].stage = log[r].stage /\ log'[r].side = log[r].side
<1> USE DEF RTypeInv, RTypeOK, TypeOK
<1> DEFINE Kept == \A r \in Refs : log'[r].stage = log[r].stage /\ log'[r].side = log[r].side
<1>1. ASSUME NEW r \in Refs, NEW row, row.stage = log[r].stage, row.side = log[r].side,
             log' = [log EXCEPT ![r] = row]
      PROVE  Kept
  BY <1>1
<1>2. CASE Send
  <2>1. CASE \E s \in Stages, r \in Refs : RecordOrder(s, r)
    BY <2>1 DEF RecordOrder
  <2>2. CASE LogAccepted \/ ListFound
    <3>1. log' = [log EXCEPT ![cur].st = "ACCEPTED", ![cur].known = TRUE] /\ pc \in Sending
      BY <2>2 DEF LogAccepted, ListFound, Sending
    <3>2. log[cur] \in LogRow /\ cur \in Refs
      BY <3>1
    <3>3. Kept
      BY <3>1, <3>2 DEF LogRow
    <3> QED
      BY <3>1, <3>3
  <2>3. CASE LogRejected \/ LogUnknown \/ ListMissing
    <3>1. pc \in Sending /\ \E st : log' = [log EXCEPT ![cur] = LogUpdate(log[cur], st, 0)]
      BY <2>3 DEF LogRejected, LogUnknown, ListMissing, SetLog, Sending
    <3>2. cur \in Refs /\ log[cur] \in LogRow
      BY <3>1
    <3> QED
      BY <1>1, <3>1, <3>2, SameOrder
  <2> QED
    BY <1>2, <2>1, <2>2, <2>3
       DEF Send, GuardBlocks, MarkPending, PlaceTaken, PlaceRefused, PlaceLost, ListLost,
           RestoreAfterSend, SetStage, db
<1>3. CASE Poll
  <2>1. ASSUME NEW r \in Refs,
               PollRejected(r) \/ PollFilled(r) \/ \E expired \in BOOLEAN : PollOpen(r, expired)
        PROVE  /\ pc = "poll" /\ r \in todo /\ Pending(stage[log[r].stage])
               /\ \E st, f : log' = [log EXCEPT ![r] = LogUpdate(log[r], st, f)]
    BY <2>1 DEF PollRejected, PollFilled, PollOpen, Asked, At, Settle
  <2>2. CASE LogCanceled
    <3>1. /\ cur \in Refs /\ pc = "canceled"
          /\ log' = [log EXCEPT ![cur] = LogUpdate(log[cur], "CANCELED", seen)]
      BY <2>2 DEF LogCanceled, SetLog, Polling
    <3> QED
      BY <1>1, <3>1, SameOrder
  <2>3. \/ LogCanceled
        \/ \E r \in Refs : PollRejected(r) \/ PollFilled(r)
                           \/ \E expired \in BOOLEAN : PollOpen(r, expired)
    BY <1>3 DEF Poll, StartPoll, PollSkip, PollDies, CancelTaken, CancelLost, CancelRefused,
                ApplyFill, RestoreAfterPoll, SetStage, KeepCycle, CloseCycle, SetPnl,
                ReleaseConfig, PollDone, db
  <2>4. ASSUME NEW r \in Refs,
               PollRejected(r) \/ PollFilled(r) \/ \E expired \in BOOLEAN : PollOpen(r, expired)
        PROVE  Kept
    BY <1>1, <2>1, <2>4, SameOrder
  <2> QED
    BY <2>1, <2>2, <2>3, <2>4
<1>4. CASE RecoverStep
  <2>1. PICK r \in Refs : RecoverUnfilled(r) \/ RecoverFilled(r)
    BY <1>4 DEF RecoverStep, RecoverSkip, RecoverRestore, RecoverApply, SetStage, db
  <2>2. /\ pc = "recover" /\ r \in todo /\ Pending(stage[log[r].stage])
        /\ \E st, f, known :
             log' = [log EXCEPT ![r] = [LogUpdate(log[r], st, f) EXCEPT !.known = known]]
    BY <2>1 DEF RecoverUnfilled, RecoverFilled, RecoverWith, RecoverAt
  <2>3. Kept
    BY <1>1, <2>2, SameOrder
  <2> QED
    BY <2>2, <2>3
<1> QED
  BY <1>2, <1>3, <1>4
     DEF RNext, rvars, vars, Next, Command, PauseCycle, ResumeCycle, Transition,
         EngineStep, Tick, OnTick, Exchange, Deliver, Fill, RejectLater, MarketClose,
         NextDay, Crash, Restart, RestartLost, Recovered, RecoverDone, db

\* A closed cycle writes no row.
LEMMA ClosedWritesNothing ==
  ASSUME RTypeInv, RowsInv, LiqInv, [RNext]_rvars, cycle = "CLOSED",
         \A r \in Refs : log[r].st # "NONE" => log[r].stage \in Stages
  PROVE  log' = log
<1>1. SUFFICES ASSUME log' # log PROVE FALSE
  OBVIOUS
<1>2. pc \notin Sending /\ plan = {}
  BY DEF LiqInv
<1>3. ASSUME NEW r \in Refs, log[r].st \in Live PROVE ~Pending(stage[log[r].stage])
  BY <1>3 DEF LiqInv, Live
<1>4. pc # "canceled"
  BY <1>3 DEF LiqInv, Writing, RowsInv, RTypeInv, Polling
<1>5. ASSUME NEW r \in todo, pc \in {"poll", "recover"} PROVE ~Pending(stage[log[r].stage])
  BY <1>3, <1>5 DEF RowsInv, Polling, Correcting, RTypeInv, RTypeOK, TypeOK
<1> QED
  BY <1>1, <1>2, <1>4, <1>5, WhoWrites DEF Chosen

\* A command moves no shares but those of its market sells, and knows no more of
\* the orders than the last poll.
LEMMA CommandKeepsFills ==
  ASSUME ETypeInv, Emergency
  PROVE  /\ \A r \in Refs : /\ log'[r].side = log[r].side /\ log'[r].fill = log[r].fill
                            /\ log'[r].stage = log[r].stage
                            /\ log'[r].st # "NONE" => log[r].st # "NONE" \/ CommitCancel
                            /\ book'[r].filled = book[r].filled
         /\ Matched' <=> Matched
         /\ Trades' = Trades
<1> USE DEF ETypeInv, ETypeOK
<1>1. \A r \in Refs : book'[r].filled = book[r].filled
  BY EmergencyBook DEF BookRow
<1>2. ASSUME log' # log
      PROVE  \A r \in Refs : /\ log'[r].side = log[r].side /\ log'[r].fill = log[r].fill
                             /\ log'[r].stage = log[r].stage
  <2>1. CommitCancel
    BY <1>2, EmergencyRows
  <2>2. PICK r \in todo : log' = [log EXCEPT ![r] = LogUpdate(log[r], "CANCELED", 0)]
    BY <2>1, SettledByCommand
  <2>3. /\ LogUpdate(log[r], "CANCELED", 0).fill = log[r].fill
        /\ LogUpdate(log[r], "CANCELED", 0).side = log[r].side
        /\ LogUpdate(log[r], "CANCELED", 0).stage = log[r].stage
    BY DEF LogUpdate, LogRow
  <2> QED
    BY <2>2, <2>3
<1>3. \A r \in Refs : /\ log'[r].side = log[r].side /\ log'[r].fill = log[r].fill
                      /\ log'[r].stage = log[r].stage
  BY <1>2
<1>4. \A r \in Refs : log'[r].st # "NONE" => log[r].st # "NONE" \/ CommitCancel
  BY EmergencyRows
<1>5. Matched' <=> Matched
  BY <1>1, <1>3 DEF Matched
<1>6. Trades' = Trades
  BY <1>1, <1>3 DEF Trades, Moved
<1> QED
  BY <1>1, <1>3, <1>4, <1>5, <1>6

LEMMA SaleFacts ==
  ASSUME ETypeInv
  PROVE  /\ Sales \subseteq Nat
         /\ \A k \in Sales : sale[k] \in SaleRow /\ sale[k].done \in Int /\ sale[k].req \in Int
BY ShareFacts DEF ETypeInv, ETypeOK, SaleRow, Sales

LEMMA OneCurrent == ASSUME NEW j \in Sales, NEW k \in Sales, CurSale(j), CurSale(k) PROVE j = k
BY EmergencyAssumption DEF CurSale, Sales

\* One market sell moves the balance by what it sold.
LEMMA BalanceMoves ==
  ASSUME ETypeInv, ETypeInv', Trades' = Trades, NEW k \in Sales,
         \A j \in Sales : j # k => sale'[j].done = sale[j].done
  PROVE  Balance' = Balance + sale[k].done - sale'[k].done
<1>1. (Balance = SumFunctionOnSet(Trades, Refs) - SumFunctionOnSet(Sold, Sales))'
  BY BalanceSum, PTL
<1>2. (ETypeInv => \A j \in Sales : Sold[j] \in Int)'
  BY ShareFacts DEF ETypeInv, ETypeOK, SaleRow, Sold
<1>3. /\ \A j \in Sales : Sold'[j] = sale'[j].done
      /\ \A j \in Sales : Sold[j] \in Int /\ Sold[j] = sale[j].done
  BY BalanceTypes DEF Sold
<1> DEFINE new == Sold'
<1>4. \A j \in Sales : new[j] \in Int /\ (j # k => new[j] = Sold[j])
  BY <1>2, <1>3
<1>5. new[k] = sale'[k].done /\ Sold[k] = sale[k].done
  BY <1>3
<1>6. Balance' = SumFunctionOnSet(Trades, Refs) - SumFunctionOnSet(new, Sales)
  BY <1>1
<1> HIDE DEF new
<1>7. SumFunctionOnSet(new, Sales) = SumFunctionOnSet(Sold, Sales) + new[k] - Sold[k]
  BY <1>3, <1>4, FiniteRefs, SumChange
<1> QED
  BY <1>3, <1>4, <1>5, <1>6, <1>7, BalanceSum, BalanceTypes

LEMMA BalanceStays ==
  ASSUME ETypeInv, ETypeInv', Trades' = Trades,
         \A j \in Sales : sale'[j].done = sale[j].done
  PROVE  Balance' = Balance
<1>1. 1 \in Sales
  BY EmergencyAssumption DEF Sales
<1>2. Balance' = Balance + sale[1].done - sale'[1].done
  BY <1>1, BalanceMoves
<1> QED
  BY <1>1, <1>2, BalanceTypes, SaleFacts

\* The balance as a command sees it.
LEMMA ReportedIsTrue ==
  ASSUME ETypeInv, NEW b \in Int, b \in Reported
  PROVE  /\ b = 0 => Balance = 0
         /\ b > 0 => b = Balance
BY BalanceTypes DEF Reported, Absent

Looping == {"cancelling", "cancelled", "sold"}

\* Steps that leave the sells of a command as they are.
LEMMA EmptyKept ==
  ASSUME ETypeInv, ETypeInv', EmptyInv, closed' = closed,
         closed.reason # "NONE" => cycle' = "CLOSED",
         \A r \in Refs : log'[r].st # "NONE" => log'[r].stage \in Stages,
         Matched' /\ (closed.reason = "EMERGENCY" \/ pc' \in EPCs) =>
           Matched /\ Balance' <= Balance,
         \A k \in Sales : sale'[k].done = sale[k].done
                          /\ (sale'[k] = sale[k] \/ sale'[k].st # "NONE"),
         pc' \in {"selling", "asking"} => pc' = pc /\ sale' = sale,
         pc' = "closing_all" => pc = "closing_all",
         doing' = "force" /\ pc' \in Looping =>
           pc \in Looping /\ UNCHANGED <<doing, actual>>
  PROVE  EmptyInv'
<1>1. Balance \in Int
  BY BalanceTypes
<1>2. (ETypeInv => Balance \in Int)'
  BY BalanceTypes, PTL
<1>3. closed'.reason = "EMERGENCY" /\ Matched' => Balance' <= 0
  BY <1>1, <1>2 DEF EmptyInv
<1>4. \A k \in Sales : sale'[k].st = "NONE" => sale'[k] = NoSale
  BY DEF EmptyInv
<1>5. pc' = "selling" =>
        \A k \in Sales : CurSale(k)' => sale'[k].at = "NONE" /\ sale'[k].done = 0
  BY DEF EmptyInv, CurSale
<1>6. ASSUME pc' \in {"selling", "asking"}, Matched', NEW k \in Sales, CurSale(k)'
      PROVE  Balance' + sale'[k].done <= sale'[k].req
  <2>1. pc \in {"selling", "asking"} /\ sale' = sale /\ CurSale(k)
    BY <1>6 DEF CurSale
  <2>2. Matched /\ Balance' <= Balance
    BY <1>6 DEF EPCs
  <2>3. Balance + sale[k].done <= sale[k].req
    BY <2>1, <2>2 DEF EmptyInv
  <2> QED
    BY <1>1, <1>2, <2>1, <2>2, <2>3, SaleFacts
<1>7. pc' = "closing_all" /\ Matched' => Balance' <= 0
  BY <1>1, <1>2 DEF EmptyInv, EPCs
<1>8. doing' = "force" /\ pc' \in {"cancelling", "cancelled", "sold"} /\ actual' = 0
        /\ Matched' => Balance' <= 0
  BY <1>1, <1>2 DEF EmptyInv, EPCs, Looping
<1>9. closed'.reason # "NONE" => cycle' = "CLOSED"
  OBVIOUS
<1> QED
  BY <1>3, <1>4, <1>5, <1>6, <1>7, <1>8, <1>9 DEF EmptyInv

LEMMA EmptyInit == EInit => EmptyInv
BY DEF EInit, RInit, Init, NoRow, EmptyInv, Live, CurSale

\* In the loop only the exchange still moves the balance of a closed cycle.
LEMMA EmptyOrdinary ==
  ASSUME ETypeInv, ETypeInv', ERowsInv, LiqInv, FillInv, EmptyInv, Ordinary
  PROVE  EmptyInv'
<1> USE DEF ETypeInv, ETypeOK
<1>1. sale' = sale
  BY DEF Ordinary
<1>2. ASSUME log' = log PROVE Matched' => Matched /\ Balance' <= Balance
  <2>1. BookGrows
    BY BookGrowsInLoop DEF Ordinary
  <2> HIDE DEF ETypeInv
  <2>2. Matched' => /\ Matched
                    /\ SumFunctionOnSet(Trades', Refs) <= SumFunctionOnSet(Trades, Refs)
    BY <1>2, <2>1, Drift DEF BookGrows, FillInv
  <2> QED
    BY <1>1, <2>2, BalanceFalls
<1>3. CASE pc \in PCs
  <2>1. RTypeInv /\ RowsInv /\ [RNext]_rvars /\ RTypeInv'
    BY <1>3, LoopTypes, RTypeNext DEF Ordinary, ERowsInv
  <2>2. pc' \notin EPCs
    BY <2>1, PCsApart DEF RTypeInv, RTypeOK, TypeOK
  <2>3. ASSUME NEW r \in Refs, log'[r].st # "NONE" PROVE log'[r].stage \in Stages
    <3>1. CASE log'[r] = log[r]
      BY <2>3, <3>1 DEF EmptyInv
    <3>2. CASE \E s \in Stages, q \in Refs : RecordOrder(s, q)
      BY <2>3, <3>1, <3>2 DEF RecordOrder
    <3>3. CASE /\ log'[r] # log[r]
               /\ ~\E s \in Stages, q \in Refs : RecordOrder(s, q)
      <4>1. log[r].st \in Live
        BY <2>1, <3>3, EveryRowStep DEF RowStep
      <4>2. log'[r].stage = log[r].stage
        BY <2>1, <3>3, WhoWrites
      <4> QED
        BY <4>1, <4>2 DEF EmptyInv, Live
    <3> QED
      BY <3>1, <3>2, <3>3
  <2>4. ASSUME cycle = "CLOSED" PROVE log' = log /\ cycle' = "CLOSED" /\ closed' = closed
    <3>1. log' = log
      BY <2>1, <2>4, ClosedWritesNothing DEF EmptyInv
    <3>2. cycle' = "CLOSED"
      BY <2>1, <2>4, LoopKeepsClosed
    <3> QED
      BY <2>4, <3>1, <3>2 DEF Ordinary
  <2>5. CASE closed' # closed
    <3>1. closed'.reason = "NORMAL" /\ cycle' = "CLOSED"
      BY <2>4, <2>5 DEF Ordinary
    <3> QED
      BY <1>1, <2>2, <2>3, <3>1 DEF EmptyInv, EPCs
  <2>6. CASE closed' = closed
    <3>1. closed.reason # "NONE" => cycle' = "CLOSED" /\ log' = log
      BY <2>4 DEF EmptyInv
    <3>2. pc' \notin {"selling", "asking", "closing_all"} \cup Looping
      BY <2>2 DEF EPCs, Looping
    <3>3. Matched' /\ (closed.reason = "EMERGENCY" \/ pc' \in EPCs) =>
            Matched /\ Balance' <= Balance
      BY <1>2, <2>2, <3>1
    <3> HIDE DEF ETypeInv
    <3> QED
      BY <1>1, <2>3, <2>6, <3>1, <3>2, <3>3, EmptyKept
  <2> QED
    BY <2>5, <2>6
<1>4. CASE pc \in EPCs
  <2>1. UNCHANGED <<log, cycle>> /\ (pc' = "down" \/ pc' = pc)
    BY <1>4, LoopStandsStill, ExchangeFrame DEF Ordinary, Crash, db, local
  <2>2. closed' = closed
    BY <2>1 DEF Ordinary
  <2>3. pc' # "down" => UNCHANGED <<doing, actual>>
    BY DEF Ordinary, elocal
  <2>4. pc' \notin {"selling", "asking", "closing_all"} \cup Looping \/ pc' = pc
    BY <2>1 DEF Looping
  <2>5. /\ closed.reason # "NONE" => cycle' = "CLOSED"
        /\ \A r \in Refs : log'[r].st # "NONE" => log'[r].stage \in Stages
    BY <2>1 DEF EmptyInv
  <2>6. Matched' => Matched /\ Balance' <= Balance
    BY <1>2, <2>1
  <2>7. doing' = "force" /\ pc' \in Looping => pc \in Looping /\ UNCHANGED <<doing, actual>>
    BY <2>1, <2>3, <2>4 DEF Looping
  <2> HIDE DEF ETypeInv
  <2> QED
    BY <1>1, <2>2, <2>4, <2>5, <2>6, <2>7, EmptyKept
<1> QED
  BY <1>3, <1>4

\* A market sell at work only empties the account.
LEMMA EmptyAccount ==
  ASSUME ETypeInv, ETypeInv', EmptyInv, Account PROVE EmptyInv'
<1>1. /\ Sales \subseteq Nat /\ sale \in [Sales -> SaleRow]
      /\ \A k \in Sales : sale[k].done \in Int /\ sale[k].req \in Int
  BY SaleFacts DEF ETypeInv, ETypeOK
<1>2. UNCHANGED <<log, book, cycle, pc, closed, doing, actual>>
  BY DEF Account, SaleExpires, SaleFills, rvars, vars, db, market, local, elocal
<1>3. PICK k \in Sales : /\ sale[k].at = "WORKING"
                         /\ \A j \in Sales : j # k => sale'[j] = sale[j]
                         /\ sale'[k].st = sale[k].st /\ sale'[k].req = sale[k].req
                         /\ sale[k].done <= sale'[k].done /\ sale'[k].done \in Int
  <2>1. PICK k \in Sales : SaleExpires(k) \/ \E n \in 1..MaxShares : SaleFills(k, n)
    BY DEF Account
  <2> DEFINE Sells == /\ sale[k].at = "WORKING"
                      /\ \A j \in Sales : j # k => sale'[j] = sale[j]
                      /\ sale'[k].st = sale[k].st /\ sale'[k].req = sale[k].req
                      /\ sale[k].done <= sale'[k].done /\ sale'[k].done \in Int
  <2>2. CASE SaleExpires(k)
    <3>1. /\ sale[k].at = "WORKING" /\ sale' = [sale EXCEPT ![k].at = "OVER"]
          /\ sale[k] \in SaleRow
      BY <1>1, <2>2 DEF SaleExpires
    <3>2. /\ \A j \in Sales : j # k => sale'[j] = sale[j]
          /\ sale'[k].st = sale[k].st /\ sale'[k].req = sale[k].req
          /\ sale'[k].done = sale[k].done
      BY <1>1, <3>1 DEF SaleRow
    <3> QED
      BY <1>1, <3>1, <3>2
  <2>3. ASSUME NEW n \in 1..MaxShares, SaleFills(k, n) PROVE Sells
    <3>1. /\ sale[k].at = "WORKING"
          /\ \A j \in Sales : j # k => sale'[j] = sale[j]
          /\ sale'[k].st = sale[k].st /\ sale'[k].req = sale[k].req
          /\ sale'[k].done = sale[k].done + n
      BY <1>1, <2>3 DEF SaleFills, SaleRow
    <3>2. n \in Nat
      BY ShareFacts
    <3> QED
      BY <1>1, <3>1, <3>2
  <2> QED
    BY <2>1, <2>2, <2>3
<1>4. Trades' = Trades /\ (Matched' <=> Matched)
  BY <1>2 DEF Trades, Moved, Matched
<1>5. Balance' = Balance + sale[k].done - sale'[k].done
  BY <1>3, <1>4, BalanceMoves
<1>6. Balance \in Int /\ Balance' \in Int /\ Balance' <= Balance
  BY <1>1, <1>3, <1>5, BalanceTypes
<1>7. \A j \in Sales : CurSale(j)' <=> CurSale(j)
  BY <1>3 DEF CurSale, Sales
<1>8. \A j \in Sales : sale'[j].st = "NONE" => sale'[j] = NoSale
  BY <1>3 DEF EmptyInv, NoSale
<1>9. pc = "selling" =>
        \A j \in Sales : CurSale(j)' => sale'[j].at = "NONE" /\ sale'[j].done = 0
  BY <1>3, <1>7 DEF EmptyInv
<1>10. ASSUME pc \in {"selling", "asking"}, Matched, NEW j \in Sales, CurSale(j)'
       PROVE  Balance' + sale'[j].done <= sale'[j].req
  <2>1. Balance + sale[j].done <= sale[j].req
    BY <1>7, <1>10 DEF EmptyInv
  <2>2. CASE j = k
    BY <1>1, <1>3, <1>5, <1>6, <2>1, <2>2
  <2>3. CASE j # k
    BY <1>1, <1>3, <1>6, <2>1, <2>3
  <2> QED
    BY <2>2, <2>3
<1>11. /\ closed'.reason = "EMERGENCY" /\ Matched' => Balance' <= 0
       /\ pc' = "closing_all" /\ Matched' => Balance' <= 0
  BY <1>2, <1>4, <1>6 DEF EmptyInv
<1>12. doing' = "force" /\ pc' \in {"cancelling", "cancelled", "sold"} /\ actual' = 0
         /\ Matched' => Balance' <= 0
  BY <1>2, <1>4, <1>6 DEF EmptyInv
<1>13. /\ \A r \in Refs : log'[r].st # "NONE" => log'[r].stage \in Stages
       /\ closed'.reason # "NONE" => cycle' = "CLOSED"
  BY <1>2 DEF EmptyInv
<1> QED
  BY <1>2, <1>4, <1>8, <1>9, <1>10, <1>11, <1>12, <1>13 DEF EmptyInv

\* The commands: a sell asks for all the balance it has seen, and what is sold is
\* gone from the balance.
LEMMA EmptyCommand ==
  ASSUME ETypeInv, ETypeInv', ERowsInv, LiqInv, SaleInv, EmptyInv, Emergency
  PROVE  EmptyInv'
<1> USE DEF EGoto, CommandDone, CancelLoop, SkipRow
<1>1. /\ Sales \subseteq Nat /\ sale \in [Sales -> SaleRow] /\ Balance \in Int
      /\ \A k \in Sales : sale[k].done \in Int /\ sale[k].req \in Int
  BY SaleFacts, BalanceTypes DEF ETypeInv, ETypeOK
<1>2. (Matched' <=> Matched) /\ Trades' = Trades
  BY CommandKeepsFills
<1>3. ASSUME NEW r \in Refs, log'[r].st # "NONE" PROVE log'[r].stage \in Stages
  <2>1. log'[r].stage = log[r].stage
    BY CommandKeepsFills
  <2>2. CASE log[r].st # "NONE"
    BY <2>1, <2>2 DEF EmptyInv
  <2>3. CASE log[r].st = "NONE"
    <3>1. CommitCancel /\ log'[r] # log[r]
      BY <1>3, <2>3, CommandKeepsFills
    <3>2. r \in todo
      BY <3>1, SettledByCommand DEF ETypeInv, ETypeOK
    <3> QED
      BY <2>3, <3>1, <3>2 DEF CommitCancel, ERowsInv, EPCs, Live
  <2> QED
    BY <2>2, <2>3
<1>4. closed.reason # "NONE" => closed' = closed /\ cycle' = "CLOSED"
  BY EmergencyCycle DEF EmptyInv, LiqInv, Commanding
<1>5. ASSUME closed' = closed, \A k \in Sales : sale'[k].done = sale[k].done,
             \A k \in Sales : sale'[k] = sale[k] \/ sale'[k].st # "NONE",
             pc' \notin {"selling", "asking"},
             pc' = "closing_all" => pc = "closing_all",
             doing' = "force" /\ pc' \in Looping =>
               pc \in Looping /\ UNCHANGED <<doing, actual>>
      PROVE  EmptyInv'
  <2>1. Balance' = Balance
    BY <1>2, <1>5, BalanceStays
  <2>2. Balance' <= Balance
    BY <1>1, <2>1
  <2> QED
    BY <1>2, <1>3, <1>4, <1>5, <2>2, EmptyKept
<1>6. CASE BeginLiquidation
  BY <1>5, <1>6 DEF BeginLiquidation
<1>7. ASSUME NEW b \in 0..MaxShares, BeginForceClose(b) PROVE EmptyInv'
  <2>1. /\ b \in Reported /\ b \in Int /\ actual' = b /\ pc' = "cancelling"
        /\ UNCHANGED <<sale, closed>> /\ UNCHANGED cycle
    BY <1>7, ShareFacts DEF BeginForceClose, db
  <2>2. Balance' = Balance
    BY <1>2, <2>1, BalanceStays
  <2>3. actual' = 0 => Balance' <= 0
    BY <1>1, <2>1, <2>2, ReportedIsTrue
  <2>4. closed'.reason = "EMERGENCY" /\ Matched' => Balance' <= 0
    BY <1>2, <2>1, <2>2 DEF EmptyInv
  <2> QED
    BY <1>3, <1>4, <2>1, <2>3, <2>4 DEF EmptyInv
<1>8. ASSUME NEW r \in Refs, CancelOrder(r) \/ CancelOrderLost(r) \/ CancelOrderRefused(r)
      PROVE  EmptyInv'
  <2>1. /\ UNCHANGED <<sale, closed>> /\ pc = "cancelling"
        /\ \/ pc' \in Looping /\ UNCHANGED <<doing, actual>>
           \/ pc' = "tick"
    BY <1>8 DEF CancelOrder, CancelOrderLost, CancelOrderRefused, CancelAt, elocal, Looping
  <2>2. pc' \notin {"selling", "asking", "closing_all"} /\ pc \in Looping
    BY <2>1 DEF Looping
  <2> QED
    BY <1>5, <2>1, <2>2 DEF Looping
<1>9. CASE CommitCancel
  <2>1. /\ UNCHANGED <<sale, closed>> /\ pc = "cancelled" /\ pc' = "cancelling"
        /\ UNCHANGED <<doing, actual>>
    BY <1>9 DEF CommitCancel, elocal
  <2> QED
    BY <1>5, <2>1 DEF Looping
<1>10. CASE CommitSaleCancel
  <2>1. PICK k \in stodo : sale' = [sale EXCEPT ![k].st = "CANCELED"]
    BY <1>10 DEF CommitSaleCancel
  <2>2. k \in Sales
    BY DEF ETypeInv, ETypeOK
  <2>3. \A j \in Sales : /\ sale'[j].done = sale[j].done
                         /\ sale'[j] = sale[j] \/ sale'[j].st # "NONE"
    BY <1>1, <2>1, <2>2 DEF SaleRow
  <2>4. /\ pc = "sold" /\ pc' = "cancelling" /\ UNCHANGED <<closed, doing, actual>>
    BY <1>10 DEF CommitSaleCancel
  <2> QED
    BY <1>5, <2>3, <2>4 DEF Looping
<1>11. CASE BalanceFails \/ SaleRefused \/ AskLost
  <2>1. UNCHANGED <<sale, closed>> /\ pc' \in {"tick", "refused"}
    BY <1>11 DEF BalanceFails, SaleRefused, AskLost, evars
  <2> QED
    BY <1>5, <2>1 DEF Looping
<1>12. ASSUME NEW k \in Sales, CancelSale(k) PROVE EmptyInv'
  <2>1. /\ closed' = closed /\ pc = "cancelling"
        /\ sale' = sale \/ sale' = [sale EXCEPT ![k].at = "OVER"]
        /\ (pc' \in {"sold", "cancelling"} /\ UNCHANGED <<doing, actual>>) \/ pc' = "tick"
    BY <1>12 DEF CancelSale, elocal
  <2>2. sale[k].st # "NONE"
    BY <1>12 DEF CancelSale, SaleInv
  <2>3. \A j \in Sales : /\ sale'[j].done = sale[j].done
                         /\ sale'[j] = sale[j] \/ sale'[j].st # "NONE"
    BY <1>1, <2>1, <2>2 DEF SaleRow
  <2> QED
    BY <1>5, <2>1, <2>3 DEF Looping
<1>13. ASSUME NEW k \in Sales, CommitRefusal(k) PROVE EmptyInv'
  <2>1. \A j \in Sales : /\ sale'[j].done = sale[j].done
                         /\ sale'[j] = sale[j] \/ sale'[j].st # "NONE"
    BY <1>1, <1>13 DEF CommitRefusal, SaleRow
  <2> QED
    BY <1>5, <1>13, <2>1 DEF CommitRefusal, Looping
<1>14. ASSUME NEW k \in Sales, CommitSale(k) PROVE EmptyInv'
  <2>1. PICK st \in {"FILLED", "PARTIAL"} :
          /\ sale' = [sale EXCEPT ![k].st = st, ![k].fill = sale[k].done]
          /\ pc' = "closing_all" => sale[k].done = sale[k].req
          /\ pc' \in {"closing_all", "tick"}
    BY <1>14 DEF CommitSale
  <2>2. /\ closed' = closed /\ pc = "asking" /\ CurSale(k)
    BY <1>14 DEF CommitSale
  <2>3. \A j \in Sales : /\ sale'[j].done = sale[j].done
                         /\ sale'[j] = sale[j] \/ sale'[j].st # "NONE"
    BY <1>1, <2>1 DEF SaleRow
  <2>4. CASE pc' = "tick"
    BY <1>5, <2>2, <2>3, <2>4 DEF Looping
  <2>5. CASE pc' = "closing_all"
    <3>1. Balance' = Balance
      BY <1>2, <2>3, BalanceStays
    <3>2. Matched => Balance + sale[k].done <= sale[k].req
      BY <2>2 DEF EmptyInv
    <3>3. Matched' => Balance' <= 0
      BY <1>1, <1>2, <2>1, <2>5, <3>1, <3>2
    <3>4. \A j \in Sales : sale'[j].st = "NONE" => sale'[j] = NoSale
      BY <2>3 DEF EmptyInv
    <3>5. closed'.reason # "NONE" => cycle' = "CLOSED"
      BY <1>4, <2>2
    <3> QED
      BY <1>3, <2>5, <3>3, <3>4, <3>5 DEF EmptyInv
  <2> QED
    BY <2>1, <2>4, <2>5
<1>15. ASSUME NEW k \in Sales, NEW n \in 0..MaxShares, RecordSale(k, n) PROVE EmptyInv'
  <2>1. /\ sale[k].st = "NONE" /\ \A j \in 1..(k - 1) : sale[j].st # "NONE"
        /\ n \in Reported /\ n > 0 /\ n \in Int
        /\ sale' = [sale EXCEPT ![k] = NewSale(n)]
        /\ pc' = "selling" /\ closed' = closed /\ cycle' = cycle
    BY <1>15, ShareFacts DEF RecordSale, NewSale, db
  <2>2. /\ sale'[k].st # "NONE" /\ sale'[k].at = "NONE" /\ sale'[k].done = 0
        /\ sale'[k].req = n /\ \A j \in Sales : j # k => sale'[j] = sale[j]
    BY <1>1, <2>1 DEF NewSale
  <2>3. sale[k].done = 0
    BY <2>1 DEF EmptyInv, NoSale
  <2>4. Balance' = Balance
    <3>1. \A j \in Sales : sale'[j].done = sale[j].done
      BY <2>2, <2>3
    <3> QED
      BY <1>2, <3>1, BalanceStays
  <2>5. Balance = n
    BY <2>1, ReportedIsTrue
  <2>6. \A j \in Sales : j > k => sale[j].st = "NONE"
    BY <1>1, <2>1 DEF SaleInv
  <2>7. \A j \in Sales : CurSale(j)' => j = k
    BY <1>1, <2>2, <2>6 DEF CurSale, Sales
  <2>8. \A j \in Sales : CurSale(j)' => /\ sale'[j].at = "NONE" /\ sale'[j].done = 0
                                        /\ Balance' + sale'[j].done <= sale'[j].req
    BY <1>1, <2>2, <2>4, <2>5, <2>7
  <2>9. closed'.reason = "EMERGENCY" /\ Matched' => Balance' <= 0
    BY <1>2, <2>1, <2>4 DEF EmptyInv
  <2>10. \A j \in Sales : sale'[j].st = "NONE" => sale'[j] = NoSale
    BY <2>2 DEF EmptyInv
  <2> QED
    BY <1>3, <1>4, <2>1, <2>8, <2>9, <2>10 DEF EmptyInv
<1>16. ASSUME NEW k \in Sales, NEW n \in 0..MaxShares, SaleTaken(k, n) PROVE EmptyInv'
  <2>1. /\ pc = "selling" /\ CurSale(k) /\ pc' \in {"asking", "refused"}
        /\ n \in Int /\ n >= 0 /\ closed' = closed /\ cycle' = cycle
        /\ \E a : sale' = [sale EXCEPT ![k].done = n, ![k].at = a]
    <3>1. /\ pc = "selling" /\ CurSale(k) /\ pc' \in {"asking", "refused"}
          /\ closed' = closed /\ cycle' = cycle
      BY <1>16 DEF SaleTaken, db
    <3>2. \E a : sale' = [sale EXCEPT ![k].done = n, ![k].at = a]
      BY <1>16 DEF SaleTaken
    <3>3. n \in Int /\ n >= 0
      BY ShareFacts
    <3> QED
      BY <3>1, <3>2, <3>3
  <2>2. /\ \A j \in Sales : j # k => sale'[j] = sale[j]
        /\ sale'[k].st = sale[k].st /\ sale'[k].req = sale[k].req /\ sale'[k].done = n
    BY <1>1, <2>1 DEF SaleRow
  <2>3. Balance' = Balance + sale[k].done - n
    BY <1>2, <2>2, BalanceMoves
  <2>4. sale[k].done = 0 /\ sale[k].st # "NONE"
    BY <2>1 DEF EmptyInv, CurSale
  <2>5. \A j \in Sales : CurSale(j)' => j = k
    <3>1. \A j \in Sales : CurSale(j)' => CurSale(j)
      BY <2>2 DEF CurSale, Sales
    <3> QED
      BY <2>1, <3>1, OneCurrent
  <2>6. Matched => Balance + sale[k].done <= sale[k].req
    BY <2>1 DEF EmptyInv
  <2>7. \A j \in Sales : CurSale(j)' /\ Matched' => Balance' + sale'[j].done <= sale'[j].req
    BY <1>1, <1>2, <2>1, <2>2, <2>3, <2>5, <2>6
  <2>8. closed'.reason = "EMERGENCY" /\ Matched' => Balance' <= 0
    <3>1. closed.reason = "EMERGENCY" /\ Matched => Balance <= 0
      BY DEF EmptyInv
    <3>2. Balance' <= Balance
      BY <1>1, <2>1, <2>3, <2>4
    <3> QED
      BY <1>1, <1>2, <2>1, <2>3, <2>4, <3>1, <3>2
  <2>9. \A j \in Sales : sale'[j].st = "NONE" => sale'[j] = NoSale
    BY <2>2, <2>4 DEF EmptyInv
  <2>10. closed'.reason # "NONE" => cycle' = "CLOSED"
    BY <1>4, <2>1
  <2> QED
    BY <1>3, <2>1, <2>7, <2>8, <2>9, <2>10 DEF EmptyInv
<1>17. CASE CloseEmpty \/ CloseSold \/ ForceCloseCycle
  <2>1. sale' = sale /\ pc' = "epnl" /\ cycle' = "CLOSED"
    BY <1>17 DEF CloseEmpty, CloseSold, ForceCloseCycle, CloseAs
  <2>2. Balance' = Balance
    BY <1>2, <2>1, BalanceStays
  <2>3. closed'.reason = "EMERGENCY" /\ Matched => Balance <= 0
    <3>1. CASE CloseEmpty
      <4>1. Balance = 0
        BY <3>1, ReportedIsTrue DEF CloseEmpty
      <4> QED
        BY <4>1
    <3>2. CASE CloseSold
      BY <3>2 DEF CloseSold, EmptyInv
    <3>3. CASE ForceCloseCycle
      BY <3>3 DEF ForceCloseCycle, LoopOver, CloseAs, EmptyInv
    <3> QED
      BY <1>17, <3>1, <3>2, <3>3
  <2> QED
    BY <1>2, <1>3, <2>1, <2>2, <2>3 DEF EmptyInv
<1>18. CASE ESetPnl \/ EReleaseConfig
  <2>1. UNCHANGED <<sale, closed>> /\ pc' \in {"erelease", "tick"}
    BY <1>18 DEF ESetPnl, EReleaseConfig, evars
  <2> QED
    BY <1>5, <2>1 DEF Looping
<1> QED
  BY <1>6, <1>7, <1>8, <1>9, <1>10, <1>11, <1>12, <1>13, <1>14, <1>15, <1>16, <1>17, <1>18
     DEF Emergency

LEMMA EmptyNext ==
  ETypeInv /\ ETypeInv' /\ ERowsInv /\ LiqInv /\ FillInv /\ SaleInv /\ EmptyInv
    /\ [ENext]_allvars => EmptyInv'
<1> SUFFICES ASSUME ETypeInv, ETypeInv', ERowsInv, LiqInv, FillInv, SaleInv, EmptyInv,
                    [ENext]_allvars
             PROVE  EmptyInv'
  OBVIOUS
<1>1. ASSUME UNCHANGED <<log, book, sale, closed>>, closed.reason # "NONE" => cycle' = cycle,
             UNCHANGED <<pc, doing, actual>> \/ pc' = "dead"
      PROVE  EmptyInv'
  <2>1. Trades' = Trades /\ (Matched' <=> Matched)
    BY <1>1 DEF Trades, Moved, Matched
  <2>2. Balance' = Balance /\ Balance \in Int
    BY <1>1, <2>1, BalanceStays, BalanceTypes
  <2>3. Balance' <= Balance
    BY <2>2
  <2>4. /\ closed.reason # "NONE" => cycle' = "CLOSED"
        /\ \A r \in Refs : log'[r].st # "NONE" => log'[r].stage \in Stages
    BY <1>1 DEF EmptyInv
  <2> QED
    BY <1>1, <2>1, <2>3, <2>4, EmptyKept DEF Looping
<1>2. CASE UNCHANGED allvars \/ Reconcile \/ ReconcileLost
  BY <1>1, <1>2 DEF allvars, rvars, vars, evars, elocal, db, market, local, Reconcile,
                    ReconcileLost, Die, EmptyInv
<1> QED
  BY <1>2, EmptyOrdinary, EmptyAccount, EmptyCommand DEF ENext


---------------------------------------------------------------------------
(* Before any crash and any command *)

\* As long as the cycle is run by the order path alone, all that is known of the
\* order path holds, and the account has seen no market sell.
EarlyInv ==
  crashes = 0 /\ cycle \in {"RUNNING", "PAUSED"} =>
    /\ TypeInv /\ OrderInv
    /\ FillsInv /\ ShapeInv /\ AmountInv /\ AskInv /\ HoldingsInv /\ WholeInv
    /\ \A k \in Sales : sale[k] = NoSale

LEMMA EarlyInit == EInit => EarlyInv
BY TypeInit, OrderInit, FillsInit, GuardRowsInit, RecordedInit DEF EInit, RInit, EarlyInv

\* A command starts between two ticks and ends the cycle's ordinary life.
LEMMA CommandsEndIt ==
  ASSUME Emergency, pc \notin EPCs PROVE cycle' \notin {"RUNNING", "PAUSED"}
<1>1. pc = "tick"
  BY EmergencyFrame
<1>2. BeginLiquidation \/ \E b \in 0..MaxShares : BeginForceClose(b)
  BY <1>1 DEF Emergency, CancelOrder, CancelOrderLost, CancelOrderRefused, CancelAt,
              CommitCancel, CommitSaleCancel, BalanceFails, LoopOver, CancelSale,
              CommitRefusal, CommitSale, RecordSale, SaleTaken, SaleRefused, AskLost,
              CloseEmpty, CloseSold, ForceCloseCycle, ESetPnl, EReleaseConfig
<1> QED
  BY <1>2 DEF BeginLiquidation, BeginForceClose, db

\* The end of the engine thread takes no order out of its hands.
LEMMA DeadEngine ==
  ASSUME TypeInv, OrderInv, FillsInv, ShapeInv, AmountInv, AskInv, HoldingsInv,
         WholeInv, pc = "tick", Die, UNCHANGED <<db, market>>
  PROVE  /\ TypeInv' /\ OrderInv'
         /\ FillsInv' /\ ShapeInv' /\ AmountInv' /\ AskInv' /\ HoldingsInv' /\ WholeInv'
<1> USE DEF Die, db, market
<1>1. TypeInv'
  BY QtyFacts DEF TypeInv, TypeOK, PCs, Sending, Polling
<1>2. \A r \in Refs : Open(r)' <=> Open(r)
  BY DEF Open, InHand, Sending
<1>3. OrderInv'
  BY <1>2 DEF OrderInv, RowInv, PcInv, PlanInv, TodoInv, UniqueInv, WaitInv, Sending,
              Polling
<1>4. FillsInv'
  BY DEF FillsInv, Sending
<1>5. ShapeInv' /\ AmountInv'
  BY DEF ShapeInv, AmountInv
<1>6. AskInv'
  BY <1>2 DEF AskInv
<1>7. HoldingsInv' /\ WholeInv'
  <2>1. \A s \in Stages : Recorded(s)' = Recorded(s) /\ Forgotten(s)' = Forgotten(s)
    BY <1>2 DEF Recorded, Told, Forgotten
  <2> QED
    BY <1>2, <2>1 DEF HoldingsInv, WholeInv
<1> QED
  BY <1>1, <1>3, <1>4, <1>5, <1>6, <1>7

LEMMA EarlyNext == ETypeInv /\ EarlyInv /\ [ENext]_allvars => EarlyInv'
<1> DEFINE Early == /\ TypeInv /\ OrderInv
                    /\ FillsInv /\ ShapeInv /\ AmountInv /\ AskInv /\ HoldingsInv /\ WholeInv
<1> SUFFICES ASSUME ETypeInv, EarlyInv, [ENext]_allvars,
                    crashes' = 0, cycle' \in {"RUNNING", "PAUSED"}
             PROVE  Early' /\ \A k \in Sales : sale'[k] = NoSale
  BY DEF EarlyInv
<1>1. crashes = 0
  <2>1. crashes \in Nat
    BY RecoveryAssumption DEF ETypeInv
  <2>2. CASE Ordinary
    BY <2>1, <2>2, CrashesGrow DEF Ordinary
  <2>3. CASE UNCHANGED allvars \/ Account \/ Emergency \/ Reconcile \/ ReconcileLost
    BY <2>3, EmergencyFrame
       DEF allvars, rvars, Account, SaleExpires, SaleFills, Reconcile, ReconcileLost
  <2> QED
    BY <2>2, <2>3 DEF ENext
<1>2. cycle \in {"RUNNING", "PAUSED"}
  <2>1. Ordinary => cycle \in {"RUNNING", "PAUSED"}
    BY CycleMovers DEF Ordinary, PauseCycle, ResumeCycle, Transition, CloseCycle
  <2>2. Emergency => cycle' = cycle
    BY EmergencyCycle
  <2> QED
    BY <2>1, <2>2 DEF ENext, allvars, rvars, vars, db, Account, SaleExpires, SaleFills,
                      Reconcile, ReconcileLost
<1>3. Early /\ \A k \in Sales : sale[k] = NoSale
  BY <1>1, <1>2 DEF EarlyInv
<1>4. /\ pc \in PCs \ {"down", "recover", "rundo", "rapply"}
      /\ pc \notin EPCs
  BY <1>3, PCsApart DEF TypeInv
<1>5. ASSUME [Next]_vars PROVE Early'
  <2>1. TypeInv' /\ OrderInv'
    BY <1>3, <1>5, TypeNext, OrderNext
  <2> QED
    BY <1>3, <1>5, <2>1, FillsNext, ShapeNext, AmountNext, AskNext, RecordedNext,
       WholeNext
<1>6. CASE Ordinary
  <2>1. ~Crash /\ ~Restart /\ ~RestartLost /\ ~RecoverStep /\ ~Recovered
    BY <1>1, <1>4 DEF Crash, Restart, RestartLost, RecoverStep, RecoverSkip,
       RecoverUnfilled, RecoverFilled, RecoverWith, RecoverAt, RecoverRestore,
       RecoverApply, Recovered, RecoverDone
  <2> HIDE DEF Early
  <2> QED
    BY <1>3, <1>5, <1>6, <2>1 DEF Ordinary, RNext
<1>7. CASE Account
  <2>1. PICK k \in Sales : sale[k].at = "WORKING"
    BY <1>7 DEF Account, SaleExpires, SaleFills
  <2> QED
    BY <1>3, <2>1 DEF NoSale
<1>8. CASE Emergency
  BY <1>4, <1>8, CommandsEndIt
<1>9. CASE Reconcile
  <2>1. PauseCycle /\ sale' = sale
    BY <1>9 DEF Reconcile, PauseCycle, Transition, evars
  <2> HIDE DEF Early
  <2> QED
    BY <1>3, <1>5, <2>1 DEF Next, Command
<1>10. CASE ReconcileLost
  <2>1. pc = "tick" /\ Die /\ UNCHANGED <<db, market, sale>>
    BY <1>10 DEF ReconcileLost, evars
  <2> QED
    BY <1>3, <2>1, DeadEngine
<1>11. CASE UNCHANGED allvars
  <2>1. UNCHANGED vars /\ sale' = sale
    BY <1>11 DEF allvars, rvars, evars
  <2> HIDE DEF Early
  <2> QED
    BY <1>3, <1>5, <2>1
<1> QED
  BY <1>6, <1>7, <1>8, <1>9, <1>10, <1>11 DEF ENext

---------------------------------------------------------------------------
(* The theorems *)

\* Once the user has begun to liquidate, no order of a stage is placed any more
\* and the cycle only closes; once it is closed, no late fill, poll, recovery or
\* second command changes the cycle, its stages or the reason it was closed.
THEOREM LiquidationNeverUndone == ESpec => LiquidationIsFinal
<1> DEFINE Final ==
      /\ cycle \in {"LIQUIDATING", "CLOSED"} =>
           \A r \in Refs : log[r].st = "NONE" => log'[r].st = "NONE"
      /\ cycle = "LIQUIDATING" => cycle' \in {"LIQUIDATING", "CLOSED"}
      /\ cycle = "CLOSED" => UNCHANGED <<cycle, stage, closed>>
<1>1. ETypeInv /\ ERowsInv /\ LiqInv /\ [ENext]_allvars => Final
  <2> SUFFICES ASSUME ETypeInv, ERowsInv, LiqInv, [ENext]_allvars PROVE Final
    OBVIOUS
  <2>1. CASE UNCHANGED <<cycle, log, stage, closed>>
    BY <2>1
  <2>2. CASE UNCHANGED allvars \/ Account \/ ReconcileLost
    BY <2>1, <2>2 DEF allvars, rvars, vars, evars, db, Account, SaleExpires, SaleFills,
                      ReconcileLost
  <2>3. CASE Reconcile
    BY <2>3 DEF Reconcile
  <2>4. CASE Ordinary
    <3>1. CASE pc \in PCs
      <4>1. RTypeInv /\ RowsInv /\ [RNext]_rvars
        BY <2>4, <3>1, LoopTypes DEF Ordinary, ERowsInv
      <4>2. ASSUME cycle # "RUNNING", NEW r \in Refs, log[r].st = "NONE"
            PROVE  log'[r].st = "NONE"
        <5>1. ~\E s \in Stages, q \in Refs : RecordOrder(s, q)
          BY <4>2 DEF RecordOrder, Chosen, LiqInv
        <5> QED
          BY <4>1, <4>2, <5>1, EveryRowStep DEF RowStep, Live, ETypeInv, ETypeOK
      <4>3. cycle = "LIQUIDATING" => cycle' \in {"LIQUIDATING", "CLOSED"}
        BY <4>1, CycleMovers DEF PauseCycle, ResumeCycle, Transition, CloseCycle
      <4>4. cycle = "CLOSED" => UNCHANGED <<cycle, stage, closed>>
        BY <2>4, <4>1, LoopKeepsClosed DEF Ordinary
      <4> QED
        BY <4>2, <4>3, <4>4
    <3>2. CASE pc \in EPCs
      <4>1. UNCHANGED <<cycle, log, stage>>
        BY <2>4, <3>2, LoopStandsStill, ExchangeFrame
           DEF Ordinary, Crash, db, ETypeInv, ETypeOK
      <4> QED
        BY <2>4, <4>1 DEF Ordinary
    <3> QED
      BY <3>1, <3>2 DEF ETypeInv, ETypeOK
  <2>5. CASE Emergency
    <3>1. ASSUME NEW r \in Refs, log[r].st = "NONE" PROVE log'[r].st = "NONE"
      <4>1. CASE log' = log
        BY <3>1, <4>1
      <4>2. CASE CommitCancel
        BY <3>1, <4>2, SettledByCommand
           DEF CommitCancel, ERowsInv, EPCs, Live, ETypeInv, ETypeOK
      <4> QED
        BY <2>5, <4>1, <4>2, EmergencyRows
    <3>2. cycle = "LIQUIDATING" => cycle' \in {"LIQUIDATING", "CLOSED"}
      BY <2>5, EmergencyCycle
    <3>3. cycle = "CLOSED" => UNCHANGED <<cycle, stage, closed>>
      BY <2>5, EmergencyCycle DEF LiqInv, Commanding
    <3> QED
      BY <3>1, <3>2, <3>3
  <2> QED
    BY <2>2, <2>3, <2>4, <2>5 DEF ENext
<1>2. Final => [Final]_<<cycle, log, stage, closed>>
  OBVIOUS
<1> QED
  BY <1>1, <1>2, ETypeInvariant, ERowsInvariant, LiqInvariant, PTL
     DEF ESpec, LiquidationIsFinal

\* As long as the process has not died, an order the program has a number for is
\* settled only after the exchange is done with it: a cancel that fails, in the
\* poll or in a command, leaves the row pending.
THEOREM OrdersAreWatched == ESpec => []NumberedOrderIsWatched
<1>1. WatchInv => NumberedOrderIsWatched
  BY DEF WatchInv
<1> QED
  BY <1>1, TruthInvariant, PTL

\* No row, of a limit order or a market sell, ever records more shares than the
\* exchange has traded, whatever is polled, cancelled, lost or recovered in
\* between, so the realized profit counts no share that was not.
THEOREM FillsAreReal == ESpec => []NothingInvented
<1>1. FillInv /\ SaleInv => NothingInvented
  BY DEF FillInv, SaleInv, NothingInvented
<1> QED
  BY <1>1, TruthInvariant, SaleInvariant, PTL

\* SUCCESS is not said lightly: an emergency close leaves an empty account, but
\* for what a buy brings in that its row does not tell, whatever was lost, sold in
\* parts or crashed on the way.
THEOREM SuccessLeavesNothing == ESpec => []SuccessIsEmpty
<1>1. ETypeInv /\ EmptyInv => SuccessIsEmpty
  <2> SUFFICES ASSUME ETypeInv, EmptyInv, closed.reason = "EMERGENCY", Balance > 0
               PROVE  \E r \in Refs : log[r].side = "BUY" /\ Untold(r)
    BY DEF SuccessIsEmpty
  <2>1. ~Matched
    BY BalanceTypes DEF EmptyInv
  <2> QED
    BY <2>1 DEF Matched, Untold
<1>2. ESpec => []EmptyInv
  BY EmptyInit, EmptyNext, ETypeInvariant, ERowsInvariant, LiqInvariant, TruthInvariant,
     SaleInvariant, PTL DEF ESpec
<1> QED
  BY <1>1, <1>2, ETypeInvariant, PTL

\* The reconciler's pause is never a false alarm: an engine that was neither
\* restarted nor told to liquidate, and whose rows tell all of its orders, has in
\* its account every share the stages claim.
THEOREM PausesAreJustified == ESpec => []PauseHasAReason
<1>1. ETypeInv /\ EarlyInv => PauseHasAReason
  <2> SUFFICES ASSUME ETypeInv, EarlyInv, pc = "tick", cycle \in {"RUNNING", "PAUSED"},
                      crashes = 0, \A r \in Refs : ~Untold(r)
               PROVE  ~(Held > Balance)
    <3>1. ETypeInv => crashes \in Nat
      BY RecoveryAssumption DEF ETypeInv
    <3> QED
      BY <3>1 DEF PauseHasAReason
  <2>1. /\ TypeInv /\ OrderInv /\ FillsInv /\ HoldingsAreRecorded
        /\ \A k \in Sales : sale[k] = NoSale
    BY WholeHoldings DEF EarlyInv
  <2> DEFINE m == Trades
             c == [r \in Refs |-> log[r].stage]
             F == [s \in Stages |-> HeldQty(stage[s])]
             part == [s \in Stages |-> [r \in Refs |-> IF c[r] = s THEN m[r] ELSE 0]]
  <2>2. \A r \in Refs : m[r] \in Int /\ (c[r] \in Stages \/ m[r] = 0)
    <3>1. ASSUME NEW r \in Refs, c[r] \notin Stages PROVE m[r] = 0
      <4>1. log[r].st = "NONE"
        BY <2>1, <3>1 DEF OrderInv, RowInv
      <4>2. book[r].filled = 0
        BY <2>1, <4>1 DEF FillsInv
      <4> QED
        BY <4>2 DEF Trades, Moved
    <3> HIDE DEF c
    <3> QED
      BY <3>1, BalanceTypes
  <2>3. ASSUME NEW s \in Stages PROVE F[s] = SumFunctionOnSet(part[s], Refs)
    <3>1. Recorded(s) = part[s]
      <4>1. \A r \in Refs : ~Open(r)
        BY DEF Untold, Open, Sent, Live, InHand, Sending
      <4>2. \A r \in Refs : Told(r) = Moved(r)
        BY DEF Untold, Told, Moved
      <4> QED
        BY <4>1, <4>2 DEF Recorded, Trades
    <3>2. HeldQty(stage[s]) = SumFunctionOnSet(Recorded(s), Refs)
      BY <2>1 DEF HoldingsAreRecorded
    <3> QED
      BY <3>1, <3>2
  <2>4. IsFiniteSet(Refs) /\ IsFiniteSet(Stages)
    BY FiniteRefs, StageAssumption, FS_Interval DEF Stages
  <2>5. SumFunctionOnSet(F, Stages) = SumFunctionOnSet(m, Refs)
    <3>1. \A s \in Stages : \A r \in Refs : part[s][r] = IF c[r] = s THEN m[r] ELSE 0
      OBVIOUS
    <3> HIDE DEF m, c, F, part
    <3> QED
      BY <2>2, <2>3, <2>4, <3>1, SumByClass
  <2>6. Held = SumFunctionOnSet(F, Stages)
    BY DEF Held, SumFunction, SumFunctionOnSet, FoldFunction
  <2>7. SumFunctionOnSet(Sold, Sales) = 0
    <3>1. \A k \in Sales : Sold[k] = 0
      BY <2>1 DEF Sold, NoSale
    <3> QED
      BY <3>1, FiniteRefs, SumZero
  <2>8. Held = Balance
    BY <2>5, <2>6, <2>7, BalanceSum, BalanceTypes
  <2> QED
    BY <2>8, BalanceTypes
<1>2. ESpec => []EarlyInv
  BY EarlyInit, EarlyNext, ETypeInvariant, PTL DEF ESpec
<1> QED
  BY <1>1, <1>2, ETypeInvariant, PTL
=============================================================================
