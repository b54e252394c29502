--------------------------- MODULE EngineEmergency ---------------------------
(***************************************************************************)
(* The engine with the user's way out: EmergencyHandler.liquidate_single   *)
(* and force_close, which drain_commands calls between two ticks, and      *)
(* Reconciler.run_once, which compares the account with the stages.        *)
(*                                                                         *)
(* The account is one number per stock, and the balance and the stages are *)
(* two different stories until every order is told.  (What else may be in  *)
(* the account of the same stock is the business of module Desk.)          *)
(***************************************************************************)
EXTENDS EngineRecovery, Integers

CONSTANTS
  MaxSales   \* bound: market sells the model sends in one behaviour

ASSUME EmergencyAssumption == MaxSales \in Nat \ {0}

Sales == 1..MaxSales   \* the EMERGENCY rows of order_log, in insertion order

MaxShares == MaxStages * Lot

VARIABLES
  sale,    \* each market sell: its row (st, req, fill), and what the exchange
           \* knows of it (at, done)
  closed,  \* cycle.close_reason and cycle.forced_close_qty (0 for NULL)
  doing,   \* the command being handled
  stodo,   \* rows of sale the cancel loop has not handled yet
  actual   \* the balance force_close read before its cancel loop

evars == <<sale, closed, doing, stodo, actual>>
elocal == <<doing, stodo, actual>>
allvars == <<rvars, evars>>

SaleRow == [st: {"NONE", "SENDING", "PARTIAL", "FILLED", "CANCELED", "REJECTED"},
            req: 0..MaxShares, fill: 0..MaxShares,
            at: {"NONE", "WORKING", "OVER"}, done: 0..MaxShares]

NoSale == [st |-> "NONE", req |-> 0, fill |-> 0, at |-> "NONE", done |-> 0]

Closings == [reason: {"NONE", "NORMAL", "EMERGENCY", "FORCED"}, left: 0..MaxShares]

EPCs == {"cancelling", "cancelled", "sold", "selling", "asking", "refused",
         "closing_all", "epnl", "erelease"}

ETypeOK ==
  /\ stage \in [Stages -> StageRow] /\ log \in [Refs -> LogRow]
  /\ cycle \in {"RUNNING", "PAUSED", "LIQUIDATING", "CLOSED"}
  /\ {pnl} \subseteq BOOLEAN /\ config \in {"ACTIVE", "IDLE"}
  /\ book \in [Refs -> BookRow] /\ listed \in [Refs -> BookRow]
  /\ pc \in PCs \cup EPCs
  /\ todo \subseteq Refs /\ stodo \subseteq Sales
  /\ sale \in [Sales -> SaleRow]
  /\ closed \in Closings
  /\ doing \in {"nothing", "liquidate", "force"}
  /\ actual \in 0..MaxShares

EInit ==
  /\ RInit
  /\ sale = [k \in Sales |-> NoSale]
  /\ closed = [reason |-> "NONE", left |-> 0]
  /\ doing = "nothing" /\ stodo = {} /\ actual = 0

---------------------------------------------------------------------------
(* The account *)

\* The position of the stock: orders of the stages and market sells.
Balance ==
  SumFunction([r \in Refs |-> Moved(r)]) - SumFunction([k \in Sales |-> sale[k].done])

Held == SumFunction([s \in Stages |-> HeldQty(stage[s])])   \* pnl.held_qty

\* broker_qty: a stock without shares may be reported as 0 or not at all.
Absent == -1
Reported == IF Balance = 0 THEN {0, Absent} ELSE {Balance}

\* More of a market sell is filled; one that is over fills no more.
SaleFills(k, n) ==
  /\ ExchangeMoves
  /\ sale[k].at = "WORKING" /\ n <= Balance /\ sale[k].done + n <= sale[k].req
  /\ sale' = [sale EXCEPT ![k].done = @ + n,
                          ![k].at = IF sale[k].done + n = sale[k].req THEN "OVER"
                                    ELSE "WORKING"]
  /\ UNCHANGED <<rvars, closed, elocal>>

SaleExpires(k) ==
  /\ ExchangeMoves /\ "close" \in Expiry
  /\ sale[k].at = "WORKING"
  /\ sale' = [sale EXCEPT ![k].at = "OVER"]
  /\ UNCHANGED <<rvars, closed, elocal>>

Account ==
  \E k \in Sales : SaleExpires(k) \/ \E n \in 1..MaxShares : SaleFills(k, n)

---------------------------------------------------------------------------
(* The emergency commands *)

EGoto(l) == pc' = l /\ UNCHANGED <<plan, todo, cur, seen, crashes, listed>>

\* The handler returns, or the exception that left it became CommandFailed.
CommandDone ==
  /\ pc' = "tick" /\ todo' = {} /\ stodo' = {} /\ doing' = "nothing" /\ actual' = 0
  /\ UNCHANGED <<plan, cur, seen, crashes, listed>>

CancelLoop ==
  /\ pc' = "cancelling"
  /\ todo' = {r \in PendingRows : log[r].known}
  /\ stodo' = {k \in Sales : sale[k].st = "PARTIAL"}
  /\ UNCHANGED <<plan, cur, seen, crashes, listed>>

\* (1) triggers stop at once; (2) starts.
BeginLiquidation ==
  /\ pc = "tick" /\ cycle # "CLOSED" /\ sale[MaxSales].st = "NONE"
  /\ cycle' = "LIQUIDATING" /\ doing' = "liquidate"
  /\ CancelLoop
  /\ UNCHANGED <<stage, log, pnl, config, market, sale, closed, actual>>

\* force_close reads the balance before it cancels.
BeginForceClose(b) ==
  /\ pc = "tick" /\ cycle = "LIQUIDATING" /\ b \in Reported \ {Absent}
  /\ actual' = b /\ doing' = "force"
  /\ CancelLoop
  /\ UNCHANGED <<db, market, sale, closed>>

CancelAt(r) == pc = "cancelling" /\ r \in todo /\ \A q \in todo : r <= q

SkipRow(r) == /\ pc' = "cancelling" /\ todo' = todo \ {r}
              /\ UNCHANGED <<plan, cur, seen, crashes, listed, elocal>>

CancelOrder(r) ==
  /\ CancelAt(r) /\ book[r].st \in Working
  /\ book' = [book EXCEPT ![r].st = "CANCELED"]
  /\ \/ EGoto("cancelled") /\ UNCHANGED elocal
     \/ "cancel" \in Losses /\ SkipRow(r)
  /\ UNCHANGED <<db, today, sale, closed>>

\* Mutant: a failed cancel is settled like a successful one.
CancelOrderLostSettled(r) ==
  /\ CancelAt(r) /\ "cancel" \in Losses
  /\ EGoto("cancelled")
  /\ UNCHANGED <<db, market, sale, closed, elocal>>

\* "A failed cancel is not counted": any BrokerError leaves the row as it is.
CancelOrderLost(r) ==
  /\ CancelAt(r) /\ "cancel" \in Losses
  /\ SkipRow(r)
  /\ UNCHANGED <<db, market, sale, closed>>

\* The exchange has nothing left to cancel; the ValueError of FakeBroker would
\* end the command.
CancelOrderRefused(r) ==
  /\ CancelAt(r) /\ book[r].st \in Finished
  /\ IF RefusalDies THEN CommandDone ELSE SkipRow(r)
  /\ UNCHANGED <<db, market, sale, closed>>

\* The row keeps the fill of the last poll.
CommitCancel ==
  /\ pc = "cancelled"
  /\ \E r \in todo :
       /\ \A q \in todo : r <= q
       /\ log' = [log EXCEPT ![r] = LogUpdate(@, "CANCELED", 0)]
       /\ SkipRow(r)
  /\ UNCHANGED <<stage, cycle, pnl, config, market, sale, closed>>

\* The rest of an earlier market sell is cancelled by the same loop.
CancelSale(k) ==
  /\ pc = "cancelling" /\ todo = {} /\ k \in stodo /\ \A j \in stodo : k <= j
  /\ \/ /\ sale[k].at = "WORKING"
        /\ sale' = [sale EXCEPT ![k].at = "OVER"]
        /\ EGoto("sold") /\ UNCHANGED elocal
     \/ /\ "cancel" \in Losses
        /\ stodo' = stodo \ {k}
        /\ EGoto("cancelling") /\ UNCHANGED <<sale, doing, actual>>
     \/ /\ sale[k].at = "OVER"
        /\ IF RefusalDies THEN CommandDone
           ELSE /\ stodo' = stodo \ {k}
                /\ EGoto("cancelling") /\ UNCHANGED <<doing, actual>>
        /\ UNCHANGED sale
  /\ UNCHANGED <<db, market, closed>>

CommitSaleCancel ==
  /\ pc = "sold"
  /\ \E k \in stodo :
       /\ \A j \in stodo : k <= j
       /\ sale' = [sale EXCEPT ![k].st = "CANCELED"]
       /\ stodo' = stodo \ {k}
  /\ EGoto("cancelling")
  /\ UNCHANGED <<db, market, closed, doing, actual>>

LoopOver(d) == pc = "cancelling" /\ todo = {} /\ stodo = {} /\ doing = d

\* (3) no answer, no such stock in the answer, or no share left of what the
\* stages still hold: FAILED, and the cycle stays LIQUIDATING.
BalanceFails ==
  /\ LoopOver("liquidate")
  /\ "query" \in Losses \/ Absent \in Reported \/ (0 \in Reported /\ Held > 0)
  /\ CommandDone
  /\ UNCHANGED <<db, market, sale, closed>>

\* (4) the whole balance, whoever it belongs to, is put on record first.
RecordSale(k, n) ==
  /\ LoopOver("liquidate")
  /\ sale[k].st = "NONE" /\ \A j \in 1..(k - 1) : sale[j].st # "NONE"
  /\ n \in Reported /\ n > 0
  /\ sale' = [sale EXCEPT ![k] =
       [st |-> "SENDING", req |-> n, fill |-> 0, at |-> "NONE", done |-> 0]]
  /\ EGoto("selling")
  /\ UNCHANGED <<db, market, closed, elocal>>

CurSale(k) == sale[k].st # "NONE" /\ \A j \in (k + 1)..MaxSales : sale[j].st = "NONE"

\* The answer may be lost although the exchange has sold.
SaleTaken(k, n) ==
  /\ pc = "selling" /\ CurSale(k)
  /\ n <= sale[k].req /\ n <= Balance
  /\ sale' = [sale EXCEPT ![k].done = n,
                          ![k].at = IF n = sale[k].req THEN "OVER" ELSE "WORKING"]
  /\ EGoto("asking") \/ ("place" \in Losses /\ EGoto("refused"))
  /\ UNCHANGED <<db, market, closed, elocal>>

SaleRefused ==
  /\ pc = "selling"
  /\ EGoto("refused")
  /\ UNCHANGED <<db, market, evars>>

\* Every BrokerError, a timeout included, is recorded as REJECTED.
CommitRefusal(k) ==
  /\ pc = "refused" /\ CurSale(k)
  /\ sale' = [sale EXCEPT ![k].st = "REJECTED"]
  /\ CommandDone
  /\ UNCHANGED <<db, market, closed>>

\* Mutant: what was sold is enough to close.
CommitSalePartlyCloses(k) ==
  /\ pc = "asking" /\ CurSale(k)
  /\ sale' = [sale EXCEPT ![k].st = "FILLED", ![k].fill = sale[k].done]
  /\ EGoto("closing_all") /\ UNCHANGED elocal
  /\ UNCHANGED <<db, market, closed>>

\* (5) the order is looked at once; what is not sold by then stays PARTIAL, and
\* nobody asks again.
CommitSale(k) ==
  /\ pc = "asking" /\ CurSale(k)
  /\ LET filled == sale[k].done = sale[k].req
     IN /\ sale' = [sale EXCEPT ![k].st = IF filled THEN "FILLED" ELSE "PARTIAL",
                                ![k].fill = sale[k].done]
        /\ IF filled THEN EGoto("closing_all") /\ UNCHANGED elocal ELSE CommandDone
  /\ UNCHANGED <<db, market, closed>>

AskLost ==
  /\ pc = "asking" /\ "query" \in Losses
  /\ CommandDone
  /\ UNCHANGED <<db, market, sale, closed>>

\* emergency_close_cycle: the cycle and all its stages in one transaction.
CloseAs(why, left) ==
  /\ stage' = [s \in Stages |-> ForceSold(stage[s])]
  /\ cycle' = "CLOSED" /\ closed' = [reason |-> why, left |-> left]
  /\ EGoto("epnl")
  /\ UNCHANGED <<log, pnl, config, market, sale, elocal>>

CloseEmpty == LoopOver("liquidate") /\ 0 \in Reported /\ Held = 0 /\ CloseAs("EMERGENCY", 0)
CloseSold == pc = "closing_all" /\ CloseAs("EMERGENCY", 0)

\* What is left is the balance read before the cancels; without any, the close
\* is an ordinary one.
ForceCloseCycle ==
  /\ LoopOver("force")
  /\ CloseAs(IF actual = 0 THEN "EMERGENCY" ELSE "FORCED", actual)

ESetPnl ==
  /\ pc = "epnl" /\ pnl' = TRUE
  /\ EGoto("erelease")
  /\ UNCHANGED <<stage, log, cycle, config, market, evars>>

EReleaseConfig ==
  /\ pc = "erelease" /\ config' = "IDLE"
  /\ CommandDone
  /\ UNCHANGED <<stage, log, cycle, pnl, market, sale, closed>>

Emergency ==
  \/ BeginLiquidation \/ \E b \in 0..MaxShares : BeginForceClose(b)
  \/ \E r \in Refs : CancelOrder(r) \/ CancelOrderLost(r) \/ CancelOrderRefused(r)
  \/ CommitCancel \/ CommitSaleCancel
  \/ BalanceFails
  \/ \E k \in Sales :
       \/ CancelSale(k) \/ CommitRefusal(k) \/ CommitSale(k)
       \/ \E n \in 0..MaxShares : RecordSale(k, n) \/ SaleTaken(k, n)
  \/ SaleRefused \/ AskLost
  \/ CloseEmpty \/ CloseSold \/ ForceCloseCycle
  \/ ESetPnl \/ EReleaseConfig

---------------------------------------------------------------------------
(* The reconciliation *)

\* Mutant: whatever cycle is active is paused.
ReconcileActive ==
  /\ pc = "tick" /\ cycle # "CLOSED" /\ Held > Balance
  /\ cycle' = "PAUSED"
  /\ UNCHANGED <<stage, log, pnl, config, market, local, crashes, listed, evars>>

\* More shares in the stages than in the account: the cycle is paused.  (No
\* force-closed quantity counts while the only cycle is still active.)
Reconcile ==
  /\ pc = "tick" /\ cycle = "RUNNING" /\ Held > Balance
  /\ cycle' = "PAUSED"
  /\ UNCHANGED <<stage, log, pnl, config, market, local, crashes, listed, evars>>

\* Its get_balance is caught by nobody: a timeout ends the engine thread.
ReconcileLost ==
  /\ pc = "tick" /\ "query" \in Losses
  /\ Die
  /\ UNCHANGED <<db, market, crashes, listed, evars>>

---------------------------------------------------------------------------
\* Bound: the process dies where a command has done half of its work, between the
\* market sell and its row, or between the commits of the close.  (EngineRecovery
\* lets it die anywhere else.)
CrashPoints == {"asking", "epnl"}

\* Every step of the engine, its recovery and the exchange, in an account that
\* is never overdrawn.
Ordinary ==
  /\ RNext
  /\ crashes' > crashes => pc \in CrashPoints
  /\ closed' = IF cycle' = "CLOSED" /\ cycle # "CLOSED"
               THEN [reason |-> "NORMAL", left |-> 0] ELSE closed
  /\ IF pc' = "down" THEN doing' = "nothing" /\ stodo' = {} /\ actual' = 0
     ELSE UNCHANGED elocal
  /\ UNCHANGED sale
  /\ book' # book => Balance' >= 0

ENext == Ordinary \/ Account \/ Emergency \/ Reconcile \/ ReconcileLost

ESpec == EInit /\ [][ENext]_allvars

---------------------------------------------------------------------------
(* Properties *)

\* "Liquidation stops the triggers at once" and nothing brings the cycle back:
\* from LIQUIDATING on no order of a stage is placed, the only way out is CLOSED,
\* and no late fill, poll or recovery touches a closed cycle or its stages.
LiquidationIsFinal ==
  [][/\ cycle \in {"LIQUIDATING", "CLOSED"} =>
          \A r \in Refs : log[r].st = "NONE" => log'[r].st = "NONE"
     /\ cycle = "LIQUIDATING" => cycle' \in {"LIQUIDATING", "CLOSED"}
     /\ cycle = "CLOSED" => UNCHANGED <<cycle, stage, closed>>
    ]_<<cycle, log, stage, closed>>

\* A failed cancel leaves the row pending: without a restart, an order the
\* program has a number for is never settled while it still works.
NumberedOrderIsWatched ==
  crashes = 0 => \A r \in Refs :
    log[r].known /\ log[r].st \in Terminal => ~AtExchange(r)

\* The profit counts no share that was not traded: recorded fills, of limit
\* orders and market sells, never exceed what the exchange filled.
NothingInvented ==
  /\ \A r \in Refs : log[r].fill <= book[r].filled
  /\ \A k \in Sales : sale[k].fill <= sale[k].done

Untold(r) == log[r].st \in Live \/ log[r].fill # book[r].filled

\* SUCCESS means the account is empty: what is in it after an emergency close was
\* bought by hand, or by an order whose row does not tell the whole story.
SuccessIsEmpty ==
  closed.reason = "EMERGENCY" /\ Balance > 0 =>
    \E r \in Refs : log[r].side = "BUY" /\ Untold(r)

\* The reconciler pauses for a reason: if the stages of an open cycle claim more
\* than the account has, then shares were sold by hand, an order is not fully
\* told by its row, or the engine has been restarted.
PauseHasAReason ==
  pc = "tick" /\ cycle \in {"RUNNING", "PAUSED"} /\ Held > Balance =>
    crashes > 0 \/ \E r \in Refs : Untold(r)
=============================================================================
