---------------------------- MODULE RecoveryInv ----------------------------
(***************************************************************************)
(* What a crash and the recovery after it leave intact: the inductive      *)
(* invariant behind the safety of a program that dies once, as named       *)
(* parts, for RecoveryProofs to prove and TLC to check first.              *)
(***************************************************************************)
EXTENDS EngineRecovery, EngineInv

\* One crash, and a restart after the close, while the day's list is still there;
\* the exchange acts between two ticks, and no order arrives after its inquiry.
CleanCrash ==
  /\ MaxCrashes <= 1 /\ RestartAfter = "close"
  /\ ~RacingFills /\ ~LateDelivery /\ "midnight" \notin Expiry

\* The exchange lists today every order it ever worked on.
TodayInv ==
  \A r \in Refs : book[r].st \notin {"NONE", "TRANSIT"} => r \in today

\* A row a crash left SENDING.
Orphan(r) == log[r].st = "SENDING" /\ ~Open(r)

\* Its stage is PENDING only for another order.
OrphanInv ==
  \A r \in Refs : Orphan(r) /\ Pending(stage[log[r].stage]) =>
    \E q \in Refs : Open(q) /\ log[q].stage = log[r].stage

\* While the engine runs, before the crash and after the recovery.
RunInv ==
  /\ TypeInv /\ OrderInv /\ BookInv /\ FillsInv /\ AskInv /\ FlatInv
  /\ ShapeInv /\ AmountInv /\ TruthInv /\ HoldingsInv /\ OrphanInv /\ TodayInv

---------------------------------------------------------------------------
(* While the program is down and while it recovers *)

Away == {"down", "recover", "rundo", "rapply"}

Correcting == {"rundo", "rapply"}

\* A pending row of a PENDING stage: what recovery has to settle,
Waits(r) == log[r].st \in Live /\ Pending(stage[log[r].stage])

\* or has settled while the stage row is not written yet.
Owed(r) == Waits(r) \/ (r = cur /\ pc \in Correcting)

\* What the rows of the log say of the exchange's orders, wherever the engine stands.
RowsTell ==
  /\ \A r \in Refs : log[r].st # "NONE" => log[r].stage \in Stages
  /\ \A r \in Refs : log[r].st = "SENDING" => ~log[r].known
  /\ \A r \in Refs : log[r].st = "NONE" =>
       log[r].fill = 0 /\ log[r].req = 0 /\ book[r].st = "NONE"
  /\ \A r \in Refs : log[r].st \in Live \/ ~AtExchange(r)
  /\ \A r \in Refs : log[r].st \in Terminal => log[r].fill = book[r].filled
  /\ \A r \in Refs : log[r].fill <= book[r].filled /\ book[r].filled <= log[r].req
  /\ \A r \in Refs : book[r].st # "TRANSIT"
  /\ \A r \in Refs : book[r].st \in {"NONE", "OPEN", "REJECTED"} => book[r].filled = 0
  /\ \A r \in Refs : book[r].st = "FILLED" => book[r].filled > 0

\* A stage that waits, waits for one order; a pending row it does not wait for never
\* reached the exchange.
WaitsAgree ==
  /\ \A q, r \in Refs : Owed(q) /\ Owed(r) /\ log[q].stage = log[r].stage => q = r
  /\ \A r \in Refs : Owed(r) =>
       /\ stage[log[r].stage].status = PendingAs(log[r].side)
       /\ log[r].req = IF log[r].side = "BUY" THEN Lot ELSE stage[log[r].stage].qty
  /\ \A r \in Refs : log[r].st \in Live /\ ~Waits(r) =>
       log[r].st = "SENDING" /\ book[r].st = "NONE"

\* What recovery works from, and what it has in hand.
RecoverInv ==
  /\ pc # "down" =>
       /\ \A r \in Refs : ~AtExchange(r)
       /\ \A r \in Refs : Waits(r) => r \in todo
       /\ \A r \in Refs : listed[r] = IF r \in today THEN book[r] ELSE Unlisted
  /\ pc \in Correcting =>
       /\ cur \in Refs /\ log[cur].st \in Terminal /\ seen = log[cur].fill
       /\ pc = "rapply" <=> seen > 0
  /\ \A r \in todo : log[r].st \in Live \/ (r = cur /\ pc \in Correcting)

\* What a stage holds, an order recovery still has to settle left aside.
RecordedAway(s) ==
  [r \in Refs |-> IF log[r].stage = s /\ ~Owed(r) THEN Told(r) ELSE 0]

ForgottenAway(s) ==
  Pending(stage[s]) /\ \A r \in Refs : Owed(r) => log[r].stage # s

HoldingsAway ==
  \A s \in Stages :
    ForgottenAway(s) \/ HeldQty(stage[s]) = SumFunctionOnSet(RecordedAway(s), Refs)

AwayInv ==
  /\ TypeOK /\ plan = {}
  /\ RowsTell /\ WaitsAgree /\ RecoverInv /\ HoldingsAway /\ ShapeInv /\ TodayInv
  /\ cycle = "CLOSED" => \A s \in Stages : ~Pending(stage[s]) /\ HeldQty(stage[s]) = 0

\* What no crash takes away: the exchange works on one order of a stage at most, a
\* settled row tells what it did, sells are covered and a closed cycle is flat.
Sound == OneOrderPerStage /\ SettledIsFinal /\ SellsAreCovered /\ ClosedIsFlat

\* Before the crash nothing is forgotten; then the recovery, or an engine that
\* recovery has started again or left dead.
CrashInv ==
  /\ listed \in [Refs -> BookRow]
  /\ \/ crashes = 0 /\ RunInv /\ WholeInv
     \/ crashes = 1 /\ RunInv
     \/ crashes = 1 /\ pc \in Away /\ AwayInv
     \/ crashes = 1 /\ pc = "dead" /\ todo = {} /\ Sound
=============================================================================
