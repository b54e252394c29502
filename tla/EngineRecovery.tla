--------------------------- MODULE EngineRecovery ---------------------------
(***************************************************************************)
(* The engine with a process that may die at any of its steps, and         *)
(* Recovery.run, which EngineThread runs before the orchestrator when the  *)
(* program starts again.  Only the database and the exchange survive.      *)
(***************************************************************************)
EXTENDS Engine

CONSTANTS
  MaxCrashes,    \* bound: crashes in one behaviour
  RestartAfter   \* "any" moment, or only after the "close" of the market

ASSUME RecoveryAssumption ==
  /\ MaxCrashes \in Nat
  /\ RestartAfter \in {"any", "close"}

VARIABLES
  crashes,  \* how often the process has died
  listed    \* the answer of list_orders_today recovery works from (by_ref)

rvars == <<vars, crashes, listed>>

Unlisted == [st |-> "NONE", filled |-> 0]
NothingListed == [r \in Refs |-> Unlisted]

RTypeOK == TypeOK /\ crashes \in 0..MaxCrashes /\ listed \in [Refs -> BookRow]

RInit == Init /\ crashes = 0 /\ listed = NothingListed

Crash ==
  /\ pc # "down" /\ crashes < MaxCrashes
  /\ crashes' = crashes + 1 /\ listed' = NothingListed
  /\ pc' = "down" /\ plan' = {} /\ todo' = {} /\ cur' = 0 /\ seen' = 0
  /\ UNCHANGED <<db, market>>

\* list_orders_today(None) once, then the pending rows.
Restart ==
  /\ pc = "down"
  /\ RestartAfter = "close" => \A r \in Refs : ~AtExchange(r)
  /\ listed' = [r \in Refs |-> IF r \in today THEN book[r] ELSE Unlisted]
  /\ pc' = "recover" /\ todo' = PendingRows
  /\ UNCHANGED <<db, market, plan, cur, seen, crashes>>

\* The inquiry fails: recovery raises and the engine thread ends.
RestartLost ==
  /\ pc = "down" /\ "list" \in Losses
  /\ Die
  /\ UNCHANGED <<db, market, crashes, listed>>

RecoverAt(r) == pc = "recover" /\ r \in todo /\ \A q \in todo : r <= q

\* "Already corrected": the stage of this row is not PENDING.
RecoverSkip(r) ==
  /\ RecoverAt(r) /\ ~Pending(stage[log[r].stage])
  /\ todo' = todo \ {r}
  /\ UNCHANGED <<db, market, pc, plan, cur, seen>>

RecoverWith(r, st, known, next) ==
  /\ RecoverAt(r) /\ Pending(stage[log[r].stage])
  /\ log' = [log EXCEPT ![r] =
       [LogUpdate(log[r], st, listed[r].filled) EXCEPT !.known = @ \/ known]]
  /\ pc' = next /\ cur' = r /\ seen' = listed[r].filled
  /\ UNCHANGED <<stage, cycle, pnl, config, market, plan, todo>>

\* Mutant: a fill is overlooked.
RecoverUnfilledAll(r) == RecoverWith(r, "CANCELED", FALSE, "rundo")

\* Not listed, or listed without a fill: the order is taken to be over.
RecoverUnfilled(r) ==
  listed[r].filled = 0 /\ RecoverWith(r, "CANCELED", FALSE, "rundo")

RecoverFilled(r) ==
  /\ listed[r].filled > 0
  /\ RecoverWith(r, IF listed[r].st = "FILLED" THEN "FILLED" ELSE "CANCELED",
                 TRUE, "rapply")

RecoverNext == /\ pc' = "recover" /\ todo' = todo \ {cur}
               /\ cur' = 0 /\ seen' = 0 /\ UNCHANGED plan

RecoverRestore ==
  /\ pc = "rundo"
  /\ SetStage(Restored(stage[log[cur].stage]))
  /\ RecoverNext
  /\ UNCHANGED market

RecoverApply ==
  /\ pc = "rapply"
  /\ SetStage(Applied(stage[log[cur].stage], seen))
  /\ RecoverNext
  /\ UNCHANGED market

\* The start-up reconciliation only warns; its get_balance may fail.
RecoverDone ==
  /\ pc = "recover" /\ todo = {}
  /\ Goto("tick") \/ ("query" \in Losses /\ Die)
  /\ UNCHANGED <<db, market>>

RecoverStep ==
  \/ \E r \in Refs : RecoverSkip(r) \/ RecoverUnfilled(r) \/ RecoverFilled(r)
  \/ RecoverRestore
  \/ RecoverApply

RunningStep == (EngineStep \/ RecoverStep) /\ UNCHANGED <<crashes, listed>>

Recovered == RecoverDone /\ listed' = NothingListed /\ UNCHANGED crashes

RNext ==
  \/ Next /\ UNCHANGED <<crashes, listed>>
  \/ Crash
  \/ Restart
  \/ RestartLost
  \/ RecoverStep /\ UNCHANGED <<crashes, listed>>
  \/ Recovered

RSpec == RInit /\ [][RNext]_rvars

\* The loop keeps running while ticks arrive, and a row that keeps being polled
\* is polled after its timeout: sent_at is fixed and the clock moves on.  Nobody
\* has to start a program that died, and the exchange owes nothing.
RFairSpec ==
  /\ RSpec
  /\ WF_rvars(RunningStep)
  /\ WF_rvars(Recovered)
  /\ \A r \in Refs : SF_rvars(PollOpen(r, TRUE) /\ UNCHANGED <<crashes, listed>>)

---------------------------------------------------------------------------
(* Properties *)

\* Recovery looks at pending orders, not at PENDING stages, yet its purpose is
\* that no stage stays PENDING forever: after it, every PENDING stage is owed.
NoStageIsStuck == pc = "tick" => PendingIsOwed

\* A settled order is settled for good, whatever dies and restarts: its row never
\* changes again, so no late answer rewrites the realized profit.
TerminalIsFinal ==
  [][\A r \in Refs : log[r].st \in Terminal => log'[r] = log[r]]_log

\* "Not on record: yesterday's unfilled orders expire at the close": an order
\* recovery does not find in today's list was not filled.
UnlistedMeansUnfilled ==
  pc = "recover" => \A r \in todo : listed[r] = Unlisted => book[r].filled = 0

Stuck(s) == Pending(stage[s]) /\ \A r \in PendingRows : log[r].stage # s

\* What one crash can do to the position is confined to a stuck stage.
OnlyStuckStagesDiffer ==
  pc = "tick" => \A s \in Stages :
    Stuck(s) \/ HeldQty(stage[s]) = Net(s, Refs \ PendingRows)

\* What recovery alone can settle: an order whose answer and whose inquiry were
\* both lost, and one that expired before its cancel.
Lingers(r) ==
  log[r].st = "UNKNOWN" \/ (log[r].st \in Live /\ book[r].st = "CANCELED")

\* Every order comes to an end: a PENDING stage does not stay PENDING while the
\* engine lives, but for the orders that linger and a stage a crash got stuck.
PendingIsAnswered ==
  \A s \in Stages : Pending(stage[s]) ~>
    \/ ~Pending(stage[s])
    \/ crashes > 0 /\ Stuck(s)
    \/ pc \in {"down", "dead"}
    \/ \E r \in Refs : log[r].stage = s /\ Lingers(r)
=============================================================================
