-------------------------------- MODULE Desk --------------------------------
(***************************************************************************)
(* The whole engine around the order path: the two queues between the      *)
(* window and the engine thread, Orchestrator.run with its drain of the    *)
(* commands, the birth of a cycle (StartCycle, _confirm_anchor), its three *)
(* ends (NORMAL, EMERGENCY, FORCED) and the reconciliation, for several    *)
(* configurations of one stock that share one account.                     *)
(*                                                                         *)
(* An order is one step here, and a cycle holds one share or none: Engine  *)
(* has the order path and EngineEmergency the way out of it, with all      *)
(* their awaits.  A step ends at every commit of a cycle, stage or         *)
(* configuration row.                                                      *)
(***************************************************************************)
EXTENDS Integers, Sequences, FiniteSetsExt

CONSTANTS
  MaxConfigs,   \* configurations of the stock
  Levels,       \* stages of each ladder
  Foreign,      \* the user's own shares of the stock, at the start
  MaxCycles,    \* bound: cycles in one behaviour
  MaxSends,     \* bound: commands the window sends in one behaviour
  MaxHand,      \* bound: shares the user sells by hand
  MaxSessions   \* bound: starts of the program

ASSUME DeskAssumption ==
  /\ {MaxConfigs, Levels, MaxCycles, MaxSessions} \subseteq Nat \ {0}
  /\ {Foreign, MaxSends, MaxHand} \subseteq Nat

Configs == 1..MaxConfigs

VARIABLES
  conf,      \* split_config.status
  cyc,       \* the rows of cycle with their stage_state rows, by id
  account,   \* shares of the stock at the broker
  prio,      \* priority_q
  cmds,      \* command_q
  stopped,   \* Orchestrator.stopped
  pc,        \* where the engine stands
  ticking,   \* is a tick being handled?
  todo,      \* configurations liquidate_all, or cycles on_tick, has still to do
  cur,       \* the cycle in hand
  level,     \* the stage whose row _confirm_anchor writes next
  used,      \* history, for the bounds: commands, sales by hand, sessions
  torn,      \* history: configurations whose two commits a crash has separated,
             \* until their status is written again
  strayed,   \* history: somebody took shares another one counts on
  waited     \* history: on_tick calls the oldest emergency has waited for

db == <<conf, cyc>>
engine == <<stopped, pc, ticking, todo, cur, level>>
queues == <<prio, cmds>>
history == <<used, torn, strayed, waited>>
vars == <<db, account, queues, engine, history>>

---------------------------------------------------------------------------
(* Rows *)

\* No row, the price of an interrupted attempt, or that of the last ladder.
Trigger == {"none", "old", "new"}

CycleRow == [config: Configs,
             status: {"STARTING", "RUNNING", "PAUSED", "LIQUIDATING", "CLOSED"},
             anchor: BOOLEAN,                \* anchor_price and ladder are set
             rows: [1..Levels -> Trigger],   \* trigger_price
             held: 0..1,                     \* pnl.held_qty
             reason: {"NONE", "NORMAL", "EMERGENCY", "FORCED"},
             left: Nat,                      \* forced_close_qty
             pnl: BOOLEAN,
             counted: BOOLEAN,               \* closed after the last reset
             alone: BOOLEAN]                 \* history: no other active cycle

Born(c, alone) ==
  [config |-> c, status |-> "STARTING", anchor |-> FALSE,
   rows |-> [n \in 1..Levels |-> "none"], held |-> 0,
   reason |-> "NONE", left |-> 0, pnl |-> FALSE, counted |-> FALSE, alone |-> alone]

Anchored(k) == [k EXCEPT !.status = "RUNNING", !.anchor = TRUE,
                         !.rows = [n \in 1..Levels |-> "new"]]

Open(k) == cyc[k].status # "CLOSED"

Active == {k \in DOMAIN cyc : Open(k)}

\* load_active_cycles, in the order of the ids.
Loading == CHOOSE s \in [1..Cardinality(Active) -> Active] :
             \A i, j \in DOMAIN s : i < j => s[i] < s[j]

ActiveOf(c) == {k \in Active : cyc[k].config = c}

\* What the stages of the cycles hold that are not being liquidated.
Claimed == SumFunctionOnSet([k \in DOMAIN cyc |-> cyc[k].held],
                            {k \in Active : cyc[k].status # "LIQUIDATING"})

\* Mutant: a reset is forgotten.
BaselineForever ==
  SumFunctionOnSet([k \in DOMAIN cyc |-> cyc[k].left], {k \in DOMAIN cyc : ~Open(k)})

\* forced_close_baseline.
Baseline == SumFunctionOnSet([k \in DOMAIN cyc |-> cyc[k].left],
                             {k \in DOMAIN cyc : ~Open(k) /\ cyc[k].counted})

\* Shares nobody counts on: what the user owns besides the program.
Free == account - Claimed - Baseline

Loaded(x) == {n \in 1..Levels : x.rows[n] # "none"}

Has(k) == Loaded(cyc[k])   \* load_stages

\* The commands of each queue, and the configuration they are for (0: none, ALL).
Normal == {"start", "pause", "resume"} \X Configs \cup {"reset", "shutdown"} \X {0}
Urgent == {"liquidate", "force"} \X Configs \cup {<<"liquidate", 0>>}

PCs == {"urgent", "normal", "activate", "selling", "pnl", "release",
        "loop", "stream", "tick", "anchor", "ended", "dead", "down"}

DTypeOK ==
  /\ conf \in [Configs -> {"IDLE", "ACTIVE"}]
  /\ Len(cyc) <= MaxCycles /\ \A k \in DOMAIN cyc : cyc[k] \in CycleRow
  /\ account \in 0..(Foreign + MaxCycles)
  /\ \A i \in DOMAIN prio : prio[i] \in Urgent
  /\ \A i \in DOMAIN cmds : cmds[i] \in Normal
  /\ {stopped, ticking, strayed} \subseteq BOOLEAN
  /\ pc \in PCs
  /\ \A i \in DOMAIN todo : todo[i] \in 1..(MaxCycles + MaxConfigs)
  /\ cur \in 0..MaxCycles /\ level \in 1..(Levels + 1)
  /\ torn \subseteq Configs

\* A new database, or one cycle of an earlier session.
Init ==
  /\ \/ cyc = <<>> /\ conf = [c \in Configs |-> "IDLE"]
     \/ /\ cyc = <<Anchored(Born(1, TRUE))>>
        /\ conf = [c \in Configs |-> IF c = 1 THEN "ACTIVE" ELSE "IDLE"]
  /\ account = Foreign
  /\ prio = <<>> /\ cmds = <<>> /\ stopped = FALSE
  /\ pc = "urgent" /\ ticking = FALSE /\ todo = <<>> /\ cur = 0 /\ level = 1
  /\ used = [sends |-> 0, hand |-> 0, sessions |-> 1]
  /\ torn = {} /\ strayed = FALSE /\ waited = 0

---------------------------------------------------------------------------
(* The window, and the user beside it *)

\* send and send_priority, from another thread, at any moment.  Only a drain looks
\* at the queues, so what is sent before it is the same as sent at its start.
Send ==
  /\ pc \in {"urgent", "normal"} /\ used.sends < MaxSends
  /\ used' = [used EXCEPT !.sends = @ + 1]
  /\ \/ \E m \in Normal : cmds' = Append(cmds, m) /\ UNCHANGED prio
     \/ \E m \in Urgent : prio' = Append(prio, m) /\ UNCHANGED cmds
  /\ UNCHANGED <<db, account, engine, torn, strayed, waited>>

\* n shares leave the account: some of them may be another one's.
Take(n, own) ==
  /\ account' = account - n
  /\ strayed' = (strayed \/ n > own + Free)

SellByHand ==
  /\ used.hand < MaxHand /\ account > 0
  /\ used' = [used EXCEPT !.hand = @ + 1]
  /\ Take(1, 0)
  /\ UNCHANGED <<db, queues, engine, torn, waited>>

---------------------------------------------------------------------------
(* drain_commands *)

Goto(l) == pc' = l /\ UNCHANGED <<stopped, ticking, todo, cur, level>>

\* Mutant: only command_q is looked at, unless an emergency is under way.
NoMoreUrgentEver == todo = <<>>

NoMoreUrgent == todo = <<>> /\ prio = <<>>

\* priority_q is empty; what arrives from now on waits for the next drain.
ToNormal ==
  /\ pc = "urgent" /\ NoMoreUrgent
  /\ Goto("normal")
  /\ UNCHANGED <<db, account, queues, history>>

\* No command is left: the tick goes on to on_tick, or the first drain to the loop.
Drained ==
  /\ pc = "normal" /\ cmds = <<>>
  /\ IF ~ticking
     THEN Goto("loop") /\ UNCHANGED waited
     ELSE /\ pc' = "tick" /\ todo' = Loading
          /\ waited' = IF prio = <<>> THEN 0 ELSE waited + 1
          /\ UNCHANGED <<stopped, ticking, cur, level>>
  /\ UNCHANGED <<db, account, queues, used, torn, strayed>>

TakeNormal(op, c) ==
  /\ pc = "normal" /\ cmds # <<>> /\ Head(cmds) = <<op, c>>
  /\ cmds' = Tail(cmds)
  /\ UNCHANGED <<prio, account, used, waited>>

\* create_cycle asks nothing about other cycles of the configuration.
StartCycle(c) ==
  /\ TakeNormal("start", c)
  /\ IF Len(cyc) < MaxCycles
     THEN cyc' = Append(cyc, Born(c, ActiveOf(c) = {})) /\ cur' = Len(cyc) + 1
          /\ pc' = "activate"
     ELSE UNCHANGED <<cyc, cur, pc>>
  /\ UNCHANGED <<conf, stopped, ticking, todo, level, torn, strayed>>

Activate ==
  /\ pc = "activate"
  /\ conf' = [conf EXCEPT ![cyc[cur].config] = "ACTIVE"]
  /\ pc' = "normal" /\ cur' = 0
  /\ torn' = torn \ {cyc[cur].config}
  /\ UNCHANGED <<cyc, account, queues, stopped, ticking, todo, level, used, strayed, waited>>

\* All cycles of the configuration that are in the one state go to the other.
Transition(op, from, to, c) ==
  /\ TakeNormal(op, c)
  /\ cyc' = [k \in DOMAIN cyc |->
       IF cyc[k].config = c /\ cyc[k].status = from
       THEN [cyc[k] EXCEPT !.status = to] ELSE cyc[k]]
  /\ UNCHANGED <<conf, engine, torn, strayed>>

\* reset_baseline: the user says the shares left behind are dealt with.
ResetBaseline ==
  /\ TakeNormal("reset", 0)
  /\ cyc' = [k \in DOMAIN cyc |-> [cyc[k] EXCEPT !.counted = FALSE]]
  /\ strayed' = (Claimed > account)
  /\ UNCHANGED <<conf, engine, torn>>

Shutdown ==
  /\ TakeNormal("shutdown", 0)
  /\ stopped' = TRUE
  /\ UNCHANGED <<db, pc, ticking, todo, cur, level, torn, strayed>>

\* liquidate_all walks the cycles it loaded, by their configurations; for SINGLE
\* there is one.
TakeLiquidate(c) ==
  /\ pc = "urgent" /\ todo = <<>> /\ prio # <<>> /\ Head(prio) = <<"liquidate", c>>
  /\ prio' = Tail(prio) /\ waited' = 0
  /\ todo' = IF c # 0 THEN <<c>>
             ELSE [i \in DOMAIN Loading |-> cyc[Loading[i]].config]
  /\ UNCHANGED <<db, account, cmds, stopped, pc, ticking, cur, level, used, torn, strayed>>

NothingToLiquidate ==
  /\ pc = "urgent" /\ todo # <<>> /\ ActiveOf(Head(todo)) = {}
  /\ todo' = Tail(todo)
  /\ UNCHANGED <<db, account, queues, stopped, pc, ticking, cur, level, history>>

\* _active_cycle.
IsFirst(k, c) == k \in ActiveOf(c) /\ \A j \in ActiveOf(c) : k <= j

BeginLiquidation(k) ==
  /\ pc = "urgent" /\ todo # <<>> /\ IsFirst(k, Head(todo))
  /\ cur' = k
  /\ cyc' = [cyc EXCEPT ![k].status = "LIQUIDATING"]
  /\ pc' = "selling" /\ todo' = Tail(todo)
  /\ UNCHANGED <<conf, account, queues, stopped, ticking, level, history>>

\* A failure at any point leaves the cycle LIQUIDATING, with any part of the
\* account sold; one that raises also ends liquidate_all.
LiquidationStays(n) ==
  /\ pc = "selling" /\ n <= account
  /\ Take(n, 0)
  /\ pc' = "urgent" /\ cur' = 0 /\ todo' \in {todo, <<>>}
  /\ UNCHANGED <<db, queues, stopped, ticking, level, used, torn, waited>>

CloseCycle(k, why, left) ==
  /\ cur' = k
  /\ cyc' = [cyc EXCEPT ![k] =
       [@ EXCEPT !.status = "CLOSED", !.reason = why, !.left = left,
                 !.counted = TRUE, !.held = 0]]
  /\ pc' = "pnl"
  /\ UNCHANGED <<conf, stopped, ticking, level>>

\* The whole account is sold.  A cycle without stage rows cannot be closed:
\* is_cycle_complete refuses an empty list.
LiquidationCloses ==
  /\ pc = "selling" /\ Has(cur) # {} /\ (account > 0 \/ cyc[cur].held = 0)
  /\ CloseCycle(cur, "EMERGENCY", 0)
  /\ Take(account, 0)
  /\ UNCHANGED <<queues, todo, used, torn, waited>>

TakeForce(c) ==
  /\ pc = "urgent" /\ todo = <<>> /\ prio # <<>> /\ Head(prio) = <<"force", c>>
  /\ prio' = Tail(prio) /\ waited' = 0
  /\ UNCHANGED <<account, cmds, todo, used, torn>>

Forcible(k, c) == IsFirst(k, c) /\ cyc[k].status = "LIQUIDATING"

\* Not LIQUIDATING, the balance is unknown, or the close raises.
ForceFails(c) ==
  /\ TakeForce(c)
  /\ UNCHANGED <<db, stopped, pc, ticking, cur, level, strayed>>

\* What stays in the account is put on record, whoever it belongs to.
ForceClose(k, c) ==
  /\ TakeForce(c) /\ Forcible(k, c) /\ account > 0
  /\ CloseCycle(k, "FORCED", account)
  /\ strayed' = (strayed \/ Claimed + Baseline > 0)

ForceCloseEmpty(k, c) ==
  /\ TakeForce(c) /\ Forcible(k, c) /\ account = 0 /\ Has(k) # {}
  /\ CloseCycle(k, "EMERGENCY", 0)
  /\ UNCHANGED strayed

SetPnl ==
  /\ pc = "pnl"
  /\ cyc' = [cyc EXCEPT ![cur].pnl = TRUE]
  /\ Goto("release")
  /\ UNCHANGED <<conf, account, queues, history>>

\* Mutant: an emergency close leaves the configuration ACTIVE.
ReleaseNormalOnly ==
  /\ pc = "release"
  /\ conf' = IF cyc[cur].reason = "NORMAL"
             THEN [conf EXCEPT ![cyc[cur].config] = "IDLE"] ELSE conf
  /\ pc' = IF cyc[cur].reason = "NORMAL" THEN "tick" ELSE "urgent"
  /\ cur' = 0
  /\ UNCHANGED <<cyc, account, queues, stopped, ticking, todo, level, history>>

ReleaseConfig ==
  /\ pc = "release"
  /\ conf' = [conf EXCEPT ![cyc[cur].config] = "IDLE"]
  /\ pc' = IF cyc[cur].reason = "NORMAL" THEN "tick" ELSE "urgent"
  /\ cur' = 0
  /\ torn' = torn \ {cyc[cur].config}
  /\ UNCHANGED <<cyc, account, queues, stopped, ticking, todo, level, used, strayed, waited>>

Drain ==
  \/ ToNormal \/ Drained
  \/ \E c \in Configs :
       \/ StartCycle(c)
       \/ Transition("pause", "RUNNING", "PAUSED", c)
       \/ Transition("resume", "PAUSED", "RUNNING", c)
       \/ ForceFails(c)
       \/ \E k \in DOMAIN cyc : ForceClose(k, c) \/ ForceCloseEmpty(k, c)
  \/ Activate \/ ResetBaseline \/ Shutdown
  \/ \E c \in Configs \cup {0} : TakeLiquidate(c)
  \/ NothingToLiquidate \/ \E k \in DOMAIN cyc : BeginLiquidation(k)
  \/ \E n \in 0..(Foreign + MaxCycles) : LiquidationStays(n)
  \/ LiquidationCloses
  \/ SetPnl \/ ReleaseConfig

---------------------------------------------------------------------------
(* run and _cycle_once *)

\* Without an active cycle there is nothing to subscribe to, and run returns.
Loop ==
  /\ pc = "loop"
  /\ Goto(IF stopped \/ Active = {} THEN "ended" ELSE "stream")
  /\ UNCHANGED <<db, account, queues, history>>

\* From the stream or, when it is lost, from the fallback.
TickArrives ==
  /\ pc = "stream"
  /\ pc' = "urgent" /\ ticking' = TRUE
  /\ UNCHANGED <<db, account, queues, stopped, todo, cur, level, history>>

StreamEnds ==
  /\ pc = "stream"
  /\ Goto("ended")
  /\ UNCHANGED <<db, account, queues, history>>

Turn(k) == pc = "tick" /\ todo # <<>> /\ Head(todo) = k

NextCycle == pc' = "tick" /\ todo' = Tail(todo) /\ cur' = 0 /\ level' = 1
             /\ UNCHANGED <<stopped, ticking>>

\* Mutant: the cycle is made RUNNING before its rows are written.
BeginAnchorCycleFirst(k) ==
  /\ Turn(k) /\ cyc[k].status = "STARTING"
  /\ cyc' = [cyc EXCEPT ![k].status = "RUNNING", ![k].anchor = TRUE]
  /\ pc' = "anchor" /\ cur' = k
  /\ UNCHANGED <<conf, account, queues, stopped, ticking, todo, level, history>>

\* Mutant: an interrupted attempt is left as it is.
BeginAnchorOnce(k) ==
  /\ Turn(k) /\ cyc[k].status = "STARTING" /\ Has(k) = {}
  /\ pc' = "anchor" /\ cur' = k
  /\ UNCHANGED <<db, account, queues, stopped, ticking, todo, level, history>>

\* The ladder of this tick's price; rows that are already there are of another.
BeginAnchor(k) ==
  /\ Turn(k) /\ cyc[k].status = "STARTING"
  /\ pc' = "anchor" /\ cur' = k
  /\ cyc' = [cyc EXCEPT ![k].rows =
       [n \in 1..Levels |-> IF n \in Has(k) THEN "old" ELSE "none"]]
  /\ UNCHANGED <<conf, account, queues, stopped, ticking, todo, level, history>>

\* One row after the other, over what an interrupted attempt has left ...
ConfirmRow ==
  /\ pc = "anchor" /\ level <= Levels
  /\ cyc' = [cyc EXCEPT ![cur].rows[level] = "new"]
  /\ level' = level + 1
  /\ UNCHANGED <<conf, account, queues, stopped, pc, ticking, todo, cur, history>>

\* ... and the cycle last.
ConfirmAnchor ==
  /\ pc = "anchor" /\ level > Levels
  /\ cyc' = [cyc EXCEPT ![cur].status = "RUNNING", ![cur].anchor = TRUE]
  /\ NextCycle
  /\ UNCHANGED <<conf, account, queues, history>>

\* No ladder starts at this price: on_tick catches what to_ladder raises, and
\* _isolate leaves a cycle that is STARTING alone.
RefuseAnchor(k) ==
  /\ Turn(k) /\ cyc[k].status = "STARTING"
  /\ NextCycle
  /\ UNCHANGED <<db, account, queues, history>>

\* No trigger is due, or the cycle accepts none.
SkipCycle(k) ==
  /\ Turn(k) /\ cyc[k].status # "STARTING"
  /\ NextCycle
  /\ UNCHANGED <<db, account, queues, history>>

\* Mutant: a cycle that holds its share buys again.
BuyAgain(k) ==
  /\ Turn(k) /\ cyc[k].status = "RUNNING"
  /\ cyc' = [cyc EXCEPT ![k].held = @ + 1]
  /\ account' = account + 1
  /\ NextCycle
  /\ UNCHANGED <<conf, queues, history>>

Buy(k) ==
  /\ Turn(k) /\ cyc[k].status = "RUNNING" /\ cyc[k].held = 0
  /\ cyc' = [cyc EXCEPT ![k].held = @ + 1]
  /\ account' = account + 1
  /\ NextCycle
  /\ UNCHANGED <<conf, queues, history>>

\* The broker refuses to sell what is not there.  Nothing is held any more, and
\* _close_if_complete follows.
Sell(k) ==
  /\ Turn(k) /\ cyc[k].status = "RUNNING" /\ cyc[k].held = 1 /\ account > 0
  /\ todo' = Tail(todo)
  /\ CloseCycle(k, "NORMAL", 0)
  /\ Take(1, 1)
  /\ UNCHANGED <<queues, used, torn, waited>>

OnTickDone == pc = "tick" /\ todo = <<>>

\* run_once, when it is due: each cycle is compared with the whole balance.
Reconcile ==
  /\ OnTickDone
  /\ \E k \in Active : cyc[k].held > account - Baseline /\ cyc[k].status = "RUNNING"
  /\ cyc' = [k \in DOMAIN cyc |->
       IF cyc[k].status = "RUNNING" /\ cyc[k].held > account - Baseline
       THEN [cyc[k] EXCEPT !.status = "PAUSED"] ELSE cyc[k]]
  /\ UNCHANGED <<conf, account, queues, engine, history>>

\* get_balance times out, and nobody catches it.
ReconcileLost ==
  /\ OnTickDone
  /\ Goto("dead")
  /\ UNCHANGED <<db, account, queues, history>>

\* On with the stream, or, after the ticks of a fallback, with a new one.
TickOver ==
  /\ OnTickDone
  /\ pc' \in IF stopped THEN {"ended"} ELSE {"stream", "loop"}
  /\ ticking' = FALSE
  /\ UNCHANGED <<db, account, queues, stopped, todo, cur, level, history>>

Run ==
  \/ Loop \/ StreamEnds
  \/ TickArrives
  \/ \E k \in DOMAIN cyc :
       BeginAnchor(k) \/ RefuseAnchor(k) \/ SkipCycle(k) \/ Buy(k) \/ Sell(k)
  \/ ConfirmRow \/ ConfirmAnchor
  \/ Reconcile \/ ReconcileLost \/ TickOver

---------------------------------------------------------------------------
(* The process *)

\* The window is closed, or the process dies: the queues go with it.
Crash ==
  /\ pc # "down"
  /\ pc' = "down" /\ prio' = <<>> /\ cmds' = <<>> /\ stopped' = FALSE
  /\ ticking' = FALSE /\ todo' = <<>> /\ cur' = 0 /\ level' = 1 /\ waited' = 0
  /\ torn' = IF pc \in {"activate", "pnl", "release"}
             THEN torn \cup {cyc[cur].config} ELSE torn
  /\ UNCHANGED <<db, account, used, strayed>>

\* Recovery comes first (EngineRecovery), then the drain before the first tick.
Restart ==
  /\ pc = "down" /\ used.sessions < MaxSessions
  /\ used' = [used EXCEPT !.sessions = @ + 1]
  /\ Goto("urgent")
  /\ UNCHANGED <<db, account, queues, torn, strayed, waited>>

Next == Send \/ SellByHand \/ Drain \/ Run \/ Crash \/ Restart

\* The engine thread keeps running; ticks come from the stream or the fallback.
Spec == Init /\ [][Next]_vars /\ WF_vars(Drain \/ Run)

---------------------------------------------------------------------------
(* Properties *)

Gone == {"ended", "dead", "down"}

\* Cycle.__post_init__: a ladder where one is needed, and the testimony of a force
\* close exactly there.
CycleLoads(x) ==
  /\ x.status \in {"RUNNING", "PAUSED"} => x.anchor
  /\ x.reason = "FORCED" <=> x.left > 0

\* rows_to_stages: all stages of the ladder with its prices (H3, H4); without a
\* ladder the first ones.
StagesLoad(x) ==
  /\ x.anchor => \A n \in 1..Levels : x.rows[n] = "new"
  /\ \A n \in Loaded(x) : 1..n \subseteq Loaded(x)

Loads(x) ==
  /\ CycleLoads(x) /\ StagesLoad(x)
  /\ x.reason \in {"NORMAL", "EMERGENCY"} => Loaded(x) # {}

\* Whatever commit is the last one before the process dies, the rows it leaves
\* can be loaded again, or the tick loop and the recovery would refuse them; and no
\* cycle has been closed by sale without a stage.
EveryRowLoads == \A k \in DOMAIN cyc : Loads(cyc[k])

\* A cycle of the configuration was started beside another one that was open, and
\* not both are closed.
Crowded(c) ==
  \E k \in DOMAIN cyc :
    cyc[k].config = c /\ ~cyc[k].alone /\ \E j \in ActiveOf(c) : j <= k

\* A configuration says ACTIVE exactly while one of its cycles is open.  A crash
\* between the two commits of a start or of a close spoils it until its status is
\* written next, a second start until the cycles are closed; not for longer.
ConfigIsHonest ==
  pc \in {"stream", "loop", "urgent", "normal"} => \A c \in Configs :
    (conf[c] = "ACTIVE") = (ActiveOf(c) # {}) \/ c \in torn \/ Crowded(c)

\* What the open cycles and the baseline count on is in the account, and then the
\* reconciliation pauses nobody, unless shares were taken that others count on:
\* by hand, by a liquidation of another cycle, or by a force close that put the
\* shares of other cycles, or those left behind earlier, on record as left.
BooksBalance == strayed \/ Free >= 0

\* An emergency that arrives while ordinary commands are drained waits for one
\* call of on_tick, never for two.
EmergencyWaitsOneTick == waited <= 1

\* A cycle that was started gets its anchor, or is liquidated before, as long as
\* the engine lives, unless the prices never make a ladder: it is enough that of
\* the ticks it gets one now and then has a price Ladder accepts.
Starting(k) == k \in DOMAIN cyc /\ cyc[k].status = "STARTING"

StartIsConfirmed ==
  \A k \in 1..MaxCycles :
    SF_vars(BeginAnchor(k)) => (Starting(k) ~> ~Starting(k) \/ pc \in Gone)
=============================================================================
