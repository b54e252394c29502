----------------------------- MODULE EngineInv -----------------------------
(***************************************************************************)
(* The inductive invariants behind the safety of the order path, as named  *)
(* parts: what the proofs of EngineProofs use and TLC checks first.        *)
(***************************************************************************)
EXTENDS Engine

\* Every variable has its type, and the working order is a real one wherever the
\* engine handles an order.
TypeInv ==
  /\ TypeOK
  /\ pc \in PCs \ {"down", "recover", "rundo", "rapply"}
  /\ pc \in Sending \cup Polling => cur \in Refs

\* The rows send has done with: it never leaves one SENDING.
Sent == Live \ {"SENDING"}

\* Where send or poll_fill have an order in hand until its stage is written.
InHand == Sending \cup {"undo", "apply"}

\* An order whose stage waits for its end: sent and pending in the log, or in hand.
Open(r) == log[r].st \in Sent \/ (r = cur /\ pc \in InHand)

\* A row belongs to a stage, and has no order number before it is sent.
RowInv ==
  /\ \A r \in Refs : log[r].st # "NONE" => log[r].stage \in Stages
  /\ \A r \in Refs : log[r].st = "SENDING" => ~log[r].known

\* Where the engine stands and what it holds there.
PcInv ==
  /\ pc \in Sending => log[cur].stage \in Stages \ plan
  /\ pc \in (Sending \ {"unsend"}) \cup {"cancel", "canceled"} => log[cur].st \in Live
  /\ pc \in {"listing", "cancel", "canceled"} => log[cur].st \in Sent
  /\ pc \in {"unsend", "undo", "apply"} => log[cur].st \in Terminal
  /\ pc = "recorded" =>
       /\ log[cur].st = "SENDING"
       /\ stage[log[cur].stage].status =
            IF log[cur].side = "BUY" THEN "WAITING" ELSE "HOLDING"

\* The stages still to be handled by on_tick have no order.
PlanInv ==
  /\ \A s \in plan : stage[s].status \in {"WAITING", "HOLDING"}
  /\ pc \notin Sending \cup {"decide"} => plan = {}

\* The rows still to be handled by poll_pending are pending.
TodoInv ==
  /\ \A r \in todo : log[r].st \in Live \/ (r = cur /\ pc \in Polling)
  /\ pc \in Polling => cur \in todo
  /\ pc \notin Polling \cup {"poll"} => todo = {}

\* A stage has at most one open order,
UniqueInv ==
  \A q, r \in Refs : Open(q) /\ Open(r) /\ log[q].stage = log[r].stage => q = r

\* and waits for it in the PENDING state of its side.
WaitInv ==
  \A r \in Refs : Open(r) /\ ~(r = cur /\ pc = "recorded") =>
    stage[log[r].stage].status = PendingAs(log[r].side)

OrderInv == RowInv /\ PcInv /\ PlanInv /\ TodoInv /\ UniqueInv /\ WaitInv

\* No stage is PENDING without an open order, and no row is left SENDING.  (Only a
\* crash breaks it; the other invariants survive the crash.)
WholeInv ==
  /\ \A s \in Stages : Pending(stage[s]) =>
       \E r \in Refs : log[r].stage = s /\ Open(r)
  /\ \A r \in Refs : log[r].st = "SENDING" => Open(r)

\* What the exchange still works on is pending in the log and in today's list, and
\* it has no order that was left SENDING.  (An order that arrives after the inquiry
\* breaks it.)
BookInv ==
  /\ \A r \in Refs : AtExchange(r) => log[r].st \in Live
  /\ \A r \in Refs : log[r].st = "SENDING" /\ book[r].st # "NONE" =>
       r = cur /\ pc \in Sending
  /\ \A r \in Refs : book[r].st \in Working => r \in today
  /\ pc \in {"recorded", "placing", "rejected", "canceled"} => ~AtExchange(cur)

\* What the rows and the exchange have recorded of each order so far: a row never
\* knows more than the exchange filled, an order being sent knows nothing yet, and
\* the status poll_fill goes on with is the one it has recorded.
FillsInv ==
  /\ \A r \in Refs : log[r].st = "NONE" => log[r].fill = 0 /\ book[r].st = "NONE"
  /\ \A r \in Refs : log[r].fill <= book[r].filled
  /\ \A r \in Refs : book[r].st \in {"NONE", "TRANSIT", "OPEN", "REJECTED"} =>
       book[r].filled = 0
  /\ pc \in Sending \cup {"undo"} => log[cur].fill = 0
  /\ pc \in {"recorded", "placing", "rejected"} => book[cur].st = "NONE"
  /\ pc \in {"cancel", "canceled", "apply"} => seen = log[cur].fill

\* An open order asks for the lot, or for all the shares its stage still holds.
AskInv ==
  \A r \in Refs : Open(r) =>
    log[r].req = IF log[r].side = "BUY" THEN Lot ELSE stage[log[r].stage].qty

\* Only a running cycle sends; a closed one holds nothing and owes nothing.
FlatInv ==
  /\ pc \in Sending \/ plan # {} => cycle = "RUNNING"
  /\ cycle = "CLOSED" =>
       \A s \in Stages : ~Pending(stage[s]) /\ HeldQty(stage[s]) = 0

PathInv == OrderInv /\ WholeInv /\ BookInv /\ FillsInv /\ AskInv /\ FlatInv

---------------------------------------------------------------------------
\* A stage holds shares exactly in the states that hold.
ShapeInv == \A s \in Stages : stage[s].qty > 0 <=> Holds(stage[s])

\* No fill exceeds what was asked for, at the exchange, in the log, or in the
\* status poll_fill has in hand.
AmountInv ==
  /\ \A r \in Refs : book[r].filled <= log[r].req /\ log[r].fill <= log[r].req
  /\ \A r \in Refs : book[r].st = "FILLED" => book[r].filled > 0
  /\ \A r \in Refs : log[r].st = "NONE" => log[r].req = 0
  /\ pc \in {"cancel", "canceled", "apply"} => seen <= log[cur].req
  /\ pc = "apply" => seen > 0

\* When nothing moves between two awaits: the log never knows more than the exchange
\* has filled, and the whole of it once the order is settled.
TruthInv ==
  /\ \A r \in Refs : log[r].fill <= book[r].filled
  /\ \A r \in Refs : log[r].st \in Terminal => log[r].fill = book[r].filled
  /\ \A r \in Refs : book[r].st \in {"NONE", "OPEN", "REJECTED"} => book[r].filled = 0
  /\ \A r \in Refs : book[r].st # "TRANSIT"
  /\ \A r \in Refs : log[r].st = "NONE" => book[r].st = "NONE"
  /\ pc \in {"recorded", "placing", "rejected"} => book[cur].st = "NONE"
  /\ pc \in {"timeout", "listing"} => cur \in today \/ book[cur].filled = 0
  /\ pc \in {"cancel", "canceled"} => seen = book[cur].filled

---------------------------------------------------------------------------
\* What the row of an ended order says it changed in its stage.
Told(r) == IF log[r].side = "BUY" THEN log[r].fill ELSE 0 - log[r].fill

Recorded(s) ==
  [r \in Refs |-> IF log[r].stage = s /\ ~Open(r) THEN Told(r) ELSE 0]

\* A stage holds exactly what the log records for its ended orders: although the
\* row and the stage are written by two commits, and whatever the exchange does in
\* between, no fill is applied twice and none is forgotten.
HoldingsAreRecorded ==
  \A s \in Stages : HeldQty(stage[s]) = SumFunctionOnSet(Recorded(s), Refs)

\* A stage a crash left PENDING although its order has ended.
Forgotten(s) ==
  Pending(stage[s]) /\ \A r \in Refs : Open(r) => log[r].stage # s

\* What of it survives a crash, and is inductive by itself.
HoldingsInv ==
  \A s \in Stages :
    Forgotten(s) \/ HeldQty(stage[s]) = SumFunctionOnSet(Recorded(s), Refs)
=============================================================================
