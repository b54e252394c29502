---------------------------- MODULE StageLedger ----------------------------
(***************************************************************************)
(* What the order path promises for each stage, without logs, timeouts or  *)
(* inquiries: at most one order in flight; while it is in flight the       *)
(* exchange moves shares; when it ends, the ledger becomes what the        *)
(* exchange really holds for the stage, in one step and exactly once.      *)
(***************************************************************************)
EXTENDS Naturals

CONSTANTS Stages, Lot

VARIABLES
  flight,    \* "none", or the side of the order in flight
  booked,    \* shares the ledger credits to the stage
  position   \* shares the exchange has moved for the stage

lvars == <<flight, booked, position>>

LInit ==
  /\ flight = [s \in Stages |-> "none"]
  /\ booked = [s \in Stages |-> 0]
  /\ position = [s \in Stages |-> 0]

\* A stage buys when it is empty and sells when it is not.
Begin(s) ==
  /\ flight[s] = "none"
  /\ flight' = [flight EXCEPT ![s] = IF booked[s] = 0 THEN "BUY" ELSE "SELL"]
  /\ UNCHANGED <<booked, position>>

Move(s, q) ==
  /\ \/ flight[s] = "BUY" /\ q > position[s]
     \/ flight[s] = "SELL" /\ q < position[s]
  /\ position' = [position EXCEPT ![s] = q]
  /\ UNCHANGED <<flight, booked>>

End(s) ==
  /\ flight[s] # "none"
  /\ flight' = [flight EXCEPT ![s] = "none"]
  /\ booked' = [booked EXCEPT ![s] = position[s]]
  /\ UNCHANGED position

LNext == \E s \in Stages : Begin(s) \/ End(s) \/ \E q \in 0..Lot : Move(s, q)

LSpec == LInit /\ [][LNext]_lvars
=============================================================================
