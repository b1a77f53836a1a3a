---------------------------- MODULE OrderStatus ----------------------------
(***************************************************************************)
(* The order status state machine of internal/domain: the statuses, the    *)
(* transition table consulted by Order.UpdateStatus, and the number under  *)
(* which a status travels in an event to the .NET backend.                 *)
(***************************************************************************)
EXTENDS Integers

Statuses ==
  {"Created", "WaitingForPayment", "WaitingForShipment", "InTransit",
   "WaitPickup", "Completed", "Canceled", "Refund"}

\* WaitingForPayment has no entry, and no entry leads there or to Refund.
allowedTransitions ==
  [Created            |-> {"WaitingForShipment", "Canceled"},
   WaitingForShipment |-> {"InTransit"},
   InTransit          |-> {"WaitPickup"},
   WaitPickup         |-> {"Completed"},
   Completed          |-> {},
   Canceled           |-> {},
   Refund             |-> {}]

CanTransitionTo(from, to) ==
  /\ from \in DOMAIN allowedTransitions
  /\ to \in allowedTransitions[from]

\* The backend's enum.
enumNumber == [Created |-> 0, WaitingForShipment |-> 2, WaitPickup |-> 3,
               Completed |-> 4, Canceled |-> 5, Refund |-> 6, InTransit |-> 7]

ToInt(s) == IF s \in DOMAIN enumNumber THEN enumNumber[s] ELSE -1
=============================================================================
