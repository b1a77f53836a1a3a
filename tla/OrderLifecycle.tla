-------------------------- MODULE OrderLifecycle ---------------------------
(***************************************************************************)
(* The life of an order as the state machine of internal/domain describes  *)
(* it: a payment creates an order that is not known yet, and from then on  *)
(* an order only moves along allowedTransitions.  Several orders may move  *)
(* at once, in a batch.                                                    *)
(***************************************************************************)
EXTENDS OrderStatus

CONSTANTS Orders, NoRow

VARIABLE status  \* [Orders -> Statuses or NoRow]

Init == status \in [Orders -> Statuses \cup {NoRow}]

LegalMove(from, to) ==
  \/ from = NoRow /\ to = "WaitingForShipment"
  \/ from \in Statuses /\ CanTransitionTo(from, to)

Next ==
  \E S \in SUBSET Orders : \E to \in Statuses :
    /\ \A o \in S : LegalMove(status[o], to)
    /\ status' = [o \in Orders |-> IF o \in S THEN to ELSE status[o]]

Spec == Init /\ [][Next]_status
=============================================================================
