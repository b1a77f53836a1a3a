------------------------ MODULE MCOrderStateService ------------------------
(***************************************************************************)
(* Small instances of the service: named orders and requests.              *)
(***************************************************************************)
EXTENDS OrderStateService, TLC

CONSTANTS o1, o2, r1, r2, r3, r4

OrdersOnTheirWay == {NoRow, "Created", "WaitingForShipment"}

\* Two payments with nothing to tell them apart.
PaymentSymmetry == Permutations(Payers)

KnownOrders == {"Created", "WaitingForShipment"}

NewOrders == {NoRow, "Created"}
=============================================================================
