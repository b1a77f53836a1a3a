------------------------ MODULE MCRepositoryClients ------------------------
(***************************************************************************)
(* Two orders, two callers: a payment that creates or updates a row, an    *)
(* operator's Save, and scheduler batches over both orders.                *)
(***************************************************************************)
EXTENDS RepositoryClients

CONSTANTS o1, o2, r1, r2

MCSeeded == {NoRow, "WaitingForShipment"}

SaveOf(o, s) == [op |-> "save", ids |-> {o}, from |-> NoRow, to |-> s]

MCAsked == {SaveOf(o, "WaitingForShipment") : o \in Orders}
           \cup {SaveOf(o1, "InTransit")}
           \cup {[op |-> "batch", ids |-> Orders,
                  from |-> "WaitingForShipment", to |-> "InTransit"]}
=============================================================================
