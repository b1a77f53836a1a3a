------------------------ MODULE MCOrderStateConsumer ------------------------
(***************************************************************************)
(* Small instances of the consumer: named messages and workers.            *)
(***************************************************************************)
EXTENDS OrderStateConsumer

CONSTANTS m1, m2, w1
=============================================================================
