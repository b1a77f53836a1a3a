----------------------- MODULE MCOrderStateProducer ------------------------
(***************************************************************************)
(* Small instances of the producer.  A channel for the producer, one for   *)
(* each goroutine and one more are as many as are looked at at a time.     *)
(***************************************************************************)
EXTENDS OrderStateProducer

CONSTANTS g1, g2, c1, c2, c3, c4
=============================================================================
