----------------------- MODULE MCOrderStateScheduler -----------------------
(***************************************************************************)
(* Small instances of the scheduler: two orders, pages of one or two.      *)
(***************************************************************************)
EXTENDS OrderStateScheduler

CONSTANTS o1, o2
=============================================================================
