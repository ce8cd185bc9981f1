------------------------------ MODULE MCBatch ------------------------------
(***************************************************************************)
(* Batch on small instances.  The notices of two orders are followed, so   *)
(* that one order's registration may purge the other's; the first of them  *)
(* has an on_status coming.                                                *)
(***************************************************************************)
EXTENDS Batch

CONSTANTS c1, Statuses

MCCaller == {c1}
MCWatched == {1, 2} \cap Order
MCMaxStatus == [o \in Order |-> IF o = 1 THEN Statuses ELSE 0]
=============================================================================
