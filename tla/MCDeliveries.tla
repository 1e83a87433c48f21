---------------------------- MODULE MCDeliveries ----------------------------
(***************************************************************************)
(* A small instance of Deliveries.                                         *)
(***************************************************************************)
EXTENDS Deliveries, MCCollection
=============================================================================
