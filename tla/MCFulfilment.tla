---------------------------- MODULE MCFulfilment ----------------------------
(***************************************************************************)
(* One delivery, all of whose actors meet on it: two turns of its vendor,  *)
(* two timeout sweeps, two payments, each worth one fee.  Every property   *)
(* is about one delivery; two of them exceed a million states.             *)
(***************************************************************************)
EXTENDS Fulfilment

MCVendorOf == [d \in Delivery |-> "v"]
MCRechargeOf == [r \in Recharge |-> "v"]
MCRechargeCredits == [r \in Recharge |-> Fee]
=============================================================================
