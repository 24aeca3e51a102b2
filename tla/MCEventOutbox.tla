---------------------------- MODULE MCEventOutbox ----------------------------
(***************************************************************************)
(* One vendor: its onboarding and an acceptance in one batch, and a        *)
(* statement it makes meanwhile, on a pod that publishes and relays.       *)
(***************************************************************************)
EXTENDS EventOutbox

MCKind == [e \in Event |-> CASE e = 1 -> "seller.onboarded"
                              [] e = 2 -> "request.accepted"
                              [] e = 3 -> "statement"]
MCVendorOf == [e \in Event |-> "v"]
MCBatch == {{1, 2}}
=============================================================================
