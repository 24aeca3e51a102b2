------------------------- MODULE MCWorkflowLifecycle -------------------------
(***************************************************************************)
(* A triage, two seller onboardings and a buyer search.                    *)
(***************************************************************************)
EXTENDS WorkflowLifecycle

MCTypeOf ==
    [i \in Id |-> CASE i = 1 -> "triage" [] i \in {2, 3} -> "seller" [] i = 4 -> "buyer"]
=============================================================================
