-------------------------- MODULE MCEvidenceBacklog --------------------------
(***************************************************************************)
(* A delivery, the acceptance, an event that bears no evidence; two pods.  *)
(***************************************************************************)
EXTENDS EvidenceBacklog

MCType == [e \in Event |-> CASE e = 1 -> "request.delivered"
                             [] e = 2 -> "request.accepted"
                             [] e = 3 -> "request.created"]
=============================================================================
