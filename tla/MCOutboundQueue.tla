--------------------------- MODULE MCOutboundQueue ---------------------------
(***************************************************************************)
(* Two replies of one conversation, two pods, a budget of two attempts.    *)
(* With equal texts the sweep may take the second for a repeat.            *)
(***************************************************************************)
EXTENDS OutboundQueue

MCConvOf == [m \in Message |-> "c"]
MCSameText == [m \in Message |-> "same"]
MCOwnText == [m \in Message |-> IF m = 1 THEN "one" ELSE "two"]
=============================================================================
