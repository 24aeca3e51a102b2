------------------------- MODULE MCConversationTurn -------------------------
(***************************************************************************)
(* Two texts and a message with two media parts in one conversation, two   *)
(* runs at a time.                                                         *)
(***************************************************************************)
EXTENDS ConversationTurn

MCConvOf == [m \in Message |-> "c"]
MCParts == [m \in Message |-> IF m = "album" THEN {1, 2} ELSE {}]
=============================================================================
