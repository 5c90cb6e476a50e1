------------------------- MODULE MC_InboundPipeline -------------------------
(* Small instances of InboundPipeline.                                     *)
EXTENDS InboundPipeline

CONSTANTS c1, c2

OneConversation  == [e \in Event |-> c1]
TwoConversations == [e \in Event |-> IF e % 2 = 1 THEN c1 ELSE c2]
=============================================================================
