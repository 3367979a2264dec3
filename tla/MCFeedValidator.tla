-------------------------- MODULE MCFeedValidator ---------------------------
EXTENDS FeedValidator

(* Three blocks in a row: spans of one block and of two. *)
ChainBlocks == {0, 1, 2}
ChainParent == [b \in ChainBlocks |-> IF b = 2 THEN 1 ELSE 0]

=============================================================================
