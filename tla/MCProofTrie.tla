---------------------------- MODULE MCProofTrie ----------------------------
(***************************************************************************)
(* ProofTrie on the keys, values and backing tries of MCPartialTrie.       *)
(***************************************************************************)
EXTENDS ProofTrie, MCPartialTrie

=============================================================================
