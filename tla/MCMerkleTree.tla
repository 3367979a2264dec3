---------------------------- MODULE MCMerkleTree ----------------------------
(***************************************************************************)
(* MerkleTree on lists of distinct leaves up to the size at which a node   *)
(* is promoted three times, and on short lists whose leaves repeat or are  *)
(* the bytes of a node.                                                    *)
(***************************************************************************)
EXTENDS MerkleTree

DistinctLists == {[i \in 1..n |-> Bytes(i)] : n \in 0..17}

a == Bytes(1)
b == Bytes(2)
ab == NodeBytes(hash_leaf(a), hash_leaf(b))

AmbiguousData == {a, b, ab}
AmbiguousLists == UNION {[1..n -> AmbiguousData] : n \in 0..4}

AnyLists == DistinctLists \cup AmbiguousLists
=============================================================================
