----------------------------- MODULE MerkleTree -----------------------------
(***************************************************************************)
(* The binary Merkle tree over an ordered list of leaves: built level by   *)
(* level, a last node without a sibling promoted; a prover that collects   *)
(* siblings from the levels, and a verifier that has only the root and a   *)
(* claim (leaf, index, size, siblings) and must skip the levels that the   *)
(* prover skipped.                                                         *)
(*                                                                         *)
(* Hashing is ideal: a hash is what was hashed, laid out flat as in        *)
(* TrieNodes.  It is a function from the positions of the leaves below it, *)
(* as ways down ("l" or "r"), to their data.                               *)
(***************************************************************************)
EXTENDS Naturals, Sequences, FiniteSets

CONSTANTS
    Lists,      \* the lists of leaves that trees are built over
    Offered,    \* the data that is claimed without having been asked for
    MaxClaim,   \* bound: the sizes and indices claimed, of lists shorter than it
    MaxSpurious \* bound: how many siblings in a row the prover did not put there

ASSUME ListsAssumption == \A l \in Lists : Len(l) \in Nat /\ l = [i \in 1..Len(l) |-> l[i]]
ASSUME MaxClaimAssumption == MaxClaim \in Nat
ASSUME MaxSpuriousAssumption == MaxSpurious \in Nat

VARIABLES
    leaves,    \* the data of the leaves
    levels,    \* the hashes, level by level, leaves first
    pc,        \* "build", "ask", "prove", "claim", "verify" or "done"
    asked,     \* the index a proof is wanted for
    depth,     \* the level at hand, from 1 for the leaves
    index,     \* the position in it, from 0
    siblings,  \* the proof made
    claim,     \* what the verifier is asked: leaf, index, size and proof
    acc,       \* the verifier's hash so far
    size,      \* the width of the level it believes to be in
    cursor,    \* how many siblings it has consumed
    verdict

vars == <<leaves, levels, pc, asked, depth, index, siblings, claim, acc, size, cursor, verdict>>

tree == <<leaves, levels>>
proving == <<asked, depth, siblings>>
verifying == <<claim, acc, size, cursor, verdict>>

-----------------------------------------------------------------------------
(* Hashes *)

empty_root == [w \in {} |-> FALSE]

hash_node(lhs, rhs) ==
    [w \in {<<"l">> \o v : v \in DOMAIN lhs} \cup {<<"r">> \o v : v \in DOMAIN rhs} |->
        IF Head(w) = "l" THEN lhs[Tail(w)] ELSE rhs[Tail(w)]]

(* Leaf data are any bytes, and may be those that a node is hashed from.    *)
Bytes(n) == [bytes |-> n]
NodeBytes(lhs, rhs) == [lhs |-> lhs, rhs |-> rhs]

(* MUTANT: leaves and nodes are hashed alike. *)
HashLeafUntagged(data) ==
    IF DOMAIN data = {"lhs", "rhs"} THEN hash_node(data.lhs, data.rhs)
    ELSE [w \in {<<>>} |-> data]

(* The tag of a leaf is another than that of a node. *)
hash_leaf(data) == [w \in {<<>>} |-> data]

-----------------------------------------------------------------------------
(* Building *)

(* MUTANT: the last node without a sibling is paired with itself. *)
ParentsDuplicating(level) ==
    [i \in 1..(Len(level) + 1) \div 2 |->
        hash_node(level[2 * i - 1], level[IF 2 * i <= Len(level) THEN 2 * i ELSE 2 * i - 1])]

parents(level) ==
    [i \in 1..(Len(level) + 1) \div 2 |->
        IF 2 * i <= Len(level) THEN hash_node(level[2 * i - 1], level[2 * i])
        ELSE level[Len(level)]]

Init ==
    /\ leaves \in Lists
    /\ levels = <<[i \in 1..Len(leaves) |-> hash_leaf(leaves[i])]>>
    /\ pc = "build"
    /\ asked = 0 /\ depth = 1 /\ index = 0 /\ siblings = <<>>
    /\ claim = [leaf |-> Bytes(0), index |-> 0, size |-> 0, proof |-> <<>>]
    /\ acc = empty_root /\ size = 0 /\ cursor = 0
    /\ verdict = FALSE

top == levels[Len(levels)]

BuildLevel ==
    /\ pc = "build"
    /\ Len(top) > 1
    /\ levels' = Append(levels, parents(top))
    /\ UNCHANGED <<leaves, pc, index, proving, verifying>>

Built ==
    /\ pc = "build"
    /\ Len(top) <= 1
    /\ pc' = "ask"
    /\ UNCHANGED <<tree, index, proving, verifying>>

root == IF top = <<>> THEN empty_root ELSE top[Len(top)]
len == Len(levels[1])

-----------------------------------------------------------------------------
(* Proving *)

prove ==
    /\ pc = "ask"
    /\ asked' \in 0..len
    /\ index' = asked'
    /\ depth' = 1
    /\ siblings' = <<>>
    /\ pc' = IF asked' >= len THEN "done" ELSE "prove"
    /\ UNCHANGED <<tree, verifying>>

Promoted(i, width) == i = width - 1 /\ width % 2 = 1

(* MUTANT: the node before a lone last one is taken for its sibling. *)
ProveLevelNoPromotion ==
    /\ pc = "prove"
    /\ Len(levels[depth]) > 1
    /\ siblings' = Append(siblings, levels[depth][IF index % 2 = 0 /\ index + 2 <= Len(levels[depth])
                                                  THEN index + 2 ELSE index])
    /\ index' = index \div 2
    /\ depth' = depth + 1
    /\ UNCHANGED <<tree, pc, asked, verifying>>

ProveLevel ==
    /\ pc = "prove"
    /\ Len(levels[depth]) > 1
    /\ siblings' =
          IF Promoted(index, Len(levels[depth])) THEN siblings
          ELSE Append(siblings, levels[depth][IF index % 2 = 0 THEN index + 2 ELSE index])
    /\ index' = index \div 2
    /\ depth' = depth + 1
    /\ UNCHANGED <<tree, pc, asked, verifying>>

Proved ==
    /\ pc = "prove"
    /\ Len(levels[depth]) = 1
    /\ pc' = "claim"
    /\ UNCHANGED <<tree, index, proving, verifying>>

-----------------------------------------------------------------------------
(* Verifying *)

Hashes == UNION {{levels[d][i] : i \in 1..Len(levels[d])} : d \in 1..Len(levels)}

(* The siblings with a part of them replaced by other hashes of the tree.   *)
Spurious == UNION {[1..n -> Hashes] : n \in 0..MaxSpurious}

Spliced(i, spurious, j) ==
    SubSeq(siblings, 1, i) \o spurious \o SubSeq(siblings, j + 1, Len(siblings))

Alterations ==
    UNION {{Spliced(i, s, j) : s \in Spurious} : i, j \in 0..Len(siblings)}

Honest == [leaf |-> leaves[asked + 1], index |-> asked, size |-> len, proof |-> siblings]

Others ==
    IF len >= MaxClaim THEN {}
    ELSE [leaf : Offered, index : 0..MaxClaim, size : 0..MaxClaim, proof : Alterations]

(* Somebody claims that a leaf is at an index of a list of some size.       *)
verify ==
    /\ pc = "claim"
    /\ claim' \in {Honest} \cup Others
    /\ acc' = hash_leaf(claim'.leaf)
    /\ index' = claim'.index
    /\ size' = claim'.size
    /\ cursor' = 0
    /\ verdict' = FALSE
    /\ pc' = IF claim'.index >= claim'.size THEN "done" ELSE "verify"
    /\ UNCHANGED <<tree, proving>>

(* MUTANT: the index is not halved where a level is skipped. *)
VerifyPromotedInPlace ==
    /\ pc = "verify"
    /\ size > 1
    /\ Promoted(index, size)
    /\ size' = (size + 1) \div 2
    /\ UNCHANGED <<tree, pc, index, proving, claim, acc, cursor, verdict>>

VerifyPromoted ==
    /\ pc = "verify"
    /\ size > 1
    /\ Promoted(index, size)
    /\ size' = (size + 1) \div 2
    /\ index' = index \div 2
    /\ UNCHANGED <<tree, pc, proving, claim, acc, cursor, verdict>>

VerifyFold ==
    /\ pc = "verify"
    /\ size > 1
    /\ ~Promoted(index, size)
    /\ cursor < Len(claim.proof)
    /\ acc' = IF index % 2 = 0 THEN hash_node(acc, claim.proof[cursor + 1])
              ELSE hash_node(claim.proof[cursor + 1], acc)
    /\ cursor' = cursor + 1
    /\ index' = index \div 2
    /\ size' = (size + 1) \div 2
    /\ UNCHANGED <<tree, pc, proving, claim, verdict>>

VerifyShort ==
    /\ pc = "verify"
    /\ size > 1
    /\ ~Promoted(index, size)
    /\ cursor = Len(claim.proof)
    /\ pc' = "done"
    /\ UNCHANGED <<tree, index, proving, verifying>>

Verified ==
    /\ pc = "verify"
    /\ size <= 1
    /\ verdict' = (acc = root /\ cursor = Len(claim.proof))
    /\ pc' = "done"
    /\ UNCHANGED <<tree, index, proving, claim, acc, size, cursor>>

Next ==
    \/ BuildLevel \/ Built
    \/ prove \/ ProveLevel \/ Proved
    \/ verify \/ VerifyPromoted \/ VerifyFold \/ VerifyShort \/ Verified

Spec == Init /\ [][Next]_vars

-----------------------------------------------------------------------------
(* Properties *)

(* Neither the prover nor the verifier runs out of its level: the indices   *)
(* they halve stay within the widths they halve, so `len() - 1` does not    *)
(* underflow and no level is read past its end.                             *)
InLevel ==
    /\ depth \in 1..Len(levels)
    /\ pc = "prove" => index < Len(levels[depth])
    /\ pc = "verify" => index < size
    /\ cursor <= Len(claim.proof)

(* w lies to the left of v. *)
Before(w, v) ==
    \E n \in 1..Len(w) :
        n <= Len(v) /\ SubSeq(w, 1, n - 1) = SubSeq(v, 1, n - 1) /\ w[n] = "l" /\ v[n] = "r"

(* The list can be read off the root, in order and with its length: another *)
(* list has another root, also one that repeats its last leaf.              *)
RootBindsList ==
    pc # "build" =>
        /\ Cardinality(DOMAIN root) = Len(leaves)
        /\ \A w \in DOMAIN root :
              root[w] = leaves[1 + Cardinality({v \in DOMAIN root : Before(v, w)})]

(* Prover and verifier skip the same levels and put the siblings on the     *)
(* same sides, for every size and index.                                    *)
HonestAccepted == pc = "done" /\ asked < len /\ claim = Honest => verdict

(* Whatever size is claimed, what is accepted is a leaf of the tree, and    *)
(* only where it stands is up to the size.  With the size of the tree, an   *)
(* accepted claim says the truth about the position, and its proof is the   *)
(* one that prove returns for it.                                           *)
PositionBound ==
    verdict =>
        /\ \E i \in 1..Len(leaves) : claim.leaf = leaves[i]
        /\ claim.size = len => claim.leaf = leaves[claim.index + 1]
        /\ claim.size = len /\ claim.index = asked => claim.proof = siblings

=============================================================================
