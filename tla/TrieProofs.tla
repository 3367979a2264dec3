----------------------------- MODULE TrieProofs -----------------------------
(***************************************************************************)
(* Trie::prove and verify.  The prover walks a trie, which may be partly   *)
(* loaded, and puts out the encoding of each node on the way that is not   *)
(* inlined.  The verifier knows the root and the key, is handed a proof by *)
(* whoever, and walks the same way with a cursor into the proof.           *)
(*                                                                         *)
(* A proof node is the byte string with a given hash, so it is told by the *)
(* hash: a complete tree, of which the verifier reads the top node and     *)
(* what is inlined in it.  `current` is the subtree at the verifier's      *)
(* place; only resolve decides how its node came to be known.              *)
(***************************************************************************)
EXTENDS TrieNodes

CONSTANTS
    Keys,       \* the keys that are asked for, bound or not
    Backings,   \* complete tries
    Empty,      \* the values without bytes, whose RLP is that of no value
    MaxSpurious \* bound: how many nodes in a row a proof has that the prover did not put there

ASSUME ProofKeysAssumption == Keys \subseteq Path
ASSUME ProofBackingsAssumption ==
    \A S \in Backings :
        /\ DOMAIN S \subseteq Path /\ IsFiniteSet(DOMAIN S)
        /\ S \in [DOMAIN S -> Node({})]
        /\ WellFormed(S)
ASSUME EmptyAssumption == Empty \subseteq Value /\ \A v \in Empty : ValueLen[v] = 1
ASSUME MaxSpuriousAssumption == MaxSpurious \in Nat

VARIABLES
    backing,   \* the complete trie that is proved about
    trie,      \* what the prover has of it
    key,       \* the key in question
    proof,     \* the nodes handed to the verifier
    pc,        \* "start", "walk", "end" or "done"
    suffix,    \* what is left of the key
    cursor,    \* how many proof nodes have been consumed
    current,   \* the node at hand, with what hangs below it
    result     \* Some value, None, or why the proof is refused

vars == <<backing, trie, key, proof, pc, suffix, cursor, current, result>>

-----------------------------------------------------------------------------
(* Encoding *)

(* The bytes of a tree: an empty value in a Fork's slot reads as none.      *)
Encoded(S) ==
    [p \in DOMAIN S |-> IF Is(S, p, "fork") /\ S[p].value \in Empty THEN Fork(NoValue) ELSE S[p]]

(* encode_node of the node at p; a Stub comes out as its 32 bytes of hash.  *)
encode_node(T, p) == Encoded(trie_hash(Subtree(T, p)))

enc_len(T, p) == IF Is(T, p, "stub") THEN 32 ELSE rlp_len(Expand(Subtree(T, p)))

-----------------------------------------------------------------------------
(* The prover *)

(* MUTANT: a node of exactly 32 bytes is taken for an inlined one. *)
EntryAbove32(T, p) == IF p = <<>> \/ enc_len(T, p) > 32 THEN <<encode_node(T, p)>> ELSE <<>>

(* What collect puts out for the node at p: nothing if it is inlined.       *)
Entry(T, p) == IF p = <<>> \/ enc_len(T, p) >= 32 THEN <<encode_node(T, p)>> ELSE <<>>

(* The position at which collect goes on from p, if it does.                *)
Onward(T, k, p) ==
    {c \in DOMAIN T : IsParent(T, p, c) /\ starts_with(k, c)}

collect(T, k) ==
    LET from[p \in DOMAIN T] ==
          Entry(T, p) \o (IF Onward(T, k, p) = {} THEN <<>>
                          ELSE from[CHOOSE c \in Onward(T, k, p) : TRUE])
    IN from[<<>>]

prove(T, k) == IF T = Null THEN <<>> ELSE collect(T, k)

-----------------------------------------------------------------------------
(* The verifier *)

Some(value) == [status |-> "ok", answer |-> value]
Absent == [status |-> "ok", answer |-> NoValue]
Err(why) == [status |-> why]

root == Encoded(node_root(backing))

(* Byte strings that may be handed in: nodes of this trie, the roots of     *)
(* others, and 0x80, which is an encoding and no node.                      *)
Entries == {Null} \cup {Encoded(S) : S \in HashesOf(backing)}
             \cup {Encoded(B) : B \in Backings}

(* A proof may have any part replaced by other nodes, or by none: it may be *)
(* cut short, repeat, swap or leave out nodes and go on past its end.       *)
Spurious == UNION {[1..n -> Entries] : n \in 0..MaxSpurious}

Altered(honest) ==
    \E i, j \in 0..Len(honest), spurious \in Spurious :
        proof = Take(honest, i) \o spurious \o Drop(honest, j)

(* The proof is handed over whole: what the prover made of what it has      *)
(* loaded, or something else.                                               *)
Init ==
    /\ backing \in Backings
    /\ \E nodes \in SUBSET HashesOf(backing) : trie = build_partial(nodes, backing)
    /\ key \in Keys
    /\ \/ proof = prove(trie, key)
       \/ trie = backing /\ Altered(prove(backing, key))
    /\ pc = "start"
    /\ suffix = key
    /\ cursor = 0
    /\ current = Null
    /\ result = Err("none")

Given == <<backing, trie, key, proof>>

Refuse(why) ==
    /\ result' = Err(why)
    /\ pc' = "done"
    /\ UNCHANGED <<Given, suffix, cursor, current>>

(* The loop is left with an answer; the proof may still be too long.        *)
Break(value) ==
    /\ result' = IF value = NoValue THEN Absent ELSE Some(value)
    /\ pc' = "end"
    /\ UNCHANGED <<Given, suffix, cursor, current>>

EmptyProof ==
    /\ pc = "start"
    /\ proof = <<>>
    /\ IF root = Null
       THEN /\ result' = Absent
            /\ pc' = "done"
            /\ UNCHANGED <<Given, suffix, cursor, current>>
       ELSE Refuse("Truncated")

Enter(n) ==
    /\ current' = proof[1]
    /\ cursor' = n
    /\ pc' = "walk"
    /\ UNCHANGED <<Given, suffix, result>>

(* MUTANT: the root's node is not counted as consumed. *)
FirstUncounted ==
    /\ pc = "start"
    /\ proof # <<>>
    /\ IF proof[1] # root THEN Refuse("HashMismatch") ELSE Enter(0)

First ==
    /\ pc = "start"
    /\ proof # <<>>
    /\ IF proof[1] # root THEN Refuse("HashMismatch")
       ELSE Enter(1)

At(type) == pc = "walk" /\ Is(current, <<>>, type)

(* Neither a list of 2 nor of 17 items: the root of the empty trie.         *)
Malformed == pc = "walk" /\ current = Null /\ Refuse("MalformedNode")

(* MUTANT: a child that does not match counts as absent. *)
ResolveAbsent(c, rest) ==
    LET child == Subtree(current, c)
        hashed == rlp_len(child) >= 32
    IN IF hashed /\ cursor = Len(proof) THEN Refuse("Truncated")
       ELSE IF hashed /\ proof[cursor + 1] # child
       THEN /\ result' = Absent
            /\ pc' = "end"
            /\ cursor' = cursor + 1
            /\ UNCHANGED <<Given, suffix, current>>
       ELSE /\ current' = child
            /\ cursor' = IF hashed THEN cursor + 1 ELSE cursor
            /\ suffix' = rest
            /\ UNCHANGED <<Given, pc, result>>

(* An inlined child is there already; a hash takes the next proof node.     *)
resolve(c, rest) ==
    LET child == Subtree(current, c)
        hashed == rlp_len(child) >= 32
    IN IF hashed /\ cursor = Len(proof) THEN Refuse("Truncated")
       ELSE IF hashed /\ proof[cursor + 1] # child THEN Refuse("HashMismatch")
       ELSE /\ current' = child
            /\ cursor' = IF hashed THEN cursor + 1 ELSE cursor
            /\ suffix' = rest
            /\ UNCHANGED <<Given, pc, result>>

ForkValue == At("fork") /\ suffix = <<>> /\ Break(current[<<>>].value)

ForkEmptySlot ==
    /\ At("fork")
    /\ suffix # <<>>
    /\ Head(suffix) \notin Children(current, <<>>)
    /\ Break(NoValue)

(* MUTANT: the nibble that leads to the child stays in the suffix. *)
ForkChildKeepsNibble ==
    /\ At("fork")
    /\ suffix # <<>>
    /\ Head(suffix) \in Children(current, <<>>)
    /\ resolve(<<Head(suffix)>>, suffix)

ForkChild ==
    /\ At("fork")
    /\ suffix # <<>>
    /\ Head(suffix) \in Children(current, <<>>)
    /\ resolve(<<Head(suffix)>>, Tail(suffix))

(* MUTANT: a Leaf answers for every key whose walk ends there. *)
LeafAnswersAny == At("leaf") /\ Break(current[<<>>].value)

LeafEnds ==
    /\ At("leaf")
    /\ Break(IF suffix = current[<<>>].path THEN current[<<>>].value ELSE NoValue)

SkipDiverges ==
    At("skip") /\ ~starts_with(suffix, current[<<>>].path) /\ Break(NoValue)

SkipChild ==
    /\ At("skip")
    /\ starts_with(suffix, current[<<>>].path)
    /\ resolve(current[<<>>].path, Drop(suffix, Len(current[<<>>].path)))

(* MUTANT: the end of the proof is not looked at. *)
FinishAnywhere ==
    /\ pc = "end"
    /\ pc' = "done"
    /\ UNCHANGED <<Given, suffix, cursor, current, result>>

Finish ==
    /\ pc = "end"
    /\ IF cursor # Len(proof) THEN Refuse("TrailingNodes")
       ELSE /\ pc' = "done"
            /\ UNCHANGED <<Given, suffix, cursor, current, result>>

(* After the verdict there is nothing to do: a state without a step would   *)
(* be one in which the verifier is stuck.                                   *)
Decided == pc = "done" /\ UNCHANGED vars

Next ==
    \/ EmptyProof \/ First \/ Malformed
    \/ ForkValue \/ ForkEmptySlot \/ ForkChild
    \/ LeafEnds \/ SkipDiverges \/ SkipChild
    \/ Finish \/ Decided

Spec == Init /\ [][Next]_vars

-----------------------------------------------------------------------------
(* Properties *)

Accepted == pc = "done" /\ result.status = "ok"

Lookup(S, k) == IF k \in DOMAIN Contents(S) THEN Contents(S)[k] ELSE NoValue

(* The walk is at a subtree of the proved trie, and no further in the proof *)
(* than the nodes it has passed.                                            *)
TypeOK ==
    /\ pc \in {"start", "walk", "end", "done"}
    /\ cursor \in 0..Len(proof)
    /\ pc = "walk" => \E p \in DOMAIN root \cup {<<>>} :
                        /\ current = Subtree(root, p)
                        /\ key = p \o suffix

(* Whatever proof is handed in, an accepted one yields the binding that the *)
(* trie with this root has for the key, or its absence.  The exception is a *)
(* value without bytes in a Fork's slot, which no reader can see.           *)
Sound ==
    Accepted =>
        \/ result.answer = Lookup(backing, key)
        \/ /\ Lookup(backing, key) \in Empty
           /\ Is(backing, key, "fork")
           /\ result.answer = NoValue

(* What prove returns for a complete trie is accepted, for every key: the   *)
(* prover and the verifier agree on which nodes are inlined, also when an   *)
(* encoding is just 32 bytes long, and on where each kind of absence ends.  *)
Complete == pc = "done" /\ proof = prove(backing, key) => result.status = "ok"

(* A proof is a canonical object: for a root and a key there is one that is *)
(* accepted, with no node to spare.                                         *)
OneProof == Accepted => proof = prove(backing, key)

(* A refusal says what is wrong: Truncated when the one proof has been cut  *)
(* short, TrailingNodes when something follows it.                          *)
ErrorsTell ==
    pc = "done" =>
        LET honest == prove(backing, key)
        IN /\ result.status = "Truncated" =>
                Len(proof) < Len(honest) /\ proof = Take(honest, Len(proof))
           /\ result.status = "TrailingNodes" =>
                Len(proof) > Len(honest) /\ honest = Take(proof, Len(honest))

(* Proved from a partial trie, the verdict tells whether the walk ran into  *)
(* a Stub: if not, the proof is that of the complete trie; if so, the bare  *)
(* hash it ends in is refused and never passes for a node or for absence.   *)
StubsRefused ==
    pc = "done" /\ proof = prove(trie, key) =>
        (result.status = "ok") = (\A p \in StubsOf(trie) : ~starts_with(key, p))

=============================================================================
