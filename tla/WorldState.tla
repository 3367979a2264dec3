----------------------------- MODULE WorldState -----------------------------
(***************************************************************************)
(* The two levels of tries that the feed validator and the block replay    *)
(* work on.  A root stands for what it commits to, so a storage root is    *)
(* the storage itself and an account trie its leaves by address.  That     *)
(* partial tries keep this promise is the matter of PartialTrie.           *)
(***************************************************************************)
EXTENDS Integers, FiniteSets

CONSTANTS
    Addrs, Slots,
    Values,     \* slot values other than zero
    Infos,      \* nonce, balance and code of an account that is not empty
    EmptyInfo,  \* nonce 0, no balance, no code
    Zero,       \* the zero word, which no trie holds
    Nothing     \* no leaf: no account

ASSUME DistinctAssumption ==
    /\ EmptyInfo \notin Infos
    /\ Zero \notin Values
    /\ Nothing \notin Infos \cup {EmptyInfo} \cup Values \cup {Zero}

Storage == [Slots -> Values \cup {Zero}]

empty_root == [s \in Slots |-> Zero]

Leaf == [info : Infos \cup {EmptyInfo}, storage_root : Storage]

ASSUME LeafAssumption == Nothing \notin Leaf

Tries == [Addrs -> Leaf \cup {Nothing}]

Remove(trie, addrs) == [a \in Addrs |-> IF a \in addrs THEN Nothing ELSE trie[a]]

(* Whether Trie::hash gives the root of a trie built from a witness.  It    *)
(* does not of a bare Stub, and the witness for no account at all need not  *)
(* bring even the root of a trie that has one.                             *)
HashesRight(trie, touched, nodes) ==
    touched # {} \/ trie = [a \in Addrs |-> Nothing] \/ nodes

StorageOf(leaf) == IF leaf = Nothing THEN empty_root ELSE leaf.storage_root

=============================================================================
