---------------------------- MODULE RemoteNodes ----------------------------
(***************************************************************************)
(* The providers of mpt-silt and mpt-reth: a cache keyed by hash in front  *)
(* of a node that serves multiproofs, here as the provider of the calls of *)
(* PartialTrie.  The two crates, and in each the storage and the account   *)
(* provider, differ in what trie they read; a StateProviderBox of reth is  *)
(* a snapshot of a block, a silt provider is pinned to one or follows the  *)
(* latest.  The chain moves on between any two steps.  Who makes the calls *)
(* is in Recording.                                                        *)
(***************************************************************************)
EXTENDS PartialTrie

CONSTANTS
    KeyLen,     \* nibbles of a hashed key
    RequestsMay \* what requests may do besides being answered: "fail"

(* Keys are hashed: all are of one length, and no node lies deeper.         *)
ASSUME KeyLenAssumption ==
    /\ KeyLen \in Nat
    /\ \A k \in Keys : Len(k) = KeyLen
    /\ \A S \in Backings : \A p \in DOMAIN S : Len(p) <= KeyLen

VARIABLES
    pinned,     \* whether the provider is pinned to the block of the trie
    latest,     \* the complete trie at the newest block
    cache       \* the nodes of all responses, by hash

remoteVars == <<vars, pinned, latest, cache>>

(* MUTANT: a prefix that ends in half a byte loses that half. *)
KeyOfWholeBytes(prefix) ==
    [i \in 1..KeyLen |-> IF i <= 2 * (Len(prefix) \div 2) THEN prefix[i] ELSE 0]

key_with_prefix(prefix) == [i \in 1..KeyLen |-> IF i <= Len(prefix) THEN prefix[i] ELSE 0]

Block == IF pinned THEN backing ELSE latest

(* The response to a probe: the walk of its key through the trie at the     *)
(* block, absorbed by the hashes of the nodes.                              *)
multiproof(probe) == {Subtree(Block, p) : p \in {q \in Hashed(Block) : starts_with(probe, q)}}

(* The cache after get, which probes the place unless it knows the hash; a  *)
(* request that fails leaves the cache alone.                               *)
CacheAfter(p, hash) ==
    IF hash \in cache THEN {cache}
    ELSE {cache \cup multiproof(key_with_prefix(p))} \cup {cache : x \in RequestsMay \cap {"fail"}}

(* What is looked up by hash is the node with that hash, and the call goes  *)
(* on, or nothing.                                                          *)
get ==
    /\ Resolve \/ ResolveSibling
    /\ cache' \in CacheAfter(Asked, trie[Asked].hash)
    /\ out'.status = IF trie[Asked].hash \in cache' THEN out.status ELSE "missing"
    /\ UNCHANGED <<pinned, latest>>

Advance ==
    /\ latest' \in Backings
    /\ UNCHANGED <<vars, pinned, cache>>

RemoteInit == Init /\ pinned \in BOOLEAN /\ latest = backing /\ cache = {}

=============================================================================
