# mpt-lab in TLA+

A verification project for mpt-lab, a Rust implementation of Ethereum's
hexary Merkle-Patricia trie that can work on a *partial* copy of a trie: what is
not loaded is a `Stub` holding a hash, and `insert_with`, `get_with` and
`remove_with` fetch the nodes they run into through a `NodeProvider`. Paths
below are relative to `src/`; `trie.rs` is `crates/mpt-core/src/trie.rs`.

    cd tla
    tlc -workers 2 -config PartialTrie.cfg MCPartialTrie.tla
    tlapm PartialTrieProofs.tla

## 1. Inventory of the system

| Component | State | Operations | Hard behaviour | Correct when |
|---|---|---|---|---|
| Trie (`trie.rs`, `Trie`, `Node`) | the tree of nodes, a write-only db of encodings | `insert_with`, `get_with`, `remove_with`, `hash`, `prove` | stubs met half-way; a sibling fetched on the way back up; errors after the root was taken out; merges at every ancestor | canonical shape after every sequence of calls, so that equal contents have equal roots; answers those of a map; errors name the missing node |
| Decoding (`trie.rs`: `decode_node`, `build_partial`) | none | bytes and a node set to a tree | inlined against hashed children; unknown children; bytes that are no node | the tree commits to the root it was built for |
| Paths (`path.rs`) | none | nibbles, common prefixes, hex-prefix codec | parity and padding | the codec is injective and rejects what it would not write |
| Proofs (`trie.rs`: `prove`, `verify`) | a cursor into the proof | collect a walk; check one | inlined nodes have no entry; absence ends in three ways | what `prove` returns verifies to the trie's own answer |
| Binary Merkle tree (`merkle.rs`) | levels of hashes | `new`, `root`, `prove`, `verify` | a last node without sibling is promoted | prover and verifier skip the same levels |
| Providers (`partial.rs`, `mpt-silt`, `mpt-reth`) | recorded requests; a cache keyed by hash | `get(path, hash)` | no answer, other bytes, a state that moved on | never trusted: the trie compares the hash |
| Witness trie (`mpt-wasm/src/lib.rs`, `WasmProofTrie`) | a trie and the witness nodes | `from_witness`, `add_witness`, `insert`, `remove`, `get` | retry after a failed mutation; witnesses that arrive late | a failed call leaves no trace; a late witness undoes nothing |
| Explorer page (`www/index.html`) | two witness tries, the context they belong to | fetch, patch, probe, retry | several awaits, all on globals | tries and context belong together; a patch lands elsewhere than in the trie it was made for only where the node it lacked is in both |
| Feed validator (`mpt-silt/examples/cached.rs`) | counters of spans | per diff: witness, storage tries, account leaves, compare | destroyed and storage-only accounts | a truthful diff matches |
| Block replay (`mpt-silt/examples/block.rs`, `mpt-reth/examples/block.rs`) | sets of touched and destroyed accounts and slots | events to diff to root | delete and create in one block | the recomputed root is the block's |

The trie calls a provider synchronously, in the middle of a walk, with the
position and the hash of the node it lacks; the witness trie calls the trie with a
provider that reads its witness, and the page calls the witness trie, fetches
what an error names and tries again. The validator and the replay build account
and storage tries from a multiproof, apply a diff through remote providers,
and put each storage root into an account leaf. `Trie` takes `&mut self`: one call
runs at a time. What interleaves with it is the provider's answer, and in the
page everything an `await` lets in.

What is hard to test in this code is listed in `PROJECT.json` under `hazards`,
each at its line, with the properties that watch it.

## 2. Modules

| Module | Models |
|---|---|
| `NibblePaths` | paths of nibbles: prefixes, suffixes, `common_prefix_len` |
| `TrieNodes` | nodes, the invariants of `debug_check`, hashes, RLP lengths, `decode_node`, `build_partial`, and `Canonical`, the reference definition of the trie with given bindings |
| `TrieEdits` | what the calls do to the tree, as operators on trees: graft, split, hang, cut, `normalize`, `prepend` |
| `PartialTrie` | the three calls as steps of their recursion, with every arm of `insert_at`, `get_at`, `remove_at`, `resolve_stub`. Extends `TrieEdits` |
| `AuthMap` | what a trie promises its caller: a map, on which a call takes effect once, or fails |
| `ProofTrie` | `WasmProofTrie`: a partial trie with its witness; mutations on a copy, witnesses that come later. Extends `PartialTrie`, whose steps run on the copy |
| `TrieProofs` | `prove` and `verify`: what the prover puts out for a whole or partial trie, the verifier's loop with its cursor |
| `HexPrefix` | the codec of paths, byte by byte |
| `MerkleTree` | the binary tree of `merkle.rs`: building, proving and verifying, level by level |
| `RemoteNodes` | the providers of `mpt-silt` and `mpt-reth`: `key_with_prefix`, the multiproof, the cache by hash, in front of a chain that moves. Extends `PartialTrie`, whose provider it is |
| `Recording` | `RecordingProvider` in front of it, a workload of calls, and its replay from the recorded nodes with `NoProvider`. Extends `RemoteNodes` |
| `WorldState` | accounts, storages and the two levels of tries over them |
| `FeedValidator` | `cached.rs`: the connection, the counters, and `validate` request by request. Extends `WorldState` |
| `BlockReplay` | both `block.rs`: the phases of the execution, the diff taken from its events, the tries, the comparison. Extends `WorldState` |
| `Explorer` | `index.html`: fetches, the pin, patches with probes and retries, each from await to await |
| `MCPartialTrie`, `MCProofTrie`, `MCTrieProofs`, `MCHexPrefix`, `MCMerkleTree`, `MCRecording`, `MCFeedValidator`, `MCBlockReplay`, `MCExplorer` | the instances for TLC |
| `TrieTheorems` | lemmas about paths, the shape, subtrees, bindings, `Canonical`, `Expand`, and what each edit of `TrieEdits` does |
| `PartialTrieProofs` | the theorems of `PartialTrie`, and of its callers `ProofTrie` and `Recording` |
| `VerifierProofs` | the theorems of `TrieProofs` |
| `HexPrefixProofs`, `MerkleTreeProofs`, `FeedValidatorProofs`, `BlockReplayProofs`, `ExplorerProofs` | the theorems of the module each is named after |

`TrieProofs`, `HexPrefix`, `MerkleTree` and the proof modules stand beside `PartialTrie`; `ProofTrie` and `Recording` compose it
with its callers and providers. `FeedValidator`, `BlockReplay` and `Explorer` sit one level up: in them a trie is what it commits to,
which is what `RootCommits` and `InnerCommits` say of the level below.

### How the state corresponds to the code

**The tree is laid out flat.** `trie` is a function from the absolute position of a
node (the nibbles from the root to it) to the node. A Fork's children are the nodes
one nibble below it, a Skip's child is the node at the end of its path, and
`Null` is the function with an empty domain. Ownership of boxes makes the Rust
tree a tree whatever the code does; here an edit that forgot a subtree would leave
it dangling, so `Connected` is part of the shape and is checked and proved. The
layout makes two things visible that the boxes hide: an edit says exactly which
positions change, and a stub has a position that must not.

**A hash is the tree it commits to.** Equal hashes are equal trees and nothing
else, which is what collision resistance gives. `Stub(S)` holds the complete tree
`S`; `Expand` puts those trees back and is what the root commits to.
Whether a node is hashed or inlined depends on its length, so `rlp_len`
computes the length of every encoding, bottom up (`node_len` from the lengths of the children); the value constants of the runs are chosen on both
sides of the 32 bytes.

**A step is a step of the recursion.** `pos` is `path_so_far`; `suffix` is what is
left of the key. `DescendSkip` and `DescendFork` go into a child, `Resolve` and
`ResolveSibling` over a provider call. An insert or a get ends in the arm that
ends its walk: rebuilding the ancestors on the way back changes none of them in the
flat layout. A removal comes back through `Normalize` at every ancestor, one step
each (`Unwind` finds the parent). `RemoveAbsent` covers every arm that returns
`removed = false`, after which no ancestor is touched.

**Failure.** `insert_with` and `remove_with` take the root out with `mem::replace`
and put one back only on `Ok`; `Fail` therefore leaves `Null`, and only a get
keeps the tree. `lost` remembers that this happened and `want` adds up the
bindings of the calls that returned `Ok`; both are history variables.

**The provider** (`Answers`) returns the node at the asked position of the backing
trie, or, as `ProviderMay` allows, nothing ("miss") or bytes with another hash
("corrupt"). It keys on the path, which is the more demanding of the two kinds
the trait allows: one that keys on the hash does not notice a stub that has moved.
`NoProvider` is the provider that always misses.

`Init` takes any backing trie of the instance and any set of known nodes, and
builds the partial trie as `build_partial` does; with all nodes known it is
the full trie, with none a bare stub, and the empty trie is among them.

**The witness trie** (`ProofTrie`) has its own two variables, `inner` and `witness`, and lets the
steps of `PartialTrie` run on `trie`, the copy that `transactional` makes. `Begin` makes the copy, `transactional`
takes a step of the call and, when the call returns, keeps the copy or drops it; a get works on
`inner` itself, so what it resolved stays resolved even when it fails. `Provided` ties the provider's answer to the
witness, by hash. `add_witness` extends the witness by the proof of any walk through the
backing trie (`Proof`, what `collect` puts out) and resolves stubs in the tree as it stands. `from_witness` starts from any subset of
the hashed nodes. The object is single-threaded and its methods do not await, so `add_witness` comes between
calls; a retry is one more call, and since any call may follow any other, retries in any number and in any order with
other calls are among the behaviours.

**Proofs** (`TrieProofs`). A proof node is the byte string with some hash, so it is a complete tree, of which the verifier looks at
the top node and what is inlined in it; comparing hashes is comparing trees. `Entry` and `Onward` are `collect`;
`resolve` decides between an inlined child, which leaves the cursor alone, and the next proof node. `Init` picks a trie, what
the prover has of it, a key and the proof handed over: the one `prove` makes, or any that comes of the honest one by taking a part out and
putting other nodes in (other nodes of the trie, roots of other tries, and `0x80`, which is an encoding and no node). A value
without bytes is in the model, since its RLP in a Fork's slot is that of no value.

**The codec** (`HexPrefix`) has no state; a step is one call with one argument, and the result is what is checked.

**The binary tree** (`MerkleTree`). A hash is what was hashed, as a function from the ways down ("l", "r") to the data at their
ends; `hash_leaf` of bytes that happen to be those of an inner node is still another hash, because of the tag. `index` and `depth` are
the variables of `prove`, `index`, `size`, `cursor` and `acc` those of `verify`.

**Remote providers** (`RemoteNodes`, `Recording`). `backing` is the trie at the block the caller started from, `latest` the one at the head, which `Advance`
may change between any two steps; `pinned` says which of them the provider reads. A `get` that is not in the
cache makes one request for the key that `key_with_prefix` pads the position to, and looks the hash up in what came. `seen` is the
recorder's list. `StartReplay` builds the trie again from what the first one had loaded and what was recorded, with all of it or without any one node that
the first trie did not have, and `Replay` makes the same calls on it.

**The two levels of tries** (`WorldState`). A storage root is the storage it commits to and an account trie is the leaves by
address. `HashesRight` is the one place where what is loaded matters: `Trie::hash` of a bare Stub is not its root.

**The validator** (`FeedValidator`). `chain` is any assignment of states to blocks that respects EIP-161; `diff` is any frame, truthful or not, over one block or two.
`pc` runs through the requests of `validate`; `trie`, `leaves_p` and `storage_roots` are its locals.
`wrong` is a history variable that counts the diffs which do not certify.

**The replay** (`BlockReplay`). `cache` is yevm's, `events` the list that `reset` clears, `all_events` the program's. A phase has
at most one event with one effect, as yevm emits it, or a reverted one that has none. `post` is the state of the header: that of the execution, or
another one, which is yevm being wrong. `port` chooses between the programs where they differ: reth's reads the witness and its providers from a
state that may be newer (`StatesAt`), and has no rule for accounts that stay empty.

**The page** (`Explorer`). A handler runs from one `await` to the next in one step; the task records in `fetch` and `patch` hold its
locals across it, the other variables are the globals of the same names. A trie in a global has what it commits to (`ctx` and slots, `block` and
leaves) and what it has loaded (`known`, `covers`). Nodes are told apart by hash, as at `index.html:724`: `StorageAt` says what values and nodes the storage of an
account has at a block, so one account at two blocks, or two accounts, may share a node (`Needed`) and differ in others, and what a proof brings goes wherever it fits
(`AddStorage`, `AddAccounts`). The hash search of a probe is a number of chunks, in any of which a probe may be found or not; the first is part
of the step that found the node missing, since nothing is awaited between. The answer to `eth_blockNumber` may be any head since the request.

## 3. What TLC checks

| Run | Instance | Properties |
|---|---|---|
| `partial_trie` | four keys, `00` a prefix of the three others; two tries with inlined and hashed Leaves and a value in a Fork, cut in every way, and the empty one; a provider that may miss or answer with other bytes; weak fairness | `TypeOK`, `Shape`, `StubsInPlace`, `OneCollapse`, `RootCommits`, `AnswersTrue`, `ErrNamesNode`, `ImplementsAuthMap`, `CallsReturn` |
| `proof_trie` | four keys, four tries, any part of the witness, any later witnesses | `InnerCommits`, `InnerShape`, `WitnessSpent`, `ProbeHelps`, `KeepsPromise` |
| `proofs` | seven keys, six tries, Leaves of 31 and 32 bytes, an empty value; proofs with up to two foreign nodes in a row | `TypeOK`, `Sound`, `Complete`, `OneProof`, `ErrorsTell`, `StubsRefused` |
| `hex_prefix` | all paths of up to four nibbles of five kinds, one out of range; all strings of one byte, all first bytes of strings of two, those below 64 of strings of three | `PathComesBack`, `OnePathOneString` |
| `merkle` | lists of 0 to 17 leaves, honest claims; lists of up to four leaves that repeat or look like a node, all claims with altered proofs | `HonestAccepted`, `RootBindsList`, `InLevel`, `PositionBound` |
| `providers` | three keys of one length, three tries a block may have, two calls, pinned or not, failing requests | `MissIsRace`, `WitnessSuffices`, `WitnessMinimal` |
| `feed` | one account with two slots, three blocks, every pair of diffs; failing requests, late headers; weak fairness | `TruthMatches`, `MatchCertifies`, `OkMeansAll`, `Answered` |
| `replay` | two accounts with a slot, one transaction between system writes and withdrawals, both ports, right and wrong executions | `MismatchExplained`, `FinalStateKnown`, `MatchMeansAgreement` |
| `explorer` | two fetches and a patch at a time, two accounts, two blocks, two slots of which the patch of one needs a node that both blocks have and that of the other one that changes, refused and malformed responses; weak fairness | `OkMeansCoherent`, `LeafFollowsStorage`, `StraysOnSharedNode`, `PatchReturns` |
| `confirmed_absent`, `root_hash`, `explorer_false_alarm` | small | violations, see Findings |

The trie (`partial_trie`):

- `Shape`: after *every step* the tree satisfies what `debug_check` asserts, except
  at the one node a removal is about to normalize. Two occupants to a Fork, no Skip that
  leads to a Leaf or a Skip, nothing dangling. A stub under a Skip must stand for a Fork.
- `StubsInPlace`: splits, collapses and merges around a stub leave it where its node
  is in the backing trie, and it holds that node's hash; the node is one of 32 bytes or more, which its parent does not inline.
- `OneCollapse`: the argument of PTRIE.md section 10 that one pass of `normalize` is enough.
- `RootCommits`: between calls the root is that of the canonical trie of the bindings,
  a definition that knows nothing of inserts and removals. It compares what the tree stands for, its Stubs
  replaced by their nodes; that the bytes are the same as well, with each Stub in the place of a child that is hashed anyway, is what `StubsInPlace` adds.
- `AnswersTrue`: what `get` answers over a partial, mutated trie, with a provider that may
  misbehave, is what the calls before it left.
- `ErrNamesNode`: the path and hash in `MissingNode` are those of a hashed node of the
  backing trie, on the key's way or, for a removal, beside it.
- `ImplementsAuthMap`: `PartialTrie` implements `AuthMap` under `map <- Contents(Expand(trie))`, failures included: a get that
  fails changes nothing, and an insert or removal that fails loses every binding, which is what `Losing` says and the WASM crate works around.
- `CallsReturn`: every call returns, whatever is resolved, collapsed and merged on the way.

The witness trie (`proof_trie`):

- `InnerCommits`: between calls the trie of `WasmProofTrie` has the root that the *successful* calls add up to. A failed
  attempt leaves no trace, and a late witness, however far the trie has been edited by then, undoes nothing.
- `InnerShape`: the same trie is well formed, with its stubs in place and none for an inlined node, after merging witnesses of any kind.
- `WitnessSpent`: no stub that the witness could resolve is left, whichever came first, the
  witness or the edit that uncovered the stub. So a retry after fetching what an error names gets past it.
- `ProbeHelps`: the page finds a missing *sibling*, on no walk of the removed key, by proving some
  other key whose hash passes the place the error names (`index.html:684-690`). The property says that this works:
  every walk that passes that place has the node in its proof, although the trie was edited in the meantime and the proof is of the original.
- `KeepsPromise`: `ProofTrie` implements `AuthMap` with nothing lost on failure (`Losing <- {}`), under
  `map <- Contents(Expand(inner))`: each call takes effect once, when it returns, or not at all.

Proofs and codecs (`proofs`, `hex_prefix`, `merkle`):

- `Sound`: an accepted proof, whoever made it, yields the binding of the trie with that root, or its absence. The exception is
  an empty value in a Fork's slot, which reads as absent.
- `Complete`: what `prove` returns for a full trie is accepted, for every key; so both sides agree on what is inlined, also at exactly 32 bytes. That the
  verifier never stops short of a verdict, whatever it is given, is the absence of deadlock: after a verdict `Decided` is the one step there is.
- `OneProof`: no other proof is accepted. `ErrorsTell`: `Truncated` and `TrailingNodes` mean what they say.
- `StubsRefused`: proved from a partial trie, the proof is accepted just when the walk met no Stub.
- `TypeOK` ties the verifier's place to the key: it is at a subtree of the proved trie, at the end of what has been consumed of the key.
- `PathComesBack`, `OnePathOneString`: the codec is injective in both directions; two strings never decode to one path, which would give one node two hashes.
- `HonestAccepted`: for every size up to 17 and every index, prover and verifier skip the same levels. `InLevel`: no index leaves its level on the way.
- `RootBindsList`: the list can be read off the root, so promoting a lone node does not make two lists share one.
- `PositionBound`: an altered claim is accepted only for a leaf of the tree, and with the right size only for the one at that index and with that proof.

Providers (`providers`):

- `MissIsRace`: a node is missing only if the provider follows the latest block and that block has something else there, or a request failed. A pinned
  provider over the *original* trie can supply every node that is ever asked for, however the trie was edited.
- `WitnessSuffices`, `WitnessMinimal`: what was recorded is enough to replay the workload, to the same root, with no provider, and
  without any one of its nodes the replay fails.

Programs (`feed`, `replay`, `explorer`):

- `TruthMatches`, `MatchCertifies`: truthful diffs match, with the exception of one that names nothing; one that matches left nothing
  out and is right of every account that lives in the end.
- `OkMeansAll`: the program returns `Ok` only if every diff certified. `Answered`: no diff waits for ever, late headers or not.
- `MismatchExplained`: if yevm is right, the reasons for a `MISMATCH` are an account deleted and made again in the block, a block that touched nothing, and with
  reth's port a touched account that stays empty or a witness from another state. These are all.
- `MatchMeansAgreement`: `MATCH` says of every account that yevm and the node agree on it; a witness from a newer state may hide that yevm missed a slot write, and nothing else.
- `FinalStateKnown`: what was touched has a final state to be read, reverted creations included.
- `OkMeansCoherent`: when the page says that both roots were verified, the account trie, the storage trie and the context belong
  together, through responses in any order and fetches that broke halfway.
- `LeafFollowsStorage`: the account's leaf then has the root of the storage trie beside it, however both were patched and fetched again.
- `StraysOnSharedNode`: a patch is applied to another trie than it was made for only if the first proof it asked for had the node that its own trie lacked.
  So it is not true that a patch stays with its trie. One that a fetch overtakes while it searches (`index.html:712`) asks for its proof at the new block (722); if both
  blocks have the missing node, the check at 724, which compares hashes, lets it through, and the next attempt (793-815) writes the value into the new
  block's trie. If they do not, the patch gives up. The run contains both. One overtaken after it asked, during the await at 722, goes on in the other trie too.
- `PatchReturns`: every patch ends, by being applied or by giving up.

**Bounds.** In `partial_trie` and `proof_trie` keys, values and backing tries are finite sets and nothing else is bounded: a canonical trie is determined by its
bindings and by what of it is loaded, and behaviours are unbounded sequences of calls. Between them the keys of the two make every arm fire: a Leaf splits with and
without common prefix, with either key ending in the Fork; a Skip splits at its
start (`proof_trie`), in the middle (`partial_trie`) and before its last nibble; a Fork collapses onto a Leaf, a Skip and (`proof_trie`) a Fork, loaded and
not; merges happen above a collapse. Two values suffice: one whose Leaf is inlined, one whose Leaf is hashed.
The bounds elsewhere: `MaxSpurious`, foreign nodes in a row in a proof (2, or 1 sibling in the binary tree: one is enough to replace, lengthen or repeat);
`MaxClaim`, the sizes and indices claimed (5: above every list that is claimed about); lists of 17 leaves, where a
node is promoted through several levels, and of 4 for altered claims; `KeyLen` (4 nibbles, so that a probe may end in half a byte); `MaxCalls` (2: an edit and a call that meets what it left);
`MaxSpans` (2: one bad and one good, in either order) and `Attempts` (2, ten in the code); `Txs` (1; with the phases around it there are three places for an event, so
an account can be written, deleted and credited again); `ProbeChunks` (2, 2^8 in the code), `Retries` (1, eight in the code) and
`MaxBlockNumber` (2: the head moves once).

**Fairness.** `PartialTrie` has weak fairness of `Running`, the steps of a call that has begun: a plain recursion on one thread, where a
provider call returns something or nothing. None is assumed of `Calls`: whether there is another call is up to the caller.
`FeedValidator` has weak fairness of `Validate`, which runs on one blocking thread until it returns and whose requests are answered or fail; none of the arrival of frames.
`Explorer` has weak fairness of each patch task: the event loop resumes every task whose await is over and every request
is answered or refused; none of the user's clicks or of the chain.

## 4. What TLAPS proves

Each theorem is of the form `Spec => []P`, for every value of the constants that meets the assumptions, and so for every set of keys, values,
tries, accounts and slots, and for every behaviour of providers, nodes and callers that the modules allow.

| Theorem | States | Module |
|---|---|---|
| `TypeCorrect`, `ShapeKept`, `StubsStay`, `CollapseOnce` | `TypeOK`, `Shape`, `StubsInPlace`, `OneCollapse` | `PartialTrieProofs` |
| `RootAlwaysCommits` | `RootCommits`: between calls the root is that of the canonical trie of the bindings | |
| `AnswersAlwaysTrue` | `AnswersTrue`: a get answers what the calls before it left | |
| `ErrorAlwaysNames` | `ErrNamesNode`: a missing-node error names a hashed node of the backing trie by place and hash | |
| `TrieIsMap` | `ImplementsAuthMap`: `PartialTrie` implements `AuthMap`, step by step | |
| `CallsAlwaysAdvance` | `CallsAdvance`, an action property of this module: each step of a call lessens a number that its key bounds | |
| `InnerAlwaysCommits`, `InnerAlwaysShaped` | `InnerCommits`, `InnerShape`: retries and late witnesses leave the one right tree | `PartialTrieProofs`, of `ProofTrie` |
| `WitnessAlwaysSpent` | `WitnessSpent`: no stub is left whose node the witness has | |
| `ProbeAlwaysHelps` | `ProbeHelps`: the proof of any key past a missing place brings the node | |
| `ProofTrieIsMap` | `KeepsPromise`: `ProofTrie` implements `AuthMap` with nothing lost on failure | |
| `MissAlwaysRace` | `MissIsRace`, an action property: a pinned provider that answers never makes a node miss | `PartialTrieProofs`, of `Recording` |
| `WitnessAlwaysSuffices` | `WitnessSuffices`: what was recorded replays the workload, with no provider and to the same root | |
| `WitnessAlwaysMinimal` | `WitnessMinimal`: without any one of the nodes that were fetched the replay fails | |
| `VerifierTypeCorrect` | `TypeOK`: the verifier is at a node of the proved trie, where the used part of the key leads | `VerifierProofs` |
| `AlwaysSound`, `AlwaysOneProof`, `ErrorsAlwaysTell` | `Sound`, `OneProof`, `ErrorsTell` | |
| `AlwaysComplete` | `Complete`: the prover's own proof is accepted, for every key | |
| `StubsAlwaysRefused` | `StubsRefused`: a proof from a partial trie is accepted just when the walk met no Stub | |
| `AlwaysComesBack`, `AlwaysOneString` | `PathComesBack`, `OnePathOneString`: the codec is injective both ways, at every length | `HexPrefixProofs` |
| `AlwaysInLevel`, `HonestAlwaysAccepted` | `InLevel`, `HonestAccepted`, for every number of leaves and every index | `MerkleTreeProofs` |
| `RootAlwaysBinds`, `AlwaysPositionBound` | `RootBindsList`, `PositionBound`, for every list and every altered claim | |
| `TruthAlwaysMatches`, `MatchAlwaysCertifies`, `OkAlwaysMeansAll` | `TruthMatches`, `MatchCertifies`, `OkMeansAll` | `FeedValidatorProofs` |
| `MismatchAlwaysExplained`, `MatchAlwaysAgrees`, `FinalStateAlwaysKnown` | `MismatchExplained`, `MatchMeansAgreement`, `FinalStateKnown`, for any number of transactions | `BlockReplayProofs` |
| `OkAlwaysCoherent`, `LeafAlwaysFollows`, `StraysAlwaysOnSharedNode` | `OkMeansCoherent`, `LeafFollowsStorage`, `StraysOnSharedNode`, for any chain and any number of fetches and patches under way | `ExplorerProofs` |

**Assumptions.** They are those the modules name, and TLC evaluates each of them in a run.

- Tries: `NoValue` is no value; values have a positive encoded length; keys are paths and there is one (`KeysAssumption`); a backing trie is finite, its
  positions are paths, it has no stubs, and it has the shape that `debug_check` asserts (`BackingsAssumption`, `ProofBackingsAssumption`). An empty value encodes to one byte.
- Callers: keys behind the remote providers are hashes, so they are of one length and no node lies deeper (`KeyLenAssumption`). `ProviderMay` is a set of the two words.
- Binary tree and codec: lists are sequences; paths and strings are sequences of bytes.
- Programs: the markers for "no account", "zero", "unnamed" and "null" are not ordinary values; every block has a parent; the states that an
  execution or a node may have instead of the right one respect EIP-161 (`OthersAssumption`); `Ports` are the two; a fetch asks for slots of an account at a block;
  an account has a storage at every block, and where the path to its leaf is the same at two blocks, so is that storage (`ChainAssumption`). In `AccountsAsAt`, no two blocks have one state root.
- Bounds are numbers (`Attempts`, `Retries`, `ProbeChunks`, `Txs`, `MaxSpans`, `MaxSpurious`, `MaxClaim`, `MaxCalls`); no theorem depends on how large they are.

**The partial trie.** None of `Shape`, `StubsInPlace` and `TypeOK` is inductive on its own. A
removal cuts a Leaf on the ground that its parent has another occupant, so what may be missing while
it unwinds has to be tied to where it stands; grafting a node keeps the shape
because the stub was the node of the backing trie at that place, which is well formed. `IInv` is the conjunction of
`TypeOK`, `backing \in Backings`, `Shape`, `StubsInPlace` and `AtHand`, which says
what sort of node is at `pos` in each phase and which nodes may be Null, uncrowded or
about to be merged. TLC checked `IInv` on small instances before it was proved. On it rest:

- `CInv` adds `Kept`: what the nodes bind is `want`, without the key while a removal that has cut it is on its way back.
  `AnswersTrue` and the map of the refinement follow.
- `BInv` adds that the tree is of bounded depth. `RootCommits` compares it with `Canonical`, and they are equal only if every walk down ends.
- `NInv` adds `ErrNamesNode`. A removal may ask for a sibling that is on no walk of its key; the error it ends in is true because the sibling has not moved.

`TrieTheorems` holds what the edits do, apart from any state. It restates the shape pointwise (`Good`: each node of a tree with a set of exempted positions is
good in it) and shows that whether a node is good depends on the tree only at and next to the node (`GoodAgree`); an edit below
`p` that leaves the kind of what sits at `p` alone therefore disturbs nothing above it and nothing beside it
(`ReplaceShape`). Each edit has two lemmas on this: that it keeps the shape (`GraftShape`, `SplitLeafShape`, `SplitSkipShape`,
`HangShape`, `CutLeafShape`, `PrependShape`, `NormalizeShape`) and what it does to the bindings, which is one key more, one less, or nothing (`SplitLeafBinds`, `SplitSkipBinds`,
`CutLeafBinds`, `NormalizeBinds`, `GraftBinds`). `WholeCanonical` says that a loaded tree of the right shape is what `Canonical`
builds from its own bindings, so the shape is enough for equal contents to have equal roots; `ExpandWhole` carries this over to a tree with stubs.
`PartialTrieProofs` has a lemma per action, on those, and the theorems. `OneCollapse` follows from `IInv` state by state.

**The witness trie.** `WInv` says of `inner` what a trie has to be to go on from (`Ready`: it has the shape, its stubs are those of the original trie, it binds `want`, and
no stub is left that the witness has), and of the copy what a call may have done to it (`Underway`). With `inner` ready, `Begin` starts a call of
`PartialTrie` in a state that satisfies `IInv`, so every lemma about its steps applies to the copy; `add_witness` is many resolutions at once.

**Remote providers.** A node misses in one step only, the one that asks, and there
`key_with_prefix` gives a key whose walk in the original trie passes the place of the stub, because no stub has moved: this is `MissIsRace`.

`WitnessSuffices` and `WitnessMinimal` compare a replay with the run that was recorded, whose tries are no longer in the state. No simulation of the one run by the other is
needed, because what a call fetches can be told from the bindings it begins with. `Needs(Canonical(b), call)` are the nodes that a call has to have loaded in a trie that binds `b`: those on the way to
its key and, for a removal, the child that it leaves alone in a Fork (`Spare`). `LInv` is `BInv` and, while no call has failed,

- `Covered`: a node of the original trie that is not among those loaded from the start or recorded lies behind a Stub; and in the replay what is among them does not (`Lacking`);
- `Turning`: on the way back of a removal, what lies on the way down has been loaded, and of what becomes spare all but the child of a node that is still to be normalized;
- `Story(b)`, for some sequence `b`: `b[i]` are the bindings that call `i` begins with, each call that has returned had what it needs (`Met`), and each node
  that was recorded was needed by one of the calls. The bindings follow from the calls alone, so the sequence is the same in both runs.

A call that returns had what it needs, since the way to its key is not behind a Stub (`WalkingCovers`, `ReturnMeets`); and a step that asks the provider asks for something needed (`AskedNeeded`).
So the recorded nodes are those that the calls need: the replay asks for none of them, and if one is left out that the first trie did not have, then the call that needs it cannot return. The root at the end is that
of the bindings, by `RootCommits`. What the edits do to it is in `TrieTheorems`: none of them touches a Stub (`PutSameStubs` to `NormalizeSameStubs`), resolving one uncovers what it was given and no more (`GraftCovers`), and
a node that becomes spare in a removal was spare in the tree that the removal began with (`TurnAtLeaf`, `TurnAtFork`).

**Every call ends.** `StepsLeft` counts what a call has still to do, at most two steps for each nibble down and three for each back, and every step lessens it: a Stub that is resolved is no Stub (`ResolvedNode`, `SiblingResolved`), a walk down goes strictly below where it was and a walk back strictly above. Of
`CallsReturn` this leaves to fairness only that a call which can take a step takes one.

**Proofs.** `VInv` ties the verifier's cursor to the one honest proof: what it has consumed is the part of that proof that leads to where it is (`Here`). Whatever was handed over,
an accepted proof is then the honest one, and what is said at its end is the truth of the trie. For `StubsRefused` the proof from a partial trie is compared with the honest one node by node
(`PartEntry`, `PartOnward`, `PartCollects`): they agree up to the first Stub on the walk, whose bare hash is no entry. `ExpandSubtree` says that
what is loaded below a place expands to what the complete trie has there, so both provers take the same nodes for inlined.

**The binary tree.** Index and width are halved in step, one down and the other up, so the index stays inside (`LInv`). `HInv` keeps the trail of the prover, which the
verifier repeats. For `RootBindsList` each level covers the list, node after node (`RInv`); for `PositionBound` a hash that is
right at a level was right at all levels below (`PInv`).

**The codec** has no invariant. Packing and unpacking are inverse place by place, and the flag with its pad makes every length even.

**The programs.** In `FeedValidator` the locals of `validate` are functions of the diff and of the parent's state alone (`Locals`), and
`Applied`, defined from these two, is what is compared in the end; that it is the state at the block for a truthful diff, and only for one that certifies, is shown account by account. `Counted`
ties the counters to `wrong`. In `BlockReplay`, `Executed` ties yevm's cache to the parent's state for accounts that no event names, and
`Staged` says how far the tries are. In `Explorer`, `OkMeansCoherent` is not inductive, since a status of "ok" may come from a fetch that merged into
what earlier ones left: `Paired` says what holds of the two tries whatever the status is, `Verified` what an "ok" rests on, `Homed` that a patch which looks
for a node of another trie got there on a proof that had the one its own lacked.

**Left to TLC.**

- `CallsReturn`, `Answered` and `PatchReturns` are liveness properties. Of the first, `CallsAdvance` is proved, which TLC has checked on a small instance.
- That no state is stuck, in the runs that check for deadlock, is a statement about `ENABLED`; in `proofs` it says that every proof gets a verdict.

Two definitions are recursive functions over a tree. Of `rlp_len` the theorems need only that prover, verifier and `decode_node` compute one number from one
tree, and that an empty value counts as much as none (`EncodedLen`); what numbers come out, and so what is inlined, is for the runs. That `collect` is
defined on every tree of bounded depth is shown by a minimal counterexample (`CollectDefined`), the
induction theorems of the library being out of the provers' reach. `Canonical` is not recursive: its Forks are where two keys part.

## 5. Findings

Statements of the repository that the code does not keep; each of the first three has a run of its own
in which TLC shows it violated.

1. **A failed mutation empties the trie** (`ConfirmedAbsent`). `trie.rs:143` says that `Ok(None)` from
   `get` "means confirmed absent". `insert_with` and `remove_with` return early on an error, leaving `Null` for
   a root (`trie.rs:138-139`, `173-174`). The next `get` answers `Ok(None)` for every key. `WasmProofTrie` works on a
   copy for that reason; users of `mpt-core` are not told.
2. **The hash of a bare Stub** (`HashIsRoot`). `PTRIE.md:134-136` says that a trie with stubs still produces the correct
   root. `Trie::hash` of a trie whose root is a Stub hashes the hash. `node_root` treats the case, `Trie::hash` does not. A diff or a block that
   touches nothing loads nothing, so its root, which is right, compares as wrong (`cached.rs:248`, reth's `block.rs:484`).
3. **A false alarm** (`NoFalseAlarm`). A fetch in the same context merges into the trie at hand; if that has been patched, its root differs
   from the fetched one and the page says not to trust a response that is true (`index.html:463`, `473`, `485`).

Seen while modelling and part of the models, without a run of their own:

- `decode_node` builds a Skip over a Stub when the witness lacks the child (`trie.rs:878`); `trie.rs:30` says that the child is always a
  Fork, and `debug_check` (`trie.rs:74-77`) panics. What holds, and is proved, is that the Stub stands for a Fork.
- `RecordingProvider` notes only requests that were answered (`partial.rs:82`); `partial.rs:57` says "every `(path, hash)` requested".
- A slot written on an account that neither the feed nor the parent knows is dropped with the empty account (`cached.rs:234`), where
  `cached.rs:223` says "a feed bug the root will flag". The slots named for a destroyed account are skipped (`cached.rs:161`).
  `MatchCertifies` is worded accordingly.
- Reth's port creates a leaf for a touched account that stays empty (`mpt-reth/examples/block.rs:467-473`); silt's has the rule
  (`mpt-silt/examples/block.rs:305`). It is the disjunct `StillEmpty` of `MismatchExplained`.
- A fetch of another address at the same block starts a new account trie (`index.html:454`), where the comment above it says that the two "can be merged".
- Two fetches of the latest block that wait at the same time both set the pin (`index.html:437-438`), which is said to be set "ONCE per session".

## 6. Not modelled

- Keccak and SHA-256: hashing is ideal in every model, so a hash is what was hashed.
- The wording of errors, JSON, hex and drawing; the views of the explorer, which keep no state of a trie; the db of encodings, which nothing reads
  (`trie.rs:100`: written by `hash` and `prove`, never read by the trie).
- `WasmTrie`, the full trie of the explorer: it forwards to `Trie` after parsing hex and adds no state.
- `debug_check` as code: its conditions are `Shape`.
- Empty values in `PartialTrie`: RLP cannot tell one from no value (NOTES.md 7.6), so `Value` holds none there; `TrieProofs` has one.
- Panics on bytes that hash right and are no node: the backing trie is a trie. For the same reason two refusals of `verify` cannot come about in the model:
  undecodable RLP, and a child reference that is neither inlined nor of 32 bytes.
- yevm, the node and the feed server are external: modelled as whatever they may do to the code in `src/`. Frames that are only printed (Reorg, Heartbeat, GapTooOld)
  change no state. The diagnostics after a `MISMATCH` change nothing.
- The measurement and demonstration programs (`main.rs`, `live.rs`, `collapse.rs`, `sweep.rs`, `phase_b.rs`, `resolve.rs`): straight-line programs that fetch
  proofs, call the trie and print; what they call is modelled, they keep no state of their own.

## 7. Plan

Done: every component of section 1 is modelled as far as its row says, and checked. Every property of a passing run is proved, but for the three liveness properties
(section 4, "Left to TLC").

What is left:

1. Measures like `StepsLeft` for `validate` and for the page's patches, which bound the requests one of them makes.
2. `PartialTrie` for values without bytes, which `TrieProofs` has and `PartialTrie` leaves out (section 6).
