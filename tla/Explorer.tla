------------------------------ MODULE Explorer ------------------------------
(***************************************************************************)
(* The explorer page: fetches of proofs and patches of storage slots, each *)
(* with awaits in it, over the tries that the page keeps in globals.  A    *)
(* handler runs from one await to the next in one step; while it waits the *)
(* user may start others.  A trie is what it commits to and what it has    *)
(* loaded.  In a storage trie a patch of a slot needs one node that the    *)
(* slot's own proof may lack.  Nodes are told apart by hash: two blocks, or *)
(* two accounts, may have the same one.                                    *)
(***************************************************************************)
EXTENDS Integers, FiniteSets

CONSTANTS
    Addresses, Blocks, Slots, Values, Nodes,
    StorageAt,  \* for an account at a block: the values of the slots, and for
                \* each slot the node that a patch of it needs
    PathAt,     \* for an account at a block: the part of the path to its leaf
                \* that no other account has, as one node
    Fetches,    \* fetches that may be under way at once
    Patches,    \* patches that may be under way at once
    RpcMay,     \* "fail": a request is refused; "break": a response is
                \* malformed in its storage proofs
    MayFetch,   \* the arguments a fetch is submitted with
    ProbeChunks,\* PROBE_BUDGET / PROBE_CHUNK: 2^8 in the code
    Retries,    \* attempts after the first: 8 in the code
    MaxBlockNumber, \* bound on the head of the chain
    Latest, Null

ASSUME BoundsAssumption ==
    /\ ProbeChunks \in Nat \ {0} /\ Retries \in Nat
    /\ MaxBlockNumber \in Blocks /\ Blocks \subseteq Nat
    /\ \A b \in Blocks : b < MaxBlockNumber => b + 1 \in Blocks

ASSUME FormAssumption ==
    MayFetch \subseteq [address : Addresses, block : Blocks \cup {Latest}, slots : SUBSET Slots]

Contexts == Addresses \X Blocks

Storages == [slots : [Slots -> Values], nodes : [Slots -> Nodes]]

(* A path with the same hash ends in the same leaf.                         *)
ASSUME ChainAssumption ==
    /\ StorageAt \in [Contexts -> Storages]
    /\ PathAt \in [Contexts -> Nodes]
    /\ \A a \in Addresses, b, c \in Blocks :
          PathAt[<<a, b>>] = PathAt[<<a, c>>] => StorageAt[<<a, b>>] = StorageAt[<<a, c>>]

VARIABLES
    head,           \* the block number the RPC reports
    mnPinnedLatest,
    mnContext,      \* <<address, block>>, as in mnFetched: they are set together
    mnAccountTrie, mnStorageTrie, mnStorageSlots,
    mnStatus,       \* of the last fetch
    fetch, patch    \* the handlers that wait

tries == <<mnAccountTrie, mnStorageTrie>>
page == <<mnPinnedLatest, mnContext, mnStorageSlots, mnStatus>>
vars == <<head, page, tries, fetch, patch>>

-----------------------------------------------------------------------------
(* Tries *)

StorageTries == [ctx : Contexts, slots : [Slots -> Values], known : SUBSET Nodes]

AccountTries == [block : Blocks, covers : SUBSET Addresses, leaves : [Addresses -> Storages]]

ASSUME NullAssumption == Null \notin Contexts \cup StorageTries \cup AccountTries \cup Blocks

(* The node that a patch of the slot needs in the storage of a context.     *)
Needed(ctx, slot) == StorageAt[ctx].nodes[slot]

NodesOf(ctx) == {Needed(ctx, s) : s \in Slots}

(* A root stands for what it commits to.                                   *)
StorageRoot(t) == [slots |-> t.slots, nodes |-> StorageAt[t.ctx].nodes]

RootAt(ctx) == StorageAt[ctx]

NewStorage(ctx, nodes) == [ctx |-> ctx, slots |-> RootAt(ctx).slots, known |-> nodes]

(* Nodes go wherever the trie has a Stub with their hash.                   *)
AddStorage(t, nodes) == [t EXCEPT !.known = @ \cup (nodes \cap NodesOf(t.ctx))]

NewAccounts(ctx) ==
    [block |-> ctx[2], covers |-> {ctx[1]}, leaves |-> [a \in Addresses |-> RootAt(<<a, ctx[2]>>)]]

AddAccounts(t, ctx) ==
    IF PathAt[<<ctx[1], t.block>>] = PathAt[ctx] THEN [t EXCEPT !.covers = @ \cup {ctx[1]}] ELSE t

(* The root is that of the header at the block; no two blocks have the same. *)
AccountsAsAt(t, block) ==
    t.block = block /\ \A a \in Addresses : t.leaves[a] = RootAt(<<a, block>>)

-----------------------------------------------------------------------------
(* The fetch form *)

Idle(task) == task.stage = "idle"

Quiet == [stage |-> "idle"]

Submit(f) ==
    /\ Idle(fetch[f])
    /\ \E args \in MayFetch :
          fetch' = [fetch EXCEPT ![f] =
            IF args.block = Latest /\ mnPinnedLatest = Null
            THEN [stage |-> "number", address |-> args.address, since |-> head, slots |-> args.slots]
            ELSE [stage |-> "proof", address |-> args.address, slots |-> args.slots,
                  block |-> IF args.block = Latest THEN mnPinnedLatest ELSE args.block]]
    /\ UNCHANGED <<head, page, tries, patch>>

(* The answer to eth_blockNumber: the head at some time since it was asked, *)
(* which may be older than the last answer.                                *)
PinLatest(f) ==
    /\ fetch[f].stage = "number"
    /\ \E number \in Blocks :
          /\ fetch[f].since <= number /\ number <= head
          /\ mnPinnedLatest' = number
          /\ fetch' = [fetch EXCEPT ![f] = [stage |-> "proof", address |-> fetch[f].address,
                                           block |-> number, slots |-> fetch[f].slots]]
    /\ UNCHANGED <<head, mnContext, mnStorageSlots, mnStatus, tries, patch>>

FetchFails(f) ==
    /\ "fail" \in RpcMay
    /\ ~Idle(fetch[f])
    /\ mnStatus' = "error"
    /\ fetch' = [fetch EXCEPT ![f] = Quiet]
    /\ UNCHANGED <<head, mnPinnedLatest, mnContext, mnStorageSlots, tries, patch>>

SameContext(ctx) == mnContext = ctx

Merges(ctx) == SameContext(ctx) /\ mnAccountTrie # Null

(* MUTANT: the account trie is built anew at each fetch. *)
AccountsAnew(ctx) == NewAccounts(ctx)

AccountsAfter(ctx) == IF Merges(ctx) THEN AddAccounts(mnAccountTrie, ctx) ELSE NewAccounts(ctx)

(* MUTANT: the storage trie of the context before is kept. *)
StorageKept(ctx) == mnStorageTrie

StorageLeft(ctx) == IF Merges(ctx) THEN mnStorageTrie ELSE Null

SlotsLeft(ctx) == IF Merges(ctx) THEN mnStorageSlots ELSE {}

(* The proofs of the slots bring any part of what patches of them need.    *)
StorageAfter(ctx, slots, nodes) ==
    CASE slots = {} -> StorageLeft(ctx)
      [] slots # {} /\ SameContext(ctx) /\ StorageLeft(ctx) # Null ->
            AddStorage(StorageLeft(ctx), nodes)
      [] OTHER -> NewStorage(ctx, nodes)

Fetched(f) ==
    LET ctx == <<fetch[f].address, fetch[f].block>>
        slots == fetch[f].slots
    IN
    /\ fetch[f].stage = "proof"
    /\ \E nodes \in SUBSET NodesOf(ctx) :
          mnStorageTrie' = StorageAfter(ctx, slots, nodes)
    /\ mnAccountTrie' = AccountsAfter(ctx)
    /\ mnStorageSlots' = SlotsLeft(ctx) \cup slots
    /\ mnContext' = ctx
    /\ mnStatus' =
          IF /\ AccountsAsAt(mnAccountTrie', ctx[2])
             /\ slots # {} => StorageRoot(mnStorageTrie') = RootAt(ctx)
          THEN "ok" ELSE "alarm"
    /\ fetch' = [fetch EXCEPT ![f] = Quiet]
    /\ UNCHANGED <<head, mnPinnedLatest, patch>>

(* The account trie is already another one when the storage proofs throw. *)
FetchBreaks(f) ==
    LET ctx == <<fetch[f].address, fetch[f].block>> IN
    /\ "break" \in RpcMay
    /\ fetch[f].stage = "proof" /\ fetch[f].slots # {}
    /\ mnAccountTrie' = AccountsAfter(ctx)
    /\ mnStorageTrie' = StorageLeft(ctx)
    /\ mnStorageSlots' = SlotsLeft(ctx)
    /\ mnStatus' = "error"
    /\ fetch' = [fetch EXCEPT ![f] = Quiet]
    /\ UNCHANGED <<head, mnPinnedLatest, mnContext, patch>>

(* The refresh button: the pin goes and latest is submitted once more.     *)
Refresh(f) ==
    /\ Idle(fetch[f]) /\ mnPinnedLatest # Null
    /\ mnPinnedLatest' = Null
    /\ \E args \in {x \in MayFetch : x.block = Latest} :
          fetch' = [fetch EXCEPT ![f] =
            [stage |-> "number", address |-> args.address, since |-> head, slots |-> args.slots]]
    /\ UNCHANGED <<head, mnContext, mnStorageSlots, mnStatus, tries, patch>>

-----------------------------------------------------------------------------
(* Patches *)

(* propagateStorageRootToAccount, which the account's own proof suffices    *)
(* for; where that was never fetched the insert finds a Stub and fails.    *)
Propagated(storage) ==
    IF mnAccountTrie # Null /\ mnContext # Null /\ mnContext[1] \in mnAccountTrie.covers
    THEN [mnAccountTrie EXCEPT !.leaves[mnContext[1]] = StorageRoot(storage)]
    ELSE mnAccountTrie

(* The proof of a probe is asked for in the context of the moment.  For the *)
(* properties, home is the context that the patch was meant for and first   *)
(* the one that its first proof is asked in.                               *)
Ask(task) ==
    [task EXCEPT !.stage = "probe", !.asked = mnContext,
                 !.first = IF @ = Null THEN mnContext ELSE @]

(* MUTANT: the search for a probe has no budget. *)
SearchOn(p, task) ==
    \/ patch' = [patch EXCEPT ![p] = Ask(task)]
    \/ patch' = [patch EXCEPT ![p] = [task EXCEPT !.stage = "search", !.chunk = 1 - @]]

(* A chunk of hashes with a probe among them, or one without; then the page *)
(* may go on.                                                              *)
SearchFrom(p, task) ==
    \/ patch' = [patch EXCEPT ![p] = Ask(task)]
    \/ patch' = [patch EXCEPT ![p] =
            IF task.chunk + 1 = ProbeChunks THEN Quiet
            ELSE [task EXCEPT !.stage = "search", !.chunk = @ + 1]]

(* One attempt on a storage trie: the patch is done, or looks for the node  *)
(* it lacks, or has tried often enough.                                    *)
Attempt(p, task, storage) ==
    IF Needed(storage.ctx, task.slot) \in storage.known
    THEN /\ mnStorageTrie' = [storage EXCEPT !.slots[task.slot] = task.value]
         /\ mnAccountTrie' = Propagated(mnStorageTrie')
         /\ patch' = [patch EXCEPT ![p] = Quiet]
    ELSE /\ mnStorageTrie' = storage
         /\ UNCHANGED mnAccountTrie
         /\ IF task.attempt = Retries THEN patch' = [patch EXCEPT ![p] = Quiet]
            ELSE SearchFrom(p, [task EXCEPT !.chunk = 0, !.missing = Needed(storage.ctx, task.slot)])

(* A button of a row.                                                      *)
RunPatch(p) ==
    /\ Idle(patch[p]) /\ mnStorageTrie # Null
    /\ \E s \in mnStorageSlots, v \in Values :
          Attempt(p, [stage |-> "search", slot |-> s, value |-> v, attempt |-> 0, chunk |-> 0,
                      missing |-> Needed(mnStorageTrie.ctx, s), asked |-> Null, first |-> Null,
                      home |-> mnStorageTrie.ctx], mnStorageTrie)
    /\ UNCHANGED <<head, page, fetch>>

Search(p) ==
    /\ patch[p].stage = "search"
    /\ SearchFrom(p, patch[p])
    /\ UNCHANGED <<head, page, tries, fetch>>

(* MUTANT: the proof is taken whatever it holds. *)
AnyProof(task) == TRUE

(* One of the nodes in the proof has the hash of the one that is missing,   *)
(* whatever context the proof was asked for in.                            *)
Carries(task) == Needed(task.asked, task.slot) = task.missing

GiveUp(p) == patch' = [patch EXCEPT ![p] = Quiet] /\ UNCHANGED tries

(* All of the proof goes into the storage trie of the moment, and the patch *)
(* is tried on that.                                                       *)
ProbeProved(p) ==
    LET task == patch[p] IN
    /\ task.stage = "probe"
    /\ IF Carries(task) /\ mnStorageTrie # Null
       THEN \E nodes \in SUBSET NodesOf(task.asked) :
               /\ Needed(task.asked, task.slot) \in nodes
               /\ Attempt(p, [task EXCEPT !.attempt = @ + 1], AddStorage(mnStorageTrie, nodes))
       ELSE GiveUp(p)
    /\ UNCHANGED <<head, page, fetch>>

ProbeFails(p) ==
    /\ "fail" \in RpcMay
    /\ patch[p].stage = "probe"
    /\ GiveUp(p)
    /\ UNCHANGED <<head, page, fetch>>

Patching(p) == Search(p) \/ ProbeProved(p) \/ ProbeFails(p)

-----------------------------------------------------------------------------
(* The page *)

NewBlock ==
    /\ head < MaxBlockNumber
    /\ head' = head + 1
    /\ UNCHANGED <<page, tries, fetch, patch>>

Init ==
    /\ head \in Blocks /\ \A b \in Blocks : head <= b
    /\ mnPinnedLatest = Null /\ mnContext = Null
    /\ mnAccountTrie = Null /\ mnStorageTrie = Null
    /\ mnStorageSlots = {} /\ mnStatus = "none"
    /\ fetch = [f \in Fetches |-> Quiet]
    /\ patch = [p \in Patches |-> Quiet]

Next ==
    \/ NewBlock
    \/ \E f \in Fetches :
          \/ Submit(f) \/ Refresh(f) \/ PinLatest(f)
          \/ Fetched(f) \/ FetchFails(f) \/ FetchBreaks(f)
    \/ \E p \in Patches : RunPatch(p) \/ Patching(p)

Spec == Init /\ [][Next]_vars

(* The event loop gets to every task, and every request is answered.       *)
FairSpec == Spec /\ \A p \in Patches : WF_vars(Patching(p))

-----------------------------------------------------------------------------
(* Properties *)

Coherent ==
    /\ mnAccountTrie.block = mnContext[2] /\ mnContext[1] \in mnAccountTrie.covers
    /\ mnStorageTrie # Null => mnStorageTrie.ctx = mnContext

(* When the last fetch reported that both roots were verified, the two      *)
(* tries and the context belong together: through responses in any order,   *)
(* fetches that failed halfway, and patches in between.                     *)
OkMeansCoherent == mnStatus = "ok" => Coherent

(* The account's leaf holds the root of the storage trie shown beside it,   *)
(* however both have been patched, merged into and fetched again.           *)
LeafFollowsStorage ==
    mnStatus = "ok" /\ mnStorageTrie # Null =>
        mnAccountTrie.leaves[mnContext[1]] = StorageRoot(mnStorageTrie)

(* A patch is applied to another trie than it was meant for only if the     *)
(* proof that it first asked for had the node that its own trie lacked.  So *)
(* one that a fetch overtook before it asked goes no further, unless that   *)
(* very node is also in the storage the page had moved on to.              *)
StraysOnSharedNode ==
    [][\A p \in Patches :
          /\ patch[p].stage = "probe" /\ Idle(patch'[p])
          /\ mnStorageTrie' # Null /\ mnStorageTrie # Null
          /\ mnStorageTrie'.slots # mnStorageTrie.slots
          /\ mnStorageTrie'.ctx # patch[p].home
          => /\ patch[p].first # Null
             /\ Needed(patch[p].first, patch[p].slot) = Needed(patch[p].home, patch[p].slot)]_vars

(* Every patch comes to an end, by being applied or by giving up.          *)
PatchReturns == \A p \in Patches : ~Idle(patch[p]) ~> Idle(patch[p])

(* index.html:485: a root that does not match means the response is not to  *)
(* be trusted; here every response tells the truth.                        *)
NoFalseAlarm == mnStatus # "alarm"

=============================================================================
