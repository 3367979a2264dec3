--------------------------- MODULE ExplorerProofs ---------------------------
(***************************************************************************)
(* The explorer page, for any number of fetches and patches under way, of  *)
(* accounts, blocks and slots.                                             *)
(*                                                                         *)
(* That the tries belong to the context is not inductive by itself: a       *)
(* status of "ok" may come from a fetch that merged into what earlier ones  *)
(* left, so the invariant has to say what holds while the status is        *)
(* something else.  Paired is that: a storage trie is always of the context *)
(* of the page, and the account trie, where it is of the context's block,   *)
(* holds its root; without a storage trie nothing can have been patched.   *)
(***************************************************************************)
EXTENDS Explorer, TLAPS

FetchTasks ==
    {Quiet}
    \cup [stage : {"number"}, address : Addresses, since : Blocks, slots : SUBSET Slots]
    \cup [stage : {"proof"}, address : Addresses, block : Blocks, slots : SUBSET Slots]

BusyPatches ==
    [stage : {"search", "probe"}, slot : Slots, value : Values, attempt : Nat, chunk : Nat,
     missing : Nodes, asked : Contexts \cup {Null}, first : Contexts \cup {Null},
     home : Contexts]

TypeOK ==
    /\ head \in Blocks
    /\ mnPinnedLatest \in Blocks \cup {Null}
    /\ mnContext \in Contexts \cup {Null}
    /\ mnAccountTrie \in AccountTries \cup {Null}
    /\ mnStorageTrie \in StorageTries \cup {Null}
    /\ mnStorageSlots \in SUBSET Slots
    /\ fetch \in [Fetches -> FetchTasks]
    /\ patch \in [Patches -> {Quiet} \cup BusyPatches]

(* The account trie has, for the account shown, the root of this storage.   *)
Holds(accounts, storage) ==
    accounts.block = storage.ctx[2] =>
        /\ storage.ctx[1] \in accounts.covers
        /\ accounts.leaves[storage.ctx[1]] = StorageRoot(storage)

Unpatched(accounts) ==
    \A a \in Addresses : accounts.leaves[a] = RootAt(<<a, accounts.block>>)

Paired ==
    /\ mnStorageTrie # Null =>
          /\ mnAccountTrie # Null
          /\ mnStorageTrie.ctx = mnContext
          /\ Holds(mnAccountTrie, mnStorageTrie)
    /\ mnStorageTrie = Null /\ mnAccountTrie # Null => Unpatched(mnAccountTrie)

(* What an "ok" rests on.                                                  *)
Verified ==
    mnStatus = "ok" =>
        /\ mnContext # Null /\ mnAccountTrie # Null
        /\ mnAccountTrie.block = mnContext[2] /\ mnContext[1] \in mnAccountTrie.covers

(* A patch away from home got there on a proof with the node home lacked.   *)
Passed(task) ==
    /\ task.first # Null
    /\ Needed(task.first, task.slot) = Needed(task.home, task.slot)

Searches(task) ==
    /\ task.attempt = 0 => task.missing = Needed(task.home, task.slot) /\ task.first = Null
    /\ task.attempt # 0 => Passed(task)

Homed(task) ==
    /\ task.stage = "search" => Searches(task)
    /\ task.stage = "probe" /\ task.attempt = 0 =>
          /\ task.missing = Needed(task.home, task.slot)
          /\ task.first = task.asked /\ task.first # Null
    /\ task.stage = "probe" /\ task.attempt # 0 => Passed(task)

PInv ==
    /\ TypeOK
    /\ Paired
    /\ Verified
    /\ mnContext = Null => mnStorageTrie = Null /\ \A p \in Patches : Idle(patch[p])
    /\ \A p \in Patches : ~Idle(patch[p]) => Homed(patch[p])

-----------------------------------------------------------------------------
(* Tries                                                                    *)

LEMMA Chain ==
    ASSUME NEW ctx \in Contexts
    PROVE  /\ ctx = <<ctx[1], ctx[2]>> /\ ctx[1] \in Addresses /\ ctx[2] \in Blocks
           /\ RootAt(ctx) \in Storages
           /\ \A s \in Slots : Needed(ctx, s) \in Nodes
           /\ NodesOf(ctx) \subseteq Nodes
<1>1. ctx = <<ctx[1], ctx[2]>> /\ ctx[1] \in Addresses /\ ctx[2] \in Blocks
  BY DEF Contexts
<1>2. StorageAt[ctx] \in Storages
  BY ChainAssumption
<1>3. \A s \in Slots : Needed(ctx, s) \in Nodes
  BY <1>2 DEF Needed, Storages
<1>. QED
  BY <1>1, <1>2, <1>3 DEF RootAt, NodesOf

LEMMA Fresh ==
    ASSUME NEW ctx \in Contexts, NEW nodes \in SUBSET NodesOf(ctx)
    PROVE  /\ NewStorage(ctx, nodes) \in StorageTries /\ NewStorage(ctx, nodes) # Null
           /\ NewAccounts(ctx) \in AccountTries /\ NewAccounts(ctx) # Null
           /\ NewAccounts(ctx).block = ctx[2] /\ ctx[1] \in NewAccounts(ctx).covers
           /\ Unpatched(NewAccounts(ctx))
           /\ StorageRoot(NewStorage(ctx, nodes)) = RootAt(ctx)
           /\ NewStorage(ctx, nodes).ctx = ctx
<1>1. ctx[1] \in Addresses /\ ctx[2] \in Blocks /\ nodes \subseteq Nodes
  BY Chain
<1>2. RootAt(ctx) \in Storages /\ RootAt(ctx) = StorageAt[ctx]
  BY Chain DEF RootAt
<1>3. NewStorage(ctx, nodes) \in StorageTries
  BY <1>1, <1>2 DEF NewStorage, StorageTries, Storages
<1>4. \A a \in Addresses : RootAt(<<a, ctx[2]>>) \in Storages
  <2>. TAKE a \in Addresses
  <2>1. <<a, ctx[2]>> \in Contexts
    BY <1>1 DEF Contexts
  <2>. QED
    BY <2>1, Chain
<1>5. NewAccounts(ctx) \in AccountTries
  BY <1>1, <1>4 DEF NewAccounts, AccountTries
<1>6. NewAccounts(ctx).block = ctx[2] /\ ctx[1] \in NewAccounts(ctx).covers
  BY DEF NewAccounts
<1>7. Unpatched(NewAccounts(ctx))
  BY DEF NewAccounts, Unpatched
<1>8. /\ StorageRoot(NewStorage(ctx, nodes)) = RootAt(ctx)
      /\ NewStorage(ctx, nodes).ctx = ctx
  BY <1>2 DEF NewStorage, StorageRoot, Storages
<1>. QED
  BY <1>3, <1>5, <1>6, <1>7, <1>8, NullAssumption

LEMMA Witnessed ==
    ASSUME NEW t \in StorageTries, NEW nodes
    PROVE  LET new == AddStorage(t, nodes) IN
           /\ new \in StorageTries /\ new # Null
           /\ new.ctx = t.ctx /\ new.slots = t.slots
           /\ StorageRoot(new) = StorageRoot(t)
<1>1. NodesOf(t.ctx) \subseteq Nodes
  BY Chain DEF StorageTries
<1>2. /\ AddStorage(t, nodes) \in StorageTries
      /\ AddStorage(t, nodes).ctx = t.ctx /\ AddStorage(t, nodes).slots = t.slots
  BY <1>1 DEF AddStorage, StorageTries
<1>. QED
  BY <1>2, NullAssumption DEF StorageRoot

LEMMA Added ==
    ASSUME NEW t \in AccountTries, NEW ctx \in Contexts
    PROVE  LET new == AddAccounts(t, ctx) IN
           /\ new \in AccountTries /\ new # Null
           /\ new.block = t.block /\ new.leaves = t.leaves
           /\ t.covers \subseteq new.covers
           /\ t.block = ctx[2] => ctx[1] \in new.covers
<1>1. ctx[1] \in Addresses /\ ctx = <<ctx[1], ctx[2]>>
  BY Chain
<1>. DEFINE same == PathAt[<<ctx[1], t.block>>] = PathAt[ctx]
<1>2. t.block = ctx[2] => same
  BY <1>1
<1>. HIDE DEF same
<1>3. AddAccounts(t, ctx) = IF same THEN [t EXCEPT !.covers = @ \cup {ctx[1]}] ELSE t
  BY DEF AddAccounts, same
<1>4. CASE same
  BY <1>1, <1>3, <1>4, NullAssumption DEF AccountTries
<1>5. CASE ~same
  BY <1>2, <1>3, <1>5, NullAssumption
<1>. QED
  BY <1>4, <1>5

-----------------------------------------------------------------------------
(* Fetches                                                                  *)

(* What a fetch leaves of the tries, whether its storage proofs are good or *)
(* not.                                                                    *)
LEMMA AccountsPaired ==
    ASSUME PInv, NEW ctx \in Contexts
    PROVE  /\ AccountsAfter(ctx) \in AccountTries /\ AccountsAfter(ctx) # Null
           /\ AccountsAfter(ctx).block = ctx[2] => ctx[1] \in AccountsAfter(ctx).covers
           /\ StorageLeft(ctx) \in StorageTries \cup {Null}
           /\ SlotsLeft(ctx) \in SUBSET Slots
           /\ StorageLeft(ctx) # Null =>
                 /\ mnContext = ctx /\ StorageLeft(ctx) = mnStorageTrie
                 /\ mnStorageTrie.ctx = ctx
                 /\ Holds(AccountsAfter(ctx), mnStorageTrie)
           /\ StorageLeft(ctx) = Null => Unpatched(AccountsAfter(ctx))
<1>1. CASE Merges(ctx)
  <2>1. mnContext = ctx /\ mnAccountTrie \in AccountTries
    BY <1>1 DEF Merges, SameContext, PInv, TypeOK
  <2>2. AccountsAfter(ctx) = AddAccounts(mnAccountTrie, ctx)
    BY <1>1 DEF AccountsAfter
  <2>3. StorageLeft(ctx) = mnStorageTrie /\ SlotsLeft(ctx) = mnStorageSlots
    BY <1>1 DEF StorageLeft, SlotsLeft
  <2>4. mnStorageTrie # Null =>
            mnStorageTrie.ctx = ctx /\ Holds(AccountsAfter(ctx), mnStorageTrie)
    BY <2>1, <2>2, Added DEF PInv, Paired, Holds
  <2>5. mnStorageTrie = Null => Unpatched(AccountsAfter(ctx))
    BY <2>1, <2>2, Added, NullAssumption DEF PInv, Paired, Unpatched
  <2>. QED
    BY <2>1, <2>2, <2>3, <2>4, <2>5, Added DEF PInv, TypeOK
<1>2. CASE ~Merges(ctx)
  <2>1. AccountsAfter(ctx) = NewAccounts(ctx) /\ StorageLeft(ctx) = Null /\ SlotsLeft(ctx) = {}
    BY <1>2 DEF AccountsAfter, StorageLeft, SlotsLeft
  <2>2. {} \in SUBSET NodesOf(ctx)
    OBVIOUS
  <2>. QED
    BY <2>1, <2>2, Fresh
<1>. QED
  BY <1>1, <1>2

LEMMA StoragePaired ==
    ASSUME PInv, NEW ctx \in Contexts, NEW wanted \in SUBSET Slots,
           NEW nodes \in SUBSET NodesOf(ctx)
    PROVE  LET new == StorageAfter(ctx, wanted, nodes) IN
           /\ new \in StorageTries \cup {Null}
           /\ new # Null => new.ctx = ctx /\ Holds(AccountsAfter(ctx), new)
           /\ new = Null => Unpatched(AccountsAfter(ctx))
<1>1. CASE wanted = {}
  <2>1. StorageAfter(ctx, wanted, nodes) = StorageLeft(ctx)
    BY <1>1 DEF StorageAfter
  <2>. QED
    BY <2>1, AccountsPaired
<1>2. CASE wanted # {} /\ SameContext(ctx) /\ StorageLeft(ctx) # Null
  <2>. DEFINE new == AddStorage(StorageLeft(ctx), nodes)
  <2>1. StorageAfter(ctx, wanted, nodes) = new
    BY <1>2 DEF StorageAfter
  <2>2. StorageLeft(ctx) \in StorageTries
    BY <1>2, AccountsPaired
  <2>3. /\ new \in StorageTries /\ new # Null /\ new.ctx = StorageLeft(ctx).ctx
        /\ StorageRoot(new) = StorageRoot(StorageLeft(ctx))
    BY <2>2, Witnessed
  <2>. HIDE DEF new
  <2>4. Holds(AccountsAfter(ctx), new) /\ new.ctx = ctx
    BY <1>2, <2>3, AccountsPaired DEF Holds
  <2>. QED
    BY <2>1, <2>3, <2>4
<1>3. CASE wanted # {} /\ ~(SameContext(ctx) /\ StorageLeft(ctx) # Null)
  <2>1. StorageAfter(ctx, wanted, nodes) = NewStorage(ctx, nodes)
    BY <1>3 DEF StorageAfter
  <2>2. StorageLeft(ctx) = Null
    BY <1>3, AccountsPaired DEF SameContext
  <2>3. /\ Unpatched(AccountsAfter(ctx))
        /\ AccountsAfter(ctx).block = ctx[2] => ctx[1] \in AccountsAfter(ctx).covers
    BY <2>2, AccountsPaired
  <2>4. Holds(AccountsAfter(ctx), NewStorage(ctx, nodes))
    BY <2>3, Chain, Fresh DEF Holds, Unpatched
  <2>. QED
    BY <2>1, <2>4, Fresh
<1>. QED
  BY <1>1, <1>2, <1>3

LEMMA FetchedInv ==
    ASSUME PInv, NEW f \in Fetches, Fetched(f)
    PROVE  PInv'
<1>. DEFINE ctx == <<fetch[f].address, fetch[f].block>>
            wanted == fetch[f].slots
<1>1. ctx \in Contexts /\ wanted \in SUBSET Slots
  BY DEF PInv, TypeOK, Fetched, FetchTasks, Quiet, Contexts
<1>2. PICK nodes \in SUBSET NodesOf(ctx) : mnStorageTrie' = StorageAfter(ctx, wanted, nodes)
  BY DEF Fetched
<1>3. /\ mnAccountTrie' = AccountsAfter(ctx)
      /\ mnStorageSlots' = SlotsLeft(ctx) \cup wanted
      /\ mnContext' = ctx
      /\ mnStatus' = "ok" => AccountsAsAt(mnAccountTrie', ctx[2])
      /\ fetch' = [fetch EXCEPT ![f] = Quiet]
      /\ UNCHANGED <<head, mnPinnedLatest, patch>>
  BY DEF Fetched
<1>. HIDE DEF ctx, wanted
<1>4. TypeOK'
  BY <1>1, <1>2, <1>3, AccountsPaired, StoragePaired DEF PInv, TypeOK, FetchTasks
<1>5. Paired'
  BY <1>1, <1>2, <1>3, AccountsPaired, StoragePaired DEF Paired
<1>6. Verified'
  <2>1. ctx # Null
    BY <1>1, NullAssumption
  <2>2. mnStatus' = "ok" => mnAccountTrie'.block = ctx[2]
    BY <1>3 DEF AccountsAsAt
  <2>. QED
    BY <1>1, <1>3, <2>1, <2>2, AccountsPaired DEF Verified
<1>. QED
  BY <1>1, <1>3, <1>4, <1>5, <1>6, NullAssumption DEF PInv

LEMMA FetchBreaksInv ==
    ASSUME PInv, NEW f \in Fetches, FetchBreaks(f)
    PROVE  PInv'
<1>. DEFINE ctx == <<fetch[f].address, fetch[f].block>>
<1>1. ctx \in Contexts
  BY DEF PInv, TypeOK, FetchBreaks, FetchTasks, Quiet, Contexts
<1>2. /\ mnAccountTrie' = AccountsAfter(ctx)
      /\ mnStorageTrie' = StorageLeft(ctx)
      /\ mnStorageSlots' = SlotsLeft(ctx)
      /\ mnStatus' = "error"
      /\ fetch' = [fetch EXCEPT ![f] = Quiet]
      /\ UNCHANGED <<head, mnPinnedLatest, mnContext, patch>>
  BY DEF FetchBreaks
<1>. HIDE DEF ctx
<1>3. TypeOK'
  BY <1>1, <1>2, AccountsPaired DEF PInv, TypeOK, FetchTasks
<1>4. Paired'
  BY <1>1, <1>2, AccountsPaired DEF Paired
<1>5. mnContext = Null => StorageLeft(ctx) = Null
  BY <1>1, NullAssumption DEF StorageLeft, Merges, SameContext
<1>. QED
  BY <1>2, <1>3, <1>4, <1>5 DEF PInv, Verified

(* The other steps of a fetch touch no trie and no context.                *)
LEMMA FormInv ==
    ASSUME PInv, NEW f \in Fetches,
           Submit(f) \/ Refresh(f) \/ PinLatest(f) \/ FetchFails(f)
    PROVE  PInv'
<1>1. /\ UNCHANGED <<head, mnContext, mnStorageSlots, mnAccountTrie, mnStorageTrie, patch>>
      /\ mnStatus' = "ok" => mnStatus = "ok"
  BY DEF Submit, Refresh, PinLatest, FetchFails, page, tries
<1>2. mnPinnedLatest' \in Blocks \cup {Null} /\ fetch' \in [Fetches -> FetchTasks]
  <2>1. CASE Submit(f)
    <3>1. PICK args \in MayFetch :
            fetch' = [fetch EXCEPT ![f] =
              IF args.block = Latest /\ mnPinnedLatest = Null
              THEN [stage |-> "number", address |-> args.address, since |-> head, slots |-> args.slots]
              ELSE [stage |-> "proof", address |-> args.address, slots |-> args.slots,
                    block |-> IF args.block = Latest THEN mnPinnedLatest ELSE args.block]]
      BY <2>1 DEF Submit
    <3>2. args.address \in Addresses /\ args.slots \in SUBSET Slots /\ args.block \in Blocks \cup {Latest}
      BY FormAssumption
    <3>3. mnPinnedLatest' = mnPinnedLatest
      BY <2>1 DEF Submit, page
    <3>. QED
      BY <3>1, <3>2, <3>3 DEF PInv, TypeOK, FetchTasks
  <2>2. CASE Refresh(f)
    <3>1. PICK args \in MayFetch : fetch' = [fetch EXCEPT ![f] =
            [stage |-> "number", address |-> args.address, since |-> head, slots |-> args.slots]]
      BY <2>2 DEF Refresh
    <3>2. args.address \in Addresses /\ args.slots \in SUBSET Slots
      BY FormAssumption
    <3>. QED
      BY <2>2, <3>1, <3>2 DEF PInv, TypeOK, FetchTasks, Refresh
  <2>3. CASE PinLatest(f)
    <3>1. fetch[f] \in [stage : {"number"}, address : Addresses, since : Blocks, slots : SUBSET Slots]
      BY <2>3 DEF PInv, TypeOK, FetchTasks, PinLatest, Quiet
    <3>2. PICK number \in Blocks :
             /\ mnPinnedLatest' = number
             /\ fetch' = [fetch EXCEPT ![f] = [stage |-> "proof", address |-> fetch[f].address,
                                              block |-> number, slots |-> fetch[f].slots]]
      BY <2>3 DEF PinLatest
    <3>. QED
      BY <3>1, <3>2 DEF PInv, TypeOK, FetchTasks
  <2>4. CASE FetchFails(f)
    BY <2>4 DEF PInv, TypeOK, FetchTasks, FetchFails
  <2>. QED
    BY <2>1, <2>2, <2>3, <2>4
<1>3. TypeOK'
  BY <1>1, <1>2 DEF PInv, TypeOK
<1>4. Paired' /\ Verified'
  BY <1>1 DEF PInv, Paired, Verified
<1>. QED
  BY <1>1, <1>3, <1>4 DEF PInv

-----------------------------------------------------------------------------
(* Patches                                                                  *)

(* A patch goes into the storage trie and the account's leaf at once.       *)
LEMMA Propagates ==
    ASSUME PInv, NEW storage \in StorageTries, mnStorageTrie # Null,
           storage.ctx = mnStorageTrie.ctx
    PROVE  /\ Propagated(storage) \in AccountTries /\ Propagated(storage) # Null
           /\ Propagated(storage).block = mnAccountTrie.block
           /\ Propagated(storage).covers = mnAccountTrie.covers
           /\ Holds(Propagated(storage), storage)
<1>1. /\ mnAccountTrie \in AccountTries /\ mnAccountTrie # Null
      /\ storage.ctx = mnContext /\ Holds(mnAccountTrie, mnStorageTrie)
  BY DEF PInv, TypeOK, Paired
<1>2. mnContext \in Contexts /\ mnContext # Null /\ mnContext[1] \in Addresses
  BY <1>1, Chain, NullAssumption DEF StorageTries
<1>3. StorageRoot(storage) \in Storages
  <2>1. StorageAt[storage.ctx] \in Storages
    BY Chain DEF RootAt, StorageTries
  <2>. QED
    BY <2>1 DEF StorageRoot, Storages, StorageTries
<1>4. CASE mnContext[1] \in mnAccountTrie.covers
  <2>1. Propagated(storage) = [mnAccountTrie EXCEPT !.leaves[mnContext[1]] = StorageRoot(storage)]
    BY <1>1, <1>2, <1>4 DEF Propagated
  <2>2. /\ Propagated(storage) \in AccountTries
        /\ Propagated(storage).block = mnAccountTrie.block
        /\ Propagated(storage).covers = mnAccountTrie.covers
        /\ Propagated(storage).leaves[mnContext[1]] = StorageRoot(storage)
    BY <1>1, <1>2, <1>3, <2>1 DEF AccountTries
  <2>. QED
    BY <1>1, <1>4, <2>2, NullAssumption DEF Holds
<1>5. CASE mnContext[1] \notin mnAccountTrie.covers
  <2>1. Propagated(storage) = mnAccountTrie
    BY <1>5 DEF Propagated
  <2>. QED
    BY <1>1, <1>5, <2>1 DEF Holds
<1>. QED
  BY <1>4, <1>5

(* A search ends, or goes on, or asks for its first or another proof.       *)
LEMMA SearchesOn ==
    ASSUME mnContext \in Contexts, NEW p \in Patches, NEW task \in BusyPatches,
           Searches(task), SearchFrom(p, task)
    PROVE  \E next \in BusyPatches \cup {Quiet} :
              /\ patch' = [patch EXCEPT ![p] = next]
              /\ next # Quiet => Homed(next)
<1>. DEFINE asks == Ask(task)
            waits == [task EXCEPT !.stage = "search", !.chunk = @ + 1]
<1>0. mnContext # Null
  BY NullAssumption
<1>1. asks \in BusyPatches
  BY DEF Ask, BusyPatches
<1>2. Homed(asks)
  <2>1. /\ asks.stage = "probe" /\ asks.attempt = task.attempt /\ asks.missing = task.missing
        /\ asks.home = task.home /\ asks.slot = task.slot /\ asks.asked = mnContext
        /\ asks.first = IF task.first = Null THEN mnContext ELSE task.first
    BY DEF Ask, BusyPatches
  <2>. HIDE DEF asks, waits
  <2>2. CASE task.attempt = 0
    BY <1>0, <2>1, <2>2 DEF Homed, Searches
  <2>3. CASE task.attempt # 0
    BY <2>1, <2>3 DEF Homed, Searches, Passed
  <2>. QED
    BY <2>2, <2>3
<1>. HIDE DEF asks
<1>3. waits \in BusyPatches
  <2>1. task.chunk + 1 \in Nat
    BY DEF BusyPatches
  <2>. QED
    BY <2>1 DEF BusyPatches
<1>4. Homed(waits)
  <2>1. /\ waits.stage = "search" /\ waits.attempt = task.attempt /\ waits.missing = task.missing
        /\ waits.home = task.home /\ waits.slot = task.slot /\ waits.first = task.first
    BY DEF BusyPatches
  <2>. HIDE DEF asks, waits
  <2>. QED
    BY <2>1 DEF Homed, Searches, Passed
<1>5. \/ patch' = [patch EXCEPT ![p] = asks]
      \/ patch' = [patch EXCEPT ![p] = Quiet]
      \/ patch' = [patch EXCEPT ![p] = waits]
  BY DEF SearchFrom, asks
<1>. HIDE DEF waits
<1>. QED
  BY <1>1, <1>2, <1>3, <1>4, <1>5

LEMMA AttemptInv ==
    ASSUME PInv, NEW p \in Patches, NEW task \in BusyPatches, NEW storage \in StorageTries,
           mnStorageTrie # Null, storage.ctx = mnStorageTrie.ctx, storage.slots = mnStorageTrie.slots,
           task.attempt = 0 => task.home = storage.ctx /\ task.first = Null,
           task.attempt # 0 => Passed(task),
           Attempt(p, task, storage), UNCHANGED <<head, page, fetch>>
    PROVE  PInv'
<1>1. UNCHANGED <<head, mnPinnedLatest, mnContext, mnStorageSlots, mnStatus, fetch>>
  BY DEF page
<1>2. storage.ctx \in Contexts /\ storage # Null /\ mnContext = storage.ctx /\ mnContext # Null
  BY NullAssumption DEF StorageTries, PInv, Paired
<1>. DEFINE node == Needed(storage.ctx, task.slot)
<1>3. CASE node \in storage.known
  <2>1. /\ mnStorageTrie' = [storage EXCEPT !.slots[task.slot] = task.value]
        /\ mnAccountTrie' = Propagated(mnStorageTrie')
        /\ patch' = [patch EXCEPT ![p] = Quiet]
    BY <1>3 DEF Attempt
  <2>2. mnStorageTrie' \in StorageTries /\ mnStorageTrie'.ctx = storage.ctx
    BY <2>1 DEF StorageTries, BusyPatches
  <2>3. /\ mnAccountTrie' \in AccountTries /\ mnAccountTrie' # Null
        /\ mnAccountTrie'.block = mnAccountTrie.block /\ mnAccountTrie'.covers = mnAccountTrie.covers
        /\ Holds(mnAccountTrie', mnStorageTrie')
    BY <2>1, <2>2, Propagates
  <2>4. TypeOK'
    BY <1>1, <2>1, <2>2, <2>3 DEF PInv, TypeOK
  <2>5. Paired'
    BY <1>1, <2>2, <2>3, NullAssumption DEF PInv, Paired
  <2>6. Verified'
    BY <1>1, <2>3 DEF PInv, Verified
  <2>7. \A q \in Patches : ~Idle(patch'[q]) => Homed(patch'[q])
    BY <2>1 DEF PInv, TypeOK, Idle, Quiet
  <2>. QED
    BY <1>1, <1>2, <2>4, <2>5, <2>6, <2>7 DEF PInv, Idle
<1>4. CASE node \notin storage.known
  <2>. DEFINE again == [task EXCEPT !.chunk = 0, !.missing = node]
  <2>1. /\ mnStorageTrie' = storage /\ mnAccountTrie' = mnAccountTrie
        /\ patch' = [patch EXCEPT ![p] = Quiet] \/ SearchFrom(p, again)
    BY <1>4 DEF Attempt
  <2>2. again \in BusyPatches /\ Searches(again)
    <3>1. node \in Nodes
      BY <1>2, Chain DEF BusyPatches
    <3>2. /\ again \in BusyPatches /\ again.attempt = task.attempt /\ again.missing = node
          /\ again.home = task.home /\ again.slot = task.slot /\ again.first = task.first
      BY <3>1 DEF BusyPatches
    <3>. HIDE DEF again
    <3>. QED
      BY <3>2 DEF Searches, Passed
  <2>. HIDE DEF again, node
  <2>3. PICK next \in BusyPatches \cup {Quiet} :
           /\ patch' = [patch EXCEPT ![p] = next]
           /\ next # Quiet => Homed(next)
    BY <1>2, <2>1, <2>2, SearchesOn
  <2>4. TypeOK'
    BY <1>1, <2>1, <2>3 DEF PInv, TypeOK
  <2>5. Paired'
    BY <1>1, <1>2, <2>1 DEF PInv, Paired, Holds, StorageRoot
  <2>6. Verified'
    BY <1>1, <2>1 DEF PInv, Verified
  <2>7. \A q \in Patches : ~Idle(patch'[q]) => Homed(patch'[q])
    BY <2>3 DEF PInv, TypeOK, Idle, Quiet
  <2>. QED
    BY <1>1, <1>2, <2>4, <2>5, <2>6, <2>7 DEF PInv, Idle
<1>. QED
  BY <1>3, <1>4

LEMMA RunPatchInv ==
    ASSUME PInv, NEW p \in Patches, RunPatch(p)
    PROVE  PInv'
<1>1. PICK s \in mnStorageSlots, v \in Values :
          Attempt(p, [stage |-> "search", slot |-> s, value |-> v, attempt |-> 0, chunk |-> 0,
                      missing |-> Needed(mnStorageTrie.ctx, s), asked |-> Null, first |-> Null,
                      home |-> mnStorageTrie.ctx], mnStorageTrie)
  BY DEF RunPatch
<1>2. mnStorageTrie \in StorageTries /\ mnStorageTrie # Null /\ s \in Slots
  BY DEF RunPatch, PInv, TypeOK
<1>. DEFINE node == Needed(mnStorageTrie.ctx, s)
            task == [stage |-> "search", slot |-> s, value |-> v, attempt |-> 0, chunk |-> 0,
                     missing |-> node, asked |-> Null, first |-> Null,
                     home |-> mnStorageTrie.ctx]
<1>3. node \in Nodes /\ mnStorageTrie.ctx \in Contexts
  BY <1>2, Chain DEF StorageTries
<1>4. Attempt(p, task, mnStorageTrie)
  BY <1>1
<1>. HIDE DEF node
<1>5. task \in BusyPatches
  BY <1>2, <1>3 DEF BusyPatches
<1>6. task.attempt = 0 /\ task.home = mnStorageTrie.ctx /\ task.first = Null
  OBVIOUS
<1>. HIDE DEF task
<1>. QED
  BY <1>2, <1>4, <1>5, <1>6, AttemptInv DEF RunPatch

LEMMA GivesUp ==
    ASSUME PInv, NEW p \in Patches, GiveUp(p), UNCHANGED <<head, page, fetch>>
    PROVE  PInv' /\ UNCHANGED mnStorageTrie
<1>1. /\ patch' = [patch EXCEPT ![p] = Quiet]
      /\ UNCHANGED <<mnAccountTrie, mnStorageTrie, head, mnPinnedLatest, mnContext,
                     mnStorageSlots, mnStatus, fetch>>
  BY DEF GiveUp, page, tries
<1>2. TypeOK' /\ Paired' /\ Verified'
  BY <1>1 DEF PInv, TypeOK, Paired, Verified
<1>3. \A q \in Patches : ~Idle(patch'[q]) => Homed(patch'[q])
  BY <1>1 DEF PInv, TypeOK, Idle, Quiet
<1>4. \A q \in Patches : Idle(patch[q]) => Idle(patch'[q])
  BY <1>1 DEF PInv, TypeOK, Idle, Quiet
<1>. QED
  BY <1>1, <1>2, <1>3, <1>4 DEF PInv, Idle

(* The proof has the node that the trie lacked, or the patch is over; on    *)
(* the first attempt that trie was home.                                   *)
LEMMA ProbeProvedInv ==
    ASSUME PInv, NEW p \in Patches, ProbeProved(p)
    PROVE  PInv' /\ (mnStorageTrie' = mnStorageTrie \/ Passed(patch[p]))
<1>. DEFINE task == patch[p]
            next == [task EXCEPT !.attempt = @ + 1]
<1>1. task \in BusyPatches /\ task.stage = "probe" /\ Homed(task)
  BY DEF PInv, TypeOK, ProbeProved, Quiet, Idle
<1>2. CASE Carries(task) /\ mnStorageTrie # Null
  <2>. PICK nodes : Attempt(p, next, AddStorage(mnStorageTrie, nodes))
    BY <1>2 DEF ProbeProved
  <2>. DEFINE storage == AddStorage(mnStorageTrie, nodes)
  <2>1. Attempt(p, next, storage) /\ UNCHANGED <<head, page, fetch>>
    BY DEF ProbeProved
  <2>2. Passed(task)
    BY <1>1, <1>2 DEF Homed, Passed, Carries
  <2>3. next \in BusyPatches /\ next.attempt # 0 /\ Passed(next)
    <3>1. /\ next \in BusyPatches /\ next.attempt # 0
          /\ next.first = task.first /\ next.home = task.home /\ next.slot = task.slot
      BY <1>1 DEF BusyPatches
    <3>. HIDE DEF next
    <3>. QED
      BY <2>2, <3>1 DEF Passed
  <2>4. mnStorageTrie \in StorageTries
    BY <1>2 DEF PInv, TypeOK
  <2>5. storage \in StorageTries /\ storage.ctx = mnStorageTrie.ctx /\ storage.slots = mnStorageTrie.slots
    BY <2>4, Witnessed
  <2>. HIDE DEF next, storage
  <2>6. PInv'
    BY <1>2, <2>1, <2>3, <2>5, AttemptInv
  <2>. QED
    BY <2>2, <2>6
<1>3. CASE ~(Carries(task) /\ mnStorageTrie # Null)
  <2>1. GiveUp(p) /\ UNCHANGED <<head, page, fetch>>
    BY <1>3 DEF ProbeProved
  <2>. QED
    BY <2>1, GivesUp
<1>. QED
  BY <1>2, <1>3

LEMMA SearchingInv ==
    ASSUME PInv, NEW p \in Patches, Search(p)
    PROVE  PInv' /\ UNCHANGED mnStorageTrie
<1>1. /\ UNCHANGED <<mnAccountTrie, mnStorageTrie, head, mnPinnedLatest, mnContext,
                     mnStorageSlots, mnStatus, fetch>>
      /\ patch[p].stage = "search" /\ SearchFrom(p, patch[p])
  BY DEF Search, page, tries
<1>2. patch[p] \in BusyPatches /\ Searches(patch[p]) /\ mnContext \in Contexts
  BY <1>1 DEF PInv, TypeOK, Quiet, Idle, Homed
<1>3. PICK next \in BusyPatches \cup {Quiet} :
         /\ patch' = [patch EXCEPT ![p] = next]
         /\ next # Quiet => Homed(next)
  BY <1>1, <1>2, SearchesOn
<1>4. TypeOK' /\ Paired' /\ Verified'
  BY <1>1, <1>3 DEF PInv, TypeOK, Paired, Verified
<1>5. \A q \in Patches : ~Idle(patch'[q]) => Homed(patch'[q])
  BY <1>3 DEF PInv, TypeOK, Idle, Quiet
<1>6. mnContext' # Null
  BY <1>1, <1>2, NullAssumption
<1>. QED
  BY <1>1, <1>4, <1>5, <1>6 DEF PInv, Idle

-----------------------------------------------------------------------------
(* The page                                                                 *)

LEMMA InitInv ==
    ASSUME Init
    PROVE  PInv
<1>1. TypeOK
  BY DEF Init, TypeOK, FetchTasks
<1>2. Paired /\ Verified
  BY DEF Init, Paired, Verified
<1>3. \A p \in Patches : Idle(patch[p])
  BY DEF Init, Idle, Quiet
<1>. QED
  BY <1>1, <1>2, <1>3 DEF PInv, Init

LEMMA StepInv ==
    ASSUME PInv, [Next]_vars
    PROVE  PInv'
<1>1. CASE NewBlock
  <2>1. head' \in Blocks
    BY <1>1, BoundsAssumption DEF NewBlock, PInv, TypeOK
  <2>2. UNCHANGED <<mnAccountTrie, mnStorageTrie, mnPinnedLatest, mnContext,
                    mnStorageSlots, mnStatus, fetch, patch>>
    BY <1>1 DEF NewBlock, page, tries
  <2>. QED
    BY <2>1, <2>2 DEF PInv, TypeOK, Paired, Verified
<1>2. ASSUME NEW f \in Fetches,
             \/ Submit(f) \/ Refresh(f) \/ PinLatest(f)
             \/ Fetched(f) \/ FetchFails(f) \/ FetchBreaks(f)
      PROVE  PInv'
  BY <1>2, FetchedInv, FetchBreaksInv, FormInv
<1>3. ASSUME NEW p \in Patches, RunPatch(p) \/ Patching(p) PROVE PInv'
  BY <1>3, RunPatchInv, SearchingInv, ProbeProvedInv, GivesUp DEF Patching, ProbeFails
<1>4. CASE UNCHANGED vars
  BY <1>4 DEF vars, page, tries, PInv, TypeOK, Paired, Verified
<1>. QED
  BY <1>1, <1>2, <1>3, <1>4 DEF Next

LEMMA SpecInv == Spec => []PInv
<1>1. Init => PInv
  BY InitInv
<1>2. PInv /\ [Next]_vars => PInv'
  BY StepInv
<1>. QED
  BY <1>1, <1>2, PTL DEF Spec

(* Through responses in any order, fetches that fail halfway and patches in *)
(* between: when the last fetch verified both roots, the account trie, the  *)
(* storage trie and the context belong together.                           *)
THEOREM OkAlwaysCoherent == Spec => []OkMeansCoherent
<1>1. PInv => OkMeansCoherent
  BY DEF PInv, Paired, Verified, OkMeansCoherent, Coherent
<1>. QED
  BY <1>1, SpecInv, PTL

(* And then the account's leaf holds the root of the storage trie that is   *)
(* shown beside it.                                                        *)
THEOREM LeafAlwaysFollows == Spec => []LeafFollowsStorage
<1>1. PInv => LeafFollowsStorage
  BY DEF PInv, Paired, Verified, Holds, LeafFollowsStorage
<1>. QED
  BY <1>1, SpecInv, PTL

LEMMA OnlyOne ==
    ASSUME PInv, NEW q \in Patches, NEW p \in Patches, p # q, RunPatch(q) \/ Patching(q)
    PROVE  patch'[p] = patch[p]
<1>. DEFINE Moves == \E next : patch' = [patch EXCEPT ![q] = next]
<1>1. ASSUME NEW task, SearchFrom(q, task)
      PROVE  Moves
  BY <1>1, Zenon DEF SearchFrom
<1>2. GiveUp(q) => Moves
  BY DEF GiveUp
<1>. HIDE DEF Moves
<1>3. ASSUME NEW task, NEW storage, Attempt(q, task, storage)
      PROVE  Moves
  <2>1. \/ patch' = [patch EXCEPT ![q] = Quiet]
        \/ \E again : SearchFrom(q, again)
    BY <1>3, Zenon DEF Attempt
  <2>. QED
    BY <1>1, <2>1 DEF Moves
<1>4. RunPatch(q) \/ Search(q) \/ ProbeProved(q) \/ ProbeFails(q) => Moves
  <2>1. RunPatch(q) => Moves
    BY <1>3 DEF RunPatch
  <2>2. Search(q) => Moves
    BY <1>1 DEF Search
  <2>3. ProbeProved(q) => Moves
    BY <1>2, <1>3 DEF ProbeProved
  <2>4. ProbeFails(q) => Moves
    BY <1>2 DEF ProbeFails
  <2>. QED
    BY <2>1, <2>2, <2>3, <2>4
<1>5. PICK next : patch' = [patch EXCEPT ![q] = next]
  BY <1>4 DEF Patching, Moves
<1>. QED
  BY <1>5 DEF PInv, TypeOK

(* A patch is applied to another trie than it was meant for only if the     *)
(* proof that it first asked for had the node that its own trie lacked,     *)
(* whatever it finds on later attempts: one that a fetch overtook before it *)
(* asked goes no further, unless the two storages share that very node.     *)
THEOREM StraysAlwaysOnSharedNode == Spec => StraysOnSharedNode
<1>1. ASSUME PInv, [Next]_vars, NEW p \in Patches,
             patch[p].stage = "probe", Idle(patch'[p]),
             mnStorageTrie' # Null, mnStorageTrie # Null,
             mnStorageTrie'.slots # mnStorageTrie.slots,
             mnStorageTrie'.ctx # patch[p].home
      PROVE  Passed(patch[p])
  <2>1. patch'[p] # patch[p]
    BY <1>1 DEF Idle
  <2>2. PICK q \in Patches : RunPatch(q) \/ Patching(q)
    BY <1>1, <2>1 DEF Next, NewBlock, Submit, Refresh, PinLatest, Fetched, FetchFails, FetchBreaks, vars
  <2>3. CASE RunPatch(q)
    <3>1. q # p
      BY <1>1, <2>3 DEF RunPatch, Idle
    <3>. QED
      BY <1>1, <2>1, <2>3, <3>1, OnlyOne
  <2>4. CASE Search(q) \/ ProbeFails(q)
    BY <1>1, <2>4, SearchingInv DEF ProbeFails, GiveUp, tries
  <2>5. CASE ProbeProved(q)
    <3>1. q = p
      BY <1>1, <2>1, <2>5, OnlyOne DEF Patching
    <3>. QED
      BY <1>1, <2>5, <3>1, ProbeProvedInv
  <2>. QED
    BY <2>2, <2>3, <2>4, <2>5 DEF Patching
<1>2. PInv /\ [Next]_vars =>
         [\A p \in Patches :
             /\ patch[p].stage = "probe" /\ Idle(patch'[p])
             /\ mnStorageTrie' # Null /\ mnStorageTrie # Null
             /\ mnStorageTrie'.slots # mnStorageTrie.slots
             /\ mnStorageTrie'.ctx # patch[p].home
             => /\ patch[p].first # Null
                /\ Needed(patch[p].first, patch[p].slot) = Needed(patch[p].home, patch[p].slot)]_vars
  BY <1>1 DEF Passed
<1>. QED
  BY <1>2, SpecInv, PTL DEF Spec, StraysOnSharedNode

=============================================================================
