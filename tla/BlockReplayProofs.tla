------------------------- MODULE BlockReplayProofs --------------------------
(***************************************************************************)
(* What the verdict of a block replay says, for every block: any number of *)
(* transactions, any accounts, slots and effects, and whatever state the   *)
(* node reads from.                                                        *)
(*                                                                         *)
(* The invariant has two halves.  Executed ties what yevm's cache holds to *)
(* the parent's state through the events that were not reverted, which is  *)
(* all that the diff is taken from.  Staged says how far the tries are.    *)
(***************************************************************************)
EXTENDS BlockReplay, TLAPS

(* A touched account has a final state.  What no store names of it is the   *)
(* parent's, and it is empty only if it is new and was merely touched.     *)
KeptRight(a) ==
    /\ cache[a] # Nothing
    /\ \A s \in Slots \ touched_slots[a] :
          cache[a].storage_root[s] = StorageOf(parent[a])[s]
    /\ cache[a].info = EmptyInfo => parent[a] = Nothing /\ cache[a] = EmptyAccount

Executed ==
    /\ parent \in Tries /\ Settled(parent) = parent
    /\ cache \in Tries
    /\ all_events \in Seq(Event)
    /\ \A a \in Addrs :
          /\ a \notin touched_accounts \cup destroyed => cache[a] = parent[a]
          /\ a \in Kept => KeptRight(a)

Bare == [a \in Written |-> StorageOf(witness[a])]

Filled ==
    [a \in Written |->
        IF a \in destroyed THEN StorageOf(witness[a])
        ELSE [s \in Slots |-> IF s \in touched_slots[a] THEN cache[a].storage_root[s]
                              ELSE StorageOf(witness[a])[s]]]

(* The trie that is compared.                                              *)
Final ==
    [a \in Addrs |-> IF a \in Kept /\ ~NeverCreated(a) THEN FinalLeaf(a)
                     ELSE Remove(parent, destroyed)[a]]

Staged ==
    /\ pc \in {"removals", "slots", "leaves", "compare"} => witness \in StatesAt
    /\ pc = "removals" => trie = parent
    /\ pc \in {"removals", "slots"} => storage_tries = Bare
    /\ pc \in {"slots", "leaves"} => trie = Remove(parent, destroyed)
    /\ pc \in {"leaves", "compare"} => storage_tries = Filled
    /\ pc = "compare" => trie = Final

Verdicts == {"none", "error", "no final state", "MATCH", "MISMATCH"}

RInv ==
    /\ port \in Ports
    /\ pc \in {"pre_block", "txs", "bootstrap", "removals", "slots", "leaves", "compare", "done"}
    /\ verdict \in Verdicts
    /\ verdict # "none" => pc = "done"
    /\ Executed
    /\ post \in Tries /\ Settled(post) = post
    /\ Staged
    /\ MismatchExplained
    /\ MatchMeansAgreement
    /\ FinalStateKnown

-----------------------------------------------------------------------------
(* The execution                                                            *)

LEMMA LeafParts ==
    ASSUME NEW state \in Tries, NEW a \in Addrs, state[a] # Nothing
    PROVE  /\ state[a] = [info |-> state[a].info, storage_root |-> state[a].storage_root]
           /\ state[a].info \in Infos \cup {EmptyInfo}
           /\ state[a].storage_root \in Storage
           /\ state[a].storage_root = [s \in Slots |-> state[a].storage_root[s]]
  BY DEF Tries, Leaf, Storage

LEMMA EmptyLeaf ==
    /\ empty_root \in Storage
    /\ EmptyAccount \in Leaf /\ EmptyAccount # Nothing
    /\ EmptyAccount.info = EmptyInfo /\ EmptyAccount.storage_root = empty_root
<1>1. empty_root \in Storage
  BY DEF empty_root, Storage
<1>2. EmptyAccount \in Leaf
  BY <1>1 DEF EmptyAccount, Leaf
<1>. QED
  BY <1>1, <1>2, LeafAssumption DEF EmptyAccount

LEMMA SettledIsTrie ==
    ASSUME NEW state \in Tries
    PROVE  Settled(state) \in Tries /\ Settled(Settled(state)) = Settled(state)
  BY DEF Settled, Lives, Tries

(* An effect is on one account.                                            *)
LEMMA EffectAt ==
    ASSUME NEW state \in Tries, NEW e \in Event, Possible(e, state), ~e.reverted
    PROVE  LET a == e.acc
               new == Effect(e, state)
           IN /\ a \in Addrs
              /\ new \in Tries
              /\ \A b \in Addrs \ {a} : new[b] = state[b]
              /\ e.kind = "put" =>
                    /\ new[a] # Nothing
                    /\ new[a].info = e.info /\ e.info \in Infos
                    /\ new[a].storage_root = StorageOf(state[a])
              /\ e.kind = "store" =>
                    /\ e.key \in Slots
                    /\ state[a] # Nothing /\ state[a].info # EmptyInfo
                    /\ new[a] # Nothing /\ new[a].info = state[a].info
                    /\ \A s \in Slots \ {e.key} :
                          new[a].storage_root[s] = state[a].storage_root[s]
              /\ e.kind = "delete" => new[a] = Nothing
              /\ e.kind = "touch" => new[a] = Account(state, a)
              /\ e.kind \in {"put", "store", "delete", "touch"}
<1>. DEFINE a == e.acc
            new == Effect(e, state)
            leaf == new[a]
<1>1. a \in Addrs /\ e.kind \in {"put", "store", "delete", "touch"}
  BY DEF Event
<1>2. Account(state, a) \in Leaf /\ Account(state, a).storage_root = StorageOf(state[a])
  BY <1>1, EmptyLeaf DEF Account, Tries, StorageOf
<1>3. \A b \in Addrs \ {a} : new[b] = state[b]
  BY DEF Effect, Tries
<1>4. CASE e.kind = "put"
  <2>1. leaf = [Account(state, a) EXCEPT !.info = e.info]
    BY <1>1, <1>4 DEF Effect, Tries
  <2>2. e.info \in Infos
    BY <1>4 DEF Event
  <2>3. leaf \in Leaf /\ leaf.info = e.info /\ leaf.storage_root = StorageOf(state[a])
    BY <1>2, <2>1, <2>2 DEF Leaf
  <2>4. leaf # Nothing
    BY <2>3, LeafAssumption
  <2>5. new \in Tries
    BY <1>1, <2>3 DEF Effect, Tries
  <2>. QED
    BY <1>1, <1>3, <1>4, <2>2, <2>3, <2>4, <2>5
<1>5. CASE e.kind = "store"
  <2>1. leaf = [state[a] EXCEPT !.storage_root[e.key] = e.value]
    BY <1>1, <1>5 DEF Effect, Tries
  <2>2. e.key \in Slots /\ e.value \in Values \cup {Zero}
    BY <1>5 DEF Event
  <2>3. state[a] # Nothing /\ state[a].info # EmptyInfo /\ state[a] \in Leaf
    BY <1>1, <1>5 DEF Possible, Lives, Tries
  <2>4. leaf \in Leaf /\ leaf.info = state[a].info
    BY <2>1, <2>2, <2>3 DEF Leaf, Storage
  <2>5. \A s \in Slots \ {e.key} : leaf.storage_root[s] = state[a].storage_root[s]
    BY <2>1, <2>2, <2>3 DEF Leaf, Storage
  <2>6. leaf # Nothing
    BY <2>4, LeafAssumption
  <2>7. new \in Tries
    BY <1>1, <2>4 DEF Effect, Tries
  <2>. QED
    BY <1>1, <1>3, <1>5, <2>2, <2>3, <2>4, <2>5, <2>6, <2>7
<1>6. CASE e.kind = "delete"
  <2>1. leaf = Nothing /\ new \in Tries
    BY <1>1, <1>6 DEF Effect, Tries
  <2>. QED
    BY <1>1, <1>3, <1>6, <2>1
<1>7. CASE e.kind = "touch"
  <2>1. leaf = Account(state, a)
    BY <1>1, <1>7 DEF Effect, Tries
  <2>2. new \in Tries
    BY <1>1, <1>2, <2>1 DEF Effect, Tries
  <2>. QED
    BY <1>1, <1>3, <1>7, <2>1, <2>2
<1>. QED
  BY <1>1, <1>4, <1>5, <1>6, <1>7

(* What a collected event adds to the diff.                                *)
LEMMA Collected ==
    ASSUME all_events \in Seq(Event), NEW e \in Event, all_events' = all_events \o <<e>>
    PROVE  /\ all_events' \in Seq(Event)
           /\ Effective' = IF e.reverted THEN Effective ELSE Effective \cup {e}
<1>1. /\ all_events' \in Seq(Event)
      /\ Len(all_events') = Len(all_events) + 1 /\ Len(all_events) \in Nat
      /\ DOMAIN all_events = 1..Len(all_events) /\ DOMAIN all_events' = 1..Len(all_events')
      /\ all_events'[Len(all_events')] = e
      /\ \A i \in DOMAIN all_events : all_events'[i] = all_events[i]
  OBVIOUS
<1>2. DOMAIN all_events' = DOMAIN all_events \cup {Len(all_events')}
  BY <1>1
<1>. QED
  BY <1>1, <1>2 DEF Effective

LEMMA Diffed ==
    ASSUME all_events \in Seq(Event), NEW e \in Event, all_events' = all_events \o <<e>>
    PROVE  /\ e.reverted => /\ touched_accounts' = touched_accounts
                            /\ destroyed' = destroyed /\ touched_slots' = touched_slots
           /\ ~e.reverted =>
                 /\ touched_accounts' = touched_accounts
                       \cup (IF e.kind = "delete" THEN {} ELSE {e.acc})
                 /\ destroyed' = destroyed \cup (IF e.kind = "delete" THEN {e.acc} ELSE {})
                 /\ \A a \in Addrs :
                       touched_slots'[a] = touched_slots[a]
                          \cup (IF e.kind = "store" /\ e.acc = a THEN {e.key} ELSE {})
<1>1. CASE e.reverted
  BY <1>1, Collected DEF touched_accounts, destroyed, touched_slots
<1>2. CASE ~e.reverted
  <2>1. Effective' = Effective \cup {e}
    BY <1>2, Collected
  <2>2. /\ touched_accounts' = touched_accounts
                       \cup (IF e.kind = "delete" THEN {} ELSE {e.acc})
        /\ destroyed' = destroyed \cup (IF e.kind = "delete" THEN {e.acc} ELSE {})
    BY <2>1 DEF touched_accounts, destroyed
  <2>3. ASSUME NEW a \in Addrs
        PROVE  touched_slots'[a] = touched_slots[a]
                  \cup (IF e.kind = "store" /\ e.acc = a THEN {e.key} ELSE {})
    BY <2>1 DEF touched_slots
  <2>. QED
    BY <1>2, <2>2, <2>3
<1>. QED
  BY <1>1, <1>2

LEMMA Unmoved ==
    ASSUME all_events' = all_events
    PROVE  /\ touched_accounts' = touched_accounts /\ destroyed' = destroyed
           /\ touched_slots' = touched_slots /\ Kept' = Kept /\ Written' = Written
<1>1. Effective' = Effective
  BY DEF Effective
<1>2. /\ touched_accounts' = touched_accounts /\ destroyed' = destroyed
      /\ touched_slots' = touched_slots
  BY <1>1 DEF touched_accounts, destroyed, touched_slots
<1>. QED
  BY <1>2 DEF Kept, Written

LEMMA Named ==
    ASSUME all_events \in Seq(Event)
    PROVE  Written \subseteq touched_accounts /\ touched_accounts \cup destroyed \subseteq Addrs
<1>1. Effective \subseteq Event
  BY DEF Effective
<1>. QED
  BY <1>1 DEF Written, touched_slots, touched_accounts, destroyed, Event

(* A phase keeps the cache and the diff in step.                           *)
LEMMA PhaseKeeps ==
    ASSUME Executed, NEW allowed \in SUBSET Event, Phase(allowed), parent' = parent
    PROVE  Executed'
<1>1. CASE events' = <<>> /\ UNCHANGED <<cache, all_events>>
  BY <1>1, Unmoved DEF Executed, KeptRight
<1>2. CASE \E e \in {x \in allowed : Possible(x, cache)} :
              /\ events' = <<e>>
              /\ cache' = Effect(e, cache)
              /\ all_events' = all_events \o events'
  <2>1. PICK e \in Event : /\ Possible(e, cache) /\ cache' = Effect(e, cache)
                           /\ all_events' = all_events \o <<e>>
    BY <1>2
  <2>2. all_events \in Seq(Event) /\ all_events' \in Seq(Event) /\ cache \in Tries /\ parent \in Tries
    BY <2>1, Collected DEF Executed
  <2>3. CASE e.reverted
    <3>1. cache' = cache
      BY <2>1, <2>3 DEF Effect
    <3>2. touched_accounts' = touched_accounts /\ destroyed' = destroyed /\ touched_slots' = touched_slots
      BY <2>1, <2>2, <2>3, Diffed
    <3>. QED
      BY <2>2, <3>1, <3>2 DEF Executed, KeptRight, Kept
  <2>4. CASE ~e.reverted
    <3>. DEFINE a == e.acc
    <3>1. /\ touched_accounts' = touched_accounts \cup (IF e.kind = "delete" THEN {} ELSE {a})
          /\ destroyed' = destroyed \cup (IF e.kind = "delete" THEN {a} ELSE {})
          /\ \A b \in Addrs :
                touched_slots'[b] = touched_slots[b]
                   \cup (IF e.kind = "store" /\ a = b THEN {e.key} ELSE {})
      BY <2>1, <2>2, <2>4, Diffed
    <3>2. a \in Addrs /\ cache' \in Tries /\ \A b \in Addrs \ {a} : cache'[b] = cache[b]
      BY <2>1, <2>2, <2>4, EffectAt
    <3>3. ASSUME NEW b \in Addrs \ {a}
          PROVE  /\ b \notin touched_accounts' \cup destroyed' => cache'[b] = parent'[b]
                 /\ b \in Kept' => KeptRight(b)'
      BY <3>1, <3>2, <3>3 DEF Executed, KeptRight, Kept
    <3>4. a \in touched_accounts' \cup destroyed'
      BY <3>1
    <3>5. ASSUME a \in Kept' PROVE KeptRight(a)'
      <4>1. a \notin destroyed /\ e.kind # "delete"
        BY <3>1, <3>5 DEF Kept
      <4>2. \/ a \in Kept /\ KeptRight(a)
            \/ a \notin touched_accounts /\ cache[a] = parent[a]
        BY <3>2, <4>1 DEF Executed, Kept
      <4>3. /\ cache[a] = Nothing => parent[a] = Nothing
            /\ cache[a] # Nothing /\ cache[a].info = EmptyInfo =>
                  parent[a] = Nothing /\ cache[a] = EmptyAccount
        BY <2>2, <3>2, <4>2 DEF Executed, KeptRight, Settled, Lives
      <4>4. \A s \in Slots \ touched_slots[a] : StorageOf(cache[a])[s] = StorageOf(parent[a])[s]
        BY <4>2 DEF KeptRight, StorageOf
      <4>5. CASE e.kind = "put"
        <5>1. /\ cache'[a] # Nothing /\ cache'[a].info # EmptyInfo
              /\ cache'[a].storage_root = StorageOf(cache[a])
          BY <2>1, <2>2, <2>4, <4>5, EffectAt, DistinctAssumption
        <5>. QED
          BY <3>1, <3>2, <4>4, <5>1 DEF KeptRight
      <4>6. CASE e.kind = "store"
        <5>1. /\ cache'[a] # Nothing /\ cache'[a].info # EmptyInfo /\ cache[a] # Nothing
              /\ \A s \in Slots \ {e.key} : cache'[a].storage_root[s] = cache[a].storage_root[s]
          BY <2>1, <2>2, <2>4, <4>6, EffectAt
        <5>. QED
          BY <3>1, <3>2, <4>4, <4>6, <5>1 DEF KeptRight, StorageOf
      <4>7. CASE e.kind = "touch"
        <5>1. cache'[a] = Account(cache, a)
          BY <2>1, <2>2, <2>4, <4>7, EffectAt
        <5>2. cache'[a] # Nothing /\ cache'[a].storage_root = StorageOf(cache[a])
          BY <5>1, EmptyLeaf DEF Account, StorageOf
        <5>3. cache'[a].info = EmptyInfo => parent[a] = Nothing /\ cache'[a] = EmptyAccount
          BY <4>3, <5>1 DEF Account
        <5>. QED
          BY <3>1, <3>2, <4>4, <5>2, <5>3 DEF KeptRight
      <4>. QED
        BY <2>1, <2>2, <2>4, <4>1, <4>5, <4>6, <4>7, EffectAt
    <3>. QED
      BY <2>2, <3>2, <3>3, <3>4, <3>5 DEF Executed
  <2>. QED
    BY <2>3, <2>4
<1>. QED
  BY <1>1, <1>2 DEF Phase

-----------------------------------------------------------------------------
(* The trie that is compared                                                *)

Compared ==
    /\ port \in Ports /\ Executed /\ post \in Tries /\ Settled(post) = post
    /\ witness \in StatesAt /\ storage_tries = Filled

(* The storage under a leaf that is written is the account's, if the       *)
(* witness is the parent's.                                                *)
LEMMA StorageFollows ==
    ASSUME Compared, witness = parent, NEW a \in Kept
    PROVE  FinalLeaf(a) = cache[a]
<1>1. a \in Addrs /\ KeptRight(a)
  BY Named DEF Compared, Executed, Kept
<1>2. StorageOf(parent[a]) \in Storage
  BY <1>1, LeafParts, EmptyLeaf DEF Compared, Executed, StorageOf
<1>3. StorageOf(parent[a]) = [s \in Slots |-> StorageOf(parent[a])[s]]
  BY <1>2 DEF Storage
<1>4. cache[a].storage_root = [s \in Slots |-> cache[a].storage_root[s]]
  BY <1>1, LeafParts DEF Compared, Executed, KeptRight
<1>5. cache[a] = [info |-> cache[a].info, storage_root |-> cache[a].storage_root]
  BY <1>1, LeafParts DEF Compared, Executed, KeptRight
<1>6. CASE a \in Written
  <2>1. StorageRoot(a) = [s \in Slots |-> IF s \in touched_slots[a] THEN cache[a].storage_root[s]
                                         ELSE StorageOf(parent[a])[s]]
    BY <1>6 DEF StorageRoot, Compared, Filled, Kept
  <2>2. StorageRoot(a) = cache[a].storage_root
    BY <1>1, <1>4, <2>1 DEF KeptRight
  <2>. QED
    BY <1>5, <2>2 DEF FinalLeaf
<1>7. CASE a \notin Written
  <2>1. StorageRoot(a) = StorageOf(parent[a]) /\ touched_slots[a] = {}
    BY <1>1, <1>7 DEF StorageRoot, OldRoot, Written
  <2>2. StorageRoot(a) = cache[a].storage_root
    BY <1>1, <1>3, <1>4, <2>1 DEF KeptRight
  <2>. QED
    BY <1>5, <2>2 DEF FinalLeaf
<1>. QED
  BY <1>6, <1>7

(* Where yevm is right, what is compared is the state at the block, with    *)
(* the exceptions that MismatchExplained names.                            *)
LEMMA ReplayApplies ==
    ASSUME Compared, post = Settled(cache), Revived = {},
           port = "reth" => StillEmpty = {} /\ witness = parent
    PROVE  Final = post
<1>1. witness = parent
  BY PortAssumption DEF Compared, StatesAt
<1>2. cache \in Tries /\ parent \in Tries /\ Settled(parent) = parent
  BY DEF Compared, Executed
<1>3. ASSUME NEW a \in Addrs PROVE Final[a] = post[a]
  <2>1. CASE a \in destroyed
    <3>1. Final[a] = Nothing
      BY <2>1 DEF Final, Kept, Remove
    <3>. QED
      BY <2>1, <3>1 DEF Revived
  <2>2. CASE a \notin touched_accounts \cup destroyed
    <3>1. Final[a] = parent[a]
      BY <2>2 DEF Final, Kept, Remove
    <3>2. cache[a] = parent[a]
      BY <2>2 DEF Compared, Executed
    <3>3. Settled(cache)[a] = Settled(parent)[a]
      BY <3>2 DEF Settled, Lives
    <3>. QED
      BY <1>2, <3>1, <3>3
  <2>3. CASE a \in Kept
    <3>1. FinalLeaf(a) = cache[a] /\ KeptRight(a)
      BY <1>1, <2>3, StorageFollows DEF Compared, Executed
    <3>2. CASE cache[a].info # EmptyInfo
      BY <2>3, <3>1, <3>2 DEF Final, NeverCreated, Settled, Lives, KeptRight
    <3>3. CASE cache[a].info = EmptyInfo
      <4>1. parent[a] = Nothing /\ cache[a] = EmptyAccount
        BY <3>1, <3>3 DEF KeptRight
      <4>2. port = "silt"
        BY <2>3, <4>1, PortAssumption DEF Compared, StillEmpty
      <4>3. Final[a] = Nothing
        BY <1>1, <2>3, <3>3, <4>1, <4>2 DEF Final, NeverCreated, Remove
      <4>. QED
        BY <3>3, <4>3 DEF Settled, Lives
    <3>. QED
      BY <3>2, <3>3
  <2>. QED
    BY <2>1, <2>2, <2>3 DEF Kept
<1>4. Final = [a \in Addrs |-> Final[a]]
  BY DEF Final
<1>5. post = [a \in Addrs |-> post[a]]
  BY DEF Compared, Tries
<1>. HIDE DEF Final
<1>. QED
  BY <1>3, <1>4, <1>5

(* What is compared and is the state at the block is right of each account. *)
LEMMA ReplayAgrees ==
    ASSUME Compared, Final = post, NEW a \in Addrs
    PROVE  /\ a \in destroyed => post[a] = Nothing
           /\ a \in Kept =>
                 /\ Lives(post, a) /\ Lives(cache, a) => post[a].info = cache[a].info
                 /\ witness = parent => post[a] = Settled(cache)[a]
           /\ a \notin touched_accounts \cup destroyed => post[a] = parent[a]
<1>1. a \in destroyed => post[a] = Nothing
  BY DEF Final, Kept, Remove
<1>2. a \notin touched_accounts \cup destroyed => post[a] = parent[a]
  BY DEF Final, Kept, Remove
<1>3. ASSUME a \in Kept, Lives(cache, a) PROVE post[a].info = cache[a].info
  BY <1>3 DEF Final, NeverCreated, Lives, FinalLeaf
<1>4. ASSUME a \in Kept, witness = parent PROVE post[a] = Settled(cache)[a]
  <2>1. FinalLeaf(a) = cache[a] /\ KeptRight(a)
    BY <1>4, StorageFollows DEF Compared, Executed
  <2>2. CASE cache[a].info # EmptyInfo
    BY <1>4, <2>1, <2>2 DEF Final, NeverCreated, Settled, Lives, KeptRight
  <2>3. CASE cache[a].info = EmptyInfo
    <3>1. parent[a] = Nothing /\ Settled(cache)[a] = Nothing
      BY <2>1, <2>3 DEF KeptRight, Settled, Lives
    <3>2. post[a] \in {Nothing, cache[a]}
      BY <1>4, <2>1, <3>1 DEF Final, Remove
    <3>3. Settled(post)[a] = post[a]
      BY DEF Compared
    <3>. QED
      BY <2>3, <3>1, <3>2, <3>3 DEF Settled, Lives
  <2>. QED
    BY <2>2, <2>3
<1>. QED
  BY <1>1, <1>2, <1>3, <1>4

-----------------------------------------------------------------------------
(* The invariant                                                            *)

LEMMA InitInv ==
    ASSUME Init
    PROVE  RInv
<1>1. all_events = <<>> /\ parent \in Tries /\ Settled(parent) = parent /\ cache = parent /\ post = parent
  BY DEF Init
<1>2. Effective = {}
  BY <1>1 DEF Effective
<1>3. touched_accounts = {} /\ destroyed = {}
  BY <1>2 DEF touched_accounts, destroyed
<1>4. Executed
  BY <1>1, <1>3 DEF Executed, Kept
<1>. QED
  BY <1>1, <1>4 DEF Init, RInv, Staged, Verdicts, MismatchExplained, MatchMeansAgreement, FinalStateKnown

(* Before the tries there is no verdict.                                   *)
LEMMA ExecutionInv ==
    ASSUME RInv, PreBlock \/ RunTx \/ PostBlock
    PROVE  RInv'
<1>1. PICK allowed \in SUBSET Event : Phase(allowed)
  BY DEF PreBlock, RunTx, PostBlock
<1>2. /\ UNCHANGED <<port, parent, verdict>> /\ verdict = "none"
      /\ pc' \in {"txs", "bootstrap"}
  BY DEF RInv, PreBlock, RunTx, PostBlock, unexecuted
<1>3. Executed'
  BY <1>1, <1>2, PhaseKeeps DEF RInv
<1>4. post' \in Tries /\ Settled(post') = post'
  <2>1. CASE PostBlock
    <3>1. cache' \in Tries
      BY <1>3 DEF Executed
    <3>. QED
      BY <2>1, <3>1, OthersAssumption, SettledIsTrie DEF PostBlock
  <2>2. CASE PreBlock \/ RunTx
    BY <2>2 DEF RInv, PreBlock, RunTx
  <2>. QED
    BY <2>1, <2>2
<1>5. Settled(post)' = post'
  BY <1>4 DEF Settled, Lives
<1>. QED
  BY <1>2, <1>3, <1>4, <1>5
     DEF RInv, Staged, Verdicts, MismatchExplained, MatchMeansAgreement, FinalStateKnown

(* The tries leave the execution as it was.                                *)
LEMMA ExecutionKept ==
    ASSUME RInv, UNCHANGED execution
    PROVE  /\ port' \in Ports /\ Executed' /\ post' \in Tries /\ Settled(post)' = post'
           /\ touched_accounts' = touched_accounts /\ destroyed' = destroyed
           /\ touched_slots' = touched_slots /\ Kept' = Kept /\ Written' = Written
           /\ UNCHANGED <<port, parent, post, cache>>
<1>1. UNCHANGED <<port, parent, post, cache, all_events>>
  BY DEF execution
<1>2. Executed'
  BY <1>1, Unmoved DEF RInv, Executed, KeptRight
<1>. QED
  BY <1>1, <1>2, Unmoved DEF RInv, Settled, Lives

LEMMA SameVerdict ==
    ASSUME RInv, UNCHANGED execution, UNCHANGED witness
    PROVE  /\ Revived' = Revived /\ StillEmpty' = StillEmpty
           /\ Settled(cache)' = Settled(cache)
           /\ Remove(parent, destroyed)' = Remove(parent, destroyed)
           /\ StatesAt' = StatesAt /\ Bare' = Bare /\ Filled' = Filled
           /\ \A a \in Addrs : NeverCreated(a)' = NeverCreated(a)
<1>1. UNCHANGED <<port, parent, post, cache, all_events>>
  BY DEF execution
<1>. QED
  BY <1>1, Unmoved
     DEF Revived, StillEmpty, Settled, Lives, Remove, StatesAt, Bare, Filled, NeverCreated

(* A verdict other than MATCH and MISMATCH says nothing.                   *)
LEMMA GiveInv ==
    ASSUME RInv, NEW v \in Verdicts, Give(v), FinalStateKnown',
           MismatchExplained', MatchMeansAgreement'
    PROVE  RInv'
<1>1. Staged'
  BY DEF Staged, Give
<1>. QED
  BY <1>1, ExecutionKept DEF RInv, Give

LEMMA ErrorInv ==
    ASSUME RInv, Give("error")
    PROVE  RInv'
<1>1. FinalStateKnown' /\ MismatchExplained' /\ MatchMeansAgreement'
  BY DEF Give, FinalStateKnown, MismatchExplained, MatchMeansAgreement
<1>. QED
  BY <1>1, GiveInv DEF Verdicts

(* On the way to the verdict only the stage changes.                       *)
LEMMA StageInv ==
    ASSUME RInv, UNCHANGED <<execution, verdict>>, verdict = "none", Staged',
           pc' \in {"removals", "slots", "leaves", "compare"}
    PROVE  RInv'
<1>1. FinalStateKnown' /\ MismatchExplained' /\ MatchMeansAgreement'
  BY DEF FinalStateKnown, MismatchExplained, MatchMeansAgreement
<1>. QED
  BY <1>1, ExecutionKept DEF RInv

LEMMA BootstrapInv ==
    ASSUME RInv, Bootstrap
    PROVE  RInv'
<1>1. UNCHANGED <<execution, verdict>> /\ verdict = "none" /\ UNCHANGED <<port, parent>>
  BY DEF Bootstrap, RInv, execution
<1>2. Bare' = [a \in Written |-> StorageOf(witness'[a])]
  BY <1>1, ExecutionKept DEF Bare, StorageOf
<1>3. StatesAt' = StatesAt
  BY <1>1 DEF StatesAt
<1>4. Staged'
  BY <1>1, <1>2, <1>3 DEF Bootstrap, Staged
<1>. QED
  BY <1>1, <1>4, StageInv DEF Bootstrap

LEMMA RemoveDestroyedInv ==
    ASSUME RInv, RemoveDestroyed
    PROVE  RInv'
<1>1. CASE Give("error")
  BY <1>1, ErrorInv
<1>2. CASE /\ pc' = "slots" /\ trie' = Remove(trie, destroyed)
           /\ UNCHANGED <<execution, witness, storage_tries, verdict>>
  <2>1. pc = "removals" /\ verdict = "none"
    BY DEF RemoveDestroyed, RInv
  <2>2. Staged'
    BY <1>2, <2>1, SameVerdict DEF RInv, Staged
  <2>. QED
    BY <1>2, <2>1, <2>2, StageInv
<1>. QED
  BY <1>1, <1>2 DEF RemoveDestroyed

LEMMA WriteSlotsInv ==
    ASSUME RInv, WriteSlots
    PROVE  RInv'
<1>1. pc = "slots" /\ verdict = "none" /\ UNCHANGED <<execution, witness, trie, verdict>>
  BY DEF WriteSlots, RInv
<1>2. storage_tries = Bare
  BY <1>1 DEF RInv, Staged
<1>3. storage_tries' = Filled
  BY <1>2 DEF WriteSlots, Bare, Filled
<1>4. Staged'
  BY <1>1, <1>3, SameVerdict DEF RInv, Staged, WriteSlots
<1>. QED
  BY <1>1, <1>4, StageInv DEF WriteSlots

LEMMA WriteLeavesInv ==
    ASSUME RInv, WriteLeaves
    PROVE  RInv'
<1>1. \A a \in Kept : cache[a] # Nothing
  BY Named DEF RInv, Executed, Kept, KeptRight
<1>2. /\ pc = "leaves" /\ pc' = "compare" /\ verdict = "none"
      /\ UNCHANGED <<execution, witness, storage_tries, verdict>>
      /\ trie' = [a \in Addrs |-> IF a \in Kept /\ ~NeverCreated(a) THEN FinalLeaf(a) ELSE trie[a]]
  BY <1>1 DEF WriteLeaves, RInv
<1>3. trie' = Final
  BY <1>2 DEF RInv, Staged, Final
<1>4. Final' = Final
  <2>1. UNCHANGED <<cache, storage_tries, witness>>
    BY <1>2 DEF execution
  <2>2. \A a \in Addrs : FinalLeaf(a)' = FinalLeaf(a)
    BY <1>2, <2>1, ExecutionKept DEF FinalLeaf, StorageRoot, OldRoot, StorageOf
  <2>. QED
    BY <1>2, <2>2, SameVerdict, ExecutionKept DEF Final
<1>5. Staged'
  BY <1>2, <1>3, <1>4, SameVerdict DEF RInv, Staged
<1>. QED
  BY <1>2, <1>5, StageInv

LEMMA CompareInv ==
    ASSUME RInv, Compare
    PROVE  RInv'
<1>1. Compared /\ trie = Final
  BY DEF RInv, Staged, Compared, Compare
<1>2. PICK nodes \in BOOLEAN :
          Give(IF HashesRight(trie, touched_accounts \cup destroyed, nodes) /\ trie = post
               THEN "MATCH" ELSE "MISMATCH")
  BY DEF Compare
<1>3. /\ verdict' = IF HashesRight(trie, touched_accounts \cup destroyed, nodes) /\ trie = post
                    THEN "MATCH" ELSE "MISMATCH"
      /\ UNCHANGED execution /\ UNCHANGED witness
      /\ UNCHANGED <<port, parent, post, cache, witness>>
  BY <1>2 DEF Give, execution
<1>4. MismatchExplained'
  <2>1. ASSUME post = Settled(cache), Revived = {}, touched_accounts \cup destroyed # {},
               port = "reth" => StillEmpty = {} /\ witness = parent
        PROVE  verdict' = "MATCH"
    BY <1>1, <1>3, <2>1, ReplayApplies DEF HashesRight
  <2>. QED
    BY <1>3, <2>1, SameVerdict, ExecutionKept DEF MismatchExplained
<1>5. MatchMeansAgreement'
  <2>1. ASSUME verdict' = "MATCH", NEW a \in Addrs
        PROVE  /\ a \in destroyed => post[a] = Nothing
               /\ a \in Kept =>
                     /\ Lives(post, a) /\ Lives(cache, a) => post[a].info = cache[a].info
                     /\ witness = parent => post[a] = Settled(cache)[a]
               /\ a \notin touched_accounts \cup destroyed => post[a] = parent[a]
    BY <1>1, <1>3, <2>1, ReplayAgrees
  <2>. QED
    BY <1>3, <2>1, SameVerdict, ExecutionKept DEF MatchMeansAgreement, Lives, Kept
<1>6. FinalStateKnown'
  BY <1>3 DEF FinalStateKnown
<1>. QED
  BY <1>2, <1>4, <1>5, <1>6, GiveInv DEF Verdicts

LEMMA StepInv ==
    ASSUME RInv, [Next]_vars
    PROVE  RInv'
<1>1. CASE PreBlock \/ RunTx \/ PostBlock
  BY <1>1, ExecutionInv
<1>2. CASE Bootstrap
  BY <1>2, BootstrapInv
<1>3. CASE RemoveDestroyed
  BY <1>3, RemoveDestroyedInv
<1>4. CASE SiblingMissing \/ Fails
  BY <1>4, ErrorInv DEF SiblingMissing, Fails
<1>5. CASE WriteSlots
  BY <1>5, WriteSlotsInv
<1>6. CASE WriteLeaves
  BY <1>6, WriteLeavesInv
<1>7. CASE Compare
  BY <1>7, CompareInv
<1>8. CASE UNCHANGED vars
  <2>1. UNCHANGED execution /\ UNCHANGED <<pc, witness, trie, storage_tries, verdict>>
    BY <1>8 DEF vars, execution
  <2>2. Final' = Final
    <3>1. UNCHANGED <<cache, storage_tries, witness>>
      BY <2>1 DEF execution
    <3>2. \A a \in Addrs : FinalLeaf(a)' = FinalLeaf(a)
      BY <3>1, <2>1, ExecutionKept DEF FinalLeaf, StorageRoot, OldRoot, StorageOf
    <3>. QED
      BY <2>1, <3>2, SameVerdict, ExecutionKept DEF Final
  <2>3. Staged'
    BY <2>1, <2>2, SameVerdict, ExecutionKept DEF RInv, Staged
  <2>4. MismatchExplained' /\ MatchMeansAgreement' /\ FinalStateKnown'
    BY <2>1, SameVerdict, ExecutionKept
       DEF RInv, MismatchExplained, MatchMeansAgreement, FinalStateKnown, Lives
  <2>. QED
    BY <2>1, <2>3, <2>4, ExecutionKept DEF RInv
<1>. QED
  BY <1>1, <1>2, <1>3, <1>4, <1>5, <1>6, <1>7, <1>8 DEF Next

LEMMA SpecInv == Spec => []RInv
<1>1. Init => RInv
  BY InitInv
<1>2. RInv /\ [Next]_vars => RInv'
  BY StepInv
<1>. QED
  BY <1>1, <1>2, PTL DEF Spec

(* For every block and both ports: when yevm is right, MISMATCH has one of  *)
(* the reasons that MismatchExplained lists, and no other.                 *)
THEOREM MismatchAlwaysExplained == Spec => []MismatchExplained
  BY SpecInv, PTL DEF RInv

(* For every block: MATCH says of each account that yevm and the node agree *)
(* on it.                                                                  *)
THEOREM MatchAlwaysAgrees == Spec => []MatchMeansAgreement
  BY SpecInv, PTL DEF RInv

(* However transactions revert, delete and touch: the final state of a      *)
(* touched account is there to be read.                                    *)
THEOREM FinalStateAlwaysKnown == Spec => []FinalStateKnown
  BY SpecInv, PTL DEF RInv

=============================================================================
