---------------------------- MODULE BlockReplay -----------------------------
(***************************************************************************)
(* The block replays of mpt-silt and mpt-reth: execute a block, collect    *)
(* the events of its phases, take the diff out of them, write it onto the  *)
(* tries of the parent block and compare the root with the header.  The    *)
(* two ports differ in where state is read from and in what they do with   *)
(* an empty account.  yevm and the node are external; an event carries one *)
(* effect, and a phase emits at most one.                                  *)
(***************************************************************************)
EXTENDS WorldState, Sequences

CONSTANTS
    Ports,      \* the programs: "silt", "reth"
    Txs,        \* bound on the transactions of a block
    Others      \* the states that the node may have moved on to, or that block
                \* n may have where yevm is wrong

ASSUME PortAssumption == Ports \subseteq {"silt", "reth"} /\ Txs \in Nat

VARIABLES
    port,           \* which of the two runs
    parent, post,   \* the state at blocks n-1 and n
    pc, txs,        \* the phase and the transactions run so far
    cache,          \* yevm's: address -> account, Nothing when not loaded
    events,         \* of the phase that ran last
    all_events,
    witness,        \* the state the witness was read from
    trie, storage_tries, verdict

vars == <<port, parent, post, pc, txs, cache, events, all_events, witness, trie, storage_tries, verdict>>

execution == <<port, parent, post, txs, cache, events, all_events>>

-----------------------------------------------------------------------------
(* The execution *)

EmptyAccount == [info |-> EmptyInfo, storage_root |-> empty_root]

Event == [kind : {"put"}, acc : Addrs, info : Infos, reverted : BOOLEAN]
    \cup [kind : {"store"}, acc : Addrs, key : Slots, value : Values \cup {Zero}, reverted : BOOLEAN]
    \cup [kind : {"delete", "touch"}, acc : Addrs, reverted : BOOLEAN]

Lives(state, a) == state[a] # Nothing /\ state[a].info # EmptyInfo

(* Only an account that lives is written to or deleted. *)
Possible(e, state) == e.kind \in {"store", "delete"} => Lives(state, e.acc)

Account(state, a) == IF state[a] = Nothing THEN EmptyAccount ELSE state[a]

Effect(e, state) ==
    LET a == e.acc IN
    IF e.reverted THEN state
    ELSE [state EXCEPT ![a] =
            CASE e.kind = "put" -> [Account(state, a) EXCEPT !.info = e.info]
              [] e.kind = "store" -> [state[a] EXCEPT !.storage_root[e.key] = e.value]
              [] e.kind = "delete" -> Nothing
              [] e.kind = "touch" -> Account(state, a)]

(* EIP-161: what is empty at the end of a block has no leaf. *)
Settled(state) == [a \in Addrs |-> IF Lives(state, a) THEN state[a] ELSE Nothing]

ASSUME OthersAssumption == \A t \in Others : t \in Tries /\ Settled(t) = t

(* A phase: reset clears the events and keeps the accounts, the phase runs, *)
(* and its events, if any, are collected.                                   *)
Phase(allowed) ==
    \/ events' = <<>> /\ UNCHANGED <<cache, all_events>>
    \/ \E e \in {x \in allowed : Possible(x, cache)} :
          /\ events' = <<e>>
          /\ cache' = Effect(e, cache)
          /\ all_events' = all_events \o events'

unexecuted == <<witness, trie, storage_tries, verdict>>

(* MUTANT: the events of pre_block are not collected before the reset. *)
PreBlockLost ==
    /\ pc = "pre_block" /\ pc' = "txs"
    /\ \E e \in {x \in Event : x.kind = "store" /\ ~x.reverted /\ Possible(x, cache)} :
          events' = <<e>> /\ cache' = Effect(e, cache)
    /\ UNCHANGED <<port, parent, post, txs, all_events, unexecuted>>

(* System contracts are written to. *)
PreBlock ==
    /\ pc = "pre_block" /\ pc' = "txs"
    /\ Phase({x \in Event : x.kind = "store" /\ ~x.reverted})
    /\ UNCHANGED <<port, parent, post, txs, unexecuted>>

RunTx ==
    /\ pc = "txs" /\ txs < Txs
    /\ txs' = txs + 1
    /\ Phase(Event)
    /\ UNCHANGED <<pc, port, parent, post, unexecuted>>

(* Withdrawals are credited.  The state at block n is that of the execution *)
(* unless yevm is wrong.                                                    *)
PostBlock ==
    /\ pc = "txs" /\ pc' = "bootstrap"
    /\ Phase({x \in Event : x.kind = "put" /\ ~x.reverted})
    /\ post' \in {Settled(cache')} \cup Others
    /\ UNCHANGED <<port, parent, txs, unexecuted>>

-----------------------------------------------------------------------------
(* The diff *)

(* MUTANT: reverted events are kept. *)
EffectiveAll == {all_events[i] : i \in DOMAIN all_events}

Effective == {all_events[i] : i \in {j \in DOMAIN all_events : ~all_events[j].reverted}}

touched_accounts == {e.acc : e \in {x \in Effective : x.kind # "delete"}}

destroyed == {e.acc : e \in {x \in Effective : x.kind = "delete"}}

touched_slots ==
    [a \in Addrs |-> {e.key : e \in {x \in Effective : x.kind = "store" /\ x.acc = a}}]

Written == {a \in Addrs : touched_slots[a] # {}}

-----------------------------------------------------------------------------
(* The tries *)

Give(v) == pc' = "done" /\ verdict' = v /\ UNCHANGED <<execution, witness, trie, storage_tries>>

Fails ==
    /\ pc \in {"bootstrap", "removals", "slots", "leaves", "compare"}
    /\ Give("error")

(* state_at: block n-1, or what is latest while that is not indexed yet;    *)
(* silt names the block by its hash.                                        *)
StatesAt == {parent} \cup {t \in Others : port = "reth"}

(* The root is that of the header of n-1.  A witness of another state has   *)
(* no node for it: the trie is then a bare Stub, whose root is the one      *)
(* expected, and only a walk into it fails.  silt reads its leaves here.    *)
Bootstrap ==
    /\ pc = "bootstrap" /\ pc' = "removals"
    /\ witness' \in StatesAt
    /\ trie' = parent
    /\ storage_tries' = [a \in Written |-> StorageOf(witness'[a])]
    /\ UNCHANGED <<execution, verdict>>

(* The providers read from a state of their own.  What the witness has not  *)
(* they have if theirs is n-1; a bare Stub is resolved by them or not at    *)
(* all, and a node beside the witness is wanted by some removals only.      *)
Resolvable(state) == witness = parent \/ state = parent

RemoveDestroyed ==
    /\ pc = "removals"
    /\ \E state \in StatesAt :
          IF Resolvable(state) \/ destroyed \cup touched_accounts = {}
          THEN /\ pc' = "slots"
               /\ trie' = Remove(trie, destroyed)
               /\ UNCHANGED <<execution, witness, storage_tries, verdict>>
          ELSE Give("error")

(* A provider that reads a newer state may lack the sibling of a collapse.  *)
SiblingMissing ==
    /\ port = "reth"
    /\ pc \in {"removals", "slots"}
    /\ Give("error")

WriteSlots ==
    /\ pc = "slots" /\ pc' = "leaves"
    /\ storage_tries' = [a \in Written |->
          IF a \in destroyed THEN storage_tries[a]
          ELSE [s \in Slots |-> IF s \in touched_slots[a] THEN cache[a].storage_root[s]
                                ELSE storage_tries[a][s]]]
    /\ UNCHANGED <<execution, witness, trie, verdict>>

Kept == touched_accounts \ destroyed

(* Only silt's port has the rule. *)
NeverCreated(a) ==
    /\ port = "silt"
    /\ witness[a] = Nothing /\ cache[a].info = EmptyInfo

(* The root in the leaf of block n-1, as the witness has it. *)
OldRoot(a) == StorageOf(witness[a])

(* MUTANT: the root of the parent's leaf, even if slots were written. *)
StorageRootOfParent(a) == OldRoot(a)

StorageRoot(a) == IF a \in Written THEN storage_tries[a] ELSE OldRoot(a)

FinalLeaf(a) == [info |-> cache[a].info, storage_root |-> StorageRoot(a)]

WriteLeaves ==
    /\ pc = "leaves"
    /\ IF \E a \in Kept : cache[a] = Nothing
       THEN Give("no final state")
       ELSE /\ pc' = "compare"
            /\ trie' = [a \in Addrs |->
                  IF a \in Kept /\ ~NeverCreated(a)
                  THEN FinalLeaf(a)
                  ELSE trie[a]]
            /\ UNCHANGED <<execution, witness, storage_tries, verdict>>

(* reth's port takes the nodes of the accounts it asked for, silt's all     *)
(* that come.                                                              *)
Compare ==
    /\ pc = "compare"
    /\ \E nodes \in {FALSE} \cup {TRUE : x \in {port} \cap {"silt"}} :
          Give(IF HashesRight(trie, touched_accounts \cup destroyed, nodes) /\ trie = post
               THEN "MATCH" ELSE "MISMATCH")

-----------------------------------------------------------------------------
(* The program *)

Init ==
    /\ port \in Ports
    /\ parent \in {t \in Tries : Settled(t) = t}
    /\ post = parent /\ cache = parent
    /\ pc = "pre_block" /\ txs = 0
    /\ events = <<>> /\ all_events = <<>>
    /\ witness = Nothing /\ trie = Nothing /\ storage_tries = Nothing
    /\ verdict = "none"

Next ==
    \/ PreBlock \/ RunTx \/ PostBlock
    \/ Bootstrap \/ RemoveDestroyed \/ SiblingMissing \/ WriteSlots \/ WriteLeaves \/ Compare
    \/ Fails

Spec == Init /\ [][Next]_vars

-----------------------------------------------------------------------------
(* Properties *)

Revived == {a \in destroyed : post[a] # Nothing}

StillEmpty == {a \in Kept : parent[a] = Nothing /\ cache[a] = EmptyAccount}

(* When yevm is right, the replay of a block ends in MISMATCH only if an    *)
(* account was deleted and made again in the block, which leaves it in      *)
(* `destroyed`, or if the block touched nothing at all; with reth's port    *)
(* also if a touched account stays empty, which silt's port has a rule for, *)
(* or if the witness was read from another state than the block's parent.  *)
MismatchExplained ==
    verdict = "MISMATCH" =>
        \/ post # Settled(cache)
        \/ Revived # {}
        \/ touched_accounts \cup destroyed = {}
        \/ port = "reth" /\ (StillEmpty # {} \/ witness # parent)

(* MATCH says of every account that yevm and the node agree on it: of the   *)
(* touched ones what they hold, of the deleted ones that they are gone, of  *)
(* the others that the block did not change them.  A witness read from      *)
(* another state may hide that yevm missed a write to a slot, nothing else. *)
MatchMeansAgreement ==
    verdict = "MATCH" =>
        \A a \in Addrs :
            CASE a \in destroyed -> post[a] = Nothing
              [] a \in Kept ->
                    /\ Lives(post, a) /\ Lives(cache, a) => post[a].info = cache[a].info
                    /\ witness = parent => post[a] = Settled(cache)[a]
              [] OTHER -> post[a] = parent[a]

(* A reverted creation leaves no account in the cache, and nothing looks    *)
(* for one: whatever was touched has a final state to be read.             *)
FinalStateKnown == verdict # "no final state"

=============================================================================
