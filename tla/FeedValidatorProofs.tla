------------------------ MODULE FeedValidatorProofs -------------------------
(***************************************************************************)
(* What a verdict of the feed validator says, for every chain, every diff  *)
(* and every set of accounts and slots.                                    *)
(*                                                                         *)
(* The tries that validate builds on the way are functions of the diff and *)
(* of the parent's state: Applied is the one that is compared in the end,  *)
(* defined in terms of those two alone.  That Applied is the state at the  *)
(* block for a truthful diff, and only for one that certifies, are facts   *)
(* about an account at a time; the invariant says that validate computes   *)
(* Applied, and counts.                                                    *)
(***************************************************************************)
EXTENDS FeedValidator, TLAPS

Validating ==
    {"parent_header", "header", "witness", "removals", "storage", "leaves", "compare"}

(* The parent's leaves of the accounts that the diff names.                *)
Leaves == [a \in touched |-> Before(diff)[a]]

Stored == [a \in {x \in touched \ destroyed : slots[x] # {}} |-> Written(a)]

AppliedTo(base) ==
    [a \in Addrs |->
        IF a \in touched \ destroyed /\ ~NeverCreated(a)
        THEN [info |-> Info(a), storage_root |-> StorageRoot(a)]
        ELSE base[a]]

(* The locals that WriteLeaves and Compare work from.                      *)
Ready ==
    /\ chain \in Chains /\ diff \in Diffs
    /\ leaves_p = Leaves /\ storage_roots = Stored

Applied == AppliedTo(Remove(Before(diff), destroyed))

(* What the locals of validate hold before each of its steps.              *)
Locals ==
    /\ pc = "removals" => trie = Before(diff)
    /\ pc \in {"storage", "leaves"} => trie = Remove(Before(diff), destroyed)
    /\ pc \in {"removals", "storage", "leaves", "compare"} => leaves_p = Leaves
    /\ pc \in {"leaves", "compare"} => storage_roots = Stored
    /\ pc = "compare" => trie = Applied

(* A diff that does not certify is one that does not match, or is not       *)
(* counted yet.                                                            *)
Counted ==
    /\ spans \in Nat /\ matched \in Nat /\ wrong \in Nat
    /\ wrong + matched <=
          spans + (IF pc \in Validating /\ ~Certified(diff) THEN 1 ELSE 0)

DInv ==
    /\ chain \in Chains
    /\ pc \in Validating \cup {"hello", "listen", "done"}
    /\ pc \in Validating \/ verdict # "none" => diff \in Diffs
    /\ Locals
    /\ status # "running" => pc = "done"
    /\ pc # "done" => Counted
    /\ TruthMatches
    /\ MatchCertifies
    /\ OkMeansAll

-----------------------------------------------------------------------------
(* The diff and the states it is between                                    *)

LEMMA States ==
    ASSUME chain \in Chains, diff \in Diffs
    PROVE  /\ Before(diff) \in Tries /\ After(diff) \in Tries
           /\ \A a \in Addrs :
                 /\ diff.accounts[a] \in Infos \cup {EmptyInfo, Nothing, Unnamed}
                 /\ \A s \in Slots : diff.storage[a][s] \in Values \cup {Zero, Unnamed}
  BY DEF Chains, Diffs, Spans, Before, After

(* An account that is empty after the span has been there all along.       *)
LEMMA EmptyStays ==
    ASSUME chain \in Chains, diff \in Diffs, NEW a \in Addrs,
           After(diff)[a] # Nothing, After(diff)[a].info = EmptyInfo
    PROVE  After(diff)[a] = Before(diff)[a]
<1>. DEFINE b == diff.span[2]
<1>1. b \in Blocks /\ Parent[b] \in Blocks /\ Parent[Parent[b]] \in Blocks
  BY ParentAssumption DEF Diffs, Spans
<1>2. diff.span[1] \in {b, Parent[b], Parent[Parent[b]]}
  BY DEF Diffs, Spans, Nearest
<1>3. chain[b][a] = chain[Parent[b]][a]
  BY <1>1 DEF Chains, FollowsFrom, After
<1>4. chain[Parent[b]][a] = chain[Parent[Parent[b]]][a]
  BY <1>1, <1>3 DEF Chains, FollowsFrom, After
<1>. QED
  BY <1>2, <1>3, <1>4 DEF After, Before

-----------------------------------------------------------------------------
(* The trie that is compared, an account at a time                          *)

LEMMA TouchedOrNot ==
    ASSUME diff \in Diffs, NEW a \in Addrs
    PROVE  /\ a \notin touched =>
                 diff.accounts[a] = Unnamed /\ \A s \in Slots : diff.storage[a][s] = Unnamed
           /\ a \in destroyed => a \in touched
  BY UnnamedAssumption DEF touched, destroyed, slots

(* The leaf of an account is the parent's where the diff does not name it,  *)
(* none where it ends or would be empty and new, and else made of the two.  *)
LEMMA AppliedAt ==
    ASSUME Ready, NEW a \in Addrs
    PROVE  /\ a \notin touched => Applied[a] = Before(diff)[a]
           /\ a \in destroyed => Applied[a] = Nothing
           /\ a \in touched \ destroyed =>
                 LET leaf == Before(diff)[a]
                     info == IF diff.accounts[a] # Unnamed THEN diff.accounts[a]
                             ELSE IF leaf # Nothing THEN leaf.info ELSE EmptyInfo
                     storage == [s \in Slots |-> IF diff.storage[a][s] # Unnamed
                                                THEN diff.storage[a][s] ELSE StorageOf(leaf)[s]]
                 IN Applied[a] = IF leaf = Nothing /\ info = EmptyInfo THEN Nothing
                                 ELSE [info |-> info, storage_root |-> storage]
<1>1. a \notin touched => Applied[a] = Before(diff)[a]
  BY TouchedOrNot DEF Ready, Applied, AppliedTo, Remove
<1>2. a \in destroyed => Applied[a] = Nothing
  BY TouchedOrNot DEF Ready, Applied, AppliedTo, Remove
<1>. SUFFICES ASSUME a \in touched \ destroyed
     PROVE  LET leaf == Before(diff)[a]
                info == IF diff.accounts[a] # Unnamed THEN diff.accounts[a]
                        ELSE IF leaf # Nothing THEN leaf.info ELSE EmptyInfo
                storage == [s \in Slots |-> IF diff.storage[a][s] # Unnamed
                                           THEN diff.storage[a][s] ELSE StorageOf(leaf)[s]]
            IN Applied[a] = IF leaf = Nothing /\ info = EmptyInfo THEN Nothing
                            ELSE [info |-> info, storage_root |-> storage]
  BY <1>1, <1>2
<1>. DEFINE leaf == Before(diff)[a]
            storage == [s \in Slots |-> IF diff.storage[a][s] # Unnamed
                                       THEN diff.storage[a][s] ELSE StorageOf(leaf)[s]]
<1>3. leaves_p[a] = leaf
  BY DEF Ready, Leaves
<1>4. Info(a) = IF diff.accounts[a] # Unnamed THEN diff.accounts[a]
                ELSE IF leaf # Nothing THEN leaf.info ELSE EmptyInfo
  BY <1>3 DEF Info
<1>5. StorageRoot(a) = storage
  <2>1. CASE slots[a] # {}
    BY <2>1, <1>3 DEF Ready, StorageRoot, Stored, Written, slots
  <2>2. CASE slots[a] = {}
    <3>1. StorageRoot(a) = StorageOf(leaf)
      BY <2>2, <1>3 DEF Ready, StorageRoot, Stored
    <3>2. StorageOf(leaf) \in Storage
      BY States DEF Ready, Tries, Leaf, Storage, StorageOf, empty_root
    <3>3. StorageOf(leaf) = [s \in Slots |-> StorageOf(leaf)[s]]
      BY <3>2 DEF Storage
    <3>4. \A s \in Slots : diff.storage[a][s] = Unnamed
      BY <2>2 DEF slots
    <3>. QED
      BY <3>1, <3>3, <3>4
  <2>. QED
    BY <2>1, <2>2
<1>6. Applied[a] = IF NeverCreated(a) THEN Remove(Before(diff), destroyed)[a]
                   ELSE [info |-> Info(a), storage_root |-> StorageRoot(a)]
  BY DEF Applied, AppliedTo
<1>7. Remove(Before(diff), destroyed)[a] = leaf
  BY DEF Remove
<1>8. NeverCreated(a) <=> leaf = Nothing /\ Info(a) = EmptyInfo
  BY <1>3 DEF NeverCreated
<1>. QED
  BY <1>4, <1>5, <1>6, <1>7, <1>8

LEMMA LeafParts ==
    ASSUME NEW state \in Tries, NEW a \in Addrs, state[a] # Nothing
    PROVE  /\ state[a] = [info |-> state[a].info, storage_root |-> state[a].storage_root]
           /\ state[a].info \in Infos \cup {EmptyInfo} /\ state[a].info # Nothing
           /\ state[a].storage_root = [s \in Slots |-> state[a].storage_root[s]]
  BY DistinctAssumption DEF Tries, Leaf, Storage

(* A truthful diff brings every account to its state at the block.         *)
LEMMA TruthApplies ==
    ASSUME Ready, Truthful(diff)
    PROVE  Applied = After(diff)
<1>. DEFINE B == Before(diff)
            A == After(diff)
<1>1. A \in Tries /\ B \in Tries
  BY States DEF Ready
<1>2. ASSUME NEW a \in Addrs PROVE Applied[a] = A[a]
  <2>0. /\ RightInfo(diff, a) /\ RightSlots(diff, a)
        /\ InfoIn(A, a) # InfoIn(B, a) => diff.accounts[a] # Unnamed
        /\ A[a] # Nothing => \A s \in Slots :
              StorageOf(A[a])[s] # StorageOf(B[a])[s] => diff.storage[a][s] # Unnamed
    BY DEF Truthful, Complete
  <2>1. CASE a \notin touched
    <3>1. InfoIn(A, a) = InfoIn(B, a)
      BY <2>0, <2>1, TouchedOrNot DEF Ready
    <3>2. Applied[a] = B[a]
      BY <2>1, AppliedAt
    <3>3. CASE A[a] = Nothing
      BY <1>1, <3>1, <3>2, <3>3, LeafParts DEF InfoIn
    <3>4. CASE A[a] # Nothing
      <4>1. B[a] # Nothing /\ A[a].info = B[a].info
        BY <1>1, <3>1, <3>4, LeafParts DEF InfoIn
      <4>2. \A s \in Slots : A[a].storage_root[s] = B[a].storage_root[s]
        BY <2>0, <2>1, <3>4, <4>1, TouchedOrNot DEF Ready, StorageOf
      <4>3. A[a].storage_root = B[a].storage_root
        BY <1>1, <3>4, <4>1, <4>2, LeafParts
      <4>4. /\ A[a] = [info |-> A[a].info, storage_root |-> A[a].storage_root]
            /\ B[a] = [info |-> B[a].info, storage_root |-> B[a].storage_root]
        BY <1>1, <3>4, <4>1, LeafParts
      <4>. QED
        BY <3>2, <4>1, <4>3, <4>4
    <3>. QED
      BY <3>3, <3>4
  <2>2. CASE a \in destroyed
    <3>1. InfoIn(A, a) = Nothing
      BY <2>0, <2>2, UnnamedAssumption DEF RightInfo, destroyed
    <3>. QED
      BY <1>1, <2>2, <3>1, AppliedAt, LeafParts DEF InfoIn
  <2>3. CASE a \in touched \ destroyed
    <3>. DEFINE info == IF diff.accounts[a] # Unnamed THEN diff.accounts[a]
                        ELSE IF B[a] # Nothing THEN B[a].info ELSE EmptyInfo
                storage == [s \in Slots |-> IF diff.storage[a][s] # Unnamed
                                           THEN diff.storage[a][s] ELSE StorageOf(B[a])[s]]
    <3>1. Applied[a] = IF B[a] = Nothing /\ info = EmptyInfo THEN Nothing
                       ELSE [info |-> info, storage_root |-> storage]
      BY <2>3, AppliedAt
    <3>2. diff.accounts[a] # Nothing
      BY <2>3 DEF destroyed
    <3>3. CASE A[a] = Nothing
      <4>1. diff.accounts[a] = Unnamed
        BY <2>0, <3>2, <3>3 DEF RightInfo, InfoIn
      <4>2. B[a] = Nothing
        BY <1>1, <2>0, <3>3, <4>1, LeafParts DEF InfoIn
      <4>. QED
        BY <3>1, <3>3, <4>1, <4>2
    <3>4. CASE A[a] # Nothing
      <4>1. info = A[a].info
        <5>1. CASE diff.accounts[a] # Unnamed
          BY <2>0, <3>4, <5>1 DEF RightInfo, InfoIn
        <5>2. CASE diff.accounts[a] = Unnamed
          <6>1. B[a] # Nothing /\ B[a].info = A[a].info
            <7>1. InfoIn(A, a) = InfoIn(B, a)
              BY <2>0, <5>2 DEF RightInfo
            <7>2. InfoIn(A, a) = A[a].info /\ A[a].info # Nothing
              BY <1>1, <3>4, LeafParts DEF InfoIn
            <7>. QED
              BY <7>1, <7>2 DEF InfoIn
          <6>. QED
            BY <5>2, <6>1
        <5>. QED
          BY <5>1, <5>2
      <4>2. storage = A[a].storage_root
        <5>1. \A s \in Slots : storage[s] = A[a].storage_root[s]
          BY <2>0, <3>4 DEF RightSlots, StorageOf
        <5>2. storage = [s \in Slots |-> storage[s]]
          OBVIOUS
        <5>. HIDE DEF storage
        <5>3. A[a].storage_root = [s \in Slots |-> A[a].storage_root[s]]
          BY <1>1, <3>4, LeafParts
        <5>. QED
          BY <5>1, <5>2, <5>3
      <4>3. ~(B[a] = Nothing /\ info = EmptyInfo)
        BY <3>4, <4>1, EmptyStays DEF Ready
      <4>4. Applied[a] = [info |-> info, storage_root |-> storage]
        BY <3>1, <4>3
      <4>5. A[a] = [info |-> A[a].info, storage_root |-> A[a].storage_root]
        BY <1>1, <3>4, LeafParts
      <4>. HIDE DEF info, storage
      <4>. QED
        BY <4>1, <4>2, <4>4, <4>5
    <3>. QED
      BY <3>3, <3>4
  <2>. QED
    BY <2>1, <2>2, <2>3
<1>. QED
  BY <1>1, <1>2 DEF Applied, AppliedTo, Tries

(* What a diff leaves out or says wrongly of an account that lives shows.  *)
LEMMA AppliesCertified ==
    ASSUME Ready, Applied = After(diff)
    PROVE  Certified(diff)
<1>. DEFINE B == Before(diff)
            A == After(diff)
<1>1. A \in Tries /\ B \in Tries
  BY States DEF Ready
<1>2. ASSUME NEW a \in Addrs
      PROVE  /\ InfoIn(A, a) # InfoIn(B, a) => diff.accounts[a] # Unnamed
             /\ A[a] # Nothing => \A s \in Slots :
                  StorageOf(A[a])[s] # StorageOf(B[a])[s] => diff.storage[a][s] # Unnamed
             /\ IF A[a] # Nothing THEN RightInfo(diff, a) /\ RightSlots(diff, a)
                ELSE B[a] # Nothing => diff.accounts[a] = Nothing
  <2>1. CASE a \notin touched
    <3>1. A[a] = B[a] /\ diff.accounts[a] = Unnamed /\ \A s \in Slots : diff.storage[a][s] = Unnamed
      BY <2>1, AppliedAt, TouchedOrNot DEF Ready
    <3>. QED
      BY <3>1 DEF InfoIn, RightInfo, RightSlots
  <2>2. CASE a \in destroyed
    <3>1. A[a] = Nothing /\ diff.accounts[a] = Nothing
      BY <2>2, AppliedAt DEF destroyed
    <3>. QED
      BY <3>1, UnnamedAssumption
  <2>3. CASE a \in touched \ destroyed
    <3>. DEFINE info == IF diff.accounts[a] # Unnamed THEN diff.accounts[a]
                        ELSE IF B[a] # Nothing THEN B[a].info ELSE EmptyInfo
                storage == [s \in Slots |-> IF diff.storage[a][s] # Unnamed
                                           THEN diff.storage[a][s] ELSE StorageOf(B[a])[s]]
    <3>1. A[a] = IF B[a] = Nothing /\ info = EmptyInfo THEN Nothing
                 ELSE [info |-> info, storage_root |-> storage]
      BY <2>3, AppliedAt
    <3>2. CASE B[a] = Nothing /\ info = EmptyInfo
      BY <3>1, <3>2 DEF InfoIn
    <3>3. CASE ~(B[a] = Nothing /\ info = EmptyInfo)
      <4>1. A[a] = [info |-> info, storage_root |-> storage]
        BY <3>1, <3>3
      <4>2. diff.accounts[a] = Unnamed => B[a] # Nothing
        BY <3>3
      <4>3. diff.accounts[a] \in Infos \cup {EmptyInfo, Unnamed}
        BY <2>3, States DEF Ready, destroyed
      <4>4. info \in Infos \cup {EmptyInfo}
        BY <1>1, <4>2, <4>3, LeafParts
      <4>5. storage \in Storage
        <5>1. \A s \in Slots : diff.storage[a][s] \in Values \cup {Zero, Unnamed}
          BY States DEF Ready
        <5>2. StorageOf(B[a]) \in Storage
          BY <1>1 DEF Tries, Leaf, StorageOf, Storage, empty_root
        <5>. QED
          BY <5>1, <5>2 DEF Storage
      <4>6. A[a] # Nothing
        BY <4>1, <4>4, <4>5, LeafAssumption DEF Leaf
      <4>7. InfoIn(A, a) = info /\ StorageOf(A[a]) = storage
        BY <4>1, <4>6 DEF InfoIn, StorageOf
      <4>8. diff.accounts[a] = Unnamed => InfoIn(B, a) = info
        BY <4>2 DEF InfoIn
      <4>9. RightInfo(diff, a) /\ RightSlots(diff, a)
        BY <4>7 DEF RightInfo, RightSlots
      <4>. QED
        BY <4>6, <4>7, <4>8, <4>9
    <3>. QED
      BY <3>2, <3>3
  <2>. QED
    BY <2>1, <2>2, <2>3
<1>. QED
  BY <1>2 DEF Certified, Complete

-----------------------------------------------------------------------------
(* The invariant                                                            *)

(* A step that keeps the chain and the diff keeps what is defined by them.  *)
LEMMA Unmoved ==
    ASSUME chain' = chain, diff' = diff
    PROVE  /\ Before(diff)' = Before(diff) /\ After(diff)' = After(diff)
           /\ touched' = touched /\ destroyed' = destroyed /\ slots' = slots
           /\ Leaves' = Leaves
           /\ Certified(diff)' = Certified(diff) /\ Truthful(diff)' = Truthful(diff)
<1>1. /\ Before(diff)' = Before(diff) /\ After(diff)' = After(diff)
      /\ destroyed' = destroyed /\ slots' = slots
  BY DEF Before, After, destroyed, slots
<1>2. touched' = touched
  BY <1>1 DEF touched
<1>3. Complete(diff)' = Complete(diff)
  BY <1>1 DEF Complete, InfoIn, StorageOf
<1>4. \A a \in Addrs : /\ RightInfo(diff, a)' = RightInfo(diff, a)
                       /\ RightSlots(diff, a)' = RightSlots(diff, a)
  BY <1>1 DEF RightInfo, RightSlots, InfoIn, StorageOf
<1>5. Certified(diff)' = Certified(diff) /\ Truthful(diff)' = Truthful(diff)
  BY <1>1, <1>3, <1>4 DEF Certified, Truthful
<1>6. Leaves' = Leaves
  BY <1>1, <1>2 DEF Leaves
<1>. QED
  BY <1>1, <1>2, <1>5, <1>6

LEMMA SpecInitInv ==
    ASSUME Init
    PROVE  DInv
  BY DEF Init, DInv, Validating, Locals, Counted, TruthMatches, MatchCertifies, OkMeansAll

LEMMA LeaveInv ==
    ASSUME DInv, NEW how, Leave(how), how \in {"error", "mismatched"} \/ wrong = 0
    PROVE  DInv'
<1>. USE DEF Leave, validation
<1>1. Locals' /\ OkMeansAll'
  BY DEF DInv, Locals, OkMeansAll
<1>2. TruthMatches' /\ MatchCertifies'
  BY Unmoved DEF DInv, TruthMatches, MatchCertifies
<1>. QED
  BY <1>1, <1>2 DEF DInv, Validating

LEMMA ClosedInv ==
    ASSUME DInv, Closed
    PROVE  DInv'
<1>1. matched = spans => wrong = 0
  BY DEF DInv, Closed, Counted, Validating
<1>. QED
  BY <1>1, LeaveInv DEF Closed

LEMMA HelloInv ==
    ASSUME DInv, Hello
    PROVE  DInv'
<1>1. UNCHANGED <<chain, diff, trie, leaves_p, storage_roots, spans, matched, wrong, verdict, status>>
  BY DEF Hello, validation
<1>2. TruthMatches' /\ MatchCertifies' /\ OkMeansAll'
  BY <1>1, Unmoved DEF DInv, TruthMatches, MatchCertifies, OkMeansAll
<1>3. Locals' /\ Counted'
  BY <1>1 DEF DInv, Hello, Locals, Counted, Validating
<1>. QED
  BY <1>1, <1>2, <1>3 DEF DInv, Hello, Validating

LEMMA ReceiveInv ==
    ASSUME DInv, Receive
    PROVE  DInv'
<1>1. Certified(diff') = Certified(diff)'
  BY DEF Receive, Certified, Complete, RightInfo, RightSlots, InfoIn, StorageOf, Before, After
<1>2. Counted'
  BY <1>1 DEF DInv, Receive, Counted, Validating
<1>3. diff' \in Diffs /\ Diffs' = Diffs /\ Chains' = Chains
  BY DEF Receive, Diffs, Spans, Chains
<1>4. Locals' /\ TruthMatches' /\ MatchCertifies' /\ OkMeansAll'
  BY DEF DInv, Receive, Locals, TruthMatches, MatchCertifies, OkMeansAll
<1>. QED
  BY <1>2, <1>3, <1>4 DEF DInv, Receive, Validating

(* Between a diff and the verdict on it only the locals change.            *)
LEMMA WithinInv ==
    ASSUME DInv, pc \in Validating, pc' \in Validating,
           UNCHANGED <<chain, diff, spans, matched, verdict, status, wrong>>,
           Locals'
    PROVE  DInv'
<1>1. TruthMatches' /\ MatchCertifies' /\ OkMeansAll'
  BY Unmoved DEF DInv, TruthMatches, MatchCertifies, OkMeansAll
<1>2. Counted'
  BY Unmoved DEF DInv, Counted, Validating
<1>. QED
  BY <1>1, <1>2 DEF DInv, Validating

LEMMA HeaderInv ==
    ASSUME DInv, HeaderFound \/ HeaderLate
    PROVE  DInv'
<1>1. pc \in Validating /\ pc' \in {"parent_header", "header", "witness"}
  BY DEF HeaderFound, HeaderLate, Validating
<1>2. UNCHANGED <<chain, diff, spans, matched, verdict, status, wrong>>
  BY DEF HeaderFound, HeaderLate
<1>3. Locals'
  BY <1>1 DEF Locals
<1>. QED
  BY <1>1, <1>2, <1>3, WithinInv DEF Validating

LEMMA BootstrapInv ==
    ASSUME DInv, Bootstrap
    PROVE  DInv'
<1>1. Locals'
  BY Unmoved DEF Bootstrap, Locals, Leaves
<1>. QED
  BY <1>1, WithinInv DEF Bootstrap, Validating

LEMMA RemoveDestroyedInv ==
    ASSUME DInv, RemoveDestroyed
    PROVE  DInv'
<1>1. Remove(Before(diff), destroyed)' = Remove(Before(diff), destroyed)
  BY Unmoved DEF RemoveDestroyed, Remove
<1>2. Locals'
  BY <1>1, Unmoved DEF DInv, RemoveDestroyed, Locals
<1>. QED
  BY <1>2, WithinInv DEF RemoveDestroyed, Validating

LEMMA WriteSlotsInv ==
    ASSUME DInv, WriteSlots
    PROVE  DInv'
<1>1. Remove(Before(diff), destroyed)' = Remove(Before(diff), destroyed)
  BY Unmoved DEF WriteSlots, Remove
<1>2. \A a \in Addrs : Written(a)' = Written(a)
  BY Unmoved DEF WriteSlots, Written, StorageOf
<1>3. Stored' = Stored
  BY <1>2, Unmoved DEF WriteSlots, Stored, touched
<1>4. Locals'
  BY <1>1, <1>3, Unmoved DEF DInv, WriteSlots, Locals, Stored
<1>. QED
  BY <1>4, WithinInv DEF WriteSlots, Validating

LEMMA WriteLeavesInv ==
    ASSUME DInv, WriteLeaves
    PROVE  DInv'
<1>1. UNCHANGED <<chain, diff, leaves_p, storage_roots>>
  BY DEF WriteLeaves
<1>2. /\ Remove(Before(diff), destroyed)' = Remove(Before(diff), destroyed)
      /\ Stored' = Stored
  BY <1>1, Unmoved DEF Remove, Stored, Written, StorageOf
<1>3. \A a \in Addrs : /\ Info(a)' = Info(a) /\ StorageRoot(a)' = StorageRoot(a)
                       /\ NeverCreated(a)' = NeverCreated(a)
  BY <1>1 DEF Info, StorageRoot, NeverCreated, StorageOf
<1>4. Applied' = Applied
  BY <1>1, <1>2, <1>3, Unmoved DEF Applied, AppliedTo
<1>5. trie' = Applied
  BY DEF DInv, WriteLeaves, Locals, Applied, AppliedTo
<1>6. Locals'
  BY <1>1, <1>2, <1>4, <1>5, Unmoved DEF DInv, WriteLeaves, Locals
<1>. QED
  BY <1>6, WithinInv DEF WriteLeaves, Validating

LEMMA CompareInv ==
    ASSUME DInv, Compare
    PROVE  DInv'
<1>1. UNCHANGED <<chain, diff, status, wrong>> /\ pc = "compare" /\ pc' = "listen"
  BY DEF Compare
<1>2. Ready /\ trie = Applied
  BY <1>1 DEF DInv, Ready, Locals, Validating
<1>3. MatchCertifies'
  <2>1. verdict' = "match" => Applied = After(diff)
    BY <1>2 DEF Compare
  <2>. QED
    BY <1>1, <1>2, <2>1, AppliesCertified, Unmoved DEF MatchCertifies
<1>4. TruthMatches'
  <2>1. verdict' = "mismatch" /\ Truthful(diff) => touched = {}
    BY <1>2, TruthApplies DEF Compare, HashesRight
  <2>. QED
    BY <1>1, <2>1, Unmoved DEF TruthMatches
<1>5. Counted'
  <2>1. verdict' = "match" => Certified(diff)
    BY <1>1, <1>3, Unmoved DEF MatchCertifies
  <2>2. (verdict' = "match" /\ matched' = matched + 1) \/ matched' = matched
    BY DEF Compare, DInv, Counted
  <2>3. spans' = spans + 1
    BY DEF Compare
  <2>. QED
    BY <1>1, <2>1, <2>2, <2>3 DEF DInv, Counted, Validating
<1>6. Locals' /\ OkMeansAll'
  BY <1>1 DEF DInv, Locals, OkMeansAll
<1>. QED
  BY <1>1, <1>3, <1>4, <1>5, <1>6 DEF DInv, Validating

LEMMA StepInv ==
    ASSUME DInv, [Next]_vars
    PROVE  DInv'
<1>1. CASE Hello
  BY <1>1, HelloInv
<1>2. CASE NoHello
  BY <1>2, LeaveInv DEF NoHello
<1>3. CASE Receive
  BY <1>3, ReceiveInv
<1>4. CASE Refused
  BY <1>4, LeaveInv DEF Refused
<1>5. CASE Closed
  BY <1>5, ClosedInv
<1>6. CASE Validate
  <2>1. CASE HeaderFound \/ HeaderLate
    BY <2>1, HeaderInv
  <2>2. CASE HeaderGivesUp
    BY <2>2, LeaveInv DEF HeaderGivesUp
  <2>3. CASE Bootstrap
    BY <2>3, BootstrapInv
  <2>4. CASE RemoveDestroyed
    BY <2>4, RemoveDestroyedInv
  <2>5. CASE WriteSlots
    BY <2>5, WriteSlotsInv
  <2>6. CASE WriteLeaves
    BY <2>6, WriteLeavesInv
  <2>7. CASE Compare
    BY <2>7, CompareInv
  <2>8. CASE RequestFails
    BY <2>8, LeaveInv DEF RequestFails
  <2>. QED
    BY <1>6, <2>1, <2>2, <2>3, <2>4, <2>5, <2>6, <2>7, <2>8 DEF Validate
<1>7. CASE UNCHANGED vars
  <2>1. UNCHANGED <<chain, diff, pc, trie, leaves_p, storage_roots, spans, matched, verdict, status, wrong>>
    BY <1>7 DEF vars
  <2>2. TruthMatches' /\ MatchCertifies' /\ OkMeansAll' /\ (pc' # "done" => Counted')
    BY <2>1, Unmoved DEF DInv, TruthMatches, MatchCertifies, OkMeansAll, Counted
  <2>3. /\ Remove(Before(diff), destroyed)' = Remove(Before(diff), destroyed)
        /\ Stored' = Stored
    BY <2>1, Unmoved DEF Remove, Stored, Written, StorageOf
  <2>4. \A a \in Addrs : /\ Info(a)' = Info(a) /\ StorageRoot(a)' = StorageRoot(a)
                         /\ NeverCreated(a)' = NeverCreated(a)
    BY <2>1 DEF Info, StorageRoot, NeverCreated, StorageOf
  <2>5. Applied' = Applied
    BY <2>1, <2>3, <2>4, Unmoved DEF Applied, AppliedTo
  <2>6. Locals'
    BY <2>1, <2>3, <2>5, Unmoved DEF DInv, Locals
  <2>. QED
    BY <2>1, <2>2, <2>6 DEF DInv
<1>. QED
  BY <1>1, <1>2, <1>3, <1>4, <1>5, <1>6, <1>7 DEF Next

LEMMA SpecInv == Spec => []DInv
<1>1. Init => DInv
  BY SpecInitInv
<1>2. DInv /\ [Next]_vars => DInv'
  BY StepInv
<1>. QED
  BY <1>1, <1>2, PTL DEF Spec

(* For every chain, and every diff of it that tells the truth: validate     *)
(* answers MATCH, whatever was created, emptied, destroyed and made again   *)
(* in the span.  Only the diff that names nothing may be denied.            *)
THEOREM TruthAlwaysMatches == Spec => []TruthMatches
  BY SpecInv, PTL DEF DInv

(* For every chain and every diff, truthful or not: MATCH certifies that it *)
(* left out no change, is right of the accounts that live and names the end *)
(* of those that ended.                                                    *)
THEOREM MatchAlwaysCertifies == Spec => []MatchCertifies
  BY SpecInv, PTL DEF DInv

(* main returns Ok only when every diff received, however many there were,  *)
(* was certified.                                                          *)
THEOREM OkAlwaysMeansAll == Spec => []OkMeansAll
  BY SpecInv, PTL DEF DInv

=============================================================================
