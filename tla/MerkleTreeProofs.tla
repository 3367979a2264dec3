-------------------------- MODULE MerkleTreeProofs --------------------------
(***************************************************************************)
(* Prover and verifier of the Merkle tree, for lists of any length and     *)
(* claims of any size.                                                     *)
(*                                                                         *)
(* Index and width are halved in step, one rounded down and the other up,  *)
(* which keeps the index inside the width.  For a proof that was made by   *)
(* prove, the verifier climbs the levels of the tree one by one: the       *)
(* invariant keeps the trail of the prover, which the verifier repeats.    *)
(* Each level covers the list, node after node, and so does the root.  And *)
(* a node binds both of its children: if the verifier's hash is that of    *)
(* the node it is at, then it was so at every level below.                 *)
(***************************************************************************)
EXTENDS MerkleTree, FiniteSetTheorems, FunctionTheorems, SequenceTheorems, TLAPS

IsSeq(s) == Len(s) \in Nat /\ s = [i \in 1..Len(s) |-> s[i]]

Width(d) == Len(levels[d])

(* The levels are sequences, each the parents of the one below it.         *)
Leveled ==
    /\ IsSeq(leaves)
    /\ IsSeq(levels) /\ Len(levels) # 0
    /\ \A d \in 1..Len(levels) : IsSeq(levels[d])
    /\ levels[1] = [i \in 1..Len(leaves) |-> hash_leaf(leaves[i])]
    /\ \A d \in 1..Len(levels) - 1 : Width(d) > 1 /\ levels[d + 1] = parents(levels[d])

Phases == {"build", "ask", "prove", "claim", "verify", "done"}

TypeOK ==
    /\ pc \in Phases
    /\ asked \in Nat /\ index \in Nat /\ size \in Nat /\ cursor \in Nat
    /\ siblings \in Seq(Hashes) /\ claim.proof \in Seq(Hashes)
    /\ pc = "build" => siblings = <<>> /\ claim.proof = <<>>

LInv ==
    /\ Leveled
    /\ TypeOK
    /\ pc # "build" => Width(Len(levels)) <= 1
    /\ InLevel

-----------------------------------------------------------------------------
(* Sequences and halves                                                     *)

LEMMA LenOf ==
    ASSUME NEW n \in Nat, NEW f, f = [i \in 1..n |-> f[i]]
    PROVE  /\ Len(f) = n /\ DOMAIN f = 1..n /\ IsSeq(f)
           /\ f \in Seq({f[i] : i \in 1..n})
<1>1. f \in [1..n -> {f[i] : i \in 1..n}]
  OBVIOUS
<1>2. f \in Seq({f[i] : i \in 1..n})
  BY <1>1
<1>3. DOMAIN f = 1..n
  BY <1>1
<1>4. Len(f) = n
  BY <1>2, <1>3, LenProperties
<1>. QED
  BY <1>2, <1>3, <1>4 DEF IsSeq

LEMMA AppendOf ==
    ASSUME NEW s, IsSeq(s), NEW x
    PROVE  /\ IsSeq(Append(s, x)) /\ Len(Append(s, x)) = Len(s) + 1
           /\ \A i \in 1..Len(s) : Append(s, x)[i] = s[i]
           /\ Append(s, x)[Len(s) + 1] = x
<1>. DEFINE S == {s[i] : i \in 1..Len(s)} \cup {x}
            t == Append(s, x)
<1>1. s \in Seq({s[i] : i \in 1..Len(s)})
  BY LenOf DEF IsSeq
<1>2. s \in Seq(S)
  BY <1>1, SeqMonotonic
<1>3. t \in Seq(S) /\ Len(t) = Len(s) + 1 /\ t[Len(s) + 1] = x /\ \A i \in 1..Len(s) : t[i] = s[i]
  BY <1>2, AppendProperties
<1>4. t = [i \in 1..Len(t) |-> t[i]]
  BY <1>3, LenProperties
<1>. QED
  BY <1>3, <1>4 DEF IsSeq

LEMMA Halves ==
    ASSUME NEW w \in Nat
    PROVE  /\ w \div 2 \in Nat /\ (w + 1) \div 2 \in Nat
           /\ w % 2 \in {0, 1}
           /\ w % 2 = 0 => w = 2 * (w \div 2)
           /\ w % 2 = 1 => w = 2 * (w \div 2) + 1
           /\ w > 1 => (w + 1) \div 2 < w
           /\ w >= 1 => (w + 1) \div 2 >= 1
<1>1. w \div 2 \in Nat /\ (w + 1) \div 2 \in Nat /\ w % 2 \in {0, 1}
  OBVIOUS
<1>2. (w % 2 = 0 => w = 2 * (w \div 2)) /\ (w % 2 = 1 => w = 2 * (w \div 2) + 1)
  OBVIOUS
<1>3. (w > 1 => (w + 1) \div 2 < w) /\ (w >= 1 => (w + 1) \div 2 >= 1)
  OBVIOUS
<1>. QED
  BY <1>1, <1>2, <1>3

(* The index stays inside the width; what is not promoted has a sibling.   *)
LEMMA Inside ==
    ASSUME NEW w \in Nat, NEW i \in Nat, i < w
    PROVE  /\ i \div 2 \in Nat /\ i \div 2 < (w + 1) \div 2
           /\ i % 2 = 0 /\ ~Promoted(i, w) => i + 2 <= w
           /\ i % 2 # 0 => i >= 1
<1>1. i \div 2 \in Nat /\ i \div 2 < (w + 1) \div 2
  OBVIOUS
<1>2. ASSUME i % 2 = 0, ~Promoted(i, w) PROVE i + 2 <= w
  <2>1. CASE i = w - 1
    BY <1>2, <2>1, Halves DEF Promoted
  <2>2. CASE i # w - 1
    BY <2>2
  <2>. QED
    BY <2>1, <2>2
<1>3. ASSUME i % 2 # 0 PROVE i >= 1
  BY <1>3
<1>. QED
  BY <1>1, <1>2, <1>3

(* The level above.                                                        *)
LEMMA Parents ==
    ASSUME NEW level, IsSeq(level)
    PROVE  /\ IsSeq(parents(level)) /\ Len(parents(level)) = (Len(level) + 1) \div 2
           /\ \A i \in 1..(Len(level) + 1) \div 2 :
                 parents(level)[i] = IF 2 * i <= Len(level) THEN hash_node(level[2 * i - 1], level[2 * i])
                                     ELSE level[Len(level)]
<1>1. (Len(level) + 1) \div 2 \in Nat
  BY Halves DEF IsSeq
<1>2. parents(level) = [i \in 1..(Len(level) + 1) \div 2 |-> parents(level)[i]]
  BY DEF parents
<1>. QED
  BY <1>1, <1>2, LenOf DEF parents

-----------------------------------------------------------------------------
(* Every index is inside its level                                          *)

LEMMA InitLInv ==
    ASSUME Init
    PROVE  LInv
<1>. DEFINE first == [i \in 1..Len(leaves) |-> hash_leaf(leaves[i])]
<1>1. IsSeq(leaves)
  BY ListsAssumption DEF Init, IsSeq
<1>2. IsSeq(first) /\ Len(first) = Len(leaves)
  BY <1>1, LenOf DEF IsSeq
<1>3. levels = <<first>>
  BY DEF Init
<1>. HIDE DEF first
<1>4. IsSeq(levels) /\ Len(levels) = 1 /\ levels[1] = first
  BY <1>3 DEF IsSeq
<1>5. Leveled
  BY <1>1, <1>2, <1>4 DEF Leveled, first
<1>6. TypeOK /\ InLevel
  BY <1>4 DEF Init, TypeOK, InLevel, Phases
<1>. QED
  BY <1>5, <1>6 DEF LInv, Init

LEMMA BuildLevelLInv ==
    ASSUME LInv, BuildLevel
    PROVE  LInv'
<1>. DEFINE n == Len(levels)
            above == parents(levels[n])
<1>1. /\ levels' = Append(levels, above) /\ Width(n) > 1
      /\ UNCHANGED <<leaves, pc, index, asked, depth, siblings, claim, acc, size, cursor, verdict>>
  BY DEF BuildLevel, top, Width, proving, verifying
<1>2. IsSeq(levels) /\ n \in Nat \ {0} /\ IsSeq(levels[n])
  <2>1. IsSeq(levels) /\ n \in Nat \ {0}
    BY DEF LInv, Leveled, IsSeq
  <2>. QED
    BY <2>1 DEF LInv, Leveled
<1>3. IsSeq(above)
  BY <1>2, Parents
<1>4. /\ IsSeq(levels') /\ Len(levels') = n + 1
      /\ \A d \in 1..n : levels'[d] = levels[d]
      /\ levels'[n + 1] = above
  BY <1>1, <1>2, AppendOf
<1>5. Leveled'
  <2>1. \A d \in 1..n + 1 : IsSeq(levels'[d])
    BY <1>3, <1>4 DEF LInv, Leveled
  <2>2. \A d \in 1..n : levels'[d + 1] = parents(levels'[d]) /\ Width(d)' > 1
    BY <1>1, <1>2, <1>4 DEF LInv, Leveled, Width
  <2>. QED
    BY <1>1, <1>2, <1>4, <2>1, <2>2 DEF LInv, Leveled, IsSeq
<1>6. TypeOK'
  BY <1>1, EmptySeq DEF LInv, TypeOK, BuildLevel
<1>7. InLevel' /\ pc' = "build"
  BY <1>1, <1>2, <1>4 DEF LInv, InLevel, BuildLevel
<1>. QED
  BY <1>5, <1>6, <1>7 DEF LInv

(* The tree is done and stays.                                             *)
LEMMA TreeStays ==
    ASSUME LInv, UNCHANGED tree
    PROVE  /\ Leveled' /\ Hashes' = Hashes /\ len' = len /\ root' = root
           /\ UNCHANGED <<leaves, levels>>
           /\ \A d : Width(d)' = Width(d)
  BY DEF tree, LInv, Leveled, Hashes, len, root, top, Width

LEMMA BuiltLInv ==
    ASSUME LInv, Built
    PROVE  LInv'
<1>1. UNCHANGED <<leaves, levels, index, asked, depth, siblings, claim, acc, size, cursor, verdict>>
  BY DEF Built, tree, proving, verifying
<1>2. Width(Len(levels)) <= 1 /\ pc' = "ask" /\ pc = "build"
  BY DEF Built, top, Width
<1>3. Leveled' /\ TypeOK' /\ InLevel'
  BY <1>1, <1>2, TreeStays DEF LInv, TypeOK, InLevel, tree, Phases
<1>. QED
  BY <1>1, <1>2, <1>3 DEF LInv, Width

LEMMA proveLInv ==
    ASSUME LInv, prove
    PROVE  LInv'
<1>1. UNCHANGED <<leaves, levels, claim, acc, size, cursor, verdict>> /\ UNCHANGED tree
  BY DEF prove, tree, verifying
<1>2. /\ len = Width(1) /\ len \in Nat /\ 1 \in 1..Len(levels)
      /\ Width(Len(levels)) <= 1
  BY DEF LInv, Leveled, IsSeq, Width, len, prove
<1>3. asked' \in Nat /\ index' = asked' /\ depth' = 1 /\ siblings' = <<>>
  BY <1>2 DEF prove
<1>4. /\ pc' \in Phases /\ pc' # "build" /\ pc' # "verify"
      /\ pc' = "prove" => asked' < len
  BY <1>2, <1>3 DEF prove, Phases
<1>5. TypeOK'
  BY <1>1, <1>3, <1>4, TreeStays, EmptySeq DEF LInv, TypeOK
<1>6. InLevel'
  BY <1>1, <1>2, <1>3, <1>4 DEF LInv, InLevel, Width
<1>. QED
  BY <1>1, <1>2, <1>5, <1>6, TreeStays DEF LInv, Width

(* The sibling is in the level; the next level is there and wide enough.    *)
LEMMA SiblingInLevel ==
    ASSUME LInv, pc = "prove", Width(depth) > 1
    PROVE  /\ depth \in 1..Len(levels) - 1 /\ depth + 1 \in 1..Len(levels)
           /\ levels[depth + 1] = parents(levels[depth])
           /\ Width(depth + 1) = (Width(depth) + 1) \div 2
           /\ index \in Nat /\ index < Width(depth) /\ Width(depth) \in Nat
           /\ ~Promoted(index, Width(depth)) =>
                 (IF index % 2 = 0 THEN index + 2 ELSE index) \in 1..Width(depth)
<1>1. /\ depth \in 1..Len(levels) /\ Len(levels) \in Nat /\ IsSeq(levels[depth])
      /\ Width(Len(levels)) <= 1
      /\ index \in Nat /\ index < Width(depth)
  BY DEF LInv, Leveled, IsSeq, InLevel, Width, TypeOK
<1>2. Width(depth) \in Nat
  BY <1>1 DEF IsSeq, Width
<1>3. depth # Len(levels)
  BY <1>1, <1>2
<1>4. levels[depth + 1] = parents(levels[depth])
  BY <1>1, <1>3 DEF LInv, Leveled
<1>5. Width(depth + 1) = (Width(depth) + 1) \div 2
  BY <1>1, <1>4, Parents DEF Width
<1>6. depth \in 1..Len(levels) - 1 /\ depth + 1 \in 1..Len(levels)
  BY <1>1, <1>3
<1>7. ~Promoted(index, Width(depth)) =>
           (IF index % 2 = 0 THEN index + 2 ELSE index) \in 1..Width(depth)
  BY <1>1, <1>2, Inside
<1>. QED
  BY <1>1, <1>2, <1>4, <1>5, <1>6, <1>7

LEMMA ProveLevelLInv ==
    ASSUME LInv, ProveLevel
    PROVE  LInv'
<1>1. /\ UNCHANGED <<leaves, levels, pc, asked, claim, acc, size, cursor, verdict>> /\ UNCHANGED tree
      /\ pc = "prove" /\ Width(depth) > 1
      /\ index' = index \div 2 /\ depth' = depth + 1
  BY DEF ProveLevel, tree, verifying, Width
<1>2. /\ depth \in 1..Len(levels) /\ depth + 1 \in 1..Len(levels)
      /\ Width(depth + 1) = (Width(depth) + 1) \div 2
      /\ index \in Nat /\ index < Width(depth) /\ Width(depth) \in Nat
  <2>1. depth \in 1..Len(levels)
    BY DEF LInv, InLevel
  <2>. QED
    BY <1>1, <2>1, SiblingInLevel
<1>3. index' \in Nat /\ index' < Width(depth + 1)
  BY <1>1, <1>2, Inside
<1>4. siblings' \in Seq(Hashes)
  <2>1. CASE Promoted(index, Width(depth))
    BY <2>1 DEF ProveLevel, Width, LInv, TypeOK
  <2>2. CASE ~Promoted(index, Width(depth))
    <3>1. siblings' = Append(siblings, levels[depth][IF index % 2 = 0 THEN index + 2 ELSE index])
      BY <2>2 DEF ProveLevel, Width
    <3>2. levels[depth][IF index % 2 = 0 THEN index + 2 ELSE index] \in Hashes
      BY <1>1, <1>2, <2>2, SiblingInLevel DEF Hashes, Width
    <3>. QED
      BY <3>1, <3>2, AppendProperties DEF LInv, TypeOK
  <2>. QED
    BY <2>1, <2>2
<1>5. TypeOK'
  BY <1>1, <1>3, <1>4, TreeStays DEF LInv, TypeOK
<1>6. InLevel'
  BY <1>1, <1>2, <1>3 DEF LInv, InLevel, Width
<1>. QED
  BY <1>1, <1>5, <1>6, TreeStays DEF LInv, Width

LEMMA ProvedLInv ==
    ASSUME LInv, Proved
    PROVE  LInv'
<1>1. /\ UNCHANGED <<leaves, levels, asked, depth, siblings, index, claim, acc, size, cursor, verdict>>
      /\ UNCHANGED tree /\ pc' = "claim" /\ pc = "prove"
  BY DEF Proved, tree, proving, verifying
<1>. QED
  BY <1>1, TreeStays DEF LInv, TypeOK, InLevel, Width, Phases

(* Nobody puts anything but hashes of the tree in a proof.                 *)
LEMMA ClaimedProofs ==
    ASSUME LInv, NEW c \in {Honest} \cup Others
    PROVE  c.proof \in Seq(Hashes)
<1>1. CASE c = Honest
  BY <1>1 DEF Honest, LInv, TypeOK
<1>2. CASE c \in Others
  <2>1. c.proof \in Alterations
    BY <1>2 DEF Others
  <2>2. PICK i, j \in 0..Len(siblings), spurious \in Spurious :
             c.proof = Spliced(i, spurious, j)
    BY <2>1 DEF Alterations
  <2>3. /\ siblings \in Seq(Hashes) /\ Len(siblings) \in Nat
        /\ \A k \in 1..Len(siblings) : siblings[k] \in Hashes
    BY LenProperties, ElementOfSeq DEF LInv, TypeOK
  <2>4. spurious \in Seq(Hashes)
    BY MaxSpuriousAssumption DEF Spurious
  <2>5. SubSeq(siblings, 1, i) \in Seq(Hashes)
    BY <2>3, SubSeqProperties
  <2>6. SubSeq(siblings, j + 1, Len(siblings)) \in Seq(Hashes)
    BY <2>3, SubSeqProperties
  <2>. QED
    BY <2>2, <2>4, <2>5, <2>6, ConcatProperties DEF Spliced
<1>. QED
  BY <1>1, <1>2

LEMMA ClaimNumbers ==
    ASSUME LInv, NEW c \in {Honest} \cup Others
    PROVE  c.index \in Nat /\ c.size \in Nat
<1>1. len \in Nat
  BY DEF LInv, Leveled, IsSeq, len
<1>2. CASE c = Honest
  BY <1>1, <1>2 DEF Honest, LInv, TypeOK
<1>3. CASE c \in Others
  BY <1>3, MaxClaimAssumption DEF Others
<1>. QED
  BY <1>2, <1>3

LEMMA verifyLInv ==
    ASSUME LInv, verify
    PROVE  LInv'
<1>1. /\ UNCHANGED <<leaves, levels, asked, depth, siblings>> /\ UNCHANGED tree
      /\ claim' \in {Honest} \cup Others
      /\ index' = claim'.index /\ size' = claim'.size /\ cursor' = 0
      /\ pc' = IF claim'.index >= claim'.size THEN "done" ELSE "verify"
      /\ pc = "claim"
  BY DEF verify, tree, proving
<1>2. claim'.proof \in Seq(Hashes) /\ index' \in Nat /\ size' \in Nat
  BY <1>1, ClaimedProofs, ClaimNumbers
<1>3. Len(claim'.proof) \in Nat
  BY <1>2, LenProperties
<1>4. TypeOK'
  BY <1>1, <1>2, TreeStays DEF LInv, TypeOK, Phases
<1>5. InLevel'
  BY <1>1, <1>2, <1>3 DEF LInv, InLevel
<1>. QED
  BY <1>1, <1>4, <1>5, TreeStays DEF LInv, Width

LEMMA ClimbLInv ==
    ASSUME LInv, VerifyPromoted \/ VerifyFold
    PROVE  LInv'
<1>1. /\ UNCHANGED <<leaves, levels, pc, asked, depth, siblings, claim>> /\ UNCHANGED tree
      /\ index' = index \div 2 /\ size' = (size + 1) \div 2 /\ pc = "verify"
      /\ cursor' = cursor \/ (cursor < Len(claim.proof) /\ cursor' = cursor + 1)
  BY DEF VerifyPromoted, VerifyFold, tree, proving
<1>2. index \in Nat /\ size \in Nat /\ index < size /\ cursor \in Nat /\ cursor <= Len(claim.proof)
  BY <1>1 DEF LInv, TypeOK, InLevel
<1>3. Len(claim.proof) \in Nat
  BY LenProperties DEF LInv, TypeOK
<1>4. index' \in Nat /\ size' \in Nat /\ index' < size'
  BY <1>1, <1>2, Inside, Halves
<1>5. cursor' \in Nat /\ cursor' <= Len(claim.proof)
  BY <1>1, <1>2, <1>3
<1>6. TypeOK'
  BY <1>1, <1>4, <1>5, TreeStays DEF LInv, TypeOK
<1>7. InLevel'
  BY <1>1, <1>4, <1>5 DEF LInv, InLevel
<1>. QED
  BY <1>1, <1>6, <1>7, TreeStays DEF LInv, Width

LEMMA EndLInv ==
    ASSUME LInv, VerifyShort \/ Verified
    PROVE  LInv'
<1>1. /\ UNCHANGED <<leaves, levels, asked, depth, siblings, index, claim, size, cursor>>
      /\ UNCHANGED tree /\ pc' = "done" /\ pc = "verify"
  BY DEF VerifyShort, Verified, tree, proving, verifying
<1>. QED
  BY <1>1, TreeStays DEF LInv, TypeOK, InLevel, Width, Phases

LEMMA StepLInv ==
    ASSUME LInv, [Next]_vars
    PROVE  LInv'
<1>1. CASE UNCHANGED vars
  <2>1. UNCHANGED <<leaves, levels, pc, asked, depth, siblings, index, claim, size, cursor>> /\ UNCHANGED tree
    BY <1>1 DEF vars, tree
  <2>. QED
    BY <2>1, TreeStays DEF LInv, TypeOK, InLevel, Width
<1>. QED
  BY <1>1, BuildLevelLInv, BuiltLInv, proveLInv, ProveLevelLInv, ProvedLInv,
     verifyLInv, ClimbLInv, EndLInv DEF Next

LEMMA SpecLInv == Spec => []LInv
<1>1. Init => LInv
  BY InitLInv
<1>2. LInv /\ [Next]_vars => LInv'
  BY StepLInv
<1>. QED
  BY <1>1, <1>2, PTL DEF Spec

(* For lists of every length and claims of every index and size: no level   *)
(* is read past its end, no width underflows.                              *)
THEOREM AlwaysInLevel == Spec => []InLevel
  BY SpecLInv, PTL DEF LInv

-----------------------------------------------------------------------------
(* The trail of the prover                                                  *)

(* Where prove was at each level up to the one at hand, and how many        *)
(* siblings it had taken by then.                                          *)
Trail(at, taken) ==
    /\ at \in [1..depth -> Nat] /\ taken \in [1..depth -> Nat]
    /\ at[1] = asked /\ taken[1] = 0
    /\ \A d \in 1..depth : at[d] < Width(d) /\ taken[d] <= Len(siblings)
    /\ taken[depth] = Len(siblings)
    /\ \A d \in 1..depth - 1 :
          /\ Width(d) > 1
          /\ at[d + 1] = at[d] \div 2
          /\ IF Promoted(at[d], Width(d)) THEN taken[d + 1] = taken[d]
             ELSE /\ taken[d + 1] = taken[d] + 1
                  /\ taken[d] < Len(siblings)
                  /\ siblings[taken[d] + 1] =
                        levels[d][IF at[d] % 2 = 0 THEN at[d] + 2 ELSE at[d]]

(* The verifier of an honest claim is at the node of the trail.            *)
Follows(at, taken) ==
    \E d \in 1..depth :
        /\ size = Width(d) /\ index = at[d] /\ cursor = taken[d]
        /\ acc = levels[d][index + 1]

HInv ==
    /\ LInv
    /\ pc \in {"prove", "claim", "verify"} => \E at, taken : Trail(at, taken)
    /\ pc = "prove" => \E at, taken : Trail(at, taken) /\ at[depth] = index
    /\ pc \in {"claim", "verify"} => asked < len /\ Width(depth) = 1
    /\ pc = "verify" /\ claim = Honest =>
          \E at, taken : Trail(at, taken) /\ Follows(at, taken)
    /\ HonestAccepted

(* A step that keeps the tree and the proof keeps the trail.               *)
LEMMA TrailStays ==
    ASSUME LInv, UNCHANGED <<leaves, levels, asked, depth, siblings>>
    PROVE  /\ Honest' = Honest /\ len' = len
           /\ \A at, taken : Trail(at, taken)' = Trail(at, taken)
  BY TreeStays DEF Honest, Trail, Width, len, tree

LEMMA proveHInv ==
    ASSUME HInv, prove
    PROVE  HInv'
<1>1. LInv'
  BY proveLInv DEF HInv
<1>2. /\ len = Width(1) /\ len \in Nat
      /\ asked' \in Nat /\ index' = asked' /\ depth' = 1 /\ siblings' = <<>>
      /\ pc' = IF asked' >= len THEN "done" ELSE "prove"
      /\ UNCHANGED <<leaves, levels>> /\ len' = len
  BY DEF HInv, LInv, Leveled, IsSeq, Width, len, prove, tree
<1>3. ASSUME pc' = "prove"
      PROVE  \E at, taken : Trail(at, taken)' /\ at[depth'] = index'
  <2>0. PICK at, taken : at = [d \in 1..1 |-> asked'] /\ taken = [d \in 1..1 |-> 0]
    OBVIOUS
  <2>1. asked' < len
    BY <1>2, <1>3
  <2>2. at \in [1..1 -> Nat] /\ taken \in [1..1 -> Nat] /\ at[1] = asked' /\ taken[1] = 0
    BY <1>2, <2>0
  <2>3. Len(siblings') = 0
    BY <1>2
  <2>4. Trail(at, taken)'
    BY <1>2, <2>1, <2>2, <2>3 DEF Trail, Width
  <2>. QED
    BY <1>2, <2>2, <2>4
<1>4. HonestAccepted'
  BY <1>2 DEF HonestAccepted
<1>. QED
  BY <1>1, <1>2, <1>3, <1>4 DEF HInv

LEMMA ProveLevelHInv ==
    ASSUME HInv, ProveLevel
    PROVE  HInv'
<1>1. LInv'
  BY ProveLevelLInv DEF HInv
<1>2. /\ UNCHANGED <<leaves, levels, pc, asked, claim>>
      /\ pc = "prove" /\ Width(depth) > 1 /\ Width(depth) \in Nat
      /\ index' = index \div 2 /\ depth' = depth + 1
      /\ depth \in 1..Len(levels) - 1 /\ depth + 1 \in 1..Len(levels)
      /\ Width(depth + 1) = (Width(depth) + 1) \div 2
      /\ index \in Nat /\ index < Width(depth)
      /\ siblings \in Seq(Hashes) /\ Len(siblings) \in Nat
  <2>1. /\ UNCHANGED <<leaves, levels, pc, asked, claim>>
        /\ pc = "prove" /\ Width(depth) > 1
        /\ index' = index \div 2 /\ depth' = depth + 1
    BY DEF ProveLevel, tree, verifying, Width
  <2>2. siblings \in Seq(Hashes) /\ Len(siblings) \in Nat
    BY LenProperties DEF HInv, LInv, TypeOK
  <2>. QED
    BY <2>1, <2>2, SiblingInLevel DEF HInv
<1>3. index' \in Nat /\ index' < Width(depth + 1)
  BY <1>2, Inside
<1>4. PICK at, taken : Trail(at, taken) /\ at[depth] = index
  BY <1>2 DEF HInv
<1>5. IF Promoted(index, Width(depth)) THEN siblings' = siblings
      ELSE siblings' = Append(siblings, levels[depth][IF index % 2 = 0 THEN index + 2 ELSE index])
  BY DEF ProveLevel, Width
<1>6. /\ Len(siblings') \in Nat /\ Len(siblings') >= Len(siblings)
      /\ \A k \in 1..Len(siblings) : siblings'[k] = siblings[k]
      /\ ~Promoted(index, Width(depth)) =>
            /\ Len(siblings') = Len(siblings) + 1
            /\ siblings'[Len(siblings) + 1] =
                  levels[depth][IF index % 2 = 0 THEN index + 2 ELSE index]
      /\ Promoted(index, Width(depth)) => siblings' = siblings
  <2>1. IsSeq(siblings)
    BY <1>2, LenProperties DEF IsSeq
  <2>. DEFINE x == levels[depth][IF index % 2 = 0 THEN index + 2 ELSE index]
              t == Append(siblings, x)
  <2>2. /\ Len(t) = Len(siblings) + 1 /\ t[Len(siblings) + 1] = x
        /\ \A k \in 1..Len(siblings) : t[k] = siblings[k]
    BY <2>1, AppendOf
  <2>3. siblings' = IF Promoted(index, Width(depth)) THEN siblings ELSE t
    BY <1>5
  <2>4. Len(siblings) \in Nat
    BY <1>2
  <2>. HIDE DEF t, x
  <2>5. CASE Promoted(index, Width(depth))
    BY <2>3, <2>4, <2>5
  <2>6. CASE ~Promoted(index, Width(depth))
    BY <2>2, <2>3, <2>4, <2>6 DEF x
  <2>. QED
    BY <2>5, <2>6
<1>. PICK at2, taken2 :
        /\ at2 = [d \in 1..depth + 1 |-> IF d <= depth THEN at[d] ELSE index']
        /\ taken2 = [d \in 1..depth + 1 |-> IF d <= depth THEN taken[d] ELSE Len(siblings')]
  OBVIOUS
<1>7. Trail(at2, taken2)'
  <2>1. /\ at \in [1..depth -> Nat] /\ taken \in [1..depth -> Nat] /\ depth \in Nat \ {0}
        /\ taken[depth] = Len(siblings)
    BY <1>2, <1>4 DEF Trail
  <2>2. /\ at2 \in [1..depth + 1 -> Nat] /\ taken2 \in [1..depth + 1 -> Nat]
        /\ at2[1] = asked /\ taken2[1] = 0 /\ taken2[depth + 1] = Len(siblings')
    <3>1. at[1] = asked /\ taken[1] = 0 /\ 1 \in 1..depth
      BY <1>4, <2>1 DEF Trail
    <3>2. index' \in Nat /\ Len(siblings') \in Nat
      BY <1>3, <1>6
    <3>. QED
      BY <2>1, <3>1, <3>2
  <2>3. \A d \in 1..depth : at2[d] = at[d] /\ taken2[d] = taken[d]
    BY <2>1
  <2>4. at2[depth + 1] = index' /\ taken2[depth + 1] = Len(siblings')
    BY <2>1
  <2>5. \A d \in 1..depth + 1 : at2[d] < Width(d) /\ taken2[d] <= Len(siblings')
    <3>1. \A d \in 1..depth : at[d] < Width(d) /\ taken[d] <= Len(siblings)
      BY <1>4 DEF Trail
    <3>2. \A d \in 1..depth : taken[d] \in Nat
      BY <2>1
    <3>3. Len(siblings) <= Len(siblings') /\ Len(siblings) \in Nat /\ Len(siblings') \in Nat
      BY <1>2, <1>6
    <3>4. \A d \in 1..depth + 1 : d \in 1..depth \/ d = depth + 1
      BY <2>1
    <3>5. ASSUME NEW d \in 1..depth
          PROVE  at2[d] < Width(d) /\ taken2[d] <= Len(siblings')
      <4>1. at2[d] = at[d] /\ taken2[d] = taken[d] /\ taken[d] \in Nat
        BY <2>3, <3>2
      <4>2. at[d] < Width(d) /\ taken[d] <= Len(siblings)
        BY <3>1
      <4>3. taken[d] <= Len(siblings')
        BY <3>3, <4>1, <4>2
      <4>. QED
        BY <4>1, <4>2, <4>3
    <3>6. at2[depth + 1] < Width(depth + 1) /\ taken2[depth + 1] <= Len(siblings')
      BY <1>3, <2>4, <3>3
    <3>. QED
      BY <3>4, <3>5, <3>6
  <2>6. ASSUME NEW d \in 1..depth
        PROVE  /\ Width(d) > 1
               /\ at2[d + 1] = at2[d] \div 2
               /\ IF Promoted(at2[d], Width(d)) THEN taken2[d + 1] = taken2[d]
                  ELSE /\ taken2[d + 1] = taken2[d] + 1
                       /\ taken2[d] < Len(siblings')
                       /\ siblings'[taken2[d] + 1] =
                             levels[d][IF at2[d] % 2 = 0 THEN at2[d] + 2 ELSE at2[d]]
    <3>1. CASE d = depth
      <4>1. at2[d] = index /\ taken2[d] = Len(siblings)
        BY <1>4, <2>1, <2>3, <3>1
      <4>2. at2[d + 1] = index' /\ taken2[d + 1] = Len(siblings')
        BY <2>4, <3>1
      <4>3. Len(siblings) < Len(siblings) + 1
        BY <1>2
      <4>. QED
        BY <1>2, <1>6, <3>1, <4>1, <4>2, <4>3
    <3>2. CASE d # depth
      <4>1. d \in 1..depth - 1 /\ d + 1 \in 1..depth
        BY <2>1, <3>2
      <4>2. /\ Width(d) > 1
            /\ at[d + 1] = at[d] \div 2
            /\ IF Promoted(at[d], Width(d)) THEN taken[d + 1] = taken[d]
               ELSE /\ taken[d + 1] = taken[d] + 1
                    /\ taken[d] < Len(siblings)
                    /\ siblings[taken[d] + 1] =
                          levels[d][IF at[d] % 2 = 0 THEN at[d] + 2 ELSE at[d]]
        BY <1>4, <4>1 DEF Trail
      <4>3. ASSUME taken[d] < Len(siblings)
            PROVE  taken[d] + 1 \in 1..Len(siblings) /\ taken[d] < Len(siblings')
        <5>1. taken[d] \in Nat
          BY <2>1
        <5>2. Len(siblings) \in Nat /\ Len(siblings') \in Nat /\ Len(siblings') >= Len(siblings)
          BY <1>2, <1>6
        <5>. QED
          BY <4>3, <5>1, <5>2
      <4>4. at2[d] = at[d] /\ taken2[d] = taken[d] /\ at2[d + 1] = at[d + 1] /\ taken2[d + 1] = taken[d + 1]
        BY <2>3, <4>1
      <4>5. CASE Promoted(at[d], Width(d))
        BY <4>2, <4>4, <4>5
      <4>6. CASE ~Promoted(at[d], Width(d))
        <5>1. /\ taken[d + 1] = taken[d] + 1 /\ taken[d] < Len(siblings)
              /\ siblings[taken[d] + 1] =
                    levels[d][IF at[d] % 2 = 0 THEN at[d] + 2 ELSE at[d]]
          BY <4>2, <4>6
        <5>2. siblings'[taken[d] + 1] = siblings[taken[d] + 1] /\ taken[d] < Len(siblings')
          BY <1>6, <4>3, <5>1
        <5>. QED
          BY <4>2, <4>4, <4>6, <5>1, <5>2
      <4>. QED
        BY <4>5, <4>6
    <3>. QED
      BY <3>1, <3>2
  <2>7. (depth + 1) - 1 = depth
    BY <2>1
  <2>. QED
    <3>1. \A d \in 1..depth + 1 : Width(d)' = Width(d)
      BY <1>2 DEF Width
    <3>2. \A d \in 1..depth + 1 : levels'[d] = levels[d]
      BY <1>2
    <3>3. /\ depth' = depth + 1 /\ depth' - 1 = depth /\ asked' = asked
          /\ at2 \in [1..depth' -> Nat] /\ taken2 \in [1..depth' -> Nat]
          /\ at2[1] = asked' /\ taken2[1] = 0 /\ taken2[depth'] = Len(siblings')
      BY <1>2, <2>2, <2>7
    <3>4. \A d \in 1..depth' : at2[d] < Width(d)' /\ taken2[d] <= Len(siblings')
      BY <2>5, <3>1, <3>3
    <3>5. \A d \in 1..depth' - 1 :
             /\ Width(d)' > 1
             /\ at2[d + 1] = at2[d] \div 2
             /\ IF Promoted(at2[d], Width(d)') THEN taken2[d + 1] = taken2[d]
                ELSE /\ taken2[d + 1] = taken2[d] + 1
                     /\ taken2[d] < Len(siblings')
                     /\ siblings'[taken2[d] + 1] =
                           levels'[d][IF at2[d] % 2 = 0 THEN at2[d] + 2 ELSE at2[d]]
      <4>1. \A d \in 1..depth' - 1 : d \in 1..depth /\ d \in 1..depth + 1
        BY <2>1, <3>3
      <4>2. ASSUME NEW d \in 1..depth' - 1
            PROVE  /\ d \in 1..depth /\ Width(d)' = Width(d) /\ levels'[d] = levels[d]
        BY <3>1, <3>2, <4>1, <4>2
      <4>3. ASSUME NEW d \in 1..depth' - 1
            PROVE  /\ Width(d)' > 1
                   /\ at2[d + 1] = at2[d] \div 2
                   /\ IF Promoted(at2[d], Width(d)') THEN taken2[d + 1] = taken2[d]
                      ELSE /\ taken2[d + 1] = taken2[d] + 1
                           /\ taken2[d] < Len(siblings')
                           /\ siblings'[taken2[d] + 1] =
                                 levels'[d][IF at2[d] % 2 = 0 THEN at2[d] + 2 ELSE at2[d]]
        <5>1. d \in 1..depth /\ Width(d)' = Width(d) /\ levels'[d] = levels[d]
          BY <4>2
        <5>2. /\ Width(d) > 1
              /\ at2[d + 1] = at2[d] \div 2
              /\ IF Promoted(at2[d], Width(d)) THEN taken2[d + 1] = taken2[d]
                 ELSE /\ taken2[d + 1] = taken2[d] + 1
                      /\ taken2[d] < Len(siblings')
                      /\ siblings'[taken2[d] + 1] =
                            levels[d][IF at2[d] % 2 = 0 THEN at2[d] + 2 ELSE at2[d]]
          BY <2>6, <5>1
        <5>. QED
          BY <5>1, <5>2
      <4>. QED
        BY <4>3
    <3>. HIDE DEF Promoted
    <3>. QED
      BY <3>3, <3>4, <3>5 DEF Trail
<1>8. at2[depth + 1] = index'
  BY <1>2
<1>9. \E at3, taken3 : Trail(at3, taken3)' /\ at3[depth'] = index'
  BY <1>2, <1>7, <1>8
<1>. QED
  BY <1>1, <1>2, <1>9 DEF HInv, HonestAccepted

LEMMA ProvedHInv ==
    ASSUME HInv, Proved
    PROVE  HInv'
<1>1. LInv'
  BY ProvedLInv DEF HInv
<1>2. /\ UNCHANGED <<leaves, levels, asked, depth, siblings>>
      /\ pc = "prove" /\ pc' = "claim" /\ Width(depth) = 1
  BY DEF Proved, tree, proving, Width
<1>3. PICK at, taken : Trail(at, taken)
  BY <1>2 DEF HInv
<1>4. asked < len
  <2>1. depth \in 1..Len(levels) /\ 1 \in 1..depth
    BY DEF HInv, LInv, InLevel
  <2>2. at[1] = asked /\ at[1] < Width(1)
    BY <1>3, <2>1 DEF Trail
  <2>. QED
    BY <2>2 DEF len, Width
<1>5. Trail(at, taken)'
  BY <1>2, <1>3, TrailStays DEF HInv
<1>. QED
  BY <1>1, <1>2, <1>4, <1>5 DEF HInv, HonestAccepted, Width, len

LEMMA verifyHInv ==
    ASSUME HInv, verify
    PROVE  HInv'
<1>1. LInv'
  BY verifyLInv DEF HInv
<1>2. /\ UNCHANGED <<leaves, levels, asked, depth, siblings>>
      /\ pc = "claim"
      /\ acc' = hash_leaf(claim'.leaf) /\ index' = claim'.index /\ size' = claim'.size /\ cursor' = 0
      /\ pc' = IF claim'.index >= claim'.size THEN "done" ELSE "verify"
  BY DEF verify, tree, proving
<1>3. PICK at, taken : Trail(at, taken)
  BY <1>2 DEF HInv
<1>4. Trail(at, taken)'
  BY <1>2, <1>3, TrailStays DEF HInv
<1>5. /\ asked < len /\ Width(depth) = 1 /\ Honest' = Honest /\ len' = len
      /\ asked \in Nat /\ len \in Nat /\ 1 \in 1..depth
  BY <1>2, TrailStays DEF HInv, LInv, TypeOK, InLevel, Leveled, IsSeq, len
<1>6. ASSUME claim' = Honest
      PROVE  pc' = "verify" /\ Follows(at, taken)'
  <2>1. /\ index' = asked /\ size' = len /\ acc' = hash_leaf(leaves[asked + 1])
        /\ pc' = "verify"
    BY <1>2, <1>5, <1>6 DEF Honest
  <2>2. len = Len(leaves) /\ acc' = levels[1][asked + 1]
    <3>1. /\ levels[1] = [i \in 1..Len(leaves) |-> hash_leaf(leaves[i])]
          /\ Len(leaves) \in Nat
      BY DEF HInv, LInv, Leveled, IsSeq
    <3>2. Len(levels[1]) = Len(leaves)
      BY <3>1, LenOf
    <3>. QED
      BY <1>5, <2>1, <3>1, <3>2 DEF len
  <2>3. at[1] = asked /\ taken[1] = 0 /\ len = Width(1)
    BY <1>3 DEF Trail, len, Width
  <2>. QED
    BY <1>2, <1>5, <2>1, <2>2, <2>3 DEF Follows, Width
<1>7. HonestAccepted'
  BY <1>5, <1>6 DEF HonestAccepted
<1>8. pc' = "verify" /\ claim' = Honest' => \E at3, taken3 : Trail(at3, taken3)' /\ Follows(at3, taken3)'
  BY <1>4, <1>5, <1>6
<1>9. pc' \in {"done", "verify"} /\ asked' < len' /\ Width(depth)' = 1
  BY <1>2, <1>5 DEF Width
<1>. QED
  BY <1>1, <1>4, <1>7, <1>8, <1>9 DEF HInv

(* One level up, on the way of the prover.                                 *)
LEMMA ClimbHInv ==
    ASSUME HInv, VerifyPromoted \/ VerifyFold
    PROVE  HInv'
<1>1. LInv'
  BY ClimbLInv DEF HInv
<1>2. /\ UNCHANGED <<leaves, levels, pc, asked, depth, siblings, claim>>
      /\ index' = index \div 2 /\ size' = (size + 1) \div 2 /\ pc = "verify" /\ size > 1
  BY DEF VerifyPromoted, VerifyFold, tree, proving
<1>3. /\ Honest' = Honest /\ len' = len
      /\ \A at, taken : Trail(at, taken)' = Trail(at, taken)
  BY <1>2, TrailStays DEF HInv
<1>4. ASSUME claim = Honest
      PROVE  \E at, taken : Trail(at, taken)' /\ Follows(at, taken)'
  <2>1. PICK at, taken : Trail(at, taken) /\ Follows(at, taken)
    BY <1>2, <1>4 DEF HInv
  <2>2. PICK d \in 1..depth : /\ size = Width(d) /\ index = at[d] /\ cursor = taken[d]
                              /\ acc = levels[d][index + 1]
    BY <2>1 DEF Follows
  <2>3. /\ depth \in 1..Len(levels) /\ Len(levels) \in Nat /\ Width(depth) = 1 /\ IsSeq(levels[d])
        /\ size \in Nat /\ index \in Nat /\ index < size
    <3>1. /\ depth \in 1..Len(levels) /\ Len(levels) \in Nat /\ Width(depth) = 1
          /\ size \in Nat /\ index \in Nat /\ index < size
      BY <1>2 DEF HInv, LInv, TypeOK, InLevel, Leveled, IsSeq
    <3>2. IsSeq(levels[d])
      BY <2>2, <3>1 DEF HInv, LInv, Leveled
    <3>. QED
      BY <3>1, <3>2
  <2>4. d \in 1..depth - 1 /\ d + 1 \in 1..depth /\ d \in 1..Len(levels) - 1
    BY <1>2, <2>2, <2>3
  <2>5. /\ at[d + 1] = at[d] \div 2
        /\ IF Promoted(at[d], Width(d)) THEN taken[d + 1] = taken[d]
           ELSE /\ taken[d + 1] = taken[d] + 1
                /\ siblings[taken[d] + 1] =
                      levels[d][IF at[d] % 2 = 0 THEN at[d] + 2 ELSE at[d]]
    BY <2>1, <2>4 DEF Trail
  <2>6. levels[d + 1] = parents(levels[d])
    BY <2>4 DEF HInv, LInv, Leveled
  <2>7. /\ Width(d + 1) = (size + 1) \div 2
        /\ \A i \in 1..(size + 1) \div 2 :
              levels[d + 1][i] = IF 2 * i <= size THEN hash_node(levels[d][2 * i - 1], levels[d][2 * i])
                                 ELSE levels[d][size]
    BY <2>2, <2>3, <2>6, Parents DEF Width
  <2>8. index \div 2 \in Nat /\ (index \div 2) + 1 \in 1..(size + 1) \div 2
    BY <2>3, Inside, Halves
  <2>9. acc' = levels[d + 1][(index \div 2) + 1] /\ cursor' = taken[d + 1]
    <3>1. CASE VerifyPromoted
      <4>1. Promoted(index, size) /\ UNCHANGED <<acc, cursor>>
        BY <3>1 DEF VerifyPromoted
      <4>2. index = size - 1 /\ size % 2 = 1
        BY <4>1 DEF Promoted
      <4>3. 2 * ((index \div 2) + 1) > size
        BY <2>3, <4>2
      <4>4. levels[d + 1][(index \div 2) + 1] = levels[d][size]
        BY <2>3, <2>7, <2>8, <4>3
      <4>5. acc = levels[d][size]
        <5>1. index + 1 = size
          BY <2>3, <4>2
        <5>. QED
          BY <2>2, <5>1
      <4>6. Promoted(at[d], Width(d))
        BY <2>2, <4>1
      <4>. QED
        BY <2>2, <2>5, <4>1, <4>4, <4>5, <4>6
    <3>2. CASE VerifyFold
      <4>1. /\ ~Promoted(index, size) /\ cursor' = cursor + 1
            /\ acc' = IF index % 2 = 0 THEN hash_node(acc, claim.proof[cursor + 1])
                      ELSE hash_node(claim.proof[cursor + 1], acc)
        BY <3>2 DEF VerifyFold
      <4>2. claim.proof[cursor + 1] = levels[d][IF index % 2 = 0 THEN index + 2 ELSE index]
        BY <1>4, <2>2, <2>5, <4>1 DEF Honest
      <4>3. CASE index % 2 = 0
        <5>1. index + 2 <= size
          BY <2>3, <4>1, <4>3, Inside
        <5>2. 2 * ((index \div 2) + 1) = index + 2 /\ 2 * ((index \div 2) + 1) - 1 = index + 1
          BY <2>3, <4>3, Halves
        <5>3. acc' = hash_node(acc, levels[d][index + 2])
          BY <4>1, <4>2, <4>3
        <5>4. levels[d + 1][(index \div 2) + 1] = hash_node(levels[d][index + 1], levels[d][index + 2])
          BY <2>7, <2>8, <5>1, <5>2
        <5>. QED
          BY <2>2, <2>5, <4>1, <5>3, <5>4
      <4>4. CASE index % 2 # 0
        <5>1. 2 * ((index \div 2) + 1) = index + 1 /\ 2 * ((index \div 2) + 1) - 1 = index
          BY <2>3, <4>4, Halves
        <5>2. index + 1 <= size
          BY <2>3
        <5>3. acc' = hash_node(levels[d][index], acc)
          BY <4>1, <4>2, <4>4
        <5>4. levels[d + 1][(index \div 2) + 1] = hash_node(levels[d][index], levels[d][index + 1])
          BY <2>7, <2>8, <5>1, <5>2
        <5>. QED
          BY <2>2, <2>5, <4>1, <5>3, <5>4
      <4>. QED
        BY <4>3, <4>4
    <3>. QED
      BY <3>1, <3>2
  <2>10. Follows(at, taken)'
    BY <1>2, <2>2, <2>4, <2>5, <2>7, <2>9 DEF Follows, Width
  <2>. QED
    BY <1>3, <2>1, <2>10
<1>. QED
  BY <1>1, <1>2, <1>3, <1>4 DEF HInv, HonestAccepted, Width

(* The verifier of an honest claim does not run short of siblings, and ends *)
(* at the root with none left.                                             *)
LEMMA EndHInv ==
    ASSUME HInv, VerifyShort \/ Verified
    PROVE  HInv'
<1>1. LInv'
  BY EndLInv DEF HInv
<1>2. /\ UNCHANGED <<leaves, levels, asked, depth, siblings, index, claim>>
      /\ pc' = "done" /\ pc = "verify"
  BY DEF VerifyShort, Verified, tree, proving, verifying
<1>3. Honest' = Honest
  BY <1>2, TrailStays DEF HInv
<1>4. ASSUME claim = Honest
      PROVE  verdict'
  <2>1. PICK at, taken : Trail(at, taken) /\ Follows(at, taken)
    BY <1>2, <1>4 DEF HInv
  <2>2. PICK d \in 1..depth : /\ size = Width(d) /\ index = at[d] /\ cursor = taken[d]
                              /\ acc = levels[d][index + 1]
    BY <2>1 DEF Follows
  <2>3. /\ depth \in 1..Len(levels) /\ Len(levels) \in Nat /\ Width(depth) = 1
        /\ size \in Nat /\ index \in Nat /\ index < size
    BY <1>2 DEF HInv, LInv, TypeOK, InLevel, Leveled, IsSeq
  <2>4. claim.proof = siblings
    BY <1>4 DEF Honest
  <2>5. CASE VerifyShort
    <3>1. size > 1 /\ ~Promoted(index, size) /\ cursor = Len(siblings)
      BY <2>4, <2>5 DEF VerifyShort
    <3>2. d \in 1..depth - 1
      BY <2>2, <2>3, <3>1
    <3>3. taken[d] < Len(siblings) /\ taken[d] \in Nat /\ Len(siblings) \in Nat
      BY <2>1, <2>2, <3>1, <3>2, LenProperties DEF Trail, HInv, LInv, TypeOK
    <3>. QED
      BY <2>2, <3>1, <3>3
  <2>6. CASE Verified
    <3>1. size <= 1 /\ verdict' = (acc = root /\ cursor = Len(claim.proof))
      BY <2>6 DEF Verified
    <3>2. d = depth
      <4>1. d \in 1..depth - 1 => Width(d) > 1
        BY <2>1 DEF Trail
      <4>. QED
        BY <2>2, <2>3, <3>1, <4>1
    <3>3. depth = Len(levels)
      <4>1. depth \in 1..Len(levels) - 1 => Width(depth) > 1
        BY DEF HInv, LInv, Leveled
      <4>. QED
        BY <2>3, <4>1
    <3>4. index = 0 /\ acc = levels[depth][1]
      <4>1. index = 0
        BY <2>3, <3>1
      <4>. QED
        BY <2>2, <3>2, <4>1
    <3>5. root = levels[depth][1]
      <4>1. top = levels[depth] /\ Len(top) = 1
        BY <2>3, <3>3 DEF top, Width
      <4>2. top # <<>>
        BY <4>1
      <4>. QED
        BY <4>1, <4>2 DEF root
    <3>6. cursor = Len(siblings)
      BY <2>1, <2>2, <3>2 DEF Trail
    <3>. QED
      BY <2>4, <3>1, <3>4, <3>5, <3>6
  <2>. QED
    BY <2>5, <2>6
<1>. QED
  BY <1>1, <1>2, <1>3, <1>4 DEF HInv, HonestAccepted

LEMMA StepHInv ==
    ASSUME HInv, [Next]_vars
    PROVE  HInv'
<1>1. LInv'
  BY StepLInv DEF HInv
<1>2. CASE BuildLevel \/ Built
  <2>1. pc' \in {"build", "ask"}
    BY <1>2 DEF BuildLevel, Built
  <2>. QED
    BY <1>1, <2>1 DEF HInv, HonestAccepted
<1>3. CASE UNCHANGED vars
  <2>1. UNCHANGED <<leaves, levels, asked, depth, siblings, pc, index, claim, acc, size, cursor, verdict>>
    BY <1>3 DEF vars
  <2>2. /\ Honest' = Honest /\ len' = len
        /\ \A at, taken : Trail(at, taken)' = Trail(at, taken)
    BY <2>1, TrailStays DEF HInv
  <2>3. \A at, taken : Follows(at, taken)' = Follows(at, taken)
    BY <2>1 DEF Follows, Width
  <2>. QED
    BY <1>1, <2>1, <2>2, <2>3 DEF HInv, HonestAccepted, Width
<1>. QED
  BY <1>2, <1>3, proveHInv, ProveLevelHInv, ProvedHInv, verifyHInv, ClimbHInv, EndHInv DEF Next

(* For lists of every length and every index: what prove returns is         *)
(* accepted by verify. Both skip the same levels and take the siblings in  *)
(* the same order from the same sides.                                     *)
THEOREM HonestAlwaysAccepted == Spec => []HonestAccepted
<1>1. Init => HInv
  <2>1. Init => LInv
    BY InitLInv
  <2>. QED
    BY <2>1 DEF Init, HInv, HonestAccepted
<1>2. HInv /\ [Next]_vars => HInv'
  BY StepHInv
<1>3. HInv => HonestAccepted
  BY DEF HInv
<1>. QED
  BY <1>1, <1>2, <1>3, PTL DEF Spec

-----------------------------------------------------------------------------
(* Ways down a hash                                                         *)

Way == Seq({"l", "r"})

Lt(v) == <<"l">> \o v
Rt(v) == <<"r">> \o v

LEMMA Ways ==
    ASSUME NEW v \in Way
    PROVE  /\ Lt(v) \in Way /\ Head(Lt(v)) = "l" /\ Tail(Lt(v)) = v
           /\ Len(Lt(v)) = Len(v) + 1 /\ Lt(v)[1] = "l"
           /\ \A i \in 1..Len(v) : Lt(v)[i + 1] = v[i]
           /\ Rt(v) \in Way /\ Head(Rt(v)) = "r" /\ Tail(Rt(v)) = v
           /\ Len(Rt(v)) = Len(v) + 1 /\ Rt(v)[1] = "r"
           /\ \A i \in 1..Len(v) : Rt(v)[i + 1] = v[i]
           /\ Len(v) \in Nat
<1>1. ASSUME NEW c \in {"l", "r"}
      PROVE  LET w == <<c>> \o v
             IN  /\ w \in Way /\ Len(w) = Len(v) + 1 /\ w[1] = c
                 /\ \A i \in 1..Len(v) : w[i + 1] = v[i]
                 /\ Head(w) = c /\ Tail(w) = v
  <2>. DEFINE w == <<c>> \o v
  <2>1. <<c>> \in Way /\ Len(<<c>>) = 1 /\ <<c>>[1] = c /\ Len(v) \in Nat
    BY DEF Way
  <2>2. /\ w \in Way /\ Len(w) = Len(v) + 1
        /\ \A i \in 1..Len(v) + 1 : w[i] = IF i <= 1 THEN c ELSE v[i - 1]
    BY <2>1, ConcatProperties DEF Way
  <2>. HIDE DEF w
  <2>3. w # <<>>
    BY <2>1, <2>2
  <2>4. /\ Head(w) = w[1] /\ Tail(w) \in Way /\ Len(Tail(w)) = Len(v)
        /\ \A i \in 1..Len(v) : Tail(w)[i] = w[i + 1]
    BY <2>1, <2>2, <2>3, HeadTailProperties DEF Way
  <2>5. \A i \in 1..Len(v) : i + 1 \in 1..Len(v) + 1 /\ ~(i + 1 <= 1) /\ (i + 1) - 1 = i
    BY <2>1
  <2>6. \A i \in 1..Len(v) : w[i + 1] = v[i]
    BY <2>2, <2>5
  <2>7. Tail(w) = v
    BY <2>4, <2>6, SeqEqual DEF Way
  <2>8. w[1] = c
    BY <2>1, <2>2
  <2>. QED
    BY <2>2, <2>4, <2>6, <2>7, <2>8 DEF w
<1>2. Len(v) \in Nat
  BY LenProperties DEF Way
<1>. QED
  BY <1>1, <1>2 DEF Lt, Rt

LEMMA WayApart ==
    ASSUME NEW v \in Way, NEW u \in Way
    PROVE  /\ Lt(v) # Rt(u)
           /\ Lt(v) = Lt(u) => v = u
           /\ Rt(v) = Rt(u) => v = u
<1>1. Head(Lt(v)) = "l" /\ Head(Rt(u)) = "r"
  BY Ways
<1>2. Tail(Lt(v)) = v /\ Tail(Lt(u)) = u /\ Tail(Rt(v)) = v /\ Tail(Rt(u)) = u
  BY Ways
<1>. QED
  BY <1>1, <1>2

(* A hash is a function from ways down.                                     *)
IsHash(h) == DOMAIN h \subseteq Way /\ h = [w \in DOMAIN h |-> h[w]]

LEMMA NodeDomain ==
    ASSUME NEW a, NEW b
    PROVE  DOMAIN hash_node(a, b) = {Lt(v) : v \in DOMAIN a} \cup {Rt(v) : v \in DOMAIN b}
  BY DEF hash_node, Lt, Rt

LEMMA NodeFields ==
    ASSUME NEW a, NEW b, IsHash(a), IsHash(b)
    PROVE  /\ IsHash(hash_node(a, b))
           /\ \A v \in Way : Lt(v) \in DOMAIN hash_node(a, b) <=> v \in DOMAIN a
           /\ \A v \in Way : Rt(v) \in DOMAIN hash_node(a, b) <=> v \in DOMAIN b
           /\ \A v \in DOMAIN a : hash_node(a, b)[Lt(v)] = a[v]
           /\ \A v \in DOMAIN b : hash_node(a, b)[Rt(v)] = b[v]
<1>. DEFINE D == {Lt(v) : v \in DOMAIN a} \cup {Rt(v) : v \in DOMAIN b}
            h == hash_node(a, b)
<1>1. h = [w \in D |-> IF Head(w) = "l" THEN a[Tail(w)] ELSE b[Tail(w)]]
  BY DEF hash_node, Lt, Rt
<1>2. DOMAIN a \subseteq Way /\ DOMAIN b \subseteq Way
  BY DEF IsHash
<1>. HIDE DEF h
<1>3. DOMAIN h = D /\ h = [w \in DOMAIN h |-> h[w]]
  BY <1>1
<1>4. D \subseteq Way
  BY <1>2, Ways
<1>5. \A v \in Way : Lt(v) \in D <=> v \in DOMAIN a
  BY <1>2, WayApart
<1>6. \A v \in Way : Rt(v) \in D <=> v \in DOMAIN b
  BY <1>2, WayApart
<1>7. ASSUME NEW v \in DOMAIN a
      PROVE  h[Lt(v)] = a[v]
  <2>1. Lt(v) \in D /\ Head(Lt(v)) = "l" /\ Tail(Lt(v)) = v
    BY <1>2, Ways
  <2>. QED
    BY <1>1, <2>1
<1>8. ASSUME NEW v \in DOMAIN b
      PROVE  h[Rt(v)] = b[v]
  <2>1. Rt(v) \in D /\ Head(Rt(v)) = "r" /\ Tail(Rt(v)) = v
    BY <1>2, Ways
  <2>. QED
    BY <1>1, <2>1
<1>. QED
  BY <1>3, <1>4, <1>5, <1>6, <1>7, <1>8 DEF IsHash, h

(* Different children make different nodes.                                 *)
LEMMA NodeBinds ==
    ASSUME NEW a, NEW b, NEW c, NEW d, IsHash(a), IsHash(b), IsHash(c), IsHash(d),
           hash_node(a, b) = hash_node(c, d)
    PROVE  a = c /\ b = d
<1>. DEFINE h == hash_node(a, b)
            g == hash_node(c, d)
<1>1. /\ \A v \in Way : Lt(v) \in DOMAIN h <=> v \in DOMAIN a
      /\ \A v \in Way : Rt(v) \in DOMAIN h <=> v \in DOMAIN b
      /\ \A v \in DOMAIN a : h[Lt(v)] = a[v]
      /\ \A v \in DOMAIN b : h[Rt(v)] = b[v]
  BY NodeFields
<1>2. /\ \A v \in Way : Lt(v) \in DOMAIN g <=> v \in DOMAIN c
      /\ \A v \in Way : Rt(v) \in DOMAIN g <=> v \in DOMAIN d
      /\ \A v \in DOMAIN c : g[Lt(v)] = c[v]
      /\ \A v \in DOMAIN d : g[Rt(v)] = d[v]
  BY NodeFields
<1>3. g = h
  OBVIOUS
<1>. HIDE DEF h, g
<1>4. DOMAIN a = DOMAIN c /\ DOMAIN b = DOMAIN d
  BY <1>1, <1>2, <1>3 DEF IsHash
<1>5. (\A v \in DOMAIN a : a[v] = c[v]) /\ (\A v \in DOMAIN b : b[v] = d[v])
  BY <1>1, <1>2, <1>4, <1>3
<1>. QED
  BY <1>4, <1>5 DEF IsHash

-----------------------------------------------------------------------------
(* Left and right                                                           *)

LEMMA SliceSame ==
    ASSUME NEW w \in Way, NEW v \in Way, NEW m \in Nat, m <= Len(w), m <= Len(v)
    PROVE  SubSeq(w, 1, m) = SubSeq(v, 1, m) <=> \A i \in 1..m : w[i] = v[i]
<1>1. Len(w) \in Nat /\ Len(v) \in Nat
  BY Ways
<1>2. ASSUME NEW u \in Way, m <= Len(u), Len(u) \in Nat
      PROVE  /\ SubSeq(u, 1, m) \in Way /\ Len(SubSeq(u, 1, m)) = m
             /\ \A i \in 1..m : SubSeq(u, 1, m)[i] = u[i]
  <2>1. \A i \in 1..m : u[i] \in {"l", "r"}
    BY <1>2, ElementOfSeq DEF Way
  <2>. QED
    BY <1>2, <2>1, SubSeqProperties DEF Way
<1>. DEFINE x == SubSeq(w, 1, m)
            y == SubSeq(v, 1, m)
<1>3. /\ x \in Way /\ Len(x) = m /\ \A i \in 1..m : x[i] = w[i]
      /\ y \in Way /\ Len(y) = m /\ \A i \in 1..m : y[i] = v[i]
  BY <1>1, <1>2
<1>. HIDE DEF x, y
<1>4. ASSUME \A i \in 1..m : w[i] = v[i]
      PROVE  x = y
  <2>1. \A i \in 1..m : x[i] = y[i]
    BY <1>3, <1>4
  <2>. QED
    BY <1>3, <2>1, SeqEqual DEF Way
<1>. QED
  BY <1>3, <1>4 DEF x, y

(* They part at n, w to the left.                                           *)
Parts(w, v, n) ==
    /\ n <= Len(v)
    /\ \A i \in 1..n - 1 : w[i] = v[i]
    /\ w[n] = "l" /\ v[n] = "r"

LEMMA BeforeParts ==
    ASSUME NEW w \in Way, NEW v \in Way
    PROVE  Before(w, v) <=> \E n \in 1..Len(w) : Parts(w, v, n)
<1>1. Len(w) \in Nat /\ Len(v) \in Nat
  BY Ways
<1>2. ASSUME NEW n \in 1..Len(w), n <= Len(v)
      PROVE  SubSeq(w, 1, n - 1) = SubSeq(v, 1, n - 1) <=> \A i \in 1..n - 1 : w[i] = v[i]
  <2>1. n - 1 \in Nat /\ n - 1 <= Len(w) /\ n - 1 <= Len(v)
    BY <1>1, <1>2
  <2>. QED
    BY <2>1, SliceSame
<1>. QED
  BY <1>2 DEF Before, Parts

LEMMA BeforeWays ==
    ASSUME NEW w \in Way, NEW v \in Way
    PROVE  /\ ~Before(w, w)
           /\ Before(Lt(w), Lt(v)) <=> Before(w, v)
           /\ Before(Rt(w), Rt(v)) <=> Before(w, v)
           /\ Before(Lt(w), Rt(v))
           /\ ~Before(Rt(w), Lt(v))
<1>1. Len(w) \in Nat /\ Len(v) \in Nat
  BY Ways
<1>2. ~Before(w, w)
  BY BeforeParts DEF Parts
<1>3. ASSUME NEW x \in Way, NEW y \in Way, NEW c \in {"l", "r"},
             Len(x) = Len(w) + 1, Len(y) = Len(v) + 1, x[1] = c, y[1] = c,
             \A i \in 1..Len(w) : x[i + 1] = w[i],
             \A i \in 1..Len(v) : y[i + 1] = v[i]
      PROVE  Before(x, y) <=> Before(w, v)
  <2>1. ASSUME NEW n \in 1..Len(w), Parts(w, v, n)
        PROVE  n + 1 \in 1..Len(x) /\ Parts(x, y, n + 1)
    <3>1. n + 1 \in 1..Len(x) /\ n \in 1..Len(v) /\ n + 1 <= Len(y)
      BY <1>1, <1>3, <2>1 DEF Parts
    <3>2. x[n + 1] = "l" /\ y[n + 1] = "r"
      BY <1>3, <2>1, <3>1 DEF Parts
    <3>3. ASSUME NEW i \in 1..(n + 1) - 1
          PROVE  x[i] = y[i]
      <4>1. CASE i = 1
        BY <1>3, <4>1
      <4>2. CASE i # 1
        <5>1. i - 1 \in 1..n - 1 /\ i - 1 \in 1..Len(w) /\ i - 1 \in 1..Len(v) /\ (i - 1) + 1 = i
          BY <1>1, <3>1, <4>2
        <5>2. w[i - 1] = v[i - 1]
          BY <2>1, <5>1 DEF Parts
        <5>3. x[(i - 1) + 1] = w[i - 1] /\ y[(i - 1) + 1] = v[i - 1]
          BY <1>3, <5>1
        <5>. QED
          BY <5>1, <5>2, <5>3
      <4>. QED
        BY <4>1, <4>2
    <3>. QED
      BY <3>1, <3>2, <3>3 DEF Parts
  <2>2. ASSUME NEW n \in 1..Len(x), Parts(x, y, n)
        PROVE  n - 1 \in 1..Len(w) /\ Parts(w, v, n - 1)
    <3>1. n # 1
      BY <1>3, <2>2 DEF Parts
    <3>2. /\ n - 1 \in 1..Len(w) /\ n - 1 \in 1..Len(v) /\ (n - 1) + 1 = n /\ n - 1 <= Len(v)
      BY <1>1, <1>3, <2>2, <3>1 DEF Parts
    <3>3. w[n - 1] = "l" /\ v[n - 1] = "r"
      <4>1. x[(n - 1) + 1] = w[n - 1] /\ y[(n - 1) + 1] = v[n - 1]
        BY <1>3, <3>2
      <4>. QED
        BY <2>2, <3>2, <4>1 DEF Parts
    <3>4. ASSUME NEW i \in 1..(n - 1) - 1
          PROVE  w[i] = v[i]
      <4>1. i \in 1..Len(w) /\ i \in 1..Len(v) /\ i + 1 \in 1..n - 1
        BY <1>1, <3>2
      <4>2. x[i + 1] = y[i + 1]
        BY <2>2, <4>1 DEF Parts
      <4>. QED
        BY <1>3, <4>1, <4>2
    <3>. QED
      BY <3>2, <3>3, <3>4 DEF Parts
  <2>. QED
    BY <2>1, <2>2, BeforeParts
<1>4. Before(Lt(w), Lt(v)) <=> Before(w, v)
  BY <1>3, Ways
<1>5. Before(Rt(w), Rt(v)) <=> Before(w, v)
  BY <1>3, Ways
<1>6. Before(Lt(w), Rt(v))
  <2>1. /\ Lt(w)[1] = "l" /\ Rt(v)[1] = "r" /\ Lt(w) \in Way /\ Rt(v) \in Way
        /\ Len(Lt(w)) = Len(w) + 1 /\ Len(Rt(v)) = Len(v) + 1
    BY Ways
  <2>2. 1 \in 1..Len(Lt(w)) /\ 1 <= Len(Rt(v))
    BY <1>1, <2>1
  <2>3. Parts(Lt(w), Rt(v), 1)
    BY <2>1, <2>2 DEF Parts
  <2>. QED
    BY <2>1, <2>2, <2>3, BeforeParts
<1>7. ~Before(Rt(w), Lt(v))
  <2>1. Lt(v)[1] = "l" /\ Rt(w)[1] = "r" /\ Lt(v) \in Way /\ Rt(w) \in Way /\ Len(Rt(w)) \in Nat
    BY <1>1, Ways
  <2>2. ASSUME NEW n \in 1..Len(Rt(w)), Parts(Rt(w), Lt(v), n)
        PROVE  FALSE
    <3>1. n # 1
      BY <2>1, <2>2 DEF Parts
    <3>2. 1 \in 1..n - 1
      BY <2>1, <3>1
    <3>. QED
      BY <2>1, <2>2, <3>2 DEF Parts
  <2>. QED
    BY <2>1, <2>2, BeforeParts
<1>. QED
  BY <1>2, <1>4, <1>5, <1>6, <1>7

-----------------------------------------------------------------------------
(* Counting the leaves                                                      *)

LEMMA Counted ==
    ASSUME NEW S, S \subseteq Way, IsFiniteSet(S)
    PROVE  /\ IsFiniteSet({Lt(v) : v \in S}) /\ Cardinality({Lt(v) : v \in S}) = Cardinality(S)
           /\ IsFiniteSet({Rt(v) : v \in S}) /\ Cardinality({Rt(v) : v \in S}) = Cardinality(S)
<1>1. ExistsBijection(S, {Lt(v) : v \in S})
  <2>. DEFINE T == {Lt(v) : v \in S}
              f == [v \in S |-> Lt(v)]
  <2>1. f \in [S -> T] /\ \A t \in T : \E v \in S : f[v] = t
    OBVIOUS
  <2>2. \A u, v \in S : f[u] = f[v] => u = v
    BY WayApart
  <2>. HIDE DEF T, f
  <2>3. f \in Bijection(S, T)
    BY <2>1, <2>2, Fun_IsBij
  <2>. QED
    BY <2>3 DEF T, ExistsBijection
<1>2. ExistsBijection(S, {Rt(v) : v \in S})
  <2>. DEFINE T == {Rt(v) : v \in S}
              f == [v \in S |-> Rt(v)]
  <2>1. f \in [S -> T] /\ \A t \in T : \E v \in S : f[v] = t
    OBVIOUS
  <2>2. \A u, v \in S : f[u] = f[v] => u = v
    BY WayApart
  <2>. HIDE DEF T, f
  <2>3. f \in Bijection(S, T)
    BY <2>1, <2>2, Fun_IsBij
  <2>. QED
    BY <2>3 DEF T, ExistsBijection
<1>. QED
  BY <1>1, <1>2, FS_Bijection

Left(h, w) == {v \in DOMAIN h : Before(v, w)}

LEMMA CountNode ==
    ASSUME NEW a, NEW b, IsHash(a), IsHash(b), IsFiniteSet(DOMAIN a), IsFiniteSet(DOMAIN b)
    PROVE  /\ IsFiniteSet(DOMAIN hash_node(a, b))
           /\ Cardinality(DOMAIN hash_node(a, b))
                 = Cardinality(DOMAIN a) + Cardinality(DOMAIN b)
           /\ \A w \in DOMAIN a :
                 Cardinality(Left(hash_node(a, b), Lt(w))) = Cardinality(Left(a, w))
           /\ \A w \in DOMAIN b :
                 Cardinality(Left(hash_node(a, b), Rt(w)))
                    = Cardinality(DOMAIN a) + Cardinality(Left(b, w))
<1>. DEFINE D == DOMAIN hash_node(a, b)
<1>1. DOMAIN a \subseteq Way /\ DOMAIN b \subseteq Way
  BY DEF IsHash
<1>2. D = {Lt(v) : v \in DOMAIN a} \cup {Rt(v) : v \in DOMAIN b}
  BY NodeDomain
<1>3. ASSUME NEW S \in SUBSET DOMAIN a, NEW T \in SUBSET DOMAIN b,
             IsFiniteSet(S), IsFiniteSet(T)
      PROVE  LET U == {Lt(v) : v \in S} \cup {Rt(v) : v \in T}
             IN  IsFiniteSet(U) /\ Cardinality(U) = Cardinality(S) + Cardinality(T)
  <2>. DEFINE X == {Lt(v) : v \in S}
              Y == {Rt(v) : v \in T}
  <2>1. /\ IsFiniteSet(X) /\ Cardinality(X) = Cardinality(S)
        /\ IsFiniteSet(Y) /\ Cardinality(Y) = Cardinality(T)
    BY <1>1, <1>3, Counted
  <2>2. X \cap Y = {}
    BY <1>1, WayApart
  <2>. HIDE DEF X, Y
  <2>3. IsFiniteSet(X \cup Y)
        /\ Cardinality(X \cup Y) = Cardinality(X) + Cardinality(Y) - Cardinality(X \cap Y)
    BY <2>1, FS_Union
  <2>4. Cardinality(X) \in Nat /\ Cardinality(Y) \in Nat /\ Cardinality(X \cap Y) = 0
    BY <2>1, <2>2, FS_CardinalityType, FS_EmptySet
  <2>5. Cardinality(X \cup Y) = Cardinality(S) + Cardinality(T)
    BY <2>1, <2>3, <2>4
  <2>. QED
    BY <2>3, <2>5 DEF X, Y
<1>4. IsFiniteSet(D) /\ Cardinality(D) = Cardinality(DOMAIN a) + Cardinality(DOMAIN b)
  BY <1>2, <1>3
<1>5. ASSUME NEW w \in DOMAIN a
      PROVE  Cardinality(Left(hash_node(a, b), Lt(w))) = Cardinality(Left(a, w))
  <2>. DEFINE S == Left(a, w)
  <2>1. S \in SUBSET DOMAIN a /\ IsFiniteSet(S)
    BY FS_Subset DEF Left
  <2>2. Left(hash_node(a, b), Lt(w)) = {Lt(v) : v \in S}
    BY <1>1, <1>2, BeforeWays DEF Left
  <2>3. S \subseteq Way
    BY <1>1, <2>1
  <2>. HIDE DEF S
  <2>4. Cardinality({Lt(v) : v \in S}) = Cardinality(S)
    BY <2>1, <2>3, Counted
  <2>. QED
    BY <2>2, <2>4 DEF S
<1>6. ASSUME NEW w \in DOMAIN b
      PROVE  Cardinality(Left(hash_node(a, b), Rt(w)))
                = Cardinality(DOMAIN a) + Cardinality(Left(b, w))
  <2>. DEFINE T == Left(b, w)
  <2>1. T \in SUBSET DOMAIN b /\ IsFiniteSet(T)
    BY FS_Subset DEF Left
  <2>2. Left(hash_node(a, b), Rt(w)) = {Lt(v) : v \in DOMAIN a} \cup {Rt(v) : v \in T}
    BY <1>1, <1>2, BeforeWays DEF Left
  <2>. HIDE DEF T
  <2>3. Cardinality({Lt(v) : v \in DOMAIN a} \cup {Rt(v) : v \in T})
           = Cardinality(DOMAIN a) + Cardinality(T)
    BY <1>3, <2>1
  <2>. QED
    BY <2>2, <2>3 DEF T
<1>. QED
  BY <1>4, <1>5, <1>6

(* The leaves from + 1 to to are below h, in their order.                  *)
Holds(h, from, to) ==
    /\ IsHash(h) /\ IsFiniteSet(DOMAIN h)
    /\ from \in Nat /\ to \in Nat
    /\ from + Cardinality(DOMAIN h) = to
    /\ \A w \in DOMAIN h : h[w] = leaves[1 + (from + Cardinality(Left(h, w)))]

LEMMA LeafHolds ==
    ASSUME NEW i \in Nat \ {0}
    PROVE  Holds(hash_leaf(leaves[i]), i - 1, i)
<1>. DEFINE h == hash_leaf(leaves[i])
<1>1. h = [w \in {<<>>} |-> leaves[i]] /\ <<>> \in Way
  BY DEF hash_leaf, Way
<1>. HIDE DEF h
<1>2. DOMAIN h = {<<>>} /\ h[<<>>] = leaves[i] /\ IsHash(h)
  BY <1>1 DEF IsHash
<1>3. Left(h, <<>>) = {}
  BY <1>1, <1>2, BeforeWays DEF Left
<1>4. IsFiniteSet(DOMAIN h) /\ Cardinality(DOMAIN h) = 1 /\ Cardinality(Left(h, <<>>)) = 0
  <2>1. IsFiniteSet({<<>>}) /\ Cardinality({<<>>}) = 1
    BY FS_Singleton
  <2>2. Cardinality({}) = 0
    BY FS_EmptySet
  <2>. QED
    BY <1>2, <1>3, <2>1, <2>2
<1>5. i - 1 \in Nat /\ (i - 1) + 1 = i /\ 1 + ((i - 1) + 0) = i
  OBVIOUS
<1>6. ASSUME NEW w \in DOMAIN h
      PROVE  h[w] = leaves[1 + ((i - 1) + Cardinality(Left(h, w)))]
  <2>1. w = <<>>
    BY <1>2
  <2>. QED
    BY <2>1, <1>2, <1>4, <1>5
<1>. QED
  BY <1>2, <1>4, <1>5, <1>6 DEF Holds, h

LEMMA NodeHolds ==
    ASSUME NEW a, NEW b, NEW from, NEW mid, NEW to, Holds(a, from, mid), Holds(b, mid, to)
    PROVE  Holds(hash_node(a, b), from, to)
<1>. DEFINE h == hash_node(a, b)
<1>1. /\ IsHash(a) /\ IsFiniteSet(DOMAIN a) /\ from + Cardinality(DOMAIN a) = mid
      /\ IsHash(b) /\ IsFiniteSet(DOMAIN b) /\ mid + Cardinality(DOMAIN b) = to
      /\ from \in Nat /\ mid \in Nat /\ to \in Nat
  BY DEF Holds
<1>2. /\ Cardinality(DOMAIN a) \in Nat /\ Cardinality(DOMAIN b) \in Nat
      /\ \A w : Cardinality(Left(a, w)) \in Nat /\ Cardinality(Left(b, w)) \in Nat
  <2>1. \A w : Left(a, w) \in SUBSET DOMAIN a /\ Left(b, w) \in SUBSET DOMAIN b
    BY DEF Left
  <2>2. \A w : IsFiniteSet(Left(a, w)) /\ IsFiniteSet(Left(b, w))
    BY <1>1, <2>1, FS_Subset
  <2>. QED
    BY <1>1, <2>2, FS_CardinalityType
<1>3. /\ IsFiniteSet(DOMAIN h)
      /\ Cardinality(DOMAIN h) = Cardinality(DOMAIN a) + Cardinality(DOMAIN b)
      /\ \A w \in DOMAIN a : Cardinality(Left(h, Lt(w))) = Cardinality(Left(a, w))
      /\ \A w \in DOMAIN b :
            Cardinality(Left(h, Rt(w))) = Cardinality(DOMAIN a) + Cardinality(Left(b, w))
  BY <1>1, CountNode
<1>4. /\ IsHash(h)
      /\ \A v \in DOMAIN a : h[Lt(v)] = a[v]
      /\ \A v \in DOMAIN b : h[Rt(v)] = b[v]
  BY <1>1, NodeFields
<1>5. DOMAIN h = {Lt(v) : v \in DOMAIN a} \cup {Rt(v) : v \in DOMAIN b}
  BY NodeDomain
<1>. HIDE DEF h
<1>6. ASSUME NEW v \in DOMAIN a
      PROVE  h[Lt(v)] = leaves[1 + (from + Cardinality(Left(h, Lt(v))))]
  BY <1>3, <1>4 DEF Holds
<1>7. ASSUME NEW v \in DOMAIN b
      PROVE  h[Rt(v)] = leaves[1 + (from + Cardinality(Left(h, Rt(v))))]
  <2>1. b[v] = leaves[1 + (mid + Cardinality(Left(b, v)))]
    BY DEF Holds
  <2>2. mid + Cardinality(Left(b, v)) = from + Cardinality(Left(h, Rt(v)))
    BY <1>1, <1>2, <1>3
  <2>. QED
    BY <1>4, <2>1, <2>2
<1>8. ASSUME NEW w \in DOMAIN h
      PROVE  h[w] = leaves[1 + (from + Cardinality(Left(h, w)))]
  BY <1>5, <1>6, <1>7
<1>9. from + Cardinality(DOMAIN h) = to
  BY <1>1, <1>2, <1>3
<1>. QED
  BY <1>1, <1>3, <1>4, <1>8, <1>9 DEF Holds, h

-----------------------------------------------------------------------------
(* The list read off the root                                               *)

(* The nodes of the last level hold the list, one after the other.         *)
Covers(start) ==
    LET n == Len(levels)
        width == Width(n)
    IN  /\ start \in [1..width + 1 -> Nat]
        /\ start[1] = 0 /\ start[width + 1] = Len(leaves)
        /\ \A i \in 1..width : Holds(levels[n][i], start[i], start[i + 1])

LEMMA HoldsStays ==
    ASSUME UNCHANGED leaves
    PROVE  \A h, from, to : Holds(h, from, to)' = Holds(h, from, to)
  BY DEF Holds

LEMMA InitCovers ==
    ASSUME Init
    PROVE  \E start : Covers(start)
<1>. DEFINE first == [i \in 1..Len(leaves) |-> hash_leaf(leaves[i])]
            start == [i \in 1..Len(leaves) + 1 |-> i - 1]
<1>1. IsSeq(leaves)
  BY ListsAssumption DEF Init, IsSeq
<1>2. Len(first) = Len(leaves) /\ Len(leaves) \in Nat
  BY <1>1, LenOf DEF IsSeq
<1>3. Len(levels) = 1 /\ levels[1] = first
  <2>1. levels = <<first>>
    BY DEF Init
  <2>. HIDE DEF first
  <2>. QED
    BY <2>1
<1>4. \A i \in 1..Len(leaves) : first[i] = hash_leaf(leaves[i]) /\ i \in Nat \ {0}
  OBVIOUS
<1>5. /\ start \in [1..Len(leaves) + 1 -> Nat] /\ start[1] = 0
      /\ start[Len(leaves) + 1] = Len(leaves)
      /\ \A i \in 1..Len(leaves) : start[i] = i - 1 /\ start[i + 1] = i
  BY <1>2
<1>. HIDE DEF first, start
<1>6. \A i \in 1..Len(leaves) : Holds(first[i], start[i], start[i + 1])
  BY <1>4, <1>5, LeafHolds
<1>. QED
  BY <1>2, <1>3, <1>5, <1>6 DEF Covers, Width

LEMMA BuildLevelCovers ==
    ASSUME LInv, BuildLevel, NEW start, Covers(start)
    PROVE  (\E s : Covers(s))'
<1>. DEFINE n == Len(levels)
            w == Width(n)
            up == (w + 1) \div 2
<1>0. PICK above, s :
         /\ above = parents(levels[n])
         /\ s = [i \in 1..up + 1 |-> IF i = up + 1 THEN start[w + 1] ELSE start[2 * i - 1]]
  OBVIOUS
<1>1. /\ levels' = Append(levels, above) /\ w > 1 /\ UNCHANGED leaves
  BY <1>0 DEF BuildLevel, top, Width
<1>2. IsSeq(levels) /\ n \in Nat \ {0} /\ IsSeq(levels[n]) /\ w \in Nat
  <2>1. IsSeq(levels) /\ n \in Nat \ {0}
    BY DEF LInv, Leveled, IsSeq
  <2>2. IsSeq(levels[n])
    BY <2>1 DEF LInv, Leveled
  <2>. QED
    BY <2>1, <2>2 DEF IsSeq, Width
<1>3. /\ IsSeq(above) /\ Len(above) = up
      /\ \A i \in 1..up :
            above[i] = IF 2 * i <= w THEN hash_node(levels[n][2 * i - 1], levels[n][2 * i])
                       ELSE levels[n][w]
  BY <1>0, <1>2, Parents DEF Width
<1>4. Len(levels') = n + 1 /\ levels'[n + 1] = above
  BY <1>1, <1>2, AppendOf
<1>5. /\ start \in [1..w + 1 -> Nat] /\ start[1] = 0 /\ start[w + 1] = Len(leaves)
      /\ \A i \in 1..w : Holds(levels[n][i], start[i], start[i + 1])
  BY DEF Covers
<1>6. /\ up \in Nat /\ up >= 1 /\ 2 * up >= w /\ 2 * up <= w + 1
  BY <1>1, <1>2, Halves
<1>7. s \in [1..up + 1 -> Nat] /\ s[1] = 0 /\ s[up + 1] = Len(leaves)
  <2>1. ASSUME NEW i \in 1..up + 1
        PROVE  (IF i = up + 1 THEN start[w + 1] ELSE start[2 * i - 1]) \in Nat
    <3>1. w + 1 \in 1..w + 1 /\ (i # up + 1 => 2 * i - 1 \in 1..w + 1)
      BY <1>2, <1>6
    <3>. QED
      BY <3>1, <1>5
  <2>2. 1 \in 1..up + 1 /\ 1 # up + 1 /\ up + 1 \in 1..up + 1 /\ 2 * 1 - 1 = 1
    BY <1>6
  <2>. QED
    BY <1>0, <1>5, <2>1, <2>2
<1>8. \A i \in 1..up :
         /\ s[i] = start[2 * i - 1]
         /\ s[i + 1] = IF i = up THEN start[w + 1] ELSE start[2 * i + 1]
  <2>1. ASSUME NEW i \in 1..up
        PROVE  /\ i \in 1..up + 1 /\ i + 1 \in 1..up + 1 /\ i # up + 1
               /\ i + 1 = up + 1 <=> i = up
               /\ 2 * (i + 1) - 1 = 2 * i + 1
    BY <1>6
  <2>. QED
    BY <1>0, <2>1
<1>. HIDE DEF up, w, n
<1>9. ASSUME NEW i \in 1..up
      PROVE  Holds(above[i], s[i], s[i + 1])
  <2>1. CASE 2 * i <= w
    <3>1. /\ 2 * i - 1 \in 1..w /\ 2 * i \in 1..w /\ (2 * i - 1) + 1 = 2 * i
          /\ i = up => w = 2 * i
      BY <1>2, <1>6, <2>1
    <3>2. /\ Holds(levels[n][2 * i - 1], start[2 * i - 1], start[2 * i])
          /\ Holds(levels[n][2 * i], start[2 * i], start[2 * i + 1])
      BY <3>1, <1>5
    <3>3. Holds(hash_node(levels[n][2 * i - 1], levels[n][2 * i]), start[2 * i - 1], start[2 * i + 1])
      BY <3>2, NodeHolds
    <3>4. s[i] = start[2 * i - 1] /\ s[i + 1] = start[2 * i + 1]
      BY <1>8, <3>1
    <3>. QED
      BY <1>3, <2>1, <3>3, <3>4
  <2>2. CASE ~(2 * i <= w)
    <3>1. i = up /\ w = 2 * i - 1 /\ w \in 1..w
      <4>1. w > 1 /\ w \in Nat
        BY <1>1, <1>2
      <4>. QED
        BY <4>1, <1>6, <2>2
    <3>2. Holds(levels[n][w], start[w], start[w + 1])
      BY <3>1, <1>5
    <3>3. s[i] = start[w] /\ s[i + 1] = start[w + 1]
      BY <1>8, <3>1
    <3>. QED
      BY <1>3, <2>2, <3>2, <3>3
  <2>. QED
    BY <2>1, <2>2
<1>10. Width(Len(levels))' = up /\ levels'[Len(levels')] = above /\ Len(leaves') = Len(leaves)
  BY <1>1, <1>3, <1>4 DEF Width
<1>11. ASSUME NEW i \in 1..up
       PROVE  Holds(above[i], s[i], s[i + 1])'
  <2>1. PICK x, y, z : x = above[i] /\ y = s[i] /\ z = s[i + 1]
    OBVIOUS
  <2>2. Holds(x, y, z)'
    BY <1>1, <1>9, <2>1, HoldsStays
  <2>. QED
    BY <2>1, <2>2
<1>12. Covers(s)'
  BY <1>7, <1>10, <1>11 DEF Covers
<1>. QED
  BY <1>12

RInv == LInv /\ \E start : Covers(start)

LEMMA RootBound ==
    ASSUME RInv
    PROVE  RootBindsList
<1>. DEFINE n == Len(levels)
<1>1. SUFFICES ASSUME pc # "build"
               PROVE  /\ Cardinality(DOMAIN root) = Len(leaves)
                      /\ \A w \in DOMAIN root :
                            root[w] = leaves[1 + Cardinality({v \in DOMAIN root : Before(v, w)})]
  BY DEF RootBindsList
<1>2. PICK start : Covers(start)
  BY DEF RInv
<1>3. /\ IsSeq(levels[n]) /\ Width(n) \in Nat /\ Width(n) <= 1 /\ n \in Nat \ {0}
      /\ top = levels[n] /\ Len(top) = Width(n)
  BY <1>1 DEF RInv, LInv, Leveled, IsSeq, Width, top
<1>4. CASE Width(n) = 0
  <2>1. top = <<>>
    BY <1>3, <1>4 DEF IsSeq, Width
  <2>2. root = empty_root
    BY <2>1 DEF root
  <2>3. DOMAIN root = {}
    BY <2>2 DEF empty_root
  <2>4. Len(leaves) = 0
    BY <1>2, <1>4 DEF Covers
  <2>. QED
    BY <2>3, <2>4, FS_EmptySet
<1>5. CASE Width(n) = 1
  <2>1. top # <<>>
    <3>1. Len(top) = 1
      BY <1>3, <1>5
    <3>. QED
      BY <3>1
  <2>2. root = levels[n][1]
    BY <1>3, <1>5, <2>1 DEF root
  <2>3. Holds(root, 0, Len(leaves))
    <3>1. /\ start[1] = 0 /\ start[2] = Len(leaves) /\ 1 \in 1..Width(n)
          /\ \A i \in 1..Width(n) : Holds(levels[n][i], start[i], start[i + 1])
      BY <1>2, <1>5 DEF Covers
    <3>2. Holds(levels[n][1], start[1], start[2])
      BY <3>1
    <3>. QED
      BY <2>2, <3>1, <3>2
  <2>4. /\ IsFiniteSet(DOMAIN root) /\ 0 + Cardinality(DOMAIN root) = Len(leaves)
        /\ \A w \in DOMAIN root : root[w] = leaves[1 + (0 + Cardinality(Left(root, w)))]
    BY <2>3 DEF Holds
  <2>5. \A w : Cardinality(Left(root, w)) \in Nat
    <3>1. \A w : Left(root, w) \in SUBSET DOMAIN root
      BY DEF Left
    <3>. QED
      BY <3>1, <2>4, FS_Subset, FS_CardinalityType
  <2>6. Cardinality(DOMAIN root) \in Nat
    BY <2>4, FS_CardinalityType
  <2>7. Cardinality(DOMAIN root) = Len(leaves)
    BY <2>4, <2>6
  <2>8. \A w \in DOMAIN root : root[w] = leaves[1 + Cardinality(Left(root, w))]
    BY <2>4, <2>5
  <2>. QED
    BY <2>7, <2>8 DEF Left
<1>. QED
  BY <1>3, <1>4, <1>5

LEMMA SpecRInv == Spec => []RInv
<1>1. Init => RInv
  BY InitLInv, InitCovers DEF RInv
<1>2. ASSUME RInv, [Next]_vars
      PROVE  RInv'
  <2>1. LInv'
    BY <1>2, StepLInv DEF RInv
  <2>2. PICK start : Covers(start)
    BY <1>2 DEF RInv
  <2>3. CASE BuildLevel
    BY <1>2, <2>1, <2>2, <2>3, BuildLevelCovers DEF RInv
  <2>4. CASE UNCHANGED <<leaves, levels>>
    <3>1. Covers(start)'
      BY <2>2, <2>4, HoldsStays DEF Covers, Width
    <3>. QED
      BY <2>1, <3>1 DEF RInv
  <2>5. BuildLevel \/ UNCHANGED <<leaves, levels>>
    BY <1>2 DEF Next, vars, tree, Built, prove, ProveLevel, Proved, verify, VerifyPromoted,
                VerifyFold, VerifyShort, Verified
  <2>. QED
    BY <2>3, <2>4, <2>5
<1>. QED
  BY <1>1, <1>2, PTL DEF Spec

(* Whatever the list: all of it can be read off the root, in order and with *)
(* its length, so that two lists never have the same root.                  *)
THEOREM RootAlwaysBinds == Spec => []RootBindsList
<1>1. RInv => RootBindsList
  BY RootBound
<1>. QED
  BY <1>1, SpecRInv, PTL

-----------------------------------------------------------------------------
(* What is accepted is where it is claimed to be                            *)

LEMMA NodeAbove ==
    ASSUME LInv, NEW d \in 1..Len(levels) - 1, NEW i \in Nat, i < Width(d)
    PROVE  /\ Width(d + 1) = (Width(d) + 1) \div 2
           /\ (i \div 2) + 1 \in 1..Width(d + 1)
           /\ Promoted(i, Width(d)) => levels[d + 1][(i \div 2) + 1] = levels[d][i + 1]
           /\ ~Promoted(i, Width(d)) /\ i % 2 = 0 =>
                 /\ i + 2 \in 1..Width(d)
                 /\ levels[d + 1][(i \div 2) + 1] = hash_node(levels[d][i + 1], levels[d][i + 2])
           /\ i % 2 # 0 =>
                 /\ i \in 1..Width(d)
                 /\ levels[d + 1][(i \div 2) + 1] = hash_node(levels[d][i], levels[d][i + 1])
<1>. DEFINE w == Width(d)
            j == (i \div 2) + 1
<1>1. /\ IsSeq(levels[d]) /\ w \in Nat /\ levels[d + 1] = parents(levels[d])
  <2>1. d \in 1..Len(levels) /\ Len(levels) \in Nat
    BY DEF LInv, Leveled, IsSeq
  <2>. QED
    BY <2>1 DEF LInv, Leveled, IsSeq, Width
<1>2. /\ Width(d + 1) = (w + 1) \div 2
      /\ \A k \in 1..(w + 1) \div 2 :
            levels[d + 1][k] = IF 2 * k <= w THEN hash_node(levels[d][2 * k - 1], levels[d][2 * k])
                               ELSE levels[d][w]
  BY <1>1, Parents DEF Width
<1>3. i \div 2 \in Nat /\ j \in 1..(w + 1) \div 2
  BY <1>1, Inside, Halves
<1>4. ASSUME Promoted(i, w)
      PROVE  levels[d + 1][j] = levels[d][i + 1]
  <2>1. i = w - 1 /\ w % 2 = 1
    BY <1>4 DEF Promoted
  <2>2. 2 * j > w /\ i + 1 = w
    BY <1>1, <2>1
  <2>. QED
    BY <1>1, <1>2, <1>3, <2>2
<1>5. ASSUME ~Promoted(i, w), i % 2 = 0
      PROVE  /\ i + 2 \in 1..w
             /\ levels[d + 1][j] = hash_node(levels[d][i + 1], levels[d][i + 2])
  <2>1. i + 2 <= w
    BY <1>1, <1>5, Inside
  <2>2. 2 * j = i + 2 /\ 2 * j - 1 = i + 1
    BY <1>5, Halves
  <2>3. levels[d + 1][j] = hash_node(levels[d][2 * j - 1], levels[d][2 * j])
    BY <1>2, <1>3, <2>1, <2>2
  <2>. QED
    BY <1>1, <2>1, <2>2, <2>3
<1>6. ASSUME i % 2 # 0
      PROVE  /\ i \in 1..w
             /\ levels[d + 1][j] = hash_node(levels[d][i], levels[d][i + 1])
  <2>1. i >= 1 /\ i + 1 <= w
    BY <1>1, <1>6, Inside
  <2>2. 2 * j = i + 1 /\ 2 * j - 1 = i
    BY <1>6, Halves
  <2>3. levels[d + 1][j] = hash_node(levels[d][2 * j - 1], levels[d][2 * j])
    BY <1>2, <1>3, <2>1, <2>2
  <2>. QED
    BY <1>1, <2>1, <2>2, <2>3
<1>. QED
  BY <1>2, <1>3, <1>4, <1>5, <1>6

(* Something is below h, and nothing but leaves of the list.               *)
OfLeaves(h) ==
    /\ IsHash(h) /\ DOMAIN h # {}
    /\ \A w \in DOMAIN h : \E i \in 1..Len(leaves) : h[w] = leaves[i]

Formed == \A d \in 1..Len(levels) : \A i \in 1..Width(d) : OfLeaves(levels[d][i])

LEMMA NodeOfLeaves ==
    ASSUME NEW a, NEW b, OfLeaves(a), OfLeaves(b)
    PROVE  OfLeaves(hash_node(a, b))
<1>. DEFINE h == hash_node(a, b)
<1>1. IsHash(a) /\ IsHash(b) /\ DOMAIN a # {} /\ DOMAIN a \subseteq Way /\ DOMAIN b \subseteq Way
  BY DEF OfLeaves, IsHash
<1>2. /\ IsHash(h)
      /\ \A v \in DOMAIN a : h[Lt(v)] = a[v]
      /\ \A v \in DOMAIN b : h[Rt(v)] = b[v]
  BY <1>1, NodeFields
<1>3. DOMAIN h = {Lt(v) : v \in DOMAIN a} \cup {Rt(v) : v \in DOMAIN b}
  BY NodeDomain
<1>. HIDE DEF h
<1>4. DOMAIN h # {}
  BY <1>1, <1>3
<1>5. ASSUME NEW w \in DOMAIN h
      PROVE  \E i \in 1..Len(leaves) : h[w] = leaves[i]
  BY <1>2, <1>3 DEF OfLeaves
<1>. QED
  BY <1>2, <1>4, <1>5 DEF OfLeaves, h

LEMMA InitFormed ==
    ASSUME Init
    PROVE  Formed
<1>1. LInv /\ Len(levels) = 1
  <2>1. levels = <<[i \in 1..Len(leaves) |-> hash_leaf(leaves[i])]>>
    BY DEF Init
  <2>. QED
    BY <2>1, InitLInv
<1>2. levels[1] = [i \in 1..Len(leaves) |-> hash_leaf(leaves[i])] /\ Len(leaves) \in Nat
  BY <1>1 DEF LInv, Leveled, IsSeq
<1>3. Width(1) = Len(leaves)
  BY <1>2, LenOf DEF Width
<1>4. ASSUME NEW i \in 1..Width(1)
      PROVE  OfLeaves(levels[1][i])
  <2>1. levels[1][i] = [w \in {<<>>} |-> leaves[i]] /\ i \in 1..Len(leaves) /\ <<>> \in Way
    BY <1>2, <1>3 DEF hash_leaf, Way
  <2>. QED
    BY <2>1 DEF OfLeaves, IsHash
<1>. QED
  BY <1>1, <1>4 DEF Formed

LEMMA BuildLevelFormed ==
    ASSUME LInv, Formed, BuildLevel
    PROVE  Formed'
<1>. DEFINE n == Len(levels)
            w == Width(n)
<1>0. PICK above : above = parents(levels[n])
  OBVIOUS
<1>1. /\ levels' = Append(levels, above) /\ w > 1 /\ UNCHANGED leaves
  BY <1>0 DEF BuildLevel, top, Width
<1>2. IsSeq(levels) /\ n \in Nat \ {0} /\ IsSeq(levels[n]) /\ w \in Nat
  <2>1. IsSeq(levels) /\ n \in Nat \ {0}
    BY DEF LInv, Leveled, IsSeq
  <2>2. IsSeq(levels[n])
    BY <2>1 DEF LInv, Leveled
  <2>. QED
    BY <2>1, <2>2 DEF IsSeq, Width
<1>3. /\ Len(above) = (w + 1) \div 2
      /\ \A i \in 1..(w + 1) \div 2 :
            above[i] = IF 2 * i <= w THEN hash_node(levels[n][2 * i - 1], levels[n][2 * i])
                       ELSE levels[n][w]
  BY <1>0, <1>2, Parents DEF Width
<1>4. /\ Len(levels') = n + 1 /\ levels'[n + 1] = above
      /\ \A d \in 1..n : levels'[d] = levels[d]
  BY <1>1, <1>2, AppendOf
<1>5. \A i \in 1..w : OfLeaves(levels[n][i])
  BY <1>2 DEF Formed
<1>6. ASSUME NEW i \in 1..Len(above)
      PROVE  OfLeaves(above[i])
  <2>1. CASE 2 * i <= w
    <3>1. 2 * i - 1 \in 1..w /\ 2 * i \in 1..w
      BY <1>2, <1>3, <2>1
    <3>. QED
      BY <1>3, <1>5, <2>1, <3>1, NodeOfLeaves
  <2>2. CASE ~(2 * i <= w)
    <3>1. w \in 1..w
      BY <1>1, <1>2
    <3>. QED
      BY <1>3, <1>5, <2>2, <3>1
  <2>. QED
    BY <2>1, <2>2
<1>7. \A h : OfLeaves(h)' = OfLeaves(h)
  BY <1>1 DEF OfLeaves
<1>8. ASSUME NEW d \in 1..n, NEW i \in 1..Len(levels[d])
      PROVE  OfLeaves(levels[d][i])'
  <2>1. OfLeaves(levels[d][i])
    BY <1>8 DEF Formed, Width
  <2>2. PICK h : h = levels[d][i]
    OBVIOUS
  <2>3. levels'[d][i] = h
    BY <1>4, <2>2
  <2>. QED
    BY <1>7, <2>1, <2>2, <2>3
<1>9. ASSUME NEW i \in 1..Len(above)
      PROVE  OfLeaves(above[i])'
  BY <1>6, <1>7
<1>. QED
  BY <1>2, <1>4, <1>8, <1>9 DEF Formed, Width

(* A leaf below the hash the verifier has got is the one that is claimed.   *)
Below ==
    /\ IsHash(acc)
    /\ \E w \in DOMAIN acc : acc[w] = claim.leaf

(* The verifier is at level d of the tree. If its hash is that of the node  *)
(* where it is, then the leaf is where it is claimed to be; and if that is  *)
(* where prove was asked for, the siblings so far are those of prove.       *)
Stands(at, taken, d) ==
    /\ size = Width(d)
    /\ claim.index = asked => index = at[d] /\ cursor = taken[d]
    /\ acc = levels[d][index + 1] =>
          /\ claim.leaf = leaves[claim.index + 1]
          /\ claim.index = asked => \A i \in 1..cursor : claim.proof[i] = siblings[i]

PInv ==
    /\ HInv
    /\ Formed
    /\ pc # "done" => verdict = FALSE
    /\ pc = "verify" => Below
    /\ pc = "verify" /\ claim.size = len =>
          \E at, taken : Trail(at, taken) /\ \E d \in 1..depth : Stands(at, taken, d)
    /\ PositionBound

LEMMA FormedStays ==
    ASSUME Formed, UNCHANGED <<leaves, levels>>
    PROVE  Formed'
  BY DEF Formed, OfLeaves, Width

LEMMA verifyPInv ==
    ASSUME PInv, verify
    PROVE  PInv'
<1>1. HInv'
  BY verifyHInv DEF PInv
<1>2. /\ UNCHANGED <<leaves, levels, asked, depth, siblings>> /\ pc = "claim"
      /\ acc' = hash_leaf(claim'.leaf) /\ index' = claim'.index /\ size' = claim'.size
      /\ cursor' = 0 /\ verdict' = FALSE
      /\ pc' = IF claim'.index >= claim'.size THEN "done" ELSE "verify"
      /\ claim' \in {Honest} \cup Others
  BY DEF verify, tree, proving
<1>3. Formed'
  BY <1>2, FormedStays DEF PInv
<1>4. PICK at, taken : Trail(at, taken)
  BY <1>2 DEF PInv, HInv
<1>5. Trail(at, taken)' /\ len' = len
  BY <1>2, <1>4, TrailStays DEF PInv, HInv
<1>6. acc' = [w \in {<<>>} |-> claim'.leaf] /\ <<>> \in Way
  BY <1>2 DEF hash_leaf, Way
<1>7. Below'
  BY <1>6 DEF Below, IsHash
<1>8. ASSUME pc' = "verify", claim'.size = len'
      PROVE  1 \in 1..depth' /\ Stands(at, taken, 1)'
  <2>1. /\ len = Width(1) /\ Len(leaves) \in Nat
        /\ levels[1] = [i \in 1..Len(leaves) |-> hash_leaf(leaves[i])]
        /\ depth \in Nat /\ 1 \in 1..depth
    BY DEF PInv, HInv, LInv, Leveled, IsSeq, len, Width, InLevel
  <2>2. len = Len(leaves)
    BY <2>1, LenOf DEF Width
  <2>3. at[1] = asked /\ taken[1] = 0
    BY <1>4 DEF Trail
  <2>4. index' \in Nat /\ index' < len
    <3>1. index' \in Nat /\ index' < size'
      BY <1>1, <1>8 DEF HInv, LInv, TypeOK, InLevel
    <3>. QED
      BY <1>2, <1>5, <1>8, <3>1
  <2>5. ASSUME acc' = levels[1][index' + 1]
        PROVE  claim'.leaf = leaves[claim'.index + 1]
    <3>1. index' + 1 \in 1..Len(leaves)
      BY <2>1, <2>2, <2>4
    <3>2. levels[1][index' + 1] = [w \in {<<>>} |-> leaves[index' + 1]]
      BY <2>1, <3>1 DEF hash_leaf
    <3>3. claim'.leaf = leaves[index' + 1]
      BY <1>6, <2>5, <3>2
    <3>. QED
      BY <1>2, <3>3
  <2>6. size' = Width(1)'
    BY <1>2, <1>5, <1>8, <2>1 DEF Width
  <2>7. claim'.index = asked' => index' = at[1] /\ cursor' = taken[1]
    BY <1>2, <2>3
  <2>8. \A i \in 1..cursor' : FALSE
    BY <1>2
  <2>. QED
    BY <1>2, <2>1, <2>5, <2>6, <2>7, <2>8 DEF Stands
<1>9. PositionBound'
  BY <1>2 DEF PositionBound
<1>. QED
  BY <1>1, <1>2, <1>3, <1>5, <1>7, <1>8, <1>9 DEF PInv

(* One level up: a node binds both of its children.                        *)
LEMMA ClimbPInv ==
    ASSUME PInv, VerifyPromoted \/ VerifyFold
    PROVE  PInv'
<1>1. HInv'
  BY ClimbHInv DEF PInv
<1>2. /\ UNCHANGED <<leaves, levels, pc, asked, depth, siblings, claim, verdict>>
      /\ index' = index \div 2 /\ size' = (size + 1) \div 2 /\ pc = "verify" /\ size > 1
  BY DEF VerifyPromoted, VerifyFold, tree, proving
<1>3. /\ len' = len
      /\ \A at, taken : Trail(at, taken)' = Trail(at, taken)
  BY <1>2, TrailStays DEF PInv, HInv
<1>4. Formed' /\ verdict = FALSE
  BY <1>2, FormedStays DEF PInv
<1>5. /\ Below /\ IsHash(acc)
      /\ size \in Nat /\ index \in Nat /\ index < size /\ cursor \in Nat
      /\ claim.proof \in Seq(Hashes) /\ Len(claim.proof) \in Nat
  BY <1>2, LenProperties DEF PInv, Below, HInv, LInv, TypeOK, InLevel
<1>6. ASSUME VerifyFold
      PROVE  /\ cursor + 1 \in 1..Len(claim.proof) /\ cursor' = cursor + 1
             /\ ~Promoted(index, size)
             /\ acc' = IF index % 2 = 0 THEN hash_node(acc, claim.proof[cursor + 1])
                       ELSE hash_node(claim.proof[cursor + 1], acc)
             /\ IsHash(claim.proof[cursor + 1])
  <2>1. /\ cursor < Len(claim.proof) /\ cursor' = cursor + 1 /\ ~Promoted(index, size)
        /\ acc' = IF index % 2 = 0 THEN hash_node(acc, claim.proof[cursor + 1])
                  ELSE hash_node(claim.proof[cursor + 1], acc)
    BY <1>6 DEF VerifyFold
  <2>2. cursor + 1 \in 1..Len(claim.proof)
    BY <1>5, <2>1
  <2>3. claim.proof[cursor + 1] \in Hashes
    BY <1>5, <2>2, ElementOfSeq
  <2>4. \A h \in Hashes : IsHash(h)
    BY DEF PInv, Formed, OfLeaves, Hashes, Width
  <2>. QED
    BY <2>1, <2>2, <2>3, <2>4
<1>7. Below'
  <2>1. CASE VerifyPromoted
    <3>1. acc' = acc
      BY <2>1 DEF VerifyPromoted
    <3>. QED
      BY <1>2, <1>5, <3>1 DEF Below
  <2>2. CASE VerifyFold
    <3>. DEFINE s == claim.proof[cursor + 1]
    <3>1. IsHash(s) /\ (acc' = hash_node(acc, s) \/ acc' = hash_node(s, acc))
      BY <1>6, <2>2
    <3>2. PICK w \in DOMAIN acc : acc[w] = claim.leaf
      BY <1>5 DEF Below
    <3>3. w \in Way
      BY <1>5 DEF IsHash
    <3>. HIDE DEF s
    <3>4. CASE acc' = hash_node(acc, s)
      <4>1. IsHash(acc') /\ Lt(w) \in DOMAIN acc' /\ acc'[Lt(w)] = claim.leaf
        BY <1>5, <3>1, <3>2, <3>3, <3>4, NodeFields
      <4>. QED
        BY <1>2, <4>1 DEF Below
    <3>5. CASE acc' = hash_node(s, acc)
      <4>1. IsHash(acc') /\ Rt(w) \in DOMAIN acc' /\ acc'[Rt(w)] = claim.leaf
        BY <1>5, <3>1, <3>2, <3>3, <3>5, NodeFields
      <4>. QED
        BY <1>2, <4>1 DEF Below
    <3>. QED
      BY <3>1, <3>4, <3>5
  <2>. QED
    BY <2>1, <2>2
<1>8. ASSUME claim.size = len
      PROVE  \E at, taken : Trail(at, taken)' /\ \E d \in 1..depth' : Stands(at, taken, d)'
  <2>1. PICK at, taken : Trail(at, taken) /\ \E d \in 1..depth : Stands(at, taken, d)
    BY <1>2, <1>8 DEF PInv
  <2>2. PICK d \in 1..depth : Stands(at, taken, d)
    BY <2>1
  <2>3. /\ depth \in 1..Len(levels) /\ Len(levels) \in Nat /\ Width(depth) = 1
        /\ size = Width(d)
    BY <1>2, <2>2 DEF PInv, HInv, LInv, InLevel, Leveled, IsSeq, Stands
  <2>4. d \in 1..depth - 1 /\ d + 1 \in 1..depth /\ d \in 1..Len(levels) - 1
    BY <1>2, <2>3
  <2>5. /\ at[d + 1] = at[d] \div 2
        /\ IF Promoted(at[d], Width(d)) THEN taken[d + 1] = taken[d]
           ELSE /\ taken[d + 1] = taken[d] + 1
                /\ siblings[taken[d] + 1] =
                      levels[d][IF at[d] % 2 = 0 THEN at[d] + 2 ELSE at[d]]
    BY <2>1, <2>4 DEF Trail
  <2>. DEFINE up == levels[d + 1][(index \div 2) + 1]
  <2>6. /\ Width(d + 1) = (size + 1) \div 2
        /\ Promoted(index, size) => up = levels[d][index + 1]
        /\ ~Promoted(index, size) /\ index % 2 = 0 =>
              /\ index + 2 \in 1..size
              /\ up = hash_node(levels[d][index + 1], levels[d][index + 2])
        /\ index % 2 # 0 =>
              /\ index \in 1..size
              /\ up = hash_node(levels[d][index], levels[d][index + 1])
    BY <1>5, <2>3, <2>4, NodeAbove DEF PInv, HInv
  <2>7. \A i \in 1..size : IsHash(levels[d][i])
    BY <2>3, <2>4 DEF PInv, Formed, OfLeaves
  <2>. HIDE DEF up
  <2>8. claim.index = asked => index' = at[d + 1] /\ cursor' = taken[d + 1]
    <3>1. CASE VerifyPromoted
      <4>1. Promoted(index, size) /\ cursor' = cursor
        BY <3>1 DEF VerifyPromoted
      <4>. QED
        BY <1>2, <2>2, <2>3, <2>5, <4>1 DEF Stands
    <3>2. CASE VerifyFold
      <4>1. ~Promoted(index, size) /\ cursor' = cursor + 1
        BY <1>6, <3>2
      <4>. QED
        BY <1>2, <2>2, <2>3, <2>5, <4>1 DEF Stands
    <3>. QED
      BY <3>1, <3>2
  <2>9. ASSUME acc' = up
        PROVE  /\ acc = levels[d][index + 1]
               /\ VerifyFold => claim.proof[cursor + 1] =
                                   levels[d][IF index % 2 = 0 THEN index + 2 ELSE index]
    <3>1. CASE VerifyPromoted
      <4>1. Promoted(index, size) /\ acc' = acc
        BY <3>1 DEF VerifyPromoted
      <4>2. ~VerifyFold
        BY <4>1 DEF VerifyFold
      <4>. QED
        BY <2>6, <2>9, <4>1, <4>2
    <3>2. CASE VerifyFold
      <4>1. /\ ~Promoted(index, size)
            /\ acc' = IF index % 2 = 0 THEN hash_node(acc, claim.proof[cursor + 1])
                      ELSE hash_node(claim.proof[cursor + 1], acc)
            /\ IsHash(claim.proof[cursor + 1])
        BY <1>6, <3>2
      <4>2. IsHash(levels[d][index + 1])
        BY <1>5, <2>7
      <4>3. CASE index % 2 = 0
        <5>1. hash_node(acc, claim.proof[cursor + 1])
                 = hash_node(levels[d][index + 1], levels[d][index + 2])
          BY <2>6, <2>9, <4>1, <4>3
        <5>2. IsHash(levels[d][index + 2])
          BY <2>6, <2>7, <4>1, <4>3
        <5>3. acc = levels[d][index + 1] /\ claim.proof[cursor + 1] = levels[d][index + 2]
          BY <1>5, <4>1, <4>2, <5>1, <5>2, NodeBinds
        <5>. QED
          BY <4>3, <5>3
      <4>4. CASE index % 2 # 0
        <5>1. hash_node(claim.proof[cursor + 1], acc)
                 = hash_node(levels[d][index], levels[d][index + 1])
          BY <2>6, <2>9, <4>1, <4>4
        <5>2. IsHash(levels[d][index])
          BY <2>6, <2>7, <4>4
        <5>3. acc = levels[d][index + 1] /\ claim.proof[cursor + 1] = levels[d][index]
          BY <1>5, <4>1, <4>2, <5>1, <5>2, NodeBinds
        <5>. QED
          BY <4>4, <5>3
      <4>. QED
        BY <4>3, <4>4
    <3>. QED
      BY <3>1, <3>2
  <2>10. ASSUME acc' = up
         PROVE  /\ claim.leaf = leaves[claim.index + 1]
                /\ claim.index = asked => \A i \in 1..cursor' : claim.proof[i] = siblings[i]
    <3>1. /\ claim.leaf = leaves[claim.index + 1]
          /\ claim.index = asked => \A i \in 1..cursor : claim.proof[i] = siblings[i]
      BY <2>2, <2>9, <2>10 DEF Stands
    <3>2. CASE VerifyPromoted
      <4>1. cursor' = cursor
        BY <3>2 DEF VerifyPromoted
      <4>. QED
        BY <3>1, <4>1
    <3>3. CASE VerifyFold
      <4>1. ~Promoted(index, size) /\ cursor' = cursor + 1
        BY <1>6, <3>3
      <4>2. ASSUME claim.index = asked
            PROVE  claim.proof[cursor + 1] = siblings[cursor + 1]
        <5>1. index = at[d] /\ cursor = taken[d] /\ ~Promoted(at[d], Width(d))
          BY <2>2, <2>3, <4>1, <4>2 DEF Stands
        <5>2. siblings[cursor + 1] = levels[d][IF index % 2 = 0 THEN index + 2 ELSE index]
          BY <2>5, <5>1
        <5>. QED
          BY <2>9, <2>10, <3>3, <5>2
      <4>3. \A i \in 1..cursor + 1 : i \in 1..cursor \/ i = cursor + 1
        BY <1>5
      <4>. QED
        BY <3>1, <4>1, <4>2, <4>3
    <3>. QED
      BY <3>2, <3>3
  <2>11. size' = Width(d + 1)' /\ up = levels'[d + 1][index' + 1]
    BY <1>2, <2>6 DEF Width, up
  <2>12. Stands(at, taken, d + 1)'
    BY <1>2, <2>8, <2>10, <2>11 DEF Stands
  <2>. QED
    BY <1>2, <1>3, <2>1, <2>4, <2>12
<1>9. PositionBound'
  BY <1>2, <1>4 DEF PositionBound
<1>. QED
  BY <1>1, <1>2, <1>3, <1>4, <1>7, <1>8, <1>9 DEF PInv

(* At the root: the claimed leaf is below it, and so among the leaves.      *)
LEMMA EndPInv ==
    ASSUME PInv, VerifyShort \/ Verified
    PROVE  PInv'
<1>1. HInv'
  BY EndHInv DEF PInv
<1>2. /\ UNCHANGED <<leaves, levels, asked, depth, siblings, index, claim, acc>>
      /\ pc' = "done" /\ pc = "verify"
  BY DEF VerifyShort, Verified, tree, proving, verifying
<1>3. Formed' /\ len' = len /\ verdict = FALSE
  BY <1>2, FormedStays, TrailStays DEF PInv, HInv
<1>4. /\ depth \in 1..Len(levels) /\ Len(levels) \in Nat /\ Width(depth) = 1
      /\ size \in Nat /\ index \in Nat /\ index < size
      /\ siblings \in Seq(Hashes) /\ claim.proof \in Seq(Hashes)
  BY <1>2 DEF PInv, HInv, LInv, TypeOK, InLevel, Leveled, IsSeq
<1>5. depth = Len(levels)
  <2>1. depth \in 1..Len(levels) - 1 => Width(depth) > 1
    BY DEF PInv, HInv, LInv, Leveled
  <2>. QED
    BY <1>4, <2>1
<1>6. root = levels[depth][1]
  <2>1. top = levels[depth] /\ Len(top) = 1
    BY <1>4, <1>5 DEF top, Width
  <2>2. top # <<>>
    BY <2>1
  <2>. QED
    BY <2>1, <2>2 DEF root
<1>7. ASSUME verdict'
      PROVE  /\ \E i \in 1..Len(leaves) : claim.leaf = leaves[i]
             /\ claim.size = len => claim.leaf = leaves[claim.index + 1]
             /\ claim.size = len /\ claim.index = asked => claim.proof = siblings
  <2>1. size <= 1 /\ acc = root /\ cursor = Len(claim.proof)
    <3>1. CASE VerifyShort
      <4>1. verdict' = verdict
        BY <3>1 DEF VerifyShort, verifying
      <4>. QED
        BY <1>3, <1>7, <4>1
    <3>2. CASE Verified
      BY <1>7, <3>2 DEF Verified
    <3>. QED
      BY <3>1, <3>2
  <2>2. size = 1 /\ index = 0
    BY <1>4, <2>1
  <2>3. \E i \in 1..Len(leaves) : claim.leaf = leaves[i]
    <3>1. OfLeaves(acc)
      BY <1>4, <1>6, <2>1 DEF PInv, Formed
    <3>2. Below
      BY <1>2 DEF PInv
    <3>. QED
      BY <3>1, <3>2 DEF Below, OfLeaves
  <2>4. ASSUME claim.size = len
        PROVE  /\ claim.leaf = leaves[claim.index + 1]
               /\ claim.index = asked => claim.proof = siblings
    <3>1. PICK at, taken : Trail(at, taken) /\ \E d \in 1..depth : Stands(at, taken, d)
      BY <1>2, <2>4 DEF PInv
    <3>2. PICK d \in 1..depth : Stands(at, taken, d)
      BY <3>1
    <3>3. d = depth
      <4>1. d \in 1..depth - 1 => Width(d) > 1
        BY <3>1 DEF Trail
      <4>2. size = Width(d)
        BY <3>2 DEF Stands
      <4>. QED
        BY <1>4, <2>2, <4>1, <4>2
    <3>4. acc = levels[d][index + 1]
      BY <1>6, <2>1, <2>2, <3>3
    <3>5. /\ claim.leaf = leaves[claim.index + 1]
          /\ claim.index = asked =>
                /\ cursor = taken[d]
                /\ \A i \in 1..cursor : claim.proof[i] = siblings[i]
      BY <3>2, <3>4 DEF Stands
    <3>6. taken[d] = Len(siblings)
      BY <3>1, <3>3 DEF Trail
    <3>7. ASSUME claim.index = asked
          PROVE  claim.proof = siblings
      <4>1. Len(claim.proof) = Len(siblings)
        BY <2>1, <3>5, <3>6, <3>7
      <4>2. \A i \in 1..Len(claim.proof) : claim.proof[i] = siblings[i]
        BY <2>1, <3>5, <3>7
      <4>. QED
        BY <1>4, <4>1, <4>2, SeqEqual
    <3>. QED
      BY <3>5, <3>7
  <2>. QED
    BY <2>3, <2>4
<1>8. PositionBound'
  BY <1>2, <1>3, <1>7 DEF PositionBound
<1>. QED
  BY <1>1, <1>2, <1>3, <1>8 DEF PInv

LEMMA StepPInv ==
    ASSUME PInv, [Next]_vars
    PROVE  PInv'
<1>1. HInv'
  BY StepHInv DEF PInv
<1>2. CASE BuildLevel \/ Built \/ prove \/ ProveLevel \/ Proved
  <2>1. pc # "done" /\ pc # "verify" /\ pc' # "verify" /\ verdict' = verdict
    BY <1>2 DEF BuildLevel, Built, prove, ProveLevel, Proved, verifying
  <2>2. verdict' = FALSE
    BY <2>1 DEF PInv
  <2>3. Formed'
    <3>1. CASE BuildLevel
      BY <3>1, BuildLevelFormed DEF PInv, HInv
    <3>2. CASE Built \/ prove \/ ProveLevel \/ Proved
      <4>1. UNCHANGED <<leaves, levels>>
        BY <3>2 DEF Built, prove, ProveLevel, Proved, tree
      <4>. QED
        BY <4>1, FormedStays DEF PInv
    <3>. QED
      BY <1>2, <3>1, <3>2
  <2>. QED
    BY <1>1, <2>1, <2>2, <2>3 DEF PInv, PositionBound
<1>3. CASE UNCHANGED vars
  <2>1. UNCHANGED <<leaves, levels, asked, depth, siblings, pc, index, claim, acc, size, cursor, verdict>>
    BY <1>3 DEF vars
  <2>2. /\ len' = len
        /\ \A at, taken : Trail(at, taken)' = Trail(at, taken)
    BY <2>1, TrailStays DEF PInv, HInv
  <2>3. \A at, taken, d : Stands(at, taken, d)' = Stands(at, taken, d)
    BY <2>1 DEF Stands, Width
  <2>4. Formed' /\ Below' = Below /\ PositionBound'
    BY <2>1, <2>2, FormedStays DEF PInv, Below, PositionBound
  <2>. QED
    BY <1>1, <2>1, <2>2, <2>3, <2>4 DEF PInv
<1>. QED
  BY <1>2, <1>3, verifyPInv, ClimbPInv, EndPInv DEF Next

(* For lists of every length and every claim about them: what verify        *)
(* accepts is a leaf of the list, with the size of the list at the index    *)
(* where it is claimed to be, and only by the proof that prove makes.       *)
THEOREM AlwaysPositionBound == Spec => []PositionBound
<1>1. Init => PInv
  <2>1. ASSUME Init
        PROVE  PInv
    <3>1. LInv /\ Formed
      BY <2>1, InitLInv, InitFormed
    <3>2. pc = "build" /\ verdict = FALSE
      BY <2>1 DEF Init
    <3>. QED
      BY <3>1, <3>2 DEF PInv, HInv, HonestAccepted, PositionBound
  <2>. QED
    BY <2>1
<1>2. PInv /\ [Next]_vars => PInv'
  BY StepPInv
<1>3. PInv => PositionBound
  BY DEF PInv
<1>. QED
  BY <1>1, <1>2, <1>3, PTL DEF Spec
=============================================================================
