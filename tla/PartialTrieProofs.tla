------------------------- MODULE PartialTrieProofs -------------------------
(***************************************************************************)
(* The partial trie, and the two programs that make its calls.             *)
(*                                                                         *)
(* PartialTrie: the shape of the tree is kept by every step of every call, *)
(* and its root is that of the map its calls add up to.  Shape alone is    *)
(* not inductive: a removal leaves one node, or the parents of one place,  *)
(* to be normalized, and whether normalizing it yields a tree of the right *)
(* shape depends on what is left there; and resolving a Stub grafts what   *)
(* it commits to, which is a piece of the backing trie only because Stubs  *)
(* never move.  IInv adds both.                                            *)
(*                                                                         *)
(* ProofTrie: what becomes of the trie between calls, when one fails and   *)
(* when a late witness arrives.                                            *)
(*                                                                         *)
(* Recording: what makes a node miss, and why the nodes that were noted    *)
(* are what the replay needs.  `Needs` tells from a call and the bindings  *)
(* it begins with which nodes it has to have loaded; LInv says that every  *)
(* call that returned had those, and that nothing else was noted.          *)
(***************************************************************************)
EXTENDS ProofTrie, Recording, TrieTheorems

Hashes == SubtreesOf(backing)

(* The node at hand is there, and one about to be normalized can be: a Fork *)
(* has an occupant, a Skip leads to a loaded node.                          *)
AtHand ==
    /\ pc = "walk" => (trie = Null /\ pos = <<>>) \/ pos \in DOMAIN trie
    /\ pc = "normalize" =>
          pos \in DOMAIN trie /\ trie[pos].type \in {"fork", "skip"} /\ Occupied(trie, pos)
    /\ pc = "unwind" =>
          /\ \A q \in Parents(trie, pos) : Occupied(trie, q)
          /\ pos \in DOMAIN trie => ForksCrowded(trie, {})
    /\ pc \in {"normalize", "unwind"} => call.op = "remove"

IInv == TypeOK /\ backing \in Backings /\ Shape /\ StubsInPlace /\ AtHand

-----------------------------------------------------------------------------

LEMMA BackingWhole == ASSUME NEW S \in Backings PROVE Whole(S)
  BY BackingsAssumption DEF Whole, Typed

LEMMA TrieTyped ==
    ASSUME IInv
    PROVE  Typed(trie, Hashes) /\ Paths(trie) /\ Whole(backing)
  BY TypedPaths, BackingWhole DEF IInv, TypeOK, Typed, Hashes

(* Between calls, on the walk down, and whenever nothing is pending.        *)
LEMMA Calm ==
    ASSUME IInv, pc \in {"idle", "walk"}
    PROVE  WellFormedBut(trie, {})
  BY DEF IInv, Shape, Pending

LEMMA SuffixSplit ==
    ASSUME IInv, pc # "idle"
    PROVE  /\ call.key \in Path /\ pos \in Path /\ suffix \in Path
           /\ call.key = pos \o suffix
<1>1. call.key \in Path /\ pos \in Path /\ starts_with(call.key, pos)
  BY KeysAssumption DEF IInv, TypeOK, Request
<1>. QED
  BY <1>1, PrefixSplit DEF suffix

LEMMA CallValue ==
    ASSUME IInv, call.op = "insert"
    PROVE  call.value \in Value
  BY DEF IInv, TypeOK, Request

LEMMA KeptInPlace ==
    ASSUME IInv, NEW T, StubsKept(trie, T)
    PROVE  \A p \in StubsOf(T) : p \in Hashed(backing) /\ T[p].hash = Subtree(backing, p)
  BY DEF IInv, StubsInPlace, StubsKept

(* A step after which no call runs.                                         *)
LEMMA ReturnStep ==
    ASSUME IInv, NEW answer, NEW T, Return(answer, T),
           Typed(T, Hashes), WellFormedBut(T, {}), StubsKept(trie, T)
    PROVE  IInv'
<1>1. /\ trie' = T /\ pc' = "idle" /\ backing' = backing /\ call' = call /\ pos' = pos
      /\ Pending' = {}
  BY DEF Return, Pending
<1>2. TypeOK'
  BY <1>1 DEF IInv, TypeOK, Typed, Hashes
<1>3. StubsInPlace'
  BY <1>1, KeptInPlace DEF StubsInPlace
<1>. QED
  BY <1>1, <1>2, <1>3 DEF IInv, Shape, AtHand

LEMMA FailStep ==
    ASSUME IInv, pc \in {"walk", "normalize"}, NEW error, Fail(error)
    PROVE  IInv'
<1>1. /\ trie' = (IF call.op = "get" THEN trie ELSE Null)
      /\ pc' = "idle" /\ backing' = backing /\ call' = call /\ pos' = pos
      /\ Pending' = {}
  BY DEF Fail, Pending
<1>2. Typed(trie', Hashes) /\ WellFormedBut(trie', {}) /\ StubsKept(trie, trie')
  <2>1. CASE call.op = "get"
    <3>1. pc = "walk"
      BY <2>1 DEF IInv, AtHand
    <3>. QED
      BY <1>1, <2>1, <3>1, TrieTyped, Calm DEF StubsKept
  <2>2. CASE call.op # "get"
    BY <1>1, <2>2, NullTyped, NullShape DEF StubsKept
  <2>. QED
    BY <2>1, <2>2
<1>3. TypeOK'
  BY <1>1, <1>2 DEF IInv, TypeOK, Typed, Hashes
<1>4. StubsInPlace'
  BY <1>1, <1>2, KeptInPlace DEF StubsInPlace
<1>. QED
  BY <1>1, <1>2, <1>3, <1>4 DEF IInv, Shape, AtHand

-----------------------------------------------------------------------------
(* Every hash in the trie is of a subtree of the backing trie, so what is   *)
(* grafted has the right shape, and its Stubs are where they belong.        *)
LEMMA ResolveShape ==
    ASSUME IInv, NEW p \in DOMAIN trie, trie[p].type = "stub",
           NEW X, WellFormedBut(trie, X)
    PROVE  LET U == Graft(trie, p, decode_node({}, trie[p].hash))
           IN  /\ Typed(U, Hashes) /\ WellFormedBut(U, X)
               /\ DOMAIN trie \subseteq DOMAIN U
               /\ \A q \in DOMAIN U : ~starts_with(q, p) => U[q] = trie[q]
               /\ \A u \in StubsOf(U) :
                     u \in Hashed(backing) /\ U[u].hash = Subtree(backing, u)
<1>. DEFINE S == trie[p].hash
            D == decode_node({}, S)
            U == Graft(trie, p, D)
<1>1. Typed(trie, Hashes) /\ Whole(backing) /\ DOMAIN backing \subseteq Path
  BY TrieTyped DEF Whole, Typed
<1>2. /\ p \in Hashed(backing) /\ p \in DOMAIN backing /\ p \in Path
      /\ S = Subtree(backing, p)
  BY <1>1 DEF IInv, StubsInPlace, StubsOf, Typed, Hashed
<1>3. Whole(S) /\ <<>> \in DOMAIN S /\ S[<<>>] = backing[p]
  BY <1>1, <1>2, SubtreeWhole
<1>4. S[<<>>].type \in {"leaf", "skip", "fork"}
  <2>1. Typed(S, {})
    BY <1>3 DEF Whole
  <2>. QED
    BY <1>3, <2>1, NodeTypes
<1>5. ForkAt(trie, p) => S[<<>>].type = "fork"
  BY DEF ForkAt, Is
<1>6. ASSUME NEW u \in DOMAIN S
      PROVE  p \o u \in DOMAIN backing /\ Subtree(S, u) = Subtree(backing, p \o u)
  <2>1. u \in Path
    BY <1>3 DEF Whole, Typed
  <2>2. p \o u \in DOMAIN backing
    BY <1>1, <1>2, <2>1, SubtreeDomain
  <2>3. Subtree(Subtree(backing, p), u) = Subtree(backing, p \o u)
    BY <1>1, <1>2, <2>1, SubtreeSubtree
  <2>. QED
    BY <1>2, <2>2, <2>3
<1>. HIDE DEF S
<1>7. /\ Typed(D, SubtreesOf(S)) /\ <<>> \in DOMAIN D /\ D[<<>>] = S[<<>>]
      /\ WellFormed(D)
      /\ \A u \in StubsOf(D) : u \in Hashed(S) /\ D[u].hash = Subtree(S, u)
  BY <1>3, DecodeShape
<1>8. Typed(D, Hashes)
  <2>1. SubtreesOf(S) \subseteq Hashes
    BY <1>6 DEF SubtreesOf, Hashes
  <2>. QED
    BY <1>7, <2>1 DEF Typed, Node
<1>. HIDE DEF D
<1>9. /\ Typed(U, Hashes) /\ WellFormedBut(U, X)
      /\ DOMAIN trie \subseteq DOMAIN U
      /\ \A q \in DOMAIN U : ~starts_with(q, p) => q \in DOMAIN trie /\ U[q] = trie[q]
      /\ \A u \in StubsOf(U) :
            \/ u \in StubsOf(trie) /\ U[u] = trie[u]
            \/ \E r \in StubsOf(D) : u = p \o r /\ U[u] = D[r]
  <2>1. Grafted(trie, U, Hashes, X, p, D)
    BY <1>1, <1>4, <1>5, <1>7, <1>8, GraftShape
  <2>. QED
    BY <2>1 DEF Grafted
<1>. HIDE DEF U
<1>10. ASSUME NEW u \in StubsOf(U)
       PROVE  u \in Hashed(backing) /\ U[u].hash = Subtree(backing, u)
  <2>1. CASE u \in StubsOf(trie) /\ U[u] = trie[u]
    BY <2>1 DEF IInv, StubsInPlace
  <2>2. CASE \E r \in StubsOf(D) : u = p \o r /\ U[u] = D[r]
    <3>1. PICK r \in StubsOf(D) : u = p \o r /\ U[u] = D[r]
      BY <2>2
    <3>2. r \in Hashed(S) /\ r \in DOMAIN S /\ U[u].hash = Subtree(S, r)
      BY <1>7, <3>1 DEF Hashed
    <3>3. u \in DOMAIN backing /\ Subtree(S, r) = Subtree(backing, u)
      BY <1>6, <3>1, <3>2
    <3>4. CASE r = <<>>
      BY <1>2, <3>1, <3>2, <3>3, <3>4, ConcatEmpty
    <3>5. CASE r # <<>>
      BY <3>2, <3>3, <3>5 DEF Hashed
    <3>. QED
      BY <3>4, <3>5
  <2>. QED
    BY <1>9, <2>1, <2>2
<1>. QED
  BY <1>9, <1>10 DEF U, D, S

-----------------------------------------------------------------------------
(* The initial trie                                                         *)

LEMMA InitInv == Init => IInv
<1>. SUFFICES ASSUME Init PROVE IInv
  OBVIOUS
<1>1. PICK nodes \in SUBSET HashesOf(backing) : trie = build_partial(nodes, backing)
  BY DEF Init
<1>2. backing \in Backings /\ pc = "idle" /\ pos = <<>> /\ Pending = {}
  BY DEF Init, Pending
<1>3. /\ Typed(trie, Hashes) /\ WellFormed(trie)
      /\ \A u \in StubsOf(trie) : u \in Hashed(backing) /\ trie[u].hash = Subtree(backing, u)
  BY <1>1, <1>2, BackingWhole, InitShape DEF Hashes
<1>4. call \in Request
  BY KeysAssumption DEF Init, Request
<1>5. TypeOK
  BY <1>2, <1>3, <1>4, EmptyPath DEF TypeOK, Typed, Hashes
<1>. QED
  BY <1>2, <1>3, <1>5 DEF IInv, Shape, StubsInPlace, AtHand, WellFormed

-----------------------------------------------------------------------------
(* The walk down                                                            *)

LEMMA CallStep == ASSUME IInv, Calls PROVE IInv'
<1>1. PICK request \in Request : Call(request)
  BY DEF Calls, Request
<1>2. /\ pc = "idle" /\ pc' = "walk" /\ pos' = <<>> /\ call' = request
      /\ trie' = trie /\ backing' = backing /\ Pending' = {}
  BY <1>1 DEF Call, Pending
<1>3. starts_with(call'.key, <<>>) /\ <<>> \in Path
  BY <1>2, KeysAssumption, PrefixEmpty DEF Request
<1>4. TypeOK'
  BY <1>2, <1>3 DEF IInv, TypeOK
<1>5. WellFormedBut(trie, {})
  BY <1>2, Calm
<1>6. AtHand'
  BY <1>2, <1>5 DEF AtHand, WellFormedBut, Connected
<1>. QED
  BY <1>2, <1>4, <1>5, <1>6 DEF IInv, Shape, StubsInPlace

LEMMA DescendStep ==
    ASSUME IInv, pc = "walk", NEW p \in DOMAIN trie, starts_with(call.key, p), Descend(p)
    PROVE  IInv'
<1>1. /\ pos' = p /\ pc' = "walk" /\ trie' = trie /\ backing' = backing /\ call' = call
      /\ Pending' = {}
  BY DEF Descend, Pending
<1>2. TypeOK'
  BY <1>1 DEF IInv, TypeOK
<1>3. WellFormedBut(trie, {})
  BY Calm
<1>. QED
  BY <1>1, <1>2, <1>3 DEF IInv, Shape, StubsInPlace, AtHand

LEMMA DescendSkipStep == ASSUME IInv, DescendSkip PROVE IInv'
<1>. DEFINE path == trie[pos].path
            p == pos \o path
<1>1. pc = "walk" /\ pos \in DOMAIN trie /\ trie[pos].type = "skip" /\ Descend(p)
  BY DEF DescendSkip, At, Is
<1>2. p \in DOMAIN trie
  BY <1>1, Calm DEF WellFormedBut, SkipsLead, ForkAt, Is
<1>3. starts_with(call.key, p)
  <2>1. call.key = pos \o suffix /\ suffix \in Path /\ pos \in Path /\ path \in Path
    BY <1>1, SuffixSplit, TrieTyped DEF Paths
  <2>2. starts_with(suffix, path)
    BY DEF DescendSkip
  <2>. HIDE DEF path
  <2>3. starts_with(pos \o suffix, pos \o path)
    BY <2>1, <2>2, PrefixUnderConcat
  <2>. QED
    BY <2>1, <2>3
<1>. QED
  BY <1>1, <1>2, <1>3, DescendStep

LEMMA NextNibble ==
    ASSUME IInv, pc # "idle", suffix # <<>>
    PROVE  Head(suffix) \in Nibble /\ starts_with(call.key, Append(pos, Head(suffix)))
<1>1. call.key \in Path /\ pos \in Path /\ suffix \in Path /\ call.key = pos \o suffix
  BY SuffixSplit
<1>2. Below(call.key, pos)
  BY <1>1, PrefixConcat DEF Below
<1>. QED
  BY <1>1, <1>2, BelowAppend DEF suffix

LEMMA DescendForkStep == ASSUME IInv, DescendFork PROVE IInv'
<1>. DEFINE p == Append(pos, Head(suffix))
<1>1. pc = "walk" /\ suffix # <<>> /\ Descend(p) /\ Head(suffix) \in Children(trie, pos)
  BY DEF DescendFork, At
<1>2. p \in DOMAIN trie
  BY <1>1 DEF Children
<1>3. starts_with(call.key, p)
  BY <1>1, NextNibble
<1>. QED
  BY <1>1, <1>2, <1>3, DescendStep

LEMMA ResolveStep == ASSUME IInv, Resolve PROVE IInv'
<1>1. pc = "walk" /\ pos \in DOMAIN trie /\ trie[pos].type = "stub" /\ resolve_stub(pos)
  BY DEF Resolve, At, Is
<1>2. CASE \E error : Fail(error)
  BY <1>1, <1>2, FailStep
<1>3. CASE /\ trie' = Graft(trie, pos, decode_node({}, trie[pos].hash))
           /\ UNCHANGED <<backing, call, pc, pos, out, want, lost>>
  <2>1. /\ Typed(trie', Hashes) /\ WellFormedBut(trie', {})
        /\ DOMAIN trie \subseteq DOMAIN trie'
        /\ \A u \in StubsOf(trie') :
              u \in Hashed(backing) /\ trie'[u].hash = Subtree(backing, u)
    BY <1>1, <1>3, Calm, ResolveShape
  <2>2. Pending' = {}
    BY <1>1, <1>3 DEF Pending
  <2>3. TypeOK'
    BY <1>3, <2>1 DEF IInv, TypeOK, Typed, Hashes
  <2>. QED
    BY <1>1, <1>3, <2>1, <2>2, <2>3 DEF IInv, Shape, StubsInPlace, AtHand
<1>. QED
  BY <1>1, <1>2, <1>3 DEF resolve_stub

LEMMA GetStep == ASSUME IInv, get_at PROVE IInv'
<1>1. PICK value : Return(value, trie)
  BY DEF get_at, GetNull, GetLeaf, GetSkip, GetForkValue, GetForkChild, Answer
<1>2. pc = "walk"
  BY DEF get_at, GetNull, GetLeaf, GetSkip, GetForkValue, GetForkChild, At
<1>3. StubsKept(trie, trie)
  BY DEF StubsKept
<1>. QED
  BY <1>1, <1>2, <1>3, TrieTyped, Calm, ReturnStep

-----------------------------------------------------------------------------
(* insert_at                                                                *)

LEMMA InsertedStep ==
    ASSUME IInv, NEW T, Inserted(T),
           Typed(T, Hashes), WellFormedBut(T, {}), StubsKept(trie, T)
    PROVE  IInv'
  BY ReturnStep DEF Inserted

LEMMA InsertNullStep == ASSUME IInv, InsertNull PROVE IInv'
<1>. DEFINE node == Leaf(suffix, call.value)
            T == Put(Null, <<>>, node)
<1>1. pc = "walk" /\ Inserted(T)
  BY DEF InsertNull
<1>2. suffix \in Path /\ call.value \in Value
  BY <1>1, SuffixSplit, CallValue DEF Inserted
<1>3. node \in Node(Hashes) /\ node.type = "leaf"
  BY <1>2 DEF Node, Leaf
<1>. HIDE DEF node
<1>4. DOMAIN T = {<<>>} /\ T[<<>>] = node
  BY DEF Put, Null
<1>5. Typed(T, Hashes)
  BY <1>3, NullTyped, EmptyPath, PutTyped
<1>. HIDE DEF T
<1>6. WellFormedBut(T, {})
  BY <1>3, <1>4 DEF WellFormedBut, Connected, SkipsLead, ForksCrowded, Below
<1>7. StubsKept(trie, T)
  BY <1>3, <1>4 DEF StubsKept, StubsOf
<1>. QED
  BY <1>1, <1>5, <1>6, <1>7, InsertedStep

LEMMA InsertLeafStep == ASSUME IInv, InsertLeaf PROVE IInv'
<1>1. /\ pc = "walk" /\ pos \in DOMAIN trie /\ trie[pos].type = "leaf"
      /\ Inserted(Put(trie, pos, Leaf(suffix, call.value)))
  BY DEF InsertLeaf, At, Is
<1>2. suffix \in Path /\ call.value \in Value
  BY <1>1, SuffixSplit, CallValue DEF Inserted
<1>3. Typed(trie, Hashes) /\ WellFormedBut(trie, {})
  BY <1>1, TrieTyped, Calm
<1>. QED
  BY <1>1, <1>2, <1>3, PutLeafShape, InsertedStep

LEMMA InsertSplitLeafStep == ASSUME IInv, InsertSplitLeaf PROVE IInv'
<1>1. /\ pc = "walk" /\ pos \in DOMAIN trie /\ trie[pos].type = "leaf"
      /\ trie[pos].path # suffix
      /\ Inserted(SplitLeaf(trie, pos, suffix, call.value))
  BY DEF InsertSplitLeaf, At, Is
<1>2. suffix \in Path /\ call.value \in Value
  BY <1>1, SuffixSplit, CallValue DEF Inserted
<1>3. Typed(trie, Hashes) /\ WellFormedBut(trie, {})
  BY <1>1, TrieTyped, Calm
<1>. QED
  BY <1>1, <1>2, <1>3, SplitLeafShape, InsertedStep

LEMMA InsertSplitSkipStep == ASSUME IInv, InsertSplitSkip PROVE IInv'
<1>1. /\ pc = "walk" /\ pos \in DOMAIN trie /\ trie[pos].type = "skip"
      /\ ~starts_with(suffix, trie[pos].path)
      /\ Inserted(SplitSkip(trie, pos, suffix, call.value))
  BY DEF InsertSplitSkip, At, Is
<1>2. suffix \in Path /\ call.value \in Value
  BY <1>1, SuffixSplit, CallValue DEF Inserted
<1>3. Typed(trie, Hashes) /\ WellFormedBut(trie, {})
  BY <1>1, TrieTyped, Calm
<1>. QED
  BY <1>1, <1>2, <1>3, SplitSkipShape, InsertedStep

LEMMA InsertForkValueStep == ASSUME IInv, InsertForkValue PROVE IInv'
<1>1. /\ pc = "walk" /\ pos \in DOMAIN trie /\ trie[pos].type = "fork"
      /\ Inserted(Put(trie, pos, Fork(call.value)))
  BY DEF InsertForkValue, At, Is
<1>2. call.value \in Value /\ call.value # NoValue
  BY <1>1, CallValue, NoValueAssumption DEF Inserted
<1>3. Typed(trie, Hashes) /\ WellFormedBut(trie, {})
  BY <1>1, TrieTyped, Calm
<1>. QED
  BY <1>1, <1>2, <1>3, PutForkShape, InsertedStep

LEMMA InsertForkChildStep == ASSUME IInv, InsertForkChild PROVE IInv'
<1>. DEFINE U == Hang(trie, pos, suffix, call.value)
<1>1. /\ pc = "walk" /\ pos \in DOMAIN trie /\ trie[pos].type = "fork"
      /\ suffix # <<>> /\ Head(suffix) \notin Children(trie, pos)
      /\ Inserted(U)
  BY DEF InsertForkChild, At, Is
<1>2. suffix \in Path /\ call.value \in Value
  BY <1>1, SuffixSplit, CallValue DEF Inserted
<1>3. Typed(trie, Hashes) /\ WellFormedBut(trie, {})
  BY <1>1, TrieTyped, Calm
<1>4. WellFormedBut(trie, {pos})
  BY <1>3 DEF WellFormedBut, SkipsLead, ForksCrowded
<1>5. Append(pos, Head(suffix)) \notin DOMAIN trie
  BY <1>1, NextNibble DEF Children
<1>6. Hung(trie, U, Hashes, pos, suffix)
  BY <1>1, <1>2, <1>3, <1>4, <1>5, HangShape
<1>. HIDE DEF U
<1>7. /\ Typed(U, Hashes) /\ WellFormedBut(U, {pos}) /\ StubsKept(trie, U)
      /\ pos \in DOMAIN U /\ U[pos] = trie[pos]
      /\ Children(trie, pos) \subseteq Children(U, pos)
  BY <1>6 DEF Hung
<1>8. Crowded(U, pos)
  <2>1. Crowded(trie, pos)
    BY <1>1, <1>3 DEF WellFormedBut, ForksCrowded
  <2>. QED
    BY <1>7, <2>1 DEF Crowded
<1>9. WellFormedBut(U, {})
  BY <1>1, <1>7, <1>8, CrowdedShape
<1>. QED
  BY <1>1, <1>7, <1>9, InsertedStep

LEMMA InsertStep == ASSUME IInv, insert_at PROVE IInv'
  BY InsertNullStep, InsertLeafStep, InsertSplitLeafStep, InsertSplitSkipStep,
     InsertForkValueStep, InsertForkChildStep DEF insert_at

-----------------------------------------------------------------------------
(* remove_at                                                                *)

LEMMA RemoveAbsentStep == ASSUME IInv, RemoveAbsent PROVE IInv'
<1>1. pc = "walk" /\ Return(FALSE, trie)
  BY DEF RemoveAbsent, At
<1>2. StubsKept(trie, trie)
  BY DEF StubsKept
<1>. QED
  BY <1>1, <1>2, TrieTyped, Calm, ReturnStep

(* Back at the root a removal has nothing left to normalize.                *)
LEMMA NothingPending == ASSUME IInv, RemoveReturns PROVE Pending = {}
<1>1. pc = "unwind" /\ pos = <<>>
  BY DEF RemoveReturns
<1>2. \A q \in DOMAIN trie : trie[q].type = "skip" => trie[q].path # <<>>
  BY DEF IInv, Shape, WellFormedBut, SkipsLead
<1>3. ASSUME NEW q \in DOMAIN trie, IsParent(trie, q, <<>>)
      PROVE  FALSE
  <2>1. q \in Path /\ Below(<<>>, q)
    BY <1>2, <1>3, TrieTyped, ParentAbove
  <2>. QED
    BY <2>1, PrefixEmpty DEF Below, starts_with
<1>. QED
  BY <1>1, <1>3 DEF Pending

LEMMA RemoveReturnsStep == ASSUME IInv, RemoveReturns PROVE IInv'
<1>1. pc = "unwind" /\ pos = <<>> /\ Return(TRUE, trie)
  BY DEF RemoveReturns
<1>2. Pending = {}
  BY NothingPending
<1>3. WellFormedBut(trie, {}) /\ StubsKept(trie, trie)
  BY <1>2 DEF IInv, Shape, StubsKept
<1>. QED
  BY <1>1, <1>3, TrieTyped, ReturnStep

LEMMA RemoveLeafStep == ASSUME IInv, RemoveLeaf PROVE IInv'
<1>. DEFINE U == Cut(trie, {pos})
<1>1. /\ pc = "walk" /\ pos \in DOMAIN trie /\ trie[pos].type = "leaf"
      /\ Edit(U, "unwind") /\ pos' = pos
  BY DEF RemoveLeaf, At, Is
<1>2. Typed(trie, Hashes) /\ WellFormedBut(trie, {})
  BY <1>1, TrieTyped, Calm
<1>3. /\ Typed(U, Hashes) /\ StubsKept(trie, U) /\ pos \notin DOMAIN U
      /\ WellFormedBut(U, Parents(U, pos))
      /\ \A q \in Parents(U, pos) : U[q].type = "fork" /\ Occupied(U, q)
  BY <1>1, <1>2, CutLeafShape
<1>. HIDE DEF U
<1>4. /\ trie' = U /\ pc' = "unwind" /\ backing' = backing /\ call' = call
      /\ call.op = "remove" /\ Pending' = Parents(U, pos)
  BY <1>1 DEF Edit, Pending, Parents
<1>5. TypeOK'
  BY <1>1, <1>3, <1>4 DEF IInv, TypeOK, Typed, Hashes
<1>6. StubsInPlace'
  BY <1>3, <1>4, KeptInPlace DEF StubsInPlace
<1>7. AtHand'
  BY <1>1, <1>3, <1>4 DEF AtHand
<1>. QED
  BY <1>3, <1>4, <1>5, <1>6, <1>7 DEF IInv, Shape

LEMMA RemoveForkValueStep == ASSUME IInv, RemoveForkValue PROVE IInv'
<1>. DEFINE U == Put(trie, pos, Fork(NoValue))
<1>1. /\ pc = "walk" /\ pos \in DOMAIN trie /\ trie[pos].type = "fork"
      /\ Edit(U, "normalize") /\ pos' = pos
  BY DEF RemoveForkValue, At, Is
<1>2. Typed(trie, Hashes) /\ WellFormedBut(trie, {})
  BY <1>1, TrieTyped, Calm
<1>3. /\ Typed(U, Hashes) /\ WellFormedBut(U, {pos}) /\ StubsKept(trie, U)
      /\ pos \in DOMAIN U /\ U[pos].type = "fork" /\ Children(U, pos) # {}
  BY <1>1, <1>2, PutForkShape
<1>. HIDE DEF U
<1>4. /\ trie' = U /\ pc' = "normalize" /\ backing' = backing /\ call' = call
      /\ call.op = "remove" /\ Pending' = {pos}
  BY <1>1 DEF Edit, Pending
<1>5. TypeOK'
  BY <1>1, <1>3, <1>4 DEF IInv, TypeOK, Typed, Hashes
<1>6. StubsInPlace'
  BY <1>3, <1>4, KeptInPlace DEF StubsInPlace
<1>7. AtHand'
  BY <1>1, <1>3, <1>4 DEF AtHand, Occupied
<1>. QED
  BY <1>3, <1>4, <1>5, <1>6, <1>7 DEF IInv, Shape

(* The one parent of the place just left is at hand next.                   *)
LEMMA UnwindStep == ASSUME IInv, Unwind PROVE IInv'
<1>1. pc = "unwind"
  BY DEF Unwind
<1>2. PICK q \in DOMAIN trie : IsParent(trie, q, pos) /\ Edit(trie, "normalize") /\ pos' = q
  BY DEF Unwind
<1>3. WellFormedBut(trie, Parents(trie, pos))
  BY <1>1 DEF IInv, Shape, Pending, Parents
<1>4. Parents(trie, pos) = {q}
  <2>1. Connected(trie) /\ SkipsLead(trie, {r \in DOMAIN trie : TRUE})
    BY <1>3 DEF WellFormedBut, SkipsLead
  <2>2. \A r \in Parents(trie, pos) : r = q
    BY <1>2, <2>1, TrieTyped, OneParent DEF Parents
  <2>. QED
    BY <1>2, <2>2 DEF Parents
<1>5. /\ trie' = trie /\ pc' = "normalize" /\ backing' = backing /\ call' = call
      /\ call.op = "remove" /\ Pending' = {q}
  BY <1>2 DEF Edit, Pending
<1>6. q \in Path /\ starts_with(call.key, q)
  <2>1. \A r \in DOMAIN trie : trie[r].type = "skip" => trie[r].path # <<>>
    BY <1>3 DEF WellFormedBut, SkipsLead
  <2>2. q \in Path /\ starts_with(pos, q) /\ pos \in Path
    BY <1>2, <2>1, TrieTyped, ParentAbove DEF Below
  <2>3. call.key \in Path /\ starts_with(call.key, pos)
    BY <1>1, SuffixSplit DEF IInv, TypeOK
  <2>. QED
    BY <2>2, <2>3, PrefixTrans
<1>7. TypeOK'
  BY <1>2, <1>5, <1>6 DEF IInv, TypeOK
<1>8. AtHand'
  BY <1>1, <1>2, <1>4, <1>5 DEF IInv, AtHand, IsParent, Is
<1>. QED
  BY <1>3, <1>4, <1>5, <1>7, <1>8 DEF IInv, Shape, StubsInPlace

LEMMA ResolveSiblingStep == ASSUME IInv, ResolveSibling PROVE IInv'
<1>. DEFINE c == OnlyChild(trie, pos)
<1>1. /\ pc = "normalize" /\ Collapses(trie, pos) /\ c \in DOMAIN trie
      /\ trie[c].type = "stub" /\ resolve_stub(c)
  BY DEF ResolveSibling, Is
<1>2. PICK n \in Nibble : c = Append(pos, n) /\ n \in Children(trie, pos)
  BY <1>1, CollapseFields
<1>3. pos \in DOMAIN trie /\ pos \in Path /\ trie[pos].type = "fork"
  BY <1>1 DEF IInv, TypeOK, Collapses, Is
<1>. HIDE DEF c
<1>4. CASE \E error : Fail(error)
  BY <1>1, <1>4, FailStep
<1>5. CASE /\ trie' = Graft(trie, c, decode_node({}, trie[c].hash))
           /\ UNCHANGED <<backing, call, pc, pos, out, want, lost>>
  <2>1. WellFormedBut(trie, {pos})
    BY <1>1 DEF IInv, Shape, Pending
  <2>2. /\ Typed(trie', Hashes) /\ WellFormedBut(trie', {pos})
        /\ DOMAIN trie \subseteq DOMAIN trie'
        /\ \A q \in DOMAIN trie' : ~starts_with(q, c) => trie'[q] = trie[q]
        /\ \A u \in StubsOf(trie') :
              u \in Hashed(backing) /\ trie'[u].hash = Subtree(backing, u)
    BY <1>1, <1>5, <2>1, ResolveShape
  <2>3. Pending' = {pos}
    BY <1>1, <1>5 DEF Pending
  <2>4. TypeOK'
    BY <1>5, <2>2 DEF IInv, TypeOK, Typed, Hashes
  <2>5. ~starts_with(pos, c)
    BY <1>2, <1>3, AppendPath
  <2>6. trie'[pos] = trie[pos] /\ n \in Children(trie', pos)
    BY <1>2, <1>3, <2>2, <2>5 DEF Children
  <2>7. AtHand'
    BY <1>1, <1>3, <1>5, <2>2, <2>6 DEF IInv, AtHand, Occupied
  <2>. QED
    BY <1>5, <2>2, <2>3, <2>4, <2>7 DEF IInv, Shape, StubsInPlace
<1>. QED
  BY <1>1, <1>4, <1>5 DEF resolve_stub

LEMMA NormalizeStep == ASSUME IInv, Normalize PROVE IInv'
<1>. DEFINE U == normalize(trie, pos)
<1>1. /\ pc = "normalize" /\ Edit(U, "unwind") /\ pos' = pos
      /\ ~(Collapses(trie, pos) /\ Is(trie, OnlyChild(trie, pos), "stub"))
  BY DEF Normalize
<1>2. pos \in DOMAIN trie /\ trie[pos].type \in {"fork", "skip"} /\ Occupied(trie, pos)
  BY <1>1 DEF IInv, AtHand
<1>3. WellFormedBut(trie, {pos})
  BY <1>1 DEF IInv, Shape, Pending
<1>4. Rebuilt(trie, U, Hashes, pos)
  BY <1>1, <1>2, <1>3, TrieTyped, NormalizeShape
<1>. HIDE DEF U
<1>5. /\ Typed(U, Hashes) /\ StubsKept(trie, U)
      /\ WellFormedBut(U, Parents(U, pos))
      /\ ForksCrowded(U, {})
      /\ pos \in DOMAIN U /\ U[pos].type # "stub"
  BY <1>4 DEF Rebuilt
<1>6. /\ trie' = U /\ pc' = "unwind" /\ backing' = backing /\ call' = call
      /\ call.op = "remove" /\ Pending' = Parents(U, pos)
  BY <1>1 DEF Edit, Pending, Parents
<1>7. TypeOK'
  BY <1>1, <1>5, <1>6 DEF IInv, TypeOK, Typed, Hashes
<1>8. StubsInPlace'
  BY <1>5, <1>6, KeptInPlace DEF StubsInPlace
<1>9. ASSUME NEW q \in Parents(U, pos)
      PROVE  Occupied(U, q)
  BY <1>5 DEF Parents, IsParent, Is, Occupied, Children
<1>10. AtHand'
  BY <1>1, <1>5, <1>6, <1>9 DEF AtHand
<1>. QED
  BY <1>5, <1>6, <1>7, <1>8, <1>10 DEF IInv, Shape

LEMMA RemoveStep == ASSUME IInv, remove_at PROVE IInv'
  BY RemoveAbsentStep, RemoveLeafStep, RemoveForkValueStep, UnwindStep,
     ResolveSiblingStep, NormalizeStep, RemoveReturnsStep DEF remove_at

-----------------------------------------------------------------------------
(* The theorems                                                             *)

LEMMA NextInv == IInv /\ [Next]_vars => IInv'
<1>. SUFFICES ASSUME IInv, [Next]_vars PROVE IInv'
  OBVIOUS
<1>1. CASE Calls
  BY <1>1, CallStep
<1>2. CASE DescendSkip \/ DescendFork \/ Resolve
  BY <1>2, DescendSkipStep, DescendForkStep, ResolveStep
<1>3. CASE get_at \/ insert_at \/ remove_at
  BY <1>3, GetStep, InsertStep, RemoveStep
<1>4. CASE UNCHANGED vars
  BY <1>4 DEF vars, IInv, TypeOK, Shape, Pending, StubsInPlace, AtHand
<1>. QED
  BY <1>1, <1>2, <1>3, <1>4 DEF Next, Running

LEMMA SpecInv == Spec => []IInv
  BY InitInv, NextInv, PTL DEF Spec

(* The trie holds nodes of the four kinds, its hashes are of the backing    *)
(* trie, and the walk stays on the way to the key.                          *)
THEOREM TypeCorrect == Spec => []TypeOK
<1>1. IInv => TypeOK
  BY DEF IInv
<1>. QED
  BY <1>1, SpecInv, PTL

(* Whatever the keys, the values, the backing tries and the provider's      *)
(* answers, no step of a call breaks what debug_check asserts, but at the   *)
(* node that a removal is about to normalize.                               *)
THEOREM ShapeKept == Spec => []Shape
<1>1. IInv => Shape
  BY DEF IInv
<1>. QED
  BY <1>1, SpecInv, PTL

(* No insertion, removal, collapse or merge moves a Stub: a provider that   *)
(* keys on the path is always asked for the node the Stub stands for.  Nor  *)
(* does a Stub ever stand for a node that is inlined.                       *)
THEOREM StubsStay == Spec => []StubsInPlace
<1>1. IInv => StubsInPlace
  BY DEF IInv
<1>. QED
  BY <1>1, SpecInv, PTL

(* A removal collapses one Fork at most.                                    *)
THEOREM CollapseOnce == Spec => []OneCollapse
<1>1. IInv => OneCollapse
  BY DEF IInv, AtHand, Occupied, OneCollapse, Is
<1>. QED
  BY <1>1, SpecInv, PTL

-----------------------------------------------------------------------------
(* Every call ends                                                          *)

(* What a call has still to do, if nothing fails: two steps at most for     *)
(* each nibble on the way down and three for each on the way back, which is *)
(* a frame to go back to, a sibling to resolve and a node to normalize.     *)
StepsLeft ==
    CASE pc = "walk" ->
             3 * Len(call.key) + 3 + 2 * Len(suffix) + (IF At("stub") THEN 1 ELSE 0)
      [] pc = "normalize" ->
             3 * Len(pos) +
                IF Collapses(trie, pos) /\ Is(trie, OnlyChild(trie, pos), "stub") THEN 2 ELSE 1
      [] pc = "unwind" -> 3 * Len(pos)
      [] OTHER -> 0

(* Every step of a call brings it nearer to its end, whatever the provider  *)
(* sends: what is resolved is a node at last and not one more Stub, nothing *)
(* is resolved or normalized twice, and the walk never starts afresh.  So a *)
(* call returns after a number of steps that its key bounds.                *)
CallsAdvance ==
    [][pc # "idle" /\ pc' # "idle" => StepsLeft' \in 0..(StepsLeft - 1)]_vars

LEMMA BelowLonger ==
    ASSUME NEW p \in Path, NEW q \in Path, Below(p, q)
    PROVE  Len(q) + 1 <= Len(p)
<1>1. Len(p) \in Nat /\ Len(q) \in Nat
  BY PathLen
<1>2. Len(q) <= Len(p) /\ \A i \in 1..Len(q) : p[i] = q[i]
  BY StartsWithPointwise DEF Below
<1>3. Len(p) # Len(q)
  BY <1>1, <1>2, SeqEqual DEF Below, Path
<1>. QED
  BY <1>1, <1>2, <1>3

LEMMA StepLens ==
    ASSUME IInv, pc # "idle"
    PROVE  /\ Len(call.key) \in Nat /\ Len(pos) \in Nat /\ Len(pos) <= Len(call.key)
           /\ Len(suffix) = Len(call.key) - Len(pos)
<1>1. call.key \in Path /\ pos \in Path /\ starts_with(call.key, pos)
  BY SuffixSplit DEF IInv, TypeOK
<1>2. Len(call.key) \in Nat /\ Len(pos) \in Nat /\ Len(pos) <= Len(call.key)
  BY <1>1, PathLen DEF starts_with
<1>. QED
  BY <1>1, <1>2, DropProperties DEF suffix

(* The measure in each phase.                                               *)
LEMMA StepBounds ==
    ASSUME IInv
    PROVE  /\ pc = "walk" /\ Is(trie, pos, "stub") =>
                StepsLeft = 3 * Len(call.key) + 3 + 2 * (Len(call.key) - Len(pos)) + 1
           /\ pc = "walk" /\ ~Is(trie, pos, "stub") =>
                StepsLeft = 3 * Len(call.key) + 3 + 2 * (Len(call.key) - Len(pos))
           /\ pc = "normalize" => StepsLeft \in (3 * Len(pos) + 1)..(3 * Len(pos) + 2)
           /\ pc = "unwind" => StepsLeft = 3 * Len(pos)
<1>1. CASE pc = "walk"
  <2>. DEFINE n == 3 * Len(call.key) + 3 + 2 * Len(suffix)
  <2>1. StepsLeft = n + (IF Is(trie, pos, "stub") THEN 1 ELSE 0)
    BY <1>1 DEF StepsLeft, At
  <2>2. /\ Len(call.key) \in Nat /\ Len(pos) \in Nat /\ Len(pos) <= Len(call.key)
        /\ Len(suffix) = Len(call.key) - Len(pos)
    BY <1>1, StepLens
  <2>3. n \in Nat /\ n = 3 * Len(call.key) + 3 + 2 * (Len(call.key) - Len(pos))
    BY <2>2
  <2>. HIDE DEF n
  <2>4. CASE Is(trie, pos, "stub")
    BY <1>1, <2>1, <2>3, <2>4
  <2>5. CASE ~Is(trie, pos, "stub")
    BY <1>1, <2>1, <2>3, <2>5
  <2>. QED
    BY <2>4, <2>5
<1>2. CASE pc = "normalize"
  <2>1. StepsLeft = 3 * Len(pos) + 1 \/ StepsLeft = 3 * Len(pos) + 2
    BY <1>2 DEF StepsLeft
  <2>. QED
    BY <1>2, <2>1, StepLens
<1>3. CASE pc = "unwind"
  BY <1>3 DEF StepsLeft
<1>. QED
  BY <1>1, <1>2, <1>3

LEMMA NextLens ==
    ASSUME IInv', pc' # "idle"
    PROVE  /\ Len(call'.key) \in Nat /\ Len(pos') \in Nat /\ Len(pos') <= Len(call'.key)
           /\ Len(suffix') = Len(call'.key) - Len(pos')
<1>1. call'.key \in Path /\ pos' \in Path /\ starts_with(call'.key, pos')
  BY KeysAssumption DEF IInv, TypeOK, Request
<1>2. Len(call'.key) \in Nat /\ Len(pos') \in Nat /\ Len(pos') <= Len(call'.key)
  BY <1>1, PathLen DEF starts_with
<1>. QED
  BY <1>1, <1>2, DropProperties DEF suffix

LEMMA NextBounds ==
    ASSUME IInv'
    PROVE  /\ pc' = "walk" /\ Is(trie', pos', "stub") =>
                StepsLeft' = 3 * Len(call'.key) + 3 + 2 * (Len(call'.key) - Len(pos')) + 1
           /\ pc' = "walk" /\ ~Is(trie', pos', "stub") =>
                StepsLeft' = 3 * Len(call'.key) + 3 + 2 * (Len(call'.key) - Len(pos'))
           /\ pc' = "normalize" => StepsLeft' \in (3 * Len(pos') + 1)..(3 * Len(pos') + 2)
           /\ pc' = "unwind" => StepsLeft' = 3 * Len(pos')
<1>1. CASE pc' = "walk"
  <2>. DEFINE n == 3 * Len(call'.key) + 3 + 2 * Len(suffix')
  <2>1. StepsLeft' = n + (IF Is(trie', pos', "stub") THEN 1 ELSE 0)
    BY <1>1 DEF StepsLeft, At
  <2>2. /\ Len(call'.key) \in Nat /\ Len(pos') \in Nat /\ Len(pos') <= Len(call'.key)
        /\ Len(suffix') = Len(call'.key) - Len(pos')
    BY <1>1, NextLens
  <2>3. n \in Nat /\ n = 3 * Len(call'.key) + 3 + 2 * (Len(call'.key) - Len(pos'))
    BY <2>2
  <2>. HIDE DEF n
  <2>4. CASE Is(trie', pos', "stub")
    BY <1>1, <2>1, <2>3, <2>4
  <2>5. CASE ~Is(trie', pos', "stub")
    BY <1>1, <2>1, <2>3, <2>5
  <2>. QED
    BY <2>4, <2>5
<1>2. CASE pc' = "normalize"
  <2>1. StepsLeft' = 3 * Len(pos') + 1 \/ StepsLeft' = 3 * Len(pos') + 2
    BY <1>2 DEF StepsLeft
  <2>. QED
    BY <1>2, <2>1, NextLens
<1>3. CASE pc' = "unwind"
  BY <1>3 DEF StepsLeft
<1>. QED
  BY <1>1, <1>2, <1>3

(* What is resolved is no Stub.                                             *)
LEMMA ResolvedNode ==
    ASSUME IInv, NEW p \in DOMAIN trie, trie[p].type = "stub"
    PROVE  LET U == Graft(trie, p, decode_node({}, trie[p].hash))
           IN  /\ U[p].type # "stub"
               /\ \A q \in DOMAIN U : q \in DOMAIN trie \/ starts_with(q, p)
<1>. DEFINE S == trie[p].hash
            D == decode_node({}, S)
            U == Graft(trie, p, D)
<1>1. p \in Hashed(backing) /\ p \in DOMAIN backing /\ p \in Path /\ S = Subtree(backing, p)
  BY TrieTyped DEF IInv, StubsInPlace, StubsOf, Hashed, Typed
<1>2. Whole(S) /\ <<>> \in DOMAIN S
  BY <1>1, TrieTyped, SubtreeWhole
<1>3. S[<<>>].type \in {"leaf", "skip", "fork"}
  <2>1. Typed(S, {})
    BY <1>2 DEF Whole
  <2>. QED
    BY <1>2, <2>1, NodeTypes
<1>4. D[<<>>] = S[<<>>] /\ DOMAIN D \subseteq Path
  BY <1>2, DecodeShape DEF Typed
<1>5. starts_with(p, p) /\ Drop(p, Len(p)) = <<>>
  BY <1>1, PrefixRefl, DropConcat, ConcatEmpty, EmptyPath
<1>6. DOMAIN U = DOMAIN trie \cup {p \o t : t \in DOMAIN D} /\ U[p] = D[<<>>]
  BY <1>5 DEF Graft
<1>7. \A t \in DOMAIN D : starts_with(p \o t, p)
  BY <1>1, <1>4, PrefixConcat
<1>. QED
  BY <1>3, <1>4, <1>6, <1>7

(* A sibling is resolved once: the Fork keeps its one child, which is no    *)
(* Stub any more.                                                           *)
LEMMA SiblingResolved ==
    ASSUME IInv, pc = "normalize", Collapses(trie, pos),
           NEW c, c = OnlyChild(trie, pos), c \in DOMAIN trie, trie[c].type = "stub",
           trie' = Graft(trie, c, decode_node({}, trie[c].hash)), pos' = pos
    PROVE  ~(Collapses(trie, pos) /\ Is(trie, OnlyChild(trie, pos), "stub"))'
<1>1. PICK n \in Nibble : c = Append(pos, n) /\ Children(trie, pos) = {n}
  BY CollapseFields
<1>2. pos \in Path /\ c \in Path /\ DOMAIN trie \subseteq Path
  BY <1>1, AppendPath DEF IInv, TypeOK
<1>3. trie'[c].type # "stub"
  BY ResolvedNode
<1>4. \A m \in Children(trie', pos) : m = n
  <2>. SUFFICES ASSUME NEW m \in Nibble, Append(pos, m) \in DOMAIN trie' PROVE m = n
    BY DEF Children
  <2>1. CASE Append(pos, m) \in DOMAIN trie
    BY <1>1, <2>1 DEF Children
  <2>2. CASE starts_with(Append(pos, m), c)
    <3>1. Append(pos, m) \in Path /\ starts_with(Append(pos, m), Append(pos, m))
      BY <1>2, AppendPath, PrefixRefl
    <3>. QED
      BY <1>1, <1>2, <2>2, <3>1, AppendApart
  <2>3. \A q \in DOMAIN trie' : q \in DOMAIN trie \/ starts_with(q, c)
    BY ResolvedNode
  <2>. QED
    BY <2>1, <2>2, <2>3
<1>5. Collapses(trie', pos) => OnlyChild(trie', pos) = c
  BY <1>1, <1>4, CollapseFields
<1>. QED
  BY <1>3, <1>5 DEF Is

LEMMA DescendAdvances ==
    ASSUME IInv, IInv', pc = "walk", ~Is(trie, pos, "stub"), NEW p, Descend(p), Below(p, pos)
    PROVE  StepsLeft' \in 0..(StepsLeft - 1)
<1>1. pc' = "walk" /\ pos' = p /\ call' = call
  BY DEF Descend
<1>2. /\ Len(call.key) \in Nat /\ Len(pos) \in Nat /\ Len(p) \in Nat /\ Len(p) <= Len(call.key)
      /\ pos \in Path /\ p \in Path
  BY <1>1, StepLens, NextLens DEF IInv, TypeOK
<1>3. Len(pos) + 1 <= Len(p)
  BY <1>2, BelowLonger
<1>4. StepsLeft = 3 * Len(call.key) + 3 + 2 * (Len(call.key) - Len(pos))
  BY StepBounds
<1>5. \/ StepsLeft' = 3 * Len(call.key) + 3 + 2 * (Len(call.key) - Len(p))
      \/ StepsLeft' = 3 * Len(call.key) + 3 + 2 * (Len(call.key) - Len(p)) + 1
  BY <1>1, NextBounds
<1>. QED
  BY <1>2, <1>3, <1>4, <1>5

LEMMA ReturnsAdvance ==
    ASSUME IInv, IInv', Running, pc' # "idle",
           ~DescendSkip, ~DescendFork, ~Resolve, ~ResolveSibling
    PROVE  StepsLeft' \in 0..(StepsLeft - 1)
<1>1. RemoveLeaf \/ RemoveForkValue \/ Unwind \/ Normalize
  BY DEF Running, get_at, GetNull, GetLeaf, GetSkip, GetForkValue, GetForkChild, Answer,
         insert_at, InsertNull, InsertLeaf, InsertSplitLeaf, InsertSplitSkip, InsertForkValue,
         InsertForkChild, Inserted, remove_at, RemoveAbsent, RemoveReturns, Return
<1>2. CASE RemoveLeaf \/ RemoveForkValue
  <2>1. /\ pc = "walk" /\ ~Is(trie, pos, "stub") /\ pos' = pos /\ call' = call
        /\ pc' \in {"unwind", "normalize"}
    BY <1>2 DEF RemoveLeaf, RemoveForkValue, At, Is, Edit
  <2>2. StepsLeft = 3 * Len(call.key) + 3 + 2 * (Len(call.key) - Len(pos))
    BY <2>1, StepBounds
  <2>3. StepsLeft' \in (3 * Len(pos))..(3 * Len(pos) + 2)
    BY <2>1, NextBounds, StepLens
  <2>. QED
    BY <2>1, <2>2, <2>3, StepLens
<1>3. CASE Unwind
  <2>1. PICK q \in DOMAIN trie : IsParent(trie, q, pos) /\ pos' = q
    BY <1>3 DEF Unwind
  <2>2. pc = "unwind" /\ pc' = "normalize"
    BY <1>3 DEF Unwind, Edit
  <2>3. trie[q].type = "skip" => trie[q].path # <<>>
    BY <2>1 DEF IInv, Shape, WellFormedBut, SkipsLead
  <2>4. Below(pos, q) /\ q \in Path /\ pos \in Path
    BY <2>1, <2>3, TrieTyped, ParentAbove
  <2>5. Len(q) \in Nat /\ Len(pos) \in Nat /\ Len(q) + 1 <= Len(pos)
    BY <2>4, BelowLonger, PathLen
  <2>6. StepsLeft = 3 * Len(pos) /\ StepsLeft' \in (3 * Len(q) + 1)..(3 * Len(q) + 2)
    BY <2>1, <2>2, StepBounds, NextBounds
  <2>. QED
    BY <2>5, <2>6
<1>4. CASE Normalize
  <2>1. pc = "normalize" /\ pc' = "unwind" /\ pos' = pos
    BY <1>4 DEF Normalize, Edit
  <2>2. StepsLeft \in (3 * Len(pos) + 1)..(3 * Len(pos) + 2) /\ StepsLeft' = 3 * Len(pos)
    BY <2>1, StepBounds, NextBounds
  <2>. QED
    BY <2>1, <2>2, StepLens
<1>. QED
  BY <1>1, <1>2, <1>3, <1>4

LEMMA NextAdvances ==
    ASSUME IInv, IInv', [Next]_vars
    PROVE  [pc # "idle" /\ pc' # "idle" => StepsLeft' \in 0..(StepsLeft - 1)]_vars
<1>. SUFFICES ASSUME Next, pc # "idle", pc' # "idle"
              PROVE  StepsLeft' \in 0..(StepsLeft - 1)
  OBVIOUS
<1>1. Running
  BY DEF Next, Calls, Call
<1>2. CASE DescendSkip
  <2>. DEFINE path == trie[pos].path
  <2>1. /\ pc = "walk" /\ pos \in DOMAIN trie /\ trie[pos].type = "skip"
        /\ Descend(pos \o path) /\ ~Is(trie, pos, "stub")
    BY <1>2 DEF DescendSkip, At, Is
  <2>2. pos \in Path /\ path \in Path /\ path # <<>>
    BY <2>1, TrieTyped DEF IInv, TypeOK, Shape, WellFormedBut, SkipsLead, Paths
  <2>3. Below(pos \o path, pos)
    BY <2>2, PrefixConcat DEF Below
  <2>. HIDE DEF path
  <2>. QED
    BY <2>1, <2>3, DescendAdvances
<1>3. CASE DescendFork
  <2>1. /\ pc = "walk" /\ suffix # <<>> /\ Descend(Append(pos, Head(suffix)))
        /\ ~Is(trie, pos, "stub")
    BY <1>3 DEF DescendFork, At, Is
  <2>2. Below(Append(pos, Head(suffix)), pos)
    BY <2>1, NextNibble, AppendPath DEF IInv, TypeOK, Below
  <2>. QED
    BY <2>1, <2>2, DescendAdvances
<1>4. CASE Resolve
  <2>1. pc = "walk" /\ pos \in DOMAIN trie /\ trie[pos].type = "stub" /\ resolve_stub(pos)
    BY <1>4 DEF Resolve, At, Is
  <2>2. /\ trie' = Graft(trie, pos, decode_node({}, trie[pos].hash))
        /\ pc' = pc /\ pos' = pos /\ call' = call
    BY <2>1 DEF resolve_stub, Fail
  <2>3. ~Is(trie, pos, "stub")'
    BY <2>1, <2>2, ResolvedNode DEF Is
  <2>4. StepsLeft = 3 * Len(call.key) + 3 + 2 * (Len(call.key) - Len(pos)) + 1
    BY <2>1, StepBounds DEF Is
  <2>5. StepsLeft' = 3 * Len(call.key) + 3 + 2 * (Len(call.key) - Len(pos))
    BY <2>1, <2>2, <2>3, NextBounds
  <2>. QED
    BY <2>1, <2>4, <2>5, StepLens
<1>5. CASE ResolveSibling
  <2>. DEFINE c == OnlyChild(trie, pos)
  <2>1. /\ pc = "normalize" /\ Collapses(trie, pos) /\ c \in DOMAIN trie
        /\ trie[c].type = "stub" /\ resolve_stub(c)
    BY <1>5 DEF ResolveSibling, Is
  <2>2. /\ trie' = Graft(trie, c, decode_node({}, trie[c].hash))
        /\ pc' = pc /\ pos' = pos
    BY <2>1 DEF resolve_stub, Fail
  <2>3. StepsLeft = 3 * Len(pos) + 2
    BY <2>1 DEF StepsLeft, Is
  <2>4. ~(Collapses(trie, pos) /\ Is(trie, OnlyChild(trie, pos), "stub"))'
    BY <1>5, <2>1, <2>2, SiblingResolved
  <2>5. StepsLeft' = 3 * Len(pos) + 1
    BY <2>1, <2>2, <2>4 DEF StepsLeft
  <2>. QED
    BY <2>1, <2>3, <2>5, StepLens
<1>. QED
  BY <1>1, <1>2, <1>3, <1>4, <1>5, ReturnsAdvance

(* For all keys and tries, and whatever the provider sends, a call is over  *)
(* after a number of steps that is bounded by the length of its key.        *)
THEOREM CallsAlwaysAdvance == Spec => CallsAdvance
<1>1. IInv /\ IInv' /\ [Next]_vars =>
         [pc # "idle" /\ pc' # "idle" => StepsLeft' \in 0..(StepsLeft - 1)]_vars
  BY NextAdvances
<1>. QED
  BY <1>1, SpecInv, PTL DEF Spec, CallsAdvance

-----------------------------------------------------------------------------
(* The walk *)

LEMMA SolidIntro ==
    ASSUME NEW S \in Backings, NEW T, NEW X,
           T \in [DOMAIN T -> Node(SubtreesOf(S))], DOMAIN T \subseteq Path, WellFormedBut(T, X)
    PROVE  Solid(T, SubtreesOf(S))
<1>1. Whole(S)
  BY BackingWhole
<1>2. \A h \in SubtreesOf(S) : Whole(h)
  BY <1>1, SubtreeWhole DEF SubtreesOf
<1>. QED
  BY <1>2 DEF Solid, Typed, WellFormedBut

LEMMA TrieSolid == ASSUME IInv PROVE Solid(trie, Hashes)
  BY SolidIntro DEF IInv, TypeOK, Shape, Hashes

LEMMA NextSolid == ASSUME IInv' PROVE Solid(trie', Hashes')
<1>1. /\ backing' \in Backings
      /\ trie' \in [DOMAIN trie' -> Node(SubtreesOf(backing'))] /\ DOMAIN trie' \subseteq Path
      /\ WellFormedBut(trie', Pending')
  BY DEF IInv, TypeOK, Shape
<1>. QED
  BY <1>1, SolidIntro DEF Hashes

(* Where the walk ends without the key, the trie does not bind it.          *)
LEMMA WalkAbsent ==
    ASSUME IInv, pc = "walk",
           \/ trie = Null
           \/ At("leaf") /\ trie[pos].path # suffix
           \/ At("skip") /\ ~starts_with(suffix, trie[pos].path)
           \/ At("fork") /\ suffix = <<>> /\ trie[pos].value = NoValue
           \/ At("fork") /\ suffix # <<>> /\ Head(suffix) \notin Children(trie, pos)
    PROVE  call.key \notin DOMAIN Bindings(trie)
<1>1. Solid(trie, Hashes)
  BY TrieSolid
<1>2. call.key \in Path /\ pos \in Path /\ suffix \in Path /\ call.key = pos \o suffix
  BY SuffixSplit
<1>3. starts_with(call.key, pos)
  BY <1>2, PrefixConcat
<1>4. ASSUME NEW v
      PROVE  ~Binds(trie, call.key, v)
  <2>1. CASE trie = Null
    <3>1. DOMAIN trie = {}
      BY <2>1 DEF Null
    <3>. QED
      BY <3>1 DEF Binds
  <2>2. CASE At("leaf") /\ trie[pos].path # suffix
    <3>1. pos \in DOMAIN trie /\ trie[pos].type = "leaf" /\ trie[pos].path \in Path
      BY <1>1, <2>2, NodeTypes DEF At, Is, Solid
    <3>2. pos \o trie[pos].path # call.key
      BY <1>2, <2>2, <3>1, ConcatCancel
    <3>3. ~Yields(pos, trie[pos], call.key, v)
      BY <3>1, <3>2, TypeYields
    <3>. QED
      BY <1>1, <1>2, <1>3, <3>1, <3>3, LeafAlone, BindsSplit
  <2>3. CASE At("skip") /\ ~starts_with(suffix, trie[pos].path)
    BY <1>1, <1>2, <2>3, SkipAbsent DEF At, Is
  <2>4. CASE At("fork") /\ suffix = <<>> /\ trie[pos].value = NoValue
    <3>1. pos \in DOMAIN trie /\ trie[pos].type = "fork" /\ call.key = pos
      BY <1>2, <2>4, ConcatEmpty DEF At, Is
    <3>2. ~Yields(pos, trie[pos], call.key, v)
      BY <2>4, <3>1, TypeYields
    <3>. QED
      BY <1>1, <3>1, <3>2, ForkAlone, BindsSplit
  <2>5. CASE At("fork") /\ suffix # <<>> /\ Head(suffix) \notin Children(trie, pos)
    BY <1>1, <1>2, <2>5, ForkAbsent DEF At, Is
  <2>. QED
    BY <2>1, <2>2, <2>3, <2>4, <2>5
<1>. QED
  BY <1>1, <1>4, BindingsBind

Lookup(m, k) == IF k \in DOMAIN m THEN m[k] ELSE NoValue

LEMMA GetAnswers ==
    ASSUME IInv, get_at
    PROVE  /\ out' = Ok(Lookup(Bindings(trie), call.key))
           /\ call.op = "get" /\ pc = "walk" /\ pc' = "idle"
           /\ UNCHANGED <<backing, trie, call, pos, want, lost>>
<1>1. Solid(trie, Hashes)
  BY TrieSolid
<1>2. pc = "walk" /\ call.op = "get" /\ pc' = "idle"
      /\ UNCHANGED <<backing, trie, call, pos, want, lost>>
  BY DEF get_at, GetNull, GetLeaf, GetSkip, GetForkValue, GetForkChild, At, Answer, Return
<1>3. call.key \in Path /\ pos \in Path /\ suffix \in Path /\ call.key = pos \o suffix
  BY <1>2, SuffixSplit
<1>4. ASSUME NEW v, Binds(trie, call.key, v)
      PROVE  Lookup(Bindings(trie), call.key) = v
  BY <1>1, <1>4, BindingsBind DEF Lookup
<1>5. CASE GetNull
  BY <1>2, <1>5, WalkAbsent DEF GetNull, Answer, Return, Lookup
<1>6. CASE GetLeaf
  <2>1. CASE trie[pos].path = suffix
    <3>. pos \in DOMAIN trie /\ trie[pos].type = "leaf"
      BY <1>6 DEF GetLeaf, At, Is
    <3>0. call.key = pos \o trie[pos].path
      BY <1>3, <2>1
    <3>1. Yields(pos, trie[pos], call.key, trie[pos].value) /\ pos \in DOMAIN trie
      BY <3>0 DEF Yields, Gives
    <3>2. Binds(trie, call.key, trie[pos].value)
      BY <3>1 DEF Binds
    <3>. QED
      BY <1>2, <1>4, <1>6, <2>1, <3>2 DEF GetLeaf, Answer, Return
  <2>2. CASE trie[pos].path # suffix
    BY <1>2, <1>6, <2>2, WalkAbsent DEF GetLeaf, Answer, Return, Lookup
  <2>. QED
    BY <2>1, <2>2
<1>7. CASE GetSkip
  BY <1>2, <1>7, WalkAbsent DEF GetSkip, Answer, Return, Lookup
<1>8. CASE GetForkValue
  <2>1. pos \in DOMAIN trie /\ trie[pos].type = "fork" /\ call.key = pos
    BY <1>3, <1>8, ConcatEmpty DEF GetForkValue, At, Is
  <2>2. CASE trie[pos].value # NoValue
    <3>1. Binds(trie, call.key, trie[pos].value)
      BY <2>1, <2>2, TypeYields DEF Binds
    <3>. QED
      BY <1>2, <1>4, <1>8, <3>1 DEF GetForkValue, Answer, Return
  <2>3. CASE trie[pos].value = NoValue
    BY <1>2, <1>8, <2>3, WalkAbsent DEF GetForkValue, Answer, Return, Lookup
  <2>. QED
    BY <2>2, <2>3
<1>9. CASE GetForkChild
  BY <1>2, <1>9, WalkAbsent DEF GetForkChild, Answer, Return, Lookup
<1>. QED
  BY <1>2, <1>5, <1>6, <1>7, <1>8, <1>9 DEF get_at

-----------------------------------------------------------------------------
(* What each step does to the bindings *)

LEMMA InsertRebinds ==
    ASSUME IInv, insert_at
    PROVE  Rebinds(trie, trie', call.key, call.value)
<1>1. Solid(trie, Hashes)
  BY TrieSolid
<1>2. pc = "walk" /\ call.op = "insert"
  BY DEF insert_at, InsertNull, InsertLeaf, InsertSplitLeaf, InsertSplitSkip, InsertForkValue,
         InsertForkChild, At, Inserted
<1>3. /\ call.key \in Path /\ pos \in Path /\ suffix \in Path /\ call.key = pos \o suffix
      /\ call.value \in Value /\ call.value # NoValue
  BY <1>2, SuffixSplit, CallValue, NoValueAssumption
<1>4. CASE InsertNull
  <2>1. pos = <<>> /\ suffix = call.key
    <3>1. <<>> \notin DOMAIN trie /\ DOMAIN trie = {}
      BY <1>4 DEF InsertNull, Null
    <3>2. pos = <<>>
      BY <1>2, <3>1 DEF IInv, AtHand
    <3>. QED
      BY <1>3, <3>2, ConcatEmpty
  <2>2. trie = Null /\ trie' = Put(Null, <<>>, Leaf(call.key, call.value))
    BY <1>4, <2>1 DEF InsertNull, Inserted, Return
  <2>3. <<>> \o call.key = call.key
    BY <1>3, ConcatEmpty
  <2>4. ASSUME NEW k, NEW v
        PROVE  /\ Binds(trie', k, v) <=> k = call.key /\ v = call.value
               /\ ~Binds(trie, k, v)
    <3>1. DOMAIN Null = {}
      BY DEF Null
    <3>2. ~Binds(trie, k, v) /\ ~Others(Null, <<>>, k, v)
      BY <2>2, <3>1 DEF Binds, Others
    <3>3. Binds(trie', k, v) <=> Yields(<<>>, Leaf(call.key, call.value), k, v)
      BY <2>2, <3>2, PutBinds
    <3>4. Yields(<<>>, Leaf(call.key, call.value), k, v) <=> k = call.key /\ v = call.value
      BY <2>3 DEF Yields, Gives, Leaf
    <3>. QED
      BY <3>2, <3>3, <3>4
  <2>. QED
    BY <2>4 DEF Rebinds
<1>5. CASE InsertLeaf
  <2>1. /\ pos \in DOMAIN trie /\ trie[pos].type = "leaf" /\ trie[pos].path = suffix
        /\ trie' = Put(trie, pos, Leaf(suffix, call.value))
    BY <1>5 DEF InsertLeaf, At, Is, Inserted, Return
  <2>2. Rebinds(trie, Put(trie, pos, Leaf(trie[pos].path, call.value)),
                pos \o trie[pos].path, call.value)
    BY <1>1, <2>1, PutLeafBinds
  <2>. QED
    BY <1>3, <2>1, <2>2
<1>6. CASE InsertSplitLeaf
  <2>1. /\ pos \in DOMAIN trie /\ trie[pos].type = "leaf" /\ trie[pos].path # suffix
        /\ trie' = SplitLeaf(trie, pos, suffix, call.value)
    BY <1>6 DEF InsertSplitLeaf, At, Is, Inserted, Return
  <2>2. Rebinds(trie, SplitLeaf(trie, pos, suffix, call.value), pos \o suffix, call.value)
    BY <1>1, <1>3, <2>1, SplitLeafBinds
  <2>. QED
    BY <1>3, <2>1, <2>2
<1>7. CASE InsertSplitSkip
  <2>1. /\ pos \in DOMAIN trie /\ trie[pos].type = "skip" /\ ~starts_with(suffix, trie[pos].path)
        /\ trie' = SplitSkip(trie, pos, suffix, call.value)
    BY <1>7 DEF InsertSplitSkip, At, Is, Inserted, Return
  <2>2. Rebinds(trie, SplitSkip(trie, pos, suffix, call.value), pos \o suffix, call.value)
    BY <1>1, <1>3, <2>1, SplitSkipBinds
  <2>. QED
    BY <1>3, <2>1, <2>2
<1>8. CASE InsertForkValue
  <2>1. /\ pos \in DOMAIN trie /\ trie[pos].type = "fork" /\ suffix = <<>>
        /\ trie' = Put(trie, pos, Fork(call.value))
    BY <1>8 DEF InsertForkValue, At, Is, Inserted, Return
  <2>2. Rebinds(trie, Put(trie, pos, Fork(call.value)), pos, call.value)
    BY <1>1, <1>3, <2>1, PutForkBinds
  <2>3. call.key = pos
    BY <1>3, <2>1, ConcatEmpty
  <2>. QED
    BY <2>1, <2>2, <2>3
<1>9. CASE InsertForkChild
  <2>1. /\ pos \in DOMAIN trie /\ trie[pos].type = "fork" /\ suffix # <<>>
        /\ Head(suffix) \notin Children(trie, pos)
        /\ trie' = Hang(trie, pos, suffix, call.value)
    BY <1>9 DEF InsertForkChild, At, Is, Inserted, Return
  <2>2. Rebinds(trie, Hang(trie, pos, suffix, call.value), pos \o suffix, call.value)
    BY <1>1, <1>3, <2>1, HangForkBinds
  <2>. QED
    BY <1>3, <2>1, <2>2
<1>. QED
  BY <1>4, <1>5, <1>6, <1>7, <1>8, <1>9 DEF insert_at

(* An insert binds its key, whatever arm of insert_at ends it.              *)
LEMMA InsertBinds ==
    ASSUME IInv, insert_at
    PROVE  /\ Bindings(trie') = Put(Bindings(trie), call.key, call.value)
           /\ out' = Ok(NoValue) /\ want' = Put(want, call.key, call.value)
           /\ call.op = "insert" /\ pc = "walk" /\ pc' = "idle"
           /\ UNCHANGED <<backing, call, lost>>
<1>1. IInv'
  BY InsertStep
<1>2. Solid(trie, Hashes) /\ Solid(trie', Hashes')
  BY <1>1, TrieSolid, NextSolid
<1>3. Bindings(trie') = Put(Bindings(trie), call.key, call.value)
  BY <1>2, InsertRebinds, ReboundBindings
<1>4. /\ out' = Ok(NoValue) /\ want' = Put(want, call.key, call.value)
      /\ call.op = "insert" /\ pc = "walk" /\ pc' = "idle"
      /\ UNCHANGED <<backing, call, lost>>
  BY DEF insert_at, InsertNull, InsertLeaf, InsertSplitLeaf, InsertSplitSkip, InsertForkValue,
         InsertForkChild, At, Inserted, Return
<1>. QED
  BY <1>3, <1>4

(* The key is bound before the step that takes its binding out, not after.  *)
LEMMA RemoveUnbinds ==
    ASSUME IInv, RemoveLeaf \/ RemoveForkValue
    PROVE  /\ Bindings(trie') = Cut(Bindings(trie), {call.key})
           /\ call.key \in DOMAIN Bindings(trie)
           /\ call.op = "remove" /\ pc = "walk" /\ pc' \in {"normalize", "unwind"}
           /\ UNCHANGED <<backing, call, out, want, lost>>
<1>1. IInv'
  BY RemoveLeafStep, RemoveForkValueStep
<1>2. Solid(trie, Hashes) /\ Solid(trie', Hashes')
  BY <1>1, TrieSolid, NextSolid
<1>3. /\ call.op = "remove" /\ pc = "walk" /\ pc' \in {"normalize", "unwind"}
      /\ UNCHANGED <<backing, call, out, want, lost>>
  BY DEF RemoveLeaf, RemoveForkValue, At, Edit
<1>4. call.key \in Path /\ pos \in Path /\ suffix \in Path /\ call.key = pos \o suffix
  BY <1>3, SuffixSplit
<1>5. \E v : Binds(trie, call.key, v)
  <2>1. CASE RemoveLeaf
    <3>1. pos \in DOMAIN trie /\ trie[pos].type = "leaf" /\ call.key = pos \o trie[pos].path
      BY <1>4, <2>1 DEF RemoveLeaf, At, Is
    <3>2. Yields(pos, trie[pos], call.key, trie[pos].value)
      BY <3>1 DEF Yields, Gives
    <3>. QED
      BY <3>1, <3>2 DEF Binds
  <2>2. CASE RemoveForkValue
    <3>1. /\ pos \in DOMAIN trie /\ trie[pos].type = "fork" /\ call.key = pos
          /\ trie[pos].value # NoValue
      BY <1>4, <2>2, ConcatEmpty DEF RemoveForkValue, At, Is
    <3>2. Yields(pos, trie[pos], call.key, trie[pos].value)
      BY <3>1 DEF Yields, Gives
    <3>. QED
      BY <3>1, <3>2 DEF Binds
  <2>. QED
    BY <2>1, <2>2
<1>6. Unbinds(trie, trie', call.key)
  <2>1. CASE RemoveLeaf
    <3>1. /\ pos \in DOMAIN trie /\ trie[pos].type = "leaf" /\ call.key = pos \o trie[pos].path
          /\ trie' = Cut(trie, {pos})
      BY <1>4, <2>1 DEF RemoveLeaf, At, Is, Edit
    <3>. QED
      BY <1>2, <3>1, CutLeafBinds
  <2>2. CASE RemoveForkValue
    <3>1. /\ pos \in DOMAIN trie /\ trie[pos].type = "fork" /\ call.key = pos
          /\ trie' = Put(trie, pos, Fork(NoValue))
      BY <1>4, <2>2, ConcatEmpty DEF RemoveForkValue, At, Is, Edit
    <3>. QED
      BY <1>2, <3>1, PutForkBinds
  <2>. QED
    BY <2>1, <2>2
<1>7. Bindings(trie') = Cut(Bindings(trie), {call.key})
  BY <1>2, <1>6, UnboundBindings
<1>8. call.key \in DOMAIN Bindings(trie)
  BY <1>2, <1>5, BindingsBind
<1>. QED
  BY <1>3, <1>7, <1>8

LEMMA RemoveFindsNone ==
    ASSUME IInv, RemoveAbsent
    PROVE  /\ call.key \notin DOMAIN Bindings(trie)
           /\ call.op = "remove" /\ pc = "walk" /\ pc' = "idle" /\ out' = Ok(FALSE)
           /\ UNCHANGED <<backing, trie, call, want, lost>>
<1>1. /\ call.op = "remove" /\ pc = "walk" /\ pc' = "idle" /\ out' = Ok(FALSE)
      /\ UNCHANGED <<backing, trie, call, want, lost>>
  BY DEF RemoveAbsent, At, Return
<1>2. call.key \notin DOMAIN Bindings(trie)
  BY WalkAbsent DEF RemoveAbsent, At
<1>. QED
  BY <1>1, <1>2

(* Resolving a Stub, on the walk or beside it, shows what was there.        *)
LEMMA ResolveKeeps ==
    ASSUME IInv, IInv', NEW p \in DOMAIN trie, trie[p].type = "stub",
           trie' = Graft(trie, p, decode_node({}, trie[p].hash))
    PROVE  Bindings(trie') = Bindings(trie)
<1>1. Solid(trie, Hashes) /\ Solid(trie', Hashes')
  BY TrieSolid, NextSolid
<1>2. Whole(backing) /\ DOMAIN backing \subseteq Path
  BY TrieTyped DEF Whole, Typed
<1>3. p \in DOMAIN backing /\ trie[p].hash = Subtree(backing, p)
  BY DEF IInv, StubsInPlace, StubsOf, Hashed
<1>4. <<>> \in DOMAIN trie[p].hash
  BY <1>2, <1>3, SubtreeWhole
<1>5. SameBinds(trie, trie')
  BY <1>1, <1>4, ResolveBinds
<1>. QED
  BY <1>1, <1>5, SameBindings

(* A call that resolves a Stub either goes on or fails.                     *)
LEMMA ResolveOutcome ==
    ASSUME IInv, IInv', Resolve \/ ResolveSibling
    PROVE  /\ pc \in {"walk", "normalize"}
           /\ \/ /\ Bindings(trie') = Bindings(trie)
                 /\ UNCHANGED <<backing, call, pc, pos, out, want, lost>>
              \/ \E error : error.status \in {"missing", "mismatch"} /\ Fail(error)
<1>1. PICK p \in DOMAIN trie : trie[p].type = "stub" /\ resolve_stub(p)
  BY DEF Resolve, ResolveSibling, At, Is
<1>2. pc \in {"walk", "normalize"}
  BY DEF Resolve, ResolveSibling, At
<1>3. PICK answer \in Answers(p) :
        \/ /\ ~answer.found
           /\ Fail(MissingNode(trie[p].hash, p))
        \/ /\ answer.found
           /\ answer.hash # trie[p].hash
           /\ Fail(HashMismatch(trie[p].hash))
        \/ /\ answer.found
           /\ answer.hash = trie[p].hash
           /\ trie' = Graft(trie, p, decode_node({}, trie[p].hash))
           /\ UNCHANGED <<backing, call, pc, pos, out, want, lost>>
  BY <1>1 DEF resolve_stub
<1>4. CASE trie' = Graft(trie, p, decode_node({}, trie[p].hash))
           /\ UNCHANGED <<backing, call, pc, pos, out, want, lost>>
  BY <1>1, <1>2, <1>4, ResolveKeeps
<1>5. CASE Fail(MissingNode(trie[p].hash, p))
  BY <1>2, <1>5 DEF MissingNode
<1>6. CASE Fail(HashMismatch(trie[p].hash))
  BY <1>2, <1>6 DEF HashMismatch
<1>. QED
  BY <1>3, <1>4, <1>5, <1>6

LEMMA NormalizeKeeps ==
    ASSUME IInv, IInv', Normalize
    PROVE  Bindings(trie') = Bindings(trie)
<1>1. Solid(trie, Hashes) /\ Solid(trie', Hashes')
  BY TrieSolid, NextSolid
<1>2. pc = "normalize" /\ trie' = normalize(trie, pos)
  BY DEF Normalize, Edit
<1>3. pos \in DOMAIN trie /\ trie[pos].type \in {"fork", "skip"} /\ Occupied(trie, pos)
  BY <1>2 DEF IInv, AtHand
<1>4. trie[pos].type = "skip" => trie[pos].path # <<>>
  BY <1>3 DEF IInv, Shape, WellFormedBut, SkipsLead
<1>5. SameBinds(trie, normalize(trie, pos))
  BY <1>1, <1>3, <1>4, NormalizeBinds
<1>. QED
  BY <1>1, <1>2, <1>5, SameBindings

LEMMA NullBinds == Bindings(Null) = Null /\ DOMAIN Bindings(Null) = {}
<1>1. Solid(Null, {})
  BY NullShape, NullTyped DEF Solid, WellFormedBut
<1>2. DOMAIN Bindings(Null) = {}
  <2>1. DOMAIN Null = {}
    BY DEF Null
  <2>2. \A k, v : ~Binds(Null, k, v)
    BY <2>1 DEF Binds
  <2>. QED
    BY <1>1, <2>2, BindingsBind
<1>3. Bindings(Null) = [k \in DOMAIN Bindings(Null) |-> Bindings(Null)[k]]
  BY <1>1, BindingsBind
<1>4. Bindings(Null) = [k \in {} |-> Bindings(Null)[k]]
  BY <1>2, <1>3
<1>. QED
  BY <1>2, <1>4 DEF Null

-----------------------------------------------------------------------------
(* The invariant and the theorems *)

(* While no call has failed the nodes add up to what the calls did; a       *)
(* removal on its way back has taken its binding out and not yet said so.   *)
Kept ==
    ~lost => Bindings(trie) =
                IF pc \in {"normalize", "unwind"} THEN Cut(want, {call.key}) ELSE want

CInv == IInv /\ Kept /\ AnswersTrue

LEMMA InitContents == Init => CInv
<1>. SUFFICES ASSUME Init PROVE CInv
  OBVIOUS
<1>1. IInv
  BY InitInv
<1>2. PICK nodes \in SUBSET HashesOf(backing) : trie = build_partial(nodes, backing)
  BY DEF Init
<1>3. Bindings(trie) = Contents(backing)
  BY <1>1, <1>2, TrieTyped, BuiltBindings
<1>4. Kept
  BY <1>3 DEF Init, Kept
<1>5. AnswersTrue
  BY DEF Init, AnswersTrue, Nothing
<1>. QED
  BY <1>1, <1>4, <1>5 DEF CInv

(* A failed call: a get leaves the trie alone, another one is remembered.   *)
LEMMA FailContents ==
    ASSUME CInv, pc \in {"walk", "normalize"},
           NEW error, error.status \in {"missing", "mismatch"}, Fail(error)
    PROVE  Kept' /\ AnswersTrue'
<1>1. /\ trie' = (IF call.op = "get" THEN trie ELSE Null)
      /\ lost' = (lost \/ call.op # "get") /\ out' = error /\ pc' = "idle"
      /\ want' = want /\ call' = call
  BY DEF Fail
<1>2. AnswersTrue'
  BY <1>1 DEF AnswersTrue
<1>3. call.op = "get" => pc = "walk"
  BY DEF CInv, IInv, AtHand
<1>4. Kept'
  BY <1>1, <1>3 DEF CInv, Kept, Bindings
<1>. QED
  BY <1>2, <1>4

LEMMA NextContents == CInv /\ [Next]_vars => CInv'
<1>. SUFFICES ASSUME CInv, [Next]_vars PROVE CInv'
  OBVIOUS
<1>1. IInv /\ IInv' /\ Kept /\ AnswersTrue
  BY NextInv DEF CInv
<1>2. CASE Calls
  <2>1. pc = "idle" /\ pc' = "walk" /\ UNCHANGED <<trie, want, lost>>
    BY <1>2 DEF Calls, Call
  <2>. QED
    BY <1>1, <2>1 DEF CInv, Kept, AnswersTrue, Bindings
<1>3. CASE DescendSkip \/ DescendFork
  <2>1. pc = "walk" /\ pc' = "walk" /\ UNCHANGED <<trie, want, lost>>
    BY <1>3 DEF DescendSkip, DescendFork, Descend, At
  <2>. QED
    BY <1>1, <2>1 DEF CInv, Kept, AnswersTrue, Bindings
<1>4. CASE Resolve \/ ResolveSibling
  <2>1. pc \in {"walk", "normalize"}
    BY <1>1, <1>4, ResolveOutcome
  <2>2. CASE /\ Bindings(trie') = Bindings(trie)
             /\ UNCHANGED <<backing, call, pc, pos, out, want, lost>>
    <3>1. Bindings(trie)' = Bindings(trie)
      BY <2>2 DEF Bindings
    <3>. QED
      BY <1>1, <2>2, <3>1 DEF CInv, Kept, AnswersTrue
  <2>3. CASE \E error : error.status \in {"missing", "mismatch"} /\ Fail(error)
    BY <1>1, <2>1, <2>3, FailContents DEF CInv
  <2>. QED
    BY <1>1, <1>4, <2>2, <2>3, ResolveOutcome
<1>5. CASE get_at
  <2>1. /\ out' = Ok(Lookup(Bindings(trie), call.key)) /\ pc = "walk" /\ pc' = "idle"
        /\ UNCHANGED <<trie, call, want, lost>>
    BY <1>1, <1>5, GetAnswers
  <2>2. Kept'
    BY <1>1, <2>1 DEF Kept, Bindings
  <2>3. AnswersTrue'
    BY <1>1, <2>1 DEF Kept, AnswersTrue, Ok, Lookup
  <2>. QED
    BY <1>1, <2>2, <2>3 DEF CInv
<1>6. CASE insert_at
  <2>1. /\ Bindings(trie') = Put(Bindings(trie), call.key, call.value)
        /\ want' = Put(want, call.key, call.value)
        /\ call.op = "insert" /\ pc = "walk" /\ pc' = "idle" /\ UNCHANGED <<call, lost>>
    BY <1>1, <1>6, InsertBinds
  <2>2. Bindings(trie)' = Put(Bindings(trie), call.key, call.value)
    BY <2>1 DEF Bindings
  <2>3. Kept'
    BY <1>1, <2>1, <2>2 DEF Kept
  <2>4. AnswersTrue'
    BY <2>1 DEF AnswersTrue
  <2>. QED
    BY <1>1, <2>3, <2>4 DEF CInv
<1>7. CASE RemoveAbsent
  <2>1. /\ call.op = "remove" /\ pc = "walk" /\ pc' = "idle"
        /\ UNCHANGED <<trie, call, want, lost>>
    BY <1>1, <1>7, RemoveFindsNone
  <2>. QED
    BY <1>1, <2>1 DEF CInv, Kept, AnswersTrue, Bindings
<1>8. CASE RemoveLeaf \/ RemoveForkValue
  <2>1. /\ Bindings(trie') = Cut(Bindings(trie), {call.key})
        /\ pc = "walk" /\ pc' \in {"normalize", "unwind"} /\ UNCHANGED <<call, want, lost>>
    BY <1>1, <1>8, RemoveUnbinds
  <2>2. Bindings(trie)' = Cut(Bindings(trie), {call.key})
    BY <2>1 DEF Bindings
  <2>. QED
    BY <1>1, <2>1, <2>2 DEF CInv, Kept, AnswersTrue
<1>9. CASE Unwind
  <2>1. pc = "unwind" /\ pc' = "normalize" /\ UNCHANGED <<trie, call, want, lost>>
    BY <1>9 DEF Unwind, Edit
  <2>. QED
    BY <1>1, <2>1 DEF CInv, Kept, AnswersTrue, Bindings
<1>10. CASE Normalize
  <2>1. pc = "normalize" /\ pc' = "unwind" /\ UNCHANGED <<call, want, lost>>
    BY <1>10 DEF Normalize, Edit
  <2>2. Bindings(trie)' = Bindings(trie)
    BY <1>1, <1>10, NormalizeKeeps DEF Bindings
  <2>. QED
    BY <1>1, <2>1, <2>2 DEF CInv, Kept, AnswersTrue
<1>11. CASE RemoveReturns
  <2>1. /\ pc = "unwind" /\ pc' = "idle" /\ UNCHANGED <<trie, call, lost>>
        /\ want' = Cut(want, {call.key})
    BY <1>11 DEF RemoveReturns, Return
  <2>2. call.op = "remove"
    BY <1>1, <2>1 DEF IInv, AtHand
  <2>. QED
    BY <1>1, <2>1, <2>2 DEF CInv, Kept, AnswersTrue, Bindings
<1>12. CASE UNCHANGED vars
  BY <1>1, <1>12 DEF vars, CInv, Kept, AnswersTrue, Bindings
<1>. QED
  BY <1>2, <1>3, <1>4, <1>5, <1>6, <1>7, <1>8, <1>9, <1>10, <1>11, <1>12
  DEF Next, Running, remove_at

LEMMA SpecContents == Spec => []CInv
  BY InitContents, NextContents, PTL DEF Spec

(* Whatever is loaded, whatever the provider answers or corrupts, and in    *)
(* whatever order calls resolve, split, collapse and merge nodes, a get     *)
(* answers what the insertions and removals before it left bound.           *)
THEOREM AnswersAlwaysTrue == Spec => []AnswersTrue
<1>1. CInv => AnswersTrue
  BY DEF CInv
<1>. QED
  BY <1>1, SpecContents, PTL

-----------------------------------------------------------------------------
(* The trie implements the map *)

LEMMA InitPromise == Init => Promise!Init
  BY DEF Init, Promise!Init, Nothing

LEMMA FailPromise ==
    ASSUME CInv, pc \in {"walk", "normalize"},
           NEW error, error.status \in {"missing", "mismatch"}, Fail(error)
    PROVE  Promise!Fail \/ Promise!Lose
<1>1. /\ trie' = (IF call.op = "get" THEN trie ELSE Null)
      /\ out' = error /\ pc' = "idle" /\ call' = call
  BY DEF Fail
<1>2. Promise!Failed
  BY <1>1 DEF Promise!Failed
<1>3. CASE call.op = "get"
  <2>1. pc = "walk"
    BY <1>3 DEF CInv, IInv, AtHand
  <2>. QED
    BY <1>1, <1>2, <1>3, <2>1 DEF Promise!Fail
<1>4. CASE call.op # "get"
  <2>1. call.op \in {"insert", "remove"}
    BY <1>4 DEF CInv, IInv, TypeOK, Request
  <2>2. DOMAIN Contents(Expand(trie'))  = {}
    BY <1>1, <1>4, NullBinds DEF Bindings
  <2>. QED
    BY <1>2, <2>1, <2>2 DEF Promise!Lose
<1>. QED
  BY <1>3, <1>4

(* Starting a call is the map's Call, the step of an insertion, a get or a  *)
(* removal that decides its outcome is the map's, and the rest of the walk  *)
(* and of the way back changes nothing the map can tell.                    *)
LEMMA NextPromise == CInv /\ CInv' /\ [Next]_vars => [Promise!Next]_(Promise!vars)
<1>. SUFFICES ASSUME CInv, CInv', [Next]_vars PROVE [Promise!Next]_(Promise!vars)
  OBVIOUS
<1>1. IInv /\ IInv'
  BY DEF CInv
<1>. DEFINE Quiet == /\ Bindings(trie') = Bindings(trie) /\ call' = call /\ out' = out
                     /\ \/ pc' = pc
                        \/ pc \in {"normalize", "unwind"} /\ pc' \in {"normalize", "unwind"}
<1>2. Quiet => UNCHANGED Promise!vars
  BY DEF Promise!vars, Bindings
<1>3. CASE Calls
  <2>1. PICK request \in Request : Call(request)
    BY <1>3 DEF Calls, Request
  <2>2. request \in Promise!Request
    BY DEF Request, Promise!Request
  <2>3. Promise!Call
    BY <2>1, <2>2 DEF Call, Promise!Call, Nothing
  <2>. QED
    BY <2>3 DEF Promise!Next
<1>4. CASE DescendSkip \/ DescendFork
  <2>1. Quiet
    BY <1>4 DEF DescendSkip, DescendFork, Descend
  <2>. QED
    BY <1>2, <2>1
<1>5. CASE Resolve \/ ResolveSibling
  <2>1. pc \in {"walk", "normalize"}
    BY <1>1, <1>5, ResolveOutcome
  <2>2. CASE /\ Bindings(trie') = Bindings(trie)
             /\ UNCHANGED <<backing, call, pc, pos, out, want, lost>>
    BY <1>2, <2>2
  <2>3. CASE \E error : error.status \in {"missing", "mismatch"} /\ Fail(error)
    <3>1. Promise!Fail \/ Promise!Lose
      BY <2>1, <2>3, FailPromise
    <3>. QED
      BY <3>1 DEF Promise!Next
  <2>. QED
    BY <1>1, <1>5, <2>2, <2>3, ResolveOutcome
<1>6. CASE get_at
  <2>1. /\ out' = Ok(Lookup(Bindings(trie), call.key)) /\ call.op = "get"
        /\ pc = "walk" /\ pc' = "idle" /\ UNCHANGED <<trie, call>>
    BY <1>1, <1>6, GetAnswers
  <2>2. Promise!Get
    BY <2>1 DEF Promise!Get, Promise!Reply, Promise!Ok, Promise!Lookup, Ok, Lookup, Bindings
  <2>. QED
    BY <2>2 DEF Promise!Next
<1>7. CASE insert_at
  <2>1. /\ Bindings(trie') = Put(Bindings(trie), call.key, call.value)
        /\ out' = Ok(NoValue) /\ call.op = "insert" /\ pc = "walk" /\ pc' = "idle"
        /\ call' = call
    BY <1>1, <1>7, InsertBinds
  <2>2. Promise!Insert
    BY <2>1 DEF Promise!Insert, Promise!Reply, Promise!Ok, Promise!Bind, Put, Ok, Bindings
  <2>. QED
    BY <2>2 DEF Promise!Next
<1>8. CASE RemoveAbsent
  <2>1. /\ call.key \notin DOMAIN Bindings(trie) /\ call.op = "remove"
        /\ pc = "walk" /\ pc' = "idle" /\ out' = Ok(FALSE) /\ UNCHANGED <<trie, call>>
    BY <1>1, <1>8, RemoveFindsNone
  <2>2. Promise!RemoveAbsent
    BY <2>1 DEF Promise!RemoveAbsent, Promise!Reply, Promise!Ok, Ok, Bindings
  <2>. QED
    BY <2>2 DEF Promise!Next
<1>9. CASE RemoveLeaf \/ RemoveForkValue
  <2>1. /\ Bindings(trie') = Cut(Bindings(trie), {call.key})
        /\ call.key \in DOMAIN Bindings(trie) /\ call.op = "remove"
        /\ pc = "walk" /\ pc' \in {"normalize", "unwind"} /\ UNCHANGED <<call, out>>
    BY <1>1, <1>9, RemoveUnbinds
  <2>2. Promise!Removed
    BY <2>1 DEF Promise!Removed, Promise!Unbind, Cut, Bindings
  <2>3. Promise!RemovePresent
    BY <2>1, <2>2 DEF Promise!RemovePresent
  <2>. QED
    BY <2>3 DEF Promise!Next
<1>10. CASE Unwind
  <2>1. pc = "unwind" /\ pc' = "normalize" /\ UNCHANGED <<trie, call, out>>
    BY <1>10 DEF Unwind, Edit
  <2>. QED
    BY <1>2, <2>1
<1>11. CASE Normalize
  <2>1. pc = "normalize" /\ pc' = "unwind" /\ UNCHANGED <<call, out>>
    BY <1>11 DEF Normalize, Edit
  <2>. QED
    BY <1>1, <1>2, <1>11, <2>1, NormalizeKeeps
<1>12. CASE RemoveReturns
  <2>1. pc = "unwind" /\ pc' = "idle" /\ out' = Ok(TRUE) /\ UNCHANGED <<trie, call>>
    BY <1>12 DEF RemoveReturns, Return
  <2>2. Promise!RemoveReturns
    BY <2>1 DEF Promise!RemoveReturns, Promise!Reply, Promise!Ok, Ok
  <2>. QED
    BY <2>2 DEF Promise!Next
<1>13. CASE UNCHANGED vars
  <2>1. Quiet
    BY <1>13 DEF vars
  <2>. QED
    BY <1>2, <2>1
<1>. QED
  BY <1>3, <1>4, <1>5, <1>6, <1>7, <1>8, <1>9, <1>10, <1>11, <1>12, <1>13
  DEF Next, Running, remove_at

(* A caller who sees requests and answers, and not the nodes, cannot tell   *)
(* the partially loaded trie from a map that a failing insertion or         *)
(* removal empties: every step of the trie is a step of that map or none.   *)
THEOREM TrieIsMap == Spec => ImplementsAuthMap
<1>1. CInv /\ CInv' /\ [Next]_vars => [Promise!Next]_(Promise!vars)
  BY NextPromise
<1>. QED
  BY <1>1, InitPromise, SpecContents, PTL DEF Spec, ImplementsAuthMap, Promise!Spec

-----------------------------------------------------------------------------
(* What an error names *)

NInv == IInv /\ ErrNamesNode

(* A Stub on the way to the key, or the last child of a Fork on that way.   *)
LEMMA ResolveNames ==
    ASSUME NInv, Resolve \/ ResolveSibling
    PROVE  ErrNamesNode'
<1>1. PICK p \in DOMAIN trie :
        /\ trie[p].type = "stub" /\ resolve_stub(p)
        /\ \/ starts_with(call.key, p)
           \/ call.op = "remove" /\ starts_with(call.key, Take(p, Len(p) - 1))
  <2>1. CASE Resolve
    <3>1. pc = "walk" /\ pos \in DOMAIN trie /\ trie[pos].type = "stub" /\ resolve_stub(pos)
      BY <2>1 DEF Resolve, At, Is
    <3>2. starts_with(call.key, pos)
      BY <3>1 DEF NInv, IInv, TypeOK
    <3>. QED
      BY <3>1, <3>2
  <2>2. CASE ResolveSibling
    <3>. DEFINE c == OnlyChild(trie, pos)
    <3>1. /\ pc = "normalize" /\ Collapses(trie, pos) /\ c \in DOMAIN trie
          /\ trie[c].type = "stub" /\ resolve_stub(c)
      BY <2>2 DEF ResolveSibling, Is
    <3>2. PICK n \in Nibble : c = Append(pos, n) /\ n \in Children(trie, pos)
      BY <3>1, CollapseFields
    <3>3. call.op = "remove" /\ starts_with(call.key, pos) /\ pos \in Path
      BY <3>1 DEF NInv, IInv, TypeOK, AtHand
    <3>. HIDE DEF c
    <3>4. Take(c, Len(c) - 1) = pos
      BY <3>2, <3>3, AppendTake
    <3>. QED
      BY <3>1, <3>3, <3>4
  <2>. QED
    BY <2>1, <2>2
<1>2. p \in Hashed(backing) /\ trie[p].hash = Subtree(backing, p)
  BY <1>1 DEF NInv, IInv, StubsInPlace, StubsOf
<1>3. CASE Fail(MissingNode(trie[p].hash, p))
  <2>1. /\ out' = [status |-> "missing", hash |-> trie[p].hash, path |-> p]
        /\ call' = call /\ backing' = backing
    BY <1>3 DEF Fail, MissingNode
  <2>. QED
    BY <1>1, <1>2, <2>1 DEF ErrNamesNode
<1>4. CASE Fail(HashMismatch(trie[p].hash))
  <2>1. out'.status = "mismatch"
    BY <1>4 DEF Fail, HashMismatch
  <2>. QED
    BY <2>1 DEF ErrNamesNode
<1>5. CASE UNCHANGED <<backing, call, pc, pos, out, want, lost>>
  BY <1>5 DEF NInv, ErrNamesNode
<1>. QED
  BY <1>1, <1>3, <1>4, <1>5 DEF resolve_stub

LEMMA NextNames == NInv /\ [Next]_vars => NInv'
<1>. SUFFICES ASSUME NInv, [Next]_vars PROVE NInv'
  OBVIOUS
<1>1. IInv'
  BY NextInv DEF NInv
<1>2. CASE Calls
  BY <1>1, <1>2 DEF Calls, Call, Nothing, NInv, ErrNamesNode
<1>3. CASE Resolve \/ ResolveSibling
  BY <1>1, <1>3, ResolveNames DEF NInv
<1>4. CASE get_at \/ insert_at \/ RemoveAbsent \/ RemoveReturns
  <2>1. \E answer, T : Return(answer, T)
    BY <1>4 DEF get_at, GetNull, GetLeaf, GetSkip, GetForkValue, GetForkChild, Answer,
       insert_at, InsertNull, InsertLeaf, InsertSplitLeaf, InsertSplitSkip, InsertForkValue,
       InsertForkChild, Inserted, RemoveAbsent, RemoveReturns
  <2>2. out'.status = "ok"
    BY <2>1 DEF Return, Ok
  <2>. QED
    BY <1>1, <2>2 DEF NInv, ErrNamesNode
<1>5. CASE DescendSkip \/ DescendFork \/ RemoveLeaf \/ RemoveForkValue \/ Unwind \/ Normalize
  <2>1. UNCHANGED <<backing, call, out>>
    BY <1>5 DEF DescendSkip, DescendFork, Descend, RemoveLeaf, RemoveForkValue, Unwind,
       Normalize, Edit
  <2>. QED
    BY <1>1, <2>1 DEF NInv, ErrNamesNode
<1>6. CASE UNCHANGED vars
  BY <1>1, <1>6 DEF vars, NInv, ErrNamesNode
<1>. QED
  BY <1>2, <1>3, <1>4, <1>5, <1>6 DEF Next, Running, remove_at

(* An error that says a node is missing is true to the backing trie: its    *)
(* path is that of a hashed node there, its hash that node's, and no call   *)
(* asks for a node off its way but the sibling a removal has to look at.    *)
THEOREM ErrorAlwaysNames == Spec => []ErrNamesNode
<1>1. Init => NInv
  BY InitInv DEF Init, Nothing, NInv, ErrNamesNode
<1>2. NInv => ErrNamesNode
  BY DEF NInv
<1>. QED
  BY <1>1, <1>2, NextNames, PTL DEF Spec

-----------------------------------------------------------------------------
(* The root                                                                 *)

(* A tree is canonical only if every walk down it ends, so the invariant    *)
(* for the root adds to that for the bindings that the trie is bounded.     *)
BInv == CInv /\ Bounded(trie)

LEMMA BackingBounded == ASSUME NEW S \in Backings PROVE Bounded(S) /\ DOMAIN S \subseteq Path
  BY BackingsAssumption, FiniteBounded

(* What a resolution grafts is a piece of the backing trie.                 *)
LEMMA GraftBounded ==
    ASSUME IInv, IInv', Bounded(trie), NEW p \in DOMAIN trie, trie[p].type = "stub",
           trie' = Graft(trie, p, decode_node({}, trie[p].hash))
    PROVE  Bounded(trie')
<1>1. Typed(trie, Hashes) /\ Whole(backing) /\ Bounded(backing) /\ DOMAIN backing \subseteq Path
  BY TrieTyped, BackingBounded DEF IInv
<1>2. p \in Path /\ trie[p].hash = Subtree(backing, p)
  BY <1>1 DEF IInv, StubsInPlace, StubsOf, Typed
<1>3. \A r \in DOMAIN decode_node({}, trie[p].hash) : r \in DOMAIN Subtree(backing, p)
  BY <1>2 DEF decode_node
<1>4. \A r \in DOMAIN Subtree(backing, p) : p \o r \in DOMAIN backing
  BY <1>1, <1>2, SubtreeDomain
<1>5. \A q \in DOMAIN trie' : q \in DOMAIN trie \/ q \in DOMAIN backing
  <2>. DEFINE D == decode_node({}, trie[p].hash)
  <2>1. DOMAIN trie' = DOMAIN trie \cup {p \o r : r \in DOMAIN D}
    BY DEF Graft
  <2>2. \A r \in DOMAIN D : p \o r \in DOMAIN backing
    BY <1>3, <1>4
  <2>. HIDE DEF D
  <2>. QED
    BY <2>1, <2>2
<1>6. DOMAIN trie' \subseteq Path
  BY DEF IInv, TypeOK
<1>. QED
  BY <1>1, <1>5, <1>6, JoinBounded

LEMMA CalmFits ==
    ASSUME IInv, pc \in {"idle", "walk"}
    PROVE  backing \in Backings /\ Fits(trie, backing)
  BY TrieTyped, Calm DEF IInv, Fits, Hashes, StubsInPlace, WellFormed

LEMMA InsertBounded ==
    ASSUME IInv, IInv', Bounded(trie), insert_at
    PROVE  Bounded(trie')
<1>1. DOMAIN trie' \subseteq Path
  BY DEF IInv, TypeOK
<1>2. CASE InsertNull
  <2>1. trie' = Put(Null, <<>>, Leaf(suffix, call.value))
    BY <1>2 DEF InsertNull, Inserted, Return
  <2>2. \A p \in DOMAIN trie' : Len(p) <= 0
    BY <2>1 DEF Put, Null
  <2>. QED
    BY <2>2 DEF Bounded
<1>3. CASE InsertLeaf \/ InsertForkValue
  <2>1. \E node : trie' = Put(trie, pos, node)
    BY <1>3 DEF InsertLeaf, InsertForkValue, Inserted, Return
  <2>. QED
    BY <1>1, <2>1, PutBounded
<1>4. CASE InsertSplitLeaf \/ InsertSplitSkip
  <2>1. \/ trie' = SplitLeaf(trie, pos, suffix, call.value)
        \/ trie' = SplitSkip(trie, pos, suffix, call.value)
    BY <1>4 DEF InsertSplitLeaf, InsertSplitSkip, Inserted, Return
  <2>. QED
    BY <1>1, <2>1, SplitBounded
<1>5. CASE InsertForkChild
  <2>1. trie' = Hang(trie, pos, suffix, call.value)
    BY <1>5 DEF InsertForkChild, Inserted, Return
  <2>. QED
    BY <1>1, <2>1, HangBounded
<1>. QED
  BY <1>2, <1>3, <1>4, <1>5 DEF insert_at

LEMMA StaysBounded ==
    ASSUME IInv, IInv', Bounded(trie), [Next]_vars
    PROVE  Bounded(trie')
<1>1. IInv /\ IInv' /\ Bounded(trie)
  OBVIOUS
<1>2. CASE insert_at
  BY <1>1, <1>2, InsertBounded DEF Bounded
<1>3. CASE Resolve \/ ResolveSibling
  <2>1. PICK p \in DOMAIN trie : trie[p].type = "stub" /\ resolve_stub(p)
    BY <1>3 DEF Resolve, ResolveSibling, At, Is
  <2>2. CASE trie' = Graft(trie, p, decode_node({}, trie[p].hash))
    BY <1>1, <2>1, <2>2, GraftBounded DEF Bounded
  <2>3. CASE \E error : Fail(error)
    BY <1>1, <2>3 DEF Fail, Bounded, Null
  <2>. QED
    BY <2>1, <2>2, <2>3 DEF resolve_stub
<1>4. CASE RemoveLeaf \/ RemoveForkValue \/ Normalize
  <2>1. CASE RemoveForkValue
    <3>1. trie' = Put(trie, pos, Fork(NoValue))
      BY <2>1 DEF RemoveForkValue, Edit
    <3>2. DOMAIN trie' \subseteq Path
      BY <1>1 DEF IInv, TypeOK
    <3>. QED
      BY <1>1, <3>1, <3>2, PutBounded DEF Bounded
  <2>2. CASE RemoveLeaf
    BY <1>1, <2>2 DEF RemoveLeaf, Edit, Cut, Bounded
  <2>3. CASE Normalize
    <3>1. pos \in DOMAIN trie /\ trie' = normalize(trie, pos)
      BY <1>1, <2>3 DEF Normalize, Edit, IInv, AtHand
    <3>2. DOMAIN trie' \subseteq DOMAIN trie
      BY <3>1, NormalizeDomain
    <3>. QED
      BY <1>1, <3>2, FewerBounded DEF Bounded
  <2>. QED
    BY <1>4, <2>1, <2>2, <2>3
<1>5. CASE get_at \/ RemoveAbsent \/ RemoveReturns \/ Unwind \/ DescendSkip \/ DescendFork \/ Calls
           \/ UNCHANGED vars
  <2>1. trie' = trie
    BY <1>5 DEF get_at, GetNull, GetLeaf, GetSkip, GetForkValue, GetForkChild, Answer, Return,
       RemoveAbsent, RemoveReturns, Unwind, Edit, DescendSkip, DescendFork, Descend, Calls, Call,
       vars
  <2>. QED
    BY <1>1, <2>1 DEF Bounded
<1>. QED
  BY <1>2, <1>3, <1>4, <1>5 DEF Next, Running, remove_at

LEMMA NextBounded == BInv /\ [Next]_vars => BInv'
  BY NextInv, NextContents, StaysBounded DEF BInv, CInv, Bounded

LEMMA RootFollows == BInv => RootCommits
<1>. SUFFICES ASSUME BInv, pc = "idle", ~lost
              PROVE  /\ node_root(trie) = Canonical(want)
                     /\ ~Is(trie, <<>>, "stub") => trie_hash(trie) = Canonical(want)
  BY DEF RootCommits
<1>1. Bindings(trie) = want /\ IInv /\ Bounded(trie)
  BY DEF BInv, CInv, Kept
<1>2. node_root(trie) = Canonical(want)
  BY <1>1, CalmFits, BackingWhole, BackingBounded, FitsCommits
<1>. QED
  BY <1>2 DEF trie_hash

(* The root that a trie commits to is a function of its bindings alone: in  *)
(* whatever order they were made, through whatever was loaded, split,       *)
(* collapsed and merged, it is the root of the one canonical tree.          *)
THEOREM RootAlwaysCommits == Spec => []RootCommits
<1>1. Init => BInv
  <2>. SUFFICES ASSUME Init PROVE Bounded(trie)
    BY InitContents DEF BInv
  <2>1. backing \in Backings /\ \E nodes : trie = build_partial(nodes, backing)
    BY DEF Init
  <2>. QED
    BY <2>1, BackingBounded, BuiltBounded
<1>. QED
  BY <1>1, NextBounded, RootFollows, PTL DEF Spec

-----------------------------------------------------------------------------
(* ProofTrie: the explorer's trie commits to what its successful calls add  *)
(* up to, whatever fails and whichever witnesses arrive between the calls.  *)
(* The steps of a call are those above; new is what becomes of the trie     *)
(* between calls: `inner`, and what a late witness puts in place of its     *)
(* Stubs, all at once.                                                      *)

-----------------------------------------------------------------------------
(* A late witness *)

(* The Stubs that the nodes stand for, and what is decoded of one.          *)
KnownStubs(T, nodes) == {p \in StubsOf(T) : T[p].hash \in nodes}
Loaded(T, nodes, p) == decode_node(nodes, T[p].hash)

(* Decoding goes as far as the nodes go.                                    *)
LEMMA DecodedLacking ==
    ASSUME NEW S, Whole(S), NEW nodes
    PROVE  \A u \in StubsOf(decode_node(nodes, S)) : decode_node(nodes, S)[u].hash \notin nodes
<1>. DEFINE D == decode_node(nodes, S)
<1>1. SUFFICES ASSUME NEW u \in StubsOf(D) PROVE D[u].hash \notin nodes
  OBVIOUS
<1>2. u \in DOMAIN D /\ D[u].type = "stub"
  BY DEF StubsOf
<1>3. u \in DOMAIN S
  BY <1>2 DEF decode_node
<1>4. S[u].type # "stub"
  BY <1>3, WholeTypes
<1>5. DOMAIN S \subseteq Path
  BY DEF Whole, Typed
<1>6. \A q \in DOMAIN D : D[q] = IF q \in Unknown(nodes, S) THEN Stub(Subtree(S, q)) ELSE S[q]
  BY <1>5, DecodeDomain
<1>. HIDE DEF D
<1>7. u \in Unknown(nodes, S) /\ D[u] = Stub(Subtree(S, u))
  BY <1>2, <1>4, <1>6
<1>. QED
  BY <1>7, StubFields DEF Unknown

(* What stands behind a Stub is a piece of the complete trie.               *)
LEMMA LoadedNode ==
    ASSUME NEW S, Whole(S), NEW T, Fits(T, S), NEW nodes, NEW p \in StubsOf(T)
    PROVE  LET D == Loaded(T, nodes, p)
           IN  /\ p \in Path /\ p \in DOMAIN T /\ T[p].type = "stub" /\ p \in Hashed(S)
               /\ T[p].hash = Subtree(S, p) /\ Whole(T[p].hash)
               /\ Typed(D, SubtreesOf(S)) /\ WellFormed(D)
               /\ <<>> \in DOMAIN D /\ D[<<>>] = T[p].hash[<<>>]
               /\ \A r \in DOMAIN D : r \in Path /\ p \o r \in DOMAIN S
               /\ \A r \in StubsOf(D) :
                     /\ p \o r \in Hashed(S) /\ D[r].hash = Subtree(S, p \o r)
                     /\ D[r].hash \notin nodes
<1>. DEFINE h == T[p].hash
            D == Loaded(T, nodes, p)
<1>1. /\ p \in Path /\ p \in DOMAIN T /\ T[p].type = "stub" /\ p \in Hashed(S)
      /\ h = Subtree(S, p) /\ p \in DOMAIN S /\ DOMAIN S \subseteq Path
  BY DEF Fits, Typed, StubsOf, Hashed, Whole
<1>2. Whole(h) /\ <<>> \in DOMAIN h
  BY <1>1, SubtreeWhole
<1>3. ASSUME NEW u \in DOMAIN h
      PROVE  u \in Path /\ p \o u \in DOMAIN S /\ Subtree(h, u) = Subtree(S, p \o u)
  <2>1. u \in Path
    BY <1>2 DEF Whole, Typed
  <2>2. p \o u \in DOMAIN S
    BY <1>1, <2>1, SubtreeDomain
  <2>3. Subtree(Subtree(S, p), u) = Subtree(S, p \o u)
    BY <1>1, <2>1, SubtreeSubtree
  <2>. QED
    BY <1>1, <2>1, <2>2, <2>3
<1>. HIDE DEF h
<1>4. D = decode_node(nodes, h)
  BY DEF Loaded, h
<1>5. /\ Typed(D, SubtreesOf(h)) /\ <<>> \in DOMAIN D /\ D[<<>>] = h[<<>>] /\ WellFormed(D)
      /\ \A u \in StubsOf(D) : u \in Hashed(h) /\ D[u].hash = Subtree(h, u)
  BY <1>2, <1>4, DecodeShape
<1>6. DOMAIN D \subseteq DOMAIN h
  BY <1>4 DEF decode_node
<1>7. \A u \in StubsOf(D) : D[u].hash \notin nodes
  BY <1>2, <1>4, DecodedLacking
<1>8. Typed(D, SubtreesOf(S))
  <2>1. SubtreesOf(h) \subseteq SubtreesOf(S)
    BY <1>3 DEF SubtreesOf
  <2>. QED
    BY <1>5, <2>1 DEF Typed, Node
<1>. HIDE DEF D
<1>9. ASSUME NEW r \in StubsOf(D)
      PROVE  p \o r \in Hashed(S) /\ D[r].hash = Subtree(S, p \o r)
  <2>1. r \in Hashed(h) /\ r \in DOMAIN h /\ D[r].hash = Subtree(h, r)
    BY <1>5 DEF Hashed
  <2>2. p \o r \in DOMAIN S /\ Subtree(h, r) = Subtree(S, p \o r)
    BY <1>3, <2>1
  <2>3. CASE r = <<>>
    BY <1>1, <2>1, <2>2, <2>3, ConcatEmpty
  <2>4. CASE r # <<>>
    BY <2>1, <2>2, <2>4 DEF Hashed
  <2>. QED
    BY <2>1, <2>2, <2>3, <2>4
<1>10. \A r \in DOMAIN D : r \in Path /\ p \o r \in DOMAIN S
  BY <1>3, <1>6
<1>. QED
  BY <1>1, <1>2, <1>5, <1>7, <1>8, <1>9, <1>10 DEF D, h

(* What resolve_stubs makes of T: what was loaded stays, and every Stub     *)
(* that is known gives way to what is decoded of it.                        *)
LEMMA LoadFields ==
    ASSUME NEW S, Whole(S), NEW T, Fits(T, S), NEW nodes
    PROVE  LET U == resolve_stubs(T, nodes)
               K == KnownStubs(T, nodes)
           IN  /\ U = [q \in DOMAIN U |-> U[q]]
               /\ \A q \in DOMAIN T \ K :
                     /\ q \in DOMAIN U /\ U[q] = T[q]
                     /\ \A p \in K : ~starts_with(q, p)
               /\ \A p \in K : \A r \in DOMAIN Loaded(T, nodes, p) :
                     p \o r \in DOMAIN U /\ U[p \o r] = Loaded(T, nodes, p)[r]
               /\ \A q \in DOMAIN U : \/ q \in DOMAIN T \ K
                                      \/ \E p \in K : \E r \in DOMAIN Loaded(T, nodes, p) : q = p \o r
<1>. DEFINE K == KnownStubs(T, nodes)
            D(p) == Loaded(T, nodes, p)
            above(q) == CHOOSE p \in K : starts_with(q, p)
            under == UNION {{p \o r : r \in DOMAIN D(p)} : p \in K}
            U == resolve_stubs(T, nodes)
<1>1. U = [q \in DOMAIN T \cup under |->
              IF \E p \in K : starts_with(q, p)
              THEN D(above(q))[Drop(q, Len(above(q)))] ELSE T[q]]
  BY DEF resolve_stubs, LoadStubs, KnownStubs, Loaded
<1>2. /\ DOMAIN U = DOMAIN T \cup under /\ U = [q \in DOMAIN U |-> U[q]]
      /\ \A q \in DOMAIN U : U[q] = IF \E p \in K : starts_with(q, p)
                                   THEN D(above(q))[Drop(q, Len(above(q)))] ELSE T[q]
  BY <1>1
<1>3. Connected(T) /\ DOMAIN T \subseteq Path
  BY DEF Fits, WellFormed, WellFormedBut, Typed
<1>4. \A p \in K : /\ p \in StubsOf(T) /\ p \in Path /\ p \in DOMAIN T /\ T[p].type = "stub"
                   /\ <<>> \in DOMAIN D(p) /\ \A r \in DOMAIN D(p) : r \in Path
  BY LoadedNode DEF KnownStubs
<1>5. \A q \in under : \E p \in K : \E r \in DOMAIN D(p) : q = p \o r
  OBVIOUS
<1>6. \A p \in K : \A r \in DOMAIN D(p) : p \o r \in under
  OBVIOUS
<1>. HIDE DEF under, U, K, D
<1>7. ASSUME NEW q \in DOMAIN T \ K, NEW p \in K
      PROVE  ~starts_with(q, p)
  BY <1>3, <1>4, NothingBelow DEF Below
<1>8. \A q \in DOMAIN T \ K : q \in DOMAIN U /\ U[q] = T[q]
  BY <1>2, <1>7
<1>9. ASSUME NEW p \in K, NEW r \in DOMAIN D(p)
      PROVE  p \o r \in DOMAIN U /\ U[p \o r] = D(p)[r]
  <2>1. p \in Path /\ r \in Path /\ p \o r \in Path /\ starts_with(p \o r, p)
    BY <1>4, PrefixConcat
  <2>2. ASSUME NEW a \in K, starts_with(p \o r, a)
        PROVE  a = p
    <3>1. starts_with(a, p) \/ starts_with(p, a)
      BY <1>4, <2>1, <2>2, PrefixLinear
    <3>. QED
      BY <1>3, <1>4, <3>1, NothingBelow DEF Below
  <2>3. above(p \o r) = p
    BY <2>1, <2>2
  <2>4. Drop(p \o r, Len(p)) = r
    BY <2>1, DropConcat
  <2>5. p \o r \in DOMAIN U
    BY <1>2, <1>6
  <2>. HIDE DEF above
  <2>. QED
    BY <1>2, <2>1, <2>3, <2>4, <2>5
<1>10. ASSUME NEW q \in DOMAIN U
       PROVE  q \in DOMAIN T \ K \/ \E p \in K : \E r \in DOMAIN D(p) : q = p \o r
  <2>1. CASE q \in K
    <3>1. q = q \o <<>> /\ <<>> \in DOMAIN D(q)
      BY <1>4, <2>1, ConcatEmpty
    <3>. QED
      BY <2>1, <3>1
  <2>. QED
    BY <1>2, <1>5, <2>1
<1>. QED
  BY <1>2, <1>7, <1>8, <1>9, <1>10 DEF U, K, D

(* What is loaded has the right shape and binds what was hidden, and none   *)
(* of its Stubs is known: decoding has gone as far as the nodes go.         *)
LEMMA LoadFits ==
    ASSUME NEW S, Whole(S), NEW T, Fits(T, S), NEW nodes
    PROVE  LET U == resolve_stubs(T, nodes)
           IN  /\ Fits(U, S)
               /\ \A p \in StubsOf(U) : U[p].hash \notin nodes
               /\ \A q \in DOMAIN U : q \in DOMAIN T \/ q \in DOMAIN S
<1>. DEFINE K == KnownStubs(T, nodes)
            D(p) == Loaded(T, nodes, p)
            U == resolve_stubs(T, nodes)
<1>1. /\ U = [q \in DOMAIN U |-> U[q]]
      /\ \A q \in DOMAIN T \ K :
            q \in DOMAIN U /\ U[q] = T[q] /\ \A p \in K : ~starts_with(q, p)
      /\ \A p \in K : \A r \in DOMAIN D(p) : p \o r \in DOMAIN U /\ U[p \o r] = D(p)[r]
      /\ \A q \in DOMAIN U :
            q \in DOMAIN T \ K \/ \E p \in K : \E r \in DOMAIN D(p) : q = p \o r
  BY LoadFields
<1>2. ASSUME NEW p \in K
      PROVE  /\ p \in Path /\ p \in DOMAIN T /\ T[p].type = "stub" /\ p \in Hashed(S)
             /\ T[p].hash = Subtree(S, p) /\ Whole(T[p].hash)
             /\ Typed(D(p), SubtreesOf(S)) /\ WellFormed(D(p))
             /\ <<>> \in DOMAIN D(p) /\ D(p)[<<>>] = T[p].hash[<<>>]
             /\ \A r \in DOMAIN D(p) : r \in Path /\ p \o r \in DOMAIN S
             /\ \A r \in StubsOf(D(p)) :
                   /\ p \o r \in Hashed(S) /\ D(p)[r].hash = Subtree(S, p \o r)
                   /\ D(p)[r].hash \notin nodes
  BY LoadedNode DEF KnownStubs
<1>3. /\ Typed(T, SubtreesOf(S)) /\ WellFormedBut(T, {}) /\ DOMAIN T \subseteq Path
      /\ \A p \in StubsOf(T) : p \in Hashed(S) /\ T[p].hash = Subtree(S, p)
  BY DEF Fits, Typed, WellFormed
<1>4. \A p \in StubsOf(T) : p \notin K => T[p].hash \notin nodes
  BY DEF KnownStubs
<1>. HIDE DEF K, D, U
<1>5. ASSUME NEW p \in K
      PROVE  p \in DOMAIN U /\ U[p] = D(p)[<<>>]
  <2>1. p \in Path /\ <<>> \in DOMAIN D(p)
    BY <1>2
  <2>2. p \o <<>> = p
    BY <2>1, ConcatEmpty
  <2>3. p \o <<>> \in DOMAIN U /\ U[p \o <<>>] = D(p)[<<>>]
    BY <1>1, <2>1
  <2>. QED
    BY <2>2, <2>3
<1>6. DOMAIN T \subseteq DOMAIN U
  BY <1>1, <1>5
<1>7. ASSUME NEW q \in DOMAIN U
      PROVE  q \in Path /\ U[q] \in Node(SubtreesOf(S)) /\ (q \in DOMAIN T \/ q \in DOMAIN S)
  <2>1. CASE q \in DOMAIN T \ K
    BY <1>1, <1>3, <2>1 DEF Typed
  <2>2. CASE \E p \in K : \E r \in DOMAIN D(p) : q = p \o r
    <3>1. PICK p \in K : \E r \in DOMAIN D(p) : q = p \o r
      BY <2>2
    <3>2. PICK r \in DOMAIN D(p) : q = p \o r
      BY <3>1
    <3>3. p \in Path /\ r \in Path /\ q \in DOMAIN S /\ U[q] = D(p)[r]
      BY <1>1, <1>2, <3>2
    <3>4. D(p)[r] \in Node(SubtreesOf(S))
      BY <1>2 DEF Typed
    <3>. QED
      BY <3>2, <3>3, <3>4, PrefixConcat
  <2>. QED
    BY <1>1, <2>1, <2>2
<1>8. Typed(U, SubtreesOf(S))
  BY <1>1, <1>7 DEF Typed
<1>9. Paths(T) /\ Paths(U) /\ \A p \in K : Paths(D(p))
  BY <1>2, <1>3, <1>8, TypedPaths
(* What was decoded looks in U as it did by itself. *)
<1>10. ASSUME NEW p \in K, NEW r \in DOMAIN D(p)
       PROVE  Good(U, {}, p \o r)
  <2>1. ASSUME NEW t \in Path
        PROVE  /\ r \o t \in DOMAIN D(p) <=> (p \o r) \o t \in DOMAIN U
               /\ r \o t \in DOMAIN D(p) => U[(p \o r) \o t] = D(p)[r \o t]
    <3>0. p \in Path /\ r \in Path
      BY <1>2
    <3>1. p \in Path /\ r \in Path /\ (p \o r) \o t = p \o (r \o t) /\ r \o t \in Path
      <4>1. r \o t \in Path
        BY <3>0, PrefixConcat
      <4>2. (p \o r) \o t = p \o (r \o t)
        BY <3>0, ConcatAssoc
      <4>. QED
        BY <3>0, <4>1, <4>2
    <3>2. ASSUME p \o (r \o t) \in DOMAIN U
          PROVE  r \o t \in DOMAIN D(p)
      <4>1. starts_with(p \o (r \o t), p)
        BY <3>1, PrefixConcat
      <4>2. PICK a \in K : \E s \in DOMAIN D(a) : p \o (r \o t) = a \o s
        BY <1>1, <3>2, <4>1
      <4>3. PICK s \in DOMAIN D(a) : p \o (r \o t) = a \o s
        BY <4>2
      <4>4. a \in Path /\ s \in Path /\ starts_with(a \o s, a) /\ a \o s \in Path
        BY <1>2, PrefixConcat
      <4>5. starts_with(p, a) \/ starts_with(a, p)
        BY <3>1, <4>1, <4>3, <4>4, PrefixLinear
      <4>6. a = p
        BY <1>2, <1>3, <4>5, NothingBelow DEF Below, WellFormedBut
      <4>7. s = r \o t
        BY <3>1, <4>3, <4>4, <4>6, ConcatCancel
      <4>. QED
        BY <4>3, <4>6, <4>7
    <3>. QED
      BY <1>1, <3>1, <3>2
  <2>2. Agree(D(p), r, U, p \o r)
    BY <2>1 DEF Agree
  <2>3. Good(D(p), {}, r)
    BY <1>2, ShapeGood DEF WellFormed
  <2>4. p \o r \in Path
    BY <1>2, PrefixConcat
  <2>. QED
    BY <1>9, <2>2, <2>3, <2>4, GoodAgree
(* What was loaded already has what it had below it, and perhaps more. *)
<1>11. ASSUME NEW q \in DOMAIN T \ K
       PROVE  Good(U, {}, q)
  <2>1. q \in DOMAIN U /\ U[q] = T[q] /\ Good(T, {}, q) /\ q \in Path
    BY <1>1, <1>3, ShapeGood
  <2>2. ASSUME NEW r \in DOMAIN U, Below(r, q)
        PROVE  Leads(U, q, r)
    <3>1. PICK s \in DOMAIN T : Below(s, q) /\ starts_with(r, s)
      <4>1. CASE r \in DOMAIN T
        BY <1>7, <2>2, <4>1, PrefixRefl
      <4>2. CASE r \notin DOMAIN T
        <5>1. PICK p \in K : \E t \in DOMAIN D(p) : r = p \o t
          BY <1>1, <4>2
        <5>2. PICK t \in DOMAIN D(p) : r = p \o t
          BY <5>1
        <5>3. p \in Path /\ p \in DOMAIN T /\ starts_with(r, p) /\ r \in Path
          BY <1>2, <5>2, PrefixConcat
        <5>4. ~starts_with(q, p)
          BY <1>1
        <5>5. starts_with(p, q) /\ p # q
          BY <2>1, <2>2, <5>3, <5>4, PrefixLinear, PrefixRefl DEF Below
        <5>. QED
          BY <5>3, <5>5 DEF Below
      <4>. QED
        BY <4>1, <4>2
    <3>2. PICK c \in DOMAIN T : IsParent(T, q, c) /\ starts_with(s, c)
      BY <2>1, <3>1 DEF Good, Leads
    <3>3. starts_with(r, c)
      BY <1>3, <1>7, <3>1, <3>2, PrefixTrans
    <3>. QED
      BY <1>6, <2>1, <3>2, <3>3, ParentSame DEF Leads
  <2>3. ASSUME U[q].type = "skip"
        PROVE  U[q].path # <<>> /\ ForkAt(U, q \o U[q].path)
    <3>1. T[q].path # <<>> /\ ForkAt(T, q \o T[q].path)
      BY <2>1, <2>3 DEF Good
    <3>2. CASE q \o T[q].path \in K
      BY <1>2, <1>5, <2>1, <3>1, <3>2 DEF ForkAt, Is
    <3>3. CASE q \o T[q].path \notin K
      BY <1>1, <2>1, <3>1, <3>3 DEF ForkAt, Is
    <3>. QED
      BY <3>2, <3>3
  <2>4. ASSUME U[q].type = "fork"
        PROVE  Crowded(U, q)
    <3>1. Crowded(T, q)
      BY <2>1, <2>4 DEF Good
    <3>2. Children(T, q) \subseteq Children(U, q)
      BY <1>6 DEF Children
    <3>. QED
      BY <2>1, <3>1, <3>2 DEF Crowded
  <2>. QED
    BY <2>2, <2>3, <2>4 DEF Good
<1>12. WellFormed(U)
  <2>1. \A q \in DOMAIN U : Good(U, {}, q)
    BY <1>1, <1>10, <1>11
  <2>2. U = Null \/ <<>> \in DOMAIN U
    <3>1. CASE <<>> \in DOMAIN T
      BY <1>6, <3>1
    <3>2. CASE T = Null
      <4>1. DOMAIN T = {}
        BY <3>2 DEF Null
      <4>2. DOMAIN U = {}
        BY <1>1, <1>2, <4>1
      <4>. QED
        BY <1>1, <4>2 DEF Null
    <3>. QED
      BY <1>3, <3>1, <3>2 DEF WellFormedBut, Connected
  <2>. QED
    BY <2>1, <2>2, GoodShape DEF WellFormed
<1>13. ASSUME NEW u \in StubsOf(U)
       PROVE  u \in Hashed(S) /\ U[u].hash = Subtree(S, u) /\ U[u].hash \notin nodes
  <2>1. u \in DOMAIN U /\ U[u].type = "stub"
    BY DEF StubsOf
  <2>2. CASE u \in DOMAIN T \ K
    <3>1. u \in StubsOf(T) /\ U[u] = T[u]
      BY <1>1, <2>1, <2>2 DEF StubsOf
    <3>. QED
      BY <1>3, <1>4, <2>2, <3>1
  <2>3. CASE \E p \in K : \E r \in DOMAIN D(p) : u = p \o r
    <3>1. PICK p \in K : \E r \in DOMAIN D(p) : u = p \o r
      BY <2>3
    <3>2. PICK r \in DOMAIN D(p) : u = p \o r
      BY <3>1
    <3>3. U[u] = D(p)[r] /\ r \in StubsOf(D(p))
      BY <1>1, <2>1, <3>2 DEF StubsOf
    <3>. QED
      BY <1>2, <3>2, <3>3
  <2>. QED
    BY <1>1, <2>1, <2>2, <2>3
<1>. QED
  BY <1>7, <1>8, <1>12, <1>13 DEF Fits, U

LEMMA LoadBinds ==
    ASSUME NEW S, Whole(S), NEW T, Fits(T, S), NEW nodes
    PROVE  Bindings(resolve_stubs(T, nodes)) = Bindings(T)
<1>. DEFINE K == KnownStubs(T, nodes)
            D(p) == Loaded(T, nodes, p)
            U == resolve_stubs(T, nodes)
<1>1. /\ \A q \in DOMAIN T \ K : q \in DOMAIN U /\ U[q] = T[q]
      /\ \A p \in K : \A r \in DOMAIN D(p) : p \o r \in DOMAIN U /\ U[p \o r] = D(p)[r]
      /\ \A q \in DOMAIN U :
            q \in DOMAIN T \ K \/ \E p \in K : \E r \in DOMAIN D(p) : q = p \o r
  BY LoadFields, SMTT(30)
<1>2. Solid(T, SubtreesOf(S)) /\ Solid(U, SubtreesOf(S))
  BY LoadFits, FitsSolid
<1>3. ASSUME NEW p \in K, NEW k, NEW v
      PROVE  /\ p \in DOMAIN T
             /\ Yields(p, T[p], k, v) <=> \E r \in DOMAIN D(p) : Yields(p \o r, D(p)[r], k, v)
  <2>1. p \in DOMAIN T /\ p \in Path /\ T[p].type = "stub" /\ Whole(T[p].hash)
    BY LoadedNode DEF KnownStubs
  <2>2. (\E r \in DOMAIN D(p) : Yields(p \o r, D(p)[r], k, v)) <=>
           \E r \in DOMAIN T[p].hash : Gives(p \o r, T[p].hash[r], k, v)
    BY <2>1, DecodeBinds DEF Loaded
  <2>. QED
    BY <2>1, <2>2, TypeYields
<1>. HIDE DEF K, D, U
<1>4. ASSUME NEW k, NEW v
      PROVE  Binds(U, k, v) <=> Binds(T, k, v)
  <2>1. ASSUME Binds(U, k, v)
        PROVE  Binds(T, k, v)
    <3>1. PICK q \in DOMAIN U : Yields(q, U[q], k, v)
      BY <2>1 DEF Binds
    <3>2. CASE q \in DOMAIN T \ K
      BY <1>1, <3>1, <3>2 DEF Binds
    <3>3. CASE \E p \in K : \E r \in DOMAIN D(p) : q = p \o r
      <4>1. PICK p \in K : \E r \in DOMAIN D(p) : q = p \o r
        BY <3>3
      <4>2. Yields(p, T[p], k, v) /\ p \in DOMAIN T
        BY <1>1, <1>3, <3>1, <4>1
      <4>. QED
        BY <4>2 DEF Binds
    <3>. QED
      BY <1>1, <3>2, <3>3
  <2>2. ASSUME Binds(T, k, v)
        PROVE  Binds(U, k, v)
    <3>1. PICK q \in DOMAIN T : Yields(q, T[q], k, v)
      BY <2>2 DEF Binds
    <3>2. CASE q \in K
      <4>1. PICK r \in DOMAIN D(q) : Yields(q \o r, D(q)[r], k, v)
        BY <1>3, <3>1, <3>2
      <4>. QED
        BY <1>1, <3>2, <4>1 DEF Binds
    <3>3. CASE q \notin K
      BY <1>1, <3>1, <3>3 DEF Binds
    <3>. QED
      BY <3>2, <3>3
  <2>. QED
    BY <2>1, <2>2
<1>5. SameBinds(T, U)
  BY <1>4 DEF SameBinds
<1>6. Bindings(U) = Bindings(T)
  BY <1>2, <1>5, SameBindings
<1>. QED
  BY <1>6 DEF U

-----------------------------------------------------------------------------
(* No edit adds a Stub                                                      *)

LEMMA HangStubs ==
    ASSUME NEW T, NEW p, NEW rest, NEW value
    PROVE  StubsKept(T, Hang(T, p, rest, value))
<1>1. StubsKept(T, T)
  BY DEF StubsKept
<1>2. StubsKept(T, Put(T, Append(p, Head(rest)), Leaf(Tail(rest), value)))
  BY PutStubs DEF Leaf
<1>. QED
  BY <1>1, <1>2 DEF Hang

LEMMA SkipOrStubs ==
    ASSUME NEW T, NEW p, NEW common, NEW slot
    PROVE  StubsKept(T, skip_or(T, p, common, Fork(slot)))
<1>1. StubsKept(T, Put(T, p, Fork(slot)))
  BY PutStubs DEF Fork
<1>2. StubsKept(T, Put(T, p, Skip(common)))
  BY PutStubs DEF Skip
<1>3. StubsKept(Put(T, p, Skip(common)),
                Put(Put(T, p, Skip(common)), p \o common, Fork(slot)))
  BY PutStubs DEF Fork
<1>. QED
  BY <1>1, <1>2, <1>3, StubsKeptTrans DEF skip_or

LEMMA SplitStubs ==
    ASSUME NEW T, NEW p, NEW rest, NEW value
    PROVE  /\ StubsKept(T, SplitLeaf(T, p, rest, value))
           /\ StubsKept(T, SplitSkip(T, p, rest, value))
<1>. DEFINE path == T[p].path
            n == common_prefix_len(path, rest)
            base == p \o Take(rest, n)
            leafSlot == IF Drop(rest, n) = <<>> THEN value
                        ELSE IF Drop(path, n) = <<>> THEN T[p].value ELSE NoValue
            skipSlot == IF Drop(rest, n) = <<>> THEN value ELSE NoValue
            A == skip_or(T, p, Take(rest, n), Fork(leafSlot))
            B == Hang(A, base, Drop(rest, n), value)
            C == Hang(B, base, Drop(path, n), T[p].value)
            F == skip_or(T, p, Take(rest, n), Fork(skipSlot))
            skip == Skip(Drop(path, n + 1))
            L == IF Drop(path, n + 1) = <<>> THEN F
                 ELSE Put(F, Append(base, path[n + 1]), skip)
            G == Hang(L, base, Drop(rest, n), value)
<1>1. StubsKept(T, A) /\ StubsKept(T, F)
  BY SkipOrStubs
<1>2. StubsKept(A, B) /\ StubsKept(B, C) /\ StubsKept(L, G)
  BY HangStubs
<1>3. StubsKept(F, F)
  BY DEF StubsKept
<1>4. skip.type # "stub"
  BY DEF Skip
<1>5. SplitLeaf(T, p, rest, value) = C /\ SplitSkip(T, p, rest, value) = G
  BY DEF SplitLeaf, SplitSkip
<1>. HIDE DEF A, B, C, F, G, skip
<1>6. StubsKept(F, Put(F, Append(base, path[n + 1]), skip))
  BY <1>4, PutStubs
<1>7. StubsKept(F, L)
  BY <1>3, <1>6
<1>. HIDE DEF L
<1>. QED
  BY <1>1, <1>2, <1>5, <1>7, StubsKeptTrans

LEMMA PrependStubs ==
    ASSUME NEW T, NEW p, NEW path
    PROVE  StubsKept(T, prepend(T, p, path))
<1>. DEFINE c == p \o path
<1>1. StubsKept(T, Cut(T, {p})) /\ StubsKept(T, Cut(T, {c}))
  BY CutStubs
<1>2. /\ StubsKept(Cut(T, {c}), Put(Cut(T, {c}), p, Leaf(path \o T[c].path, T[c].value)))
      /\ StubsKept(Cut(T, {c}), Put(Cut(T, {c}), p, Skip(path \o T[c].path)))
      /\ StubsKept(T, Put(T, p, Skip(path)))
  <2>1. /\ Leaf(path \o T[c].path, T[c].value).type # "stub"
        /\ Skip(path \o T[c].path).type # "stub" /\ Skip(path).type # "stub"
    BY DEF Leaf, Skip
  <2>. QED
    BY <2>1, PutStubs
<1>3. \/ prepend(T, p, path) = Cut(T, {p})
      \/ prepend(T, p, path) = Put(Cut(T, {c}), p, Leaf(path \o T[c].path, T[c].value))
      \/ prepend(T, p, path) = Put(Cut(T, {c}), p, Skip(path \o T[c].path))
      \/ prepend(T, p, path) = Put(T, p, Skip(path))
  BY DEF prepend
<1>. HIDE DEF c
<1>. QED
  BY <1>1, <1>2, <1>3, StubsKeptTrans

LEMMA NormalizeStubs == ASSUME NEW T, NEW p PROVE StubsKept(T, normalize(T, p))
<1>1. StubsKept(T, T)
  BY DEF StubsKept
<1>2. StubsKept(T, Put(T, p, Leaf(<<>>, T[p].value)))
  BY PutStubs DEF Leaf
<1>. QED
  BY <1>1, <1>2, CutStubs, PrependStubs DEF normalize

LEMMA WalkingRuns == ASSUME Walking PROVE pc # "idle"
  BY DEF Walking, DescendSkip, DescendFork, get_at, GetNull, GetLeaf, GetSkip, GetForkValue,
         GetForkChild, insert_at, InsertNull, InsertLeaf, InsertSplitLeaf, InsertSplitSkip,
         InsertForkValue, InsertForkChild, RemoveAbsent, RemoveLeaf, RemoveForkValue, Unwind,
         Normalize, RemoveReturns, At

LEMMA WalkingKeeps == ASSUME Walking PROVE StubsKept(trie, trie')
<1>1. StubsKept(trie, trie)
  BY DEF StubsKept
<1>2. CASE trie' = trie
  BY <1>1, <1>2
<1>3. CASE insert_at
  <2>1. ASSUME NEW node, node.type # "stub", trie' = Put(trie, pos, node)
        PROVE  StubsKept(trie, trie')
    BY <2>1, PutStubs
  <2>2. CASE InsertNull
    <3>. DEFINE node == Leaf(suffix, call.value)
    <3>1. trie' = Put(trie, <<>>, node)
      BY <2>2 DEF InsertNull, Inserted, Return
    <3>2. node.type # "stub"
      BY DEF Leaf
    <3>. HIDE DEF node
    <3>. QED
      BY <3>1, <3>2, PutStubs
  <2>3. CASE InsertLeaf
    BY <2>1, <2>3 DEF InsertLeaf, Inserted, Return, Leaf
  <2>4. CASE InsertForkValue
    BY <2>1, <2>4 DEF InsertForkValue, Inserted, Return, Fork
  <2>5. CASE InsertSplitLeaf \/ InsertSplitSkip
    BY <2>5, SplitStubs DEF InsertSplitLeaf, InsertSplitSkip, Inserted, Return
  <2>6. CASE InsertForkChild
    BY <2>6, HangStubs DEF InsertForkChild, Inserted, Return
  <2>. QED
    BY <1>3, <2>2, <2>3, <2>4, <2>5, <2>6 DEF insert_at
<1>4. CASE RemoveLeaf
  BY <1>4, CutStubs DEF RemoveLeaf, Edit
<1>5. CASE RemoveForkValue
  BY <1>5, PutStubs DEF RemoveForkValue, Edit, Fork
<1>6. CASE Normalize
  BY <1>6, NormalizeStubs DEF Normalize, Edit
<1>7. CASE DescendSkip \/ DescendFork \/ get_at \/ RemoveAbsent \/ Unwind \/ RemoveReturns
  BY <1>2, <1>7 DEF DescendSkip, DescendFork, Descend, get_at, GetNull, GetLeaf, GetSkip,
     GetForkValue, GetForkChild, Answer, RemoveAbsent, Unwind, Edit, RemoveReturns, Return
<1>. QED
  BY <1>3, <1>4, <1>5, <1>6, <1>7 DEF Walking

-----------------------------------------------------------------------------
(* The invariant *)

(* None of the Stubs of T stands for one of the nodes.                      *)
Lacking(T, nodes) == \A p \in StubsOf(T) : T[p].hash \notin nodes

(* A trie that is built from the nodes lacks none of them.                  *)
LEMMA BuiltLacking ==
    ASSUME NEW S, Whole(S), NEW nodes
    PROVE  Lacking(build_partial(nodes, S), nodes)
<1>1. CASE S = Null
  BY <1>1, NullShape DEF build_partial, Lacking
<1>2. CASE S # Null /\ S \in nodes
  BY <1>2, DecodedLacking DEF build_partial, Lacking
<1>3. CASE S # Null /\ S \notin nodes
  <2>. DEFINE node == Stub(S)
  <2>1. build_partial(nodes, S) = Put(Null, <<>>, node)
    BY <1>3 DEF build_partial
  <2>2. node.hash = S
    BY StubFields
  <2>. HIDE DEF node
  <2>3. \A q \in DOMAIN build_partial(nodes, S) : build_partial(nodes, S)[q] = node
    BY <2>1 DEF Put, Null
  <2>. QED
    BY <1>3, <2>2, <2>3 DEF Lacking, StubsOf
<1>. QED
  BY <1>1, <1>2, <1>3

(* What a trie is between calls.                                            *)
Ready(T) ==
    /\ Fits(T, backing) /\ Bounded(T)
    /\ Bindings(T) = want
    /\ Lacking(T, witness)

(* What the copy is while a call works on it: a removal on its way back has *)
(* taken out of it the binding that it found.                               *)
Underway ==
    pc # "idle" =>
        /\ out = Nothing
        /\ Bounded(trie) /\ Lacking(trie, witness)
        /\ pc = "walk" => Bindings(trie) = want
        /\ pc \in {"normalize", "unwind"} =>
              Bindings(trie) = Cut(want, {call.key}) /\ call.key \in DOMAIN want

WInv == NInv /\ Ready(inner) /\ Underway

LEMMA NextFits ==
    ASSUME IInv', pc' = "idle"
    PROVE  backing' \in Backings /\ Fits(trie', backing')
<1>1. /\ backing' \in Backings /\ Pending' = {}
      /\ trie' \in [DOMAIN trie' -> Node(SubtreesOf(backing'))] /\ DOMAIN trie' \subseteq Path
      /\ WellFormedBut(trie', Pending')
      /\ \A p \in StubsOf(trie') : p \in Hashed(backing') /\ trie'[p].hash = Subtree(backing', p)
  BY DEF IInv, TypeOK, Shape, Pending, StubsInPlace
<1>. QED
  BY <1>1 DEF Fits, Typed, WellFormed

(* Between calls the trie may be exchanged for any that fits.               *)
LEMMA FitsInv ==
    ASSUME IInv, pc = "idle", Fits(trie', backing), UNCHANGED <<backing, call, pc, pos>>
    PROVE  IInv'
<1>1. Pending' = {}
  BY DEF Pending
<1>2. TypeOK'
  BY DEF IInv, TypeOK, Fits, Typed
<1>. QED
  BY <1>1, <1>2 DEF IInv, Shape, StubsInPlace, AtHand, Fits, WellFormed

LEMMA InitReady == from_witness => WInv
<1>. SUFFICES ASSUME from_witness PROVE WInv
  OBVIOUS
<1>1. /\ Init /\ IInv /\ inner = trie /\ trie = build_partial(witness, backing)
      /\ pc = "idle" /\ want = Contents(backing) /\ out = Nothing /\ backing \in Backings
  BY InitInv DEF from_witness, Init
<1>2. Whole(backing) /\ Bounded(backing)
  BY <1>1, BackingWhole, BackingBounded
<1>3. Fits(inner, backing) /\ Bounded(inner) /\ Bindings(inner) = want
  BY <1>1, <1>2, CalmFits, BuiltBounded, BuiltBindings
<1>4. Lacking(inner, witness)
  BY <1>1, <1>2, BuiltLacking
<1>. QED
  BY <1>1, <1>3, <1>4 DEF WInv, NInv, ErrNamesNode, Nothing, Ready, Underway

LEMMA BeginReady == ASSUME WInv, Begins PROVE WInv' /\ inner' = inner
<1>1. PICK request \in Request : Begin(request)
  BY DEF Begins, Request
<1>2. /\ pc = "idle" /\ pc' = "walk" /\ pos' = <<>> /\ call' = request /\ out' = Nothing
      /\ trie' = inner /\ UNCHANGED <<backing, want, inner, witness>> /\ Pending' = {}
  BY <1>1 DEF Begin, Pending
<1>3. Ready(inner) /\ IInv
  BY DEF WInv, NInv
<1>4. starts_with(call'.key, <<>>) /\ <<>> \in Path
  BY <1>2, KeysAssumption, PrefixEmpty DEF Request
<1>5. TypeOK'
  BY <1>2, <1>3, <1>4 DEF IInv, TypeOK, Ready, Fits, Typed
<1>6. AtHand'
  BY <1>2, <1>3 DEF AtHand, Ready, Fits, WellFormed, WellFormedBut, Connected
<1>7. IInv'
  BY <1>2, <1>3, <1>5, <1>6 DEF IInv, Shape, StubsInPlace, Ready, Fits, WellFormed
<1>8. Ready(inner)'
  BY <1>2, <1>3 DEF Ready, Bindings
<1>9. Underway'
  BY <1>2, <1>3 DEF Underway, Ready, Bindings
<1>. QED
  BY <1>2, <1>7, <1>8, <1>9 DEF WInv, NInv, ErrNamesNode, Nothing

(* A late witness: the trie has all of it loaded, and binds what it bound.  *)
LEMMA WitnessReady ==
    ASSUME WInv, NEW nodes, add_witness(nodes)
    PROVE  WInv' /\ Bindings(inner') = Bindings(inner)
<1>1. /\ pc = "idle" /\ inner' = resolve_stubs(inner, witness') /\ trie' = inner'
      /\ UNCHANGED <<backing, call, pc, pos, out, want>>
  BY DEF add_witness
<1>2. /\ IInv /\ ErrNamesNode /\ Fits(inner, backing) /\ Bounded(inner)
      /\ Bindings(inner) = want /\ backing \in Backings
  BY DEF WInv, NInv, IInv, Ready
<1>3. Whole(backing) /\ Bounded(backing)
  BY <1>2, BackingWhole, BackingBounded
<1>4. /\ Fits(inner', backing) /\ Lacking(inner', witness')
      /\ \A q \in DOMAIN inner' : q \in DOMAIN inner \/ q \in DOMAIN backing
  BY <1>1, <1>2, <1>3, LoadFits DEF Lacking
<1>5. Bindings(inner') = want
  BY <1>1, <1>2, <1>3, LoadBinds
<1>6. Bounded(inner')
  <2>1. DOMAIN inner' \subseteq Path
    BY <1>4 DEF Fits, Typed
  <2>. QED
    BY <1>2, <1>3, <1>4, <2>1, JoinBounded
<1>7. IInv'
  BY <1>1, <1>2, <1>4, FitsInv
<1>8. Ready(inner)'
  BY <1>1, <1>4, <1>5, <1>6 DEF Ready, Bindings
<1>. QED
  BY <1>1, <1>2, <1>5, <1>7, <1>8 DEF WInv, NInv, ErrNamesNode, Underway

-----------------------------------------------------------------------------
(* A step of a call *)

(* The ways a call can return, and what is kept of its work; `inner` is what *)
(* the step makes of the trie between calls.                                *)
Missed ==
    /\ pc' = "idle" /\ out'.status = "missing" /\ want' = want
    /\ \/ inner' = inner
       \/ inner' = trie' /\ Bindings(trie') = want /\ Lacking(trie', witness)

Returned ==
    /\ pc' = "idle" /\ out'.status = "ok"
    /\ inner' = trie' /\ Bindings(trie') = want' /\ Lacking(trie', witness)
    /\ \/ call.op = "get" /\ out' = Ok(Lookup(want, call.key)) /\ want' = want
       \/ call.op = "insert" /\ out' = Ok(NoValue) /\ want' = Put(want, call.key, call.value)
       \/ /\ call.op = "remove" /\ call.key \notin DOMAIN want
          /\ out' = Ok(FALSE) /\ want' = want
       \/ /\ call.op = "remove" /\ call.key \in DOMAIN want
          /\ out' = Ok(TRUE) /\ want' = Cut(want, {call.key})

Continued ==
    /\ pc' # "idle" /\ UNCHANGED <<inner, want, out>>
    /\ Lacking(trie', witness)
    /\ pc' = "walk" => Bindings(trie') = want
    /\ pc' \in {"normalize", "unwind"} =>
          Bindings(trie') = Cut(want, {call.key}) /\ call.key \in DOMAIN want

(* The witness has nothing that the trie has not loaded: a Stub on the way  *)
(* of a call is one that the provider lacks.                                *)
LEMMA ProvidedFails ==
    ASSUME WInv, Provided
    PROVE  \E p : Fail(MissingNode(trie[p].hash, p)) /\ pc \in {"walk", "normalize"}
<1>. DEFINE p == Asked
<1>1. /\ resolve_stub(p) /\ p \in StubsOf(trie) /\ pc \in {"walk", "normalize"}
      /\ (out'.status # "missing") = (trie[p].hash \in witness)
  <2>1. CASE Resolve
    BY <2>1 DEF Provided, Resolve, At, Is, Asked, StubsOf
  <2>2. CASE ResolveSibling
    BY <2>2 DEF Provided, ResolveSibling, Is, Asked, StubsOf
  <2>. QED
    BY <2>1, <2>2 DEF Provided
<1>2. trie[p].hash \notin witness /\ out = Nothing
  BY <1>1 DEF WInv, Underway, Lacking
<1>. HIDE DEF p
<1>3. out'.status = "missing"
  BY <1>1, <1>2
<1>4. ~Fail(HashMismatch(trie[p].hash))
  BY <1>3 DEF Fail, HashMismatch
<1>5. out' # out
  BY <1>2, <1>3 DEF Nothing
<1>6. Fail(MissingNode(trie[p].hash, p))
  BY <1>1, <1>4, <1>5 DEF resolve_stub
<1>. QED
  BY <1>1, <1>6

LEMMA Outcome ==
    ASSUME WInv, transactional
    PROVE  /\ NInv' /\ pc # "idle" /\ Bounded(trie')
           /\ UNCHANGED <<backing, call, witness>>
           /\ Missed \/ Returned \/ Continued
<1>1. /\ IInv /\ NInv /\ Ready(inner) /\ witness' = witness /\ (Provided \/ Walking)
      /\ inner' = IF pc' = "idle" /\ (out'.status = "ok" \/ call.op = "get") THEN trie' ELSE inner
  BY DEF WInv, NInv, transactional
<1>2. Running
  BY <1>1 DEF Provided, Walking, Running, remove_at
<1>3. pc # "idle"
  BY <1>1, WalkingRuns DEF Provided, Resolve, ResolveSibling, At
<1>4. /\ out = Nothing /\ Bounded(trie) /\ Lacking(trie, witness)
      /\ pc = "walk" => Bindings(trie) = want
      /\ pc \in {"normalize", "unwind"} =>
            Bindings(trie) = Cut(want, {call.key}) /\ call.key \in DOMAIN want
  BY <1>3 DEF WInv, Underway
<1>5. NInv' /\ IInv'
  BY <1>1, <1>2, NextNames DEF Next, NInv
<1>6. Bounded(trie')
  BY <1>1, <1>2, <1>4, <1>5, StaysBounded DEF Next
<1>7. ASSUME Walking PROVE Lacking(trie', witness)
  BY <1>4, <1>7, WalkingKeeps DEF Lacking, StubsKept
<1>8. CASE Provided
  <2>1. PICK p : Fail(MissingNode(trie[p].hash, p)) /\ pc \in {"walk", "normalize"}
    BY <1>8, ProvidedFails
  <2>2. /\ pc' = "idle" /\ out'.status = "missing" /\ UNCHANGED <<backing, call, want>>
        /\ trie' = IF call.op = "get" THEN trie ELSE Null
    BY <2>1 DEF Fail, MissingNode
  <2>3. CASE call.op = "get"
    <3>1. pc = "walk"
      BY <1>1, <2>1, <2>3 DEF IInv, AtHand
    <3>. QED
      BY <1>1, <1>3, <1>4, <1>5, <1>6, <2>2, <2>3, <3>1 DEF Missed
  <2>4. CASE call.op # "get"
    BY <1>1, <1>3, <1>5, <1>6, <2>2, <2>4 DEF Missed
  <2>. QED
    BY <2>3, <2>4
<1>9. CASE get_at
  BY <1>1, <1>3, <1>4, <1>5, <1>6, <1>7, <1>9, GetAnswers DEF Returned, Walking, Ok
<1>10. CASE insert_at
  BY <1>1, <1>3, <1>4, <1>5, <1>6, <1>7, <1>10, InsertBinds DEF Returned, Walking, Ok
<1>11. CASE RemoveAbsent
  BY <1>1, <1>3, <1>4, <1>5, <1>6, <1>7, <1>11, RemoveFindsNone DEF Returned, Walking, Ok
<1>12. CASE RemoveReturns
  <2>1. /\ pc = "unwind" /\ pc' = "idle" /\ UNCHANGED <<backing, trie, call>> /\ out' = Ok(TRUE)
        /\ want' = Cut(want, {call.key})
    BY <1>12 DEF RemoveReturns, Return
  <2>2. call.op = "remove"
    BY <1>1, <2>1 DEF IInv, AtHand
  <2>. QED
    BY <1>1, <1>3, <1>4, <1>5, <1>6, <1>7, <1>12, <2>1, <2>2 DEF Returned, Walking, Ok
<1>13. CASE RemoveLeaf \/ RemoveForkValue
  BY <1>1, <1>3, <1>4, <1>5, <1>6, <1>7, <1>13, RemoveUnbinds DEF Continued, Walking
<1>14. CASE DescendSkip \/ DescendFork
  <2>1. pc = "walk" /\ UNCHANGED <<backing, trie, call, pc, out, want>>
    BY <1>14 DEF DescendSkip, DescendFork, Descend, At
  <2>. QED
    BY <1>1, <1>3, <1>4, <1>5, <1>6, <2>1 DEF Continued
<1>15. CASE Unwind
  <2>1. pc = "unwind" /\ pc' = "normalize" /\ UNCHANGED <<backing, trie, call, out, want>>
    BY <1>15 DEF Unwind, Edit
  <2>. QED
    BY <1>1, <1>3, <1>4, <1>5, <1>6, <2>1 DEF Continued
<1>16. CASE Normalize
  <2>1. pc = "normalize" /\ pc' = "unwind" /\ UNCHANGED <<backing, call, out, want>>
    BY <1>16 DEF Normalize, Edit
  <2>2. Bindings(trie') = Bindings(trie)
    BY <1>1, <1>5, <1>16, NormalizeKeeps
  <2>. QED
    BY <1>1, <1>3, <1>4, <1>5, <1>6, <1>7, <1>16, <2>1, <2>2 DEF Continued, Walking
<1>. QED
  BY <1>1, <1>8, <1>9, <1>10, <1>11, <1>12, <1>13, <1>14, <1>15, <1>16 DEF Walking

LEMMA TransactionReady == ASSUME WInv, transactional PROVE WInv'
<1>1. /\ NInv' /\ IInv' /\ Bounded(trie') /\ UNCHANGED <<backing, call, witness>>
      /\ Missed \/ Returned \/ Continued
  BY Outcome DEF NInv
<1>2. Ready(inner)
  BY DEF WInv
<1>3. ASSUME pc' = "idle", inner' = trie', Bindings(trie') = want', Lacking(trie', witness)
      PROVE  Ready(inner)'
  BY <1>1, <1>3, NextFits DEF Ready, Bindings
<1>4. CASE Missed
  <2>1. CASE inner' = inner
    BY <1>1, <1>2, <1>4, <2>1 DEF Missed, Ready, Bindings, WInv, Underway
  <2>2. CASE inner' # inner
    <3>1. Ready(inner)'
      BY <1>3, <1>4, <2>2 DEF Missed
    <3>. QED
      BY <1>1, <1>4, <3>1 DEF Missed, WInv, Underway
  <2>. QED
    BY <2>1, <2>2
<1>5. CASE Returned
  <2>1. Ready(inner)'
    BY <1>3, <1>5 DEF Returned
  <2>. QED
    BY <1>1, <1>5, <2>1 DEF Returned, WInv, Underway
<1>6. CASE Continued
  <2>1. Ready(inner)'
    BY <1>1, <1>2, <1>6 DEF Continued, Ready, Bindings
  <2>2. out' = Nothing
    BY <1>6, Outcome DEF Continued, WInv, Underway
  <2>3. Underway'
    BY <1>1, <1>6, <2>2 DEF Continued, Underway, Bindings
  <2>. QED
    BY <1>1, <2>1, <2>3 DEF WInv
<1>. QED
  BY <1>1, <1>4, <1>5, <1>6

LEMMA NextReady == WInv /\ [ProofNext]_proofVars => WInv'
<1>. SUFFICES ASSUME WInv, [ProofNext]_proofVars PROVE WInv'
  OBVIOUS
<1>1. CASE UNCHANGED proofVars
  BY <1>1 DEF proofVars, vars, WInv, NInv, IInv, TypeOK, Shape, Pending, StubsInPlace, AtHand,
     ErrNamesNode, Ready, Bindings, Underway
<1>. QED
  BY <1>1, BeginReady, TransactionReady, WitnessReady DEF ProofNext

LEMMA SpecReady == ProofSpec => []WInv
  BY InitReady, NextReady, PTL DEF ProofSpec

-----------------------------------------------------------------------------
(* The theorems *)

(* In every run of calls that succeed, fail half way and are tried again,   *)
(* with witnesses arriving between them in any order, the root of the       *)
(* explorer's trie is that of what the successful calls add up to.          *)
THEOREM InnerAlwaysCommits == ProofSpec => []InnerCommits
<1>1. WInv => InnerCommits
  BY BackingWhole, BackingBounded, FitsCommits DEF WInv, NInv, IInv, Ready, InnerCommits
<1>. QED
  BY <1>1, SpecReady, PTL

(* A late witness loads what was missing wherever edits have left the Stubs *)
(* of it, and the trie keeps the shape that debug_check asserts.            *)
THEOREM InnerAlwaysShaped == ProofSpec => []InnerShape
<1>1. WInv => InnerShape
  BY DEF WInv, Ready, Fits, InnerShape
<1>. QED
  BY <1>1, SpecReady, PTL

(* No node that the witness holds stays a Stub: whether it came before the  *)
(* edits or after them, all that it has is used.                            *)
THEOREM WitnessAlwaysSpent == ProofSpec => []WitnessSpent
<1>1. WInv => WitnessSpent
  BY DEF WInv, Ready, Lacking, WitnessSpent
<1>. QED
  BY <1>1, SpecReady, PTL

(* What a mutation misses is in the proof of any key below the place that   *)
(* its error names, so a probe for such a key lets the retry get past it.   *)
THEOREM ProbeAlwaysHelps == ProofSpec => []ProbeHelps
<1>1. WInv => ProbeHelps
  BY DEF WInv, NInv, ErrNamesNode, ProbeHelps, Proof, Hashed
<1>. QED
  BY <1>1, SpecReady, PTL

-----------------------------------------------------------------------------
(* The map that never loses anything *)

LEMMA ReturnPromise ==
    ASSUME WInv, WInv', pc # "idle", call' = call, Returned
    PROVE  MapOf!Next
<1>1. Bindings(inner) = want /\ Bindings(inner') = want'
  BY DEF WInv, Ready, Returned
<1>2. pc' = "idle"
  BY DEF Returned
<1>3. CASE call.op = "get" /\ out' = Ok(Lookup(want, call.key)) /\ want' = want
  <2>1. MapOf!Get
    BY <1>1, <1>2, <1>3 DEF MapOf!Get, MapOf!Reply, MapOf!Ok, MapOf!Lookup, Ok, Lookup, Bindings
  <2>. QED
    BY <2>1 DEF MapOf!Next
<1>4. CASE /\ call.op = "insert" /\ out' = Ok(NoValue)
           /\ want' = Put(want, call.key, call.value)
  <2>1. MapOf!Insert
    BY <1>1, <1>2, <1>4 DEF MapOf!Insert, MapOf!Reply, MapOf!Ok, MapOf!Bind, Put, Ok, Bindings
  <2>. QED
    BY <2>1 DEF MapOf!Next
<1>5. CASE /\ call.op = "remove" /\ call.key \notin DOMAIN want
           /\ out' = Ok(FALSE) /\ want' = want
  <2>1. MapOf!RemoveAbsent
    BY <1>1, <1>2, <1>5 DEF MapOf!RemoveAbsent, MapOf!Reply, MapOf!Ok, Ok, Bindings
  <2>. QED
    BY <2>1 DEF MapOf!Next
<1>6. CASE /\ call.op = "remove" /\ call.key \in DOMAIN want
           /\ out' = Ok(TRUE) /\ want' = Cut(want, {call.key})
  <2>1. MapOf!Removed
    BY <1>1, <1>6 DEF MapOf!Removed, MapOf!Unbind, Cut, Bindings
  <2>2. MapOf!Reply(TRUE)
    BY <1>2, <1>6 DEF MapOf!Reply, MapOf!Ok, Ok
  <2>. QED
    BY <2>1, <2>2 DEF MapOf!Next, MapOf!Remove
<1>. QED
  BY <1>3, <1>4, <1>5, <1>6 DEF Returned

LEMMA NextKeepsPromise ==
    WInv /\ WInv' /\ [ProofNext]_proofVars => [MapOf!Next]_(MapOf!vars)
<1>. SUFFICES ASSUME WInv, WInv', [ProofNext]_proofVars PROVE [MapOf!Next]_(MapOf!vars)
  OBVIOUS
<1>1. Bindings(inner) = want /\ Bindings(inner') = want'
  BY DEF WInv, Ready, Bindings
<1>2. CASE Begins
  <2>1. PICK request \in Request : Begin(request)
    BY <1>2 DEF Begins, Request
  <2>2. request \in MapOf!Request
    BY DEF Request, MapOf!Request
  <2>3. MapOf!Call
    BY <2>1, <2>2 DEF Begin, MapOf!Call, Nothing
  <2>. QED
    BY <2>3 DEF MapOf!Next
<1>3. CASE transactional
  <2>1. /\ pc # "idle" /\ call' = call
        /\ Missed \/ Returned \/ Continued
    BY <1>3, Outcome
  <2>2. CASE Missed
    <3>1. pc' = "idle" /\ out'.status = "missing" /\ Bindings(inner') = Bindings(inner)
      BY <1>1, <2>2 DEF Missed
    <3>2. MapOf!Fail
      BY <2>1, <3>1 DEF MapOf!Fail, MapOf!Failed, Bindings
    <3>. QED
      BY <3>2 DEF MapOf!Next
  <2>3. CASE Returned
    BY <2>1, <2>3, ReturnPromise
  <2>4. CASE Continued
    <3>1. UNCHANGED MapOf!vars
      BY <2>1, <2>4 DEF Continued, MapOf!vars
    <3>. QED
      BY <3>1
  <2>. QED
    BY <2>1, <2>2, <2>3, <2>4
<1>4. ASSUME NEW nodes, add_witness(nodes)
      PROVE  UNCHANGED MapOf!vars
  <2>1. Bindings(inner') = Bindings(inner)
    BY <1>4, WitnessReady
  <2>. QED
    BY <1>4, <2>1 DEF add_witness, MapOf!vars, Bindings
<1>5. CASE UNCHANGED proofVars
  BY <1>5 DEF proofVars, vars, MapOf!vars
<1>. QED
  BY <1>2, <1>3, <1>4, <1>5 DEF ProofNext

(* To whoever calls it the explorer's trie is a map on which a call takes   *)
(* effect when it returns Ok, once, and not at all when it fails; that a    *)
(* witness arrives is nothing the map can tell.                             *)
THEOREM ProofTrieIsMap == ProofSpec => KeepsPromise
<1>1. from_witness => MapOf!Init
  BY DEF from_witness, Init, MapOf!Init, Nothing
<1>2. WInv /\ WInv' /\ [ProofNext]_proofVars => [MapOf!Next]_(MapOf!vars)
  BY NextKeepsPromise
<1>. QED
  BY <1>1, <1>2, SpecReady, PTL DEF ProofSpec, KeepsPromise, MapOf!Spec

-----------------------------------------------------------------------------
(* Recording: what makes a node miss                                        *)

(* A step of a call that asks nothing ends, if at all, with an answer.      *)
LEMMA WalkingAnswers ==
    ASSUME Walking
    PROVE  pc' # "idle" => out' = out
<1>1. CASE DescendSkip \/ DescendFork
  BY <1>1 DEF DescendSkip, DescendFork, Descend
<1>2. CASE get_at
  BY <1>2 DEF get_at, GetNull, GetLeaf, GetSkip, GetForkValue, GetForkChild, Answer, Return
<1>3. CASE insert_at
  BY <1>3 DEF insert_at, InsertNull, InsertLeaf, InsertSplitLeaf, InsertSplitSkip,
              InsertForkValue, InsertForkChild, Inserted, Return
<1>4. CASE RemoveAbsent \/ RemoveReturns
  BY <1>4 DEF RemoveAbsent, RemoveReturns, Return
<1>5. CASE RemoveLeaf \/ RemoveForkValue \/ Unwind \/ Normalize
  BY <1>5 DEF RemoveLeaf, RemoveForkValue, Unwind, Normalize, Edit
<1>. QED
  BY <1>1, <1>2, <1>3, <1>4, <1>5 DEF Walking

LEMMA WalkingMisses ==
    ASSUME Walking, out.status # "missing"
    PROVE  out'.status # "missing"
<1>1. CASE DescendSkip \/ DescendFork
  BY <1>1 DEF DescendSkip, DescendFork, Descend
<1>2. CASE get_at
  BY <1>2 DEF get_at, GetNull, GetLeaf, GetSkip, GetForkValue, GetForkChild, Answer, Return, Ok
<1>3. CASE insert_at
  BY <1>3 DEF insert_at, InsertNull, InsertLeaf, InsertSplitLeaf, InsertSplitSkip,
              InsertForkValue, InsertForkChild, Inserted, Return, Ok
<1>4. CASE RemoveAbsent \/ RemoveReturns
  BY <1>4 DEF RemoveAbsent, RemoveReturns, Return, Ok
<1>5. CASE RemoveLeaf \/ RemoveForkValue \/ Unwind \/ Normalize
  BY <1>5 DEF RemoveLeaf, RemoveForkValue, Unwind, Normalize, Edit
<1>. QED
  BY <1>1, <1>2, <1>3, <1>4, <1>5 DEF Walking

(* What is asked for is a Stub of the trie, and the answer of the step is   *)
(* either none yet or an error, which names that Stub if it is a miss.      *)
LEMMA ResolveAsks ==
    ASSUME Resolve \/ ResolveSibling
    PROVE  /\ Asked \in StubsOf(trie)
           /\ pc # "idle"
           /\ pc' # "idle" => out' = out
           /\ out'.status = "missing" =>
                 out' = out \/ out' = MissingNode(trie[Asked].hash, Asked)
<1>1. Asked \in StubsOf(trie) /\ pc # "idle" /\ resolve_stub(Asked)
  BY DEF Resolve, ResolveSibling, At, Is, Asked, StubsOf
<1>2. CASE Fail(MissingNode(trie[Asked].hash, Asked))
  BY <1>1, <1>2 DEF Fail
<1>3. CASE Fail(HashMismatch(trie[Asked].hash))
  BY <1>1, <1>3 DEF Fail, HashMismatch
<1>4. CASE UNCHANGED <<backing, call, pc, pos, out, want, lost>>
  BY <1>1, <1>4
<1>. QED
  BY <1>1, <1>2, <1>3, <1>4 DEF resolve_stub

(* The padded key of a probe leads through the place it was made for.       *)
LEMMA ProbeLeadsThere ==
    ASSUME NEW p \in Path, Len(p) <= KeyLen
    PROVE  starts_with(key_with_prefix(p), p)
<1>. DEFINE k == key_with_prefix(p)
<1>1. KeyLen \in Nat /\ Len(p) \in Nat
  BY KeyLenAssumption
<1>2. k \in [1..KeyLen -> Nibble]
  BY <1>1 DEF key_with_prefix, Path, Nibble
<1>3. k \in Path /\ Len(k) = KeyLen
  BY <1>1, <1>2 DEF Path
<1>4. \A i \in 1..Len(p) : k[i] = p[i]
  BY <1>1 DEF key_with_prefix
<1>. HIDE DEF k
<1>5. \A i \in 1..Len(p) : i \in DOMAIN k /\ k[i] = p[i]
  BY <1>1, <1>3, <1>4
<1>6. starts_with(k, p)
  BY <1>1, <1>3, <1>5, StartsWithPointwise
<1>. QED
  BY <1>6 DEF k

(* What a probe brings back: the node itself, if it is still in that place. *)
LEMMA ProbeBringsNode ==
    ASSUME NEW p \in Path, Len(p) <= KeyLen, p \in Hashed(Block)
    PROVE  Subtree(Block, p) \in multiproof(key_with_prefix(p))
  BY ProbeLeadsThere DEF multiproof

(* The provider's half: a get that comes back without the node was failed,  *)
(* or asked a chain that has something else in that place.                  *)
LEMMA MissedRace ==
    ASSUME IInv, out.status # "missing", get, out'.status = "missing"
    PROVE  \/ ~pinned /\ out'.path \notin Hashed(latest)
           \/ ~pinned /\ Subtree(latest, out'.path) # out'.hash
           \/ cache' = cache /\ "fail" \in RequestsMay
<1>. DEFINE hash == trie[Asked].hash
<1>1. Asked \in StubsOf(trie) /\ out' = MissingNode(hash, Asked)
  BY ResolveAsks DEF get
<1>2. out'.path = Asked /\ out'.hash = hash
  BY <1>1 DEF MissingNode
<1>3. cache' \in CacheAfter(Asked, hash) /\ hash \notin cache'
  BY DEF get
<1>4. Asked \in Hashed(backing) /\ hash = Subtree(backing, Asked)
  BY <1>1 DEF IInv, StubsInPlace
<1>5. Asked \in Path /\ Len(Asked) <= KeyLen
  <2>1. Asked \in DOMAIN backing /\ backing \in Backings
    BY <1>4 DEF Hashed, IInv
  <2>2. Asked \in DOMAIN trie /\ DOMAIN trie \subseteq Path
    BY <1>1 DEF StubsOf, IInv, TypeOK
  <2>. QED
    BY <2>1, <2>2, KeyLenAssumption
<1>. HIDE DEF hash
<1>6. CASE cache' = cache \cup multiproof(key_with_prefix(Asked))
  <2>1. ~(Asked \in Hashed(Block) /\ Subtree(Block, Asked) = hash)
    BY <1>3, <1>5, <1>6, ProbeBringsNode
  <2>. QED
    BY <1>2, <1>4, <2>1 DEF Block
<1>7. CASE cache' = cache /\ "fail" \in RequestsMay
  BY <1>7
<1>8. hash \notin cache
  BY <1>3 DEF CacheAfter
<1>. QED
  BY <1>3, <1>6, <1>7, <1>8 DEF CacheAfter

-----------------------------------------------------------------------------
(* Recording: what a call has to have loaded                                *)

(* Only resolving a Stub takes it away.                                     *)
LEMMA WalkingSameStubs == ASSUME IInv, Walking PROVE StubsOf(trie') = StubsOf(trie)
<1>1. Typed(trie, Hashes) /\ Paths(trie)
  BY TrieTyped
<1>2. CASE insert_at
  <2>0. pc = "walk"
    BY <1>2 DEF insert_at, InsertNull, InsertLeaf, InsertSplitLeaf, InsertSplitSkip,
                InsertForkValue, InsertForkChild, At
  <2>1. Connected(trie) /\ suffix \in Path
    BY <2>0, Calm, SuffixSplit DEF WellFormedBut
  <2>2. CASE InsertNull
    <3>. DEFINE node == Leaf(suffix, call.value)
    <3>1. trie' = Put(Null, <<>>, node) /\ trie = Null
      BY <2>2 DEF InsertNull, Inserted, Return
    <3>2. node.type # "stub"
      BY DEF Leaf
    <3>3. <<>> \notin StubsOf(Null)
      BY NullShape
    <3>. HIDE DEF node
    <3>. QED
      BY <3>1, <3>2, <3>3, PutSameStubs
  <2>3. CASE InsertLeaf
    <3>1. pos \notin StubsOf(trie) /\ trie' = Put(trie, pos, Leaf(suffix, call.value))
      BY <2>3 DEF InsertLeaf, Inserted, Return, At, Is, StubsOf
    <3>. QED
      BY <3>1, PutSameStubs DEF Leaf
  <2>4. CASE InsertForkValue
    <3>1. pos \notin StubsOf(trie) /\ trie' = Put(trie, pos, Fork(call.value))
      BY <2>4 DEF InsertForkValue, Inserted, Return, At, Is, StubsOf
    <3>. QED
      BY <3>1, PutSameStubs DEF Fork
  <2>5. CASE InsertSplitLeaf
    <3>1. /\ pos \in DOMAIN trie /\ trie[pos].type = "leaf"
          /\ trie' = SplitLeaf(trie, pos, suffix, call.value)
      BY <2>5 DEF InsertSplitLeaf, Inserted, Return, At, Is
    <3>2. trie[pos].path \in Path
      BY <1>1, <3>1, NodeTypes
    <3>. QED
      BY <1>1, <2>1, <3>1, <3>2, SplitLeafSameStubs
  <2>6. CASE InsertSplitSkip
    <3>1. /\ pos \in DOMAIN trie /\ trie[pos].type = "skip" /\ ~starts_with(suffix, trie[pos].path)
          /\ trie' = SplitSkip(trie, pos, suffix, call.value)
      BY <2>6 DEF InsertSplitSkip, Inserted, Return, At, Is
    <3>. QED
      BY <1>1, <2>1, <3>1, SplitSkipSameStubs
  <2>7. CASE InsertForkChild
    <3>1. /\ suffix # <<>> /\ Head(suffix) \notin Children(trie, pos) /\ pos \in DOMAIN trie
          /\ trie' = Hang(trie, pos, suffix, call.value)
      BY <2>7 DEF InsertForkChild, Inserted, Return, At, Is
    <3>2. Head(suffix) \in Nibble
      BY <2>0, <3>1, NextNibble
    <3>3. Append(pos, Head(suffix)) \notin StubsOf(trie)
      BY <3>1, <3>2 DEF Children, StubsOf
    <3>. QED
      BY <3>1, <3>3, HangSameStubs
  <2>. QED
    BY <1>2, <2>2, <2>3, <2>4, <2>5, <2>6, <2>7 DEF insert_at
<1>3. CASE RemoveLeaf
  <2>1. pos \notin StubsOf(trie) /\ trie' = Cut(trie, {pos})
    BY <1>3 DEF RemoveLeaf, Edit, At, Is, StubsOf
  <2>. QED
    BY <2>1, CutSameStubs
<1>4. CASE RemoveForkValue
  <2>1. pos \notin StubsOf(trie) /\ trie' = Put(trie, pos, Fork(NoValue))
    BY <1>4 DEF RemoveForkValue, Edit, At, Is, StubsOf
  <2>. QED
    BY <2>1, PutSameStubs DEF Fork
<1>5. CASE Normalize
  <2>1. pos \notin StubsOf(trie) /\ trie' = normalize(trie, pos)
    BY <1>5 DEF Normalize, Edit, IInv, AtHand, StubsOf
  <2>. QED
    BY <2>1, NormalizeSameStubs
<1>6. CASE DescendSkip \/ DescendFork \/ get_at \/ RemoveAbsent \/ Unwind \/ RemoveReturns
  BY <1>6 DEF DescendSkip, DescendFork, Descend, get_at, GetNull, GetLeaf, GetSkip,
     GetForkValue, GetForkChild, Answer, RemoveAbsent, Unwind, Edit, RemoveReturns, Return
<1>. QED
  BY <1>2, <1>3, <1>4, <1>5, <1>6 DEF Walking

Turning(nodes) ==
    pc \in {"normalize", "unwind"} =>
        Turned(backing, trie, Pending, Canonical(want), call.key, nodes)

LEMMA WalkExpands ==
    ASSUME BInv, ~lost, pc = "walk"
    PROVE  /\ Solid(trie, Hashes) /\ WellFormed(trie) /\ \A h \in Hashes : <<>> \in DOMAIN h
           /\ Expand(trie) = Canonical(want) /\ Whole(Expand(trie))
           /\ Contents(Expand(trie)) = want
<1>1. IInv /\ Bindings(trie) = want /\ Bounded(trie) /\ backing \in Backings
  BY DEF BInv, CInv, IInv, Kept
<1>2. Fits(trie, backing) /\ Whole(backing) /\ Bounded(backing)
  BY <1>1, CalmFits, BackingWhole, BackingBounded
<1>3. Solid(trie, Hashes) /\ WellFormed(trie)
  BY <1>1, <1>2, TrieSolid DEF Fits
<1>4. \A h \in Hashes : <<>> \in DOMAIN h
  BY <1>2, SubtreeWhole DEF Hashes, SubtreesOf
<1>5. Expand(trie) = Canonical(want)
  BY <1>1, <1>2, FitsCommits DEF node_root
<1>. QED
  BY <1>1, <1>3, <1>4, <1>5, ExpandWhole DEF Bindings

(* Where a walk ends.                                                       *)
Ends ==
    /\ pc = "walk"
    /\ \/ trie = Null
       \/ At("leaf")
       \/ At("skip") /\ ~starts_with(suffix, trie[pos].path)
       \/ At("fork") /\ (suffix = <<>> \/ Head(suffix) \notin Children(trie, pos))

LEMMA WalkEnds ==
    ASSUME get_at \/ insert_at \/ RemoveAbsent \/ RemoveLeaf \/ RemoveForkValue
    PROVE  Ends
  BY DEF get_at, GetNull, GetLeaf, GetSkip, GetForkValue, GetForkChild, insert_at, InsertNull,
         InsertLeaf, InsertSplitLeaf, InsertSplitSkip, InsertForkValue, InsertForkChild,
         RemoveAbsent, RemoveLeaf, RemoveForkValue, At, Ends

(* No Stub is left on the way to the key then.                              *)
LEMMA EndsClear ==
    ASSUME IInv, Ends, NEW q \in StubsOf(trie), starts_with(call.key, q)
    PROVE  FALSE
<1>1. /\ Paths(trie) /\ Connected(trie) /\ q \in DOMAIN trie /\ trie[q].type = "stub"
      /\ DOMAIN trie \subseteq Path
  BY TrieTyped, Calm DEF Ends, StubsOf, WellFormedBut, Typed
<1>2. /\ call.key \in Path /\ pos \in Path /\ suffix \in Path /\ call.key = pos \o suffix
      /\ starts_with(call.key, pos)
  BY SuffixSplit DEF Ends, IInv, TypeOK
<1>3. trie # Null
  BY <1>1 DEF Null
<1>4. pos \in DOMAIN trie /\ trie[pos].type \in {"leaf", "skip", "fork"}
  BY <1>3 DEF Ends, At, Is
<1>5. starts_with(q, pos)
  <2>1. ~Below(pos, q) /\ pos # q
    BY <1>1, <1>4, NothingBelow
  <2>2. starts_with(pos, q) \/ starts_with(q, pos)
    BY <1>1, <1>2, PrefixLinear
  <2>. QED
    BY <2>1, <2>2 DEF Below
<1>6. Below(q, pos)
  BY <1>1, <1>4, <1>5 DEF Below
<1>7. trie[pos].type # "leaf"
  BY <1>1, <1>4, <1>6, NothingBelow
<1>8. PICK c \in DOMAIN trie : IsParent(trie, pos, c) /\ starts_with(q, c)
  BY <1>1, <1>4, <1>6, ConnectedLeads DEF Leads
<1>9. starts_with(call.key, c) /\ c \in Path
  BY <1>1, <1>2, <1>8, PrefixTrans
<1>10. CASE trie[pos].type = "skip"
  <2>1. c = pos \o trie[pos].path /\ trie[pos].path \in Path
    BY <1>1, <1>4, <1>8, <1>10 DEF IsParent, Is, Paths
  <2>2. starts_with(suffix, trie[pos].path)
    BY <1>2, <1>9, <2>1, PrefixUnderConcat
  <2>. QED
    BY <1>3, <1>10, <2>2 DEF Ends, At, Is
<1>11. CASE trie[pos].type = "fork"
  <2>1. PICK n \in Nibble : c = Append(pos, n)
    BY <1>8, <1>11 DEF IsParent, Is
  <2>2. suffix # <<>>
    <3>1. suffix = <<>> => starts_with(pos, Append(pos, n))
      BY <1>2, <1>9, <2>1, ConcatEmpty
    <3>. QED
      BY <1>2, <2>1, <3>1, AppendPath
  <2>3. Head(suffix) \in Nibble /\ starts_with(call.key, Append(pos, Head(suffix)))
    BY <2>2, NextNibble DEF Ends
  <2>4. Head(suffix) = n
    BY <1>2, <1>9, <2>1, <2>3, AppendApart
  <2>5. Head(suffix) \in Children(trie, pos)
    BY <1>8, <2>1, <2>4 DEF Children
  <2>. QED
    BY <1>3, <1>11, <2>2, <2>5 DEF Ends, At, Is
<1>. QED
  BY <1>4, <1>7, <1>10, <1>11

LEMMA EndsLoaded ==
    ASSUME IInv, Ends, NEW nodes, Covered(backing, trie, nodes)
    PROVE  OnTheWay(backing, call.key, nodes)
<1>. SUFFICES ASSUME NEW p \in Hashed(backing), starts_with(call.key, p), Subtree(backing, p) \notin nodes
              PROVE  FALSE
  BY DEF OnTheWay
<1>1. PICK q \in StubsOf(trie) : starts_with(p, q)
  BY DEF Covered
<1>2. call.key \in Path /\ p \in Path /\ q \in Path
  BY SuffixSplit, TrieTyped DEF Ends, Whole, Typed, Hashed, StubsOf
<1>3. starts_with(call.key, q)
  BY <1>1, <1>2, PrefixTrans
<1>. QED
  BY <1>3, EndsClear

(* What a call needs: what is on the way to its key, and what is spare.     *)
LEMMA MetIntro ==
    ASSUME NEW S, NEW b, NEW r, NEW nodes, OnTheWay(S, r.key, nodes),
           r.op = "remove" =>
              \A s \in Hashed(S) : Spare(Canonical(b), r.key, s) => Subtree(S, s) \in nodes
    PROVE  Met(S, b, r, nodes)
  BY DEF Met, Needs, OnTheWay

(* A call that ends where its walk ends has what it needs: if it found      *)
(* nothing to remove then nothing is spare.                                 *)
LEMMA ReturnMeets ==
    ASSUME BInv, ~lost, get_at \/ insert_at \/ RemoveAbsent,
           NEW nodes, Covered(backing, trie, nodes)
    PROVE  /\ pc' = "idle" /\ want' = BindsAfter(want, call)
           /\ Met(backing, want, call, nodes)
<1>1. IInv /\ Ends /\ pc = "walk" /\ Bindings(trie) = want
  BY WalkEnds DEF BInv, CInv, Kept, Ends
<1>2. OnTheWay(backing, call.key, nodes)
  BY <1>1, EndsLoaded
<1>3. CASE get_at
  <2>1. call.op = "get" /\ pc' = "idle" /\ want' = want
    BY <1>1, <1>3, GetAnswers
  <2>. QED
    BY <1>2, <2>1, MetIntro DEF BindsAfter
<1>4. CASE insert_at
  <2>1. call.op = "insert" /\ pc' = "idle" /\ want' = Put(want, call.key, call.value)
    BY <1>1, <1>4, InsertBinds
  <2>. QED
    BY <1>2, <2>1, MetIntro DEF BindsAfter
<1>5. CASE RemoveAbsent
  <2>1. call.op = "remove" /\ pc' = "idle" /\ want' = want /\ call.key \notin DOMAIN want
    BY <1>1, <1>5, RemoveFindsNone
  <2>2. Expand(trie) = Canonical(want) /\ Whole(Expand(trie)) /\ Contents(Expand(trie)) = want
    BY <1>1, WalkExpands
  <2>3. \A s : ~Spare(Canonical(want), call.key, s)
    BY <2>1, <2>2, SpareBound
  <2>4. Cut(want, {call.key}) = want
    <3>1. Bindings(trie) = [k \in DOMAIN Bindings(trie) |-> Bindings(trie)[k]]
      BY <1>1, TrieSolid, BindingsBind
    <3>2. want = [k \in DOMAIN want |-> want[k]] /\ DOMAIN want \ {call.key} = DOMAIN want
      BY <1>1, <2>1, <3>1
    <3>. QED
      BY <3>2 DEF Cut
  <2>. QED
    BY <1>2, <2>1, <2>3, <2>4, MetIntro DEF BindsAfter
<1>. QED
  BY <1>3, <1>4, <1>5

-----------------------------------------------------------------------------
(* The way back of a removal *)

LEMMA RemovalTurns ==
    ASSUME BInv, ~lost, RemoveLeaf \/ RemoveForkValue, NEW nodes, Covered(backing, trie, nodes)
    PROVE  Turning(nodes)'
<1>1. IInv /\ Ends /\ pc = "walk"
  BY WalkEnds DEF BInv, CInv, Ends
<1>2. OnTheWay(backing, call.key, nodes)
  BY <1>1, EndsLoaded
<1>3. /\ Solid(trie, Hashes) /\ WellFormed(trie) /\ \A h \in Hashes : <<>> \in DOMAIN h
      /\ Expand(trie) = Canonical(want) /\ Whole(Expand(trie))
  BY <1>1, WalkExpands
<1>4. call.key = pos \o suffix /\ pos \in Path
  BY <1>1, SuffixSplit
<1>5. CASE RemoveLeaf
  <2>1. /\ pos \in DOMAIN trie /\ trie[pos].type = "leaf" /\ call.key = pos \o trie[pos].path
        /\ trie' = Cut(trie, {pos}) /\ pc' = "unwind" /\ pos' = pos
        /\ UNCHANGED <<backing, call, want>>
    BY <1>4, <1>5 DEF RemoveLeaf, At, Is, Edit
  <2>2. Pending' = Parents(trie', pos)
    BY <2>1 DEF Pending, Parents
  <2>3. Turned(backing, Cut(trie, {pos}), Parents(Cut(trie, {pos}), pos), Expand(trie), call.key, nodes)
    BY <1>2, <1>3, <2>1, TurnAtLeaf
  <2>. QED
    BY <1>3, <2>1, <2>2, <2>3 DEF Turning
<1>6. CASE RemoveForkValue
  <2>1. /\ pos \in DOMAIN trie /\ trie[pos].type = "fork" /\ call.key = pos
        /\ trie[pos].value # NoValue
        /\ trie' = Put(trie, pos, Fork(NoValue)) /\ pc' = "normalize" /\ pos' = pos
        /\ UNCHANGED <<backing, call, want>>
    BY <1>4, <1>6, ConcatEmpty DEF RemoveForkValue, At, Is, Edit
  <2>2. Pending' = {pos}
    BY <2>1 DEF Pending
  <2>3. Turned(backing, Put(trie, pos, Fork(NoValue)), {pos}, Expand(trie), pos, nodes)
    BY <1>2, <1>3, <2>1, TurnAtFork
  <2>. QED
    BY <1>3, <2>1, <2>2, <2>3 DEF Turning
<1>. QED
  BY <1>5, <1>6

LEMMA UnwindTurns ==
    ASSUME IInv, Unwind, NEW nodes, Turning(nodes)
    PROVE  Turning(nodes)'
<1>1. PICK q \in DOMAIN trie : IsParent(trie, q, pos) /\ Edit(trie, "normalize") /\ pos' = q
  BY DEF Unwind
<1>2. pc = "unwind" /\ WellFormedBut(trie, Parents(trie, pos)) /\ Pending = Parents(trie, pos)
  BY DEF Unwind, IInv, Shape, Pending, Parents
<1>3. Connected(trie) /\ SkipsLead(trie, {r \in DOMAIN trie : TRUE})
  BY <1>2 DEF WellFormedBut, SkipsLead
<1>4. Pending = {q}
  BY <1>1, <1>2, <1>3, TrieTyped, OneParent DEF Parents
<1>5. /\ Pending' = {q} /\ UNCHANGED <<trie, backing, call, want>>
  BY <1>1 DEF Edit, Pending
<1>. QED
  BY <1>2, <1>4, <1>5 DEF Turning

(* What is spare is loaded before it is merged, and once it is merged every *)
(* Fork is crowded.                                                         *)
LEMMA NormalizeTurns ==
    ASSUME IInv, Normalize, NEW nodes, Covered(backing, trie, nodes), Turning(nodes)
    PROVE  Turning(nodes)'
<1>. DEFINE U == normalize(trie, pos)
<1>1. /\ pc = "normalize" /\ Edit(U, "unwind") /\ pos' = pos
      /\ ~(Collapses(trie, pos) /\ Is(trie, OnlyChild(trie, pos), "stub"))
  BY DEF Normalize
<1>2. pos \in DOMAIN trie /\ trie[pos].type \in {"fork", "skip"} /\ Occupied(trie, pos)
  BY <1>1 DEF IInv, AtHand
<1>3. WellFormedBut(trie, {pos}) /\ Pending = {pos} /\ DOMAIN trie \subseteq Path
  BY <1>1, TrieTyped DEF IInv, Shape, Pending, Typed
<1>4. Rebuilt(trie, U, Hashes, pos)
  BY <1>1, <1>2, <1>3, TrieTyped, NormalizeShape
<1>. HIDE DEF U
<1>5. ForksCrowded(U, {})
  BY <1>4 DEF Rebuilt
<1>6. ASSUME NEW q, Collapses(U, q) PROVE FALSE
  <2>1. q \in DOMAIN U /\ U[q].type = "fork" /\ U[q].value = NoValue
    BY <1>6 DEF Collapses, Is
  <2>2. Crowded(U, q)
    BY <1>5, <2>1 DEF ForksCrowded
  <2>3. PICK n \in Nibble : Children(U, q) = {n}
    BY <1>6 DEF Collapses
  <2>. QED
    BY <2>1, <2>2, <2>3 DEF Crowded
<1>7. ASSUME NEW s \in Hashed(backing), Collapses(trie, pos), s = OnlyChild(trie, pos)
      PROVE  Subtree(backing, s) \in nodes
  <2>1. s \in DOMAIN trie /\ trie[s].type # "stub"
    <3>1. /\ OnlyNibble(trie, pos) \in Children(trie, pos)
          /\ OnlyChild(trie, pos) = Append(pos, OnlyNibble(trie, pos))
      BY <1>7, CollapseFields
    <3>2. s \in DOMAIN trie
      BY <1>7, <3>1 DEF Children
    <3>. QED
      BY <1>1, <1>7, <3>2 DEF Is
  <2>2. ASSUME NEW q \in StubsOf(trie), starts_with(s, q) PROVE FALSE
    <3>1. q \in DOMAIN trie /\ trie[q].type = "stub" /\ Below(s, q)
      BY <2>1, <2>2 DEF StubsOf, Below
    <3>. QED
      BY <1>3, <2>1, <3>1, NothingBelow DEF WellFormedBut
  <2>. QED
    BY <2>2 DEF Covered
<1>8. Turned(backing, trie, {pos}, Canonical(want), call.key, nodes)
  BY <1>1, <1>3 DEF Turning
<1>9. \A P : Turned(backing, U, P, Canonical(want), call.key, nodes)
  BY <1>6, <1>7, <1>8 DEF Turned
<1>10. trie' = U /\ UNCHANGED <<backing, call, want>>
  BY <1>1 DEF Edit
<1>. QED
  BY <1>9, <1>10 DEF Turning



LEMMA RemovalMeets ==
    ASSUME IInv, RemoveReturns, NEW nodes, Turning(nodes)
    PROVE  /\ pc' = "idle" /\ want' = BindsAfter(want, call) /\ UNCHANGED <<backing, trie, call, lost>>
           /\ Met(backing, want, call, nodes)
<1>1. /\ pc = "unwind" /\ pc' = "idle" /\ want' = Cut(want, {call.key})
      /\ UNCHANGED <<backing, trie, call, lost>>
  BY DEF RemoveReturns, Return
<1>2. call.op = "remove"
  BY <1>1 DEF IInv, AtHand
<1>3. Turned(backing, trie, {}, Canonical(want), call.key, nodes)
  BY <1>1, NothingPending DEF Turning
<1>. QED
  BY <1>1, <1>2, <1>3, MetIntro DEF Turned, BindsAfter

(* No step of a call but a resolution changes what is hidden, and the call  *)
(* returns only once it has loaded what it needs.                           *)
LEMMA WalkingCovers ==
    ASSUME BInv, ~lost, Walking, NEW nodes, Covered(backing, trie, nodes), Turning(nodes)
    PROVE  /\ Covered(backing, trie, nodes)' /\ Turning(nodes)'
           /\ UNCHANGED <<backing, call, lost>> /\ pc # "idle"
           /\ IF pc' = "idle" THEN want' = BindsAfter(want, call) /\ Met(backing, want, call, nodes)
              ELSE want' = want
<1>1. IInv /\ StubsOf(trie') = StubsOf(trie)
  BY WalkingSameStubs DEF BInv, CInv
<1>2. CASE get_at \/ insert_at \/ RemoveAbsent
  <2>1. /\ pc # "idle" /\ pc' = "idle" /\ want' = BindsAfter(want, call) /\ Met(backing, want, call, nodes)
    BY <1>2, ReturnMeets, WalkEnds DEF Ends
  <2>2. UNCHANGED <<backing, call, lost>>
    BY <1>1, <1>2, GetAnswers, InsertBinds, RemoveFindsNone
  <2>. QED
    BY <1>1, <2>1, <2>2 DEF Covered, Turning
<1>3. CASE RemoveReturns
  <2>1. pc # "idle"
    BY <1>3 DEF RemoveReturns
  <2>. QED
    BY <1>1, <1>3, <2>1, RemovalMeets DEF Covered, Turning
<1>4. CASE RemoveLeaf \/ RemoveForkValue
  <2>1. Turning(nodes)'
    BY <1>4, RemovalTurns
  <2>. QED
    BY <1>1, <1>4, <2>1, RemoveUnbinds DEF Covered
<1>5. CASE Unwind \/ Normalize
  <2>1. Turning(nodes)'
    BY <1>1, <1>5, UnwindTurns, NormalizeTurns
  <2>2. pc # "idle" /\ pc' # "idle" /\ UNCHANGED <<backing, call, want, lost>>
    BY <1>5 DEF Unwind, Normalize, Edit
  <2>. QED
    BY <1>1, <2>1, <2>2 DEF Covered
<1>6. CASE DescendSkip \/ DescendFork
  <2>1. pc = "walk" /\ pc' = "walk" /\ UNCHANGED <<backing, call, want, lost>>
    BY <1>6 DEF DescendSkip, DescendFork, Descend, At
  <2>. QED
    BY <1>1, <2>1 DEF Covered, Turning
<1>. QED
  BY <1>2, <1>3, <1>4, <1>5, <1>6 DEF Walking

-----------------------------------------------------------------------------
(* What a call asks for *)

(* A call asks for nothing that it does not need.                           *)
LEMMA AskedNeeded ==
    ASSUME BInv, ~lost, Resolve \/ ResolveSibling, NEW nodes, Turning(nodes)
    PROVE  /\ Asked \in Needs(Canonical(want), call) \cap Hashed(backing)
           /\ trie[Asked].hash = Subtree(backing, Asked)
<1>1. IInv /\ Asked \in StubsOf(trie)
  BY ResolveAsks DEF BInv, CInv
<1>2. Asked \in Hashed(backing) /\ trie[Asked].hash = Subtree(backing, Asked)
  BY <1>1 DEF IInv, StubsInPlace
<1>3. CASE Resolve
  <2>1. pc = "walk" /\ Asked = pos /\ pos \in DOMAIN trie /\ trie[pos].type = "stub"
    BY <1>3 DEF Resolve, At, Is, Asked
  <2>2. /\ Solid(trie, Hashes) /\ \A h \in Hashes : <<>> \in DOMAIN h
        /\ Expand(trie) = Canonical(want)
    BY <2>1, WalkExpands
  <2>3. pos \in Path /\ starts_with(call.key, pos)
    BY <1>1, <2>1, SuffixSplit, PrefixConcat
  <2>4. <<>> \in DOMAIN trie[pos].hash /\ pos \o <<>> = pos /\ <<>> \in Path
    BY <1>1, <2>1, <2>2, <2>3, TrieTyped, NodeTypes, ConcatEmpty, EmptyPath
  <2>5. pos \in DOMAIN Expand(trie)
    <3>1. \A x \in DOMAIN trie : trie[x].type = "stub" =>
             \A r \in DOMAIN trie[x].hash : x \o r \in DOMAIN Expand(trie)
      BY <2>2, ExpandFields
    <3>2. pos \o <<>> \in DOMAIN Expand(trie)
      BY <2>1, <2>4, <3>1, Zenon
    <3>. QED
      BY <2>4, <3>2
  <2>. QED
    BY <1>2, <2>1, <2>2, <2>3, <2>5 DEF Needs
<1>4. CASE ResolveSibling
  <2>1. pc = "normalize" /\ Asked = OnlyChild(trie, pos) /\ Collapses(trie, pos) /\ Pending = {pos}
    BY <1>4 DEF ResolveSibling, Asked, Pending
  <2>2. call.op = "remove" /\ Spare(Canonical(want), call.key, Asked)
    BY <1>1, <2>1 DEF IInv, AtHand, Turning, Turned
  <2>3. Asked \in DOMAIN Canonical(want)
    BY <2>2 DEF Spare, Alone, Children
  <2>. QED
    BY <1>2, <2>2, <2>3 DEF Needs
<1>. QED
  BY <1>3, <1>4

(* What was resolved is the only thing that is no longer hidden.            *)
LEMMA ResolveCovers ==
    ASSUME BInv, ~lost, Resolve \/ ResolveSibling, pc' # "idle",
           NEW nodes, Covered(backing, trie, nodes), Turning(nodes),
           NEW more, more = nodes \cup {trie[Asked].hash}
    PROVE  /\ Covered(backing, trie, more)' /\ Turning(more)'
           /\ UNCHANGED <<backing, call, pc, out, want, lost>>
<1>. DEFINE D == decode_node({}, trie[Asked].hash)
<1>1. /\ IInv /\ Asked \in StubsOf(trie) /\ pc \in {"walk", "normalize"}
      /\ resolve_stub(Asked)
  BY ResolveAsks DEF BInv, CInv, Resolve, ResolveSibling, At, Is, Asked
<1>2. /\ trie' = Graft(trie, Asked, D)
      /\ UNCHANGED <<backing, call, pc, pos, out, want, lost>>
  BY <1>1 DEF resolve_stub, Fail
<1>3. Asked \in Hashed(backing) /\ trie[Asked].hash = Subtree(backing, Asked)
  BY <1>1 DEF IInv, StubsInPlace
<1>4. Connected(trie) /\ DOMAIN trie \subseteq Path /\ Whole(backing)
  BY <1>1, TrieTyped DEF IInv, Shape, WellFormedBut, Typed
<1>5. Covered(backing, Graft(trie, Asked, D), more)
  BY <1>1, <1>3, <1>4, GraftCovers
<1>6. DOMAIN trie \subseteq DOMAIN trie'
  BY <1>2 DEF Graft
<1>. HIDE DEF D
<1>7. CASE pc = "walk"
  BY <1>2, <1>5, <1>7 DEF Turning
<1>8. CASE pc = "normalize"
  <2>1. Collapses(trie, pos) /\ Asked = OnlyChild(trie, pos)
    BY <1>8 DEF Resolve, ResolveSibling, At, Asked
  <2>2. Turned(backing, trie, {pos}, Canonical(want), call.key, nodes)
    BY <1>8 DEF Turning, Pending
  <2>3. Collapses(trie', pos) => OnlyChild(trie', pos) = Asked
    <3>. SUFFICES ASSUME Collapses(trie', pos) PROVE OnlyChild(trie', pos) = Asked
      OBVIOUS
    <3>1. Children(trie, pos) \subseteq Children(trie', pos)
      BY <1>6 DEF Children
    <3>2. OnlyNibble(trie, pos) = OnlyNibble(trie', pos)
      BY <2>1, <3>1, CollapseFields
    <3>. QED
      BY <2>1, <3>2, CollapseFields
  <2>4. Turned(backing, trie', {pos}, Canonical(want), call.key, more)
    BY <1>3, <2>1, <2>2, <2>3 DEF Turned, OnTheWay
  <2>5. Turning(more)'
    BY <1>2, <1>8, <2>4 DEF Turning, Pending
  <2>. QED
    BY <1>2, <1>5, <2>5
<1>. QED
  BY <1>1, <1>7, <1>8

-----------------------------------------------------------------------------
(* The invariant *)

(* What the trie was given to begin with and has been given since, or what  *)
(* the replay is left with.                                                 *)
Nodes == known \cup (Noted \ dropped)

(* How many of the calls have begun. *)
Turn == Len(log) - Len(left)

Workload ==
    /\ pc # "idle" => out = Nothing
    /\ stage \in {"record", "replay"}
    /\ log \in Seq(Request) /\ left \in Seq(Request)
    /\ seen \in Seq([path : Path, hash : Hashes])
    /\ stage = "record" => dropped = {} /\ left = <<>>
    /\ dropped \subseteq Noted \ known
    /\ stage = "replay" =>
          Len(left) <= Len(log) /\ \A i \in 1..Len(left) : left[i] = log[Turn + i]

(* No call has failed: what of the backing trie is not among the nodes is   *)
(* hidden by a Stub, and, in the replay, what is among them is not.         *)
OnTrack ==
    /\ ~lost /\ Covered(backing, trie, Nodes) /\ Turning(Nodes)
    /\ stage = "replay" => Lacking(trie, Nodes)

(* b[i] are the bindings that the i-th call of the workload begins with.    *)
(* The calls that have returned had what they need; what was noted was      *)
(* needed by one of them; and the calls that are replayed have what they    *)
(* need if nothing is left out.                                             *)
Story(b) ==
    /\ b[1] = Contents(backing)
    /\ \A i \in 1..Len(log) : b[i + 1] = BindsAfter(b[i], log[i])
    /\ out.status # "missing" =>
          /\ IF pc = "idle" THEN want = b[Turn + 1]
             ELSE Turn >= 1 /\ want = b[Turn] /\ call = log[Turn]
          /\ \A i \in 1..Len(log) : i < Turn \/ (i = Turn /\ pc = "idle") =>
                Met(backing, b[i], log[i], Nodes)
    /\ \A h \in Noted : \E i \in 1..Len(log) :
          \E p \in Needs(Canonical(b[i]), log[i]) \cap Hashed(backing) : h = Subtree(backing, p)
    /\ stage = "replay" =>
          /\ recorded = Canonical(b[Len(log) + 1])
          /\ \A i \in 1..Len(log) : Met(backing, b[i], log[i], known \cup Noted)

LInv ==
    /\ BInv /\ Workload
    /\ out.status # "missing" => OnTrack
    /\ stage = "replay" /\ dropped = {} => out.status # "missing"
    /\ \E b : Story(b)

LEMMA RecordBegins == RecInit => LInv
<1>. SUFFICES ASSUME RecInit PROVE LInv
  OBVIOUS
<1>1. /\ Init /\ pc = "idle" /\ out = Nothing /\ want = Contents(backing) /\ lost = FALSE
      /\ known = LoadedOf(trie) /\ seen = <<>> /\ log = <<>> /\ left = <<>> /\ dropped = {}
      /\ stage = "record"
  BY DEF RecInit, RemoteInit, Init
<1>2. PICK nodes : trie = build_partial(nodes, backing) /\ backing \in Backings
  BY <1>1 DEF Init
<1>3. Whole(backing) /\ Bounded(backing)
  BY <1>2, BackingWhole, BackingBounded
<1>4. CInv /\ IInv /\ Bounded(trie) /\ Expand(trie) = backing
  BY <1>1, <1>2, <1>3, InitContents, BuiltFits DEF CInv
<1>5. Noted = {} /\ Nodes = known /\ Turn = 0
  BY <1>1 DEF Noted, Nodes, Turn
<1>6. Covered(backing, trie, known)
  BY <1>1, <1>4, TrieSolid, LoadedCovers DEF LoadedOf
<1>7. OnTrack
  BY <1>1, <1>5, <1>6 DEF OnTrack, Turning
<1>8. Story([i \in {1} |-> Contents(backing)])
  BY <1>1, <1>5 DEF Story
<1>9. Workload
  BY <1>1, <1>5 DEF Workload
<1>. QED
  BY <1>1, <1>4, <1>7, <1>8, <1>9 DEF LInv, BInv

LEMMA MetMore ==
    ASSUME NEW S, NEW b, NEW r, NEW nodes, Met(S, b, r, nodes), NEW more, nodes \subseteq more
    PROVE  Met(S, b, r, more)
  BY DEF Met

-----------------------------------------------------------------------------
(* Recording *)

(* What is noted is the hash that was asked for.                            *)
LEMMA NotedMore ==
    ASSUME LInv, Resolve \/ ResolveSibling, seen' = Append(seen, Note)
    PROVE  /\ Noted' = Noted \cup {trie[Asked].hash}
           /\ seen' \in Seq([path : Path, hash : Hashes])
<1>1. IInv /\ Asked \in StubsOf(trie) /\ seen \in Seq([path : Path, hash : Hashes])
  BY ResolveAsks DEF LInv, BInv, CInv, Workload
<1>2. Asked \in Path /\ trie[Asked].hash \in Hashes
  BY <1>1, TrieTyped, NodeTypes DEF StubsOf, Typed
<1>3. Note \in [path : Path, hash : Hashes] /\ Note.hash = trie[Asked].hash
  BY <1>2 DEF Note
<1>. HIDE DEF Hashes
<1>4. /\ Len(seen) \in Nat /\ DOMAIN seen = 1..Len(seen) /\ DOMAIN seen' = 1..(Len(seen) + 1)
      /\ \A i \in 1..Len(seen) : seen'[i] = seen[i]
      /\ seen'[Len(seen) + 1] = Note
      /\ seen' \in Seq([path : Path, hash : Hashes])
  BY <1>1, <1>3
<1>5. Noted' = {seen'[i].hash : i \in DOMAIN seen'}
  BY DEF Noted
<1>6. \A h : h \in Noted' <=> h \in Noted \/ h = trie[Asked].hash
  BY <1>3, <1>4, <1>5 DEF Noted
<1>. QED
  BY <1>4, <1>6

LEMMA GetKeeps == ASSUME LInv, recording_get PROVE LInv'
<1>1. /\ stage = "record" /\ get /\ (Resolve \/ ResolveSibling)
      /\ seen' = NoteIf(out'.status # "missing")
      /\ UNCHANGED <<known, log, stage, left, dropped, recorded>>
      /\ out'.status = out.status \/ out'.status = "missing"
  BY DEF recording_get, get
<1>2. /\ BInv' /\ IInv /\ pc # "idle" /\ out = Nothing /\ dropped = {} /\ left = <<>>
      /\ pc' # "idle" => out' = out
  <2>1. BInv'
    BY <1>1, NextBounded DEF LInv, Next, Running, remove_at
  <2>2. pc # "idle" /\ (pc' # "idle" => out' = out)
    BY <1>1, ResolveAsks
  <2>. QED
    BY <1>1, <2>1, <2>2 DEF LInv, Workload, BInv, CInv
<1>3. IInv'
  BY <1>2 DEF BInv, CInv
<1>4. \/ UNCHANGED <<backing, call, pc, pos, out, want, lost>>
      \/ \E error : error.status \in {"missing", "mismatch"} /\ Fail(error)
  BY <1>1, <1>2, <1>3, ResolveOutcome
<1>5. backing' = backing /\ Hashes' = Hashes /\ Turn' = Turn
  BY <1>1, <1>4 DEF Fail, Hashes, Turn
<1>6. PICK b : Story(b)
  BY DEF LInv
<1>7. CASE out'.status = "missing"
  <2>1. pc' = "idle" /\ seen' = seen
    BY <1>1, <1>2, <1>7 DEF Nothing, NoteIf
  <2>2. Noted' = Noted
    BY <2>1 DEF Noted
  <2>3. Workload'
    BY <1>1, <1>5, <2>1, <2>2 DEF LInv, Workload
  <2>4. Story(b)'
    BY <1>1, <1>5, <1>6, <1>7, <2>2 DEF Story
  <2>. QED
    BY <1>1, <1>2, <1>7, <2>3, <2>4 DEF LInv
<1>8. CASE out'.status # "missing"
  <2>. DEFINE hash == trie[Asked].hash
  <2>1. /\ out'.status = "none" /\ seen' = Append(seen, Note) /\ out.status # "missing"
    BY <1>1, <1>2, <1>8 DEF Nothing, NoteIf
  <2>2. UNCHANGED <<backing, call, pc, pos, out, want, lost>>
    BY <1>4, <2>1 DEF Fail
  <2>3. OnTrack /\ BInv
    BY <2>1 DEF LInv
  <2>4. PICK more : more = Nodes \cup {hash}
    OBVIOUS
  <2>5. PICK nodes : nodes = Nodes
    OBVIOUS
  <2>6. Covered(backing, trie, nodes) /\ Turning(nodes) /\ ~lost
    BY <2>3, <2>5 DEF OnTrack
  <2>7. /\ Covered(backing, trie, more)' /\ Turning(more)'
    BY <1>1, <1>2, <2>2, <2>3, <2>4, <2>5, <2>6, ResolveCovers
  <2>8. /\ Asked \in Needs(Canonical(want), call) \cap Hashed(backing)
        /\ hash = Subtree(backing, Asked)
    BY <1>1, <2>3, <2>6, AskedNeeded
  <2>9. Noted' = Noted \cup {hash} /\ seen' \in Seq([path : Path, hash : Hashes])
    BY <1>1, <2>1, NotedMore
  <2>. HIDE DEF hash
  <2>10. Nodes' = more /\ Nodes \subseteq more
    BY <1>1, <1>2, <2>4, <2>9 DEF Nodes
  <2>11. OnTrack'
    BY <1>1, <2>2, <2>6, <2>7, <2>10 DEF OnTrack
  <2>12. Workload'
    BY <1>1, <1>2, <1>5, <2>2, <2>9 DEF LInv, Workload
  <2>13. Story(b)'
    <3>1. Turn >= 1 /\ want = b[Turn] /\ call = log[Turn] /\ Turn \in 1..Len(log)
      BY <1>2, <1>6, <2>1 DEF Story, Turn, LInv, Workload
    <3>2. \A i \in 1..Len(log) : i < Turn \/ (i = Turn /\ pc = "idle") =>
             Met(backing, b[i], log[i], more)
      BY <1>6, <2>1, <2>10, MetMore DEF Story
    <3>3. \A h \in Noted \cup {hash} : \E i \in 1..Len(log) :
             \E p \in Needs(Canonical(b[i]), log[i]) \cap Hashed(backing) :
                h = Subtree(backing, p)
      BY <1>6, <2>8, <3>1 DEF Story
    <3>. QED
      BY <1>1, <1>2, <1>5, <1>6, <2>2, <2>9, <2>10, <3>1, <3>2, <3>3 DEF Story
  <2>. QED
    BY <1>1, <1>2, <2>11, <2>12, <2>13 DEF LInv
<1>. QED
  BY <1>7, <1>8

LEMMA CallKeeps == ASSUME LInv, NextCall PROVE LInv'
<1>1. /\ stage = "record" /\ out.status # "missing" /\ Calls /\ log' = Append(log, call')
      /\ UNCHANGED <<known, seen, stage, left, dropped, recorded>>
  BY DEF NextCall
<1>2. /\ pc = "idle" /\ pc' = "walk" /\ out' = Nothing /\ call' \in Request
      /\ UNCHANGED <<backing, trie, want, lost>>
  BY <1>1 DEF Calls, Call, Request
<1>3. /\ BInv' /\ log \in Seq(Request) /\ dropped = {} /\ left = <<>> /\ OnTrack
  BY <1>1, NextBounded DEF LInv, Next, Workload
<1>4. PICK b : Story(b)
  BY DEF LInv
<1>. DEFINE n == Len(log)
<1>5. /\ n \in Nat /\ Len(log') = n + 1 /\ log' \in Seq(Request)
      /\ \A i \in 1..n : log'[i] = log[i]
      /\ log'[n + 1] = call'
  BY <1>1, <1>2, <1>3
<1>6. Turn = n /\ Turn' = n + 1
  BY <1>1, <1>3, <1>5 DEF Turn
<1>7. /\ Noted' = Noted /\ Nodes' = Nodes /\ Hashes' = Hashes
  BY <1>1, <1>2 DEF Noted, Nodes, Hashes
<1>8. OnTrack'
  BY <1>1, <1>2, <1>3, <1>7 DEF OnTrack, Covered, Turning
<1>9. Workload'
  BY <1>1, <1>2, <1>3, <1>5, <1>7 DEF LInv, Workload
<1>. DEFINE c == [i \in 1..(n + 2) |-> IF i <= n + 1 THEN b[i] ELSE BindsAfter(b[n + 1], call')]
<1>10. /\ \A i \in 1..(n + 1) : c[i] = b[i]
       /\ c[n + 2] = BindsAfter(b[n + 1], call')
  BY <1>5
<1>11. PICK d : d = c
  OBVIOUS
<1>12. /\ \A i \in 1..(n + 1) : d[i] = b[i]
       /\ d[n + 2] = BindsAfter(b[n + 1], call')
  BY <1>10, <1>11
<1>. HIDE DEF c, n
<1>13. \A i \in 1..n : b[i + 1] = BindsAfter(b[i], log[i]) /\ Met(backing, b[i], log[i], Nodes)
  BY <1>1, <1>2, <1>4, <1>5, <1>6 DEF Story, n
<1>14. b[1] = Contents(backing) /\ want = b[n + 1]
  BY <1>1, <1>2, <1>4, <1>6 DEF Story
<1>15. \A h \in Noted : \E i \in 1..n :
          \E p \in Needs(Canonical(b[i]), log[i]) \cap Hashed(backing) : h = Subtree(backing, p)
  BY <1>4 DEF Story, n
<1>16. Story(d)'
  <2>1. d[1] = Contents(backing')
    BY <1>2, <1>5, <1>12, <1>14
  <2>2. \A i \in 1..(n + 1) : d[i + 1] = BindsAfter(d[i], log'[i])
    BY <1>5, <1>12, <1>13
  <2>3. want' = d[n + 1] /\ call' = log'[n + 1] /\ n + 1 >= 1
    BY <1>2, <1>5, <1>12, <1>14
  <2>4. \A i \in 1..(n + 1) : i < n + 1 => Met(backing', d[i], log'[i], Nodes')
    BY <1>2, <1>5, <1>7, <1>12, <1>13
  <2>5. \A h \in Noted' : \E i \in 1..(n + 1) :
           \E p \in Needs(Canonical(d[i]), log'[i]) \cap Hashed(backing') : h = Subtree(backing', p)
    <3>. TAKE h \in Noted'
    <3>1. PICK i \in 1..n :
             \E p \in Needs(Canonical(b[i]), log[i]) \cap Hashed(backing) : h = Subtree(backing, p)
      BY <1>7, <1>15
    <3>. QED
      BY <1>2, <1>5, <1>12, <3>1
  <2>6. Len(log') = n + 1 /\ pc' # "idle" /\ stage' # "replay"
    BY <1>1, <1>2, <1>5
  <2>. QED
    BY <1>6, <2>1, <2>2, <2>3, <2>4, <2>5, <2>6 DEF Story
<1>. QED
  BY <1>1, <1>3, <1>8, <1>9, <1>16 DEF LInv

-----------------------------------------------------------------------------
(* Recording and replaying *)

LEMMA StillKeeps ==
    ASSUME LInv, UNCHANGED <<vars, known, seen, log, stage, left, dropped, recorded>>
    PROVE  LInv'
<1>1. BInv'
  BY NextBounded DEF LInv
<1>2. UNCHANGED <<backing, trie, call, pc, pos, out, want, lost>>
  BY DEF vars
<1>3. UNCHANGED <<Hashes, Noted, Nodes, Turn>>
  BY <1>2 DEF Hashes, Noted, Nodes, Turn
<1>4. Workload' /\ (OnTrack => OnTrack')
  BY <1>2, <1>3 DEF LInv, Workload, OnTrack, Turning, Pending
<1>5. PICK b : Story(b)
  BY DEF LInv
<1>6. Story(b)'
  BY <1>2, <1>3, <1>5 DEF Story
<1>. QED
  BY <1>1, <1>2, <1>4, <1>6 DEF LInv

LEMMA WalkKeeps == ASSUME LInv, Walks PROVE LInv'
<1>1. Walking /\ UNCHANGED <<known, seen, log, stage, left, dropped, recorded>>
  BY DEF Walks, replaying
<1>2. BInv' /\ BInv
  BY <1>1, NextBounded DEF LInv, Next, Running, remove_at, Walking
<1>3. /\ pc # "idle" /\ out = Nothing /\ out.status # "missing" /\ out'.status # "missing"
      /\ pc' # "idle" => out' = Nothing
  BY <1>1, WalkingRuns, WalkingAnswers, WalkingMisses DEF LInv, Workload, Nothing
<1>4. OnTrack
  BY <1>3 DEF LInv
<1>5. PICK nodes : nodes = Nodes
  OBVIOUS
<1>6. Covered(backing, trie, nodes) /\ Turning(nodes) /\ ~lost
  BY <1>4, <1>5 DEF OnTrack
<1>7. /\ Covered(backing, trie, nodes)' /\ Turning(nodes)'
      /\ UNCHANGED <<backing, call, lost>>
      /\ IF pc' = "idle" THEN want' = BindsAfter(want, call) /\ Met(backing, want, call, nodes)
         ELSE want' = want
  BY <1>1, <1>2, <1>6, WalkingCovers
<1>8. UNCHANGED <<Hashes, Noted, Nodes, Turn>>
  BY <1>1, <1>7 DEF Hashes, Noted, Nodes, Turn
<1>9. stage = "replay" => Lacking(trie', nodes)
  BY <1>1, <1>4, <1>5, WalkingKeeps DEF OnTrack, Lacking, StubsKept
<1>10. OnTrack'
  BY <1>1, <1>5, <1>6, <1>7, <1>8, <1>9 DEF OnTrack
<1>11. Workload'
  BY <1>1, <1>3, <1>8 DEF LInv, Workload
<1>12. PICK b : Story(b)
  BY DEF LInv
<1>13. /\ Turn \in 1..Len(log) /\ want = b[Turn] /\ call = log[Turn]
       /\ b[Turn + 1] = BindsAfter(want, call)
  <2>1. Turn >= 1 /\ want = b[Turn] /\ call = log[Turn]
    BY <1>3, <1>12 DEF Story
  <2>2. Turn \in 1..Len(log)
    BY <2>1 DEF Turn, LInv, Workload
  <2>. QED
    BY <1>12, <2>1, <2>2 DEF Story
<1>14. \A i \in 1..Len(log) : i < Turn \/ (i = Turn /\ pc' = "idle") =>
          Met(backing, b[i], log[i], Nodes)
  BY <1>3, <1>5, <1>7, <1>12, <1>13 DEF Story
<1>15. Story(b)'
  <2>1. IF pc' = "idle" THEN want' = b[Turn' + 1]
        ELSE Turn' >= 1 /\ want' = b[Turn'] /\ call' = log'[Turn']
    BY <1>1, <1>7, <1>8, <1>13
  <2>2. \A i \in 1..Len(log') : i < Turn' \/ (i = Turn' /\ pc' = "idle") =>
           Met(backing', b[i], log'[i], Nodes')
    BY <1>1, <1>7, <1>8, <1>14
  <2>. QED
    BY <1>1, <1>7, <1>8, <1>12, <2>1, <2>2 DEF Story
<1>. QED
  BY <1>1, <1>2, <1>3, <1>10, <1>11, <1>15 DEF LInv

-----------------------------------------------------------------------------
(* Replaying *)

(* A call that needs nothing but what was noted misses nothing.             *)
LEMMA NoneKeeps == ASSUME LInv, get_none PROVE LInv'
<1>1. /\ stage = "replay" /\ (Resolve \/ ResolveSibling) /\ out'.status = "missing"
      /\ UNCHANGED <<known, seen, log, stage, left, dropped, recorded>>
  BY DEF get_none, replaying
<1>2. BInv' /\ BInv /\ IInv /\ IInv'
  BY <1>1, NextBounded DEF LInv, BInv, CInv, Next, Running, remove_at
<1>3. /\ pc # "idle" /\ out.status # "missing" /\ pc' = "idle" /\ Asked \in StubsOf(trie)
  BY <1>1, ResolveAsks DEF LInv, Workload, Nothing
<1>4. backing' = backing
  BY <1>1, <1>2, ResolveOutcome DEF Fail
<1>5. UNCHANGED <<Hashes, Noted, Nodes, Turn>>
  BY <1>1, <1>4 DEF Hashes, Noted, Nodes, Turn
<1>6. PICK b : Story(b)
  BY DEF LInv
<1>7. dropped # {}
  <2>1. OnTrack
    BY <1>3 DEF LInv
  <2>2. PICK nodes : nodes = Nodes
    OBVIOUS
  <2>3. /\ Asked \in Needs(Canonical(want), call) \cap Hashed(backing)
        /\ trie[Asked].hash = Subtree(backing, Asked)
    BY <1>1, <1>2, <2>1, <2>2, AskedNeeded DEF OnTrack
  <2>4. Turn >= 1 /\ want = b[Turn] /\ call = log[Turn]
    BY <1>3, <1>6 DEF Story
  <2>5. Turn \in 1..Len(log)
    BY <2>4 DEF Turn, LInv, Workload
  <2>6. Subtree(backing, Asked) \in known \cup Noted
    BY <1>1, <1>6, <2>3, <2>4, <2>5 DEF Story, Met
  <2>7. trie[Asked].hash \notin Nodes
    BY <1>1, <1>3, <2>1 DEF OnTrack, Lacking
  <2>. QED
    BY <2>3, <2>6, <2>7 DEF Nodes
<1>8. Workload'
  BY <1>1, <1>3, <1>4, <1>5 DEF LInv, Workload
<1>9. Story(b)'
  BY <1>1, <1>4, <1>5, <1>6 DEF Story
<1>. QED
  BY <1>1, <1>2, <1>7, <1>8, <1>9 DEF LInv

LEMMA StartKeeps == ASSUME LInv, StartReplay PROVE LInv'
<1>1. /\ stage = "record" /\ pc = "idle" /\ out.status = "ok" /\ stage' = "replay"
      /\ left' = log /\ dropped' \subseteq Noted \ known /\ recorded' = node_root(trie)
      /\ trie' = build_partial(known \cup (Noted \ dropped'), backing)
      /\ out' = Nothing /\ want' = Contents(backing)
      /\ UNCHANGED <<backing, call, pc, pos, lost, known, seen, log>>
  BY DEF StartReplay
<1>2. /\ BInv /\ IInv /\ log \in Seq(Request) /\ dropped = {} /\ left = <<>> /\ OnTrack
      /\ seen \in Seq([path : Path, hash : Hashes])
  BY <1>1 DEF LInv, BInv, CInv, Workload
<1>3. PICK nodes : nodes = known \cup (Noted \ dropped')
  OBVIOUS
<1>4. UNCHANGED <<Hashes, Noted>> /\ Nodes' = nodes /\ Turn = Len(log) /\ Turn' = 0
      /\ Nodes = known \cup Noted /\ Len(log) \in Nat
  BY <1>1, <1>2, <1>3 DEF Hashes, Noted, Nodes, Turn
<1>5. Whole(backing) /\ Bounded(backing)
  BY <1>2, BackingWhole, BackingBounded DEF IInv
<1>6. /\ Fits(trie', backing) /\ Bounded(trie') /\ Bindings(trie') = Contents(backing)
      /\ Covered(backing, trie', nodes) /\ Lacking(trie', nodes)
  BY <1>1, <1>3, <1>5, BuiltFits, BuiltBindings, BuiltCovers, BuiltLacking
<1>7. BInv'
  <2>1. IInv'
    BY <1>1, <1>2, <1>6, FitsInv
  <2>2. Kept'
    BY <1>1, <1>6 DEF Kept, Bindings
  <2>3. AnswersTrue'
    BY <1>1 DEF AnswersTrue, Nothing
  <2>. QED
    BY <1>6, <2>1, <2>2, <2>3 DEF BInv, CInv, Bounded
<1>8. OnTrack'
  BY <1>1, <1>2, <1>4, <1>6 DEF OnTrack, Turning
<1>9. Workload'
  BY <1>1, <1>2, <1>4 DEF Workload
<1>10. PICK b : Story(b)
  BY DEF LInv
<1>11. /\ b[1] = Contents(backing) /\ want = b[Len(log) + 1]
       /\ \A i \in 1..Len(log) : Met(backing, b[i], log[i], known \cup Noted)
  <2>1. out.status # "missing" /\ \A i \in 1..Len(log) : i < Turn \/ i = Turn
    BY <1>1, <1>4
  <2>. QED
    BY <1>1, <1>4, <1>10, <2>1 DEF Story
<1>12. recorded' = Canonical(b[Len(log) + 1])
  BY <1>1, <1>2, <1>11, RootFollows DEF OnTrack, RootCommits
<1>13. Story(b)'
  <2>1. want' = b[Turn' + 1] /\ \A i \in 1..Len(log) : ~(i < Turn') /\ i # Turn'
    BY <1>1, <1>4, <1>11
  <2>. QED
    BY <1>1, <1>4, <1>10, <1>11, <1>12, <2>1 DEF Story
<1>. QED
  BY <1>1, <1>7, <1>8, <1>9, <1>13 DEF LInv, Nothing

LEMMA ReplayKeeps == ASSUME LInv, Replay PROVE LInv'
<1>1. /\ stage = "replay" /\ left # <<>> /\ out.status # "missing" /\ Call(Head(left))
      /\ left' = Tail(left)
      /\ UNCHANGED <<known, seen, log, stage, dropped, recorded>>
  BY DEF Replay
<1>2. /\ log \in Seq(Request) /\ left \in Seq(Request) /\ Len(left) <= Len(log) /\ OnTrack
      /\ \A i \in 1..Len(left) : left[i] = log[Turn + i]
  BY <1>1 DEF LInv, Workload
<1>3. /\ Head(left) \in Request /\ Head(left) = left[1] /\ Len(left) \in Nat \ {0}
      /\ Len(left') = Len(left) - 1 /\ left' \in Seq(Request) /\ Len(log) \in Nat
      /\ \A i \in 1..Len(left') : left'[i] = left[i + 1]
  BY <1>1, <1>2
<1>4. /\ pc = "idle" /\ pc' = "walk" /\ out' = Nothing /\ call' = Head(left)
      /\ UNCHANGED <<backing, trie, want, lost>>
  BY <1>1 DEF Call
<1>5. BInv'
  <2>1. Calls
    BY <1>1, <1>3 DEF Calls, Request
  <2>. QED
    BY <2>1, NextBounded DEF LInv, Next
<1>6. Turn' = Turn + 1 /\ Turn \in 0..(Len(log) - 1) /\ UNCHANGED <<Hashes, Noted, Nodes>>
  BY <1>1, <1>2, <1>3, <1>4 DEF Turn, Hashes, Noted, Nodes
<1>7. OnTrack'
  BY <1>1, <1>2, <1>4, <1>6 DEF OnTrack, Covered, Turning, Lacking
<1>8. \A i \in 1..Len(left') : left'[i] = log[Turn' + i]
  <2>. TAKE i \in 1..Len(left')
  <2>1. i + 1 \in 1..Len(left) /\ i \in Nat
    BY <1>3
  <2>2. left'[i] = log[Turn + (i + 1)]
    BY <1>2, <1>3, <2>1
  <2>3. Turn + (i + 1) = Turn' + i
    BY <1>6, <2>1
  <2>. QED
    BY <2>2, <2>3
<1>9. Workload'
  BY <1>1, <1>2, <1>3, <1>4, <1>6, <1>8 DEF LInv, Workload
<1>10. PICK b : Story(b)
  BY DEF LInv
<1>11. call' = log[Turn'] /\ want' = b[Turn'] /\ Turn' >= 1
  BY <1>1, <1>2, <1>3, <1>4, <1>6, <1>10 DEF Story
<1>12. \A i \in 1..Len(log) : i < Turn' => Met(backing, b[i], log[i], Nodes)
  BY <1>1, <1>4, <1>6, <1>10 DEF Story
<1>13. Story(b)'
  <2>1. pc' = "walk" /\ stage' = "replay" /\ UNCHANGED <<backing, log, recorded, known, Noted, Nodes>>
    BY <1>1, <1>4, <1>6
  <2>2. /\ b[1] = Contents(backing)
        /\ \A i \in 1..Len(log) : b[i + 1] = BindsAfter(b[i], log[i])
        /\ \A h \in Noted : \E i \in 1..Len(log) :
              \E p \in Needs(Canonical(b[i]), log[i]) \cap Hashed(backing) : h = Subtree(backing, p)
        /\ recorded = Canonical(b[Len(log) + 1])
        /\ \A i \in 1..Len(log) : Met(backing, b[i], log[i], known \cup Noted)
    BY <1>1, <1>10 DEF Story
  <2>3. \A i \in 1..Len(log) : i < Turn' \/ (i = Turn' /\ pc' = "idle") =>
           Met(backing, b[i], log[i], Nodes)
    BY <1>12, <2>1
  <2>. QED
    BY <1>11, <2>1, <2>2, <2>3 DEF Story
<1>. QED
  BY <1>1, <1>4, <1>5, <1>7, <1>9, <1>13 DEF LInv, Nothing

LEMMA RecordGoesOn == LInv /\ [RecNext]_recVars => LInv'
<1>. SUFFICES ASSUME LInv, [RecNext]_recVars PROVE LInv'
  OBVIOUS
<1>1. CASE ChainMoves \/ UNCHANGED recVars
  BY <1>1, StillKeeps DEF ChainMoves, Advance, replaying, recVars, remoteVars
<1>. QED
  BY <1>1, GetKeeps, NoneKeeps, WalkKeeps, CallKeeps, StartKeeps, ReplayKeeps DEF RecNext

LEMMA SpecRecord == RecSpec => []LInv
  BY RecordBegins, RecordGoesOn, PTL DEF RecSpec

-----------------------------------------------------------------------------
(* Recording: the theorems                                                  *)

(* Whatever the tries, the calls and the moves of the chain: no edit of the *)
(* trie and no padding of a probe makes a node miss, only a chain that has  *)
(* moved under a provider that follows it, or a request that failed.        *)
THEOREM MissAlwaysRace == RecSpec => MissIsRace
<1>. DEFINE Race == \/ ~pinned /\ out'.path \notin Hashed(latest)
                    \/ ~pinned /\ Subtree(latest, out'.path) # out'.hash
                    \/ cache' = cache /\ "fail" \in RequestsMay
            Miss == stage = "record" /\ pc # "idle" /\ out'.status = "missing"
<1>1. LInv /\ [RecNext]_recVars => [Miss => Race]_recVars
  <2>. SUFFICES ASSUME LInv, RecNext, Miss PROVE Race
    OBVIOUS
  <2>1. IInv /\ out.status # "missing"
    BY DEF LInv, BInv, CInv, Workload, Nothing
  <2>2. CASE recording_get
    BY <2>1, <2>2, MissedRace DEF recording_get
  <2>3. CASE Walks
    BY <2>1, <2>3, WalkingMisses DEF Walks
  <2>4. CASE ChainMoves
    BY <2>1, <2>4 DEF ChainMoves, Advance, vars
  <2>5. CASE NextCall \/ get_none \/ StartReplay \/ Replay
    BY <2>5 DEF NextCall, Calls, Call, get_none, StartReplay, Replay
  <2>. QED
    BY <2>2, <2>3, <2>4, <2>5 DEF RecNext
<1>. QED
  BY <1>1, SpecRecord, PTL DEF RecSpec, MissIsRace

(* Whatever the workload and the trie: the nodes that were noted are all    *)
(* that the replay asks for, with what was loaded to begin with, and it     *)
(* ends with the root that the workload ended with.                         *)
THEOREM WitnessAlwaysSuffices == RecSpec => []WitnessSuffices
<1>1. LInv => WitnessSuffices
  <2>. SUFFICES ASSUME LInv, stage = "replay", dropped = {}
                PROVE  out.status # "missing" /\ (Replayed => node_root(trie) = recorded)
    BY DEF WitnessSuffices
  <2>1. out.status # "missing" /\ ~lost /\ RootCommits
    BY RootFollows DEF LInv, OnTrack
  <2>2. PICK b : Story(b)
    BY DEF LInv
  <2>3. Replayed => Turn = Len(log)
    BY DEF Replayed, Turn, LInv, Workload
  <2>. QED
    BY <2>1, <2>2, <2>3 DEF Replayed, Story, RootCommits
<1>. QED
  BY <1>1, SpecRecord, PTL

(* And none of them can be left out: each was needed by one of the calls,   *)
(* which misses it when it is not among the nodes of the replay.            *)
THEOREM WitnessAlwaysMinimal == RecSpec => []WitnessMinimal
<1>1. LInv => WitnessMinimal
  <2>. SUFFICES ASSUME LInv, Replayed, NEW h \in dropped PROVE FALSE
    BY DEF WitnessMinimal
  <2>1. PICK b : Story(b)
    BY DEF LInv
  <2>2. h \in Noted /\ h \notin Nodes /\ Turn = Len(log) /\ Len(log) \in Nat
    BY DEF Replayed, Turn, LInv, Workload, Nodes
  <2>3. PICK i \in 1..Len(log) : \E p \in Needs(Canonical(b[i]), log[i]) \cap Hashed(backing) :
           h = Subtree(backing, p)
    BY <2>1, <2>2 DEF Story
  <2>4. Met(backing, b[i], log[i], Nodes)
    BY <2>1, <2>2, <2>3 DEF Story, Replayed
  <2>. QED
    BY <2>2, <2>3, <2>4 DEF Met
<1>. QED
  BY <1>1, SpecRecord, PTL
=============================================================================
