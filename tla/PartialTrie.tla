---------------------------- MODULE PartialTrie ----------------------------
(***************************************************************************)
(* Trie<H> over a partially loaded trie: insert_with, get_with and         *)
(* remove_with, which walk from the root, resolve the Stubs they meet      *)
(* through a NodeProvider, and edit the tree in place.                     *)
(*                                                                         *)
(* One step of the model is one step of the recursion: into a child, over  *)
(* a provider call, through the arm that ends the walk, and, after a       *)
(* removal, back up through `normalize` at every ancestor.  `Trie` is not  *)
(* shared, so one call runs at a time; what interleaves with it is what    *)
(* the provider answers.                                                   *)
(***************************************************************************)
EXTENDS TrieEdits

CONSTANTS
    Keys,          \* the keys callers use, as paths
    Backings,      \* the complete tries a partial trie may be cut from
    ProviderMay    \* what the provider may do besides answer: "miss", "corrupt"

ASSUME KeysAssumption == Keys \subseteq Path /\ Keys # {}
ASSUME BackingsAssumption ==
    \A S \in Backings :
        /\ DOMAIN S \subseteq Path /\ IsFiniteSet(DOMAIN S)
        /\ S \in [DOMAIN S -> Node({})]
        /\ WellFormed(S)
ASSUME ProviderAssumption == ProviderMay \subseteq {"miss", "corrupt"}

VARIABLES
    backing,   \* the complete trie behind the provider, fixed for a behaviour
    trie,      \* the nodes that `root` owns, or the call in flight took from it
    call,      \* the call in flight, or the last one
    pc,        \* "idle", "walk", "normalize" or "unwind"
    pos,       \* path_so_far: the position of the node at hand
    out,       \* what the last call returned
    want,      \* history: the bindings that the calls returning Ok add up to
    lost       \* history: an insert or a remove has returned Err

vars == <<backing, trie, call, pc, pos, out, want, lost>>

Request ==
    [op : {"insert"}, key : Keys, value : Value]
      \cup [op : {"get", "remove"}, key : Keys, value : {NoValue}]

(* Ok(answer), or Err naming the hash and path of the node that is missing  *)
(* or the hash of which the provider's bytes failed to match.               *)
Nothing == [status |-> "none"]
Ok(answer) == [status |-> "ok", answer |-> answer]
(* MUTANT: the error leaves out the last nibble of the path. *)
MissingNodeParent(hash, path) ==
    [status |-> "missing", hash |-> hash, path |-> Take(path, Len(path) - 1)]

MissingNode(hash, path) == [status |-> "missing", hash |-> hash, path |-> path]
HashMismatch(hash) == [status |-> "mismatch", hash |-> hash]

-----------------------------------------------------------------------------

(* A full trie is the partial one cut with every hash known.               *)
Init ==
    /\ backing \in Backings
    /\ \E nodes \in SUBSET HashesOf(backing) : trie = build_partial(nodes, backing)
    /\ call = [op |-> "get", key |-> CHOOSE k \in Keys : TRUE, value |-> NoValue]
    /\ pc = "idle"
    /\ pos = <<>>
    /\ out = Nothing
    /\ want = Contents(backing)
    /\ lost = FALSE

-----------------------------------------------------------------------------
(* Starting, walking and returning *)

suffix == Drop(call.key, Len(pos))

At(type) == pc = "walk" /\ Is(trie, pos, type)

(* insert and remove take the root out of the trie and leave Null there;    *)
(* nobody sees that Null unless the call fails, see Fail.                   *)
Call(request) ==
    /\ pc = "idle"
    /\ call' = request
    /\ pc' = "walk"
    /\ pos' = <<>>
    /\ out' = Nothing
    /\ UNCHANGED <<backing, trie, want, lost>>

Return(answer, T) ==
    /\ trie' = T
    /\ out' = Ok(answer)
    /\ pc' = "idle"
    /\ UNCHANGED <<backing, call, pos, lost>>

(* The `?` of insert_with and remove_with: the tree they took out of the    *)
(* trie is dropped with the error, and the Null left in its place stays.    *)
(* A get works on the trie where it is.                                     *)
Fail(error) ==
    /\ out' = error
    /\ pc' = "idle"
    /\ trie' = IF call.op = "get" THEN trie ELSE Null
    /\ lost' = (lost \/ call.op # "get")
    /\ UNCHANGED <<backing, call, pos, want>>

Descend(p) ==
    /\ pos' = p
    /\ UNCHANGED <<backing, trie, call, pc, out, want, lost>>

(* MUTANT: the walk follows a Skip without comparing its path. *)
DescendSkipBlindly == At("skip") /\ Descend(pos \o trie[pos].path)

DescendSkip ==
    /\ At("skip")
    /\ starts_with(suffix, trie[pos].path)
    /\ Descend(pos \o trie[pos].path)

DescendFork ==
    /\ At("fork")
    /\ suffix # <<>>
    /\ Head(suffix) \in Children(trie, pos)
    /\ Descend(Append(pos, Head(suffix)))

-----------------------------------------------------------------------------
(* The provider *)

None == [found |-> FALSE]
Some(hash) == [found |-> TRUE, hash |-> hash]

(* The bytes a provider can return for a request, told by what they hash    *)
(* to.  It keys on the path, as reth does; asked for the node of the        *)
(* backing trie at its own place, one that keys on the hash answers alike.  *)
Answers(p) ==
    {IF p \in Hashed(backing) THEN Some(Subtree(backing, p)) ELSE None}
      \cup {None : x \in ProviderMay \cap {"miss"}}
      \cup {Some(Null) : x \in ProviderMay \cap {"corrupt"}}

resolve_stub(p) ==
    \E answer \in Answers(p) :
        \/ /\ ~answer.found
           /\ Fail(MissingNode(trie[p].hash, p))
        \/ /\ answer.found
           /\ answer.hash # trie[p].hash
           /\ Fail(HashMismatch(trie[p].hash))
        \/ /\ answer.found
           /\ answer.hash = trie[p].hash
           /\ trie' = Graft(trie, p, decode_node({}, trie[p].hash))
           /\ UNCHANGED <<backing, call, pc, pos, out, want, lost>>

Resolve == At("stub") /\ resolve_stub(pos)

-----------------------------------------------------------------------------
(* get_at *)

Answer(value) ==
    /\ call.op = "get"
    /\ Return(value, trie)
    /\ UNCHANGED want

GetNull == pc = "walk" /\ trie = Null /\ Answer(NoValue)

(* MUTANT: a Leaf answers for every key whose walk ends there. *)
GetAnyLeaf == At("leaf") /\ Answer(trie[pos].value)

GetLeaf ==
    /\ At("leaf")
    /\ Answer(IF trie[pos].path = suffix THEN trie[pos].value ELSE NoValue)

GetSkip == At("skip") /\ ~starts_with(suffix, trie[pos].path) /\ Answer(NoValue)

GetForkValue == At("fork") /\ suffix = <<>> /\ Answer(trie[pos].value)

GetForkChild ==
    /\ At("fork")
    /\ suffix # <<>>
    /\ Head(suffix) \notin Children(trie, pos)
    /\ Answer(NoValue)

get_at == GetNull \/ GetLeaf \/ GetSkip \/ GetForkValue \/ GetForkChild

-----------------------------------------------------------------------------
(* insert_at *)

Inserted(T) ==
    /\ call.op = "insert"
    /\ Return(NoValue, T)
    /\ want' = Put(want, call.key, call.value)

InsertNull ==
    pc = "walk" /\ trie = Null /\ Inserted(Put(Null, <<>>, Leaf(suffix, call.value)))

InsertLeaf ==
    /\ At("leaf")
    /\ trie[pos].path = suffix
    /\ Inserted(Put(trie, pos, Leaf(suffix, call.value)))

InsertSplitLeaf ==
    /\ At("leaf")
    /\ trie[pos].path # suffix
    /\ Inserted(SplitLeaf(trie, pos, suffix, call.value))

InsertSplitSkip ==
    /\ At("skip")
    /\ ~starts_with(suffix, trie[pos].path)
    /\ Inserted(SplitSkip(trie, pos, suffix, call.value))

InsertForkValue ==
    At("fork") /\ suffix = <<>> /\ Inserted(Put(trie, pos, Fork(call.value)))

InsertForkChild ==
    /\ At("fork")
    /\ suffix # <<>>
    /\ Head(suffix) \notin Children(trie, pos)
    /\ Inserted(Hang(trie, pos, suffix, call.value))

insert_at ==
    \/ InsertNull \/ InsertLeaf \/ InsertSplitLeaf
    \/ InsertSplitSkip \/ InsertForkValue \/ InsertForkChild

-----------------------------------------------------------------------------
(* remove_at *)

(* Nothing bound to the key: removed = false, and no ancestor is touched.   *)
RemoveAbsent ==
    /\ call.op = "remove"
    /\ \/ pc = "walk" /\ trie = Null
       \/ At("leaf") /\ trie[pos].path # suffix
       \/ At("skip") /\ ~starts_with(suffix, trie[pos].path)
       \/ At("fork") /\ suffix = <<>> /\ trie[pos].value = NoValue
       \/ At("fork") /\ suffix # <<>> /\ Head(suffix) \notin Children(trie, pos)
    /\ Return(FALSE, trie)
    /\ UNCHANGED want

Edit(T, phase) ==
    /\ call.op = "remove"
    /\ trie' = T
    /\ pc' = phase
    /\ UNCHANGED <<backing, call, out, want, lost>>

RemoveLeaf ==
    /\ At("leaf")
    /\ trie[pos].path = suffix
    /\ Edit(Cut(trie, {pos}), "unwind")
    /\ UNCHANGED pos

RemoveForkValue ==
    /\ At("fork")
    /\ suffix = <<>>
    /\ trie[pos].value # NoValue
    /\ Edit(Put(trie, pos, Fork(NoValue)), "normalize")
    /\ UNCHANGED pos

(* MUTANT: a node is normalized again and again, its parent never. *)
UnwindInPlace == pc = "unwind" /\ pos # <<>> /\ Edit(trie, "normalize") /\ UNCHANGED pos

(* Back in the frame of the parent, which normalizes itself next.           *)
Unwind ==
    /\ pc = "unwind"
    /\ \E q \in DOMAIN trie :
          /\ IsParent(trie, q, pos)
          /\ Edit(trie, "normalize")
          /\ pos' = q

RemoveReturns ==
    /\ pc = "unwind"
    /\ pos = <<>>
    /\ Return(TRUE, trie)
    /\ want' = Cut(want, {call.key})

(* A Fork about to collapse into a Stub needs it resolved: whether its last *)
(* child is a Leaf, a Skip or a Fork decides how the two are merged.        *)
ResolveSibling ==
    /\ pc = "normalize"
    /\ Collapses(trie, pos)
    /\ Is(trie, OnlyChild(trie, pos), "stub")
    /\ resolve_stub(OnlyChild(trie, pos))

Normalize ==
    /\ pc = "normalize"
    /\ ~(Collapses(trie, pos) /\ Is(trie, OnlyChild(trie, pos), "stub"))
    /\ Edit(normalize(trie, pos), "unwind")
    /\ UNCHANGED pos

remove_at ==
    \/ RemoveAbsent \/ RemoveLeaf \/ RemoveForkValue
    \/ Unwind \/ ResolveSibling \/ Normalize \/ RemoveReturns

-----------------------------------------------------------------------------

(* The Stub that a walk, or a collapse, is about to resolve. *)
Asked == IF pc = "normalize" THEN OnlyChild(trie, pos) ELSE pos

(* The steps of a call that ask the provider for nothing. *)
Walking ==
    DescendSkip \/ DescendFork \/ get_at \/ insert_at \/ RemoveAbsent
      \/ RemoveLeaf \/ RemoveForkValue \/ Unwind \/ Normalize \/ RemoveReturns

Running == DescendSkip \/ DescendFork \/ Resolve \/ get_at \/ insert_at \/ remove_at

Calls ==
    \E k \in Keys :
        \/ \E v \in Value : Call([op |-> "insert", key |-> k, value |-> v])
        \/ Call([op |-> "get", key |-> k, value |-> NoValue])
        \/ Call([op |-> "remove", key |-> k, value |-> NoValue])

Next == Calls \/ Running

Spec == Init /\ [][Next]_vars

(* A call that has begun runs to its end; whether another is made is up to  *)
(* the caller.                                                              *)
FairSpec == Spec /\ WF_vars(Running)

-----------------------------------------------------------------------------
(* Properties *)

(* The variables have their types: the hashes in the trie are those of the  *)
(* backing trie, and the node at hand lies on the way to the key.           *)
TypeOK ==
    /\ trie \in [DOMAIN trie -> Node(SubtreesOf(backing))]
    /\ DOMAIN trie \subseteq Path
    /\ call \in Request
    /\ pc \in {"idle", "walk", "normalize", "unwind"}
    /\ pos \in Path
    /\ pc # "idle" => starts_with(call.key, pos)

(* The node that a removal has just rebuilt and not normalized yet.         *)
Pending ==
    CASE pc = "normalize" -> {pos}
      [] pc = "unwind" -> {q \in DOMAIN trie : IsParent(trie, q, pos)}
      [] OTHER -> {}

(* After every step of every call the tree has the shape that debug_check   *)
(* asserts, except at the one node that a removal is about to normalize:    *)
(* Forks with two occupants, Skips that lead somewhere, nothing dangling.   *)
Shape == WellFormedBut(trie, Pending)

(* A Stub never moves: splitting a Skip, collapsing a Fork and merging      *)
(* Skips leave it at the place its node has in the backing trie, so a       *)
(* provider that looks nodes up by path still finds it.  And it stands for  *)
(* a node that its parent refers to by hash, never for one to be inlined.   *)
StubsInPlace ==
    \A p \in StubsOf(trie) :
        p \in Hashed(backing) /\ trie[p].hash = Subtree(backing, p)

(* Between calls the root is that of a trie built afresh from the bindings: *)
(* no order of inserts, removals and resolutions leaves a trace.  `hash`,   *)
(* on which callers rely, gives it once the root itself is loaded.          *)
RootCommits ==
    pc = "idle" /\ ~lost =>
        /\ node_root(trie) = Canonical(want)
        /\ ~Is(trie, <<>>, "stub") => trie_hash(trie) = Canonical(want)

(* While no call has failed, a get answers what the calls before it left.   *)
AnswersTrue ==
    pc = "idle" /\ ~lost /\ call.op = "get" /\ out.status = "ok" =>
        out.answer = IF call.key \in DOMAIN want THEN want[call.key] ELSE NoValue

(* An error names the node that is missing, by its place and its hash, and  *)
(* that node is on the way to the key or the sibling of one that is.        *)
ErrNamesNode ==
    out.status = "missing" =>
        /\ out.path \in Hashed(backing)
        /\ out.hash = Subtree(backing, out.path)
        /\ \/ starts_with(call.key, out.path)
           \/ /\ call.op = "remove"
              /\ starts_with(call.key, Take(out.path, Len(out.path) - 1))

(* One removal collapses at most one Fork.  What a removal takes away whole *)
(* is a Leaf, never a Fork or what a Skip leads to; and once the walk back  *)
(* has a surviving node in hand every Fork is crowded again, so none of the *)
(* ancestors can collapse in its turn.                                      *)
OneCollapse ==
    /\ pc = "normalize" /\ Is(trie, pos, "fork") =>
          trie[pos].value # NoValue \/ Children(trie, pos) # {}
    /\ pc = "normalize" /\ Is(trie, pos, "skip") => pos \o trie[pos].path \in DOMAIN trie
    /\ pc = "unwind" /\ pos \in DOMAIN trie => ForksCrowded(trie, {})

(* A call that has begun returns. *)
CallsReturn == pc # "idle" ~> pc = "idle"

(* What the documentation says and the code does not do.                    *)

(* trie.rs:143: "`Ok(None)` means confirmed absent".  A get that answers    *)
(* None is for a key that no call has left bound.                           *)
ConfirmedAbsent ==
    pc = "idle" /\ call.op = "get" /\ out = Ok(NoValue) => call.key \notin DOMAIN want

(* PTRIE.md:135: "a trie containing Stubs still produces the correct root". *)
HashIsRoot == pc = "idle" /\ ~lost => trie_hash(trie) = Canonical(want)

(* The bindings that the nodes add up to, loaded or not, change as a map    *)
(* does: once per insert and per effective removal, and with no walk,       *)
(* resolution, collapse or merge.  An insert or a removal that fails loses  *)
(* all of them, a get none.                                                 *)
Promise == INSTANCE AuthMap WITH
    Losing <- {"insert", "remove"},
    map <- Contents(Expand(trie)),
    request <- call,
    stage <- IF pc = "idle" THEN "idle" ELSE IF pc = "walk" THEN "called" ELSE "applied",
    reply <- out

ImplementsAuthMap == Promise!Spec

=============================================================================
