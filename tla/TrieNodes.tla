----------------------------- MODULE TrieNodes -----------------------------
(***************************************************************************)
(* The nodes of the trie, laid out flat.                                   *)
(*                                                                         *)
(* The Rust tree of Box<Node> is a function from the ABSOLUTE position of  *)
(* a node (the nibbles on the way from the root to it) to the node.  A     *)
(* Fork's children are then the nodes one nibble below it, a Skip's child  *)
(* the node at the end of its path, and Null is the tree without nodes.    *)
(*                                                                         *)
(* Hashing is ideal: a hash IS the complete tree it commits to, so that    *)
(* two hashes are equal exactly when the trees are.  A Stub stands for a   *)
(* tree that is not loaded and holds its hash, that is, the whole tree.    *)
(***************************************************************************)
EXTENDS NibblePaths, FiniteSets, FiniteSetsExt

CONSTANTS
    Value,      \* values a key can be bound to, none of them empty
    NoValue,    \* None of Rust's Option: no value in a Fork's slot, no answer
    ValueLen    \* how many bytes the RLP string of a value takes

ASSUME NoValueAssumption == NoValue \notin Value
ASSUME ValueLenAssumption == ValueLen \in [Value -> Nat \ {0}]

-----------------------------------------------------------------------------
(* Nodes *)

Leaf(path, value) == [type |-> "leaf", path |-> path, value |-> value]
Skip(path) == [type |-> "skip", path |-> path]
Fork(value) == [type |-> "fork", value |-> value]
Stub(hash) == [type |-> "stub", hash |-> hash]

(* The nodes of a tree whose stubs carry hashes of the set H. *)
Node(H) ==
    [type : {"leaf"}, path : Path, value : Value]
      \cup [type : {"skip"}, path : Path]
      \cup [type : {"fork"}, value : Value \cup {NoValue}]
      \cup [type : {"stub"}, hash : H]

Null == [p \in {} |-> NoValue]

Is(T, p, type) == p \in DOMAIN T /\ T[p].type = type

(* T with a node put at p, and T without the nodes at the positions P. *)
Put(T, p, node) == [q \in DOMAIN T \cup {p} |-> IF q = p THEN node ELSE T[q]]
Cut(T, P) == [q \in DOMAIN T \ P |-> T[q]]

-----------------------------------------------------------------------------
(* Shape *)

(* The nibbles under which a Fork has a child. *)
Children(T, p) == {n \in Nibble : Append(p, n) \in DOMAIN T}

(* fork_occupancy is at least 2, told without counting. *)
Crowded(T, p) ==
    \/ \E m, n \in Nibble : m # n /\ {m, n} \subseteq Children(T, p)
    \/ T[p].value # NoValue /\ Children(T, p) # {}

(* q is the node whose child sits at p. *)
IsParent(T, q, p) ==
    \/ Is(T, q, "fork") /\ \E n \in Nibble : p = Append(q, n)
    \/ Is(T, q, "skip") /\ p = q \o T[q].path

(* Every node hangs off its parent: whatever lies below a node lies at or   *)
(* below a child of it that is there, and leaves and stubs have none.  In   *)
(* the Rust tree this is what ownership gives; here an edit can break it.   *)
Connected(T) ==
    /\ T = Null \/ <<>> \in DOMAIN T
    /\ \A q, p \in DOMAIN T :
          Below(p, q) => \E c \in DOMAIN T : IsParent(T, q, c) /\ starts_with(p, c)

(* A Fork at p, loaded or not. *)
ForkAt(T, p) == Is(T, p, "fork") \/ (Is(T, p, "stub") /\ Is(T[p].hash, <<>>, "fork"))

(* The clauses of `debug_check`, with the positions of X exempted.  The     *)
(* Fork that a Skip leads to may be a Stub, which `debug_check` itself      *)
(* refuses, so that it panics on a partial trie with such a Skip.           *)
SkipsLead(T, X) ==
    \A p \in DOMAIN T :
        T[p].type = "skip" =>
            /\ T[p].path # <<>>
            /\ p \in X \/ ForkAt(T, p \o T[p].path)

ForksCrowded(T, X) == \A p \in DOMAIN T \ X : T[p].type = "fork" => Crowded(T, p)

WellFormedBut(T, X) == Connected(T) /\ SkipsLead(T, X) /\ ForksCrowded(T, X)

WellFormed(T) == WellFormedBut(T, {})

-----------------------------------------------------------------------------
(* Hashes *)

(* The subtree of T at p as a tree of its own. *)
Subtree(T, p) ==
    [r \in {Drop(q, Len(p)) : q \in {x \in DOMAIN T : starts_with(x, p)}} |-> T[p \o r]]

SubtreesOf(T) == {Subtree(T, p) : p \in DOMAIN T}

StubsOf(T) == {p \in DOMAIN T : T[p].type = "stub"}

(* T with every stub replaced by the tree it stands for: what T's root      *)
(* commits to.  This is `node_root`, the hash of the RLP encoding: a Stub   *)
(* is encoded as the hash its parent would hold for the loaded node.        *)
Expand(T) ==
    LET stubs == StubsOf(T)
        hidden == UNION {{p \o r : r \in DOMAIN T[p].hash} : p \in stubs}
        above(q) == CHOOSE p \in stubs : starts_with(q, p)
    IN [q \in (DOMAIN T \ stubs) \cup hidden |->
          IF q \in DOMAIN T \ stubs THEN T[q] ELSE T[above(q)].hash[Drop(q, Len(above(q)))]]

node_root(T) == Expand(T)

(* Trie::hash has no such case for the root: it hashes whatever bytes the   *)
(* encoding returns, and those of a bare Stub are the hash it holds.  The   *)
(* result is the hash of no tree; the unloaded root itself stands for it.   *)
trie_hash(T) == IF Is(T, <<>>, "stub") THEN T ELSE node_root(T)

(* The bindings of a tree without stubs, as a function from keys to values. *)
KeyAt(S, p) == IF S[p].type = "leaf" THEN p \o S[p].path ELSE p

Binding(S, p) == S[p].type = "leaf" \/ (S[p].type = "fork" /\ S[p].value # NoValue)

Contents(S) ==
    LET bindings == {p \in DOMAIN S : Binding(S, p)}
    IN [k \in {KeyAt(S, p) : p \in bindings} |->
          S[CHOOSE p \in bindings : KeyAt(S, p) = k].value]

-----------------------------------------------------------------------------
(* RLP lengths: a node of 32 bytes or more is referred to by its hash, a    *)
(* shorter one is spliced into its parent.                                  *)

StringLen(n) == IF n = 1 THEN 1 ELSE n + 1
ListLen(n) == IF n < 56 THEN n + 1 ELSE IF n < 256 THEN n + 2 ELSE n + 3
RefLen(n) == IF n < 32 THEN n ELSE 33

(* A path of n nibbles packs, after its flag, into 1 + n / 2 bytes. *)
HexPrefixLen(path) == StringLen(1 + Len(path) \div 2)

Total(f) == MapThenSumSet(LAMBDA x : f[x], DOMAIN f)

(* How many bytes the node at p takes, when those below take len[...].      *)
node_len(S, len, p) ==
    LET slots == [n \in Nibble |-> IF Append(p, n) \in DOMAIN S
                                   THEN RefLen(len[Append(p, n)])
                                   ELSE 1]
    IN CASE S[p].type = "leaf" ->
              ListLen(HexPrefixLen(S[p].path) + ValueLen[S[p].value])
         [] S[p].type = "skip" ->
              ListLen(HexPrefixLen(S[p].path) + RefLen(len[p \o S[p].path]))
         [] S[p].type = "fork" ->
              ListLen(Total(slots)
                        + IF S[p].value = NoValue THEN 1 ELSE ValueLen[S[p].value])
         [] S[p].type = "stub" -> 32

(* How many bytes the node at the root of S takes.                          *)
rlp_len(S) ==
    LET len[p \in DOMAIN S] == node_len(S, len, p)
    IN len[<<>>]

(* The positions whose node a parent refers to by hash, and their hashes. *)
Hashed(S) == {p \in DOMAIN S : p = <<>> \/ rlp_len(Subtree(S, p)) >= 32}
HashesOf(S) == {Subtree(S, p) : p \in Hashed(S)}

-----------------------------------------------------------------------------
(* Decoding *)

(* The node with hash S, decoded: inlined children come along, a child      *)
(* behind a hash is built in turn when `nodes` has it, else it is a Stub.   *)
decode_node(nodes, S) ==
    LET unknown == {p \in Hashed(S) \ {<<>>} : Subtree(S, p) \notin nodes}
    IN [p \in {q \in DOMAIN S : \A u \in unknown : ~Below(q, u)} |->
          IF p \in unknown THEN Stub(Subtree(S, p)) ELSE S[p]]

(* The empty tree is known from its hash alone; any other root that is not  *)
(* among the nodes becomes a bare Stub.                                     *)
build_partial(nodes, S) ==
    IF S = Null THEN Null
    ELSE IF S \in nodes THEN decode_node(nodes, S)
    ELSE Put(Null, <<>>, Stub(S))

-----------------------------------------------------------------------------
(* The one canonical tree with given bindings, as the yellow paper's        *)
(* recursion yields it, told without recursion: a Fork wherever two keys    *)
(* part, a Skip down to the next Fork, a Leaf for a key on its own.         *)

Meet(a, b) == Take(a, common_prefix_len(a, b))

Canonical(bindings) ==
    LET keys == DOMAIN bindings
        forks == UNION {{Meet(a, b) : b \in keys \ {a}} : a \in keys}
        under(p) == {k \in keys : starts_with(k, p)}
        \* where a subtree hangs: the root, and one nibble below a fork
        slots == {p \in {<<>>} : keys # {}} \cup
                 UNION {{Take(k, Len(f) + 1) : k \in under(f) \ {f}} : f \in forks}
        \* the first fork at or below a slot
        next(p) == CHOOSE f \in forks : starts_with(f, p) /\ under(f) = under(p)
        slotNode(p) ==
            IF \E k \in keys : under(p) = {k}
            THEN LET k == CHOOSE k \in keys : under(p) = {k}
                 IN Leaf(Drop(k, Len(p)), bindings[k])
            ELSE Skip(Drop(next(p), Len(p)))
        forkNode(p) == Fork(IF p \in keys THEN bindings[p] ELSE NoValue)
    IN [p \in slots \cup forks |-> IF p \in forks THEN forkNode(p) ELSE slotNode(p)]

=============================================================================
