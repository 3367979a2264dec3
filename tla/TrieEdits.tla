----------------------------- MODULE TrieEdits -----------------------------
(***************************************************************************)
(* What the calls of PartialTrie do to the tree, each edit as an operator  *)
(* on trees: a node grafted in place of its Stub, a Leaf or a Skip split   *)
(* by a new key, a node normalized after a removal below it.               *)
(***************************************************************************)
EXTENDS TrieNodes

-----------------------------------------------------------------------------
(* Resolving *)

(* The tree with the Stub at p replaced by the decoded node; below it       *)
(* nothing is loaded but what the node carries inline.                      *)
Graft(T, p, S) ==
    [q \in DOMAIN T \cup {p \o r : r \in DOMAIN S} |->
        IF starts_with(q, p) THEN S[Drop(q, Len(p))] ELSE T[q]]

-----------------------------------------------------------------------------
(* Inserting *)

(* A Leaf for what is left of a path below p, past the nibble that leads    *)
(* out of p; a path that ends at p hangs nothing.                           *)
Hang(T, p, rest, value) ==
    IF rest = <<>> THEN T ELSE Put(T, Append(p, Head(rest)), Leaf(Tail(rest), value))

(* The node at p gives way to a Fork `common` nibbles along `path`, behind  *)
(* a Skip unless the Fork is at p itself.                                   *)
skip_or(T, p, common, fork) ==
    IF common = <<>> THEN Put(T, p, fork)
    ELSE Put(Put(T, p, Skip(common)), p \o common, fork)

(* MUTANT: the Fork's slot goes to the wrong one of the two keys. *)
SplitLeafSwapped(T, p, rest, value) ==
    LET old == T[p]
        n == common_prefix_len(old.path, rest)
        base == p \o Take(rest, n)
        forked == skip_or(T, p, Take(rest, n), Fork(IF Drop(rest, n) = <<>> THEN old.value
                            ELSE IF Drop(old.path, n) = <<>> THEN value ELSE NoValue))
    IN Hang(Hang(forked, base, Drop(rest, n), value), base, Drop(old.path, n), old.value)

(* A key that parts from the Leaf at p: both hang off a new Fork, unless    *)
(* one of them ends right there and takes the Fork's slot.                  *)
SplitLeaf(T, p, rest, value) ==
    LET old == T[p]
        n == common_prefix_len(old.path, rest)
        base == p \o Take(rest, n)
        oldRest == Drop(old.path, n)
        newRest == Drop(rest, n)
        slot == IF newRest = <<>> THEN value
                ELSE IF oldRest = <<>> THEN old.value ELSE NoValue
        forked == skip_or(T, p, Take(rest, n), Fork(slot))
    IN Hang(Hang(forked, base, newRest, value), base, oldRest, old.value)

(* MUTANT: what is left of the Skip's path is forgotten, the child moves up. *)
SplitSkipShort(T, p, rest, value) ==
    LET path == T[p].path
        n == common_prefix_len(path, rest)
        base == p \o Take(rest, n)
        kept == {q \in DOMAIN T : ~starts_with(q, p \o path)}
        up == Graft(Cut(T, DOMAIN T \ kept), Append(base, path[n + 1]), Subtree(T, p \o path))
        newRest == Drop(rest, n)
    IN Hang(skip_or(up, p, Take(rest, n), Fork(IF newRest = <<>> THEN value ELSE NoValue)),
            base, newRest, value)

(* A key that parts from the Skip at p: its child stays where it is, what   *)
(* is left of its path leads there from a new Fork.                         *)
SplitSkip(T, p, rest, value) ==
    LET path == T[p].path
        n == common_prefix_len(path, rest)
        base == p \o Take(rest, n)
        newRest == Drop(rest, n)
        slot == IF newRest = <<>> THEN value ELSE NoValue
        forked == skip_or(T, p, Take(rest, n), Fork(slot))
        oldRest == Drop(path, n + 1)
        led == IF oldRest = <<>> THEN forked
               ELSE Put(forked, Append(base, path[n + 1]), Skip(oldRest))
    IN Hang(led, base, newRest, value)

-----------------------------------------------------------------------------
(* Removing *)

(* `path` put in front of the node below p that it leads to, at p: a Leaf   *)
(* and a Skip take it into their own path, a Fork gets a Skip of its own.   *)
(* `prepend` does this to the last child of a Fork, `normalize` to the      *)
(* child of a Skip.                                                         *)
prepend(T, p, path) ==
    LET c == p \o path
    IN CASE c \notin DOMAIN T -> Cut(T, {p})
         [] Is(T, c, "leaf") -> Put(Cut(T, {c}), p, Leaf(path \o T[c].path, T[c].value))
         [] Is(T, c, "skip") -> Put(Cut(T, {c}), p, Skip(path \o T[c].path))
         [] OTHER -> Put(T, p, Skip(path))

(* The Fork at p has a single child and no value. *)
Collapses(T, p) ==
    Is(T, p, "fork") /\ T[p].value = NoValue /\ \E n \in Nibble : Children(T, p) = {n}

OnlyNibble(T, p) == CHOOSE n \in Nibble : Children(T, p) = {n}
OnlyChild(T, p) == Append(p, OnlyNibble(T, p))

(* MUTANTS: no merge of a Skip with what it leads to; no collapse of a Fork *)
(* with one child; no Leaf in place of a Fork with nothing but its value.   *)
NormalizeNoMerge(T, p) ==
    IF Is(T, p, "fork") /\ Children(T, p) = {} THEN Put(T, p, Leaf(<<>>, T[p].value))
    ELSE IF Collapses(T, p) THEN prepend(T, p, <<OnlyNibble(T, p)>>) ELSE T
NormalizeNoCollapse(T, p) == IF Is(T, p, "skip") THEN prepend(T, p, T[p].path) ELSE T
NormalizeNoLeaf(T, p) ==
    IF Collapses(T, p) THEN prepend(T, p, <<OnlyNibble(T, p)>>)
    ELSE IF Is(T, p, "skip") THEN prepend(T, p, T[p].path) ELSE T

normalize(T, p) ==
    CASE Is(T, p, "fork") /\ Children(T, p) = {} ->
           IF T[p].value = NoValue THEN Cut(T, {p}) ELSE Put(T, p, Leaf(<<>>, T[p].value))
      [] Collapses(T, p) -> prepend(T, p, <<OnlyNibble(T, p)>>)
      [] Is(T, p, "skip") -> prepend(T, p, T[p].path)
      [] OTHER -> T

=============================================================================
