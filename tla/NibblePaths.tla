---------------------------- MODULE NibblePaths ----------------------------
(***************************************************************************)
(* Nibble paths: the positions of a hexary trie and the suffixes its walk  *)
(* carries.  `to_nibbles` turns a key of n bytes into a path of 2n         *)
(* nibbles; everything in the trie works on such paths.                    *)
(***************************************************************************)
EXTENDS Naturals, Sequences

Nibble == 0..15

Path == Seq(Nibble)

(* path[..n] and path[n..] of the Rust slices. *)
Take(path, n) == SubSeq(path, 1, n)
Drop(path, n) == SubSeq(path, n + 1, Len(path))

starts_with(path, prefix) ==
    /\ Len(prefix) <= Len(path)
    /\ Take(path, Len(prefix)) = prefix

(* `path` lies strictly below `prefix`. *)
Below(path, prefix) == starts_with(path, prefix) /\ path # prefix

(* The number of leading nibbles two paths share. *)
common_prefix_len(a, b) ==
    CHOOSE n \in 0..Len(a) :
        /\ n <= Len(b)
        /\ Take(a, n) = Take(b, n)
        /\ n < Len(a) /\ n < Len(b) => a[n + 1] # b[n + 1]

=============================================================================
