---------------------------- MODULE MCTrieProofs ----------------------------
(***************************************************************************)
(* TrieProofs with values whose Leaf takes 31 or 32 bytes, short ones, and *)
(* one without bytes; with keys of which one is a prefix of another.       *)
(***************************************************************************)
EXTENDS TrieProofs, TLC

CONSTANTS empty, tiny, fits, over

(* A Leaf with a path of at most one nibble takes two bytes more than its   *)
(* value's RLP: with `fits` it is inlined, with `over` it is just too long. *)
MCValue == {empty, tiny, fits, over}
MCValueLen == empty :> 1 @@ tiny :> 1 @@ fits :> 29 @@ over :> 30

k00 == <<0, 0>>
k01 == <<0, 1>>
k0000 == <<0, 0, 0, 0>>
k0001 == <<0, 0, 0, 1>>
k10 == <<1, 0>>
k1000 == <<1, 0, 0, 0>>

AskedKeys == {k00, k01, k0000, k0001, k10, k1000, <<2, 0>>}

All(keys, v) == [k \in keys |-> v]

ProvedBackings ==
    {Canonical(b) : b \in {
        All({k0000, k10}, tiny) @@ All({k01, k0001}, over),
        All({k00, k0001}, fits) @@ All({k0000, k10}, over),
        All({k0000, k0001}, over) @@ All({k00}, empty),
        All({k0000, k0001}, tiny),
        All({k10}, over),
        All({}, over)}}
=============================================================================
