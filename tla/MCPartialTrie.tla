--------------------------- MODULE MCPartialTrie ---------------------------
(***************************************************************************)
(* PartialTrie on small instances: keys of one to three bytes, chosen so   *)
(* that every arm of the walks is taken, and two values, one that lets its *)
(* Leaf be inlined and one that does not.                                  *)
(***************************************************************************)
EXTENDS PartialTrie, TLC

CONSTANTS small, large

MCValue == {small, large}
MCValueLen == small :> 1 @@ large :> 33

(* Keys that part at the root, past a shared byte, which is a key itself in *)
(* NestedKeys, and further down, next to that place or past a Skip.         *)
k00 == <<0, 0>>
k10 == <<1, 0>>
k0000 == <<0, 0, 0, 0>>
k0001 == <<0, 0, 0, 1>>
k0010 == <<0, 0, 1, 0>>
k000000 == <<0, 0, 0, 0, 0, 0>>
k000010 == <<0, 0, 0, 0, 1, 0>>

TwoByteKeys == {k0000, k0001, k0010, k10}
NestedKeys == {k00, k0010, k000000, k000010}
FewKeys == {k0000, k0001, k10}

Small(keys) == [k \in keys |-> small]
Large(keys) == [k \in keys |-> large]

TwoByteBackings ==
    {Canonical(b) : b \in {Large(TwoByteKeys), Large({k0000, k0001}),
                           Small({k0000, k10}) @@ Large({k0001}), Small({})}}

NestedBackings ==
    {Canonical(b) : b \in {Small({k000000}) @@ Large({k000010, k0010}), Large(NestedKeys),
                           Small({})}}

FewBackings == {Canonical(b) : b \in {Large(FewKeys), Small({k0000, k10}) @@ Large({k0001})}}

=============================================================================
