--------------------------- MODULE MCBlockReplay ---------------------------
EXTENDS BlockReplay

CONSTANTS x, y, v

Both(leaf) == [a \in Addrs |-> leaf]

With(info, word) == [info |-> info, storage_root |-> [s \in Slots |-> word]]

(* States apart from each other in every account, in existence, info and    *)
(* storage, and one that differs from them in storage only.                *)
FewTries == {Both(Nothing), Both(With(x, Zero)), Both(With(x, v)), Both(With(y, Zero))}

=============================================================================
