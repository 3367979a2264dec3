----------------------------- MODULE MCExplorer -----------------------------
EXTENDS Explorer, TLC

Args(addresses, blocks, slots) == [address : addresses, block : blocks, slots : slots]

(* Two accounts at one block, the first of them also at the latest. *)
AnyFetch ==
    Args({"a", "b"}, {1}, {Slots}) \cup Args({"a"}, {1}, {{}}) \cup Args({"a"}, {Latest}, {Slots})

(* Block 2 changes in a both slots, the node beside t, and not the one      *)
(* beside s; b is another contract, and stays as it is with all its path.   *)
Changed(ctx) == ctx = <<"a", 2>>

TwoBlocks ==
    [ctx \in Addresses \X Blocks |->
        [slots |-> [s \in Slots |-> IF Changed(ctx) THEN 1 ELSE 0],
         nodes |-> [s \in Slots |-> IF Changed(ctx) /\ s = "t" THEN "a2" ELSE ctx[1]]]]

TwoPaths ==
    [ctx \in Addresses \X Blocks |->
        IF Changed(ctx) THEN "to a2" ELSE IF ctx[1] = "a" THEN "to a" ELSE "to b"]

=============================================================================
