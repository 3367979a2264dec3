--------------------------- MODULE MCRecording ---------------------------
(***************************************************************************)
(* Recording on keys of one length, as hashed keys are, and on blocks      *)
(* whose tries differ in a key and with it in shape.                       *)
(***************************************************************************)
EXTENDS Recording, TLC

CONSTANT large

MCValue == {large}
MCValueLen == large :> 33

HashedKeys == {<<0, 0, 0, 0>>, <<0, 0, 1, 2>>, <<0, 1, 1, 1>>}

AllLarge(keys) == [k \in keys |-> large]

Blocks == {Canonical(b) : b \in {AllLarge(HashedKeys),
                                 AllLarge(HashedKeys \ {<<0, 0, 1, 2>>}),
                                 AllLarge(HashedKeys \ {<<0, 1, 1, 1>>})}}
=============================================================================
