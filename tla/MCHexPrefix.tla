---------------------------- MODULE MCHexPrefix ----------------------------
(***************************************************************************)
(* HexPrefix on all paths of up to four nibbles of a few kinds, one of     *)
(* them out of range, on all strings of one byte, and on strings of two or *)
(* three whose first byte takes each value.                                *)
(***************************************************************************)
EXTENDS HexPrefix

Some == {0, 1, 2, 15, 16}
SomePaths == UNION {[1..n -> Some] : n \in 0..4}

SomeStrings ==
    {<<>>} \cup {<<b>> : b \in Byte}
      \cup {<<b, c>> : b \in Byte, c \in {0, 16, 255}}
      \cup {<<b, c, d>> : b \in 0..63, c \in {0, 1}, d \in {0, 33}}
=============================================================================
