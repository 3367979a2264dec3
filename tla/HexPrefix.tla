----------------------------- MODULE HexPrefix -----------------------------
(***************************************************************************)
(* The codec of paths: bytes to nibbles and back, and the hex-prefix form  *)
(* in which a node stores its path with a flag for its kind.  A string of  *)
(* the model is encoded or decoded in one step each, as the Rust functions *)
(* keep no state.                                                          *)
(***************************************************************************)
EXTENDS NibblePaths, TLC

CONSTANTS
    Paths,      \* what is given as nibbles, valid or not
    Strings     \* what is given as bytes

Byte == 0..255

ASSUME PathsAssumption == \A p \in Paths : p \in Seq(Byte)
ASSUME StringsAssumption == \A s \in Strings : s \in Seq(Byte)

VARIABLES
    op,         \* the function called last
    given,      \* its arguments
    result      \* what it returned

vars == <<op, given, result>>

Ok(value) == [status |-> "ok", value |-> value]
Err(why) == [status |-> why]

-----------------------------------------------------------------------------

to_nibbles(bytes) ==
    [i \in 1..2 * Len(bytes) |->
        LET b == bytes[(i + 1) \div 2] IN IF i % 2 = 1 THEN b \div 16 ELSE b % 16]

from_nibbles(nibbles) ==
    IF Len(nibbles) % 2 = 1 THEN Err("OddNibbleLength")
    ELSE IF \E i \in DOMAIN nibbles : nibbles[i] > 15 THEN Err("InvalidNibble")
    ELSE Ok([i \in 1..Len(nibbles) \div 2 |-> 16 * nibbles[2 * i - 1] + nibbles[2 * i]])

Flag(is_leaf, odd) == (IF is_leaf THEN 2 ELSE 0) + (IF odd THEN 1 ELSE 0)

(* MUTANT: the pad nibble repeats the flag. *)
EncodeUnpadded(path, is_leaf) ==
    LET odd == Len(path) % 2 = 1
        flag == Flag(is_leaf, odd)
    IN from_nibbles((IF odd THEN <<flag>> ELSE <<flag, flag>>) \o path).value

(* Flag, pad for an even path, path.  `expect` is never in vain: what is    *)
(* packed has even length and, for the path of a node, nibbles only.        *)
hex_prefix_encode(path, is_leaf) ==
    LET odd == Len(path) % 2 = 1
        flag == Flag(is_leaf, odd)
    IN from_nibbles((IF odd THEN <<flag>> ELSE <<flag, 0>>) \o path).value

(* MUTANT: whatever pads an even path is skipped. *)
DecodeAnyPad(encoded) ==
    LET nibbles == to_nibbles(encoded)
        flag == nibbles[1]
        rest == Tail(nibbles)
        is_leaf == (flag \div 2) % 2 = 1
    IN IF nibbles = <<>> THEN Err("EmptyHexPrefix")
       ELSE IF flag > 3 THEN Err("InvalidHexPrefixFlag")
       ELSE IF flag % 2 = 1 THEN Ok([path |-> rest, is_leaf |-> is_leaf])
       ELSE Ok([path |-> Tail(rest), is_leaf |-> is_leaf])

hex_prefix_decode(encoded) ==
    LET nibbles == to_nibbles(encoded)
        flag == nibbles[1]
        rest == Tail(nibbles)
        is_leaf == (flag \div 2) % 2 = 1
    IN IF nibbles = <<>> THEN Err("EmptyHexPrefix")
       ELSE IF flag > 3 THEN Err("InvalidHexPrefixFlag")
       ELSE IF flag % 2 = 1 THEN Ok([path |-> rest, is_leaf |-> is_leaf])
       ELSE IF rest[1] = 0 THEN Ok([path |-> Tail(rest), is_leaf |-> is_leaf])
       ELSE Err("NonZeroHexPrefixPad")

-----------------------------------------------------------------------------

Called(name, argument, answer) ==
    /\ op' = name
    /\ given' = argument
    /\ result' = answer

Init == op = "none" /\ given = <<>> /\ result = Err("none")

Pack == op = "none" /\ \E p \in Paths : Called("pack", p, from_nibbles(p))

Unpack == op = "none" /\ \E s \in Strings : Called("unpack", s, Ok(to_nibbles(s)))

Encode ==
    /\ op = "none"
    /\ \E p \in Paths \cap Path, is_leaf \in BOOLEAN :
          Called("encode", [path |-> p, is_leaf |-> is_leaf], Ok(hex_prefix_encode(p, is_leaf)))

Decode == op = "none" /\ \E s \in Strings : Called("decode", s, hex_prefix_decode(s))

Next == Pack \/ Unpack \/ Encode \/ Decode

Spec == Init /\ [][Next]_vars

-----------------------------------------------------------------------------
(* Properties *)

(* What is packed comes back from its bytes, and only what is no byte       *)
(* string is refused; a node's path and kind come back from its encoding,   *)
(* which has the length that decides, in TrieNodes, on inlining it.         *)
PathComesBack ==
    /\ op = "unpack" => from_nibbles(result.value) = Ok(given)
    /\ op = "pack" /\ result.status = "ok" => to_nibbles(result.value) = given
    /\ op = "pack" => (result.status = "ok") = (given \in Path /\ Len(given) % 2 = 0)
    /\ op = "encode" =>
          /\ hex_prefix_decode(result.value) = Ok(given)
          /\ Len(result.value) = 1 + Len(given.path) \div 2

(* What is decoded is just what would be encoded: two strings never stand   *)
(* for the same path, which would be two hashes for the same node.          *)
OnePathOneString ==
    op = "decode" /\ result.status = "ok" =>
        hex_prefix_encode(result.value.path, result.value.is_leaf) = given

=============================================================================
