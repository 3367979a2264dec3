-------------------------- MODULE HexPrefixProofs --------------------------
(***************************************************************************)
(* The codec of paths, for paths and strings of any length.  Packing and   *)
(* unpacking are inverse to each other, place by place; the flag, with the *)
(* pad that it calls for, makes every path one of even length, which can   *)
(* be packed, and is found again at the front.                             *)
(***************************************************************************)
EXTENDS HexPrefix, SequenceTheorems, TLAPS

-----------------------------------------------------------------------------
(* Packing *)

LEMMA Tabulated ==
    ASSUME NEW S, NEW n \in Nat, NEW f \in [1..n -> S]
    PROVE  f \in Seq(S) /\ Len(f) = n
<1>1. f \in Seq(S) /\ DOMAIN f = 1..n
  OBVIOUS
<1>. QED
  BY <1>1, LenProperties

LEMMA Even ==
    ASSUME NEW n \in Nat, n % 2 = 0
    PROVE  n \div 2 \in Nat /\ n = 2 * (n \div 2)
  OBVIOUS

(* Two nibbles to a byte. *)
Packed(p) == [i \in 1..Len(p) \div 2 |-> 16 * p[2 * i - 1] + p[2 * i]]

LEMMA PackedBytes ==
    ASSUME NEW p \in Path, Len(p) % 2 = 0
    PROVE  /\ from_nibbles(p) = Ok(Packed(p))
           /\ Packed(p) \in Seq(Byte) /\ 2 * Len(Packed(p)) = Len(p)
           /\ \A i \in 1..Len(p) \div 2 :
                 /\ 2 * i - 1 \in 1..Len(p) /\ 2 * i \in 1..Len(p)
                 /\ Packed(p)[i] = 16 * p[2 * i - 1] + p[2 * i]
<1>. DEFINE n == Len(p) \div 2
<1>1. Len(p) \in Nat /\ DOMAIN p = 1..Len(p) /\ \A i \in 1..Len(p) : p[i] \in Nibble
  BY LenProperties, ElementOfSeq DEF Path
<1>2. n \in Nat /\ Len(p) = 2 * n
  BY <1>1, Even
<1>. HIDE DEF n
<1>3. \A i \in 1..n : 2 * i - 1 \in 1..Len(p) /\ 2 * i \in 1..Len(p)
  BY <1>2
<1>4. ASSUME NEW i \in 1..n
      PROVE  16 * p[2 * i - 1] + p[2 * i] \in Byte
  <2>1. p[2 * i - 1] \in Nibble /\ p[2 * i] \in Nibble
    BY <1>1, <1>3
  <2>2. \A a, b \in Nibble : 16 * a + b \in Byte
    BY DEF Nibble, Byte
  <2>. QED
    BY <2>1, <2>2
<1>5. Packed(p) = [i \in 1..n |-> 16 * p[2 * i - 1] + p[2 * i]]
  BY DEF Packed, n
<1>6. Packed(p) \in [1..n -> Byte]
  BY <1>4, <1>5
<1>7. Packed(p) \in Seq(Byte) /\ Len(Packed(p)) = n
  BY <1>2, <1>6, Tabulated
<1>8. ~\E i \in DOMAIN p : p[i] > 15
  BY <1>1 DEF Nibble
<1>9. from_nibbles(p) = Ok(Packed(p))
  <2>1. Len(p) % 2 # 1
    OBVIOUS
  <2>. QED
    BY <1>8, <2>1 DEF from_nibbles, Packed
<1>10. \A i \in 1..n : Packed(p)[i] = 16 * p[2 * i - 1] + p[2 * i]
  BY <1>5
<1>. QED
  BY <1>2, <1>3, <1>7, <1>9, <1>10 DEF n

LEMMA Unpacked ==
    ASSUME NEW s \in Seq(Byte)
    PROVE  /\ to_nibbles(s) \in Path /\ Len(to_nibbles(s)) = 2 * Len(s)
           /\ Len(s) \in Nat
           /\ \A i \in 1..Len(s) :
                 /\ s[i] \in Byte
                 /\ to_nibbles(s)[2 * i - 1] = s[i] \div 16
                 /\ to_nibbles(s)[2 * i] = s[i] % 16
<1>. DEFINE n == 2 * Len(s)
            f == to_nibbles(s)
<1>1. Len(s) \in Nat /\ n \in Nat /\ \A i \in 1..Len(s) : s[i] \in Byte
  BY LenProperties, ElementOfSeq
<1>2. ASSUME NEW i \in 1..n
      PROVE  (i + 1) \div 2 \in 1..Len(s)
  BY <1>1
<1>3. f = [i \in 1..n |-> IF i % 2 = 1 THEN s[(i + 1) \div 2] \div 16 ELSE s[(i + 1) \div 2] % 16]
  BY DEF to_nibbles
<1>4. \A b \in Byte : b \div 16 \in Nibble /\ b % 16 \in Nibble
  BY DEF Byte, Nibble
<1>. HIDE DEF f
<1>5. f \in [1..n -> Nibble]
  BY <1>1, <1>2, <1>3, <1>4
<1>6. f \in Path /\ Len(f) = n
  BY <1>1, <1>5, Tabulated DEF Path
<1>7. ASSUME NEW i \in 1..Len(s)
      PROVE  f[2 * i - 1] = s[i] \div 16 /\ f[2 * i] = s[i] % 16
  <2>1. /\ 2 * i - 1 \in 1..n /\ (2 * i - 1) % 2 = 1 /\ ((2 * i - 1) + 1) \div 2 = i
        /\ 2 * i \in 1..n /\ (2 * i) % 2 # 1 /\ (2 * i + 1) \div 2 = i
    BY <1>1
  <2>. QED
    BY <1>3, <2>1
<1>. QED
  BY <1>1, <1>6, <1>7 DEF f

(* Unpacking undoes packing. *)
LEMMA PackUnpack ==
    ASSUME NEW p \in Path, Len(p) % 2 = 0
    PROVE  to_nibbles(Packed(p)) = p
<1>. DEFINE s == Packed(p)
            f == to_nibbles(s)
            n == Len(p) \div 2
<1>1. /\ s \in Seq(Byte) /\ 2 * Len(s) = Len(p)
      /\ \A i \in 1..n :
            /\ 2 * i - 1 \in 1..Len(p) /\ 2 * i \in 1..Len(p)
            /\ s[i] = 16 * p[2 * i - 1] + p[2 * i]
  BY PackedBytes
<1>. HIDE DEF s
<1>2. /\ f \in Path /\ Len(f) = Len(p) /\ Len(s) \in Nat
      /\ \A i \in 1..Len(s) : f[2 * i - 1] = s[i] \div 16 /\ f[2 * i] = s[i] % 16
  BY <1>1, Unpacked
<1>3. Len(p) \in Nat /\ n \in Nat /\ Len(p) = 2 * n /\ Len(s) = n
      /\ \A i \in 1..Len(p) : p[i] \in Nibble
  <2>1. Len(p) \in Nat /\ \A i \in 1..Len(p) : p[i] \in Nibble
    BY LenProperties, ElementOfSeq DEF Path
  <2>2. n \in Nat /\ Len(p) = 2 * n
    BY <2>1, Even
  <2>3. Len(s) = n
    <3>1. 2 * Len(s) = Len(p) /\ Len(s) \in Nat
      BY <1>1, <1>2
    <3>. HIDE DEF f, n
    <3>. QED
      BY <2>2, <3>1
  <2>. QED
    BY <2>1, <2>2, <2>3
<1>. HIDE DEF f, n
<1>4. ASSUME NEW i \in 1..n
      PROVE  f[2 * i - 1] = p[2 * i - 1] /\ f[2 * i] = p[2 * i]
  <2>1. p[2 * i - 1] \in Nibble /\ p[2 * i] \in Nibble
    BY <1>1, <1>3
  <2>2. \A a, b \in Nibble : (16 * a + b) \div 16 = a /\ (16 * a + b) % 16 = b
    BY DEF Nibble
  <2>3. s[i] = 16 * p[2 * i - 1] + p[2 * i]
    BY <1>1
  <2>4. f[2 * i - 1] = s[i] \div 16 /\ f[2 * i] = s[i] % 16
    BY <1>2, <1>3
  <2>. QED
    BY <2>1, <2>2, <2>3, <2>4
<1>5. ASSUME NEW j \in 1..Len(p)
      PROVE  \E i \in 1..n : j = 2 * i - 1 \/ j = 2 * i
  <2>1. CASE j % 2 = 0
    <3>1. j \div 2 \in 1..n /\ j = 2 * (j \div 2)
      BY <1>3, <2>1
    <3>. QED
      BY <3>1
  <2>2. CASE j % 2 = 1
    <3>1. (j + 1) \div 2 \in 1..n /\ j = 2 * ((j + 1) \div 2) - 1
      BY <1>3, <2>2
    <3>. QED
      BY <3>1
  <2>. QED
    BY <1>3, <2>1, <2>2
<1>6. \A j \in 1..Len(p) : f[j] = p[j]
  BY <1>4, <1>5
<1>7. f = p
  BY <1>2, <1>6, SeqEqual DEF Path
<1>. QED
  BY <1>7 DEF f, s

(* Packing undoes unpacking. *)
LEMMA UnpackPack ==
    ASSUME NEW s \in Seq(Byte)
    PROVE  from_nibbles(to_nibbles(s)) = Ok(s)
<1>. DEFINE p == to_nibbles(s)
            t == Packed(p)
<1>1. /\ p \in Path /\ Len(p) = 2 * Len(s) /\ Len(s) \in Nat
      /\ \A i \in 1..Len(s) : s[i] \in Byte /\ p[2 * i - 1] = s[i] \div 16 /\ p[2 * i] = s[i] % 16
  BY Unpacked
<1>. HIDE DEF p
<1>2. Len(p) % 2 = 0 /\ Len(p) \div 2 = Len(s)
  BY <1>1
<1>3. /\ from_nibbles(p) = Ok(t) /\ t \in Seq(Byte) /\ 2 * Len(t) = Len(p)
      /\ \A i \in 1..Len(s) : t[i] = 16 * p[2 * i - 1] + p[2 * i]
  BY <1>1, <1>2, PackedBytes
<1>. HIDE DEF t
<1>4. Len(t) = Len(s)
  BY <1>1, <1>3, LenProperties
<1>5. \A b \in Byte : 16 * (b \div 16) + (b % 16) = b
  BY DEF Byte
<1>6. ASSUME NEW i \in 1..Len(s)
      PROVE  t[i] = s[i]
  <2>1. s[i] \in Byte /\ t[i] = 16 * (s[i] \div 16) + (s[i] % 16)
    BY <1>1, <1>3
  <2>. QED
    BY <1>5, <2>1
<1>7. t = s
  BY <1>3, <1>4, <1>6, SeqEqual
<1>. QED
  BY <1>3, <1>7 DEF p

-----------------------------------------------------------------------------
(* The hex-prefix form *)

(* The flag and, before an even path, the pad. *)
Front(path, is_leaf) ==
    IF Len(path) % 2 = 1 THEN <<Flag(is_leaf, TRUE)>> ELSE <<Flag(is_leaf, FALSE), 0>>

LEMMA Flags ==
    ASSUME NEW is_leaf \in BOOLEAN, NEW odd \in BOOLEAN
    PROVE  /\ Flag(is_leaf, odd) \in 0..3
           /\ Flag(is_leaf, odd) % 2 = 1 <=> odd
           /\ (Flag(is_leaf, odd) \div 2) % 2 = 1 <=> is_leaf
<1>1. CASE is_leaf
  BY <1>1 DEF Flag
<1>2. CASE ~is_leaf
  BY <1>2 DEF Flag
<1>. QED
  BY <1>1, <1>2

LEMMA FlagBack ==
    ASSUME NEW flag \in 0..3
    PROVE  Flag((flag \div 2) % 2 = 1, flag % 2 = 1) = flag
<1>1. flag = 0 \/ flag = 1 \/ flag = 2 \/ flag = 3
  OBVIOUS
<1>. QED
  BY <1>1 DEF Flag

LEMMA Halved ==
    ASSUME NEW n \in Nat
    PROVE  /\ n % 2 = 1 \/ n % 2 = 0
           /\ n % 2 = 1 => (1 + n) % 2 = 0 /\ (1 + n) = 2 * (1 + n \div 2)
           /\ n % 2 = 0 => (2 + n) % 2 = 0 /\ (2 + n) = 2 * (1 + n \div 2)
  OBVIOUS

LEMMA Fronted ==
    ASSUME NEW path \in Path, NEW is_leaf \in BOOLEAN
    PROVE  LET p == Front(path, is_leaf) \o path
           IN  /\ p \in Path /\ Len(p) % 2 = 0 /\ Len(p) = 2 * (1 + Len(path) \div 2)
               /\ p # <<>>
               /\ hex_prefix_encode(path, is_leaf) = Packed(p)
<1>. DEFINE f == Front(path, is_leaf)
            p == f \o path
            flag == Flag(is_leaf, Len(path) % 2 = 1)
<1>1. Len(path) \in Nat
  BY LenProperties DEF Path
<1>2. flag \in 0..3
  BY Flags
<1>3. f = IF Len(path) % 2 = 1 THEN <<flag>> ELSE <<flag, 0>>
  <2>1. CASE Len(path) % 2 = 1
    <3>1. (Len(path) % 2 = 1) = TRUE
      BY <2>1
    <3>. QED
      BY <2>1, <3>1 DEF Front
  <2>2. CASE Len(path) % 2 # 1
    <3>1. (Len(path) % 2 = 1) = FALSE
      BY <2>2
    <3>. QED
      BY <2>2, <3>1 DEF Front
  <2>. QED
    BY <2>1, <2>2
<1>4. hex_prefix_encode(path, is_leaf) = from_nibbles(f \o path).value
  BY <1>3 DEF hex_prefix_encode
<1>. HIDE DEF f, flag
<1>5. f \in Path /\ Len(f) = IF Len(path) % 2 = 1 THEN 1 ELSE 2
  <2>1. flag \in Nibble /\ 0 \in Nibble
    BY <1>2 DEF Nibble
  <2>2. <<flag>> \in Path /\ Len(<<flag>>) = 1
    BY <2>1 DEF Path
  <2>3. <<flag, 0>> \in Path /\ Len(<<flag, 0>>) = 2
    BY <2>1 DEF Path
  <2>. QED
    BY <1>3, <2>2, <2>3
<1>6. p \in Path /\ Len(p) = Len(f) + Len(path)
  BY <1>5, ConcatProperties DEF Path
<1>7. Len(p) % 2 = 0 /\ Len(p) = 2 * (1 + Len(path) \div 2)
  <2>1. /\ Len(path) % 2 = 1 \/ Len(path) % 2 = 0
        /\ Len(path) % 2 = 1 => (1 + Len(path)) % 2 = 0 /\ (1 + Len(path)) = 2 * (1 + Len(path) \div 2)
        /\ Len(path) % 2 = 0 => (2 + Len(path)) % 2 = 0 /\ (2 + Len(path)) = 2 * (1 + Len(path) \div 2)
    BY <1>1, Halved
  <2>2. CASE Len(path) % 2 = 1
    <3>1. Len(p) = 1 + Len(path)
      BY <1>5, <1>6, <2>2
    <3>. QED
      BY <2>1, <2>2, <3>1
  <2>3. CASE Len(path) % 2 = 0
    <3>1. Len(p) = 2 + Len(path)
      BY <1>5, <1>6, <2>3
    <3>. QED
      BY <2>1, <2>3, <3>1
  <2>. QED
    BY <2>1, <2>2, <2>3
<1>8. from_nibbles(p) = Ok(Packed(p))
  BY <1>6, <1>7, PackedBytes
<1>9. Ok(Packed(p)).value = Packed(p)
  BY DEF Ok
<1>10. p # <<>>
  BY <1>1, <1>7
<1>. QED
  BY <1>4, <1>6, <1>7, <1>8, <1>9, <1>10 DEF f

LEMMA Tails ==
    ASSUME NEW p \in Path, Len(p) # 0
    PROVE  /\ Tail(p) \in Path /\ Len(Tail(p)) = Len(p) - 1 /\ p # <<>>
           /\ \A i \in 1..Len(p) - 1 : Tail(p)[i] = p[i + 1]
<1>1. p # <<>>
  OBVIOUS
<1>. QED
  BY <1>1, HeadTailProperties DEF Path

(* Taking the front off again. *)
LEMMA Behind ==
    ASSUME NEW path \in Path, NEW is_leaf \in BOOLEAN
    PROVE  LET p == Front(path, is_leaf) \o path
               odd == Len(path) % 2 = 1
           IN  /\ p[1] = Flag(is_leaf, odd)
               /\ odd => Tail(p) = path
               /\ ~odd => Tail(p)[1] = 0 /\ Tail(Tail(p)) = path
<1>. DEFINE f == Front(path, is_leaf)
            p == f \o path
            odd == Len(path) % 2 = 1
            flag == Flag(is_leaf, odd)
<1>1. Len(path) \in Nat
  BY LenProperties DEF Path
<1>2. flag \in Nibble
  <2>1. flag \in 0..3
    BY Flags
  <2>. QED
    BY <2>1 DEF Nibble
<1>3. f = IF odd THEN <<flag>> ELSE <<flag, 0>>
  <2>1. CASE odd
    <3>1. odd = TRUE
      BY <2>1
    <3>. QED
      BY <2>1, <3>1 DEF Front
  <2>2. CASE ~odd
    <3>1. odd = FALSE
      BY <2>2
    <3>. QED
      BY <2>2, <3>1 DEF Front
  <2>. QED
    BY <2>1, <2>2
<1>. HIDE DEF f, flag, odd
<1>4. CASE odd
  <2>1. f \in Path /\ Len(f) = 1 /\ f[1] = flag
    BY <1>2, <1>3, <1>4 DEF Path
  <2>2. /\ p \in Path /\ Len(p) = 1 + Len(path)
        /\ \A i \in 1..1 + Len(path) : p[i] = IF i <= 1 THEN f[i] ELSE path[i - 1]
    BY <1>1, <2>1, ConcatProperties DEF Path
  <2>. HIDE DEF p
  <2>3. p[1] = flag /\ \A i \in 1..Len(path) : p[i + 1] = path[i]
    <3>1. \A i \in 1..Len(path) : i + 1 \in 1..1 + Len(path) /\ ~(i + 1 <= 1) /\ (i + 1) - 1 = i
      BY <1>1
    <3>. QED
      BY <1>1, <2>1, <2>2, <3>1
  <2>4. /\ Tail(p) \in Path /\ Len(Tail(p)) = Len(path)
        /\ \A i \in 1..Len(path) : Tail(p)[i] = p[i + 1]
    BY <1>1, <2>2, Tails
  <2>5. Tail(p) = path
    BY <2>3, <2>4, SeqEqual DEF Path
  <2>. QED
    BY <1>4, <2>3, <2>5 DEF p, f, odd, flag
<1>5. CASE ~odd
  <2>1. f \in Path /\ Len(f) = 2 /\ f[1] = flag /\ f[2] = 0
    <3>1. 0 \in Nibble
      BY DEF Nibble
    <3>. QED
      BY <1>2, <1>3, <1>5, <3>1 DEF Path
  <2>2. /\ p \in Path /\ Len(p) = 2 + Len(path)
        /\ \A i \in 1..2 + Len(path) : p[i] = IF i <= 2 THEN f[i] ELSE path[i - 2]
    <3>1. /\ p \in Path /\ Len(p) = Len(f) + Len(path)
          /\ \A i \in 1..Len(f) + Len(path) :
                p[i] = IF i <= Len(f) THEN f[i] ELSE path[i - Len(f)]
      BY <2>1, ConcatProperties DEF Path
    <3>. HIDE DEF p
    <3>. QED
      BY <2>1, <3>1
  <2>. HIDE DEF p
  <2>3. p[1] = flag /\ p[2] = 0 /\ \A i \in 1..Len(path) : p[i + 2] = path[i]
    <3>1. \A i \in 1..Len(path) : i + 2 \in 1..2 + Len(path) /\ ~(i + 2 <= 2) /\ (i + 2) - 2 = i
      BY <1>1
    <3>. QED
      BY <1>1, <2>1, <2>2, <3>1
  <2>4. /\ Tail(p) \in Path /\ Len(Tail(p)) = 1 + Len(path)
        /\ \A i \in 1..1 + Len(path) : Tail(p)[i] = p[i + 1]
    BY <1>1, <2>2, Tails
  <2>5. /\ Tail(Tail(p)) \in Path /\ Len(Tail(Tail(p))) = Len(path)
        /\ \A i \in 1..Len(path) : Tail(Tail(p))[i] = Tail(p)[i + 1]
    <3>1. PICK t : t = Tail(p)
      OBVIOUS
    <3>2. t \in Path /\ Len(t) = 1 + Len(path) /\ Len(t) # 0 /\ Len(t) - 1 = Len(path)
      BY <1>1, <2>4, <3>1
    <3>3. /\ Tail(t) \in Path /\ Len(Tail(t)) = Len(path)
          /\ \A i \in 1..Len(path) : Tail(t)[i] = t[i + 1]
      BY <3>2, Tails
    <3>. QED
      BY <3>1, <3>3
  <2>6. Tail(p)[1] = 0
    BY <1>1, <2>3, <2>4
  <2>7. ASSUME NEW i \in 1..Len(path)
        PROVE  Tail(Tail(p))[i] = path[i]
    <3>1. i + 1 \in 1..1 + Len(path) /\ (i + 1) + 1 = i + 2
      BY <1>1
    <3>. QED
      BY <2>3, <2>4, <2>5, <3>1
  <2>8. Tail(Tail(p)) = path
    BY <2>5, <2>7, SeqEqual DEF Path
  <2>. QED
    BY <1>5, <2>3, <2>6, <2>8 DEF p, f, odd, flag
<1>. QED
  BY <1>4, <1>5

LEMMA EncodeDecode ==
    ASSUME NEW path \in Path, NEW is_leaf \in BOOLEAN
    PROVE  /\ hex_prefix_decode(hex_prefix_encode(path, is_leaf))
                 = Ok([path |-> path, is_leaf |-> is_leaf])
           /\ Len(hex_prefix_encode(path, is_leaf)) = 1 + Len(path) \div 2
<1>. DEFINE s == hex_prefix_encode(path, is_leaf)
            odd == Len(path) % 2 = 1
            flag == Flag(is_leaf, odd)
<1>0. PICK p : p = Front(path, is_leaf) \o path
  OBVIOUS
<1>1. /\ p \in Path /\ Len(p) % 2 = 0 /\ Len(p) = 2 * (1 + Len(path) \div 2)
      /\ p # <<>> /\ s = Packed(p)
  BY <1>0, Fronted
<1>2. Len(path) \in Nat
  BY LenProperties DEF Path
<1>3. to_nibbles(s) = p
  BY <1>1, PackUnpack
<1>4. Len(s) = 1 + Len(path) \div 2
  <2>1. s \in Seq(Byte) /\ 2 * Len(s) = Len(p)
    BY <1>1, PackedBytes
  <2>2. Len(s) \in Nat /\ Len(path) \div 2 \in Nat
    BY <1>2, <2>1, LenProperties
  <2>. HIDE DEF s
  <2>. QED
    BY <1>1, <2>1, <2>2
<1>5. /\ p[1] = flag
      /\ odd => Tail(p) = path
      /\ ~odd => Tail(p)[1] = 0 /\ Tail(Tail(p)) = path
  BY <1>0, Behind
<1>6. /\ flag \in 0..3
      /\ flag % 2 = 1 <=> odd
      /\ ((flag \div 2) % 2 = 1) = is_leaf
  BY Flags
<1>. HIDE DEF flag, s, odd
<1>7. ~(flag > 3)
  BY <1>6
<1>8. CASE odd
  <2>1. hex_prefix_decode(s) = Ok([path |-> Tail(p), is_leaf |-> (flag \div 2) % 2 = 1])
    BY <1>1, <1>3, <1>5, <1>6, <1>7, <1>8 DEF hex_prefix_decode
  <2>. QED
    BY <1>4, <1>5, <1>6, <1>8, <2>1 DEF s
<1>9. CASE ~odd
  <2>1. hex_prefix_decode(s) = Ok([path |-> Tail(Tail(p)), is_leaf |-> (flag \div 2) % 2 = 1])
    BY <1>1, <1>3, <1>5, <1>6, <1>7, <1>9 DEF hex_prefix_decode
  <2>. QED
    BY <1>4, <1>5, <1>6, <1>9, <2>1 DEF s
<1>. QED
  BY <1>8, <1>9

LEMMA DecodeEncode ==
    ASSUME NEW s \in Seq(Byte), hex_prefix_decode(s).status = "ok"
    PROVE  LET r == hex_prefix_decode(s).value
           IN  hex_prefix_encode(r.path, r.is_leaf) = s
<1>. DEFINE p == to_nibbles(s)
            flag == p[1]
            is_leaf == (flag \div 2) % 2 = 1
            odd == flag % 2 = 1
            path == IF odd THEN Tail(p) ELSE Tail(Tail(p))
<1>1. /\ p \in Path /\ Len(p) = 2 * Len(s) /\ Len(s) \in Nat /\ from_nibbles(p) = Ok(s)
  BY Unpacked, UnpackPack
<1>2. /\ p # <<>> /\ ~(flag > 3) /\ (odd \/ Tail(p)[1] = 0)
      /\ hex_prefix_decode(s) = Ok([path |-> path, is_leaf |-> is_leaf])
  <2>1. /\ \A v : Ok(v).status = "ok"
        /\ Err("EmptyHexPrefix").status # "ok" /\ Err("InvalidHexPrefixFlag").status # "ok"
        /\ Err("NonZeroHexPrefixPad").status # "ok"
    BY DEF Ok, Err
  <2>2. hex_prefix_decode(s) =
           IF p = <<>> THEN Err("EmptyHexPrefix")
           ELSE IF flag > 3 THEN Err("InvalidHexPrefixFlag")
           ELSE IF odd THEN Ok([path |-> Tail(p), is_leaf |-> is_leaf])
           ELSE IF Tail(p)[1] = 0 THEN Ok([path |-> Tail(Tail(p)), is_leaf |-> is_leaf])
           ELSE Err("NonZeroHexPrefixPad")
    BY DEF hex_prefix_decode
  <2>. HIDE DEF p, flag, is_leaf, odd
  <2>3. p # <<>> /\ ~(flag > 3) /\ (odd \/ Tail(p)[1] = 0)
    BY <2>1, <2>2
  <2>. QED
    BY <2>2, <2>3
<1>. HIDE DEF p
<1>3. Len(p) \in Nat /\ Len(p) # 0 /\ Len(p) % 2 = 0 /\ Len(p) >= 2
  <2>1. Len(p) # 0
    BY <1>1, <1>2, EmptySeq DEF Path
  <2>. QED
    BY <1>1, <2>1
<1>4. /\ Tail(p) \in Path /\ Len(Tail(p)) = Len(p) - 1
      /\ \A i \in 1..Len(p) - 1 : Tail(p)[i] = p[i + 1]
  BY <1>1, <1>3, Tails
<1>5. flag \in 0..3
  <2>1. flag \in Nibble
    BY <1>1, <1>3, ElementOfSeq DEF Path
  <2>. QED
    BY <1>2, <2>1 DEF Nibble
<1>6. Flag(is_leaf, odd) = flag
  BY <1>5, FlagBack
<1>7. /\ path \in Path /\ (Len(path) % 2 = 1) = odd
      /\ Front(path, is_leaf) \o path = p
  <2>1. CASE odd
    <3>1. path = Tail(p) /\ Len(path) % 2 = 1
      <4>1. path = Tail(p)
        BY <2>1
      <4>. HIDE DEF path
      <4>2. (Len(p) - 1) % 2 = 1
        BY <1>3
      <4>. QED
        BY <1>4, <4>1, <4>2
    <3>2. Front(path, is_leaf) = <<flag>>
      <4>1. odd = TRUE
        BY <2>1
      <4>. QED
        BY <1>6, <3>1, <4>1 DEF Front
    <3>. DEFINE f == <<flag>>
                q == f \o path
    <3>3. f \in Path /\ Len(f) = 1 /\ f[1] = flag
      BY <1>5 DEF Path, Nibble
    <3>. HIDE DEF f, flag, path
    <3>4. path \in Path /\ Len(path) = Len(p) - 1
      BY <1>4, <3>1
    <3>5. /\ q \in Path /\ Len(q) = Len(f) + Len(path)
          /\ \A i \in 1..Len(f) + Len(path) : q[i] = IF i <= Len(f) THEN f[i] ELSE path[i - Len(f)]
      BY <3>3, <3>4, ConcatProperties DEF Path
    <3>. HIDE DEF q
    <3>6. Len(q) = Len(p)
      BY <1>3, <3>3, <3>4, <3>5
    <3>7. ASSUME NEW i \in 1..Len(q)
          PROVE  q[i] = p[i]
      <4>1. CASE i = 1
        BY <3>3, <3>5, <4>1 DEF flag
      <4>2. CASE i # 1
        <5>1. i - 1 \in 1..Len(p) - 1 /\ (i - 1) + 1 = i /\ ~(i <= 1)
          BY <1>3, <3>6, <4>2
        <5>2. q[i] = path[i - 1]
          BY <3>3, <3>5, <5>1
        <5>. QED
          BY <1>4, <3>1, <5>1, <5>2
      <4>. QED
        BY <4>1, <4>2
    <3>8. q = p
      BY <1>1, <3>5, <3>6, <3>7, SeqEqual DEF Path
    <3>9. odd = TRUE /\ (Len(path) % 2 = 1) = TRUE
      BY <2>1, <3>1
    <3>. QED
      BY <3>2, <3>4, <3>8, <3>9 DEF q, f
  <2>2. CASE ~odd
    <3>0. PICK t : t = Tail(p)
      OBVIOUS
    <3>1. path = Tail(t)
      BY <2>2, <3>0
    <3>2. t \in Path /\ Len(t) = Len(p) - 1 /\ Len(t) # 0
      BY <1>3, <1>4, <3>0
    <3>3. /\ path \in Path /\ Len(path) = Len(p) - 2
          /\ \A i \in 1..Len(t) - 1 : path[i] = t[i + 1]
      <4>1. /\ Tail(t) \in Path /\ Len(Tail(t)) = Len(t) - 1
            /\ \A i \in 1..Len(t) - 1 : Tail(t)[i] = t[i + 1]
        BY <3>2, Tails
      <4>2. Len(t) - 1 = Len(p) - 2
        BY <1>3, <3>2
      <4>. HIDE DEF path
      <4>. QED
        BY <3>1, <4>1, <4>2
    <3>. HIDE DEF path
    <3>4. (Len(path) % 2 = 1) = FALSE /\ odd = FALSE
      <4>1. (Len(p) - 2) % 2 # 1
        BY <1>3
      <4>. QED
        BY <2>2, <3>3, <4>1
    <3>5. Front(path, is_leaf) = <<flag, 0>>
      BY <1>6, <3>4 DEF Front
    <3>. DEFINE f == <<flag, 0>>
                q == f \o path
    <3>6. f \in Path /\ Len(f) = 2 /\ f[1] = flag /\ f[2] = 0
      <4>1. flag \in Nibble /\ 0 \in Nibble
        BY <1>5 DEF Nibble
      <4>. QED
        BY <4>1 DEF Path
    <3>. HIDE DEF f, flag
    <3>7. /\ q \in Path /\ Len(q) = Len(f) + Len(path)
          /\ \A i \in 1..Len(f) + Len(path) : q[i] = IF i <= Len(f) THEN f[i] ELSE path[i - Len(f)]
      BY <3>3, <3>6, ConcatProperties DEF Path
    <3>. HIDE DEF q
    <3>8. Len(q) = Len(p)
      BY <1>3, <3>3, <3>6, <3>7
    <3>9. ASSUME NEW i \in 1..Len(q)
          PROVE  q[i] = p[i]
      <4>1. CASE i = 1
        BY <3>6, <3>7, <4>1 DEF flag
      <4>2. CASE i = 2
        <5>1. q[2] = 0
          BY <3>6, <3>7, <4>2
        <5>2. t[1] = p[2]
          BY <1>3, <1>4, <3>0
        <5>3. t[1] = 0
          BY <1>2, <2>2, <3>0
        <5>. QED
          BY <4>2, <5>1, <5>2, <5>3
      <4>3. CASE i # 1 /\ i # 2
        <5>1. /\ i - 2 \in 1..Len(t) - 1 /\ (i - 2) + 1 = i - 1
              /\ i - 1 \in 1..Len(p) - 1 /\ (i - 1) + 1 = i /\ ~(i <= 2)
          BY <1>3, <3>2, <3>8, <4>3
        <5>2. q[i] = path[i - 2]
          BY <3>6, <3>7, <5>1
        <5>3. path[i - 2] = t[i - 1]
          BY <3>3, <5>1
        <5>4. t[i - 1] = p[i]
          BY <1>4, <3>0, <5>1
        <5>. QED
          BY <5>2, <5>3, <5>4
      <4>. QED
        BY <4>1, <4>2, <4>3
    <3>10. q = p
      BY <1>1, <3>7, <3>8, <3>9, SeqEqual DEF Path
    <3>. QED
      BY <3>3, <3>4, <3>5, <3>10 DEF q, f
  <2>. QED
    BY <2>1, <2>2
<1>. HIDE DEF path, is_leaf
<1>8. hex_prefix_encode(path, is_leaf) = Packed(p)
  <2>1. is_leaf \in BOOLEAN
    BY DEF is_leaf
  <2>. QED
    BY <1>7, <2>1, Fronted
<1>9. Packed(p) = s
  <2>1. from_nibbles(p) = Ok(Packed(p))
    BY <1>1, <1>3, PackedBytes
  <2>2. Ok(Packed(p)).value = Packed(p) /\ Ok(s).value = s
    BY DEF Ok
  <2>. QED
    BY <1>1, <2>1, <2>2
<1>10. /\ hex_prefix_decode(s).value.path = path
       /\ hex_prefix_decode(s).value.is_leaf = is_leaf
  BY <1>2 DEF Ok
<1>. QED
  BY <1>8, <1>9, <1>10

-----------------------------------------------------------------------------
(* The calls *)

LEMMA PackAccepts ==
    ASSUME NEW p \in Seq(Byte)
    PROVE  (from_nibbles(p).status = "ok") = (p \in Path /\ Len(p) % 2 = 0)
<1>1. Len(p) \in Nat /\ DOMAIN p = 1..Len(p) /\ \A i \in 1..Len(p) : p[i] \in Byte
  BY LenProperties, ElementOfSeq
<1>2. /\ Err("OddNibbleLength").status # "ok" /\ Err("InvalidNibble").status # "ok"
      /\ \A v : Ok(v).status = "ok"
  BY DEF Err, Ok
<1>3. CASE p \in Path /\ Len(p) % 2 = 0
  BY <1>2, <1>3, PackedBytes
<1>4. CASE p \in Path /\ Len(p) % 2 # 0
  <2>1. Len(p) % 2 = 1
    BY <1>1, <1>4
  <2>. QED
    BY <1>2, <2>1 DEF from_nibbles
<1>5. CASE p \notin Path
  <2>1. \E i \in DOMAIN p : p[i] > 15
    <3>1. SUFFICES ASSUME \A i \in DOMAIN p : ~(p[i] > 15)
                   PROVE  FALSE
      OBVIOUS
    <3>2. \A i \in 1..Len(p) : p[i] \in Nibble
      <4>1. \A b \in Byte : ~(b > 15) => b \in Nibble
        BY DEF Byte, Nibble
      <4>. QED
        BY <1>1, <3>1, <4>1
    <3>3. p = [i \in 1..Len(p) |-> p[i]]
      OBVIOUS
    <3>4. p \in [1..Len(p) -> Nibble]
      BY <3>2, <3>3
    <3>5. p \in Path
      BY <1>1, <3>4 DEF Path
    <3>. QED
      BY <1>5, <3>5
  <2>2. from_nibbles(p) = Err("OddNibbleLength") \/ from_nibbles(p) = Err("InvalidNibble")
    BY <2>1 DEF from_nibbles
  <2>. QED
    BY <1>2, <1>5, <2>2
<1>. QED
  BY <1>3, <1>4, <1>5

LEMMA StepRight ==
    ASSUME PathComesBack, OnePathOneString, [Next]_vars
    PROVE  PathComesBack' /\ OnePathOneString'
<1>1. ASSUME Pack
      PROVE  PathComesBack' /\ OnePathOneString'
  <2>1. PICK p \in Paths : op' = "pack" /\ given' = p /\ result' = from_nibbles(p)
    BY <1>1 DEF Pack, Called
  <2>2. p \in Seq(Byte)
    BY PathsAssumption
  <2>3. (from_nibbles(p).status = "ok") = (p \in Path /\ Len(p) % 2 = 0)
    BY <2>2, PackAccepts
  <2>4. ASSUME from_nibbles(p).status = "ok"
        PROVE  to_nibbles(from_nibbles(p).value) = p
    <3>1. from_nibbles(p) = Ok(Packed(p)) /\ to_nibbles(Packed(p)) = p
      BY <2>3, <2>4, PackedBytes, PackUnpack
    <3>2. Ok(Packed(p)).value = Packed(p)
      BY DEF Ok
    <3>. QED
      BY <3>1, <3>2
  <2>. QED
    BY <2>1, <2>3, <2>4 DEF PathComesBack, OnePathOneString
<1>2. ASSUME Unpack
      PROVE  PathComesBack' /\ OnePathOneString'
  <2>1. PICK s \in Strings : op' = "unpack" /\ given' = s /\ result' = Ok(to_nibbles(s))
    BY <1>2 DEF Unpack, Called
  <2>2. from_nibbles(to_nibbles(s)) = Ok(s)
    BY StringsAssumption, UnpackPack
  <2>3. Ok(to_nibbles(s)).value = to_nibbles(s)
    BY DEF Ok
  <2>. QED
    BY <2>1, <2>2, <2>3 DEF PathComesBack, OnePathOneString
<1>3. ASSUME Encode
      PROVE  PathComesBack' /\ OnePathOneString'
  <2>1. PICK p \in Paths \cap Path, is_leaf \in BOOLEAN :
             /\ op' = "encode" /\ given' = [path |-> p, is_leaf |-> is_leaf]
             /\ result' = Ok(hex_prefix_encode(p, is_leaf))
    BY <1>3 DEF Encode, Called
  <2>2. /\ hex_prefix_decode(hex_prefix_encode(p, is_leaf)) = Ok([path |-> p, is_leaf |-> is_leaf])
        /\ Len(hex_prefix_encode(p, is_leaf)) = 1 + Len(p) \div 2
    BY EncodeDecode
  <2>3. result'.value = hex_prefix_encode(p, is_leaf) /\ given'.path = p
    BY <2>1 DEF Ok
  <2>4. hex_prefix_decode(result'.value) = Ok(given') /\ Len(result'.value) = 1 + Len(given'.path) \div 2
    BY <2>1, <2>2, <2>3
  <2>. QED
    BY <2>1, <2>4 DEF PathComesBack, OnePathOneString
<1>4. ASSUME Decode
      PROVE  PathComesBack' /\ OnePathOneString'
  <2>1. PICK s \in Strings : op' = "decode" /\ given' = s /\ result' = hex_prefix_decode(s)
    BY <1>4 DEF Decode, Called
  <2>2. s \in Seq(Byte)
    BY StringsAssumption
  <2>3. ASSUME hex_prefix_decode(s).status = "ok"
        PROVE  hex_prefix_encode(hex_prefix_decode(s).value.path, hex_prefix_decode(s).value.is_leaf) = s
    BY <2>2, <2>3, DecodeEncode
  <2>. QED
    BY <2>1, <2>3 DEF PathComesBack, OnePathOneString
<1>5. CASE UNCHANGED vars
  BY <1>5 DEF vars, PathComesBack, OnePathOneString
<1>. QED
  BY <1>1, <1>2, <1>3, <1>4, <1>5 DEF Next

LEMMA SpecRight == Spec => [](PathComesBack /\ OnePathOneString)
<1>1. Init => PathComesBack /\ OnePathOneString
  BY DEF Init, PathComesBack, OnePathOneString
<1>2. PathComesBack /\ OnePathOneString /\ [Next]_vars => PathComesBack' /\ OnePathOneString'
  BY StepRight
<1>. QED
  BY <1>1, <1>2, PTL DEF Spec

(* For paths and strings of every length: what is packed or encoded comes   *)
(* back, and from_nibbles accepts exactly what can.                         *)
THEOREM AlwaysComesBack == Spec => []PathComesBack
  BY SpecRight, PTL

(* For strings of every length: no two of them are decoded to the same path *)
(* and kind, so that no node has two encodings.                             *)
THEOREM AlwaysOneString == Spec => []OnePathOneString
  BY SpecRight, PTL
=============================================================================
