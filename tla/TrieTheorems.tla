------------------------- MODULE TrieTheorems -------------------------
(***************************************************************************)
(* Facts about paths: starts_with is a partial order with <<>> at the      *)
(* bottom, the prefixes of one path are linearly ordered, and a path that  *)
(* strictly extends p extends exactly one of the sixteen Append(p, n).     *)
(*                                                                         *)
(* Then, what an edit below one position does to the shape of the tree.    *)
(* Positions never move, so a tree whose subtree at p is replaced keeps    *)
(* its shape when the new subtree has it and p still holds what a Skip     *)
(* above it may lead to.                                                   *)
(***************************************************************************)
EXTENDS TrieEdits, FiniteSetTheorems, SequenceTheorems, WellFoundedInduction, TLAPS

-----------------------------------------------------------------------------
(* Paths *)

(* A path extends another iff it has its nibbles, place by place.           *)
LEMMA StartsWithPointwise ==
    ASSUME NEW p \in Path, NEW q \in Path
    PROVE  starts_with(q, p) <=>
              Len(p) <= Len(q) /\ \A i \in 1..Len(p) : q[i] = p[i]
<1>1. ASSUME Len(p) <= Len(q)
      PROVE  /\ Take(q, Len(p)) \in Path
             /\ Len(Take(q, Len(p))) = Len(p)
             /\ \A i \in 1..Len(p) : Take(q, Len(p))[i] = q[i]
  <2>1. \A i \in 1..Len(p) : q[i] \in Nibble
    BY <1>1, ElementOfSeq, LenProperties DEF Path
  <2>2. /\ SubSeq(q, 1, Len(p)) \in Seq(Nibble)
        /\ Len(SubSeq(q, 1, Len(p))) = IF 1 <= Len(p) THEN Len(p) - 1 + 1 ELSE 0
        /\ \A i \in 1..(Len(p) - 1 + 1) : SubSeq(q, 1, Len(p))[i] = q[1 + i - 1]
    BY <2>1, SubSeqProperties, LenProperties DEF Path
  <2>. QED
    BY <2>2, LenProperties DEF Take, Path
<1>2. ASSUME Len(p) <= Len(q), \A i \in 1..Len(p) : q[i] = p[i]
      PROVE  Take(q, Len(p)) = p
  BY <1>1, <1>2, SeqEqual DEF Path
<1>. QED
  BY <1>1, <1>2 DEF starts_with

LEMMA PathLen == ASSUME NEW p \in Path PROVE Len(p) \in Nat
  BY LenProperties DEF Path

LEMMA EmptyPath == <<>> \in Path /\ Len(<<>>) = 0
  BY EmptySeq DEF Path

LEMMA PrefixRefl == ASSUME NEW p \in Path PROVE starts_with(p, p)
  BY StartsWithPointwise, LenProperties DEF Path

LEMMA PrefixTrans ==
    ASSUME NEW p \in Path, NEW q \in Path, NEW r \in Path,
           starts_with(r, q), starts_with(q, p)
    PROVE  starts_with(r, p)
  BY StartsWithPointwise, LenProperties DEF Path

LEMMA PrefixAntisym ==
    ASSUME NEW p \in Path, NEW q \in Path, starts_with(q, p), starts_with(p, q)
    PROVE  p = q
  BY StartsWithPointwise, LenProperties, SeqEqual DEF Path

(* Two prefixes of one path: one is a prefix of the other.                  *)
LEMMA PrefixLinear ==
    ASSUME NEW p \in Path, NEW q \in Path, NEW r \in Path,
           starts_with(r, p), starts_with(r, q)
    PROVE  starts_with(p, q) \/ starts_with(q, p)
  BY StartsWithPointwise, LenProperties DEF Path

LEMMA PrefixEmpty ==
    ASSUME NEW p \in Path
    PROVE  /\ <<>> \in Path
           /\ starts_with(p, <<>>)
           /\ starts_with(<<>>, p) => p = <<>>
<1>1. starts_with(p, <<>>) <=> Len(<<>>) <= Len(p) /\ \A i \in 1..Len(<<>>) : p[i] = <<>>[i]
  BY EmptyPath, StartsWithPointwise
<1>2. starts_with(p, <<>>)
  BY <1>1, EmptyPath, PathLen
<1>3. starts_with(<<>>, p) => p = <<>>
  BY <1>2, EmptyPath, PrefixAntisym
<1>. QED
  BY <1>2, <1>3, EmptyPath

LEMMA PrefixConcat ==
    ASSUME NEW p \in Path, NEW s \in Path
    PROVE  /\ p \o s \in Path
           /\ starts_with(p \o s, p)
           /\ p \o s = p <=> s = <<>>
<1>1. /\ p \o s \in Path
      /\ Len(p \o s) = Len(p) + Len(s)
      /\ \A i \in 1..Len(p) : (p \o s)[i] = p[i]
  BY ConcatProperties, LenProperties DEF Path
<1>2. starts_with(p \o s, p)
  <2>1. starts_with(p \o s, p) <=>
           Len(p) <= Len(p \o s) /\ \A i \in 1..Len(p) : (p \o s)[i] = p[i]
    BY <1>1, StartsWithPointwise
  <2>. QED
    BY <1>1, <2>1, PathLen
<1>3. p \o s = p <=> s = <<>>
  BY ConcatEqualIffEmpty DEF Path
<1>. QED
  BY <1>1, <1>2, <1>3

LEMMA ConcatAssoc ==
    ASSUME NEW p \in Path, NEW s \in Path, NEW t \in Path
    PROVE  (p \o s) \o t = p \o (s \o t)
  BY ConcatAssociative DEF Path

LEMMA ConcatCancel ==
    ASSUME NEW p \in Path, NEW s \in Path, NEW t \in Path, p \o s = p \o t
    PROVE  s = t
<1>1. \A a, b, c \in Seq(Nibble) : a \o b = a \o c => b = c
  BY ConcatSimplifications
<1>. QED
  BY <1>1 DEF Path

LEMMA ConcatEmpty ==
    ASSUME NEW p \in Path
    PROVE  p \o <<>> = p /\ <<>> \o p = p
  BY ConcatEmptySeq DEF Path

(* The slices of a path.                                                    *)
LEMMA DropProperties ==
    ASSUME NEW q \in Path, NEW n \in Nat, n <= Len(q)
    PROVE  /\ Drop(q, n) \in Path
           /\ Len(Drop(q, n)) = Len(q) - n
           /\ \A i \in 1..(Len(q) - n) : Drop(q, n)[i] = q[n + i]
<1>1. \A i \in (n + 1)..Len(q) : q[i] \in Nibble
  BY ElementOfSeq, LenProperties DEF Path
<1>2. Len(q) \in Nat
  BY LenProperties DEF Path
<1>3. /\ SubSeq(q, n + 1, Len(q)) \in Seq(Nibble)
      /\ Len(SubSeq(q, n + 1, Len(q))) = IF n + 1 <= Len(q) THEN Len(q) - (n + 1) + 1 ELSE 0
      /\ \A i \in 1..(Len(q) - (n + 1) + 1) : SubSeq(q, n + 1, Len(q))[i] = q[n + 1 + i - 1]
  BY <1>1, <1>2, SubSeqProperties
<1>. QED
  BY <1>2, <1>3 DEF Drop, Path

LEMMA TakeProperties ==
    ASSUME NEW q \in Path, NEW n \in Nat, n <= Len(q)
    PROVE  /\ Take(q, n) \in Path
           /\ Len(Take(q, n)) = n
           /\ \A i \in 1..n : Take(q, n)[i] = q[i]
<1>1. \A i \in 1..n : q[i] \in Nibble
  BY ElementOfSeq, LenProperties DEF Path
<1>2. /\ SubSeq(q, 1, n) \in Seq(Nibble)
      /\ Len(SubSeq(q, 1, n)) = IF 1 <= n THEN n - 1 + 1 ELSE 0
      /\ \A i \in 1..(n - 1 + 1) : SubSeq(q, 1, n)[i] = q[1 + i - 1]
  BY <1>1, SubSeqProperties
<1>. QED
  BY <1>2 DEF Take, Path

LEMMA TakeDrop ==
    ASSUME NEW q \in Path, NEW n \in Nat, n <= Len(q)
    PROVE  Take(q, n) \o Drop(q, n) = q
<1>1. /\ Len(q) \in Nat
      /\ Take(q, n) \in Path /\ Len(Take(q, n)) = n
      /\ Drop(q, n) \in Path /\ Len(Drop(q, n)) = Len(q) - n
  BY PathLen, TakeProperties, DropProperties
<1>2. ASSUME NEW a \in Path, Len(a) = n, \A i \in 1..n : a[i] = q[i],
             NEW b \in Path, Len(b) = Len(q) - n, \A i \in 1..(Len(q) - n) : b[i] = q[n + i]
      PROVE  a \o b = q
  <2>1. /\ a \o b \in Seq(Nibble)
        /\ Len(a \o b) = Len(a) + Len(b)
        /\ \A i \in 1..(Len(a) + Len(b)) : (a \o b)[i] = IF i <= Len(a) THEN a[i] ELSE b[i - Len(a)]
    BY ConcatProperties DEF Path
  <2>2. Len(a \o b) = Len(q)
    BY <1>1, <1>2, <2>1
  <2>3. ASSUME NEW i \in 1..Len(q) PROVE (a \o b)[i] = q[i]
    <3>1. (a \o b)[i] = IF i <= n THEN a[i] ELSE b[i - n]
      BY <1>1, <1>2, <2>1
    <3>2. CASE i <= n
      BY <1>2, <3>1, <3>2
    <3>3. CASE ~(i <= n)
      <4>1. i - n \in 1..(Len(q) - n) /\ n + (i - n) = i
        BY <1>1, <3>3
      <4>. QED
        BY <1>2, <3>1, <3>3, <4>1
    <3>. QED
      BY <3>2, <3>3
  <2>. QED
    BY <2>1, <2>2, <2>3, SeqEqual DEF Path
<1>. QED
  BY <1>1, <1>2, TakeProperties, DropProperties

(* What starts with p is p followed by the rest, and p followed by s has s  *)
(* for its rest.                                                            *)
LEMMA PrefixSplit ==
    ASSUME NEW p \in Path, NEW q \in Path, starts_with(q, p)
    PROVE  /\ Drop(q, Len(p)) \in Path
           /\ p \o Drop(q, Len(p)) = q
<1>1. Len(p) \in Nat /\ Len(p) <= Len(q) /\ Take(q, Len(p)) = p
  BY LenProperties DEF starts_with, Path
<1>. QED
  BY <1>1, TakeDrop, DropProperties

LEMMA DropConcat ==
    ASSUME NEW p \in Path, NEW s \in Path
    PROVE  Drop(p \o s, Len(p)) = s
<1>1. /\ Drop(p \o s, Len(p)) \in Path
      /\ p \o Drop(p \o s, Len(p)) = p \o s
  BY PrefixConcat, PrefixSplit
<1>. QED
  BY <1>1, ConcatCancel

LEMMA PrefixUnderConcat ==
    ASSUME NEW p \in Path, NEW s \in Path, NEW t \in Path
    PROVE  starts_with(p \o s, p \o t) <=> starts_with(s, t)
<1>0. p \o t \in Path /\ p \o s \in Path
  BY PrefixConcat
<1>1. ASSUME starts_with(s, t) PROVE starts_with(p \o s, p \o t)
  <2>1. PICK d \in Path : t \o d = s
    BY <1>1, PrefixSplit
  <2>2. (p \o t) \o d = p \o (t \o d)
    BY ConcatAssoc
  <2>3. starts_with((p \o t) \o d, p \o t)
    BY <1>0, PrefixConcat
  <2>. QED
    BY <2>1, <2>2, <2>3
<1>2. ASSUME starts_with(p \o s, p \o t) PROVE starts_with(s, t)
  <2>. DEFINE a == p \o t
              b == p \o s
  <2>0. a \in Path /\ b \in Path /\ starts_with(b, a)
    BY <1>0, <1>2
  <2>. HIDE DEF a, b
  <2>1. PICK d \in Path : a \o d = b
    BY <2>0, PrefixSplit, Zenon
  <2>. USE DEF a, b
  <2>2. (p \o t) \o d = p \o (t \o d)
    BY ConcatAssoc
  <2>3. t \o d \in Path /\ starts_with(t \o d, t)
    BY PrefixConcat
  <2>4. t \o d = s
    BY <2>1, <2>2, <2>3, ConcatCancel
  <2>. QED
    BY <2>3, <2>4
<1>. QED
  BY <1>1, <1>2

-----------------------------------------------------------------------------
(* One nibble further *)

LEMMA AppendPath ==
    ASSUME NEW p \in Path, NEW n \in Nibble
    PROVE  /\ Append(p, n) \in Path
           /\ <<n>> \in Path
           /\ <<n>> # <<>>
           /\ Append(p, n) = p \o <<n>>
           /\ Append(p, n) # p
           /\ starts_with(Append(p, n), p)
           /\ ~starts_with(p, Append(p, n))
           /\ Append(p, n) # <<>>
<1>1. Append(p, n) = p \o <<n>> /\ Append(p, n) \in Path /\ Append(p, n) # <<>>
  BY AppendIsConcat, AppendProperties DEF Path
<1>2. <<n>> \in Path /\ <<n>> # <<>>
  BY DEF Path
<1>3. starts_with(Append(p, n), p) /\ Append(p, n) # p
  BY <1>1, <1>2, PrefixConcat
<1>. QED
  BY <1>1, <1>2, <1>3, PrefixAntisym

LEMMA AppendTake ==
    ASSUME NEW p \in Path, NEW n \in Nibble
    PROVE  Take(Append(p, n), Len(Append(p, n)) - 1) = p
<1>1. Len(Append(p, n)) = Len(p) + 1 /\ Len(p) \in Nat
  BY DEF Path
<1>2. Take(Append(p, n), Len(p)) = p
  BY AppendPath DEF starts_with
<1>. QED
  BY <1>1, <1>2

LEMMA AppendInj ==
    ASSUME NEW p \in Path, NEW q \in Path, NEW m \in Nibble, NEW n \in Nibble
    PROVE  Append(p, m) = Append(q, n) <=> p = q /\ m = n
  BY AppendInjective DEF Path

(* There is nothing between p and Append(p, n).                             *)
LEMMA AppendNext ==
    ASSUME NEW p \in Path, NEW n \in Nibble, NEW q \in Path,
           starts_with(Append(p, n), q)
    PROVE  q = Append(p, n) \/ starts_with(p, q)
<1>1. /\ Append(p, n) \in Path
      /\ Len(Append(p, n)) = Len(p) + 1
      /\ \A i \in 1..Len(p) : Append(p, n)[i] = p[i]
  BY AppendProperties DEF Path
<1>2. Len(q) <= Len(Append(p, n)) /\ \A i \in 1..Len(q) : Append(p, n)[i] = q[i]
  BY <1>1, StartsWithPointwise
<1>3. Len(p) \in Nat /\ Len(q) \in Nat
  BY PathLen
<1>4. CASE Len(q) <= Len(p)
  <2>1. \A i \in 1..Len(q) : p[i] = q[i]
    BY <1>1, <1>2, <1>3, <1>4
  <2>. QED
    BY <1>4, <2>1, StartsWithPointwise
<1>5. CASE Len(q) > Len(p)
  <2>1. Len(q) = Len(Append(p, n))
    BY <1>1, <1>2, <1>3, <1>5
  <2>. QED
    BY <1>1, <1>2, <2>1, SeqEqual DEF Path
<1>. QED
  BY <1>3, <1>4, <1>5

LEMMA BelowAppend ==
    ASSUME NEW p \in Path, NEW q \in Path, Below(q, p)
    PROVE  /\ Drop(q, Len(p)) # <<>>
           /\ Head(Drop(q, Len(p))) \in Nibble
           /\ starts_with(q, Append(p, Head(Drop(q, Len(p)))))
<1>. DEFINE s == Drop(q, Len(p))
<1>1. s \in Path /\ p \o s = q
  BY PrefixSplit DEF Below
<1>2. s # <<>>
  BY <1>1, PrefixConcat DEF Below
<1>3. Head(s) \in Nibble /\ Tail(s) \in Path /\ s = <<Head(s)>> \o Tail(s)
  BY <1>1, <1>2, HeadTailProperties DEF Path
<1>. HIDE DEF s
<1>4. Append(p, Head(s)) \in Path /\ Append(p, Head(s)) = p \o <<Head(s)>> /\ <<Head(s)>> \in Path
  BY <1>3, AppendPath
<1>5. (p \o <<Head(s)>>) \o Tail(s) = p \o (<<Head(s)>> \o Tail(s))
  BY <1>3, <1>4, ConcatAssoc
<1>6. starts_with(Append(p, Head(s)) \o Tail(s), Append(p, Head(s)))
  BY <1>3, <1>4, PrefixConcat
<1>7. Append(p, Head(s)) \o Tail(s) = q
  BY <1>1, <1>3, <1>4, <1>5
<1>. QED
  BY <1>2, <1>3, <1>6, <1>7 DEF s

(* The children of a position are pairwise apart.                           *)
LEMMA AppendApart ==
    ASSUME NEW p \in Path, NEW m \in Nibble, NEW n \in Nibble, NEW r \in Path,
           starts_with(r, Append(p, m)), starts_with(r, Append(p, n))
    PROVE  m = n
<1>1. Append(p, m) \in Path /\ Append(p, n) \in Path
  BY AppendPath
<1>2. starts_with(Append(p, m), Append(p, n)) \/ starts_with(Append(p, n), Append(p, m))
  BY <1>1, PrefixLinear
<1>3. Append(p, m) = Append(p, n)
  BY <1>1, <1>2, AppendNext, AppendPath
<1>. QED
  BY <1>3, AppendInj

-----------------------------------------------------------------------------
(* Least, longest and common *)

LEMMA NatMinimum ==
    ASSUME NEW S, S \subseteq Nat, S # {}
    PROVE  \E m \in S : \A n \in S : m <= n
<1>1. PICK m \in S : \A n \in S : ~(<<n, m>> \in OpToRel(<, Nat))
  BY NatLessThanWellFounded, WFMin
<1>2. \A n \in S : ~(n < m)
  BY <1>1 DEF OpToRel
<1>. QED
  BY <1>2

(* Among the members of D strictly above p there is one next to p.          *)
LEMMA NextAbove ==
    ASSUME NEW p \in Path, NEW D, D \subseteq Path, NEW e \in D, Below(p, e)
    PROVE  \E q \in D : Below(p, q) /\ \A r \in D : Below(p, r) => starts_with(q, r)
<1>. DEFINE A == {q \in D : Below(p, q)}
            S == {Len(p) - Len(q) : q \in A}
<1>1. \A q \in A : Len(p) \in Nat /\ Len(q) \in Nat /\ Len(q) <= Len(p)
  BY PathLen DEF Below, starts_with
<1>2. S \subseteq Nat /\ S # {}
  BY <1>1
<1>3. PICK m \in S : \A n \in S : m <= n
  BY <1>2, NatMinimum
<1>4. PICK q \in A : m = Len(p) - Len(q)
  BY <1>3
<1>5. ASSUME NEW r \in D, Below(p, r) PROVE starts_with(q, r)
  <2>0. r \in A /\ Len(p) - Len(r) \in S
    BY <1>5
  <2>1. r \in A /\ Len(r) <= Len(q)
    <3>1. Len(p) - Len(q) <= Len(p) - Len(r)
      BY <1>3, <1>4, <2>0
    <3>. QED
      BY <1>1, <2>0, <3>1
  <2>2. /\ Len(q) <= Len(p) /\ \A i \in 1..Len(q) : p[i] = q[i]
        /\ Len(r) <= Len(p) /\ \A i \in 1..Len(r) : p[i] = r[i]
    BY <1>5, <2>1, StartsWithPointwise DEF Below
  <2>3. \A i \in 1..Len(r) : q[i] = r[i]
    BY <1>1, <2>1, <2>2
  <2>. QED
    BY <2>1, <2>3, StartsWithPointwise
<1>. QED
  BY <1>5

LEMMA CommonPrefixLen ==
    ASSUME NEW a \in Path, NEW b \in Path
    PROVE  LET n == common_prefix_len(a, b)
           IN  /\ n \in Nat /\ n <= Len(a) /\ n <= Len(b)
               /\ Take(a, n) = Take(b, n)
               /\ n < Len(a) /\ n < Len(b) => a[n + 1] # b[n + 1]
<1>. DEFINE F == {i \in Nat : 1 <= i /\ i <= Len(a) /\ i <= Len(b) /\ a[i] # b[i]}
            IsIt(n) == /\ n <= Len(b)
                       /\ Take(a, n) = Take(b, n)
                       /\ n < Len(a) /\ n < Len(b) => a[n + 1] # b[n + 1]
<1>1. Len(a) \in Nat /\ Len(b) \in Nat
  BY PathLen
<1>2. ASSUME NEW n \in Nat, n <= Len(a), n <= Len(b), \A i \in 1..n : a[i] = b[i]
      PROVE  Take(a, n) = Take(b, n)
  <2>1. /\ Take(a, n) \in Path /\ Len(Take(a, n)) = n /\ \A i \in 1..n : Take(a, n)[i] = a[i]
        /\ Take(b, n) \in Path /\ Len(Take(b, n)) = n /\ \A i \in 1..n : Take(b, n)[i] = b[i]
    BY <1>2, TakeProperties
  <2>. QED
    BY <1>2, <2>1, SeqEqual DEF Path
<1>3. \E n \in 0..Len(a) : IsIt(n)
  <2>1. CASE F = {}
    <3>. DEFINE n == IF Len(a) <= Len(b) THEN Len(a) ELSE Len(b)
    <3>1. n \in Nat /\ n <= Len(a) /\ n <= Len(b) /\ ~(n < Len(a) /\ n < Len(b))
      BY <1>1
    <3>2. \A i \in 1..n : a[i] = b[i]
      BY <1>1, <2>1, <3>1
    <3>3. Take(a, n) = Take(b, n)
      BY <1>2, <3>1, <3>2
    <3>4. n \in 0..Len(a) /\ IsIt(n)
      BY <1>1, <3>1, <3>3
    <3>. QED
      BY <3>4
  <2>2. CASE F # {}
    <3>1. PICK m \in F : \A i \in F : m <= i
      BY <2>2, NatMinimum
    <3>2. m - 1 \in Nat /\ m - 1 <= Len(a) /\ m - 1 <= Len(b) /\ (m - 1) + 1 = m
      BY <1>1, <3>1
    <3>3. \A i \in 1..(m - 1) : a[i] = b[i]
      BY <1>1, <3>1
    <3>4. Take(a, m - 1) = Take(b, m - 1)
      BY <1>2, <3>2, <3>3
    <3>5. m - 1 \in 0..Len(a) /\ IsIt(m - 1)
      BY <1>1, <3>1, <3>2, <3>4
    <3>. QED
      BY <3>5
  <2>. QED
    BY <2>1, <2>2
<1>4. common_prefix_len(a, b) = CHOOSE n \in 0..Len(a) : IsIt(n)
  BY DEF common_prefix_len
<1>. HIDE DEF IsIt
<1>5. common_prefix_len(a, b) \in 0..Len(a) /\ IsIt(common_prefix_len(a, b))
  BY <1>3, <1>4
<1>. QED
  BY <1>1, <1>5 DEF IsIt

(* Two paths split into what they share and two rests that part.            *)
LEMMA CommonPrefixSplit ==
    ASSUME NEW a \in Path, NEW b \in Path
    PROVE  LET n == common_prefix_len(a, b)
           IN  /\ n \in Nat /\ n <= Len(a) /\ n <= Len(b)
               /\ Take(b, n) \in Path /\ Drop(a, n) \in Path /\ Drop(b, n) \in Path
               /\ a = Take(b, n) \o Drop(a, n)
               /\ b = Take(b, n) \o Drop(b, n)
               /\ Drop(a, n) # <<>> /\ Drop(b, n) # <<>> => Head(Drop(a, n)) # Head(Drop(b, n))
               /\ Drop(a, n) = <<>> <=> n = Len(a)
<1>. DEFINE n == common_prefix_len(a, b)
<1>1. /\ n \in Nat /\ n <= Len(a) /\ n <= Len(b)
      /\ Take(a, n) = Take(b, n)
      /\ n < Len(a) /\ n < Len(b) => a[n + 1] # b[n + 1]
  BY CommonPrefixLen
<1>. HIDE DEF n
<1>2. /\ Take(b, n) \in Path
      /\ Drop(a, n) \in Path /\ Len(Drop(a, n)) = Len(a) - n
      /\ \A i \in 1..(Len(a) - n) : Drop(a, n)[i] = a[n + i]
      /\ Drop(b, n) \in Path /\ Len(Drop(b, n)) = Len(b) - n
      /\ \A i \in 1..(Len(b) - n) : Drop(b, n)[i] = b[n + i]
  BY <1>1, TakeProperties, DropProperties
<1>3. a = Take(b, n) \o Drop(a, n) /\ b = Take(b, n) \o Drop(b, n)
  BY <1>1, TakeDrop
<1>4. Len(a) \in Nat /\ Len(b) \in Nat
  BY PathLen
<1>5. ASSUME NEW d \in Path PROVE d = <<>> <=> Len(d) = 0
  BY <1>5, EmptySeq DEF Path
<1>6. Drop(a, n) = <<>> <=> n = Len(a)
  BY <1>1, <1>2, <1>4, <1>5
<1>7. ASSUME Drop(a, n) # <<>>, Drop(b, n) # <<>>
      PROVE  Head(Drop(a, n)) # Head(Drop(b, n))
  <2>1. Len(a) - n > 0 /\ Len(b) - n > 0
    BY <1>1, <1>2, <1>4, <1>5, <1>7
  <2>2. Drop(a, n)[1] = a[n + 1] /\ Drop(b, n)[1] = b[n + 1]
    BY <1>1, <1>2, <1>4, <2>1
  <2>3. \A d \in Seq(Nibble) : d # <<>> => Head(d) = d[1]
    OBVIOUS
  <2>4. Head(Drop(a, n)) = Drop(a, n)[1] /\ Head(Drop(b, n)) = Drop(b, n)[1]
    BY <1>2, <1>7, <2>3 DEF Path
  <2>. QED
    BY <1>1, <1>4, <2>1, <2>2, <2>4
<1>. QED
  BY <1>1, <1>2, <1>3, <1>6, <1>7 DEF n

(* The first nibble of what is left of a path, and the rest.                *)
LEMMA DropStep ==
    ASSUME NEW q \in Path, NEW n \in Nat, n < Len(q)
    PROVE  /\ q[n + 1] \in Nibble
           /\ Drop(q, n + 1) \in Path
           /\ Drop(q, n) = <<q[n + 1]>> \o Drop(q, n + 1)
<1>1. Len(q) \in Nat /\ n + 1 \in Nat /\ n + 1 <= Len(q) /\ n <= Len(q)
  BY PathLen
<1>2. /\ Drop(q, n) \in Path /\ Len(Drop(q, n)) = Len(q) - n
      /\ \A i \in 1..(Len(q) - n) : Drop(q, n)[i] = q[n + i]
  BY <1>1, DropProperties
<1>. DEFINE k == n + 1
<1>3. /\ Drop(q, k) \in Path /\ Len(Drop(q, k)) = Len(q) - k
      /\ \A i \in 1..(Len(q) - k) : Drop(q, k)[i] = q[k + i]
  <2>1. k \in Nat /\ k <= Len(q)
    BY <1>1
  <2>. HIDE DEF k
  <2>. QED
    BY <2>1, DropProperties
<1>4. q[n + 1] \in Nibble
  <2>1. k \in 1..Len(q)
    BY <1>1
  <2>. HIDE DEF k
  <2>2. q[k] \in Nibble
    BY <2>1, ElementOfSeq DEF Path
  <2>. QED
    BY <2>2 DEF k
<1>. DEFINE one == <<q[n + 1]>>
<1>5. one \in Path /\ Len(one) = 1 /\ one[1] = q[n + 1]
  BY <1>4 DEF Path
<1>. HIDE DEF one
<1>6. /\ one \o Drop(q, n + 1) \in Path
      /\ Len(one \o Drop(q, n + 1)) = 1 + (Len(q) - (n + 1))
      /\ \A i \in 1..(1 + (Len(q) - (n + 1))) :
            (one \o Drop(q, n + 1))[i] =
               IF i <= 1 THEN one[i] ELSE Drop(q, n + 1)[i - 1]
  <2>. DEFINE rest == Drop(q, n + 1)
  <2>1. one \in Seq(Nibble) /\ rest \in Seq(Nibble)
    BY <1>3, <1>5 DEF Path
  <2>. HIDE DEF rest
  <2>2. /\ one \o rest \in Seq(Nibble)
        /\ Len(one \o rest) = Len(one) + Len(rest)
        /\ \A i \in 1..(Len(one) + Len(rest)) :
              (one \o rest)[i] = IF i <= Len(one) THEN one[i] ELSE rest[i - Len(one)]
    BY <2>1, ConcatProperties
  <2>. QED
    BY <1>3, <1>5, <2>2 DEF rest, Path
<1>7. ASSUME NEW i \in 1..(Len(q) - n)
      PROVE  Drop(q, n)[i] = (one \o Drop(q, n + 1))[i]
  <2>1. CASE i = 1
    BY <1>1, <1>2, <1>5, <1>6, <2>1
  <2>2. CASE i # 1
    <3>1. i - 1 \in 1..(Len(q) - (n + 1)) /\ (n + 1) + (i - 1) = n + i
      BY <1>1, <2>2
    <3>. QED
      BY <1>1, <1>2, <1>3, <1>6, <2>2, <3>1
  <2>. QED
    BY <2>1, <2>2
<1>8. Drop(q, n) = one \o Drop(q, n + 1)
  <2>1. Len(one \o Drop(q, n + 1)) = Len(q) - n
    BY <1>1, <1>6
  <2>. DEFINE left == Drop(q, n)
              right == one \o Drop(q, n + 1)
  <2>2. /\ left \in Seq(Nibble) /\ right \in Seq(Nibble) /\ Len(left) = Len(right)
        /\ \A i \in 1..Len(left) : left[i] = right[i]
    BY <1>1, <1>2, <1>6, <1>7, <2>1 DEF Path
  <2>. HIDE DEF left, right
  <2>3. left = right
    BY <2>2, SeqEqual
  <2>. QED
    BY <2>3 DEF left, right
<1>. QED
  BY <1>3, <1>4, <1>8 DEF one

-----------------------------------------------------------------------------
(* Shape *)

(* Positions, and the paths of Skips, are paths.                            *)
Paths(T) ==
    /\ DOMAIN T \subseteq Path
    /\ \A p \in DOMAIN T : T[p].type = "skip" => T[p].path \in Path

(* T and U differ at most at and below p.                                   *)
SameOutside(T, U, p) ==
    \A q \in Path : ~starts_with(q, p) =>
        /\ q \in DOMAIN T <=> q \in DOMAIN U
        /\ q \in DOMAIN T => U[q] = T[q]

(* What lies below q lies at or below a child of it.                        *)
Leads(T, q, r) == \E c \in DOMAIN T : IsParent(T, q, c) /\ starts_with(r, c)

LEMMA ConnectedLeads ==
    ASSUME NEW T, Connected(T), NEW q \in DOMAIN T, NEW r \in DOMAIN T, Below(r, q)
    PROVE  Leads(T, q, r)
  BY DEF Connected, Leads

LEMMA ConnectedIntro ==
    ASSUME NEW T, T = Null \/ <<>> \in DOMAIN T,
           \A q, r \in DOMAIN T : Below(r, q) => Leads(T, q, r)
    PROVE  Connected(T)
  BY DEF Connected, Leads

(* A child is strictly below its parent.                                    *)
LEMMA ParentAbove ==
    ASSUME NEW T, Paths(T), NEW q, NEW c, IsParent(T, q, c),
           T[q].type = "skip" => T[q].path # <<>>
    PROVE  q \in DOMAIN T /\ q \in Path /\ c \in Path /\ Below(c, q)
<1>1. q \in DOMAIN T /\ q \in Path
  BY DEF IsParent, Is, Paths
<1>2. CASE T[q].type = "fork" /\ \E n \in Nibble : c = Append(q, n)
  BY <1>1, <1>2, AppendPath DEF Below
<1>3. CASE T[q].type = "skip" /\ c = q \o T[q].path
  <2>1. T[q].path \in Path /\ T[q].path # <<>>
    BY <1>1, <1>3 DEF Paths
  <2>. QED
    BY <1>1, <1>3, <2>1, PrefixConcat DEF Below
<1>. QED
  BY <1>1, <1>2, <1>3 DEF IsParent, Is

(* Whether q is the parent of c depends on the node at q alone.             *)
LEMMA ParentSame ==
    ASSUME NEW T, NEW U, NEW q \in DOMAIN T, q \in DOMAIN U, U[q] = T[q], NEW c
    PROVE  IsParent(T, q, c) <=> IsParent(U, q, c)
  BY DEF IsParent, Is

LEMMA ReplaceConnected ==
    ASSUME NEW T, NEW U, NEW p \in DOMAIN T, p \in DOMAIN U,
           Paths(T), Paths(U), Connected(T), SameOutside(T, U, p),
           \A q, r \in DOMAIN U : starts_with(q, p) /\ Below(r, q) => Leads(U, q, r)
    PROVE  Connected(U)
<1>0. p \in Path /\ DOMAIN T \subseteq Path /\ DOMAIN U \subseteq Path
  BY DEF Paths
<1>1. <<>> \in DOMAIN U
  <2>1. <<>> \in DOMAIN T
    BY DEF Connected, Null
  <2>2. CASE p = <<>>
    BY <2>2
  <2>3. CASE p # <<>>
    <3>1. <<>> \in Path /\ ~starts_with(<<>>, p)
      BY <1>0, <2>3, PrefixEmpty
    <3>. QED
      BY <2>1, <3>1 DEF SameOutside
  <2>. QED
    BY <2>2, <2>3
<1>2. ASSUME NEW q \in DOMAIN U, NEW r \in DOMAIN U, Below(r, q), ~starts_with(q, p)
      PROVE  Leads(U, q, r)
  <2>1. q \in DOMAIN T /\ U[q] = T[q] /\ q \in Path /\ r \in Path
    BY <1>0, <1>2 DEF SameOutside
  <2>2. CASE starts_with(r, p)
    <3>1. Below(p, q)
      BY <1>0, <1>2, <2>1, <2>2, PrefixLinear, PrefixRefl DEF Below
    <3>2. PICK c \in DOMAIN T : IsParent(T, q, c) /\ starts_with(p, c)
      BY <2>1, <3>1, ConnectedLeads DEF Leads
    <3>3. c \in Path /\ starts_with(r, c)
      BY <1>0, <2>1, <2>2, <3>2, PrefixTrans
    <3>4. c \in DOMAIN U
      BY <1>0, <3>2, <3>3, PrefixAntisym DEF SameOutside
    <3>. QED
      BY <2>1, <3>2, <3>3, <3>4, ParentSame DEF Leads
  <2>3. CASE ~starts_with(r, p)
    <3>1. r \in DOMAIN T
      BY <2>1, <2>3 DEF SameOutside
    <3>2. PICK c \in DOMAIN T : IsParent(T, q, c) /\ starts_with(r, c)
      BY <1>2, <2>1, <3>1, ConnectedLeads DEF Leads
    <3>3. c \in Path /\ ~starts_with(c, p)
      BY <1>0, <2>1, <2>3, <3>2, PrefixTrans
    <3>4. c \in DOMAIN U
      BY <3>2, <3>3 DEF SameOutside
    <3>. QED
      BY <2>1, <3>2, <3>4, ParentSame DEF Leads
  <2>. QED
    BY <2>2, <2>3
<1>. QED
  BY <1>1, <1>2, ConnectedIntro

(* X is exempt in T, Y in U.                                                *)
LEMMA ReplaceSkips ==
    ASSUME NEW T, NEW U, NEW p \in DOMAIN T, p \in DOMAIN U, NEW X, NEW Y,
           Paths(T), Paths(U), Connected(T), SameOutside(T, U, p), SkipsLead(T, X),
           \A q \in DOMAIN T : ~starts_with(q, p) /\ q \in X => q \in Y,
           \A q \in DOMAIN U : starts_with(q, p) /\ U[q].type = "skip" =>
              U[q].path # <<>> /\ (q \in Y \/ ForkAt(U, q \o U[q].path)),
           \A q \in DOMAIN T :
              Is(T, q, "skip") /\ q \o T[q].path = p /\ q \notin Y => ForkAt(U, p)
    PROVE  SkipsLead(U, Y)
<1>0. p \in Path /\ DOMAIN T \subseteq Path /\ DOMAIN U \subseteq Path
  BY DEF Paths
<1>. SUFFICES ASSUME NEW q \in DOMAIN U, U[q].type = "skip", ~starts_with(q, p), q \notin Y
              PROVE  U[q].path # <<>> /\ ForkAt(U, q \o U[q].path)
  <2>1. ASSUME NEW q \in DOMAIN U, U[q].type = "skip", ~starts_with(q, p)
        PROVE  U[q].path # <<>>
    BY <1>0, <2>1 DEF SameOutside, SkipsLead
  <2>. QED
    BY <2>1 DEF SkipsLead
<1>1. /\ q \in DOMAIN T /\ U[q] = T[q] /\ T[q].type = "skip" /\ q \notin X
      /\ T[q].path \in Path /\ T[q].path # <<>>
  BY <1>0 DEF SameOutside, SkipsLead, Paths
<1>. DEFINE c == q \o T[q].path
<1>2. c \in Path /\ Below(c, q) /\ ForkAt(T, c) /\ c \in DOMAIN T
  BY <1>0, <1>1, PrefixConcat DEF Below, SkipsLead, ForkAt, Is
<1>3. IsParent(T, q, c)
  BY <1>1 DEF IsParent, Is
<1>. HIDE DEF c
<1>4. CASE ~starts_with(c, p)
  <2>1. c \in DOMAIN U /\ U[c] = T[c]
    BY <1>2, <1>4 DEF SameOutside
  <2>. QED
    BY <1>1, <1>2, <2>1 DEF ForkAt, Is, c
<1>5. CASE starts_with(c, p)
  <2>1. Below(p, q)
    BY <1>0, <1>1, <1>2, <1>5, PrefixLinear, PrefixRefl DEF Below
  <2>2. PICK d \in DOMAIN T : IsParent(T, q, d) /\ starts_with(p, d)
    BY <1>1, <2>1, ConnectedLeads DEF Leads
  <2>3. d = c
    BY <1>1, <2>2 DEF IsParent, Is, c
  <2>4. c = p
    BY <1>0, <1>2, <1>5, <2>2, <2>3, PrefixAntisym
  <2>. QED
    BY <1>1, <2>4 DEF c, Is
<1>. QED
  BY <1>4, <1>5

LEMMA ReplaceForks ==
    ASSUME NEW T, NEW U, NEW p \in DOMAIN T, p \in DOMAIN U, NEW X, NEW Y,
           Paths(T), Paths(U), SameOutside(T, U, p), ForksCrowded(T, X),
           \A q \in DOMAIN T : ~starts_with(q, p) /\ q \in X => q \in Y,
           \A q \in DOMAIN U \ Y : starts_with(q, p) /\ U[q].type = "fork" => Crowded(U, q)
    PROVE  ForksCrowded(U, Y)
<1>0. p \in Path /\ DOMAIN T \subseteq Path /\ DOMAIN U \subseteq Path
  BY DEF Paths
<1>. SUFFICES ASSUME NEW q \in DOMAIN U, q \notin Y, U[q].type = "fork", ~starts_with(q, p)
              PROVE  Crowded(U, q)
  BY DEF ForksCrowded
<1>1. q \in DOMAIN T /\ U[q] = T[q] /\ Crowded(T, q)
  BY <1>0 DEF SameOutside, ForksCrowded
<1>2. ASSUME NEW n \in Nibble, Append(q, n) \in DOMAIN T
      PROVE  Append(q, n) \in DOMAIN U
  <2>1. CASE Append(q, n) = p
    BY <2>1
  <2>2. CASE Append(q, n) # p
    <3>1. Append(q, n) \in Path /\ ~starts_with(Append(q, n), p)
      BY <1>0, <2>2, AppendPath, AppendNext
    <3>. QED
      BY <1>2, <3>1 DEF SameOutside
  <2>. QED
    BY <2>1, <2>2
<1>3. Children(T, q) \subseteq Children(U, q)
  BY <1>2 DEF Children
<1>. QED
  BY <1>1, <1>3 DEF Crowded

-----------------------------------------------------------------------------
(* Shape, node by node: what WellFormedBut asks of the node at q.           *)
Good(T, X, q) ==
    /\ \A r \in DOMAIN T : Below(r, q) => Leads(T, q, r)
    /\ T[q].type = "skip" =>
          T[q].path # <<>> /\ (q \in X \/ ForkAt(T, q \o T[q].path))
    /\ T[q].type = "fork" => q \in X \/ Crowded(T, q)

LEMMA ShapeGood ==
    ASSUME NEW T, NEW X, WellFormedBut(T, X), NEW q \in DOMAIN T
    PROVE  Good(T, X, q)
  BY ConnectedLeads DEF WellFormedBut, SkipsLead, ForksCrowded, Good

LEMMA GoodShape ==
    ASSUME NEW T, NEW X, T = Null \/ <<>> \in DOMAIN T, \A q \in DOMAIN T : Good(T, X, q)
    PROVE  WellFormedBut(T, X)
  BY ConnectedIntro DEF WellFormedBut, SkipsLead, ForksCrowded, Good

(* The subtree of T at a is that of U at b.                                 *)
Agree(T, a, U, b) ==
    \A r \in Path :
        /\ a \o r \in DOMAIN T <=> b \o r \in DOMAIN U
        /\ a \o r \in DOMAIN T => U[b \o r] = T[a \o r]

LEMMA AgreeSelf ==
    ASSUME NEW T, NEW U, NEW p \in Path,
           \A q \in Path : starts_with(q, p) =>
              (q \in DOMAIN T <=> q \in DOMAIN U) /\ (q \in DOMAIN T => U[q] = T[q])
    PROVE  Agree(T, p, U, p)
  BY PrefixConcat DEF Agree

(* A node's part of the shape depends on the subtree it heads.              *)
LEMMA GoodAgree ==
    ASSUME NEW T, NEW U, Paths(T), Paths(U), NEW X, NEW Y,
           NEW a \in DOMAIN T, NEW b \in Path, Agree(T, a, U, b), Good(T, X, a),
           a \in X => b \in Y
    PROVE  b \in DOMAIN U /\ Good(U, Y, b)
<1>1. a \in Path /\ DOMAIN T \subseteq Path /\ DOMAIN U \subseteq Path
  BY DEF Paths
<1>2. b \in DOMAIN U /\ U[b] = T[a]
  <2>1. a \o <<>> = a /\ b \o <<>> = b /\ <<>> \in Path
    BY <1>1, ConcatEmpty, EmptyPath
  <2>. QED
    BY <2>1 DEF Agree
<1>3. ASSUME NEW t \in Path
      PROVE  /\ a \o t \in DOMAIN T <=> b \o t \in DOMAIN U
             /\ a \o t \in DOMAIN T => U[b \o t] = T[a \o t]
  BY DEF Agree
<1>4. ASSUME NEW r \in DOMAIN U, Below(r, b)
      PROVE  Leads(U, b, r)
  <2>1. PICK s \in Path : r = b \o s /\ s # <<>>
    <3>1. r \in Path /\ starts_with(r, b) /\ r # b
      BY <1>1, <1>4 DEF Below
    <3>2. Drop(r, Len(b)) \in Path /\ b \o Drop(r, Len(b)) = r
      BY <3>1, PrefixSplit
    <3>3. b \o <<>> = b
      BY ConcatEmpty
    <3>. QED
      BY <3>1, <3>2, <3>3
  <2>2. a \o s \in DOMAIN T /\ Below(a \o s, a)
    <3>1. a \o s \in DOMAIN T
      BY <1>3, <2>1
    <3>2. starts_with(a \o s, a) /\ a \o s # a
      BY <1>1, <2>1, PrefixConcat
    <3>. QED
      BY <3>1, <3>2 DEF Below
  <2>3. PICK c \in DOMAIN T : IsParent(T, a, c) /\ starts_with(a \o s, c)
    BY <2>2 DEF Good, Leads
  <2>4. PICK t \in Path : c = a \o t /\ IsParent(U, b, b \o t)
    <3>1. CASE Is(T, a, "skip") /\ c = a \o T[a].path
      BY <1>2, <3>1 DEF Paths, IsParent, Is
    <3>2. CASE Is(T, a, "fork") /\ \E n \in Nibble : c = Append(a, n)
      <4>1. PICK n \in Nibble : c = Append(a, n)
        BY <3>2
      <4>2. <<n>> \in Path /\ c = a \o <<n>> /\ Append(b, n) = b \o <<n>>
        BY <1>1, <4>1, AppendPath
      <4>3. IsParent(U, b, Append(b, n))
        BY <1>2, <3>2 DEF IsParent, Is
      <4>. QED
        BY <4>2, <4>3
    <3>. QED
      BY <2>3, <3>1, <3>2 DEF IsParent
  <2>5. b \o t \in DOMAIN U /\ starts_with(r, b \o t)
    <3>1. starts_with(s, t)
      BY <1>1, <2>3, <2>4, PrefixUnderConcat
    <3>2. starts_with(b \o s, b \o t)
      BY <3>1, PrefixUnderConcat
    <3>. QED
      BY <1>3, <2>1, <2>4, <3>2
  <2>. QED
    BY <2>4, <2>5 DEF Leads
<1>5. ASSUME U[b].type = "skip"
      PROVE  U[b].path # <<>> /\ (b \in Y \/ ForkAt(U, b \o U[b].path))
  <2>1. T[a].path \in Path /\ U[b].path = T[a].path /\ T[a].type = "skip"
    BY <1>2, <1>5 DEF Paths
  <2>2. /\ a \o T[a].path \in DOMAIN T <=> b \o T[a].path \in DOMAIN U
        /\ a \o T[a].path \in DOMAIN T => U[b \o T[a].path] = T[a \o T[a].path]
    BY <1>3, <2>1
  <2>3. T[a].path # <<>> /\ (a \in X \/ ForkAt(T, a \o T[a].path))
    BY <2>1 DEF Good
  <2>. QED
    BY <2>1, <2>2, <2>3 DEF ForkAt, Is
<1>6. ASSUME U[b].type = "fork", b \notin Y
      PROVE  Crowded(U, b)
  <2>1. Crowded(T, a)
    BY <1>2, <1>6 DEF Good
  <2>2. ASSUME NEW n \in Nibble
        PROVE  Append(a, n) \in DOMAIN T <=> Append(b, n) \in DOMAIN U
    <3>1. <<n>> \in Path /\ Append(a, n) = a \o <<n>> /\ Append(b, n) = b \o <<n>>
      BY <1>1, AppendPath
    <3>. QED
      BY <1>3, <3>1
  <2>3. Children(T, a) = Children(U, b)
    BY <2>2 DEF Children
  <2>. QED
    BY <1>2, <2>1, <2>3 DEF Crowded
<1>. QED
  BY <1>2, <1>4, <1>5, <1>6 DEF Good

(* A tree whose subtree at p is replaced by one of the right shape.         *)
LEMMA ReplaceShape ==
    ASSUME NEW T, NEW U, NEW p \in DOMAIN T, p \in DOMAIN U, NEW X, NEW Y,
           Paths(T), Paths(U), WellFormedBut(T, X), SameOutside(T, U, p),
           \A q \in DOMAIN T : ~starts_with(q, p) /\ q \in X => q \in Y,
           \A q \in DOMAIN U : starts_with(q, p) => Good(U, Y, q),
           \A q \in DOMAIN T :
              Is(T, q, "skip") /\ q \o T[q].path = p /\ q \notin Y => ForkAt(U, p)
    PROVE  WellFormedBut(U, Y)
<1>1. Connected(T) /\ SkipsLead(T, X) /\ ForksCrowded(T, X)
  BY DEF WellFormedBut
<1>2. Connected(U)
  <2>1. \A q, r \in DOMAIN U : starts_with(q, p) /\ Below(r, q) => Leads(U, q, r)
    BY DEF Good
  <2>. QED
    BY <1>1, <2>1, ReplaceConnected
<1>3. SkipsLead(U, Y)
  <2>1. \A q \in DOMAIN U : starts_with(q, p) /\ U[q].type = "skip" =>
           U[q].path # <<>> /\ (q \in Y \/ ForkAt(U, q \o U[q].path))
    BY DEF Good
  <2>. QED
    BY <1>1, <2>1, ReplaceSkips
<1>4. ForksCrowded(U, Y)
  <2>1. \A q \in DOMAIN U \ Y : starts_with(q, p) /\ U[q].type = "fork" => Crowded(U, q)
    BY DEF Good
  <2>. QED
    BY <1>1, <2>1, ReplaceForks
<1>. QED
  BY <1>2, <1>3, <1>4 DEF WellFormedBut

(* Nothing lies below a Leaf or a Stub.                                     *)
LEMMA NothingBelow ==
    ASSUME NEW T, Connected(T), NEW p \in DOMAIN T, T[p].type \in {"leaf", "stub"},
           NEW r \in DOMAIN T
    PROVE  ~Below(r, p)
  BY ConnectedLeads DEF Leads, IsParent, Is

(* A node has one parent.                                                   *)
LEMMA OneParent ==
    ASSUME NEW T, Paths(T), Connected(T), SkipsLead(T, {r \in DOMAIN T : TRUE}),
           NEW p, NEW a, NEW b, IsParent(T, a, p), IsParent(T, b, p)
    PROVE  a = b
<1>1. /\ a \in DOMAIN T /\ a \in Path /\ p \in Path /\ Below(p, a)
      /\ b \in DOMAIN T /\ b \in Path /\ Below(p, b)
  BY ParentAbove DEF SkipsLead, IsParent, Is
<1>2. ASSUME NEW x \in DOMAIN T, NEW y \in DOMAIN T, x \in Path, y \in Path,
             IsParent(T, x, p), Below(p, x), Below(p, y), Below(y, x)
      PROVE  FALSE
  <2>1. PICK c \in DOMAIN T : IsParent(T, x, c) /\ starts_with(y, c)
    BY <1>2, ConnectedLeads DEF Leads
  <2>2. c \in Path /\ starts_with(p, c)
    BY <1>1, <1>2, <2>1, PrefixTrans DEF Paths, Below
  <2>3. c = p
    <3>1. CASE T[x].type = "skip"
      BY <1>2, <2>1, <3>1 DEF IsParent, Is
    <3>2. CASE T[x].type = "fork"
      <4>1. PICK m \in Nibble, n \in Nibble : p = Append(x, m) /\ c = Append(x, n)
        BY <1>2, <2>1, <3>2 DEF IsParent, Is
      <4>2. starts_with(p, Append(x, m)) /\ starts_with(p, Append(x, n))
        BY <1>1, <2>2, <4>1, PrefixRefl
      <4>3. m = n
        BY <1>1, <1>2, <4>2, AppendApart
      <4>. QED
        BY <4>1, <4>3
    <3>. QED
      BY <1>2, <3>1, <3>2 DEF IsParent, Is
  <2>. QED
    BY <1>1, <1>2, <2>1, <2>3, PrefixAntisym DEF Below
<1>3. starts_with(a, b) \/ starts_with(b, a)
  BY <1>1, PrefixLinear DEF Below
<1>. QED
  BY <1>1, <1>2, <1>3 DEF Below

-----------------------------------------------------------------------------
(* Subtrees *)

(* T is a tree over paths whose stubs carry hashes of H.                    *)
Typed(T, H) == DOMAIN T \subseteq Path /\ T \in [DOMAIN T -> Node(H)]

LEMMA TypedPaths == ASSUME NEW T, NEW H, Typed(T, H) PROVE Paths(T)
  BY DEF Typed, Paths, Node

(* The complete tries a partial one is cut from: no stubs, the right shape. *)
Whole(S) == Typed(S, {}) /\ WellFormed(S)

LEMMA WholeTypes ==
    ASSUME NEW S, Whole(S), NEW p \in DOMAIN S
    PROVE  p \in Path /\ S[p].type # "stub" /\ \A H : S[p] \in Node(H)
  BY DEF Whole, Typed, Node

LEMMA SubtreeDomain ==
    ASSUME NEW S, DOMAIN S \subseteq Path, NEW p \in Path
    PROVE  /\ DOMAIN Subtree(S, p) \subseteq Path
           /\ \A r \in Path : r \in DOMAIN Subtree(S, p) <=> p \o r \in DOMAIN S
           /\ \A r \in DOMAIN Subtree(S, p) : Subtree(S, p)[r] = S[p \o r]
<1>1. \A q \in DOMAIN S : starts_with(q, p) => Drop(q, Len(p)) \in Path
  BY PrefixSplit
<1>2. ASSUME NEW r \in Path, p \o r \in DOMAIN S
      PROVE  r \in DOMAIN Subtree(S, p)
  <2>1. starts_with(p \o r, p) /\ Drop(p \o r, Len(p)) = r
    BY PrefixConcat, DropConcat
  <2>. QED
    BY <1>2, <2>1 DEF Subtree
<1>3. ASSUME NEW r \in DOMAIN Subtree(S, p)
      PROVE  p \o r \in DOMAIN S
  <2>1. PICK q \in DOMAIN S : starts_with(q, p) /\ r = Drop(q, Len(p))
    BY DEF Subtree
  <2>. QED
    BY <2>1, PrefixSplit
<1>. QED
  BY <1>1, <1>2, <1>3 DEF Subtree

LEMMA SubtreeAgree ==
    ASSUME NEW S, DOMAIN S \subseteq Path, NEW p \in Path, NEW r \in Path
    PROVE  Agree(S, p \o r, Subtree(S, p), r)
<1>. SUFFICES ASSUME NEW t \in Path
              PROVE  /\ (p \o r) \o t \in DOMAIN S <=> r \o t \in DOMAIN Subtree(S, p)
                     /\ (p \o r) \o t \in DOMAIN S =>
                           Subtree(S, p)[r \o t] = S[(p \o r) \o t]
  BY DEF Agree
<1>1. (p \o r) \o t = p \o (r \o t)
  BY ConcatAssoc
<1>2. r \o t \in Path
  BY PrefixConcat
<1>. QED
  BY <1>1, <1>2, SubtreeDomain

LEMMA SubtreeWhole ==
    ASSUME NEW S, Whole(S), NEW p \in DOMAIN S
    PROVE  /\ Whole(Subtree(S, p))
           /\ <<>> \in DOMAIN Subtree(S, p)
           /\ Subtree(S, p)[<<>>] = S[p]
<1>. DEFINE U == Subtree(S, p)
<1>1. p \in Path /\ DOMAIN S \subseteq Path
  BY DEF Whole, Typed
<1>2. /\ DOMAIN U \subseteq Path
      /\ \A r \in Path : r \in DOMAIN U <=> p \o r \in DOMAIN S
      /\ \A r \in DOMAIN U : U[r] = S[p \o r]
  BY <1>1, SubtreeDomain
<1>3. <<>> \in DOMAIN U /\ U[<<>>] = S[p]
  BY <1>1, <1>2, ConcatEmpty, EmptyPath
<1>4. Typed(U, {})
  <2>1. \A r \in DOMAIN U : U[r] \in Node({})
    BY <1>2, WholeTypes
  <2>2. U = [r \in DOMAIN U |-> U[r]]
    BY DEF Subtree
  <2>. QED
    BY <1>2, <2>1, <2>2 DEF Typed
<1>5. ASSUME NEW r \in DOMAIN U
      PROVE  Good(U, {}, r)
  <2>1. r \in Path /\ p \o r \in DOMAIN S
    BY <1>2
  <2>2. Agree(S, p \o r, U, r)
    BY <1>1, <2>1, SubtreeAgree
  <2>3. Good(S, {}, p \o r)
    BY <2>1, ShapeGood DEF Whole, WellFormed
  <2>4. Paths(S) /\ Paths(U)
    BY <1>4, TypedPaths DEF Whole
  <2>. HIDE DEF U
  <2>. QED
    BY <2>1, <2>2, <2>3, <2>4, GoodAgree
<1>6. WellFormed(U)
  BY <1>3, <1>5, GoodShape DEF WellFormed
<1>. QED
  BY <1>3, <1>4, <1>6 DEF Whole

LEMMA WholeSubtree == ASSUME NEW S, Whole(S) PROVE Subtree(S, <<>>) = S
<1>1. DOMAIN S \subseteq Path /\ S = [r \in DOMAIN S |-> S[r]] /\ <<>> \in Path
  BY EmptyPath DEF Whole, Typed
<1>2. \A r \in Path : <<>> \o r = r
  BY ConcatEmpty
<1>3. /\ DOMAIN Subtree(S, <<>>) \subseteq Path
      /\ \A r \in Path : r \in DOMAIN Subtree(S, <<>>) <=> <<>> \o r \in DOMAIN S
      /\ \A r \in DOMAIN Subtree(S, <<>>) : Subtree(S, <<>>)[r] = S[<<>> \o r]
  BY <1>1, SubtreeDomain
<1>4. Subtree(S, <<>>) = [r \in DOMAIN Subtree(S, <<>>) |-> Subtree(S, <<>>)[r]]
  BY DEF Subtree
<1>. QED
  BY <1>1, <1>2, <1>3, <1>4

(* A subtree of a subtree is one of the tree.                               *)
LEMMA SubtreeSubtree ==
    ASSUME NEW S, DOMAIN S \subseteq Path, NEW p \in Path, NEW u \in Path
    PROVE  Subtree(Subtree(S, p), u) = Subtree(S, p \o u)
<1>. DEFINE A == Subtree(Subtree(S, p), u)
            B == Subtree(S, p \o u)
<1>0. p \o u \in Path /\ DOMAIN Subtree(S, p) \subseteq Path
  BY PrefixConcat, SubtreeDomain
<1>1. /\ DOMAIN A \subseteq Path
      /\ \A r \in Path : r \in DOMAIN A <=> u \o r \in DOMAIN Subtree(S, p)
      /\ \A r \in DOMAIN A : A[r] = Subtree(S, p)[u \o r]
  BY <1>0, SubtreeDomain
<1>2. /\ DOMAIN B \subseteq Path
      /\ \A r \in Path : r \in DOMAIN B <=> (p \o u) \o r \in DOMAIN S
      /\ \A r \in DOMAIN B : B[r] = S[(p \o u) \o r]
  BY <1>0, SubtreeDomain
<1>3. ASSUME NEW r \in Path
      PROVE  /\ r \in DOMAIN A <=> r \in DOMAIN B
             /\ r \in DOMAIN A => A[r] = B[r]
  <2>1. (p \o u) \o r = p \o (u \o r) /\ u \o r \in Path
    <3>1. (p \o u) \o r = p \o (u \o r)
      BY ConcatAssoc
    <3>2. u \o r \in Path
      BY PrefixConcat
    <3>. QED
      BY <3>1, <3>2
  <2>2. /\ u \o r \in DOMAIN Subtree(S, p) <=> p \o (u \o r) \in DOMAIN S
        /\ u \o r \in DOMAIN Subtree(S, p) => Subtree(S, p)[u \o r] = S[p \o (u \o r)]
    BY <2>1, SubtreeDomain
  <2>. QED
    BY <1>1, <1>2, <2>1, <2>2
<1>4. A = [r \in DOMAIN A |-> A[r]] /\ B = [r \in DOMAIN B |-> B[r]]
  BY DEF Subtree
<1>5. DOMAIN A = DOMAIN B
  BY <1>1, <1>2, <1>3
<1>. HIDE DEF A, B
<1>6. A = B
  BY <1>1, <1>3, <1>4, <1>5
<1>. QED
  BY <1>6 DEF A, B

-----------------------------------------------------------------------------
(* Decoding *)

(* What decode_node returns has the shape of the tree it decodes; it cuts   *)
(* that tree off at the nodes it makes Stubs of, which keep their places.   *)
Unknown(nodes, S) == {p \in Hashed(S) \ {<<>>} : Subtree(S, p) \notin nodes}

LEMMA DecodeDomain ==
    ASSUME NEW S, NEW nodes, DOMAIN S \subseteq Path
    PROVE  LET D == decode_node(nodes, S)
               K == Unknown(nodes, S)
           IN  /\ K \subseteq DOMAIN S \ {<<>>}
               /\ DOMAIN D = {q \in DOMAIN S : \A u \in K : ~Below(q, u)}
               /\ \A q \in DOMAIN D : D[q] = IF q \in K THEN Stub(Subtree(S, q)) ELSE S[q]
  BY DEF decode_node, Unknown, Hashed

LEMMA StubFields ==
    ASSUME NEW h
    PROVE  /\ Stub(h).type = "stub" /\ Stub(h).hash = h
           /\ \A H : h \in H => Stub(h) \in Node(H)
  BY DEF Stub, Node

LEMMA DecodeShape ==
    ASSUME NEW S, NEW nodes, Whole(S), <<>> \in DOMAIN S
    PROVE  LET D == decode_node(nodes, S)
           IN  /\ Typed(D, SubtreesOf(S))
               /\ <<>> \in DOMAIN D /\ D[<<>>] = S[<<>>]
               /\ WellFormed(D)
               /\ \A u \in StubsOf(D) : u \in Hashed(S) /\ D[u].hash = Subtree(S, u)
<1>. DEFINE D == decode_node(nodes, S)
            K == Unknown(nodes, S)
<1>1. DOMAIN S \subseteq Path /\ Connected(S) /\ SkipsLead(S, {}) /\ ForksCrowded(S, {})
  BY DEF Whole, Typed, WellFormed, WellFormedBut
<1>2. /\ K \subseteq Hashed(S) \ {<<>>} /\ Hashed(S) \subseteq DOMAIN S
      /\ DOMAIN D = {q \in DOMAIN S : \A u \in K : ~Below(q, u)}
      /\ \A q \in DOMAIN D : D[q] = IF q \in K THEN Stub(Subtree(S, q)) ELSE S[q]
  BY <1>1, DecodeDomain DEF Unknown, Hashed
<1>3. D = [q \in DOMAIN D |-> D[q]]
  BY DEF decode_node
<1>. HIDE DEF D, K
<1>4. <<>> \in DOMAIN D /\ D[<<>>] = S[<<>>]
  <2>1. \A u \in K : ~Below(<<>>, u)
    BY <1>1, <1>2, PrefixEmpty DEF Below
  <2>. QED
    BY <1>2, <2>1
<1>5. Typed(D, SubtreesOf(S))
  <2>1. ASSUME NEW q \in DOMAIN D PROVE D[q] \in Node(SubtreesOf(S))
    <3>1. q \in DOMAIN S
      BY <1>2
    <3>2. CASE q \in K
      <4>1. D[q] = Stub(Subtree(S, q)) /\ Subtree(S, q) \in SubtreesOf(S)
        BY <1>2, <3>1, <3>2 DEF SubtreesOf
      <4>. QED
        BY <4>1, StubFields
    <3>3. CASE q \notin K
      BY <1>2, <3>1, <3>3, WholeTypes
    <3>. QED
      BY <3>2, <3>3
  <2>. QED
    BY <1>1, <1>2, <1>3, <2>1 DEF Typed
<1>6. \A u \in StubsOf(D) : u \in Hashed(S) /\ D[u].hash = Subtree(S, u)
  <2>. SUFFICES ASSUME NEW u \in DOMAIN D, D[u].type = "stub"
                PROVE  u \in Hashed(S) /\ D[u].hash = Subtree(S, u)
    BY DEF StubsOf
  <2>1. u \in DOMAIN S /\ S[u].type # "stub"
    BY <1>2, WholeTypes
  <2>2. D[u] = Stub(Subtree(S, u)) /\ u \in Hashed(S)
    BY <1>2, <2>1
  <2>. QED
    BY <2>1, <2>2, StubFields
\* A node that has something below it in D, or could have, is not a Stub.
<1>7. ASSUME NEW q \in DOMAIN D, q \notin K, NEW c \in DOMAIN S, IsParent(S, q, c)
      PROVE  c \in DOMAIN D
  <2>1. q \in Path /\ c \in Path /\ q \in DOMAIN S /\ Below(c, q)
    <3>1. Paths(S)
      BY TypedPaths DEF Whole
    <3>. QED
      BY <1>1, <1>2, <1>7, <3>1, ParentAbove DEF SkipsLead
  <2>2. ASSUME NEW u \in K, Below(c, u)
        PROVE  FALSE
    <3>1. u \in DOMAIN S /\ u \in Path /\ ~Below(q, u) /\ u # q
      BY <1>1, <1>2, <1>7
    <3>2. Below(u, q)
      BY <2>1, <2>2, <3>1, PrefixLinear DEF Below
    <3>3. PICK d \in DOMAIN S : IsParent(S, q, d) /\ starts_with(u, d)
      BY <1>1, <2>1, <3>1, <3>2, ConnectedLeads DEF Leads
    <3>4. d \in Path /\ starts_with(c, d)
      BY <1>1, <2>1, <2>2, <3>1, <3>3, PrefixTrans DEF Below
    <3>5. d = c
      <4>1. CASE S[q].type = "skip"
        BY <1>7, <3>3, <4>1 DEF IsParent, Is
      <4>2. CASE S[q].type = "fork"
        <5>1. PICK m \in Nibble, n \in Nibble : c = Append(q, m) /\ d = Append(q, n)
          BY <1>7, <3>3, <4>2 DEF IsParent, Is
        <5>2. starts_with(c, Append(q, m)) /\ starts_with(c, Append(q, n))
          BY <2>1, <3>4, <5>1, PrefixRefl
        <5>3. m = n
          BY <2>1, <5>2, AppendApart
        <5>. QED
          BY <5>1, <5>3
      <4>. QED
        BY <1>7, <4>1, <4>2 DEF IsParent, Is
    <3>. QED
      BY <2>1, <2>2, <3>1, <3>3, <3>5, PrefixAntisym DEF Below
  <2>. QED
    BY <1>2, <2>2
<1>8. ASSUME NEW q \in DOMAIN D
      PROVE  Good(D, {}, q)
  <2>1. q \in DOMAIN S /\ q \in Path /\ Good(S, {}, q)
    BY <1>1, <1>2, ShapeGood DEF Whole, WellFormed
  <2>2. CASE q \in K
    <3>1. \A r \in DOMAIN D : ~Below(r, q)
      BY <1>2, <2>2
    <3>2. D[q].type = "stub"
      BY <1>2, <2>2, StubFields
    <3>. QED
      BY <3>1, <3>2 DEF Good
  <2>3. CASE q \notin K
    <3>0. D[q] = S[q]
      BY <1>2, <2>3
    <3>1. ASSUME NEW r \in DOMAIN D, Below(r, q)
          PROVE  Leads(D, q, r)
      <4>1. PICK c \in DOMAIN S : IsParent(S, q, c) /\ starts_with(r, c)
        BY <1>2, <2>1, <3>1 DEF Good, Leads
      <4>. QED
        BY <1>7, <2>1, <2>3, <3>0, <4>1, ParentSame DEF Leads
    <3>2. ASSUME D[q].type = "skip"
          PROVE  D[q].path # <<>> /\ ForkAt(D, q \o D[q].path)
      <4>. DEFINE c == q \o S[q].path
      <4>1. S[q].path # <<>> /\ c \in DOMAIN S /\ S[c].type = "fork"
        <5>1. ForkAt(S, c) /\ S[q].path # <<>>
          BY <2>1, <3>0, <3>2 DEF Good
        <5>. QED
          BY <5>1, WholeTypes DEF ForkAt, Is
      <4>2. IsParent(S, q, c)
        BY <2>1, <3>0, <3>2 DEF IsParent, Is
      <4>3. c \in DOMAIN D
        BY <1>7, <2>3, <4>1, <4>2
      <4>4. CASE c \in K
        <5>1. <<>> \in DOMAIN Subtree(S, c) /\ Subtree(S, c)[<<>>] = S[c]
          BY <4>1, SubtreeWhole
        <5>2. D[c] = Stub(Subtree(S, c))
          BY <1>2, <4>3, <4>4
        <5>. QED
          BY <3>0, <4>1, <4>3, <5>1, <5>2 DEF ForkAt, Is, Stub
      <4>5. CASE c \notin K
        BY <1>2, <3>0, <4>1, <4>3, <4>5 DEF ForkAt, Is
      <4>. QED
        BY <4>4, <4>5
    <3>3. ASSUME D[q].type = "fork"
          PROVE  Crowded(D, q)
      <4>1. Crowded(S, q)
        BY <2>1, <3>0, <3>3 DEF Good
      <4>2. ASSUME NEW n \in Nibble, Append(q, n) \in DOMAIN S
            PROVE  Append(q, n) \in DOMAIN D
        BY <1>7, <2>1, <2>3, <3>0, <3>3, <4>2 DEF IsParent, Is
      <4>3. Children(S, q) \subseteq Children(D, q)
        BY <4>2 DEF Children
      <4>. QED
        BY <3>0, <4>1, <4>3 DEF Crowded
    <3>. QED
      BY <3>1, <3>2, <3>3 DEF Good
  <2>. QED
    BY <2>2, <2>3
<1>9. WellFormed(D)
  BY <1>4, <1>8, GoodShape DEF WellFormed
<1>. QED
  BY <1>4, <1>5, <1>6, <1>9 DEF D

-----------------------------------------------------------------------------
(* Nodes *)

LEMMA NullTyped == \A H : Typed(Null, H)
  BY DEF Null, Typed

(* The nodes, by their constructors.                                        *)
LEMMA NodeFields ==
    ASSUME NEW H, NEW path \in Path, NEW value \in Value, NEW slot \in Value \cup {NoValue}
    PROVE  /\ Leaf(path, value) \in Node(H) /\ Leaf(path, value).type = "leaf"
           /\ Leaf(path, value).path = path /\ Leaf(path, value).value = value
           /\ Skip(path) \in Node(H) /\ Skip(path).type = "skip" /\ Skip(path).path = path
           /\ Fork(slot) \in Node(H) /\ Fork(slot).type = "fork" /\ Fork(slot).value = slot
  BY DEF Leaf, Skip, Fork, Node

LEMMA NodeTypes ==
    ASSUME NEW T, NEW H, Typed(T, H), NEW p \in DOMAIN T
    PROVE  /\ T[p].type \in {"leaf", "skip", "fork", "stub"}
           /\ T[p].type = "leaf" => T[p].path \in Path /\ T[p].value \in Value
           /\ T[p].type = "skip" => T[p].path \in Path
           /\ T[p].type = "fork" => T[p].value \in Value \cup {NoValue}
           /\ T[p].type = "stub" => T[p].hash \in H
  BY DEF Typed, Node

-----------------------------------------------------------------------------
(* What a tree binds *)

(* The node n at p binds k to v. *)
Gives(p, n, k, v) ==
    \/ n.type = "leaf" /\ k = p \o n.path /\ v = n.value
    \/ n.type = "fork" /\ n.value # NoValue /\ k = p /\ v = n.value

(* It does, or it is a Stub for a tree with a node that does. *)
Yields(p, n, k, v) ==
    \/ Gives(p, n, k, v)
    \/ n.type = "stub" /\ \E r \in DOMAIN n.hash : Gives(p \o r, n.hash[r], k, v)

Binds(T, k, v) == \E p \in DOMAIN T : Yields(p, T[p], k, v)

(* A tree that hangs together, over stubs for complete trees.               *)
Solid(T, H) == Typed(T, H) /\ Connected(T) /\ \A h \in H : Whole(h)

-----------------------------------------------------------------------------
(* One node *)

LEMMA GivesBelow ==
    ASSUME NEW H, NEW p \in Path, NEW n \in Node(H), NEW k, NEW v, Gives(p, n, k, v)
    PROVE  k \in Path /\ v \in Value /\ starts_with(k, p)
<1>1. CASE n.type = "leaf" /\ k = p \o n.path /\ v = n.value
  <2>1. n.path \in Path /\ n.value \in Value
    BY <1>1 DEF Node
  <2>. QED
    BY <1>1, <2>1, PrefixConcat
<1>2. CASE n.type = "fork" /\ n.value # NoValue /\ k = p /\ v = n.value
  <2>1. n.value \in Value
    BY <1>2 DEF Node
  <2>. QED
    BY <1>2, <2>1, PrefixRefl
<1>. QED
  BY <1>1, <1>2 DEF Gives

LEMMA YieldsBelow ==
    ASSUME NEW H, \A h \in H : Whole(h), NEW p \in Path, NEW n \in Node(H), NEW k, NEW v,
           Yields(p, n, k, v)
    PROVE  k \in Path /\ v \in Value /\ starts_with(k, p)
<1>1. CASE Gives(p, n, k, v)
  BY <1>1, GivesBelow
<1>2. CASE n.type = "stub" /\ \E r \in DOMAIN n.hash : Gives(p \o r, n.hash[r], k, v)
  <2>1. n.hash \in H
    BY <1>2 DEF Node
  <2>2. PICK r \in DOMAIN n.hash : Gives(p \o r, n.hash[r], k, v)
    BY <1>2
  <2>3. Whole(n.hash)
    BY <2>1
  <2>4. r \in Path /\ n.hash[r] \in Node({})
    BY <2>3, WholeTypes
  <2>5. p \o r \in Path /\ starts_with(p \o r, p)
    BY <2>4, PrefixConcat
  <2>6. k \in Path /\ v \in Value /\ starts_with(k, p \o r)
    BY <2>2, <2>4, <2>5, GivesBelow
  <2>. QED
    BY <2>5, <2>6, PrefixTrans
<1>. QED
  BY <1>1, <1>2 DEF Yields

(* What each kind of node gives.                                            *)
LEMMA LeafYields ==
    ASSUME NEW p, NEW k, NEW v, NEW path, NEW value
    PROVE  Yields(p, Leaf(path, value), k, v) <=> k = p \o path /\ v = value
  BY DEF Yields, Gives, Leaf

LEMMA SkipYields ==
    ASSUME NEW p, NEW k, NEW v, NEW path
    PROVE  ~Yields(p, Skip(path), k, v)
  BY DEF Yields, Gives, Skip

LEMMA ForkYields ==
    ASSUME NEW p, NEW k, NEW v, NEW slot
    PROVE  Yields(p, Fork(slot), k, v) <=> slot # NoValue /\ k = p /\ v = slot
  BY DEF Yields, Gives, Fork

LEMMA TypeYields ==
    ASSUME NEW p, NEW n, NEW k, NEW v
    PROVE  /\ n.type = "leaf" => (Yields(p, n, k, v) <=> k = p \o n.path /\ v = n.value)
           /\ n.type = "skip" => ~Yields(p, n, k, v)
           /\ n.type = "fork" => (Yields(p, n, k, v) <=> n.value # NoValue /\ k = p /\ v = n.value)
           /\ n.type = "stub" => (Yields(p, n, k, v) <=>
                                     \E r \in DOMAIN n.hash : Gives(p \o r, n.hash[r], k, v))
  BY DEF Yields, Gives

-----------------------------------------------------------------------------
(* One binding for a key *)

(* A node that gives k has nothing below it on the way to k.                *)
LEMMA GivesLast ==
    ASSUME NEW T, NEW H, Typed(T, H), Connected(T), NEW x \in Path,
           NEW p \in DOMAIN T, NEW q \in DOMAIN T, NEW k \in Path, NEW v,
           Gives(x \o p, T[p], k, v), starts_with(k, x \o q), Below(q, p)
    PROVE  FALSE
<1>1. p \in Path /\ q \in Path /\ x \o q \in Path /\ x \o p \in Path
  BY PrefixConcat DEF Typed
<1>2. T[p].type # "leaf"
  BY NothingBelow
<1>3. T[p].type = "fork" /\ k = x \o p
  BY <1>2 DEF Gives
<1>4. starts_with(p, q)
  BY <1>1, <1>3, PrefixUnderConcat
<1>. QED
  BY <1>1, <1>4, PrefixAntisym DEF Below

LEMMA GivesOnce ==
    ASSUME NEW T, NEW H, Typed(T, H), Connected(T), NEW x \in Path,
           NEW p \in DOMAIN T, NEW q \in DOMAIN T, NEW k, NEW v, NEW w,
           Gives(x \o p, T[p], k, v), Gives(x \o q, T[q], k, w)
    PROVE  p = q /\ v = w
<1>1. /\ p \in Path /\ q \in Path /\ x \o q \in Path /\ x \o p \in Path
      /\ T[p] \in Node(H) /\ T[q] \in Node(H)
  BY PrefixConcat DEF Typed
<1>2. k \in Path /\ starts_with(k, x \o p) /\ starts_with(k, x \o q)
  BY <1>1, GivesBelow
<1>3. starts_with(p, q) \/ starts_with(q, p)
  BY <1>1, <1>2, PrefixLinear, PrefixUnderConcat
<1>4. p = q
  BY <1>2, <1>3, GivesLast DEF Below
<1>5. v = w
  BY <1>4 DEF Gives
<1>. QED
  BY <1>4, <1>5

(* The node that yields k lies at or below any node on the way to k.        *)
LEMMA YieldsFrom ==
    ASSUME NEW T, NEW H, Solid(T, H), NEW p \in DOMAIN T, NEW q \in DOMAIN T,
           NEW k \in Path, NEW v, Yields(q, T[q], k, v), starts_with(k, p)
    PROVE  starts_with(q, p)
<1>1. p \in Path /\ q \in Path /\ T[q] \in Node(H)
  BY DEF Solid, Typed
<1>2. starts_with(k, q)
  BY <1>1, YieldsBelow DEF Solid
<1>3. CASE Below(p, q)
  <2>1. T[q].type \notin {"leaf", "stub"}
    BY <1>3, NothingBelow DEF Solid
  <2>2. T[q].type = "fork" /\ k = q
    BY <1>1, <2>1 DEF Yields, Gives
  <2>. QED
    BY <2>2
<1>. QED
  BY <1>1, <1>2, <1>3, PrefixLinear, PrefixRefl DEF Below

LEMMA YieldsOnce ==
    ASSUME NEW T, NEW H, Solid(T, H), NEW p \in DOMAIN T, NEW q \in DOMAIN T,
           NEW k, NEW v, NEW w, Yields(p, T[p], k, v), Yields(q, T[q], k, w)
    PROVE  p = q /\ v = w
<1>1. p \in Path /\ q \in Path /\ T[p] \in Node(H) /\ T[q] \in Node(H)
  BY DEF Solid, Typed
<1>2. k \in Path /\ starts_with(k, p) /\ starts_with(k, q)
  BY <1>1, YieldsBelow DEF Solid
<1>3. p = q
  BY <1>1, <1>2, YieldsFrom, PrefixAntisym
<1>4. CASE T[p].type = "stub"
  <2>1. Whole(T[p].hash)
    BY <1>1, <1>4 DEF Node, Solid
  <2>2. PICK a \in DOMAIN T[p].hash : Gives(p \o a, T[p].hash[a], k, v)
    BY <1>4, TypeYields
  <2>3. PICK b \in DOMAIN T[p].hash : Gives(p \o b, T[p].hash[b], k, w)
    BY <1>3, <1>4, TypeYields
  <2>4. Typed(T[p].hash, {}) /\ Connected(T[p].hash)
    BY <2>1 DEF Whole, WellFormed, WellFormedBut
  <2>5. v = w
    BY <1>1, <2>2, <2>3, <2>4, GivesOnce
  <2>. QED
    BY <1>3, <2>5
<1>5. CASE T[p].type # "stub"
  BY <1>3, <1>5 DEF Yields, Gives
<1>. QED
  BY <1>4, <1>5

-----------------------------------------------------------------------------
(* The relation and the function *)

(* The tree behind the stubs: each place has one node, loaded or hidden.    *)
LEMMA ExpandFields ==
    ASSUME NEW T, NEW H, Solid(T, H)
    PROVE  /\ \A q \in DOMAIN Expand(T) :
                 \/ q \in DOMAIN T /\ T[q].type # "stub" /\ Expand(T)[q] = T[q]
                 \/ \E p \in DOMAIN T, r \in Path :
                       /\ T[p].type = "stub" /\ r \in DOMAIN T[p].hash /\ q = p \o r
                       /\ Expand(T)[q] = T[p].hash[r]
           /\ \A q \in DOMAIN T :
                 T[q].type # "stub" => q \in DOMAIN Expand(T) /\ Expand(T)[q] = T[q]
           /\ \A p \in DOMAIN T : T[p].type = "stub" =>
                 \A r \in DOMAIN T[p].hash :
                    p \o r \in DOMAIN Expand(T) /\ Expand(T)[p \o r] = T[p].hash[r]
<1>. DEFINE stubs == StubsOf(T)
            hidden == UNION {{p \o r : r \in DOMAIN T[p].hash} : p \in stubs}
            above(q) == CHOOSE p \in stubs : starts_with(q, p)
            E == Expand(T)
<1>1. /\ DOMAIN E = (DOMAIN T \ stubs) \cup hidden
      /\ \A q \in DOMAIN T \ stubs : E[q] = T[q]
      /\ \A q \in hidden \ (DOMAIN T \ stubs) : E[q] = T[above(q)].hash[Drop(q, Len(above(q)))]
  BY DEF Expand
<1>2. \A p \in stubs : p \in Path /\ p \in DOMAIN T /\ Whole(T[p].hash)
  BY DEF Solid, Typed, Node, StubsOf
<1>3. ASSUME NEW p \in stubs, NEW r \in DOMAIN T[p].hash
      PROVE  r \in Path /\ p \o r \in DOMAIN E /\ E[p \o r] = T[p].hash[r]
  <2>1. r \in Path
    BY <1>2, <1>3, WholeTypes
  <2>2. p \in Path /\ p \o r \in Path /\ starts_with(p \o r, p)
    BY <1>2, <2>1, PrefixConcat
  <2>3. p \o r \notin DOMAIN T \ stubs
    <3>1. SUFFICES ASSUME p \o r \in DOMAIN T, p \o r # p PROVE FALSE
      BY <1>3
    <3>2. T[p].type = "stub"
      BY DEF StubsOf
    <3>. QED
      BY <1>2, <2>2, <3>1, <3>2, NothingBelow DEF Below, Solid
  <2>4. p \o r \in hidden
    BY <1>3
  <2>5. ASSUME NEW a \in stubs, starts_with(p \o r, a)
        PROVE  a = p
    <3>1. a \in DOMAIN T /\ p \in DOMAIN T /\ a \in Path /\ T[a].type = "stub" /\ T[p].type = "stub"
      BY <1>2 DEF StubsOf
    <3>2. starts_with(a, p) \/ starts_with(p, a)
      BY <2>2, <2>5, <3>1, PrefixLinear
    <3>. QED
      BY <3>1, <3>2, NothingBelow DEF Below, Solid
  <2>6. above(p \o r) = p
    BY <2>2, <2>5
  <2>7. Drop(p \o r, Len(p)) = r
    BY <2>1, <2>2, DropConcat
  <2>. HIDE DEF E, hidden, above
  <2>. QED
    BY <1>1, <2>1, <2>3, <2>4, <2>6, <2>7
<1>4. \A q \in hidden : \E p \in stubs : \E r \in DOMAIN T[p].hash : q = p \o r
  OBVIOUS
<1>5. \A p : p \in stubs <=> p \in DOMAIN T /\ T[p].type = "stub"
  BY DEF StubsOf
<1>. HIDE DEF stubs, hidden, above
<1>6. ASSUME NEW q \in DOMAIN E
      PROVE  \/ q \in DOMAIN T /\ T[q].type # "stub" /\ E[q] = T[q]
             \/ \E p \in DOMAIN T, r \in Path :
                   T[p].type = "stub" /\ r \in DOMAIN T[p].hash /\ q = p \o r /\ E[q] = T[p].hash[r]
  <2>1. CASE q \in DOMAIN T \ stubs
    BY <1>1, <1>5, <2>1
  <2>2. CASE q \in hidden
    <3>1. PICK p \in stubs : \E r \in DOMAIN T[p].hash : q = p \o r
      BY <1>4, <2>2
    <3>2. PICK r \in DOMAIN T[p].hash : q = p \o r
      BY <3>1
    <3>. QED
      BY <1>3, <1>5, <3>2
  <2>. QED
    BY <1>1, <2>1, <2>2
<1>. HIDE DEF E
<1>7. \A q \in DOMAIN T : T[q].type # "stub" => q \in DOMAIN E /\ E[q] = T[q]
  BY <1>1, <1>5
<1>8. \A p \in DOMAIN T : T[p].type = "stub" =>
         \A r \in DOMAIN T[p].hash : p \o r \in DOMAIN E /\ E[p \o r] = T[p].hash[r]
  BY <1>3, <1>5
<1>. QED
  BY <1>6, <1>7, <1>8 DEF E

LEMMA ExpandGives ==
    ASSUME NEW T, NEW H, Solid(T, H), NEW k, NEW v
    PROVE  Binds(T, k, v) <=> \E q \in DOMAIN Expand(T) : Gives(q, Expand(T)[q], k, v)
<1>. DEFINE E == Expand(T)
<1>0. \A p \in DOMAIN T : T[p] \in Node(H)
  BY DEF Solid, Typed
<1>1. ASSUME NEW p \in DOMAIN T, Yields(p, T[p], k, v)
      PROVE  \E q \in DOMAIN E : Gives(q, E[q], k, v)
  <2>1. CASE T[p].type = "stub"
    <3>1. PICK r \in DOMAIN T[p].hash : Gives(p \o r, T[p].hash[r], k, v)
      BY <1>1, <2>1, TypeYields
    <3>2. p \o r \in DOMAIN E /\ E[p \o r] = T[p].hash[r]
      BY <2>1, ExpandFields
    <3>. QED
      BY <3>1, <3>2
  <2>2. CASE T[p].type # "stub"
    <3>1. p \in DOMAIN E /\ E[p] = T[p]
      BY <2>2, ExpandFields
    <3>. QED
      BY <1>1, <2>2, <3>1 DEF Yields
  <2>. QED
    BY <2>1, <2>2
<1>2. ASSUME NEW q \in DOMAIN E, Gives(q, E[q], k, v)
      PROVE  \E p \in DOMAIN T : Yields(p, T[p], k, v)
  <2>1. CASE q \in DOMAIN T /\ T[q].type # "stub" /\ E[q] = T[q]
    BY <1>2, <2>1 DEF Yields
  <2>2. CASE \E p \in DOMAIN T, r \in Path :
                T[p].type = "stub" /\ r \in DOMAIN T[p].hash /\ q = p \o r /\ E[q] = T[p].hash[r]
    BY <1>2, <2>2 DEF Yields
  <2>. QED
    BY <2>1, <2>2, ExpandFields
<1>. QED
  BY <1>1, <1>2 DEF Binds

(* Contents as a function.                                                  *)
LEMMA ContentsGives ==
    ASSUME NEW S
    PROVE  /\ Contents(S) = [k \in DOMAIN Contents(S) |-> Contents(S)[k]]
           /\ \A k, v : (\E p \in DOMAIN S : Gives(p, S[p], k, v)) => k \in DOMAIN Contents(S)
           /\ \A k \in DOMAIN Contents(S) :
                 \E p \in DOMAIN S : Gives(p, S[p], k, Contents(S)[k])
<1>. DEFINE bindings == {p \in DOMAIN S : Binding(S, p)}
            at(k) == CHOOSE p \in bindings : KeyAt(S, p) = k
<1>1. /\ DOMAIN Contents(S) = {KeyAt(S, p) : p \in bindings}
      /\ \A k \in DOMAIN Contents(S) : Contents(S)[k] = S[at(k)].value
      /\ Contents(S) = [k \in DOMAIN Contents(S) |-> Contents(S)[k]]
  BY DEF Contents
<1>2. \A p \in bindings : Gives(p, S[p], KeyAt(S, p), S[p].value)
  BY DEF Gives, Binding, KeyAt
<1>3. \A p \in DOMAIN S : \A k, v : Gives(p, S[p], k, v) => p \in bindings /\ KeyAt(S, p) = k
  BY DEF Gives, Binding, KeyAt
<1>4. \A k \in DOMAIN Contents(S) : at(k) \in bindings /\ KeyAt(S, at(k)) = k
  BY <1>1
<1>. HIDE DEF bindings, at
<1>5. bindings \subseteq DOMAIN S
  BY DEF bindings
<1>6. \A k \in DOMAIN Contents(S) : Gives(at(k), S[at(k)], k, Contents(S)[k])
  BY <1>1, <1>2, <1>4
<1>. QED
  BY <1>1, <1>3, <1>4, <1>5, <1>6

Bindings(T) == Contents(Expand(T))

(* A map of the keys that T binds to what it binds them to.                 *)
LEMMA BindingsBind ==
    ASSUME NEW T, NEW H, Solid(T, H)
    PROVE  /\ Bindings(T) = [k \in DOMAIN Bindings(T) |-> Bindings(T)[k]]
           /\ \A k, v : Binds(T, k, v) <=> k \in DOMAIN Bindings(T) /\ v = Bindings(T)[k]
<1>1. Bindings(T) = [k \in DOMAIN Bindings(T) |-> Bindings(T)[k]]
  BY ContentsGives DEF Bindings
<1>2. ASSUME NEW k, NEW v, Binds(T, k, v)
      PROVE  k \in DOMAIN Bindings(T)
  BY <1>2, ExpandGives, ContentsGives DEF Bindings
<1>3. ASSUME NEW k \in DOMAIN Bindings(T)
      PROVE  Binds(T, k, Bindings(T)[k])
  BY ExpandGives, ContentsGives DEF Bindings
<1>4. ASSUME NEW k, NEW v, NEW w, Binds(T, k, v), Binds(T, k, w)
      PROVE  v = w
  BY <1>4, YieldsOnce DEF Binds
<1>5. ASSUME NEW k, NEW v
      PROVE  Binds(T, k, v) <=> k \in DOMAIN Bindings(T) /\ v = Bindings(T)[k]
  BY <1>2, <1>3, <1>4
<1>. QED
  BY <1>1, <1>5

-----------------------------------------------------------------------------
(* How a tree may bind differently from another *)

SameBinds(T, U) == \A k, v : Binds(U, k, v) <=> Binds(T, k, v)

Rebinds(T, U, key, value) ==
    \A k, v : Binds(U, k, v) <=> \/ k = key /\ v = value
                                 \/ k # key /\ Binds(T, k, v)

Unbinds(T, U, key) == \A k, v : Binds(U, k, v) <=> k # key /\ Binds(T, k, v)

LEMMA SameMap ==
    ASSUME NEW f, NEW g, f = [k \in DOMAIN f |-> f[k]], g = [k \in DOMAIN g |-> g[k]],
           \A k, v : k \in DOMAIN f /\ v = f[k] <=> k \in DOMAIN g /\ v = g[k]
    PROVE  f = g
<1>1. DOMAIN f = DOMAIN g
  OBVIOUS
<1>2. \A k \in DOMAIN f : f[k] = g[k]
  OBVIOUS
<1>. QED
  BY <1>1, <1>2

LEMMA SameBindings ==
    ASSUME NEW T, NEW U, NEW H, NEW K, Solid(T, H), Solid(U, K), SameBinds(T, U)
    PROVE  Bindings(U) = Bindings(T)
<1>1. \A k, v : k \in DOMAIN Bindings(U) /\ v = Bindings(U)[k]
                 <=> k \in DOMAIN Bindings(T) /\ v = Bindings(T)[k]
  BY BindingsBind DEF SameBinds
<1>2. /\ Bindings(T) = [k \in DOMAIN Bindings(T) |-> Bindings(T)[k]]
      /\ Bindings(U) = [k \in DOMAIN Bindings(U) |-> Bindings(U)[k]]
  BY BindingsBind
<1>. DEFINE f == Bindings(T)
            g == Bindings(U)
<1>. HIDE DEF f, g
<1>3. \A k, v : k \in DOMAIN g /\ v = g[k] <=> k \in DOMAIN f /\ v = f[k]
  BY <1>1 DEF f, g
<1>4. f = [k \in DOMAIN f |-> f[k]] /\ g = [k \in DOMAIN g |-> g[k]]
  BY <1>2 DEF f, g
<1>5. DOMAIN f = DOMAIN g /\ \A k \in DOMAIN f : f[k] = g[k]
  BY <1>3
<1>6. f = g
  BY <1>4, <1>5
<1>. QED
  BY <1>6 DEF f, g

LEMMA ReboundBindings ==
    ASSUME NEW T, NEW U, NEW H, NEW K, Solid(T, H), Solid(U, K),
           NEW key, NEW value, Rebinds(T, U, key, value)
    PROVE  Bindings(U) = Put(Bindings(T), key, value)
<1>. DEFINE P == Put(Bindings(T), key, value)
<1>0. P = [k \in DOMAIN P |-> P[k]]
  BY DEF Put
<1>1. /\ DOMAIN P = DOMAIN Bindings(T) \cup {key}
      /\ P[key] = value
      /\ \A k \in DOMAIN Bindings(T) : k # key => P[k] = Bindings(T)[k]
  BY DEF Put
<1>2. /\ \A k, v : Binds(U, k, v) <=> k \in DOMAIN Bindings(U) /\ v = Bindings(U)[k]
      /\ \A k, v : Binds(T, k, v) <=> k \in DOMAIN Bindings(T) /\ v = Bindings(T)[k]
  BY BindingsBind
<1>. DEFINE B == Bindings(U)
<1>. HIDE DEF P
<1>3. \A k, v : k \in DOMAIN Bindings(U) /\ v = Bindings(U)[k] <=> k \in DOMAIN P /\ v = P[k]
  BY <1>1, <1>2 DEF Rebinds
<1>4. B = [k \in DOMAIN B |-> B[k]]
  BY BindingsBind
<1>. HIDE DEF B
<1>5. \A k, v : k \in DOMAIN B /\ v = B[k] <=> k \in DOMAIN P /\ v = P[k]
  BY <1>3 DEF B
<1>6. B = P
  <2>1. DOMAIN B = DOMAIN P /\ \A k \in DOMAIN P : B[k] = P[k]
    BY <1>5
  <2>. QED
    BY <1>0, <1>4, <2>1
<1>. QED
  BY <1>6 DEF P, B

LEMMA UnboundBindings ==
    ASSUME NEW T, NEW U, NEW H, NEW K, Solid(T, H), Solid(U, K),
           NEW key, Unbinds(T, U, key)
    PROVE  Bindings(U) = Cut(Bindings(T), {key})
<1>. DEFINE P == Cut(Bindings(T), {key})
<1>0. P = [k \in DOMAIN P |-> P[k]]
  BY DEF Cut
<1>1. /\ DOMAIN P = DOMAIN Bindings(T) \ {key}
      /\ \A k \in DOMAIN P : P[k] = Bindings(T)[k]
  BY DEF Cut
<1>2. /\ \A k, v : Binds(U, k, v) <=> k \in DOMAIN Bindings(U) /\ v = Bindings(U)[k]
      /\ \A k, v : Binds(T, k, v) <=> k \in DOMAIN Bindings(T) /\ v = Bindings(T)[k]
  BY BindingsBind
<1>. DEFINE B == Bindings(U)
<1>. HIDE DEF P
<1>3. \A k, v : k \in DOMAIN Bindings(U) /\ v = Bindings(U)[k] <=> k \in DOMAIN P /\ v = P[k]
  BY <1>1, <1>2 DEF Unbinds
<1>4. B = [k \in DOMAIN B |-> B[k]]
  BY BindingsBind
<1>. HIDE DEF B
<1>5. \A k, v : k \in DOMAIN B /\ v = B[k] <=> k \in DOMAIN P /\ v = P[k]
  BY <1>3 DEF B
<1>6. B = P
  <2>1. DOMAIN B = DOMAIN P /\ \A k \in DOMAIN P : B[k] = P[k]
    BY <1>5
  <2>. QED
    BY <1>0, <1>4, <2>1
<1>. QED
  BY <1>6 DEF P, B

-----------------------------------------------------------------------------
(* Resolution *)

(* Cutting a complete tree leaves what it binds: the topmost unknown node   *)
(* above a place becomes a Stub for all there is below.                     *)
LEMMA TopmostPrefix ==
    ASSUME NEW K, K \subseteq Path, NEW r \in Path, NEW e \in K, starts_with(r, e)
    PROVE  \E u \in K : starts_with(r, u) /\ \A w \in K : ~Below(u, w)
<1>. DEFINE A == {w \in K : starts_with(r, w)}
            L == {Len(w) : w \in A}
<1>1. L \subseteq Nat /\ L # {}
  BY PathLen
<1>2. PICK m \in L : \A n \in L : m <= n
  BY <1>1, NatMinimum
<1>3. PICK u \in A : Len(u) = m
  BY <1>2
<1>4. ASSUME NEW w \in K, Below(u, w)
      PROVE  FALSE
  <2>1. u \in Path /\ w \in Path /\ starts_with(u, w) /\ u # w
    BY <1>3, <1>4 DEF Below
  <2>2. starts_with(r, w)
    BY <1>3, <2>1, PrefixTrans
  <2>3. m <= Len(w)
    BY <1>2, <1>4, <2>2
  <2>4. Len(u) <= Len(w) /\ Len(w) \in Nat /\ Len(u) \in Nat
    BY <1>3, <2>1, <2>3, PathLen
  <2>5. starts_with(w, u)
    BY <2>1, <2>4, StartsWithPointwise
  <2>. QED
    BY <2>1, <2>5, PrefixAntisym
<1>. QED
  BY <1>3, <1>4

LEMMA DecodeBinds ==
    ASSUME NEW S, NEW nodes, Whole(S), NEW p \in Path, NEW k, NEW v
    PROVE  LET D == decode_node(nodes, S)
           IN  (\E r \in DOMAIN D : Yields(p \o r, D[r], k, v)) <=>
                  \E r \in DOMAIN S : Gives(p \o r, S[r], k, v)
<1>. DEFINE D == decode_node(nodes, S)
            K == Unknown(nodes, S)
<1>0. DOMAIN S \subseteq Path
  BY DEF Whole, Typed
<1>1. /\ K \subseteq DOMAIN S \ {<<>>}
      /\ DOMAIN D = {q \in DOMAIN S : \A u \in K : ~Below(q, u)}
      /\ \A q \in DOMAIN D : D[q] = IF q \in K THEN Stub(Subtree(S, q)) ELSE S[q]
  BY <1>0, DecodeDomain
<1>. HIDE DEF D, K
<1>2. ASSUME NEW r \in DOMAIN D, Yields(p \o r, D[r], k, v)
      PROVE  \E q \in DOMAIN S : Gives(p \o q, S[q], k, v)
  <2>0. r \in DOMAIN S /\ r \in Path
    BY <1>0, <1>1
  <2>1. CASE r \in K
    <3>1. D[r].type = "stub" /\ D[r].hash = Subtree(S, r)
      BY <1>1, <2>1, StubFields
    <3>2. PICK t \in DOMAIN Subtree(S, r) : Gives((p \o r) \o t, Subtree(S, r)[t], k, v)
      BY <1>2, <3>1, TypeYields
    <3>3. t \in Path /\ r \o t \in DOMAIN S /\ Subtree(S, r)[t] = S[r \o t]
      BY <1>0, <2>0, SubtreeDomain
    <3>4. (p \o r) \o t = p \o (r \o t)
      BY <2>0, <3>3, ConcatAssoc
    <3>. QED
      BY <3>2, <3>3, <3>4
  <2>2. CASE r \notin K
    BY <1>1, <1>2, <2>0, <2>2, WholeTypes DEF Yields
  <2>. QED
    BY <2>1, <2>2
<1>3. ASSUME NEW r \in DOMAIN S, Gives(p \o r, S[r], k, v)
      PROVE  \E q \in DOMAIN D : Yields(p \o q, D[q], k, v)
  <2>0. r \in Path
    BY <1>0
  <2>1. CASE \E e \in K : starts_with(r, e)
    <3>1. PICK u \in K : starts_with(r, u) /\ \A w \in K : ~Below(u, w)
      BY <1>0, <1>1, <2>0, <2>1, TopmostPrefix
    <3>2. u \in Path /\ u \in DOMAIN D /\ D[u] = Stub(Subtree(S, u))
      BY <1>0, <1>1, <3>1
    <3>. DEFINE t == Drop(r, Len(u))
    <3>3. t \in Path /\ u \o t = r
      BY <2>0, <3>1, <3>2, PrefixSplit
    <3>. HIDE DEF t
    <3>4. t \in DOMAIN Subtree(S, u) /\ Subtree(S, u)[t] = S[r]
      BY <1>0, <3>2, <3>3, SubtreeDomain
    <3>5. (p \o u) \o t = p \o r
      BY <3>2, <3>3, ConcatAssoc
    <3>6. D[u].type = "stub" /\ D[u].hash = Subtree(S, u)
      BY <3>2, StubFields
    <3>7. Gives((p \o u) \o t, D[u].hash[t], k, v)
      BY <1>3, <3>4, <3>5, <3>6
    <3>. QED
      BY <3>2, <3>4, <3>6, <3>7 DEF Yields
  <2>2. CASE \A e \in K : ~starts_with(r, e)
    <3>1. r \in DOMAIN D
      BY <1>1, <2>2 DEF Below
    <3>2. r \notin K
      BY <2>0, <2>2, PrefixRefl
    <3>. QED
      BY <1>1, <1>3, <3>1, <3>2 DEF Yields
  <2>. QED
    BY <2>1, <2>2
<1>4. (\E r \in DOMAIN D : Yields(p \o r, D[r], k, v)) <=> \E r \in DOMAIN S : Gives(p \o r, S[r], k, v)
  BY <1>2, <1>3
<1>. QED
  BY <1>4 DEF D

-----------------------------------------------------------------------------
(* The one canonical tree with given bindings *)

(* Some depth no node of T lies beyond.                                     *)
Bounded(T) == \E d \in Nat : \A p \in DOMAIN T : Len(p) <= d

LEMMA BelowLen ==
    ASSUME NEW p \in Path, NEW q \in Path, Below(q, p)
    PROVE  Len(p) < Len(q)
<1>1. starts_with(q, p) /\ q # p /\ Len(p) \in Nat /\ Len(q) \in Nat
  BY PathLen DEF Below
<1>2. Len(p) <= Len(q) /\ \A i \in 1..Len(p) : q[i] = p[i]
  BY <1>1, StartsWithPointwise
<1>3. Len(p) = Len(q) => starts_with(p, q)
  BY <1>2, StartsWithPointwise
<1>. QED
  BY <1>1, <1>2, <1>3, PrefixAntisym

LEMMA Deepest ==
    ASSUME NEW T, DOMAIN T \subseteq Path, Bounded(T), NEW A, A \subseteq DOMAIN T, A # {}
    PROVE  \E q \in A : \A r \in A : ~Below(r, q)
<1>1. PICK d \in Nat : \A p \in DOMAIN T : Len(p) <= d
  BY DEF Bounded
<1>. DEFINE L == {d - Len(q) : q \in A}
<1>2. \A q \in A : q \in Path /\ Len(q) \in Nat /\ Len(q) <= d
  BY <1>1, PathLen
<1>3. L \subseteq Nat /\ L # {}
  BY <1>2
<1>4. PICK m \in L : \A n \in L : m <= n
  BY <1>3, NatMinimum
<1>5. PICK q \in A : m = d - Len(q)
  BY <1>4
<1>6. ASSUME NEW r \in A, Below(r, q)
      PROVE  FALSE
  <2>1. Len(q) < Len(r)
    BY <1>2, <1>6, BelowLen
  <2>2. m <= d - Len(r)
    BY <1>4
  <2>. QED
    BY <1>2, <1>5, <2>1, <2>2
<1>. QED
  BY <1>6

(* A finite set of paths has a longest one.                                 *)
LEMMA FiniteBounded ==
    ASSUME NEW T, DOMAIN T \subseteq Path, IsFiniteSet(DOMAIN T)
    PROVE  Bounded(T)
<1>1. PICK n \in Nat : ExistsSurjection(1..n, DOMAIN T)
  BY FS_NatSurjection
<1>2. PICK f \in [1..n -> DOMAIN T] : \A p \in DOMAIN T : \E i \in 1..n : f[i] = p
  BY <1>1 DEF ExistsSurjection, Surjection
<1>. DEFINE Bound(m, d) == \A i \in 1..m : Len(f[i]) <= d
            Q == {m \in 0..n : \A d \in Nat : ~Bound(m, d)}
<1>3. \A i \in 1..n : Len(f[i]) \in Nat
  BY PathLen
<1>4. Q = {}
  <2>. SUFFICES ASSUME Q # {} PROVE FALSE
    OBVIOUS
  <2>1. PICK m \in Q : \A k \in Q : m <= k
    <3>1. Q \subseteq Nat
      OBVIOUS
    <3>. HIDE DEF Q
    <3>. QED
      BY <3>1, NatMinimum
  <2>2. m \in 0..n /\ \A d \in Nat : ~Bound(m, d)
    BY <2>1
  <2>3. m # 0
    <3>1. Bound(0, 0)
      OBVIOUS
    <3>. QED
      BY <2>2, <3>1
  <2>4. m - 1 \in 0..n /\ m - 1 \notin Q
    <3>1. m \in Nat /\ m - 1 \in 0..n /\ ~(m <= m - 1)
      BY <2>2, <2>3
    <3>. HIDE DEF Q
    <3>. QED
      BY <2>1, <3>1
  <2>5. PICK d \in Nat : Bound(m - 1, d)
    <3>. HIDE DEF Bound
    <3>. QED
      BY <2>4
  <2>. DEFINE e == IF Len(f[m]) <= d THEN d ELSE Len(f[m])
  <2>6. e \in Nat /\ d <= e /\ Len(f[m]) <= e
    <3>1. Len(f[m]) \in Nat
      BY <1>3, <2>2, <2>3
    <3>2. d \in Nat
      OBVIOUS
    <3>. HIDE DEF Q, Bound
    <3>. QED
      BY <3>1, <3>2 DEF e
  <2>. HIDE DEF e
  <2>7. Bound(m, e)
    <3>. SUFFICES ASSUME NEW i \in 1..m PROVE Len(f[i]) <= e
      OBVIOUS
    <3>1. CASE i = m
      BY <2>6, <3>1
    <3>2. CASE i # m
      <4>1. i \in 1..(m - 1) /\ i \in 1..n
        BY <2>2, <3>2
      <4>2. Len(f[i]) <= d /\ Len(f[i]) \in Nat
        BY <1>3, <2>5, <4>1
      <4>. QED
        BY <2>6, <4>2
    <3>. QED
      BY <3>1, <3>2
  <2>. QED
    BY <2>2, <2>6, <2>7
<1>5. PICK d \in Nat : Bound(n, d)
  <2>. HIDE DEF Q
  <2>1. n \in 0..n /\ n \notin Q
    BY <1>4
  <2>. USE DEF Q
  <2>. HIDE DEF Bound
  <2>. QED
    BY <2>1
<1>. QED
  BY <1>2, <1>5 DEF Bounded

(* Every node has a key at or below it.                                     *)
LEMMA KeyBelow ==
    ASSUME NEW S, Whole(S), Bounded(S), NEW p \in DOMAIN S
    PROVE  \E k \in DOMAIN Contents(S) : starts_with(k, p)
<1>. DEFINE A == {q \in DOMAIN S : starts_with(q, p)}
<1>1. /\ DOMAIN S \subseteq Path /\ Typed(S, {}) /\ SkipsLead(S, {}) /\ ForksCrowded(S, {})
  BY DEF Whole, Typed, WellFormed, WellFormedBut
<1>2. A \subseteq DOMAIN S /\ p \in A
  BY <1>1, PrefixRefl
<1>. HIDE DEF A
<1>3. PICK q \in A : \A r \in A : ~Below(r, q)
  BY <1>1, <1>2, Deepest
<1>4. q \in DOMAIN S /\ q \in Path /\ starts_with(q, p) /\ p \in Path
  BY <1>1, <1>3 DEF A
<1>5. ASSUME NEW c \in DOMAIN S, Below(c, q)
      PROVE  FALSE
  <2>1. starts_with(c, q) /\ c \in Path
    BY <1>1, <1>5 DEF Below
  <2>2. starts_with(c, p)
    BY <1>4, <2>1, PrefixTrans
  <2>. QED
    BY <1>3, <1>5, <2>2 DEF A
<1>6. S[q].type \in {"leaf", "skip", "fork"}
  BY <1>1, <1>4, NodeTypes
<1>7. CASE S[q].type = "skip"
  <2>. DEFINE path == S[q].path
  <2>1. path # <<>> /\ path \in Path /\ q \o path \in DOMAIN S
    BY <1>1, <1>4, <1>7, NodeTypes DEF SkipsLead, ForkAt, Is
  <2>. HIDE DEF path
  <2>2. Below(q \o path, q)
    BY <1>4, <2>1, PrefixConcat DEF Below
  <2>. QED
    BY <1>5, <2>1, <2>2
<1>8. CASE S[q].type = "fork"
  <2>1. PICK n \in Nibble : Append(q, n) \in DOMAIN S
    BY <1>1, <1>4, <1>8 DEF ForksCrowded, Crowded, Children
  <2>2. Below(Append(q, n), q)
    BY <1>4, AppendPath DEF Below
  <2>. QED
    BY <1>5, <2>1, <2>2
<1>9. CASE S[q].type = "leaf"
  <2>. DEFINE path == S[q].path
  <2>1. path \in Path
    BY <1>1, <1>4, <1>9, NodeTypes
  <2>2. Gives(q, S[q], q \o path, S[q].value)
    BY <1>9 DEF Gives
  <2>3. q \o path \in DOMAIN Contents(S)
    BY <1>4, <2>2, ContentsGives
  <2>. HIDE DEF path
  <2>4. starts_with(q \o path, q) /\ q \o path \in Path
    BY <1>4, <2>1, PrefixConcat
  <2>5. starts_with(q \o path, p)
    BY <1>4, <2>4, PrefixTrans
  <2>. QED
    BY <2>3, <2>5
<1>. QED
  BY <1>6, <1>7, <1>8, <1>9

(* Where a key goes on from a node on the way to it.                        *)
LEMMA KeyNext ==
    ASSUME NEW S, Whole(S), NEW p \in DOMAIN S, NEW k \in DOMAIN Contents(S), starts_with(k, p)
    PROVE  /\ k \in Path /\ p \in Path
           /\ S[p].type \in {"leaf", "skip", "fork"}
           /\ S[p].type = "leaf" => k = p \o S[p].path /\ Contents(S)[k] = S[p].value
           /\ S[p].type = "skip" => starts_with(k, p \o S[p].path)
           /\ S[p].type = "fork" =>
                 \/ k = p /\ S[p].value # NoValue /\ Contents(S)[k] = S[p].value
                 \/ \E n \in Children(S, p) : starts_with(k, Append(p, n))
<1>. DEFINE v == Contents(S)[k]
<1>1. Typed(S, {}) /\ Solid(S, {}) /\ Connected(S)
  BY DEF Solid, Whole, WellFormed, WellFormedBut
<1>2. PICK g \in DOMAIN S : Gives(g, S[g], k, v)
  BY ContentsGives
<1>. HIDE DEF v
<1>3. /\ p \in Path /\ g \in Path /\ S[g] \in Node({})
      /\ S[p].type \in {"leaf", "skip", "fork"}
  BY <1>1, NodeTypes DEF Typed
<1>4. k \in Path /\ starts_with(k, g)
  BY <1>2, <1>3, GivesBelow
<1>5. starts_with(g, p)
  BY <1>1, <1>2, <1>4, YieldsFrom DEF Yields
<1>6. CASE g = p
  BY <1>2, <1>3, <1>4, <1>6 DEF Gives, v
<1>7. CASE g # p
  <2>1. Below(g, p)
    BY <1>5, <1>7 DEF Below
  <2>2. PICK c \in DOMAIN S : IsParent(S, p, c) /\ starts_with(g, c)
    BY <1>1, <2>1, ConnectedLeads DEF Leads
  <2>3. c \in Path /\ starts_with(k, c)
    BY <1>1, <1>3, <1>4, <2>2, PrefixTrans DEF Typed
  <2>4. CASE S[p].type = "fork"
    <3>1. PICK n \in Nibble : c = Append(p, n)
      BY <2>2, <2>4 DEF IsParent, Is
    <3>. QED
      BY <1>3, <1>4, <2>3, <2>4, <3>1 DEF Children
  <2>5. CASE S[p].type = "skip"
    <3>1. c = p \o S[p].path
      BY <2>2, <2>5 DEF IsParent, Is
    <3>. QED
      BY <1>3, <1>4, <2>3, <2>5, <3>1
  <2>6. S[p].type # "leaf"
    BY <2>2 DEF IsParent, Is
  <2>. QED
    BY <1>3, <2>4, <2>5, <2>6
<1>. QED
  BY <1>6, <1>7

(* The place where two keys part.                                           *)
LEMMA MeetLongest ==
    ASSUME NEW a \in Path, NEW b \in Path
    PROVE  /\ Meet(a, b) \in Path /\ starts_with(a, Meet(a, b)) /\ starts_with(b, Meet(a, b))
           /\ \A p \in Path : starts_with(a, p) /\ starts_with(b, p) => starts_with(Meet(a, b), p)
<1>. DEFINE n == common_prefix_len(a, b)
            m == Take(b, n)
            x == Drop(a, n)
            y == Drop(b, n)
<1>1. /\ n \in Nat /\ n <= Len(a) /\ n <= Len(b) /\ m \in Path /\ x \in Path /\ y \in Path
      /\ a = m \o x /\ b = m \o y
      /\ x # <<>> /\ y # <<>> => Head(x) # Head(y)
  BY CommonPrefixSplit
<1>2. Meet(a, b) = m
  BY CommonPrefixLen DEF Meet
<1>3. Len(m) = n
  <2>. HIDE DEF n
  <2>. QED
    BY <1>1, TakeProperties
<1>4. starts_with(a, m) /\ starts_with(b, m)
  <2>. HIDE DEF m, x, y
  <2>. QED
    BY <1>1, PrefixConcat
<1>5. x = Drop(a, Len(m)) /\ y = Drop(b, Len(m))
  BY <1>3
<1>. HIDE DEF n, m, x, y
<1>6. ASSUME NEW p \in Path, starts_with(a, p), starts_with(b, p)
      PROVE  starts_with(m, p)
  <2>1. starts_with(m, p) \/ Below(p, m)
    BY <1>1, <1>4, <1>6, PrefixLinear, PrefixRefl DEF Below
  <2>2. ASSUME Below(p, m) PROVE FALSE
    <3>. DEFINE h == Head(Drop(p, Len(m)))
    <3>1. h \in Nibble /\ starts_with(p, Append(m, h)) /\ Append(m, h) \in Path
      BY <1>1, <2>2, BelowAppend, AppendPath
    <3>2. Below(a, m) /\ Below(b, m)
      BY <1>1, <1>4, <1>6, <2>2, PrefixAntisym DEF Below
    <3>3. /\ x # <<>> /\ Head(x) \in Nibble /\ starts_with(a, Append(m, Head(x)))
          /\ y # <<>> /\ Head(y) \in Nibble /\ starts_with(b, Append(m, Head(y)))
      BY <1>1, <1>5, <3>2, BelowAppend
    <3>. HIDE DEF h
    <3>4. starts_with(a, Append(m, h)) /\ starts_with(b, Append(m, h))
      BY <1>6, <3>1, PrefixTrans
    <3>5. h = Head(x) /\ h = Head(y)
      BY <1>1, <3>1, <3>3, <3>4, AppendApart
    <3>. QED
      BY <1>1, <3>3, <3>5
  <2>. QED
    BY <2>1, <2>2
<1>. QED
  BY <1>1, <1>2, <1>4, <1>6

LEMMA MeetIs ==
    ASSUME NEW a \in Path, NEW b \in Path, NEW p \in Path, starts_with(a, p), starts_with(b, p),
           \A n \in Nibble : ~(starts_with(a, Append(p, n)) /\ starts_with(b, Append(p, n)))
    PROVE  Meet(a, b) = p
<1>. DEFINE m == Meet(a, b)
<1>1. m \in Path /\ starts_with(a, m) /\ starts_with(b, m) /\ starts_with(m, p)
  BY MeetLongest
<1>. HIDE DEF m
<1>2. ASSUME m # p PROVE FALSE
  <2>. DEFINE h == Head(Drop(m, Len(p)))
  <2>1. h \in Nibble /\ starts_with(m, Append(p, h)) /\ Append(p, h) \in Path
    BY <1>1, <1>2, BelowAppend, AppendPath DEF Below
  <2>. HIDE DEF h
  <2>2. starts_with(a, Append(p, h)) /\ starts_with(b, Append(p, h))
    BY <1>1, <2>1, PrefixTrans
  <2>. QED
    BY <2>1, <2>2
<1>. QED
  BY <1>2 DEF m

(* A Fork is where two of the keys part, and nothing else is.               *)
LEMMA ForkKeys ==
    ASSUME NEW S, Whole(S), Bounded(S), NEW p \in DOMAIN S, S[p].type = "fork"
    PROVE  \E a, b \in DOMAIN Contents(S) :
              a # b /\ starts_with(a, p) /\ starts_with(b, p) /\ Meet(a, b) = p
<1>1. DOMAIN S \subseteq Path /\ Typed(S, {}) /\ Crowded(S, p) /\ p \in Path
  BY DEF Whole, Typed, WellFormed, WellFormedBut, ForksCrowded
<1>2. \A n \in Children(S, p) :
        \E k \in DOMAIN Contents(S) : starts_with(k, Append(p, n)) /\ starts_with(k, p) /\ k \in Path
  <2>. SUFFICES ASSUME NEW n \in Children(S, p)
                PROVE  \E k \in DOMAIN Contents(S) :
                          starts_with(k, Append(p, n)) /\ starts_with(k, p) /\ k \in Path
    OBVIOUS
  <2>1. n \in Nibble /\ Append(p, n) \in DOMAIN S /\ Append(p, n) \in Path
    BY <1>1 DEF Children
  <2>2. PICK k \in DOMAIN Contents(S) : starts_with(k, Append(p, n))
    BY <2>1, KeyBelow
  <2>3. k \in Path
    BY <2>1, <2>2, KeyNext
  <2>4. starts_with(k, p)
    BY <1>1, <2>1, <2>2, <2>3, AppendPath, PrefixTrans
  <2>. QED
    BY <2>2, <2>3, <2>4
<1>3. CASE \E m, n \in Nibble : m # n /\ {m, n} \subseteq Children(S, p)
  <2>1. PICK m \in Nibble, n \in Nibble : m # n /\ m \in Children(S, p) /\ n \in Children(S, p)
    BY <1>3
  <2>2. PICK a \in DOMAIN Contents(S) :
          starts_with(a, Append(p, m)) /\ starts_with(a, p) /\ a \in Path
    BY <1>2, <2>1
  <2>3. PICK b \in DOMAIN Contents(S) :
          starts_with(b, Append(p, n)) /\ starts_with(b, p) /\ b \in Path
    BY <1>2, <2>1
  <2>4. \A h \in Nibble : ~(starts_with(a, Append(p, h)) /\ starts_with(b, Append(p, h)))
    BY <1>1, <2>1, <2>2, <2>3, AppendApart
  <2>5. Meet(a, b) = p
    BY <1>1, <2>2, <2>3, <2>4, MeetIs
  <2>6. a # b
    BY <1>1, <2>1, <2>2, <2>3, <2>4
  <2>. QED
    BY <2>2, <2>3, <2>5, <2>6
<1>4. CASE S[p].value # NoValue /\ Children(S, p) # {}
  <2>1. Gives(p, S[p], p, S[p].value)
    BY <1>4 DEF Gives
  <2>2. p \in DOMAIN Contents(S)
    BY <2>1, ContentsGives
  <2>3. PICK n \in Children(S, p) : TRUE
    BY <1>4
  <2>4. PICK b \in DOMAIN Contents(S) :
          starts_with(b, Append(p, n)) /\ starts_with(b, p) /\ b \in Path
    BY <1>2, <2>3
  <2>5. \A h \in Nibble : ~starts_with(p, Append(p, h))
    BY <1>1, AppendPath
  <2>6. Meet(p, b) = p /\ starts_with(p, p)
    BY <1>1, <2>4, <2>5, MeetIs, PrefixRefl
  <2>7. p # b
    BY <2>3, <2>4, <2>5 DEF Children
  <2>. QED
    BY <2>2, <2>4, <2>6, <2>7
<1>. QED
  BY <1>1, <1>3, <1>4 DEF Crowded

LEMMA MeetFork ==
    ASSUME NEW S, Whole(S), Bounded(S),
           NEW a \in DOMAIN Contents(S), NEW b \in DOMAIN Contents(S), a # b
    PROVE  Meet(a, b) \in DOMAIN S /\ S[Meet(a, b)].type = "fork"
<1>. DEFINE A == {q \in DOMAIN S : starts_with(a, q) /\ starts_with(b, q)}
<1>1. DOMAIN S \subseteq Path /\ Typed(S, {}) /\ SkipsLead(S, {}) /\ <<>> \in DOMAIN S
  <2>1. DOMAIN S # {}
    BY ContentsGives
  <2>. QED
    BY <2>1 DEF Whole, Typed, WellFormed, WellFormedBut, Connected, Null
<1>2. a \in Path /\ b \in Path
  <2>1. PICK p \in DOMAIN S : Gives(p, S[p], a, Contents(S)[a])
    BY ContentsGives
  <2>2. PICK q \in DOMAIN S : Gives(q, S[q], b, Contents(S)[b])
    BY ContentsGives
  <2>. QED
    BY <1>1, <2>1, <2>2, GivesBelow DEF Typed
<1>3. <<>> \in A
  BY <1>1, <1>2, PrefixEmpty
<1>4. A \subseteq DOMAIN S /\ A # {}
  BY <1>3
<1>. HIDE DEF A
<1>5. PICK q \in A : \A r \in A : ~Below(r, q)
  BY <1>1, <1>4, Deepest
<1>6. q \in DOMAIN S /\ q \in Path /\ starts_with(a, q) /\ starts_with(b, q)
  BY <1>1, <1>5 DEF A
<1>7. ASSUME NEW c \in DOMAIN S, Below(c, q), starts_with(a, c), starts_with(b, c)
      PROVE  FALSE
  BY <1>5, <1>7 DEF A
<1>8. S[q].type \in {"leaf", "skip", "fork"}
  BY <1>6, KeyNext
<1>9. CASE S[q].type = "leaf"
  <2>1. a = q \o S[q].path /\ b = q \o S[q].path
    BY <1>6, <1>9, KeyNext
  <2>. QED
    BY <2>1
<1>10. CASE S[q].type = "skip"
  <2>. DEFINE path == S[q].path
  <2>1. path # <<>> /\ path \in Path /\ q \o path \in DOMAIN S
    BY <1>1, <1>6, <1>10, NodeTypes DEF SkipsLead, ForkAt, Is
  <2>2. starts_with(a, q \o path) /\ starts_with(b, q \o path)
    BY <1>6, <1>10, KeyNext
  <2>. HIDE DEF path
  <2>3. Below(q \o path, q)
    BY <1>6, <2>1, PrefixConcat DEF Below
  <2>. QED
    BY <1>7, <2>1, <2>2, <2>3
<1>11. CASE S[q].type = "fork"
  <2>1. ASSUME NEW n \in Nibble, starts_with(a, Append(q, n)), starts_with(b, Append(q, n))
        PROVE  FALSE
    <3>1. a # q
      BY <1>6, <2>1, AppendPath
    <3>2. PICK m \in Children(S, q) : starts_with(a, Append(q, m))
      BY <1>6, <1>11, <3>1, KeyNext
    <3>3. m \in Nibble /\ Append(q, m) \in DOMAIN S
      BY <3>2 DEF Children
    <3>4. m = n
      BY <1>2, <1>6, <2>1, <3>2, <3>3, AppendApart
    <3>5. Below(Append(q, n), q)
      BY <1>6, AppendPath DEF Below
    <3>. QED
      BY <1>7, <2>1, <3>3, <3>4, <3>5
  <2>2. Meet(a, b) = q
    BY <1>2, <1>6, <2>1, MeetIs
  <2>. QED
    BY <1>6, <1>11, <2>2
<1>. QED
  BY <1>8, <1>9, <1>10, <1>11

(* The pieces that Canonical is put together from, by name.                 *)
Under(K, p) == {k \in K : starts_with(k, p)}

ForksOf(K) == UNION {{Meet(a, b) : b \in K \ {a}} : a \in K}

SlotsOf(K) ==
    {p \in {<<>>} : K # {}} \cup
    UNION {{Take(k, Len(f) + 1) : k \in Under(K, f) \ {f}} : f \in ForksOf(K)}

NextFork(K, p) == CHOOSE f \in ForksOf(K) : starts_with(f, p) /\ Under(K, f) = Under(K, p)

OnlyKey(K, p) == CHOOSE k \in K : Under(K, p) = {k}

ForkNode(b, p) == Fork(IF p \in DOMAIN b THEN b[p] ELSE NoValue)

SlotNode(b, p) ==
    IF \E k \in DOMAIN b : Under(DOMAIN b, p) = {k}
    THEN Leaf(Drop(OnlyKey(DOMAIN b, p), Len(p)), b[OnlyKey(DOMAIN b, p)])
    ELSE Skip(Drop(NextFork(DOMAIN b, p), Len(p)))

LEMMA CanonicalFields ==
    ASSUME NEW b
    PROVE  Canonical(b) = [p \in SlotsOf(DOMAIN b) \cup ForksOf(DOMAIN b) |->
                              IF p \in ForksOf(DOMAIN b) THEN ForkNode(b, p) ELSE SlotNode(b, p)]
  BY Zenon DEF Canonical, Under, ForksOf, SlotsOf, NextFork, OnlyKey, ForkNode, SlotNode

LEMMA ForksOfTree ==
    ASSUME NEW S, Whole(S), Bounded(S)
    PROVE  \A p : p \in ForksOf(DOMAIN Contents(S)) <=> p \in DOMAIN S /\ S[p].type = "fork"
<1>1. ASSUME NEW p \in ForksOf(DOMAIN Contents(S))
      PROVE  p \in DOMAIN S /\ S[p].type = "fork"
  <2>1. PICK a \in DOMAIN Contents(S), b \in DOMAIN Contents(S) : a # b /\ p = Meet(a, b)
    BY <1>1 DEF ForksOf
  <2>. QED
    BY <2>1, MeetFork
<1>2. ASSUME NEW p \in DOMAIN S, S[p].type = "fork"
      PROVE  p \in ForksOf(DOMAIN Contents(S))
  <2>1. PICK a \in DOMAIN Contents(S), b \in DOMAIN Contents(S) : a # b /\ p = Meet(a, b)
    BY <1>2, ForkKeys
  <2>. QED
    BY <2>1 DEF ForksOf
<1>. QED
  BY <1>1, <1>2

(* A node other than the root has a parent.                                 *)
LEMMA ParentExists ==
    ASSUME NEW S, Whole(S), NEW p \in DOMAIN S, p # <<>>
    PROVE  \E q \in DOMAIN S : IsParent(S, q, p)
<1>1. Paths(S) /\ Connected(S) /\ SkipsLead(S, {}) /\ DOMAIN S \subseteq Path
  BY TypedPaths DEF Whole, Typed, WellFormed, WellFormedBut
<1>2. <<>> \in DOMAIN S /\ p \in Path /\ Below(p, <<>>)
  BY <1>1, PrefixEmpty DEF Connected, Null, Below
<1>3. PICK q \in DOMAIN S : Below(p, q) /\ \A r \in DOMAIN S : Below(p, r) => starts_with(q, r)
  BY <1>1, <1>2, NextAbove
<1>4. PICK c \in DOMAIN S : IsParent(S, q, c) /\ starts_with(p, c)
  BY <1>1, <1>3, ConnectedLeads DEF Leads
<1>5. Below(c, q) /\ q \in Path /\ c \in Path
  BY <1>1, <1>4, ParentAbove DEF SkipsLead
<1>6. ~starts_with(q, c)
  BY <1>5, PrefixAntisym DEF Below
<1>7. p = c
  BY <1>3, <1>4, <1>6 DEF Below
<1>. QED
  BY <1>4, <1>7

LEMMA SlotsOfTree ==
    ASSUME NEW S, Whole(S), Bounded(S)
    PROVE  LET K == DOMAIN Contents(S)
           IN  SlotsOf(K) \cup ForksOf(K) = DOMAIN S
<1>. DEFINE K == DOMAIN Contents(S)
<1>1. DOMAIN S \subseteq Path /\ Typed(S, {}) /\ SkipsLead(S, {}) /\ Connected(S)
  BY DEF Whole, Typed, WellFormed, WellFormedBut
<1>2. \A p : p \in ForksOf(K) <=> p \in DOMAIN S /\ S[p].type = "fork"
  BY ForksOfTree
<1>3. ASSUME NEW f \in ForksOf(K), NEW k \in Under(K, f), k # f
      PROVE  Take(k, Len(f) + 1) \in DOMAIN S
  <2>1. f \in DOMAIN S /\ S[f].type = "fork" /\ k \in K /\ starts_with(k, f) /\ f \in Path
    BY <1>1, <1>2, <1>3 DEF Under
  <2>2. PICK n \in Children(S, f) : starts_with(k, Append(f, n))
    BY <1>3, <2>1, KeyNext
  <2>3. n \in Nibble /\ Append(f, n) \in DOMAIN S
    BY <2>2 DEF Children
  <2>4. Len(Append(f, n)) = Len(f) + 1
    BY <2>1, <2>3 DEF Path
  <2>5. Take(k, Len(f) + 1) = Append(f, n)
    BY <2>2, <2>4 DEF starts_with
  <2>. QED
    BY <2>3, <2>5
<1>4. K # {} => <<>> \in DOMAIN S
  <2>1. K # {} => DOMAIN S # {}
    BY ContentsGives
  <2>. QED
    BY <1>1, <2>1 DEF Connected, Null
<1>5. ASSUME NEW p \in DOMAIN S
      PROVE  p \in SlotsOf(K) \cup ForksOf(K)
  <2>1. PICK k \in K : starts_with(k, p)
    BY KeyBelow
  <2>2. CASE p = <<>>
    BY <2>1, <2>2 DEF SlotsOf
  <2>3. CASE p # <<>>
    <3>1. PICK q \in DOMAIN S : IsParent(S, q, p)
      BY <2>3, ParentExists
    <3>2. k \in Path /\ p \in Path /\ q \in Path
      BY <1>1, <2>1, KeyNext
    <3>3. CASE S[q].type = "fork"
      <4>1. PICK n \in Nibble : p = Append(q, n)
        BY <3>1, <3>3 DEF IsParent, Is
      <4>0. Len(p) = Len(q) + 1
        BY <3>2, <4>1 DEF Path
      <4>2. Len(p) = Len(q) + 1 /\ starts_with(p, q) /\ p # q
        BY <3>2, <4>0, <4>1, AppendPath
      <4>3. starts_with(k, q) /\ k # q
        BY <2>1, <3>2, <4>2, PrefixTrans, PrefixAntisym
      <4>4. Take(k, Len(q) + 1) = p
        BY <2>1, <4>2 DEF starts_with
      <4>5. q \in ForksOf(K) /\ k \in Under(K, q) \ {q}
        BY <1>2, <2>1, <3>1, <3>3, <4>3 DEF Under
      <4>. QED
        BY <4>4, <4>5 DEF SlotsOf
    <3>4. CASE S[q].type = "skip"
      <4>1. p = q \o S[q].path
        BY <3>1, <3>4 DEF IsParent, Is
      <4>2. S[p].type # "stub"
        BY WholeTypes
      <4>3. S[p].type = "fork"
        BY <1>1, <3>4, <4>1, <4>2 DEF SkipsLead, ForkAt, Is
      <4>. QED
        BY <1>2, <4>3
    <3>. QED
      BY <3>1, <3>3, <3>4 DEF IsParent, Is
  <2>. QED
    BY <2>2, <2>3
<1>. HIDE DEF K
<1>6. SlotsOf(K) \subseteq DOMAIN S
  BY <1>3, <1>4 DEF SlotsOf
<1>. QED
  BY <1>2, <1>5, <1>6 DEF K

(* A loaded tree of the right shape is what the recursion builds from its   *)
(* bindings: nothing of the order in which they came or went is left in it. *)
LEMMA WholeCanonical ==
    ASSUME NEW S, Whole(S), Bounded(S)
    PROVE  S = Canonical(Contents(S))
<1>. DEFINE b == Contents(S)
            K == DOMAIN b
            C == Canonical(b)
<1>1. /\ DOMAIN S \subseteq Path /\ Typed(S, {}) /\ SkipsLead(S, {}) /\ Connected(S)
      /\ S = [p \in DOMAIN S |-> S[p]]
  BY DEF Whole, Typed, WellFormed, WellFormedBut
<1>2. \A p : p \in ForksOf(K) <=> p \in DOMAIN S /\ S[p].type = "fork"
  BY ForksOfTree
<1>3. SlotsOf(K) \cup ForksOf(K) = DOMAIN S
  BY SlotsOfTree
<1>4. ASSUME NEW p \in DOMAIN S, S[p].type = "fork"
      PROVE  ForkNode(b, p) = S[p]
  <2>1. S[p] = Fork(S[p].value) /\ p \in Path
    BY <1>1, <1>4 DEF Typed, Node, Fork
  <2>2. CASE p \in K
    <3>1. \A n \in Nibble : ~starts_with(p, Append(p, n))
      BY <2>1, AppendPath
    <3>2. starts_with(p, p)
      BY <2>1, PrefixRefl
    <3>3. b[p] = S[p].value
      BY <1>4, <2>2, <3>1, <3>2, KeyNext DEF Children
    <3>. QED
      BY <2>1, <2>2, <3>3 DEF ForkNode
  <2>3. CASE p \notin K
    <3>1. ~Gives(p, S[p], p, S[p].value)
      BY <2>3, ContentsGives
    <3>2. S[p].value = NoValue
      BY <1>4, <3>1 DEF Gives
    <3>. QED
      BY <2>1, <2>3, <3>2 DEF ForkNode
  <2>. QED
    BY <2>2, <2>3
<1>5. ASSUME NEW p \in DOMAIN S, S[p].type = "leaf"
      PROVE  SlotNode(b, p) = S[p]
  <2>. DEFINE path == S[p].path
              key == p \o path
  <2>1. S[p] = Leaf(path, S[p].value) /\ p \in Path /\ path \in Path
    BY <1>1, <1>5 DEF Typed, Node, Leaf
  <2>2. \A k \in K : starts_with(k, p) => k = key /\ b[k] = S[p].value
    BY <1>5, KeyNext
  <2>3. PICK k \in K : starts_with(k, p)
    BY KeyBelow
  <2>4. Under(K, p) = {key} /\ key \in K /\ b[key] = S[p].value
    BY <2>2, <2>3 DEF Under
  <2>. HIDE DEF key, K, b
  <2>5. OnlyKey(K, p) = key
    BY <2>4 DEF OnlyKey
  <2>6. Drop(key, Len(p)) = path
    BY <2>1, DropConcat DEF key
  <2>7. SlotNode(b, p) = Leaf(Drop(OnlyKey(K, p), Len(p)), b[OnlyKey(K, p)])
    BY <2>4 DEF SlotNode, K
  <2>. QED
    BY <2>1, <2>4, <2>5, <2>6, <2>7
<1>6. ASSUME NEW p \in DOMAIN S, S[p].type = "skip"
      PROVE  SlotNode(b, p) = S[p]
  <2>. DEFINE path == S[p].path
              c == p \o path
  <2>1. /\ S[p] = Skip(path) /\ p \in Path /\ path \in Path /\ path # <<>>
        /\ c \in DOMAIN S /\ S[c].type = "fork" /\ c \in Path /\ starts_with(c, p)
    <3>1. S[p] = Skip(path) /\ p \in Path /\ path \in Path
      BY <1>1, <1>6 DEF Typed, Node, Skip
    <3>2. path # <<>> /\ ForkAt(S, c)
      BY <1>1, <1>6 DEF SkipsLead
    <3>3. c \in DOMAIN S /\ S[c].type = "fork"
      BY <3>2, WholeTypes DEF ForkAt, Is
    <3>. HIDE DEF path
    <3>4. c \in Path /\ starts_with(c, p)
      BY <3>1, PrefixConcat
    <3>. QED
      BY <3>1, <3>2, <3>3, <3>4 DEF path
  <2>2. \A k \in K : starts_with(k, p) <=> starts_with(k, c)
    <3>1. \A k \in K : starts_with(k, p) => starts_with(k, c)
      BY <1>6, KeyNext
    <3>2. \A k \in K : starts_with(k, c) => k \in Path
      BY <2>1, KeyNext
    <3>. HIDE DEF c, K
    <3>. QED
      BY <2>1, <3>1, <3>2, PrefixTrans
  <2>3. PICK x \in K, y \in K :
          x # y /\ starts_with(x, c) /\ starts_with(y, c) /\ Meet(x, y) = c
    BY <2>1, ForkKeys
  <2>4. x \in Path /\ y \in Path
    BY <2>1, <2>3, KeyNext
  <2>5. c \in ForksOf(K) /\ Under(K, c) = Under(K, p)
    BY <1>2, <2>1, <2>2 DEF Under
  <2>6. ~\E k \in K : Under(K, p) = {k}
    BY <2>2, <2>3 DEF Under
  <2>7. ASSUME NEW f \in ForksOf(K), starts_with(f, p), Under(K, f) = Under(K, p)
        PROVE  f = c
    <3>1. f \in DOMAIN S /\ f \in Path /\ Below(f, p)
      BY <1>1, <1>2, <1>6, <2>7 DEF Below
    <3>2. PICK d \in DOMAIN S : IsParent(S, p, d) /\ starts_with(f, d)
      BY <1>1, <3>1, ConnectedLeads DEF Leads
    <3>3. starts_with(f, c)
      BY <1>6, <3>2 DEF IsParent, Is
    <3>4. starts_with(x, f) /\ starts_with(y, f)
      BY <2>2, <2>3, <2>7 DEF Under
    <3>5. starts_with(c, f)
      BY <2>3, <2>4, <3>1, <3>4, MeetLongest
    <3>. QED
      BY <2>1, <3>1, <3>3, <3>5, PrefixAntisym
  <2>. HIDE DEF K, b
  <2>8. NextFork(K, p) = c
    BY <2>1, <2>5, <2>7 DEF NextFork
  <2>9. SlotNode(b, p) = Skip(Drop(NextFork(K, p), Len(p)))
    BY <2>6 DEF SlotNode, K
  <2>10. Drop(c, Len(p)) = path
    BY <2>1, DropConcat
  <2>. QED
    BY <2>1, <2>8, <2>9, <2>10
<1>7. C = [p \in DOMAIN S |-> IF p \in ForksOf(K) THEN ForkNode(b, p) ELSE SlotNode(b, p)]
  BY <1>3, CanonicalFields
<1>8. \A p \in DOMAIN S : S[p].type \in {"leaf", "skip", "fork"}
  BY <1>1, NodeTypes, WholeTypes
<1>. HIDE DEF C, K, b
<1>9. \A p \in DOMAIN S :
        (IF p \in ForksOf(K) THEN ForkNode(b, p) ELSE SlotNode(b, p)) = S[p]
  BY <1>2, <1>4, <1>5, <1>6, <1>8
<1>10. C = S
  BY <1>1, <1>7, <1>9
<1>. QED
  BY <1>10 DEF C, b

(* The tree behind the stubs has the shape that the tree in front has.      *)
LEMMA HiddenOnly ==
    ASSUME NEW T, NEW H, Solid(T, H), NEW p \in DOMAIN T, T[p].type = "stub",
           NEW q \in DOMAIN Expand(T), starts_with(q, p)
    PROVE  \E r \in DOMAIN T[p].hash : r \in Path /\ q = p \o r /\ Expand(T)[q] = T[p].hash[r]
<1>1. Connected(T) /\ \A t \in DOMAIN T : t \in Path
  BY DEF Solid, Typed
<1>2. CASE q \in DOMAIN T /\ T[q].type # "stub"
  <2>1. Below(q, p)
    BY <1>2 DEF Below
  <2>. QED
    BY <1>1, <1>2, <2>1, NothingBelow
<1>3. CASE \E t \in DOMAIN T, r \in Path :
             /\ T[t].type = "stub" /\ r \in DOMAIN T[t].hash /\ q = t \o r
             /\ Expand(T)[q] = T[t].hash[r]
  <2>1. PICK t \in DOMAIN T, r \in Path :
             /\ T[t].type = "stub" /\ r \in DOMAIN T[t].hash /\ q = t \o r
             /\ Expand(T)[q] = T[t].hash[r]
    BY <1>3
  <2>2. t \in Path /\ p \in Path /\ q \in Path /\ starts_with(q, t)
    BY <1>1, <2>1, PrefixConcat
  <2>3. ~Below(t, p) /\ ~Below(p, t)
    BY <1>1, <2>1, NothingBelow
  <2>4. t = p
    BY <2>2, <2>3, PrefixLinear DEF Below
  <2>. QED
    BY <2>1, <2>4
<1>. QED
  BY <1>2, <1>3, ExpandFields

LEMMA ExpandTyped ==
    ASSUME NEW T, NEW H, Solid(T, H)
    PROVE  Typed(Expand(T), {})
<1>. DEFINE E == Expand(T)
<1>1. \A t \in DOMAIN T : t \in Path /\ T[t] \in Node(H)
  BY DEF Solid, Typed
<1>2. ASSUME NEW q \in DOMAIN E
      PROVE  q \in Path /\ E[q] \in Node({})
  <2>1. CASE q \in DOMAIN T /\ T[q].type # "stub" /\ E[q] = T[q]
    BY <1>1, <2>1 DEF Node
  <2>2. CASE \E t \in DOMAIN T, r \in Path :
                T[t].type = "stub" /\ r \in DOMAIN T[t].hash /\ q = t \o r /\ E[q] = T[t].hash[r]
    <3>1. PICK t \in DOMAIN T, r \in Path :
                T[t].type = "stub" /\ r \in DOMAIN T[t].hash /\ q = t \o r /\ E[q] = T[t].hash[r]
      BY <2>2
    <3>2. Whole(T[t].hash)
      BY <1>1, <3>1, NodeTypes DEF Solid
    <3>3. T[t].hash[r] \in Node({})
      BY <3>1, <3>2, WholeTypes
    <3>. QED
      BY <1>1, <3>1, <3>3, PrefixConcat
  <2>. QED
    BY <2>1, <2>2, ExpandFields
<1>3. E = [q \in DOMAIN E |-> E[q]]
  BY DEF Expand
<1>. HIDE DEF E
<1>4. Typed(E, {})
  BY <1>2, <1>3 DEF Typed
<1>. QED
  BY <1>4 DEF E

LEMMA ExpandWhole ==
    ASSUME NEW T, NEW H, Solid(T, H), WellFormed(T), \A h \in H : <<>> \in DOMAIN h
    PROVE  Whole(Expand(T))
<1>. DEFINE E == Expand(T)
<1>1. /\ Connected(T) /\ SkipsLead(T, {}) /\ ForksCrowded(T, {}) /\ Typed(T, H)
      /\ \A t \in DOMAIN T : t \in Path
  BY DEF WellFormed, WellFormedBut, Solid, Typed
<1>2. \A t \in DOMAIN T : T[t].type # "stub" => t \in DOMAIN E /\ E[t] = T[t]
  BY ExpandFields
<1>3. ASSUME NEW t \in DOMAIN T, T[t].type = "stub"
      PROVE  /\ Whole(T[t].hash) /\ <<>> \in DOMAIN T[t].hash
             /\ t \in DOMAIN E /\ E[t] = T[t].hash[<<>>]
             /\ \A r \in DOMAIN T[t].hash : r \in Path /\ t \o r \in DOMAIN E
                                            /\ E[t \o r] = T[t].hash[r]
  <2>1. T[t].hash \in H
    BY <1>1, <1>3, NodeTypes
  <2>2. Whole(T[t].hash) /\ <<>> \in DOMAIN T[t].hash
    BY <2>1 DEF Solid
  <2>3. \A r \in DOMAIN T[t].hash : r \in Path /\ t \o r \in DOMAIN E /\ E[t \o r] = T[t].hash[r]
    BY <1>3, <2>2, ExpandFields, WholeTypes
  <2>4. t \o <<>> = t
    BY <1>1, ConcatEmpty
  <2>. QED
    BY <2>2, <2>3, <2>4
<1>4. Typed(E, {}) /\ Paths(E)
  BY ExpandTyped, TypedPaths
<1>5. \A t \in DOMAIN T : t \in DOMAIN E
  BY <1>2, <1>3
<1>6. ASSUME NEW q \in DOMAIN E
      PROVE  \E t \in DOMAIN T : starts_with(q, t) /\ (t = q \/ T[t].type = "stub")
  <2>1. CASE q \in DOMAIN T
    BY <1>1, <2>1, PrefixRefl
  <2>2. CASE \E t \in DOMAIN T, r \in Path :
                T[t].type = "stub" /\ r \in DOMAIN T[t].hash /\ q = t \o r
    BY <1>1, <2>2, PrefixConcat
  <2>. QED
    BY <2>1, <2>2, ExpandFields
<1>7. E = Null \/ <<>> \in DOMAIN E
  <2>1. CASE T = Null
    <3>1. DOMAIN T = {}
      BY <2>1 DEF Null
    <3>2. DOMAIN E = {}
      BY <1>6, <3>1
    <3>3. E = [q \in DOMAIN E |-> E[q]]
      BY <1>4 DEF Typed
    <3>4. E = [q \in {} |-> E[q]]
      BY <3>2, <3>3
    <3>. QED
      BY <3>4 DEF Null
  <2>2. CASE <<>> \in DOMAIN T
    BY <1>5, <2>2
  <2>. QED
    BY <1>1, <2>1, <2>2 DEF Connected
<1>. HIDE DEF E
<1>8. ASSUME NEW q \in DOMAIN T, T[q].type # "stub"
      PROVE  Good(E, {}, q)
  <2>1. q \in DOMAIN E /\ E[q] = T[q] /\ q \in Path
    BY <1>1, <1>2, <1>8
  <2>2. ASSUME NEW r \in DOMAIN E, Below(r, q)
        PROVE  Leads(E, q, r)
    <3>1. PICK t \in DOMAIN T : starts_with(r, t) /\ (t = r \/ T[t].type = "stub")
      BY <1>6
    <3>2. r \in Path /\ t \in Path /\ starts_with(r, q) /\ r # q
      BY <1>1, <1>4, <2>2 DEF Typed, Below
    <3>3. Below(t, q)
      <4>1. starts_with(t, q) \/ starts_with(q, t)
        BY <2>1, <3>1, <3>2, PrefixLinear
      <4>2. t # q
        BY <1>8, <3>1, <3>2
      <4>3. CASE starts_with(q, t)
        <5>1. Below(q, t)
          BY <4>2, <4>3 DEF Below
        <5>2. t = r
          BY <1>1, <3>1, <5>1, NothingBelow
        <5>. QED
          BY <2>1, <3>2, <4>3, <5>2, PrefixAntisym
      <4>. QED
        BY <4>1, <4>2, <4>3 DEF Below
    <3>4. PICK c \in DOMAIN T : IsParent(T, q, c) /\ starts_with(t, c)
      BY <1>1, <3>3, ConnectedLeads DEF Leads
    <3>5. c \in DOMAIN E /\ IsParent(E, q, c)
      BY <1>5, <2>1, <3>4, ParentSame
    <3>6. starts_with(r, c)
      BY <1>1, <3>1, <3>2, <3>4, PrefixTrans
    <3>. QED
      BY <3>5, <3>6 DEF Leads
  <2>3. E[q].type = "skip" => E[q].path # <<>> /\ ForkAt(E, q \o E[q].path)
    <3>. SUFFICES ASSUME T[q].type = "skip" PROVE T[q].path # <<>> /\ ForkAt(E, q \o T[q].path)
      BY <2>1
    <3>. DEFINE c == q \o T[q].path
    <3>1. T[q].path # <<>> /\ ForkAt(T, c)
      BY <1>1 DEF SkipsLead
    <3>2. CASE Is(T, c, "fork")
      BY <1>2, <3>1, <3>2 DEF ForkAt, Is
    <3>3. CASE Is(T, c, "stub") /\ Is(T[c].hash, <<>>, "fork")
      BY <1>3, <3>1, <3>3 DEF ForkAt, Is
    <3>. QED
      BY <3>1, <3>2, <3>3 DEF ForkAt
  <2>4. E[q].type = "fork" => Crowded(E, q)
    <3>. SUFFICES ASSUME T[q].type = "fork" PROVE Crowded(E, q)
      BY <2>1
    <3>1. Crowded(T, q)
      BY <1>1 DEF ForksCrowded
    <3>2. Children(T, q) \subseteq Children(E, q)
      BY <1>5 DEF Children
    <3>. QED
      BY <2>1, <3>1, <3>2 DEF Crowded
  <2>. QED
    BY <2>2, <2>3, <2>4 DEF Good
<1>9. ASSUME NEW p \in DOMAIN T, T[p].type = "stub", NEW s \in DOMAIN T[p].hash
      PROVE  Good(E, {}, p \o s)
  <2>. DEFINE h == T[p].hash
  <2>1. Whole(h) /\ Paths(h) /\ Good(h, {}, s) /\ s \in Path /\ p \in Path /\ p \o s \in Path
    <3>1. Whole(h) /\ s \in Path /\ p \in Path
      BY <1>1, <1>3, <1>9
    <3>. HIDE DEF h
    <3>. QED
      BY <1>9, <3>1, TypedPaths, ShapeGood, PrefixConcat DEF Whole, WellFormed, h
  <2>2. ASSUME NEW t \in Path
        PROVE  /\ s \o t \in DOMAIN h <=> (p \o s) \o t \in DOMAIN E
               /\ s \o t \in DOMAIN h => E[(p \o s) \o t] = h[s \o t]
    <3>1. (p \o s) \o t = p \o (s \o t) /\ s \o t \in Path
      <4>1. s \in Path /\ p \in Path
        BY <2>1
      <4>2. (p \o s) \o t = p \o (s \o t)
        BY <4>1, ConcatAssoc
      <4>3. s \o t \in Path
        BY <4>1, PrefixConcat
      <4>. QED
        BY <4>2, <4>3
    <3>2. s \o t \in DOMAIN h => p \o (s \o t) \in DOMAIN E /\ E[p \o (s \o t)] = h[s \o t]
      BY <1>3, <1>9
    <3>3. ASSUME p \o (s \o t) \in DOMAIN E PROVE s \o t \in DOMAIN h
      <4>1. starts_with(p \o (s \o t), p)
        BY <2>1, <3>1, PrefixConcat
      <4>. DEFINE q == p \o (s \o t)
      <4>2. PICK r \in DOMAIN h : r \in Path /\ q = p \o r
        <5>1. q \in DOMAIN Expand(T) /\ starts_with(q, p)
          BY <3>3, <4>1 DEF E
        <5>. HIDE DEF q
        <5>. QED
          BY <1>9, <5>1, HiddenOnly
      <4>3. r = s \o t
        BY <2>1, <3>1, <4>2, ConcatCancel
      <4>. QED
        BY <4>3
    <3>. QED
      BY <3>1, <3>2, <3>3
  <2>. HIDE DEF h
  <2>3. Agree(h, s, E, p \o s)
    BY <2>2 DEF Agree
  <2>4. s \in DOMAIN h
    BY <1>9 DEF h
  <2>. QED
    BY <1>4, <2>1, <2>3, <2>4, GoodAgree
<1>10. \A q \in DOMAIN E : Good(E, {}, q)
  <2>. SUFFICES ASSUME NEW q \in DOMAIN E PROVE Good(E, {}, q)
    OBVIOUS
  <2>1. CASE q \in DOMAIN T /\ T[q].type # "stub"
    BY <1>8, <2>1
  <2>2. CASE \E p \in DOMAIN T, r \in Path :
                T[p].type = "stub" /\ r \in DOMAIN T[p].hash /\ q = p \o r
    BY <1>9, <2>2
  <2>. QED
    BY <2>1, <2>2, ExpandFields DEF E
<1>11. WellFormed(E)
  BY <1>7, <1>10, GoodShape DEF WellFormed
<1>. QED
  BY <1>4, <1>11 DEF Whole, E

(* So the root of a well-shaped trie is that of its bindings.               *)
LEMMA RootOfBindings ==
    ASSUME NEW T, NEW H, Solid(T, H), WellFormed(T), Bounded(Expand(T)),
           \A h \in H : <<>> \in DOMAIN h
    PROVE  Expand(T) = Canonical(Bindings(T))
  BY ExpandWhole, WholeCanonical DEF Bindings

-----------------------------------------------------------------------------
(* What each edit does to the shape of the tree: it rewrites the subtree   *)
(* at one position, the new subtree has the right shape, and ReplaceShape   *)
(* carries that to the tree.                                                *)

(* U has the stubs of T, or fewer, and all of them where they were.         *)
StubsKept(T, U) == \A q \in StubsOf(U) : q \in StubsOf(T) /\ U[q] = T[q]

LEMMA PutFields ==
    ASSUME NEW T, NEW p, NEW node
    PROVE  /\ DOMAIN Put(T, p, node) = DOMAIN T \cup {p}
           /\ Put(T, p, node)[p] = node
           /\ \A q \in DOMAIN T : q # p => Put(T, p, node)[q] = T[q]
  BY DEF Put

LEMMA PutTyped ==
    ASSUME NEW T, NEW H, Typed(T, H), NEW p \in Path, NEW node \in Node(H)
    PROVE  Typed(Put(T, p, node), H)
  BY DEF Put, Typed

LEMMA CutTyped ==
    ASSUME NEW T, NEW H, Typed(T, H), NEW P
    PROVE  Typed(Cut(T, P), H)
  BY DEF Cut, Typed

LEMMA PutStubs ==
    ASSUME NEW T, NEW p, NEW node, node.type # "stub"
    PROVE  StubsKept(T, Put(T, p, node))
  BY DEF StubsKept, StubsOf, Put

LEMMA CutStubs == ASSUME NEW T, NEW P PROVE StubsKept(T, Cut(T, P))
  BY DEF StubsKept, StubsOf, Cut

LEMMA StubsKeptTrans ==
    ASSUME NEW T, NEW U, NEW V, StubsKept(T, U), StubsKept(U, V)
    PROVE  StubsKept(T, V)
  BY DEF StubsKept

-----------------------------------------------------------------------------
(* Resolving *)

(* U is T with D in place of the Stub at p.                                 *)
Grafted(T, U, H, X, p, D) ==
    /\ Typed(U, H) /\ WellFormedBut(U, X)
    /\ DOMAIN T \subseteq DOMAIN U
    /\ U[p] = D[<<>>]
    /\ \A q \in DOMAIN U : ~starts_with(q, p) => q \in DOMAIN T /\ U[q] = T[q]
    /\ \A u \in StubsOf(U) :
          \/ u \in StubsOf(T) /\ U[u] = T[u]
          \/ \E r \in StubsOf(D) : u = p \o r /\ U[u] = D[r]

LEMMA GraftShape ==
    ASSUME NEW T, NEW D, NEW H, NEW X, NEW p \in DOMAIN T, T[p].type = "stub",
           Typed(T, H), Typed(D, H), WellFormedBut(T, X), WellFormed(D),
           <<>> \in DOMAIN D, D[<<>>].type \in {"leaf", "skip", "fork"},
           ForkAt(T, p) => D[<<>>].type = "fork"
    PROVE  Grafted(T, Graft(T, p, D), H, X, p, D)
<1>. DEFINE U == Graft(T, p, D)
<1>1. p \in Path /\ DOMAIN T \subseteq Path /\ DOMAIN D \subseteq Path /\ Connected(T)
  BY DEF Typed, WellFormedBut
<1>2. /\ DOMAIN U = DOMAIN T \cup {p \o r : r \in DOMAIN D}
      /\ \A q \in DOMAIN U :
            U[q] = IF starts_with(q, p) THEN D[Drop(q, Len(p))] ELSE T[q]
      /\ U = [q \in DOMAIN U |-> U[q]]
  BY DEF Graft
<1>. HIDE DEF U
<1>3. \A r \in DOMAIN D : p \o r \in Path /\ starts_with(p \o r, p) /\ Drop(p \o r, Len(p)) = r
  BY <1>1, PrefixConcat, DropConcat
<1>4. \A r \in DOMAIN D : p \o r \in DOMAIN U /\ U[p \o r] = D[r]
  BY <1>2, <1>3
<1>5. ASSUME NEW q \in DOMAIN U, starts_with(q, p)
      PROVE  \E r \in DOMAIN D : q = p \o r
  <2>1. CASE q \in DOMAIN T
    <3>1. q = p
      BY <1>1, <1>5, <2>1, NothingBelow DEF Below
    <3>2. p \o <<>> = p
      BY <1>1, ConcatEmpty
    <3>. QED
      BY <3>1, <3>2
  <2>. QED
    BY <1>2, <2>1
<1>6. p \in DOMAIN U /\ U[p] = D[<<>>]
  BY <1>1, <1>4, ConcatEmpty
<1>7. Typed(U, H)
  <2>1. ASSUME NEW q \in DOMAIN U PROVE q \in Path /\ U[q] \in Node(H)
    <3>1. CASE starts_with(q, p)
      <4>1. PICK r \in DOMAIN D : q = p \o r
        BY <1>5, <3>1
      <4>. QED
        BY <1>3, <1>4, <4>1 DEF Typed
    <3>2. CASE ~starts_with(q, p)
      BY <1>1, <1>2, <1>3, <3>2 DEF Typed
    <3>. QED
      BY <3>1, <3>2
  <2>. QED
    BY <1>2, <2>1 DEF Typed
<1>8. Paths(T) /\ Paths(U) /\ Paths(D)
  BY <1>7, TypedPaths
<1>9. ASSUME NEW r \in DOMAIN D
      PROVE  Good(U, X, p \o r)
  <2>1. ASSUME NEW t \in Path
        PROVE  /\ r \o t \in DOMAIN D <=> (p \o r) \o t \in DOMAIN U
               /\ r \o t \in DOMAIN D => U[(p \o r) \o t] = D[r \o t]
    <3>1. (p \o r) \o t = p \o (r \o t)
      BY <1>1, ConcatAssoc
    <3>2. r \o t \in Path
      BY <1>1, PrefixConcat
    <3>3. ASSUME p \o (r \o t) \in DOMAIN U
          PROVE  r \o t \in DOMAIN D
      <4>1. starts_with(p \o (r \o t), p)
        BY <1>1, <3>2, PrefixConcat
      <4>2. PICK s \in DOMAIN D : p \o (r \o t) = p \o s
        BY <1>5, <3>3, <4>1
      <4>3. s = r \o t
        BY <1>1, <3>2, <4>2, ConcatCancel
      <4>. QED
        BY <4>3
    <3>. QED
      BY <1>4, <3>1, <3>3
  <2>2. Agree(D, r, U, p \o r)
    BY <2>1 DEF Agree
  <2>3. Good(D, {}, r)
    BY ShapeGood DEF WellFormed
  <2>. QED
    BY <1>3, <1>8, <2>2, <2>3, GoodAgree
<1>13. ASSUME NEW q, ~starts_with(q, p)
       PROVE  /\ q \in DOMAIN U <=> q \in DOMAIN T
              /\ q \in DOMAIN T => U[q] = T[q]
  <2>1. DOMAIN U = DOMAIN T \cup {p \o r : r \in DOMAIN D}
    BY <1>2
  <2>2. q \notin {p \o r : r \in DOMAIN D}
    BY <1>3, <1>13
  <2>3. q \in DOMAIN T => U[q] = T[q]
    BY <1>2, <1>13, <2>1
  <2>. QED
    BY <2>1, <2>2, <2>3
<1>10. SameOutside(T, U, p)
  BY <1>13 DEF SameOutside
<1>11. ASSUME NEW q \in DOMAIN T, Is(T, q, "skip"), q \o T[q].path = p, q \notin X
       PROVE  ForkAt(U, p)
  <2>1. ForkAt(T, p)
    BY <1>11 DEF WellFormedBut, SkipsLead, Is
  <2>. QED
    BY <1>6, <2>1 DEF ForkAt, Is
<1>12. WellFormedBut(U, X)
  <2>1. \A q \in DOMAIN U : starts_with(q, p) => Good(U, X, q)
    BY <1>5, <1>9
  <2>. QED
    BY <1>6, <1>8, <1>10, <1>11, <2>1, ReplaceShape
<1>14. ASSUME NEW u \in StubsOf(U)
       PROVE  \/ u \in StubsOf(T) /\ U[u] = T[u]
              \/ \E r \in StubsOf(D) : u = p \o r /\ U[u] = D[r]
  <2>1. u \in DOMAIN U /\ U[u].type = "stub"
    BY DEF StubsOf
  <2>2. CASE starts_with(u, p)
    <3>1. PICK r \in DOMAIN D : u = p \o r
      BY <1>5, <2>1, <2>2
    <3>2. U[u] = D[r] /\ r \in StubsOf(D)
      BY <1>4, <2>1, <3>1 DEF StubsOf
    <3>. QED
      BY <3>1, <3>2
  <2>3. CASE ~starts_with(u, p)
    <3>1. u \in DOMAIN T /\ U[u] = T[u]
      BY <1>13, <2>1, <2>3
    <3>. QED
      BY <2>1, <3>1 DEF StubsOf
  <2>. QED
    BY <2>2, <2>3
<1>. QED
  BY <1>2, <1>6, <1>7, <1>12, <1>13, <1>14 DEF Grafted, U

-----------------------------------------------------------------------------
(* Hanging a Leaf off the Fork at p, under a nibble that is free.           *)
Hung(T, U, H, p, rest) ==
    /\ Typed(U, H) /\ WellFormedBut(U, {p}) /\ StubsKept(T, U)
    /\ p \in DOMAIN U /\ U[p] = T[p]
    /\ Children(T, p) \subseteq Children(U, p)
    /\ rest # <<>> => Head(rest) \in Children(U, p)
    /\ \A n \in Nibble : n \in Children(U, p) =>
          n \in Children(T, p) \/ (rest # <<>> /\ n = Head(rest))

LEMMA HangShape ==
    ASSUME NEW T, NEW H, NEW p \in DOMAIN T, T[p].type = "fork",
           Typed(T, H), WellFormedBut(T, {p}),
           NEW rest \in Path, NEW value \in Value,
           rest # <<>> => Append(p, Head(rest)) \notin DOMAIN T
    PROVE  Hung(T, Hang(T, p, rest, value), H, p, rest)
<1>1. CASE rest = <<>>
  BY <1>1 DEF Hung, Hang, StubsKept
<1>2. CASE rest # <<>>
  <2>. DEFINE n == Head(rest)
              x == Append(p, n)
              node == Leaf(Tail(rest), value)
              U == Put(T, x, node)
  <2>1. p \in Path /\ DOMAIN T \subseteq Path
    BY DEF Typed
  <2>2. n \in Nibble /\ Tail(rest) \in Path
    BY <1>2, HeadTailProperties DEF Path
  <2>3. x \in Path /\ x # p /\ starts_with(x, p) /\ x \notin DOMAIN T
    BY <1>2, <2>1, <2>2, AppendPath
  <2>4. node \in Node(H) /\ node.type = "leaf"
    BY <2>2, NodeFields
  <2>5. Hang(T, p, rest, value) = U
    BY <1>2 DEF Hang
  <2>. HIDE DEF n, x, node
  <2>6. DOMAIN U = DOMAIN T \cup {x} /\ U[x] = node /\ \A q \in DOMAIN T : q # x => U[q] = T[q]
    BY DEF Put
  <2>7. Typed(U, H)
    BY <2>3, <2>4, PutTyped
  <2>8. StubsKept(T, U)
    BY <2>4, PutStubs
  <2>9. Paths(T) /\ Paths(U) /\ Connected(T)
    BY <2>7, TypedPaths DEF WellFormedBut
  <2>. HIDE DEF U
  <2>10. ASSUME NEW r \in DOMAIN T
         PROVE  ~starts_with(r, x)
    <3>1. SUFFICES ASSUME starts_with(r, x)
                   PROVE  FALSE
      OBVIOUS
    <3>2. r \in Path /\ starts_with(r, p) /\ r # p
      BY <2>1, <2>2, <2>3, <3>1, PrefixTrans, AppendPath DEF x
    <3>3. PICK c \in DOMAIN T : IsParent(T, p, c) /\ starts_with(r, c)
      BY <2>9, <3>2, ConnectedLeads DEF Leads, Below
    <3>4. PICK m \in Nibble : c = Append(p, m)
      BY <3>3 DEF IsParent, Is
    <3>5. m = n
      BY <2>1, <2>2, <3>1, <3>2, <3>3, <3>4, AppendApart DEF x
    <3>. QED
      BY <2>3, <3>3, <3>4, <3>5 DEF x
  <2>11. ASSUME NEW q \in DOMAIN U, Below(q, p), q # x
         PROVE  Good(U, {p}, q)
    <3>1. q \in DOMAIN T /\ q \in Path /\ q # p
      BY <2>1, <2>6, <2>11 DEF Below
    <3>2. ~starts_with(x, q)
      <4>1. CASE starts_with(p, q)
        BY <2>1, <2>11, <3>1, <4>1, PrefixAntisym DEF Below
      <4>2. CASE ~starts_with(p, q)
        BY <2>1, <2>2, <2>11, <3>1, <4>2, AppendNext DEF x
      <4>. QED
        BY <4>1, <4>2
    <3>3. Agree(T, q, U, q)
      BY <2>6, <3>1, <3>2, AgreeSelf
    <3>4. Good(T, {p}, q)
      BY <3>1, ShapeGood
    <3>. QED
      BY <2>9, <3>1, <3>3, <3>4, GoodAgree
  <2>12. Good(U, {p}, x)
    <3>1. \A r \in DOMAIN U : ~Below(r, x)
      BY <2>6, <2>10 DEF Below
    <3>. QED
      BY <2>4, <2>6, <3>1 DEF Good
  <2>13. Good(U, {p}, p)
    <3>1. U[p] = T[p] /\ p \in DOMAIN U
      BY <2>3, <2>6
    <3>2. IsParent(U, p, x)
      BY <2>2, <3>1 DEF IsParent, Is, x
    <3>3. ASSUME NEW r \in DOMAIN U, Below(r, p)
          PROVE  Leads(U, p, r)
      <4>1. CASE r = x
        BY <2>3, <2>6, <3>2, <4>1, PrefixRefl DEF Leads
      <4>2. CASE r # x
        <5>1. PICK c \in DOMAIN T : IsParent(T, p, c) /\ starts_with(r, c)
          BY <2>6, <2>9, <3>3, <4>2, ConnectedLeads DEF Leads
        <5>2. IsParent(U, p, c)
          BY <3>1, <5>1, ParentSame
        <5>. QED
          BY <2>6, <5>1, <5>2 DEF Leads
      <4>. QED
        BY <4>1, <4>2
    <3>. QED
      BY <3>1, <3>3 DEF Good
  <2>14. WellFormedBut(U, {p})
    <3>1. SameOutside(T, U, p)
      BY <2>3, <2>6 DEF SameOutside
    <3>2. \A q \in DOMAIN U : starts_with(q, p) => Good(U, {p}, q)
      BY <2>11, <2>12, <2>13 DEF Below
    <3>3. \A q \in DOMAIN T :
             Is(T, q, "skip") /\ q \o T[q].path = p /\ q \notin {p} => ForkAt(U, p)
      BY <2>3, <2>6 DEF ForkAt, Is
    <3>4. \A q \in DOMAIN T : ~starts_with(q, p) /\ q \in {p} => q \in {p}
      OBVIOUS
    <3>5. p \in DOMAIN U
      BY <2>6
    <3>. QED
      BY <2>9, <3>1, <3>2, <3>3, <3>4, <3>5, ReplaceShape
  <2>15. \A m \in Nibble : m \in Children(U, p) <=> m \in Children(T, p) \/ m = n
    <3>1. \A m \in Nibble : Append(p, m) = x <=> m = n
      BY <2>1, <2>2, AppendInj DEF x
    <3>. QED
      BY <2>6, <3>1 DEF Children
  <2>16. Children(T, p) \subseteq Children(U, p) /\ n \in Children(U, p)
    BY <2>2, <2>15 DEF Children
  <2>17. p \in DOMAIN U /\ U[p] = T[p]
    BY <2>3, <2>6
  <2>. QED
    BY <1>2, <2>5, <2>7, <2>8, <2>14, <2>15, <2>16, <2>17 DEF Hung, n
<1>. QED
  BY <1>1, <1>2

-----------------------------------------------------------------------------
(* Splitting *)

LEMMA CrowdedShape ==
    ASSUME NEW T, NEW p \in DOMAIN T, T[p].type = "fork", WellFormedBut(T, {p}), Crowded(T, p)
    PROVE  WellFormedBut(T, {})
  BY DEF WellFormedBut, SkipsLead, ForksCrowded

(* A Fork at `base` takes the place of the node at p, behind a Skip if it   *)
(* is further down, and all that is left below p hangs off that Fork.       *)
LEMMA SplitShape ==
    ASSUME NEW T, NEW V, NEW p \in DOMAIN T, p \in DOMAIN V, NEW common \in Path,
           NEW base, base = p \o common,
           Paths(T), Paths(V), WellFormedBut(T, {}), T[p].type \in {"leaf", "skip"},
           SameOutside(T, V, p),
           base \in DOMAIN V, V[base].type = "fork",
           common # <<>> => V[p] = Skip(common),
           \A q \in DOMAIN V : Below(q, p) => starts_with(q, base),
           \A q \in DOMAIN V : Below(q, base) => Good(V, {base}, q) /\ Leads(V, base, q)
    PROVE  WellFormedBut(V, {base})
<1>1. p \in Path /\ base \in Path /\ starts_with(base, p) /\ (base = p <=> common = <<>>)
  BY PrefixConcat DEF Paths
<1>2. Good(V, {base}, base)
  BY DEF Good
<1>3. ASSUME p # base
      PROVE  Good(V, {base}, p)
  <2>1. V[p].type = "skip" /\ V[p].path = common /\ common # <<>>
    BY <1>1, <1>3 DEF Skip
  <2>2. IsParent(V, p, base)
    BY <2>1 DEF IsParent, Is
  <2>3. \A r \in DOMAIN V : Below(r, p) => Leads(V, p, r)
    BY <2>2 DEF Leads
  <2>4. ForkAt(V, p \o V[p].path)
    BY <2>1 DEF ForkAt, Is
  <2>. QED
    BY <2>1, <2>3, <2>4 DEF Good
<1>4. ASSUME NEW q \in DOMAIN V, starts_with(q, p)
      PROVE  Good(V, {base}, q)
  BY <1>1, <1>2, <1>3, <1>4 DEF Below
<1>5. \A q \in DOMAIN T :
         Is(T, q, "skip") /\ q \o T[q].path = p /\ q \notin {base} => ForkAt(V, p)
  BY DEF WellFormedBut, SkipsLead, ForkAt, Is
<1>. QED
  BY <1>4, <1>5, ReplaceShape

Forked(T, V, H, p, common, slot) ==
    LET base == p \o common
    IN  /\ Typed(V, H) /\ StubsKept(T, V)
        /\ DOMAIN V = DOMAIN T \cup {p, base}
        /\ V[base] = Fork(slot)
        /\ common # <<>> => V[p] = Skip(common)
        /\ \A q \in DOMAIN T : q # p /\ q # base => V[q] = T[q]

LEMMA SkipOrFields ==
    ASSUME NEW T, NEW H, Typed(T, H), NEW p \in DOMAIN T, NEW common \in Path,
           NEW slot \in Value \cup {NoValue}
    PROVE  Forked(T, skip_or(T, p, common, Fork(slot)), H, p, common, slot)
<1>. DEFINE base == p \o common
            A == Put(T, p, Skip(common))
            B == Put(A, base, Fork(slot))
<1>0. p \in Path /\ base \in Path /\ p \o <<>> = p
  BY PrefixConcat, ConcatEmpty DEF Typed
<1>1. /\ Fork(slot) \in Node(H) /\ Fork(slot).type = "fork"
      /\ Skip(common) \in Node(H) /\ Skip(common).type = "skip"
  BY DEF Fork, Skip, Node
<1>2. CASE common = <<>>
  <2>1. skip_or(T, p, common, Fork(slot)) = Put(T, p, Fork(slot)) /\ base = p
    BY <1>0, <1>2 DEF skip_or
  <2>2. Typed(Put(T, p, Fork(slot)), H) /\ StubsKept(T, Put(T, p, Fork(slot)))
    BY <1>0, <1>1, PutTyped, PutStubs
  <2>. QED
    BY <1>2, <2>1, <2>2 DEF Put, Forked
<1>3. CASE common # <<>>
  <2>1. skip_or(T, p, common, Fork(slot)) = B
    BY <1>3 DEF skip_or
  <2>2. Typed(A, H) /\ StubsKept(T, A)
    BY <1>0, <1>1, PutTyped, PutStubs
  <2>. HIDE DEF A
  <2>3. Typed(B, H) /\ StubsKept(A, B)
    BY <1>0, <1>1, <2>2, PutTyped, PutStubs
  <2>4. StubsKept(T, B)
    BY <2>2, <2>3, StubsKeptTrans
  <2>5. p # base
    BY <1>0, <1>3, PrefixConcat
  <2>. HIDE DEF base
  <2>6. /\ DOMAIN B = DOMAIN T \cup {p, base}
        /\ B[base] = Fork(slot) /\ B[p] = Skip(common)
        /\ \A q \in DOMAIN T : q # p /\ q # base => B[q] = T[q]
    BY <2>5 DEF Put, A
  <2>. QED
    BY <2>1, <2>3, <2>4, <2>6 DEF base, Forked
<1>. QED
  BY <1>2, <1>3

LEMMA SplitLeafShape ==
    ASSUME NEW T, NEW H, Typed(T, H), WellFormedBut(T, {}),
           NEW p \in DOMAIN T, T[p].type = "leaf",
           NEW rest \in Path, NEW value \in Value, T[p].path # rest
    PROVE  LET U == SplitLeaf(T, p, rest, value)
           IN  Typed(U, H) /\ WellFormedBut(U, {}) /\ StubsKept(T, U)
<1>. DEFINE old == T[p]
            n == common_prefix_len(old.path, rest)
            common == Take(rest, n)
            base == p \o common
            oldRest == Drop(old.path, n)
            newRest == Drop(rest, n)
            slot == IF newRest = <<>> THEN value
                    ELSE IF oldRest = <<>> THEN old.value ELSE NoValue
            V == skip_or(T, p, common, Fork(slot))
            W == Hang(V, base, newRest, value)
            U == Hang(W, base, oldRest, old.value)
<1>1. p \in Path /\ DOMAIN T \subseteq Path /\ old.path \in Path /\ old.value \in Value
  BY NodeTypes DEF Typed
<1>2. /\ common \in Path /\ oldRest \in Path /\ newRest \in Path
      /\ old.path = common \o oldRest /\ rest = common \o newRest
      /\ oldRest # <<>> /\ newRest # <<>> => Head(oldRest) # Head(newRest)
  BY <1>1, CommonPrefixSplit
<1>3. oldRest # <<>> \/ newRest # <<>>
  BY <1>2
<1>4. SplitLeaf(T, p, rest, value) = U
  BY DEF SplitLeaf
<1>5. slot \in Value \cup {NoValue}
  BY <1>1
<1>. HIDE DEF common, oldRest, newRest
<1>6. /\ Typed(V, H) /\ StubsKept(T, V)
      /\ DOMAIN V = DOMAIN T \cup {p, base}
      /\ V[base] = Fork(slot)
      /\ common # <<>> => V[p] = Skip(common)
      /\ \A q \in DOMAIN T : q # p /\ q # base => V[q] = T[q]
  <2>1. Forked(T, V, H, p, common, slot)
    BY <1>2, <1>5, SkipOrFields
  <2>. HIDE DEF V, slot
  <2>. QED
    BY <2>1 DEF Forked
<1>7. V[base].type = "fork" /\ V[base].value = slot
  BY <1>6 DEF Fork
<1>8. slot = IF newRest = <<>> THEN value
             ELSE IF oldRest = <<>> THEN old.value ELSE NoValue
  OBVIOUS
<1>. HIDE DEF V, slot
<1>9. base \in Path /\ starts_with(base, p) /\ base = p \o common /\ starts_with(p, p)
  BY <1>1, <1>2, PrefixConcat, PrefixRefl
<1>. HIDE DEF base
<1>10. ASSUME NEW q \in DOMAIN V, Below(q, p)
       PROVE  q = base
  <2>1. Connected(T)
    BY DEF WellFormedBut
  <2>2. q \notin DOMAIN T
    BY <1>10, <2>1, NothingBelow
  <2>. QED
    BY <1>6, <1>10, <2>2
<1>11. WellFormedBut(V, {base})
  <2>1. \A q \in DOMAIN V : Below(q, p) => starts_with(q, base)
    BY <1>9, <1>10, PrefixRefl
  <2>2. ASSUME NEW q \in DOMAIN V, Below(q, base)
        PROVE  FALSE
    <3>1. q \in Path /\ starts_with(q, base) /\ q # base
      BY <1>6, <2>2 DEF Below, Typed
    <3>2. starts_with(q, p)
      BY <1>1, <1>9, <3>1, PrefixTrans
    <3>3. q # p
      BY <1>1, <1>9, <3>1, PrefixAntisym
    <3>. QED
      BY <1>10, <3>1, <3>2, <3>3 DEF Below
  <2>3. SameOutside(T, V, p)
    BY <1>6, <1>9 DEF SameOutside
  <2>4. Paths(T) /\ Paths(V)
    BY <1>6, TypedPaths
  <2>5. p \in DOMAIN V /\ base \in DOMAIN V
    BY <1>6
  <2>. QED
    BY <1>2, <1>6, <1>7, <1>9, <2>1, <2>2, <2>3, <2>4, <2>5, SplitShape
<1>12. Children(V, base) = {}
  <2>. SUFFICES ASSUME NEW m \in Nibble, Append(base, m) \in DOMAIN V
                PROVE  FALSE
    BY DEF Children
  <2>1. /\ Append(base, m) # base /\ Append(base, m) \in Path
        /\ starts_with(Append(base, m), base) /\ ~starts_with(base, Append(base, m))
    BY <1>9, AppendPath
  <2>2. starts_with(Append(base, m), p)
    BY <1>1, <1>9, <2>1, PrefixTrans
  <2>3. Append(base, m) # p
    BY <1>9, <2>1
  <2>. QED
    BY <1>10, <2>1, <2>2, <2>3 DEF Below
<1>13. ASSUME NEW r \in Path, r # <<>>
       PROVE  Head(r) \in Nibble
  BY <1>13, HeadTailProperties DEF Path
<1>14. base \in DOMAIN V
  BY <1>6
<1>15. newRest # <<>> => Append(base, Head(newRest)) \notin DOMAIN V
  BY <1>2, <1>12, <1>13 DEF Children
<1>16. Hung(V, W, H, base, newRest)
  BY <1>2, <1>6, <1>7, <1>11, <1>14, <1>15, HangShape
<1>17. /\ Typed(W, H) /\ WellFormedBut(W, {base}) /\ StubsKept(V, W)
       /\ base \in DOMAIN W /\ W[base] = V[base]
       /\ newRest # <<>> => Head(newRest) \in Children(W, base)
       /\ \A m \in Nibble : m \in Children(W, base) =>
             m \in Children(V, base) \/ (newRest # <<>> /\ m = Head(newRest))
  BY <1>16 DEF Hung
<1>. HIDE DEF W
<1>18. oldRest # <<>> => Append(base, Head(oldRest)) \notin DOMAIN W
  <2>1. oldRest # <<>> => Head(oldRest) \notin Children(W, base)
    BY <1>2, <1>12, <1>13, <1>17
  <2>. QED
    BY <1>2, <1>13, <2>1 DEF Children
<1>19. Hung(W, U, H, base, oldRest)
  BY <1>1, <1>2, <1>7, <1>17, <1>18, HangShape
<1>20. /\ Typed(U, H) /\ WellFormedBut(U, {base}) /\ StubsKept(W, U)
       /\ base \in DOMAIN U /\ U[base] = W[base]
       /\ Children(W, base) \subseteq Children(U, base)
       /\ oldRest # <<>> => Head(oldRest) \in Children(U, base)
  BY <1>19 DEF Hung
<1>. HIDE DEF U
<1>21. Crowded(U, base)
  <2>1. CASE newRest = <<>>
    BY <1>3, <1>7, <1>8, <1>17, <1>20, <2>1, NoValueAssumption DEF Crowded
  <2>2. CASE newRest # <<>> /\ oldRest = <<>>
    BY <1>1, <1>7, <1>8, <1>17, <1>20, <2>2, NoValueAssumption DEF Crowded
  <2>3. CASE newRest # <<>> /\ oldRest # <<>>
    <3>1. /\ Head(newRest) \in Nibble /\ Head(oldRest) \in Nibble
          /\ Head(oldRest) # Head(newRest)
          /\ {Head(newRest), Head(oldRest)} \subseteq Children(U, base)
      BY <1>2, <1>13, <1>17, <1>20, <2>3
    <3>. QED
      BY <3>1 DEF Crowded
  <2>. QED
    BY <2>1, <2>2, <2>3
<1>22. U[base].type = "fork"
  BY <1>7, <1>17, <1>20
<1>23. WellFormedBut(U, {})
  BY <1>20, <1>21, <1>22, CrowdedShape
<1>24. StubsKept(T, U)
  BY <1>6, <1>17, <1>20, StubsKeptTrans
<1>. QED
  BY <1>4, <1>20, <1>23, <1>24

LEMMA SplitSkipShape ==
    ASSUME NEW T, NEW H, Typed(T, H), WellFormedBut(T, {}),
           NEW p \in DOMAIN T, T[p].type = "skip",
           NEW rest \in Path, NEW value \in Value, ~starts_with(rest, T[p].path)
    PROVE  LET U == SplitSkip(T, p, rest, value)
           IN  Typed(U, H) /\ WellFormedBut(U, {}) /\ StubsKept(T, U)
<1>. DEFINE path == T[p].path
            n == common_prefix_len(path, rest)
            h == path[n + 1]
            common == Take(rest, n)
            base == p \o common
            newRest == Drop(rest, n)
            oldRest == Drop(path, n + 1)
            slot == IF newRest = <<>> THEN value ELSE NoValue
            x == Append(base, h)
            c == p \o path
            F == skip_or(T, p, common, Fork(slot))
            V == IF oldRest = <<>> THEN F ELSE Put(F, x, Skip(oldRest))
            U == Hang(V, base, newRest, value)
<1>1. p \in Path /\ DOMAIN T \subseteq Path /\ path \in Path
  BY NodeTypes DEF Typed
<1>2. /\ n \in Nat /\ common \in Path /\ newRest \in Path
      /\ Drop(path, n) \in Path /\ path = common \o Drop(path, n)
      /\ n <= Len(path)
      /\ rest = common \o newRest
      /\ Drop(path, n) # <<>> /\ newRest # <<>> => Head(Drop(path, n)) # Head(newRest)
      /\ Drop(path, n) = <<>> <=> n = Len(path)
  BY <1>1, CommonPrefixSplit
<1>3. n < Len(path)
  <2>1. ASSUME n = Len(path)
        PROVE  FALSE
    <3>1. path = common
      BY <1>2, <2>1, ConcatEmpty
    <3>2. starts_with(rest, common)
      <4>1. common \in Path /\ newRest \in Path /\ rest = common \o newRest
        BY <1>2
      <4>. HIDE DEF common, newRest
      <4>2. starts_with(common \o newRest, common)
        BY <4>1, PrefixConcat
      <4>. QED
        BY <4>1, <4>2
    <3>. QED
      BY <3>1, <3>2
  <2>. QED
    BY <1>1, <1>2, <2>1, PathLen
<1>4. h \in Nibble /\ oldRest \in Path /\ Drop(path, n) = <<h>> \o oldRest
  BY <1>1, <1>2, <1>3, DropStep
<1>5. newRest # <<>> => Head(newRest) # h
  BY <1>2, <1>4
<1>6. SplitSkip(T, p, rest, value) = U
  BY DEF SplitSkip
<1>. HIDE DEF common, oldRest, newRest, h
<1>7. /\ base \in Path /\ starts_with(base, p) /\ base = p \o common
      /\ x \in Path /\ starts_with(x, base) /\ ~starts_with(base, x) /\ x # base
      /\ x = base \o <<h>>
      /\ c \in Path /\ c = x \o oldRest /\ starts_with(c, x)
      /\ starts_with(p, p) /\ <<h>> \in Path
  <2>1. base \in Path /\ starts_with(base, p) /\ starts_with(p, p)
    BY <1>1, <1>2, PrefixConcat, PrefixRefl
  <2>2. /\ x \in Path /\ starts_with(x, base) /\ ~starts_with(base, x) /\ x # base
        /\ x = base \o <<h>> /\ <<h>> \in Path
    <3>1. base \in Path /\ h \in Nibble
      BY <1>4, <2>1
    <3>. HIDE DEF base
    <3>. QED
      BY <3>1, AppendPath
  <2>3. c = x \o oldRest
    <3>1. c = p \o (common \o (<<h>> \o oldRest))
      BY <1>2, <1>4
    <3>2. <<h>> \o oldRest \in Path
      BY <1>4, <2>2, PrefixConcat
    <3>3. p \o (common \o (<<h>> \o oldRest)) = base \o (<<h>> \o oldRest)
      <4>1. ASSUME NEW w \in Path
            PROVE  (p \o common) \o w = p \o (common \o w)
        <5>1. p \in Path /\ common \in Path
          BY <1>1, <1>2
        <5>. QED
          BY <5>1, ConcatAssoc
      <4>. QED
        BY <3>2, <4>1
    <3>4. base \o (<<h>> \o oldRest) = x \o oldRest
      <4>. HIDE DEF base, x, c
      <4>. base \in Path /\ <<h>> \in Path /\ oldRest \in Path
        BY <1>4, <2>1, <2>2
      <4>1. (base \o <<h>>) \o oldRest = base \o (<<h>> \o oldRest)
        BY ConcatAssoc
      <4>. QED
        BY <2>2, <4>1
    <3>. QED
      BY <3>1, <3>3, <3>4
  <2>4. x \o oldRest \in Path /\ starts_with(x \o oldRest, x)
    BY <1>4, <2>2, PrefixConcat
  <2>. QED
    BY <2>1, <2>2, <2>3, <2>4
<1>8. c \in DOMAIN T /\ ForkAt(T, c) /\ path # <<>>
  BY DEF WellFormedBut, SkipsLead, ForkAt, Is
<1>9. ASSUME NEW q \in DOMAIN T, Below(q, p)
      PROVE  starts_with(q, c)
  <2>1. PICK d \in DOMAIN T : IsParent(T, p, d) /\ starts_with(q, d)
    BY <1>9, ConnectedLeads DEF WellFormedBut, Leads
  <2>. QED
    BY <2>1 DEF IsParent, Is
<1>10. Forked(T, F, H, p, common, slot)
  BY <1>2, SkipOrFields
<1>11. (newRest = <<>> => slot = value) /\ (newRest # <<>> => slot = NoValue)
  OBVIOUS
<1>. HIDE DEF F, slot, path
<1>12. /\ Typed(F, H) /\ StubsKept(T, F)
       /\ DOMAIN F = DOMAIN T \cup {p, base}
       /\ F[base] = Fork(slot)
       /\ common # <<>> => F[p] = Skip(common)
       /\ \A q \in DOMAIN T : q # p /\ q # base => F[q] = T[q]
  BY <1>10 DEF Forked
<1>. HIDE DEF base, x
<1>13. /\ Typed(V, H) /\ StubsKept(T, V)
       /\ V[base] = Fork(slot)
       /\ common # <<>> => V[p] = Skip(common)
       /\ DOMAIN V = DOMAIN T \cup {p, base, x}
       /\ \A q \in DOMAIN T : q # p /\ q # base /\ q # x => V[q] = T[q]
       /\ oldRest # <<>> => V[x] = Skip(oldRest)
       /\ oldRest = <<>> => V[x] = T[x] /\ x = c
  <2>0. p # x
    BY <1>1, <1>7
  <2>1. CASE oldRest = <<>>
    <3>1. x = c
      BY <1>7, <2>1, ConcatEmpty
    <3>. QED
      BY <1>8, <1>7, <1>12, <2>0, <2>1, <3>1
  <2>2. CASE oldRest # <<>>
    <3>1. V = Put(F, x, Skip(oldRest))
      BY <2>2
    <3>2. Skip(oldRest) \in Node(H) /\ Skip(oldRest).type # "stub"
      BY <1>4 DEF Skip, Node
    <3>3. Typed(V, H) /\ StubsKept(F, V)
      BY <1>7, <1>12, <3>1, <3>2, PutTyped, PutStubs
    <3>4. StubsKept(T, V)
      BY <1>12, <3>3, StubsKeptTrans
    <3>5. /\ DOMAIN V = DOMAIN F \cup {x} /\ V[x] = Skip(oldRest)
          /\ \A q \in DOMAIN F : q # x => V[q] = F[q]
      BY <3>1 DEF Put
    <3>. QED
      BY <1>7, <1>12, <2>0, <2>2, <3>3, <3>4, <3>5
  <2>. QED
    BY <2>1, <2>2
<1>. HIDE DEF V, c
\* From p to what was below it: p, base, x, c, in this order.
<1>14. ASSUME NEW q \in Path, starts_with(q, c)
       PROVE  /\ starts_with(q, x) /\ starts_with(q, base)
              /\ q # p /\ q # base /\ (oldRest # <<>> => q # x)
  <2>1. starts_with(q, x)
    BY <1>7, <1>14, PrefixTrans
  <2>2. starts_with(q, base)
    BY <1>7, <2>1, PrefixTrans
  <2>3. ~starts_with(p, x)
    BY <1>1, <1>7, PrefixTrans
  <2>4. oldRest # <<>> => ~starts_with(x, c)
    <3>1. /\ x \in Path /\ c \in Path /\ oldRest \in Path
          /\ c = x \o oldRest /\ starts_with(c, x)
      BY <1>4, <1>7
    <3>2. starts_with(x, c) => x = c
      BY <3>1, PrefixAntisym
    <3>3. x \o oldRest = x <=> oldRest = <<>>
      BY <3>1, PrefixConcat
    <3>. QED
      BY <3>1, <3>2, <3>3
  <2>. QED
    BY <1>7, <1>14, <2>1, <2>2, <2>3, <2>4
<1>15. Paths(T) /\ Paths(V)
  BY <1>13, TypedPaths
<1>16. ASSUME NEW q \in DOMAIN T, starts_with(q, c)
       PROVE  Good(V, {base}, q)
  <2>1. q \in Path
    BY <1>1
  <2>2. ASSUME NEW r \in Path, starts_with(r, q)
        PROVE  (r \in DOMAIN T <=> r \in DOMAIN V) /\ (r \in DOMAIN T => V[r] = T[r])
    <3>1. starts_with(r, c)
      BY <1>7, <1>16, <2>1, <2>2, PrefixTrans
    <3>2. r # p /\ r # base /\ (oldRest # <<>> => r # x)
      BY <1>14, <3>1
    <3>. QED
      BY <1>8, <1>13, <3>2
  <2>3. Agree(T, q, V, q)
    BY <2>1, <2>2, AgreeSelf
  <2>4. Good(T, {}, q)
    BY ShapeGood
  <2>. QED
    BY <1>15, <2>1, <2>3, <2>4, GoodAgree
<1>17. ASSUME NEW q \in DOMAIN V, Below(q, p)
       PROVE  q = base \/ q = x \/ (q \in DOMAIN T /\ starts_with(q, c))
  BY <1>9, <1>13, <1>17 DEF Below
<1>18. ASSUME NEW q \in DOMAIN V, Below(q, base)
       PROVE  q = x \/ (q \in DOMAIN T /\ starts_with(q, c))
  <2>1. q \in Path /\ starts_with(q, base) /\ q # base
    BY <1>13, <1>18 DEF Below, Typed
  <2>2. starts_with(q, p)
    BY <1>1, <1>7, <2>1, PrefixTrans
  <2>3. q # p
    BY <1>1, <1>7, <2>1, PrefixAntisym
  <2>. QED
    BY <1>17, <2>1, <2>2, <2>3 DEF Below
<1>19. V[base].type = "fork" /\ V[base].value = slot /\ base \in DOMAIN V /\ x \in DOMAIN V
  BY <1>13 DEF Fork
<1>20. IsParent(V, base, x)
  <2>1. x = Append(base, h)
    BY DEF x
  <2>. QED
    BY <1>4, <1>19, <2>1 DEF IsParent, Is
<1>21. Good(V, {base}, x)
  <2>1. CASE oldRest = <<>>
    BY <1>8, <1>7, <1>13, <1>16, <2>1, PrefixRefl
  <2>2. CASE oldRest # <<>>
    <3>1. V[x].type = "skip" /\ V[x].path = oldRest
      BY <1>13, <2>2 DEF Skip
    <3>2. c \in DOMAIN V /\ V[c] = T[c] /\ c = x \o V[x].path
      BY <1>7, <1>8, <1>13, <1>14, <2>2, <3>1, PrefixRefl
    <3>3. IsParent(V, x, c)
      BY <1>19, <3>1, <3>2 DEF IsParent, Is
    <3>4. ForkAt(V, c)
      BY <1>8, <3>2 DEF ForkAt, Is
    <3>5. ASSUME NEW r \in DOMAIN V, Below(r, x)
          PROVE  Leads(V, x, r)
      <4>1. r \in Path /\ starts_with(r, x) /\ r # x
        BY <1>13, <3>5 DEF Below, Typed
      <4>2. starts_with(r, base) /\ r # base
        BY <1>7, <4>1, PrefixTrans
      <4>3. starts_with(r, c)
        BY <1>18, <4>1, <4>2 DEF Below
      <4>. QED
        BY <3>2, <3>3, <4>3 DEF Leads
    <3>. QED
      BY <2>2, <3>1, <3>2, <3>4, <3>5 DEF Good
  <2>. QED
    BY <2>1, <2>2
<1>22. ASSUME NEW q \in DOMAIN V, Below(q, base)
       PROVE  Good(V, {base}, q) /\ Leads(V, base, q)
  <2>1. Good(V, {base}, q)
    BY <1>16, <1>18, <1>21, <1>22
  <2>2. starts_with(q, x)
    BY <1>1, <1>7, <1>14, <1>18, <1>22, PrefixRefl
  <2>. QED
    BY <1>19, <1>20, <2>1, <2>2 DEF Leads
<1>23. WellFormedBut(V, {base})
  <2>1. \A q \in DOMAIN V : Below(q, p) => starts_with(q, base)
    BY <1>1, <1>7, <1>14, <1>17, PrefixRefl
  <2>2. SameOutside(T, V, p)
    <3>1. starts_with(x, p)
      BY <1>1, <1>7, PrefixTrans
    <3>. QED
      BY <1>7, <1>13, <3>1 DEF SameOutside
  <2>3. p \in DOMAIN V
    BY <1>13
  <2>4. base = p \o common
    BY DEF base
  <2>. QED
    BY <1>2, <1>13, <1>15, <1>19, <1>22, <2>1, <2>2, <2>3, <2>4, SplitShape
<1>24. ASSUME NEW m \in Nibble, m \in Children(V, base)
       PROVE  m = h
  <2>1. /\ Append(base, m) \in DOMAIN V /\ Append(base, m) \in Path
        /\ starts_with(Append(base, m), base) /\ Append(base, m) # base
    BY <1>7, <1>24, AppendPath DEF Children
  <2>2. starts_with(Append(base, m), x)
    BY <1>14, <1>18, <1>7, <2>1, PrefixRefl DEF Below
  <2>3. starts_with(Append(base, m), Append(base, m)) /\ x = Append(base, h)
    BY <2>1, PrefixRefl DEF x
  <2>. QED
    BY <1>4, <1>7, <2>1, <2>2, <2>3, AppendApart
<1>25. newRest # <<>> => Append(base, Head(newRest)) \notin DOMAIN V
  <2>1. newRest # <<>> => Head(newRest) \in Nibble
    BY <1>2, HeadTailProperties DEF Path
  <2>. QED
    BY <1>5, <1>24, <2>1 DEF Children
<1>26. Hung(V, U, H, base, newRest)
  BY <1>2, <1>13, <1>19, <1>23, <1>25, HangShape
<1>. HIDE DEF U
<1>27. /\ Typed(U, H) /\ WellFormedBut(U, {base}) /\ StubsKept(V, U)
       /\ base \in DOMAIN U /\ U[base] = V[base]
       /\ Children(V, base) \subseteq Children(U, base)
       /\ newRest # <<>> => Head(newRest) \in Children(U, base)
  BY <1>26 DEF Hung
<1>28. h \in Children(U, base)
  <2>1. h \in Children(V, base)
    BY <1>4, <1>19 DEF Children, x
  <2>. QED
    BY <1>27, <2>1
<1>29. Crowded(U, base)
  <2>1. CASE newRest = <<>>
    BY <1>11, <1>19, <1>27, <1>28, <2>1, NoValueAssumption DEF Crowded
  <2>2. CASE newRest # <<>>
    <3>1. Head(newRest) \in Nibble
      BY <1>2, <2>2, HeadTailProperties DEF Path
    <3>. QED
      BY <1>4, <1>5, <1>27, <1>28, <2>2, <3>1 DEF Crowded
  <2>. QED
    BY <2>1, <2>2
<1>30. WellFormedBut(U, {})
  BY <1>19, <1>27, <1>29, CrowdedShape
<1>31. StubsKept(T, U)
  BY <1>13, <1>27, StubsKeptTrans
<1>. QED
  BY <1>6, <1>27, <1>30, <1>31

-----------------------------------------------------------------------------
(* Replacing a single node *)

(* A Leaf may be replaced by another.                                       *)
LEMMA PutLeafShape ==
    ASSUME NEW T, NEW H, Typed(T, H), WellFormedBut(T, {}),
           NEW p \in DOMAIN T, T[p].type = "leaf", NEW path \in Path, NEW value \in Value
    PROVE  LET U == Put(T, p, Leaf(path, value))
           IN  Typed(U, H) /\ WellFormedBut(U, {}) /\ StubsKept(T, U)
<1>. DEFINE U == Put(T, p, Leaf(path, value))
<1>1. p \in Path /\ DOMAIN T \subseteq Path
  BY DEF Typed
<1>2. Leaf(path, value) \in Node(H) /\ Leaf(path, value).type = "leaf"
  BY DEF Leaf, Node
<1>3. Typed(U, H) /\ StubsKept(T, U)
  BY <1>1, <1>2, PutTyped, PutStubs
<1>4. /\ DOMAIN U = DOMAIN T /\ U[p].type = "leaf"
      /\ \A q \in DOMAIN T : q # p => U[q] = T[q]
  BY <1>2 DEF Put
<1>. HIDE DEF U
<1>5. ASSUME NEW q \in DOMAIN U, starts_with(q, p)
      PROVE  Good(U, {}, q)
  <2>1. \A r \in DOMAIN T : ~Below(r, p)
    BY NothingBelow DEF WellFormedBut
  <2>2. q = p
    BY <1>4, <1>5, <2>1 DEF Below
  <2>. QED
    BY <1>4, <2>1, <2>2 DEF Good
<1>6. SameOutside(T, U, p)
  BY <1>1, <1>4, PrefixRefl DEF SameOutside
<1>7. \A q \in DOMAIN T :
         Is(T, q, "skip") /\ q \o T[q].path = p /\ q \notin {} => ForkAt(U, p)
  BY DEF WellFormedBut, SkipsLead, ForkAt, Is
<1>8. Paths(T) /\ Paths(U)
  BY <1>3, TypedPaths
<1>9. WellFormedBut(U, {})
  BY <1>4, <1>5, <1>6, <1>7, <1>8, ReplaceShape
<1>. QED
  BY <1>3, <1>9 DEF U

(* The value of a Fork may be set or taken.                                 *)
LEMMA PutForkShape ==
    ASSUME NEW T, NEW H, Typed(T, H), WellFormedBut(T, {}),
           NEW p \in DOMAIN T, T[p].type = "fork", NEW slot \in Value \cup {NoValue}
    PROVE  LET U == Put(T, p, Fork(slot))
           IN  /\ Typed(U, H) /\ WellFormedBut(U, {p}) /\ StubsKept(T, U)
               /\ p \in DOMAIN U /\ U[p].type = "fork" /\ U[p].value = slot
               /\ Children(U, p) # {}
               /\ slot # NoValue => WellFormedBut(U, {})
<1>. DEFINE U == Put(T, p, Fork(slot))
<1>1. p \in Path /\ DOMAIN T \subseteq Path
  BY DEF Typed
<1>2. Fork(slot) \in Node(H) /\ Fork(slot).type = "fork" /\ Fork(slot).value = slot
  BY DEF Fork, Node
<1>3. Typed(U, H) /\ StubsKept(T, U)
  BY <1>1, <1>2, PutTyped, PutStubs
<1>4. /\ DOMAIN U = DOMAIN T /\ U[p].type = "fork" /\ U[p].value = slot
      /\ \A q \in DOMAIN T : q # p => U[q] = T[q]
  BY <1>2 DEF Put
<1>. HIDE DEF U
<1>5. Paths(T) /\ Paths(U)
  BY <1>3, TypedPaths
<1>6. ASSUME NEW q \in DOMAIN U, starts_with(q, p)
      PROVE  Good(U, {p}, q)
  <2>0. Good(T, {}, q) /\ q \in Path
    BY <1>1, <1>4, ShapeGood
  <2>1. CASE q = p
    <3>1. ASSUME NEW r \in DOMAIN U, Below(r, p)
          PROVE  Leads(U, p, r)
      <4>1. PICK c \in DOMAIN T : IsParent(T, p, c) /\ starts_with(r, c)
        BY <1>4, <2>0, <2>1, <3>1 DEF Good, Leads
      <4>2. IsParent(U, p, c)
        BY <1>4, <4>1 DEF IsParent, Is
      <4>. QED
        BY <1>4, <4>1, <4>2 DEF Leads
    <3>. QED
      BY <1>4, <2>1, <3>1 DEF Good
  <2>2. CASE q # p
    <3>1. \A r \in Path : starts_with(r, q) => r # p
      BY <1>1, <1>6, <2>0, <2>2, PrefixAntisym
    <3>2. Agree(T, q, U, q)
      BY <1>4, <2>0, <3>1, AgreeSelf
    <3>. QED
      BY <1>4, <1>5, <2>0, <3>2, GoodAgree
  <2>. QED
    BY <2>1, <2>2
<1>7. SameOutside(T, U, p)
  BY <1>1, <1>4, PrefixRefl DEF SameOutside
<1>8. \A q \in DOMAIN T :
         Is(T, q, "skip") /\ q \o T[q].path = p /\ q \notin {p} => ForkAt(U, p)
  BY <1>4 DEF ForkAt, Is
<1>9. WellFormedBut(U, {p})
  BY <1>4, <1>5, <1>6, <1>7, <1>8, ReplaceShape
<1>10. Children(U, p) = Children(T, p) /\ Crowded(T, p)
  BY <1>4 DEF Children, WellFormedBut, ForksCrowded
<1>11. Children(U, p) # {}
  BY <1>10 DEF Crowded
<1>12. slot # NoValue => WellFormedBut(U, {})
  <2>1. slot # NoValue => Crowded(U, p)
    BY <1>4, <1>11 DEF Crowded
  <2>. QED
    BY <1>4, <1>9, <2>1, CrowdedShape
<1>. QED
  BY <1>3, <1>4, <1>9, <1>11, <1>12 DEF U

-----------------------------------------------------------------------------
(* Normalizing *)

(* U is T with the node at p rebuilt: only what leads to p may be wrong.    *)
Parents(T, p) == {q \in DOMAIN T : IsParent(T, q, p)}

Rebuilt(T, U, H, p) ==
    /\ Typed(U, H) /\ StubsKept(T, U)
    /\ WellFormedBut(U, Parents(U, p))
    /\ ForksCrowded(U, {})
    /\ p \in DOMAIN U /\ U[p].type # "stub"

LEMMA RebuiltIntro ==
    ASSUME NEW T, NEW U, NEW H, Typed(T, H), Typed(U, H),
           NEW p \in DOMAIN T, p \in DOMAIN U, WellFormedBut(T, {p}), SameOutside(T, U, p),
           U[p].type # "stub", StubsKept(T, U),
           \A q \in DOMAIN U : starts_with(q, p) => Good(U, {}, q)
    PROVE  Rebuilt(T, U, H, p)
<1>. DEFINE Y == Parents(U, p)
<1>1. Paths(T) /\ Paths(U) /\ p \in Path
  BY TypedPaths DEF Typed
<1>2. \A q \in DOMAIN U : starts_with(q, p) => Good(U, Y, q)
  BY DEF Good
<1>3. \A q \in DOMAIN T : ~starts_with(q, p) /\ q \in {p} => q \in Y
  BY <1>1, PrefixRefl
<1>4. ASSUME NEW q \in DOMAIN T, Is(T, q, "skip"), q \o T[q].path = p, q \notin Y
      PROVE  FALSE
  <2>1. T[q].path # <<>> /\ T[q].path \in Path /\ q \in Path
    BY <1>1, <1>4 DEF WellFormedBut, SkipsLead, Is, Paths
  <2>2. starts_with(p, q) /\ p # q
    BY <1>4, <2>1, PrefixConcat
  <2>3. ~starts_with(q, p)
    BY <1>1, <2>1, <2>2, PrefixAntisym
  <2>4. q \in DOMAIN U /\ U[q] = T[q]
    BY <2>1, <2>3 DEF SameOutside
  <2>. QED
    BY <1>4, <2>4 DEF Parents, IsParent, Is
<1>5. WellFormedBut(U, Y)
  <2>. HIDE DEF Y
  <2>. QED
    BY <1>1, <1>2, <1>3, <1>4, ReplaceShape
<1>6. ForksCrowded(U, {})
  <2>1. \A q \in DOMAIN U \ {} : starts_with(q, p) /\ U[q].type = "fork" => Crowded(U, q)
    BY DEF Good
  <2>2. \A q \in DOMAIN T : ~starts_with(q, p) /\ q \in {p} => q \in {}
    BY <1>1, PrefixRefl
  <2>3. ForksCrowded(T, {p})
    BY DEF WellFormedBut
  <2>. QED
    BY <1>1, <2>1, <2>2, <2>3, ReplaceForks
<1>. QED
  BY <1>5, <1>6 DEF Rebuilt

(* A path put in front of the one node that p leads to.                     *)
LEMMA PrependShape ==
    ASSUME NEW T, NEW H, Typed(T, H), NEW p \in DOMAIN T, WellFormedBut(T, {p}),
           NEW path \in Path, path # <<>>, NEW c, c = p \o path, c \in DOMAIN T,
           T[c].type # "stub", \A r \in DOMAIN T : Below(r, p) => starts_with(r, c)
    PROVE  Rebuilt(T, prepend(T, p, path), H, p)
<1>1. /\ p \in Path /\ c \in Path /\ DOMAIN T \subseteq Path
      /\ starts_with(c, p) /\ c # p /\ ~starts_with(p, c) /\ starts_with(p, p)
  <2>1. p \in Path /\ DOMAIN T \subseteq Path
    BY DEF Typed
  <2>2. c \in Path /\ starts_with(c, p) /\ c # p /\ starts_with(p, p)
    BY <2>1, PrefixConcat, PrefixRefl
  <2>. QED
    BY <2>1, <2>2, PrefixAntisym
<1>2. Good(T, {p}, c)
  BY ShapeGood
<1>3. Connected(T) /\ Paths(T)
  BY TypedPaths DEF WellFormedBut
\* Below c nothing changes.
<1>4. ASSUME NEW U, Paths(U), NEW q \in DOMAIN T, q # p, q # c, starts_with(q, p),
             \A r \in Path : r # p /\ r # c =>
                (r \in DOMAIN T <=> r \in DOMAIN U) /\ (r \in DOMAIN T => U[r] = T[r])
      PROVE  Good(U, {}, q)
  <2>1. q \in Path /\ starts_with(q, c)
    BY <1>1, <1>4 DEF Below
  <2>2. ASSUME NEW r \in Path, starts_with(r, q)
        PROVE  r # p /\ r # c
    <3>1. ~starts_with(p, q) /\ ~starts_with(c, q)
      BY <1>1, <1>4, <2>1, PrefixAntisym
    <3>. QED
      BY <2>2, <3>1
  <2>3. Agree(T, q, U, q)
    BY <1>4, <2>1, <2>2, AgreeSelf
  <2>4. Good(T, {p}, q)
    BY ShapeGood
  <2>. QED
    BY <1>3, <1>4, <2>1, <2>3, <2>4, GoodAgree
<1>5. CASE T[c].type = "leaf"
  <2>. DEFINE node == Leaf(path \o T[c].path, T[c].value)
              U == Put(Cut(T, {c}), p, node)
  <2>1. T[c].path \in Path /\ T[c].value \in Value
    BY <1>5, NodeTypes
  <2>2. path \o T[c].path \in Path
    BY <2>1, PrefixConcat
  <2>3. node \in Node(H) /\ node.type = "leaf"
    BY <2>1, <2>2 DEF Node, Leaf
  <2>. HIDE DEF node
  <2>4. prepend(T, p, path) = U
    BY <1>5 DEF prepend, Is, node
  <2>5. Typed(Cut(T, {c}), H) /\ StubsKept(T, Cut(T, {c}))
    BY CutTyped, CutStubs
  <2>6. Typed(U, H) /\ StubsKept(Cut(T, {c}), U)
    BY <1>1, <2>3, <2>5, PutTyped, PutStubs
  <2>7. StubsKept(T, U)
    BY <2>5, <2>6, StubsKeptTrans
  <2>8. /\ DOMAIN U = DOMAIN T \ {c} /\ U[p] = node
        /\ \A q \in DOMAIN T : q # p /\ q # c => U[q] = T[q]
    BY <1>1 DEF Put, Cut
  <2>. HIDE DEF U
  <2>9. ASSUME NEW q \in DOMAIN U, starts_with(q, p)
        PROVE  Good(U, {}, q)
    <3>1. q = p
      <4>1. q \in DOMAIN T /\ q # c
        BY <2>8
      <4>2. ~Below(q, c)
        BY <1>3, <1>5, <4>1, NothingBelow
      <4>. QED
        BY <2>9, <4>1, <4>2 DEF Below
    <3>2. ASSUME NEW r \in DOMAIN U
          PROVE  ~Below(r, p)
      <4>1. r \in DOMAIN T /\ r # c
        BY <2>8
      <4>2. ~Below(r, c)
        BY <1>3, <1>5, <4>1, NothingBelow
      <4>. QED
        BY <4>1, <4>2 DEF Below
    <3>. QED
      BY <2>3, <2>8, <3>1, <3>2 DEF Good
  <2>10. SameOutside(T, U, p)
    BY <1>1, <2>8 DEF SameOutside
  <2>11. p \in DOMAIN U /\ U[p].type # "stub"
    BY <1>1, <2>3, <2>8
  <2>. QED
    BY <2>4, <2>6, <2>7, <2>9, <2>10, <2>11, RebuiltIntro
<1>6. CASE T[c].type = "skip"
  <2>. DEFINE next == T[c].path
              d == c \o next
              node == Skip(path \o next)
              U == Put(Cut(T, {c}), p, node)
  <2>1. next \in Path /\ next # <<>> /\ ForkAt(T, d)
    BY <1>1, <1>2, <1>6, NodeTypes DEF Good
  <2>2. path \o next \in Path /\ p \o (path \o next) = d /\ path \o next # <<>>
    <3>0. p \in Path /\ path \in Path /\ next \in Path
      BY <1>1, <2>1
    <3>. HIDE DEF next
    <3>1. (p \o path) \o next = p \o (path \o next)
      BY <3>0, ConcatAssoc
    <3>. USE DEF next
    <3>2. path \o next \in Path /\ starts_with(path \o next, path)
      BY <2>1, PrefixConcat
    <3>3. path \o next # <<>>
      BY <3>2, PrefixEmpty
    <3>. QED
      BY <3>1, <3>2, <3>3
  <2>3. node \in Node(H) /\ node.type = "skip" /\ node.path = path \o next
    BY <2>2 DEF Node, Skip
  <2>4. prepend(T, p, path) = U
    BY <1>6 DEF prepend, Is
  <2>5. Typed(Cut(T, {c}), H) /\ StubsKept(T, Cut(T, {c}))
    BY CutTyped, CutStubs
  <2>. HIDE DEF node
  <2>6. Typed(U, H) /\ StubsKept(Cut(T, {c}), U)
    BY <1>1, <2>3, <2>5, PutTyped, PutStubs
  <2>7. StubsKept(T, U)
    BY <2>5, <2>6, StubsKeptTrans
  <2>8. /\ DOMAIN U = DOMAIN T \ {c} /\ U[p] = node
        /\ \A q \in DOMAIN T : q # p /\ q # c => U[q] = T[q]
    BY <1>1 DEF Put, Cut
  <2>9. Paths(U)
    BY <2>6, TypedPaths
  <2>. HIDE DEF U, next
  <2>10. d \in DOMAIN T /\ d # c /\ d # p /\ d \in Path
    <3>1. d \in DOMAIN T /\ d # c /\ starts_with(d, c)
      BY <1>1, <2>1, PrefixConcat DEF ForkAt, Is
    <3>. QED
      BY <1>1, <3>1
  <2>. HIDE DEF d
  <2>11. Good(U, {}, p)
    <3>1. IsParent(U, p, d) /\ d \in DOMAIN U /\ U[d] = T[d]
      BY <1>1, <2>2, <2>3, <2>8, <2>10 DEF IsParent, Is
    <3>2. ASSUME NEW r \in DOMAIN U, Below(r, p)
          PROVE  Leads(U, p, r)
      <4>1. r \in DOMAIN T /\ Below(r, c)
        BY <2>8, <3>2 DEF Below
      <4>2. PICK e \in DOMAIN T : IsParent(T, c, e) /\ starts_with(r, e)
        BY <1>2, <4>1 DEF Good, Leads
      <4>3. e = d
        BY <1>6, <4>2 DEF IsParent, Is, d, next
      <4>. QED
        BY <3>1, <4>2, <4>3 DEF Leads
    <3>3. ForkAt(U, p \o U[p].path)
      BY <2>1, <2>2, <2>3, <2>8, <3>1 DEF ForkAt, Is
    <3>. QED
      BY <2>2, <2>3, <2>8, <3>2, <3>3 DEF Good
  <2>12. ASSUME NEW q \in DOMAIN U, starts_with(q, p)
         PROVE  Good(U, {}, q)
    <3>1. CASE q = p
      BY <2>11, <3>1
    <3>2. CASE q # p
      BY <1>4, <2>8, <2>9, <2>12, <3>2
    <3>. QED
      BY <3>1, <3>2
  <2>13. SameOutside(T, U, p)
    BY <1>1, <2>8 DEF SameOutside
  <2>14. p \in DOMAIN U /\ U[p].type # "stub"
    BY <1>1, <2>3, <2>8
  <2>. QED
    BY <2>4, <2>6, <2>7, <2>12, <2>13, <2>14, RebuiltIntro
<1>7. CASE T[c].type = "fork"
  <2>. DEFINE node == Skip(path)
              U == Put(T, p, node)
  <2>1. node \in Node(H) /\ node.type = "skip" /\ node.path = path
    BY DEF Node, Skip
  <2>2. prepend(T, p, path) = U
    BY <1>7 DEF prepend, Is
  <2>. HIDE DEF node
  <2>3. Typed(U, H) /\ StubsKept(T, U)
    BY <1>1, <2>1, PutTyped, PutStubs
  <2>4. /\ DOMAIN U = DOMAIN T /\ U[p] = node
        /\ \A q \in DOMAIN T : q # p => U[q] = T[q]
    BY DEF Put
  <2>5. Paths(U)
    BY <2>3, TypedPaths
  <2>. HIDE DEF U
  <2>6. Good(U, {}, p)
    <3>1. IsParent(U, p, c) /\ U[c] = T[c]
      BY <1>1, <2>1, <2>4 DEF IsParent, Is
    <3>2. \A r \in DOMAIN U : Below(r, p) => Leads(U, p, r)
      BY <2>4, <3>1 DEF Leads
    <3>3. ForkAt(U, p \o U[p].path)
      BY <1>7, <2>1, <2>4, <3>1 DEF ForkAt, Is
    <3>. QED
      BY <2>1, <2>4, <3>2, <3>3 DEF Good
  <2>7. Good(U, {}, c)
    <3>1. \A r \in Path : starts_with(r, c) => r # p
      BY <1>1
    <3>2. Agree(T, c, U, c)
      BY <1>1, <2>4, <3>1, AgreeSelf
    <3>. QED
      BY <1>1, <1>2, <1>3, <2>5, <3>2, GoodAgree
  <2>8. ASSUME NEW q \in DOMAIN U, starts_with(q, p)
        PROVE  Good(U, {}, q)
    <3>1. CASE q = p \/ q = c
      BY <2>6, <2>7, <3>1
    <3>2. CASE q # p /\ q # c
      BY <1>4, <2>4, <2>5, <2>8, <3>2
    <3>. QED
      BY <3>1, <3>2
  <2>9. SameOutside(T, U, p)
    BY <1>1, <2>4 DEF SameOutside
  <2>10. p \in DOMAIN U /\ U[p].type # "stub"
    BY <2>1, <2>4
  <2>. QED
    BY <2>2, <2>3, <2>8, <2>9, <2>10, RebuiltIntro
<1>. QED
  BY <1>5, <1>6, <1>7, NodeTypes

(* What the node at p needs in order to be normalized: an occupant, if it   *)
(* is a Fork, and a node that is loaded at the end of its path, if a Skip.  *)
Occupied(T, p) ==
    /\ T[p].type = "fork" => T[p].value # NoValue \/ Children(T, p) # {}
    /\ T[p].type = "skip" => LET c == p \o T[p].path
                             IN c \in DOMAIN T /\ T[c].type # "stub"

LEMMA CollapseFields ==
    ASSUME NEW T, NEW p, Collapses(T, p)
    PROVE  /\ OnlyNibble(T, p) \in Nibble
           /\ Children(T, p) = {OnlyNibble(T, p)}
           /\ OnlyChild(T, p) = Append(p, OnlyNibble(T, p))
  BY DEF Collapses, OnlyNibble, OnlyChild

LEMMA NormalizeShape ==
    ASSUME NEW T, NEW H, Typed(T, H), NEW p \in DOMAIN T, WellFormedBut(T, {p}),
           T[p].type \in {"fork", "skip"}, Occupied(T, p),
           ~(Collapses(T, p) /\ Is(T, OnlyChild(T, p), "stub"))
    PROVE  Rebuilt(T, normalize(T, p), H, p)
<1>1. p \in Path /\ DOMAIN T \subseteq Path /\ Good(T, {p}, p)
  BY ShapeGood DEF Typed
<1>2. Paths(T)
  BY TypedPaths
<1>3. CASE T[p].type = "fork" /\ Children(T, p) = {}
  <2>. DEFINE node == Leaf(<<>>, T[p].value)
              U == Put(T, p, node)
  <2>1. T[p].value \in Value
    BY <1>3, NodeTypes DEF Occupied
  <2>2. node \in Node(H) /\ node.type = "leaf"
    BY <2>1, EmptyPath DEF Node, Leaf
  <2>3. normalize(T, p) = U
    <3>1. ~Collapses(T, p) /\ ~Is(T, p, "skip") /\ Is(T, p, "fork")
      BY <1>3 DEF Collapses, Is
    <3>2. T[p].value # NoValue
      BY <2>1, NoValueAssumption
    <3>. QED
      BY <1>3, <3>1, <3>2 DEF normalize
  <2>. HIDE DEF node
  <2>4. Typed(U, H) /\ StubsKept(T, U)
    BY <1>1, <2>2, PutTyped, PutStubs
  <2>5. /\ DOMAIN U = DOMAIN T /\ U[p] = node
        /\ \A q \in DOMAIN T : q # p => U[q] = T[q]
    BY DEF Put
  <2>. HIDE DEF U
  <2>6. ASSUME NEW r \in DOMAIN U
        PROVE  ~Below(r, p)
    BY <1>1, <1>3, <2>5 DEF Good, Leads, IsParent, Is, Children
  <2>7. ASSUME NEW q \in DOMAIN U, starts_with(q, p)
        PROVE  Good(U, {}, q)
    <3>1. q = p
      BY <2>6, <2>7 DEF Below
    <3>. QED
      BY <2>2, <2>5, <2>6, <3>1 DEF Good
  <2>8. SameOutside(T, U, p)
    BY <1>1, <2>5, PrefixRefl DEF SameOutside
  <2>9. p \in DOMAIN U /\ U[p].type # "stub"
    BY <2>2, <2>5
  <2>. QED
    BY <2>3, <2>4, <2>7, <2>8, <2>9, RebuiltIntro
<1>4. CASE Collapses(T, p)
  <2>. DEFINE n == OnlyNibble(T, p)
              c == Append(p, n)
  <2>1. n \in Nibble /\ Children(T, p) = {n} /\ OnlyChild(T, p) = c /\ T[p].type = "fork"
    BY <1>4, CollapseFields DEF Collapses, Is
  <2>2. normalize(T, p) = prepend(T, p, <<n>>)
    <3>1. ~(Is(T, p, "fork") /\ Children(T, p) = {}) /\ ~Is(T, p, "skip")
      BY <2>1 DEF Is
    <3>. HIDE DEF c
    <3>. QED
      BY <1>4, <3>1 DEF normalize
  <2>. HIDE DEF n
  <2>3. <<n>> \in Path /\ <<n>> # <<>> /\ c = p \o <<n>>
    BY <1>1, <2>1, AppendPath
  <2>4. c \in DOMAIN T
    BY <2>1 DEF Children
  <2>5. T[c].type # "stub"
    BY <1>4, <2>1, <2>4 DEF Is
  <2>6. ASSUME NEW r \in DOMAIN T, Below(r, p)
        PROVE  starts_with(r, c)
    <3>1. PICK e \in DOMAIN T : IsParent(T, p, e) /\ starts_with(r, e)
      BY <1>1, <2>6 DEF Good, Leads
    <3>2. PICK m \in Nibble : e = Append(p, m)
      BY <2>1, <3>1 DEF IsParent, Is
    <3>3. m = n
      BY <2>1, <3>1, <3>2 DEF Children
    <3>. QED
      BY <3>1, <3>2, <3>3
  <2>. HIDE DEF c
  <2>. QED
    BY <2>2, <2>3, <2>4, <2>5, <2>6, PrependShape
<1>5. CASE T[p].type = "skip"
  <2>. DEFINE path == T[p].path
              c == p \o path
  <2>1. path \in Path /\ path # <<>>
    BY <1>1, <1>2, <1>5 DEF Good, Paths
  <2>2. normalize(T, p) = prepend(T, p, path)
    BY <1>5 DEF normalize, Collapses, Is
  <2>3. c \in DOMAIN T /\ T[c].type # "stub"
    BY <1>5 DEF Occupied
  <2>4. \A r \in DOMAIN T : Below(r, p) => starts_with(r, c)
    BY <1>1, <1>5 DEF Good, Leads, IsParent, Is
  <2>. HIDE DEF path
  <2>. QED
    BY <2>1, <2>2, <2>3, <2>4, PrependShape
<1>6. CASE T[p].type = "fork" /\ Children(T, p) # {} /\ ~Collapses(T, p)
  <2>1. normalize(T, p) = T
    BY <1>6 DEF normalize, Is
  <2>2. Crowded(T, p)
    <3>1. PICK n \in Nibble : n \in Children(T, p)
      BY <1>6 DEF Children
    <3>2. CASE T[p].value # NoValue
      BY <1>6, <3>2 DEF Crowded
    <3>3. CASE T[p].value = NoValue
      <4>1. Children(T, p) # {n}
        BY <1>6, <3>3 DEF Collapses, Is
      <4>2. PICK m \in Children(T, p) : m # n
        BY <3>1, <4>1
      <4>. QED
        BY <3>1, <4>2 DEF Crowded, Children
    <3>. QED
      BY <3>2, <3>3
  <2>3. WellFormedBut(T, {})
    BY <1>6, <2>2, CrowdedShape
  <2>4. \A q \in DOMAIN T : Good(T, {}, q)
    BY <2>3, ShapeGood
  <2>5. SameOutside(T, T, p) /\ StubsKept(T, T)
    BY DEF SameOutside, StubsKept
  <2>6. T[p].type # "stub"
    BY <1>6
  <2>. QED
    BY <2>1, <2>4, <2>5, <2>6, RebuiltIntro
<1>. QED
  BY <1>3, <1>4, <1>5, <1>6

-----------------------------------------------------------------------------
(* Removing a Leaf *)

LEMMA CutLeafShape ==
    ASSUME NEW T, NEW H, Typed(T, H), NEW p \in DOMAIN T, T[p].type = "leaf",
           WellFormedBut(T, {})
    PROVE  LET U == Cut(T, {p})
           IN  /\ Typed(U, H) /\ StubsKept(T, U) /\ p \notin DOMAIN U
               /\ WellFormedBut(U, Parents(U, p))
               /\ \A q \in Parents(U, p) : U[q].type = "fork" /\ Occupied(U, q)
<1>. DEFINE U == Cut(T, {p})
<1>1. p \in Path /\ DOMAIN T \subseteq Path /\ Paths(T)
  BY TypedPaths DEF Typed
<1>2. Typed(U, H) /\ StubsKept(T, U)
  BY CutTyped, CutStubs
<1>3. /\ DOMAIN U = DOMAIN T \ {p}
      /\ \A q \in DOMAIN U : U[q] = T[q]
      /\ DOMAIN U = {} => U = Null
  BY DEF Cut, Null
<1>. HIDE DEF U
<1>4. Connected(T) /\ SkipsLead(T, {}) /\ ForksCrowded(T, {})
  BY DEF WellFormedBut
<1>5. \A r \in DOMAIN U : ~Below(r, p)
  BY <1>3, <1>4, NothingBelow
<1>6. U = Null \/ <<>> \in DOMAIN U
  <2>1. CASE p = <<>>
    <3>1. \A r \in DOMAIN U : FALSE
      BY <1>1, <1>3, <1>5, <2>1, PrefixEmpty DEF Below
    <3>. QED
      BY <1>3, <3>1
  <2>2. CASE p # <<>>
    BY <1>3, <1>4, <2>2 DEF Connected, Null
  <2>. QED
    BY <2>1, <2>2
<1>7. ASSUME NEW q \in DOMAIN U
      PROVE  /\ U[q].type = "skip" => ~IsParent(U, q, p)
             /\ Good(U, Parents(U, p), q)
  <2>1. q \in DOMAIN T /\ U[q] = T[q] /\ Good(T, {}, q) /\ q \in Path
    BY <1>1, <1>3, ShapeGood
  <2>2. ASSUME NEW r \in DOMAIN U, Below(r, q)
        PROVE  Leads(U, q, r)
    <3>1. PICK c \in DOMAIN T : IsParent(T, q, c) /\ starts_with(r, c)
      BY <1>3, <2>1, <2>2 DEF Good, Leads
    <3>2. c # p
      BY <1>3, <1>5, <3>1 DEF Below
    <3>. QED
      BY <1>3, <2>1, <3>1, <3>2, ParentSame DEF Leads
  <2>3. ASSUME U[q].type = "skip"
        PROVE  /\ U[q].path # <<>> /\ ForkAt(U, q \o U[q].path)
               /\ ~IsParent(U, q, p)
    <3>1. ForkAt(T, q \o T[q].path) /\ T[q].path # <<>>
      BY <2>1, <2>3 DEF Good
    <3>2. q \o T[q].path # p
      BY <3>1 DEF ForkAt, Is
    <3>. QED
      BY <1>3, <2>1, <2>3, <3>1, <3>2 DEF ForkAt, Is, IsParent
  <2>4. ASSUME U[q].type = "fork", q \notin Parents(U, p)
        PROVE  Crowded(U, q)
    <3>1. Crowded(T, q)
      BY <2>1, <2>4 DEF Good
    <3>2. \A n \in Nibble : Append(q, n) # p
      BY <2>4 DEF Parents, IsParent, Is
    <3>3. Children(U, q) = Children(T, q)
      BY <1>3, <3>2 DEF Children
    <3>. QED
      BY <2>1, <3>1, <3>3 DEF Crowded
  <2>. QED
    BY <2>2, <2>3, <2>4 DEF Good
<1>8. WellFormedBut(U, Parents(U, p))
  BY <1>6, <1>7, GoodShape
<1>9. ASSUME NEW q \in Parents(U, p)
      PROVE  U[q].type = "fork" /\ Occupied(U, q)
  <2>1. q \in DOMAIN U /\ IsParent(U, q, p)
    BY DEF Parents
  <2>2. q \in DOMAIN T /\ U[q] = T[q] /\ q \in Path /\ U[q].type = "fork"
    BY <1>1, <1>3, <1>7, <2>1 DEF IsParent, Is
  <2>3. PICK k \in Nibble : p = Append(q, k)
    BY <2>1, <2>2 DEF IsParent, Is
  <2>4. Crowded(T, q)
    BY <1>4, <2>2 DEF ForksCrowded
  <2>5. ASSUME NEW n \in Nibble, n \in Children(T, q), n # k
        PROVE  n \in Children(U, q)
    BY <1>3, <2>2, <2>3, <2>5, AppendInj DEF Children
  <2>6. U[q].value # NoValue \/ Children(U, q) # {}
    <3>1. CASE T[q].value # NoValue
      BY <2>2, <3>1
    <3>2. CASE \E m, n \in Nibble : m # n /\ {m, n} \subseteq Children(T, q)
      BY <2>5, <3>2
    <3>. QED
      BY <2>4, <3>1, <3>2 DEF Crowded
  <2>. QED
    BY <2>2, <2>6 DEF Occupied
<1>. QED
  BY <1>2, <1>3, <1>8, <1>9 DEF U

-----------------------------------------------------------------------------
(* Edits of one node *)

(* What the nodes of T other than the one at p bind.                        *)
Others(T, p, k, v) == \E q \in DOMAIN T : q # p /\ Yields(q, T[q], k, v)

Silent(T, p) == \A k, v : p \in DOMAIN T => ~Yields(p, T[p], k, v)

LEMMA BindsSplit ==
    ASSUME NEW T, NEW p, NEW k, NEW v
    PROVE  Binds(T, k, v) <=> Others(T, p, k, v) \/ (p \in DOMAIN T /\ Yields(p, T[p], k, v))
  BY DEF Binds, Others

LEMMA PutBinds ==
    ASSUME NEW T, NEW p, NEW n, NEW k, NEW v
    PROVE  Binds(Put(T, p, n), k, v) <=> Others(T, p, k, v) \/ Yields(p, n, k, v)
<1>1. /\ DOMAIN Put(T, p, n) = DOMAIN T \cup {p}
      /\ Put(T, p, n)[p] = n
      /\ \A q \in DOMAIN T : q # p => Put(T, p, n)[q] = T[q]
  BY DEF Put
<1>. QED
  BY <1>1 DEF Binds, Others

LEMMA CutBinds ==
    ASSUME NEW T, NEW p, NEW k, NEW v
    PROVE  Binds(Cut(T, {p}), k, v) <=> Others(T, p, k, v)
<1>1. /\ DOMAIN Cut(T, {p}) = DOMAIN T \ {p}
      /\ \A q \in DOMAIN T \ {p} : Cut(T, {p})[q] = T[q]
  BY DEF Cut
<1>. QED
  BY <1>1 DEF Binds, Others

(* A node put in place of one that binds nothing, or of none.               *)
LEMMA PutOnSilent ==
    ASSUME NEW T, NEW p, NEW n, Silent(T, p), NEW k, NEW v
    PROVE  Binds(Put(T, p, n), k, v) <=> Binds(T, k, v) \/ Yields(p, n, k, v)
  BY PutBinds, BindsSplit DEF Silent

LEMMA SilentNodes ==
    ASSUME NEW T, NEW p
    PROVE  /\ p \notin DOMAIN T => Silent(T, p)
           /\ p \in DOMAIN T /\ T[p].type = "skip" => Silent(T, p)
           /\ p \in DOMAIN T /\ T[p].type = "fork" /\ T[p].value = NoValue => Silent(T, p)
<1>1. p \notin DOMAIN T => Silent(T, p)
  BY DEF Silent
<1>2. p \in DOMAIN T /\ T[p].type = "skip" => Silent(T, p)
  BY TypeYields DEF Silent
<1>3. p \in DOMAIN T /\ T[p].type = "fork" /\ T[p].value = NoValue => Silent(T, p)
  BY TypeYields DEF Silent
<1>. QED
  BY <1>1, <1>2, <1>3

(* What is left of a key past the nibble that leads out of p.               *)
LEMMA HeadTail ==
    ASSUME NEW p \in Path, NEW rest \in Path, rest # <<>>
    PROVE  /\ Head(rest) \in Nibble /\ Tail(rest) \in Path
           /\ Append(p, Head(rest)) \in Path
           /\ Append(p, Head(rest)) \o Tail(rest) = p \o rest
<1>1. Head(rest) \in Nibble /\ Tail(rest) \in Path /\ rest = <<Head(rest)>> \o Tail(rest)
  <2>1. Head(rest) \in Nibble /\ Tail(rest) \in Path
    BY HeadTailProperties DEF Path
  <2>2. Len(rest) \in Nat /\ 0 < Len(rest)
    BY LenProperties, EmptySeq DEF Path
  <2>3. rest = <<rest[1]>> \o Drop(rest, 1)
    <3>1. Drop(rest, 0) = rest
      BY EmptyPath, PrefixEmpty, PrefixSplit, ConcatEmpty
    <3>. QED
      BY <2>2, <3>1, DropStep
  <2>4. Tail(rest) = Drop(rest, 1)
    BY TailIsSubSeq DEF Drop, Path
  <2>5. Head(rest) = rest[1]
    OBVIOUS
  <2>. QED
    BY <2>1, <2>3, <2>4, <2>5
<1>2. /\ Append(p, Head(rest)) = p \o <<Head(rest)>> /\ <<Head(rest)>> \in Path
      /\ Append(p, Head(rest)) \in Path
  BY <1>1, AppendPath
<1>3. (p \o <<Head(rest)>>) \o Tail(rest) = p \o (<<Head(rest)>> \o Tail(rest))
  BY <1>1, <1>2, ConcatAssoc
<1>4. Append(p, Head(rest)) \o Tail(rest) = p \o rest
  BY <1>1, <1>2, <1>3, Zenon
<1>. QED
  BY <1>1, <1>2, <1>4

LEMMA HangBinds ==
    ASSUME NEW T, NEW p \in Path, NEW rest \in Path, NEW value,
           rest # <<>> => Silent(T, Append(p, Head(rest))), NEW k, NEW v
    PROVE  Binds(Hang(T, p, rest, value), k, v) <=>
              Binds(T, k, v) \/ (rest # <<>> /\ k = p \o rest /\ v = value)
<1>1. CASE rest = <<>>
  BY <1>1 DEF Hang
<1>2. CASE rest # <<>>
  <2>. DEFINE c == Append(p, Head(rest))
              n == Leaf(Tail(rest), value)
  <2>1. Hang(T, p, rest, value) = Put(T, c, n)
    BY <1>2 DEF Hang
  <2>2. c \o Tail(rest) = p \o rest
    BY <1>2, HeadTail
  <2>3. Yields(c, n, k, v) <=> k = c \o Tail(rest) /\ v = value
    BY LeafYields
  <2>4. Binds(Put(T, c, n), k, v) <=> Binds(T, k, v) \/ Yields(c, n, k, v)
    BY <1>2, PutOnSilent
  <2>. HIDE DEF c, n
  <2>. QED
    BY <1>2, <2>1, <2>2, <2>3, <2>4
<1>. QED
  BY <1>1, <1>2

-----------------------------------------------------------------------------
(* Splits *)

LEMMA SkipOrBinds ==
    ASSUME NEW T, NEW p \in Path, NEW common \in Path, NEW node,
           common # <<>> => Silent(T, p \o common), NEW k, NEW v
    PROVE  Binds(skip_or(T, p, common, node), k, v) <=>
              Others(T, p, k, v) \/ Yields(p \o common, node, k, v)
<1>. DEFINE base == p \o common
            A == Put(T, p, Skip(common))
<1>1. CASE common = <<>>
  <2>1. skip_or(T, p, common, node) = Put(T, p, node) /\ base = p
    BY <1>1, ConcatEmpty DEF skip_or
  <2>2. Binds(Put(T, p, node), k, v) <=> Others(T, p, k, v) \/ Yields(p, node, k, v)
    BY PutBinds
  <2>. QED
    BY <2>1, <2>2
<1>2. CASE common # <<>>
  <2>1. skip_or(T, p, common, node) = Put(A, base, node)
    BY <1>2 DEF skip_or
  <2>2. base # p
    BY <1>2, PrefixConcat
  <2>3. Silent(A, base)
    <3>1. base \in DOMAIN A => base \in DOMAIN T /\ A[base] = T[base]
      BY <2>2 DEF Put
    <3>. QED
      BY <1>2, <3>1 DEF Silent
  <2>4. Binds(A, k, v) <=> Others(T, p, k, v)
    BY PutBinds, SkipYields
  <2>5. Binds(Put(A, base, node), k, v) <=> Binds(A, k, v) \/ Yields(base, node, k, v)
    BY <2>3, PutOnSilent
  <2>. HIDE DEF A, base
  <2>6. Binds(skip_or(T, p, common, node), k, v) <=>
              Others(T, p, k, v) \/ Yields(base, node, k, v)
    BY <2>1, <2>4, <2>5
  <2>. QED
    BY <2>6 DEF base
<1>. QED
  BY <1>1, <1>2

LEMMA HangDomain ==
    ASSUME NEW T, NEW p, NEW rest, NEW value
    PROVE  \A q : q \in DOMAIN Hang(T, p, rest, value) <=>
                  q \in DOMAIN T \/ (rest # <<>> /\ q = Append(p, Head(rest)))
  BY DEF Hang, Put

LEMMA SkipOrDomain ==
    ASSUME NEW T, NEW p \in Path, NEW common \in Path, NEW node
    PROVE  \A q : q \in DOMAIN skip_or(T, p, common, node) <=>
                  q \in DOMAIN T \/ q = p \/ q = p \o common
<1>1. CASE common = <<>>
  BY <1>1, ConcatEmpty DEF skip_or, Put
<1>2. CASE common # <<>>
  BY <1>2 DEF skip_or, Put
<1>. QED
  BY <1>1, <1>2

LEMMA SplitLeafBinds ==
    ASSUME NEW T, NEW H, Solid(T, H), NEW p \in DOMAIN T, T[p].type = "leaf",
           NEW rest \in Path, NEW value \in Value, T[p].path # rest
    PROVE  Rebinds(T, SplitLeaf(T, p, rest, value), p \o rest, value)
<1>. DEFINE path == T[p].path
            old == T[p].value
            n == common_prefix_len(path, rest)
            common == Take(rest, n)
            base == p \o common
            oldRest == Drop(path, n)
            newRest == Drop(rest, n)
            slot == IF newRest = <<>> THEN value ELSE IF oldRest = <<>> THEN old ELSE NoValue
            F == skip_or(T, p, common, Fork(slot))
            W == Hang(F, base, newRest, value)
            U == Hang(W, base, oldRest, old)
<1>1. p \in Path /\ DOMAIN T \subseteq Path /\ path \in Path /\ old \in Value
  BY NodeTypes DEF Solid, Typed
<1>2. /\ n \in Nat /\ common \in Path /\ newRest \in Path /\ oldRest \in Path
      /\ path = common \o oldRest /\ rest = common \o newRest
      /\ oldRest # <<>> /\ newRest # <<>> => Head(oldRest) # Head(newRest)
  BY <1>1, CommonPrefixSplit
<1>3. SplitLeaf(T, p, rest, value) = U
  BY DEF SplitLeaf
<1>. HIDE DEF common, oldRest, newRest, n, slot
<1>4. /\ base \in Path /\ starts_with(base, p) /\ base = p \o common
      /\ p \o path = base \o oldRest /\ p \o rest = base \o newRest
  <2>1. base \in Path /\ starts_with(base, p)
    BY <1>1, <1>2, PrefixConcat
  <2>. p \in Path /\ common \in Path /\ oldRest \in Path /\ newRest \in Path
    BY <1>1, <1>2
  <2>2. (p \o common) \o oldRest = p \o (common \o oldRest)
    BY ConcatAssoc
  <2>3. (p \o common) \o newRest = p \o (common \o newRest)
    BY ConcatAssoc
  <2>. QED
    BY <1>2, <2>1, <2>2, <2>3
<1>5. ASSUME NEW q \in DOMAIN T, starts_with(q, p)
      PROVE  q = p
  BY <1>5, NothingBelow DEF Below, Solid
<1>. HIDE DEF base, path
<1>6. common # <<>> => base \notin DOMAIN T
  BY <1>1, <1>2, <1>4, <1>5, PrefixConcat
<1>7. DOMAIN F = DOMAIN T \cup {p, base}
  <2>1. common \in Path /\ p \in Path
    BY <1>1, <1>2
  <2>2. \A q : q \in DOMAIN F <=> q \in DOMAIN T \/ q = p \/ q = p \o common
    BY <2>1, SkipOrDomain, Zenon
  <2>. HIDE DEF F
  <2>. QED
    BY <1>4, <2>2
<1>8. ASSUME NEW r \in Path, r # <<>>
      PROVE  Append(base, Head(r)) \notin DOMAIN F /\ Head(r) \in Nibble
  <2>1. Head(r) \in Nibble
    BY <1>8, HeadTail
  <2>2. /\ Append(base, Head(r)) \in Path /\ Append(base, Head(r)) # base
        /\ starts_with(Append(base, Head(r)), base) /\ ~starts_with(base, Append(base, Head(r)))
    BY <1>4, <2>1, AppendPath
  <2>3. starts_with(Append(base, Head(r)), p)
    BY <1>1, <1>4, <2>2, PrefixTrans
  <2>4. Append(base, Head(r)) # p
    BY <1>4, <2>2
  <2>. QED
    BY <1>5, <1>7, <2>1, <2>2, <2>3, <2>4
<1>9. ASSUME NEW k, NEW v
      PROVE  Binds(F, k, v) <=> Others(T, p, k, v) \/ (slot # NoValue /\ k = base /\ v = slot)
  <2>1. common # <<>> => Silent(T, p \o common)
    BY <1>4, <1>6, SilentNodes
  <2>2. Binds(F, k, v) <=> Others(T, p, k, v) \/ Yields(p \o common, Fork(slot), k, v)
    <3>1. common \in Path /\ p \in Path
      BY <1>1, <1>2
    <3>. QED
      BY <2>1, <3>1, SkipOrBinds, Zenon
  <2>3. Yields(base, Fork(slot), k, v) <=> slot # NoValue /\ k = base /\ v = slot
    BY ForkYields
  <2>. HIDE DEF F
  <2>. QED
    BY <1>4, <2>2, <2>3
<1>. HIDE DEF F
<1>10. newRest # <<>> => Silent(F, Append(base, Head(newRest)))
  BY <1>2, <1>8, SilentNodes
<1>11. ASSUME NEW k, NEW v
       PROVE  Binds(W, k, v) <=> Binds(F, k, v) \/ (newRest # <<>> /\ k = p \o rest /\ v = value)
  <2>1. Binds(Hang(F, base, newRest, value), k, v) <=>
           Binds(F, k, v) \/ (newRest # <<>> /\ k = base \o newRest /\ v = value)
    <3>1. base \in Path /\ newRest \in Path
      BY <1>2, <1>4
    <3>2. newRest # <<>> => Silent(F, Append(base, Head(newRest)))
      BY <1>10
    <3>. HIDE DEF old, W, U
    <3>. QED
      BY <3>1, <3>2, HangBinds, ZenonT(30)
  <2>. QED
    BY <1>4, <2>1
<1>12. oldRest # <<>> => Append(base, Head(oldRest)) \notin DOMAIN W
  <2>1. \A q : q \in DOMAIN W <=>
               q \in DOMAIN F \/ (newRest # <<>> /\ q = Append(base, Head(newRest)))
    BY HangDomain, Zenon
  <2>2. ASSUME oldRest # <<>>, newRest # <<>>
        PROVE  Append(base, Head(oldRest)) # Append(base, Head(newRest))
    BY <1>2, <1>4, <1>8, <2>2, AppendInj
  <2>. QED
    BY <1>2, <1>8, <2>1, <2>2
<1>. HIDE DEF W
<1>13. ASSUME NEW k, NEW v
       PROVE  Binds(U, k, v) <=> Binds(W, k, v) \/ (oldRest # <<>> /\ k = p \o path /\ v = old)
  <2>1. oldRest # <<>> => Silent(W, Append(base, Head(oldRest)))
    BY <1>12, SilentNodes
  <2>2. Binds(Hang(W, base, oldRest, old), k, v) <=>
           Binds(W, k, v) \/ (oldRest # <<>> /\ k = base \o oldRest /\ v = old)
    <3>1. base \in Path /\ oldRest \in Path
      BY <1>2, <1>4
    <3>. HIDE DEF old
    <3>. QED
      BY <2>1, <3>1, HangBinds, ZenonT(30)
  <2>. QED
    BY <1>4, <2>2
<1>. HIDE DEF U
<1>14. oldRest = <<>> => p \o path = base
  BY <1>4, ConcatEmpty
<1>15. newRest = <<>> => p \o rest = base
  BY <1>4, ConcatEmpty
<1>16. p \o path # p \o rest
  BY <1>1, ConcatCancel DEF path
<1>17. ~(oldRest = <<>> /\ newRest = <<>>)
  BY <1>14, <1>15, <1>16
<1>18. ASSUME NEW k, NEW v
       PROVE  Binds(T, k, v) <=> Others(T, p, k, v) \/ (k = p \o path /\ v = old)
  <2>1. Yields(p, T[p], k, v) <=> k = p \o T[p].path /\ v = T[p].value
    BY TypeYields
  <2>. QED
    BY <2>1, BindsSplit DEF path
<1>19. ASSUME NEW v
       PROVE  ~Others(T, p, p \o rest, v)
  <2>1. p \o rest \in Path /\ starts_with(p \o rest, p)
    BY <1>1, PrefixConcat
  <2>. QED
    BY <1>5, <2>1, YieldsFrom DEF Others
<1>20. ASSUME NEW k, NEW v
       PROVE  Binds(U, k, v) <=> \/ k = p \o rest /\ v = value
                                 \/ k # p \o rest /\ Binds(T, k, v)
  <2>1. Binds(U, k, v) <=> \/ Others(T, p, k, v)
                           \/ k = p \o rest /\ v = value
                           \/ k = p \o path /\ v = old
    <3>1. slot # NoValue /\ k = base /\ v = slot <=>
             \/ newRest = <<>> /\ k = p \o rest /\ v = value
             \/ oldRest = <<>> /\ k = p \o path /\ v = old
      BY <1>1, <1>14, <1>15, <1>17, NoValueAssumption DEF slot
    <3>. HIDE DEF old
    <3>2. Binds(F, k, v) <=> Others(T, p, k, v) \/ (slot # NoValue /\ k = base /\ v = slot)
      BY <1>9, Zenon
    <3>3. Binds(W, k, v) <=> Binds(F, k, v) \/ (newRest # <<>> /\ k = p \o rest /\ v = value)
      BY <1>11, Zenon
    <3>4. Binds(U, k, v) <=> Binds(W, k, v) \/ (oldRest # <<>> /\ k = p \o path /\ v = old)
      BY <1>13, Zenon
    <3>. QED
      BY <3>1, <3>2, <3>3, <3>4
  <2>. HIDE DEF old
  <2>. QED
    BY <1>16, <1>18, <1>19, <2>1
<1>. QED
  BY <1>3, <1>20 DEF Rebinds

(* A key that parts from the path of a Skip on the way to it is not bound.  *)
LEMMA SkipAbsent ==
    ASSUME NEW T, NEW H, Solid(T, H), NEW p \in DOMAIN T, T[p].type = "skip",
           NEW rest \in Path, ~starts_with(rest, T[p].path), NEW v
    PROVE  ~Binds(T, p \o rest, v)
<1>. DEFINE path == T[p].path
            key == p \o rest
            c == p \o path
<1>1. p \in Path /\ path \in Path /\ key \in Path /\ c \in Path /\ starts_with(key, p)
  BY NodeTypes, PrefixConcat DEF Solid, Typed
<1>2. ASSUME NEW q \in DOMAIN T, Yields(q, T[q], key, v)
      PROVE  FALSE
  <2>1. q \in Path /\ T[q] \in Node(H) /\ starts_with(q, p)
    BY <1>1, <1>2, YieldsFrom DEF Solid, Typed
  <2>2. q # p
    BY <1>2, TypeYields
  <2>3. PICK d \in DOMAIN T : IsParent(T, p, d) /\ starts_with(q, d)
    BY <2>1, <2>2, ConnectedLeads DEF Solid, Leads, Below
  <2>4. starts_with(q, c)
    BY <2>3 DEF IsParent, Is
  <2>5. starts_with(key, q)
    BY <1>2, <2>1, YieldsBelow DEF Solid
  <2>6. starts_with(key, c)
    <3>. HIDE DEF key, c
    <3>. QED
      BY <1>1, <2>1, <2>4, <2>5, PrefixTrans
  <2>. QED
    BY <1>1, <2>6, PrefixUnderConcat
<1>. QED
  BY <1>2 DEF Binds

LEMMA SplitSkipBinds ==
    ASSUME NEW T, NEW H, Solid(T, H), NEW p \in DOMAIN T, T[p].type = "skip",
           NEW rest \in Path, NEW value \in Value, ~starts_with(rest, T[p].path)
    PROVE  Rebinds(T, SplitSkip(T, p, rest, value), p \o rest, value)
<1>. DEFINE path == T[p].path
            n == common_prefix_len(path, rest)
            h == path[n + 1]
            common == Take(rest, n)
            base == p \o common
            newRest == Drop(rest, n)
            oldRest == Drop(path, n + 1)
            slot == IF newRest = <<>> THEN value ELSE NoValue
            x == Append(base, h)
            c == p \o path
            F == skip_or(T, p, common, Fork(slot))
            V == IF oldRest = <<>> THEN F ELSE Put(F, x, Skip(oldRest))
            U == Hang(V, base, newRest, value)
<1>1. p \in Path /\ DOMAIN T \subseteq Path /\ path \in Path
  BY NodeTypes DEF Solid, Typed
<1>2. /\ n \in Nat /\ common \in Path /\ newRest \in Path
      /\ Drop(path, n) \in Path /\ path = common \o Drop(path, n)
      /\ n <= Len(path)
      /\ rest = common \o newRest
      /\ Drop(path, n) # <<>> /\ newRest # <<>> => Head(Drop(path, n)) # Head(newRest)
      /\ Drop(path, n) = <<>> <=> n = Len(path)
  BY <1>1, CommonPrefixSplit
<1>3. n < Len(path)
  <2>1. ASSUME n = Len(path)
        PROVE  FALSE
    <3>1. path = common
      BY <1>2, <2>1, ConcatEmpty
    <3>2. starts_with(rest, common)
      <4>1. common \in Path /\ newRest \in Path /\ rest = common \o newRest
        BY <1>2
      <4>. HIDE DEF common, newRest
      <4>2. starts_with(common \o newRest, common)
        BY <4>1, PrefixConcat
      <4>. QED
        BY <4>1, <4>2
    <3>. QED
      BY <3>1, <3>2
  <2>. QED
    BY <1>1, <1>2, <2>1, PathLen
<1>4. h \in Nibble /\ oldRest \in Path /\ Drop(path, n) = <<h>> \o oldRest
  BY <1>1, <1>2, <1>3, DropStep
<1>5. newRest # <<>> => Head(newRest) # h
  BY <1>2, <1>4
<1>6. SplitSkip(T, p, rest, value) = U
  BY DEF SplitSkip
<1>. HIDE DEF common, oldRest, newRest, h, slot
<1>7. base \in Path /\ starts_with(base, p) /\ p \o rest = base \o newRest
  <2>0. p \in Path /\ common \in Path /\ newRest \in Path
    BY <1>1, <1>2
  <2>1. (p \o common) \o newRest = p \o (common \o newRest)
    BY <2>0, ConcatAssoc
  <2>. QED
    BY <1>2, <2>0, <2>1, PrefixConcat
<1>8. /\ x \in Path /\ starts_with(x, base) /\ ~starts_with(base, x) /\ x # base
      /\ x = base \o <<h>> /\ <<h>> \in Path
  BY <1>4, <1>7, AppendPath
<1>9. c \in Path /\ c = x \o oldRest /\ starts_with(c, x)
  <2>1. <<h>> \o oldRest \in Path
    BY <1>4, <1>8, PrefixConcat
  <2>2. (p \o common) \o (<<h>> \o oldRest) = p \o (common \o (<<h>> \o oldRest))
    <3>1. \A w \in Path : (p \o common) \o w = p \o (common \o w)
      BY <1>1, <1>2, ConcatAssoc
    <3>. QED
      BY <2>1, <3>1
  <2>3. (base \o <<h>>) \o oldRest = base \o (<<h>> \o oldRest)
    <3>. HIDE DEF base
    <3>. QED
      BY <1>4, <1>7, <1>8, ConcatAssoc
  <2>4. c = p \o (common \o (<<h>> \o oldRest))
    BY <1>2, <1>4
  <2>5. c = x \o oldRest
    <3>. HIDE DEF x, c
    <3>. QED
      BY <1>8, <2>2, <2>3, <2>4
  <2>6. x \o oldRest \in Path /\ starts_with(x \o oldRest, x)
    BY <1>4, <1>8, PrefixConcat
  <2>. QED
    BY <2>5, <2>6
<1>10. ASSUME NEW q \in DOMAIN T, Below(q, p)
       PROVE  starts_with(q, c) /\ starts_with(q, x)
  <2>1. PICK d \in DOMAIN T : IsParent(T, p, d) /\ starts_with(q, d)
    BY <1>10, ConnectedLeads DEF Solid, Leads
  <2>2. starts_with(q, c)
    BY <2>1 DEF IsParent, Is
  <2>3. q \in Path
    BY <1>1
  <2>. HIDE DEF x, c
  <2>. QED
    BY <1>8, <1>9, <2>2, <2>3, PrefixTrans
<1>11. p # x /\ ~starts_with(p, x)
  BY <1>1, <1>7, <1>8, PrefixTrans, PrefixRefl
<1>. HIDE DEF path
<1>12. common # <<>> => base \notin DOMAIN T
  <2>1. common # <<>> => base # p
    BY <1>1, <1>2, PrefixConcat
  <2>. HIDE DEF base, x
  <2>. QED
    BY <1>7, <1>8, <1>10, <2>1 DEF Below
<1>13. \A q : q \in DOMAIN F <=> q \in DOMAIN T \/ q = p \/ q = base
  <2>1. common \in Path
    BY <1>2
  <2>. QED
    BY <1>1, <2>1, SkipOrDomain, Zenon
<1>14. ASSUME NEW k, NEW v
       PROVE  Binds(F, k, v) <=> Binds(T, k, v) \/ (slot # NoValue /\ k = base /\ v = slot)
  <2>1. common # <<>> => Silent(T, p \o common)
    BY <1>12, SilentNodes
  <2>2. Binds(F, k, v) <=> Others(T, p, k, v) \/ Yields(p \o common, Fork(slot), k, v)
    <3>1. common \in Path
      BY <1>2
    <3>. QED
      BY <1>1, <2>1, <3>1, SkipOrBinds, Zenon
  <2>3. Yields(base, Fork(slot), k, v) <=> slot # NoValue /\ k = base /\ v = slot
    BY ForkYields
  <2>4. Binds(T, k, v) <=> Others(T, p, k, v)
    BY BindsSplit, TypeYields
  <2>. HIDE DEF F
  <2>. QED
    BY <2>2, <2>3, <2>4
<1>. HIDE DEF F, base, x
<1>15. oldRest # <<>> => x \notin DOMAIN F
  <2>. SUFFICES ASSUME oldRest # <<>>, x \in DOMAIN F PROVE FALSE
    OBVIOUS
  <2>1. x \in DOMAIN T /\ Below(x, p)
    BY <1>1, <1>7, <1>8, <1>11, <1>13, PrefixTrans DEF Below
  <2>2. starts_with(x, c)
    BY <1>10, <2>1
  <2>3. x = c
    BY <1>8, <1>9, <2>2, PrefixAntisym
  <2>. HIDE DEF c
  <2>. QED
    BY <1>4, <1>8, <1>9, <2>3, PrefixConcat
<1>16. ASSUME NEW k, NEW v
       PROVE  Binds(V, k, v) <=> Binds(F, k, v)
  <2>1. Silent(F, x) => (Binds(Put(F, x, Skip(oldRest)), k, v) <=> Binds(F, k, v))
    BY PutOnSilent, SkipYields
  <2>. QED
    BY <1>15, <2>1, SilentNodes
<1>17. \A q : q \in DOMAIN V => q \in DOMAIN T \/ q = p \/ q = base \/ q = x
  BY <1>13 DEF Put
<1>. HIDE DEF V, c
<1>18. newRest # <<>> => Append(base, Head(newRest)) \notin DOMAIN V
  <2>. SUFFICES ASSUME newRest # <<>>, Append(base, Head(newRest)) \in DOMAIN V
                PROVE  FALSE
    OBVIOUS
  <2>. DEFINE m == Head(newRest)
              y == Append(base, m)
  <2>1. m \in Nibble /\ m # h
    BY <1>2, <1>5, HeadTail
  <2>2. y \in Path /\ y # base /\ starts_with(y, base) /\ ~starts_with(base, y)
    BY <1>7, <2>1, AppendPath
  <2>3. y # x
    BY <1>4, <1>7, <2>1, AppendInj DEF x
  <2>4. starts_with(y, p) /\ y # p
    BY <1>1, <1>7, <2>2, PrefixTrans
  <2>5. y \in DOMAIN T
    BY <1>17, <2>2, <2>3, <2>4
  <2>6. starts_with(y, x)
    BY <1>10, <2>4, <2>5 DEF Below
  <2>7. starts_with(y, y)
    BY <2>2, PrefixRefl
  <2>. QED
    BY <1>4, <1>7, <2>1, <2>2, <2>6, <2>7, AppendApart DEF x
<1>19. ASSUME NEW k, NEW v
       PROVE  Binds(U, k, v) <=> Binds(V, k, v) \/ (newRest # <<>> /\ k = p \o rest /\ v = value)
  <2>1. newRest # <<>> => Silent(V, Append(base, Head(newRest)))
    BY <1>18, SilentNodes
  <2>2. Binds(U, k, v) <=> Binds(V, k, v) \/ (newRest # <<>> /\ k = base \o newRest /\ v = value)
    <3>1. base \in Path /\ newRest \in Path
      BY <1>2, <1>7
    <3>. QED
      BY <2>1, <3>1, HangBinds, ZenonT(30)
  <2>. HIDE DEF U
  <2>. QED
    BY <1>7, <2>2
<1>. HIDE DEF U
<1>20. newRest = <<>> => p \o rest = base
  BY <1>7, ConcatEmpty
<1>21. \A v : ~Binds(T, p \o rest, v)
  BY SkipAbsent
<1>22. ASSUME NEW k, NEW v
       PROVE  Binds(U, k, v) <=> \/ k = p \o rest /\ v = value
                                 \/ k # p \o rest /\ Binds(T, k, v)
  <2>1. slot # NoValue /\ k = base /\ v = slot <=> newRest = <<>> /\ k = p \o rest /\ v = value
    BY <1>20, NoValueAssumption DEF slot
  <2>2. Binds(U, k, v) <=> Binds(T, k, v) \/ (k = p \o rest /\ v = value)
    BY <1>14, <1>16, <1>19, <2>1
  <2>. QED
    BY <1>21, <2>2
<1>. QED
  BY <1>6, <1>22 DEF Rebinds

-----------------------------------------------------------------------------
(* A key bound at one place, or no longer *)

(* Nothing but the node at p binds a key that starts with p, when the node  *)
(* is a Leaf; and only a Fork can bind its own place.                       *)
LEMMA LeafAlone ==
    ASSUME NEW T, NEW H, Solid(T, H), NEW p \in DOMAIN T, T[p].type = "leaf",
           NEW key \in Path, starts_with(key, p), NEW v
    PROVE  ~Others(T, p, key, v)
<1>1. ASSUME NEW q \in DOMAIN T, q # p, Yields(q, T[q], key, v)
      PROVE  FALSE
  <2>1. starts_with(q, p)
    BY <1>1, YieldsFrom
  <2>. QED
    BY <1>1, <2>1, NothingBelow DEF Solid, Below
<1>. QED
  BY <1>1 DEF Others

LEMMA ForkAlone ==
    ASSUME NEW T, NEW H, Solid(T, H), NEW p \in DOMAIN T, NEW v
    PROVE  ~Others(T, p, p, v)
<1>1. ASSUME NEW q \in DOMAIN T, q # p, Yields(q, T[q], p, v)
      PROVE  FALSE
  <2>1. p \in Path /\ q \in Path /\ T[q] \in Node(H) /\ starts_with(p, p)
    BY PrefixRefl DEF Solid, Typed
  <2>2. starts_with(q, p)
    BY <1>1, <2>1, YieldsFrom
  <2>3. starts_with(p, q)
    BY <1>1, <2>1, YieldsBelow DEF Solid
  <2>. QED
    BY <1>1, <2>1, <2>2, <2>3, PrefixAntisym
<1>. QED
  BY <1>1 DEF Others

LEMMA PutLeafBinds ==
    ASSUME NEW T, NEW H, Solid(T, H), NEW p \in DOMAIN T, T[p].type = "leaf", NEW value
    PROVE  Rebinds(T, Put(T, p, Leaf(T[p].path, value)), p \o T[p].path, value)
<1>. DEFINE key == p \o T[p].path
<1>1. key \in Path /\ starts_with(key, p)
  BY NodeTypes, PrefixConcat DEF Solid, Typed
<1>2. ASSUME NEW k, NEW v
      PROVE  Binds(Put(T, p, Leaf(T[p].path, value)), k, v) <=>
                Others(T, p, k, v) \/ (k = key /\ v = value)
  BY PutBinds, LeafYields
<1>3. ASSUME NEW k, NEW v
      PROVE  Binds(T, k, v) <=> Others(T, p, k, v) \/ (k = key /\ v = T[p].value)
  <2>1. Yields(p, T[p], k, v) <=> k = p \o T[p].path /\ v = T[p].value
    BY TypeYields
  <2>. QED
    BY <2>1, BindsSplit
<1>4. \A v : ~Others(T, p, key, v)
  BY <1>1, LeafAlone
<1>. HIDE DEF key
<1>. QED
  BY <1>2, <1>3, <1>4 DEF Rebinds, key

LEMMA PutForkBinds ==
    ASSUME NEW T, NEW H, Solid(T, H), NEW p \in DOMAIN T, T[p].type = "fork", NEW value
    PROVE  /\ value # NoValue => Rebinds(T, Put(T, p, Fork(value)), p, value)
           /\ value = NoValue => Unbinds(T, Put(T, p, Fork(value)), p)
<1>1. ASSUME NEW k, NEW v
      PROVE  Binds(Put(T, p, Fork(value)), k, v) <=>
                Others(T, p, k, v) \/ (value # NoValue /\ k = p /\ v = value)
  BY PutBinds, ForkYields
<1>2. ASSUME NEW k, NEW v
      PROVE  Binds(T, k, v) <=>
                Others(T, p, k, v) \/ (T[p].value # NoValue /\ k = p /\ v = T[p].value)
  <2>1. Yields(p, T[p], k, v) <=> T[p].value # NoValue /\ k = p /\ v = T[p].value
    BY TypeYields
  <2>. QED
    BY <2>1, BindsSplit
<1>3. \A v : ~Others(T, p, p, v)
  BY ForkAlone
<1>. QED
  BY <1>1, <1>2, <1>3 DEF Rebinds, Unbinds

LEMMA CutLeafBinds ==
    ASSUME NEW T, NEW H, Solid(T, H), NEW p \in DOMAIN T, T[p].type = "leaf"
    PROVE  Unbinds(T, Cut(T, {p}), p \o T[p].path)
<1>. DEFINE key == p \o T[p].path
<1>1. key \in Path /\ starts_with(key, p)
  BY NodeTypes, PrefixConcat DEF Solid, Typed
<1>2. ASSUME NEW k, NEW v
      PROVE  Binds(T, k, v) <=> Others(T, p, k, v) \/ (k = key /\ v = T[p].value)
  <2>1. Yields(p, T[p], k, v) <=> k = p \o T[p].path /\ v = T[p].value
    BY TypeYields
  <2>. QED
    BY <2>1, BindsSplit
<1>3. \A k, v : Binds(Cut(T, {p}), k, v) <=> Others(T, p, k, v)
  BY CutBinds
<1>4. \A v : ~Others(T, p, key, v)
  BY <1>1, LeafAlone
<1>. HIDE DEF key
<1>. QED
  BY <1>2, <1>3, <1>4 DEF Unbinds, key

(* Nor is one that leaves a Fork where it has no child.                     *)
LEMMA ForkAbsent ==
    ASSUME NEW T, NEW H, Solid(T, H), NEW p \in DOMAIN T, T[p].type = "fork",
           NEW rest \in Path, rest # <<>>, Head(rest) \notin Children(T, p), NEW v
    PROVE  ~Binds(T, p \o rest, v)
<1>. DEFINE key == p \o rest
<1>1. p \in Path /\ key \in Path /\ starts_with(key, p) /\ key # p /\ Head(rest) \in Nibble
  BY PrefixConcat, HeadTail DEF Solid, Typed
<1>2. Append(p, Head(rest)) \notin DOMAIN T
  BY <1>1 DEF Children
<1>3. ASSUME NEW q \in DOMAIN T, Yields(q, T[q], key, v)
      PROVE  FALSE
  <2>1. q \in Path /\ T[q] \in Node(H) /\ starts_with(q, p) /\ starts_with(key, q)
    BY <1>1, <1>3, YieldsFrom, YieldsBelow DEF Solid, Typed
  <2>2. q # p
    <3>1. Yields(p, T[p], key, v) <=> T[p].value # NoValue /\ key = p /\ v = T[p].value
      BY TypeYields
    <3>. QED
      BY <1>1, <1>3, <3>1
  <2>3. PICK c \in DOMAIN T : IsParent(T, p, c) /\ starts_with(q, c)
    BY <2>1, <2>2, ConnectedLeads DEF Solid, Leads, Below
  <2>4. PICK n \in Nibble : c = Append(p, n)
    BY <2>3 DEF IsParent, Is
  <2>5. Append(p, n) \in Path /\ starts_with(key, Append(p, n))
    BY <1>1, <2>1, <2>3, <2>4, AppendPath, PrefixTrans
  <2>6. starts_with(key, Append(p, Head(rest)))
    <3>1. Append(p, Head(rest)) \o Tail(rest) = key /\ Tail(rest) \in Path
      BY <1>1, HeadTail
    <3>2. Append(p, Head(rest)) \in Path
      BY <1>1, AppendPath
    <3>. QED
      BY <3>1, <3>2, PrefixConcat
  <2>7. n = Head(rest)
    BY <1>1, <2>5, <2>6, AppendApart
  <2>. QED
    BY <1>2, <2>3, <2>4, <2>7
<1>. QED
  BY <1>3 DEF Binds

(* A Leaf hung where a Fork had no child, for a key that nothing bound.     *)
LEMMA HangForkBinds ==
    ASSUME NEW T, NEW H, Solid(T, H), NEW p \in DOMAIN T, T[p].type = "fork",
           NEW rest \in Path, rest # <<>>, Head(rest) \notin Children(T, p), NEW value
    PROVE  Rebinds(T, Hang(T, p, rest, value), p \o rest, value)
<1>. DEFINE key == p \o rest
<1>1. p \in Path /\ key \in Path /\ starts_with(key, p) /\ key # p /\ Head(rest) \in Nibble
  BY PrefixConcat, HeadTail DEF Solid, Typed
<1>2. Append(p, Head(rest)) \notin DOMAIN T
  BY <1>1 DEF Children
<1>3. ASSUME NEW k, NEW v
      PROVE  Binds(Hang(T, p, rest, value), k, v) <=> Binds(T, k, v) \/ (k = key /\ v = value)
  <2>1. rest # <<>> => Silent(T, Append(p, Head(rest)))
    BY <1>2, SilentNodes
  <2>2. Binds(Hang(T, p, rest, value), k, v) <=>
           Binds(T, k, v) \/ (rest # <<>> /\ k = p \o rest /\ v = value)
    <3>1. p \in Path
      BY <1>1
    <3>. QED
      BY <2>1, <3>1, HangBinds, ZenonT(30)
  <2>. QED
    BY <2>2
<1>4. \A v : ~Binds(T, key, v)
  BY ForkAbsent
<1>. HIDE DEF key
<1>. QED
  BY <1>3, <1>4 DEF Rebinds, key

-----------------------------------------------------------------------------
(* Merges *)

(* `path` taken from a node at p that binds nothing to the node it leads to.*)
LEMMA PrependBinds ==
    ASSUME NEW T, NEW H, Solid(T, H), NEW p \in DOMAIN T, Silent(T, p),
           NEW path \in Path, path # <<>>, p \o path \in DOMAIN T
    PROVE  SameBinds(T, prepend(T, p, path))
<1>. DEFINE c == p \o path
            D == Cut(T, {c})
            leaf == Leaf(path \o T[c].path, T[c].value)
<1>1. p \in Path /\ c \in Path /\ c # p /\ T[c] \in Node(H)
  BY PrefixConcat DEF Solid, Typed
<1>2. Silent(D, p)
  BY <1>1 DEF Silent, Cut
<1>3. \A k, v : Binds(D, k, v) <=> Others(T, c, k, v)
  BY CutBinds
<1>4. \A k, v : Binds(T, k, v) <=> Others(T, c, k, v) \/ Yields(c, T[c], k, v)
  BY BindsSplit
<1>5. CASE T[c].type = "leaf"
  <2>1. prepend(T, p, path) = Put(D, p, leaf)
    BY <1>5 DEF prepend, Is
  <2>2. T[c].path \in Path
    BY <1>5, NodeTypes DEF Solid
  <2>3. c \o T[c].path = p \o (path \o T[c].path)
    BY <1>1, <2>2, ConcatAssoc
  <2>. HIDE DEF c
  <2>4. \A k, v : Yields(p, leaf, k, v) <=> k = c \o T[c].path /\ v = T[c].value
    BY <2>3 DEF Yields, Gives, Leaf
  <2>5. \A k, v : Yields(c, T[c], k, v) <=> k = c \o T[c].path /\ v = T[c].value
    BY <1>5, TypeYields
  <2>. HIDE DEF D, leaf
  <2>6. \A k, v : Binds(Put(D, p, leaf), k, v) <=> Binds(D, k, v) \/ Yields(p, leaf, k, v)
    BY <1>2, PutOnSilent
  <2>. QED
    BY <1>3, <1>4, <2>1, <2>4, <2>5, <2>6 DEF SameBinds
<1>6. CASE T[c].type = "skip"
  <2>. DEFINE skip == Skip(path \o T[c].path)
  <2>1. prepend(T, p, path) = Put(D, p, skip)
    BY <1>6 DEF prepend, Is
  <2>. HIDE DEF c
  <2>2. \A k, v : ~Yields(p, skip, k, v)
    BY SkipYields
  <2>3. \A k, v : ~Yields(c, T[c], k, v)
    BY <1>6, TypeYields
  <2>. HIDE DEF D, skip
  <2>4. \A k, v : Binds(Put(D, p, skip), k, v) <=> Binds(D, k, v) \/ Yields(p, skip, k, v)
    BY <1>2, PutOnSilent
  <2>. QED
    BY <1>3, <1>4, <2>1, <2>2, <2>3, <2>4 DEF SameBinds
<1>7. CASE T[c].type \notin {"leaf", "skip"}
  <2>1. prepend(T, p, path) = Put(T, p, Skip(path))
    BY <1>7 DEF prepend, Is
  <2>2. \A k, v : Binds(Put(T, p, Skip(path)), k, v) <=> Binds(T, k, v) \/ Yields(p, Skip(path), k, v)
    BY PutOnSilent
  <2>. QED
    BY <2>1, <2>2, SkipYields DEF SameBinds
<1>. QED
  BY <1>5, <1>6, <1>7

LEMMA NormalizeBinds ==
    ASSUME NEW T, NEW H, Solid(T, H), NEW p \in DOMAIN T,
           T[p].type \in {"fork", "skip"}, Occupied(T, p),
           T[p].type = "skip" => T[p].path # <<>>
    PROVE  SameBinds(T, normalize(T, p))
<1>0. p \in Path
  BY DEF Solid, Typed
<1>1. CASE T[p].type = "fork" /\ Children(T, p) = {}
  <2>1. T[p].value # NoValue
    BY <1>1 DEF Occupied
  <2>2. normalize(T, p) = Put(T, p, Leaf(<<>>, T[p].value))
    <3>1. ~Collapses(T, p)
      BY <1>1 DEF Collapses
    <3>. QED
      BY <1>1, <2>1, <3>1 DEF normalize, Is
  <2>3. \A k, v : Binds(T, k, v) <=> Others(T, p, k, v) \/ Yields(p, T[p], k, v)
    BY BindsSplit
  <2>4. \A k, v : Yields(p, T[p], k, v) <=> k = p /\ v = T[p].value
    BY <1>1, <2>1, TypeYields
  <2>5. \A k, v : Yields(p, Leaf(<<>>, T[p].value), k, v) <=> k = p /\ v = T[p].value
    BY <1>0, ConcatEmpty DEF Yields, Gives, Leaf
  <2>6. \A k, v : Binds(Put(T, p, Leaf(<<>>, T[p].value)), k, v) <=>
                     Others(T, p, k, v) \/ Yields(p, Leaf(<<>>, T[p].value), k, v)
    BY PutBinds
  <2>. QED
    BY <2>2, <2>3, <2>4, <2>5, <2>6 DEF SameBinds
<1>2. CASE Collapses(T, p)
  <2>. DEFINE n == OnlyNibble(T, p)
  <2>1. n \in Nibble /\ Children(T, p) = {n} /\ T[p].type = "fork" /\ T[p].value = NoValue
    BY <1>2, CollapseFields DEF Collapses, Is
  <2>2. normalize(T, p) = prepend(T, p, <<n>>)
    BY <1>2, <2>1 DEF normalize, Is
  <2>3. <<n>> \in Path /\ <<n>> # <<>> /\ p \o <<n>> = Append(p, n)
    BY <1>0, <2>1, AppendPath
  <2>4. p \o <<n>> \in DOMAIN T
    BY <2>1, <2>3 DEF Children
  <2>5. Silent(T, p)
    BY <2>1, SilentNodes
  <2>. QED
    BY <2>2, <2>3, <2>4, <2>5, PrependBinds
<1>3. CASE T[p].type = "skip"
  <2>1. T[p].path \in Path /\ T[p].path # <<>> /\ p \o T[p].path \in DOMAIN T
    BY <1>3, NodeTypes DEF Solid, Occupied
  <2>2. normalize(T, p) = prepend(T, p, T[p].path)
    BY <1>3 DEF normalize, Is, Collapses
  <2>3. Silent(T, p)
    BY <1>3, SilentNodes
  <2>. QED
    BY <2>1, <2>2, <2>3, PrependBinds
<1>4. CASE T[p].type = "fork" /\ Children(T, p) # {} /\ ~Collapses(T, p)
  <2>1. normalize(T, p) = T
    BY <1>4 DEF normalize, Is
  <2>. QED
    BY <2>1 DEF SameBinds
<1>. QED
  BY <1>1, <1>2, <1>3, <1>4

LEMMA GraftBinds ==
    ASSUME NEW T, NEW H, Solid(T, H), NEW p \in DOMAIN T, T[p].type = "stub",
           NEW D, DOMAIN D \subseteq Path, <<>> \in DOMAIN D, NEW k, NEW v
    PROVE  Binds(Graft(T, p, D), k, v) <=>
              Others(T, p, k, v) \/ \E r \in DOMAIN D : Yields(p \o r, D[r], k, v)
<1>. DEFINE U == Graft(T, p, D)
<1>1. p \in Path /\ DOMAIN T \subseteq Path
  BY DEF Solid, Typed
<1>2. /\ DOMAIN U = DOMAIN T \cup {p \o r : r \in DOMAIN D}
      /\ \A q \in DOMAIN U : U[q] = IF starts_with(q, p) THEN D[Drop(q, Len(p))] ELSE T[q]
  BY DEF Graft
<1>. HIDE DEF U
<1>3. \A r \in DOMAIN D : p \o r \in Path /\ starts_with(p \o r, p) /\ Drop(p \o r, Len(p)) = r
  BY <1>1, PrefixConcat, DropConcat
<1>4. \A r \in DOMAIN D : p \o r \in DOMAIN U /\ U[p \o r] = D[r]
  BY <1>2, <1>3
<1>5. \A q \in DOMAIN T : starts_with(q, p) => q = p
  BY NothingBelow DEF Solid, Below
<1>6. p = p \o <<>>
  BY <1>1, ConcatEmpty
<1>7. ASSUME NEW q \in DOMAIN T, q # p
      PROVE  q \in DOMAIN U /\ U[q] = T[q]
  BY <1>2, <1>5, <1>7
<1>8. ASSUME NEW q \in DOMAIN U
      PROVE  \/ q \in DOMAIN T /\ q # p /\ U[q] = T[q]
             \/ \E r \in DOMAIN D : q = p \o r /\ U[q] = D[r]
  <2>1. CASE q \in DOMAIN T /\ q # p
    BY <1>7, <2>1
  <2>2. CASE q \notin DOMAIN T \/ q = p
    <3>1. \E r \in DOMAIN D : q = p \o r
      BY <1>2, <1>6, <2>2
    <3>. QED
      BY <1>4, <3>1
  <2>. QED
    BY <2>1, <2>2
<1>9. Binds(U, k, v) <=> Others(T, p, k, v) \/ \E r \in DOMAIN D : Yields(p \o r, D[r], k, v)
  BY <1>4, <1>7, <1>8 DEF Binds, Others
<1>. QED
  BY <1>9 DEF U

LEMMA ResolveBinds ==
    ASSUME NEW T, NEW H, Solid(T, H), NEW p \in DOMAIN T, T[p].type = "stub",
           <<>> \in DOMAIN T[p].hash
    PROVE  SameBinds(T, Graft(T, p, decode_node({}, T[p].hash)))
<1>. DEFINE S == T[p].hash
            D == decode_node({}, S)
<1>1. p \in Path /\ Whole(S)
  BY DEF Solid, Typed, Node
<1>2. DOMAIN D \subseteq Path /\ <<>> \in DOMAIN D
  BY <1>1, DecodeShape DEF Typed
<1>3. ASSUME NEW k, NEW v
      PROVE  Binds(Graft(T, p, D), k, v) <=> Binds(T, k, v)
  <2>1. Binds(Graft(T, p, D), k, v) <=>
           Others(T, p, k, v) \/ \E r \in DOMAIN D : Yields(p \o r, D[r], k, v)
    BY <1>2, GraftBinds
  <2>2. (\E r \in DOMAIN D : Yields(p \o r, D[r], k, v)) <=>
           \E r \in DOMAIN S : Gives(p \o r, S[r], k, v)
    BY <1>1, DecodeBinds
  <2>3. Yields(p, T[p], k, v) <=> \E r \in DOMAIN S : Gives(p \o r, S[r], k, v)
    BY TypeYields
  <2>4. Binds(T, k, v) <=> Others(T, p, k, v) \/ Yields(p, T[p], k, v)
    BY BindsSplit
  <2>. HIDE DEF D, S
  <2>. QED
    BY <2>1, <2>2, <2>3, <2>4
<1>. QED
  BY <1>3 DEF SameBinds

-----------------------------------------------------------------------------
(* No edit makes a tree endlessly deep *)

LEMMA PathBound ==
    ASSUME NEW d \in Nat, NEW e \in Nat
    PROVE  \E m \in Nat : \A q \in Path : Len(q) <= d \/ Len(q) <= e => Len(q) <= m
<1>1. \A q \in Path : Len(q) \in Nat
  BY PathLen
<1>2. CASE d <= e
  BY <1>1, <1>2
<1>3. CASE e <= d
  BY <1>1, <1>3
<1>. QED
  BY <1>2, <1>3

LEMMA JoinBounded ==
    ASSUME NEW S, NEW T, NEW U, Bounded(S), Bounded(T), DOMAIN U \subseteq Path,
           \A q \in DOMAIN U : q \in DOMAIN S \/ q \in DOMAIN T
    PROVE  Bounded(U)
<1>1. PICK d \in Nat : \A q \in DOMAIN S : Len(q) <= d
  BY DEF Bounded
<1>2. PICK e \in Nat : \A q \in DOMAIN T : Len(q) <= e
  BY DEF Bounded
<1>3. PICK m \in Nat : \A q \in Path : Len(q) <= d \/ Len(q) <= e => Len(q) <= m
  BY PathBound
<1>4. \A q \in DOMAIN U : Len(q) <= m
  BY <1>1, <1>2, <1>3
<1>. QED
  BY <1>4 DEF Bounded

LEMMA FewerBounded ==
    ASSUME NEW T, NEW U, Bounded(T), DOMAIN U \subseteq DOMAIN T
    PROVE  Bounded(U)
  BY DEF Bounded

LEMMA PutBounded ==
    ASSUME NEW T, NEW p, NEW n, Bounded(T), DOMAIN Put(T, p, n) \subseteq Path
    PROVE  Bounded(Put(T, p, n)) /\ DOMAIN T \subseteq DOMAIN Put(T, p, n)
<1>1. DOMAIN Put(T, p, n) = DOMAIN T \cup {p}
  BY DEF Put
<1>2. PICK d \in Nat : \A q \in DOMAIN T : Len(q) <= d
  BY DEF Bounded
<1>3. p \in Path /\ Len(p) \in Nat
  BY <1>1, PathLen
<1>4. PICK m \in Nat : \A q \in Path : Len(q) <= d \/ Len(q) <= Len(p) => Len(q) <= m
  BY <1>3, PathBound
<1>5. \A q \in DOMAIN Put(T, p, n) : Len(q) <= m
  <2>. HIDE DEF Put
  <2>1. Len(p) <= m
    BY <1>3, <1>4
  <2>. QED
    BY <1>1, <1>2, <1>4, <2>1
<1>. QED
  BY <1>1, <1>5 DEF Bounded

LEMMA HangBounded ==
    ASSUME NEW T, NEW p, NEW rest, NEW value, Bounded(T), DOMAIN Hang(T, p, rest, value) \subseteq Path
    PROVE  Bounded(Hang(T, p, rest, value)) /\ DOMAIN T \subseteq DOMAIN Hang(T, p, rest, value)
<1>1. CASE rest = <<>>
  BY <1>1 DEF Hang
<1>2. CASE rest # <<>>
  <2>1. Hang(T, p, rest, value) = Put(T, Append(p, Head(rest)), Leaf(Tail(rest), value))
    BY <1>2 DEF Hang
  <2>. QED
    BY <2>1, PutBounded
<1>. QED
  BY <1>1, <1>2

LEMMA SkipOrBounded ==
    ASSUME NEW T, NEW p, NEW common, NEW node, Bounded(T),
           DOMAIN skip_or(T, p, common, node) \subseteq Path
    PROVE  Bounded(skip_or(T, p, common, node)) /\ DOMAIN T \subseteq DOMAIN skip_or(T, p, common, node)
<1>1. CASE common = <<>>
  <2>1. skip_or(T, p, common, node) = Put(T, p, node)
    BY <1>1 DEF skip_or
  <2>. QED
    BY <2>1, PutBounded
<1>2. CASE common # <<>>
  <2>. DEFINE V == Put(T, p, Skip(common))
  <2>1. skip_or(T, p, common, node) = Put(V, p \o common, node)
    BY <1>2 DEF skip_or
  <2>2. DOMAIN T \subseteq DOMAIN V /\ DOMAIN V \subseteq DOMAIN Put(V, p \o common, node)
    BY DEF Put
  <2>3. Bounded(V)
    <3>1. DOMAIN V \subseteq Path
      BY <2>1, <2>2
    <3>. QED
      BY <3>1, PutBounded
  <2>. HIDE DEF V
  <2>4. Bounded(Put(V, p \o common, node))
    BY <2>1, <2>3, PutBounded
  <2>. QED
    BY <2>1, <2>2, <2>4
<1>. QED
  BY <1>1, <1>2

LEMMA SplitBounded ==
    ASSUME NEW T, NEW p, NEW rest, NEW value, Bounded(T)
    PROVE  /\ DOMAIN SplitLeaf(T, p, rest, value) \subseteq Path
                 => Bounded(SplitLeaf(T, p, rest, value))
           /\ DOMAIN SplitSkip(T, p, rest, value) \subseteq Path
                 => Bounded(SplitSkip(T, p, rest, value))
<1>1. ASSUME DOMAIN SplitLeaf(T, p, rest, value) \subseteq Path
      PROVE  Bounded(SplitLeaf(T, p, rest, value))
  <2>1. PICK common, node, b, x, u, y, w :
           SplitLeaf(T, p, rest, value) =
              Hang(Hang(skip_or(T, p, common, node), b, x, u), b, y, w)
    BY Zenon DEF SplitLeaf
  <2>. DEFINE F == skip_or(T, p, common, node)
              G == Hang(F, b, x, u)
              U == Hang(G, b, y, w)
  <2>2. DOMAIN G \subseteq DOMAIN U /\ DOMAIN F \subseteq DOMAIN G
    BY HangDomain
  <2>3. Bounded(F)
    BY <1>1, <2>1, <2>2, SkipOrBounded
  <2>. HIDE DEF F
  <2>4. Bounded(G)
    BY <1>1, <2>1, <2>2, <2>3, HangBounded DEF F
  <2>. HIDE DEF G
  <2>5. Bounded(U)
    BY <1>1, <2>1, <2>4, HangBounded DEF F, G
  <2>. QED
    BY <2>1, <2>5 DEF F, G
<1>2. ASSUME DOMAIN SplitSkip(T, p, rest, value) \subseteq Path
      PROVE  Bounded(SplitSkip(T, p, rest, value))
  <2>1. PICK common, node, x, r, b, y, w :
           \/ SplitSkip(T, p, rest, value) = Hang(skip_or(T, p, common, node), b, y, w)
           \/ SplitSkip(T, p, rest, value) =
                 Hang(Put(skip_or(T, p, common, node), x, Skip(r)), b, y, w)
    BY Zenon DEF SplitSkip
  <2>. DEFINE F == skip_or(T, p, common, node)
              G == Put(F, x, Skip(r))
  <2>2. /\ DOMAIN F \subseteq DOMAIN G /\ DOMAIN G \subseteq DOMAIN Hang(G, b, y, w)
        /\ DOMAIN F \subseteq DOMAIN Hang(F, b, y, w)
    BY HangDomain DEF Put
  <2>3. Bounded(F)
    BY <1>2, <2>1, <2>2, SkipOrBounded
  <2>. HIDE DEF F
  <2>4. CASE SplitSkip(T, p, rest, value) = Hang(F, b, y, w)
    BY <1>2, <2>3, <2>4, HangBounded
  <2>5. CASE SplitSkip(T, p, rest, value) = Hang(G, b, y, w)
    <3>1. Bounded(G)
      BY <1>2, <2>2, <2>3, <2>5, PutBounded
    <3>. HIDE DEF G
    <3>. QED
      BY <1>2, <2>5, <3>1, HangBounded
  <2>. QED
    BY <2>1, <2>4, <2>5 DEF F
<1>. QED
  BY <1>1, <1>2

LEMMA NormalizeDomain ==
    ASSUME NEW T, NEW p \in DOMAIN T
    PROVE  DOMAIN normalize(T, p) \subseteq DOMAIN T
<1>1. ASSUME NEW path PROVE DOMAIN prepend(T, p, path) \subseteq DOMAIN T
  BY DEF prepend, Put, Cut
<1>. QED
  BY <1>1 DEF normalize, Put, Cut

-----------------------------------------------------------------------------
(* A trie as build_partial makes it, and one that later steps leave *)

LEMMA NullShape == WellFormedBut(Null, {}) /\ StubsOf(Null) = {}
  BY DEF WellFormedBut, Connected, SkipsLead, ForksCrowded, Null, StubsOf

LEMMA InitShape ==
    ASSUME NEW S, Whole(S), NEW nodes
    PROVE  LET T == build_partial(nodes, S)
           IN  /\ Typed(T, SubtreesOf(S)) /\ WellFormed(T)
               /\ \A u \in StubsOf(T) : u \in Hashed(S) /\ T[u].hash = Subtree(S, u)
<1>. DEFINE T == build_partial(nodes, S)
<1>1. CASE S = Null
  BY <1>1, NullTyped, NullShape DEF build_partial, WellFormed
<1>2. CASE S # Null
  <2>1. <<>> \in DOMAIN S
    BY <1>2 DEF Whole, WellFormed, WellFormedBut, Connected
  <2>2. CASE S \in nodes
    <3>1. T = decode_node(nodes, S)
      BY <1>2, <2>2 DEF build_partial
    <3>. QED
      BY <2>1, <3>1, DecodeShape
  <2>3. CASE S \notin nodes
    <3>1. T = Put(Null, <<>>, Stub(S))
      BY <1>2, <2>3 DEF build_partial
    <3>2. DOMAIN T = {<<>>} /\ T[<<>>].type = "stub" /\ T[<<>>].hash = S
      BY <3>1 DEF Put, Null, Stub
    <3>3. Subtree(S, <<>>) = S
      BY WholeSubtree
    <3>4. Typed(T, SubtreesOf(S))
      <4>1. Stub(S) \in Node(SubtreesOf(S))
        BY <2>1, <3>3, StubFields DEF SubtreesOf
      <4>. QED
        BY <3>1, <4>1, NullTyped, EmptyPath, PutTyped
    <3>5. WellFormed(T)
      BY <3>2 DEF WellFormed, WellFormedBut, Connected, SkipsLead, ForksCrowded, Below
    <3>. QED
      BY <2>1, <3>2, <3>3, <3>4, <3>5 DEF StubsOf, Hashed
  <2>. QED
    BY <2>2, <2>3
<1>. QED
  BY <1>1, <1>2

(* A trie built from a complete one binds what that one binds.              *)
LEMMA BuiltBindings ==
    ASSUME NEW S, Whole(S), NEW nodes
    PROVE  Bindings(build_partial(nodes, S)) = Contents(S)
<1>. DEFINE T == build_partial(nodes, S)
<1>1. DOMAIN S \subseteq Path /\ Typed(S, {}) /\ Connected(S)
  BY DEF Whole, Typed, WellFormed, WellFormedBut
<1>2. Solid(T, SubtreesOf(S))
  <2>1. \A h \in SubtreesOf(S) : Whole(h)
    BY SubtreeWhole DEF SubtreesOf
  <2>2. Typed(T, SubtreesOf(S)) /\ WellFormed(T)
    BY InitShape
  <2>. HIDE DEF T
  <2>. QED
    BY <2>1, <2>2 DEF Solid, WellFormed, WellFormedBut
<1>3. <<>> \in Path /\ \A r \in DOMAIN S : <<>> \o r = r
  BY <1>1, EmptyPath, ConcatEmpty
<1>4. ASSUME NEW k, NEW v
      PROVE  Binds(T, k, v) <=> \E r \in DOMAIN S : Gives(r, S[r], k, v)
  <2>1. CASE S = Null
    <3>1. T = Null
      BY <2>1 DEF build_partial
    <3>2. DOMAIN Null = {}
      BY DEF Null
    <3>. QED
      BY <2>1, <3>1, <3>2 DEF Binds
  <2>2. CASE S # Null /\ S \in nodes
    <3>. DEFINE D == decode_node(nodes, S)
    <3>1. T = D
      BY <2>2 DEF build_partial
    <3>2. (\E r \in DOMAIN D : Yields(<<>> \o r, D[r], k, v)) <=>
             \E r \in DOMAIN S : Gives(<<>> \o r, S[r], k, v)
      BY <1>3, DecodeBinds
    <3>3. DOMAIN D \subseteq DOMAIN S
      BY <1>1, DecodeDomain
    <3>. HIDE DEF D, T
    <3>4. \A r \in DOMAIN D : <<>> \o r = r
      BY <1>3, <3>3
    <3>. QED
      BY <1>3, <3>1, <3>2, <3>4 DEF Binds
  <2>3. CASE S # Null /\ S \notin nodes
    <3>1. T = Put(Null, <<>>, Stub(S))
      BY <2>3 DEF build_partial
    <3>2. DOMAIN Put(Null, <<>>, Stub(S)) = {<<>>} /\ Put(Null, <<>>, Stub(S))[<<>>] = Stub(S)
      BY DEF Put, Null
    <3>3. Stub(S).type = "stub" /\ Stub(S).hash = S
      BY StubFields
    <3>4. Yields(<<>>, Stub(S), k, v) <=> \E r \in DOMAIN S : Gives(<<>> \o r, S[r], k, v)
      BY <3>3, TypeYields
    <3>. HIDE DEF T
    <3>. QED
      BY <1>3, <3>1, <3>2, <3>4 DEF Binds
  <2>. QED
    BY <2>1, <2>2, <2>3
<1>. HIDE DEF T
<1>5. ASSUME NEW k, NEW v, NEW w, NEW p \in DOMAIN S, NEW q \in DOMAIN S,
             Gives(p, S[p], k, v), Gives(q, S[q], k, w)
      PROVE  v = w
  <2>1. Gives(<<>> \o p, S[p], k, v) /\ Gives(<<>> \o q, S[q], k, w)
    BY <1>3, <1>5
  <2>. QED
    BY <1>1, <1>3, <1>5, <2>1, GivesOnce
<1>6. ASSUME NEW k, NEW v
      PROVE  k \in DOMAIN Bindings(T) /\ v = Bindings(T)[k]
                <=> k \in DOMAIN Contents(S) /\ v = Contents(S)[k]
  <2>1. (\E r \in DOMAIN S : Gives(r, S[r], k, v)) <=> k \in DOMAIN Contents(S) /\ v = Contents(S)[k]
    BY <1>5, ContentsGives
  <2>2. Binds(T, k, v) <=> k \in DOMAIN Bindings(T) /\ v = Bindings(T)[k]
    BY <1>2, BindingsBind
  <2>. QED
    BY <1>4, <2>1, <2>2
<1>7. Bindings(T) = [k \in DOMAIN Bindings(T) |-> Bindings(T)[k]]
  BY <1>2, BindingsBind
<1>8. Contents(S) = [k \in DOMAIN Contents(S) |-> Contents(S)[k]]
  BY ContentsGives
<1>9. Bindings(T) = Contents(S)
  BY <1>6, <1>7, <1>8, SameMap
<1>. QED
  BY <1>9 DEF T

LEMMA BuiltBounded ==
    ASSUME NEW S, Bounded(S), NEW nodes
    PROVE  Bounded(build_partial(nodes, S))
<1>. DEFINE T == build_partial(nodes, S)
<1>1. CASE S = Null
  <2>1. T = S
    BY <1>1 DEF build_partial
  <2>. QED
    BY <2>1
<1>2. CASE S # Null /\ S \in nodes
  <2>1. T = decode_node(nodes, S)
    BY <1>2 DEF build_partial
  <2>2. DOMAIN T \subseteq DOMAIN S
    BY <2>1 DEF decode_node
  <2>. QED
    BY <2>2, FewerBounded
<1>3. CASE S # Null /\ S \notin nodes
  <2>1. T = Put(Null, <<>>, Stub(S))
    BY <1>3 DEF build_partial
  <2>2. \A p \in DOMAIN T : Len(p) <= 0
    BY <2>1 DEF Put, Null
  <2>. QED
    BY <2>2 DEF Bounded
<1>. QED
  BY <1>1, <1>2, <1>3

(* T is a trie to go on from: it has the right shape, and its Stubs are     *)
(* nodes of the complete trie S, where they are there.                      *)
Fits(T, S) ==
    /\ Typed(T, SubtreesOf(S)) /\ WellFormed(T)
    /\ \A p \in StubsOf(T) : p \in Hashed(S) /\ T[p].hash = Subtree(S, p)

LEMMA FitsSolid ==
    ASSUME NEW S, Whole(S), NEW T, Fits(T, S)
    PROVE  Solid(T, SubtreesOf(S))
  BY SubtreeWhole DEF Fits, Solid, SubtreesOf, WellFormed, WellFormedBut

(* What its Stubs stand for are pieces of S too, so all of it is bounded.   *)
LEMMA FitsBounded ==
    ASSUME NEW S, Whole(S), Bounded(S), NEW T, Fits(T, S), Bounded(T)
    PROVE  Bounded(Expand(T))
<1>1. Solid(T, SubtreesOf(S)) /\ Bounded(S) /\ DOMAIN S \subseteq Path
  BY FitsSolid DEF Whole, Typed
<1>2. DOMAIN Expand(T) \subseteq Path
  BY <1>1, ExpandTyped DEF Typed
<1>3. ASSUME NEW q \in DOMAIN Expand(T)
      PROVE  q \in DOMAIN T \/ q \in DOMAIN S
  <2>1. CASE \E p \in DOMAIN T, r \in Path :
                T[p].type = "stub" /\ r \in DOMAIN T[p].hash /\ q = p \o r
    <3>1. PICK p \in DOMAIN T, r \in Path :
                T[p].type = "stub" /\ r \in DOMAIN T[p].hash /\ q = p \o r
      BY <2>1
    <3>2. p \in Path /\ T[p].hash = Subtree(S, p)
      BY <1>1, <3>1 DEF Fits, StubsOf, Solid, Typed
    <3>. QED
      BY <1>1, <3>1, <3>2, SubtreeDomain
  <2>. QED
    BY <1>1, <2>1, ExpandFields
<1>. QED
  BY <1>1, <1>2, <1>3, JoinBounded

(* Such a trie commits to what it binds and to nothing else.                *)
LEMMA FitsCommits ==
    ASSUME NEW S, Whole(S), Bounded(S), NEW T, Fits(T, S), Bounded(T)
    PROVE  node_root(T) = Canonical(Bindings(T))
<1>1. \A h \in SubtreesOf(S) : <<>> \in DOMAIN h
  BY SubtreeWhole DEF SubtreesOf
<1>2. Solid(T, SubtreesOf(S)) /\ WellFormed(T) /\ Bounded(Expand(T))
  BY FitsSolid, FitsBounded DEF Fits
<1>. QED
  BY <1>1, <1>2, RootOfBindings DEF node_root

(* A complete trie has nothing to expand, and one that is partly loaded is  *)
(* still the trie it was loaded from.                                       *)
LEMMA WholeExpand ==
    ASSUME NEW S, Whole(S)
    PROVE  Solid(S, {}) /\ Expand(S) = S /\ Bindings(S) = Contents(S)
<1>1. Solid(S, {})
  BY DEF Solid, Whole, WellFormed, WellFormedBut
<1>2. \A q \in DOMAIN S : S[q].type # "stub"
  BY WholeTypes
<1>3. DOMAIN Expand(S) = DOMAIN S /\ \A q \in DOMAIN S : Expand(S)[q] = S[q]
  BY <1>1, <1>2, ExpandFields
<1>4. Expand(S) = [q \in DOMAIN Expand(S) |-> Expand(S)[q]]
  BY DEF Expand
<1>5. S = [q \in DOMAIN S |-> S[q]]
  BY DEF Whole, Typed
<1>6. Expand(S) = S
  BY <1>3, <1>4, <1>5
<1>. QED
  BY <1>1, <1>6 DEF Bindings

LEMMA BuiltFits ==
    ASSUME NEW S, Whole(S), Bounded(S), NEW nodes
    PROVE  LET T == build_partial(nodes, S)
           IN  Fits(T, S) /\ Bounded(T) /\ Expand(T) = S
<1>. DEFINE T == build_partial(nodes, S)
<1>1. Fits(T, S) /\ Bounded(T) /\ Bindings(T) = Contents(S)
  BY InitShape, BuiltBounded, BuiltBindings DEF Fits
<1>. HIDE DEF T
<1>2. Expand(T) = Canonical(Contents(S))
  BY <1>1, FitsCommits DEF node_root
<1>. QED
  BY <1>1, <1>2, WholeCanonical DEF T

-----------------------------------------------------------------------------
(* No edit takes a Stub away either *)

LEMMA PutSameStubs ==
    ASSUME NEW T, NEW p, p \notin StubsOf(T), NEW node, node.type # "stub"
    PROVE  StubsOf(Put(T, p, node)) = StubsOf(T)
  BY DEF StubsOf, Put

LEMMA CutSameStubs ==
    ASSUME NEW T, NEW p, p \notin StubsOf(T)
    PROVE  StubsOf(Cut(T, {p})) = StubsOf(T)
  BY DEF StubsOf, Cut

LEMMA HangSameStubs ==
    ASSUME NEW T, NEW p, NEW rest, rest # <<>> => Append(p, Head(rest)) \notin StubsOf(T), NEW value
    PROVE  StubsOf(Hang(T, p, rest, value)) = StubsOf(T)
<1>1. Leaf(Tail(rest), value).type # "stub"
  BY DEF Leaf
<1>. QED
  BY <1>1, PutSameStubs DEF Hang

LEMMA SkipOrSameStubs ==
    ASSUME NEW T, NEW p, NEW common, p \notin StubsOf(T), p \o common \notin StubsOf(T), NEW slot
    PROVE  StubsOf(skip_or(T, p, common, Fork(slot))) = StubsOf(T)
<1>1. Fork(slot).type # "stub" /\ Skip(common).type # "stub"
  BY DEF Fork, Skip
<1>2. StubsOf(Put(T, p, Skip(common))) = StubsOf(T)
  BY <1>1, PutSameStubs
<1>. QED
  BY <1>1, <1>2, PutSameStubs DEF skip_or

(* Below a Leaf there is nothing a split could write over.                  *)
LEMMA SplitLeafSameStubs ==
    ASSUME NEW T, Paths(T), Connected(T), NEW p \in DOMAIN T, T[p].type = "leaf", T[p].path \in Path,
           NEW rest \in Path, NEW value
    PROVE  StubsOf(SplitLeaf(T, p, rest, value)) = StubsOf(T)
<1>. DEFINE path == T[p].path
            n == common_prefix_len(path, rest)
            base == p \o Take(rest, n)
            slot == IF Drop(rest, n) = <<>> THEN value
                    ELSE IF Drop(path, n) = <<>> THEN T[p].value ELSE NoValue
            A == skip_or(T, p, Take(rest, n), Fork(slot))
            B == Hang(A, base, Drop(rest, n), value)
            C == Hang(B, base, Drop(path, n), T[p].value)
<1>1. SplitLeaf(T, p, rest, value) = C
  BY DEF SplitLeaf
<1>2. p \in Path /\ Take(rest, n) \in Path /\ Drop(path, n) \in Path /\ Drop(rest, n) \in Path
  BY CommonPrefixSplit DEF Paths
<1>3. base \in Path /\ starts_with(base, p)
  BY <1>2, PrefixConcat
<1>4. ASSUME NEW q \in Path, starts_with(q, p)
      PROVE  q \notin StubsOf(T)
  BY <1>4, NothingBelow DEF StubsOf, Below
<1>5. ASSUME NEW left \in Path, left # <<>>
      PROVE  Append(base, Head(left)) \notin StubsOf(T)
  <2>. HIDE DEF base
  <2>1. Head(left) \in Nibble
    BY <1>3, <1>5, HeadTail
  <2>2. Append(base, Head(left)) \in Path /\ starts_with(Append(base, Head(left)), base)
    BY <1>3, <2>1, AppendPath
  <2>3. starts_with(Append(base, Head(left)), p)
    BY <1>2, <1>3, <2>2, PrefixTrans
  <2>. QED
    BY <1>4, <2>2, <2>3
<1>6. p \notin StubsOf(T) /\ base \notin StubsOf(T)
  BY <1>2, <1>3, <1>4, PrefixRefl
<1>7. StubsOf(A) = StubsOf(T)
  BY <1>6, SkipOrSameStubs
<1>. HIDE DEF A, base
<1>8. StubsOf(B) = StubsOf(A)
  BY <1>2, <1>5, <1>7, HangSameStubs
<1>. HIDE DEF B
<1>9. StubsOf(C) = StubsOf(B)
  BY <1>2, <1>5, <1>7, <1>8, HangSameStubs
<1>. QED
  BY <1>1, <1>7, <1>8, <1>9

(* Between a Skip and what it leads to there is nothing either.             *)
LEMMA SplitSkipSameStubs ==
    ASSUME NEW T, Paths(T), Connected(T), NEW p \in DOMAIN T, T[p].type = "skip",
           NEW rest \in Path, ~starts_with(rest, T[p].path), NEW value
    PROVE  StubsOf(SplitSkip(T, p, rest, value)) = StubsOf(T)
<1>. DEFINE path == T[p].path
            n == common_prefix_len(path, rest)
            common == Take(rest, n)
            h == path[n + 1]
            base == p \o common
            newRest == Drop(rest, n)
            oldRest == Drop(path, n + 1)
            slot == IF newRest = <<>> THEN value ELSE NoValue
            F == skip_or(T, p, common, Fork(slot))
            L == IF oldRest = <<>> THEN F ELSE Put(F, Append(base, h), Skip(oldRest))
            G == Hang(L, base, newRest, value)
<1>1. SplitSkip(T, p, rest, value) = G
  BY DEF SplitSkip
<1>2. p \in Path /\ path \in Path
  BY DEF Paths
<1>3. /\ n \in Nat /\ common \in Path /\ newRest \in Path /\ Drop(path, n) \in Path
      /\ n <= Len(path) /\ path = common \o Drop(path, n) /\ rest = common \o newRest
      /\ Drop(path, n) # <<>> /\ newRest # <<>> => Head(Drop(path, n)) # Head(newRest)
      /\ Drop(path, n) = <<>> <=> n = Len(path)
  BY <1>2, CommonPrefixSplit
<1>4. n < Len(path)
  <2>1. ASSUME n = Len(path)
        PROVE  starts_with(rest, path)
    <3>1. path = common
      BY <1>3, <2>1, ConcatEmpty
    <3>2. starts_with(rest, common)
      <4>1. common \in Path /\ newRest \in Path /\ rest = common \o newRest
        BY <1>3
      <4>. HIDE DEF common, newRest
      <4>2. starts_with(common \o newRest, common)
        BY <4>1, PrefixConcat
      <4>. QED
        BY <4>1, <4>2
    <3>. QED
      BY <3>1, <3>2
  <2>. QED
    BY <1>2, <1>3, <2>1, PathLen
<1>5. h \in Nibble /\ oldRest \in Path /\ Drop(path, n) = <<h>> \o oldRest
  BY <1>2, <1>3, <1>4, DropStep
<1>6. newRest # <<>> => Head(newRest) # h
  BY <1>3, <1>5
<1>7. ASSUME NEW q \in StubsOf(T), starts_with(q, p)
      PROVE  starts_with(q, p \o path)
  <2>1. q \in DOMAIN T /\ Below(q, p)
    BY <1>7 DEF StubsOf, Below
  <2>2. PICK c \in DOMAIN T : IsParent(T, p, c) /\ starts_with(q, c)
    BY <2>1, ConnectedLeads DEF Leads
  <2>. QED
    BY <2>2 DEF IsParent, Is
<1>. HIDE DEF path, common, h, newRest, oldRest, n
<1>8. base \in Path /\ starts_with(base, p)
  BY <1>2, <1>3, PrefixConcat
<1>9. ASSUME NEW m \in Nibble
      PROVE  /\ Append(base, m) = p \o (common \o <<m>>) /\ <<m>> \in Path /\ common \o <<m>> \in Path
             /\ starts_with(Append(base, m), p)
  <2>1. Append(base, m) = base \o <<m>> /\ <<m>> \in Path
    BY <1>8, AppendPath
  <2>0. p \in Path /\ common \in Path /\ <<m>> \in Path
    BY <1>2, <1>3, <2>1
  <2>2. (p \o common) \o <<m>> = p \o (common \o <<m>>)
    BY <2>0, ConcatAssoc
  <2>3. common \o <<m>> \in Path
    BY <1>3, <2>1, PrefixConcat
  <2>4. starts_with(p \o (common \o <<m>>), p)
    BY <1>2, <2>3, PrefixConcat
  <2>. QED
    BY <2>1, <2>2, <2>3, <2>4
<1>10. ASSUME NEW s \in Path, p \o (common \o s) \in StubsOf(T)
       PROVE  starts_with(s, <<h>> \o oldRest)
  <2>1. common \o s \in Path
    BY <1>3, <1>10, PrefixConcat
  <2>2. starts_with(p \o (common \o s), p)
    BY <1>2, <2>1, PrefixConcat
  <2>3. starts_with(p \o (common \o s), p \o path)
    BY <1>7, <1>10, <2>2
  <2>4. starts_with(common \o s, path)
    BY <1>2, <2>1, <2>3, PrefixUnderConcat
  <2>. DEFINE w == <<h>> \o oldRest
  <2>5. w \in Path /\ path = common \o w
    BY <1>3, <1>5
  <2>. HIDE DEF w
  <2>6. starts_with(s, w)
    BY <1>3, <2>4, <2>5, PrefixUnderConcat
  <2>. QED
    BY <2>6 DEF w
<1>11. <<h>> \in Path /\ <<h>> # <<>> /\ <<h>> \o oldRest \in Path /\ starts_with(<<h>> \o oldRest, <<h>>)
  <2>1. <<h>> \in Path /\ <<h>> # <<>>
    BY <1>2, <1>5, AppendPath
  <2>. QED
    BY <1>5, <2>1, PrefixConcat
<1>12. p \notin StubsOf(T)
  BY DEF StubsOf
<1>13. base \notin StubsOf(T)
  <2>1. SUFFICES ASSUME base \in StubsOf(T) PROVE FALSE
    OBVIOUS
  <2>2. base = p \o (common \o <<>>) /\ <<>> \in Path
    BY <1>3, ConcatEmpty, EmptyPath
  <2>3. starts_with(<<>>, <<h>> \o oldRest)
    BY <1>10, <2>1, <2>2
  <2>4. starts_with(<<>>, <<h>>)
    BY <1>11, <2>2, <2>3, PrefixTrans
  <2>. QED
    BY <1>11, <2>4, PrefixEmpty
<1>. HIDE DEF base
<1>14. oldRest # <<>> => Append(base, h) \notin StubsOf(T)
  <2>1. SUFFICES ASSUME oldRest # <<>>, Append(base, h) \in StubsOf(T) PROVE FALSE
    OBVIOUS
  <2>2. starts_with(<<h>>, <<h>> \o oldRest)
    BY <1>5, <1>9, <1>10, <2>1
  <2>3. <<h>> \o oldRest = <<h>>
    BY <1>11, <2>2, PrefixAntisym
  <2>. QED
    BY <1>5, <1>11, <2>1, <2>3, PrefixConcat
<1>15. newRest # <<>> => Append(base, Head(newRest)) \notin StubsOf(T)
  <2>1. SUFFICES ASSUME newRest # <<>>, Append(base, Head(newRest)) \in StubsOf(T) PROVE FALSE
    OBVIOUS
  <2>2. Head(newRest) \in Nibble
    BY <1>2, <1>3, <2>1, HeadTail
  <2>. DEFINE m == Head(newRest)
  <2>. HIDE DEF m
  <2>3. m \in Nibble /\ m # h /\ Append(base, m) \in StubsOf(T)
    BY <1>6, <2>1, <2>2 DEF m
  <2>4. starts_with(<<m>>, <<h>> \o oldRest) /\ <<m>> \in Path
    BY <1>9, <1>10, <2>3
  <2>5. starts_with(<<m>>, <<h>>)
    BY <1>11, <2>4, PrefixTrans
  <2>6. 1 \in 1..Len(<<h>>) /\ <<m>>[1] = m /\ <<h>>[1] = h
    OBVIOUS
  <2>7. m = h
    BY <1>11, <2>4, <2>5, <2>6, StartsWithPointwise
  <2>. QED
    BY <2>3, <2>7
<1>16. StubsOf(F) = StubsOf(T)
  BY <1>12, <1>13, SkipOrSameStubs DEF base
<1>. HIDE DEF F
<1>17. StubsOf(L) = StubsOf(F)
  <2>1. Skip(oldRest).type # "stub"
    BY DEF Skip
  <2>. QED
    BY <1>14, <1>16, <2>1, PutSameStubs
<1>. HIDE DEF L
<1>18. StubsOf(G) = StubsOf(L)
  BY <1>15, <1>16, <1>17, HangSameStubs
<1>. QED
  BY <1>1, <1>16, <1>17, <1>18

LEMMA NormalizeSameStubs ==
    ASSUME NEW T, NEW p, p \notin StubsOf(T)
    PROVE  StubsOf(normalize(T, p)) = StubsOf(T)
<1>1. ASSUME NEW path
      PROVE  StubsOf(prepend(T, p, path)) = StubsOf(T)
  <2>. DEFINE c == p \o path
  <2>1. /\ Leaf(path \o T[c].path, T[c].value).type # "stub"
        /\ Skip(path \o T[c].path).type # "stub" /\ Skip(path).type # "stub"
    BY DEF Leaf, Skip
  <2>2. Is(T, c, "leaf") \/ Is(T, c, "skip") => StubsOf(Cut(T, {c})) = StubsOf(T)
    BY CutSameStubs DEF Is, StubsOf
  <2>3. \/ c \notin DOMAIN T /\ prepend(T, p, path) = Cut(T, {p})
        \/ /\ Is(T, c, "leaf")
           /\ prepend(T, p, path) = Put(Cut(T, {c}), p, Leaf(path \o T[c].path, T[c].value))
        \/ /\ Is(T, c, "skip")
           /\ prepend(T, p, path) = Put(Cut(T, {c}), p, Skip(path \o T[c].path))
        \/ prepend(T, p, path) = Put(T, p, Skip(path))
    BY DEF prepend
  <2>. HIDE DEF c
  <2>. QED
    BY <2>1, <2>2, <2>3, CutSameStubs, PutSameStubs
<1>2. StubsOf(Cut(T, {p})) = StubsOf(T)
  BY CutSameStubs
<1>3. StubsOf(Put(T, p, Leaf(<<>>, T[p].value))) = StubsOf(T)
  BY PutSameStubs DEF Leaf
<1>. QED
  BY <1>1, <1>2, <1>3 DEF normalize

-----------------------------------------------------------------------------
(* What a call needs *)

BindsAfter(b, r) ==
    IF r.op = "insert" THEN Put(b, r.key, r.value)
    ELSE IF r.op = "remove" THEN Cut(b, {r.key}) ELSE b

(* The Fork at q is left with its child n alone when the binding of the key *)
(* k is gone, from its slot or from the Leaf that was its child m; and the  *)
(* node at s is such a child.                                               *)
Alone(S, k, q, m, n) ==
    /\ starts_with(k, q) /\ S[q].type = "fork"
    /\ \/ q = k /\ S[q].value # NoValue /\ Children(S, q) = {n}
       \/ /\ S[q].value = NoValue /\ m # n /\ Children(S, q) = {m, n}
          /\ S[Append(q, m)].type = "leaf" /\ Append(q, m) \o S[Append(q, m)].path = k

Spare(S, k, s) ==
    \E q \in DOMAIN S : \E m, n \in Nibble : s = Append(q, n) /\ Alone(S, k, q, m, n)

(* The nodes of S that a call has to have loaded.                           *)
Needs(S, r) ==
    {p \in DOMAIN S : starts_with(r.key, p) \/ (r.op = "remove" /\ Spare(S, r.key, p))}

(* The nodes hold what the call needs of the bindings b, as far as it is of *)
(* the complete trie S.                                                     *)
Met(S, b, r, nodes) ==
    \A p \in Needs(Canonical(b), r) \cap Hashed(S) : Subtree(S, p) \in nodes

OnTheWay(S, k, nodes) == \A p \in Hashed(S) : starts_with(k, p) => Subtree(S, p) \in nodes

(* What of S is not among the nodes lies behind a Stub of T.                *)
Covered(S, T, nodes) ==
    \A p \in Hashed(S) : Subtree(S, p) \in nodes \/ \E q \in StubsOf(T) : starts_with(p, q)

LEMMA DecodeCovers ==
    ASSUME NEW S, Whole(S), NEW nodes, NEW r \in Hashed(S), r # <<>>, Subtree(S, r) \notin nodes
    PROVE  \E u \in StubsOf(decode_node(nodes, S)) : starts_with(r, u)
<1>. DEFINE D == decode_node(nodes, S)
            K == Unknown(nodes, S)
<1>1. DOMAIN S \subseteq Path
  BY DEF Whole, Typed
<1>2. /\ K \subseteq DOMAIN S \ {<<>>}
      /\ DOMAIN D = {q \in DOMAIN S : \A u \in K : ~Below(q, u)}
      /\ \A q \in DOMAIN D : D[q] = IF q \in K THEN Stub(Subtree(S, q)) ELSE S[q]
  BY <1>1, DecodeDomain
<1>3. r \in K /\ r \in Path
  BY <1>1 DEF Unknown, Hashed
<1>. HIDE DEF D, K
<1>4. K \subseteq Path /\ starts_with(r, r)
  BY <1>1, <1>2, <1>3, PrefixRefl
<1>5. PICK u \in K : starts_with(r, u) /\ \A w \in K : ~Below(u, w)
  BY <1>3, <1>4, TopmostPrefix
<1>6. u \in DOMAIN D /\ D[u] = Stub(Subtree(S, u))
  BY <1>2, <1>5
<1>7. u \in StubsOf(D)
  BY <1>6, StubFields DEF StubsOf
<1>. QED
  BY <1>5, <1>7 DEF D

LEMMA BuiltCovers ==
    ASSUME NEW S, Whole(S), NEW nodes
    PROVE  Covered(S, build_partial(nodes, S), nodes)
<1>. SUFFICES ASSUME NEW p \in Hashed(S), Subtree(S, p) \notin nodes
              PROVE  \E q \in StubsOf(build_partial(nodes, S)) : starts_with(p, q)
  BY DEF Covered
<1>1. p \in Path /\ S # Null
  BY DEF Hashed, Whole, Typed, Null
<1>2. CASE S \in nodes
  <2>1. p # <<>>
    BY <1>2, WholeSubtree
  <2>. QED
    BY <1>1, <1>2, <2>1, DecodeCovers DEF build_partial
<1>3. CASE S \notin nodes
  <2>. DEFINE node == Stub(S)
  <2>1. build_partial(nodes, S) = Put(Null, <<>>, node)
    BY <1>1, <1>3 DEF build_partial
  <2>2. node.type = "stub"
    BY StubFields
  <2>. HIDE DEF node
  <2>3. <<>> \in DOMAIN Put(Null, <<>>, node) /\ Put(Null, <<>>, node)[<<>>] = node
    BY DEF Put
  <2>4. <<>> \in StubsOf(build_partial(nodes, S))
    BY <2>1, <2>2, <2>3 DEF StubsOf
  <2>. QED
    BY <1>1, <2>4, PrefixEmpty
<1>. QED
  BY <1>2, <1>3

(* Of the complete trie a partial one has loaded all that no Stub hides.    *)
LEMMA LoadedCovers ==
    ASSUME NEW S, NEW T, NEW H, Solid(T, H), Expand(T) = S
    PROVE  Covered(S, T, {Subtree(S, p) : p \in Hashed(S) \cap (DOMAIN T \ StubsOf(T))})
<1>. DEFINE nodes == {Subtree(S, p) : p \in Hashed(S) \cap (DOMAIN T \ StubsOf(T))}
<1>2. DOMAIN T \subseteq Path
  BY DEF Solid, Typed
<1>. SUFFICES ASSUME NEW p \in Hashed(S), Subtree(S, p) \notin nodes
              PROVE  \E q \in StubsOf(T) : starts_with(p, q)
  BY DEF Covered
<1>3. p \in DOMAIN Expand(T)
  BY DEF Hashed
<1>4. ~(p \in DOMAIN T /\ T[p].type # "stub")
  BY DEF StubsOf
<1>5. PICK q \in DOMAIN T : T[q].type = "stub" /\ \E r \in Path : p = q \o r
  <2>1. \/ p \in DOMAIN T /\ T[p].type # "stub" /\ Expand(T)[p] = T[p]
        \/ \E q \in DOMAIN T, r \in Path :
              T[q].type = "stub" /\ r \in DOMAIN T[q].hash /\ p = q \o r
                /\ Expand(T)[p] = T[q].hash[r]
    BY <1>3, ExpandFields
  <2>. QED
    BY <1>4, <2>1
<1>. QED
  BY <1>2, <1>5, PrefixConcat DEF StubsOf

(* A Stub that is resolved hides less than before, by just what was asked   *)
(* for.                                                                     *)
LEMMA GraftCovers ==
    ASSUME NEW S, Whole(S), NEW T, Connected(T), DOMAIN T \subseteq Path, NEW nodes, Covered(S, T, nodes),
           NEW p \in StubsOf(T), p \in Hashed(S), T[p].hash = Subtree(S, p)
    PROVE  Covered(S, Graft(T, p, decode_node({}, T[p].hash)), nodes \cup {T[p].hash})
<1>. DEFINE h == T[p].hash
            D == decode_node({}, h)
            U == Graft(T, p, D)
<1>. SUFFICES ASSUME NEW x \in Hashed(S), Subtree(S, x) \notin nodes \cup {h}
              PROVE  \E q \in StubsOf(U) : starts_with(x, q)
  BY DEF Covered
<1>1. /\ p \in DOMAIN T /\ T[p].type = "stub" /\ p \in Path /\ x \in Path
      /\ DOMAIN S \subseteq Path /\ p \in DOMAIN S /\ x \in DOMAIN S
  BY DEF StubsOf, Hashed, Whole, Typed
<1>2. PICK q \in StubsOf(T) : starts_with(x, q)
  BY DEF Covered
<1>3. q \in DOMAIN T /\ q \in Path /\ T[q].type = "stub"
  BY <1>2 DEF StubsOf
<1>4. CASE q # p
  <2>1. ~starts_with(q, p)
    BY <1>1, <1>3, <1>4, NothingBelow DEF Below
  <2>2. q \in DOMAIN U /\ U[q] = T[q]
    BY <1>3, <2>1 DEF Graft
  <2>. QED
    BY <1>2, <1>3, <2>2 DEF StubsOf
<1>5. CASE q = p
  <2>1. PICK r \in Path : x = p \o r
    BY <1>1, <1>2, <1>5, PrefixSplit
  <2>2. Whole(h) /\ r \in DOMAIN h /\ Subtree(h, r) = Subtree(S, x)
    BY <1>1, <2>1, SubtreeWhole, SubtreeDomain, SubtreeSubtree
  <2>3. r # <<>>
    <3>1. r = <<>> => x = p
      BY <1>1, <2>1, ConcatEmpty
    <3>. QED
      BY <3>1
  <2>4. r \in Hashed(h)
    <3>1. x # <<>>
      BY <1>1, <2>1, <2>3, PrefixConcat, PrefixEmpty
    <3>. QED
      BY <2>2, <3>1 DEF Hashed
  <2>5. PICK u \in StubsOf(D) : starts_with(r, u)
    BY <2>2, <2>3, <2>4, DecodeCovers
  <2>6. u \in DOMAIN D /\ D[u].type = "stub" /\ DOMAIN D \subseteq DOMAIN h
    BY DEF StubsOf, decode_node
  <2>7. u \in Path
    BY <2>2, <2>6 DEF Whole, Typed
  <2>. HIDE DEF D
  <2>8. p \o u \in DOMAIN U /\ U[p \o u] = D[u]
    <3>1. starts_with(p \o u, p) /\ Drop(p \o u, Len(p)) = u
      BY <1>1, <2>7, PrefixConcat, DropConcat
    <3>. QED
      BY <2>6, <3>1 DEF Graft
  <2>9. starts_with(x, p \o u)
    BY <1>1, <2>1, <2>5, <2>7, PrefixUnderConcat
  <2>. QED
    BY <2>6, <2>8, <2>9 DEF StubsOf
<1>. QED
  BY <1>4, <1>5

-----------------------------------------------------------------------------
(* What a partial trie has loaded is what the complete one has there        *)

LEMMA ExpandAbove ==
    ASSUME NEW T, NEW H, Solid(T, H), NEW p \in DOMAIN T, T[p].type # "stub",
           NEW q \in DOMAIN Expand(T), starts_with(p, q)
    PROVE  q \in DOMAIN T /\ T[q].type # "stub" /\ Expand(T)[q] = T[q]
<1>1. DOMAIN T \subseteq Path /\ Connected(T)
  BY DEF Solid, Typed
<1>2. ASSUME NEW u \in DOMAIN T, NEW r \in Path, T[u].type = "stub", q = u \o r
      PROVE  FALSE
  <2>1. p \in Path /\ u \in Path /\ q \in Path /\ starts_with(q, u)
    BY <1>1, <1>2, PrefixConcat
  <2>2. starts_with(p, u)
    BY <2>1, PrefixTrans
  <2>3. Below(p, u)
    BY <1>2, <2>2 DEF Below
  <2>. QED
    BY <1>1, <1>2, <2>3, NothingBelow
<1>. QED
  BY <1>2, ExpandFields

LEMMA ExpandChildren ==
    ASSUME NEW T, NEW H, Solid(T, H), \A h \in H : <<>> \in DOMAIN h,
           NEW q \in DOMAIN T, T[q].type # "stub"
    PROVE  /\ q \in DOMAIN Expand(T) /\ Expand(T)[q] = T[q]
           /\ Children(Expand(T), q) = Children(T, q)
<1>1. DOMAIN T \subseteq Path /\ Connected(T) /\ Typed(T, H)
  BY DEF Solid, Typed
<1>2. q \in DOMAIN Expand(T) /\ Expand(T)[q] = T[q]
  BY ExpandFields
<1>3. ASSUME NEW n \in Nibble, Append(q, n) \in DOMAIN T
      PROVE  Append(q, n) \in DOMAIN Expand(T)
  <2>. DEFINE c == Append(q, n)
  <2>1. CASE T[c].type = "stub"
    <3>1. <<>> \in DOMAIN T[c].hash
      BY <1>1, <1>3, <2>1, NodeTypes
    <3>2. c \o <<>> = c
      BY <1>1, <1>3, ConcatEmpty
    <3>. QED
      BY <1>3, <2>1, <3>1, <3>2, ExpandFields
  <2>. QED
    BY <1>3, <2>1, ExpandFields
<1>4. ASSUME NEW n \in Nibble, Append(q, n) \in DOMAIN Expand(T)
      PROVE  Append(q, n) \in DOMAIN T
  <2>1. ASSUME NEW u \in DOMAIN T, NEW r \in Path, T[u].type = "stub", Append(q, n) = u \o r
        PROVE  Append(q, n) \in DOMAIN T
    <3>1. u \in Path /\ q \in Path /\ starts_with(Append(q, n), u)
      BY <1>1, <2>1, PrefixConcat
    <3>2. u = Append(q, n) \/ starts_with(q, u)
      BY <3>1, AppendNext
    <3>3. ~Below(q, u) /\ q # u
      BY <1>1, <2>1, NothingBelow
    <3>. QED
      BY <3>2, <3>3 DEF Below
  <2>. DEFINE c == Append(q, n)
  <2>2. c \in DOMAIN Expand(T)
    BY <1>4
  <2>. HIDE DEF c
  <2>3. \/ c \in DOMAIN T
        \/ \E u \in DOMAIN T, r \in Path : T[u].type = "stub" /\ c = u \o r
    BY <2>2, ExpandFields
  <2>. QED
    BY <2>1, <2>3 DEF c
<1>. QED
  BY <1>2, <1>3, <1>4 DEF Children

-----------------------------------------------------------------------------
(* What is spare *)

(* How far a removal that has turned back has got: the nodes hold what lies *)
(* on the way to its key k, and of what becomes spare in the tree C that it *)
(* began with they hold all but the last child of a node that is still to   *)
(* be normalized.                                                           *)
Turned(S, T, P, C, k, nodes) ==
    /\ OnTheWay(S, k, nodes)
    /\ \A q \in P : Collapses(T, q) => Spare(C, k, OnlyChild(T, q))
    /\ \A s \in Hashed(S) : Spare(C, k, s) =>
          Subtree(S, s) \in nodes \/ \E q \in P : Collapses(T, q) /\ s = OnlyChild(T, q)

LEMMA CollapseIntro ==
    ASSUME NEW T, NEW q, NEW n \in Nibble, q \in DOMAIN T, T[q].type = "fork",
           T[q].value = NoValue, Children(T, q) = {n}
    PROVE  Collapses(T, q) /\ OnlyChild(T, q) = Append(q, n)
<1>1. Collapses(T, q)
  BY DEF Collapses, Is
<1>. QED
  BY <1>1, CollapseFields

(* The key is bound where the definition says, and the child is there.      *)
LEMMA AloneFields ==
    ASSUME NEW S, Whole(S), NEW k, NEW q \in DOMAIN S, NEW m \in Nibble, NEW n \in Nibble,
           Alone(S, k, q, m, n)
    PROVE  /\ q \in Path /\ S[q].type = "fork" /\ Append(q, n) \in DOMAIN S
           /\ \/ /\ q = k /\ S[q].value # NoValue /\ Children(S, q) = {n}
                 /\ Gives(q, S[q], k, S[q].value)
              \/ /\ S[q].value = NoValue /\ m # n /\ Children(S, q) = {m, n}
                 /\ Append(q, m) \in DOMAIN S /\ S[Append(q, m)].type = "leaf"
                 /\ Gives(Append(q, m), S[Append(q, m)], k, S[Append(q, m)].value)
  BY DEF Alone, Gives, Children, Whole, Typed

LEMMA AloneGives ==
    ASSUME NEW S, Whole(S), NEW k, NEW q \in DOMAIN S, NEW m \in Nibble, NEW n \in Nibble,
           Alone(S, k, q, m, n)
    PROVE  \/ Gives(q, S[q], k, S[q].value)
           \/ /\ Append(q, m) \in DOMAIN S
              /\ Gives(Append(q, m), S[Append(q, m)], k, S[Append(q, m)].value)
  BY AloneFields

LEMMA AloneCases ==
    ASSUME NEW S, Whole(S), NEW k, NEW q \in DOMAIN S, NEW m \in Nibble, NEW n \in Nibble,
           Alone(S, k, q, m, n)
    PROVE  /\ q \in Path /\ S[q].type = "fork"
           /\ \/ Gives(q, S[q], k, S[q].value)
              \/ /\ S[q].value = NoValue /\ m # n /\ Children(S, q) = {m, n}
                 /\ Append(q, m) \in DOMAIN S
                 /\ Gives(Append(q, m), S[Append(q, m)], k, S[Append(q, m)].value)
  BY DEF Alone, Gives, Children, Whole, Typed

LEMMA SpareBound ==
    ASSUME NEW S, Whole(S), NEW k, NEW s, Spare(S, k, s)
    PROVE  k \in DOMAIN Contents(S)
<1>1. PICK q \in DOMAIN S, m \in Nibble, n \in Nibble : Alone(S, k, q, m, n)
  BY DEF Spare
<1>2. \E p \in DOMAIN S : Gives(p, S[p], k, S[p].value)
  <2>1. \/ Gives(q, S[q], k, S[q].value)
        \/ /\ Append(q, m) \in DOMAIN S
           /\ Gives(Append(q, m), S[Append(q, m)], k, S[Append(q, m)].value)
    BY <1>1, AloneGives, Zenon
  <2>. QED
    BY <2>1, Zenon
<1>. QED
  BY <1>2, ContentsGives

(* A key is bound in one place.                                             *)
LEMMA GivesThere ==
    ASSUME NEW S, Whole(S), NEW p \in DOMAIN S, NEW q \in DOMAIN S, NEW k, NEW v, NEW w,
           Gives(p, S[p], k, v), Gives(q, S[q], k, w)
    PROVE  p = q
<1>1. Typed(S, {}) /\ Connected(S) /\ p \in Path /\ q \in Path /\ <<>> \in Path
  BY EmptyPath DEF Whole, Typed, WellFormed, WellFormedBut
<1>2. <<>> \o p = p /\ <<>> \o q = q
  BY <1>1, ConcatEmpty
<1>3. Gives(<<>> \o p, S[p], k, v) /\ Gives(<<>> \o q, S[q], k, w)
  BY <1>2
<1>. QED
  BY <1>1, <1>3, GivesOnce

(* A Leaf that goes may leave a Fork with one child, that is spare, and no  *)
(* other node is.                                                           *)
LEMMA TurnAtLeaf ==
    ASSUME NEW T, NEW H, Solid(T, H), \A h \in H : <<>> \in DOMAIN h, WellFormed(T),
           Whole(Expand(T)), NEW p \in DOMAIN T, T[p].type = "leaf",
           NEW S, NEW k, k = p \o T[p].path, NEW nodes, OnTheWay(S, k, nodes)
    PROVE  Turned(S, Cut(T, {p}), Parents(Cut(T, {p}), p), Expand(T), k, nodes)
<1>. DEFINE U == Cut(T, {p})
            C == Expand(T)
<1>1. /\ DOMAIN T \subseteq Path /\ p \in Path /\ T[p].path \in Path /\ Typed(T, H)
      /\ starts_with(k, p) /\ k \in Path
  BY NodeTypes, PrefixConcat DEF Solid, Typed
<1>2. \A q \in Parents(U, p) : U[q].type = "fork"
  BY <1>1, CutLeafShape DEF WellFormed
<1>3. DOMAIN U = DOMAIN T \ {p} /\ \A q \in DOMAIN U : U[q] = T[q]
  BY DEF Cut
<1>. HIDE DEF U
<1>4. ASSUME NEW q \in DOMAIN T, T[q].type # "stub"
      PROVE  q \in DOMAIN C /\ C[q] = T[q] /\ Children(C, q) = Children(T, q)
  BY <1>4, ExpandChildren
<1>5. Gives(p, C[p], k, T[p].value) /\ p \in DOMAIN C
  BY <1>4 DEF Gives
<1>. HIDE DEF C
<1>6. ASSUME NEW q \in Path, NEW m \in Nibble, p = Append(q, m)
      PROVE  Children(U, q) = Children(T, q) \ {m}
  BY <1>3, <1>6, AppendInj DEF Children
<1>7. ASSUME NEW q \in Parents(U, p), Collapses(U, q)
      PROVE  Spare(C, k, OnlyChild(U, q))
  <2>1. q \in DOMAIN U /\ q \in DOMAIN T /\ U[q] = T[q] /\ T[q].type = "fork" /\ q \in Path
    BY <1>1, <1>2, <1>3 DEF Parents
  <2>2. PICK m \in Nibble : p = Append(q, m)
    BY <1>2, <2>1 DEF Parents, IsParent, Is
  <2>3. PICK n \in Nibble : Children(U, q) = {n} /\ OnlyChild(U, q) = Append(q, n)
    BY <1>7, CollapseFields
  <2>4. T[q].value = NoValue
    BY <1>7, <2>1 DEF Collapses
  <2>5. m \in Children(T, q)
    BY <2>2 DEF Children
  <2>6. m # n /\ Children(T, q) = {m, n}
    BY <1>6, <2>1, <2>2, <2>3, <2>5
  <2>7. q \in DOMAIN C /\ C[q] = T[q] /\ Children(C, q) = {m, n} /\ C[p] = T[p]
    BY <1>4, <2>1, <2>6
  <2>9. starts_with(k, q)
    <3>1. starts_with(p, q)
      BY <2>1, <2>2, AppendPath
    <3>2. p \in Path /\ q \in Path /\ k \in Path /\ starts_with(k, p)
      BY <1>1, <2>1
    <3>. QED
      BY <3>1, <3>2, PrefixTrans, Zenon
  <2>. QED
    BY <2>1, <2>2, <2>3, <2>4, <2>6, <2>7, <2>9 DEF Spare, Alone
<1>8. ASSUME NEW s, Spare(C, k, s)
      PROVE  \E q \in Parents(U, p) : Collapses(U, q) /\ s = OnlyChild(U, q)
  <2>1. PICK q \in DOMAIN C, m \in Nibble, n \in Nibble : s = Append(q, n) /\ Alone(C, k, q, m, n)
    BY <1>8 DEF Spare
  <2>2. Whole(C)
    BY DEF C
  <2>12. /\ q \in Path /\ C[q].type = "fork"
         /\ \/ Gives(q, C[q], k, C[q].value)
            \/ /\ C[q].value = NoValue /\ m # n /\ Children(C, q) = {m, n}
               /\ Append(q, m) \in DOMAIN C
               /\ Gives(Append(q, m), C[Append(q, m)], k, C[Append(q, m)].value)
    <3>1. Alone(C, k, q, m, n)
      BY <2>1
    <3>. QED
      BY <2>2, <3>1, AloneCases, Zenon
  <2>3. ASSUME Gives(q, C[q], k, C[q].value)
        PROVE  FALSE
    <3>1. q = p
      BY <1>5, <2>2, <2>3, GivesThere
    <3>2. C[p].type = "leaf"
      BY <1>4
    <3>. QED
      BY <2>12, <3>1, <3>2
  <2>4. /\ C[q].value = NoValue /\ m # n /\ Children(C, q) = {m, n}
        /\ Append(q, m) \in DOMAIN C
        /\ Gives(Append(q, m), C[Append(q, m)], k, C[Append(q, m)].value)
    BY <2>12, <2>3
  <2>5. Append(q, m) = p
    BY <1>5, <2>2, <2>4, GivesThere
  <2>6. q \in DOMAIN T /\ T[q].type # "stub" /\ C[q] = T[q]
    <3>1. starts_with(p, q)
      BY <2>12, <2>5, AppendPath
    <3>2. T[p].type # "stub"
      OBVIOUS
    <3>. QED
      BY <3>1, <3>2, ExpandAbove DEF C
  <2>7. q # p
    BY <1>4, <2>12
  <2>8. q \in DOMAIN U /\ U[q] = T[q] /\ T[q].type = "fork" /\ T[q].value = NoValue
    BY <1>3, <2>12, <2>4, <2>6, <2>7
  <2>9. Children(U, q) = {n}
    BY <1>4, <1>6, <2>12, <2>4, <2>5, <2>6
  <2>10. Collapses(U, q) /\ OnlyChild(U, q) = Append(q, n)
    BY <2>8, <2>9, CollapseIntro
  <2>11. q \in Parents(U, p)
    BY <2>5, <2>8 DEF Parents, IsParent, Is
  <2>. QED
    BY <2>1, <2>10, <2>11
<1>. QED
  BY <1>7, <1>8 DEF Turned, U, C

(* So may the value of a Fork.                                              *)
LEMMA TurnAtFork ==
    ASSUME NEW T, NEW H, Solid(T, H), \A h \in H : <<>> \in DOMAIN h,
           Whole(Expand(T)), NEW p \in DOMAIN T, T[p].type = "fork", T[p].value # NoValue,
           NEW S, NEW nodes, OnTheWay(S, p, nodes)
    PROVE  Turned(S, Put(T, p, Fork(NoValue)), {p}, Expand(T), p, nodes)
<1>. DEFINE U == Put(T, p, Fork(NoValue))
            C == Expand(T)
<1>1. p \in Path /\ starts_with(p, p)
  BY PrefixRefl DEF Solid, Typed
<1>2. DOMAIN U = DOMAIN T /\ U[p].type = "fork" /\ U[p].value = NoValue
  BY DEF Put, Fork
<1>3. Children(U, p) = Children(T, p)
  BY <1>2 DEF Children
<1>. HIDE DEF U
<1>4. p \in DOMAIN C /\ C[p] = T[p] /\ Children(C, p) = Children(T, p)
  BY ExpandChildren
<1>5. Gives(p, C[p], p, C[p].value)
  BY <1>4 DEF Gives
<1>. HIDE DEF C
<1>6. ASSUME Collapses(U, p)
      PROVE  Spare(C, p, OnlyChild(U, p))
  <2>1. PICK n \in Nibble : Children(U, p) = {n} /\ OnlyChild(U, p) = Append(p, n)
    BY <1>6, CollapseFields
  <2>. QED
    BY <1>1, <1>3, <1>4, <2>1 DEF Spare, Alone
<1>7. ASSUME NEW s, Spare(C, p, s)
      PROVE  Collapses(U, p) /\ s = OnlyChild(U, p)
  <2>1. Whole(C)
    BY DEF C
  <2>0. PICK q \in DOMAIN C, m \in Nibble, n \in Nibble : s = Append(q, n) /\ Alone(C, p, q, m, n)
    BY <1>7 DEF Spare
  <2>2. \/ q = p /\ Children(C, q) = {n}
        \/ /\ Append(q, m) \in DOMAIN C /\ C[Append(q, m)].type = "leaf"
           /\ Gives(Append(q, m), C[Append(q, m)], p, C[Append(q, m)].value)
    BY <2>0, <2>1, AloneFields
  <2>3. ASSUME Append(q, m) \in DOMAIN C, C[Append(q, m)].type = "leaf",
               Gives(Append(q, m), C[Append(q, m)], p, C[Append(q, m)].value)
        PROVE  FALSE
    <3>1. Append(q, m) = p
      BY <1>4, <1>5, <2>1, <2>3, GivesThere
    <3>. QED
      BY <1>4, <2>3, <3>1
  <2>4. q = p /\ Children(U, p) = {n} /\ s = Append(p, n)
    BY <1>3, <1>4, <2>0, <2>2, <2>3
  <2>. QED
    BY <1>2, <2>4, CollapseIntro
<1>. QED
  BY <1>6, <1>7 DEF Turned, U, C
=============================================================================
