--------------------------- MODULE VerifierProofs ---------------------------
(***************************************************************************)
(* What Trie::prove puts out and what `verify` accepts, for every trie,    *)
(* key and proof.  The argument compares the verifier's place with the one *)
(* honest proof: at every turn of its loop, the nodes it has consumed are  *)
(* the part of that proof that leads to where it is.  What is proved from  *)
(* a partial trie is then compared with that one proof, node by node.      *)
(***************************************************************************)
EXTENDS TrieProofs, TrieTheorems

-----------------------------------------------------------------------------
(* Slices of a proof *)

IsSeq(s) == \E X : s \in Seq(X)

LEMMA SeqSlices ==
    ASSUME NEW s, IsSeq(s), NEW n \in 0..Len(s)
    PROVE  /\ Len(s) \in Nat /\ s = [i \in 1..Len(s) |-> s[i]]
           /\ IsSeq(Take(s, n)) /\ Len(Take(s, n)) = n
           /\ \A i \in 1..n : Take(s, n)[i] = s[i]
           /\ IsSeq(Drop(s, n))
           /\ Take(s, Len(s)) = s
<1>1. PICK X : s \in Seq(X)
  BY DEF IsSeq
<1>2. Len(s) \in Nat /\ s \in [1..Len(s) -> X]
  BY <1>1, LenProperties
<1>3. /\ Take(s, n) \in Seq(X) /\ Len(Take(s, n)) = n
      /\ \A i \in 1..n : Take(s, n)[i] = s[i]
  <2>1. \A i \in 1..n : s[i] \in X
    BY <1>2
  <2>. QED
    BY <1>2, <2>1, SubSeqProperties DEF Take
<1>4. Drop(s, n) \in Seq(X)
  <2>1. \A i \in (n + 1)..Len(s) : s[i] \in X
    BY <1>2
  <2>. QED
    BY <1>2, <2>1, SubSeqProperties DEF Drop
<1>5. Take(s, Len(s)) = s
  <2>1. \A i \in 1..Len(s) : s[i] \in X
    BY <1>2
  <2>2. /\ Take(s, Len(s)) \in Seq(X) /\ Len(Take(s, Len(s))) = Len(s)
        /\ \A i \in 1..Len(s) : Take(s, Len(s))[i] = s[i]
    BY <1>2, <2>1, SubSeqProperties DEF Take
  <2>. QED
    BY <1>1, <2>2, SeqEqual
<1>. QED
  BY <1>2, <1>3, <1>4, <1>5 DEF IsSeq

LEMMA SeqConcat ==
    ASSUME NEW s, NEW t, IsSeq(s), IsSeq(t)
    PROVE  /\ IsSeq(s \o t) /\ Len(s \o t) = Len(s) + Len(t)
           /\ Len(s) \in Nat /\ Len(t) \in Nat
<1>1. PICK X : s \in Seq(X)
  BY DEF IsSeq
<1>2. PICK Y : t \in Seq(Y)
  BY DEF IsSeq
<1>3. s \in Seq(X \cup Y) /\ t \in Seq(X \cup Y)
  BY <1>1, <1>2, SeqMonotonic
<1>4. s \o t \in Seq(X \cup Y) /\ Len(s \o t) = Len(s) + Len(t)
  BY <1>3, ConcatProperties
<1>. QED
  BY <1>1, <1>2, <1>4, LenProperties DEF IsSeq

LEMMA ConcatAt ==
    ASSUME NEW s, NEW t, IsSeq(s), IsSeq(t), NEW i \in 1..(Len(s) + Len(t))
    PROVE  (s \o t)[i] = IF i <= Len(s) THEN s[i] ELSE t[i - Len(s)]
<1>1. PICK X : s \in Seq(X)
  BY DEF IsSeq
<1>2. PICK Y : t \in Seq(Y)
  BY DEF IsSeq
<1>3. s \in Seq(X \cup Y) /\ t \in Seq(X \cup Y)
  BY <1>1, <1>2, SeqMonotonic
<1>. QED
  BY <1>3, ConcatProperties

LEMMA SeqSame ==
    ASSUME NEW s, NEW t, IsSeq(s), IsSeq(t), Len(s) = Len(t),
           \A i \in 1..Len(s) : s[i] = t[i]
    PROVE  s = t
<1>1. s = [i \in 1..Len(s) |-> s[i]] /\ t = [i \in 1..Len(t) |-> t[i]]
  <2>1. (\E X : s \in Seq(X)) /\ (\E X : t \in Seq(X))
    BY DEF IsSeq
  <2>. QED
    BY <2>1
<1>. QED
  BY <1>1

(* One node on its own. *)
One(e) == <<e>>

LEMMA SeqOne ==
    ASSUME NEW e
    PROVE  IsSeq(<<>>) /\ Len(<<>>) = 0 /\ IsSeq(One(e)) /\ Len(One(e)) = 1 /\ One(e)[1] = e
<1>1. <<>> \in Seq({}) /\ <<e>> \in Seq({e})
  OBVIOUS
<1>. QED
  BY <1>1 DEF IsSeq, One

LEMMA SeqNone ==
    ASSUME NEW s, IsSeq(s)
    PROVE  s \o <<>> = s /\ <<>> \o s = s
  BY ConcatEmptySeq DEF IsSeq

(* The first n nodes of s, then e, then the nodes of r. *)
Line(s, n, e, r) == Take(s, n) \o (One(e) \o r)

LEMMA LineHas ==
    ASSUME NEW s, IsSeq(s), NEW n \in Nat, n < Len(s), NEW r, IsSeq(r), NEW e
    PROVE  /\ Len(s) \in Nat /\ Len(r) \in Nat
           /\ IsSeq(Line(s, n, e, r)) /\ Len(Line(s, n, e, r)) = n + (1 + Len(r))
           /\ \A i \in 1..n : Line(s, n, e, r)[i] = s[i]
           /\ Line(s, n, e, r)[n + 1] = e
           /\ \A j \in 1..Len(r) : Line(s, n, e, r)[n + (1 + j)] = r[j]
<1>1. Len(s) \in Nat /\ Len(r) \in Nat
  <2>1. Len(s) \in Nat
    BY LenProperties DEF IsSeq
  <2>2. Len(r) \in Nat
    BY LenProperties DEF IsSeq
  <2>. QED
    BY <2>1, <2>2
<1>2. /\ IsSeq(Take(s, n)) /\ Len(Take(s, n)) = n /\ \A i \in 1..n : Take(s, n)[i] = s[i]
  BY <1>1, SeqSlices
<1>. DEFINE m == One(e) \o r
            l == Line(s, n, e, r)
<1>3. IsSeq(One(e)) /\ Len(One(e)) = 1 /\ One(e)[1] = e
  BY SeqOne
<1>4. IsSeq(m) /\ Len(m) = 1 + Len(r)
  BY <1>3, SeqConcat
<1>5. ASSUME NEW i \in 1..(1 + Len(r))
      PROVE  m[i] = IF i = 1 THEN e ELSE r[i - 1]
  <2>1. m[i] = IF i <= Len(One(e)) THEN One(e)[i] ELSE r[i - Len(One(e))]
    BY <1>3, ConcatAt
  <2>. HIDE DEF m
  <2>. QED
    BY <1>1, <1>3, <2>1
<1>6. l = Take(s, n) \o m
  BY DEF Line
<1>. HIDE DEF m, l
<1>7. IsSeq(l) /\ Len(l) = n + (1 + Len(r))
  BY <1>2, <1>4, <1>6, SeqConcat
<1>8. ASSUME NEW i \in 1..(n + (1 + Len(r)))
      PROVE  l[i] = IF i <= n THEN s[i] ELSE m[i - n]
  <2>1. l[i] = IF i <= Len(Take(s, n)) THEN Take(s, n)[i] ELSE m[i - Len(Take(s, n))]
    BY <1>2, <1>4, <1>6, ConcatAt
  <2>. QED
    BY <1>1, <1>2, <2>1
<1>9. \A i \in 1..n : l[i] = s[i]
  BY <1>1, <1>8
<1>10. l[n + 1] = e
  <2>1. n + 1 \in 1..(n + (1 + Len(r))) /\ (n + 1) - n = 1 /\ ~(n + 1 <= n)
        /\ 1 \in 1..(1 + Len(r))
    BY <1>1
  <2>. QED
    BY <1>5, <1>8, <2>1
<1>11. ASSUME NEW j \in 1..Len(r)
       PROVE  l[n + (1 + j)] = r[j]
  <2>1. /\ n + (1 + j) \in 1..(n + (1 + Len(r))) /\ (n + (1 + j)) - n = 1 + j
        /\ ~(n + (1 + j) <= n)
        /\ 1 + j \in 1..(1 + Len(r)) /\ (1 + j) - 1 = j /\ 1 + j # 1
    BY <1>1
  <2>. QED
    BY <1>5, <1>8, <2>1
<1>. QED
  BY <1>1, <1>7, <1>9, <1>10, <1>11 DEF l

(* One more node consumed: what follows begins with the next.               *)
LEMMA Consume ==
    ASSUME NEW s, IsSeq(s), NEW n \in Nat, n < Len(s), NEW r, IsSeq(r)
    PROVE  Line(s, n, s[n + 1], r) = Take(s, n + 1) \o r
<1>. DEFINE l == Line(s, n, s[n + 1], r)
            t == Take(s, n + 1) \o r
<1>1. /\ Len(s) \in Nat /\ Len(r) \in Nat
      /\ IsSeq(l) /\ Len(l) = n + (1 + Len(r))
      /\ \A i \in 1..n : l[i] = s[i]
      /\ l[n + 1] = s[n + 1]
      /\ \A j \in 1..Len(r) : l[n + (1 + j)] = r[j]
  BY LineHas
<1>2. /\ IsSeq(Take(s, n + 1)) /\ Len(Take(s, n + 1)) = n + 1
      /\ \A i \in 1..(n + 1) : Take(s, n + 1)[i] = s[i]
  <2>1. n + 1 \in 0..Len(s)
    BY <1>1
  <2>. QED
    BY <2>1, SeqSlices, Zenon
<1>3. /\ IsSeq(t) /\ Len(t) = (n + 1) + Len(r)
      /\ \A i \in 1..(n + 1) : t[i] = s[i]
      /\ \A j \in 1..Len(r) : t[(n + 1) + j] = r[j]
  <2>1. IsSeq(t) /\ Len(t) = (n + 1) + Len(r)
    BY <1>2, SeqConcat
  <2>2. ASSUME NEW i \in 1..((n + 1) + Len(r))
        PROVE  t[i] = IF i <= n + 1 THEN s[i] ELSE r[i - (n + 1)]
    <3>1. t[i] = IF i <= Len(Take(s, n + 1)) THEN Take(s, n + 1)[i]
                 ELSE r[i - Len(Take(s, n + 1))]
      BY <1>2, ConcatAt
    <3>. HIDE DEF t
    <3>. QED
      BY <1>1, <1>2, <3>1
  <2>. HIDE DEF t
  <2>3. ASSUME NEW j \in 1..Len(r)
        PROVE  t[(n + 1) + j] = r[j]
    <3>1. /\ (n + 1) + j \in 1..((n + 1) + Len(r)) /\ ((n + 1) + j) - (n + 1) = j
          /\ ~((n + 1) + j <= n + 1)
      BY <1>1
    <3>. QED
      BY <2>2, <3>1
  <2>4. \A i \in 1..(n + 1) : t[i] = s[i]
    BY <1>1, <2>2
  <2>. QED
    BY <2>1, <2>3, <2>4
<1>. HIDE DEF l, t
<1>4. ASSUME NEW i \in 1..Len(l)
      PROVE  l[i] = t[i]
  <2>1. CASE i <= n + 1
    BY <1>1, <1>3, <2>1
  <2>2. CASE i > n + 1
    <3>1. i - (n + 1) \in 1..Len(r)
      BY <1>1, <2>2
    <3>2. i = n + (1 + (i - (n + 1))) /\ i = (n + 1) + (i - (n + 1))
      BY <1>1
    <3>3. l[n + (1 + (i - (n + 1)))] = r[i - (n + 1)] /\ t[(n + 1) + (i - (n + 1))] = r[i - (n + 1)]
      BY <1>1, <1>3, <3>1
    <3>. QED
      BY <3>2, <3>3
  <2>. QED
    BY <1>1, <2>1, <2>2
<1>5. Len(l) = Len(t)
  BY <1>1, <1>3
<1>6. l = t
  BY <1>1, <1>3, <1>4, <1>5, SeqSame
<1>. QED
  BY <1>6 DEF l, t

LEMMA ConsumeNext ==
    ASSUME NEW s, IsSeq(s), NEW n \in Nat, n < Len(s), NEW r, IsSeq(r),
           NEW e, e # s[n + 1]
    PROVE  s # Line(s, n, e, r)
<1>1. Line(s, n, e, r)[n + 1] = e
  BY LineHas
<1>. QED
  BY <1>1

(* What goes on past s is longer, and s is where it begins.                 *)
LEMMA Ahead ==
    ASSUME NEW s, IsSeq(s), NEW e, NEW r, IsSeq(r)
    PROVE  LET l == s \o (One(e) \o r)
           IN  IsSeq(l) /\ Len(s) < Len(l) /\ s = Take(l, Len(s))
<1>. DEFINE m == One(e) \o r
            l == s \o m
<1>1. IsSeq(m) /\ Len(m) = 1 + Len(r)
  <2>1. IsSeq(One(e)) /\ Len(One(e)) = 1
    BY SeqOne
  <2>. QED
    BY <2>1, SeqConcat
<1>2. Len(s) \in Nat /\ Len(r) \in Nat
  <2>1. Len(s) \in Nat
    BY LenProperties DEF IsSeq
  <2>2. Len(r) \in Nat
    BY LenProperties DEF IsSeq
  <2>. QED
    BY <2>1, <2>2
<1>. HIDE DEF m
<1>3. IsSeq(l) /\ Len(l) = Len(s) + (1 + Len(r))
  <2>1. IsSeq(l) /\ Len(l) = Len(s) + Len(m)
    BY <1>1, SeqConcat
  <2>. QED
    BY <1>1, <2>1
<1>4. ASSUME NEW i \in 1..Len(s)
      PROVE  l[i] = s[i]
  <2>1. i \in 1..(Len(s) + Len(m)) /\ i <= Len(s)
    BY <1>1, <1>2
  <2>2. l[i] = IF i <= Len(s) THEN s[i] ELSE m[i - Len(s)]
    BY <1>1, <2>1, ConcatAt
  <2>. HIDE DEF l
  <2>. QED
    BY <2>1, <2>2
<1>. HIDE DEF l
<1>5. Len(s) \in 0..Len(l)
  BY <1>2, <1>3
<1>6. /\ IsSeq(Take(l, Len(s))) /\ Len(Take(l, Len(s))) = Len(s)
      /\ \A i \in 1..Len(s) : Take(l, Len(s))[i] = l[i]
  BY <1>3, <1>5, SeqSlices
<1>7. s = Take(l, Len(s))
  BY <1>3, <1>6, <1>4, SeqSame
<1>8. Len(s) < Len(l)
  BY <1>2, <1>3
<1>. QED
  BY <1>3, <1>7, <1>8 DEF l, m

-----------------------------------------------------------------------------
(* The prover *)

(* A trie down which every walk ends.                                       *)
Walkable(T) ==
    /\ Paths(T) /\ Bounded(T)
    /\ \A p \in DOMAIN T : T[p].type = "skip" => T[p].path # <<>>

(* What collect puts out below p, when it puts out f[c] at c and below.     *)
After(T, k, f, p) ==
    IF Onward(T, k, p) = {} THEN <<>> ELSE f[CHOOSE c \in Onward(T, k, p) : TRUE]

Collects(T, k, f) == f = [p \in DOMAIN T |-> Entry(T, p) \o After(T, k, f, p)]

Collected(T, k) == CHOOSE f : Collects(T, k, f)

LEMMA CollectIs == ASSUME NEW T, NEW k PROVE collect(T, k) = Collected(T, k)[<<>>]
  BY DEF collect, Collected, Collects, After

LEMMA OnwardBelow ==
    ASSUME NEW T, Walkable(T), NEW k, NEW p \in DOMAIN T, NEW c \in Onward(T, k, p)
    PROVE  /\ c \in DOMAIN T /\ Below(c, p)
           /\ Len(c) \in Nat /\ Len(p) \in Nat /\ Len(p) < Len(c)
<1>1. c \in DOMAIN T /\ IsParent(T, p, c) /\ p \in Path /\ c \in Path
  BY DEF Onward, Walkable, Paths
<1>2. Below(c, p)
  BY <1>1, ParentAbove DEF Walkable
<1>. QED
  BY <1>1, <1>2, BelowLen, PathLen

(* Only what f puts out below p matters at p.                               *)
LEMMA AfterSame ==
    ASSUME NEW T, Walkable(T), NEW k, NEW p \in DOMAIN T, NEW f, NEW g,
           \A c \in DOMAIN T : Len(c) > Len(p) => f[c] = g[c]
    PROVE  After(T, k, f, p) = After(T, k, g, p)
<1>1. CASE Onward(T, k, p) = {}
  BY <1>1 DEF After
<1>2. CASE Onward(T, k, p) # {}
  <2>. DEFINE c == CHOOSE c \in Onward(T, k, p) : TRUE
  <2>1. c \in Onward(T, k, p)
    BY <1>2
  <2>2. After(T, k, f, p) = f[c] /\ After(T, k, g, p) = g[c]
    BY <1>2 DEF After
  <2>. HIDE DEF c
  <2>3. c \in DOMAIN T /\ Len(c) > Len(p)
    BY <2>1, OnwardBelow
  <2>. QED
    BY <2>2, <2>3
<1>. QED
  BY <1>1, <1>2

(* collect's recursion is well founded, so that it returns what its         *)
(* equation says; and that is a sequence of nodes.                          *)
LEMMA CollectDefined ==
    ASSUME NEW T, Walkable(T), NEW k
    PROVE  Collects(T, k, Collected(T, k))
<1>. DEFINE Right(g, m) ==
              /\ g = [p \in DOMAIN T |-> g[p]]
              /\ \A p \in DOMAIN T : Len(p) >= m => g[p] = Entry(T, p) \o After(T, k, g, p)
            M == {m \in Nat : \E g : Right(g, m)}
<1>1. PICK d \in Nat : \A p \in DOMAIN T : Len(p) <= d
  BY DEF Walkable, Bounded
<1>2. \A p \in DOMAIN T : Len(p) \in Nat
  BY PathLen DEF Walkable, Paths
<1>3. d + 1 \in M
  <2>. DEFINE none == [p \in DOMAIN T |-> <<>>]
  <2>1. Right(none, d + 1)
    BY <1>1, <1>2
  <2>. HIDE DEF none, Right
  <2>2. \E h : Right(h, d + 1)
    BY <2>1
  <2>. QED
    BY <2>2
<1>4. PICK m \in M : \A n \in M : m <= n
  BY <1>3, NatMinimum
<1>5. PICK g : Right(g, m)
  BY <1>4
<1>6. ASSUME m # 0
      PROVE  FALSE
  <2>. DEFINE h == [p \in DOMAIN T |-> IF Len(p) = m - 1
                                       THEN Entry(T, p) \o After(T, k, g, p) ELSE g[p]]
  <2>1. m \in Nat /\ m - 1 \in Nat
    BY <1>4, <1>6
  <2>2. ASSUME NEW p \in DOMAIN T, Len(p) >= m - 1
        PROVE  h[p] = Entry(T, p) \o After(T, k, h, p)
    <3>1. \A c \in DOMAIN T : Len(c) > Len(p) => h[c] = g[c]
      BY <1>2, <2>1, <2>2
    <3>2. After(T, k, h, p) = After(T, k, g, p)
      <4>. HIDE DEF h
      <4>. QED
        BY <3>1, AfterSame
    <3>3. h[p] = Entry(T, p) \o After(T, k, g, p)
      <4>1. h[p] = IF Len(p) = m - 1 THEN Entry(T, p) \o After(T, k, g, p) ELSE g[p]
        BY <2>2
      <4>. HIDE DEF h
      <4>2. CASE Len(p) = m - 1
        BY <4>1, <4>2
      <4>3. CASE Len(p) # m - 1
        <5>1. Len(p) >= m
          BY <1>2, <2>1, <2>2, <4>3
        <5>. QED
          BY <1>5, <4>1, <4>3, <5>1
      <4>. QED
        BY <4>2, <4>3
    <3>. QED
      BY <3>2, <3>3
  <2>3. h = [p \in DOMAIN T |-> h[p]]
    OBVIOUS
  <2>. HIDE DEF h
  <2>4. Right(h, m - 1)
    BY <2>2, <2>3
  <2>. HIDE DEF Right
  <2>5. m - 1 \in M
    BY <2>1, <2>4
  <2>. HIDE DEF M
  <2>6. m <= m - 1
    BY <1>4, <2>5
  <2>. QED
    BY <2>1, <2>6
<1>7. \A p \in DOMAIN T : g[p] = Entry(T, p) \o After(T, k, g, p)
  <2>1. \A p \in DOMAIN T : Len(p) >= m
    BY <1>2, <1>6
  <2>. QED
    BY <1>5, <2>1
<1>8. Collects(T, k, g)
  BY <1>5, <1>7 DEF Collects
<1>. QED
  BY <1>8 DEF Collected

LEMMA EntrySeq == ASSUME NEW T, NEW p PROVE IsSeq(Entry(T, p))
  BY SeqOne DEF Entry, One

LEMMA CollectSteps ==
    ASSUME NEW T, Walkable(T), NEW k, NEW p \in DOMAIN T
    PROVE  LET f == Collected(T, k)
           IN  /\ f[p] = Entry(T, p) \o After(T, k, f, p)
               /\ IsSeq(f[p]) /\ IsSeq(After(T, k, f, p))
<1>. DEFINE f == Collected(T, k)
            A == {q \in DOMAIN T : ~IsSeq(f[q])}
<1>1. \A q \in DOMAIN T : f[q] = Entry(T, q) \o After(T, k, f, q)
  BY CollectDefined DEF Collects
<1>. HIDE DEF f
<1>2. ASSUME NEW q \in DOMAIN T, \A c \in DOMAIN T : Below(c, q) => IsSeq(f[c])
      PROVE  IsSeq(After(T, k, f, q))
  <2>1. CASE Onward(T, k, q) = {}
    BY <2>1, SeqOne DEF After
  <2>2. CASE Onward(T, k, q) # {}
    <3>. DEFINE c == CHOOSE c \in Onward(T, k, q) : TRUE
    <3>1. c \in Onward(T, k, q)
      BY <2>2
    <3>2. After(T, k, f, q) = f[c]
      BY <2>2 DEF After
    <3>. HIDE DEF c
    <3>. QED
      BY <1>2, <3>1, <3>2, OnwardBelow
  <2>. QED
    BY <2>1, <2>2
<1>3. A = {}
  <2>. SUFFICES ASSUME A # {} PROVE FALSE
    OBVIOUS
  <2>1. PICK q \in A : \A r \in A : ~Below(r, q)
    <3>1. A \subseteq DOMAIN T /\ DOMAIN T \subseteq Path /\ Bounded(T)
      BY DEF Walkable, Paths
    <3>. HIDE DEF A
    <3>. QED
      BY <3>1, Deepest
  <2>2. IsSeq(After(T, k, f, q))
    BY <1>2, <2>1
  <2>3. IsSeq(f[q])
    <3>1. f[q] = Entry(T, q) \o After(T, k, f, q)
      BY <1>1, <2>1
    <3>2. IsSeq(Entry(T, q) \o After(T, k, f, q))
      BY <2>2, EntrySeq, SeqConcat
    <3>. QED
      BY <3>1, <3>2, Zenon
  <2>. QED
    BY <2>1, <2>3
<1>4. \A q \in DOMAIN T : IsSeq(f[q])
  BY <1>3
<1>. QED
  BY <1>1, <1>2, <1>4 DEF f

LEMMA ProveSeq ==
    ASSUME NEW T, Walkable(T), T = Null \/ <<>> \in DOMAIN T, NEW k
    PROVE  IsSeq(prove(T, k))
  BY CollectIs, CollectSteps, SeqOne DEF prove

-----------------------------------------------------------------------------
(* The tries in question *)

LEMMA ProvedWhole ==
    ASSUME NEW S \in Backings
    PROVE  Whole(S) /\ Bounded(S)
  BY ProofBackingsAssumption, FiniteBounded DEF Whole, Typed

LEMMA WholeWalkable ==
    ASSUME NEW T, NEW H, Typed(T, H), WellFormed(T), Bounded(T)
    PROVE  Walkable(T) /\ (T = Null \/ <<>> \in DOMAIN T)
  BY TypedPaths DEF Walkable, WellFormed, WellFormedBut, SkipsLead, Connected

(* An encoding keeps every node but a Fork whose value is empty.            *)
LEMMA EncodedFields ==
    ASSUME NEW S
    PROVE  /\ DOMAIN Encoded(S) = DOMAIN S
           /\ Encoded(S) = [p \in DOMAIN S |-> Encoded(S)[p]]
           /\ \A p \in DOMAIN S :
                 /\ S[p].type # "fork" => Encoded(S)[p] = S[p]
                 /\ S[p].type = "fork" =>
                       /\ Encoded(S)[p].type = "fork"
                       /\ S[p].value \in Empty => Encoded(S)[p] = Fork(NoValue)
                       /\ S[p].value \notin Empty => Encoded(S)[p] = S[p]
  BY DEF Encoded, Is, Fork

LEMMA EncodedTypes ==
    ASSUME NEW S, Whole(S)
    PROVE  /\ Paths(Encoded(S))
           /\ \A p \in DOMAIN S :
                 /\ Encoded(S)[p].type = S[p].type
                 /\ S[p].type = "skip" => Encoded(S)[p].path = S[p].path
  BY EncodedFields, WholeTypes, NodeTypes DEF Paths, Whole, Typed

LEMMA EncodedSubtree ==
    ASSUME NEW S, Whole(S), NEW p \in Path
    PROVE  Subtree(Encoded(S), p) = Encoded(Subtree(S, p))
<1>. DEFINE E == Encoded(S)
            A == Subtree(E, p)
            B == Encoded(Subtree(S, p))
<1>1. DOMAIN S \subseteq Path /\ DOMAIN E = DOMAIN S
  BY EncodedFields DEF Whole, Typed
<1>. HIDE DEF E
<1>2. /\ DOMAIN A \subseteq Path
      /\ \A r \in Path : r \in DOMAIN A <=> p \o r \in DOMAIN S
      /\ \A r \in DOMAIN A : A[r] = E[p \o r]
  BY <1>1, SubtreeDomain
<1>3. /\ DOMAIN Subtree(S, p) \subseteq Path
      /\ \A r \in Path : r \in DOMAIN Subtree(S, p) <=> p \o r \in DOMAIN S
      /\ \A r \in DOMAIN Subtree(S, p) : Subtree(S, p)[r] = S[p \o r]
  BY <1>1, SubtreeDomain
<1>4. DOMAIN A = DOMAIN Subtree(S, p) /\ DOMAIN B = DOMAIN Subtree(S, p)
  BY <1>2, <1>3, EncodedFields
<1>5. ASSUME NEW r \in DOMAIN A
      PROVE  A[r] = B[r]
  <2>1. Subtree(S, p)[r] = S[p \o r] /\ A[r] = E[p \o r] /\ p \o r \in DOMAIN S
    BY <1>2, <1>3, <1>4
  <2>2. E[p \o r] = IF Is(S, p \o r, "fork") /\ S[p \o r].value \in Empty THEN Fork(NoValue)
                    ELSE S[p \o r]
    BY <2>1 DEF E, Encoded
  <2>3. B[r] = IF Is(Subtree(S, p), r, "fork") /\ Subtree(S, p)[r].value \in Empty
               THEN Fork(NoValue) ELSE Subtree(S, p)[r]
    BY <1>4 DEF Encoded
  <2>. QED
    BY <1>4, <2>1, <2>2, <2>3 DEF Is
<1>6. A = [r \in DOMAIN A |-> A[r]] /\ B = [r \in DOMAIN B |-> B[r]]
  BY DEF Subtree, Encoded
<1>. HIDE DEF A, B
<1>7. A = B
  BY <1>4, <1>5, <1>6
<1>. QED
  BY <1>7 DEF A, B, E

-----------------------------------------------------------------------------
(* Lengths: a value without bytes takes as many as no value.                *)

LEMMA LenIs ==
    ASSUME NEW S
    PROVE  rlp_len(S) = (CHOOSE f : f = [p \in DOMAIN S |-> node_len(S, f, p)])[<<>>]
  BY DEF rlp_len

LEMMA EncodedLen ==
    ASSUME NEW S, Whole(S)
    PROVE  rlp_len(Encoded(S)) = rlp_len(S)
<1>. DEFINE E == Encoded(S)
            D == DOMAIN S
<1>1. DOMAIN E = D
  BY EncodedFields
<1>2. ASSUME NEW p \in D, NEW f
      PROVE  node_len(E, f, p) = node_len(S, f, p)
  <2>. DEFINE slots == [n \in Nibble |-> IF Append(p, n) \in D
                                         THEN RefLen(f[Append(p, n)])
                                         ELSE 1]
  <2>1. S[p].type \in {"leaf", "skip", "fork"}
    BY WholeTypes, NodeTypes DEF Whole
  <2>2. CASE S[p].type # "fork" \/ S[p].value \notin Empty
    <3>1. E[p] = S[p]
      BY <2>1, <2>2, EncodedFields
    <3>. HIDE DEF E
    <3>. QED
      BY <1>1, <3>1 DEF node_len
  <2>3. CASE S[p].type = "fork" /\ S[p].value \in Empty
    <3>1. E[p].type = "fork" /\ E[p].value = NoValue
      BY <2>3, EncodedFields DEF Fork
    <3>2. S[p].value # NoValue /\ ValueLen[S[p].value] = 1
      BY <2>3, EmptyAssumption, NoValueAssumption
    <3>. HIDE DEF E
    <3>3. node_len(E, f, p) = ListLen(Total(slots) + 1)
      BY <1>1, <3>1 DEF node_len
    <3>4. node_len(S, f, p) = ListLen(Total(slots) + 1)
      BY <2>3, <3>2 DEF node_len
    <3>. QED
      BY <3>3, <3>4
  <2>. QED
    BY <2>2, <2>3
<1>. HIDE DEF E, D
<1>3. \A f : [p \in D |-> node_len(E, f, p)] = [p \in D |-> node_len(S, f, p)]
  BY <1>2
<1>4. \A f : f = [p \in D |-> node_len(E, f, p)] <=> f = [p \in D |-> node_len(S, f, p)]
  BY <1>3
<1>5. (CHOOSE f : f = [p \in D |-> node_len(E, f, p)])
         = (CHOOSE f : f = [p \in D |-> node_len(S, f, p)])
  BY <1>4, Zenon
<1>6. rlp_len(E) = (CHOOSE f : f = [p \in D |-> node_len(E, f, p)])[<<>>]
  BY <1>1, LenIs
<1>7. rlp_len(S) = (CHOOSE f : f = [p \in D |-> node_len(S, f, p)])[<<>>]
  BY LenIs DEF D
<1>. QED
  BY <1>5, <1>6, <1>7 DEF E

-----------------------------------------------------------------------------
(* The one proof *)

(* What the prover puts out for the node at p of a complete trie, and what  *)
(* the verifier sees there.                                                 *)
LEMMA ProvedNode ==
    ASSUME NEW S, Whole(S), NEW p \in DOMAIN S
    PROVE  LET node == Subtree(Encoded(S), p)
           IN  /\ Entry(S, p) = IF p = <<>> \/ rlp_len(node) >= 32 THEN One(node) ELSE <<>>
               /\ <<>> \in DOMAIN node /\ node[<<>>] = Encoded(S)[p]
               /\ p = <<>> => node = Encoded(S)
<1>. DEFINE node == Subtree(Encoded(S), p)
            U == Subtree(S, p)
<1>1. p \in Path /\ node = Encoded(U) /\ Whole(U) /\ <<>> \in DOMAIN U /\ U[<<>>] = S[p]
  BY EncodedSubtree, SubtreeWhole, WholeTypes
<1>2. Expand(U) = U /\ ~Is(U, <<>>, "stub") /\ ~Is(S, p, "stub")
  BY <1>1, WholeExpand, WholeTypes DEF Is
<1>3. encode_node(S, p) = node /\ enc_len(S, p) = rlp_len(node)
  <2>1. rlp_len(node) = rlp_len(U)
    BY <1>1, EncodedLen
  <2>. HIDE DEF node, U
  <2>2. encode_node(S, p) = Encoded(U) /\ enc_len(S, p) = rlp_len(U)
    BY <1>2 DEF encode_node, enc_len, trie_hash, node_root, U
  <2>. QED
    BY <1>1, <2>1, <2>2
<1>4. <<>> \in DOMAIN node /\ node[<<>>] = Encoded(S)[p]
  <2>1. DOMAIN Encoded(S) = DOMAIN S /\ DOMAIN S \subseteq Path /\ p \o <<>> = p /\ <<>> \in Path
    BY <1>1, EncodedFields, ConcatEmpty, EmptyPath DEF Whole, Typed
  <2>2. /\ \A r \in Path : r \in DOMAIN node <=> p \o r \in DOMAIN S
        /\ \A r \in DOMAIN node : node[r] = Encoded(S)[p \o r]
    BY <1>1, <2>1, SubtreeDomain
  <2>. HIDE DEF node
  <2>. QED
    BY <2>1, <2>2
<1>5. p = <<>> => node = Encoded(S)
  BY <1>1, WholeSubtree
<1>. HIDE DEF node
<1>6. Entry(S, p) = IF p = <<>> \/ rlp_len(node) >= 32 THEN One(node) ELSE <<>>
  BY <1>3 DEF Entry, One
<1>. QED
  BY <1>4, <1>5, <1>6 DEF node

(* Where the walk for k goes on from p, when `rest` of k is left there.     *)
LEMMA OnwardCases ==
    ASSUME NEW S, Whole(S), NEW p \in DOMAIN S, NEW rest \in Path, NEW k, k = p \o rest
    PROVE  /\ S[p].type = "leaf" => Onward(S, k, p) = {}
           /\ S[p].type = "fork" /\ rest = <<>> => Onward(S, k, p) = {}
           /\ S[p].type = "fork" /\ rest # <<>> =>
                 Onward(S, k, p) = {Append(p, Head(rest))} \cap DOMAIN S
           /\ S[p].type = "skip" /\ ~starts_with(rest, S[p].path) => Onward(S, k, p) = {}
           /\ S[p].type = "skip" /\ starts_with(rest, S[p].path) =>
                 Onward(S, k, p) = {p \o S[p].path} /\ p \o S[p].path \in DOMAIN S
<1>1. p \in Path /\ k \in Path /\ \A c \in DOMAIN S : c \in Path
  BY PrefixConcat DEF Whole, Typed
<1>2. CASE S[p].type = "leaf"
  BY <1>2 DEF Onward, IsParent, Is
<1>3. CASE S[p].type = "fork" /\ rest = <<>>
  <2>1. k = p
    BY <1>1, <1>3, ConcatEmpty
  <2>2. \A n \in Nibble : ~starts_with(k, Append(p, n))
    BY <1>1, <2>1, AppendPath
  <2>. QED
    BY <1>3, <2>2 DEF Onward, IsParent, Is
<1>4. CASE S[p].type = "fork" /\ rest # <<>>
  <2>1. /\ Head(rest) \in Nibble /\ Append(p, Head(rest)) \in Path
        /\ starts_with(k, Append(p, Head(rest)))
    <3>1. /\ Head(rest) \in Nibble /\ Tail(rest) \in Path /\ Append(p, Head(rest)) \in Path
          /\ Append(p, Head(rest)) \o Tail(rest) = k
      BY <1>1, <1>4, HeadTail
    <3>2. starts_with(Append(p, Head(rest)) \o Tail(rest), Append(p, Head(rest)))
      BY <3>1, PrefixConcat
    <3>. QED
      BY <3>1, <3>2
  <2>2. \A n \in Nibble : starts_with(k, Append(p, n)) => n = Head(rest)
    BY <1>1, <2>1, AppendApart
  <2>. QED
    BY <1>4, <2>1, <2>2 DEF Onward, IsParent, Is
<1>5. CASE S[p].type = "skip"
  <2>1. S[p].path \in Path
    BY <1>5, NodeTypes DEF Whole
  <2>2. starts_with(k, p \o S[p].path) <=> starts_with(rest, S[p].path)
    BY <1>1, <2>1, PrefixUnderConcat
  <2>3. p \o S[p].path \in DOMAIN S
    BY <1>5 DEF Whole, WellFormed, WellFormedBut, SkipsLead, ForkAt, Is
  <2>. QED
    BY <1>5, <2>2, <2>3 DEF Onward, IsParent, Is
<1>. QED
  BY <1>2, <1>3, <1>4, <1>5

-----------------------------------------------------------------------------
(* The verifier *)

Truth ==
    \/ result.answer = Lookup(backing, key)
    \/ /\ Lookup(backing, key) \in Empty
       /\ Is(backing, key, "fork")
       /\ result.answer = NoValue

TheProof == prove(backing, key)

Rest(p) == After(backing, key, Collected(backing, key), p)

(* The walk is at p, and the nodes it has consumed are those that the one   *)
(* proof has up to there.                                                   *)
Here(p) ==
    /\ p \in DOMAIN backing
    /\ current = Subtree(root, p)
    /\ suffix \in Path
    /\ key = p \o suffix
    /\ TheProof = Take(proof, cursor) \o Rest(p)

(* What each verdict says of the proof.                                     *)
Verdict ==
    /\ result.status = "ok" => Truth /\ proof = TheProof
    /\ result.status # "ok" => proof # TheProof
    /\ result.status = "Truncated" =>
          Len(proof) < Len(TheProof) /\ proof = Take(TheProof, Len(proof))
    /\ result.status = "TrailingNodes" =>
          Len(proof) > Len(TheProof) /\ TheProof = Take(proof, Len(TheProof))

VInv ==
    /\ backing \in Backings /\ key \in Path
    /\ IsSeq(proof) /\ cursor \in 0..Len(proof)
    /\ pc \in {"start", "walk", "end", "done"}
    /\ pc = "start" => suffix = key /\ cursor = 0 /\ result.status = "none"
    /\ pc = "walk" => \/ /\ backing = Null /\ current = Null
                         /\ suffix = key /\ proof # <<>>
                      \/ \E p : Here(p)
    /\ pc = "end" => /\ result.status = "ok" /\ Truth
                     /\ TheProof = Take(proof, cursor)
    /\ pc = "done" => Verdict

LEMMA RootIs ==
    ASSUME backing \in Backings
    PROVE  /\ Whole(backing) /\ Bounded(backing) /\ Walkable(backing)
           /\ root = Encoded(backing) /\ DOMAIN root = DOMAIN backing
           /\ IsSeq(TheProof)
           /\ backing = Null \/ <<>> \in DOMAIN backing
<1>1. Whole(backing) /\ Bounded(backing)
  BY ProvedWhole
<1>2. Walkable(backing) /\ (backing = Null \/ <<>> \in DOMAIN backing)
  BY <1>1, WholeWalkable DEF Whole
<1>3. root = Encoded(backing)
  BY <1>1, WholeExpand DEF root, node_root
<1>. QED
  BY <1>1, <1>2, <1>3, EncodedFields, ProveSeq DEF TheProof

(* The proof starts with the root's node.                                   *)
LEMMA ProofStarts ==
    ASSUME backing \in Backings
    PROVE  /\ backing = Null => TheProof = <<>> /\ root = Null
           /\ backing # Null => /\ root # Null /\ <<>> \in DOMAIN backing
                                /\ TheProof = One(root) \o Rest(<<>>)
           /\ \A p \in DOMAIN backing : IsSeq(Rest(p))
<1>1. ASSUME backing = Null
      PROVE  TheProof = <<>> /\ root = Null
  <2>1. root = Encoded(Null)
    BY <1>1, RootIs
  <2>2. Encoded(Null) = Null
    BY DEF Encoded, Null
  <2>. QED
    BY <1>1, <2>1, <2>2 DEF TheProof, prove
<1>2. ASSUME backing # Null
      PROVE  /\ root # Null /\ <<>> \in DOMAIN backing
             /\ TheProof = One(root) \o Rest(<<>>)
  <2>1. <<>> \in DOMAIN backing /\ Whole(backing) /\ Walkable(backing) /\ root = Encoded(backing)
        /\ DOMAIN root = DOMAIN backing
    BY <1>2, RootIs
  <2>2. root # Null
    BY <2>1 DEF Null
  <2>3. Entry(backing, <<>>) = One(root)
    BY <2>1, ProvedNode
  <2>4. TheProof = Collected(backing, key)[<<>>]
    BY <1>2, CollectIs DEF TheProof, prove
  <2>5. Collected(backing, key)[<<>>] = Entry(backing, <<>>) \o Rest(<<>>)
    BY <2>1, CollectSteps DEF Rest
  <2>. QED
    BY <2>1, <2>2, <2>3, <2>4, <2>5
<1>3. \A p \in DOMAIN backing : IsSeq(Rest(p))
  BY RootIs, CollectSteps DEF Rest
<1>. QED
  BY <1>1, <1>2, <1>3

LEMMA InitVerifier == Init => VInv
<1>. SUFFICES ASSUME Init PROVE VInv
  OBVIOUS
<1>1. backing \in Backings /\ key \in Path /\ Whole(backing) /\ Bounded(backing)
  BY ProofKeysAssumption, RootIs DEF Init
<1>2. IsSeq(proof)
  <2>1. CASE proof = prove(trie, key)
    <3>1. PICK nodes : trie = build_partial(nodes, backing)
      BY DEF Init
    <3>2. Fits(trie, backing) /\ Bounded(trie)
      BY <1>1, <3>1, BuiltFits
    <3>3. Walkable(trie) /\ (trie = Null \/ <<>> \in DOMAIN trie)
      BY <3>2, WholeWalkable DEF Fits
    <3>. QED
      BY <2>1, <3>3, ProveSeq
  <2>2. CASE Altered(TheProof)
    <3>1. PICK i \in 0..Len(TheProof), j \in 0..Len(TheProof), spurious \in Spurious :
             proof = Take(TheProof, i) \o spurious \o Drop(TheProof, j)
      BY <2>2 DEF Altered
    <3>2. IsSeq(spurious)
      <4>1. PICK n \in 0..MaxSpurious : spurious \in [1..n -> Entries]
        BY DEF Spurious
      <4>2. n \in Nat
        BY MaxSpuriousAssumption
      <4>3. spurious \in Seq(Entries)
        BY <4>1, <4>2
      <4>. QED
        BY <4>3 DEF IsSeq
    <3>3. IsSeq(Take(TheProof, i)) /\ IsSeq(Drop(TheProof, j))
      BY <1>1, RootIs, SeqSlices
    <3>4. IsSeq(Take(TheProof, i) \o spurious)
      BY <3>2, <3>3, SeqConcat
    <3>. QED
      BY <3>1, <3>3, <3>4, SeqConcat
  <2>. QED
    BY <2>1, <2>2 DEF Init, TheProof
<1>3. Len(proof) \in Nat
  BY <1>2, LenProperties DEF IsSeq
<1>. QED
  BY <1>1, <1>2, <1>3 DEF Init, VInv, Err

-----------------------------------------------------------------------------
(* Each kind of step *)

(* What the verifier was given stays, and so does all that follows from it. *)
LEMMA GivenStays ==
    ASSUME UNCHANGED Given
    PROVE  /\ backing' = backing /\ key' = key /\ proof' = proof /\ trie' = trie
           /\ root' = root /\ TheProof' = TheProof
           /\ \A p : Rest(p)' = Rest(p)
  BY DEF Given, root, TheProof, Rest

LEMMA RefuseStep ==
    ASSUME VInv, NEW why, Refuse(why), why # "ok", proof # TheProof,
           why = "Truncated" => Len(proof) < Len(TheProof) /\ proof = Take(TheProof, Len(proof)),
           why = "TrailingNodes" =>
              Len(proof) > Len(TheProof) /\ TheProof = Take(proof, Len(TheProof))
    PROVE  VInv'
<1>1. UNCHANGED Given /\ result'.status = why /\ pc' = "done" /\ cursor' = cursor
  BY DEF Refuse, Err
<1>2. Verdict'
  BY <1>1, GivenStays DEF Verdict
<1>. QED
  BY <1>1, <1>2, GivenStays DEF VInv

LEMMA BreakStep ==
    ASSUME VInv, NEW p, Here(p), NEW value, Break(value), Rest(p) = <<>>,
           \/ value = Lookup(backing, key)
           \/ /\ Lookup(backing, key) \in Empty
              /\ Is(backing, key, "fork")
              /\ value = NoValue
    PROVE  VInv'
<1>1. UNCHANGED Given /\ result'.status = "ok" /\ result'.answer = value /\ pc' = "end"
      /\ cursor' = cursor
  BY DEF Break, Absent, Some
<1>2. Truth'
  BY <1>1, GivenStays DEF Truth
<1>3. TheProof = Take(proof, cursor)
  <2>1. IsSeq(Take(proof, cursor))
    BY SeqSlices DEF VInv
  <2>. QED
    BY <2>1, SeqNone DEF Here
<1>. QED
  BY <1>1, <1>2, <1>3, GivenStays DEF VInv

(* The walk goes on to the one child that the prover went on to.            *)
LEMMA ResolveStep ==
    ASSUME VInv, pc = "walk", NEW p, Here(p), NEW c \in Path, NEW rest \in Path,
           suffix = c \o rest, p \o c \in DOMAIN backing, p \o c # <<>>,
           Onward(backing, key, p) = {p \o c}, resolve(c, rest)
    PROVE  VInv'
<1>. DEFINE q == p \o c
            child == Subtree(current, c)
            hashed == rlp_len(child) >= 32
            f == Collected(backing, key)
<1>1. backing \in Backings /\ p \in DOMAIN backing /\ p \in Path /\ q \in Path
      /\ DOMAIN root = DOMAIN backing /\ DOMAIN backing \subseteq Path
  BY RootIs, PrefixConcat DEF VInv, Here, Whole, Typed
<1>2. child = Subtree(root, q)
  <2>1. current = Subtree(root, p)
    BY DEF Here
  <2>2. DOMAIN root \subseteq Path
    BY <1>1
  <2>. HIDE DEF root
  <2>3. Subtree(Subtree(root, p), c) = Subtree(root, p \o c)
    BY <1>1, <2>2, SubtreeSubtree, Zenon
  <2>. QED
    BY <2>1, <2>3
<1>3. Entry(backing, q) = IF hashed THEN One(child) ELSE <<>>
  <2>1. Entry(backing, q) = IF q = <<>> \/ rlp_len(Subtree(root, q)) >= 32
                            THEN One(Subtree(root, q)) ELSE <<>>
    BY <1>1, RootIs, ProvedNode
  <2>. QED
    BY <1>1, <1>2, <2>1
<1>4. Rest(p) = Entry(backing, q) \o Rest(q) /\ IsSeq(Rest(q))
  <2>1. Rest(p) = f[q]
    BY DEF Rest, After
  <2>2. f[q] = Entry(backing, q) \o Rest(q) /\ IsSeq(Rest(q))
    BY <1>1, RootIs, CollectSteps DEF Rest
  <2>. QED
    BY <2>1, <2>2
<1>5. key = q \o rest
  <2>1. key = p \o (c \o rest)
    BY DEF Here
  <2>2. p \o (c \o rest) = (p \o c) \o rest
    BY <1>1, ConcatAssoc
  <2>. QED
    BY <2>1, <2>2
<1>6. IsSeq(proof) /\ cursor \in 0..Len(proof) /\ Len(proof) \in Nat
  BY LenProperties DEF VInv, IsSeq
<1>7. TheProof = Take(proof, cursor) \o Rest(p)
  BY DEF Here
<1>. HIDE DEF child, q, f
<1>8. CASE hashed /\ cursor = Len(proof)
  <2>1. Refuse("Truncated")
    BY <1>8 DEF resolve, child
  <2>2. TheProof = proof \o (One(child) \o Rest(q))
    BY <1>3, <1>4, <1>6, <1>7, <1>8, SeqSlices
  <2>3. Len(proof) < Len(TheProof) /\ proof = Take(TheProof, Len(proof))
    BY <1>4, <1>6, <2>2, Ahead
  <2>4. proof # TheProof
    BY <1>6, <2>3
  <2>. QED
    BY <2>1, <2>3, <2>4, RefuseStep
<1>9. CASE hashed /\ cursor # Len(proof) /\ proof[cursor + 1] # child
  <2>1. Refuse("HashMismatch")
    BY <1>9 DEF resolve, child
  <2>2. TheProof = Line(proof, cursor, child, Rest(q))
    BY <1>3, <1>4, <1>7, <1>9 DEF Line
  <2>3. cursor \in Nat /\ cursor < Len(proof)
    BY <1>6, <1>9
  <2>4. proof # Line(proof, cursor, child, Rest(q))
    <3>1. IsSeq(proof) /\ IsSeq(Rest(q))
      BY <1>4, <1>6
    <3>. QED
      BY <1>9, <2>3, <3>1, ConsumeNext
  <2>5. proof # TheProof
    BY <2>2, <2>4
  <2>. QED
    BY <2>1, <2>5, RefuseStep
<1>10. CASE ~hashed \/ (cursor # Len(proof) /\ proof[cursor + 1] = child)
  <2>1. /\ current' = child /\ suffix' = rest
        /\ cursor' = IF hashed THEN cursor + 1 ELSE cursor
        /\ UNCHANGED <<Given, pc, result>>
    BY <1>10 DEF resolve, child
  <2>2. TheProof = Take(proof, cursor') \o Rest(q)
    <3>1. CASE ~hashed
      BY <1>3, <1>4, <1>7, <2>1, <3>1, SeqNone
    <3>2. CASE hashed
      <4>1. TheProof = Line(proof, cursor, proof[cursor + 1], Rest(q))
        BY <1>3, <1>4, <1>7, <1>10, <3>2 DEF Line
      <4>2. cursor \in Nat /\ cursor < Len(proof)
        BY <1>6, <1>10, <3>2
      <4>3. Line(proof, cursor, proof[cursor + 1], Rest(q))
               = Take(proof, cursor + 1) \o Rest(q)
        <5>1. IsSeq(proof) /\ IsSeq(Rest(q))
          BY <1>4, <1>6
        <5>. QED
          BY <4>2, <5>1, Consume
      <4>. QED
        BY <2>1, <3>2, <4>1, <4>3
    <3>. QED
      BY <3>1, <3>2
  <2>3. cursor' \in 0..Len(proof)
    BY <1>6, <1>10, <2>1
  <2>4. Here(q)'
    BY <1>1, <1>2, <1>5, <2>1, <2>2, GivenStays DEF Here, q
  <2>5. UNCHANGED Given /\ pc' = "walk"
    BY <2>1
  <2>. QED
    BY <2>3, <2>4, <2>5, GivenStays DEF VInv
<1>. QED
  BY <1>8, <1>9, <1>10

-----------------------------------------------------------------------------
(* What the walk finds                                                      *)

LEMMA LookupIs ==
    ASSUME NEW S, Whole(S), NEW k
    PROVE  /\ Solid(S, {})
           /\ \A v : Binds(S, k, v) => Lookup(S, k) = v
           /\ (\A v : ~Binds(S, k, v)) => Lookup(S, k) = NoValue
<1>1. Solid(S, {})
  BY DEF Solid, Whole, WellFormed, WellFormedBut
<1>2. Bindings(S) = Contents(S)
  BY WholeExpand DEF Bindings
<1>3. \A v : Binds(S, k, v) <=> k \in DOMAIN Contents(S) /\ v = Contents(S)[k]
  BY <1>1, <1>2, BindingsBind
<1>. QED
  BY <1>1, <1>3 DEF Lookup

(* The node at hand is that of the trie, but for a value without bytes.     *)
LEMMA AtHere ==
    ASSUME VInv, NEW type, At(type)
    PROVE  \E p \in DOMAIN backing :
              /\ Here(p) /\ p \in Path /\ backing[p].type = type
              /\ type = "leaf" => current[<<>>] = backing[p]
              /\ type = "skip" => current[<<>>].path = backing[p].path
              /\ type = "fork" =>
                    /\ current[<<>>].value = IF backing[p].value \in Empty THEN NoValue
                                             ELSE backing[p].value
                    /\ \A n \in Nibble :
                          n \in Children(current, <<>>) <=> Append(p, n) \in DOMAIN backing
<1>1. pc = "walk" /\ <<>> \in DOMAIN current /\ current[<<>>].type = type
  BY DEF At, Is
<1>2. current # Null
  BY <1>1 DEF Null
<1>3. PICK p : Here(p)
  BY <1>1, <1>2 DEF VInv
<1>4. /\ p \in DOMAIN backing /\ p \in Path /\ Whole(backing) /\ root = Encoded(backing)
      /\ DOMAIN root = DOMAIN backing /\ DOMAIN backing \subseteq Path
  BY <1>3, RootIs DEF Here, VInv, Whole, Typed
<1>5. current = Subtree(root, p) /\ current[<<>>] = root[p]
  BY <1>3, <1>4, ProvedNode DEF Here
<1>6. backing[p].type = type
  BY <1>1, <1>4, <1>5, EncodedTypes
<1>7. type = "leaf" => current[<<>>] = backing[p]
  BY <1>4, <1>5, <1>6, EncodedFields
<1>8. type = "skip" => current[<<>>].path = backing[p].path
  BY <1>4, <1>5, <1>6, EncodedFields
<1>9. ASSUME type = "fork"
      PROVE  current[<<>>].value = IF backing[p].value \in Empty THEN NoValue
                                   ELSE backing[p].value
  BY <1>4, <1>5, <1>6, <1>9, EncodedFields DEF Fork
<1>10. ASSUME NEW n \in Nibble
       PROVE  n \in Children(current, <<>>) <=> Append(p, n) \in DOMAIN backing
  <2>1. <<n>> \in Path /\ Append(<<>>, n) = <<n>> /\ p \o <<n>> = Append(p, n)
    BY <1>4, AppendPath DEF Path
  <2>2. <<n>> \in DOMAIN current <=> p \o <<n>> \in DOMAIN root
    BY <1>4, <1>5, <2>1, SubtreeDomain
  <2>. QED
    BY <1>4, <2>1, <2>2 DEF Children
<1>. QED
  BY <1>3, <1>4, <1>6, <1>7, <1>8, <1>9, <1>10

(* The walk that goes no further has found what the trie says of the key.   *)
LEMMA EndsAt ==
    ASSUME VInv, NEW p, Here(p), Onward(backing, key, p) = {}
    PROVE  Rest(p) = <<>>
  BY DEF Rest, After

LEMMA ForkValueEnds == ASSUME VInv, ForkValue PROVE VInv'
<1>1. PICK p \in DOMAIN backing :
         /\ Here(p) /\ p \in Path /\ backing[p].type = "fork"
         /\ current[<<>>].value = IF backing[p].value \in Empty THEN NoValue
                                  ELSE backing[p].value
  BY AtHere DEF ForkValue
<1>2. Whole(backing) /\ Solid(backing, {}) /\ suffix = <<>> /\ key = p
  BY <1>1, RootIs, LookupIs, ConcatEmpty DEF ForkValue, Here, VInv
<1>3. Lookup(backing, key) = backing[p].value
  <2>1. CASE backing[p].value = NoValue
    <3>1. \A v : ~Yields(p, backing[p], key, v)
      BY <1>1, <2>1, TypeYields
    <3>2. \A v : ~Binds(backing, key, v)
      BY <1>1, <1>2, <3>1, ForkAlone, BindsSplit
    <3>. QED
      BY <1>2, <2>1, <3>2, LookupIs
  <2>2. CASE backing[p].value # NoValue
    <3>1. Binds(backing, key, backing[p].value)
      BY <1>1, <1>2, <2>2, TypeYields DEF Binds
    <3>. QED
      BY <1>2, <3>1, LookupIs
  <2>. QED
    BY <2>1, <2>2
<1>4. Rest(p) = <<>>
  <2>1. Onward(backing, key, p) = {}
    BY <1>1, <1>2, OnwardCases DEF Here
  <2>. QED
    BY <1>1, <2>1, EndsAt
<1>5. Break(current[<<>>].value)
  BY DEF ForkValue
<1>6. Is(backing, key, "fork")
  BY <1>1, <1>2 DEF Is
<1>. QED
  BY <1>1, <1>3, <1>4, <1>5, <1>6, BreakStep

LEMMA ForkEmptySlotEnds == ASSUME VInv, ForkEmptySlot PROVE VInv'
<1>1. PICK p \in DOMAIN backing :
         /\ Here(p) /\ p \in Path /\ backing[p].type = "fork"
         /\ \A n \in Nibble : n \in Children(current, <<>>) <=> Append(p, n) \in DOMAIN backing
  BY AtHere DEF ForkEmptySlot
<1>2. /\ Whole(backing) /\ Solid(backing, {}) /\ suffix # <<>> /\ suffix \in Path
      /\ key = p \o suffix /\ Head(suffix) \in Nibble
      /\ Head(suffix) \notin Children(backing, p) /\ Append(p, Head(suffix)) \notin DOMAIN backing
  <2>1. suffix # <<>> /\ suffix \in Path /\ key = p \o suffix /\ Head(suffix) \in Nibble
    BY <1>1, HeadTail DEF ForkEmptySlot, Here
  <2>2. Append(p, Head(suffix)) \notin DOMAIN backing
    BY <1>1, <2>1 DEF ForkEmptySlot
  <2>. QED
    BY <2>1, <2>2, RootIs, LookupIs DEF VInv, Children
<1>3. Lookup(backing, key) = NoValue
  BY <1>1, <1>2, ForkAbsent, LookupIs
<1>4. Rest(p) = <<>>
  <2>1. Onward(backing, key, p) = {}
    <3>1. Onward(backing, key, p) = {Append(p, Head(suffix))} \cap DOMAIN backing
      BY <1>1, <1>2, OnwardCases
    <3>. QED
      BY <1>2, <3>1
  <2>. QED
    BY <1>1, <2>1, EndsAt
<1>. QED
  BY <1>1, <1>3, <1>4, BreakStep DEF ForkEmptySlot

LEMMA LeafEndsHere == ASSUME VInv, LeafEnds PROVE VInv'
<1>1. PICK p \in DOMAIN backing :
         /\ Here(p) /\ p \in Path /\ backing[p].type = "leaf" /\ current[<<>>] = backing[p]
  BY AtHere DEF LeafEnds
<1>2. /\ Whole(backing) /\ Solid(backing, {}) /\ suffix \in Path /\ key \in Path
      /\ key = p \o suffix /\ starts_with(key, p) /\ backing[p].path \in Path
  <2>1. Whole(backing) /\ Solid(backing, {})
    BY RootIs, LookupIs DEF VInv
  <2>. QED
    BY <1>1, <2>1, NodeTypes, PrefixConcat DEF Here, Whole, VInv
<1>3. Lookup(backing, key) = IF suffix = backing[p].path THEN backing[p].value ELSE NoValue
  <2>1. CASE suffix = backing[p].path
    <3>1. key = p \o backing[p].path
      BY <1>2, <2>1
    <3>2. Yields(p, backing[p], key, backing[p].value)
      BY <1>1, <3>1 DEF Yields, Gives
    <3>3. Binds(backing, key, backing[p].value)
      BY <1>1, <3>2 DEF Binds
    <3>. QED
      BY <1>2, <2>1, <3>3, LookupIs
  <2>2. CASE suffix # backing[p].path
    <3>1. p \o backing[p].path # key
      BY <1>1, <1>2, <2>2, ConcatCancel
    <3>2. \A v : ~Yields(p, backing[p], key, v)
      BY <1>1, <3>1, TypeYields
    <3>3. \A v : ~Binds(backing, key, v)
      BY <1>1, <1>2, <3>2, LeafAlone, BindsSplit
    <3>. QED
      BY <1>2, <2>2, <3>3, LookupIs
  <2>. QED
    BY <2>1, <2>2
<1>4. Rest(p) = <<>>
  <2>1. Onward(backing, key, p) = {}
    BY <1>1, <1>2, OnwardCases
  <2>. QED
    BY <1>1, <2>1, EndsAt
<1>5. Break(IF suffix = backing[p].path THEN backing[p].value ELSE NoValue)
  BY <1>1 DEF LeafEnds
<1>. QED
  BY <1>1, <1>3, <1>4, <1>5, BreakStep

LEMMA SkipDivergesHere == ASSUME VInv, SkipDiverges PROVE VInv'
<1>1. PICK p \in DOMAIN backing :
         /\ Here(p) /\ p \in Path /\ backing[p].type = "skip"
         /\ current[<<>>].path = backing[p].path
  BY AtHere DEF SkipDiverges
<1>2. /\ Whole(backing) /\ Solid(backing, {}) /\ suffix \in Path /\ key = p \o suffix
      /\ ~starts_with(suffix, backing[p].path)
  BY <1>1, RootIs, LookupIs DEF Here, VInv, SkipDiverges
<1>3. Lookup(backing, key) = NoValue
  BY <1>1, <1>2, SkipAbsent, LookupIs
<1>4. Rest(p) = <<>>
  <2>1. Onward(backing, key, p) = {}
    BY <1>1, <1>2, OnwardCases
  <2>. QED
    BY <1>1, <2>1, EndsAt
<1>. QED
  BY <1>1, <1>3, <1>4, BreakStep DEF SkipDiverges

LEMMA ForkChildGoesOn == ASSUME VInv, ForkChild PROVE VInv'
<1>1. PICK p \in DOMAIN backing :
         /\ Here(p) /\ p \in Path /\ backing[p].type = "fork"
         /\ \A n \in Nibble : n \in Children(current, <<>>) <=> Append(p, n) \in DOMAIN backing
  BY AtHere DEF ForkChild
<1>. DEFINE n == Head(suffix)
<1>2. /\ Whole(backing) /\ suffix # <<>> /\ suffix \in Path /\ key = p \o suffix
      /\ n \in Nibble /\ Tail(suffix) \in Path
  BY <1>1, RootIs, HeadTail DEF ForkChild, Here, VInv
<1>3. /\ <<n>> \in Path /\ suffix = <<n>> \o Tail(suffix) /\ p \o <<n>> = Append(p, n)
      /\ Append(p, n) \in DOMAIN backing /\ Append(p, n) # <<>>
  <2>1. <<n>> \in Path /\ suffix = <<n>> \o Tail(suffix) /\ p \o <<n>> = Append(p, n)
        /\ Append(p, n) # <<>>
    BY <1>1, <1>2 DEF Path
  <2>2. Append(p, n) \in DOMAIN backing
    BY <1>1, <1>2 DEF ForkChild
  <2>. QED
    BY <2>1, <2>2
<1>4. Onward(backing, key, p) = {Append(p, n)}
  <2>1. Onward(backing, key, p) = {Append(p, n)} \cap DOMAIN backing
    BY <1>1, <1>2, OnwardCases
  <2>. HIDE DEF n
  <2>. QED
    BY <1>3, <2>1
<1>5. resolve(<<n>>, Tail(suffix)) /\ pc = "walk"
  BY DEF ForkChild, At
<1>. HIDE DEF n
<1>. QED
  BY <1>1, <1>2, <1>3, <1>4, <1>5, ResolveStep

LEMMA SkipChildGoesOn == ASSUME VInv, SkipChild PROVE VInv'
<1>1. PICK p \in DOMAIN backing :
         /\ Here(p) /\ p \in Path /\ backing[p].type = "skip"
         /\ current[<<>>].path = backing[p].path
  BY AtHere DEF SkipChild
<1>. DEFINE c == backing[p].path
            rest == Drop(suffix, Len(c))
<1>2. /\ Whole(backing) /\ suffix \in Path /\ key = p \o suffix /\ c \in Path /\ c # <<>>
      /\ starts_with(suffix, c)
  <2>1. Whole(backing) /\ suffix \in Path /\ key = p \o suffix /\ starts_with(suffix, c)
    BY <1>1, RootIs DEF SkipChild, Here, VInv
  <2>. QED
    BY <1>1, <2>1, NodeTypes DEF Whole, WellFormed, WellFormedBut, SkipsLead
<1>3. rest \in Path /\ suffix = c \o rest
  BY <1>2, PrefixSplit
<1>4. Onward(backing, key, p) = {p \o c} /\ p \o c \in DOMAIN backing
  BY <1>1, <1>2, OnwardCases
<1>5. p \o c # <<>>
  <2>1. Len(c) \in Nat /\ Len(c) # 0 /\ Len(p) \in Nat /\ Len(p \o c) = Len(p) + Len(c)
    BY <1>1, <1>2 DEF Path
  <2>. HIDE DEF c
  <2>. QED
    BY <2>1, EmptyPath
<1>6. resolve(c, rest) /\ pc = "walk"
  BY <1>1 DEF SkipChild, At
<1>. HIDE DEF c, rest
<1>. QED
  BY <1>1, <1>2, <1>3, <1>4, <1>5, <1>6, ResolveStep

-----------------------------------------------------------------------------
(* Where the proof begins and where it ends                                 *)

LEMMA EmptyProofInv == ASSUME VInv, EmptyProof PROVE VInv'
<1>1. /\ backing \in Backings /\ key \in Path /\ proof = <<>> /\ pc = "start"
      /\ Whole(backing)
  BY RootIs DEF VInv, EmptyProof
<1>2. CASE root = Null
  <2>1. backing = Null /\ TheProof = <<>>
    BY <1>1, <1>2, ProofStarts
  <2>2. result' = Absent /\ pc' = "done" /\ UNCHANGED <<Given, cursor>>
    BY <1>2 DEF EmptyProof
  <2>3. Lookup(backing, key) = NoValue
    <3>1. \A v : ~Binds(backing, key, v)
      BY <2>1 DEF Binds, Null
    <3>. QED
      BY <1>1, <3>1, LookupIs
  <2>4. Truth' /\ result'.status = "ok"
    BY <2>2, <2>3, GivenStays DEF Truth, Absent
  <2>5. Verdict'
    BY <1>1, <2>1, <2>2, <2>4, GivenStays DEF Verdict
  <2>. QED
    BY <2>2, <2>5, GivenStays DEF VInv
<1>3. CASE root # Null
  <2>1. Refuse("Truncated")
    BY <1>3 DEF EmptyProof
  <2>2. backing # Null /\ <<>> \in DOMAIN backing /\ TheProof = One(root) \o Rest(<<>>)
        /\ IsSeq(Rest(<<>>))
    BY <1>1, <1>3, ProofStarts
  <2>3. IsSeq(TheProof) /\ IsSeq(<<>>) /\ Len(<<>>) = 0
    BY <1>1, RootIs, SeqOne
  <2>4. IsSeq(One(root) \o Rest(<<>>)) /\ IsSeq(proof)
    BY <1>1, <2>2, <2>3
  <2>5. TheProof = proof \o (One(root) \o Rest(<<>>))
    BY <1>1, <2>2, <2>4, SeqNone
  <2>6. Len(proof) < Len(TheProof) /\ proof = Take(TheProof, Len(proof))
    <3>. DEFINE l == proof \o (One(root) \o Rest(<<>>))
    <3>1. Len(proof) < Len(l) /\ proof = Take(l, Len(proof))
      BY <2>2, <2>4, Ahead
    <3>. HIDE DEF l
    <3>2. TheProof = l
      BY <2>5 DEF l
    <3>. QED
      BY <3>1, <3>2
  <2>7. proof # TheProof
    BY <1>1, <2>3, <2>6
  <2>. QED
    BY <2>1, <2>6, <2>7, RefuseStep
<1>. QED
  BY <1>2, <1>3

LEMMA FirstInv == ASSUME VInv, First PROVE VInv'
<1>1. /\ backing \in Backings /\ key \in Path /\ proof # <<>> /\ pc = "start"
      /\ Whole(backing) /\ IsSeq(proof) /\ suffix = key
  BY RootIs DEF VInv, First
<1>2. Len(proof) \in Nat /\ Len(proof) > 0
  BY <1>1, LenProperties, EmptySeq DEF IsSeq
<1>3. CASE proof[1] # root
  <2>1. Refuse("HashMismatch")
    BY <1>3 DEF First
  <2>2. proof # TheProof
    <3>1. CASE backing = Null
      BY <1>1, <3>1, ProofStarts
    <3>2. CASE backing # Null
      <4>1. TheProof = One(root) \o Rest(<<>>) /\ IsSeq(Rest(<<>>))
        BY <1>1, <3>2, ProofStarts
      <4>2. IsSeq(One(root)) /\ Len(One(root)) = 1 /\ One(root)[1] = root
        BY SeqOne
      <4>3. 1 \in 1..(Len(One(root)) + Len(Rest(<<>>))) /\ 1 <= Len(One(root))
        <5>1. Len(Rest(<<>>)) \in Nat
          BY <4>1, <4>2, SeqConcat
        <5>. QED
          BY <4>2, <5>1
      <4>4. TheProof[1] = root
        BY <4>1, <4>2, <4>3, ConcatAt
      <4>. QED
        BY <1>3, <4>4
    <3>. QED
      BY <3>1, <3>2
  <2>. QED
    BY <2>1, <2>2, RefuseStep
<1>4. CASE proof[1] = root
  <2>1. /\ current' = root /\ cursor' = 1 /\ pc' = "walk" /\ suffix' = suffix
        /\ UNCHANGED Given
    BY <1>4 DEF First, Enter
  <2>2. 1 \in 0..Len(proof)
    BY <1>2
  <2>3. CASE backing = Null
    <3>1. root = Null
      BY <1>1, <2>3, ProofStarts
    <3>. QED
      BY <1>1, <2>1, <2>2, <2>3, <3>1, GivenStays DEF VInv
  <2>4. CASE backing # Null
    <3>1. <<>> \in DOMAIN backing /\ TheProof = One(root) \o Rest(<<>>)
      BY <1>1, <2>4, ProofStarts
    <3>2. Subtree(root, <<>>) = root
      BY <1>1, <3>1, ProvedNode, RootIs
    <3>3. Take(proof, 1) = One(root)
      <4>1. /\ IsSeq(Take(proof, 1)) /\ Len(Take(proof, 1)) = 1
            /\ \A i \in 1..1 : Take(proof, 1)[i] = proof[i]
        BY <1>1, <2>2, SeqSlices
      <4>2. IsSeq(One(root)) /\ Len(One(root)) = 1 /\ One(root)[1] = root
        BY SeqOne
      <4>3. \A i \in 1..1 : Take(proof, 1)[i] = One(root)[i]
        BY <1>4, <4>1, <4>2
      <4>. QED
        BY <4>1, <4>2, <4>3, SeqSame
    <3>4. key = <<>> \o key
      BY <1>1, ConcatEmpty
    <3>5. Here(<<>>)'
      BY <1>1, <2>1, <3>1, <3>2, <3>3, <3>4, GivenStays DEF Here
    <3>. QED
      BY <1>1, <2>1, <2>2, <3>5, GivenStays DEF VInv
  <2>. QED
    BY <2>3, <2>4
<1>. QED
  BY <1>3, <1>4

(* No node of the trie is malformed; 0x80 is, the root of the empty trie.   *)
LEMMA MalformedInv == ASSUME VInv, Malformed PROVE VInv'
<1>1. pc = "walk" /\ current = Null /\ backing \in Backings /\ Whole(backing)
  BY RootIs DEF VInv, Malformed
<1>2. \A p : ~Here(p)
  <2>1. ASSUME NEW p, Here(p)
        PROVE  FALSE
    <3>1. p \in DOMAIN backing /\ current = Subtree(Encoded(backing), p)
      BY <1>1, <2>1, RootIs DEF Here
    <3>2. <<>> \in DOMAIN current
      BY <1>1, <3>1, ProvedNode
    <3>. QED
      BY <1>1, <3>2 DEF Null
  <2>. QED
    BY <2>1
<1>3. backing = Null /\ proof # <<>>
  BY <1>1, <1>2 DEF VInv
<1>4. proof # TheProof
  BY <1>1, <1>3, ProofStarts
<1>. QED
  BY <1>4, RefuseStep DEF Malformed

LEMMA FinishInv == ASSUME VInv, Finish PROVE VInv'
<1>1. /\ IsSeq(proof) /\ cursor \in 0..Len(proof) /\ Len(proof) \in Nat
      /\ result.status = "ok" /\ Truth /\ TheProof = Take(proof, cursor)
  BY LenProperties DEF VInv, Finish, IsSeq
<1>2. CASE cursor # Len(proof)
  <2>1. Len(TheProof) = cursor /\ Len(proof) > cursor
    BY <1>1, <1>2, SeqSlices
  <2>2. proof # TheProof
    BY <2>1, <1>1
  <2>3. Refuse("TrailingNodes")
    BY <1>2 DEF Finish
  <2>. QED
    BY <1>1, <2>1, <2>2, <2>3, RefuseStep
<1>3. CASE cursor = Len(proof)
  <2>1. proof = TheProof
    BY <1>1, <1>3, SeqSlices
  <2>2. pc' = "done" /\ UNCHANGED <<Given, cursor, result>>
    BY <1>3 DEF Finish
  <2>3. Verdict'
    BY <1>1, <2>1, <2>2, GivenStays DEF Verdict, Truth
  <2>. QED
    BY <2>2, <2>3, GivenStays DEF VInv
<1>. QED
  BY <1>2, <1>3

LEMMA NextVerifier == VInv /\ [Next]_vars => VInv'
<1>. SUFFICES ASSUME VInv, [Next]_vars PROVE VInv'
  OBVIOUS
<1>1. CASE UNCHANGED vars
  BY <1>1, GivenStays DEF vars, Given, VInv, Here, Verdict, Truth
<1>2. CASE EmptyProof \/ First \/ Malformed \/ Finish
  BY <1>2, EmptyProofInv, FirstInv, MalformedInv, FinishInv
<1>3. CASE ForkValue \/ ForkEmptySlot \/ ForkChild
  BY <1>3, ForkValueEnds, ForkEmptySlotEnds, ForkChildGoesOn
<1>4. CASE LeafEnds \/ SkipDiverges \/ SkipChild
  BY <1>4, LeafEndsHere, SkipDivergesHere, SkipChildGoesOn
<1>5. CASE Decided
  BY <1>1, <1>5 DEF Decided
<1>. QED
  BY <1>1, <1>2, <1>3, <1>4, <1>5 DEF Next

LEMMA VerifierAlways == Spec => []VInv
  BY InitVerifier, NextVerifier, PTL DEF Spec

-----------------------------------------------------------------------------
(* What follows *)

(* Whatever node the verifier reads is one of the proved trie, at the place *)
(* that the part of the key it has used up leads to.                        *)
THEOREM VerifierTypeCorrect == Spec => []TypeOK
<1>1. ASSUME VInv
      PROVE  TypeOK
  <2>1. ASSUME pc = "walk"
        PROVE  \E p \in DOMAIN root \cup {<<>>} :
                  current = Subtree(root, p) /\ key = p \o suffix
    <3>1. CASE backing = Null /\ current = Null /\ suffix = key
      <4>1. root = Null /\ key \in Path
        BY <1>1, <3>1, ProofStarts DEF VInv
      <4>2. Subtree(Null, <<>>) = Null
        BY DEF Subtree, Null
      <4>3. key = <<>> \o suffix
        BY <3>1, <4>1, ConcatEmpty
      <4>. QED
        BY <3>1, <4>1, <4>2, <4>3
    <3>2. CASE \E p : Here(p)
      BY <1>1, <3>2, RootIs DEF Here, VInv
    <3>. QED
      BY <1>1, <2>1, <3>1, <3>2 DEF VInv
  <2>. QED
    BY <1>1, <2>1 DEF VInv, TypeOK
<1>. QED
  BY <1>1, VerifierAlways, PTL

(* An accepted proof gives what the trie with this root says of the key,    *)
(* whatever bytes were handed in.                                           *)
THEOREM AlwaysSound == Spec => []Sound
<1>1. VInv => Sound
  BY DEF VInv, Verdict, Truth, Sound, Accepted
<1>. QED
  BY <1>1, VerifierAlways, PTL

(* For a root and a key one proof is accepted, and it is the one that prove *)
(* puts out for the complete trie.                                          *)
THEOREM AlwaysOneProof == Spec => []OneProof
<1>1. VInv => OneProof
  BY DEF VInv, Verdict, OneProof, Accepted, TheProof
<1>. QED
  BY <1>1, VerifierAlways, PTL

(* What prove puts out for a complete trie is not refused: the verifier     *)
(* takes the same nodes for inlined ones and the same ends for absence.     *)
THEOREM AlwaysComplete == Spec => []Complete
<1>1. VInv => Complete
  BY DEF VInv, Verdict, Complete, TheProof
<1>. QED
  BY <1>1, VerifierAlways, PTL

(* Truncated and TrailingNodes say just how the proof differs from the one. *)
THEOREM ErrorsAlwaysTell == Spec => []ErrorsTell
<1>1. VInv => ErrorsTell
  BY DEF VInv, Verdict, ErrorsTell, TheProof
<1>. QED
  BY <1>1, VerifierAlways, PTL

-----------------------------------------------------------------------------
(* The prover of a partial trie                                             *)

LEMMA SeqCancel ==
    ASSUME NEW e, NEW s, NEW t, IsSeq(e), IsSeq(s), IsSeq(t), e \o s = e \o t
    PROVE  s = t
<1>1. /\ Len(e \o s) = Len(e) + Len(s) /\ Len(e \o t) = Len(e) + Len(t)
      /\ Len(e) \in Nat /\ Len(s) \in Nat /\ Len(t) \in Nat
  BY SeqConcat
<1>2. Len(s) = Len(t)
  BY <1>1
<1>3. ASSUME NEW i \in 1..Len(s)
      PROVE  s[i] = t[i]
  <2>1. /\ Len(e) + i \in 1..(Len(e) + Len(s)) /\ ~(Len(e) + i <= Len(e))
        /\ (Len(e) + i) - Len(e) = i
    BY <1>1
  <2>2. (e \o s)[Len(e) + i] = s[i]
    BY <2>1, ConcatAt
  <2>3. (e \o t)[Len(e) + i] = t[i]
    BY <1>2, <2>1, ConcatAt
  <2>. QED
    BY <2>2, <2>3
<1>. QED
  BY <1>2, <1>3, SeqSame

LEMMA SubtreeSolid ==
    ASSUME NEW T, NEW H, Typed(T, H), WellFormed(T), \A h \in H : Whole(h),
           NEW p \in DOMAIN T
    PROVE  /\ Solid(Subtree(T, p), H)
           /\ <<>> \in DOMAIN Subtree(T, p)
           /\ Subtree(T, p)[<<>>] = T[p]
<1>. DEFINE U == Subtree(T, p)
<1>1. p \in Path /\ DOMAIN T \subseteq Path
  BY DEF Typed
<1>2. /\ DOMAIN U \subseteq Path
      /\ \A r \in Path : r \in DOMAIN U <=> p \o r \in DOMAIN T
      /\ \A r \in DOMAIN U : U[r] = T[p \o r]
  BY <1>1, SubtreeDomain
<1>3. <<>> \in DOMAIN U /\ U[<<>>] = T[p]
  BY <1>1, <1>2, ConcatEmpty, EmptyPath
<1>4. Typed(U, H)
  <2>1. \A r \in DOMAIN U : U[r] \in Node(H)
    BY <1>2 DEF Typed
  <2>2. U = [r \in DOMAIN U |-> U[r]]
    BY DEF Subtree
  <2>. QED
    BY <1>2, <2>1, <2>2 DEF Typed
<1>5. ASSUME NEW r \in DOMAIN U
      PROVE  Good(U, {}, r)
  <2>1. r \in Path /\ p \o r \in DOMAIN T
    BY <1>2
  <2>2. Agree(T, p \o r, U, r)
    BY <1>1, <2>1, SubtreeAgree
  <2>3. Good(T, {}, p \o r)
    BY <2>1, ShapeGood DEF WellFormed
  <2>4. Paths(T) /\ Paths(U)
    BY <1>4, TypedPaths
  <2>. HIDE DEF U
  <2>. QED
    BY <2>1, <2>2, <2>3, <2>4, GoodAgree
<1>6. Connected(U)
  BY <1>3, <1>5, GoodShape DEF WellFormedBut
<1>. QED
  BY <1>3, <1>4, <1>6 DEF Solid

(* Nothing hangs below a Stub.                                              *)
LEMMA StubBare ==
    ASSUME NEW T, Connected(T), NEW u \in DOMAIN T, T[u].type = "stub", NEW p \in DOMAIN T
    PROVE  ~Below(p, u)
  BY DEF Connected, IsParent, Is

(* What a subtree commits to is the subtree of what the tree commits to.    *)
LEMMA ExpandSubtree ==
    ASSUME NEW T, NEW H, Typed(T, H), WellFormed(T), \A h \in H : Whole(h),
           NEW p \in DOMAIN T
    PROVE  Expand(Subtree(T, p)) = Subtree(Expand(T), p)
<1>. DEFINE U == Subtree(T, p)
            E == Expand(T)
            A == Subtree(E, p)
            B == Expand(U)
<1>1. Solid(T, H) /\ Solid(U, H) /\ p \in Path /\ DOMAIN T \subseteq Path /\ Connected(T)
  BY SubtreeSolid DEF Solid, Typed, WellFormed, WellFormedBut
<1>2. \A h \in H : DOMAIN h \subseteq Path
  BY DEF Whole, Typed
<1>3. \A x \in DOMAIN T : T[x].type = "stub" => DOMAIN T[x].hash \subseteq Path
  <2>1. \A x \in DOMAIN T : T[x] \in Node(H)
    BY DEF Typed
  <2>. QED
    BY <1>2, <2>1 DEF Node
<1>4. /\ DOMAIN U \subseteq Path
      /\ \A r \in Path : r \in DOMAIN U <=> p \o r \in DOMAIN T
      /\ \A r \in DOMAIN U : U[r] = T[p \o r]
  BY <1>1, SubtreeDomain
<1>5. DOMAIN E \subseteq Path /\ DOMAIN B \subseteq Path
  <2>1. Typed(Expand(T), {}) /\ Typed(Expand(U), {})
    BY <1>1, ExpandTyped
  <2>. QED
    BY <2>1 DEF Typed
<1>6. /\ \A q \in DOMAIN E :
            \/ q \in DOMAIN T /\ T[q].type # "stub" /\ E[q] = T[q]
            \/ \E x \in DOMAIN T, r \in Path :
                  T[x].type = "stub" /\ r \in DOMAIN T[x].hash /\ q = x \o r
                  /\ E[q] = T[x].hash[r]
      /\ \A q \in DOMAIN T : T[q].type # "stub" => q \in DOMAIN E /\ E[q] = T[q]
      /\ \A x \in DOMAIN T : T[x].type = "stub" =>
            \A r \in DOMAIN T[x].hash : x \o r \in DOMAIN E /\ E[x \o r] = T[x].hash[r]
  <2>1. Solid(T, H)
    BY <1>1
  <2>2. \A x \in DOMAIN T : T[x].type = "stub" =>
            \A r \in DOMAIN T[x].hash : x \o r \in DOMAIN E /\ E[x \o r] = T[x].hash[r]
    BY <2>1, ExpandFields
  <2>3. \A q \in DOMAIN T : T[q].type # "stub" => q \in DOMAIN E /\ E[q] = T[q]
    BY <2>1, ExpandFields
  <2>4. ASSUME NEW q \in DOMAIN E
        PROVE  \/ q \in DOMAIN T /\ T[q].type # "stub" /\ E[q] = T[q]
               \/ \E x \in DOMAIN T, r \in Path :
                     T[x].type = "stub" /\ r \in DOMAIN T[x].hash /\ q = x \o r
                     /\ E[q] = T[x].hash[r]
    BY <2>1, ExpandFields
  <2>. QED
    BY <2>2, <2>3, <2>4
<1>7. /\ \A q \in DOMAIN B :
            \/ q \in DOMAIN U /\ U[q].type # "stub" /\ B[q] = U[q]
            \/ \E x \in DOMAIN U, r \in Path :
                  U[x].type = "stub" /\ r \in DOMAIN U[x].hash /\ q = x \o r
                  /\ B[q] = U[x].hash[r]
      /\ \A q \in DOMAIN U : U[q].type # "stub" => q \in DOMAIN B /\ B[q] = U[q]
      /\ \A x \in DOMAIN U : U[x].type = "stub" =>
            \A r \in DOMAIN U[x].hash : x \o r \in DOMAIN B /\ B[x \o r] = U[x].hash[r]
  <2>1. Solid(U, H)
    BY <1>1
  <2>. HIDE DEF U
  <2>2. \A x \in DOMAIN U : U[x].type = "stub" =>
            \A r \in DOMAIN U[x].hash : x \o r \in DOMAIN B /\ B[x \o r] = U[x].hash[r]
    BY <2>1, ExpandFields
  <2>3. \A q \in DOMAIN U : U[q].type # "stub" => q \in DOMAIN B /\ B[q] = U[q]
    BY <2>1, ExpandFields
  <2>4. ASSUME NEW q \in DOMAIN B
        PROVE  \/ q \in DOMAIN U /\ U[q].type # "stub" /\ B[q] = U[q]
               \/ \E x \in DOMAIN U, r \in Path :
                     U[x].type = "stub" /\ r \in DOMAIN U[x].hash /\ q = x \o r
                     /\ B[q] = U[x].hash[r]
    BY <2>1, ExpandFields
  <2>. QED
    BY <2>2, <2>3, <2>4
<1>. HIDE DEF U, E
<1>8. /\ DOMAIN A \subseteq Path
      /\ \A r \in Path : r \in DOMAIN A <=> p \o r \in DOMAIN E
      /\ \A r \in DOMAIN A : A[r] = E[p \o r]
  BY <1>1, <1>5, SubtreeDomain
<1>9. A = [r \in DOMAIN A |-> A[r]] /\ B = [r \in DOMAIN B |-> B[r]]
  BY DEF Subtree, Expand
<1>. HIDE DEF A, B
<1>10. ASSUME NEW q \in DOMAIN B
       PROVE  q \in DOMAIN A /\ A[q] = B[q]
  <2>1. q \in Path
    BY <1>5
  <2>2. CASE q \in DOMAIN U /\ U[q].type # "stub" /\ B[q] = U[q]
    <3>1. p \o q \in DOMAIN T /\ T[p \o q] = U[q]
      BY <1>4, <2>1, <2>2
    <3>2. p \o q \in DOMAIN E /\ E[p \o q] = U[q]
      BY <1>6, <2>2, <3>1
    <3>. QED
      BY <1>8, <2>1, <2>2, <3>2
  <2>3. ASSUME NEW x \in DOMAIN U, NEW r \in Path, U[x].type = "stub", r \in DOMAIN U[x].hash,
               q = x \o r, B[q] = U[x].hash[r]
        PROVE  q \in DOMAIN A /\ A[q] = B[q]
    <3>1. x \in Path /\ p \o x \in DOMAIN T /\ T[p \o x] = U[x]
      BY <1>4
    <3>2. (p \o x) \o r \in DOMAIN E /\ E[(p \o x) \o r] = U[x].hash[r]
      BY <1>6, <2>3, <3>1
    <3>3. (p \o x) \o r = p \o q
      BY <1>1, <2>3, <3>1, ConcatAssoc
    <3>. QED
      BY <1>8, <2>1, <2>3, <3>2, <3>3
  <2>. QED
    BY <1>7, <2>2, <2>3
<1>11. ASSUME NEW q \in DOMAIN A
       PROVE  q \in DOMAIN B
  <2>1. q \in Path /\ p \o q \in DOMAIN E
    BY <1>8
  <2>2. CASE p \o q \in DOMAIN T /\ T[p \o q].type # "stub"
    BY <1>4, <1>7, <2>1, <2>2
  <2>3. ASSUME NEW x \in DOMAIN T, NEW r \in Path, T[x].type = "stub", r \in DOMAIN T[x].hash,
               p \o q = x \o r
        PROVE  q \in DOMAIN B
    <3>1. x \in Path /\ p \o q \in Path /\ starts_with(p \o q, p) /\ starts_with(p \o q, x)
      BY <1>1, <2>1, <2>3, PrefixConcat
    <3>2. starts_with(x, p)
      <4>1. starts_with(x, p) \/ starts_with(p, x)
        BY <1>1, <3>1, PrefixLinear
      <4>2. ~Below(p, x)
        BY <1>1, <2>3, StubBare
      <4>3. x = p => starts_with(x, p)
        BY <1>1, PrefixRefl
      <4>. QED
        BY <4>1, <4>2, <4>3 DEF Below
    <3>3. PICK y \in Path : p \o y = x
      BY <1>1, <3>1, <3>2, PrefixSplit
    <3>4. y \in DOMAIN U /\ U[y] = T[x]
      BY <1>4, <3>3
    <3>5. y \o r \in Path /\ p \o (y \o r) = x \o r
      <4>1. y \o r \in Path
        BY <3>3, PrefixConcat
      <4>2. (p \o y) \o r = p \o (y \o r)
        BY <1>1, <3>3, ConcatAssoc
      <4>. QED
        BY <3>3, <4>1, <4>2
    <3>6. q = y \o r
      BY <1>1, <2>1, <2>3, <3>5, ConcatCancel
    <3>. QED
      BY <1>7, <2>3, <3>4, <3>6
  <2>. QED
    BY <1>6, <2>1, <2>2, <2>3
<1>12. DOMAIN A = DOMAIN B
  BY <1>10, <1>11
<1>13. A = B
  BY <1>9, <1>10, <1>12
<1>. QED
  BY <1>13 DEF A, B, U, E

(* A partial trie of S, as build_partial makes it.                          *)
PartOf(T, S) ==
    /\ Whole(S) /\ Bounded(S)
    /\ Fits(T, S) /\ Bounded(T) /\ Expand(T) = S

LEMMA PartFields ==
    ASSUME NEW T, NEW S, PartOf(T, S)
    PROVE  /\ Walkable(T) /\ Walkable(S)
           /\ Typed(T, SubtreesOf(S)) /\ WellFormed(T) /\ Connected(T)
           /\ Solid(T, SubtreesOf(S)) /\ \A h \in SubtreesOf(S) : Whole(h)
           /\ DOMAIN T \subseteq Path /\ DOMAIN S \subseteq Path
           /\ T = Null \/ <<>> \in DOMAIN T
           /\ \A p \in DOMAIN T : p \in DOMAIN S
           /\ \A p \in DOMAIN T : T[p].type # "stub" => S[p] = T[p]
<1>1. Typed(T, SubtreesOf(S)) /\ WellFormed(T) /\ Bounded(T) /\ Whole(S) /\ Bounded(S)
      /\ Typed(S, {}) /\ WellFormed(S)
  BY DEF PartOf, Fits, Whole
<1>2. Walkable(T) /\ Walkable(S) /\ (T = Null \/ <<>> \in DOMAIN T)
  BY <1>1, WholeWalkable
<1>3. Solid(T, SubtreesOf(S)) /\ \A h \in SubtreesOf(S) : Whole(h)
  BY <1>1, FitsSolid DEF PartOf, Solid
<1>4. \A p \in DOMAIN T : T[p].type # "stub" => p \in DOMAIN S /\ S[p] = T[p]
  BY <1>3, ExpandFields DEF PartOf
<1>5. \A p \in DOMAIN T : T[p].type = "stub" => p \in DOMAIN S
  BY DEF PartOf, Fits, StubsOf, Hashed
<1>. QED
  BY <1>1, <1>2, <1>3, <1>4, <1>5 DEF Typed, WellFormed, WellFormedBut

(* A loaded node goes into the proof as it would from the complete trie; of *)
(* a Stub there is but the hash, which is no node's encoding.               *)
LEMMA PartEntry ==
    ASSUME NEW T, NEW S, PartOf(T, S), NEW p \in DOMAIN T
    PROVE  /\ T[p].type # "stub" => Entry(T, p) = Entry(S, p)
           /\ T[p].type = "stub" =>
                 \E x, y : x # y /\ Entry(T, p) = One(x) /\ Entry(S, p) = One(y)
<1>. DEFINE U == Subtree(T, p)
            V == Subtree(S, p)
            node == Subtree(Encoded(S), p)
<1>1. Whole(S) /\ p \in DOMAIN S /\ p \in Path
  BY PartFields DEF PartOf
<1>2. <<>> \in DOMAIN U /\ U[<<>>] = T[p] /\ Expand(U) = V
  BY PartFields, SubtreeSolid, ExpandSubtree DEF PartOf
<1>3. node = Encoded(V) /\ Whole(V) /\ rlp_len(node) = rlp_len(V)
  BY <1>1, EncodedSubtree, SubtreeWhole, EncodedLen
<1>4. /\ Entry(S, p) = IF p = <<>> \/ rlp_len(node) >= 32 THEN One(node) ELSE <<>>
      /\ <<>> \in DOMAIN node /\ node[<<>>] = Encoded(S)[p]
  BY <1>1, ProvedNode
<1>5. ASSUME T[p].type # "stub"
      PROVE  Entry(T, p) = Entry(S, p)
  <2>1. ~Is(U, <<>>, "stub") /\ ~Is(T, p, "stub")
    BY <1>2, <1>5 DEF Is
  <2>. HIDE DEF V, node
  <2>2. encode_node(T, p) = Encoded(V) /\ enc_len(T, p) = rlp_len(V)
    BY <1>2, <2>1 DEF encode_node, enc_len, trie_hash, node_root
  <2>. QED
    BY <1>3, <1>4, <2>2 DEF Entry, One
<1>6. ASSUME T[p].type = "stub"
      PROVE  \E x, y : x # y /\ Entry(T, p) = One(x) /\ Entry(S, p) = One(y)
  <2>1. Is(U, <<>>, "stub") /\ Is(T, p, "stub")
    BY <1>2, <1>6 DEF Is
  <2>2. encode_node(T, p) = Encoded(U) /\ enc_len(T, p) = 32
    BY <2>1 DEF encode_node, enc_len, trie_hash
  <2>3. Entry(T, p) = One(Encoded(U))
    BY <2>2 DEF Entry, One
  <2>4. Encoded(U)[<<>>].type = "stub"
    <3>. HIDE DEF U
    <3>1. U[<<>>].type = "stub"
      BY <1>2, <1>6
    <3>. QED
      BY <1>2, <3>1, EncodedFields
  <2>5. p \in Hashed(S)
    BY <1>6 DEF PartOf, Fits, StubsOf
  <2>6. p = <<>> \/ rlp_len(V) >= 32
    BY <2>5 DEF Hashed
  <2>7. Entry(S, p) = One(node)
    BY <1>3, <1>4, <2>6
  <2>8. node[<<>>].type # "stub"
    BY <1>1, <1>4, EncodedTypes, WholeTypes
  <2>9. Encoded(U) # node
    BY <2>4, <2>8
  <2>. QED
    BY <2>3, <2>7, <2>9
<1>. QED
  BY <1>5, <1>6

(* Two children of one node on one way down are one.                        *)
LEMMA OneChild ==
    ASSUME NEW T, Walkable(T), NEW p \in DOMAIN T, NEW c, NEW d, NEW k \in Path,
           IsParent(T, p, c), IsParent(T, p, d), starts_with(k, c), starts_with(k, d)
    PROVE  c = d
<1>1. p \in Path
  BY DEF Walkable, Paths
<1>2. CASE T[p].type = "fork"
  <2>1. PICK m \in Nibble : c = Append(p, m)
    BY <1>2 DEF IsParent, Is
  <2>2. PICK n \in Nibble : d = Append(p, n)
    BY <1>2 DEF IsParent, Is
  <2>3. m = n
    BY <1>1, <2>1, <2>2, AppendApart
  <2>. QED
    BY <2>1, <2>2, <2>3
<1>3. CASE T[p].type # "fork"
  BY <1>3 DEF IsParent, Is
<1>. QED
  BY <1>2, <1>3

(* A loaded node has all of its children in the partial trie.               *)
LEMMA PartOnward ==
    ASSUME NEW T, NEW S, PartOf(T, S), NEW p \in DOMAIN T, T[p].type # "stub", NEW k
    PROVE  Onward(T, k, p) = Onward(S, k, p)
<1>1. S[p] = T[p] /\ p \in DOMAIN S /\ p \in Path
  BY PartFields
<1>2. \A c : IsParent(T, p, c) <=> IsParent(S, p, c)
  BY <1>1 DEF IsParent, Is
<1>3. ASSUME NEW c \in DOMAIN S, IsParent(S, p, c)
      PROVE  c \in DOMAIN T
  <2>1. IsParent(T, p, c) /\ c \in Path /\ Below(c, p)
    BY <1>2, <1>3, PartFields, ParentAbove DEF Walkable
  <2>2. SUFFICES ASSUME NEW x \in DOMAIN T, NEW r \in Path, T[x].type = "stub", c = x \o r
                 PROVE  c \in DOMAIN T
    BY PartFields, ExpandFields DEF PartOf
  <2>3. x \in Path /\ starts_with(c, x) /\ starts_with(c, p)
    BY <2>1, <2>2, PartFields, PrefixConcat DEF Below
  <2>4. Below(x, p)
    <3>1. starts_with(x, p) \/ starts_with(p, x)
      BY <1>1, <2>1, <2>3, PrefixLinear
    <3>2. ~Below(p, x)
      BY <2>2, PartFields, StubBare
    <3>3. x # p
      BY <2>2
    <3>. QED
      BY <3>1, <3>2, <3>3 DEF Below
  <2>5. PICK d \in DOMAIN T : IsParent(T, p, d) /\ starts_with(x, d)
    BY <2>4, PartFields DEF Connected
  <2>6. d \in Path /\ starts_with(c, d) /\ starts_with(c, c)
    BY <2>1, <2>3, <2>5, PartFields, PrefixTrans, PrefixRefl
  <2>7. c = d
    BY <2>1, <2>5, <2>6, PartFields, OneChild
  <2>. QED
    BY <2>7
<1>4. \A c \in DOMAIN T : c \in DOMAIN S
  BY PartFields
<1>. QED
  BY <1>2, <1>3, <1>4 DEF Onward

(* No Stub lies on the way from p to k.                                     *)
Clear(T, k, p) == \A u \in StubsOf(T) : starts_with(u, p) => ~starts_with(k, u)

(* The walk goes the same way in both, and the proofs are the same from p   *)
(* on unless it ends at a Stub.                                             *)
LEMMA PartCollects ==
    ASSUME NEW T, NEW S, PartOf(T, S), NEW k \in Path, NEW p \in DOMAIN T, starts_with(k, p)
    PROVE  Collected(T, k)[p] = Collected(S, k)[p] <=> Clear(T, k, p)
<1>. DEFINE f == Collected(T, k)
            g == Collected(S, k)
            Right(q) == f[q] = g[q] <=> Clear(T, k, q)
            A == {q \in DOMAIN T : starts_with(k, q) /\ ~Right(q)}
<1>1. /\ Walkable(T) /\ Walkable(S) /\ Connected(T) /\ Bounded(T)
      /\ DOMAIN T \subseteq Path /\ DOMAIN T \subseteq DOMAIN S
  BY PartFields DEF PartOf
<1>2. /\ \A q \in DOMAIN T : /\ f[q] = Entry(T, q) \o After(T, k, f, q)
                             /\ IsSeq(f[q]) /\ IsSeq(After(T, k, f, q))
      /\ \A q \in DOMAIN S : /\ g[q] = Entry(S, q) \o After(S, k, g, q)
                             /\ IsSeq(g[q]) /\ IsSeq(After(S, k, g, q))
  BY <1>1, CollectSteps
<1>. HIDE DEF f, g
<1>3. ASSUME NEW q \in DOMAIN T, starts_with(k, q),
             \A c \in DOMAIN T : starts_with(k, c) /\ Below(c, q) => Right(c)
      PROVE  Right(q)
  <2>1. q \in Path /\ q \in DOMAIN S /\ IsSeq(Entry(T, q)) /\ IsSeq(Entry(S, q))
    BY <1>1, EntrySeq
  <2>2. CASE T[q].type = "stub"
    <3>1. PICK x, y : x # y /\ Entry(T, q) = One(x) /\ Entry(S, q) = One(y)
      BY <2>2, PartEntry
    <3>2. IsSeq(One(x)) /\ IsSeq(One(y)) /\ Len(One(x)) = 1 /\ Len(One(y)) = 1
          /\ One(x)[1] = x /\ One(y)[1] = y
      BY SeqOne
    <3>3. ASSUME NEW e, NEW t, IsSeq(t)
          PROVE  (One(e) \o t)[1] = e
      <4>1. IsSeq(One(e)) /\ Len(One(e)) = 1 /\ One(e)[1] = e /\ Len(t) \in Nat
        BY <3>3, SeqOne, SeqConcat
      <4>2. 1 \in 1..(Len(One(e)) + Len(t))
        BY <4>1
      <4>. QED
        BY <3>3, <4>1, <4>2, ConcatAt
    <3>4. f[q][1] = x /\ g[q][1] = y
      BY <1>2, <2>1, <3>1, <3>3
    <3>5. f[q] # g[q]
      BY <3>1, <3>4
    <3>6. ~Clear(T, k, q)
      BY <1>3, <2>1, <2>2, PrefixRefl DEF Clear, StubsOf
    <3>. QED
      BY <3>5, <3>6
  <2>3. CASE T[q].type # "stub"
    <3>1. Entry(T, q) = Entry(S, q) /\ Onward(T, k, q) = Onward(S, k, q)
      BY <2>3, PartEntry, PartOnward
    <3>2. ASSUME NEW u \in StubsOf(T), starts_with(u, q), starts_with(k, u)
          PROVE  \E c \in Onward(T, k, q) : starts_with(u, c)
      <4>1. u \in DOMAIN T /\ u \in Path /\ u # q
        BY <1>1, <2>3 DEF StubsOf
      <4>2. PICK c \in DOMAIN T : IsParent(T, q, c) /\ starts_with(u, c)
        BY <1>1, <3>2, <4>1 DEF Connected, Below
      <4>3. starts_with(k, c)
        BY <1>1, <3>2, <4>1, <4>2, PrefixTrans
      <4>. QED
        BY <4>2, <4>3 DEF Onward
    <3>3. CASE Onward(T, k, q) = {}
      <4>1. After(T, k, f, q) = <<>> /\ After(S, k, g, q) = <<>>
        BY <3>1, <3>3 DEF After
      <4>2. f[q] = g[q]
        BY <1>2, <2>1, <3>1, <4>1
      <4>3. Clear(T, k, q)
        BY <3>2, <3>3 DEF Clear
      <4>. QED
        BY <4>2, <4>3
    <3>4. CASE Onward(T, k, q) # {}
      <4>. DEFINE c == CHOOSE c \in Onward(T, k, q) : TRUE
      <4>1. c \in Onward(T, k, q)
        BY <3>4
      <4>2. After(T, k, f, q) = f[c] /\ After(S, k, g, q) = g[c]
        BY <3>1, <3>4 DEF After
      <4>. HIDE DEF c
      <4>3. c \in DOMAIN T /\ c \in Path /\ Below(c, q) /\ starts_with(k, c) /\ IsParent(T, q, c)
        BY <1>1, <4>1, OnwardBelow DEF Onward
      <4>4. Right(c)
        BY <1>3, <4>3
      <4>5. f[q] = g[q] <=> f[c] = g[c]
        <5>1. f[q] = Entry(T, q) \o f[c] /\ g[q] = Entry(T, q) \o g[c]
          BY <1>2, <2>1, <3>1, <4>2
        <5>2. IsSeq(f[c]) /\ IsSeq(g[c])
          BY <1>1, <1>2, <4>3
        <5>. QED
          BY <2>1, <5>1, <5>2, SeqCancel
      <4>6. Clear(T, k, q) <=> Clear(T, k, c)
        <5>1. ASSUME NEW u \in StubsOf(T), starts_with(u, c)
              PROVE  starts_with(u, q)
          <6>1. u \in Path /\ starts_with(c, q)
            BY <1>1, <4>3 DEF StubsOf, Below
          <6>. QED
            BY <2>1, <4>3, <5>1, <6>1, PrefixTrans
        <5>2. ASSUME NEW u \in StubsOf(T), starts_with(u, q), starts_with(k, u)
              PROVE  starts_with(u, c)
          <6>1. PICK d \in Onward(T, k, q) : starts_with(u, d)
            BY <3>2, <5>2
          <6>2. c = d
            BY <1>1, <4>3, <6>1, OneChild DEF Onward
          <6>. QED
            BY <6>1, <6>2
        <5>. QED
          BY <5>1, <5>2 DEF Clear
      <4>. QED
        BY <4>4, <4>5, <4>6
    <3>. QED
      BY <3>3, <3>4
  <2>. QED
    BY <2>2, <2>3
<1>4. A = {}
  <2>. SUFFICES ASSUME A # {} PROVE FALSE
    OBVIOUS
  <2>1. A \subseteq DOMAIN T
    OBVIOUS
  <2>2. PICK q \in A : \A r \in A : ~Below(r, q)
    <3>. HIDE DEF A
    <3>. QED
      BY <1>1, <2>1, Deepest
  <2>. HIDE DEF Right
  <2>3. q \in DOMAIN T /\ starts_with(k, q) /\ ~Right(q)
    BY <2>2
  <2>4. \A c \in DOMAIN T : starts_with(k, c) /\ Below(c, q) => Right(c)
    BY <2>2
  <2>. QED
    BY <1>3, <2>3, <2>4
<1>5. Right(p)
  <2>. HIDE DEF Right
  <2>. QED
    BY <1>4
<1>. QED
  BY <1>5 DEF f, g

LEMMA PartProves ==
    ASSUME NEW T, NEW S, PartOf(T, S), NEW k \in Path
    PROVE  prove(T, k) = prove(S, k) <=> \A u \in StubsOf(T) : ~starts_with(k, u)
<1>1. CASE T = Null
  <2>1. DOMAIN T = {}
    BY <1>1 DEF Null
  <2>2. StubsOf(T) = {}
    BY <2>1 DEF StubsOf
  <2>3. DOMAIN S = {}
    <3>1. \A q \in DOMAIN Expand(T) : \E x \in DOMAIN T : TRUE
      BY PartFields, ExpandFields
    <3>. QED
      BY <2>1, <3>1 DEF PartOf
  <2>4. S = Null
    <3>1. S = [q \in DOMAIN S |-> S[q]]
      BY DEF PartOf, Whole, Typed
    <3>. QED
      BY <2>3, <3>1 DEF Null
  <2>. QED
    BY <1>1, <2>2, <2>4 DEF prove
<1>2. CASE T # Null
  <2>1. <<>> \in DOMAIN T /\ <<>> \in DOMAIN S
    BY <1>2, PartFields
  <2>2. S # Null
    BY <2>1 DEF Null
  <2>3. prove(T, k) = Collected(T, k)[<<>>] /\ prove(S, k) = Collected(S, k)[<<>>]
    BY <1>2, <2>2, CollectIs DEF prove
  <2>4. starts_with(k, <<>>) /\ \A u \in StubsOf(T) : starts_with(u, <<>>)
    BY PartFields, PrefixEmpty DEF StubsOf
  <2>5. Collected(T, k)[<<>>] = Collected(S, k)[<<>>] <=> Clear(T, k, <<>>)
    BY <2>1, <2>4, PartCollects
  <2>. QED
    BY <2>3, <2>4, <2>5 DEF Clear
<1>. QED
  BY <1>1, <1>2

(* Whatever the prover had loaded, a proof that it made without meeting a   *)
(* Stub is accepted, and one that ends at a Stub is refused.                *)
THEOREM StubsAlwaysRefused == Spec => []StubsRefused
<1>. DEFINE Built == PartOf(trie, backing)
<1>1. Init => Built
  <2>. SUFFICES ASSUME Init PROVE Built
    OBVIOUS
  <2>1. backing \in Backings /\ Whole(backing) /\ Bounded(backing)
    BY RootIs DEF Init
  <2>2. PICK nodes : trie = build_partial(nodes, backing)
    BY DEF Init
  <2>. QED
    BY <2>1, <2>2, BuiltFits DEF PartOf
<1>2. Built /\ [Next]_vars => Built'
  <2>. SUFFICES ASSUME Built, [Next]_vars PROVE Built'
    OBVIOUS
  <2>1. trie' = trie /\ backing' = backing
    BY DEF Next, Decided, vars, EmptyProof, First, Malformed, ForkValue, ForkEmptySlot, ForkChild,
           LeafEnds, SkipDiverges, SkipChild, Finish, Refuse, Enter, Break, resolve, Given
  <2>. QED
    BY <2>1
<1>3. VInv /\ Built => StubsRefused
  <2>. SUFFICES ASSUME VInv, Built, pc = "done", proof = prove(trie, key)
                PROVE  result.status = "ok" <=> \A p \in StubsOf(trie) : ~starts_with(key, p)
    BY DEF StubsRefused
  <2>1. result.status = "ok" <=> proof = prove(backing, key)
    BY DEF VInv, Verdict, TheProof
  <2>2. prove(trie, key) = prove(backing, key)
           <=> \A p \in StubsOf(trie) : ~starts_with(key, p)
    BY PartProves DEF VInv
  <2>. QED
    BY <2>1, <2>2
<1>. HIDE DEF Built
<1>. QED
  BY <1>1, <1>2, <1>3, VerifierAlways, PTL DEF Spec
=============================================================================
