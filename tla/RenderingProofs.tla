-------------------------- MODULE RenderingProofs --------------------------
(***************************************************************************)
(* Theorems about Rendering, for any templates, variables and overlays.    *)
(***************************************************************************)
EXTENDS RenderingAsWritten, FiniteSetTheorems, FunctionTheorems, SequenceTheorems,
        WellFoundedInduction, TLAPS

-----------------------------------------------------------------------------
\* Every non-empty set of natural numbers has a least element.
LEMMA Least ==
  ASSUME NEW T, T \subseteq Nat, T # {}
  PROVE  \E n \in T : \A m \in T : n <= m
<1>1. PICK n \in T : \A m \in T : ~(<<m, n>> \in OpToRel(<, Nat))
  BY WFMin, NatLessThanWellFounded
<1>2. ASSUME NEW m \in T PROVE n <= m
  <2>1. ~(m < n)
    BY <1>1 DEF OpToRel
  <2>2. QED
    BY <2>1
<1>3. QED
  BY <1>2

-----------------------------------------------------------------------------
(* Paths. *)

\* A field or an index.
Step == STRING \X Nat

\* The prefixes of a sequence, step by step.
LEMMA PrefixMeaning ==
  ASSUME NEW S, NEW s \in Seq(S), NEW t \in Seq(S)
  PROVE  IsPrefix(s, t) <=> Len(s) <= Len(t) /\ \A n \in 1 .. Len(s) : s[n] = t[n]
<1>1. SubSeq(s, 1, Len(s)) = s
  BY SubSeqFull
<1>2. ASSUME Len(s) <= Len(t)
      PROVE  /\ SubSeq(t, 1, Len(s)) \in Seq(S)
             /\ Len(SubSeq(t, 1, Len(s))) = Len(s)
             /\ \A n \in 1 .. Len(s) : SubSeq(t, 1, Len(s))[n] = t[n]
  BY <1>2, SubSeqProperties, ElementOfSeq, LenProperties
<1>3. ASSUME Len(s) <= Len(t), \A n \in 1 .. Len(s) : s[n] = t[n]
      PROVE  SubSeq(t, 1, Len(s)) = s
  BY <1>2, <1>3, SeqEqual
<1>4. QED
  BY <1>1, <1>2, <1>3 DEF IsPrefix

\* Prefixes of paths are ordered, and those of one path are in a line.
LEMMA PrefixOrder ==
  ASSUME NEW p \in Path, NEW q \in Path, NEW r \in Path
  PROVE  /\ IsPrefix(p, p)
         /\ IsPrefix(<<>>, p)
         /\ IsPrefix(p, <<>>) => p = <<>>
         /\ IsPrefix(r, q) /\ IsPrefix(q, p) => IsPrefix(r, p)
         /\ IsPrefix(q, r) /\ IsPrefix(r, q) => q = r
         /\ IsPrefix(q, p) /\ IsPrefix(r, p) => IsPrefix(q, r) \/ IsPrefix(r, q)
<1> DEFINE Pre(s, t) == Len(s) <= Len(t) /\ \A n \in 1 .. Len(s) : s[n] = t[n]
<1>1. \A s, t \in Path : IsPrefix(s, t) <=> Pre(s, t)
  BY PrefixMeaning DEF Path
<1>2. <<>> \in Path /\ Len(<<>>) = 0
  BY EmptySeq DEF Path
<1>3. \A s \in Path : Len(s) \in Nat
  BY LenProperties DEF Path
<1>4. ASSUME Pre(q, r), Pre(r, q) PROVE q = r
  <2>1. Len(q) = Len(r)
    BY <1>3, <1>4
  <2>2. QED
    BY <2>1, <1>4, SeqEqual DEF Path
<1>5. ASSUME Pre(p, <<>>) PROVE p = <<>>
  BY <1>2, <1>3, <1>5, EmptySeq DEF Path
<1>6. QED
  BY <1>1, <1>2, <1>3, <1>4, <1>5

\* One more step: the prefixes are those of the shorter path, and itself.
LEMMA PrefixAppend ==
  ASSUME NEW p \in Path, NEW q \in Path, NEW s \in STRING \X Nat
  PROVE  /\ Append(p, s) \in Path
         /\ IsPrefix(p, Append(p, s)) /\ Append(p, s) # p
         /\ IsPrefix(q, Append(p, s)) <=> IsPrefix(q, p) \/ q = Append(p, s)
<1>1. PICK t : t = Append(p, s)
  OBVIOUS
<1>2. /\ t \in Path /\ Len(t) = Len(p) + 1
      /\ \A n \in 1 .. Len(p) : t[n] = p[n]
  BY <1>1, AppendProperties DEF Path
<1>3. Len(p) \in Nat /\ Len(q) \in Nat
  BY LenProperties DEF Path
<1>4. IsPrefix(p, t) /\ t # p
  <2>1. Len(p) <= Len(t) /\ \A n \in 1 .. Len(p) : p[n] = t[n]
    BY <1>2, <1>3
  <2>2. IsPrefix(p, t)
    BY <1>2, <2>1, PrefixMeaning DEF Path
  <2>3. QED
    BY <1>2, <1>3, <2>2
<1>5. ASSUME IsPrefix(q, t), ~IsPrefix(q, p) PROVE q = t
  <2>1. Len(q) <= Len(p) + 1 /\ \A n \in 1 .. Len(q) : q[n] = t[n]
    BY <1>2, <1>5, PrefixMeaning DEF Path
  <2>2. ~(Len(q) <= Len(p))
    BY <1>2, <1>3, <1>5, <2>1, PrefixMeaning DEF Path
  <2>3. Len(q) = Len(t)
    BY <1>2, <1>3, <2>1, <2>2
  <2>4. QED
    BY <1>2, <2>1, <2>3, SeqEqual DEF Path
<1>6. IsPrefix(q, p) \/ q = t => IsPrefix(q, t)
  BY <1>2, <1>4, PrefixOrder
<1>7. QED
  BY <1>1, <1>2, <1>4, <1>5, <1>6

\* What is put at q has q before it.
LEMMA PrefixConcat ==
  ASSUME NEW q \in Path, NEW r \in Path
  PROVE  q \o r \in Path /\ IsPrefix(q, q \o r)
<1>1. /\ q \o r \in Path /\ Len(q \o r) = Len(q) + Len(r)
      /\ \A n \in 1 .. Len(q) + Len(r) :
           (q \o r)[n] = IF n <= Len(q) THEN q[n] ELSE r[n - Len(q)]
  BY ConcatProperties DEF Path
<1>2. Len(q) \in Nat /\ Len(r) \in Nat
  BY LenProperties DEF Path
<1>3. ASSUME NEW t \in Path, Len(q) <= Len(t), \A n \in 1 .. Len(q) : q[n] = t[n]
      PROVE  IsPrefix(q, t)
  BY <1>3, PrefixMeaning DEF Path
<1>4. Len(q) <= Len(q \o r) /\ \A n \in 1 .. Len(q) : q[n] = (q \o r)[n]
  BY <1>1, <1>2
<1>5. QED
  BY <1>1, <1>3, <1>4

\* Whatever leads to a path of a value is there, and no leaf.
LEMMA PrefixThere ==
  ASSUME NEW v, IsValue(v), NEW p \in DOMAIN v, NEW q \in Path, IsPrefix(q, p)
  PROVE  q \in DOMAIN v /\ (q # p => v[q].node # "leaf")
<1>1. p \in Path /\ Len(p) \in Nat /\ Len(q) \in Nat
  BY LenProperties DEF IsValue, Path
<1>2. CASE q = p
  BY <1>2
<1>3. CASE q # p
  <2>1. Len(q) < Len(p)
    <3>1. Len(q) <= Len(p) /\ \A n \in 1 .. Len(q) : q[n] = p[n]
      BY <1>1, PrefixMeaning DEF Path
    <3>2. CASE Len(q) = Len(p)
      BY <1>1, <1>3, <3>1, <3>2, SeqEqual DEF Path
    <3>3. QED
      BY <1>1, <3>1, <3>2
  <2>2. q = SubSeq(p, 1, (Len(q) + 1) - 1)
    BY <1>1, SubSeqFull DEF IsPrefix, Path
  <2>3. Len(q) + 1 \in 1 .. Len(p)
    BY <1>1, <2>1
  <2>4. /\ SubSeq(p, 1, (Len(q) + 1) - 1) \in DOMAIN v
        /\ \/ v[SubSeq(p, 1, (Len(q) + 1) - 1)] = AnObject
           \/ v[SubSeq(p, 1, (Len(q) + 1) - 1)] = AList
    BY <2>3 DEF IsValue
  <2>5. q \in DOMAIN v /\ (v[q] = AnObject \/ v[q] = AList)
    BY <2>2, <2>4, Zenon
  <2>6. QED
    BY <2>5 DEF AnObject, AList
<1>4. QED
  BY <1>2, <1>3

\* A prefix is no longer, and the path itself if it is as long.
LEMMA PrefixLength ==
  ASSUME NEW p \in Path, NEW q \in Path, IsPrefix(q, p)
  PROVE  /\ Len(q) \in Nat /\ Len(p) \in Nat /\ Len(q) <= Len(p)
         /\ Len(q) = Len(p) => q = p
<1>1. Len(q) \in Nat /\ Len(p) \in Nat
  BY LenProperties DEF Path
<1>2. Len(q) <= Len(p) /\ \A n \in 1 .. Len(q) : q[n] = p[n]
  BY PrefixMeaning DEF Path
<1>3. Len(q) = Len(p) => q = p
  BY <1>2, SeqEqual DEF Path
<1>4. QED
  BY <1>1, <1>2, <1>3

\* What is after a prefix.
LEMMA ConcatRest ==
  ASSUME NEW q \in Path, NEW r \in Path, NEW p, p = q \o r
  PROVE  p \in Path /\ IsPrefix(q, p) /\ SubSeq(p, Len(q) + 1, Len(p)) = r
<1>1. p \in Path /\ IsPrefix(q, p)
  BY PrefixConcat
<1>2. /\ Len(p) = Len(q) + Len(r)
      /\ \A n \in 1 .. Len(q) + Len(r) : p[n] = IF n <= Len(q) THEN q[n] ELSE r[n - Len(q)]
  BY ConcatProperties DEF Path
<1>3. Len(q) \in Nat /\ Len(r) \in Nat /\ Len(p) \in Nat
  BY <1>1, LenProperties DEF Path
<1>4. \A n \in Len(q) + 1 .. Len(p) : p[n] \in Step
  BY <1>1, <1>3, ElementOfSeq DEF Path, Step
<1>5. PICK t : t = SubSeq(p, Len(q) + 1, Len(p))
  OBVIOUS
<1>6. /\ t \in Path /\ Len(t) = Len(r)
      /\ \A n \in 1 .. Len(r) : t[n] = p[Len(q) + n]
  <2>1. /\ t \in Seq(Step)
        /\ Len(t) = IF Len(q) + 1 <= Len(p) THEN Len(p) - (Len(q) + 1) + 1 ELSE 0
        /\ \A n \in 1 .. Len(p) - (Len(q) + 1) + 1 : t[n] = p[Len(q) + 1 + n - 1]
    BY <1>1, <1>3, <1>4, <1>5, SubSeqProperties DEF Path, Step
  <2>2. Len(t) = Len(r)
    BY <1>2, <1>3, <2>1
  <2>3. ASSUME NEW n \in 1 .. Len(r) PROVE t[n] = p[Len(q) + n]
    <3>1. n \in 1 .. Len(p) - (Len(q) + 1) + 1 /\ Len(q) + 1 + n - 1 = Len(q) + n
      BY <1>2, <1>3
    <3>2. QED
      BY <2>1, <3>1
  <2>4. QED
    BY <2>1, <2>2, <2>3 DEF Path, Step
<1>7. ASSUME NEW n \in 1 .. Len(r) PROVE t[n] = r[n]
  <2>1. /\ Len(q) + n \in 1 .. Len(q) + Len(r)
        /\ ~(Len(q) + n <= Len(q)) /\ (Len(q) + n) - Len(q) = n
    BY <1>3
  <2>2. p[Len(q) + n] = r[n]
    BY <1>2, <2>1
  <2>3. QED
    BY <1>6, <2>2
<1>8. t = r
  BY <1>6, <1>7, SeqEqual DEF Path
<1>9. QED
  BY <1>1, <1>5, <1>8

\* A path is a prefix of it and what is after that.
LEMMA PrefixRest ==
  ASSUME NEW q \in Path, NEW p \in Path, IsPrefix(q, p),
         NEW r, r = SubSeq(p, Len(q) + 1, Len(p))
  PROVE  r \in Path /\ p = q \o r
<1>1. Len(q) \in Nat /\ Len(p) \in Nat /\ Len(q) <= Len(p)
  BY PrefixLength
<1>2. \A n \in 1 .. Len(q) : q[n] = p[n]
  BY PrefixMeaning DEF Path
<1>3. \A n \in Len(q) + 1 .. Len(p) : p[n] \in Step
  BY <1>1, ElementOfSeq DEF Path, Step
<1>4. /\ r \in Seq(Step)
      /\ Len(r) = IF Len(q) + 1 <= Len(p) THEN Len(p) - (Len(q) + 1) + 1 ELSE 0
      /\ \A n \in 1 .. Len(p) - (Len(q) + 1) + 1 : r[n] = p[Len(q) + 1 + n - 1]
  BY <1>1, <1>3, SubSeqProperties DEF Path, Step
<1>5. r \in Path /\ Len(r) = Len(p) - Len(q)
  BY <1>1, <1>4 DEF Path, Step
<1>6. PICK t : t = q \o r
  OBVIOUS
<1>7. /\ t \in Path /\ Len(t) = Len(p)
      /\ \A n \in 1 .. Len(p) : t[n] = IF n <= Len(q) THEN q[n] ELSE r[n - Len(q)]
  BY <1>1, <1>5, <1>6, ConcatProperties DEF Path
<1>8. ASSUME NEW n \in 1 .. Len(p) PROVE t[n] = p[n]
  <2>1. CASE n <= Len(q)
    BY <1>1, <1>2, <1>7, <2>1
  <2>2. CASE ~(n <= Len(q))
    <3>1. PICK m \in 1 .. Len(p) - (Len(q) + 1) + 1 : n = Len(q) + m
      <4>1. n - Len(q) \in 1 .. Len(p) - (Len(q) + 1) + 1 /\ n = Len(q) + (n - Len(q))
        BY <1>1, <2>2
      <4>2. QED
        BY <4>1
    <3>2. n - Len(q) = m /\ Len(q) + 1 + m - 1 = n
      BY <1>1, <3>1
    <3>3. QED
      BY <1>4, <1>7, <2>2, <3>1, <3>2
  <2>3. QED
    BY <2>1, <2>2
<1>9. t = p
  BY <1>7, <1>8, SeqEqual DEF Path
<1>10. QED
  BY <1>5, <1>6, <1>9

\* A prefix in front of both makes no difference.
LEMMA ConcatPrefix ==
  ASSUME NEW q \in Path, NEW a \in Path, NEW b \in Path
  PROVE  IsPrefix(q \o a, q \o b) <=> IsPrefix(a, b)
<1>1. PICK x, y : x = q \o a /\ y = q \o b
  OBVIOUS
<1>2. /\ x \in Path /\ Len(x) = Len(q) + Len(a)
      /\ \A n \in 1 .. Len(q) + Len(a) : x[n] = IF n <= Len(q) THEN q[n] ELSE a[n - Len(q)]
  BY <1>1, ConcatProperties DEF Path
<1>3. /\ y \in Path /\ Len(y) = Len(q) + Len(b)
      /\ \A n \in 1 .. Len(q) + Len(b) : y[n] = IF n <= Len(q) THEN q[n] ELSE b[n - Len(q)]
  BY <1>1, ConcatProperties DEF Path
<1>4. Len(q) \in Nat /\ Len(a) \in Nat /\ Len(b) \in Nat
  BY LenProperties DEF Path
<1>5. IsPrefix(x, y) <=> Len(x) <= Len(y) /\ \A n \in 1 .. Len(x) : x[n] = y[n]
  <2>1. x \in Seq(STRING \X Nat) /\ y \in Seq(STRING \X Nat)
    BY <1>2, <1>3 DEF Path
  <2>2. QED
    BY <2>1, PrefixMeaning
<1>6. IsPrefix(a, b) <=> Len(a) <= Len(b) /\ \A n \in 1 .. Len(a) : a[n] = b[n]
  BY PrefixMeaning DEF Path
<1>7. Len(x) <= Len(y) <=> Len(a) <= Len(b)
  BY <1>2, <1>3, <1>4
<1>8. ASSUME Len(a) <= Len(b), \A n \in 1 .. Len(x) : x[n] = y[n],
             NEW n \in 1 .. Len(a)
      PROVE  a[n] = b[n]
  <2>1. PICK m : m = Len(q) + n
    OBVIOUS
  <2>2. /\ m \in 1 .. Len(q) + Len(a) /\ m \in 1 .. Len(q) + Len(b)
        /\ ~(m <= Len(q)) /\ m - Len(q) = n /\ m \in 1 .. Len(x)
    BY <1>2, <1>4, <1>8, <2>1
  <2>3. x[m] = a[n] /\ y[m] = b[n]
    BY <1>2, <1>3, <2>2
  <2>4. QED
    BY <1>8, <2>2, <2>3
<1>9. ASSUME Len(a) <= Len(b), \A n \in 1 .. Len(a) : a[n] = b[n],
             NEW n \in 1 .. Len(x)
      PROVE  x[n] = y[n]
  <2>1. n \in 1 .. Len(q) + Len(a) /\ n \in 1 .. Len(q) + Len(b)
    BY <1>2, <1>4, <1>9
  <2>2. CASE n <= Len(q)
    BY <1>2, <1>3, <2>1, <2>2
  <2>3. CASE ~(n <= Len(q))
    <3>1. n - Len(q) \in 1 .. Len(a)
      BY <1>4, <2>1, <2>3
    <3>2. QED
      BY <1>2, <1>3, <1>9, <2>1, <2>3, <3>1
  <2>4. QED
    BY <2>2, <2>3
<1>10. QED
  BY <1>1, <1>5, <1>6, <1>7, <1>8, <1>9

\* A step further on.
LEMMA AppendPath ==
  ASSUME NEW a \in Path, NEW s \in Step
  PROVE  Append(a, s) \in Path
<1>1. a \in Seq(Step)
  BY DEF Path, Step
<1>2. Append(a, s) \in Seq(Step)
  BY <1>1, AppendProperties
<1>3. QED
  BY <1>2 DEF Path, Step

\* A step further on below q.
LEMMA ConcatAppend ==
  ASSUME NEW q \in Path, NEW a \in Path, NEW s \in Step
  PROVE  Append(q \o a, s) = q \o Append(a, s)
<1>1. q \in Seq(Step) /\ a \in Seq(Step) /\ <<s>> \in Seq(Step) /\ q \o a \in Seq(Step)
  BY ConcatProperties DEF Path, Step
<1>2. Append(q \o a, s) = (q \o a) \o <<s>>
  BY <1>1, AppendIsConcat
<1>3. Append(a, s) = a \o <<s>>
  BY <1>1, AppendIsConcat
<1>4. (q \o a) \o <<s>> = q \o (a \o <<s>>)
  BY <1>1, ConcatAssociative
<1>5. QED
  BY <1>2, <1>3, <1>4

\* Three paths, one below the other.
LEMMA ConcatThree ==
  ASSUME NEW q \in Path, NEW a \in Path, NEW r \in Path
  PROVE  (q \o a) \o r = q \o (a \o r)
<1>1. q \in Seq(Step) /\ a \in Seq(Step) /\ r \in Seq(Step)
  BY DEF Path, Step
<1>2. QED
  BY <1>1, ConcatAssociative

\* Where a path goes on below another.
LEMMA OnTheWay ==
  ASSUME NEW p \in Path, NEW q \in Path, NEW s \in Step
  PROVE  /\ IsPrefix(Append(q, s), p) <=>
              /\ Len(q) + 1 \in 1 .. Len(p)
              /\ q = SubSeq(p, 1, Len(q)) /\ s = p[Len(q) + 1]
         /\ IsPrefix(Append(q, s), p) => IsPrefix(q, p) /\ q # p
<1>1. PICK t : t = Append(q, s)
  OBVIOUS
<1>2. /\ t \in Path /\ Len(t) = Len(q) + 1
      /\ \A n \in 1 .. Len(q) : t[n] = q[n]
      /\ t[Len(q) + 1] = s
  BY <1>1, AppendProperties DEF Path, Step
<1>3. Len(p) \in Nat /\ Len(q) \in Nat
  BY LenProperties DEF Path
<1>4. IsPrefix(t, p) <=> Len(t) <= Len(p) /\ \A n \in 1 .. Len(t) : t[n] = p[n]
  <2>1. t \in Path
    BY <1>2
  <2>2. QED
    BY <2>1, PrefixMeaning DEF Path
<1>5. ASSUME Len(q) + 1 <= Len(p)
      PROVE  /\ SubSeq(p, 1, Len(q)) \in Path /\ Len(SubSeq(p, 1, Len(q))) = Len(q)
             /\ \A n \in 1 .. Len(q) : SubSeq(p, 1, Len(q))[n] = p[n]
  <2>1. \A n \in 1 .. Len(q) : p[n] \in Step
    BY <1>3, <1>5, ElementOfSeq DEF Path, Step
  <2>2. PICK z : z = SubSeq(p, 1, Len(q))
    OBVIOUS
  <2>3. /\ z \in Seq(Step)
        /\ Len(z) = IF 1 <= Len(q) THEN Len(q) - 1 + 1 ELSE 0
        /\ \A n \in 1 .. Len(q) - 1 + 1 : z[n] = p[1 + n - 1]
    BY <1>3, <2>1, <2>2, SubSeqProperties DEF Path, Step
  <2>4. Len(z) = Len(q) /\ \A n \in 1 .. Len(q) : z[n] = p[n]
    BY <1>3, <2>3
  <2>5. QED
    BY <2>2, <2>3, <2>4 DEF Path, Step
<1>6. ASSUME IsPrefix(t, p)
      PROVE  /\ Len(q) + 1 \in 1 .. Len(p)
             /\ q = SubSeq(p, 1, Len(q)) /\ s = p[Len(q) + 1]
  <2>1. Len(q) + 1 \in 1 .. Len(p) /\ s = p[Len(q) + 1]
    BY <1>2, <1>3, <1>4, <1>6
  <2>2. \A n \in 1 .. Len(q) : q[n] = SubSeq(p, 1, Len(q))[n]
    BY <1>2, <1>3, <1>4, <1>5, <1>6, <2>1
  <2>3. q = SubSeq(p, 1, Len(q))
    BY <1>3, <1>5, <2>1, <2>2, SeqEqual DEF Path
  <2>4. QED
    BY <2>1, <2>3
<1>7. ASSUME Len(q) + 1 \in 1 .. Len(p), q = SubSeq(p, 1, Len(q)), s = p[Len(q) + 1]
      PROVE  IsPrefix(t, p)
  <2>1. \A n \in 1 .. Len(q) : q[n] = p[n]
    BY <1>3, <1>5, <1>7
  <2>2. \A n \in 1 .. Len(t) : t[n] = p[n]
    BY <1>2, <1>3, <1>7, <2>1
  <2>3. QED
    BY <1>2, <1>3, <1>4, <1>7, <2>2
<1>8. ASSUME IsPrefix(t, p) PROVE IsPrefix(q, p) /\ q # p
  <2>1. Len(q) <= Len(p) /\ q # p /\ \A n \in 1 .. Len(q) : q[n] = p[n]
    BY <1>2, <1>3, <1>4, <1>8
  <2>2. QED
    BY <2>1, PrefixMeaning DEF Path
<1>9. QED
  BY <1>1, <1>6, <1>7, <1>8

\* The value c is what v has below q.
IsBelow(c, v, q) ==
  /\ c = [r \in DOMAIN c |-> c[r]]
  /\ \A r \in DOMAIN c : r \in Path
  /\ \A r \in Path : r \in DOMAIN c <=> q \o r \in DOMAIN v
  /\ \A r \in DOMAIN c : c[r] = v[q \o r]

\* What a value at a path is.
LEMMA ValueAtFacts ==
  ASSUME NEW v, \A p \in DOMAIN v : p \in Path, NEW q \in Path, NEW c, c = ValueAt(v, q)
  PROVE  IsBelow(c, v, q)
<1> DEFINE D == {SubSeq(p, Len(q) + 1, Len(p)) : p \in {p \in DOMAIN v : IsPrefix(q, p)}}
<1>1. c = [r \in D |-> v[q \o r]]
  BY DEF ValueAt
<1>2. ASSUME NEW r \in D PROVE r \in Path /\ q \o r \in DOMAIN v
  <2>1. PICK p \in DOMAIN v : IsPrefix(q, p) /\ r = SubSeq(p, Len(q) + 1, Len(p))
    OBVIOUS
  <2>2. r \in Path /\ p = q \o r
    BY <2>1, PrefixRest
  <2>3. QED
    BY <2>1, <2>2
<1>3. ASSUME NEW r \in Path, q \o r \in DOMAIN v PROVE r \in D
  <2>1. PICK p \in DOMAIN v : p = q \o r
    BY <1>3
  <2>2. IsPrefix(q, p) /\ SubSeq(p, Len(q) + 1, Len(p)) = r
    BY <2>1, ConcatRest
  <2>3. QED
    BY <2>2
<1> HIDE DEF D
<1>4. QED
  BY <1>1, <1>2, <1>3 DEF IsBelow

\* There is one value below a path.
LEMMA BelowAlone ==
  ASSUME NEW v, NEW u, NEW q, NEW p, NEW a, NEW b, IsBelow(a, v, q), IsBelow(b, u, p),
         \A r \in Path : q \o r \in DOMAIN v <=> p \o r \in DOMAIN u,
         \A r \in Path : q \o r \in DOMAIN v => v[q \o r] = u[p \o r]
  PROVE  a = b
<1>1. \A r : r \in DOMAIN a <=> r \in DOMAIN b
  BY DEF IsBelow
<1>2. \A r \in DOMAIN a : a[r] = b[r]
  BY <1>1 DEF IsBelow
<1>3. a = [r \in DOMAIN a |-> a[r]] /\ b = [r \in DOMAIN b |-> b[r]]
  BY DEF IsBelow
<1>4. DOMAIN a = DOMAIN b
  BY <1>1
<1>5. QED
  BY <1>2, <1>3, <1>4

\* At the root there is the value itself.
LEMMA WholeValue ==
  ASSUME NEW x, x = [p \in DOMAIN x |-> x[p]], \A p \in DOMAIN x : p \in Path
  PROVE  ValueAt(x, <<>>) = x
<1>1. PICK a : a = ValueAt(x, <<>>)
  OBVIOUS
<1>2. <<>> \in Path /\ \A r \in Path : <<>> \o r = r
  BY EmptySeq, ConcatEmptySeq DEF Path
<1>3. IsBelow(a, x, <<>>)
  BY <1>1, <1>2, ValueAtFacts
<1>4. \A r : r \in DOMAIN a <=> r \in DOMAIN x
  BY <1>2, <1>3 DEF IsBelow
<1>5. \A r \in DOMAIN a : a[r] = x[r]
  BY <1>2, <1>3, <1>4 DEF IsBelow
<1>6. a = [r \in DOMAIN a |-> a[r]] /\ DOMAIN a = DOMAIN x
  BY <1>3, <1>4 DEF IsBelow
<1>7. QED
  BY <1>1, <1>5, <1>6

-----------------------------------------------------------------------------
(* Documents and merging. *)

\* A template is nil or a document.
Decoded(v) == v = Nil \/ IsDocument(v)

\* There is nothing in nil, and of what is there only the object is an object.
LEMMA NodeFacts ==
  /\ DOMAIN Nil = {}
  /\ \A x \in Node : x.node = "object" <=> x = AnObject
  /\ \A x : ALeaf(x).node = "leaf"
<1>1. \A x \in Node : x.node = "object" <=> x = AnObject
  BY DEF Node, AnObject
<1>2. QED
  BY <1>1 DEF Nil, ALeaf

\* What every template has, nil or not.
LEMMA TemplateFacts ==
  ASSUME NEW v, Decoded(v)
  PROVE  /\ v = [p \in DOMAIN v |-> v[p]]
         /\ \A p \in DOMAIN v : p \in Path /\ v[p] \in Node
         /\ \A p \in DOMAIN v : IsObject(v, p) <=> v[p] = AnObject
         /\ \A p \in DOMAIN v : \A q \in Path : IsPrefix(q, p) => q \in DOMAIN v
         /\ \A p \in DOMAIN v : IsObject(v, <<>>)
<1>1. CASE v = Nil
  <2>1. DOMAIN v = {} /\ v = [p \in {} |-> v[p]]
    BY <1>1, NodeFacts DEF Nil
  <2>2. QED
    BY <2>1
<1>2. CASE IsDocument(v)
  <2>1. IsValue(v) /\ IsObject(v, <<>>)
    BY <1>2 DEF IsDocument
  <2>2. /\ v = [p \in DOMAIN v |-> v[p]]
        /\ \A p \in DOMAIN v : p \in Path /\ v[p] \in Node
    BY <2>1 DEF IsValue
  <2>3. \A p \in DOMAIN v : IsObject(v, p) <=> v[p] = AnObject
    BY <2>2, NodeFacts DEF IsObject
  <2>4. \A p \in DOMAIN v : \A q \in Path : IsPrefix(q, p) => q \in DOMAIN v
    BY <2>1, PrefixThere
  <2>5. QED
    BY <2>1, <2>2, <2>3, <2>4
<1>3. QED
  BY <1>1, <1>2 DEF Decoded

\* Of two templates whose path stands, both have an object there.
LEMMA StandsAgree ==
  ASSUME NEW list, NEW k \in Nat, \A n \in 1 .. k : Decoded(list[n].json),
         NEW p, NEW m \in 1 .. k, NEW n \in 1 .. k,
         Stands(list, k, m, p), Stands(list, k, n, p)
  PROVE  list[m].json[p] = list[n].json[p]
<1>1. \A x \in 1 .. k : \A y \in 1 .. k :
        Stands(list, k, x, p) /\ Stands(list, k, y, p) /\ x < y
          => list[x].json[p] = list[y].json[p]
  <2>1. SUFFICES ASSUME NEW x \in 1 .. k, NEW y \in 1 .. k, x < y,
                        Stands(list, k, x, p), Stands(list, k, y, p)
                 PROVE  list[x].json[p] = list[y].json[p]
    OBVIOUS
  <2>2. p \in DOMAIN list[x].json /\ p \in DOMAIN list[y].json /\ y \in x + 1 .. k
    BY <2>1 DEF Stands
  <2>3. p \in Path /\ IsPrefix(p, p)
    BY <2>2, TemplateFacts, PrefixOrder
  <2>4. IsObject(list[x].json, p) /\ IsObject(list[y].json, p)
    BY <2>1, <2>2, <2>3 DEF Stands
  <2>5. QED
    BY <2>2, <2>4, TemplateFacts
<1>2. QED
  BY <1>1

\* What is in the merge: the paths that stand, with what any template they
\* stand in has there.
LEMMA MergedPlaces ==
  ASSUME NEW list, NEW k \in Nat, \A n \in 1 .. k : Decoded(list[n].json)
  PROVE  /\ MergedAtOnce(list, k) =
              [p \in DOMAIN MergedAtOnce(list, k) |-> MergedAtOnce(list, k)[p]]
         /\ \A p \in DOMAIN MergedAtOnce(list, k) :
              \E n \in 1 .. k : Stands(list, k, n, p)
         /\ \A p : \A n \in 1 .. k : Stands(list, k, n, p) =>
              /\ p \in DOMAIN MergedAtOnce(list, k)
              /\ MergedAtOnce(list, k)[p] = list[n].json[p]
<1> DEFINE D == UNION {{p \in DOMAIN list[n].json : Stands(list, k, n, p)} : n \in 1 .. k}
           c(p) == CHOOSE n \in 1 .. k : Stands(list, k, n, p)
<1>1. MergedAtOnce(list, k) = [p \in D |-> list[c(p)].json[p]]
  BY DEF MergedAtOnce
<1>2. \A p : p \in D <=> \E n \in 1 .. k : Stands(list, k, n, p)
  BY DEF Stands
<1>3. ASSUME NEW p, NEW n \in 1 .. k, Stands(list, k, n, p)
      PROVE  c(p) \in 1 .. k /\ Stands(list, k, c(p), p)
  BY <1>3
<1>4. ASSUME NEW p, NEW n \in 1 .. k, Stands(list, k, n, p)
      PROVE  list[c(p)].json[p] = list[n].json[p]
  BY <1>3, <1>4, StandsAgree
<1> HIDE DEF D, c
<1>5. QED
  BY <1>1, <1>2, <1>4

\* A template more: its own paths stand, and of those before the ones it has
\* nothing in the way of.
LEMMA StandsNext ==
  ASSUME NEW list, NEW k \in Nat, NEW p
  PROVE  /\ Stands(list, k + 1, k + 1, p) <=> p \in DOMAIN list[k + 1].json
         /\ \A n \in 1 .. k : Stands(list, k + 1, n, p) <=>
              /\ Stands(list, k, n, p)
              /\ \A q \in DOMAIN list[k + 1].json :
                   IsPrefix(q, p) => /\ IsObject(list[n].json, q)
                                     /\ IsObject(list[k + 1].json, q)
<1>1. ASSUME NEW n \in 1 .. k
      PROVE  n + 1 .. k + 1 = (n + 1 .. k) \cup {k + 1}
  OBVIOUS
<1>2. (k + 1) + 1 .. k + 1 = {} /\ k + 1 \in 1 .. k + 1
  OBVIOUS
<1>3. Stands(list, k + 1, k + 1, p) <=> p \in DOMAIN list[k + 1].json
  BY <1>2 DEF Stands
<1>4. ASSUME NEW n \in 1 .. k
      PROVE  Stands(list, k + 1, n, p) <=>
              /\ Stands(list, k, n, p)
              /\ \A q \in DOMAIN list[k + 1].json :
                   IsPrefix(q, p) => /\ IsObject(list[n].json, q)
                                     /\ IsObject(list[k + 1].json, q)
  <2>1. n \in 1 .. k + 1
    OBVIOUS
  <2>2. QED
    BY <1>1, <2>1, Zenon DEF Stands
<1>5. QED
  BY <1>3, <1>4

\* Where a path stands, what leads to it stands.
LEMMA StandsBelow ==
  ASSUME NEW list, NEW k \in Nat, \A n \in 1 .. k : Decoded(list[n].json),
         NEW n \in 1 .. k, NEW p, Stands(list, k, n, p),
         NEW q \in Path, IsPrefix(q, p)
  PROVE  Stands(list, k, n, q)
<1>1. p \in DOMAIN list[n].json /\ p \in Path
  BY TemplateFacts DEF Stands
<1>2. q \in DOMAIN list[n].json
  BY <1>1, TemplateFacts
<1>3. ASSUME NEW m \in n + 1 .. k, NEW r \in DOMAIN list[m].json, IsPrefix(r, q)
      PROVE  IsObject(list[n].json, r) /\ IsObject(list[m].json, r)
  <2>1. r \in Path
    BY <1>3, TemplateFacts
  <2>2. IsPrefix(r, p)
    BY <1>1, <1>3, <2>1, PrefixOrder
  <2>3. QED
    BY <1>3, <2>2 DEF Stands
<1>4. QED
  BY <1>2, <1>3 DEF Stands

\* The merge of templates is what every template is.
LEMMA MergedFacts ==
  ASSUME NEW list, NEW k \in Nat, \A n \in 1 .. k : Decoded(list[n].json),
         NEW v, v = MergedAtOnce(list, k)
  PROVE  /\ v = [p \in DOMAIN v |-> v[p]]
         /\ \A p \in DOMAIN v : p \in Path /\ v[p] \in Node
         /\ \A p \in DOMAIN v : IsObject(v, p) <=> v[p] = AnObject
         /\ \A p \in DOMAIN v : \A q \in Path : IsPrefix(q, p) => q \in DOMAIN v
         /\ \A p \in DOMAIN v : IsObject(v, <<>>)
<1>1. v = [p \in DOMAIN v |-> v[p]]
  BY MergedPlaces
<1>2. ASSUME NEW p \in DOMAIN v
      PROVE  \E n \in 1 .. k : /\ Stands(list, k, n, p)
                               /\ p \in DOMAIN list[n].json
                               /\ v[p] = list[n].json[p]
  BY MergedPlaces DEF Stands
<1>3. \A p \in DOMAIN v : p \in Path /\ v[p] \in Node
  BY <1>2, TemplateFacts
<1>4. \A p \in DOMAIN v : IsObject(v, p) <=> v[p] = AnObject
  BY <1>3, NodeFacts DEF IsObject
<1>5. ASSUME NEW p \in DOMAIN v, NEW q \in Path, IsPrefix(q, p)
      PROVE  q \in DOMAIN v
  BY <1>2, <1>5, StandsBelow, MergedPlaces
<1>6. ASSUME NEW p \in DOMAIN v PROVE IsObject(v, <<>>)
  <2>1. PICK n \in 1 .. k : Stands(list, k, n, p) /\ p \in DOMAIN list[n].json
    BY <1>2
  <2>2. <<>> \in Path /\ IsPrefix(<<>>, p)
    BY <1>3, PrefixOrder, EmptySeq DEF Path
  <2>3. Stands(list, k, n, <<>>)
    BY <2>1, <2>2, StandsBelow
  <2>4. <<>> \in DOMAIN v /\ v[<<>>] = list[n].json[<<>>]
    BY <2>3, MergedPlaces
  <2>5. IsObject(list[n].json, <<>>)
    BY <2>1, TemplateFacts
  <2>6. QED
    BY <2>4, <2>5 DEF IsObject
<1>7. QED
  BY <1>1, <1>3, <1>4, <1>5, <1>6

\* Overlaying one template more is the merge of one template more.
LEMMA MergeStep ==
  ASSUME NEW list, NEW k \in Nat, \A n \in 1 .. k + 1 : Decoded(list[n].json)
  PROVE  DeepMerge(MergedAtOnce(list, k), list[k + 1].json) = MergedAtOnce(list, k + 1)
<1> DEFINE dst == MergedAtOnce(list, k)
           src == list[k + 1].json
           all == MergedAtOnce(list, k + 1)
           Free(p) == \A q \in DOMAIN src :
                        IsPrefix(q, p) => IsObject(dst, q) /\ IsObject(src, q)
           kept == {p \in DOMAIN dst : Free(p)}
<1>1. DeepMerge(dst, src) =
        [p \in kept \cup DOMAIN src |-> IF p \in DOMAIN src THEN src[p] ELSE dst[p]]
  BY DEF DeepMerge
<1>2. /\ \A n \in 1 .. k : Decoded(list[n].json)
      /\ k + 1 \in 1 .. k + 1 /\ k + 1 \in Nat
      /\ \A n \in 1 .. k : n \in 1 .. k + 1
      /\ \A n \in 1 .. k + 1 : n \in 1 .. k \/ n = k + 1
  OBVIOUS
<1>3. ASSUME NEW n \in 1 .. k, NEW p, Stands(list, k, n, p)
      PROVE  Free(p) <=> Stands(list, k + 1, n, p)
  <2>1. p \in Path
    BY <1>2, <1>3, TemplateFacts DEF Stands
  <2>2. ASSUME NEW q \in DOMAIN src, IsPrefix(q, p)
        PROVE  IsObject(dst, q) <=> IsObject(list[n].json, q)
    <3>1. q \in Path
      BY <1>2, <2>2, TemplateFacts
    <3>2. Stands(list, k, n, q)
      BY <1>2, <1>3, <2>2, <3>1, StandsBelow
    <3>3. q \in DOMAIN dst /\ dst[q] = list[n].json[q] /\ q \in DOMAIN list[n].json
      BY <1>2, <3>2, MergedPlaces DEF Stands
    <3>4. QED
      BY <3>3 DEF IsObject
  <2>3. QED
    BY <1>3, <2>2, StandsNext
<1>4. ASSUME NEW p \in kept \ DOMAIN src
      PROVE  p \in DOMAIN all /\ all[p] = dst[p]
  <2>1. PICK n \in 1 .. k : Stands(list, k, n, p)
    BY <1>2, MergedPlaces
  <2>2. Stands(list, k + 1, n, p)
    BY <1>3, <2>1
  <2>3. QED
    BY <1>2, <2>1, <2>2, MergedPlaces
<1>5. ASSUME NEW p \in DOMAIN src
      PROVE  p \in DOMAIN all /\ all[p] = src[p]
  BY <1>2, StandsNext, MergedPlaces
<1>6. ASSUME NEW p \in DOMAIN all
      PROVE  p \in kept \cup DOMAIN src
  <2>1. PICK n \in 1 .. k + 1 : Stands(list, k + 1, n, p)
    BY <1>2, MergedPlaces
  <2>2. CASE n = k + 1
    BY <2>1, <2>2 DEF Stands
  <2>3. CASE n \in 1 .. k
    <3>1. Stands(list, k, n, p)
      BY <2>1, <2>3, StandsNext
    <3>2. p \in DOMAIN dst /\ Free(p)
      BY <1>2, <1>3, <2>1, <2>3, <3>1, MergedPlaces
    <3>3. QED
      BY <3>2
  <2>4. QED
    BY <1>2, <2>2, <2>3
<1>7. all = [p \in DOMAIN all |-> all[p]]
  BY <1>2, MergedPlaces
<1>8. DOMAIN all = kept \cup DOMAIN src
  BY <1>4, <1>5, <1>6
<1>9. \A p \in kept \cup DOMAIN src : all[p] = IF p \in DOMAIN src THEN src[p] ELSE dst[p]
  BY <1>4, <1>5
<1>10. DeepMerge(dst, src) = all
  <2> HIDE DEF dst, src, all, kept
  <2>1. QED
    BY <1>1, <1>7, <1>8, <1>9
<1>11. QED
  BY <1>10

\* What is in the way of a path.
Unhindered(dst, src, p) ==
  \A q \in DOMAIN src : IsPrefix(q, p) => IsObject(dst, q) /\ IsObject(src, q)

\* The paths of a merge.
LEMMA DeepMergePlaces ==
  ASSUME NEW dst, NEW src, NEW m, m = DeepMerge(dst, src)
  PROVE  /\ m = [p \in DOMAIN m |-> m[p]]
         /\ \A p : p \in DOMAIN m <=> \/ p \in DOMAIN src
                                     \/ (p \in DOMAIN dst /\ Unhindered(dst, src, p))
         /\ \A p \in DOMAIN m : m[p] = IF p \in DOMAIN src THEN src[p] ELSE dst[p]
<1> DEFINE kept == {p \in DOMAIN dst : Unhindered(dst, src, p)}
<1>1. m = [p \in kept \cup DOMAIN src |-> IF p \in DOMAIN src THEN src[p] ELSE dst[p]]
  BY DEF DeepMerge, Unhindered
<1>2. \A p : p \in kept <=> p \in DOMAIN dst /\ Unhindered(dst, src, p)
  OBVIOUS
<1> HIDE DEF kept
<1>3. QED
  BY <1>1, <1>2

\* Over a nil map a merge is what is merged.
LEMMA MergeOverNil ==
  ASSUME NEW src, IsDocument(src)
  PROVE  DeepMerge(Nil, src) = src
<1>1. PICK m : m = DeepMerge(Nil, src)
  OBVIOUS
<1>2. /\ m = [p \in DOMAIN m |-> m[p]]
      /\ \A p : p \in DOMAIN m <=> \/ p \in DOMAIN src
                                   \/ (p \in DOMAIN Nil /\ Unhindered(Nil, src, p))
      /\ \A p \in DOMAIN m : m[p] = IF p \in DOMAIN src THEN src[p] ELSE Nil[p]
  BY <1>1, DeepMergePlaces
<1>3. src = [p \in DOMAIN src |-> src[p]]
  BY DEF IsDocument, IsValue
<1>4. DOMAIN m = DOMAIN src /\ \A p \in DOMAIN src : m[p] = src[p]
  BY <1>2, NodeFacts
<1>5. m = src
  BY <1>2, <1>3, <1>4
<1>6. QED
  BY <1>1, <1>5

-----------------------------------------------------------------------------
(* Objects that name a variable. *)

\* An object that names a variable is in an outermost one.
LEMMA OutermostThere ==
  ASSUME NEW v, \A p \in DOMAIN v : p \in Path, NEW q \in DOMAIN v, IsVar(v, q)
  PROVE  \E t \in Outermost(v) : IsPrefix(t, q)
<1> DEFINE On == {r \in DOMAIN v : IsVar(v, r) /\ IsPrefix(r, q)}
           T == {Len(r) : r \in On}
<1>1. q \in On
  BY PrefixOrder
<1>2. \A r \in On : r \in Path /\ Len(r) \in Nat
  BY LenProperties DEF Path
<1>3. PICK n \in T : \A m \in T : n <= m
  <2>1. T \subseteq Nat /\ T # {}
    BY <1>1, <1>2
  <2>2. QED
    BY <2>1, Least
<1>4. PICK t \in On : n = Len(t)
  OBVIOUS
<1>5. ASSUME NEW r \in DOMAIN v, IsVar(v, r), IsPrefix(r, t) PROVE r = t
  <2>1. r \in Path /\ t \in Path /\ q \in Path
    BY <1>2
  <2>2. r \in On
    BY <1>4, <1>5, <2>1, PrefixOrder
  <2>3. Len(t) <= Len(r)
    BY <1>3, <1>4, <2>2
  <2>4. QED
    BY <1>5, <2>1, <2>3, PrefixLength
<1>6. QED
  BY <1>4, <1>5 DEF Outermost

\* Only one outermost object is on the way to a path.
LEMMA OutermostApart ==
  ASSUME NEW v, \A p \in DOMAIN v : p \in Path,
         NEW t \in Outermost(v), NEW u \in Outermost(v),
         NEW p \in Path, IsPrefix(t, p), IsPrefix(u, p)
  PROVE  t = u
<1>1. t \in Path /\ u \in Path
  BY DEF Outermost
<1>2. IsPrefix(t, u) \/ IsPrefix(u, t)
  BY <1>1, PrefixOrder
<1>3. QED
  BY <1>2 DEF Outermost

\* What is put in place of an object has paths.
LEMMA ReplacementPaths ==
  ASSUME NEW v, \A p \in DOMAIN v : p \in Path, NEW q \in Path,
         NEW r \in DOMAIN Replacement(v, q)
  PROVE  r \in Path
<1>1. <<>> \in Path
  BY EmptySeq DEF Path
<1>2. Append(q, Field(DefaultField)) \in Path
  BY StringsAssumption, AppendProperties DEF Path, Field
<1>3. DOMAIN LeafValue(Vars[PathOf(v, q)]) = {<<>>}
  BY DEF LeafValue
<1>4. QED
  BY <1>1, <1>2, <1>3, ValueAtFacts DEF Replacement, IsBelow

\* Nothing that is replaced is on the way to p.
Untouched(v, p) == \A t \in Outermost(v) : ~IsPrefix(t, p)

\* The value w is v with its outermost objects replaced.
IsWalk(w, v) ==
  /\ w = [p \in DOMAIN w |-> w[p]]
  /\ \A p \in DOMAIN w :
       \/ (p \in DOMAIN v /\ Untouched(v, p))
       \/ \E t \in Outermost(v) : \E r \in DOMAIN Replacement(v, t) : p = t \o r
  /\ \A p \in DOMAIN v : Untouched(v, p) => p \in DOMAIN w /\ w[p] = v[p]
  /\ \A t \in Outermost(v) : \A r \in DOMAIN Replacement(v, t) :
       t \o r \in DOMAIN w /\ w[t \o r] = Replacement(v, t)[r]

\* What replacing does to every path.
LEMMA WalkFacts ==
  ASSUME NEW v, \A p \in DOMAIN v : p \in Path, NEW w, w = Walk(v)
  PROVE  IsWalk(w, v)
<1> DEFINE tops == Outermost(v)
           new == [q \in tops |-> Replacement(v, q)]
           kept == {p \in DOMAIN v : \A q \in tops : ~IsPrefix(q, p)}
           put == UNION {{q \o r : r \in DOMAIN new[q]} : q \in tops}
           top(p) == CHOOSE q \in tops : IsPrefix(q, p)
<1>1. w = [p \in kept \cup put |->
             IF p \in kept THEN v[p]
             ELSE new[top(p)][SubSeq(p, Len(top(p)) + 1, Len(p))]]
  BY DEF Walk, Replaced
<1>2. \A q \in tops : q \in Path
  BY DEF Outermost
<1>3. ASSUME NEW t \in tops, NEW r \in DOMAIN Replacement(v, t)
      PROVE  /\ t \o r \in put /\ t \o r \notin kept
             /\ new[top(t \o r)][SubSeq(t \o r, Len(top(t \o r)) + 1, Len(t \o r))] =
                  Replacement(v, t)[r]
  <2>1. t \in Path /\ r \in Path
    BY <1>2, <1>3, ReplacementPaths
  <2>2. PICK p \in Path : /\ p = t \o r /\ IsPrefix(t, p)
                          /\ SubSeq(p, Len(t) + 1, Len(p)) = r
    BY <2>1, ConcatRest
  <2>3. top(p) \in tops /\ IsPrefix(top(p), p)
    BY <2>2
  <2>4. top(p) = t
    BY <2>2, <2>3, OutermostApart
  <2>5. p \in put /\ p \notin kept
    <3>1. DOMAIN new[t] = DOMAIN Replacement(v, t)
      OBVIOUS
    <3>2. p \in {t \o z : z \in DOMAIN new[t]}
      BY <2>2, <3>1
    <3>3. p \in put
      BY <3>2
    <3>4. QED
      BY <2>2, <3>3
  <2>6. new[top(p)][SubSeq(p, Len(top(p)) + 1, Len(p))] = Replacement(v, t)[r]
    BY <2>2, <2>4
  <2>7. QED
    BY <2>2, <2>5, <2>6
<1>4. \A p : p \in kept <=> p \in DOMAIN v /\ Untouched(v, p)
  BY DEF Untouched
<1>5. ASSUME NEW p \in put
      PROVE  \E t \in tops : \E r \in DOMAIN Replacement(v, t) : p = t \o r
  OBVIOUS
<1> HIDE DEF tops, new, kept, put, top
<1>6. DOMAIN w = kept \cup put /\ w = [p \in DOMAIN w |-> w[p]]
  BY <1>1
<1>7. \A p \in kept : w[p] = v[p]
  BY <1>1
<1>8. ASSUME NEW t \in tops, NEW r \in DOMAIN Replacement(v, t)
      PROVE  t \o r \in DOMAIN w /\ w[t \o r] = Replacement(v, t)[r]
  BY <1>1, <1>3
<1>9. QED
  BY <1>4, <1>5, <1>6, <1>7, <1>8 DEF IsWalk, tops

\* What replacing leaves: what no object that names a variable is on the way
\* to, and what is put in the place of an outermost one, a string if the
\* variable is known.
LEMMA WalkPlaces ==
  ASSUME NEW v, \A p \in DOMAIN v : p \in Path
  PROVE  /\ \A p \in DOMAIN v : (\A t \in Outermost(v) : ~IsPrefix(t, p)) =>
              p \in DOMAIN Walk(v) /\ Walk(v)[p] = v[p]
         /\ \A p \in DOMAIN Walk(v) :
              /\ p \in Path
              /\ \/ /\ p \in DOMAIN v /\ Walk(v)[p] = v[p]
                    /\ \A t \in Outermost(v) : ~IsPrefix(t, p)
                 \/ \E t \in Outermost(v) :
                      /\ IsPrefix(t, p)
                      /\ PathOf(v, t) \in DOMAIN Vars =>
                           p = t /\ Walk(v)[p].node = "leaf"
<1>1. IsWalk(Walk(v), v)
  BY WalkFacts
<1>2. ASSUME NEW p \in DOMAIN Walk(v)
      PROVE  /\ p \in Path
             /\ \/ /\ p \in DOMAIN v /\ Walk(v)[p] = v[p]
                   /\ \A t \in Outermost(v) : ~IsPrefix(t, p)
                \/ \E t \in Outermost(v) :
                     /\ IsPrefix(t, p)
                     /\ PathOf(v, t) \in DOMAIN Vars =>
                          p = t /\ Walk(v)[p].node = "leaf"
  <2>1. CASE p \in DOMAIN v /\ Untouched(v, p)
    BY <1>1, <2>1 DEF IsWalk, Untouched
  <2>2. CASE \E t \in Outermost(v) : \E r \in DOMAIN Replacement(v, t) : p = t \o r
    <3>1. PICK t \in Outermost(v) : \E r \in DOMAIN Replacement(v, t) : p = t \o r
      BY <2>2
    <3>2. PICK r \in DOMAIN Replacement(v, t) : p = t \o r
      BY <3>1
    <3>3. t \in Path /\ r \in Path
      BY ReplacementPaths DEF Outermost
    <3>4. p \in Path /\ IsPrefix(t, p)
      BY <3>2, <3>3, PrefixConcat
    <3>5. ASSUME PathOf(v, t) \in DOMAIN Vars
          PROVE  p = t /\ Walk(v)[p].node = "leaf"
      <4>1. r = <<>> /\ Replacement(v, t)[r].node = "leaf"
        BY <3>5 DEF Replacement, LeafValue, ALeaf
      <4>2. t \o <<>> = t
        BY <3>3, ConcatEmptySeq DEF Path
      <4>3. Walk(v)[t \o r] = Replacement(v, t)[r]
        BY <1>1 DEF IsWalk
      <4>4. QED
        BY <3>2, <4>1, <4>2, <4>3
    <3>6. QED
      BY <3>4, <3>5
  <2>3. QED
    BY <1>1, <2>1, <2>2 DEF IsWalk
<1>3. QED
  BY <1>1, <1>2 DEF IsWalk, Untouched

-----------------------------------------------------------------------------
(* Values stay values. *)

\* What there is to be a field or an item of.
Holder(s) == IF s[2] = 0 THEN AnObject ELSE AList

\* The value v has what leads to its paths.
Formed(v) ==
  /\ v = [p \in DOMAIN v |-> v[p]]
  /\ IsFiniteSet(DOMAIN v)
  /\ <<>> \in DOMAIN v
  /\ \A p \in DOMAIN v : p \in Path /\ v[p] \in Node
  /\ \A p \in DOMAIN v : \A q \in Path : \A s \in Step :
       IsPrefix(Append(q, s), p) => q \in DOMAIN v /\ v[q] = Holder(s)

\* That is what a value is.
LEMMA ValueFormed ==
  ASSUME NEW v
  PROVE  IsValue(v) <=> Formed(v)
<1>1. ASSUME IsValue(v), NEW p \in DOMAIN v, NEW q \in Path, NEW s \in Step,
             IsPrefix(Append(q, s), p)
      PROVE  q \in DOMAIN v /\ v[q] = Holder(s)
  <2>1. p \in Path
    BY <1>1 DEF IsValue
  <2>2. /\ Len(q) + 1 \in 1 .. Len(p)
        /\ q = SubSeq(p, 1, Len(q)) /\ s = p[Len(q) + 1]
    BY <1>1, <2>1, OnTheWay
  <2>3. PICK n \in 1 .. Len(p) : n = Len(q) + 1
    BY <2>2
  <2>4. Len(q) \in Nat /\ n - 1 = Len(q)
    BY <2>3, LenProperties DEF Path
  <2>5. /\ SubSeq(p, 1, n - 1) \in DOMAIN v
        /\ v[SubSeq(p, 1, n - 1)] = IF p[n][2] = 0 THEN AnObject ELSE AList
    BY <1>1 DEF IsValue
  <2>6. QED
    BY <2>2, <2>3, <2>4, <2>5 DEF Holder
<1>2. ASSUME Formed(v), NEW p \in DOMAIN v, NEW n \in 1 .. Len(p)
      PROVE  /\ SubSeq(p, 1, n - 1) \in DOMAIN v
             /\ v[SubSeq(p, 1, n - 1)] = IF p[n][2] = 0 THEN AnObject ELSE AList
  <2>1. p \in Path /\ Len(p) \in Nat
    BY <1>2, LenProperties DEF Formed, Path
  <2>2. \A m \in 1 .. Len(p) : p[m] \in Step
    BY <2>1, ElementOfSeq DEF Path, Step
  <2>3. PICK q, s : q = SubSeq(p, 1, n - 1) /\ s = p[n]
    OBVIOUS
  <2>4. q \in Path /\ Len(q) = n - 1
    <3>1. \A m \in 1 .. n - 1 : p[m] \in Step
      BY <2>1, <2>2
    <3>2. n - 1 \in Nat /\ n - 1 <= Len(p)
      BY <2>1
    <3>3. q \in Seq(Step) /\ Len(q) = IF 1 <= n - 1 THEN n - 1 - 1 + 1 ELSE 0
      BY <2>1, <2>3, <3>1, <3>2, SubSeqProperties DEF Path, Step
    <3>4. QED
      BY <3>2, <3>3 DEF Path, Step
  <2>5. s \in Step
    BY <2>2, <2>3
  <2>6. Len(q) + 1 = n /\ q = SubSeq(p, 1, Len(q)) /\ s = p[Len(q) + 1]
    <3>1. Len(q) + 1 = n
      BY <2>1, <2>4
    <3>2. QED
      BY <2>3, <2>4, <3>1
  <2>7. IsPrefix(Append(q, s), p)
    BY <2>1, <2>4, <2>5, <2>6, OnTheWay
  <2>8. q \in DOMAIN v /\ v[q] = Holder(s)
    BY <1>2, <2>4, <2>5, <2>7 DEF Formed
  <2>9. QED
    BY <2>3, <2>8 DEF Holder
<1>3. IsValue(v) => Formed(v)
  BY <1>1 DEF IsValue, Formed
<1>4. Formed(v) => IsValue(v)
  BY <1>2 DEF IsValue, Formed
<1>5. QED
  BY <1>3, <1>4

\* What has a path of a value on the way is on the way itself.
LEMMA HolderFacts ==
  ASSUME NEW s \in Step
  PROVE  /\ Holder(s) \in Node /\ Holder(s).node # "leaf"
         /\ Holder(s).node = "object" => Holder(s) = AnObject
BY DEF Holder, Node, AnObject, AList

\* A leaf, or an object without fields.
LEMMA RootAlone ==
  ASSUME NEW node \in Node
  PROVE  IsValue([p \in {<<>>} |-> node])
<1>1. PICK v : v = [p \in {<<>>} |-> node]
  OBVIOUS
<1>2. DOMAIN v = {<<>>} /\ v[<<>>] = node /\ v = [p \in DOMAIN v |-> v[p]]
  BY <1>1
<1>3. <<>> \in Path
  BY EmptySeq DEF Path
<1>4. \A p \in DOMAIN v : \A q \in Path : \A s \in Step : ~IsPrefix(Append(q, s), p)
  <2>1. SUFFICES ASSUME NEW q \in Path, NEW s \in Step, IsPrefix(Append(q, s), <<>>)
                 PROVE  FALSE
    BY <1>2
  <2>2. Append(q, s) \in Path /\ Append(q, s) # q /\ IsPrefix(q, Append(q, s))
    BY PrefixAppend DEF Step
  <2>3. PICK t \in Path : t = Append(q, s)
    BY <2>2
  <2>4. t = <<>>
    BY <2>1, <2>3, PrefixOrder
  <2>5. q = <<>>
    BY <2>2, <2>3, <2>4, PrefixOrder
  <2>6. QED
    BY <2>2, <2>3, <2>4, <2>5
<1>5. Formed(v)
  BY <1>2, <1>3, <1>4, FS_Singleton DEF Formed
<1>6. QED
  BY <1>1, <1>5, ValueFormed

\* A merge of documents is one.
LEMMA MergeDocument ==
  ASSUME NEW dst, dst = Nil \/ IsDocument(dst), NEW src, IsDocument(src)
  PROVE  IsDocument(DeepMerge(dst, src))
<1>1. CASE dst = Nil
  BY <1>1, MergeOverNil
<1>2. CASE dst # Nil
  <2>1. PICK m : m = DeepMerge(dst, src)
    OBVIOUS
  <2>2. /\ m = [p \in DOMAIN m |-> m[p]]
        /\ \A p : p \in DOMAIN m <=> \/ p \in DOMAIN src
                                     \/ (p \in DOMAIN dst /\ Unhindered(dst, src, p))
        /\ \A p \in DOMAIN m : m[p] = IF p \in DOMAIN src THEN src[p] ELSE dst[p]
    BY <2>1, DeepMergePlaces
  <2>3. Formed(dst) /\ Formed(src)
    BY <1>2, ValueFormed DEF IsDocument
  <2>4. IsFiniteSet(DOMAIN m)
    <3>1. IsFiniteSet(DOMAIN dst \cup DOMAIN src)
      BY <2>3, FS_Union DEF Formed
    <3>2. DOMAIN m \in SUBSET (DOMAIN dst \cup DOMAIN src)
      BY <2>2
    <3>3. QED
      BY <3>1, <3>2, FS_Subset
  <2>5. <<>> \in DOMAIN m /\ IsObject(m, <<>>)
    BY <2>2, <2>3 DEF Formed, IsDocument, IsObject
  <2>6. \A p \in DOMAIN m : p \in Path /\ m[p] \in Node
    BY <2>2, <2>3 DEF Formed
  <2>7. ASSUME NEW p \in DOMAIN m, NEW q \in Path, NEW s \in Step,
               IsPrefix(Append(q, s), p)
        PROVE  q \in DOMAIN m /\ m[q] = Holder(s)
    <3>1. CASE p \in DOMAIN src
      BY <2>2, <2>3, <2>7, <3>1 DEF Formed
    <3>2. CASE p \in DOMAIN dst /\ Unhindered(dst, src, p)
      <4>1. q \in DOMAIN dst /\ dst[q] = Holder(s)
        BY <2>3, <2>7, <3>2 DEF Formed
      <4>2. p \in Path /\ IsPrefix(q, p)
        BY <2>6, <2>7, OnTheWay
      <4>3. Unhindered(dst, src, q)
        <5>1. SUFFICES ASSUME NEW z \in DOMAIN src, IsPrefix(z, q)
                       PROVE  IsObject(dst, z) /\ IsObject(src, z)
          BY DEF Unhindered
        <5>2. z \in Path
          BY <2>3 DEF Formed
        <5>3. IsPrefix(z, p)
          BY <4>2, <5>1, <5>2, PrefixOrder
        <5>4. QED
          BY <3>2, <5>1, <5>3 DEF Unhindered
      <4>4. q \in DOMAIN m
        BY <2>2, <4>1, <4>3
      <4>5. CASE q \in DOMAIN src
        <5>1. IsObject(dst, q) /\ IsObject(src, q)
          BY <3>2, <4>2, <4>5 DEF Unhindered
        <5>2. src[q] = AnObject /\ dst[q] = AnObject
          BY <2>3, <5>1, NodeFacts DEF Formed, IsObject
        <5>3. QED
          BY <2>2, <4>1, <4>4, <4>5, <5>2
      <4>6. CASE q \notin DOMAIN src
        BY <2>2, <4>1, <4>4, <4>6
      <4>7. QED
        BY <4>5, <4>6
    <3>3. QED
      BY <2>2, <3>1, <3>2
  <2>8. Formed(m)
    BY <2>2, <2>4, <2>5, <2>6, <2>7 DEF Formed
  <2>9. QED
    BY <2>1, <2>5, <2>8, ValueFormed DEF IsDocument
<1>3. QED
  BY <1>1, <1>2

\* A value with its strings expanded is one.
LEMMA ExpandValue ==
  ASSUME NEW x, IsValue(x), NEW e, e = Expand(x)
  PROVE  IsValue(e) /\ (IsObject(x, <<>>) => IsObject(e, <<>>))
<1>1. /\ e = [p \in DOMAIN e |-> e[p]] /\ DOMAIN e = DOMAIN x
      /\ \A p \in DOMAIN x :
           e[p] = IF IsLeaf(x, p) /\ x[p].text \in DOMAIN Expansion
                  THEN ALeaf(Expansion[x[p].text]) ELSE x[p]
  BY DEF Expand
<1>2. Formed(x)
  BY ValueFormed
<1>3. \A p \in DOMAIN e : p \in Path /\ e[p] \in Node
  <2>1. \A t \in DOMAIN Expansion : ALeaf(Expansion[t]) \in Node
    BY StringsAssumption DEF ALeaf, Node
  <2>2. QED
    BY <1>1, <1>2, <2>1 DEF Formed
<1>4. ASSUME NEW p \in DOMAIN e, NEW q \in Path, NEW s \in Step,
             IsPrefix(Append(q, s), p)
      PROVE  q \in DOMAIN e /\ e[q] = Holder(s)
  <2>1. q \in DOMAIN x /\ x[q] = Holder(s)
    BY <1>1, <1>2, <1>4 DEF Formed
  <2>2. ~IsLeaf(x, q)
    BY <2>1, HolderFacts DEF IsLeaf
  <2>3. QED
    BY <1>1, <2>1, <2>2
<1>5. IsFiniteSet(DOMAIN e) /\ <<>> \in DOMAIN e
  BY <1>1, <1>2 DEF Formed
<1>6. Formed(e)
  BY <1>1, <1>3, <1>4, <1>5 DEF Formed
<1>7. IsObject(x, <<>>) => IsObject(e, <<>>)
  BY <1>1 DEF IsObject, IsLeaf
<1>8. QED
  BY <1>6, <1>7, ValueFormed

\* What a function with a finite domain takes on is finite.
LEMMA ImageFinite ==
  ASSUME NEW f, IsFiniteSet(DOMAIN f)
  PROVE  IsFiniteSet({f[x] : x \in DOMAIN f})
<1> DEFINE T == {f[x] : x \in DOMAIN f}
           g == [x \in DOMAIN f |-> f[x]]
<1>1. g \in [DOMAIN f -> T] /\ \A y \in T : \E x \in DOMAIN f : g[x] = y
  OBVIOUS
<1>2. g \in Surjection(DOMAIN f, T)
  BY <1>1 DEF Surjection
<1>3. QED
  BY <1>2, FS_Surjection

\* What is at a path of a value is one.
LEMMA ValueAtValue ==
  ASSUME NEW v, IsValue(v), NEW q \in DOMAIN v, NEW c, c = ValueAt(v, q)
  PROVE  IsValue(c)
<1>1. Formed(v) /\ q \in Path
  BY ValueFormed DEF Formed
<1>2. IsBelow(c, v, q)
  <2>1. \A p \in DOMAIN v : p \in Path
    BY <1>1 DEF Formed
  <2>2. QED
    BY <1>1, <2>1, ValueAtFacts
<1>3. <<>> \in Path /\ q \o <<>> = q
  BY <1>1, EmptySeq, ConcatEmptySeq DEF Path
<1>4. <<>> \in DOMAIN c
  BY <1>2, <1>3 DEF IsBelow
<1>5. ASSUME NEW p \in DOMAIN c PROVE p \in Path /\ c[p] \in Node
  BY <1>1, <1>2 DEF IsBelow, Formed
<1>6. ASSUME NEW p \in DOMAIN c, NEW a \in Path, NEW s \in Step,
             IsPrefix(Append(a, s), p)
      PROVE  a \in DOMAIN c /\ c[a] = Holder(s)
  <2>1. p \in Path /\ q \o p \in DOMAIN v
    BY <1>2 DEF IsBelow
  <2>2. PICK t \in Path : t = Append(a, s)
    BY AppendPath
  <2>3. Append(q \o a, s) = q \o t
    BY <1>1, <2>2, ConcatAppend
  <2>4. IsPrefix(q \o t, q \o p)
    BY <1>1, <1>6, <2>1, <2>2, ConcatPrefix
  <2>5. PICK z \in Path : z = q \o a
    BY <1>1, PrefixConcat
  <2>6. IsPrefix(Append(z, s), q \o p)
    BY <2>3, <2>4, <2>5
  <2>7. z \in DOMAIN v /\ v[z] = Holder(s)
    BY <1>1, <2>1, <2>6 DEF Formed
  <2>8. QED
    BY <1>2, <2>5, <2>7 DEF IsBelow
<1>7. IsFiniteSet(DOMAIN c)
  <2> DEFINE f == [p \in DOMAIN v |-> SubSeq(p, Len(q) + 1, Len(p))]
  <2>1. IsFiniteSet({f[p] : p \in DOMAIN f})
    BY <1>1, ImageFinite DEF Formed
  <2>2. DOMAIN c \in SUBSET {f[p] : p \in DOMAIN f}
    BY DEF ValueAt
  <2>3. QED
    BY <2>1, <2>2, FS_Subset
<1>8. c = [p \in DOMAIN c |-> c[p]]
  BY <1>2 DEF IsBelow
<1>9. QED
  BY <1>4, <1>5, <1>6, <1>7, <1>8, ValueFormed DEF Formed

\* What is put in place of an object is a value.
LEMMA ReplacementValue ==
  ASSUME NEW v, IsValue(v), NEW t \in Outermost(v)
  PROVE  IsValue(Replacement(v, t))
<1>1. t \in DOMAIN v
  BY DEF Outermost
<1>2. CASE PathOf(v, t) \in DOMAIN Vars
  <2>1. ALeaf(Vars[PathOf(v, t)]) \in Node
    BY <1>2, StringsAssumption DEF ALeaf, Node
  <2>2. IsValue(LeafValue(Vars[PathOf(v, t)]))
    BY <2>1, RootAlone DEF LeafValue
  <2>3. QED
    BY <1>2, <2>2 DEF Replacement
<1>3. CASE PathOf(v, t) \notin DOMAIN Vars
  <2>1. PICK d : d = Append(t, Field(DefaultField))
    OBVIOUS
  <2>2. CASE d \in DOMAIN v
    <3>1. IsValue(ValueAt(v, d))
      BY <2>2, ValueAtValue
    <3>2. QED
      BY <1>3, <2>1, <2>2, <3>1 DEF Replacement
  <2>3. CASE d \notin DOMAIN v
    <3>1. IsValue(ValueAt(v, t))
      BY <1>1, ValueAtValue
    <3>2. QED
      BY <1>3, <2>1, <2>3, <3>1 DEF Replacement
  <2>4. QED
    BY <2>2, <2>3
<1>4. QED
  BY <1>2, <1>3

\* A value with the objects replaced that name a variable is one.
LEMMA WalkValue ==
  ASSUME NEW v, IsValue(v), NEW w, w = Walk(v)
  PROVE  IsValue(w)
<1>1. Formed(v) /\ <<>> \in Path
  BY ValueFormed, EmptySeq DEF Path
<1>2. \A p \in DOMAIN v : p \in Path
  BY <1>1 DEF Formed
<1>3. IsWalk(w, v)
  BY <1>2, WalkFacts
<1>4. ASSUME NEW t \in Outermost(v)
      PROVE  /\ t \in DOMAIN v /\ t \in Path
             /\ Formed(Replacement(v, t))
  BY <1>2, ReplacementValue, ValueFormed DEF Outermost
<1>5. <<>> \in DOMAIN w
  <2>1. CASE Untouched(v, <<>>)
    BY <1>1, <1>3, <2>1 DEF IsWalk, Formed
  <2>2. CASE ~Untouched(v, <<>>)
    <3>1. PICK t \in Outermost(v) : IsPrefix(t, <<>>)
      BY <2>2 DEF Untouched
    <3>2. t = <<>>
      BY <1>1, <1>4, <3>1, PrefixOrder
    <3>3. <<>> \in DOMAIN Replacement(v, t)
      BY <1>4 DEF Formed
    <3>4. t \o <<>> \in DOMAIN w
      BY <1>3, <3>3 DEF IsWalk
    <3>5. <<>> \o <<>> = <<>>
      BY <1>1, ConcatEmptySeq DEF Path
    <3>6. QED
      BY <3>2, <3>4, <3>5
  <2>3. QED
    BY <2>1, <2>2
<1>6. ASSUME NEW p \in DOMAIN w,
             \E t \in Outermost(v) : \E r \in DOMAIN Replacement(v, t) : p = t \o r
      PROVE  \E t \in Outermost(v) : \E r \in Path :
               /\ t \in Path /\ p \in Path /\ p = t \o r /\ IsPrefix(t, p)
               /\ r \in DOMAIN Replacement(v, t)
               /\ w[p] = Replacement(v, t)[r]
  <2>1. PICK t \in Outermost(v) : \E r \in DOMAIN Replacement(v, t) : p = t \o r
    BY <1>6
  <2>2. PICK r \in DOMAIN Replacement(v, t) : p = t \o r
    BY <2>1
  <2>3. t \in Path /\ r \in Path
    BY <1>4 DEF Formed
  <2>4. p \in Path /\ IsPrefix(t, p)
    BY <2>2, <2>3, PrefixConcat
  <2>5. w[p] = Replacement(v, t)[r]
    BY <1>3, <2>2 DEF IsWalk
  <2>6. QED
    BY <2>2, <2>3, <2>4, <2>5
<1>7. ASSUME NEW p \in DOMAIN w PROVE p \in Path /\ w[p] \in Node
  <2>1. CASE p \in DOMAIN v /\ Untouched(v, p)
    BY <1>1, <1>3, <2>1 DEF IsWalk, Formed
  <2>2. CASE \E t \in Outermost(v) : \E r \in DOMAIN Replacement(v, t) : p = t \o r
    <3>1. PICK t \in Outermost(v) : \E r \in Path :
               /\ t \in Path /\ p \in Path /\ p = t \o r /\ IsPrefix(t, p)
               /\ r \in DOMAIN Replacement(v, t)
               /\ w[p] = Replacement(v, t)[r]
      BY <1>6, <2>2
    <3>2. PICK r \in Path :
               /\ t \in Path /\ p \in Path /\ p = t \o r /\ IsPrefix(t, p)
               /\ r \in DOMAIN Replacement(v, t)
               /\ w[p] = Replacement(v, t)[r]
      BY <3>1
    <3>3. QED
      BY <1>4, <3>2 DEF Formed
  <2>3. QED
    BY <1>3, <2>1, <2>2 DEF IsWalk
<1>8. ASSUME NEW q \in DOMAIN v, q \in Path, NEW t \in Outermost(v), IsPrefix(q, t), q # t
      PROVE  q \in DOMAIN w /\ w[q] = v[q]
  <2>1. Untouched(v, q)
    <3>1. SUFFICES ASSUME NEW u \in Outermost(v), IsPrefix(u, q) PROVE FALSE
      BY DEF Untouched
    <3>2. u \in Path /\ t \in Path
      BY <1>4
    <3>3. IsPrefix(u, t)
      BY <1>8, <3>1, <3>2, PrefixOrder
    <3>4. IsPrefix(t, t)
      BY <3>2, PrefixOrder
    <3>5. u = t
      BY <1>2, <3>2, <3>3, <3>4, OutermostApart
    <3>6. QED
      BY <1>8, <3>1, <3>2, <3>5, PrefixOrder
  <2>2. QED
    BY <1>3, <2>1 DEF IsWalk
<1>9. ASSUME NEW p \in DOMAIN w, NEW q \in Path, NEW s \in Step,
             IsPrefix(Append(q, s), p)
      PROVE  q \in DOMAIN w /\ w[q] = Holder(s)
  <2>1. p \in Path /\ IsPrefix(q, p)
    BY <1>7, <1>9, OnTheWay
  <2>2. CASE p \in DOMAIN v /\ Untouched(v, p)
    <3>1. q \in DOMAIN v /\ v[q] = Holder(s)
      BY <1>1, <1>9, <2>2 DEF Formed
    <3>2. Untouched(v, q)
      <4>1. SUFFICES ASSUME NEW u \in Outermost(v), IsPrefix(u, q) PROVE FALSE
        BY DEF Untouched
      <4>2. IsPrefix(u, p)
        BY <1>4, <2>1, <4>1, PrefixOrder
      <4>3. QED
        BY <2>2, <4>2 DEF Untouched
    <3>3. QED
      BY <1>3, <3>1, <3>2 DEF IsWalk
  <2>3. CASE \E t \in Outermost(v) : \E r \in DOMAIN Replacement(v, t) : p = t \o r
    <3>1. PICK t \in Outermost(v) : \E r \in Path :
               /\ t \in Path /\ p \in Path /\ p = t \o r /\ IsPrefix(t, p)
               /\ r \in DOMAIN Replacement(v, t)
               /\ w[p] = Replacement(v, t)[r]
      BY <1>6, <2>3
    <3>2. PICK r \in Path :
               /\ t \in Path /\ p \in Path /\ p = t \o r /\ IsPrefix(t, p)
               /\ r \in DOMAIN Replacement(v, t)
               /\ w[p] = Replacement(v, t)[r]
      BY <3>1
    <3>3. PICK a \in Path : a = Append(q, s)
      BY AppendPath
    <3>4. IsPrefix(a, p) /\ IsPrefix(t, p)
      BY <1>9, <3>2, <3>3
    <3>5. CASE IsPrefix(t, q)
      <4>1. PICK k : k = SubSeq(q, Len(t) + 1, Len(q))
        OBVIOUS
      <4>2. k \in Path /\ q = t \o k
        BY <3>2, <3>5, <4>1, PrefixRest
      <4>3. PICK b \in Path : b = Append(k, s)
        BY <4>2, AppendPath
      <4>4. a = t \o b
        <5>1. t \in Path /\ k \in Path
          BY <3>2, <4>2
        <5>2. Append(t \o k, s) = t \o Append(k, s)
          BY <5>1, ConcatAppend
        <5>3. QED
          BY <3>3, <4>2, <4>3, <5>2
      <4>5. IsPrefix(b, r)
        BY <3>2, <3>4, <4>4, ConcatPrefix
      <4>6. k \in DOMAIN Replacement(v, t) /\ Replacement(v, t)[k] = Holder(s)
        BY <1>4, <3>2, <4>2, <4>3, <4>5 DEF Formed
      <4>7. QED
        BY <1>3, <4>2, <4>6 DEF IsWalk
    <3>6. CASE ~IsPrefix(t, q)
      <4>1. IsPrefix(a, t)
        <5>1. IsPrefix(t, a) \/ IsPrefix(a, t)
          BY <2>1, <3>2, <3>4, PrefixOrder
        <5>2. IsPrefix(t, a) => t = a
          BY <3>2, <3>3, <3>6, PrefixAppend DEF Step
        <5>3. IsPrefix(a, a)
          BY PrefixOrder
        <5>4. QED
          BY <5>1, <5>2, <5>3
      <4>2. q \in DOMAIN v /\ v[q] = Holder(s)
        BY <1>1, <1>4, <3>3, <4>1 DEF Formed
      <4>3. IsPrefix(q, t) /\ q # t
        BY <1>4, <3>3, <4>1, OnTheWay
      <4>4. QED
        BY <1>8, <4>2, <4>3
    <3>7. QED
      BY <3>5, <3>6
  <2>4. QED
    BY <1>3, <2>2, <2>3 DEF IsWalk
<1>10. IsFiniteSet(DOMAIN w)
  <2> DEFINE at(t) == {t \o r : r \in DOMAIN Replacement(v, t)}
             f == [t \in Outermost(v) |-> at(t)]
             put == UNION {f[t] : t \in DOMAIN f}
  <2>1. ASSUME NEW t \in Outermost(v) PROVE IsFiniteSet(at(t))
    <3> DEFINE g == [r \in DOMAIN Replacement(v, t) |-> t \o r]
    <3>1. IsFiniteSet(DOMAIN g)
      BY <1>4 DEF Formed
    <3>2. PICK h : h = g
      OBVIOUS
    <3>3. IsFiniteSet({h[r] : r \in DOMAIN h})
      BY <3>1, <3>2, ImageFinite
    <3>4. {h[r] : r \in DOMAIN h} = at(t)
      BY <3>2
    <3>5. QED
      BY <3>3, <3>4
  <2>2. IsFiniteSet(Outermost(v))
    <3>1. Outermost(v) \in SUBSET DOMAIN v
      BY DEF Outermost
    <3>2. QED
      BY <1>1, <3>1, FS_Subset DEF Formed
  <2>3. IsFiniteSet({f[t] : t \in DOMAIN f})
    BY <2>2, ImageFinite
  <2>4. IsFiniteSet(put)
    <3>1. PICK images : images = {f[t] : t \in DOMAIN f}
      OBVIOUS
    <3>2. \A x \in images : IsFiniteSet(x)
      BY <2>1, <3>1
    <3>3. IsFiniteSet(images)
      BY <2>3, <3>1
    <3>4. IsFiniteSet(UNION images)
      BY <3>2, <3>3, FS_UNION
    <3>5. QED
      BY <3>1, <3>4
  <2>5. IsFiniteSet(DOMAIN v \cup put)
    BY <1>1, <2>4, FS_Union DEF Formed
  <2>6. DOMAIN w \in SUBSET (DOMAIN v \cup put)
    BY <1>3 DEF IsWalk
  <2>7. QED
    BY <2>5, <2>6, FS_Subset
<1>11. Formed(w)
  BY <1>3, <1>5, <1>7, <1>9, <1>10 DEF Formed, IsWalk
<1>12. QED
  BY <1>11, ValueFormed

\* What the steps of the rendering make of a document is one.
LEMMA DocumentsStay ==
  /\ IsDocument(EmptyObject)
  /\ \A v : v = Nil \/ IsDocument(v) => IsDocument(AsObject(v))
  /\ \A v : IsDocument(v) => OrNil(Walk(v)) = Nil \/ IsDocument(OrNil(Walk(v)))
  /\ \A v : IsDocument(v) => IsDocument(Expand(v))
  /\ \A v, u : (v = Nil \/ IsDocument(v)) /\ IsDocument(u) => IsDocument(DeepMerge(v, u))
<1>1. IsDocument(EmptyObject)
  <2>1. AnObject \in Node
    BY DEF AnObject, Node
  <2>2. IsValue(EmptyObject)
    BY <2>1, RootAlone DEF EmptyObject
  <2>3. IsObject(EmptyObject, <<>>)
    BY DEF IsObject, EmptyObject, AnObject
  <2>4. QED
    BY <2>2, <2>3 DEF IsDocument
<1>2. \A v : v = Nil \/ IsDocument(v) => IsDocument(AsObject(v))
  BY <1>1 DEF AsObject
<1>3. \A v : IsDocument(v) => OrNil(Walk(v)) = Nil \/ IsDocument(OrNil(Walk(v)))
  BY WalkValue DEF OrNil, IsDocument
<1>4. \A v : IsDocument(v) => IsDocument(Expand(v))
  BY ExpandValue DEF IsDocument
<1>5. \A v, u : (v = Nil \/ IsDocument(v)) /\ IsDocument(u) => IsDocument(DeepMerge(v, u))
  BY MergeDocument
<1>6. QED
  BY <1>1, <1>2, <1>3, <1>4, <1>5

-----------------------------------------------------------------------------
(* Sorting. *)

\* The N elements of S are in s, each once, and behind those with a lower key.
InOrder(s, S, key, N) ==
  /\ N \in Nat /\ s \in [1 .. N -> S]
  /\ S = {s[n] : n \in 1 .. N}
  /\ \A m \in 1 .. N : \A n \in 1 .. N : m # n => s[m] # s[n]
  /\ \A m \in 1 .. N : \A n \in 1 .. N : m < n =>
       \/ key[s[m]] < key[s[n]]
       \/ key[s[m]] = key[s[n]] /\ s[m] < s[n]

\* Sorting keeps every element and puts it behind those that come before it.
LEMMA SortedFacts ==
  ASSUME NEW S, S \subseteq Int, IsFiniteSet(S), NEW key \in [S -> Int],
         NEW N, N = Cardinality(S), NEW s, s = Sorted(S, key)
  PROVE  InOrder(s, S, key, N)
<1> DEFINE Before(y, x) == key[y] < key[x] \/ (key[y] = key[x] /\ y < x)
           Below(x) == {y \in S : Before(y, x)}
           pos == [x \in S |-> Cardinality(Below(x)) + 1]
<1>1. N \in Nat
  BY FS_CardinalityType
<1>2. \A x \in S : /\ IsFiniteSet(Below(x)) /\ Cardinality(Below(x)) \in Nat
                   /\ Cardinality(Below(x)) < N
  <2>1. SUFFICES ASSUME NEW x \in S
                 PROVE  /\ IsFiniteSet(Below(x)) /\ Cardinality(Below(x)) \in Nat
                        /\ Cardinality(Below(x)) < N
    OBVIOUS
  <2>2. IsFiniteSet(Below(x)) /\ Cardinality(Below(x)) <= N
    BY FS_Subset
  <2>3. Cardinality(Below(x)) \in Nat
    BY <2>2, FS_CardinalityType
  <2>4. x \notin Below(x)
    <3>1. x \in Int /\ key[x] \in Int
      OBVIOUS
    <3>2. QED
      BY <3>1
  <2>5. Cardinality(Below(x)) # N
    BY <2>4, FS_Subset
  <2>6. QED
    BY <1>1, <2>2, <2>3, <2>5
<1>3. \A x, y \in S : Before(x, y) => Cardinality(Below(x)) < Cardinality(Below(y))
  <2>1. SUFFICES ASSUME NEW x \in S, NEW y \in S, Before(x, y)
                 PROVE  Cardinality(Below(x)) < Cardinality(Below(y))
    OBVIOUS
  <2>2. Below(x) \subseteq Below(y)
    <3>1. SUFFICES ASSUME NEW z \in S, Before(z, x) PROVE Before(z, y)
      OBVIOUS
    <3>2. /\ x \in Int /\ y \in Int /\ z \in Int
          /\ key[x] \in Int /\ key[y] \in Int /\ key[z] \in Int
      OBVIOUS
    <3>3. QED
      BY <2>1, <3>1, <3>2
  <2>3. x \in Below(y) /\ x \notin Below(x)
    <3>1. x \in Int /\ key[x] \in Int
      OBVIOUS
    <3>2. QED
      BY <2>1, <3>1
  <2>4. /\ Cardinality(Below(x)) <= Cardinality(Below(y))
        /\ Cardinality(Below(x)) # Cardinality(Below(y))
    BY <1>2, <2>2, <2>3, FS_Subset
  <2>5. QED
    BY <1>2, <2>4
<1>4. \A x, y \in S : x # y => Before(x, y) \/ Before(y, x)
  <2>1. \A x \in S : x \in Int /\ key[x] \in Int
    OBVIOUS
  <2>2. QED
    BY <2>1
<1>5. /\ pos \in [S -> 1 .. N]
      /\ \A x, y \in S : Before(x, y) => pos[x] < pos[y]
      /\ \A x, y \in S : pos[x] = pos[y] => x = y
  <2> HIDE DEF Below, Before
  <2>1. pos \in [S -> 1 .. N]
    BY <1>1, <1>2
  <2>2. \A x, y \in S : Before(x, y) => pos[x] < pos[y]
    BY <1>2, <1>3
  <2>3. QED
    BY <1>4, <2>1, <2>2
<1> DEFINE Nth(x, n) == Cardinality(Below(x)) = n - 1
<1>6. /\ s = [n \in 1 .. N |-> CHOOSE x \in S : Nth(x, n)]
      /\ \A n \in 1 .. N : \A x \in S : Nth(x, n) <=> pos[x] = n
  <2>1. s = [n \in 1 .. N |-> CHOOSE x \in S : Nth(x, n)]
    BY DEF Sorted
  <2>2. \A n \in 1 .. N : \A x \in S : Nth(x, n) <=> pos[x] = n
    BY <1>1, <1>2
  <2>3. QED
    BY <2>1, <2>2
<1> HIDE DEF Nth
<1> HIDE DEF pos
<1>7. \A n \in 1 .. N : \E x \in S : pos[x] = n
  <2>1. pos \in Injection(S, 1 .. N)
    BY <1>5, Fun_IsInj
  <2>2. IsFiniteSet(1 .. N) /\ Cardinality(1 .. N) = N
    BY <1>1, FS_Interval
  <2>3. pos \in Surjection(S, 1 .. N)
    BY <2>1, <2>2, FS_Injection
  <2>4. QED
    BY <2>3 DEF Surjection
<1>8. ASSUME NEW n \in 1 .. N PROVE s[n] \in S /\ pos[s[n]] = n
  <2>1. s[n] = CHOOSE x \in S : Nth(x, n)
    BY <1>6
  <2>2. \E x \in S : Nth(x, n)
    BY <1>6, <1>7
  <2>3. s[n] \in S /\ Nth(s[n], n)
    BY <2>1, <2>2
  <2>4. QED
    BY <1>6, <2>3
<1>9. ASSUME NEW x \in S PROVE pos[x] \in 1 .. N /\ s[pos[x]] = x
  <2>1. pos[x] \in 1 .. N
    BY <1>5
  <2>2. s[pos[x]] \in S /\ pos[s[pos[x]]] = pos[x]
    BY <1>8, <2>1
  <2>3. QED
    BY <1>5, <2>1, <2>2
<1>10. ASSUME NEW m \in 1 .. N, NEW n \in 1 .. N, m < n
       PROVE  Before(s[m], s[n])
  <2> HIDE DEF Before
  <2>1. s[m] \in S /\ s[n] \in S /\ pos[s[m]] = m /\ pos[s[n]] = n
    BY <1>8
  <2>2. Before(s[n], s[m]) => n < m
    BY <1>5, <2>1
  <2>3. s[m] # s[n] /\ ~(n < m)
    BY <1>10, <2>1
  <2>4. QED
    BY <1>4, <2>1, <2>2, <2>3
<1>11. /\ s \in [1 .. N -> S]
       /\ \A m \in 1 .. N : \A n \in 1 .. N : m # n => s[m] # s[n]
  BY <1>6, <1>8
<1>12. S = {s[n] : n \in 1 .. N}
  BY <1>8, <1>9
<1>13. QED
  BY <1>1, <1>10, <1>11, <1>12 DEF InOrder

\* The templates to merge are those of the list, by ascending priority.
LEMMA ByPriorityFacts ==
  ASSUME NEW list \in SourceLists, NEW b, b = ByPriority(list)
  PROVE  /\ Len(b) \in Nat
         /\ b = <<>> <=> Len(b) = 0
         /\ \A n \in 1 .. Len(b) : Decoded(b[n].json)
         /\ \A n \in 1 .. Len(b) : \A m \in 1 .. n : b[m].priority <= b[n].priority
<1> DEFINE D == DOMAIN list
           key == [n \in D |-> list[n].priority]
           order == Sorted(D, key)
<1>1. /\ Len(list) \in Nat /\ D = 1 .. Len(list)
      /\ \A n \in D : list[n].priority \in Int /\ Decoded(list[n].json)
  BY SourcesAssumption DEF Decoded
<1>2. IsFiniteSet(D) /\ Cardinality(D) = Len(list) /\ D \subseteq Int /\ key \in [D -> Int]
  <2>1. key \in [D -> Int]
    BY <1>1
  <2>2. D \subseteq Int
    BY <1>1
  <2>3. PICK K \in Nat : K = Len(list)
    BY <1>1
  <2>4. IsFiniteSet(1 .. K) /\ Cardinality(1 .. K) = K
    BY FS_Interval
  <2>5. QED
    BY <1>1, <2>1, <2>2, <2>3, <2>4
<1>3. /\ order \in [1 .. Len(list) -> D]
      /\ \A m \in 1 .. Len(list) : \A n \in 1 .. Len(list) : m < n =>
           \/ key[order[m]] < key[order[n]]
           \/ key[order[m]] = key[order[n]] /\ order[m] < order[n]
  <2>1. InOrder(order, D, key, Len(list))
    BY <1>2, SortedFacts
  <2>2. QED
    BY <2>1 DEF InOrder
<1>4. b = [n \in 1 .. Len(list) |-> list[order[n]]]
  BY DEF ByPriority
<1>5. /\ Len(b) = Len(list)
      /\ \A n \in 1 .. Len(b) : b[n] = list[order[n]] /\ order[n] \in D
  <2> HIDE DEF order, D
  <2>1. QED
    BY <1>1, <1>3, <1>4
<1>6. ASSUME NEW n \in 1 .. Len(b), NEW m \in 1 .. n
      PROVE  b[m].priority <= b[n].priority
  <2>1. m \in 1 .. Len(b) /\ (m < n \/ m = n)
    BY <1>1, <1>5
  <2>2. /\ b[m].priority = key[order[m]] /\ b[n].priority = key[order[n]]
        /\ key[order[m]] \in Int /\ key[order[n]] \in Int
    BY <1>1, <1>5, <2>1
  <2> HIDE DEF D, key, order
  <2>3. CASE m = n
    BY <2>2, <2>3
  <2>4. CASE m < n
    <3>1. m \in 1 .. Len(list) /\ n \in 1 .. Len(list)
      BY <1>5, <2>1
    <3>2. key[order[m]] <= key[order[n]]
      BY <1>3, <2>2, <2>4, <3>1
    <3>3. QED
      BY <2>2, <3>2
  <2>5. QED
    BY <2>1, <2>3, <2>4
<1>7. b = <<>> <=> Len(b) = 0
  <2> HIDE DEF order, D
  <2>1. CASE Len(list) = 0
    BY <1>4, <1>5, <2>1
  <2>2. CASE Len(list) # 0
    BY <1>1, <1>5, <2>2
  <2>3. QED
    BY <2>1, <2>2
<1>8. QED
  BY <1>1, <1>5, <1>6, <1>7

-----------------------------------------------------------------------------
(* The invariant. *)

\* Before the first template nothing is merged, and a nil one adds nothing.
LEMMA MergeNothing ==
  /\ \A list : MergedAtOnce(list, 0) = Nil
  /\ EmptyObject # Nil /\ AsObject(EmptyObject) = EmptyObject
  /\ AsObject(Nil) = EmptyObject
  /\ \A list : \A k \in Nat :
       (\A n \in 1 .. k + 1 : Decoded(list[n].json)) /\ list[k + 1].json = Nil =>
         MergedAtOnce(list, k + 1) = MergedAtOnce(list, k)
<1>1. \A list : MergedAtOnce(list, 0) = Nil
  <2>1. SUFFICES ASSUME NEW list PROVE MergedAtOnce(list, 0) = Nil
    OBVIOUS
  <2>2. UNION {{p \in DOMAIN list[n].json : Stands(list, 0, n, p)} : n \in 1 .. 0} = {}
    OBVIOUS
  <2>3. PICK D : D = {} /\ MergedAtOnce(list, 0) =
          [p \in D |-> list[CHOOSE n \in 1 .. 0 : Stands(list, 0, n, p)].json[p]]
    BY <2>2 DEF MergedAtOnce
  <2>4. QED
    BY <2>3 DEF Nil
<1>2. EmptyObject # Nil
  <2>1. DOMAIN EmptyObject = {<<>>}
    BY DEF EmptyObject
  <2>2. QED
    BY <2>1, NodeFacts
<1>3. ASSUME NEW list, NEW k \in Nat, \A n \in 1 .. k + 1 : Decoded(list[n].json),
             list[k + 1].json = Nil
      PROVE  MergedAtOnce(list, k + 1) = MergedAtOnce(list, k)
  <2>1. PICK dst : dst = MergedAtOnce(list, k)
    OBVIOUS
  <2>2. dst = [p \in DOMAIN dst |-> dst[p]]
    BY <1>3, <2>1, MergedPlaces
  <2>3. DeepMerge(dst, Nil) = dst
    <3>1. /\ DOMAIN dst \cup DOMAIN Nil = DOMAIN dst
          /\ {p \in DOMAIN dst : \A q \in DOMAIN Nil :
                IsPrefix(q, p) => IsObject(dst, q) /\ IsObject(Nil, q)} = DOMAIN dst
      BY NodeFacts
    <3>2. DeepMerge(dst, Nil) =
            [p \in DOMAIN dst |-> IF p \in DOMAIN Nil THEN Nil[p] ELSE dst[p]]
      BY <3>1 DEF DeepMerge
    <3>3. QED
      BY <2>2, <3>2, NodeFacts
  <2>4. QED
    BY <1>3, <2>1, <2>3, MergeStep
<1>4. QED
  BY <1>1, <1>2, <1>3 DEF AsObject

\* The first state satisfies the invariant.
LEMMA InvInit == Init => Inv
<1> SUFFICES ASSUME Init PROVE Inv
  OBVIOUS
<1>1. PICK list \in SourceLists : sources = ByPriority(list)
  BY DEF Init
<1>2. /\ Len(sources) \in Nat
      /\ sources = <<>> <=> Len(sources) = 0
      /\ \A n \in 1 .. Len(sources) : Decoded(sources[n].json)
      /\ \A n \in 1 .. Len(sources) : \A m \in 1 .. n :
           sources[m].priority <= sources[n].priority
  BY <1>1, ByPriorityFacts
<1>3. out = IF sources = <<>> THEN EmptyObject ELSE MergedAtOnce(sources, i - 1)
  <2>1. i - 1 = 0
    BY DEF Init
  <2>2. QED
    BY <2>1, MergeNothing DEF Init
<1>4. i \in 1 .. Len(sources) + 1 /\ pc = "merge" /\ mode \in Modes /\ name \in DeviceNames
  BY <1>2 DEF Init
<1>5. out = Nil \/ IsDocument(out)
  BY DocumentsStay DEF Init
<1>6. QED
  BY <1>2, <1>3, <1>4, <1>5 DEF Inv, Decoded

\* Every step preserves it.
LEMMA InvNext == Inv /\ [Next]_vars => Inv'
<1> SUFFICES ASSUME Inv, [Next]_vars PROVE Inv'
  OBVIOUS
<1>1. CASE UNCHANGED vars
  BY <1>1 DEF vars, Inv, Merge, Templated, Overlaid, ExtraOf
<1>2. CASE MergeNext
  <2>1. i \in 1 .. Len(sources) /\ Len(sources) \in Nat /\ i - 1 \in Nat /\ (i - 1) + 1 = i
    BY <1>2 DEF MergeNext, Inv
  <2>2. \A n \in 1 .. (i - 1) + 1 : Decoded(sources[n].json)
    BY <2>1 DEF Inv, Decoded
  <2>3. sources # <<>> /\ out = MergedAtOnce(sources, i - 1)
    BY <1>2, <2>1 DEF MergeNext, Inv
  <2>4. out' = MergedAtOnce(sources, i)
    <3>1. CASE sources[i].json = Nil
      BY <1>2, <2>1, <2>2, <2>3, <3>1, MergeNothing DEF MergeNext
    <3>2. CASE sources[i].json # Nil
      BY <1>2, <2>1, <2>2, <2>3, <3>2, MergeStep DEF MergeNext
    <3>3. QED
      BY <3>1, <3>2
  <2>5. i' \in 1 .. Len(sources) + 1 /\ i' - 1 = i /\ pc' = "merge"
    BY <1>2, <2>1 DEF MergeNext
  <2>6. out' = IF sources = <<>> THEN EmptyObject ELSE MergedAtOnce(sources, i' - 1)
    BY <2>3, <2>4, <2>5
  <2>7. out' = Nil \/ IsDocument(out')
    <3>1. /\ sources[i].json = Nil \/ IsDocument(sources[i].json)
          /\ out = Nil \/ IsDocument(out)
      BY <2>1 DEF Inv
    <3>2. QED
      BY <1>2, <3>1, DocumentsStay DEF MergeNext
  <2>8. QED
    BY <1>2, <2>5, <2>6, <2>7 DEF MergeNext, Inv
<1>3. CASE Merged
  <2>1. i - 1 = Len(sources)
    BY <1>3 DEF Merged, Inv
  <2>2. AsObject(out) = AsObject(Merge)
    <3>1. CASE sources = <<>>
      <4>1. Len(sources) = 0
        BY <3>1 DEF Inv
      <4>2. QED
        BY <1>3, <3>1, <4>1, MergeNothing DEF Merged, Inv, Merge
    <3>2. CASE sources # <<>>
      BY <1>3, <2>1, <3>2 DEF Merged, Inv, Merge
    <3>3. QED
      BY <3>1, <3>2
  <2>3. QED
    BY <1>3, <2>2 DEF Merged, Inv, Merge
<1>4. CASE ApplyVarObjects
  <2>1. out' = Nil \/ IsDocument(out')
    BY <1>4, DocumentsStay DEF ApplyVarObjects, Inv
  <2>2. QED
    BY <1>4, <2>1 DEF ApplyVarObjects, Inv, Merge
<1>5. CASE ApplyStringTemplates
  <2>1. IsDocument(out')
    BY <1>5, DocumentsStay DEF ApplyStringTemplates, Inv
  <2>2. QED
    BY <1>5, <2>1 DEF ApplyStringTemplates, Inv, Merge, Templated
<1>6. CASE MergeOverlay
  <2>1. out' = Nil \/ IsDocument(out')
    <3>1. OverlayOf[mode] = Nil \/ IsDocument(OverlayOf[mode])
      BY OverlayAssumption DEF Inv
    <3>2. QED
      BY <1>6, <3>1, DocumentsStay DEF MergeOverlay, Inv
  <2>2. QED
    BY <1>6, <2>1 DEF MergeOverlay, Inv, Merge, Templated, Overlaid
<1>7. CASE RenderFiles
  BY <1>7 DEF RenderFiles, Inv, Merge, Templated, Overlaid
<1>8. CASE BuildArchive
  BY <1>8 DEF BuildArchive, Inv, Merge, Templated, Overlaid, ExtraOf
<1>9. CASE Done
  BY <1>1, <1>9 DEF Done
<1>10. QED
  BY <1>1, <1>2, <1>3, <1>4, <1>5, <1>6, <1>7, <1>8, <1>9 DEF Next

\* The document, the files and the archive are at every point what the steps
\* taken so far make of the templates, merged at once.
THEOREM Invariance == Spec => []Inv
<1>1. QED
  BY InvInit, InvNext, PTL DEF Spec

\* Of conflicting templates the one with the greatest priority wins.
THEOREM PriorityWinsAlways == Spec => []PriorityWins
<1>1. Inv => PriorityWins
  BY DEF Inv, PriorityWins
<1>2. QED
  BY <1>1, Invariance, PTL

\* The merge has objects for its root and paths for its domain.
LEMMA MergeFacts ==
  ASSUME Inv, NEW v, v = AsObject(Merge)
  PROVE  /\ v = [p \in DOMAIN v |-> v[p]]
         /\ <<>> \in DOMAIN v /\ v[<<>>] = AnObject
         /\ \A p \in DOMAIN v : p \in Path /\ v[p] \in Node
         /\ \A p \in DOMAIN v : \A q \in Path : IsPrefix(q, p) => q \in DOMAIN v
         /\ \A p : IsVar(v, p) => p \in DOMAIN Merge /\ v = Merge
<1>1. \A n \in 1 .. Len(sources) : Decoded(sources[n].json)
  BY DEF Inv, Decoded
<1>2. Len(sources) \in Nat
  BY DEF Inv
<1>3. /\ \A p \in DOMAIN Merge : p \in Path /\ Merge[p] \in Node
      /\ \A p \in DOMAIN Merge : \A q \in Path : IsPrefix(q, p) => q \in DOMAIN Merge
      /\ \A p \in DOMAIN Merge : IsObject(Merge, <<>>)
      /\ Merge = [p \in DOMAIN Merge |-> Merge[p]]
  BY <1>1, <1>2, MergedFacts DEF Merge
<1>4. CASE Merge = Nil
  <2>1. v = EmptyObject /\ DOMAIN v = {<<>>} /\ v[<<>>] = AnObject
    BY <1>4, MergeNothing DEF EmptyObject
  <2>2. <<>> \in Path /\ AnObject \in Node
    BY EmptySeq DEF Path, AnObject, Node
  <2>3. ASSUME NEW p, IsVar(v, p) PROVE FALSE
    <3>1. p = <<>> /\ Append(p, Field(VarField)) = <<>>
      BY <2>1, <2>3 DEF IsVar, IsObject, IsLeaf
    <3>2. Field(VarField) \in STRING \X Nat
      BY StringsAssumption DEF Field
    <3>3. QED
      BY <2>2, <3>1, <3>2, PrefixAppend
  <2>4. \A q \in Path : IsPrefix(q, <<>>) => q = <<>>
    BY PrefixOrder
  <2>5. v = [p \in DOMAIN v |-> v[p]]
    BY <2>1 DEF EmptyObject
  <2>6. QED
    BY <2>1, <2>2, <2>3, <2>4, <2>5
<1>5. CASE Merge # Nil
  <2>1. v = Merge
    BY <1>5 DEF AsObject
  <2>2. DOMAIN Merge # {}
    <3>1. ASSUME DOMAIN Merge = {} PROVE Merge = Nil
      BY <1>3, <3>1 DEF Nil
    <3>2. QED
      BY <1>5, <3>1
  <2>3. <<>> \in DOMAIN v /\ v[<<>>] = AnObject
    BY <1>3, <2>1, <2>2, NodeFacts DEF IsObject
  <2>4. QED
    BY <1>3, <2>1, <2>3 DEF IsVar, IsObject
<1>6. QED
  BY <1>4, <1>5

\* The parameters of the management VPN are the server's, whatever the
\* templates say.
THEOREM OverlayWinsAlways == Spec => []OverlayWins
<1>1. Inv => OverlayWins
  <2> SUFFICES ASSUME Inv, pc = "render", NEW p \in DOMAIN OverlayOf[mode]
               PROVE  /\ p \in DOMAIN out /\ out[p] = OverlayOf[mode][p]
                      /\ ~IsObject(OverlayOf[mode], p) =>
                           \A q \in DOMAIN out : IsPrefix(p, q) => q \in DOMAIN OverlayOf[mode]
    BY DEF OverlayWins
  <2>1. PICK o : o = OverlayOf[mode]
    OBVIOUS
  <2>2. o # Nil
    BY <2>1, NodeFacts
  <2>3. out = DeepMerge(Templated, o)
    BY <2>1, <2>2 DEF Inv, Overlaid
  <2>4. PICK dst, K : /\ out = [q \in K \cup DOMAIN o |->
                                  IF q \in DOMAIN o THEN o[q] ELSE dst[q]]
                      /\ \A q \in K : \A r \in DOMAIN o : IsPrefix(r, q) => IsObject(o, r)
    <3>1. DeepMerge(Templated, o) =
            [q \in {q \in DOMAIN Templated :
                      \A r \in DOMAIN o :
                        IsPrefix(r, q) => IsObject(Templated, r) /\ IsObject(o, r)}
                   \cup DOMAIN o |->
               IF q \in DOMAIN o THEN o[q] ELSE Templated[q]]
      BY DEF DeepMerge
    <3>2. \A q \in {q \in DOMAIN Templated :
                      \A r \in DOMAIN o :
                        IsPrefix(r, q) => IsObject(Templated, r) /\ IsObject(o, r)} :
            \A r \in DOMAIN o : IsPrefix(r, q) => IsObject(o, r)
      OBVIOUS
    <3>3. QED
      BY <2>3, <3>1, <3>2
  <2>5. QED
    BY <2>1, <2>4
<1>2. QED
  BY <1>1, Invariance, PTL

\* Every template string is expanded, once.
THEOREM StringsExpandedAlways == Spec => []StringsExpanded
<1>1. Inv => StringsExpanded
  <2> SUFFICES ASSUME Inv, pc = "overlay", NEW p \in DOMAIN out, IsLeaf(out, p),
                      out[p].text \in DOMAIN Expansion
               PROVE  \E x \in DOMAIN Expansion : out[p].text = Expansion[x]
    BY DEF StringsExpanded
  <2>1. PICK w : out = Expand(w)
    BY DEF Inv, Templated
  <2>2. /\ p \in DOMAIN w
        /\ out[p] = IF IsLeaf(w, p) /\ w[p].text \in DOMAIN Expansion
                    THEN ALeaf(Expansion[w[p].text]) ELSE w[p]
    BY <2>1 DEF Expand
  <2>3. CASE IsLeaf(w, p) /\ w[p].text \in DOMAIN Expansion
    BY <2>2, <2>3 DEF ALeaf
  <2>4. CASE ~(IsLeaf(w, p) /\ w[p].text \in DOMAIN Expansion)
    BY <2>2, <2>4 DEF IsLeaf
  <2>5. QED
    BY <2>3, <2>4
<1>2. QED
  BY <1>1, Invariance, PTL

\* Of the objects that name a known variable only those are left which the
\* replacement does not look at.
THEOREM VarsReplacedAlways == Spec => []VarsReplaced
<1>1. Inv => VarsReplaced
  <2> SUFFICES ASSUME Inv, pc = "strings", NEW p \in DOMAIN out, IsVar(out, p),
                      PathOf(out, p) \in DOMAIN Vars
               PROVE  \E q \in DOMAIN Merge :
                        /\ IsVar(Merge, q)
                        /\ \/ IsPrefix(q, p) /\ PathOf(Merge, q) \notin DOMAIN Vars
                           \/ q = Append(p, Field(VarField))
    BY DEF VarsReplaced
  <2>1. PICK v : v = AsObject(Merge)
    OBVIOUS
  <2>2. PICK w : w = Walk(v)
    OBVIOUS
  <2>3. out = w
    BY <2>1, <2>2, NodeFacts DEF Inv, OrNil
  <2>4. PICK x : x = Append(p, Field(VarField))
    OBVIOUS
  <2>5. x \in DOMAIN w /\ w[x].node = "leaf" /\ w[p].node = "object"
    BY <2>3, <2>4 DEF IsVar, IsObject, IsLeaf
  <2>6. /\ \A q \in DOMAIN v : q \in Path
        /\ \A q : IsVar(v, q) => q \in DOMAIN Merge /\ v = Merge
    BY <2>1, MergeFacts
  <2>7. /\ p \in Path
        /\ \/ /\ p \in DOMAIN v /\ w[p] = v[p]
              /\ \A t \in Outermost(v) : ~IsPrefix(t, p)
           \/ \E t \in Outermost(v) : IsPrefix(t, p)
    BY <2>2, <2>3, <2>6, WalkPlaces
  <2>8. \/ /\ x \in DOMAIN v /\ w[x] = v[x]
           /\ \A t \in Outermost(v) : ~IsPrefix(t, x)
        \/ \E t \in Outermost(v) :
             /\ IsPrefix(t, x)
             /\ PathOf(v, t) \in DOMAIN Vars => x = t
    BY <2>2, <2>5, <2>6, WalkPlaces
  <2>9. /\ IsPrefix(p, x) /\ x # p /\ x \in Path
        /\ \A q \in Path : IsPrefix(q, x) <=> IsPrefix(q, p) \/ q = x
    <3>1. Field(VarField) \in STRING \X Nat
      BY StringsAssumption DEF Field
    <3>2. QED
      BY <2>4, <2>7, <3>1, PrefixAppend
  <2>10. \A t \in Outermost(v) : t \in DOMAIN v /\ t \in Path /\ IsVar(v, t)
    BY <2>6 DEF Outermost
  <2>11. CASE /\ x \in DOMAIN v /\ w[x] = v[x]
              /\ \A t \in Outermost(v) : ~IsPrefix(t, x)
    <3>1. \A t \in Outermost(v) : ~IsPrefix(t, p)
      BY <2>9, <2>10, <2>11
    <3>2. p \in DOMAIN v /\ w[p] = v[p]
      BY <2>7, <3>1
    <3>3. IsVar(v, p)
      BY <2>4, <2>5, <2>11, <3>2 DEF IsVar, IsObject, IsLeaf
    <3>4. QED
      BY <2>6, <3>1, <3>2, <3>3, OutermostThere
  <2>12. CASE \E t \in Outermost(v) :
                /\ IsPrefix(t, x)
                /\ PathOf(v, t) \in DOMAIN Vars => x = t
    <3>1. PICK t \in Outermost(v) : /\ IsPrefix(t, x)
                                    /\ PathOf(v, t) \in DOMAIN Vars => x = t
      BY <2>12
    <3>2. t \in DOMAIN Merge /\ IsVar(Merge, t) /\ v = Merge /\ t \in Path
      BY <2>6, <2>10
    <3>3. CASE t = x
      BY <2>4, <3>2, <3>3
    <3>4. CASE t # x
      BY <2>9, <3>1, <3>2, <3>4
    <3>5. QED
      BY <3>3, <3>4
  <2>13. QED
    BY <2>8, <2>11, <2>12
<1>2. QED
  BY <1>1, Invariance, PTL

-----------------------------------------------------------------------------
(* What is in the archive. *)

\* The N elements of S, in ascending order.
Ascending(g, S, N) ==
  /\ N \in Nat /\ g \in [1 .. N -> S]
  /\ S = {g[n] : n \in 1 .. N}
  /\ \A m \in 1 .. N : \A n \in 1 .. N : m < n => g[m] < g[n]

\* The elements of the list at the places in S.
PickedBy(s, list, g, S, N) ==
  /\ Ascending(g, S, N)
  /\ Len(s) = N /\ s = [n \in 1 .. N |-> list[g[n]]]

\* Picking leaves the elements at the given places, in their order.
LEMMA PickedFacts ==
  ASSUME NEW list, NEW places, IsFiniteSet(places), places \subseteq Int,
         NEW s, s = Picked(list, places)
  PROVE  \E g : \E C : PickedBy(s, list, g, places, C)
<1> DEFINE key == [n \in places |-> n]
<1>1. PICK g : g = Sorted(places, key)
  OBVIOUS
<1>2. PICK C : C = Cardinality(places)
  OBVIOUS
<1>3. IsFiniteSet(places) /\ places \subseteq Int /\ key \in [places -> Int]
  OBVIOUS
<1>4. /\ C \in Nat /\ g \in [1 .. C -> places] /\ places = {g[n] : n \in 1 .. C}
      /\ \A m \in 1 .. C : \A n \in 1 .. C : m < n =>
           \/ key[g[m]] < key[g[n]]
           \/ key[g[m]] = key[g[n]] /\ g[m] < g[n]
  <2>1. InOrder(g, places, key, C)
    BY <1>3, <1>1, <1>2, SortedFacts
  <2>2. QED
    BY <2>1 DEF InOrder
<1>5. s = [n \in 1 .. C |-> list[g[n]]]
  BY <1>1, <1>2 DEF Picked
<1>6. Len(s) = C
  BY <1>4, <1>5
<1>7. PickedBy(s, list, g, places, C)
  BY <1>4, <1>5, <1>6 DEF Ascending, PickedBy
<1>8. QED
  BY <1>7

\* Places in a list are numbers, and finitely many.
LEMMA PlacesFacts ==
  ASSUME NEW list, NEW K \in Nat, DOMAIN list = 1 .. K,
         NEW places, places \subseteq DOMAIN list
  PROVE  IsFiniteSet(places) /\ places \subseteq Int
<1>1. \A n \in Nat : IsFiniteSet(1 .. n)
  BY FS_Interval
<1>2. QED
  BY <1>1, FS_Subset

\* One sequence in front of another.
InFront(a, b, c) ==
  /\ Len(c) = Len(a) + Len(b) /\ DOMAIN c = 1 .. Len(c)
  /\ \A n \in 1 .. Len(a) : n \in DOMAIN c /\ c[n] = a[n]
  /\ \A n \in 1 .. Len(b) : c[Len(a) + n] = b[n]
  /\ \A n \in DOMAIN c : n \notin 1 .. Len(a) => c[n] \in {b[m] : m \in 1 .. Len(b)}

\* It is what is concatenated.
LEMMA Joined ==
  ASSUME NEW S, NEW a \in Seq(S), NEW b \in Seq(S), NEW c, c = a \o b
  PROVE  InFront(a, b, c)
<1>1. /\ c \in Seq(S) /\ Len(c) = Len(a) + Len(b)
      /\ \A n \in 1 .. Len(a) + Len(b) :
           c[n] = IF n <= Len(a) THEN a[n] ELSE b[n - Len(a)]
  BY ConcatProperties
<1>2. DOMAIN c = 1 .. Len(c) /\ Len(a) \in Nat /\ Len(b) \in Nat
  BY <1>1, LenProperties
<1>3. ASSUME NEW n \in DOMAIN c, n \notin 1 .. Len(a)
      PROVE  n - Len(a) \in 1 .. Len(b) /\ c[n] = b[n - Len(a)]
  BY <1>1, <1>2, <1>3
<1>4. ASSUME NEW n \in 1 .. Len(a) PROVE n \in DOMAIN c /\ c[n] = a[n]
  BY <1>1, <1>2
<1>5. ASSUME NEW n \in 1 .. Len(b) PROVE c[Len(a) + n] = b[n]
  <2>1. PICK k \in 1 .. Len(a) + Len(b) : k = Len(a) + n
    BY <1>2
  <2>2. ~(k <= Len(a)) /\ k - Len(a) = n
    BY <1>2, <2>1
  <2>3. QED
    BY <1>1, <2>1, <2>2
<1>6. QED
  BY <1>1, <1>2, <1>3, <1>4, <1>5 DEF InFront

\* The objects of the document that are looked for.
WritersIn(nj) == {n \in DOMAIN Roots : ObjectAt(nj, <<Roots[n]>>)}
Written(nj, root) == [name |-> FileOf(root), sections |-> Sections(nj, root)]

\* The first of the M + 1 files is that of the system, the others are those of
\* the objects, g[1] being the first and g[M] the last of them.
FilesOf(f, nj, nm, g, M) ==
  /\ Ascending(g, WritersIn(nj), M)
  /\ DOMAIN f = 1 .. M + 1 /\ Len(f) = M + 1
  /\ f[1] = RenderSystem(nj, nm)
  /\ \A n \in 1 .. M : f[n + 1] = Written(nj, Roots[g[n]])

\* RenderAll makes one file of the system and one of every object it finds.
LEMMA FilesRendered ==
  ASSUME NEW nj, NEW nm, NEW f, f = RenderAll(nj, nm)
  PROVE  \E g : \E M : FilesOf(f, nj, nm, g, M)
<1>1. PICK places : places = WritersIn(nj)
  OBVIOUS
<1>2. PICK present : present = Picked(Roots, places)
  OBVIOUS
<1>3. PICK a, b : /\ f = a \o b
                  /\ a = <<RenderSystem(nj, nm)>>
                  /\ b = [n \in 1 .. Len(present) |-> Written(nj, present[n])]
  BY <1>1, <1>2 DEF RenderAll, WritersIn, Written
<1>4. PICK g, M : PickedBy(present, Roots, g, places, M)
  <2>1. DOMAIN Roots = 1 .. 7
    BY DEF Roots
  <2>2. PICK K \in Nat : K = 7
    OBVIOUS
  <2>3. places \subseteq DOMAIN Roots
    BY <1>1 DEF WritersIn
  <2>4. IsFiniteSet(places) /\ places \subseteq Int
    BY <2>1, <2>2, <2>3, PlacesFacts
  <2>5. QED
    BY <1>2, <2>4, PickedFacts
<1>5. /\ Ascending(g, places, M)
      /\ Len(present) = M /\ present = [n \in 1 .. M |-> Roots[g[n]]]
  BY <1>4 DEF PickedBy
<1>6. M \in Nat
  BY <1>5 DEF Ascending
<1>7. b = [n \in 1 .. M |-> Written(nj, Roots[g[n]])]
  BY <1>3, <1>5
<1>8. PICK S : a \in Seq(S) /\ Len(a) = 1 /\ b \in Seq(S) /\ Len(b) = M
  <2>1. PICK S : S = {a[1]} \cup {b[n] : n \in 1 .. M}
    OBVIOUS
  <2>2. DOMAIN b = 1 .. M /\ b = [n \in 1 .. M |-> b[n]]
    BY <1>7
  <2>3. b \in [1 .. M -> S]
    BY <2>1, <2>2
  <2>4. a \in Seq(S) /\ Len(a) = 1
    BY <1>3, <2>1
  <2>5. b \in Seq(S) /\ Len(b) = M
    BY <1>6, <2>3
  <2>6. QED
    BY <2>4, <2>5
<1>9. /\ Len(f) = Len(a) + Len(b) /\ DOMAIN f = 1 .. Len(f)
      /\ \A n \in 1 .. Len(a) : n \in DOMAIN f /\ f[n] = a[n]
      /\ \A n \in 1 .. Len(b) : f[Len(a) + n] = b[n]
  <2>1. f = a \o b
    BY <1>3
  <2>2. InFront(a, b, f)
    BY <1>8, <2>1, Joined
  <2>3. QED
    BY <2>2 DEF InFront
<1>10. Len(f) = M + 1 /\ DOMAIN f = 1 .. M + 1
  BY <1>6, <1>8, <1>9
<1>11. f[1] = RenderSystem(nj, nm)
  BY <1>3, <1>8, <1>9
<1>12. ASSUME NEW n \in 1 .. M PROVE f[n + 1] = Written(nj, Roots[g[n]])
  <2>1. f[1 + n] = b[n]
    BY <1>8, <1>9
  <2>2. 1 + n = n + 1
    BY <1>6
  <2>3. QED
    BY <1>7, <2>1, <2>2
<1>13. FilesOf(f, nj, nm, g, M)
  BY <1>1, <1>5, <1>10, <1>11, <1>12 DEF FilesOf
<1>14. QED
  BY <1>13

\* Every file has its place in the order of paths.
HavePlaces(f, N) ==
  \A n \in 1 .. N : \E r \in DOMAIN PathOrder : PathOrder[r] = f[n].name

\* The first N entries of c are the files of f, those with one path in the
\* order they had; the rest are the other files.
PackedBy(c, f, order, N) ==
  /\ order \in [1 .. N -> 1 .. N]
  /\ \A k \in 1 .. N : \E n \in 1 .. N : order[n] = k
  /\ \A m \in 1 .. N : \A n \in 1 .. N :
       m < n /\ f[order[m]].name = f[order[n]].name => order[m] < order[n]
  /\ \A n \in 1 .. N : n \in DOMAIN c /\ c[n] = f[order[n]]
  /\ \A n \in DOMAIN c : n \notin 1 .. N => c[n].name \in {ExtraOrder[m] : m \in 1 .. 4}

\* Build sorts the files by their paths and puts the others behind them.
LEMMA FilesPacked ==
  ASSUME NEW f, NEW N \in Nat, DOMAIN f = 1 .. N, Len(f) = N, HavePlaces(f, N),
         NEW extra, NEW c, c = Build(f, extra)
  PROVE  \E order : PackedBy(c, f, order, N)
<1>1. PICK rank : rank = [n \in DOMAIN f |-> CHOOSE r \in DOMAIN PathOrder :
                                               PathOrder[r] = f[n].name]
  OBVIOUS
<1>2. PICK order : order = Sorted(DOMAIN f, rank)
  OBVIOUS
<1>3. PICK places : places = {n \in DOMAIN ExtraOrder : ExtraOrder[n] \in extra}
  OBVIOUS
<1>4. PICK others : others = Picked(ExtraOrder, places)
  OBVIOUS
<1>5. PICK a, b : /\ c = a \o b
                  /\ a = [n \in 1 .. N |-> f[order[n]]]
                  /\ b = [n \in 1 .. Len(others) |-> [name |-> others[n], sections |-> <<>>]]
  BY <1>1, <1>2, <1>3, <1>4 DEF Build
<1>6. /\ order \in [1 .. N -> 1 .. N]
      /\ \A k \in 1 .. N : \E n \in 1 .. N : order[n] = k
      /\ \A m \in 1 .. N : \A n \in 1 .. N : m < n =>
           \/ rank[order[m]] < rank[order[n]]
           \/ rank[order[m]] = rank[order[n]] /\ order[m] < order[n]
  <2>1. PICK D : D = DOMAIN f
    OBVIOUS
  <2>2. rank \in [D -> Int]
    <3>1. DOMAIN PathOrder \subseteq Int
      BY DEF PathOrder
    <3>2. \A n \in D : (CHOOSE r \in DOMAIN PathOrder : PathOrder[r] = f[n].name) \in DOMAIN PathOrder
      BY <2>1 DEF HavePlaces
    <3>3. QED
      BY <1>1, <2>1, <3>1, <3>2
  <2>3. D \subseteq Int /\ IsFiniteSet(D) /\ N = Cardinality(D)
    BY <2>1, FS_Interval
  <2>4. order = Sorted(D, rank)
    BY <1>2, <2>1
  <2>5. /\ order \in [1 .. N -> D] /\ D = {order[n] : n \in 1 .. N}
        /\ \A m \in 1 .. N : \A n \in 1 .. N : m < n =>
             \/ rank[order[m]] < rank[order[n]]
             \/ rank[order[m]] = rank[order[n]] /\ order[m] < order[n]
    <3>1. InOrder(order, D, rank, N)
      BY <2>2, <2>3, <2>4, SortedFacts
    <3>2. QED
      BY <3>1 DEF InOrder
  <2>6. QED
    BY <2>1, <2>5
<1>7. ASSUME NEW m \in 1 .. N, NEW n \in 1 .. N, m < n,
             f[order[m]].name = f[order[n]].name
      PROVE  order[m] < order[n]
  <2>1. order[m] \in DOMAIN f /\ order[n] \in DOMAIN f
    BY <1>6
  <2>2. rank[order[m]] = rank[order[n]]
    <3> DEFINE Pos(x) == CHOOSE r \in DOMAIN PathOrder : PathOrder[r] = x
    <3>1. \A l \in DOMAIN f : rank[l] = Pos(f[l].name)
      BY <1>1
    <3> HIDE DEF Pos
    <3>2. QED
      BY <1>7, <2>1, <3>1
  <2>3. rank[order[m]] \in Int
    <3>1. DOMAIN PathOrder \subseteq Int
      BY DEF PathOrder
    <3>2. rank[order[m]] \in DOMAIN PathOrder
      BY <1>1, <2>1 DEF HavePlaces
    <3>3. QED
      BY <3>1, <3>2
  <2>4. ~(rank[order[m]] < rank[order[n]])
    BY <2>2, <2>3
  <2>5. QED
    BY <1>6, <1>7, <2>4
<1>8. PICK M \in Nat : /\ M = Len(others)
                       /\ \A n \in 1 .. M : b[n].name \in {ExtraOrder[m] : m \in 1 .. 4}
  <2>1. DOMAIN ExtraOrder = 1 .. 4
    BY DEF ExtraOrder
  <2>2. PICK K \in Nat : K = 4
    OBVIOUS
  <2>3. places \subseteq DOMAIN ExtraOrder
    BY <1>3
  <2>4. IsFiniteSet(places) /\ places \subseteq Int
    BY <2>1, <2>2, <2>3, PlacesFacts
  <2>5. PICK g, C : PickedBy(others, ExtraOrder, g, places, C)
    BY <1>4, <2>4, PickedFacts
  <2>6. /\ Ascending(g, places, C)
        /\ Len(others) = C /\ others = [n \in 1 .. C |-> ExtraOrder[g[n]]]
    BY <2>5 DEF PickedBy
  <2>7. C \in Nat /\ g \in [1 .. C -> places]
    BY <2>6 DEF Ascending
  <2>8. QED
    BY <1>5, <2>1, <2>3, <2>6, <2>7
<1>9. PICK S : /\ a \in Seq(S) /\ Len(a) = N
               /\ b \in Seq(S) /\ Len(b) = M
  <2>1. PICK S : S = {a[n] : n \in 1 .. N} \cup {b[n] : n \in 1 .. M}
    OBVIOUS
  <2>2. /\ DOMAIN a = 1 .. N /\ a = [n \in 1 .. N |-> a[n]]
        /\ DOMAIN b = 1 .. M /\ b = [n \in 1 .. M |-> b[n]]
    BY <1>5, <1>8
  <2>3. a \in [1 .. N -> S] /\ b \in [1 .. M -> S]
    BY <2>1, <2>2
  <2>4. a \in Seq(S) /\ Len(a) = N /\ b \in Seq(S) /\ Len(b) = M
    BY <2>3
  <2>5. QED
    BY <2>4
<1>10. /\ DOMAIN c = 1 .. Len(c) /\ \A n \in 1 .. Len(a) : n \in DOMAIN c /\ c[n] = a[n]
       /\ \A n \in DOMAIN c : n \notin 1 .. Len(a) => c[n] \in {b[m] : m \in 1 .. Len(b)}
  <2>1. c = a \o b
    BY <1>5
  <2>2. InFront(a, b, c)
    BY <1>9, <2>1, Joined
  <2>3. QED
    BY <2>2 DEF InFront
<1>11. \A n \in 1 .. N : n \in DOMAIN c /\ c[n] = f[order[n]]
  BY <1>5, <1>9, <1>10
<1>12. ASSUME NEW n \in DOMAIN c, n \notin 1 .. N
       PROVE  c[n].name \in {ExtraOrder[m] : m \in 1 .. 4}
  BY <1>8, <1>9, <1>10, <1>12
<1>13. PackedBy(c, f, order, N)
  BY <1>6, <1>7, <1>11, <1>12 DEF PackedBy
<1>14. QED
  BY <1>13

\* Of the files with a path the device keeps the last one rendered.
LEMMA LastUnpacked ==
  ASSUME NEW f, NEW N \in Nat, NEW c, NEW order, PackedBy(c, f, order, N),
         NEW path, path \notin {ExtraOrder[m] : m \in 1 .. 4},
         NEW z \in 1 .. N, f[z].name = path,
         \A n \in 1 .. N : f[n].name = path => n <= z
  PROVE  Unpacked(c, path) = f[z].sections
<1>1. PICK y \in 1 .. N : order[y] = z
  BY DEF PackedBy
<1>2. PICK P : P = {n \in DOMAIN c : c[n].name = path}
  OBVIOUS
<1>3. y \in P /\ c[y] = f[z]
  BY <1>1, <1>2 DEF PackedBy
<1>4. ASSUME NEW n \in P PROVE n \in 1 .. N /\ y >= n
  <2>1. n \in 1 .. N
    BY <1>2 DEF PackedBy
  <2>2. f[order[n]].name = path /\ order[n] \in 1 .. N
    BY <1>2, <2>1 DEF PackedBy
  <2>3. order[n] <= z
    BY <2>2
  <2>4. ~(y < n)
    <3>1. y < n => order[y] < order[n]
      BY <1>1, <2>1, <2>2 DEF PackedBy
    <3>2. QED
      BY <1>1, <2>2, <2>3, <3>1
  <2>5. QED
    BY <2>1, <2>4
<1>5. Max(P) = y
  <2>1. \A n \in P : n >= y => n = y
    BY <1>4
  <2>2. QED
    BY <1>3, <1>4, <2>1 DEF Max
<1>6. QED
  BY <1>2, <1>3, <1>5 DEF Unpacked

\* Nothing is unpacked to a path no file has.
LEMMA NoneUnpacked ==
  ASSUME NEW f, NEW N \in Nat, NEW c, NEW order, PackedBy(c, f, order, N),
         NEW path, path \notin {ExtraOrder[m] : m \in 1 .. 4},
         \A n \in 1 .. N : f[n].name # path
  PROVE  Unpacked(c, path) = <<>>
<1>1. ASSUME NEW n \in DOMAIN c PROVE c[n].name # path
  <2>1. CASE n \in 1 .. N
    <3>1. c[n] = f[order[n]] /\ order[n] \in 1 .. N
      BY <2>1 DEF PackedBy
    <3>2. QED
      BY <3>1
  <2>2. CASE n \notin 1 .. N
    BY <2>2 DEF PackedBy
  <2>3. QED
    BY <2>1, <2>2
<1>2. QED
  BY <1>1 DEF Unpacked

\* The names of the files.
LEMMA FileNames ==
  /\ \A n \in DOMAIN Roots :
       /\ \E r \in DOMAIN PathOrder : PathOrder[r] = FileOf(Roots[n])
       /\ FileOf(Roots[n]) # "system"
       /\ FileOf(Roots[n]) \notin {ExtraOrder[m] : m \in 1 .. 4}
  /\ \E r \in DOMAIN PathOrder : PathOrder[r] = "system"
  /\ "system" \notin {ExtraOrder[m] : m \in 1 .. 4}
<1>1. DOMAIN Roots = {1, 2, 3, 4, 5, 6, 7}
  BY DEF Roots
<1>2. {1, 2, 3, 4, 5, 6, 7} \subseteq DOMAIN PathOrder
  BY DEF PathOrder
<1>3. ASSUME NEW n \in DOMAIN Roots
      PROVE  \E r \in {1, 2, 3, 4, 6, 7} : PathOrder[r] = FileOf(Roots[n])
  <2>1. \/ FileOf(Roots[n]) = PathOrder[1] \/ FileOf(Roots[n]) = PathOrder[2]
        \/ FileOf(Roots[n]) = PathOrder[3] \/ FileOf(Roots[n]) = PathOrder[4]
        \/ FileOf(Roots[n]) = PathOrder[6] \/ FileOf(Roots[n]) = PathOrder[7]
    BY <1>1 DEF Roots, FileOf, PathOrder
  <2>2. QED
    BY <2>1
<1>4. \A r \in {1, 2, 3, 4, 6, 7} : PathOrder[r] # "system"
  BY DEF PathOrder
<1>5. {ExtraOrder[m] : m \in 1 .. 4} = {"ca.crt", "client.crt", "client.key", "wg0.conf"}
  <2>1. 1 .. 4 = {1, 2, 3, 4}
    OBVIOUS
  <2>2. QED
    BY <2>1 DEF ExtraOrder
<1>6. \A r \in {1, 2, 3, 4, 5, 6, 7} : PathOrder[r] \notin {ExtraOrder[m] : m \in 1 .. 4}
  BY <1>5 DEF PathOrder
<1>7. PathOrder[5] = "system"
  BY DEF PathOrder
<1>8. QED
  BY <1>2, <1>3, <1>4, <1>6, <1>7

\* The files of a device have their place in the order of paths.
LEMMA FilesPlaced ==
  ASSUME NEW f, NEW nj, NEW nm, NEW g, NEW M, FilesOf(f, nj, nm, g, M)
  PROVE  HavePlaces(f, M + 1)
<1>1. M \in Nat /\ g \in [1 .. M -> WritersIn(nj)]
  BY DEF FilesOf, Ascending
<1>2. ASSUME NEW n \in 1 .. M + 1
      PROVE  \E r \in DOMAIN PathOrder : PathOrder[r] = f[n].name
  <2>1. CASE n = 1
    BY <2>1, FileNames DEF FilesOf, RenderSystem
  <2>2. CASE n # 1
    <3>1. PICK k \in 1 .. M : n = k + 1
      BY <1>1, <2>2
    <3>2. f[n].name = FileOf(Roots[g[k]])
      <4>1. f[k + 1] = Written(nj, Roots[g[k]])
        BY DEF FilesOf
      <4>2. QED
        BY <3>1, <4>1 DEF Written
    <3>3. g[k] \in DOMAIN Roots
      BY <1>1 DEF WritersIn
    <3>4. QED
      BY <3>2, <3>3, FileNames
  <2>3. QED
    BY <2>1, <2>2
<1>3. QED
  BY <1>2 DEF HavePlaces

\* Whatever files come with it, the device unpacks the system as rendered.
LEMMA SystemUnpacked ==
  ASSUME NEW nj, NEW nm, NEW extra
  PROVE  Unpacked(Build(RenderAll(nj, nm), extra), "system") =
           <<[type |-> "system", options |-> {<<"hostname", Hostname(nj, nm)>>}]>>
<1>1. PICK f : f = RenderAll(nj, nm)
  OBVIOUS
<1>2. PICK c : c = Build(f, extra)
  OBVIOUS
<1>3. PICK g, M : FilesOf(f, nj, nm, g, M)
  BY <1>1, FilesRendered
<1>4. PICK N \in Nat : N = M + 1 /\ 1 \in 1 .. N
  BY <1>3 DEF FilesOf, Ascending
<1>5. DOMAIN f = 1 .. N /\ Len(f) = N /\ f[1] = RenderSystem(nj, nm)
  BY <1>3, <1>4 DEF FilesOf
<1>6. HavePlaces(f, N)
  BY <1>3, <1>4, FilesPlaced
<1>7. PICK order : PackedBy(c, f, order, N)
  BY <1>2, <1>5, <1>6, FilesPacked
<1>8. \A n \in 1 .. N : f[n].name = "system" => n <= 1
  <2>1. SUFFICES ASSUME NEW n \in 1 .. N, n # 1 PROVE f[n].name # "system"
    BY <1>4
  <2>2. M \in Nat /\ g \in [1 .. M -> WritersIn(nj)]
    BY <1>3 DEF FilesOf, Ascending
  <2>3. PICK k \in 1 .. M : n = k + 1
    BY <1>4, <2>1, <2>2
  <2>4. f[n].name = FileOf(Roots[g[k]]) /\ g[k] \in DOMAIN Roots
    <3>1. f[k + 1] = Written(nj, Roots[g[k]])
      BY <1>3 DEF FilesOf
    <3>2. g[k] \in WritersIn(nj)
      BY <2>2
    <3>3. QED
      BY <2>3, <3>1, <3>2 DEF Written, WritersIn
  <2>5. QED
    BY <2>4, FileNames
<1>9. f[1].name = "system" /\ "system" \notin {ExtraOrder[m] : m \in 1 .. 4}
  BY <1>5, FileNames DEF RenderSystem
<1>10. Unpacked(c, "system") = f[1].sections
  BY <1>4, <1>7, <1>8, <1>9, LastUnpacked
<1>11. QED
  BY <1>1, <1>2, <1>5, <1>10 DEF RenderSystem

\* Of a file that objects of the document are written to, the device unpacks
\* what the last of them became; nothing when there is none.
LEMMA ObjectUnpacked ==
  ASSUME NEW nj, NEW nm, NEW extra, NEW k \in DOMAIN Roots,
         NEW file, file = FileOf(Roots[k]),
         NEW writers, writers = {n \in WritersIn(nj) : FileOf(Roots[n]) = file}
  PROVE  Unpacked(Build(RenderAll(nj, nm), extra), file) =
           IF writers = {} THEN <<>> ELSE Sections(nj, Roots[Max(writers)])
<1>1. PICK f : f = RenderAll(nj, nm)
  OBVIOUS
<1>2. PICK c : c = Build(f, extra)
  OBVIOUS
<1>3. PICK g, M : FilesOf(f, nj, nm, g, M)
  BY <1>1, FilesRendered
<1>4. PICK N \in Nat : N = M + 1
  BY <1>3 DEF FilesOf, Ascending
<1>5. DOMAIN f = 1 .. N /\ Len(f) = N /\ f[1] = RenderSystem(nj, nm)
  BY <1>3, <1>4 DEF FilesOf
<1>6. HavePlaces(f, N)
  BY <1>3, <1>4, FilesPlaced
<1>7. PICK order : PackedBy(c, f, order, N)
  BY <1>2, <1>5, <1>6, FilesPacked
<1>8. file # "system" /\ file \notin {ExtraOrder[m] : m \in 1 .. 4}
  BY FileNames
<1>9. /\ M \in Nat /\ g \in [1 .. M -> WritersIn(nj)]
      /\ WritersIn(nj) = {g[n] : n \in 1 .. M}
      /\ \A m \in 1 .. M : \A n \in 1 .. M : m < n => g[m] < g[n]
      /\ \A n \in 1 .. M : f[n + 1] = Written(nj, Roots[g[n]])
  BY <1>3 DEF FilesOf, Ascending
<1>10. ASSUME NEW n \in 1 .. N, f[n].name = file
       PROVE  \E m \in 1 .. M : n = m + 1 /\ g[m] \in writers
  <2>1. n # 1
    BY <1>5, <1>8, <1>10 DEF RenderSystem
  <2>2. M \in Nat
    BY <1>9
  <2>3. PICK m \in 1 .. M : n = m + 1
    BY <1>4, <2>1, <2>2
  <2>4. FileOf(Roots[g[m]]) = file /\ g[m] \in WritersIn(nj)
    <3>1. f[m + 1] = Written(nj, Roots[g[m]]) /\ g[m] \in WritersIn(nj)
      BY <1>9
    <3>2. QED
      BY <1>10, <2>3, <3>1 DEF Written
  <2>5. QED
    BY <2>3, <2>4
<1>11. CASE writers = {}
  <2>1. \A n \in 1 .. N : f[n].name # file
    BY <1>10, <1>11
  <2>2. Unpacked(c, file) = <<>>
    BY <1>7, <1>8, <2>1, NoneUnpacked
  <2>3. QED
    BY <1>1, <1>2, <1>11, <2>2
<1>12. CASE writers # {}
  <2>1. writers \subseteq 1 .. 7
    BY DEF WritersIn, Roots
  <2>2. PICK w \in writers : \A n \in writers : n <= w
    <3>1. PICK T : T = {7 - n : n \in writers}
      OBVIOUS
    <3>2. T \subseteq Nat /\ T # {}
      BY <1>12, <2>1, <3>1
    <3>3. PICK x \in T : \A y \in T : x <= y
      BY <3>2, Least
    <3>4. PICK n \in writers : x = 7 - n
      BY <3>1
    <3>5. ASSUME NEW m \in writers PROVE m <= n
      <4>1. 7 - n <= 7 - m
        BY <3>1, <3>3, <3>4
      <4>2. QED
        BY <2>1, <4>1
    <3>6. QED
      BY <3>5
  <2>3. Max(writers) = w
    <3>1. \A n \in writers : n >= w <=> n = w
      BY <2>1, <2>2
    <3>2. \A n \in writers : w >= n
      BY <2>1, <2>2
    <3>3. QED
      BY <3>1, <3>2 DEF Max
  <2>4. PICK m \in 1 .. M : g[m] = w
    BY <1>9
  <2>5. M \in Nat
    BY <1>9
  <2>6. PICK z \in 1 .. N : z = m + 1
    BY <1>4, <2>5
  <2>7. f[z] = Written(nj, Roots[w])
    BY <1>9, <2>4, <2>6
  <2>8. ASSUME NEW n \in 1 .. N, f[n].name = file PROVE n <= z
    <3>1. PICK l \in 1 .. M : n = l + 1 /\ g[l] \in writers
      BY <1>10, <2>8
    <3>2. g[l] <= w /\ g[l] \in 1 .. 7 /\ w \in 1 .. 7
      BY <2>1, <2>2, <3>1
    <3>3. ~(m < l)
      <4>1. m < l => g[m] < g[l]
        BY <1>9
      <4>2. QED
        BY <2>4, <3>2, <4>1
    <3>4. QED
      BY <1>9, <2>6, <3>1, <3>3
  <2>9. f[z].name = file
    BY <2>7 DEF Written
  <2>10. Unpacked(c, file) = f[z].sections
    BY <1>7, <1>8, <2>8, <2>9, LastUnpacked
  <2>11. QED
    BY <1>1, <1>2, <1>12, <2>3, <2>7, <2>10 DEF Written
<1>13. QED
  BY <1>11, <1>12

\* Two objects written to one file do not mix, and the file of one that is not
\* there is not in the archive.
THEOREM FilesUnpackedAlways == Spec => []FilesUnpacked
<1>1. Inv => FilesUnpacked
  <2>1. SUFFICES ASSUME Inv, pc = "done", NEW k \in DOMAIN Roots,
                        NEW file, file = FileOf(Roots[k]),
                        NEW writers,
                        writers = {n \in DOMAIN Roots : FileOf(Roots[n]) = file
                                                        /\ ObjectAt(out, <<Roots[n]>>)}
                 PROVE  Unpacked(archive, file) =
                          IF writers = {} THEN <<>> ELSE Sections(out, Roots[Max(writers)])
    BY DEF FilesUnpacked
  <2>2. archive = Build(RenderAll(out, name), ExtraOf)
    BY <2>1 DEF Inv
  <2>3. writers = {n \in WritersIn(out) : FileOf(Roots[n]) = file}
    BY <2>1 DEF WritersIn
  <2>4. PICK extra, nj, nm : extra = ExtraOf /\ nj = out /\ nm = name
    OBVIOUS
  <2>5. file = FileOf(Roots[k]) /\ writers = {n \in WritersIn(nj) : FileOf(Roots[n]) = file}
    BY <2>1, <2>3, <2>4
  <2>6. Unpacked(Build(RenderAll(nj, nm), extra), file) =
          IF writers = {} THEN <<>> ELSE Sections(nj, Roots[Max(writers)])
    BY <2>5, ObjectUnpacked
  <2>7. QED
    BY <2>2, <2>4, <2>6
<1>2. QED
  BY <1>1, Invariance, PTL

-----------------------------------------------------------------------------
(* The hostname. *)

\* Appending to one element gives a pair.
LEMMA AppendToOne ==
  ASSUME NEW x, NEW y
  PROVE  Append(<<x>>, y) = <<x, y>>
<1>1. ASSUME NEW t, t = Append(<<x>>, y)
      PROVE  t \in Seq({x, y}) /\ Len(t) = 2 /\ t[1] = x /\ t[2] = y
  BY <1>1
<1>2. ASSUME NEW t, t = <<x, y>>
      PROVE  t \in Seq({x, y}) /\ Len(t) = 2 /\ t[1] = x /\ t[2] = y
  BY <1>2
<1>3. ASSUME NEW s \in Seq({x, y}), NEW t \in Seq({x, y}), Len(s) = 2, Len(t) = 2,
             s[1] = t[1], s[2] = t[2]
      PROVE  s = t
  <2>1. \A n \in 1 .. Len(s) : s[n] = t[n]
    BY <1>3
  <2>2. QED
    BY <1>3, <2>1, SeqEqual
<1>4. QED
  BY <1>1, <1>2, <1>3

HostPath == Append(System, Field("hostname"))
HostOf(v) == StringAt(v, <<"system", "hostname">>)

\* The way to the hostname.
LEMMA HostFacts ==
  /\ <<>> \in Path /\ System \in Path /\ HostPath \in Path
  /\ <<>> # HostPath
  /\ \A q \in Path : IsPrefix(q, HostPath) <=> q = <<>> \/ q = System \/ q = HostPath
  /\ \A v : HostOf(v) = IF IsLeaf(v, HostPath) THEN v[HostPath].text ELSE ""
<1>1. Field("system") \in STRING \X Nat /\ Field("hostname") \in STRING \X Nat
  <2>1. \A k \in STRING : Field(k) \in STRING \X Nat
    BY DEF Field
  <2>2. "system" \in STRING /\ "hostname" \in STRING
    BY NamesAssumption
  <2>3. QED
    BY <2>1, <2>2
<1>2. <<>> \in Path /\ System = Append(<<>>, Field("system"))
  BY EmptySeq DEF Path, System
<1>3. /\ System \in Path /\ <<>> # System
      /\ \A q \in Path : IsPrefix(q, System) <=> IsPrefix(q, <<>>) \/ q = System
  BY <1>1, <1>2, PrefixAppend
<1>4. /\ HostPath \in Path /\ IsPrefix(System, HostPath)
      /\ \A q \in Path : IsPrefix(q, HostPath) <=> IsPrefix(q, System) \/ q = HostPath
  BY <1>1, <1>3, PrefixAppend DEF HostPath
<1>5. \A q \in Path : IsPrefix(q, <<>>) <=> q = <<>>
  BY <1>2, PrefixOrder
<1>6. HostPath # <<>>
  <2>1. HostPath = <<>> => IsPrefix(System, <<>>)
    BY <1>4
  <2>2. QED
    BY <1>3, <1>5, <2>1
<1>7. Names(<<"system", "hostname">>) = HostPath
  <2>1. Names(<<"system", "hostname">>) = <<Field("system"), Field("hostname")>>
    BY DEF Names
  <2>2. HostPath = <<Field("system"), Field("hostname")>>
    BY AppendToOne DEF HostPath, System
  <2>3. QED
    BY <2>1, <2>2
<1>8. \A v : HostOf(v) = IF IsLeaf(v, HostPath) THEN v[HostPath].text ELSE ""
  BY <1>7 DEF HostOf, StringAt
<1>9. QED
  BY <1>2, <1>3, <1>4, <1>5, <1>6, <1>8

\* The overlay of the management VPN leaves the hostname alone.
LEMMA OverlaidHost ==
  ASSUME Inv, IsObject(Templated, <<>>)
  PROVE  HostOf(Overlaid) = HostOf(Templated)
<1>1. PICK o : o = OverlayOf[mode]
  OBVIOUS
<1>2. CASE o = Nil
  BY <1>1, <1>2 DEF Overlaid
<1>3. CASE o # Nil
  <2>1. mode \in Modes
    BY DEF Inv
  <2>2. IsDocument(o) /\ System \notin DOMAIN o
    BY <1>1, <1>3, <2>1, OverlayAssumption DEF System
  <2>3. /\ \A q \in DOMAIN o : q \in Path
        /\ \A p \in DOMAIN o : \A q \in Path : IsPrefix(q, p) => q \in DOMAIN o
        /\ IsObject(o, <<>>)
    BY <2>2, TemplateFacts DEF Decoded, IsDocument
  <2>4. HostPath \notin DOMAIN o
    BY <2>2, <2>3, HostFacts
  <2>5. \A q \in DOMAIN o : IsPrefix(q, HostPath) => q = <<>>
    BY <2>2, <2>3, <2>4, HostFacts
  <2>6. Overlaid = DeepMerge(Templated, o)
    BY <1>1, <1>3 DEF Overlaid
  <2>7. PICK kept : /\ kept = {p \in DOMAIN Templated :
                                 \A q \in DOMAIN o :
                                   IsPrefix(q, p) => IsObject(Templated, q) /\ IsObject(o, q)}
                    /\ Overlaid = [p \in kept \cup DOMAIN o |->
                                     IF p \in DOMAIN o THEN o[p] ELSE Templated[p]]
    BY <2>6 DEF DeepMerge
  <2>8. HostPath \in kept <=> HostPath \in DOMAIN Templated
    BY <2>3, <2>5, <2>7
  <2>9. /\ HostPath \in DOMAIN Overlaid <=> HostPath \in DOMAIN Templated
        /\ HostPath \in DOMAIN Overlaid => Overlaid[HostPath] = Templated[HostPath]
    BY <2>4, <2>7, <2>8
  <2>10. QED
    BY <2>9, HostFacts DEF IsLeaf
<1>4. QED
  BY <1>2, <1>3

\* A string that is a template is expanded, the hostname as any other.
LEMMA ExpandedHost ==
  /\ Expanded("") = ""
  /\ \A v : HostOf(Expand(v)) = Expanded(HostOf(v))
<1>1. Expanded("") = ""
  BY TemplatesAssumption DEF Expanded
<1>2. ASSUME NEW v PROVE HostOf(Expand(v)) = Expanded(HostOf(v))
  <2>1. PICK e : e = Expand(v)
    OBVIOUS
  <2>2. /\ DOMAIN e = DOMAIN v
        /\ \A p \in DOMAIN v :
             e[p] = IF IsLeaf(v, p) /\ v[p].text \in DOMAIN Expansion
                    THEN ALeaf(Expansion[v[p].text]) ELSE v[p]
    BY <2>1 DEF Expand
  <2>3. \A p \in DOMAIN v : IsLeaf(e, p) <=> IsLeaf(v, p)
    BY <2>2, NodeFacts DEF IsLeaf
  <2>4. CASE IsLeaf(v, HostPath)
    <3>1. HostPath \in DOMAIN v
      BY <2>4 DEF IsLeaf
    <3>2. IsLeaf(e, HostPath) /\ e[HostPath].text = Expanded(v[HostPath].text)
      BY <2>2, <2>3, <2>4, <3>1 DEF Expanded, ALeaf
    <3>3. QED
      BY <2>1, <2>4, <3>2, HostFacts
  <2>5. CASE ~IsLeaf(v, HostPath)
    <3>1. ~IsLeaf(e, HostPath)
      BY <2>2, <2>3, <2>5 DEF IsLeaf
    <3>2. QED
      BY <1>1, <2>1, <2>5, <3>1, HostFacts
  <2>6. QED
    BY <2>4, <2>5
<1>3. QED
  BY <1>1, <1>2

\* What no template has at a path, the merge has not.
LEMMA NotMerged ==
  ASSUME Inv, NEW p, \A n \in 1 .. Len(sources) : p \notin DOMAIN sources[n].json
  PROVE  p \notin DOMAIN Merge
<1>1. Len(sources) \in Nat /\ \A n \in 1 .. Len(sources) : Decoded(sources[n].json)
  BY DEF Inv, Decoded
<1>2. QED
  BY <1>1, MergedPlaces DEF Merge, Stands

\* Where no template names a variable the merge names none.
LEMMA NoVarMerged ==
  ASSUME Inv, NEW p, NoVarAt(p)
  PROVE  ~IsVar(AsObject(Merge), p)
<1>1. Append(p, Field(VarField)) \notin DOMAIN Merge
  BY NotMerged DEF NoVarAt
<1>2. QED
  BY <1>1, MergeFacts DEF IsVar, IsLeaf

\* If no template names one at its top, the document stays an object.
LEMMA TemplatedTop ==
  ASSUME Inv, NoVarAt(<<>>)
  PROVE  /\ Templated = Expand(Walk(AsObject(Merge)))
         /\ IsObject(Templated, <<>>)
<1>1. PICK v : v = AsObject(Merge)
  OBVIOUS
<1>2. PICK w : w = Walk(v)
  OBVIOUS
<1>3. <<>> \in DOMAIN v /\ v[<<>>] = AnObject /\ \A p \in DOMAIN v : p \in Path
  BY <1>1, MergeFacts
<1>4. ~IsVar(v, <<>>)
  BY <1>1, NoVarMerged
<1>5. \A t \in Outermost(v) : ~IsPrefix(t, <<>>)
  BY <1>3, <1>4, PrefixOrder DEF Outermost
<1>6. <<>> \in DOMAIN w /\ w[<<>>] = AnObject
  BY <1>2, <1>3, <1>5, WalkPlaces
<1>7. IsObject(w, <<>>) /\ ~IsLeaf(w, <<>>)
  BY <1>6 DEF IsObject, IsLeaf, AnObject
<1>8. AsObject(OrNil(w)) = w
  BY <1>6, <1>7, NodeFacts DEF OrNil, AsObject
<1>9. Templated = Expand(w)
  BY <1>1, <1>2, <1>8 DEF Templated
<1>10. <<>> \in DOMAIN Expand(w) /\ Expand(w)[<<>>] = w[<<>>]
  BY <1>6, <1>7 DEF Expand
<1>11. IsObject(Templated, <<>>)
  BY <1>7, <1>9, <1>10 DEF IsObject
<1>12. QED
  BY <1>1, <1>2, <1>9, <1>11

\* Where none of the templates speaks of the system there is no hostname.
LEMMA NoHostMerged ==
  ASSUME Inv, NoVarAt(<<>>),
         \A n \in 1 .. Len(sources) : System \notin DOMAIN sources[n].json
  PROVE  HostOf(Walk(AsObject(Merge))) = ""
<1>1. PICK v : v = AsObject(Merge)
  OBVIOUS
<1>2. /\ \A p \in DOMAIN v : p \in Path
      /\ \A p \in DOMAIN v : \A q \in Path : IsPrefix(q, p) => q \in DOMAIN v
  BY <1>1, MergeFacts
<1>3. ~IsVar(v, <<>>)
  BY <1>1, NoVarMerged
<1>4. System \notin DOMAIN v
  <2>1. System \notin DOMAIN Merge
    BY NotMerged
  <2>2. System # <<>>
    BY DEF System
  <2>3. DOMAIN EmptyObject = {<<>>}
    BY DEF EmptyObject
  <2>4. QED
    BY <1>1, <2>1, <2>2, <2>3 DEF AsObject
<1>5. HostPath \notin DOMAIN v
  BY <1>2, <1>4, HostFacts
<1>6. \A t \in Outermost(v) : ~IsPrefix(t, HostPath)
  BY <1>2, <1>3, <1>4, <1>5, HostFacts DEF Outermost
<1>7. HostPath \notin DOMAIN Walk(v)
  BY <1>2, <1>5, <1>6, WalkPlaces
<1>8. QED
  BY <1>1, <1>7, HostFacts DEF IsLeaf

\* Of N templates those behind the l-th.
LEMMA Later ==
  ASSUME NEW N \in Nat, NEW l \in 1 .. N, NEW k \in l + 1 .. N
  PROVE  k \in 1 .. N /\ ~(k <= l)
OBVIOUS

\* The last template that speaks of the system has its hostname in the merge.
LEMMA LastHostMerged ==
  ASSUME Inv, NoVarAt(<<>>), NoVarAt(System), NEW last \in 1 .. Len(sources),
         \A m \in 1 .. Len(sources) : System \in DOMAIN sources[m].json => m <= last,
         HostOf(sources[last].json) # ""
  PROVE  HostOf(Walk(AsObject(Merge))) = HostOf(sources[last].json)
<1>1. PICK d : d = sources[last].json
  OBVIOUS
<1>2. Len(sources) \in Nat /\ \A n \in 1 .. Len(sources) : Decoded(sources[n].json)
  BY DEF Inv, Decoded
<1>3. HostPath \in DOMAIN d /\ IsLeaf(d, HostPath)
  BY <1>1, HostFacts DEF IsLeaf
<1>4. Stands(sources, Len(sources), last, HostPath)
  <2>1. ASSUME NEW m \in last + 1 .. Len(sources), NEW q \in DOMAIN sources[m].json,
               IsPrefix(q, HostPath)
        PROVE  IsObject(d, q) /\ IsObject(sources[m].json, q)
    <3>1. m \in 1 .. Len(sources) /\ ~(m <= last)
      <4>1. Len(sources) \in Nat
        BY <1>2
      <4>2. QED
        BY <4>1, Later
    <3>2. System \notin DOMAIN sources[m].json
      BY <3>1
    <3>3. q \in Path
      BY <1>2, <2>1, <3>1, TemplateFacts
    <3>4. q = <<>>
      <4>1. HostPath \in DOMAIN sources[m].json => System \in DOMAIN sources[m].json
        BY <1>2, <3>1, HostFacts, TemplateFacts
      <4>2. QED
        BY <2>1, <3>2, <3>3, <4>1, HostFacts
    <3>5. IsObject(sources[m].json, <<>>)
      BY <1>2, <2>1, <3>1, TemplateFacts
    <3>6. IsObject(d, <<>>)
      BY <1>1, <1>2, <1>3, TemplateFacts
    <3>7. QED
      BY <3>4, <3>5, <3>6
  <2>2. QED
    BY <1>1, <1>3, <2>1 DEF Stands
<1>5. HostPath \in DOMAIN Merge /\ Merge[HostPath] = d[HostPath]
  <2>1. PICK k \in Nat : k = Len(sources)
    BY <1>2
  <2>2. \A p : \A n \in 1 .. k : Stands(sources, k, n, p) =>
          /\ p \in DOMAIN MergedAtOnce(sources, k)
          /\ MergedAtOnce(sources, k)[p] = sources[n].json[p]
    BY <1>2, <2>1, MergedPlaces
  <2>3. Stands(sources, k, last, HostPath) /\ last \in 1 .. k
    BY <1>4, <2>1
  <2>4. Merge = MergedAtOnce(sources, k)
    BY <2>1 DEF Merge
  <2>5. HostPath \in DOMAIN Merge /\ Merge[HostPath] = sources[last].json[HostPath]
    BY <2>2, <2>3, <2>4
  <2>6. QED
    BY <1>1, <2>5
<1>6. AsObject(Merge) = Merge
  BY <1>5, NodeFacts DEF AsObject
<1>7. PICK v : v = Merge
  OBVIOUS
<1>8. \A p \in DOMAIN v : p \in Path
  BY <1>6, <1>7, MergeFacts
<1>9. \A t \in Outermost(v) : ~IsPrefix(t, HostPath)
  <2>1. ~IsVar(v, <<>>) /\ ~IsVar(v, System)
    BY <1>6, <1>7, NoVarMerged
  <2>2. ~IsVar(v, HostPath)
    BY <1>3, <1>5, <1>7 DEF IsVar, IsObject, IsLeaf
  <2>3. QED
    BY <1>8, <2>1, <2>2, HostFacts DEF Outermost
<1>10. HostPath \in DOMAIN Walk(v) /\ Walk(v)[HostPath] = d[HostPath]
  BY <1>5, <1>7, <1>8, <1>9, WalkPlaces
<1>11. QED
  BY <1>1, <1>3, <1>6, <1>7, <1>10, HostFacts DEF IsLeaf

\* The last template with a hostname gives the device its name.
THEOREM HostnameDecidedAlways == Spec => []HostnameDecided
<1>1. Inv => HostnameDecided
  <2> SUFFICES ASSUME Inv, pc = "done", NoVarAt(<<>>) PROVE HostnameDecided
    BY DEF HostnameDecided
  <2> DEFINE given == {n \in 1 .. Len(sources) : System \in DOMAIN sources[n].json}
             last == CHOOSE n \in given : \A m \in given : m <= n
             hostname == Expanded(StringAt(sources[last].json, <<"system", "hostname">>))
  <2>1. HostnameIs(Hostname(Overlaid, name))
    BY SystemUnpacked DEF Inv, HostnameIs
  <2>2. HostOf(Overlaid) = Expanded(HostOf(Walk(AsObject(Merge))))
    BY TemplatedTop, OverlaidHost, ExpandedHost
  <2>3. Hostname(Overlaid, name) =
          IF HostOf(Overlaid) # "" THEN HostOf(Overlaid)
          ELSE IF name # "" THEN name ELSE "OpenWrt"
    BY DEF Hostname, HostOf
  <2>4. ASSUME given = {}
        PROVE  HostnameIs(IF name = "" THEN "OpenWrt" ELSE name)
    <3>1. HostOf(Overlaid) = ""
      BY <2>2, <2>4, NoHostMerged, ExpandedHost
    <3>2. QED
      BY <2>1, <2>3, <3>1
  <2>5. ASSUME given # {}, NoVarAt(System), hostname # ""
        PROVE  HostnameIs(hostname)
    <3>1. last \in given /\ \A m \in given : m <= last
      <4>1. PICK T : T = {Len(sources) - n : n \in given}
        OBVIOUS
      <4>2. T \subseteq Nat /\ T # {}
        <5>1. Len(sources) \in Nat
          BY DEF Inv
        <5>2. \A n \in 1 .. Len(sources) : Len(sources) - n \in Nat
          BY <5>1
        <5>3. \A n \in given : n \in 1 .. Len(sources)
          OBVIOUS
        <5>4. QED
          BY <2>5, <4>1, <5>2, <5>3
      <4>3. PICK x \in T : \A y \in T : x <= y
        BY <4>2, Least
      <4>4. PICK n \in given : x = Len(sources) - n
        BY <4>1
      <4>5. ASSUME NEW m \in given PROVE m <= n
        <5>1. Len(sources) - n <= Len(sources) - m
          BY <4>1, <4>3, <4>4
        <5>2. QED
          BY <5>1 DEF Inv
      <4>6. QED
        BY <4>5
    <3>2. hostname = Expanded(HostOf(sources[last].json))
      BY DEF HostOf
    <3>3. HostOf(sources[last].json) # ""
      BY <2>5, <3>2, ExpandedHost
    <3> HIDE DEF last, hostname
    <3>4. HostOf(Walk(AsObject(Merge))) = HostOf(sources[last].json)
      BY <2>5, <3>1, <3>3, LastHostMerged
    <3>5. HostOf(Overlaid) = hostname
      BY <2>2, <3>2, <3>4
    <3>6. QED
      BY <2>1, <2>3, <2>5, <3>5
  <2>6. QED
    BY <2>4, <2>5 DEF HostnameDecided
<1>2. QED
  BY <1>1, Invariance, PTL

-----------------------------------------------------------------------------
(* One call of a recursive function. *)

\* The path r below the step s.
Under(s, r) == <<s>> \o r

\* A path with a step in front.
LEMMA UnderFacts ==
  ASSUME NEW s \in Step, NEW r \in Path
  PROVE  /\ Under(s, r) \in Path /\ Under(s, r) # <<>>
         /\ Len(Under(s, r)) = Len(r) + 1
         /\ Under(s, r)[1] = s /\ Head(Under(s, r)) = s
         /\ \A n \in 1 .. Len(r) : Under(s, r)[n + 1] = r[n]
         /\ Tail(Under(s, r)) = r
<1>1. <<s>> \in Seq(Step) /\ Len(<<s>>) = 1 /\ <<s>>[1] = s
  OBVIOUS
<1>2. r \in Seq(Step) /\ Len(r) \in Nat
  BY LenProperties DEF Path, Step
<1>3. PICK a : a = <<s>>
  OBVIOUS
<1>4. PICK p : p = a \o r
  OBVIOUS
<1>5. /\ p \in Seq(Step) /\ Len(p) = 1 + Len(r)
      /\ \A n \in 1 .. 1 + Len(r) : p[n] = IF n <= 1 THEN a[n] ELSE r[n - 1]
  BY <1>1, <1>2, <1>3, <1>4, ConcatProperties
<1>6. p[1] = s /\ \A n \in 1 .. Len(r) : p[n + 1] = r[n]
  BY <1>1, <1>2, <1>3, <1>5
<1>7. p # <<>>
  BY <1>2, <1>5, EmptySeq
<1>8. Tail(p) = r
  <2>1. /\ Tail(p) \in Seq(Step) /\ Len(Tail(p)) = Len(p) - 1
        /\ \A n \in 1 .. Len(Tail(p)) : Tail(p)[n] = p[n + 1]
    BY <1>5, <1>7, HeadTailProperties
  <2>2. Len(Tail(p)) = Len(r)
    BY <1>2, <1>5, <2>1
  <2>3. \A n \in 1 .. Len(Tail(p)) : Tail(p)[n] = r[n]
    BY <1>6, <2>1, <2>2
  <2>4. QED
    BY <1>2, <2>1, <2>2, <2>3, SeqEqual
<1>9. Len(p) = Len(r) + 1 /\ Head(p) = s
  BY <1>2, <1>5, <1>6
<1>10. Under(s, r) = p
  BY <1>3, <1>4 DEF Under
<1>11. p \in Path
  BY <1>5 DEF Path, Step
<1>12. QED
  BY <1>6, <1>7, <1>8, <1>9, <1>10, <1>11

\* Every path but the root is one below its first step.
LEMMA FirstStep ==
  ASSUME NEW p \in Path, p # <<>>
  PROVE  /\ p[1] \in Step /\ Tail(p) \in Path
         /\ p = Under(p[1], Tail(p))
         /\ SubSeq(p, 2, Len(p)) = Tail(p)
<1>1. p \in Seq(Step) /\ Len(p) \in Nat \ {0}
  BY EmptySeq DEF Path, Step
<1>2. p[1] \in Step
  BY <1>1, ElementOfSeq
<1>3. /\ Tail(p) \in Path /\ Len(Tail(p)) = Len(p) - 1
      /\ \A n \in 1 .. Len(Tail(p)) : Tail(p)[n] = p[n + 1]
  BY <1>1, HeadTailProperties DEF Path, Step
<1>4. PICK u : u = Under(p[1], Tail(p))
  OBVIOUS
<1>5. /\ u \in Path /\ Len(u) = Len(Tail(p)) + 1 /\ u[1] = p[1]
      /\ \A n \in 1 .. Len(Tail(p)) : u[n + 1] = Tail(p)[n]
  <2>1. PICK s \in Step, r \in Path : s = p[1] /\ r = Tail(p)
    BY <1>2, <1>3
  <2>2. /\ Under(s, r) \in Path /\ Len(Under(s, r)) = Len(r) + 1 /\ Under(s, r)[1] = s
        /\ \A n \in 1 .. Len(r) : Under(s, r)[n + 1] = r[n]
    BY UnderFacts
  <2>3. u = Under(s, r)
    BY <1>4, <2>1
  <2>4. QED
    BY <2>1, <2>2, <2>3
<1>6. Len(u) = Len(p)
  BY <1>1, <1>3, <1>5
<1>7. \A n \in 1 .. Len(u) : u[n] = p[n]
  <2>1. SUFFICES ASSUME NEW n \in 1 .. Len(u), n # 1 PROVE u[n] = p[n]
    BY <1>5
  <2>2. PICK m \in 1 .. Len(Tail(p)) : n = m + 1
    <3>1. n - 1 \in 1 .. Len(Tail(p)) /\ n = (n - 1) + 1
      BY <1>1, <1>3, <1>5, <2>1
    <3>2. QED
      BY <3>1
  <2>3. QED
    BY <1>3, <1>5, <2>2
<1>8. u = p
  BY <1>1, <1>5, <1>6, <1>7, SeqEqual DEF Path, Step
<1>9. SubSeq(p, 2, Len(p)) = Tail(p)
  BY <1>1, TailIsSubSeq
<1>10. QED
  BY <1>2, <1>3, <1>4, <1>8, <1>9

\* Two such paths.
LEMMA UnderPrefix ==
  ASSUME NEW s \in Step, NEW t \in Step, NEW q \in Path, NEW r \in Path
  PROVE  /\ Under(s, q) = Under(t, r) <=> s = t /\ q = r
         /\ IsPrefix(Under(s, q), Under(t, r)) <=> s = t /\ IsPrefix(q, r)
<1>1. PICK a, b : a = Under(s, q) /\ b = Under(t, r)
  OBVIOUS
<1>2. /\ a \in Path /\ Len(a) = Len(q) + 1 /\ a[1] = s /\ Tail(a) = q
      /\ \A n \in 1 .. Len(q) : a[n + 1] = q[n]
  <2>1. /\ Under(s, q) \in Path /\ Len(Under(s, q)) = Len(q) + 1
        /\ Under(s, q)[1] = s /\ Tail(Under(s, q)) = q
        /\ \A n \in 1 .. Len(q) : Under(s, q)[n + 1] = q[n]
    BY UnderFacts
  <2>2. QED
    BY <1>1, <2>1
<1>3. /\ b \in Path /\ Len(b) = Len(r) + 1 /\ b[1] = t /\ Tail(b) = r
      /\ \A n \in 1 .. Len(r) : b[n + 1] = r[n]
  <2>1. /\ Under(t, r) \in Path /\ Len(Under(t, r)) = Len(r) + 1
        /\ Under(t, r)[1] = t /\ Tail(Under(t, r)) = r
        /\ \A n \in 1 .. Len(r) : Under(t, r)[n + 1] = r[n]
    BY UnderFacts
  <2>2. QED
    BY <1>1, <2>1
<1>4. Len(q) \in Nat /\ Len(r) \in Nat
  BY LenProperties DEF Path
<1>5. ASSUME IsPrefix(a, b) PROVE s = t /\ IsPrefix(q, r)
  <2>1. Len(a) <= Len(b) /\ \A n \in 1 .. Len(a) : a[n] = b[n]
    <3>1. a \in Path /\ b \in Path
      BY <1>2, <1>3
    <3>2. QED
      BY <1>5, <3>1, PrefixMeaning DEF Path
  <2>2. s = t
    BY <1>2, <1>3, <1>4, <2>1
  <2>3. Len(q) <= Len(r)
    BY <1>2, <1>3, <1>4, <2>1
  <2>4. ASSUME NEW n \in 1 .. Len(q) PROVE q[n] = r[n]
    <3>1. n + 1 \in 1 .. Len(a) /\ n \in 1 .. Len(r)
      BY <1>2, <1>4, <2>3
    <3>2. QED
      BY <1>2, <1>3, <2>1, <3>1
  <2>5. QED
    BY <2>2, <2>3, <2>4, PrefixMeaning DEF Path
<1>6. ASSUME s = t, IsPrefix(q, r) PROVE IsPrefix(a, b)
  <2>1. Len(q) <= Len(r) /\ \A n \in 1 .. Len(q) : q[n] = r[n]
    BY <1>6, PrefixMeaning DEF Path
  <2>2. Len(a) <= Len(b)
    BY <1>2, <1>3, <1>4, <2>1
  <2>3. ASSUME NEW n \in 1 .. Len(a) PROVE a[n] = b[n]
    <3>1. CASE n = 1
      BY <1>2, <1>3, <1>6, <3>1
    <3>2. CASE n # 1
      <4>1. PICK m \in 1 .. Len(q) : n = m + 1
        <5>1. n - 1 \in 1 .. Len(q) /\ n = (n - 1) + 1
          BY <1>2, <1>4, <3>2
        <5>2. QED
          BY <5>1
      <4>2. m \in 1 .. Len(r)
        BY <1>4, <2>1
      <4>3. QED
        BY <1>2, <1>3, <2>1, <4>1, <4>2
    <3>3. QED
      BY <3>1, <3>2
  <2>4. QED
    BY <1>2, <1>3, <2>2, <2>3, PrefixMeaning DEF Path
<1>7. a = b <=> s = t /\ q = r
  BY <1>1, <1>2, <1>3
<1>8. QED
  BY <1>1, <1>5, <1>6, <1>7

\* The root below a step is the step.
LEMMA UnderRoot ==
  ASSUME NEW s \in Step
  PROVE  Under(s, <<>>) = <<s>> /\ <<s>> \in Path /\ <<>> \in Path
<1>1. <<s>> \in Seq(Step) /\ <<>> \in Seq(Step)
  BY EmptySeq
<1>2. <<s>> \o <<>> = <<s>>
  BY <1>1, ConcatEmptySeq
<1>3. QED
  BY <1>1, <1>2 DEF Under, Path, Step

\* What goes on below a step.
LEMMA UnderConcat ==
  ASSUME NEW s \in Step, NEW q \in Path, NEW r \in Path
  PROVE  Under(s, q) \o r = Under(s, q \o r)
<1>1. <<s>> \in Seq(Step) /\ q \in Seq(Step) /\ r \in Seq(Step)
  BY DEF Path, Step
<1>2. (<<s>> \o q) \o r = <<s>> \o (q \o r)
  BY <1>1, ConcatAssociative
<1>3. QED
  BY <1>2 DEF Under

\* One step on below a step.
LEMMA UnderAppend ==
  ASSUME NEW s \in Step, NEW q \in Path, NEW x \in Step
  PROVE  Append(Under(s, q), x) = Under(s, Append(q, x))
<1>1. /\ <<s>> \in Seq(Step) /\ <<x>> \in Seq(Step) /\ q \in Seq(Step)
      /\ <<s>> \o q \in Seq(Step)
  BY ConcatProperties DEF Path, Step
<1>2. Append(<<s>> \o q, x) = (<<s>> \o q) \o <<x>>
  BY <1>1, AppendIsConcat
<1>3. Append(q, x) = q \o <<x>>
  BY <1>1, AppendIsConcat
<1>4. (<<s>> \o q) \o <<x>> = <<s>> \o (q \o <<x>>)
  BY <1>1, ConcatAssociative
<1>5. QED
  BY <1>2, <1>3, <1>4 DEF Under

\* The paths are there with what leads to them.
Grown(v) ==
  /\ v = [p \in DOMAIN v |-> v[p]]
  /\ \A p \in DOMAIN v :
       p \in Path /\ \A q \in Path : IsPrefix(q, p) => q \in DOMAIN v

\* Values are grown.
LEMMA ValueGrown ==
  ASSUME NEW v, IsValue(v)
  PROVE  /\ Grown(v) /\ <<>> \in DOMAIN v
         /\ \A p \in DOMAIN v : v[p] \in Node
<1>1. /\ v = [p \in DOMAIN v |-> v[p]] /\ <<>> \in DOMAIN v
      /\ \A p \in DOMAIN v : p \in Path /\ v[p] \in Node
  BY DEF IsValue
<1>2. \A p \in DOMAIN v : \A q \in Path : IsPrefix(q, p) => q \in DOMAIN v
  BY PrefixThere
<1>3. QED
  BY <1>1, <1>2 DEF Grown

\* The steps of a value are those that lead to something.
LEMMA StepsFacts ==
  ASSUME NEW v, Grown(v)
  PROVE  /\ \A s : s \in Steps(v) <=> s \in Step /\ <<s>> \in DOMAIN v
         /\ \A s \in Step : \A r \in Path : Under(s, r) \in DOMAIN v => s \in Steps(v)
<1>1. ASSUME NEW s \in Step, NEW r \in Path, Under(s, r) \in DOMAIN v
      PROVE  s \in Steps(v)
  <2>1. Under(s, r) # <<>> /\ Under(s, r)[1] = s
    BY UnderFacts
  <2>2. QED
    BY <1>1, <2>1 DEF Steps
<1>2. ASSUME NEW s \in Steps(v) PROVE s \in Step /\ <<s>> \in DOMAIN v
  <2>1. PICK p \in DOMAIN v : p # <<>> /\ s = p[1]
    BY DEF Steps
  <2>2. p \in Path
    BY DEF Grown
  <2>3. s \in Step /\ p = Under(s, Tail(p)) /\ Tail(p) \in Path
    BY <2>1, <2>2, FirstStep
  <2>4. <<s>> \in Path /\ IsPrefix(<<s>>, p)
    <3>1. <<s>> \in Path
      BY <2>3, UnderRoot
    <3>2. IsPrefix(<<s>>, <<s>> \o Tail(p))
      BY <2>3, <3>1, PrefixConcat
    <3>3. QED
      BY <2>3, <3>1, <3>2 DEF Under
  <2>5. QED
    BY <2>3, <2>4 DEF Grown
<1>3. ASSUME NEW s \in Step, <<s>> \in DOMAIN v PROVE s \in Steps(v)
  <2>1. <<s>> = Under(s, <<>>) /\ <<>> \in Path
    BY UnderRoot
  <2>2. QED
    BY <1>1, <1>3, <2>1
<1>4. QED
  BY <1>1, <1>2, <1>3

\* What is below a step.
LEMMA ChildFacts ==
  ASSUME NEW v, Grown(v), NEW s \in Step, NEW c, c = Child(v, s)
  PROVE  /\ c = [r \in DOMAIN c |-> c[r]]
         /\ \A r \in DOMAIN c : r \in Path
         /\ \A r \in Path : r \in DOMAIN c <=> Under(s, r) \in DOMAIN v
         /\ \A r \in DOMAIN c : c[r] = v[Under(s, r)]
<1> DEFINE D == {SubSeq(p, Len(<<s>>) + 1, Len(p)) : p \in {p \in DOMAIN v : IsPrefix(<<s>>, p)}}
<1>1. c = [r \in D |-> v[Under(s, r)]]
  BY DEF Child, ValueAt, Under
<1>2. ASSUME NEW p \in DOMAIN v, IsPrefix(<<s>>, p)
      PROVE  /\ Tail(p) \in Path /\ SubSeq(p, Len(<<s>>) + 1, Len(p)) = Tail(p)
             /\ p = Under(s, Tail(p))
  <2>1. p \in Path /\ <<s>> \in Path
    BY UnderRoot DEF Grown
  <2>2. p # <<>> /\ p[1] = s
    <3>1. PICK a \in Path : a = <<s>>
      BY <2>1
    <3>2. IsPrefix(a, p)
      BY <1>2, <3>1
    <3>3. Len(a) <= Len(p) /\ \A n \in 1 .. Len(a) : a[n] = p[n]
      BY <2>1, <3>2, PrefixMeaning DEF Path
    <3>4. Len(a) = 1 /\ a[1] = s
      BY <3>1
    <3>5. Len(<<>>) = 0
      OBVIOUS
    <3>6. QED
      BY <3>3, <3>4, <3>5
  <2>3. Len(<<s>>) + 1 = 2
    OBVIOUS
  <2>4. QED
    BY <2>1, <2>2, <2>3, FirstStep
<1>3. ASSUME NEW r \in D PROVE r \in Path /\ Under(s, r) \in DOMAIN v
  BY <1>2
<1>4. ASSUME NEW r \in Path, Under(s, r) \in DOMAIN v PROVE r \in D
  <2>1. Tail(Under(s, r)) = r
    BY UnderFacts
  <2>2. IsPrefix(<<s>>, Under(s, r))
    <3>1. <<s>> \in Path
      BY UnderRoot
    <3>2. QED
      BY <3>1, PrefixConcat DEF Under
  <2>3. r = SubSeq(Under(s, r), Len(<<s>>) + 1, Len(Under(s, r)))
    BY <1>2, <1>4, <2>1, <2>2
  <2>4. QED
    BY <1>4, <2>2, <2>3
<1> HIDE DEF D
<1>5. QED
  BY <1>1, <1>3, <1>4

\* The value w is a node over the values of c, one below each step of S.
IsAssembled(w, node, S, c) ==
  /\ w = [p \in DOMAIN w |-> w[p]]
  /\ \A p \in DOMAIN w : p \in Path
  /\ <<>> \in DOMAIN w /\ w[<<>>] = node
  /\ \A s \in Step : \A r \in Path :
       /\ Under(s, r) \in DOMAIN w <=> s \in S /\ r \in DOMAIN c[s]
       /\ Under(s, r) \in DOMAIN w => w[Under(s, r)] = c[s][r]

\* What is assembled from the values below.
LEMMA AssembledFacts ==
  ASSUME NEW S, S \subseteq Step, NEW c, DOMAIN c = S,
         \A s \in S : \A r \in DOMAIN c[s] : r \in Path,
         NEW node, NEW w, w = Assembled(node, c)
  PROVE  IsAssembled(w, node, S, c)
<1> DEFINE below == UNION {{Under(s, r) : r \in DOMAIN c[s]} : s \in S}
<1>1. w = [p \in {<<>>} \cup below |-> IF p = <<>> THEN node ELSE c[Head(p)][Tail(p)]]
  BY DEF Assembled, Under
<1>2. ASSUME NEW p \in below
      PROVE  \E s \in S : \E r \in DOMAIN c[s] : p = Under(s, r)
  OBVIOUS
<1>3. \A s \in S : \A r \in DOMAIN c[s] : Under(s, r) \in below
  OBVIOUS
<1> HIDE DEF below
<1>4. <<>> \in Path
  BY EmptySeq DEF Path
<1>5. \A p \in {<<>>} \cup below : p \in Path
  BY <1>2, <1>4, UnderFacts
<1>6. ASSUME NEW s \in Step, NEW r \in Path, Under(s, r) \in {<<>>} \cup below
      PROVE  s \in S /\ r \in DOMAIN c[s]
  <2>1. Under(s, r) # <<>>
    BY UnderFacts
  <2>2. PICK t \in S : \E q \in DOMAIN c[t] : Under(s, r) = Under(t, q)
    BY <1>2, <1>6, <2>1
  <2>3. PICK q \in DOMAIN c[t] : Under(s, r) = Under(t, q)
    BY <2>2
  <2>4. s = t /\ r = q
    BY <2>3, UnderPrefix
  <2>5. QED
    BY <2>4
<1>7. ASSUME NEW s \in Step, NEW r \in Path, Under(s, r) \in {<<>>} \cup below
      PROVE  w[Under(s, r)] = c[s][r]
  <2>1. Under(s, r) # <<>> /\ Head(Under(s, r)) = s /\ Tail(Under(s, r)) = r
    BY UnderFacts
  <2>2. QED
    BY <1>1, <1>7, <2>1
<1>8. DOMAIN w = {<<>>} \cup below /\ w[<<>>] = node /\ w = [p \in DOMAIN w |-> w[p]]
  BY <1>1
<1>9. QED
  BY <1>3, <1>5, <1>6, <1>7, <1>8 DEF IsAssembled

\* Two values are the same if they are at the root and below every step.
LEMMA SameValue ==
  ASSUME NEW v, v = [p \in DOMAIN v |-> v[p]], \A p \in DOMAIN v : p \in Path,
         NEW w, w = [p \in DOMAIN w |-> w[p]], \A p \in DOMAIN w : p \in Path,
         <<>> \in DOMAIN v, <<>> \in DOMAIN w, v[<<>>] = w[<<>>],
         \A s \in Step : \A r \in Path :
           Under(s, r) \in DOMAIN v <=> Under(s, r) \in DOMAIN w,
         \A s \in Step : \A r \in Path :
           Under(s, r) \in DOMAIN v => v[Under(s, r)] = w[Under(s, r)]
  PROVE  v = w
<1>1. ASSUME NEW p \in Path
      PROVE  /\ p \in DOMAIN v <=> p \in DOMAIN w
             /\ p \in DOMAIN v => v[p] = w[p]
  <2>1. CASE p = <<>>
    BY <2>1
  <2>2. CASE p # <<>>
    <3>1. p[1] \in Step /\ Tail(p) \in Path /\ p = Under(p[1], Tail(p))
      BY <2>2, FirstStep
    <3>2. QED
      BY <3>1
  <2>3. QED
    BY <2>1, <2>2
<1>2. DOMAIN v = DOMAIN w
  BY <1>1
<1>3. \A p \in DOMAIN v : v[p] = w[p]
  BY <1>1
<1>4. QED
  BY <1>2, <1>3

\* There is one value that is a node over given values.
LEMMA AssembledAlone ==
  ASSUME NEW S, S \subseteq Step, NEW c, DOMAIN c = S,
         \A s \in S : \A r \in DOMAIN c[s] : r \in Path,
         NEW node, NEW v, IsAssembled(v, node, S, c)
  PROVE  v = Assembled(node, c)
<1>1. PICK w : w = Assembled(node, c)
  OBVIOUS
<1>2. IsAssembled(w, node, S, c)
  BY <1>1, AssembledFacts
<1>3. /\ v = [p \in DOMAIN v |-> v[p]]
      /\ \A p \in DOMAIN v : p \in Path
      /\ <<>> \in DOMAIN v /\ v[<<>>] = node
  BY DEF IsAssembled
<1>4. /\ w = [p \in DOMAIN w |-> w[p]]
      /\ \A p \in DOMAIN w : p \in Path
      /\ <<>> \in DOMAIN w /\ w[<<>>] = node
  BY <1>2 DEF IsAssembled
<1>5. \A s \in Step : \A r \in Path :
        Under(s, r) \in DOMAIN v <=> Under(s, r) \in DOMAIN w
  BY <1>2 DEF IsAssembled
<1>6. \A s \in Step : \A r \in Path :
        Under(s, r) \in DOMAIN v => v[Under(s, r)] = w[Under(s, r)]
  BY <1>2, <1>5 DEF IsAssembled
<1>7. v = w
  BY <1>3, <1>4, <1>5, <1>6, SameValue
<1>8. QED
  BY <1>1, <1>7

\* What is at a path below a step.
LEMMA ChildKinds ==
  ASSUME NEW v, Grown(v), NEW s \in Step, NEW q \in Path
  PROVE  /\ IsObject(Child(v, s), q) <=> IsObject(v, Under(s, q))
         /\ IsLeaf(Child(v, s), q) <=> IsLeaf(v, Under(s, q))
         /\ IsVar(Child(v, s), q) <=> IsVar(v, Under(s, q))
         /\ IsVar(v, Under(s, q)) => PathOf(Child(v, s), q) = PathOf(v, Under(s, q))
<1>1. PICK c : c = Child(v, s)
  OBVIOUS
<1>2. \A r \in Path : r \in DOMAIN c <=> Under(s, r) \in DOMAIN v
  BY <1>1, ChildFacts
<1>3. \A r \in DOMAIN c : c[r] = v[Under(s, r)]
  BY <1>1, ChildFacts
<1>4. \A r \in Path : /\ IsObject(c, r) <=> IsObject(v, Under(s, r))
                      /\ IsLeaf(c, r) <=> IsLeaf(v, Under(s, r))
  BY <1>2, <1>3 DEF IsObject, IsLeaf
<1>5. PICK a \in Path : a = Append(q, Field(VarField)) /\ Append(Under(s, q), Field(VarField)) = Under(s, a)
  <2>1. Field(VarField) \in Step
    BY StringsAssumption DEF Field, Step
  <2>2. Append(q, Field(VarField)) \in Path
    BY <2>1, AppendProperties DEF Path, Step
  <2>3. Append(Under(s, q), Field(VarField)) = Under(s, Append(q, Field(VarField)))
    BY <2>1, UnderAppend
  <2>4. QED
    BY <2>2, <2>3
<1>6. IsVar(c, q) <=> IsVar(v, Under(s, q))
  BY <1>4, <1>5 DEF IsVar
<1>7. ASSUME IsVar(v, Under(s, q)) PROVE PathOf(c, q) = PathOf(v, Under(s, q))
  <2>1. Under(s, a) \in DOMAIN v
    BY <1>5, <1>7 DEF IsVar, IsLeaf
  <2>2. c[a] = v[Under(s, a)]
    BY <1>2, <1>3, <1>5, <2>1
  <2>3. QED
    BY <1>5, <2>2 DEF PathOf
<1>8. QED
  BY <1>1, <1>4, <1>6, <1>7

\* What is in the way below a step both documents have an object at.
LEMMA FreeBelow ==
  ASSUME NEW dst, IsDocument(dst), NEW src, IsDocument(src),
         NEW s \in Step, IsObject(dst, <<s>>), IsObject(src, <<s>>), NEW r \in Path
  PROVE  Unhindered(dst, src, Under(s, r)) <=> Unhindered(Child(dst, s), Child(src, s), r)
<1>1. Grown(dst) /\ Grown(src) /\ IsObject(dst, <<>>) /\ IsObject(src, <<>>)
  BY ValueGrown DEF IsDocument
<1>2. PICK d, c : d = Child(dst, s) /\ c = Child(src, s)
  OBVIOUS
<1>3. \A q \in Path : /\ IsObject(d, q) <=> IsObject(dst, Under(s, q))
                      /\ IsObject(c, q) <=> IsObject(src, Under(s, q))
  BY <1>1, <1>2, ChildKinds
<1>4. /\ \A q \in DOMAIN c : q \in Path
      /\ \A q \in Path : q \in DOMAIN c <=> Under(s, q) \in DOMAIN src
  BY <1>1, <1>2, ChildFacts
<1>5. ASSUME Unhindered(d, c, r), NEW q \in DOMAIN src, IsPrefix(q, Under(s, r))
      PROVE  IsObject(dst, q) /\ IsObject(src, q)
  <2>1. CASE q = <<>>
    BY <1>1, <2>1
  <2>2. CASE q # <<>>
    <3>1. q \in Path
      BY <1>1 DEF Grown
    <3>2. PICK t \in Step : \E u \in Path : q = Under(t, u)
      BY <2>2, <3>1, FirstStep
    <3>3. PICK u \in Path : q = Under(t, u)
      BY <3>2
    <3>4. t = s /\ IsPrefix(u, r)
      BY <1>5, <3>3, UnderPrefix
    <3>5. IsObject(d, u) /\ IsObject(c, u)
      BY <1>4, <1>5, <3>3, <3>4 DEF Unhindered
    <3>6. QED
      BY <1>3, <3>3, <3>4, <3>5
  <2>3. QED
    BY <2>1, <2>2
<1>6. ASSUME Unhindered(dst, src, Under(s, r)), NEW q \in DOMAIN c, IsPrefix(q, r)
      PROVE  IsObject(d, q) /\ IsObject(c, q)
  <2>1. q \in Path /\ Under(s, q) \in DOMAIN src
    BY <1>4
  <2>2. IsPrefix(Under(s, q), Under(s, r))
    BY <1>6, <2>1, UnderPrefix
  <2>3. IsObject(dst, Under(s, q)) /\ IsObject(src, Under(s, q))
    BY <1>6, <2>1, <2>2 DEF Unhindered
  <2>4. QED
    BY <1>3, <2>1, <2>3
<1>7. Unhindered(dst, src, Under(s, r)) <=> Unhindered(d, c, r)
  BY <1>5, <1>6 DEF Unhindered
<1>8. QED
  BY <1>2, <1>7

\* What the calls for the fields of two documents return.
MergedBelow(dst, src) ==
  [s \in Shared(dst, src) |-> DeepMerge(Child(dst, s), Child(src, s))]

\* One call of deepMerge: what DeepMerge says of all paths at once is what the
\* code does field by field, with what it says of the fields.
LEMMA DeepMergeOnce ==
  ASSUME NEW dst, dst = Nil \/ IsDocument(dst), NEW src, IsDocument(src)
  PROVE  DeepMerge(dst, src) = deepMergeCall(dst, src, MergedBelow(dst, src))
<1>1. CASE dst = Nil
  BY <1>1, MergeOverNil DEF deepMergeCall
<1>2. CASE dst # Nil
  <2>1. IsDocument(dst)
    BY <1>2
  <2>2. /\ Grown(dst) /\ Grown(src) /\ <<>> \in DOMAIN dst /\ <<>> \in DOMAIN src
        /\ src[<<>>] = AnObject /\ IsObject(dst, <<>>) /\ IsObject(src, <<>>)
    <3>1. /\ IsObject(dst, <<>>) /\ IsObject(src, <<>>)
          /\ Grown(dst) /\ Grown(src) /\ <<>> \in DOMAIN dst /\ <<>> \in DOMAIN src
          /\ src[<<>>] \in Node
      BY <2>1, ValueGrown DEF IsDocument
    <3>2. src[<<>>] = AnObject
      BY <3>1, NodeFacts DEF IsObject
    <3>3. QED
      BY <3>1, <3>2
  <2>3. PICK below : below = MergedBelow(dst, src)
    OBVIOUS
  <2>4. PICK both : both = Steps(dst) \cup Steps(src)
    OBVIOUS
  <2>5. PICK c : c = [s \in both |->
                        IF s \notin Steps(src) THEN Child(dst, s)
                        ELSE IF s \in Shared(dst, src) THEN below[s] ELSE Child(src, s)]
    OBVIOUS
  <2>6. PICK m, w : m = DeepMerge(dst, src) /\ w = Assembled(AnObject, c)
    OBVIOUS
  <2>7. deepMergeCall(dst, src, below) = w
    BY <1>2, <2>4, <2>5, <2>6 DEF deepMergeCall
  <2>8. /\ m = [p \in DOMAIN m |-> m[p]]
        /\ \A p : p \in DOMAIN m <=> \/ p \in DOMAIN src
                                     \/ (p \in DOMAIN dst /\ Unhindered(dst, src, p))
        /\ \A p \in DOMAIN m : m[p] = IF p \in DOMAIN src THEN src[p] ELSE dst[p]
    BY <2>6, DeepMergePlaces
  <2>9. /\ \A s : s \in Steps(dst) <=> s \in Step /\ <<s>> \in DOMAIN dst
        /\ \A s : s \in Steps(src) <=> s \in Step /\ <<s>> \in DOMAIN src
        /\ \A s \in Step : \A r \in Path : Under(s, r) \in DOMAIN dst => s \in Steps(dst)
        /\ \A s \in Step : \A r \in Path : Under(s, r) \in DOMAIN src => s \in Steps(src)
    BY <2>2, StepsFacts
  <2>10. ASSUME NEW s \in both
         PROVE  /\ s \in Step
                /\ \A r \in DOMAIN c[s] : r \in Path
                /\ \A r \in Path : r \in DOMAIN c[s] <=> Under(s, r) \in DOMAIN m
                /\ \A r \in Path : r \in DOMAIN c[s] => c[s][r] = m[Under(s, r)]
    <3>1. s \in Step
      BY <2>4, <2>9
    <3>2. PICK d, e : d = Child(dst, s) /\ e = Child(src, s)
      OBVIOUS
    <3>3. /\ \A r \in DOMAIN d : r \in Path
          /\ \A r \in Path : r \in DOMAIN d <=> Under(s, r) \in DOMAIN dst
          /\ \A r \in DOMAIN d : d[r] = dst[Under(s, r)]
      BY <2>2, <3>1, <3>2, ChildFacts
    <3>4. /\ \A r \in DOMAIN e : r \in Path
          /\ \A r \in Path : r \in DOMAIN e <=> Under(s, r) \in DOMAIN src
          /\ \A r \in DOMAIN e : e[r] = src[Under(s, r)]
      BY <2>2, <3>1, <3>2, ChildFacts
    <3>5. CASE s \notin Steps(src)
      <4>1. c[s] = d
        BY <2>5, <3>2, <3>5
      <4>2. ASSUME NEW r \in Path
            PROVE  Under(s, r) \notin DOMAIN src /\ Unhindered(dst, src, Under(s, r))
        <5>1. Under(s, r) \notin DOMAIN src
          BY <2>9, <3>1, <3>5
        <5>2. ASSUME NEW q \in DOMAIN src, IsPrefix(q, Under(s, r)) PROVE q = <<>>
          <6>1. SUFFICES ASSUME q # <<>> PROVE FALSE
            OBVIOUS
          <6>2. q \in Path
            BY <2>2 DEF Grown
          <6>3. PICK t \in Step : \E u \in Path : q = Under(t, u)
            BY <6>1, <6>2, FirstStep
          <6>4. PICK u \in Path : q = Under(t, u)
            BY <6>3
          <6>5. t = s
            BY <3>1, <5>2, <6>4, UnderPrefix
          <6>6. QED
            BY <2>9, <3>1, <3>5, <6>4, <6>5
        <5>3. QED
          BY <2>2, <5>1, <5>2 DEF Unhindered
      <4>3. ASSUME NEW r \in Path
            PROVE  Under(s, r) \in DOMAIN m <=> Under(s, r) \in DOMAIN dst
        BY <2>8, <4>2
      <4>4. ASSUME NEW r \in Path, Under(s, r) \in DOMAIN m
            PROVE  m[Under(s, r)] = dst[Under(s, r)]
        BY <2>8, <4>2, <4>4
      <4>5. QED
        BY <3>1, <3>3, <4>1, <4>3, <4>4
    <3>6. CASE s \in Steps(src) /\ IsObject(dst, <<s>>) /\ IsObject(src, <<s>>)
      <4>1. s \in Shared(dst, src)
        BY <2>9, <3>1, <3>6 DEF IsObject, Shared
      <4>2. c[s] = DeepMerge(d, e)
        BY <2>3, <2>5, <3>2, <3>6, <4>1 DEF MergedBelow
      <4>3. PICK x : x = DeepMerge(d, e)
        OBVIOUS
      <4>4. /\ \A p : p \in DOMAIN x <=> p \in DOMAIN e \/ (p \in DOMAIN d /\ Unhindered(d, e, p))
            /\ \A p \in DOMAIN x : x[p] = IF p \in DOMAIN e THEN e[p] ELSE d[p]
        BY <4>3, DeepMergePlaces
      <4>5. \A r \in Path : Unhindered(dst, src, Under(s, r)) <=> Unhindered(d, e, r)
        BY <2>1, <3>1, <3>2, <3>6, FreeBelow
      <4>6. \A r \in DOMAIN x : r \in Path
        BY <3>3, <3>4, <4>4
      <4>7. ASSUME NEW r \in Path
            PROVE  r \in DOMAIN x <=> Under(s, r) \in DOMAIN m
        <5>1. /\ r \in DOMAIN e <=> Under(s, r) \in DOMAIN src
              /\ r \in DOMAIN d <=> Under(s, r) \in DOMAIN dst
          BY <3>3, <3>4
        <5>2. Unhindered(dst, src, Under(s, r)) <=> Unhindered(d, e, r)
          BY <4>5
        <5>3. r \in DOMAIN x <=> r \in DOMAIN e \/ (r \in DOMAIN d /\ Unhindered(d, e, r))
          BY <4>4
        <5>4. Under(s, r) \in DOMAIN m <=>
                \/ Under(s, r) \in DOMAIN src
                \/ (Under(s, r) \in DOMAIN dst /\ Unhindered(dst, src, Under(s, r)))
          BY <2>8
        <5>5. QED
          BY <5>1, <5>2, <5>3, <5>4
      <4>8. ASSUME NEW r \in Path, r \in DOMAIN x PROVE x[r] = m[Under(s, r)]
        <5>1. Under(s, r) \in DOMAIN m
          BY <4>7, <4>8
        <5>2. CASE r \in DOMAIN e
          BY <2>8, <3>4, <4>4, <4>8, <5>1, <5>2
        <5>3. CASE r \notin DOMAIN e
          BY <2>8, <3>3, <3>4, <4>4, <4>8, <5>1, <5>3
        <5>4. QED
          BY <5>2, <5>3
      <4>9. QED
        BY <3>1, <4>2, <4>3, <4>6, <4>7, <4>8
    <3>7. CASE s \in Steps(src) /\ ~(IsObject(dst, <<s>>) /\ IsObject(src, <<s>>))
      <4>1. c[s] = e
        BY <2>5, <3>2, <3>7 DEF Shared
      <4>2. ASSUME NEW r \in Path PROVE ~Unhindered(dst, src, Under(s, r))
        <5>1. <<s>> \in DOMAIN src
          BY <2>9, <3>7
        <5>2. IsPrefix(<<s>>, Under(s, r))
          <6>1. Under(s, <<>>) = <<s>> /\ <<s>> \in Path
            BY <3>1, UnderRoot
          <6>2. QED
            BY <6>1, PrefixConcat DEF Under
        <5>3. QED
          BY <3>7, <5>1, <5>2 DEF Unhindered
      <4>3. \A r \in Path : Under(s, r) \in DOMAIN m <=> Under(s, r) \in DOMAIN src
        BY <2>8, <4>2
      <4>4. ASSUME NEW r \in Path, Under(s, r) \in DOMAIN m
            PROVE  m[Under(s, r)] = src[Under(s, r)]
        BY <2>8, <4>3, <4>4
      <4>5. QED
        BY <3>1, <3>4, <4>1, <4>3, <4>4
    <3>8. QED
      BY <3>5, <3>6, <3>7
  <2>11. both \subseteq Step /\ DOMAIN c = both
    BY <2>5, <2>10
  <2>12. \A s \in both : \A r \in DOMAIN c[s] : r \in Path
    BY <2>10
  <2>13. /\ w = [p \in DOMAIN w |-> w[p]]
         /\ \A p \in DOMAIN w : p \in Path
         /\ <<>> \in DOMAIN w /\ w[<<>>] = AnObject
         /\ \A s \in Step : \A r \in Path :
              /\ Under(s, r) \in DOMAIN w <=> s \in both /\ r \in DOMAIN c[s]
              /\ Under(s, r) \in DOMAIN w => w[Under(s, r)] = c[s][r]
    <3>1. w = Assembled(AnObject, c)
      BY <2>6
    <3>2. IsAssembled(w, AnObject, both, c)
      BY <3>1, <2>11, <2>12, AssembledFacts
    <3>3. QED
      BY <3>2 DEF IsAssembled
  <2>14. \A p \in DOMAIN m : p \in Path
    BY <2>2, <2>8 DEF Grown
  <2>15. <<>> \in DOMAIN m /\ m[<<>>] = AnObject
    BY <2>2, <2>8
  <2>16. ASSUME NEW s \in Step, NEW r \in Path
         PROVE  Under(s, r) \in DOMAIN m <=> Under(s, r) \in DOMAIN w
    <3>1. Under(s, r) \in DOMAIN m => s \in both
      BY <2>4, <2>8, <2>9
    <3>2. QED
      BY <2>10, <2>13, <3>1
  <2>17. ASSUME NEW s \in Step, NEW r \in Path, Under(s, r) \in DOMAIN m
         PROVE  m[Under(s, r)] = w[Under(s, r)]
    BY <2>10, <2>13, <2>16, <2>17
  <2>18. m = w
    BY <2>8, <2>13, <2>14, <2>15, <2>16, <2>17, SameValue
  <2>19. QED
    BY <2>3, <2>6, <2>7, <2>18
<1>3. QED
  BY <1>1, <1>2

\* There is nothing below a leaf.
LEMMA LeafAlone ==
  ASSUME NEW v, IsValue(v), IsLeaf(v, <<>>)
  PROVE  DOMAIN v = {<<>>} /\ v = [p \in {<<>>} |-> v[<<>>]]
<1>1. ASSUME NEW p \in DOMAIN v PROVE p = <<>>
  <2>1. p \in Path /\ <<>> \in Path
    BY EmptySeq DEF IsValue, Path
  <2>2. IsPrefix(<<>>, p)
    BY <2>1, PrefixOrder
  <2>3. p # <<>> => v[<<>>].node # "leaf"
    BY <2>1, <2>2, PrefixThere
  <2>4. QED
    BY <2>3 DEF IsLeaf
<1>2. DOMAIN v = {<<>>} /\ v = [p \in DOMAIN v |-> v[p]]
  BY <1>1 DEF IsValue
<1>3. QED
  BY <1>2

\* What the calls for what is below the steps of a value return.
ExpandedBelow(x) == [s \in Steps(x) |-> Expand(Child(x, s))]

\* One call of the function that expands the strings of a value: what Expand
\* says of all strings at once is what the code does with a string, or with
\* the fields or items of what is none, with what Expand says of those.
LEMMA ExpandOnce ==
  ASSUME NEW x, IsValue(x)
  PROVE  Expand(x) = renderCall(x, ExpandedBelow(x))
<1>1. PICK e, c : e = Expand(x) /\ c = ExpandedBelow(x)
  OBVIOUS
<1>2. /\ e = [p \in DOMAIN e |-> e[p]] /\ DOMAIN e = DOMAIN x
      /\ \A p \in DOMAIN x :
           e[p] = IF IsLeaf(x, p) /\ x[p].text \in DOMAIN Expansion
                  THEN ALeaf(Expansion[x[p].text]) ELSE x[p]
  BY <1>1 DEF Expand
<1>3. Grown(x) /\ <<>> \in DOMAIN x
  BY ValueGrown
<1>4. CASE IsLeaf(x, <<>>)
  <2>1. DOMAIN x = {<<>>} /\ x = [p \in {<<>>} |-> x[<<>>]]
    BY <1>4, LeafAlone
  <2>2. CASE x[<<>>].text \in DOMAIN Expansion
    <3>1. e = LeafValue(Expansion[x[<<>>].text])
      BY <1>2, <1>4, <2>1, <2>2 DEF LeafValue
    <3>2. QED
      BY <1>1, <1>4, <2>2, <3>1 DEF renderCall
  <2>3. CASE x[<<>>].text \notin DOMAIN Expansion
    <3>1. e = x
      BY <1>2, <2>1, <2>3
    <3>2. QED
      BY <1>1, <1>4, <2>3, <3>1 DEF renderCall
  <2>4. QED
    BY <2>2, <2>3
<1>5. CASE ~IsLeaf(x, <<>>)
  <2>1. e[<<>>] = x[<<>>]
    BY <1>2, <1>3, <1>5
  <2>2. /\ \A s : s \in Steps(x) <=> s \in Step /\ <<s>> \in DOMAIN x
        /\ \A s \in Step : \A r \in Path : Under(s, r) \in DOMAIN x => s \in Steps(x)
    BY <1>3, StepsFacts
  <2>3. ASSUME NEW s \in Steps(x)
        PROVE  /\ s \in Step
               /\ \A r \in DOMAIN c[s] : r \in Path
               /\ \A r \in Path : r \in DOMAIN c[s] <=> Under(s, r) \in DOMAIN x
               /\ \A r \in Path : r \in DOMAIN c[s] => e[Under(s, r)] = c[s][r]
    <3>1. s \in Step
      BY <2>2
    <3>2. PICK d : d = Child(x, s)
      OBVIOUS
    <3>3. /\ \A r \in DOMAIN d : r \in Path
          /\ \A r \in Path : r \in DOMAIN d <=> Under(s, r) \in DOMAIN x
          /\ \A r \in DOMAIN d : d[r] = x[Under(s, r)]
      BY <1>3, <3>1, <3>2, ChildFacts
    <3>4. c[s] = Expand(d)
      BY <1>1, <3>2 DEF ExpandedBelow
    <3>5. /\ DOMAIN c[s] = DOMAIN d
          /\ \A r \in DOMAIN d :
               c[s][r] = IF IsLeaf(d, r) /\ d[r].text \in DOMAIN Expansion
                         THEN ALeaf(Expansion[d[r].text]) ELSE d[r]
      BY <3>4 DEF Expand
    <3>6. ASSUME NEW r \in Path, r \in DOMAIN c[s] PROVE e[Under(s, r)] = c[s][r]
      <4>1. r \in DOMAIN d /\ Under(s, r) \in DOMAIN x /\ d[r] = x[Under(s, r)]
        BY <3>3, <3>5, <3>6
      <4>2. IsLeaf(d, r) <=> IsLeaf(x, Under(s, r))
        BY <4>1 DEF IsLeaf
      <4>3. QED
        BY <1>2, <3>5, <4>1, <4>2
    <3>7. QED
      BY <3>1, <3>3, <3>5, <3>6
  <2>4. Steps(x) \subseteq Step /\ DOMAIN c = Steps(x)
    BY <1>1, <2>3 DEF ExpandedBelow
  <2>5. \A s \in Steps(x) : \A r \in DOMAIN c[s] : r \in Path
    BY <2>3
  <2>6. \A s \in Step : \A r \in Path :
          Under(s, r) \in DOMAIN e <=> s \in Steps(x) /\ r \in DOMAIN c[s]
    BY <1>2, <2>2, <2>3
  <2>7. \A s \in Step : \A r \in Path :
          Under(s, r) \in DOMAIN e => e[Under(s, r)] = c[s][r]
    BY <2>3, <2>6
  <2>8. \A p \in DOMAIN e : p \in Path
    BY <1>2, <1>3 DEF Grown
  <2>9. IsAssembled(e, x[<<>>], Steps(x), c)
    BY <1>2, <1>3, <2>1, <2>6, <2>7, <2>8 DEF IsAssembled
  <2>10. e = Assembled(x[<<>>], c)
    BY <2>4, <2>5, <2>9, AssembledAlone
  <2>11. QED
    BY <1>1, <1>5, <2>10 DEF renderCall
<1>6. QED
  BY <1>4, <1>5

\* The same below a step.
LEMMA ReplacementBelow ==
  ASSUME NEW v, Grown(v), NEW s \in Step, NEW q \in Path, IsVar(v, Under(s, q))
  PROVE  Replacement(v, Under(s, q)) = Replacement(Child(v, s), q)
<1>1. PICK c : c = Child(v, s)
  OBVIOUS
<1>2. /\ \A r \in DOMAIN c : r \in Path
      /\ \A r \in Path : r \in DOMAIN c <=> Under(s, r) \in DOMAIN v
      /\ \A r \in DOMAIN c : c[r] = v[Under(s, r)]
  BY <1>1, ChildFacts
<1>3. PathOf(c, q) = PathOf(v, Under(s, q))
  BY <1>1, ChildKinds
<1>4. ASSUME NEW p \in Path PROVE ValueAt(v, Under(s, p)) = ValueAt(c, p)
  <2>1. PICK a, b : a = ValueAt(v, Under(s, p)) /\ b = ValueAt(c, p)
    OBVIOUS
  <2>2. \A z \in DOMAIN v : z \in Path
    BY DEF Grown
  <2>3. PICK u \in Path : u = Under(s, p)
    BY UnderFacts
  <2>4. IsBelow(a, v, u) /\ IsBelow(b, c, p)
    BY <1>2, <2>1, <2>2, <2>3, ValueAtFacts
  <2>5. ASSUME NEW r \in Path
        PROVE  /\ u \o r \in DOMAIN v <=> p \o r \in DOMAIN c
               /\ u \o r \in DOMAIN v => v[u \o r] = c[p \o r]
    <3>1. PICK z \in Path : z = p \o r
      BY PrefixConcat
    <3>2. u \o r = Under(s, z)
      <4>1. Under(s, p) \o r = Under(s, p \o r)
        BY UnderConcat
      <4>2. QED
        BY <2>3, <3>1, <4>1
    <3>3. QED
      BY <1>2, <3>1, <3>2
  <2>6. a = b
    BY <2>4, <2>5, BelowAlone
  <2>7. QED
    BY <2>1, <2>6
<1>5. PICK a \in Path : /\ a = Append(q, Field(DefaultField))
                        /\ Append(Under(s, q), Field(DefaultField)) = Under(s, a)
  <2>1. Field(DefaultField) \in Step
    BY StringsAssumption DEF Field, Step
  <2>2. Append(q, Field(DefaultField)) \in Path
    BY <2>1, AppendProperties DEF Path, Step
  <2>3. Append(Under(s, q), Field(DefaultField)) = Under(s, Append(q, Field(DefaultField)))
    BY <2>1, UnderAppend
  <2>4. QED
    BY <2>2, <2>3
<1>6. a \in DOMAIN c <=> Under(s, a) \in DOMAIN v
  BY <1>2, <1>5
<1>7. Replacement(v, Under(s, q)) = Replacement(c, q)
  BY <1>3, <1>4, <1>5, <1>6 DEF Replacement
<1>8. QED
  BY <1>1, <1>7

\* What is outermost below a step is outermost.
LEMMA OutermostBelow ==
  ASSUME NEW v, Grown(v), ~IsVar(v, <<>>), NEW s \in Step, NEW q \in Path
  PROVE  Under(s, q) \in Outermost(v) <=> q \in Outermost(Child(v, s))
<1>1. PICK c : c = Child(v, s)
  OBVIOUS
<1>2. /\ \A r \in DOMAIN c : r \in Path
      /\ \A r \in Path : r \in DOMAIN c <=> Under(s, r) \in DOMAIN v
  BY <1>1, ChildFacts
<1>3. \A r \in Path : IsVar(c, r) <=> IsVar(v, Under(s, r))
  BY <1>1, ChildKinds
<1>4. ASSUME q \in Outermost(c), NEW p \in DOMAIN v, IsVar(v, p), IsPrefix(p, Under(s, q))
      PROVE  p = Under(s, q)
  <2>1. p \in Path /\ p # <<>>
    BY <1>4 DEF Grown
  <2>2. PICK t \in Step : \E u \in Path : p = Under(t, u)
    BY <2>1, FirstStep
  <2>3. PICK u \in Path : p = Under(t, u)
    BY <2>2
  <2>4. t = s /\ IsPrefix(u, q)
    BY <1>4, <2>3, UnderPrefix
  <2>5. u \in DOMAIN c /\ IsVar(c, u)
    BY <1>2, <1>3, <1>4, <2>3, <2>4
  <2>6. u = q
    BY <1>4, <2>4, <2>5 DEF Outermost
  <2>7. QED
    BY <2>3, <2>4, <2>6
<1>5. ASSUME Under(s, q) \in Outermost(v), NEW r \in DOMAIN c, IsVar(c, r), IsPrefix(r, q)
      PROVE  r = q
  <2>1. r \in Path /\ Under(s, r) \in DOMAIN v /\ IsVar(v, Under(s, r))
    BY <1>2, <1>3, <1>5
  <2>2. IsPrefix(Under(s, r), Under(s, q))
    BY <1>5, <2>1, UnderPrefix
  <2>3. Under(s, r) = Under(s, q)
    BY <1>5, <2>1, <2>2 DEF Outermost
  <2>4. QED
    BY <2>1, <2>3, UnderPrefix
<1>6. Under(s, q) \in Outermost(v) <=> q \in Outermost(c)
  BY <1>2, <1>3, <1>4, <1>5 DEF Outermost
<1>7. QED
  BY <1>1, <1>6

\* What the calls for what is below the steps of a value return.
WalkedBelow(x) == [s \in Steps(x) |-> Walk(Child(x, s))]

\* One call of the function that replaces the objects of a value that name a
\* variable: what Walk says of all of them at once is what the code does with
\* the value if it is one, or else with its fields or items.
LEMMA WalkOnce ==
  ASSUME NEW x, IsValue(x)
  PROVE  Walk(x) = walkCall(x, WalkedBelow(x))
<1>1. PICK w, c : w = Walk(x) /\ c = WalkedBelow(x)
  OBVIOUS
<1>2. Grown(x) /\ <<>> \in DOMAIN x /\ <<>> \in Path
  BY ValueGrown, EmptySeq DEF Path
<1>3. /\ x = [p \in DOMAIN x |-> x[p]]
      /\ \A p \in DOMAIN x : p \in Path
  BY <1>2 DEF Grown
<1>4. IsWalk(w, x)
  BY <1>1, <1>3, WalkFacts
<1>5. CASE IsVar(x, <<>>)
  <2>1. PICK n : n = Replacement(x, <<>>)
    OBVIOUS
  <2>2. <<>> \in Outermost(x) /\ \A q \in Outermost(x) : q = <<>>
    <3>1. \A q \in DOMAIN x : IsPrefix(<<>>, q) /\ (IsPrefix(q, <<>>) => q = <<>>)
      BY <1>2, <1>3, PrefixOrder
    <3>2. QED
      BY <1>2, <1>5, <3>1 DEF Outermost
  <2>3. \A r \in DOMAIN n : r \in Path
    BY <1>2, <1>3, <2>1, ReplacementPaths
  <2>4. \A r \in Path : <<>> \o r = r
    BY ConcatEmptySeq DEF Path
  <2>5. \A p \in DOMAIN x : ~Untouched(x, p)
    BY <1>2, <1>3, <2>2, PrefixOrder DEF Untouched
  <2>6. n = [r \in DOMAIN n |-> n[r]]
    BY <2>1 DEF Replacement, LeafValue, ValueAt
  <2>7. \A r \in DOMAIN n : r \in DOMAIN w /\ w[r] = n[r]
    <3>1. \A r \in DOMAIN n : <<>> \o r \in DOMAIN w /\ w[<<>> \o r] = n[r]
      BY <1>4, <2>1, <2>2 DEF IsWalk
    <3>2. QED
      BY <2>3, <2>4, <3>1
  <2>8. ASSUME NEW p \in DOMAIN w PROVE p \in DOMAIN n
    <3>1. \E t \in Outermost(x) : \E r \in DOMAIN Replacement(x, t) : p = t \o r
      BY <1>4, <2>5 DEF IsWalk
    <3>2. PICK t \in Outermost(x) : \E r \in DOMAIN Replacement(x, t) : p = t \o r
      BY <3>1
    <3>3. \E r \in DOMAIN n : p = <<>> \o r
      BY <2>1, <2>2, <3>2
    <3>4. PICK r \in DOMAIN n : p = <<>> \o r
      BY <3>3
    <3>5. QED
      BY <2>3, <2>4, <3>4
  <2>9. w = n
    <3>1. DOMAIN w = DOMAIN n
      BY <2>7, <2>8
    <3>2. w = [p \in DOMAIN w |-> w[p]]
      BY <1>4 DEF IsWalk
    <3>3. QED
      BY <2>6, <2>7, <3>1, <3>2
  <2>10. PICK f : f = Field(DefaultField)
    OBVIOUS
  <2>11. f \in Step /\ Append(<<>>, f) = <<f>>
    <3>1. f \in Step
      BY <2>10, StringsAssumption DEF Field, Step
    <3>2. <<>> \in Seq(Step) /\ <<f>> \in Seq(Step)
      BY <3>1, EmptySeq
    <3>3. Append(<<>>, f) = <<>> \o <<f>>
      BY <3>1, <3>2, AppendIsConcat
    <3>4. <<>> \o <<f>> = <<f>>
      BY <3>2, ConcatEmptySeq
    <3>5. QED
      BY <3>1, <3>3, <3>4
  <2>12. f \in Steps(x) <=> <<f>> \in DOMAIN x
    BY <1>2, <2>11, StepsFacts
  <2>13. ValueAt(x, <<>>) = x
    BY <1>2, <1>3, WholeValue
  <2>14. n = IF PathOf(x, <<>>) \in DOMAIN Vars THEN LeafValue(Vars[PathOf(x, <<>>)])
             ELSE IF f \in Steps(x) THEN Child(x, f) ELSE x
    BY <2>1, <2>10, <2>11, <2>12, <2>13 DEF Replacement, Child
  <2>15. QED
    BY <1>1, <1>5, <2>9, <2>10, <2>14 DEF walkCall
<1>6. CASE ~IsVar(x, <<>>) /\ IsLeaf(x, <<>>)
  <2>1. DOMAIN x = {<<>>}
    BY <1>6, LeafAlone
  <2>2. Outermost(x) = {}
    BY <1>6, <2>1 DEF Outermost
  <2>3. \A p \in DOMAIN x : p \in DOMAIN w /\ w[p] = x[p]
    BY <1>4, <2>2 DEF IsWalk, Untouched
  <2>4. \A p \in DOMAIN w : p \in DOMAIN x
    BY <1>4, <2>2 DEF IsWalk
  <2>5. w = [p \in DOMAIN w |-> w[p]] /\ DOMAIN w = DOMAIN x
    BY <1>4, <2>3, <2>4 DEF IsWalk
  <2>6. w = x
    BY <1>3, <2>3, <2>5
  <2>7. QED
    BY <1>1, <1>6, <2>6 DEF walkCall
<1>7. CASE ~IsVar(x, <<>>) /\ ~IsLeaf(x, <<>>)
  <2>1. <<>> \in DOMAIN w /\ w[<<>>] = x[<<>>]
    <3>1. Untouched(x, <<>>)
      <4>1. SUFFICES ASSUME NEW t \in Outermost(x), IsPrefix(t, <<>>) PROVE FALSE
        BY DEF Untouched
      <4>2. t \in Path /\ IsVar(x, t)
        BY <1>3 DEF Outermost
      <4>3. t = <<>>
        BY <1>2, <4>1, <4>2, PrefixOrder
      <4>4. QED
        BY <1>7, <4>2, <4>3
    <3>2. QED
      BY <1>2, <1>4, <3>1 DEF IsWalk
  <2>2. /\ \A s : s \in Steps(x) <=> s \in Step /\ <<s>> \in DOMAIN x
        /\ \A s \in Step : \A r \in Path : Under(s, r) \in DOMAIN x => s \in Steps(x)
    BY <1>2, StepsFacts
  <2>3. ASSUME NEW s \in Step
        PROVE  \A r \in Path : Untouched(x, Under(s, r)) <=> Untouched(Child(x, s), r)
    <3>1. PICK d : d = Child(x, s)
      OBVIOUS
    <3>2. \A r \in DOMAIN d : r \in Path
      BY <1>2, <3>1, ChildFacts
    <3>3. \A t \in Path : Under(s, t) \in Outermost(x) <=> t \in Outermost(d)
      BY <1>2, <1>7, <3>1, OutermostBelow
    <3>4. ASSUME NEW r \in Path, Untouched(d, r), NEW t \in Outermost(x),
                 IsPrefix(t, Under(s, r))
          PROVE  FALSE
      <4>1. t \in Path /\ t # <<>>
        BY <1>3, <1>7 DEF Outermost
      <4>2. PICK z \in Step : \E u \in Path : t = Under(z, u)
        BY <4>1, FirstStep
      <4>3. PICK u \in Path : t = Under(z, u)
        BY <4>2
      <4>4. z = s /\ IsPrefix(u, r)
        BY <3>4, <4>3, UnderPrefix
      <4>5. QED
        BY <3>3, <3>4, <4>3, <4>4 DEF Untouched
    <3>5. ASSUME NEW r \in Path, Untouched(x, Under(s, r)), NEW t \in Outermost(d),
                 IsPrefix(t, r)
          PROVE  FALSE
      <4>1. t \in Path
        BY <3>2 DEF Outermost
      <4>2. IsPrefix(Under(s, t), Under(s, r))
        BY <3>5, <4>1, UnderPrefix
      <4>3. QED
        BY <3>3, <3>5, <4>1, <4>2 DEF Untouched
    <3>6. QED
      BY <3>1, <3>4, <3>5 DEF Untouched
  <2>4. ASSUME NEW s \in Steps(x)
        PROVE  /\ s \in Step
               /\ \A r \in DOMAIN c[s] : r \in Path
               /\ \A r \in DOMAIN c[s] : Under(s, r) \in DOMAIN w /\ w[Under(s, r)] = c[s][r]
               /\ \A r \in Path : Under(s, r) \in DOMAIN w => r \in DOMAIN c[s]
    <3>1. s \in Step
      BY <2>2
    <3>2. PICK d, e : d = Child(x, s) /\ e = c[s]
      OBVIOUS
    <3>3. /\ \A r \in DOMAIN d : r \in Path
          /\ \A r \in Path : r \in DOMAIN d <=> Under(s, r) \in DOMAIN x
          /\ \A r \in DOMAIN d : d[r] = x[Under(s, r)]
      BY <1>2, <3>1, <3>2, ChildFacts
    <3>4. e = Walk(d)
      BY <1>1, <3>2 DEF WalkedBelow
    <3>5. IsWalk(e, d)
      BY <3>3, <3>4, WalkFacts
    <3>6. ASSUME NEW t \in Outermost(d)
          PROVE  /\ t \in Path /\ Under(s, t) \in Outermost(x)
                 /\ Replacement(x, Under(s, t)) = Replacement(d, t)
      <4>1. t \in Path
        BY <3>3 DEF Outermost
      <4>2. Under(s, t) \in Outermost(x)
        BY <1>2, <1>7, <3>1, <3>2, <4>1, OutermostBelow
      <4>3. IsVar(x, Under(s, t))
        BY <4>2 DEF Outermost
      <4>4. QED
        BY <1>2, <3>1, <3>2, <4>1, <4>2, <4>3, ReplacementBelow
    <3>7. ASSUME NEW t \in Outermost(d), NEW r \in DOMAIN Replacement(d, t)
          PROVE  /\ r \in Path /\ t \o r \in Path
                 /\ Under(s, t \o r) \in DOMAIN w
                 /\ w[Under(s, t \o r)] = Replacement(d, t)[r]
      <4>1. t \in Path /\ r \in Path
        BY <3>3, <3>6, ReplacementPaths
      <4>2. Under(s, t) \o r = Under(s, t \o r) /\ t \o r \in Path
        BY <3>1, <4>1, UnderConcat, PrefixConcat
      <4>3. /\ Under(s, t) \o r \in DOMAIN w
            /\ w[Under(s, t) \o r] = Replacement(x, Under(s, t))[r]
        BY <1>4, <3>6 DEF IsWalk
      <4>4. QED
        BY <3>6, <4>1, <4>2, <4>3
    <3>8. ASSUME NEW r \in DOMAIN e
          PROVE  r \in Path /\ Under(s, r) \in DOMAIN w /\ w[Under(s, r)] = e[r]
      <4>1. CASE r \in DOMAIN d /\ Untouched(d, r)
        <5>1. r \in Path /\ Under(s, r) \in DOMAIN x /\ e[r] = x[Under(s, r)]
          BY <3>3, <3>5, <4>1 DEF IsWalk
        <5>2. Untouched(x, Under(s, r))
          BY <2>3, <3>1, <3>2, <4>1, <5>1
        <5>3. QED
          BY <1>4, <5>1, <5>2 DEF IsWalk
      <4>2. CASE \E t \in Outermost(d) : \E q \in DOMAIN Replacement(d, t) : r = t \o q
        <5>1. PICK t \in Outermost(d) : \E q \in DOMAIN Replacement(d, t) : r = t \o q
          BY <4>2
        <5>2. PICK q \in DOMAIN Replacement(d, t) : r = t \o q
          BY <5>1
        <5>3. e[t \o q] = Replacement(d, t)[q]
          BY <3>5 DEF IsWalk
        <5>4. QED
          BY <3>7, <5>2, <5>3
      <4>3. QED
        BY <3>5, <4>1, <4>2 DEF IsWalk
    <3>9. ASSUME NEW r \in Path, Under(s, r) \in DOMAIN w PROVE r \in DOMAIN e
      <4>1. PICK p : p = Under(s, r)
        OBVIOUS
      <4>2. CASE p \in DOMAIN x /\ Untouched(x, p)
        <5>1. r \in DOMAIN d
          BY <3>3, <4>1, <4>2
        <5>2. Untouched(d, r)
          BY <2>3, <3>1, <3>2, <4>1, <4>2
        <5>3. QED
          BY <3>5, <5>1, <5>2 DEF IsWalk
      <4>3. CASE \E t \in Outermost(x) : \E q \in DOMAIN Replacement(x, t) : p = t \o q
        <5>1. PICK t \in Outermost(x) : \E q \in DOMAIN Replacement(x, t) : p = t \o q
          BY <4>3
        <5>2. PICK q \in DOMAIN Replacement(x, t) : p = t \o q
          BY <5>1
        <5>3. t \in Path /\ t # <<>> /\ IsVar(x, t)
          BY <1>3, <1>7 DEF Outermost
        <5>4. q \in Path
          BY <1>3, <5>3, ReplacementPaths
        <5>5. PICK z \in Step : \E u \in Path : t = Under(z, u)
          BY <5>3, FirstStep
        <5>6. PICK u \in Path : t = Under(z, u)
          BY <5>5
        <5>7. p = Under(z, u \o q) /\ u \o q \in Path
          BY <5>2, <5>4, <5>6, UnderConcat, PrefixConcat
        <5>8. z = s /\ u \o q = r
          <6>1. PICK k \in Path : k = u \o q
            BY <5>7
          <6>2. Under(z, k) = Under(s, r)
            BY <4>1, <5>7, <6>1
          <6>3. z = s /\ k = r
            BY <3>1, <6>2, UnderPrefix
          <6>4. QED
            BY <6>1, <6>3
        <5>9. u \in Outermost(d)
          BY <1>2, <1>7, <3>1, <3>2, <5>6, <5>8, OutermostBelow
        <5>10. q \in DOMAIN Replacement(d, u)
          BY <3>6, <5>2, <5>6, <5>8, <5>9
        <5>11. u \o q \in DOMAIN e
          BY <3>5, <5>9, <5>10 DEF IsWalk
        <5>12. QED
          BY <5>8, <5>11
      <4>4. QED
        BY <1>4, <3>9, <4>1, <4>2, <4>3 DEF IsWalk
    <3>10. QED
      BY <3>1, <3>2, <3>8, <3>9
  <2>5. Steps(x) \subseteq Step /\ DOMAIN c = Steps(x)
    BY <1>1, <2>2 DEF WalkedBelow
  <2>6. \A s \in Steps(x) : \A r \in DOMAIN c[s] : r \in Path
    BY <2>4
  <2>7. ASSUME NEW p \in DOMAIN w
        PROVE  /\ p \in Path
               /\ \A s \in Step : \A r \in Path : p = Under(s, r) => s \in Steps(x)
    <3>1. CASE p \in DOMAIN x
      BY <1>3, <2>2, <3>1
    <3>2. CASE \E t \in Outermost(x) : \E q \in DOMAIN Replacement(x, t) : p = t \o q
      <4>1. PICK t \in Outermost(x) : \E q \in DOMAIN Replacement(x, t) : p = t \o q
        BY <3>2
      <4>2. PICK q \in DOMAIN Replacement(x, t) : p = t \o q
        BY <4>1
      <4>3. t \in DOMAIN x /\ t \in Path /\ t # <<>>
        BY <1>3, <1>7 DEF Outermost
      <4>4. q \in Path
        BY <1>3, <4>3, ReplacementPaths
      <4>5. PICK z \in Step : \E u \in Path : t = Under(z, u)
        BY <4>3, FirstStep
      <4>6. PICK u \in Path : t = Under(z, u)
        BY <4>5
      <4>7. p = Under(z, u \o q) /\ u \o q \in Path
        BY <4>2, <4>4, <4>6, UnderConcat, PrefixConcat
      <4>8. z \in Steps(x)
        BY <2>2, <4>3, <4>6
      <4>9. p \in Path
        BY <4>7, UnderFacts
      <4>10. \A s \in Step : \A r \in Path : p = Under(s, r) => s = z
        <5>1. PICK k \in Path : k = u \o q
          BY <4>7
        <5>2. p = Under(z, k)
          BY <4>7, <5>1
        <5>3. ASSUME NEW s \in Step, NEW r \in Path, p = Under(s, r) PROVE s = z
          <6>1. Under(s, r) = Under(z, k)
            BY <5>2, <5>3
          <6>2. QED
            BY <6>1, UnderPrefix
        <5>4. QED
          BY <5>3
      <4>11. QED
        BY <4>8, <4>9, <4>10
    <3>3. QED
      BY <1>4, <3>1, <3>2 DEF IsWalk
  <2>8. \A s \in Step : \A r \in Path :
          Under(s, r) \in DOMAIN w <=> s \in Steps(x) /\ r \in DOMAIN c[s]
    BY <2>4, <2>7
  <2>9. \A s \in Step : \A r \in Path :
          Under(s, r) \in DOMAIN w => w[Under(s, r)] = c[s][r]
    BY <2>4, <2>8
  <2>10. IsAssembled(w, x[<<>>], Steps(x), c)
    <3>1. w = [p \in DOMAIN w |-> w[p]]
      BY <1>4 DEF IsWalk
    <3>2. QED
      BY <2>1, <2>7, <2>8, <2>9, <3>1 DEF IsAssembled
  <2>11. w = Assembled(x[<<>>], c)
    BY <2>5, <2>6, <2>10, AssembledAlone
  <2>12. QED
    BY <1>1, <1>7, <2>11 DEF walkCall
<1>8. QED
  BY <1>5, <1>6, <1>7

-----------------------------------------------------------------------------
(* The recursion. *)

\* Below a step there is a smaller value.
LEMMA ChildSmaller ==
  ASSUME NEW x, IsValue(x), NEW s \in Steps(x)
  PROVE  /\ IsValue(Child(x, s))
         /\ Cardinality(DOMAIN Child(x, s)) \in Nat
         /\ Cardinality(DOMAIN Child(x, s)) < Cardinality(DOMAIN x)
<1>1. PICK c : c = Child(x, s)
  OBVIOUS
<1>2. Grown(x) /\ IsFiniteSet(DOMAIN x) /\ <<>> \in DOMAIN x
  BY ValueGrown DEF IsValue
<1>3. s \in Step /\ <<s>> \in DOMAIN x
  BY <1>2, StepsFacts
<1>4. IsValue(c)
  BY <1>1, <1>3, ValueAtValue DEF Child
<1>5. /\ \A r \in DOMAIN c : r \in Path
      /\ \A r \in Path : r \in DOMAIN c <=> Under(s, r) \in DOMAIN x
  BY <1>1, <1>2, <1>3, ChildFacts
<1> DEFINE T == DOMAIN x \ {<<>>}
           f == [r \in DOMAIN c |-> Under(s, r)]
<1>6. f \in Injection(DOMAIN c, T)
  <2>1. \A r \in DOMAIN c : Under(s, r) \in T
    BY <1>3, <1>5, UnderFacts
  <2>2. ASSUME NEW q \in DOMAIN c, NEW r \in DOMAIN c, f[q] = f[r] PROVE q = r
    <3>1. q \in Path /\ r \in Path /\ Under(s, q) = Under(s, r)
      BY <1>5, <2>2
    <3>2. QED
      BY <1>3, <3>1, UnderPrefix
  <2>3. QED
    BY <2>1, <2>2 DEF Injection, IsInjective
<1>7. IsFiniteSet(T) /\ Cardinality(T) = Cardinality(DOMAIN x) - 1
  BY <1>2, FS_RemoveElement
<1>8. IsFiniteSet(DOMAIN c) /\ Cardinality(DOMAIN c) <= Cardinality(T)
  BY <1>6, <1>7, FS_Injection
<1>9. Cardinality(DOMAIN c) \in Nat /\ Cardinality(DOMAIN x) \in Nat
  BY <1>2, <1>8, FS_CardinalityType
<1>10. QED
  BY <1>1, <1>4, <1>7, <1>8, <1>9

\* What is so of a value if it is so of all below its steps is so of all values.
LEMMA PartsInduction ==
  ASSUME NEW D, \A y \in D : IsValue(y) /\ \A s \in Steps(y) : Child(y, s) \in D,
         NEW P, \A y \in D : (\A s \in Steps(y) : Child(y, s) \in P) => y \in P
  PROVE  D \subseteq P
<1> SUFFICES ASSUME ~(D \subseteq P) PROVE FALSE
  OBVIOUS
<1> DEFINE size(y) == Cardinality(DOMAIN y)
           T == {size(y) : y \in D \ P}
<1>1. \A y \in D : size(y) \in Nat
  BY FS_CardinalityType DEF IsValue
<1>2. PICK n \in T : \A m \in T : n <= m
  <2>1. T \subseteq Nat /\ T # {}
    BY <1>1
  <2>2. QED
    BY <2>1, Least
<1>3. PICK y \in D \ P : n = size(y)
  OBVIOUS
<1>4. ASSUME NEW s \in Steps(y) PROVE Child(y, s) \in P
  <2>1. PICK c : c = Child(y, s)
    OBVIOUS
  <2>2. c \in D /\ size(c) \in Nat /\ size(c) < size(y)
    BY <1>3, <2>1, ChildSmaller
  <2>3. c \notin P => size(c) \in T
    BY <2>2
  <2>4. size(y) \in Nat
    BY <1>1, <1>3
  <2> HIDE DEF size, T
  <2>5. ~(n <= size(c))
    BY <1>3, <2>2, <2>4
  <2>6. QED
    BY <1>2, <2>1, <2>3, <2>5
<1>5. QED
  BY <1>3, <1>4

\* The parts of a value are values, and what is below their steps is one of them.
LEMMA PartsFacts ==
  ASSUME NEW x, IsValue(x)
  PROVE  /\ x \in Parts(x)
         /\ \A y \in Parts(x) : IsValue(y) /\ \A s \in Steps(y) : Child(y, s) \in Parts(x)
<1>1. /\ <<>> \in DOMAIN x /\ <<>> \in Path
      /\ x = [p \in DOMAIN x |-> x[p]]
      /\ \A p \in DOMAIN x : p \in Path
  BY ValueGrown, EmptySeq DEF Grown, Path
<1>2. ValueAt(x, <<>>) = x
  BY <1>1, WholeValue
<1>3. ASSUME NEW y \in Parts(x) PROVE IsValue(y)
  BY ValueAtValue DEF Parts
<1>4. ASSUME NEW y \in Parts(x), NEW s \in Steps(y) PROVE Child(y, s) \in Parts(x)
  <2>1. PICK q \in DOMAIN x : y = ValueAt(x, q)
    BY DEF Parts
  <2>2. q \in Path /\ IsBelow(y, x, q)
    BY <1>1, <2>1, ValueAtFacts
  <2>3. s \in Step /\ <<s>> \in DOMAIN y /\ Grown(y)
    BY <1>3, ValueGrown, StepsFacts
  <2>4. PICK a \in Path : a = <<s>>
    BY <2>3, UnderRoot
  <2>5. PICK p \in DOMAIN x : p = q \o a
    BY <2>2, <2>3, <2>4 DEF IsBelow
  <2>6. PICK b, c : b = ValueAt(y, a) /\ c = ValueAt(x, p)
    OBVIOUS
  <2>7. IsBelow(b, y, a) /\ IsBelow(c, x, p)
    BY <1>1, <2>3, <2>6, ValueAtFacts DEF Grown
  <2>8. ASSUME NEW r \in Path
        PROVE  /\ a \o r \in DOMAIN y <=> p \o r \in DOMAIN x
               /\ a \o r \in DOMAIN y => y[a \o r] = x[p \o r]
    <3>1. p \o r = q \o (a \o r)
      <4>1. (q \o a) \o r = q \o (a \o r)
        <5>1. q \in Path /\ a \in Path /\ r \in Path
          BY <2>2
        <5>2. QED
          BY <5>1, ConcatThree
      <4>2. QED
        BY <2>5, <4>1
    <3>2. PICK z \in Path : z = a \o r
      BY PrefixConcat
    <3>3. QED
      BY <2>2, <3>1, <3>2 DEF IsBelow
  <2>9. b = c
    BY <2>7, <2>8, BelowAlone
  <2>10. QED
    BY <2>4, <2>6, <2>9 DEF Parts, Child
<1>5. QED
  BY <1>1, <1>2, <1>3, <1>4 DEF Parts

\* The strings of a value are expanded as the code does it, item by item and
\* field by field, to the last.
THEOREM ExpandAsWritten ==
  ASSUME NEW x, IsValue(x)
  PROVE  render(x) = Expand(x)
<1>1. PICK D : D = Parts(x)
  OBVIOUS
<1>2. x \in D /\ \A y \in D : IsValue(y) /\ \A s \in Steps(y) : Child(y, s) \in D
  BY <1>1, PartsFacts
<1> DEFINE Eq(f) == f = [y \in D |-> renderCall(y, [s \in Steps(y) |-> f[Child(y, s)]])]
<1>3. PICK call : call = CHOOSE f : Eq(f)
  OBVIOUS
<1>4. render(x) = call[x]
  BY <1>1, <1>3 DEF render
<1>5. Eq([y \in D |-> Expand(y)])
  <2>1. PICK g : g = [y \in D |-> Expand(y)]
    OBVIOUS
  <2>2. ASSUME NEW y \in D
        PROVE  Expand(y) = renderCall(y, [s \in Steps(y) |-> g[Child(y, s)]])
    <3>1. [s \in Steps(y) |-> g[Child(y, s)]] = ExpandedBelow(y)
      BY <1>2, <2>1 DEF ExpandedBelow
    <3>2. QED
      BY <1>2, <3>1, ExpandOnce
  <2>3. QED
    BY <2>1, <2>2
<1>6. Eq(call)
  <2> HIDE DEF Eq
  <2>1. QED
    BY <1>3, <1>5
<1>7. \A y \in D : call[y] = renderCall(y, [s \in Steps(y) |-> call[Child(y, s)]])
  BY <1>6
<1> DEFINE P == {y \in D : call[y] = Expand(y)}
<1>8. ASSUME NEW y \in D, \A s \in Steps(y) : Child(y, s) \in P PROVE y \in P
  <2>1. [s \in Steps(y) |-> call[Child(y, s)]] = ExpandedBelow(y)
    BY <1>8 DEF ExpandedBelow
  <2>2. call[y] = renderCall(y, ExpandedBelow(y))
    BY <1>7, <2>1
  <2>3. QED
    BY <1>2, <2>2, ExpandOnce
<1>9. D \subseteq P
  <2> HIDE DEF P
  <2>1. QED
    BY <1>2, <1>8, PartsInduction
<1>10. QED
  BY <1>2, <1>4, <1>9

\* The objects that name a variable are replaced as the code does it, item by
\* item and field by field, to the last.
THEOREM WalkAsWritten ==
  ASSUME NEW x, IsValue(x)
  PROVE  walk(x) = Walk(x)
<1>1. PICK D : D = Parts(x)
  OBVIOUS
<1>2. x \in D /\ \A y \in D : IsValue(y) /\ \A s \in Steps(y) : Child(y, s) \in D
  BY <1>1, PartsFacts
<1> DEFINE Eq(f) == f = [y \in D |-> walkCall(y, [s \in Steps(y) |-> f[Child(y, s)]])]
<1>3. PICK call : call = CHOOSE f : Eq(f)
  OBVIOUS
<1>4. walk(x) = call[x]
  BY <1>1, <1>3 DEF walk
<1>5. Eq([y \in D |-> Walk(y)])
  <2>1. PICK g : g = [y \in D |-> Walk(y)]
    OBVIOUS
  <2>2. ASSUME NEW y \in D
        PROVE  Walk(y) = walkCall(y, [s \in Steps(y) |-> g[Child(y, s)]])
    <3>1. [s \in Steps(y) |-> g[Child(y, s)]] = WalkedBelow(y)
      BY <1>2, <2>1 DEF WalkedBelow
    <3>2. QED
      BY <1>2, <3>1, WalkOnce
  <2>3. QED
    BY <2>1, <2>2
<1>6. Eq(call)
  <2> HIDE DEF Eq
  <2>1. QED
    BY <1>3, <1>5
<1>7. \A y \in D : call[y] = walkCall(y, [s \in Steps(y) |-> call[Child(y, s)]])
  BY <1>6
<1> DEFINE P == {y \in D : call[y] = Walk(y)}
<1>8. ASSUME NEW y \in D, \A s \in Steps(y) : Child(y, s) \in P PROVE y \in P
  <2>1. [s \in Steps(y) |-> call[Child(y, s)]] = WalkedBelow(y)
    BY <1>8 DEF WalkedBelow
  <2>2. call[y] = walkCall(y, WalkedBelow(y))
    BY <1>7, <2>1
  <2>3. QED
    BY <1>2, <2>2, WalkOnce
<1>9. D \subseteq P
  <2> HIDE DEF P
  <2>1. QED
    BY <1>2, <1>8, PartsInduction
<1>10. QED
  BY <1>2, <1>4, <1>9

\* What is below the steps two values share are documents.
LEMMA SharedFacts ==
  ASSUME NEW d, d = Nil \/ IsValue(d), NEW e, IsValue(e), NEW s \in Shared(d, e)
  PROVE  /\ s \in Steps(d) /\ s \in Steps(e) /\ IsValue(d)
         /\ IsDocument(Child(d, s)) /\ IsDocument(Child(e, s))
<1>1. s \in Steps(d) /\ s \in Steps(e) /\ IsObject(d, <<s>>) /\ IsObject(e, <<s>>)
  BY DEF Shared
<1>2. IsValue(d)
  BY <1>1, NodeFacts DEF Steps
<1>3. Grown(d) /\ Grown(e)
  BY <1>2, ValueGrown
<1>4. s \in Step
  BY <1>1, <1>3, StepsFacts
<1>5. Under(s, <<>>) = <<s>> /\ <<>> \in Path
  BY <1>4, UnderRoot
<1>6. IsObject(Child(d, s), <<>>) /\ IsObject(Child(e, s), <<>>)
  BY <1>1, <1>3, <1>4, <1>5, ChildKinds
<1>7. IsValue(Child(d, s)) /\ IsValue(Child(e, s))
  BY <1>1, <1>2, ChildSmaller
<1>8. QED
  BY <1>1, <1>2, <1>6, <1>7 DEF IsDocument

\* Documents are merged as the code does it, field by field, to the last.
THEOREM DeepMergeAsWritten ==
  ASSUME NEW dst, dst = Nil \/ IsDocument(dst), NEW src, IsDocument(src)
  PROVE  deepMerge(dst, src) = DeepMerge(dst, src)
<1>1. PICK D, E : D = Parts(src) /\ E = Parts(dst) \cup {dst}
  OBVIOUS
<1>2. src \in D /\ \A e \in D : IsValue(e) /\ \A s \in Steps(e) : Child(e, s) \in D
  BY <1>1, PartsFacts DEF IsDocument
<1>3. dst \in E /\ \A d \in E : d = Nil \/ IsValue(d)
  <2>1. dst = Nil => Parts(dst) = {}
    BY NodeFacts DEF Parts
  <2>2. IsDocument(dst) => \A d \in Parts(dst) : IsValue(d)
    BY PartsFacts DEF IsDocument
  <2>3. QED
    BY <1>1, <2>1, <2>2 DEF IsDocument
<1>4. ASSUME NEW d \in E, NEW e \in D, NEW s \in Shared(d, e)
      PROVE  /\ IsDocument(Child(d, s)) /\ IsDocument(Child(e, s))
             /\ Child(d, s) \in E /\ Child(e, s) \in D /\ s \in Steps(e)
  <2>1. /\ s \in Steps(d) /\ s \in Steps(e) /\ IsValue(d)
        /\ IsDocument(Child(d, s)) /\ IsDocument(Child(e, s))
    BY <1>2, <1>3, SharedFacts
  <2>2. IsDocument(dst)
    <3>1. Steps(Nil) = {} /\ (dst = Nil => d = Nil)
      BY <1>1, NodeFacts DEF Steps, Parts
    <3>2. QED
      BY <2>1, <3>1
  <2>3. Child(d, s) \in Parts(dst)
    BY <1>1, <2>1, <2>2, PartsFacts DEF IsDocument
  <2>4. QED
    BY <1>1, <1>2, <2>1, <2>3
<1> DEFINE Eq(f) ==
             f = [z \in E \X D |->
                    deepMergeCall(z[1], z[2],
                      [s \in Shared(z[1], z[2]) |-> f[<<Child(z[1], s), Child(z[2], s)>>]])]
<1>5. PICK call : call = CHOOSE f : Eq(f)
  OBVIOUS
<1>6. deepMerge(dst, src) = call[<<dst, src>>]
  BY <1>1, <1>5 DEF deepMerge
<1>7. PICK g : g = [z \in E \X D |-> deepMergeCall(z[1], z[2], MergedBelow(z[1], z[2]))]
  OBVIOUS
<1>8. ASSUME NEW d \in E, NEW e \in D, NEW s \in Shared(d, e)
      PROVE  g[<<Child(d, s), Child(e, s)>>] = DeepMerge(Child(d, s), Child(e, s))
  <2>1. PICK a, b : a = Child(d, s) /\ b = Child(e, s)
    OBVIOUS
  <2>2. a \in E /\ b \in D /\ IsDocument(a) /\ IsDocument(b)
    BY <1>4, <2>1
  <2>3. g[<<a, b>>] = deepMergeCall(a, b, MergedBelow(a, b))
    BY <1>7, <2>2
  <2>4. DeepMerge(a, b) = deepMergeCall(a, b, MergedBelow(a, b))
    BY <2>2, DeepMergeOnce
  <2>5. QED
    BY <2>1, <2>3, <2>4
<1>9. ASSUME NEW d \in E, NEW e \in D
      PROVE  [s \in Shared(d, e) |-> g[<<Child(d, s), Child(e, s)>>]] = MergedBelow(d, e)
  BY <1>8, <1>9 DEF MergedBelow
<1>10. Eq(g)
  <2>1. ASSUME NEW z \in E \X D
        PROVE  [s \in Shared(z[1], z[2]) |-> g[<<Child(z[1], s), Child(z[2], s)>>]]
                 = MergedBelow(z[1], z[2])
    <3>1. z[1] \in E /\ z[2] \in D
      OBVIOUS
    <3>2. QED
      BY <1>9, <3>1
  <2>2. QED
    BY <1>7, <2>1
<1>11. Eq(call)
  <2> HIDE DEF Eq
  <2>1. QED
    BY <1>5, <1>10
<1>12. ASSUME NEW d \in E, NEW e \in D
       PROVE  call[<<d, e>>] = deepMergeCall(d, e,
                [s \in Shared(d, e) |-> call[<<Child(d, s), Child(e, s)>>]])
  BY <1>11
<1> DEFINE P == {e \in D : \A d \in E : call[<<d, e>>] = g[<<d, e>>]}
<1>13. ASSUME NEW e \in D, \A s \in Steps(e) : Child(e, s) \in P PROVE e \in P
  <2>1. ASSUME NEW d \in E PROVE call[<<d, e>>] = g[<<d, e>>]
    <3>1. ASSUME NEW s \in Shared(d, e)
          PROVE  call[<<Child(d, s), Child(e, s)>>] = g[<<Child(d, s), Child(e, s)>>]
      BY <1>4, <1>13
    <3>2. [s \in Shared(d, e) |-> call[<<Child(d, s), Child(e, s)>>]] = MergedBelow(d, e)
      BY <1>9, <3>1
    <3>3. call[<<d, e>>] = deepMergeCall(d, e, MergedBelow(d, e))
      BY <1>12, <3>2
    <3>4. g[<<d, e>>] = deepMergeCall(d, e, MergedBelow(d, e))
      BY <1>7
    <3>5. QED
      BY <3>3, <3>4
  <2>2. QED
    BY <2>1
<1>14. D \subseteq P
  <2> HIDE DEF P
  <2>1. QED
    BY <1>2, <1>13, PartsInduction
<1>15. call[<<dst, src>>] = g[<<dst, src>>]
  BY <1>2, <1>3, <1>14
<1>16. g[<<dst, src>>] = deepMergeCall(dst, src, MergedBelow(dst, src))
  BY <1>2, <1>3, <1>7
<1>17. QED
  BY <1>6, <1>15, <1>16, DeepMergeOnce

\* What the rendering does to the document is what the recursive functions of
\* the code compute, in every step of every run.
THEOREM AsWrittenAlways == Spec => AsWritten
<1>1. ASSUME Inv, MergeNext
      PROVE  out' = IF sources[i].json = Nil THEN out ELSE deepMerge(out, sources[i].json)
  <2>1. i \in 1 .. Len(sources)
    BY <1>1 DEF MergeNext, Inv
  <2>2. /\ sources[i].json = Nil \/ IsDocument(sources[i].json)
        /\ out = Nil \/ IsDocument(out)
    BY <1>1, <2>1 DEF Inv
  <2>3. QED
    BY <1>1, <2>2, DeepMergeAsWritten DEF MergeNext
<1>2. ASSUME Inv, ApplyVarObjects
      PROVE  out' = OrNil(walk(AsObject(out)))
  <2>1. IsValue(AsObject(out))
    BY <1>2, DocumentsStay DEF Inv, IsDocument
  <2>2. QED
    BY <1>2, <2>1, WalkAsWritten DEF ApplyVarObjects
<1>3. ASSUME Inv, ApplyStringTemplates
      PROVE  out' = render(AsObject(out))
  <2>1. IsValue(AsObject(out))
    BY <1>3, DocumentsStay DEF Inv, IsDocument
  <2>2. QED
    BY <1>3, <2>1, ExpandAsWritten DEF ApplyStringTemplates
<1>4. ASSUME Inv, MergeOverlay
      PROVE  out' = IF OverlayOf[mode] = Nil THEN out ELSE deepMerge(out, OverlayOf[mode])
  <2>1. /\ OverlayOf[mode] = Nil \/ IsDocument(OverlayOf[mode])
        /\ out = Nil \/ IsDocument(out)
    BY <1>4, OverlayAssumption DEF Inv
  <2>2. QED
    BY <1>4, <2>1, DeepMergeAsWritten DEF MergeOverlay
<1>5. QED
  BY <1>1, <1>2, <1>3, <1>4, Invariance, PTL DEF Spec, AsWritten
=============================================================================
