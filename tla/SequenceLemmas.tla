--------------------------- MODULE SequenceLemmas ---------------------------
(***************************************************************************)
(* Lemmas on what is defined by recursion over a sequence: the induction   *)
(* itself, and the operator FlattenSeq of the community modules.           *)
(*                                                                         *)
(* The provers cannot instantiate a theorem that takes a predicate, as the *)
(* induction theorems of the library do.  Here the induction is stated for *)
(* a set of numbers, and proved from the library's theorem that the finite *)
(* sets of numbers are well-founded.                                       *)
(***************************************************************************)
EXTENDS Integers, Sequences, SequencesExt, SequenceTheorems, FiniteSetTheorems, TLAPS

\* A set with 0 and the successors of its numbers has all numbers.
LEMMA Induction ==
  ASSUME NEW S, 0 \in S, \A n \in Nat : n \in S => n + 1 \in S
  PROVE  \A n \in Nat : n \in S
  <1> SUFFICES ASSUME NEW x \in Nat, x \notin S PROVE FALSE
    OBVIOUS
  <1> DEFINE T == {0..n : n \in Nat \ S}
  <1>1. T # {} /\ T \subseteq FiniteSubsetsOf(Nat)
    <2>1. \A n \in Nat : 0..n \subseteq Nat /\ IsFiniteSet(0..n)
      BY FS_Interval
    <2> QED
      BY <2>1 DEF FiniteSubsetsOf
  <1>2. PICK i \in T : \A j \in T : <<j, i>> \notin StrictSubsetOrdering(Nat)
    BY <1>1, FS_StrictSubsetOrderingWellFounded, WFMin
  <1>3. PICK n \in Nat \ S : i = 0..n
    OBVIOUS
  <1>4. n # 0 /\ n - 1 \in Nat /\ n - 1 + 1 = n
    BY <1>3
  <1>5. 0..(n - 1) \in T
    BY <1>3, <1>4
  <1>6. <<0..(n - 1), 0..n>> \in StrictSubsetOrdering(Nat)
    <2>1. 0..(n - 1) \in SUBSET Nat /\ 0..n \in SUBSET Nat
      BY <1>3, <1>4
    <2>2. 0..(n - 1) \subseteq 0..n
      BY <1>3, <1>4
    <2>3. n \in 0..n /\ n \notin 0..(n - 1)
      BY <1>3, <1>4
    <2> QED
      BY <2>1, <2>2, <2>3 DEF StrictSubsetOrdering
  <1> QED
    BY <1>2, <1>3, <1>5, <1>6

-----------------------------------------------------------------------------
\* g is the sequence of the concatenations of the first sequences in f.
Concats(f, g) ==
    g = [i \in 1..Len(f) |-> IF i = 1 THEN f[i] ELSE g[i - 1] \o f[i]]

LEMMA ConcatsExist ==
  ASSUME NEW B, NEW f \in Seq(B)
  PROVE  \E g : Concats(f, g)
  <1> DEFINE Join(a, b) == a \o b
             Sums(n, g) ==
               g = [i \in 1..n |-> IF i = 1 THEN f[i] ELSE Join(g[i - 1], f[i])]
             S == {n \in Nat : \E g : Sums(n, g)}
  <1> HIDE DEF Join
  <1>1. 0 \in S
    <2>1. Sums(0, [k \in 1..0 |-> 0])
      OBVIOUS
    <2> QED
      BY <2>1
  <1>2. ASSUME NEW n \in Nat, n \in S PROVE n + 1 \in S
    <2>1. PICK g : Sums(n, g)
      BY <1>2
    <2> DEFINE h == [k \in 1..(n + 1) |->
                       IF k <= n THEN g[k]
                       ELSE IF k = 1 THEN f[k] ELSE Join(g[n], f[k])]
    <2>2. \A k \in 1..(n + 1) :
             h[k] = IF k = 1 THEN f[k] ELSE Join(h[k - 1], f[k])
      <3> TAKE k \in 1..(n + 1)
      <3>1. CASE k = 1
        BY <3>1, <2>1
      <3>2. CASE k \in 2..n
        <4>1. h[k] = g[k] /\ h[k - 1] = g[k - 1]
          BY <3>2
        <4>2. g[k] = Join(g[k - 1], f[k])
          BY <3>2, <2>1
        <4> QED
          BY <3>2, <4>1, <4>2
      <3>3. CASE k = n + 1 /\ k # 1
        <4>1. h[k] = Join(g[n], f[k]) /\ h[k - 1] = g[n]
          BY <3>3
        <4> QED
          BY <3>3, <4>1
      <3> QED
        BY <3>1, <3>2, <3>3
    <2>3. Sums(n + 1, h)
      BY <2>2
    <2>4. \E d : Sums(n + 1, d)
      BY <2>3
    <2> HIDE DEF Sums
    <2> QED
      BY <2>4
  <1> HIDE DEF S
  <1>3. Len(f) \in S
    BY <1>1, <1>2, Induction
  <1> QED
    BY <1>3 DEF S, Concats, Join

\* FlattenSeq takes the last of them.
LEMMA FlattenDef ==
  ASSUME NEW B, NEW f \in Seq(B)
  PROVE  \E g : Concats(f, g) /\ FlattenSeq(f) = IF Len(f) = 0 THEN f ELSE g[Len(f)]
  <1>1. PICK g : Concats(f, g) /\ g = CHOOSE d : Concats(f, d)
    BY ConcatsExist
  <1>2. FlattenSeq(f) = IF Len(f) = 0 THEN f ELSE g[Len(f)]
    BY <1>1 DEF FlattenSeq, Concats
  <1> QED
    BY <1>1, <1>2

\* Each is the one before with the next sequence; they are sequences.
LEMMA ConcatsStep ==
  ASSUME NEW f, NEW g, Concats(f, g)
  PROVE  \A k \in 1..Len(f) : g[k] = IF k = 1 THEN f[k] ELSE g[k - 1] \o f[k]
  BY DEF Concats

LEMMA ConcatsType ==
  ASSUME NEW A, NEW f \in Seq(Seq(A)), NEW g, Concats(f, g)
  PROVE  \A k \in 1..Len(f) : g[k] \in Seq(A)
  <1> DEFINE S == {n \in Nat : n + 1 <= Len(f) => g[n + 1] \in Seq(A)}
  <1>1. \A k \in 1..Len(f) : g[k] = IF k = 1 THEN f[k] ELSE g[k - 1] \o f[k]
    BY ConcatsStep
  <1>2. 0 \in S
    <2> SUFFICES ASSUME 1 <= Len(f) PROVE g[1] \in Seq(A)
      OBVIOUS
    <2>1. 1 \in 1..Len(f) /\ f[1] \in Seq(A)
      OBVIOUS
    <2>2. g[1] = f[1]
      BY ONLY <1>1, <2>1
    <2> QED
      BY <2>1, <2>2
  <1>3. ASSUME NEW n \in Nat, n \in S PROVE n + 1 \in S
    <2> SUFFICES ASSUME (n + 1) + 1 <= Len(f) PROVE g[(n + 1) + 1] \in Seq(A)
      OBVIOUS
    <2>1. /\ (n + 1) + 1 \in 1..Len(f) /\ (n + 1) + 1 # 1
          /\ ((n + 1) + 1) - 1 = n + 1 /\ n + 1 <= Len(f)
      OBVIOUS
    <2>2. g[(n + 1) + 1] = g[n + 1] \o f[(n + 1) + 1]
      BY <1>1, <2>1
    <2>3. g[n + 1] \in Seq(A) /\ f[(n + 1) + 1] \in Seq(A)
      BY <1>3, <2>1
    <2> QED
      BY <2>2, <2>3
  <1> HIDE DEF S
  <1>4. \A n \in Nat : n \in S
    BY <1>2, <1>3, Induction
  <1> SUFFICES ASSUME NEW k \in 1..Len(f) PROVE g[k] \in Seq(A)
    OBVIOUS
  <1>5. k - 1 \in Nat /\ (k - 1) + 1 = k /\ k <= Len(f)
    OBVIOUS
  <1> QED
    BY <1>4, <1>5 DEF S

\* Those of a longer sequence start with the same ones.
LEMMA ConcatsPrefix ==
  ASSUME NEW B, NEW f \in Seq(B), NEW g, Concats(f, g),
         NEW e \in Seq(B), NEW h, Concats(e, h), Len(f) <= Len(e),
         \A i \in 1..Len(f) : f[i] = e[i]
  PROVE  \A k \in 1..Len(f) : g[k] = h[k]
  <1> DEFINE S == {n \in Nat : n + 1 <= Len(f) => g[n + 1] = h[n + 1]}
  <1>1. \A k \in 1..Len(f) : g[k] = IF k = 1 THEN f[k] ELSE g[k - 1] \o f[k]
    BY ConcatsStep
  <1>2. \A k \in 1..Len(e) : h[k] = IF k = 1 THEN e[k] ELSE h[k - 1] \o e[k]
    BY ConcatsStep
  <1>3. 0 \in S
    BY <1>1, <1>2
  <1>4. ASSUME NEW n \in Nat, n \in S PROVE n + 1 \in S
    <2> SUFFICES ASSUME (n + 1) + 1 <= Len(f) PROVE g[(n + 1) + 1] = h[(n + 1) + 1]
      OBVIOUS
    <2>1. /\ (n + 1) + 1 \in 1..Len(f) /\ (n + 1) + 1 # 1 /\ (n + 1) + 1 \in 1..Len(e)
          /\ ((n + 1) + 1) - 1 = n + 1 /\ n + 1 <= Len(f)
      OBVIOUS
    <2>2. g[(n + 1) + 1] = g[n + 1] \o f[(n + 1) + 1]
      BY <1>1, <2>1
    <2>3. h[(n + 1) + 1] = h[n + 1] \o e[(n + 1) + 1]
      BY <1>2, <2>1
    <2>4. g[n + 1] = h[n + 1] /\ f[(n + 1) + 1] = e[(n + 1) + 1]
      BY <1>4, <2>1
    <2> QED
      BY <2>2, <2>3, <2>4
  <1> HIDE DEF S
  <1>5. \A n \in Nat : n \in S
    BY <1>3, <1>4, Induction
  <1> SUFFICES ASSUME NEW k \in 1..Len(f) PROVE g[k] = h[k]
    OBVIOUS
  <1>6. k - 1 \in Nat /\ (k - 1) + 1 = k /\ k <= Len(f)
    OBVIOUS
  <1> QED
    BY <1>5, <1>6 DEF S

-----------------------------------------------------------------------------
\* FlattenSeq of no sequence, and of one more.
LEMMA FlattenNone ==
  ASSUME NEW B, NEW f \in Seq(B), Len(f) = 0
  PROVE  FlattenSeq(f) = <<>>
  <1>1. FlattenSeq(f) = f
    BY FlattenDef
  <1> QED
    BY <1>1, EmptySeq

LEMMA FlattenType ==
  ASSUME NEW A, NEW f \in Seq(Seq(A))
  PROVE  FlattenSeq(f) \in Seq(A)
  <1>1. PICK g : Concats(f, g) /\ FlattenSeq(f) = IF Len(f) = 0 THEN f ELSE g[Len(f)]
    BY FlattenDef
  <1>2. CASE Len(f) = 0
    <2>1. FlattenSeq(f) = <<>>
      BY <1>2, FlattenNone
    <2> QED
      BY <2>1
  <1>3. CASE Len(f) # 0
    <2>1. Len(f) \in 1..Len(f)
      BY <1>3
    <2> QED
      BY <1>1, <1>3, <2>1, ConcatsType
  <1> QED
    BY <1>2, <1>3

LEMMA FlattenMore ==
  ASSUME NEW B, NEW f \in Seq(B), NEW e \in Seq(B), NEW x, <<>> \o x = x,
         Len(e) = Len(f) + 1, e[Len(e)] = x, \A i \in 1..Len(f) : f[i] = e[i]
  PROVE  FlattenSeq(e) = FlattenSeq(f) \o x
  <1>1. Len(f) \in Nat
    OBVIOUS
  <1>2. PICK g : Concats(f, g) /\ FlattenSeq(f) = IF Len(f) = 0 THEN f ELSE g[Len(f)]
    BY FlattenDef
  <1>3. PICK h : Concats(e, h) /\ FlattenSeq(e) = IF Len(e) = 0 THEN e ELSE h[Len(e)]
    BY FlattenDef
  <1>4. FlattenSeq(e) = h[Len(e)] /\ Len(e) \in 1..Len(e)
    BY <1>1, <1>3
  <1>5. h[Len(e)] = IF Len(e) = 1 THEN x ELSE h[Len(e) - 1] \o x
    BY <1>1, <1>3, <1>4, ConcatsStep
  <1>6. CASE Len(f) = 0
    <2>1. FlattenSeq(f) = <<>>
      BY <1>6, FlattenNone
    <2> QED
      BY <1>1, <1>4, <1>5, <1>6, <2>1
  <1>7. CASE Len(f) # 0
    <2>1. Len(f) \in 1..Len(f) /\ Len(e) - 1 = Len(f) /\ Len(e) # 1
      BY <1>1, <1>7
    <2>2. g[Len(f)] = h[Len(f)]
      <3>1. Concats(f, g) /\ Concats(e, h) /\ Len(f) <= Len(e)
        BY <1>1, <1>2, <1>3
      <3>2. \A k \in 1..Len(f) : g[k] = h[k]
        BY <3>1, ConcatsPrefix
      <3> QED
        BY <2>1, <3>2
    <2>3. FlattenSeq(f) = g[Len(f)]
      BY <1>2, <1>7
    <2>4. h[Len(e)] = h[Len(f)] \o x
      BY <1>5, <2>1
    <2> QED
      BY <1>4, <2>2, <2>3, <2>4
  <1> QED
    BY <1>6, <1>7

LEMMA FlattenAppend ==
  ASSUME NEW A, NEW f \in Seq(Seq(A)), NEW x \in Seq(A)
  PROVE  FlattenSeq(Append(f, x)) = FlattenSeq(f) \o x
  <1>1. /\ Append(f, x) \in Seq(Seq(A)) /\ Len(Append(f, x)) = Len(f) + 1
        /\ Append(f, x)[Len(Append(f, x))] = x
        /\ \A i \in 1..Len(f) : f[i] = Append(f, x)[i]
    OBVIOUS
  <1>2. <<>> \o x = x
    OBVIOUS
  <1> QED
    BY <1>1, <1>2, FlattenMore

\* The facts about sequences of sequences that follow, with B for Seq(A).
Concatenable(B) ==
    /\ <<>> \in B
    /\ \A a, b \in B : a \o b \in B
    /\ \A a \in B : <<>> \o a = a /\ a \o <<>> = a
    /\ \A a, b, c \in B : (a \o b) \o c = a \o (b \o c)

Flattening(B) ==
    \A f \in Seq(B) :
        /\ Len(f) = 0 => FlattenSeq(f) = <<>>
        /\ FlattenSeq(f) \in B
        /\ \A x \in B : FlattenSeq(Append(f, x)) = FlattenSeq(f) \o x

LEMMA SeqFlattens == \A A : Concatenable(Seq(A)) /\ Flattening(Seq(A))
  <1> SUFFICES ASSUME NEW A PROVE Concatenable(Seq(A)) /\ Flattening(Seq(A))
    OBVIOUS
  <1>1. Concatenable(Seq(A))
    BY ConcatAssociative, ConcatEmptySeq, ConcatProperties DEF Concatenable
  <1>2. Flattening(Seq(A))
    BY FlattenNone, FlattenType, FlattenAppend DEF Flattening
  <1> QED
    BY <1>1, <1>2

\* The first of the sequences comes first.
LEMMA FlattenFirst ==
  ASSUME NEW B, Concatenable(B), Flattening(B)
  PROVE  \A f \in Seq(B) :
            f # <<>> => FlattenSeq(f) = Head(f) \o FlattenSeq(Tail(f))
  <1> DEFINE P(f) == FlattenSeq(f) = Head(f) \o FlattenSeq(Tail(f))
             N == {n \in Nat : \A f \in Seq(B) : Len(f) = n + 1 => P(f)}
  <1>0. \A f \in Seq(B), n \in Nat : Len(f) = n + 1 =>
          f # <<>> /\ \E e \in Seq(B), x \in B : f = Append(e, x) /\ Len(e) = n
    <2> SUFFICES ASSUME NEW f \in Seq(B), NEW n \in Nat, Len(f) = n + 1
                 PROVE  /\ f # <<>>
                        /\ \E e \in Seq(B), x \in B : f = Append(e, x) /\ Len(e) = n
      OBVIOUS
    <2>1. f # <<>>
      OBVIOUS
    <2>2. PICK e \in Seq(B), x \in B : f = Append(e, x)
      BY <2>1, SequenceEmptyOrAppend
    <2>3. Len(e) = n
      BY <2>2
    <2> QED
      BY <2>1, <2>2, <2>3
  <1>1. 0 \in N
    <2> SUFFICES ASSUME NEW f \in Seq(B), Len(f) = 0 + 1 PROVE P(f)
      OBVIOUS
    <2>1. PICK e \in Seq(B), x \in B : f = Append(e, x) /\ Len(e) = 0
      BY <1>0
    <2>2. Head(f) = x /\ Tail(f) = e
      BY <2>1, HeadTailAppend, EmptySeq
    <2>3. FlattenSeq(e) = <<>>
      BY <2>1 DEF Flattening
    <2>4. FlattenSeq(f) = FlattenSeq(e) \o x
      BY <2>1 DEF Flattening
    <2> QED
      <3>1. <<>> \o x = x /\ x \o <<>> = x
        BY ONLY x \in B, Concatenable(B), Zenon DEF Concatenable
      <3> QED
        BY ONLY <2>2, <2>3, <2>4, <3>1, Zenon
  <1>2. ASSUME NEW n \in Nat, n \in N PROVE n + 1 \in N
    <2> SUFFICES ASSUME NEW f \in Seq(B), Len(f) = (n + 1) + 1 PROVE P(f)
      OBVIOUS
    <2>0. n + 1 \in Nat
      OBVIOUS
    <2>1. PICK e \in Seq(B), x \in B : f = Append(e, x) /\ Len(e) = n + 1
      BY <1>0, <2>0
    <2>2. e # <<>> /\ Head(e) \in B /\ Tail(e) \in Seq(B)
      BY <1>0, <2>1, HeadTailProperties
    <2>3. Head(f) = Head(e) /\ Tail(f) = Append(Tail(e), x)
      BY <2>1, <2>2, HeadTailAppend
    <2>4. FlattenSeq(e) = Head(e) \o FlattenSeq(Tail(e))
      BY <1>2, <2>1
    <2>5. /\ FlattenSeq(f) = FlattenSeq(e) \o x
          /\ FlattenSeq(Tail(f)) = FlattenSeq(Tail(e)) \o x
          /\ FlattenSeq(Tail(e)) \in B
      BY <2>1, <2>2, <2>3 DEF Flattening
    <2>6. (Head(e) \o FlattenSeq(Tail(e))) \o x = Head(e) \o (FlattenSeq(Tail(e)) \o x)
      <3> DEFINE u == Head(e)
                 v == FlattenSeq(Tail(e))
      <3>1. u \in B /\ v \in B /\ x \in B
        BY <2>2, <2>5
      <3> HIDE DEF u, v
      <3>2. (u \o v) \o x = u \o (v \o x)
        BY ONLY <3>1, Concatenable(B), Zenon DEF Concatenable
      <3> QED
        BY <3>2 DEF u, v
    <2> QED
      BY <2>3, <2>4, <2>5, <2>6
  <1> HIDE DEF N
  <1>3. \A n \in Nat : n \in N
    BY <1>1, <1>2, Induction
  <1> SUFFICES ASSUME NEW f \in Seq(B), f # <<>> PROVE P(f)
    OBVIOUS
  <1>4. Len(f) - 1 \in Nat /\ Len(f) = (Len(f) - 1) + 1
    BY EmptySeq
  <1> QED
    BY <1>3, <1>4 DEF N

LEMMA FlattenTail ==
  ASSUME NEW A, NEW f \in Seq(Seq(A)), f # <<>>
  PROVE  FlattenSeq(f) = Head(f) \o FlattenSeq(Tail(f))
  BY SeqFlattens, FlattenFirst

\* Sequences of one element each give the sequence of the elements.
LEMMA FlattenOnes ==
  ASSUME NEW A, NEW B, Concatenable(B), Flattening(B), \A a \in A : <<a>> \in B
  PROVE  \A s \in Seq(A), f \in Seq(B) :
            Len(f) = Len(s) /\ (\A i \in 1..Len(s) : f[i] = <<s[i]>>) => FlattenSeq(f) = s
  <1> DEFINE Ones(s, f) == Len(f) = Len(s) /\ \A i \in 1..Len(s) : f[i] = <<s[i]>>
             N == {n \in Nat : \A s \in Seq(A), f \in Seq(B) :
                                 Len(s) = n /\ Ones(s, f) => FlattenSeq(f) = s}
  <1>1. 0 \in N
    BY EmptySeq DEF Flattening
  <1>2. ASSUME NEW n \in Nat, n \in N PROVE n + 1 \in N
    <2> SUFFICES ASSUME NEW s \in Seq(A), NEW f \in Seq(B), Len(s) = n + 1, Ones(s, f)
                 PROVE  FlattenSeq(f) = s
      OBVIOUS
    <2>0. s # <<>> /\ f # <<>>
      OBVIOUS
    <2>1. PICK t \in Seq(A), y \in A : s = Append(t, y)
      BY <2>0, SequenceEmptyOrAppend
    <2>2. PICK e \in Seq(B), x \in B : f = Append(e, x)
      BY <2>0, SequenceEmptyOrAppend
    <2>3. Len(t) = n /\ Len(e) = n
      BY <2>1, <2>2
    <2>4. s[n + 1] = y /\ \A i \in 1..n : s[i] = t[i]
      BY <2>1, <2>3
    <2>5. f[n + 1] = x /\ \A i \in 1..n : f[i] = e[i]
      BY <2>2, <2>3
    <2>6. x = <<y>> /\ Ones(t, e)
      <3>1. \A i \in 1..(n + 1) : f[i] = <<s[i]>>
        OBVIOUS
      <3>2. x = <<y>>
        <4>1. f[n + 1] = <<s[n + 1]>>
          BY <3>1
        <4> QED
          BY <2>4, <2>5, <4>1, Zenon
      <3>3. \A i \in 1..n : e[i] = <<t[i]>>
        <4> TAKE i \in 1..n
        <4>1. f[i] = <<s[i]>>
          BY <3>1
        <4>2. s[i] = t[i] /\ f[i] = e[i]
          BY <2>4, <2>5
        <4> QED
          BY <4>1, <4>2, Zenon
      <3> QED
        BY <2>3, <3>2, <3>3
    <2> HIDE DEF Ones
    <2>7. FlattenSeq(e) = t
      BY <1>2, <2>3, <2>6
    <2>8. FlattenSeq(f) = FlattenSeq(e) \o x
      BY <2>2 DEF Flattening
    <2> QED
      BY <2>1, <2>6, <2>7, <2>8, AppendIsConcat
  <1> HIDE DEF N
  <1>3. \A n \in Nat : n \in N
    BY <1>1, <1>2, Induction
  <1> QED
    BY <1>3 DEF N

LEMMA FlattenSingles ==
  ASSUME NEW A, NEW s \in Seq(A), NEW f \in Seq(Seq(A)),
         Len(f) = Len(s), \A i \in 1..Len(s) : f[i] = <<s[i]>>
  PROVE  FlattenSeq(f) = s
  <1>1. \A a \in A : <<a>> \in Seq(A)
    OBVIOUS
  <1> QED
    BY <1>1, SeqFlattens, FlattenOnes

-----------------------------------------------------------------------------
\* The sequences that F gives for the elements of s.
Each(F, s) == [i \in 1..Len(s) |-> F[s[i]]]

LEMMA EachType ==
  ASSUME NEW M, NEW B, NEW F \in [M -> B], NEW s \in Seq(M)
  PROVE  Each(F, s) \in Seq(B) /\ Len(Each(F, s)) = Len(s)
  <1>1. \A i \in 1..Len(s) : s[i] \in M
    OBVIOUS
  <1>2. \A i \in 1..Len(s) : F[s[i]] \in B
    BY <1>1
  <1> QED
    BY <1>2 DEF Each

\* Their concatenation when an element comes last, and when the first one goes.
LEMMA EachAppend ==
  ASSUME NEW M, NEW A, NEW F \in [M -> Seq(A)], NEW s \in Seq(M), NEW m \in M
  PROVE  FlattenSeq(Each(F, Append(s, m))) = FlattenSeq(Each(F, s)) \o F[m]
  <1> DEFINE B == Seq(A)
  <1>1. F \in [M -> B] /\ Flattening(B)
    BY SeqFlattens
  <1> HIDE DEF B
  <1>2. Each(F, s) \in Seq(B) /\ F[m] \in B
    BY <1>1, EachType
  <1>3. Each(F, Append(s, m)) = Append(Each(F, s), F[m])
    BY DEF Each
  <1> QED
    BY <1>1, <1>2, <1>3 DEF Flattening

LEMMA EachTail ==
  ASSUME NEW M, NEW A, NEW F \in [M -> Seq(A)], NEW s \in Seq(M), s # <<>>
  PROVE  FlattenSeq(Each(F, s)) = F[Head(s)] \o FlattenSeq(Each(F, Tail(s)))
  <1> DEFINE B == Seq(A)
  <1>1. F \in [M -> B] /\ Concatenable(B) /\ Flattening(B)
    BY SeqFlattens
  <1> HIDE DEF B
  <1>2. Each(F, s) \in Seq(B) /\ Each(F, s) # <<>>
    <2>1. Each(F, s) \in Seq(B)
      BY <1>1, EachType
    <2>2. Len(Each(F, s)) = Len(s) /\ Len(s) # 0
      BY EmptySeq DEF Each
    <2> QED
      BY <2>1, <2>2
  <1>3. Head(Each(F, s)) = F[Head(s)] /\ Tail(Each(F, s)) = Each(F, Tail(s))
    <2>1. Len(s) \in Nat \ {0} /\ Head(s) = s[1] /\ Len(Tail(s)) = Len(s) - 1
      OBVIOUS
    <2>2. Head(Each(F, s)) = F[Head(s)]
      BY <2>1 DEF Each
    <2>3. Tail(Each(F, s)) = Each(F, Tail(s))
      BY <2>1 DEF Each
    <2> QED
      BY <2>2, <2>3
  <1>4. FlattenSeq(Each(F, s)) = Head(Each(F, s)) \o FlattenSeq(Tail(Each(F, s)))
    BY <1>1, <1>2, FlattenFirst
  <1> QED
    BY ONLY <1>3, <1>4, Zenon

LEMMA EachFlattens ==
  ASSUME NEW M, NEW A, NEW F \in [M -> Seq(A)], NEW s \in Seq(M)
  PROVE  FlattenSeq(Each(F, s)) \in Seq(A)
  BY EachType, SeqFlattens DEF Flattening

LEMMA EachNone ==
  ASSUME NEW M, NEW A, NEW F \in [M -> Seq(A)]
  PROVE  FlattenSeq(Each(F, <<>>)) = <<>>
  <1> DEFINE B == Seq(A)
  <1>1. F \in [M -> B] /\ Flattening(B)
    BY SeqFlattens
  <1>2. <<>> \in Seq(M) /\ Len(<<>>) = 0
    OBVIOUS
  <1> HIDE DEF B
  <1>3. Each(F, <<>>) \in Seq(B)
    BY <1>1, <1>2, EachType
  <1>4. Len(Each(F, <<>>)) = 0
    BY DEF Each
  <1> QED
    BY <1>1, <1>3, <1>4 DEF Flattening
=============================================================================
