--------------------------- MODULE BlynkWireBytes ---------------------------
(***************************************************************************)
(* Lemmas on the bytes of a sequence of packets: the operators Upto,       *)
(* Bytes, Whole and After of BlynkWire.  Upto is recursive; what it        *)
(* computes is proved by induction over the number of packets.             *)
(***************************************************************************)
EXTENDS BlynkWire, SequenceLemmas

\* The packets the server can send.
Packets ==
    {OK} \cup {SetUnit(unit, id) : unit \in Units, id \in Ids}
    \cup {Calibrate(value, sure, id) : value \in {1, 2}, sure \in BOOLEAN, id \in Ids}
    \cup {Other(len, id) : len \in Lengths, id \in Ids}

\* A packet has a size.
LEMMA PacketSize ==
  ASSUME NEW p \in Packets
  PROVE  p.len \in Nat /\ Size(p) \in Nat /\ Size(p) >= Header /\ Header > 0
         /\ Header \in Nat
  <1>1. p.len \in Nat
    BY WireAssumption DEF Packets, OK, SetUnit, Calibrate, Other, WireAssumption
  <1> QED
    BY <1>1, WireAssumption DEF Size, WireAssumption

\* The sums exist, and are given by adding one packet after the other.
LEMMA UptoDef ==
  ASSUME NEW s \in Seq(Packets)
  PROVE  Upto(s) = [k \in 0..Len(s) |->
                       IF k = 0 THEN 0 ELSE Upto(s)[k - 1] + Size(s[k])]
  <1> DEFINE Sums(n, g) ==
               g = [k \in 0..n |-> IF k = 0 THEN 0 ELSE g[k - 1] + Size(s[k])]
             S == {n \in Nat : \E g : Sums(n, g)}
  <1>1. 0 \in S
    <2>1. Sums(0, [k \in 0..0 |-> 0])
      OBVIOUS
    <2> QED
      BY <2>1
  <1>2. ASSUME NEW n \in Nat, n \in S PROVE n + 1 \in S
    <2>1. PICK g : Sums(n, g)
      BY <1>2
    <2> DEFINE h == [k \in 0..(n + 1) |->
                       IF k <= n THEN g[k] ELSE g[n] + Size(s[n + 1])]
    <2>2. \A k \in 0..(n + 1) :
             h[k] = IF k = 0 THEN 0 ELSE h[k - 1] + Size(s[k])
      <3> TAKE k \in 0..(n + 1)
      <3>1. CASE k = 0
        BY <3>1, <2>1
      <3>2. CASE k \in 1..n
        <4>1. h[k] = g[k] /\ h[k - 1] = g[k - 1]
          BY <3>2
        <4>2. g[k] = g[k - 1] + Size(s[k])
          BY <3>2, <2>1
        <4> QED
          BY <3>2, <4>1, <4>2
      <3>3. CASE k = n + 1
        <4>1. h[k] = g[n] + Size(s[n + 1]) /\ h[k - 1] = g[n]
          BY <3>3
        <4> QED
          BY <3>3, <4>1
      <3> QED
        BY <3>1, <3>2, <3>3
    <2>3. Sums(n + 1, h)
      BY <2>2
    <2>4. \E f : Sums(n + 1, f)
      BY <2>3
    <2> HIDE DEF Sums
    <2> QED
      BY <2>4
  <1> HIDE DEF S
  <1>3. \A n \in Nat : n \in S
    BY <1>1, <1>2, Induction
  <1>4. PICK g : Sums(Len(s), g)
    BY <1>3 DEF S
  <1>5. Upto(s) = CHOOSE g1 : Sums(Len(s), g1)
    BY DEF Upto
  <1> QED
    BY <1>4, <1>5

\* The sums are numbers; each is the one before with the next packet.
LEMMA UptoStep ==
  ASSUME NEW s \in Seq(Packets)
  PROVE  /\ Upto(s) \in [0..Len(s) -> Nat]
         /\ Upto(s)[0] = 0
         /\ \A k \in 1..Len(s) :
              Size(s[k]) \in Nat /\ Upto(s)[k] = Upto(s)[k - 1] + Size(s[k])
  <1> DEFINE S == {n \in Nat : n <= Len(s) => Upto(s)[n] \in Nat}
  <1>0. \A k \in 1..Len(s) : Size(s[k]) \in Nat
    BY PacketSize
  <1>1. /\ Len(s) \in Nat
        /\ Upto(s)[0] = 0
        /\ \A k \in 1..Len(s) : Upto(s)[k] = Upto(s)[k - 1] + Size(s[k])
        /\ DOMAIN Upto(s) = 0..Len(s)
    BY UptoDef
  <1>2. 0 \in S
    BY <1>1
  <1>3. ASSUME NEW n \in Nat, n \in S PROVE n + 1 \in S
    BY <1>0, <1>1, <1>3
  <1> HIDE DEF S
  <1>4. \A n \in Nat : n \in S
    BY <1>2, <1>3, Induction
  <1>5. \A n \in 0..Len(s) : Upto(s)[n] \in Nat
    BY <1>1, <1>4 DEF S
  <1>6. Upto(s) = [k \in 0..Len(s) |-> Upto(s)[k]]
    BY <1>1, UptoDef
  <1>7. Upto(s) \in [0..Len(s) -> Nat]
    BY <1>5, <1>6
  <1> QED
    BY <1>0, <1>1, <1>7

\* Sequences that agree at the start have the same sums there.
LEMMA UptoPrefix ==
  ASSUME NEW s \in Seq(Packets), NEW t \in Seq(Packets), Len(s) <= Len(t),
         \A i \in 1..Len(s) : s[i] = t[i]
  PROVE  \A k \in 0..Len(s) : Upto(s)[k] = Upto(t)[k]
  <1> DEFINE S == {n \in Nat : n <= Len(s) => Upto(s)[n] = Upto(t)[n]}
  <1>1. 0 \in S
    BY UptoStep
  <1>2. ASSUME NEW n \in Nat, n \in S PROVE n + 1 \in S
    <2> SUFFICES ASSUME n + 1 <= Len(s) PROVE Upto(s)[n + 1] = Upto(t)[n + 1]
      OBVIOUS
    <2>1. n + 1 \in 1..Len(s) /\ n + 1 \in 1..Len(t) /\ (n + 1) - 1 = n
      OBVIOUS
    <2>2. Upto(s)[n + 1] = Upto(s)[n] + Size(s[n + 1])
      BY <2>1, UptoStep
    <2>3. Upto(t)[n + 1] = Upto(t)[n] + Size(t[n + 1])
      BY <2>1, UptoStep
    <2> QED
      BY <1>2, <2>1, <2>2, <2>3
  <1> HIDE DEF S
  <1>3. \A n \in Nat : n \in S
    BY <1>1, <1>2, Induction
  <1> QED
    BY <1>3 DEF S

\* What is left after the first j packets has the other sums.
LEMMA UptoShift ==
  ASSUME NEW s \in Seq(Packets), NEW j \in 0..Len(s), NEW t \in Seq(Packets),
         Len(t) = Len(s) - j, \A i \in 1..Len(t) : t[i] = s[j + i]
  PROVE  \A k \in 0..Len(t) : Upto(s)[j + k] = Upto(s)[j] + Upto(t)[k]
  <1> DEFINE S == {n \in Nat : n <= Len(t) => Upto(s)[j + n] = Upto(s)[j] + Upto(t)[n]}
  <1>0. Upto(s) \in [0..Len(s) -> Nat] /\ Upto(t) \in [0..Len(t) -> Nat]
    BY UptoStep
  <1>1. 0 \in S
    <2>1. Upto(s)[j] \in Nat /\ j + 0 = j
      BY <1>0
    <2>2. Upto(t)[0] = 0
      BY UptoStep
    <2> QED
      BY <2>1, <2>2
  <1>2. ASSUME NEW n \in Nat, n \in S PROVE n + 1 \in S
    <2> SUFFICES ASSUME n + 1 <= Len(t)
                 PROVE  Upto(s)[j + (n + 1)] = Upto(s)[j] + Upto(t)[n + 1]
      OBVIOUS
    <2>1. /\ n + 1 \in 1..Len(t) /\ (n + 1) - 1 = n /\ n \in 0..Len(t)
          /\ j + (n + 1) \in 1..Len(s) /\ (j + (n + 1)) - 1 = j + n
          /\ j + n \in 0..Len(s)
      OBVIOUS
    <2>2. Upto(s)[j + (n + 1)] = Upto(s)[j + n] + Size(s[j + (n + 1)])
      BY <2>1, UptoStep
    <2>3. Upto(t)[n + 1] = Upto(t)[n] + Size(t[n + 1]) /\ Size(t[n + 1]) \in Nat
      BY <2>1, UptoStep
    <2>4. t[n + 1] = s[j + (n + 1)]
      BY <2>1
    <2>5. Upto(s)[j + n] = Upto(s)[j] + Upto(t)[n]
      BY <1>2, <2>1
    <2>6. Upto(s)[j] \in Nat /\ Upto(t)[n] \in Nat
      BY <1>0, <2>1
    <2> QED
      BY <2>2, <2>3, <2>4, <2>5, <2>6
  <1> HIDE DEF S
  <1>3. \A n \in Nat : n \in S
    BY <1>1, <1>2, Induction
  <1> QED
    BY <1>3 DEF S

\* The sums grow.
LEMMA UptoGrows ==
  ASSUME NEW s \in Seq(Packets), NEW i \in 0..Len(s), NEW j \in 0..Len(s), i < j
  PROVE  Upto(s)[i] < Upto(s)[j]
  <1> DEFINE S == {n \in Nat : i + n + 1 <= Len(s) => Upto(s)[i] < Upto(s)[i + n + 1]}
  <1>0. Upto(s) \in [0..Len(s) -> Nat]
    BY UptoStep
  <1>1. ASSUME NEW k \in 1..Len(s)
        PROVE  Upto(s)[k - 1] < Upto(s)[k]
    <2>1. s[k] \in Packets
      OBVIOUS
    <2>2. Size(s[k]) \in Nat /\ Size(s[k]) > 0
      BY <2>1, PacketSize
    <2>3. Upto(s)[k] = Upto(s)[k - 1] + Size(s[k])
      BY UptoStep
    <2>4. Upto(s)[k - 1] \in Nat
      BY <1>0
    <2> QED
      BY <2>2, <2>3, <2>4
  <1>2. 0 \in S
    BY <1>1
  <1>3. ASSUME NEW n \in Nat, n \in S PROVE n + 1 \in S
    <2> SUFFICES ASSUME i + (n + 1) + 1 <= Len(s)
                 PROVE  Upto(s)[i] < Upto(s)[i + (n + 1) + 1]
      OBVIOUS
    <2>1. /\ i + (n + 1) + 1 \in 1..Len(s) /\ i + n + 1 \in 0..Len(s)
          /\ (i + (n + 1) + 1) - 1 = i + n + 1
      OBVIOUS
    <2>2. Upto(s)[i + n + 1] < Upto(s)[i + (n + 1) + 1]
      BY <1>1, <2>1
    <2>3. Upto(s)[i] < Upto(s)[i + n + 1]
      BY <1>3, <2>1
    <2>4. /\ Upto(s)[i] \in Nat /\ Upto(s)[i + n + 1] \in Nat
          /\ Upto(s)[i + (n + 1) + 1] \in Nat
      BY <1>0, <2>1
    <2> QED
      BY <2>2, <2>3, <2>4
  <1> HIDE DEF S
  <1>4. \A n \in Nat : n \in S
    BY <1>2, <1>3, Induction
  <1>5. PICK n \in Nat : i + n + 1 = j
    <2>1. j - i - 1 \in Nat /\ i + (j - i - 1) + 1 = j
      OBVIOUS
    <2> QED
      BY <2>1
  <1>6. i + n + 1 <= Len(s) => Upto(s)[i] < Upto(s)[i + n + 1]
    BY <1>4 DEF S
  <1>7. j <= Len(s)
    OBVIOUS
  <1> QED
    BY <1>5, <1>6, <1>7

-----------------------------------------------------------------------------
\* The bytes of a sequence, of none, of one packet more, and of what is left after
\* the first k packets.
LEMMA BytesNat ==
  ASSUME NEW s \in Seq(Packets)
  PROVE  Bytes(s) \in Nat /\ (s = <<>> => Bytes(s) = 0)
  BY UptoStep DEF Bytes

LEMMA BytesAppend ==
  ASSUME NEW s \in Seq(Packets), NEW p \in Packets
  PROVE  Bytes(Append(s, p)) = Bytes(s) + Size(p)
  <1> DEFINE t == Append(s, p)
  <1>1. /\ t \in Seq(Packets) /\ Len(t) = Len(s) + 1 /\ Len(s) \in Nat
        /\ \A i \in 1..Len(s) : s[i] = t[i]
        /\ t[Len(t)] = p
    OBVIOUS
  <1> HIDE DEF t
  <1>2. Upto(t)[Len(t)] = Upto(t)[Len(t) - 1] + Size(t[Len(t)])
    BY <1>1, UptoStep
  <1>3. Upto(t)[Len(s)] = Upto(s)[Len(s)]
    BY <1>1, UptoPrefix
  <1>4. Bytes(t) = Bytes(s) + Size(p)
    BY <1>1, <1>2, <1>3 DEF Bytes
  <1> QED
    BY <1>4 DEF t

LEMMA BytesRest ==
  ASSUME NEW s \in Seq(Packets), NEW k \in 0..Len(s)
  PROVE  /\ SubSeq(s, k + 1, Len(s)) \in Seq(Packets)
         /\ Upto(s)[k] \in Nat
         /\ Bytes(s) = Upto(s)[k] + Bytes(SubSeq(s, k + 1, Len(s)))
  <1> DEFINE t == SubSeq(s, k + 1, Len(s))
  <1>1. /\ t \in Seq(Packets) /\ Len(t) = Len(s) - k
        /\ \A i \in 1..Len(t) : t[i] = s[k + i]
    OBVIOUS
  <1> HIDE DEF t
  <1>2. \A i \in 0..Len(t) : Upto(s)[k + i] = Upto(s)[k] + Upto(t)[i]
    BY <1>1, UptoShift
  <1>3. Len(t) \in 0..Len(t) /\ k + Len(t) = Len(s)
    BY <1>1
  <1>4. Bytes(s) = Upto(s)[k] + Bytes(t)
    BY <1>2, <1>3 DEF Bytes
  <1>5. Upto(s)[k] \in Nat
    BY UptoStep
  <1> QED
    BY <1>1, <1>4, <1>5 DEF t

-----------------------------------------------------------------------------
\* k packets of s are whole in its first n n.
Fits(s, n, k) ==
    /\ k \in 0..Len(s)
    /\ Upto(s)[k] <= n
    /\ k = Len(s) \/ n < Upto(s)[k + 1]

\* There is such a number, and only one.
LEMMA FitsExists ==
  ASSUME NEW s \in Seq(Packets), NEW n \in Nat
  PROVE  \E k \in 0..Len(s) : Fits(s, n, k)
  <1> SUFFICES ASSUME \A k \in 0..Len(s) : ~Fits(s, n, k) PROVE FALSE
    OBVIOUS
  <1> DEFINE S == {i \in Nat : i <= Len(s) => Upto(s)[i] <= n}
  <1>1. Upto(s) \in [0..Len(s) -> Nat] /\ Upto(s)[0] = 0 /\ Len(s) \in Nat
    BY UptoStep
  <1>2. 0 \in S
    BY <1>1
  <1>3. ASSUME NEW i \in Nat, i \in S PROVE i + 1 \in S
    <2> SUFFICES ASSUME i + 1 <= Len(s) PROVE Upto(s)[i + 1] <= n
      OBVIOUS
    <2>1. i \in 0..Len(s) /\ i + 1 \in 0..Len(s) /\ i # Len(s)
      BY <1>1
    <2>2. ~(n < Upto(s)[i + 1])
      BY <1>3, <2>1 DEF Fits
    <2>3. Upto(s)[i + 1] \in Nat
      BY <1>1, <2>1
    <2> QED
      BY <2>2, <2>3
  <1> HIDE DEF S
  <1>4. Len(s) \in S
    BY <1>1, <1>2, <1>3, Induction
  <1>5. Fits(s, n, Len(s))
    BY <1>1, <1>4 DEF S, Fits
  <1> QED
    BY <1>1, <1>5

LEMMA FitsUnique ==
  ASSUME NEW s \in Seq(Packets), NEW n \in Nat, NEW j, NEW k,
         Fits(s, n, j), Fits(s, n, k)
  PROVE  j = k
  <1>1. ASSUME NEW a \in 0..Len(s), NEW b \in 0..Len(s), a < b,
               Fits(s, n, a), Fits(s, n, b)
        PROVE  FALSE
    <2>1. Upto(s) \in [0..Len(s) -> Nat]
      BY UptoStep
    <2>2. a + 1 \in 0..Len(s) /\ a # Len(s)
      BY <1>1
    <2>3. n < Upto(s)[a + 1] /\ Upto(s)[b] <= n
      BY <1>1, <2>2 DEF Fits
    <2>4. Upto(s)[a + 1] <= Upto(s)[b]
      <3>1. CASE a + 1 = b
        BY <2>1, <3>1
      <3>2. CASE a + 1 < b
        BY <2>1, <2>2, <3>2, UptoGrows
      <3> QED
        BY <1>1, <3>1, <3>2
    <2>5. Upto(s)[a + 1] \in Nat /\ Upto(s)[b] \in Nat
      BY <2>1, <2>2
    <2> QED
      BY <2>3, <2>4, <2>5
  <1>2. j \in 0..Len(s) /\ k \in 0..Len(s)
    BY DEF Fits
  <1>3. ~(j < k) /\ ~(k < j)
    BY <1>1, <1>2
  <1> QED
    BY <1>2, <1>3

LEMMA WholeFits ==
  ASSUME NEW s \in Seq(Packets), NEW n \in Nat
  PROVE  Whole(s, n) \in 0..Len(s) /\ Fits(s, n, Whole(s, n))
  BY FitsExists DEF Whole, Fits

-----------------------------------------------------------------------------
\* What an input may be: all of the bytes that were read or have arrived were sent.
InputOK(input) ==
    /\ input \in [stream : Seq(Packets), taken : Nat, arrived : 0..Window]
    /\ input.arrived + input.taken <= Bytes(input.stream)

\* Reading n bytes takes the whole packets off the stream.
LEMMA AfterTakes ==
  ASSUME InputOK(in), NEW n \in Nat
  PROVE  \E k \in 0..Len(in.stream) :
            /\ Fits(in.stream, in.taken + n, k)
            /\ After(n) = [stream  |-> SubSeq(in.stream, k + 1, Len(in.stream)),
                           taken   |-> in.taken + n - Upto(in.stream)[k],
                           arrived |-> in.arrived - n]
  <1> DEFINE k == Whole(in.stream, in.taken + n)
  <1>1. in.stream \in Seq(Packets) /\ in.taken + n \in Nat
    BY DEF InputOK
  <1>2. k \in 0..Len(in.stream) /\ Fits(in.stream, in.taken + n, k)
    BY <1>1, WholeFits
  <1>3. After(n) = [stream  |-> SubSeq(in.stream, k + 1, Len(in.stream)),
                    taken   |-> in.taken + n - Upto(in.stream)[k],
                    arrived |-> in.arrived - n]
    BY DEF After
  <1> QED
    BY <1>2, <1>3

\* It leaves an input.
LEMMA AfterOK ==
  ASSUME InputOK(in), NEW n \in 0..in.arrived
  PROVE  InputOK(After(n))
  <1>0. /\ in.stream \in Seq(Packets) /\ in.taken \in Nat /\ in.arrived \in 0..Window
        /\ in.arrived + in.taken <= Bytes(in.stream) /\ Window \in Nat /\ n \in Nat
    <2>1. /\ in.stream \in Seq(Packets) /\ in.taken \in Nat
          /\ in.arrived \in 0..Window /\ in.arrived + in.taken <= Bytes(in.stream)
      BY DEF InputOK
    <2>2. Window \in Nat
      BY WireAssumption DEF WireAssumption
    <2> QED
      BY <2>1, <2>2
  <1>1. PICK k \in 0..Len(in.stream) :
            /\ Fits(in.stream, in.taken + n, k)
            /\ After(n) = [stream  |-> SubSeq(in.stream, k + 1, Len(in.stream)),
                           taken   |-> in.taken + n - Upto(in.stream)[k],
                           arrived |-> in.arrived - n]
    BY <1>0, AfterTakes
  <1> DEFINE rest == SubSeq(in.stream, k + 1, Len(in.stream))
  <1>2. /\ rest \in Seq(Packets) /\ Upto(in.stream)[k] \in Nat
        /\ Bytes(in.stream) = Upto(in.stream)[k] + Bytes(rest)
    BY <1>0, BytesRest
  <1>3. Bytes(rest) \in Nat
    BY <1>2, BytesNat
  <1>4. Upto(in.stream)[k] <= in.taken + n
    BY <1>1 DEF Fits
  <1> HIDE DEF rest
  <1>5. in.taken + n - Upto(in.stream)[k] \in Nat
    BY <1>0, <1>2, <1>4
  <1>6. in.arrived - n \in 0..Window
    BY <1>0
  <1>7. (in.arrived - n) + (in.taken + n - Upto(in.stream)[k]) <= Bytes(rest)
    <2>1. in.arrived \in Int /\ in.taken \in Int /\ n \in Int
      BY <1>0
    <2>2. in.arrived + in.taken <= Upto(in.stream)[k] + Bytes(rest)
      BY <1>0, <1>2
    <2> QED
      BY <1>2, <1>3, <2>1, <2>2
  <1> QED
    BY <1>1, <1>2, <1>5, <1>6, <1>7 DEF InputOK, rest

\* Reading the whole of the first packet takes it off, and leaves the next one whole.
LEMMA AfterHead ==
  ASSUME InputOK(in), in.taken = 0, in.stream # <<>>
  PROVE  After(Size(Head(in.stream))) =
           [stream  |-> Tail(in.stream), taken |-> 0,
            arrived |-> in.arrived - Size(Head(in.stream))]
  <1> DEFINE s == in.stream
             n == Size(Head(s))
  <1>0. s \in Seq(Packets) /\ Len(s) \in Nat /\ Len(s) >= 1 /\ Head(s) = s[1]
    BY DEF InputOK
  <1>1. n \in Nat
    BY <1>0, PacketSize
  <1>2. Upto(s) \in [0..Len(s) -> Nat] /\ Upto(s)[1] = n
    <2>1. Upto(s)[1] = Upto(s)[1 - 1] + Size(s[1]) /\ Upto(s)[0] = 0
      BY <1>0, UptoStep
    <2> QED
      BY <1>0, <1>1, <2>1, UptoStep
  <1>3. Fits(s, n, 1)
    <2>1. 1 = Len(s) \/ n < Upto(s)[1 + 1]
      BY <1>0, <1>2, UptoGrows
    <2> QED
      BY <1>0, <1>1, <1>2, <2>1 DEF Fits
  <1>4. PICK k \in 0..Len(s) :
            /\ Fits(s, in.taken + n, k)
            /\ After(n) = [stream  |-> SubSeq(s, k + 1, Len(s)),
                           taken   |-> in.taken + n - Upto(s)[k],
                           arrived |-> in.arrived - n]
    BY <1>1, AfterTakes
  <1>5. in.taken + n = n
    BY <1>1
  <1>6. k = 1
    BY <1>0, <1>1, <1>3, <1>4, <1>5, FitsUnique
  <1>7. SubSeq(s, 2, Len(s)) = Tail(s)
    BY <1>0
  <1>8. in.taken + n - Upto(s)[k] = 0 /\ k + 1 = 2
    BY <1>1, <1>2, <1>5, <1>6
  <1> QED
    BY <1>4, <1>7, <1>8
=============================================================================
