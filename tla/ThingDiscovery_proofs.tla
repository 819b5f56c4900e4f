------------------------ MODULE ThingDiscovery_proofs -----------------------
(***************************************************************************)
(* Proofs about the CoAP codec, for all messages that fit into a datagram, *)
(* and about what is discovered with it, for all nodes and strays.         *)
(***************************************************************************)
EXTENDS ThingDiscovery, SequenceTheorems, FiniteSetTheorems,
        WellFoundedInduction, TLAPS

-----------------------------------------------------------------------------
(* Induction, with the statement as a set.                                 *)

(* Every non-empty set of naturals has a least element.                    *)
LEMMA LeastNat ==
  ASSUME NEW I \in SUBSET Nat, I # {}
  PROVE  \E i \in I : \A j \in I : i <= j
<1>. DEFINE T == {0 .. i : i \in I}
<1>1. T \subseteq FiniteSubsetsOf(Nat)
  <2>1. ASSUME NEW i \in I
        PROVE  IsFiniteSet(0 .. i) /\ 0 .. i \subseteq Nat
    BY FS_Interval
  <2>. QED
    BY <2>1 DEF FiniteSubsetsOf
<1>4. T # {}
  OBVIOUS
<1>2. \E S \in T : \A R \in T : <<R, S>> \notin StrictSubsetOrdering(Nat)
  BY <1>1, <1>4, FS_StrictSubsetOrderingWellFounded, WFMin, Zenon
<1>3. PICK i \in I : \A j \in I : <<0 .. j, 0 .. i>> \notin StrictSubsetOrdering(Nat)
  BY <1>2
<1>5. ASSUME NEW j \in I, j < i PROVE FALSE
  <2>. DEFINE A == 0 .. j
              B == 0 .. i
  <2>1. A \subseteq B /\ A # B /\ B \subseteq Nat
    BY <1>5
  <2>. HIDE DEF A, B
  <2>2. <<A, B>> \in StrictSubsetOrdering(Nat)
    BY <2>1 DEF StrictSubsetOrdering
  <2>. QED
    BY <1>3, <2>2 DEF A, B
<1>. QED
  BY <1>5

(* What holds at the first position, and at the next one wherever it       *)
(* holds, holds at all of them.                                            *)
LEMMA AllPositions ==
  ASSUME NEW a \in Nat, NEW b \in Nat, NEW S, a \in S,
         \A k \in a .. b - 1 : k \in S => k + 1 \in S
  PROVE  a .. b \subseteq S
<1>. DEFINE I == {k \in a .. b : k \notin S}
<1>. SUFFICES ASSUME I # {} PROVE FALSE
  OBVIOUS
<1>1. I \in SUBSET Nat
  OBVIOUS
<1>2. PICK k \in I : \A j \in I : k <= j
  BY <1>1, LeastNat
<1>3. k \in a + 1 .. b /\ k \in Nat
  OBVIOUS
<1>4. k - 1 \in S
  BY <1>2, <1>3
<1>5. k - 1 \in a .. b - 1 /\ (k - 1) + 1 = k
  BY <1>3
<1>. QED
  BY <1>4, <1>5

(* A solution of a recursion along positions.                              *)
IteratesTo(a, b, V, v, step, f) ==
  /\ f \in [a .. b -> V]
  /\ a <= b => f[a] = v
  /\ \A k \in a + 1 .. b : f[k] = step[k][f[k - 1]]


-----------------------------------------------------------------------------
(* Bytes at their place in the data.                                       *)

HoldsAt(data, p, s) ==
  /\ p + Len(s) <= Len(data) + 1
  /\ \A j \in 1 .. Len(s) : data[p + j - 1] = s[j]

(* Data that holds two sequences holds each of them.                       *)
LEMMA HoldsParts ==
  ASSUME NEW S, NEW data \in Seq(S), NEW p \in Nat \ {0},
         NEW a \in Seq(S), NEW b \in Seq(S), HoldsAt(data, p, a \o b)
  PROVE  HoldsAt(data, p, a) /\ HoldsAt(data, p + Len(a), b)
<1>1. /\ Len(a \o b) = Len(a) + Len(b) /\ Len(a) \in Nat /\ Len(b) \in Nat
      /\ Len(data) \in Nat
  BY ConcatProperties
<1>2. ASSUME NEW j \in 1 .. Len(a) PROVE data[p + j - 1] = a[j]
  <2>1. (a \o b)[j] = a[j] /\ j \in 1 .. Len(a \o b)
    BY <1>1, <1>2, ConcatProperties
  <2>. QED
    BY <2>1 DEF HoldsAt
<1>3. ASSUME NEW j \in 1 .. Len(b) PROVE data[p + Len(a) + j - 1] = b[j]
  <2>1. PICK i \in Nat : i = Len(a) + j
    BY <1>1
  <2>2. i \in 1 .. Len(a) + Len(b) /\ i > Len(a) /\ i - Len(a) = j
    BY <1>1, <2>1
  <2>3. (a \o b)[i] = b[j]
    BY <1>1, <2>2, ConcatProperties
  <2>4. data[p + i - 1] = b[j]
    BY <1>1, <2>2, <2>3 DEF HoldsAt
  <2>5. p + i - 1 = p + Len(a) + j - 1
    BY <1>1, <2>1
  <2>. QED
    BY <2>4, <2>5
<1>. QED
  BY <1>1, <1>2, <1>3 DEF HoldsAt

(* The part of the data that a sequence takes is this sequence.            *)
LEMMA HoldsSubSeq ==
  ASSUME NEW S, NEW data \in Seq(S), NEW p \in Nat \ {0}, NEW s \in Seq(S),
         HoldsAt(data, p, s)
  PROVE  SubSeq(data, p, p + Len(s) - 1) = s
<1>1. Len(data) \in Nat /\ Len(s) \in Nat
  BY LenProperties
<1>. DEFINE q == p + Len(s) - 1
<1>2. q \in Int /\ q = p + Len(s) - 1
  BY <1>1
<1>. HIDE DEF q
<1>3. ASSUME NEW j \in p .. q PROVE data[j] \in S
  <2>1. j \in 1 .. Len(data)
    BY <1>1, <1>2 DEF HoldsAt
  <2>. QED
    BY <2>1, ElementOfSeq
<1>. DEFINE t == SubSeq(data, p, q)
<1>4. /\ t \in Seq(S)
      /\ Len(t) = IF p <= q THEN q - p + 1 ELSE 0
      /\ \A i \in 1 .. q - p + 1 : t[i] = data[p + i - 1]
  <2>1. p \in Int
    OBVIOUS
  <2>2. \A j \in p .. q : data[j] \in S
    BY <1>3
  <2>3. SubSeq(data, p, q) \in Seq(S)
    BY <1>2, <2>1, <2>2, SubSeqProperties
  <2>4. Len(SubSeq(data, p, q)) = IF p <= q THEN q - p + 1 ELSE 0
    BY <1>2, <2>1, <2>2, SubSeqProperties
  <2>5. \A i \in 1 .. q - p + 1 : SubSeq(data, p, q)[i] = data[p + i - 1]
    BY <1>2, <2>1, <2>2, SubSeqProperties
  <2>. QED
    BY <2>3, <2>4, <2>5
<1>. HIDE DEF t
<1>5. Len(t) = Len(s) /\ q - p + 1 = Len(s)
  BY <1>1, <1>2, <1>4
<1>6. \A i \in 1 .. Len(t) : t[i] = s[i]
  BY <1>4, <1>5 DEF HoldsAt
<1>7. t = s
  BY <1>4, <1>5, <1>6, SeqEqual
<1>. QED
  BY <1>7 DEF t, q

-----------------------------------------------------------------------------
(* Numbers of options and lengths of values.                               *)

(* What 16 bits and what 8 bits hold.                                      *)
LEMMA WordIs == \A x : x \in Word <=> x \in Nat /\ x < 65536
<1>. PICK m \in Nat : m = MaxWord /\ m + 1 = 65536
  BY DEF MaxWord
<1>. QED
  BY DEF Word

LEMMA ByteIs == \A x : x \in Byte <=> x \in Nat /\ x < 256
<1>. PICK m \in Nat : m = MaxByte /\ m + 1 = 256
  BY DEF MaxByte
<1>. QED
  BY DEF Byte

(* High and low byte.                                                      *)
LEMMA TwoBytes ==
  ASSUME NEW x \in Word
  PROVE  /\ x \div 256 \in Byte /\ (x % 256) \in Byte
         /\ x = (x \div 256) * 256 + (x % 256)
<1>1. /\ x \div 256 \in Nat /\ (x % 256) \in Nat /\ (x % 256) < 256
      /\ x = (x \div 256) * 256 + (x % 256)
  BY WordIs, SMT
<1>2. x \div 256 < 256
  BY <1>1, WordIs, SMT
<1>. QED
  BY <1>1, <1>2, ByteIs

(* A number of 16 bits, and those that differ from it by a wrap.           *)
LEMMA Wraps ==
  ASSUME NEW x \in Word
  PROVE  /\ U16(x) = x
         /\ \A y \in Int : y = x + 65536 => U16(y) = x
         /\ \A y \in Int : y = x - 65536 => U16(y) = x
<1>1. MaxWord + 1 = 65536
  BY DEF MaxWord
<1>2. x \in Nat /\ x < 65536
  BY WordIs
<1>. QED
  BY <1>1, <1>2, SMT DEF U16

(* What encode_extended makes of a number: a nibble that is not reserved   *)
(* and as many bytes as the nibble says.                                   *)
LEMMA ExtendedIs ==
  ASSUME NEW x \in Word
  PROVE  /\ Extended(x).nibble \in 0 .. 14
         /\ Extended(x).bytes \in Bytes
         /\ Len(Extended(x).bytes) = ExtraBytes(Extended(x).nibble)
<1>1. CASE x < 13
  <2>1. Extended(x) = [nibble |-> x, bytes |-> <<>>]
    BY <1>1 DEF Extended
  <2>. QED
    BY <1>1, <2>1, WordIs, SMT DEF Bytes, ExtraBytes
<1>2. CASE ~(x < 13) /\ x < 269
  <2>1. Extended(x) = [nibble |-> 13, bytes |-> <<x - 13>>]
    BY <1>2 DEF Extended
  <2>2. x - 13 \in Byte
    BY <1>2, WordIs, ByteIs, SMT
  <2>. QED
    BY <2>1, <2>2, SMT DEF Bytes, ExtraBytes
<1>3. CASE ~(x < 13) /\ ~(x < 269)
  <2>. DEFINE h == (x - 269) \div 256
              l == (x - 269) % 256
  <2>1. Extended(x) = [nibble |-> 14, bytes |-> <<h, l>>]
    BY <1>3 DEF Extended
  <2>2. x - 269 \in Word
    BY <1>3, WordIs, SMT
  <2>3. h \in Byte /\ l \in Byte
    BY <2>2, TwoBytes
  <2>. HIDE DEF h, l
  <2>. QED
    BY <2>1, <2>3, SMT DEF Bytes, ExtraBytes
<1>. QED
  BY <1>1, <1>2, <1>3

(* decode reads the number that encode_extended wrote.                     *)
LEMMA NumberIs ==
  ASSUME NEW data \in Bytes, NEW at \in Nat \ {0}, NEW x \in Word,
         HoldsAt(data, at, Extended(x).bytes)
  PROVE  Number(data, Extended(x).nibble, at) = x
<1>1. CASE x < 13
  BY <1>1 DEF Extended, Number
<1>2. CASE ~(x < 13) /\ x < 269
  <2>1. Extended(x) = [nibble |-> 13, bytes |-> <<x - 13>>]
    BY <1>2 DEF Extended
  <2>2. data[at + 1 - 1] = x - 13
    BY <2>1 DEF HoldsAt
  <2>3. data[at] = x - 13
    BY <2>2
  <2>4. Number(data, 13, at) = 13 + data[at]
    BY DEF Number
  <2>5. 13 + (x - 13) = x
    BY WordIs, SMT
  <2>. QED
    BY <2>1, <2>3, <2>4, <2>5
<1>3. CASE ~(x < 13) /\ ~(x < 269)
  <2>. DEFINE h == (x - 269) \div 256
              l == (x - 269) % 256
  <2>1. Extended(x) = [nibble |-> 14, bytes |-> <<h, l>>]
    BY <1>3 DEF Extended
  <2>2. h \in Nat /\ l \in Nat /\ (h * 256) + l = x - 269
    <3>1. x - 269 \in Word
      BY <1>3, WordIs, SMT
    <3>. QED
      BY <3>1, TwoBytes, ByteIs
  <2>. HIDE DEF h, l
  <2>3. data[at + 1 - 1] = h /\ data[at + 2 - 1] = l
    BY <2>1 DEF HoldsAt
  <2>4. data[at] = h /\ data[at + 1] = l
    BY <2>3
  <2>5. Number(data, 14, at) = U16(269 + h * 256 + l)
    BY <2>4 DEF Number
  <2>6. 269 + h * 256 + l = x
    BY <2>2, WordIs, SMT
  <2>7. U16(x) = x
    BY Wraps
  <2>. QED
    BY <2>1, <2>5, <2>6, <2>7
<1>. QED
  BY <1>1, <1>2, <1>3

(* Adding to a number what it lacks to another one gives that, though both *)
(* wrap.                                                                   *)
LEMMA DeltaLeadsBack ==
  ASSUME NEW a \in Word, NEW k \in Word
  PROVE  U16(k - a) \in Word /\ U16(a + U16(k - a)) = k
<1>1. CASE k >= a
  <2>1. PICK d \in Word : d = k - a /\ a + d = k
    BY <1>1, WordIs, SMT
  <2>2. U16(d) = d /\ U16(k) = k
    BY <2>1, Wraps
  <2>. QED
    BY <2>1, <2>2
<1>2. CASE k < a
  <2>1. PICK d \in Word : d = k - a + 65536
    BY <1>2, WordIs, SMT
  <2>2. PICK y \in Int : y = k - a
    BY WordIs, SMT
  <2>3. PICK z \in Int : z = a + d
    BY WordIs, SMT
  <2>4. y = d - 65536 /\ z = k + 65536
    BY <2>1, <2>2, <2>3, WordIs, SMT
  <2>5. U16(y) = d
    BY <2>1, <2>4, Wraps
  <2>6. U16(z) = k
    BY <2>4, Wraps
  <2>. QED
    BY <2>1, <2>2, <2>3, <2>5, <2>6
<1>3. k \in Int /\ a \in Int
  BY WordIs
<1>. QED
  BY <1>1, <1>2, <1>3

-----------------------------------------------------------------------------
(* An option.                                                              *)

(* The first byte of an option, its nibbles, and that it is no marker.     *)
HasNibbles(x, d, l) == x \in Byte /\ x # 255 /\ x \div 16 = d /\ x % 16 = l

LEMMA NibblesOf ==
  ASSUME NEW d \in 0 .. 14, NEW l \in 0 .. 14
  PROVE  HasNibbles(d * 16 + l, d, l)
BY ByteIs, SMT DEF HasNibbles

(* The parts an option is encoded to: the head, what extends the number    *)
(* and the length, and the value.                                          *)
HasParts(encoded, d, l, value) ==
  /\ encoded = <<d.nibble * 16 + l.nibble>> \o d.bytes \o l.bytes \o value
  /\ d.nibble \in 0 .. 14 /\ l.nibble \in 0 .. 14
  /\ d.bytes \in Bytes /\ l.bytes \in Bytes
  /\ Len(d.bytes) = ExtraBytes(d.nibble)
  /\ Len(l.bytes) = ExtraBytes(l.nibble)
  /\ <<d.nibble * 16 + l.nibble>> \in Bytes

IsOption(o) == o.key \in Word /\ o.value \in Bytes /\ Len(o.value) \in Word

LEMMA EncodedOptionIs ==
  ASSUME NEW previous \in Word, NEW o, IsOption(o)
  PROVE  HasParts(EncodedOption(previous, o), Extended(U16(o.key - previous)),
                  Extended(Len(o.value)), o.value)
<1>. USE DEF IsOption
<1>. DEFINE d == Extended(U16(o.key - previous))
            l == Extended(Len(o.value))
<1>1. U16(o.key - previous) \in Word
  BY DeltaLeadsBack
<1>3. U16(Len(o.value)) = Len(o.value)
  BY Wraps
<1>4. d.nibble \in 0 .. 14 /\ d.bytes \in Bytes /\ Len(d.bytes) = ExtraBytes(d.nibble)
  BY <1>1, ExtendedIs
<1>5. l.nibble \in 0 .. 14 /\ l.bytes \in Bytes /\ Len(l.bytes) = ExtraBytes(l.nibble)
  BY ExtendedIs
<1>6. EncodedOption(previous, o)
        = <<d.nibble * 16 + l.nibble>> \o d.bytes \o l.bytes \o o.value
  BY <1>3, Zenon DEF EncodedOption
<1>7. d.nibble * 16 + l.nibble \in Byte
  BY <1>4, <1>5, NibblesOf DEF HasNibbles
<1>8. <<d.nibble * 16 + l.nibble>> \in Bytes
  BY <1>7 DEF Bytes
<1>. HIDE DEF d, l
<1>. QED
  BY <1>4, <1>5, <1>6, <1>8 DEF HasParts, d, l

(* Where data holds four sequences one after the other.                    *)
HoldsEach(data, p, a, b, c, e) ==
  /\ HoldsAt(data, p, a)
  /\ HoldsAt(data, p + Len(a), b)
  /\ HoldsAt(data, p + Len(a) + Len(b), c)
  /\ HoldsAt(data, p + Len(a) + Len(b) + Len(c), e)
  /\ Len(a \o b \o c \o e) = Len(a) + Len(b) + Len(c) + Len(e)

LEMMA HoldsFour ==
  ASSUME NEW S, NEW data \in Seq(S), NEW p \in Nat \ {0},
         NEW a \in Seq(S), NEW b \in Seq(S), NEW c \in Seq(S), NEW e \in Seq(S),
         HoldsAt(data, p, a \o b \o c \o e)
  PROVE  HoldsEach(data, p, a, b, c, e)
<1>. DEFINE ab == a \o b
            abc == ab \o c
<1>1. ab \in Seq(S) /\ Len(ab) = Len(a) + Len(b)
  BY ConcatProperties
<1>2. abc \in Seq(S) /\ Len(abc) = Len(ab) + Len(c)
  BY <1>1, ConcatProperties
<1>3. abc \o e \in Seq(S) /\ Len(abc \o e) = Len(abc) + Len(e)
  BY <1>2, ConcatProperties
<1>4. HoldsAt(data, p, abc) /\ HoldsAt(data, p + Len(abc), e)
  <2>. HIDE DEF abc
  <2>. QED
    BY <1>2, HoldsParts DEF abc
<1>5. HoldsAt(data, p, ab) /\ HoldsAt(data, p + Len(ab), c)
  <2>. HIDE DEF ab
  <2>. QED
    BY <1>1, <1>4, HoldsParts
<1>6. HoldsAt(data, p, a) /\ HoldsAt(data, p + Len(a), b)
  BY <1>5, HoldsParts
<1>7. Len(a) \in Nat /\ Len(b) \in Nat /\ Len(c) \in Nat
  BY LenProperties
<1>8. /\ p + Len(ab) = p + Len(a) + Len(b)
      /\ p + Len(abc) = p + Len(a) + Len(b) + Len(c)
  BY <1>1, <1>2, <1>7
<1>. HIDE DEF ab, abc
<1>. QED
  BY <1>1, <1>2, <1>3, <1>4, <1>5, <1>6, <1>8 DEF ab, abc, HoldsEach

(* decode reads the option that stands there, and what comes next.         *)
LEMMA OptionAtIs ==
  ASSUME NEW data \in Bytes, NEW p \in Nat \ {0},
         NEW previous \in Word, NEW o, IsOption(o),
         HoldsAt(data, p, EncodedOption(previous, o))
  PROVE  /\ OptionAt(data, p) = [delta |-> U16(o.key - previous), value |-> o.value,
                                 next |-> p + Len(EncodedOption(previous, o))]
         /\ data[p] # PayloadMarker
         /\ p <= Len(data)
         /\ Len(EncodedOption(previous, o)) \in Nat \ {0}
<1>. USE DEF IsOption
<1>. DEFINE x == U16(o.key - previous)
            y == Len(o.value)
            d == Extended(x)
            l == Extended(y)
            dn == d.nibble
            db == d.bytes
            ln == l.nibble
            lb == l.bytes
            h == <<dn * 16 + ln>>
            e == EncodedOption(previous, o)
<1>1. /\ e = h \o db \o lb \o o.value
      /\ dn \in 0 .. 14 /\ ln \in 0 .. 14
      /\ db \in Bytes /\ lb \in Bytes /\ h \in Bytes
      /\ Len(db) = ExtraBytes(dn) /\ Len(lb) = ExtraBytes(ln)
  <2>1. HasParts(e, d, l, o.value)
    BY EncodedOptionIs
  <2>. QED
    BY <2>1 DEF HasParts
<1>2. x \in Word /\ y \in Word /\ y \in Nat
  BY DeltaLeadsBack, WordIs
<1>. HIDE DEF x, y, d, l
<1>3. Len(h) = 1 /\ h[1] = dn * 16 + ln
  OBVIOUS
<1>. HIDE DEF dn, db, ln, lb, h
<1>4. /\ HoldsAt(data, p, h)
      /\ HoldsAt(data, p + Len(h), db)
      /\ HoldsAt(data, p + Len(h) + Len(db), lb)
      /\ HoldsAt(data, p + Len(h) + Len(db) + Len(lb), o.value)
      /\ Len(e) = Len(h) + Len(db) + Len(lb) + Len(o.value)
  <2>1. HoldsAt(data, p, h \o db \o lb \o o.value)
    BY <1>1
  <2>2. HoldsEach(data, p, h, db, lb, o.value)
    BY <1>1, <2>1, HoldsFour DEF Bytes
  <2>. QED
    BY <1>1, <2>2 DEF HoldsEach
<1>. HIDE DEF e
<1>5. ExtraBytes(dn) \in Nat /\ ExtraBytes(ln) \in Nat /\ Len(data) \in Nat
  BY <1>1, LenProperties DEF ExtraBytes, Bytes
<1>6. data[p] = dn * 16 + ln
  <2>1. data[p + 1 - 1] = h[1]
    BY <1>3, <1>4 DEF HoldsAt
  <2>. QED
    BY <1>3, <2>1
<1>7. data[p] # 255 /\ data[p] \div 16 = dn /\ data[p] % 16 = ln
  <2>1. HasNibbles(data[p], dn, ln)
    BY <1>1, <1>6, NibblesOf
  <2>. QED
    BY <2>1 DEF HasNibbles
<1>. DEFINE atLength == p + 1 + ExtraBytes(dn)
            atValue == atLength + ExtraBytes(ln)
<1>8. /\ p + Len(h) = p + 1
      /\ p + Len(h) + Len(db) = atLength
      /\ p + Len(h) + Len(db) + Len(lb) = atValue
      /\ atLength \in Nat \ {0} /\ atValue \in Nat \ {0} /\ p + 1 \in Nat \ {0}
      /\ p + Len(e) = atValue + y
      /\ Len(e) \in Nat \ {0}
  <2>. DEFINE a == ExtraBytes(dn)
              b == ExtraBytes(ln)
  <2>1. Len(h) = 1 /\ Len(db) = a /\ Len(lb) = b /\ Len(e) = 1 + a + b + y
    BY <1>1, <1>3, <1>4 DEF y
  <2>2. a \in Nat /\ b \in Nat
    BY <1>5
  <2>3. atLength = p + 1 + a /\ atValue = p + 1 + a + b
    BY DEF a, b
  <2>. HIDE DEF a, b, atLength, atValue
  <2>. QED
    BY <1>2, <2>1, <2>2, <2>3
<1>9. /\ HoldsAt(data, p + 1, db)
      /\ HoldsAt(data, atLength, lb)
      /\ HoldsAt(data, atValue, o.value)
  BY <1>4, <1>8
<1>. HIDE DEF atLength, atValue
<1>10. Number(data, dn, p + 1) = x
  BY <1>2, <1>8, <1>9, NumberIs DEF dn, db, d
<1>11. Number(data, ln, atLength) = y
  BY <1>2, <1>8, <1>9, NumberIs DEF ln, lb, l
<1>12. SubSeq(data, atValue, atValue + y - 1) = o.value
  BY <1>8, <1>9, HoldsSubSeq DEF y, Bytes
<1>13. atValue + y <= Len(data) + 1
  BY <1>9 DEF HoldsAt, y
<1>14. dn # 15 /\ ln # 15 /\ atValue <= Len(data) + 1
  <2>1. dn # 15 /\ ln # 15
    BY <1>1
  <2>. QED
    BY <1>2, <1>5, <1>8, <1>13, <2>1
<1>15. OptionAt(data, p) = [delta |-> x, value |-> o.value, next |-> atValue + y]
  <2>1. OptionAt(data, p) =
          IF dn = 15 \/ ln = 15 \/ atValue > Len(data) + 1 THEN Invalid
          ELSE IF atValue + Number(data, ln, atLength) > Len(data) + 1 THEN Invalid
          ELSE [delta |-> Number(data, dn, p + 1),
                value |-> SubSeq(data, atValue, atValue + Number(data, ln, atLength) - 1),
                next |-> atValue + Number(data, ln, atLength)]
    BY <1>7, Zenon DEF OptionAt, atLength, atValue
  <2>2. ~(atValue > Len(data) + 1) /\ ~(atValue + y > Len(data) + 1)
    <3>. HIDE DEF atLength, atValue
    <3>. QED
      BY <1>2, <1>5, <1>8, <1>13
  <2>. QED
    BY <1>10, <1>11, <1>12, <1>14, <2>1, <2>2, Zenon
<1>16. p <= Len(data)
  BY <1>3, <1>4, <1>5 DEF HoldsAt
<1>. QED
  BY <1>7, <1>8, <1>15, <1>16 DEF PayloadMarker, x, e

-----------------------------------------------------------------------------
(* Options one after the other.                                            *)

(* The recursion of FlattenSeq.                                            *)
FlattensTo(seqs, f) ==
  f = [i \in 1 .. Len(seqs) |-> IF i = 1 THEN seqs[i] ELSE f[i - 1] \o seqs[i]]

LEMMA FlattenExists ==
  ASSUME NEW S, NEW seqs \in Seq(Seq(S)), Len(seqs) # 0
  PROVE  \E f : FlattensTo(seqs, f)
<1>. DEFINE n == Len(seqs)
            Upto(m, f) ==
              f = [i \in 1 .. m |-> IF i = 1 THEN seqs[i] ELSE f[i - 1] \o seqs[i]]
            K == {m \in 1 .. n : \E f : Upto(m, f)}
<1>0. n \in Nat /\ 1 \in Nat /\ 1 \in 1 .. n
  BY LenProperties
<1>1. 1 \in K
  <2>1. Upto(1, [i \in 1 .. 1 |-> seqs[i]])
    OBVIOUS
  <2>. HIDE DEF Upto
  <2>. QED
    BY <1>0, <2>1
<1>2. ASSUME NEW m \in 1 .. n - 1, m \in K PROVE m + 1 \in K
  <2>1. PICK f : Upto(m, f)
    BY <1>2
  <2>. DEFINE g == [i \in 1 .. m + 1 |-> IF i <= m THEN f[i] ELSE f[m] \o seqs[m + 1]]
  <2>2. ASSUME NEW i \in 1 .. m + 1
        PROVE  g[i] = IF i = 1 THEN seqs[i] ELSE g[i - 1] \o seqs[i]
    <3>1. i # 1 => i - 1 \in 1 .. m /\ g[i - 1] = f[i - 1]
      BY <1>0, <2>2
    <3>2. CASE i = m + 1
      BY <1>0, <3>1, <3>2
    <3>3. CASE i \in 1 .. m
      <4>1. g[i] = f[i]
        BY <1>0, <3>3
      <4>2. f[i] = IF i = 1 THEN seqs[i] ELSE f[i - 1] \o seqs[i]
        BY <2>1, <3>3
      <4>. QED
        BY <3>1, <4>1, <4>2
    <3>. QED
      BY <1>0, <2>2, <3>2, <3>3
  <2>3. Upto(m + 1, g)
    BY <2>2
  <2>4. m + 1 \in 1 .. n
    BY <1>0
  <2>. HIDE DEF Upto, g
  <2>. QED
    BY <2>3, <2>4
<1>3. 1 .. n \subseteq K
  <2>. HIDE DEF K, n
  <2>. QED
    BY <1>0, <1>1, <1>2, AllPositions
<1>4. n \in K
  <2>1. n \in 1 .. n
    BY <1>0
  <2>. HIDE DEF K, n
  <2>. QED
    BY <1>3, <2>1
<1>5. PICK f : Upto(n, f)
  BY <1>4
<1>. QED
  BY <1>5 DEF FlattensTo

(* The sequence that is flattened step by step.                            *)
Flattened(S, seqs, f) ==
  /\ f[1] = seqs[1]
  /\ \A i \in 2 .. Len(seqs) : f[i] = f[i - 1] \o seqs[i]
  /\ \A i \in 1 .. Len(seqs) : f[i] \in Seq(S)
  /\ FlattenSeq(seqs) = f[Len(seqs)]

LEMMA FlattenIs ==
  ASSUME NEW S, NEW seqs \in Seq(Seq(S)), Len(seqs) # 0
  PROVE  \E f : Flattened(S, seqs, f)
<1>. DEFINE n == Len(seqs)
            f == CHOOSE f : FlattensTo(seqs, f)
<1>0. n \in Nat /\ \A i \in 1 .. n : seqs[i] \in Seq(S)
  BY LenProperties, ElementOfSeq
<1>1. FlattensTo(seqs, f)
  BY FlattenExists
<1>2. FlattenSeq(seqs) = f[n]
  BY Zenon DEF FlattenSeq, FlattensTo
<1>. HIDE DEF f, n
<1>3. /\ 1 \in 1 .. n /\ f[1] = seqs[1]
      /\ \A i \in 2 .. n : f[i] = f[i - 1] \o seqs[i]
  <2>1. 1 \in 1 .. n /\ \A i \in 2 .. n : i \in 1 .. n /\ i # 1
    BY <1>0 DEF n
  <2>2. \A i \in 1 .. n : f[i] = IF i = 1 THEN seqs[i] ELSE f[i - 1] \o seqs[i]
    BY <1>1 DEF FlattensTo, n
  <2>. QED
    BY <2>1, <2>2
<1>4. \A i \in 1 .. n : f[i] \in Seq(S)
  <2>. DEFINE K == {i \in 1 .. n : f[i] \in Seq(S)}
  <2>1. 1 \in K
    BY <1>0, <1>3
  <2>2. ASSUME NEW i \in 1 .. n - 1, i \in K PROVE i + 1 \in K
    <3>1. i + 1 \in 2 .. n /\ i + 1 \in 1 .. n /\ (i + 1) - 1 = i
      BY <1>0
    <3>2. f[i + 1] = f[i] \o seqs[i + 1]
      BY <1>3, <3>1
    <3>3. f[i] \in Seq(S) /\ seqs[i + 1] \in Seq(S)
      BY <1>0, <2>2, <3>1
    <3>. QED
      BY <3>1, <3>2, <3>3, ConcatProperties
  <2>3. 1 .. n \subseteq K
    <3>. HIDE DEF K
    <3>. QED
      BY <1>0, <2>1, <2>2, AllPositions
  <2>. QED
    BY <2>3
<1>5. Flattened(S, seqs, f)
  BY <1>2, <1>3, <1>4 DEF Flattened, n
<1>. QED
  BY <1>5

LEMMA FlattenIsSeq ==
  ASSUME NEW S, NEW seqs \in Seq(Seq(S))
  PROVE  FlattenSeq(seqs) \in Seq(S)
<1>1. CASE Len(seqs) = 0
  <2>1. seqs = <<>> /\ FlattenSeq(seqs) = seqs
    BY <1>1, EmptySeq DEF FlattenSeq
  <2>. QED
    BY <2>1, EmptySeq
<1>2. CASE Len(seqs) # 0
  <2>1. PICK f : Flattened(S, seqs, f)
    BY <1>2, FlattenIs
  <2>2. Len(seqs) \in 1 .. Len(seqs)
    BY <1>2, LenProperties
  <2>. QED
    BY <2>1, <2>2 DEF Flattened
<1>. QED
  BY <1>1, <1>2

(* The places of sequences that stand one after the other from p.          *)
Lined(data, seqs, p, P) ==
  /\ P \in [0 .. Len(seqs) -> Nat \ {0}]
  /\ P[0] = p
  /\ P[Len(seqs)] = p + Len(FlattenSeq(seqs))
  /\ \A i \in 1 .. Len(seqs) :
       P[i] = P[i - 1] + Len(seqs[i]) /\ HoldsAt(data, P[i - 1], seqs[i])

(* Data that holds what some sequences are flattened to holds them one     *)
(* after the other.                                                        *)
LEMMA HoldsFlattened ==
  ASSUME NEW S, NEW data \in Seq(S), NEW seqs \in Seq(Seq(S)), NEW p \in Nat \ {0},
         HoldsAt(data, p, FlattenSeq(seqs))
  PROVE  \E P : Lined(data, seqs, p, P)
<1>. DEFINE n == Len(seqs)
<1>0. n \in Nat /\ \A i \in 1 .. n : seqs[i] \in Seq(S)
  BY LenProperties, ElementOfSeq
<1>1. CASE n = 0
  <2>1. seqs = <<>> /\ FlattenSeq(seqs) = seqs
    BY <1>1, EmptySeq DEF FlattenSeq
  <2>2. Lined(data, seqs, p, [i \in 0 .. 0 |-> p])
    BY <1>1, <2>1, EmptySeq DEF Lined
  <2>. QED
    BY <2>2
<1>2. CASE n # 0
  <2>1. PICK f : Flattened(S, seqs, f)
    BY <1>2, FlattenIs
  <2>2. FlattenSeq(seqs) = f[n]
    BY <2>1 DEF Flattened
  <2>. HIDE DEF n
  <2>3. /\ 1 \in 1 .. n /\ f[1] = seqs[1]
        /\ \A i \in 2 .. n : f[i] = f[i - 1] \o seqs[i]
    <3>1. 1 \in 1 .. n
      BY <1>0, <1>2
    <3>. QED
      BY <2>1, <3>1 DEF Flattened, n
  <2>4. \A i \in 1 .. n : f[i] \in Seq(S)
    BY <2>1 DEF Flattened, n
  <2>5. \A i \in 1 .. n : HoldsAt(data, p, f[i])
    <3>. DEFINE K == {k \in 0 .. n - 1 : HoldsAt(data, p, f[n - k])}
    <3>1. 0 \in K
      BY <1>0, <1>2, <2>2
    <3>2. ASSUME NEW k \in 0 .. (n - 1) - 1, k \in K PROVE k + 1 \in K
      <4>. DEFINE i == n - k
      <4>1. i \in 2 .. n /\ i - 1 \in 1 .. n /\ n - (k + 1) = i - 1 /\ k + 1 \in 0 .. n - 1
        BY <1>0
      <4>2. HoldsAt(data, p, f[i])
        BY <3>2
      <4>. HIDE DEF i
      <4>3. f[i] = f[i - 1] \o seqs[i]
        BY <2>3, <4>1
      <4>4. f[i - 1] \in Seq(S) /\ seqs[i] \in Seq(S)
        BY <1>0, <2>4, <4>1
      <4>5. HoldsAt(data, p, f[i - 1])
        BY <4>2, <4>3, <4>4, HoldsParts
      <4>. QED
        BY <4>1, <4>5
    <3>3. 0 .. n - 1 \subseteq K
      <4>1. n - 1 \in Nat /\ 0 \in Nat
        BY <1>0, <1>2
      <4>. HIDE DEF K
      <4>. QED
        BY <3>1, <3>2, <4>1, AllPositions
    <3>. SUFFICES ASSUME NEW i \in 1 .. n PROVE HoldsAt(data, p, f[i])
      OBVIOUS
    <3>4. n - i \in 0 .. n - 1 /\ n - (n - i) = i
      BY <1>0
    <3>. QED
      BY <3>3, <3>4
  <2>. DEFINE P == [i \in 0 .. n |-> IF i = 0 THEN p ELSE p + Len(f[i])]
  <2>6. P \in [0 .. n -> Nat \ {0}] /\ P[0] = p /\ P[n] = p + Len(f[n])
    <3>1. \A i \in 1 .. n : Len(f[i]) \in Nat
      BY <2>4, LenProperties
    <3>. QED
      BY <1>0, <1>2, <3>1
  <2>7. ASSUME NEW i \in 1 .. n
        PROVE  P[i] = P[i - 1] + Len(seqs[i]) /\ HoldsAt(data, P[i - 1], seqs[i])
    <3>1. CASE i = 1
      BY <1>0, <2>3, <2>5, <3>1
    <3>2. CASE i # 1
      <4>1. i \in 2 .. n /\ i - 1 \in 1 .. n /\ i - 1 # 0 /\ i - 1 \in 0 .. n /\ i \in 0 .. n
        BY <1>0, <3>2
      <4>2. f[i] = f[i - 1] \o seqs[i] /\ f[i - 1] \in Seq(S) /\ seqs[i] \in Seq(S)
        BY <1>0, <2>3, <2>4, <4>1
      <4>3. Len(f[i]) = Len(f[i - 1]) + Len(seqs[i])
        BY <4>2, ConcatProperties
      <4>4. HoldsAt(data, p, f[i - 1] \o seqs[i])
        BY <2>5, <4>2
      <4>5. HoldsAt(data, p + Len(f[i - 1]), seqs[i])
        BY <4>2, <4>4, HoldsParts
      <4>6. P[i] = p + Len(f[i]) /\ P[i - 1] = p + Len(f[i - 1])
        BY <4>1
      <4>7. Len(f[i - 1]) \in Nat /\ Len(seqs[i]) \in Nat
        BY <4>2, LenProperties
      <4>8. p + Len(f[i]) = (p + Len(f[i - 1])) + Len(seqs[i])
        <5>. DEFINE a == Len(f[i - 1])
                    b == Len(seqs[i])
        <5>1. Len(f[i]) = a + b /\ a \in Nat /\ b \in Nat
          BY <4>3, <4>7
        <5>. HIDE DEF a, b
        <5>2. p + (a + b) = (p + a) + b
          BY <5>1, SMT
        <5>. QED
          BY <5>1, <5>2, Zenon DEF a, b
      <4>. HIDE DEF P
      <4>. QED
        BY <4>5, <4>6, <4>8, Zenon
    <3>. QED
      BY <3>1, <3>2
  <2>8. Lined(data, seqs, p, P)
    <3>. HIDE DEF P
    <3>. QED
      BY <2>2, <2>6, <2>7 DEF Lined, n
  <2>. QED
    BY <2>8
<1>. QED
  BY <1>1, <1>2

-----------------------------------------------------------------------------
(* The loop over the options.                                              *)

(* The functions of OptionsFrom.                                           *)
RoundOf(data) ==
  [s \in Reading \cup {Invalid} |->
     IF s = Invalid \/ s.at > Len(data) \/ data[s.at] = PayloadMarker THEN s
     ELSE IF OptionAt(data, s.at) = Invalid THEN Invalid
          ELSE [at |-> OptionAt(data, s.at).next,
                number |-> U16(s.number + OptionAt(data, s.at).delta),
                options |-> Append(s.options,
                              [key |-> U16(s.number + OptionAt(data, s.at).delta),
                               value |-> OptionAt(data, s.at).value])]]

Start(p) == [at |-> p, number |-> 0, options |-> <<>>]

Rounds(data, p, f) ==
  f = [k \in 0 .. Len(data) |-> IF k = 0 THEN Start(p) ELSE RoundOf(data)[f[k - 1]]]

(* The loop ends with the state that a round leaves as it is.              *)
LEMMA LoopEnds ==
  ASSUME NEW data, Len(data) \in Nat, NEW p, NEW f, Rounds(data, p, f),
         NEW r \in 0 .. Len(data), RoundOf(data)[f[r]] = f[r],
         \A k \in 0 .. Len(data) : RoundOf(data)[f[k]] = f[k] => f[k] = f[r]
  PROVE  OptionsFrom(data, p) = f[r]
<1>. DEFINE After == CHOOSE g : Rounds(data, p, g)
            rounds == CHOOSE k \in 0 .. Len(data) : RoundOf(data)[After[k]] = After[k]
            n == Len(data)
<1>1. OptionsFrom(data, p) = After[rounds]
  BY Zenon DEF OptionsFrom, RoundOf, Rounds, Start
<1>2. Rounds(data, p, After)
  OBVIOUS
<1>. HIDE DEF After
<1>3. \A k \in 0 .. n : After[k] = f[k]
  <2>. DEFINE K == {k \in 0 .. n : After[k] = f[k]}
  <2>1. 0 \in K
    BY <1>2 DEF Rounds
  <2>2. ASSUME NEW k \in 0 .. n - 1, k \in K PROVE k + 1 \in K
    <3>1. k + 1 \in 0 .. n /\ k + 1 # 0 /\ (k + 1) - 1 = k
      OBVIOUS
    <3>2. After[k + 1] = RoundOf(data)[After[k]] /\ f[k + 1] = RoundOf(data)[f[k]]
      BY <1>2, <3>1 DEF Rounds
    <3>. QED
      BY <2>2, <3>1, <3>2
  <2>3. 0 .. n \subseteq K
    <3>. HIDE DEF K, n
    <3>1. n \in Nat /\ 0 \in Nat
      BY DEF n
    <3>. QED
      BY <2>1, <2>2, <3>1, AllPositions
  <2>. QED
    BY <2>3
<1>4. rounds \in 0 .. n /\ RoundOf(data)[After[rounds]] = After[rounds]
  <2>1. \E k \in 0 .. Len(data) : RoundOf(data)[After[k]] = After[k]
    BY <1>3
  <2>. QED
    BY <2>1
<1>. HIDE DEF rounds
<1>. QED
  BY <1>1, <1>3, <1>4

(* The number that an option is encoded relative to.                       *)
Previous(options, i) == IF i = 1 THEN 0 ELSE options[i - 1].key

Encoded(options) ==
  [i \in DOMAIN options |-> EncodedOption(Previous(options, i), options[i])]

(* What has been read after some of the options, that stand at P.          *)
StateAfter(options, P, m) ==
  [at |-> P[m], number |-> IF m = 0 THEN 0 ELSE options[m].key,
   options |-> SubSeq(options, 1, m)]

(* The options of a message, whose lengths fit into 16 bits.               *)
AreOptions(options) ==
  /\ options \in Options
  /\ \A i \in 1 .. Len(options) : Len(options[i].value) \in Word

LEMMA OptionsAre ==
  ASSUME NEW options, AreOptions(options)
  PROVE  /\ Len(options) \in Nat
         /\ \A i \in 1 .. Len(options) :
              /\ IsOption(options[i])
              /\ options[i] = [key |-> options[i].key, value |-> options[i].value]
         /\ \A m \in 0 .. Len(options) : SubSeq(options, 1, m) \in Options
<1>. DEFINE R == [key : Word, value : Bytes]
<1>1. options \in Seq(R) /\ Len(options) \in Nat
  BY LenProperties DEF AreOptions, Options
<1>2. ASSUME NEW i \in 1 .. Len(options)
      PROVE  /\ IsOption(options[i])
             /\ options[i] = [key |-> options[i].key, value |-> options[i].value]
  <2>1. options[i] \in R
    <3>. HIDE DEF R
    <3>. QED
      BY <1>1, ElementOfSeq
  <2>2. Len(options[i].value) \in Word
    BY DEF AreOptions
  <2>. QED
    BY <2>1, <2>2 DEF IsOption
<1>3. ASSUME NEW m \in 0 .. Len(options) PROVE SubSeq(options, 1, m) \in Options
  <2>. HIDE DEF R
  <2>1. 1 \in Int /\ m \in Int
    BY <1>1
  <2>2. \A i \in 1 .. m : options[i] \in R
    BY <1>1, ElementOfSeq
  <2>3. SubSeq(options, 1, m) \in Seq(R)
    BY <2>1, <2>2, SubSeqProperties
  <2>. QED
    BY <2>3 DEF Options, R
<1>. QED
  BY <1>1, <1>2, <1>3

(* A round reads the next option.                                          *)
LEMMA RoundReads ==
  ASSUME NEW data \in Bytes, NEW options, AreOptions(options), NEW P,
         NEW p \in Nat \ {0}, Lined(data, Encoded(options), p, P),
         NEW m \in 0 .. Len(options) - 1
  PROVE  /\ StateAfter(options, P, m) \in Reading
         /\ P[m] <= Len(data)
         /\ P[m + 1] > P[m]
         /\ RoundOf(data)[StateAfter(options, P, m)] = StateAfter(options, P, m + 1)
<1>. DEFINE n == Len(options)
            o == options[m + 1]
            s == StateAfter(options, P, m)
            number == IF m = 0 THEN 0 ELSE options[m].key
            read == [delta |-> U16(o.key - number), value |-> o.value, next |-> P[m + 1]]
<1>1. n \in Nat /\ m + 1 \in 1 .. n /\ m \in 0 .. n /\ m + 1 # 0
  BY OptionsAre
<1>2. IsOption(o) /\ o = [key |-> o.key, value |-> o.value]
  BY <1>1, OptionsAre
<1>3. number \in Word
  <2>1. 0 \in Word
    BY WordIs
  <2>2. CASE m # 0
    <3>1. m \in 1 .. Len(options)
      BY <1>1, <2>2
    <3>2. IsOption(options[m])
      BY <3>1, OptionsAre
    <3>. QED
      BY <2>2, <3>2 DEF IsOption
  <2>. QED
    BY <2>1, <2>2
<1>4. /\ DOMAIN options = 1 .. n
      /\ Len(Encoded(options)) = n
      /\ Encoded(options)[m + 1] = EncodedOption(number, o)
  <2>1. DOMAIN options = 1 .. n
    BY LenProperties DEF AreOptions, Options
  <2>2. Encoded(options) = [i \in 1 .. n |-> EncodedOption(Previous(options, i), options[i])]
    BY <2>1 DEF Encoded
  <2>3. (m + 1 = 1 <=> m = 0) /\ (m + 1) - 1 = m
    BY <1>1
  <2>. QED
    BY <1>1, <2>1, <2>2, <2>3 DEF Previous
<1>. DEFINE e == EncodedOption(number, o)
<1>5. /\ P[m] \in Nat \ {0} /\ P[m + 1] \in Nat \ {0}
      /\ P[m + 1] = P[m] + Len(e) /\ HoldsAt(data, P[m], e)
  <2>1. (m + 1) - 1 = m /\ m \in 0 .. n /\ m + 1 \in 0 .. n
    BY <1>1
  <2>. QED
    BY <1>1, <1>4, <2>1 DEF Lined
<1>. HIDE DEF n, o, number
<1>6. /\ OptionAt(data, P[m]) = read
      /\ data[P[m]] # PayloadMarker /\ P[m] <= Len(data) /\ Len(e) \in Nat \ {0}
  BY <1>2, <1>3, <1>5, OptionAtIs
<1>. HIDE DEF e
<1>7. /\ s = [at |-> P[m], number |-> number, options |-> SubSeq(options, 1, m)]
      /\ StateAfter(options, P, m + 1) =
           [at |-> P[m + 1], number |-> o.key, options |-> SubSeq(options, 1, m + 1)]
  BY <1>1 DEF StateAfter, number, o
<1>8. s \in Reading
  <2>1. SubSeq(options, 1, m) \in Options
    BY <1>1, OptionsAre DEF n
  <2>. QED
    BY <1>3, <1>5, <1>7, <2>1 DEF Reading
<1>9. /\ U16(o.key - number) \in Word
      /\ U16(number + U16(o.key - number)) = o.key
  BY <1>2, <1>3, DeltaLeadsBack DEF IsOption
<1>10. read \in ReadOption
  <2>1. U16(o.key - number) \in Nat
    BY <1>9, WordIs
  <2>. QED
    BY <1>2, <1>5, <2>1 DEF ReadOption, IsOption
<1>11. s # Invalid /\ read # Invalid
  BY <1>8, <1>10, InvalidAssumption
<1>12. Append(SubSeq(options, 1, m), [key |-> o.key, value |-> o.value])
         = SubSeq(options, 1, m + 1)
  <2>. DEFINE R == [key : Word, value : Bytes]
              t == SubSeq(options, 1, m)
              u == SubSeq(options, 1, m + 1)
  <2>0. Options = Seq(R)
    BY DEF Options
  <2>1. options \in Seq(R) /\ m + 1 \in 1 .. Len(options) /\ 1 \in 1 .. Len(options)
    BY <1>1 DEF AreOptions, Options, n
  <2>. HIDE DEF R
  <2>2. m + 1 \in 1 .. Len(options)
    BY <2>1
  <2>3. u = SubSeq(options, 1, (m + 1) - 1) \o <<options[m + 1]>>
    BY <2>1, <2>2, SubSeqRecursiveSecond
  <2>4. (m + 1) - 1 = m
    BY <1>1
  <2>5. u = t \o <<o>>
    BY <2>3, <2>4 DEF o
  <2>6. t \in Seq(R)
    BY <1>1, <2>0, OptionsAre DEF n
  <2>7. t \o <<o>> = Append(t, o)
    <3>. HIDE DEF t
    <3>1. o \in R
      BY <2>1, <2>2, ElementOfSeq DEF o
    <3>. QED
      BY <2>6, <3>1, AppendIsConcat
  <2>. QED
    BY <1>2, <2>5, <2>7
<1>13. RoundOf(data)[s] = StateAfter(options, P, m + 1)
  <2>1. ~(s = Invalid \/ s.at > Len(data) \/ data[s.at] = PayloadMarker)
    <3>1. Len(data) \in Nat
      BY LenProperties DEF Bytes
    <3>. HIDE DEF s
    <3>2. s.at = P[m]
      BY <1>7
    <3>. QED
      BY <1>5, <1>6, <1>11, <3>1, <3>2
  <2>2. s.at = P[m] /\ s.number = number /\ s.options = SubSeq(options, 1, m)
    BY <1>7
  <2>3. read.next = P[m + 1] /\ read.delta = U16(o.key - number) /\ read.value = o.value
    OBVIOUS
  <2>. HIDE DEF s, read
  <2>4. RoundOf(data)[s] =
          IF s = Invalid \/ s.at > Len(data) \/ data[s.at] = PayloadMarker THEN s
          ELSE IF OptionAt(data, s.at) = Invalid THEN Invalid
          ELSE [at |-> OptionAt(data, s.at).next,
                number |-> U16(s.number + OptionAt(data, s.at).delta),
                options |-> Append(s.options,
                              [key |-> U16(s.number + OptionAt(data, s.at).delta),
                               value |-> OptionAt(data, s.at).value])]
    BY <1>8 DEF RoundOf
  <2>5. RoundOf(data)[s] =
          [at |-> read.next,
           number |-> U16(s.number + read.delta),
           options |-> Append(s.options, [key |-> U16(s.number + read.delta),
                                          value |-> read.value])]
    BY <1>6, <1>11, <2>1, <2>2, <2>4, Zenon
  <2>6. RoundOf(data)[s] =
          [at |-> P[m + 1], number |-> o.key,
           options |-> Append(SubSeq(options, 1, m), [key |-> o.key, value |-> o.value])]
    BY <1>9, <2>2, <2>3, <2>5, Zenon
  <2>. QED
    BY <1>7, <1>12, <2>6, Zenon
<1>14. P[m + 1] > P[m]
  BY <1>5, <1>6
<1>. QED
  BY <1>6, <1>8, <1>13, <1>14

(* The loop reads the options that stand in the data from p to the payload *)
(* or to the end.                                                          *)
LEMMA OptionsAreRead ==
  ASSUME NEW data \in Bytes, NEW options, AreOptions(options), NEW P,
         NEW p \in Nat \ {0}, Lined(data, Encoded(options), p, P),
         P[Len(options)] > Len(data) \/ data[P[Len(options)]] = PayloadMarker
  PROVE  /\ OptionsFrom(data, p) = StateAfter(options, P, Len(options))
         /\ StateAfter(options, P, Len(options)) \in Reading
<1>. DEFINE n == Len(options)
            L == Len(data)
            At(m) == StateAfter(options, P, m)
            f == [k \in 0 .. L |-> IF k <= n THEN At(k) ELSE At(n)]
<1>1. n \in Nat /\ L \in Nat /\ Len(Encoded(options)) = n
  <2>1. n \in Nat /\ DOMAIN options = 1 .. n
    BY LenProperties DEF AreOptions, Options
  <2>. QED
    BY <2>1, LenProperties DEF Encoded, Bytes
<1>2. P \in [0 .. n -> Nat \ {0}] /\ P[0] = p
  BY <1>1 DEF Lined
<1>3. ASSUME NEW m \in 0 .. n - 1
      PROVE  /\ At(m) \in Reading /\ P[m] <= L /\ P[m + 1] > P[m]
             /\ RoundOf(data)[At(m)] = At(m + 1)
  BY RoundReads
<1>4. At(n) \in Reading
  <2>1. P[n] \in Nat
    BY <1>1, <1>2
  <2>2. (IF n = 0 THEN 0 ELSE options[n].key) \in Word
    <3>1. 0 \in Word
      BY WordIs
    <3>2. CASE n # 0
      <4>1. n \in 1 .. Len(options)
        BY <1>1, <3>2
      <4>2. IsOption(options[n])
        BY <4>1, OptionsAre
      <4>. QED
        BY <3>2, <4>2 DEF IsOption
    <3>. QED
      BY <3>1, <3>2
  <2>3. SubSeq(options, 1, n) \in Options
    BY <1>1, OptionsAre
  <2>. QED
    BY <2>1, <2>2, <2>3 DEF Reading, StateAfter
<1>5. RoundOf(data)[At(n)] = At(n)
  <2>1. At(n).at = P[n]
    BY DEF StateAfter
  <2>. HIDE DEF At
  <2>. QED
    BY <1>4, <2>1 DEF RoundOf
<1>6. \A m \in 0 .. n : At(m).at = P[m]
  BY DEF StateAfter
<1>7. n <= L
  <2>. DEFINE K == {k \in 0 .. n : P[k] > k}
  <2>1. 0 \in K
    BY <1>1, <1>2
  <2>2. ASSUME NEW k \in 0 .. n - 1, k \in K PROVE k + 1 \in K
    <3>1. k + 1 \in 0 .. n /\ k \in 0 .. n /\ P[k + 1] > P[k] /\ P[k] > k
      BY <1>1, <1>3, <2>2
    <3>2. P[k + 1] \in Nat /\ P[k] \in Nat
      BY <1>2, <3>1
    <3>. QED
      BY <3>1, <3>2
  <2>3. 0 .. n \subseteq K
    <3>. HIDE DEF K, n
    <3>1. 0 \in Nat
      OBVIOUS
    <3>. QED
      BY <1>1, <2>1, <2>2, <3>1, AllPositions
  <2>4. CASE n # 0
    <3>1. n - 1 \in 0 .. n - 1 /\ n - 1 \in 0 .. n
      BY <1>1, <2>4
    <3>2. P[n - 1] > n - 1 /\ P[n - 1] <= L /\ P[n - 1] \in Nat
      BY <1>2, <1>3, <2>3, <3>1
    <3>. QED
      BY <1>1, <3>2
  <2>. QED
    BY <1>1, <2>4
<1>. HIDE DEF n, L, At
<1>8. At(0) = Start(p)
  <2>1. SubSeq(options, 1, 0) = <<>>
    BY SubSeqEmpty
  <2>. QED
    BY <1>2, <2>1 DEF At, StateAfter, Start
<1>9. ASSUME NEW k \in 0 .. L, k # 0 PROVE f[k] = RoundOf(data)[f[k - 1]]
  <2>1. k - 1 \in 0 .. L
    BY <1>1, <1>9
  <2>2. CASE k <= n
    <3>1. k - 1 \in 0 .. n - 1 /\ (k - 1) + 1 = k /\ k - 1 <= n
      BY <1>1, <1>9, <2>2
    <3>2. RoundOf(data)[At(k - 1)] = At(k)
      BY <1>3, <3>1
    <3>. QED
      BY <2>1, <2>2, <3>1, <3>2
  <2>3. CASE ~(k <= n)
    <3>1. f[k - 1] = At(n)
      <4>1. k - 1 <= n => k - 1 = n
        BY <1>1, <2>3
      <4>. QED
        BY <2>1, <4>1
    <3>. QED
      BY <1>5, <2>3, <3>1
  <2>. QED
    BY <2>2, <2>3
<1>10. Rounds(data, p, f)
  <2>1. 0 \in 0 .. L /\ 0 <= n
    BY <1>1
  <2>2. f[0] = Start(p)
    BY <1>8, <2>1
  <2>3. f = [k \in 0 .. L |-> IF k = 0 THEN Start(p) ELSE RoundOf(data)[f[k - 1]]]
    BY <1>9, <2>2
  <2>. HIDE DEF f
  <2>. QED
    BY <2>3 DEF Rounds, L
<1>11. n \in 0 .. L /\ f[n] = At(n)
  BY <1>1, <1>7
<1>12. ASSUME NEW k \in 0 .. L, RoundOf(data)[f[k]] = f[k] PROVE f[k] = At(n)
  <2>1. CASE k < n
    <3>1. k \in 0 .. n - 1 /\ k + 1 \in 0 .. n /\ k \in 0 .. n
      BY <1>1, <2>1
    <3>2. f[k] = At(k)
      BY <1>1, <2>1
    <3>3. At(k + 1) = At(k)
      BY <1>3, <1>12, <3>1, <3>2
    <3>4. P[k + 1] = P[k]
      BY <1>6, <3>1, <3>3
    <3>5. P[k + 1] > P[k] /\ P[k] \in Nat
      BY <1>2, <1>3, <3>1
    <3>. QED
      BY <3>4, <3>5
  <2>2. CASE ~(k < n)
    <3>1. k <= n => k = n
      BY <1>1, <2>2
    <3>. QED
      BY <3>1
  <2>. QED
    BY <2>1, <2>2
<1>. HIDE DEF f
<1>13. OptionsFrom(data, p) = At(n)
  <2>1. \A k \in 0 .. Len(data) : RoundOf(data)[f[k]] = f[k] => f[k] = f[n]
    BY <1>11, <1>12 DEF L
  <2>2. RoundOf(data)[f[n]] = f[n]
    BY <1>5, <1>11
  <2>3. OptionsFrom(data, p) = f[n]
    BY <1>1, <1>10, <1>11, <2>1, <2>2, LoopEnds DEF L
  <2>. QED
    BY <1>11, <2>3
<1>. QED
  BY <1>4, <1>13 DEF At, n

-----------------------------------------------------------------------------
(* A message.                                                              *)

(* What stands in front of the token.                                      *)
HeaderOf(msg) ==
  <<64 * msg.version + 16 * msg.type + Len(msg.token), msg.code,
    msg.messageId \div 256, msg.messageId % 256>>

(* The first byte holds three fields.                                      *)
Packs(x, v, t, l) ==
  x \in Byte /\ x % 16 = l /\ x \div 64 = v /\ (x \div 16) % 4 = t

LEMMA FieldsOf ==
  ASSUME NEW v \in 0 .. 3, NEW t \in 0 .. 3, NEW l \in 0 .. 12
  PROVE  Packs(64 * v + 16 * t + l, v, t, l)
<1>1. 64 * v + 16 * t + l \in Byte
  BY ByteIs, SMT
<1>. DEFINE x == 64 * v + 16 * t + l
            y == 4 * v + t
<1>2. x = 16 * y + l /\ x \in Nat /\ y \in Nat
  BY SMT
<1>3. x % 16 = l /\ x \div 64 = v
  BY SMT
<1>4. x \div 16 = y
  <2>. HIDE DEF x, y
  <2>. QED
    BY <1>2, SMT
<1>5. y % 4 = t
  BY SMT
<1>. QED
  BY <1>1, <1>3, <1>4, <1>5, Zenon DEF Packs

(* The bytes of the options of a message.                                  *)
LEMMA EncodedIsBytes ==
  ASSUME NEW options, AreOptions(options)
  PROVE  /\ Encoded(options) \in Seq(Bytes)
         /\ EncodedOptions(options) = FlattenSeq(Encoded(options))
         /\ EncodedOptions(options) \in Bytes
<1>. DEFINE n == Len(options)
<1>1. n \in Nat /\ DOMAIN options = 1 .. n
  BY LenProperties DEF AreOptions, Options
<1>2. ASSUME NEW i \in 1 .. n
      PROVE  EncodedOption(Previous(options, i), options[i]) \in Bytes
  <2>1. Previous(options, i) \in Word
    <3>1. CASE i = 1
      BY <3>1, WordIs DEF Previous
    <3>2. CASE i # 1
      <4>1. i - 1 \in 1 .. Len(options)
        BY <1>1, <3>2
      <4>2. IsOption(options[i - 1])
        BY <4>1, OptionsAre
      <4>. QED
        BY <3>2, <4>2 DEF IsOption, Previous
    <3>. QED
      BY <3>1, <3>2
  <2>2. IsOption(options[i])
    BY OptionsAre
  <2>. DEFINE d == Extended(U16(options[i].key - Previous(options, i)))
              l == Extended(Len(options[i].value))
              e == EncodedOption(Previous(options, i), options[i])
              v == options[i].value
  <2>3. HasParts(e, d, l, v)
    BY <2>1, <2>2, EncodedOptionIs
  <2>4. v \in Bytes
    BY <2>2 DEF IsOption
  <2>. HIDE DEF d, l, e, v
  <2>. DEFINE h == <<d.nibble * 16 + l.nibble>>
  <2>5. e = h \o d.bytes \o l.bytes \o v /\ h \in Bytes /\ d.bytes \in Bytes /\ l.bytes \in Bytes
    BY <2>3 DEF HasParts
  <2>. HIDE DEF h
  <2>6. h \o d.bytes \in Bytes
    BY <2>5, ConcatProperties DEF Bytes
  <2>7. h \o d.bytes \o l.bytes \in Bytes
    BY <2>5, <2>6, ConcatProperties DEF Bytes
  <2>8. h \o d.bytes \o l.bytes \o v \in Bytes
    BY <2>4, <2>7, ConcatProperties DEF Bytes
  <2>9. e \in Bytes
    BY <2>5, <2>8
  <2>. QED
    BY <2>9 DEF e
<1>3. Encoded(options) = [i \in 1 .. n |-> EncodedOption(Previous(options, i), options[i])]
  BY <1>1 DEF Encoded
<1>4. Encoded(options) \in Seq(Bytes)
  BY <1>1, <1>2, <1>3
<1>5. EncodedOptions(options) = FlattenSeq(Encoded(options))
  BY Zenon DEF EncodedOptions, Encoded, Previous
<1>6. EncodedOptions(options) \in Bytes
  <2>. DEFINE s == Encoded(options)
  <2>1. s \in Seq(Seq(Byte))
    BY <1>4 DEF Bytes
  <2>. HIDE DEF s
  <2>2. FlattenSeq(s) \in Seq(Byte)
    BY <2>1, FlattenIsSeq
  <2>. QED
    BY <1>5, <2>2 DEF s, Bytes
<1>. QED
  BY <1>4, <1>5, <1>6

TailOf(msg) == IF msg.payload = <<>> THEN <<>> ELSE <<PayloadMarker>> \o msg.payload

(* What a message is encoded to, and that it is in bytes.                  *)
LEMMA EncodeIs ==
  ASSUME NEW msg \in Encodable
  PROVE  /\ encode[msg] = HeaderOf(msg) \o msg.token \o EncodedOptions(msg.options)
                            \o TailOf(msg)
         /\ HeaderOf(msg) \in Bytes /\ Len(HeaderOf(msg)) = 4
         /\ msg.token \in Bytes /\ Len(msg.token) \in 0 .. 12
         /\ AreOptions(msg.options)
         /\ EncodedOptions(msg.options) \in Bytes
         /\ TailOf(msg) \in Bytes
         /\ encode[msg] \in Bytes
<1>1. msg \in Messages /\ Len(msg.token) <= MaxToken
      /\ \A i \in DOMAIN msg.options : Len(msg.options[i].value) <= MaxWord
  BY DEF Encodable
<1>2. /\ msg.version \in 0 .. 3 /\ msg.type \in 0 .. 3 /\ msg.code \in Byte
      /\ msg.messageId \in Word /\ msg.token \in Bytes /\ msg.payload \in Bytes
      /\ msg.options \in Options
  BY <1>1 DEF Messages
<1>3. Len(msg.token) \in 0 .. 12
  <2>. DEFINE l == Len(msg.token)
  <2>1. l \in Nat
    BY <1>2, LenProperties DEF Bytes
  <2>2. l <= 12
    BY <1>1 DEF MaxToken
  <2>. HIDE DEF l
  <2>3. l \in 0 .. 12
    BY <2>1, <2>2
  <2>. QED
    BY <2>3 DEF l
<1>4. AreOptions(msg.options)
  <2>1. ASSUME NEW i \in 1 .. Len(msg.options) PROVE Len(msg.options[i].value) \in Word
    <3>. DEFINE R == [key : Word, value : Bytes]
    <3>1. msg.options \in Seq(R)
      BY <1>2 DEF Options
    <3>. HIDE DEF R
    <3>2. msg.options[i] \in R /\ i \in DOMAIN msg.options
      BY <3>1, ElementOfSeq, LenProperties
    <3>3. Len(msg.options[i].value) \in Nat
      BY <3>2, LenProperties DEF R, Bytes
    <3>4. Len(msg.options[i].value) <= MaxWord
      BY <1>1, <3>2
    <3>5. MaxWord \in Nat
      BY DEF MaxWord
    <3>. QED
      BY <3>3, <3>4, <3>5 DEF Word
  <2>. QED
    BY <1>2, <2>1 DEF AreOptions
<1>5. EncodedOptions(msg.options) \in Bytes
  BY <1>4, EncodedIsBytes
<1>6. HeaderOf(msg) \in Bytes /\ Len(HeaderOf(msg)) = 4
  <2>1. 64 * msg.version + 16 * msg.type + Len(msg.token) \in Byte
    BY <1>2, <1>3, FieldsOf DEF Packs
  <2>2. msg.messageId \div 256 \in Byte /\ (msg.messageId % 256) \in Byte
    BY <1>2, TwoBytes
  <2>. QED
    BY <1>2, <2>1, <2>2 DEF HeaderOf, Bytes
<1>7. TailOf(msg) \in Bytes
  <2>1. PayloadMarker \in Byte
    BY ByteIs DEF PayloadMarker
  <2>2. <<PayloadMarker>> \in Seq(Byte) /\ <<>> \in Seq(Byte)
    BY <2>1
  <2>3. <<PayloadMarker>> \o msg.payload \in Seq(Byte)
    BY <1>2, <2>2, ConcatProperties DEF Bytes
  <2>. QED
    BY <2>2, <2>3 DEF TailOf, Bytes
<1>8. encode[msg] = HeaderOf(msg) \o msg.token \o EncodedOptions(msg.options) \o TailOf(msg)
  <2>1. ~(Len(msg.token) > MaxToken)
    <3>1. MaxToken \in Nat /\ Len(msg.token) \in Nat
      BY <1>2, LenProperties DEF MaxToken, Bytes
    <3>. QED
      BY <1>1, <3>1
  <2>. QED
    BY <1>1, <2>1, Zenon DEF encode, HeaderOf, TailOf
<1>9. encode[msg] \in Bytes
  <2>. DEFINE a == HeaderOf(msg)
              b == msg.token
              c == EncodedOptions(msg.options)
              e == TailOf(msg)
  <2>1. a \in Bytes /\ b \in Bytes /\ c \in Bytes /\ e \in Bytes
    BY <1>2, <1>5, <1>6, <1>7
  <2>. HIDE DEF a, b, c, e
  <2>2. a \o b \in Bytes
    BY <2>1, ConcatProperties DEF Bytes
  <2>3. a \o b \o c \in Bytes
    BY <2>1, <2>2, ConcatProperties DEF Bytes
  <2>4. a \o b \o c \o e \in Bytes
    BY <2>1, <2>3, ConcatProperties DEF Bytes
  <2>. QED
    BY <1>8, <2>4 DEF a, b, c, e
<1>. QED
  BY <1>2, <1>3, <1>4, <1>5, <1>6, <1>7, <1>8, <1>9

(* decode gives back what encode was given.                                *)
LEMMA DecodeGivesBack ==
  ASSUME NEW msg \in Encodable
  PROVE  decode[encode[msg]] = msg
<1>. DEFINE data == encode[msg]
            h == HeaderOf(msg)
            l == Len(msg.token)
            os == EncodedOptions(msg.options)
            t == TailOf(msg)
            p == 5 + l
            n == Len(msg.options)
<1>1. /\ data = h \o msg.token \o os \o t
      /\ h \in Bytes /\ Len(h) = 4 /\ msg.token \in Bytes /\ l \in 0 .. 12
      /\ AreOptions(msg.options) /\ os \in Bytes /\ t \in Bytes /\ data \in Bytes
  BY EncodeIs
<1>2. /\ msg \in Messages
      /\ msg.version \in 0 .. 3 /\ msg.type \in 0 .. 3 /\ msg.code \in Byte
      /\ msg.messageId \in Word /\ msg.payload \in Bytes
      /\ msg = [version |-> msg.version, type |-> msg.type, code |-> msg.code,
                messageId |-> msg.messageId, token |-> msg.token,
                options |-> msg.options, payload |-> msg.payload]
  BY DEF Encodable, Messages
<1>3. Len(data) \in Nat /\ l \in Nat /\ Len(os) \in Nat /\ Len(t) \in Nat
  BY <1>1, LenProperties DEF Bytes
<1>. HIDE DEF data
<1>4. HoldsAt(data, 1, data)
  BY <1>3 DEF HoldsAt
<1>5. /\ HoldsAt(data, 1, h)
      /\ HoldsAt(data, 5, msg.token)
      /\ HoldsAt(data, p, os)
      /\ HoldsAt(data, p + Len(os), t)
      /\ Len(data) = 4 + l + Len(os) + Len(t)
  <2>. HIDE DEF h, os, t
  <2>1. HoldsAt(data, 1, h \o msg.token \o os \o t)
    BY <1>1, <1>4
  <2>2. HoldsEach(data, 1, h, msg.token, os, t)
    <3>1. /\ data \in Seq(Byte) /\ h \in Seq(Byte) /\ msg.token \in Seq(Byte)
          /\ os \in Seq(Byte) /\ t \in Seq(Byte) /\ 1 \in Nat \ {0}
      BY <1>1 DEF Bytes
    <3>. QED
      BY <2>1, <3>1, HoldsFour
  <2>3. 1 + 4 = 5 /\ 1 + 4 + l = p /\ 1 + 4 + l + Len(os) = p + Len(os)
    BY <1>3
  <2>. QED
    BY <1>1, <2>2, <2>3 DEF HoldsEach
<1>6. /\ data[1] = 64 * msg.version + 16 * msg.type + l
      /\ data[2] = msg.code
      /\ data[3] = msg.messageId \div 256 /\ data[4] = msg.messageId % 256
  <2>1. ASSUME NEW j \in 1 .. 4 PROVE data[j] = h[j]
    <3>. HIDE DEF h
    <3>1. data[1 + j - 1] = h[j]
      BY <1>1, <1>5 DEF HoldsAt
    <3>2. 1 + j - 1 = j
      OBVIOUS
    <3>. QED
      BY <3>1, <3>2
  <2>. QED
    BY <2>1 DEF HeaderOf
<1>7. /\ data[1] % 16 = l /\ data[1] \div 64 = msg.version
      /\ (data[1] \div 16) % 4 = msg.type
      /\ data[3] * 256 + data[4] = msg.messageId
  <2>1. /\ data[1] % 16 = l /\ data[1] \div 64 = msg.version
        /\ (data[1] \div 16) % 4 = msg.type
    <3>. HIDE DEF l
    <3>. DEFINE x == 64 * msg.version + 16 * msg.type + l
    <3>1. Packs(x, msg.version, msg.type, l)
      BY <1>1, <1>2, FieldsOf
    <3>2. data[1] = x
      BY <1>6
    <3>. HIDE DEF x
    <3>. QED
      BY <3>1, <3>2 DEF Packs
  <2>2. data[3] * 256 + data[4] = msg.messageId
    BY <1>2, <1>6, TwoBytes
  <2>. QED
    BY <2>1, <2>2
<1>8. SubSeq(data, 5, 4 + l) = msg.token
  <2>1. SubSeq(data, 5, 5 + l - 1) = msg.token
    <3>1. 5 \in Nat \ {0}
      OBVIOUS
    <3>. QED
      BY <1>1, <1>5, <3>1, HoldsSubSeq DEF Bytes
  <2>2. 5 + l - 1 = 4 + l
    BY <1>3
  <2>. QED
    BY <2>1, <2>2
<1>9. PICK P : Lined(data, Encoded(msg.options), p, P)
  <2>. DEFINE s == Encoded(msg.options)
  <2>1. s \in Seq(Seq(Byte)) /\ os = FlattenSeq(s)
    BY <1>1, EncodedIsBytes DEF Bytes
  <2>2. data \in Seq(Byte) /\ p \in Nat \ {0}
    BY <1>1, <1>3 DEF Bytes
  <2>. HIDE DEF s, p, os
  <2>3. HoldsAt(data, p, FlattenSeq(s))
    BY <1>5, <2>1
  <2>4. \E P : Lined(data, s, p, P)
    BY <2>1, <2>2, <2>3, HoldsFlattened
  <2>. QED
    BY <2>4 DEF s
<1>. HIDE DEF h, os, t
<1>10. Len(Encoded(msg.options)) = n /\ n \in Nat
  <2>1. n \in Nat /\ DOMAIN msg.options = 1 .. n
    BY <1>1, LenProperties DEF AreOptions, Options
  <2>. QED
    BY <2>1 DEF Encoded
<1>11. P[n] = p + Len(os)
  BY <1>1, <1>9, <1>10, EncodedIsBytes DEF Lined, os
<1>12. \/ msg.payload = <<>> /\ t = <<>> /\ P[n] = Len(data) + 1
       \/ /\ t = <<PayloadMarker>> \o msg.payload
          /\ Len(t) = 1 + Len(msg.payload)
          /\ P[n] + Len(msg.payload) = Len(data)
          /\ data[P[n]] = PayloadMarker
          /\ HoldsAt(data, P[n] + 1, msg.payload)
  <2>1. CASE msg.payload = <<>>
    <3>1. t = <<>> /\ Len(t) = 0
      BY <2>1 DEF t, TailOf
    <3>. QED
      BY <1>3, <1>5, <1>11, <2>1, <3>1
  <2>2. CASE msg.payload # <<>>
    <3>. DEFINE k == <<PayloadMarker>>
    <3>1. t = k \o msg.payload
      BY <2>2 DEF t, TailOf
    <3>2. k \in Seq(Byte) /\ Len(k) = 1 /\ k[1] = PayloadMarker
      BY ByteIs DEF PayloadMarker
    <3>3. Len(t) = 1 + Len(msg.payload) /\ Len(msg.payload) \in Nat
      BY <1>2, <3>1, <3>2, ConcatProperties, LenProperties DEF Bytes
    <3>4. P[n] \in Nat \ {0} /\ P[n] + Len(msg.payload) = Len(data)
      <4>. HIDE DEF l, n
      <4>1. P[n] = 5 + l + Len(os)
        BY <1>11
      <4>2. Len(data) = 4 + l + Len(os) + (1 + Len(msg.payload))
        BY <1>5, <3>3
      <4>. DEFINE a == Len(os)
                  b == Len(msg.payload)
                  q == P[n]
                  L == Len(data)
      <4>3. /\ l \in Nat /\ a \in Nat /\ b \in Nat
            /\ q = 5 + l + a /\ L = 4 + l + a + (1 + b)
        BY <1>3, <3>3, <4>1, <4>2
      <4>. HIDE DEF a, b, q, L
      <4>4. q \in Nat \ {0} /\ q + b = L
        BY <4>3
      <4>. QED
        BY <4>4 DEF a, b, q, L
    <3>. HIDE DEF k
    <3>5. HoldsAt(data, P[n], k) /\ HoldsAt(data, P[n] + Len(k), msg.payload)
      <4>1. HoldsAt(data, P[n], k \o msg.payload)
        BY <1>5, <1>11, <3>1, Zenon
      <4>2. data \in Seq(Byte) /\ msg.payload \in Seq(Byte)
        BY <1>1, <1>2 DEF Bytes
      <4>. QED
        BY <3>2, <3>4, <4>1, <4>2, HoldsParts
    <3>6. data[P[n] + 1 - 1] = k[1]
      BY <3>2, <3>5 DEF HoldsAt
    <3>7. data[P[n]] = PayloadMarker
      BY <3>2, <3>4, <3>6
    <3>. QED
      BY <3>1, <3>2, <3>3, <3>4, <3>5, <3>7 DEF k
  <2>. QED
    BY <2>1, <2>2
<1>. DEFINE read == OptionsFrom(data, p)
<1>13. /\ read = StateAfter(msg.options, P, n)
       /\ read \in Reading
  <2>1. P[n] > Len(data) \/ data[P[n]] = PayloadMarker
    BY <1>3, <1>12
  <2>2. p \in Nat \ {0}
    BY <1>3
  <2>. HIDE DEF p
  <2>3. /\ read = StateAfter(msg.options, P, Len(msg.options))
        /\ StateAfter(msg.options, P, Len(msg.options)) \in Reading
    BY <1>1, <1>9, <2>1, <2>2, OptionsAreRead
  <2>. QED
    BY <2>3
<1>14. read # Invalid
  BY <1>13, InvalidAssumption
<1>15. read.at = P[n] /\ read.options = msg.options
  <2>1. read.at = P[n] /\ read.options = SubSeq(msg.options, 1, n)
    BY <1>13 DEF StateAfter
  <2>2. SubSeq(msg.options, 1, n) = msg.options
    BY <1>1, SubSeqFull DEF AreOptions, Options
  <2>. QED
    BY <2>1, <2>2
<1>. HIDE DEF read
<1>16. SubSeq(data, P[n] + 1, Len(data)) = msg.payload
  <2>0. P[n] \in Nat \ {0}
    BY <1>3, <1>11
  <2>1. CASE msg.payload = <<>> /\ P[n] = Len(data) + 1
    <3>1. P[n] + 1 \in Int /\ Len(data) \in Int /\ Len(data) < P[n] + 1
      BY <1>3, <2>1
    <3>. QED
      BY <2>1, <3>1, SubSeqEmpty
  <2>2. CASE HoldsAt(data, P[n] + 1, msg.payload) /\ P[n] + Len(msg.payload) = Len(data)
    <3>1. P[n] + 1 \in Nat \ {0} /\ Len(msg.payload) \in Nat
      BY <1>2, <2>0, LenProperties DEF Bytes
    <3>2. SubSeq(data, P[n] + 1, (P[n] + 1) + Len(msg.payload) - 1) = msg.payload
      BY <1>1, <1>2, <2>2, <3>1, HoldsSubSeq DEF Bytes
    <3>3. (P[n] + 1) + Len(msg.payload) - 1 = Len(data)
      BY <2>0, <2>2, <3>1
    <3>. QED
      BY <3>2, <3>3
  <2>. QED
    BY <1>12, <2>1, <2>2
<1>17. ~(Len(data) < 4 \/ l > MaxToken \/ Len(data) < 4 + l)
  <2>1. Len(msg.token) <= MaxToken /\ MaxToken \in Nat
    BY DEF Encodable, MaxToken
  <2>2. l <= MaxToken
    BY <2>1
  <2>. HIDE DEF l
  <2>. QED
    BY <1>3, <1>5, <2>1, <2>2
<1>18. decode[data] =
         [version |-> data[1] \div 64, type |-> (data[1] \div 16) % 4, code |-> data[2],
          messageId |-> data[3] * 256 + data[4], token |-> SubSeq(data, 5, 4 + l),
          options |-> read.options, payload |-> SubSeq(data, read.at + 1, Len(data))]
  <2>. HIDE DEF l
  <2>. QED
    BY <1>1, <1>7, <1>14, <1>17, Zenon DEF decode, read
<1>19. decode[data] = msg
  BY <1>2, <1>6, <1>7, <1>8, <1>15, <1>16, <1>18, Zenon
<1>. QED
  BY <1>19 DEF data

-----------------------------------------------------------------------------
(* The messages of the network.                                            *)

(* Only the message of a node has a token that starts like one.            *)
IsSendable(msg) ==
  msg \in Encodable /\ (IsPrefix(PicoW, msg.token) => msg.token \in Nodes)

LEMMA RequestIsSendable == IsSendable(buildDiscoveryRequest)
<1>. DEFINE a == [key |-> UriPath, value |-> <<46, 119>>]
            b == [key |-> UriPath, value |-> <<99>>]
            msg == buildDiscoveryRequest
<1>1. /\ 46 \in Byte /\ 119 \in Byte /\ 99 \in Byte /\ Get \in Byte
      /\ UriPath \in Word /\ 0 \in Word /\ 2 \in Nat /\ 1 \in Nat
  BY ByteIs, WordIs DEF Get, UriPath
<1>2. /\ <<46, 119>> \in Bytes /\ Len(<<46, 119>>) = 2
      /\ <<99>> \in Bytes /\ Len(<<99>>) = 1 /\ <<>> \in Bytes /\ Len(<<>>) = 0
  BY <1>1 DEF Bytes
<1>3. a \in [key : Word, value : Bytes] /\ b \in [key : Word, value : Bytes]
  BY <1>1, <1>2
<1>. DEFINE os == <<a, b>>
<1>4. /\ os \in Options
      /\ \A i \in DOMAIN os : Len(os[i].value) \in {1, 2}
  <2>1. Len(a.value) = 2 /\ Len(b.value) = 1
    BY <1>2
  <2>. HIDE DEF a, b
  <2>2. DOMAIN os = {1, 2} /\ os[1] = a /\ os[2] = b
    OBVIOUS
  <2>. QED
    BY <1>3, <2>1, <2>2 DEF Options
<1>5. msg = [version |-> 1, type |-> NonConfirmable, code |-> Get, messageId |-> 0,
             token |-> <<>>, options |-> os, payload |-> <<>>]
  <2>1. msg = [NewMessage EXCEPT !.code = Get, !.options = os]
    BY Zenon DEF buildDiscoveryRequest
  <2>. HIDE DEF os, msg
  <2>2. msg = [[NewMessage EXCEPT !.code = Get] EXCEPT !.options = os]
    BY <2>1
  <2>3. [NewMessage EXCEPT !.code = Get] =
          [version |-> 1, type |-> NonConfirmable, code |-> Get, messageId |-> 0,
           token |-> <<>>, options |-> <<>>, payload |-> <<>>]
    BY DEF NewMessage
  <2>. QED
    BY <2>2, <2>3
<1>. HIDE DEF os, msg
<1>6. msg \in Messages
  BY <1>1, <1>2, <1>4, <1>5 DEF Messages, NonConfirmable
<1>7. msg \in Encodable
  <2>1. 1 <= MaxWord /\ 2 <= MaxWord /\ 0 <= MaxToken
    BY DEF MaxWord, MaxToken
  <2>2. \A i \in DOMAIN os : Len(os[i].value) <= MaxWord
    BY <1>4, <2>1
  <2>. QED
    BY <1>2, <1>5, <1>6, <2>1, <2>2 DEF Encodable
<1>8. ~IsPrefix(PicoW, msg.token)
  <2>1. Len(PicoW) = 5
    BY DEF PicoW
  <2>. QED
    BY <1>2, <1>5, <2>1 DEF IsPrefix
<1>. QED
  BY <1>7, <1>8 DEF IsSendable, msg

LEMMA AnswerIsSendable == ASSUME NEW d \in Answers PROVE IsSendable(Answer(d))
<1>. DEFINE a == [key |-> 12, value |-> <<60>>]
            os == <<a>>
            c == Cbor(d.flap)
            msg == Answer(d)
<1>1. /\ 60 \in Byte /\ Content \in Byte /\ 12 \in Word /\ 0 \in Word
  BY ByteIs, WordIs DEF Content
<1>2. <<60>> \in Bytes /\ Len(<<60>>) = 1
  BY <1>1 DEF Bytes
<1>3. os \in Options /\ \A i \in DOMAIN os : Len(os[i].value) = 1
  <2>1. a \in [key : Word, value : Bytes] /\ Len(a.value) = 1
    BY <1>1, <1>2
  <2>. HIDE DEF a
  <2>2. DOMAIN os = {1} /\ os[1] = a
    OBVIOUS
  <2>. QED
    BY <2>1, <2>2 DEF Options
<1>4. c \in Bytes
  <2>1. d.flap[1] \in Word /\ d.flap[2] \in Word
    BY DiscoveryAssumption DEF Answers
  <2>2. /\ d.flap[1] \div 256 \in Byte /\ (d.flap[1] % 256) \in Byte
        /\ d.flap[2] \div 256 \in Byte /\ (d.flap[2] % 256) \in Byte
    BY <2>1, TwoBytes
  <2>. QED
    BY <2>2 DEF Cbor, Bytes
<1>5. d.node \in Nodes /\ d.node \in Bytes /\ Len(d.node) <= MaxToken
  BY DiscoveryAssumption DEF Answers
<1>6. msg = [version |-> 1, type |-> NonConfirmable, code |-> Content, messageId |-> 0,
             token |-> d.node, options |-> os, payload |-> c]
  <2>1. msg = [NewMessage EXCEPT !.code = Content, !.token = d.node, !.payload = c,
                                 !.options = os]
    BY Zenon DEF Answer
  <2>. HIDE DEF os, msg, c
  <2>2. [NewMessage EXCEPT !.code = Content] =
          [version |-> 1, type |-> NonConfirmable, code |-> Content, messageId |-> 0,
           token |-> <<>>, options |-> <<>>, payload |-> <<>>]
    BY DEF NewMessage
  <2>3. msg = [[[[NewMessage EXCEPT !.code = Content] EXCEPT !.token = d.node]
                   EXCEPT !.payload = c] EXCEPT !.options = os]
    BY <2>1
  <2>. QED
    BY <2>2, <2>3
<1>. HIDE DEF os, c, msg
<1>7. msg \in Messages
  BY <1>1, <1>3, <1>4, <1>5, <1>6 DEF Messages, NonConfirmable
<1>8. msg \in Encodable
  <2>1. 1 <= MaxWord
    BY DEF MaxWord
  <2>. QED
    BY <1>3, <1>5, <1>6, <1>7, <2>1 DEF Encodable
<1>. QED
  BY <1>5, <1>6, <1>8 DEF IsSendable, msg

(* All that is sent is encodable, and decoded to what it was.              *)
LEMMA DecodedIs ==
  ASSUME NEW d \in Datagrams
  PROVE  IsSendable(Message(d)) /\ Decoded(d) = Message(d)
<1>1. IsSendable(Message(d))
  <2>1. ASSUME NEW m \in Strays PROVE IsSendable(StrayText[m])
    BY DiscoveryAssumption DEF IsSendable
  <2>2. \/ d = Request /\ Message(d) = buildDiscoveryRequest
        \/ d \in Strays /\ Message(d) = StrayText[d]
        \/ d \in Answers /\ Message(d) = Answer(d)
    BY DEF Datagrams, Message
  <2>. QED
    BY <2>1, <2>2, RequestIsSendable, AnswerIsSendable
<1>2. decode[encode[Message(d)]] = Message(d)
  BY <1>1, DecodeGivesBack DEF IsSendable
<1>3. [sent |-> d, got |-> decode[encode[Message(d)]]] \in Transmissions
  BY DEF Transmissions
<1>4. \A t \in Transmissions : t.sent = d => t.got = decode[encode[Message(d)]]
  BY DEF Transmissions
<1>5. Decoded(d) = decode[encode[Message(d)]]
  <2>1. \E t \in Transmissions : t.sent = d
    BY <1>3
  <2>2. \E t : t \in Transmissions /\ t.sent = d
    BY <2>1
  <2>. DEFINE c == CHOOSE t \in Transmissions : t.sent = d
  <2>3. c \in Transmissions /\ c.sent = d
    BY <2>2
  <2>. HIDE DEF c
  <2>4. c.got = decode[encode[Message(d)]]
    BY <1>4, <2>3
  <2>. QED
    BY <2>4 DEF Decoded, c
<1>. QED
  BY <1>1, <1>2, <1>5

-----------------------------------------------------------------------------
(* The invariant: the network carries the daemon's requests, the answers   *)
(* of nodes and strays, and a node is known if its reading is.             *)
DiscoveryInv ==
  /\ network \subseteq Datagrams
  /\ flap \in [Nodes -> Flaps]
  /\ DOMAIN voltage = Nodes
  /\ OnlyNodesJoin

LEMMA InitDiscoveryInv == Init => DiscoveryInv
BY DEF Init, DiscoveryInv, OnlyNodesJoin

(* A datagram that arrives makes a thing of a node only.                   *)
LEMMA ReceiveDiscoveryInv ==
  ASSUME DiscoveryInv, NEW d \in network, Receive(d)
  PROVE  DiscoveryInv'
<1>. DEFINE m == Message(d)
<1>1. d \in Datagrams /\ IsSendable(m) /\ Decoded(d) = m
  BY DecodedIs DEF DiscoveryInv
<1>2. online' = online /\ flap' = flap /\ network' = network
  BY DEF Receive
<1>. HIDE DEF m
<1>3. \/ things' = things /\ voltage' = voltage
      \/ /\ IsReport(m)
         /\ things' = things \cup {m.token}
         /\ voltage' = [n \in DOMAIN voltage \cup {m.token} |->
              IF n = m.token THEN Reported(FlapsIn(m.payload)) ELSE voltage[n]]
  BY <1>1, Zenon DEF Receive
<1>4. CASE things' = things /\ voltage' = voltage
  BY <1>2, <1>4 DEF DiscoveryInv, OnlyNodesJoin
<1>5. CASE /\ IsReport(m)
           /\ things' = things \cup {m.token}
           /\ voltage' = [n \in DOMAIN voltage \cup {m.token} |->
                IF n = m.token THEN Reported(FlapsIn(m.payload)) ELSE voltage[n]]
  <2>1. m.token \in Nodes
    BY <1>1, <1>5 DEF IsReport, IsSendable
  <2>. DEFINE r == Reported(FlapsIn(m.payload))
  <2>2. r # None
    <3>1. Len(r) = 3 /\ Len(None) = 0
      BY DEF Reported, None
    <3>. QED
      BY <3>1
  <2>. HIDE DEF r
  <2>3. /\ DOMAIN voltage' = Nodes
        /\ \A n \in Nodes : voltage'[n] = IF n = m.token THEN r ELSE voltage[n]
    BY <1>5, <2>1 DEF DiscoveryInv, r
  <2>4. OnlyNodesJoin'
    BY <1>5, <2>1, <2>2, <2>3 DEF DiscoveryInv, OnlyNodesJoin
  <2>. QED
    BY <1>2, <2>3, <2>4 DEF DiscoveryInv
<1>. QED
  BY <1>3, <1>4, <1>5

(* What is sent is a datagram of the model.                                *)
LEMMA NetworkDiscoveryInv ==
  ASSUME DiscoveryInv,
         \/ NodeChanges \/ Discover
         \/ \E n \in Nodes : NodeAnswers(n)
         \/ \E m \in Strays : Stray(m)
         \/ \E m \in network : Lose(m)
  PROVE  DiscoveryInv'
<1>1. things' = things /\ voltage' = voltage
  BY DEF NodeChanges, Discover, NodeAnswers, Stray, Lose
<1>2. OnlyNodesJoin' /\ DOMAIN voltage' = Nodes
  BY <1>1 DEF DiscoveryInv, OnlyNodesJoin
<1>3. flap' \in [Nodes -> Flaps]
  <2>1. CASE NodeChanges
    BY <2>1 DEF NodeChanges, DiscoveryInv
  <2>2. CASE ~NodeChanges
    BY <2>2 DEF Discover, NodeAnswers, Stray, Lose, DiscoveryInv
  <2>. QED
    BY <2>1, <2>2
<1>4. network' \subseteq Datagrams
  <2>1. ASSUME NEW n \in Nodes PROVE [node |-> n, flap |-> flap[n]] \in Datagrams
    BY DEF DiscoveryInv, Answers, Datagrams
  <2>2. \/ network' \subseteq network
        \/ network' = network \cup {Request}
        \/ \E m \in Strays : network' = network \cup {m}
        \/ \E n \in Nodes : network' = network \cup {[node |-> n, flap |-> flap[n]]}
    BY DEF NodeChanges, Discover, NodeAnswers, Stray, Lose, Sent
  <2>. QED
    BY <2>1, <2>2 DEF DiscoveryInv, Datagrams
<1>. QED
  BY <1>2, <1>3, <1>4 DEF DiscoveryInv

(* Hosts come and go.                                                      *)
LEMMA HostDiscoveryInv ==
  ASSUME DiscoveryInv, NEW h \in Hosts,
         \/ \E hasSrv \in BOOLEAN : HttpFound(h, hasSrv) \/ ShellyFound(h, hasSrv)
         \/ SunSpecFound(h) \/ HostRemoved(h)
  PROVE  DiscoveryInv'
<1>1. /\ online' = online /\ flap' = flap /\ network' = network /\ voltage' = voltage
      /\ things' = things \cup {h} \/ things' = things \ {h}
  BY DEF HttpFound, ShellyFound, SunSpecFound, HostRemoved, AddThing
<1>2. h \notin Nodes
  BY DiscoveryAssumption
<1>3. OnlyNodesJoin'
  BY <1>1, <1>2 DEF DiscoveryInv, OnlyNodesJoin
<1>. QED
  BY <1>1, <1>3 DEF DiscoveryInv

(* The invariant holds always.                                             *)
THEOREM DiscoveryInvariant == Spec => []DiscoveryInv
<1>1. DiscoveryInv /\ [Next]_vars => DiscoveryInv'
  <2>. SUFFICES ASSUME DiscoveryInv, [Next]_vars PROVE DiscoveryInv'
    OBVIOUS
  <2>1. CASE NodeChanges \/ Discover \/ (\E n \in Nodes : NodeAnswers(n))
             \/ (\E m \in Strays : Stray(m)) \/ (\E m \in network : Lose(m))
    BY <2>1, NetworkDiscoveryInv
  <2>2. ASSUME NEW d \in network, Receive(d) PROVE DiscoveryInv'
    BY <2>2, ReceiveDiscoveryInv
  <2>3. ASSUME NEW h \in Hosts,
               \/ \E hasSrv \in BOOLEAN : HttpFound(h, hasSrv) \/ ShellyFound(h, hasSrv)
               \/ SunSpecFound(h) \/ HostRemoved(h)
        PROVE  DiscoveryInv'
    BY <2>3, HostDiscoveryInv
  <2>4. CASE UNCHANGED vars
    BY <2>4 DEF vars, DiscoveryInv, OnlyNodesJoin
  <2>. QED
    BY <2>1, <2>2, <2>3, <2>4 DEF Next
<1>. QED
  BY <1>1, InitDiscoveryInv, PTL DEF Spec

(* Whatever nodes and others say, the daemon decodes what was encoded, of  *)
(* all messages that fit into a datagram: the fields, and the values of    *)
(* each option in their order.                                             *)
THEOREM MessagesDecodeAsSent == Spec => []DecodesAsSent
<1>1. DiscoveryInv => DecodesAsSent
  <2>. SUFFICES ASSUME DiscoveryInv, NEW d \in network
                PROVE  /\ Decoded(d) # Invalid
                       /\ Decoded(d) = Message(d)
    BY Zenon DEF DecodesAsSent
  <2>1. IsSendable(Message(d)) /\ Decoded(d) = Message(d)
    BY DecodedIs DEF DiscoveryInv
  <2>2. Message(d) \in Messages
    BY <2>1 DEF IsSendable, Encodable
  <2>3. Message(d) # Invalid
    BY <2>2, InvalidAssumption
  <2>. QED
    BY <2>1, <2>3
<1>. QED
  BY <1>1, DiscoveryInvariant, PTL

(* The daemon hears its own requests and what all others say, and still    *)
(* only nodes and hosts become things, a node with a reading of its flaps. *)
THEOREM OnlyNodesBecomeThings == Spec => []OnlyNodesJoin
<1>1. DiscoveryInv => OnlyNodesJoin
  BY DEF DiscoveryInv
<1>. QED
  BY <1>1, DiscoveryInvariant, PTL

=============================================================================
