----------------------------- MODULE CodecsProofs -----------------------------
(***************************************************************************)
(* What TLAPS proves of the codecs of lengths and strings, for every value *)
(* and whatever the other jobs are; and of the compressor among them.      *)
(***************************************************************************)
EXTENDS Codecs, LzfProofs
LOCAL INSTANCE SequencesExt

-----------------------------------------------------------------------------
(* Reading bytes. *)

LEMMA ByteIs == \A x : IsByte(<<x>>) /\ <<x>>[1] = x
BY DEF IsByte

LEMMA ReadByteIs ==
    ASSUME NEW b, NEW p \in Nat, NEW x, Len(b) \in Nat, p <= Len(b), b[p] = <<x>>
    PROVE  readByte(b, p) = Done(p + 1, x)
<1>1. IsByte(b[p]) /\ b[p][1] = x
  BY DEF IsByte
<1> QED BY <1>1 DEF readByte

(* The step of PassBytes from one element to the next, and the steps that  *)
(* n bytes at p take.                                                      *)
NextElement(b, r) ==
    IF r.st = "ok"
    THEN IF r.val = 0 THEN r
         ELSE IF SizeOf(b[r.pos]) > r.val THEN Fail(r.pos, "misread")
         ELSE Done(r.pos + 1, r.val - SizeOf(b[r.pos]))
    ELSE r

Stretch(b, p, n) == IF n < Len(b) + 1 - p THEN n ELSE Len(b) + 1 - p

Passing(b, p, n, g) ==
    g = [ i \in 0..Stretch(b, p, n) |-> IF i = 0 THEN Done(p, n) ELSE NextElement(b, g[i - 1]) ]

LEMMA PassIs ==
    ASSUME NEW b, NEW p \in Nat, NEW n \in Nat, Len(b) \in Nat, p <= Len(b) + 1,
           NEW g, Passing(b, p, n, g),
           NEW e, g[Stretch(b, p, n)] = Done(e, 0)
    PROVE  PassBytes(b, p, n) = Done(e, <<>>)
<1> DEFINE last == Stretch(b, p, n)
<1> DEFINE IsLeft(h) == h = [ i \in 0..last |->
             IF i = 0 THEN Done(p, n)
             ELSE Then(h[i - 1], LAMBDA r :
                    IF r.val = 0 THEN r
                    ELSE IF SizeOf(b[r.pos]) > r.val THEN Fail(r.pos, "misread")
                    ELSE Done(r.pos + 1, r.val - SizeOf(b[r.pos]))) ]
<1> DEFINE left == CHOOSE h : IsLeft(h)
<1>1. PassBytes(b, p, n) =
        Then(left[last], LAMBDA r : IF r.val = 0 THEN Done(r.pos, <<>>) ELSE Fail(r.pos, "error"))
  BY DEF PassBytes, Stretch
<1>2. \A q : Then(q, LAMBDA r :
                    IF r.val = 0 THEN r
                    ELSE IF SizeOf(b[r.pos]) > r.val THEN Fail(r.pos, "misread")
                    ELSE Done(r.pos + 1, r.val - SizeOf(b[r.pos]))) = NextElement(b, q)
  BY DEF Then, NextElement
<1>3. \A h : IsLeft(h) <=> Passing(b, p, n, h)
  BY <1>2 DEF Passing
<1>4. last \in Nat
  BY DEF Stretch
<1> HIDE DEF IsLeft
<1>5. IsLeft(left)
  BY <1>3
<1>6. left[last] = g[last]
  <2> HIDE DEF last, left
  <2> DEFINE S == {i \in 0..last : left[i] = g[i]}
  <2>1. \A i \in 0..last : /\ left[i] = IF i = 0 THEN Done(p, n) ELSE NextElement(b, left[i - 1])
                           /\ g[i] = IF i = 0 THEN Done(p, n) ELSE NextElement(b, g[i - 1])
    BY <1>3, <1>5 DEF Passing, last
  <2>2. 0 \in S
    BY <1>4, <2>1
  <2>3. \A i \in 1..last : i - 1 \in S => i \in S
    BY <1>4, <2>1
  <2> HIDE DEF S
  <2>4. 0..last \subseteq S
    BY <1>4, <2>2, <2>3, NatSetInduction
  <2> QED BY <1>4, <2>4 DEF S
<1>7. left[last].st = "ok" /\ left[last].val = 0 /\ left[last].pos = e
  BY <1>6 DEF Done
<1> HIDE DEF left, last
<1>8. PassBytes(b, p, n) = IF left[last].st = "ok"
        THEN IF left[last].val = 0 THEN Done(left[last].pos, <<>>) ELSE Fail(left[last].pos, "error")
        ELSE left[last]
  BY <1>1 DEF Then
<1> QED BY <1>7, <1>8

LEMMA NextIs ==
    ASSUME NEW b, NEW q, NEW m, m # 0, ~(SizeOf(b[q]) > m)
    PROVE  NextElement(b, Done(q, m)) = Done(q + 1, m - SizeOf(b[q]))
BY DEF NextElement, Done

(* Numbers: n bytes at p, the first of which is ns[1]. *)
BytesAt(b, p, ns) == \A i \in 1..Len(ns) : b[p + i - 1] = <<ns[i]>>

LEMMA PassNumber ==
    ASSUME NEW b, NEW p \in Nat, NEW ns \in Seq(Int), Len(b) \in Nat, p >= 1,
           p + Len(ns) <= Len(b) + 1, BytesAt(b, p, ns)
    PROVE  PassBytes(b, p, Len(ns)) = Done(p + Len(ns), <<>>)
<1> DEFINE n == Len(ns)
<1> DEFINE g == [ i \in 0..n |-> Done(p + i, n - i) ]
<1>1. n \in Nat /\ Stretch(b, p, n) = n
  BY DEF Stretch
<1>2. ASSUME NEW i \in 1..n
      PROVE  g[i] = NextElement(b, g[i - 1])
  <2>1. g[i - 1] = Done(p + i - 1, n - i + 1) /\ g[i] = Done(p + i, n - i)
    BY <1>1
  <2>2. b[p + i - 1] = <<ns[i]>>
    BY DEF BytesAt
  <2>3. SizeOf(b[p + i - 1]) = 1
    BY <2>2 DEF SizeOf, IsByte
  <2>4. n - i + 1 # 0 /\ ~(1 > n - i + 1) /\ p + i - 1 + 1 = p + i /\ n - i + 1 - 1 = n - i
    BY <1>1
  <2>5. ASSUME NEW q, q = p + i - 1, NEW m, m = n - i + 1
        PROVE  NextElement(b, Done(q, m)) = Done(q + 1, m - 1)
    <3> HIDE DEF g, n
    <3>1. m # 0 /\ ~(SizeOf(b[q]) > m) /\ SizeOf(b[q]) = 1
      BY <2>3, <2>4, <2>5
    <3> QED BY <3>1, NextIs
  <2>6. NextElement(b, Done(p + i - 1, n - i + 1)) = Done(p + i - 1 + 1, n - i + 1 - 1)
    BY <2>5
  <2> HIDE DEF g, n
  <2> QED BY <2>1, <2>4, <2>6
<1>3. g[0] = Done(p, n) /\ g[n] = Done(p + n, 0)
  BY <1>1
<1>4. Passing(b, p, n, g)
  <2>2. g = [ i \in 0..n |-> g[i] ]
    OBVIOUS
  <2> HIDE DEF g, n
  <2>1. \A i \in 0..n : g[i] = IF i = 0 THEN Done(p, n) ELSE NextElement(b, g[i - 1])
    BY <1>1, <1>2, <1>3
  <2> QED BY <1>1, <2>1, <2>2 DEF Passing
<1> HIDE DEF g, n
<1>5. p <= Len(b) + 1
  BY <1>1 DEF n
<1>6. g[Stretch(b, p, n)] = Done(p + n, 0)
  BY <1>1, <1>3
<1>7. PassBytes(b, p, n) = Done(p + n, <<>>)
  BY <1>1, <1>4, <1>5, <1>6, PassIs
<1> QED BY <1>7 DEF n

LEMMA ReadBytesIs ==
    ASSUME NEW b, NEW p, NEW n, NEW e, PassBytes(b, p, n) = Done(e, <<>>)
    PROVE  readBytes(b, p, n) = Done(e, SubSeq(b, p, e - 1))
<1>1. \A q : Then(q, LAMBDA x : Done(x.pos, SubSeq(b, p, x.pos - 1)))
               = IF q.st = "ok" THEN Done(q.pos, SubSeq(b, p, q.pos - 1)) ELSE q
  BY DEF Then
<1>2. readBytes(b, p, n) = Then(Done(e, <<>>), LAMBDA x : Done(x.pos, SubSeq(b, p, x.pos - 1)))
  BY DEF readBytes
<1>3. Done(e, <<>>).st = "ok" /\ Done(e, <<>>).pos = e
  BY DEF Done
<1> QED BY <1>1, <1>2, <1>3

LEMMA ReadRawIs ==
    ASSUME NEW b, NEW p \in Nat, NEW ns \in Seq(Int), Len(b) \in Nat, p >= 1, NEW S, b \in Seq(S),
           p + Len(ns) <= Len(b) + 1, BytesAt(b, p, ns)
    PROVE  readRaw(b, p, Len(ns)) = Done(p + Len(ns), ns)
<1> DEFINE n == Len(ns)
<1> DEFINE body == SubSeq(b, p, p + n - 1)
<1>1. n \in Nat
  OBVIOUS
<1>2. PassBytes(b, p, n) = Done(p + n, <<>>)
  BY PassNumber
<1>3. readBytes(b, p, n) = Done(p + n, body)
  BY <1>2, ReadBytesIs
<1>4. /\ DOMAIN body = 1..n
      /\ \A i \in 1..n : body[i] = <<ns[i]>>
  <2>1. p \in 1..(Len(b) + 1) /\ p + n - 1 \in (p - 1)..Len(b)
    BY <1>1
  <2>2. /\ Len(body) = p + n - 1 - p + 1 /\ DOMAIN body = 1..Len(body)
        /\ \A i \in 1..(p + n - 1 - p + 1) : body[i] = b[p + i - 1]
    BY <2>1, SubSeqProperties
  <2>3. p + n - 1 - p + 1 = n
    BY <1>1
  <2> HIDE DEF body
  <2> QED BY <2>2, <2>3 DEF BytesAt
<1>5. \A i \in DOMAIN body : IsByte(body[i]) /\ body[i][1] = ns[i]
  <2> HIDE DEF body
  <2> SUFFICES ASSUME NEW i \in DOMAIN body
               PROVE  IsByte(body[i]) /\ body[i][1] = ns[i]
    OBVIOUS
  <2>1. body[i] = <<ns[i]>>
    BY <1>4
  <2> QED BY <2>1, ByteIs
<1>6. [ i \in DOMAIN body |-> body[i][1] ] = ns
  <2>1. [ i \in DOMAIN body |-> body[i][1] ] = [ i \in 1..n |-> ns[i] ]
    BY <1>4, <1>5
  <2>2. ns = [ i \in 1..n |-> ns[i] ]
    OBVIOUS
  <2> QED BY <2>1, <2>2
<1> HIDE DEF body, n
<1> DEFINE r == readBytes(b, p, n)
<1>7. r.st = "ok" /\ r.pos = p + n /\ r.val = body
  BY <1>3 DEF Done
<1> HIDE DEF r
<1>8. readRaw(b, p, n) = IF r.st = "ok"
        THEN IF \A i \in DOMAIN r.val : IsByte(r.val[i])
             THEN Done(r.pos, [ i \in DOMAIN r.val |-> r.val[i][1] ])
             ELSE Fail(r.pos, "misread")
        ELSE r
  BY DEF readRaw, Then, r
<1>9. readRaw(b, p, n) = Done(p + n, ns)
  BY <1>5, <1>6, <1>7, <1>8
<1> QED BY <1>9 DEF n

(* Strings: one element of n bytes at p. *)
LEMMA PassString ==
    ASSUME NEW b, NEW p \in Nat, NEW n \in Nat, Len(b) \in Nat, p <= Len(b), n > 0,
           ~IsByte(b[p]), b[p][2] = n
    PROVE  PassBytes(b, p, n) = Done(p + 1, <<>>)
<1> DEFINE last == Stretch(b, p, n)
<1> DEFINE g == [ i \in 0..last |-> IF i = 0 THEN Done(p, n) ELSE Done(p + 1, 0) ]
<1>1. last \in Nat /\ last >= 1
  BY DEF Stretch
<1>2. SizeOf(b[p]) = n
  BY DEF SizeOf
<1>3. ASSUME NEW i \in 1..last
      PROVE  g[i] = NextElement(b, g[i - 1])
  <2>1. g[i] = Done(p + 1, 0) /\ g[i - 1] = IF i = 1 THEN Done(p, n) ELSE Done(p + 1, 0)
    BY <1>1
  <2>2. n # 0 /\ ~(n > n) /\ n - n = 0
    OBVIOUS
  <2> HIDE DEF g, last
  <2>3. NextElement(b, Done(p, n)) = Done(p + 1, 0)
    BY <1>2, <2>2 DEF NextElement, Done
  <2>4. NextElement(b, Done(p + 1, 0)) = Done(p + 1, 0)
    BY DEF NextElement, Done
  <2> QED BY <2>1, <2>3, <2>4
<1>4. g[0] = Done(p, n) /\ g[last] = Done(p + 1, 0)
  BY <1>1
<1>5. Passing(b, p, n, g)
  <2>2. g = [ i \in 0..last |-> g[i] ]
    OBVIOUS
  <2> HIDE DEF g, last
  <2>1. \A i \in 0..last : g[i] = IF i = 0 THEN Done(p, n) ELSE NextElement(b, g[i - 1])
    BY <1>1, <1>3, <1>4
  <2> QED BY <1>1, <2>1, <2>2 DEF Passing, last
<1> HIDE DEF g
<1> QED BY <1>4, <1>5, PassIs

LEMMA PassNothing ==
    ASSUME NEW b, NEW p \in Nat, Len(b) \in Nat, p <= Len(b) + 1
    PROVE  PassBytes(b, p, 0) = Done(p, <<>>)
<1> DEFINE g == [ i \in 0..0 |-> Done(p, 0) ]
<1>1. Stretch(b, p, 0) = 0
  BY DEF Stretch
<1>2. Passing(b, p, 0, g)
  BY <1>1 DEF Passing
<1>3. g[0] = Done(p, 0)
  OBVIOUS
<1> HIDE DEF g
<1> QED BY <1>1, <1>2, <1>3, PassIs

-----------------------------------------------------------------------------
(* Words. *)

LEMMA LowIs ==
    ASSUME NEW w \in AllWords, NEW k \in 1..8
    PROVE  /\ Low(w, k) \in Seq(0..255)
           /\ Len(Low(w, k)) = k
           /\ \A i \in 1..k : Low(w, k)[i] = w[i]
<1>1. \A i \in 1..k : w[i] \in 0..255
  BY DEF AllWords
<1>2. /\ SubSeq(w, 1, k) \in Seq(0..255)
      /\ Len(SubSeq(w, 1, k)) = k - 1 + 1
      /\ \A i \in 1..(k - 1 + 1) : SubSeq(w, 1, k)[i] = w[1 + i - 1]
  BY <1>1, SubSeqProperties
<1> QED BY <1>2 DEF Low

LEMMA ZeroExtendIs ==
    ASSUME NEW w \in AllWords, NEW k \in 1..8, NEW bs, Len(bs) = k,
           \A i \in 1..k : bs[i] = w[i]
    PROVE  ZeroExtend(bs) = w <=> \A i \in (k + 1)..8 : w[i] = 0
<1>1. w = [ i \in 1..8 |-> w[i] ]
  BY DEF AllWords
<1>2. ZeroExtend(bs) = [ i \in 1..8 |-> IF i <= k THEN w[i] ELSE 0 ]
  BY DEF ZeroExtend
<1>3. (\A i \in (k + 1)..8 : w[i] = 0) <=> (\A i \in 1..8 : w[i] = IF i <= k THEN w[i] ELSE 0)
  OBVIOUS
<1> QED BY <1>1, <1>2, <1>3

LEMMA SignExtendIs ==
    ASSUME NEW w \in AllWords, NEW k \in 1..8, NEW bs, Len(bs) = k,
           \A i \in 1..k : bs[i] = w[i]
    PROVE  SignExtend(bs) = w
             <=> \A i \in (k + 1)..8 : w[i] = IF w[k] >= 128 THEN 255 ELSE 0
<1> DEFINE sign == IF w[k] >= 128 THEN 255 ELSE 0
<1>1. w = [ i \in 1..8 |-> w[i] ]
  BY DEF AllWords
<1>2. SignExtend(bs) = [ i \in 1..8 |-> IF i <= k THEN w[i] ELSE sign ]
  <2>1. bs[Len(bs)] = w[k]
    OBVIOUS
  <2>2. \A i \in 1..8 : (IF i <= Len(bs) THEN bs[i] ELSE IF bs[Len(bs)] >= 128 THEN 255 ELSE 0)
                        = IF i <= k THEN w[i] ELSE sign
    BY <2>1
  <2> QED BY <2>2 DEF SignExtend
<1> HIDE DEF sign
<1>3. (\A i \in (k + 1)..8 : w[i] = sign) <=> (\A i \in 1..8 : w[i] = IF i <= k THEN w[i] ELSE sign)
  OBVIOUS
<1>4. SignExtend(bs) = w <=> \A i \in (k + 1)..8 : w[i] = sign
  BY <1>1, <1>2, <1>3
<1> QED BY <1>4 DEF sign

LEMMA FitsUintIs ==
    ASSUME NEW w \in AllWords, NEW k \in 1..8
    PROVE  FitsUint(w, k) <=> \A i \in (k + 1)..8 : w[i] = 0
<1>1. ZeroExtend(Low(w, k)) = w <=> \A i \in (k + 1)..8 : w[i] = 0
  BY LowIs, ZeroExtendIs
<1> QED BY <1>1 DEF FitsUint

LEMMA FitsIntIs ==
    ASSUME NEW w \in AllWords, NEW k \in 1..8
    PROVE  FitsInt(w, k) <=> \A i \in (k + 1)..8 : w[i] = IF w[k] >= 128 THEN 255 ELSE 0
<1>1. SignExtend(Low(w, k)) = w <=> \A i \in (k + 1)..8 : w[i] = IF w[k] >= 128 THEN 255 ELSE 0
  BY LowIs, SignExtendIs
<1> QED BY <1>1 DEF FitsInt

(* The words of 14 bits. *)
Octet(x) == x \in Int /\ x >= 0 /\ x <= 255

LEMMA OctetIs == \A x : x \in 0..255 <=> Octet(x)
<1>1. \A hi \in Int : \A x : x \in 0..hi <=> (x \in Int /\ x >= 0 /\ x <= hi)
  OBVIOUS
<1>2. 255 \in Int
  OBVIOUS
<1> QED BY <1>1, <1>2, Zenon DEF Octet

LEMMA WordBytes == ASSUME NEW w \in AllWords, NEW i \in 1..8 PROVE Octet(w[i])
<1>1. w[i] \in 0..255
  BY Zenon DEF AllWords
<1> QED BY <1>1, OctetIs, Zenon

ValOf(a, b, c, d) == a + 256 * b + 65536 * c + 16777216 * (IF d >= 128 THEN d - 256 ELSE d)

LEMMA ValIs == \A w : Val(w) = ValOf(w[1], w[2], w[3], w[4])
BY DEF Val, ValOf

LEMMA SmallNumber ==
    ASSUME NEW a, NEW b, NEW c, NEW d, Octet(a), Octet(b), Octet(c), Octet(d),
           ValOf(a, b, c, d) >= 0, ValOf(a, b, c, d) <= 16383
    PROVE  d = 0 /\ c = 0 /\ b <= 63 /\ ValOf(a, b, c, d) = a + 256 * b
<1>1. d < 128
  <2> SUFFICES ASSUME d >= 128
               PROVE  FALSE
    BY DEF Octet
  <2>1. ValOf(a, b, c, d) = a + 256 * b + 65536 * c + 16777216 * (d - 256)
    BY DEF ValOf
  <2> QED BY <2>1 DEF Octet
<1>2. ValOf(a, b, c, d) = a + 256 * b + 65536 * c + 16777216 * d
  BY <1>1 DEF ValOf, Octet
<1>3. d = 0
  BY <1>2 DEF Octet
<1>4. c = 0
  BY <1>2, <1>3 DEF Octet
<1>5. ValOf(a, b, c, d) = a + 256 * b
  BY <1>2, <1>3, <1>4 DEF Octet
<1> QED BY <1>3, <1>4, <1>5 DEF Octet

LEMMA NumberType ==
    ASSUME NEW a, NEW b, NEW c, NEW d, Octet(a), Octet(b), Octet(c), Octet(d)
    PROVE  ValOf(a, b, c, d) \in Int
BY DEF ValOf, Octet

(* A word of 14 bits is its two low bytes. *)
LEMMA SmallWord ==
    ASSUME NEW w \in AllWords, NEW m \in Nat, m <= 16383, InRange(w, 0, m)
    PROVE  /\ \A i \in 3..8 : w[i] = 0
           /\ w[2] <= 63
           /\ w[1] + 256 * w[2] <= m
<1>1. Octet(w[1]) /\ Octet(w[2]) /\ Octet(w[3]) /\ Octet(w[4])
  BY WordBytes
<1> DEFINE v == ValOf(w[1], w[2], w[3], w[4])
<1>2. Val(w) = v
  BY ValIs
<1>3. v \in Int
  BY <1>1, NumberType
<1>4. FitsInt(w, 4) /\ v >= 0 /\ v <= m
  BY <1>2 DEF InRange
<1>5. v <= 16383
  <2> HIDE DEF v
  <2> QED BY <1>3, <1>4
<1>6. w[4] = 0 /\ w[3] = 0 /\ w[2] <= 63 /\ v = w[1] + 256 * w[2]
  BY <1>1, <1>4, <1>5, SmallNumber
<1> HIDE DEF v
<1>7. \A i \in (4 + 1)..8 : w[i] = IF w[4] >= 128 THEN 255 ELSE 0
  BY <1>4, FitsIntIs
<1>8. \A i \in (4 + 1)..8 : w[i] = 0
  BY <1>6, <1>7
<1>9. \A i \in 3..8 : w[i] = 0
  BY <1>6, <1>8
<1> QED BY <1>4, <1>6, <1>9

LEMMA BytesOf ==
    ASSUME NEW a, NEW b, NEW n, Octet(a), Octet(b), n = a + 256 * b
    PROVE  /\ ~(n < 0)
           /\ n % 256 = a
           /\ (n \div 256) % 256 = b
           /\ (n \div 65536) % 256 = 0
           /\ (n \div 16777216) % 256 = 0
<1>1. n \in Int /\ n >= 0 /\ n < 65536
  BY DEF Octet
<1>2. n % 256 = a /\ n \div 256 = b
  BY DEF Octet
<1>3. n \div 65536 = 0 /\ n \div 16777216 = 0
  BY <1>1
<1>4. b % 256 = b
  BY DEF Octet
<1> QED BY <1>1, <1>2, <1>3, <1>4

LEMMA WordIs ==
    ASSUME NEW w \in AllWords, \A i \in 3..8 : w[i] = 0
    PROVE  Word(w[1] + 256 * w[2]) = w
<1>1. Octet(w[1]) /\ Octet(w[2])
  BY WordBytes
<1>2. ASSUME NEW n, n = w[1] + 256 * w[2]
      PROVE  Word(n) = << w[1], w[2], 0, 0, 0, 0, 0, 0 >>
  <2>1. /\ ~(n < 0)
        /\ n % 256 = w[1]
        /\ (n \div 256) % 256 = w[2]
        /\ (n \div 65536) % 256 = 0
        /\ (n \div 16777216) % 256 = 0
    BY <1>1, <1>2, BytesOf
  <2> QED BY <2>1 DEF Word
<1>3. w = [ i \in 1..8 |-> w[i] ]
  BY DEF AllWords
<1>4. w = << w[1], w[2], 0, 0, 0, 0, 0, 0 >>
  BY <1>3
<1> QED BY <1>2, <1>4

-----------------------------------------------------------------------------
(* Lengths. *)

Turned(ns) == [ i \in 1..Len(ns) |-> ns[Len(ns) - i + 1] ]

LEMMA BEIs == ASSUME NEW w, NEW k PROVE BE(w, k) = Bytes(Turned(Low(w, k)))
BY DEF BE, Reverse, Turned

LEMMA ReadBEIs ==
    ASSUME NEW b, NEW p, NEW n, NEW e, NEW ns, readRaw(b, p, n) = Done(e, ns)
    PROVE  readBE(b, p, n) = Done(e, ZeroExtend(Turned(ns)))
<1>1. readBE(b, p, n) = As(Done(e, ns), LAMBDA bs : ZeroExtend(Reverse(bs)))
  BY DEF readBE
<1>2. \A q : As(q, LAMBDA bs : ZeroExtend(Reverse(bs)))
               = IF q.st = "ok" THEN Done(q.pos, ZeroExtend(Reverse(q.val))) ELSE q
  BY DEF As
<1>3. Done(e, ns).st = "ok" /\ Done(e, ns).pos = e /\ Done(e, ns).val = ns
  BY DEF Done
<1>4. readBE(b, p, n) = Done(e, ZeroExtend(Reverse(ns)))
  BY <1>1, <1>2, <1>3
<1> QED BY <1>4 DEF Reverse, Turned

LEMMA ReadIntIs ==
    ASSUME NEW b, NEW p, NEW n, NEW e, NEW ns, readRaw(b, p, n) = Done(e, ns)
    PROVE  readInt(b, p, n) = Done(e, SignExtend(ns))
<1>1. readInt(b, p, n) = As(Done(e, ns), SignExtend)
  BY DEF readInt
<1>2. \A q : As(q, SignExtend) = IF q.st = "ok" THEN Done(q.pos, SignExtend(q.val)) ELSE q
  BY DEF As
<1>3. Done(e, ns).st = "ok" /\ Done(e, ns).pos = e /\ Done(e, ns).val = ns
  BY DEF Done
<1> QED BY <1>1, <1>2, <1>3

LEMMA DoneIs == \A p, v : Done(p, v).st = "ok" /\ Done(p, v).pos = p /\ Done(p, v).val = v
BY DEF Done

(* The reading of a header: what follows its first byte. *)
Plain(r)       == IF r.st = "ok" THEN Done(r.pos, <<r.val, FALSE>>) ELSE r
TwoBytes(r, x) == IF r.st = "ok" THEN Done(r.pos, <<Word((x - 64) * 256 + r.val), FALSE>>) ELSE r

AfterByte(x, p, one, four, eight) ==
    CASE x < 64              -> Done(p, <<Word(x), FALSE>>)
      [] x >= 64 /\ x < 128  -> one
      [] x = 128             -> four
      [] x = 129             -> eight
      [] x > 129 /\ x < 192  -> Fail(p, "error")
      [] OTHER               -> Done(p, <<Word(x - 192), TRUE>>)

Header(b, p, x) ==
    AfterByte(x, p, TwoBytes(readByte(b, p), x), Plain(readBE(b, p, 4)), Plain(readBE(b, p, 8)))

LEMMA OkIs ==
    /\ \A p, v : Plain(Done(p, v)) = Done(p, <<v, FALSE>>)
    /\ \A p, v, x : TwoBytes(Done(p, v), x) = Done(p, <<Word((x - 64) * 256 + v), FALSE>>)
BY DoneIs DEF Plain, TwoBytes

LEMMA HeaderIs ==
    ASSUME NEW b, NEW p, NEW q, NEW x, readByte(b, p) = Done(q, x)
    PROVE  readLengthOrSpecial(b, p) = Header(b, q, x)
<1> DEFINE Rest(h) ==
      AfterByte(h.val, h.pos,
             As(readByte(b, h.pos), LAMBDA l : <<Word((h.val - 64) * 256 + l), FALSE>>),
             As(readBE(b, h.pos, 4), LAMBDA w : <<w, FALSE>>),
             As(readBE(b, h.pos, 8), LAMBDA w : <<w, FALSE>>))
<1>1. readLengthOrSpecial(b, p) = Then(readByte(b, p), Rest)
  BY DEF readLengthOrSpecial, AfterByte
<1>2. ASSUME NEW h
      PROVE  Rest(h) = Header(b, h.pos, h.val)
  <2>1. \A r : As(r, LAMBDA l : <<Word((h.val - 64) * 256 + l), FALSE>>) = TwoBytes(r, h.val)
    BY DEF As, TwoBytes
  <2>2. \A r : As(r, LAMBDA w : <<w, FALSE>>) = Plain(r)
    BY DEF As, Plain
  <2> QED BY <2>1, <2>2 DEF Header
<1> HIDE DEF Rest
<1>3. \A r : Then(r, Rest) = IF r.st = "ok" THEN Rest(r) ELSE r
  BY DEF Then
<1>4. readLengthOrSpecial(b, p) = Rest(Done(q, x))
  BY <1>1, <1>3, DoneIs
<1> QED BY <1>2, <1>4, DoneIs

LEMMA TurnedIs ==
    ASSUME NEW T, NEW ns \in Seq(T)
    PROVE  Turned(ns) \in Seq(T) /\ Len(Turned(ns)) = Len(ns) /\ Turned(Turned(ns)) = ns
<1>1. Turned(ns) \in Seq(T) /\ Len(Turned(ns)) = Len(ns)
  BY DEF Turned
<1>2. \A i \in 1..Len(ns) : Turned(ns)[Len(ns) - i + 1] = ns[i]
  BY DEF Turned
<1>3. Turned(Turned(ns)) = [ i \in 1..Len(ns) |-> ns[i] ]
  <2> DEFINE t == Turned(ns)
  <2>1. Turned(t) = [ i \in 1..Len(ns) |-> t[Len(ns) - i + 1] ]
    BY <1>1 DEF Turned
  <2> QED BY <1>2, <2>1
<1>4. ns = [ i \in 1..Len(ns) |-> ns[i] ]
  OBVIOUS
<1> QED BY <1>1, <1>3, <1>4

LowFirst(w, k) == Turned(Low(w, k))

LEMMA LowFirstIs ==
    ASSUME NEW w \in AllWords, NEW k \in 1..8
    PROVE  /\ LowFirst(w, k) \in Seq(Int) /\ Len(LowFirst(w, k)) = k
           /\ ZeroExtend(Turned(LowFirst(w, k))) = ZeroExtend(Low(w, k))
<1>1. Low(w, k) \in Seq(0..255) /\ Len(Low(w, k)) = k
  BY LowIs
<1>2. Low(w, k) \in Seq(Int)
  <2>1. \A hi \in Int : \A s \in Seq(0..hi) : s \in Seq(Int)
    OBVIOUS
  <2>2. 255 \in Int
    OBVIOUS
  <2> QED BY <1>1, <2>1, <2>2, Zenon
<1> QED BY <1>1, <1>2, TurnedIs, Zenon DEF LowFirst

(* The bytes a length is written in. *)
LengthForm(w, ns) ==
    \/ InRange(w, 0, 63) /\ ns = <<w[1]>>
    \/ InRange(w, 0, 16383) /\ ns = <<64 + w[2], w[1]>>
    \/ FitsUint(w, 4) /\ ns = <<128>> \o LowFirst(w, 4)
    \/ ns = <<129>> \o LowFirst(w, 8)

LEMMA LongLengthRead ==
    ASSUME NEW w \in AllWords, NEW k \in {4, 8}, NEW S, NEW b \in Seq(S), NEW h, FitsUint(w, k),
           k + 1 <= Len(b), BytesAt(b, 1, <<h>> \o LowFirst(w, k))
    PROVE  readBE(b, 2, k) = Done(k + 2, w)
<1> DEFINE ns == LowFirst(w, k)
<1>1. k \in 1..8
  OBVIOUS
<1>2. ns \in Seq(Int) /\ Len(ns) = k /\ ZeroExtend(Turned(ns)) = w
  BY <1>1, LowFirstIs DEF FitsUint
<1> HIDE DEF ns
<1>3. BytesAt(b, 2, ns)
  <2> SUFFICES ASSUME NEW i \in 1..Len(ns)
               PROVE  b[2 + i - 1] = <<ns[i]>>
    BY DEF BytesAt
  <2>1. Len(<<h>> \o ns) = k + 1 /\ (<<h>> \o ns)[i + 1] = ns[i]
    BY <1>1, <1>2
  <2>2. i + 1 \in 1..(k + 1)
    BY <1>1, <1>2
  <2>3. b[1 + (i + 1) - 1] = <<(<<h>> \o ns)[i + 1]>>
    BY <2>1, <2>2 DEF BytesAt, ns
  <2> QED BY <2>1, <2>3
<1>4. readRaw(b, 2, Len(ns)) = Done(2 + Len(ns), ns)
  <2>1. Len(b) \in Nat /\ 2 + Len(ns) <= Len(b) + 1 /\ 2 \in Nat /\ 2 >= 1
    BY <1>2
  <2> QED BY <1>2, <1>3, <2>1, ReadRawIs
<1>5. readRaw(b, 2, k) = Done(k + 2, ns)
  BY <1>1, <1>2, <1>4
<1>6. readBE(b, 2, k) = Done(k + 2, ZeroExtend(Turned(ns)))
  BY <1>5, ReadBEIs
<1> QED BY <1>2, <1>6

LEMMA LengthRead ==
    ASSUME NEW w \in AllWords, NEW S, NEW b \in Seq(S), NEW ns, LengthForm(w, ns),
           Len(ns) <= Len(b), BytesAt(b, 1, ns)
    PROVE  readLengthOrSpecial(b, 1) = Done(Len(ns) + 1, <<w, FALSE>>)
<1>1. ASSUME NEW i \in Nat, i >= 1, i <= Len(ns), Len(ns) \in Nat
      PROVE  readByte(b, i) = Done(i + 1, ns[i])
  <2>1. b[1 + i - 1] = <<ns[i]>>
    BY <1>1 DEF BytesAt
  <2>2. b[i] = <<ns[i]>>
    BY <2>1
  <2> QED BY <1>1, <2>2, ReadByteIs
<1>2. Octet(w[1]) /\ Octet(w[2])
  BY WordBytes
<1>3. CASE InRange(w, 0, 63) /\ ns = <<w[1]>>
  <2>1. (\A i \in 3..8 : w[i] = 0) /\ w[1] + 256 * w[2] <= 63
    BY <1>3, SmallWord
  <2>2. w[2] = 0 /\ w[1] < 64 /\ w[1] + 256 * w[2] = w[1]
    BY <1>2, <2>1 DEF Octet
  <2>3. Word(w[1]) = w
    BY <2>1, <2>2, WordIs
  <2>4. readByte(b, 1) = Done(2, w[1])
    BY <1>1, <1>3
  <2>5. readLengthOrSpecial(b, 1) = Header(b, 2, w[1])
    BY <2>4, HeaderIs
  <2>6. Header(b, 2, w[1]) = Done(2, <<w, FALSE>>)
    BY <1>2, <2>2, <2>3 DEF Header, AfterByte, Octet
  <2> QED BY <1>3, <2>5, <2>6
<1>4. CASE InRange(w, 0, 16383) /\ ns = <<64 + w[2], w[1]>>
  <2>1. (\A i \in 3..8 : w[i] = 0) /\ w[2] <= 63
    BY <1>4, SmallWord
  <2>2. Word(w[1] + 256 * w[2]) = w
    BY <2>1, WordIs
  <2>3. readByte(b, 1) = Done(2, 64 + w[2]) /\ readByte(b, 2) = Done(3, w[1])
    BY <1>1, <1>4
  <2> DEFINE x == 64 + w[2]
  <2>4. x \in Int /\ x >= 64 /\ x < 128 /\ ~(x < 64)
    BY <1>2, <2>1 DEF Octet
  <2>10. (x - 64) * 256 + w[1] = w[1] + 256 * w[2]
    BY <1>2 DEF Octet
  <2>5. readLengthOrSpecial(b, 1) = Header(b, 2, x)
    BY <2>3, HeaderIs
  <2> HIDE DEF x
  <2>6. Header(b, 2, x) = TwoBytes(readByte(b, 2), x)
    BY <2>4 DEF Header, AfterByte
  <2>7. Header(b, 2, x) = Done(3, <<Word((x - 64) * 256 + w[1]), FALSE>>)
    <3>1. Header(b, 2, x) = TwoBytes(Done(3, w[1]), x)
      BY <2>3, <2>6, Zenon
    <3>2. TwoBytes(Done(3, w[1]), x) = Done(3, <<Word((x - 64) * 256 + w[1]), FALSE>>)
      BY DoneIs DEF TwoBytes
    <3> QED BY <3>1, <3>2
  <2>8. Word((x - 64) * 256 + w[1]) = w
    BY <2>2, <2>10
  <2>9. Len(ns) + 1 = 3
    BY <1>4
  <2> QED BY <2>5, <2>7, <2>8, <2>9
<1>5. ASSUME NEW k \in {4, 8}, NEW h, h = (IF k = 4 THEN 128 ELSE 129), FitsUint(w, k),
             ns = <<h>> \o LowFirst(w, k)
      PROVE  readLengthOrSpecial(b, 1) = Done(Len(ns) + 1, <<w, FALSE>>)
  <2>0. k \in 1..8
    OBVIOUS
  <2>1. LowFirst(w, k) \in Seq(Int) /\ Len(LowFirst(w, k)) = k
    BY <2>0, LowFirstIs
  <2>2. Len(ns) = k + 1 /\ ns[1] = h
    BY <1>5, <2>1
  <2>3. readByte(b, 1) = Done(2, h)
    BY <1>1, <2>2
  <2>4. readBE(b, 2, k) = Done(k + 2, w)
    BY <1>5, <2>2, LongLengthRead
  <2>5. readLengthOrSpecial(b, 1) = Header(b, 2, h)
    BY <2>3, HeaderIs
  <2>6. Header(b, 2, h) = Plain(readBE(b, 2, k))
    BY <1>5 DEF Header, AfterByte
  <2>7. Header(b, 2, h) = Done(k + 2, <<w, FALSE>>)
    <3>1. Header(b, 2, h) = Plain(Done(k + 2, w))
      BY <2>4, <2>6, Zenon
    <3> QED BY <3>1, OkIs, Zenon
  <2> QED BY <2>2, <2>5, <2>7
<1>6. CASE FitsUint(w, 4) /\ ns = <<128>> \o LowFirst(w, 4)
  BY <1>5, <1>6
<1>7. CASE ns = <<129>> \o LowFirst(w, 8)
  <2>1. FitsUint(w, 8)
    BY FitsUintIs
  <2>2. 8 \in {4, 8} /\ 129 = (IF 8 = 4 THEN 128 ELSE 129)
    OBVIOUS
  <2> QED BY <1>5, <1>7, <2>1, <2>2, Zenon
<1> QED BY <1>3, <1>4, <1>6, <1>7 DEF LengthForm

Chunk == Seq(Int)       \* the bytes that are numbers are among them

LEMMA BytesIs ==
    ASSUME NEW ns \in Seq(Int)
    PROVE  /\ Bytes(ns) \in Seq(Chunk)
           /\ Len(Bytes(ns)) = Len(ns)
           /\ \A i \in 1..Len(ns) : Bytes(ns)[i] = <<ns[i]>>
<1>1. \A i \in 1..Len(ns) : <<ns[i]>> \in Chunk
  BY DEF Chunk
<1>2. Bytes(ns) = [ i \in 1..Len(ns) |-> <<ns[i]>> ]
  BY DEF Bytes
<1> QED BY <1>1, <1>2

LEMMA BytesJoined ==
    ASSUME NEW h \in Int, NEW ns \in Seq(Int)
    PROVE  /\ Bytes(<<h>>) \o Bytes(ns) = Bytes(<<h>> \o ns)
           /\ <<h>> \o ns \in Seq(Int) /\ Len(<<h>> \o ns) = Len(ns) + 1
<1> DEFINE all == <<h>> \o ns
<1>1. all \in Seq(Int) /\ Len(all) = Len(ns) + 1 /\ <<h>> \in Seq(Int) /\ Len(<<h>>) = 1
  OBVIOUS
<1>2. all[1] = h /\ \A i \in 2..(Len(ns) + 1) : all[i] = ns[i - 1]
  OBVIOUS
<1> DEFINE one == Bytes(<<h>>)
<1> DEFINE more == Bytes(ns)
<1>3. /\ one \in Seq(Chunk) /\ Len(one) = 1 /\ one[1] = <<h>>
      /\ more \in Seq(Chunk) /\ Len(more) = Len(ns)
      /\ \A i \in 1..Len(ns) : more[i] = <<ns[i]>>
  <2>1. 1 \in 1..Len(<<h>>) /\ <<h>>[1] = h
    OBVIOUS
  <2> QED BY <1>1, <2>1, BytesIs
<1>4. Bytes(all) \in Seq(Chunk) /\ Len(Bytes(all)) = Len(ns) + 1
  BY <1>1, BytesIs
<1>5. \A i \in 1..(Len(ns) + 1) : Bytes(all)[i] = <<all[i]>>
  BY <1>1, BytesIs
<1> HIDE DEF all, one, more
<1>6. /\ one \o more \in Seq(Chunk)
      /\ Len(one \o more) = Len(one) + Len(more)
      /\ \A i \in 1..(Len(one) + Len(more)) :
           (one \o more)[i] = IF i <= Len(one) THEN one[i] ELSE more[i - Len(one)]
  <2>1. one \in Seq(Chunk) /\ more \in Seq(Chunk)
    BY <1>3
  <2> QED BY <2>1, ConcatProperties, Zenon
<1> DEFINE u == one \o more
<1>7. /\ u \in Seq(Chunk) /\ Len(u) = Len(ns) + 1
      /\ \A i \in 1..(Len(ns) + 1) : u[i] = <<all[i]>>
  <2> HIDE DEF u
  <2>1. /\ u \in Seq(Chunk) /\ Len(u) = 1 + Len(ns)
        /\ \A i \in 1..(1 + Len(ns)) : u[i] = IF i <= 1 THEN one[i] ELSE more[i - 1]
    BY <1>3, <1>6 DEF u
  <2> SUFFICES ASSUME NEW i \in 1..(Len(ns) + 1)
               PROVE  u[i] = <<all[i]>>
    BY <2>1
  <2>2. u[i] = IF i <= 1 THEN one[i] ELSE more[i - 1]
    BY <2>1
  <2>3. CASE i = 1
    BY <1>2, <1>3, <2>2, <2>3
  <2>4. CASE i # 1
    <3>1. i \in 2..(Len(ns) + 1) /\ i - 1 \in 1..Len(ns) /\ ~(i <= 1)
      BY <2>4
    <3>2. more[i - 1] = <<ns[i - 1]>> /\ all[i] = ns[i - 1]
      BY <1>2, <1>3, <3>1
    <3> QED BY <2>2, <3>1, <3>2
  <2> QED BY <2>3, <2>4
<1>8. u = Bytes(all)
  <2> DEFINE v == Bytes(all)
  <2> HIDE DEF u
  <2>1. u \in Seq(Chunk) /\ v \in Seq(Chunk) /\ Len(u) = Len(v) /\ \A i \in 1..Len(u) : u[i] = v[i]
    BY <1>4, <1>5, <1>7
  <2> HIDE DEF v
  <2>2. u = v
    BY <2>1
  <2> QED BY <2>2 DEF v
<1> QED BY <1>1, <1>8 DEF all, one, more

(* writeLength writes one of the forms. *)
LengthBytes(w, ns) == LengthForm(w, ns) /\ writeLength(w) = Bytes(ns) /\ Len(ns) >= 1

LEMMA LengthWritten ==
    ASSUME NEW w \in AllWords
    PROVE  \E ns \in Seq(Int) : LengthBytes(w, ns)
<1>1. w[1] \in Int /\ w[2] \in Int
  BY WordBytes DEF Octet
<1>2. CASE FitsUint(w, 4) /\ InRange(w, 0, 63)
  <2>1. Low(w, 1) = <<w[1]>>
    <3>1. Len(Low(w, 1)) = 1 /\ Low(w, 1)[1] = w[1] /\ Low(w, 1) \in Seq(0..255)
      BY LowIs
    <3> DEFINE l == Low(w, 1)
    <3> HIDE DEF l
    <3>2. Len(l) = 1 /\ l = [ i \in 1..Len(l) |-> l[i] ]
      BY <3>1 DEF l
    <3>3. l[1] = w[1]
      BY <3>1 DEF l
    <3> QED BY <3>2, <3>3 DEF l
  <2>2. writeLength(w) = Bytes(<<w[1]>>)
    BY <1>2, <2>1 DEF writeLength, LE
  <2>3. <<w[1]>> \in Seq(Int) /\ Len(<<w[1]>>) = 1 /\ LengthForm(w, <<w[1]>>)
    BY <1>1, <1>2 DEF LengthForm
  <2>4. LengthBytes(w, <<w[1]>>)
    BY <2>2, <2>3 DEF LengthBytes
  <2> QED BY <2>3, <2>4, Zenon
<1>3. CASE ~(FitsUint(w, 4) /\ InRange(w, 0, 63)) /\ InRange(w, 0, 16383)
  <2>1. writeLength(w) = Bytes(<<64 + w[2], w[1]>>)
    BY <1>3 DEF writeLength
  <2>2. <<64 + w[2], w[1]>> \in Seq(Int) /\ Len(<<64 + w[2], w[1]>>) = 2
    BY <1>1
  <2>3. LengthForm(w, <<64 + w[2], w[1]>>)
    BY <1>3 DEF LengthForm
  <2>4. LengthBytes(w, <<64 + w[2], w[1]>>)
    BY <2>1, <2>2, <2>3 DEF LengthBytes
  <2> QED BY <2>2, <2>4, Zenon
<1>4. ASSUME NEW k \in 1..8, NEW h \in Int
      PROVE  /\ <<h>> \o LowFirst(w, k) \in Seq(Int)
             /\ Len(<<h>> \o LowFirst(w, k)) >= 1
             /\ Bytes(<<h>>) \o BE(w, k) = Bytes(<<h>> \o LowFirst(w, k))
  <2>1. LowFirst(w, k) \in Seq(Int)
    BY LowFirstIs
  <2>2. BE(w, k) = Bytes(LowFirst(w, k))
    BY BEIs DEF LowFirst
  <2> DEFINE low == LowFirst(w, k)
  <2> HIDE DEF low
  <2>3. low \in Seq(Int) /\ Len(low) \in Nat
    BY <2>1 DEF low
  <2>4. Bytes(<<h>>) \o Bytes(low) = Bytes(<<h>> \o low)
    BY <2>3, BytesJoined
  <2>5. <<h>> \o low \in Seq(Int) /\ Len(<<h>> \o low) >= 1
    BY <2>3, BytesJoined
  <2> QED BY <2>2, <2>4, <2>5 DEF low
<1>5. CASE /\ ~(FitsUint(w, 4) /\ InRange(w, 0, 63)) /\ ~InRange(w, 0, 16383)
           /\ FitsUint(w, 4)
  <2>1. writeLength(w) = Bytes(<<128>>) \o BE(w, 4)
    BY <1>5 DEF writeLength
  <2>2. 4 \in 1..8 /\ 128 \in Int
    OBVIOUS
  <2>3. LengthForm(w, <<128>> \o LowFirst(w, 4))
    BY <1>5 DEF LengthForm
  <2>4. LengthBytes(w, <<128>> \o LowFirst(w, 4)) /\ <<128>> \o LowFirst(w, 4) \in Seq(Int)
    BY <1>4, <2>1, <2>2, <2>3 DEF LengthBytes
  <2> QED BY <2>4, Zenon
<1>6. CASE /\ ~(FitsUint(w, 4) /\ InRange(w, 0, 63)) /\ ~InRange(w, 0, 16383)
           /\ ~FitsUint(w, 4)
  <2>1. writeLength(w) = Bytes(<<129>>) \o BE(w, 8)
    BY <1>6 DEF writeLength
  <2>2. 8 \in 1..8 /\ 129 \in Int
    OBVIOUS
  <2>3. LengthForm(w, <<129>> \o LowFirst(w, 8))
    BY DEF LengthForm
  <2>4. LengthBytes(w, <<129>> \o LowFirst(w, 8)) /\ <<129>> \o LowFirst(w, 8) \in Seq(Int)
    BY <1>4, <2>1, <2>2, <2>3 DEF LengthBytes
  <2> QED BY <2>4, Zenon
<1> QED BY <1>2, <1>3, <1>5, <1>6

LEMMA LengthsRoundTrip ==
    ASSUME NEW w \in AllWords
    PROVE  readLength(writeLength(w), 1) = Done(Len(writeLength(w)) + 1, w)
<1>1. PICK ns \in Seq(Int) : LengthForm(w, ns) /\ writeLength(w) = Bytes(ns)
  BY LengthWritten DEF LengthBytes
<1> DEFINE b == Bytes(ns)
<1>2. b \in Seq(Chunk) /\ Len(b) = Len(ns) /\ BytesAt(b, 1, ns)
  BY BytesIs DEF BytesAt
<1> HIDE DEF b
<1>3. Len(ns) <= Len(b)
  BY <1>2
<1>4. readLengthOrSpecial(b, 1) = Done(Len(ns) + 1, <<w, FALSE>>)
  BY <1>1, <1>2, <1>3, LengthRead
<1>5. readLength(b, 1) = As(Done(Len(ns) + 1, <<w, FALSE>>), LAMBDA l : l[1])
  BY <1>4 DEF readLength
<1>6. \A q : As(q, LAMBDA l : l[1]) = IF q.st = "ok" THEN Done(q.pos, q.val[1]) ELSE q
  BY DEF As
<1>7. readLength(b, 1) = Done(Len(ns) + 1, <<w, FALSE>>[1])
  BY <1>5, <1>6, DoneIs
<1> QED BY <1>1, <1>2, <1>7 DEF b

-----------------------------------------------------------------------------
(* Strings. *)

LEMMA SizeIs ==
    /\ Size(<<>>) = 0
    /\ \A x : SizeOf(x) \in Nat => Size(<<x>>) = SizeOf(x)
<1>1. Size(<<>>) = 0
  <2> DEFINE IsUpTo(h) == h = [ i \in 0..0 |-> IF i = 0 THEN 0 ELSE h[i - 1] + SizeOf(<<>>[i]) ]
  <2> DEFINE g == [ i \in 0..0 |-> 0 ]
  <2> DEFINE f == CHOOSE h : IsUpTo(h)
  <2>1. Size(<<>>) = f[0]
    <3>1. Len(<<>>) = 0
      OBVIOUS
    <3> QED BY <3>1 DEF Size
  <2>2. IsUpTo(g)
    OBVIOUS
  <2> HIDE DEF IsUpTo
  <2>3. IsUpTo(f)
    BY <2>2
  <2>4. f[0] = 0
    <3> HIDE DEF f
    <3> QED BY <2>3 DEF IsUpTo
  <2> QED BY <2>1, <2>4
<1>2. ASSUME NEW x, SizeOf(x) \in Nat
      PROVE  Size(<<x>>) = SizeOf(x)
  <2> DEFINE b == <<x>>
  <2> DEFINE IsUpTo(h) == h = [ i \in 0..1 |-> IF i = 0 THEN 0 ELSE h[i - 1] + SizeOf(b[i]) ]
  <2> DEFINE g == [ i \in 0..1 |-> IF i = 0 THEN 0 ELSE SizeOf(x) ]
  <2> DEFINE f == CHOOSE h : IsUpTo(h)
  <2>1. Size(b) = f[1]
    <3>1. Len(b) = 1
      OBVIOUS
    <3> QED BY <3>1 DEF Size
  <2>2. b[1] = x
    OBVIOUS
  <2> HIDE DEF b
  <2>3. IsUpTo(g)
    BY <1>2, <2>2
  <2> HIDE DEF IsUpTo
  <2>4. IsUpTo(f)
    BY <2>3
  <2>5. f[1] = SizeOf(x)
    <3> HIDE DEF f
    <3>1. f = [ i \in 0..1 |-> IF i = 0 THEN 0 ELSE f[i - 1] + SizeOf(b[i]) ]
      BY <2>4 DEF IsUpTo
    <3>2. f[0] = 0
      BY <3>1
    <3>3. f[1] = f[0] + SizeOf(b[1])
      BY <3>1
    <3> QED BY <1>2, <2>2, <3>2, <3>3
  <2> QED BY <2>1, <2>5 DEF b
<1> QED BY <1>1, <1>2

(* The number of digits of a word is from 1 to 20. *)
LEMMA DigitsIs == ASSUME NEW w PROVE Digits(w) \in 1..20
<1> DEFINE Next10(s, n) == IF FitsUint(s[1], 1) /\ s[1][1] < 10 THEN s ELSE <<DivTen(s[1]), n>>
<1> DEFINE Upto(m, h) == h = [ n \in 0..m |-> IF n = 0 THEN <<w, 0>> ELSE Next10(h[n - 1], n) ]
<1> DEFINE Step(h, n) == With(h[n - 1], LAMBDA s : IF FitsUint(s[1], 1) /\ s[1][1] < 10 THEN s
                                                       ELSE <<DivTen(s[1]), n>>)
<1> DEFINE IsShorter(h) == h = [ n \in 0..19 |-> IF n = 0 THEN <<w, 0>> ELSE Step(h, n) ]
<1> DEFINE f == CHOOSE h : IsShorter(h)
<1>1. Digits(w) = f[19][2] + 1
  BY DEF Digits
<1>2. \A h : IsShorter(h) <=> Upto(19, h)
  <2>1. ASSUME NEW h, NEW n
        PROVE  Step(h, n) = Next10(h[n - 1], n)
    BY DEF With
  <2> HIDE DEF Step, Next10
  <2> QED BY <2>1
<1> HIDE DEF Next10, IsShorter
<1> DEFINE M == {m \in Nat : \E h : Upto(m, h)}
<1>10. 0 \in M
  <2>1. Upto(0, [ n \in 0..0 |-> <<w, 0>> ])
    OBVIOUS
  <2> QED BY <2>1
<1>3. \A m \in Nat : m \in M => m + 1 \in M
  <2> SUFFICES ASSUME NEW m \in Nat, m \in M
               PROVE  m + 1 \in M
    OBVIOUS
  <2>1. PICK h : Upto(m, h)
    OBVIOUS
  <2> DEFINE g == [ n \in 0..(m + 1) |-> IF n <= m THEN h[n] ELSE Next10(h[m], m + 1) ]
  <2>2. Upto(m + 1, g)
    <3>1. \A n \in 0..m : h[n] = IF n = 0 THEN <<w, 0>> ELSE Next10(h[n - 1], n)
      BY <2>1
    <3>2. \A n \in 0..(m + 1) : g[n] = IF n = 0 THEN <<w, 0>> ELSE Next10(g[n - 1], n)
      <4> SUFFICES ASSUME NEW n \in 0..(m + 1)
                   PROVE  g[n] = IF n = 0 THEN <<w, 0>> ELSE Next10(g[n - 1], n)
        OBVIOUS
      <4>1. CASE n = 0
        BY <3>1, <4>1
      <4>2. CASE n \in 1..m
        <5>1. g[n] = h[n] /\ g[n - 1] = h[n - 1] /\ n # 0
          BY <4>2
        <5> QED BY <3>1, <4>2, <5>1
      <4>3. CASE n = m + 1
        <5>1. g[n] = Next10(h[m], n) /\ g[n - 1] = h[m] /\ n # 0
          BY <4>3
        <5> QED BY <5>1
      <4> QED BY <4>1, <4>2, <4>3
    <3>3. g = [ n \in 0..(m + 1) |-> g[n] ]
      OBVIOUS
    <3> HIDE DEF g
    <3> QED BY <3>2, <3>3
  <2> HIDE DEF g, Upto
  <2> QED BY <2>2
<1>4. \E h : Upto(19, h)
  <2> HIDE DEF M
  <2>1. \A m \in Nat : m \in M
    BY <1>10, <1>3, NatSetInduction
  <2>2. 19 \in M
    BY <2>1
  <2> QED BY <2>2 DEF M
<1> HIDE DEF Upto
<1>5. Upto(19, f)
  <2>1. IsShorter(f)
    BY <1>2, <1>4
  <2> QED BY <1>2, <2>1
<1> HIDE DEF f
<1>6. \A n \in 0..19 : f[n] = IF n = 0 THEN <<w, 0>> ELSE Next10(f[n - 1], n)
  BY <1>5 DEF Upto
<1> DEFINE K == {n \in 0..19 : f[n][2] \in 0..19}
<1>7. 0 \in K
  BY <1>6
<1>8. \A n \in 1..19 : n - 1 \in K => n \in K
  <2> SUFFICES ASSUME NEW n \in 1..19, n - 1 \in K
               PROVE  n \in K
    OBVIOUS
  <2>1. f[n] = Next10(f[n - 1], n)
    BY <1>6
  <2> QED BY <2>1 DEF Next10
<1>9. 19 \in K
  <2> HIDE DEF K
  <2>1. 0..19 \subseteq K
    BY <1>7, <1>8, NatSetInduction
  <2> QED BY <2>1
<1> QED BY <1>1, <1>9

LEMMA StrLenIs ==
    ASSUME NEW s \in AllStrings, s # Empty
    PROVE  StrLen(s) \in Nat /\ StrLen(s) >= 1 /\ StrLen(s) <= MaxInt32
<1>1. CASE s \in {"text"} \X DOMAIN TextLen
  <2>1. PICK t \in DOMAIN TextLen : s = <<"text", t>>
    BY <1>1
  <2>2. t # ""
    BY <2>1 DEF Empty
  <2>3. TextLen[t] \in Nat /\ TextLen[t] # 0 /\ TextLen[t] <= MaxInt32
    BY <2>2, TextAssumption
  <2>4. StrLen(s) = TextLen[t]
    BY <2>1 DEF StrLen
  <2> QED BY <2>3, <2>4
<1>2. CASE s \in {"int"} \X AllWords
  <2>1. PICK w \in AllWords : s = <<"int", w>>
    BY <1>2
  <2>2. StrLen(s) = IF Negative(w) THEN 1 + Digits(Sub(Zero, w)) ELSE Digits(w)
    BY <2>1 DEF StrLen
  <2>3. Digits(Sub(Zero, w)) \in 1..20 /\ Digits(w) \in 1..20
    BY DigitsIs
  <2>4. StrLen(s) \in Nat /\ StrLen(s) >= 1 /\ StrLen(s) <= 21
    BY <2>2, <2>3
  <2> QED BY <2>4, SMT DEF MaxInt32
<1> QED BY <1>1, <1>2 DEF AllStrings

(* Word and Val, of the length of a string. *)
LEMMA NumberBytes ==
    ASSUME NEW n \in Nat, n <= MaxInt32
    PROVE  /\ Octet(n % 256) /\ Octet((n \div 256) % 256) /\ Octet((n \div 65536) % 256)
           /\ Octet((n \div 16777216) % 256) /\ (n \div 16777216) % 256 < 128
           /\ n = (n % 256) + 256 * ((n \div 256) % 256) + 65536 * ((n \div 65536) % 256)
                    + 16777216 * ((n \div 16777216) % 256)
<1> DEFINE a == n % 256
           x == n \div 256
           b == x % 256
           y == x \div 256
           c == y % 256
           d == y \div 256
<1>1. n = 256 * x + a /\ a \in Int /\ a >= 0 /\ a <= 255 /\ x \in Nat
  OBVIOUS
<1>2. x = 256 * y + b /\ b \in Int /\ b >= 0 /\ b <= 255 /\ y \in Nat
  <2> HIDE DEF a, x
  <2> QED BY <1>1
<1>3. y = 256 * d + c /\ c \in Int /\ c >= 0 /\ c <= 255 /\ d \in Nat
  <2> HIDE DEF a, x, b, y
  <2> QED BY <1>2
<1>4. n \div 65536 = y /\ n \div 16777216 = d
  <2> HIDE DEF a, x, b, y, c, d
  <2> QED BY <1>1, <1>2, <1>3, SMT
<1>5. d < 128 /\ d % 256 = d
  <2> HIDE DEF a, x, b, y, c, d
  <2> QED BY <1>1, <1>2, <1>3, SMT DEF MaxInt32
<1>6. n = a + 256 * b + 65536 * c + 16777216 * d
  <2> HIDE DEF a, x, b, y, c, d
  <2> QED BY <1>1, <1>2, <1>3, SMT
<1> QED BY <1>1, <1>2, <1>3, <1>4, <1>5, <1>6, SMT DEF Octet

LEMMA WordOfNumber ==
    ASSUME NEW n \in Nat, n <= MaxInt32
    PROVE  Word(n) \in AllWords /\ Val(Word(n)) = n /\ InRange(Word(n), 0, MaxInt32)
<1> DEFINE a == n % 256
           b == (n \div 256) % 256
           c == (n \div 65536) % 256
           d == (n \div 16777216) % 256
           w == Word(n)
<1>1. /\ Octet(a) /\ Octet(b) /\ Octet(c) /\ Octet(d) /\ d < 128
      /\ n = a + 256 * b + 65536 * c + 16777216 * d
  BY NumberBytes
<1>2. w = << a, b, c, d, 0, 0, 0, 0 >>
  <2>1. ~(n < 0)
    OBVIOUS
  <2> QED BY <2>1 DEF Word
<1> HIDE DEF a, b, c, d, w
<1>3. /\ w[1] = a /\ w[2] = b /\ w[3] = c /\ w[4] = d
      /\ \A i \in 5..8 : w[i] = 0
      /\ w = [ i \in 1..8 |-> w[i] ]
  BY <1>2
<1>4. w \in AllWords
  <2>1. \A i \in 1..8 : Octet(w[i])
    <3>1. Octet(0)
      BY DEF Octet
    <3> QED BY <1>1, <1>3, <3>1
  <2>2. \A i \in 1..8 : w[i] \in 0..255
    BY <2>1, OctetIs, Zenon
  <2> QED BY <1>3, <2>2, Zenon DEF AllWords
<1>5. Val(w) = n
  <2>1. Val(w) = ValOf(a, b, c, d)
    BY <1>3, ValIs
  <2>2. ValOf(a, b, c, d) = a + 256 * b + 65536 * c + 16777216 * d
    BY <1>1 DEF ValOf, Octet
  <2> QED BY <1>1, <2>1, <2>2
<1>6. FitsInt(w, 4)
  <2>1. \A i \in (4 + 1)..8 : w[i] = IF w[4] >= 128 THEN 255 ELSE 0
    BY <1>1, <1>3 DEF Octet
  <2>2. 4 \in 1..8
    OBVIOUS
  <2> QED BY <1>4, <2>1, <2>2, FitsIntIs
<1>7. InRange(w, 0, MaxInt32)
  BY <1>5, <1>6 DEF InRange
<1> QED BY <1>4, <1>5, <1>7 DEF w

(* The reading of a string: what follows its length. *)
TextOf(r) == IF r.st = "ok" THEN Done(r.pos, Content(<<"int", r.val>>)) ELSE r

Special(w, p, one, two, four) ==
    CASE w = Word(0) -> one
      [] w = Word(1) -> two
      [] w = Word(2) -> four
      [] OTHER       -> Fail(p, "error")

AfterLength(b, p, l) ==
    IF l[2]
    THEN Special(l[1], p, TextOf(readInt(b, p, 1)), TextOf(readInt(b, p, 2)), TextOf(readInt(b, p, 4)))
    ELSE IF ~InRange(l[1], 0, MaxInt32) THEN Fail(p, "error")
    ELSE readBytes(b, p, Val(l[1]))

LEMMA ReadImageIs ==
    ASSUME NEW b, NEW p, NEW q, NEW l, readLengthOrSpecial(b, p) = Done(q, l)
    PROVE  readImage(b, p) = AfterLength(b, q, l)
<1> DEFINE Rest(r) ==
      IF r.val[2]
      THEN Special(r.val[1], r.pos,
                   As(readInt(b, r.pos, 1), LAMBDA v : Content(<<"int", v>>)),
                   As(readInt(b, r.pos, 2), LAMBDA v : Content(<<"int", v>>)),
                   As(readInt(b, r.pos, 4), LAMBDA v : Content(<<"int", v>>)))
      ELSE IF ~InRange(r.val[1], 0, MaxInt32) THEN Fail(r.pos, "error")
      ELSE readBytes(b, r.pos, Val(r.val[1]))
<1>1. readImage(b, p) = Then(readLengthOrSpecial(b, p), Rest)
  BY DEF readImage, Special
<1>2. ASSUME NEW r
      PROVE  Rest(r) = AfterLength(b, r.pos, r.val)
  <2>1. \A x : As(x, LAMBDA v : Content(<<"int", v>>)) = TextOf(x)
    BY DEF As, TextOf
  <2> DEFINE As1 == As(readInt(b, r.pos, 1), LAMBDA v : Content(<<"int", v>>))
  <2> DEFINE As2 == As(readInt(b, r.pos, 2), LAMBDA v : Content(<<"int", v>>))
  <2> DEFINE As4 == As(readInt(b, r.pos, 4), LAMBDA v : Content(<<"int", v>>))
  <2>2. /\ As1 = TextOf(readInt(b, r.pos, 1))
        /\ As2 = TextOf(readInt(b, r.pos, 2))
        /\ As4 = TextOf(readInt(b, r.pos, 4))
    BY <2>1
  <2>3. Rest(r) = IF r.val[2] THEN Special(r.val[1], r.pos, As1, As2, As4)
                  ELSE IF ~InRange(r.val[1], 0, MaxInt32) THEN Fail(r.pos, "error")
                  ELSE readBytes(b, r.pos, Val(r.val[1]))
    OBVIOUS
  <2> HIDE DEF As1, As2, As4, Rest
  <2> QED BY <2>2, <2>3 DEF AfterLength
<1> HIDE DEF Rest
<1>3. \A r : Then(r, Rest) = IF r.st = "ok" THEN Rest(r) ELSE r
  BY DEF Then
<1>4. readImage(b, p) = Rest(Done(q, l))
  BY <1>1, <1>3, DoneIs
<1> QED BY <1>2, <1>4, DoneIs

LEMMA ReadStringIs ==
    ASSUME NEW b, NEW p, NEW e, NEW c, readImage(b, p) = Done(e, c), IsString(c)
    PROVE  readString(b, p) = Done(e, StringOf(c))
<1> DEFINE Rest(r) == IF IsString(r.val) THEN Done(r.pos, StringOf(r.val)) ELSE Fail(r.pos, "misread")
<1>1. readString(b, p) = Then(readImage(b, p), Rest)
  BY DEF readString
<1>2. Rest(Done(e, c)) = Done(e, StringOf(c))
  BY DoneIs
<1> HIDE DEF Rest
<1>3. \A r : Then(r, Rest) = IF r.st = "ok" THEN Rest(r) ELSE r
  BY DEF Then
<1> QED BY <1>1, <1>2, <1>3, DoneIs

LEMMA ContentIs ==
    ASSUME NEW s
    PROVE  IsString(Content(s)) /\ StringOf(Content(s)) = s
<1>1. CASE s = Empty
  BY <1>1 DEF Content, IsString, StringOf
<1>2. CASE s # Empty
  <2>1. Content(s) = << <<s, StrLen(s)>> >>
    BY <1>2 DEF Content
  <2>2. \A x, y : Len(<< <<x, y>> >>) = 1 /\ << <<x, y>> >>[1] = <<x, y>> /\ <<x, y>>[1] = x
                   /\ ~IsByte(<<x, y>>) /\ << <<x, y>> >> # <<>>
    BY DEF IsByte
  <2> QED BY <2>1, <2>2 DEF IsString, StringOf
<1> QED BY <1>1, <1>2

LEMMA SmallWordsDiffer ==
    ASSUME NEW i \in 0..2, NEW j \in 0..2, Word(i) = Word(j)
    PROVE  i = j
<1>1. \A n \in 0..2 : n % 256 = n
  OBVIOUS
<1>2. \A n \in 0..2 : Word(n)[1] = n % 256
  BY DEF Word
<1> QED BY <1>1, <1>2

(* A string that is an integer, in k bytes. *)
IntegerForm(j, k) == \/ j = 0 /\ k = 1
                     \/ j = 1 /\ k = 2
                     \/ j = 2 /\ k = 4

LEMMA SpecialIs ==
    ASSUME NEW b, NEW p, NEW j, NEW k, IntegerForm(j, k)
    PROVE  AfterLength(b, p, <<Word(j), TRUE>>) = TextOf(readInt(b, p, k))
<1> DEFINE t(n) == TextOf(readInt(b, p, n))
<1>1. AfterLength(b, p, <<Word(j), TRUE>>) = Special(Word(j), p, t(1), t(2), t(4))
  BY DEF AfterLength
<1> HIDE DEF t
<1>2. Word(1) # Word(0) /\ Word(2) # Word(0) /\ Word(2) # Word(1)
  BY SmallWordsDiffer
<1>3. /\ Special(Word(0), p, t(1), t(2), t(4)) = t(1)
      /\ Special(Word(1), p, t(1), t(2), t(4)) = t(2)
      /\ Special(Word(2), p, t(1), t(2), t(4)) = t(4)
  BY <1>2 DEF Special
<1>4. Special(Word(j), p, t(1), t(2), t(4)) = t(k)
  BY <1>3, Zenon DEF IntegerForm
<1> QED BY <1>1, <1>4 DEF t

LEMMA IntegerRead ==
    ASSUME NEW w, NEW j, NEW k \in Nat, IntegerForm(j, k), k >= 1,
           NEW low \in Seq(Int), Len(low) = k, SignExtend(low) = w,
           NEW b \in Seq(Chunk), Len(b) = k + 1, b[1] = <<192 + j>>, BytesAt(b, 2, low)
    PROVE  readString(b, 1) = Done(Len(b) + 1, <<"int", w>>)
<1>1. readByte(b, 1) = Done(2, 192 + j)
  <2>1. \A h : b[1] = <<h>> => readByte(b, 1) = Done(1 + 1, h)
    <3>1. 1 <= Len(b) /\ Len(b) \in Nat
      OBVIOUS
    <3> QED BY <3>1, ReadByteIs
  <2> QED BY <2>1
<1>2. readLengthOrSpecial(b, 1) = Done(2, <<Word(j), TRUE>>)
  <2>1. readLengthOrSpecial(b, 1) = Header(b, 2, 192 + j)
    BY <1>1, HeaderIs
  <2>2. ASSUME NEW h, h = 192 + j
        PROVE  Header(b, 2, h) = Done(2, <<Word(h - 192), TRUE>>) /\ h - 192 = j
    <3>1. h - 192 = j /\ ~(h < 64) /\ ~(h < 128) /\ h # 128 /\ h # 129 /\ ~(h < 192)
      BY <2>2 DEF IntegerForm
    <3> QED BY <3>1 DEF Header, AfterByte
  <2> QED BY <2>1, <2>2
<1>3. readInt(b, 2, k) = Done(k + 2, w)
  <2>1. readRaw(b, 2, Len(low)) = Done(2 + Len(low), low)
    <3>1. Len(b) \in Nat /\ 2 + Len(low) <= Len(b) + 1
      OBVIOUS
    <3> QED BY <3>1, ReadRawIs
  <2>2. readRaw(b, 2, k) = Done(k + 2, low)
    BY <2>1
  <2> QED BY <2>2, ReadIntIs
<1>4. readImage(b, 1) = Done(k + 2, Content(<<"int", w>>))
  <2>1. readImage(b, 1) = AfterLength(b, 2, <<Word(j), TRUE>>)
    BY <1>2, ReadImageIs
  <2>2. AfterLength(b, 2, <<Word(j), TRUE>>) = TextOf(readInt(b, 2, k))
    BY SpecialIs
  <2>3. TextOf(Done(k + 2, w)) = Done(k + 2, Content(<<"int", w>>))
    BY DoneIs DEF TextOf
  <2> QED BY <1>3, <2>1, <2>2, <2>3
<1>5. readString(b, 1) = Done(k + 2, <<"int", w>>)
  <2> DEFINE c == Content(<<"int", w>>)
  <2>1. IsString(c) /\ StringOf(c) = <<"int", w>>
    BY ContentIs
  <2> HIDE DEF c
  <2>2. readString(b, 1) = Done(k + 2, StringOf(c))
    BY <1>4, <2>1, ReadStringIs DEF c
  <2> QED BY <2>1, <2>2
<1>6. Len(b) + 1 = k + 2
  OBVIOUS
<1> QED BY <1>5, <1>6

(* A string whose length and content are written. *)
LEMMA ContentRead ==
    ASSUME NEW T, NEW b \in Seq(T), NEW p \in Nat, p >= 1, NEW c, NEW n \in Nat,
           \/ c = <<>> /\ n = 0 /\ Len(b) = p - 1
           \/ c = <<b[p]>> /\ n > 0 /\ Len(b) = p /\ ~IsByte(b[p]) /\ b[p][2] = n
    PROVE  readBytes(b, p, n) = Done(Len(b) + 1, c)
<1>1. Len(b) \in Nat
  OBVIOUS
<1>2. CASE c = <<>> /\ n = 0 /\ Len(b) = p - 1
  <2>1. PassBytes(b, p, n) = Done(p, <<>>)
    BY <1>1, <1>2, PassNothing
  <2>2. readBytes(b, p, n) = Done(p, SubSeq(b, p, p - 1))
    BY <2>1, ReadBytesIs
  <2>3. SubSeq(b, p, p - 1) = <<>>
    BY <1>1, <1>2
  <2>4. Len(b) + 1 = p
    BY <1>1, <1>2
  <2> QED BY <1>2, <2>2, <2>3, <2>4
<1>3. CASE c = <<b[p]>> /\ n > 0 /\ Len(b) = p /\ ~IsByte(b[p]) /\ b[p][2] = n
  <2>1. PassBytes(b, p, n) = Done(p + 1, <<>>)
    BY <1>1, <1>3, PassString
  <2>2. readBytes(b, p, n) = Done(p + 1, SubSeq(b, p, p + 1 - 1))
    BY <2>1, ReadBytesIs
  <2>3. SubSeq(b, p, p + 1 - 1) = <<b[p]>>
    <3>1. p \in 1..(Len(b) + 1) /\ p + 1 - 1 \in (p - 1)..Len(b)
      BY <1>3
    <3> DEFINE u == SubSeq(b, p, p + 1 - 1)
    <3>2. u \in Seq(T) /\ Len(u) = p + 1 - 1 - p + 1 /\ \A i \in 1..(p + 1 - 1 - p + 1) : u[i] = b[p + i - 1]
      BY <3>1, SubSeqProperties
    <3> HIDE DEF u
    <3>3. u \in Seq(T) /\ Len(u) = 1 /\ u[1] = b[p]
      BY <3>2
    <3>4. u = [ i \in 1..1 |-> u[i] ]
      BY <3>3
    <3>5. u = <<b[p]>>
      BY <3>3, <3>4
    <3> QED BY <3>5 DEF u
  <2> QED BY <1>3, <2>2, <2>3
<1> QED BY <1>2, <1>3

LEMMA ImageRead ==
    ASSUME NEW s, NEW n \in Nat, n <= MaxInt32, NEW ns \in Seq(Int), LengthForm(Word(n), ns),
           NEW T, NEW b \in Seq(T), Len(ns) <= Len(b), BytesAt(b, 1, ns),
           NEW p \in Nat, p = Len(ns) + 1,
           \/ Content(s) = <<>> /\ n = 0 /\ Len(b) = p - 1
           \/ Content(s) = <<b[p]>> /\ n > 0 /\ Len(b) = p /\ ~IsByte(b[p]) /\ b[p][2] = n
    PROVE  readString(b, 1) = Done(Len(b) + 1, s)
<1> DEFINE c == Content(s)
<1> DEFINE w == Word(n)
<1>1. w \in AllWords /\ Val(w) = n /\ InRange(w, 0, MaxInt32)
  BY WordOfNumber
<1>2. readBytes(b, p, n) = Done(Len(b) + 1, c)
  <2>1. p >= 1
    OBVIOUS
  <2> QED BY <2>1, ContentRead
<1> HIDE DEF w
<1>3. readLengthOrSpecial(b, 1) = Done(p, <<w, FALSE>>)
  <2>1. readLengthOrSpecial(b, 1) = Done(Len(ns) + 1, <<w, FALSE>>)
    BY <1>1, LengthRead DEF w
  <2> QED BY <2>1
<1>4. readImage(b, 1) = AfterLength(b, p, <<w, FALSE>>)
  BY <1>3, ReadImageIs
<1>5. AfterLength(b, p, <<w, FALSE>>) = readBytes(b, p, Val(w))
  BY <1>1 DEF AfterLength
<1>6. readImage(b, 1) = Done(Len(b) + 1, c)
  BY <1>1, <1>2, <1>4, <1>5
<1>7. IsString(c) /\ StringOf(c) = s
  BY ContentIs
<1> HIDE DEF c
<1>8. readString(b, 1) = Done(Len(b) + 1, StringOf(c))
  BY <1>6, <1>7, ReadStringIs
<1> QED BY <1>7, <1>8

(* The buffers that writeString writes. *)
LEMMA IntegerWritten ==
    ASSUME NEW w \in AllWords, NEW j, NEW k, IntegerForm(j, k), FitsInt(w, k)
    PROVE  LET b == Bytes(<<192 + j>>) \o LE(w, k)
           IN  readString(b, 1) = Done(Len(b) + 1, <<"int", w>>)
<1> DEFINE low == Low(w, k)
           h   == 192 + j
           ns  == <<h>> \o low
           b   == Bytes(<<h>>) \o LE(w, k)
<1>1. k \in 1..8 /\ k \in Nat /\ k >= 1 /\ h \in Int
  BY DEF IntegerForm
<1>2. low \in Seq(0..255) /\ Len(low) = k /\ SignExtend(low) = w
  BY <1>1, LowIs DEF FitsInt
<1>3. low \in Seq(Int)
  <2>1. \A hi \in Int : \A s \in Seq(0..hi) : s \in Seq(Int)
    OBVIOUS
  <2>2. 255 \in Int
    OBVIOUS
  <2> QED BY <1>2, <2>1, <2>2, Zenon
<1>4. LE(w, k) = Bytes(low)
  BY DEF LE
<1> HIDE DEF low, h
<1>5. b = Bytes(ns) /\ ns \in Seq(Int) /\ Len(ns) = k + 1
  BY <1>1, <1>2, <1>3, <1>4, BytesJoined
<1>6. ns[1] = h /\ \A i \in 1..k : ns[i + 1] = low[i]
  BY <1>1, <1>2, <1>3
<1> HIDE DEF ns, b
<1>7. b \in Seq(Chunk) /\ Len(b) = k + 1 /\ \A i \in 1..(k + 1) : b[i] = <<ns[i]>>
  BY <1>5, BytesIs
<1>8. b[1] = <<h>>
  <2>1. 1 \in 1..(k + 1)
    BY <1>1
  <2> QED BY <1>6, <1>7, <2>1
<1>9. BytesAt(b, 2, low)
  <2> SUFFICES ASSUME NEW i \in 1..k
               PROVE  b[2 + i - 1] = <<low[i]>>
    BY <1>2 DEF BytesAt
  <2>1. 2 + i - 1 = i + 1 /\ i + 1 \in 1..(k + 1)
    BY <1>1
  <2> QED BY <1>6, <1>7, <2>1
<1>10. readString(b, 1) = Done(Len(b) + 1, <<"int", w>>)
  BY <1>1, <1>2, <1>3, <1>7, <1>8, <1>9, IntegerRead DEF h
<1> QED BY <1>10 DEF b, h

LEMMA ImageWritten ==
    ASSUME NEW s \in AllStrings
    PROVE  LET b == writeImage(Content(s))
           IN  readString(b, 1) = Done(Len(b) + 1, s)
<1> DEFINE n == IF s = Empty THEN 0 ELSE StrLen(s)
           c == Content(s)
           x == <<s, StrLen(s)>>
           T == Chunk \cup {x}
           b == writeImage(c)
<1>1. n \in Nat /\ n <= MaxInt32 /\ (s # Empty => n > 0)
  <2>1. 0 <= MaxInt32
    BY SMT DEF MaxInt32
  <2> QED BY <2>1, StrLenIs
<1>2. ~IsByte(x) /\ x[2] = StrLen(s) /\ SizeOf(x) = StrLen(s)
  BY DEF IsByte, SizeOf
<1>3. IF s = Empty THEN c = <<>> ELSE c = <<x>>
  BY DEF Content
<1> HIDE DEF x
<1>4. Size(c) = n
  <2>1. CASE s = Empty
    BY <1>3, <2>1, SizeIs
  <2>2. CASE s # Empty
    <3>1. SizeOf(x) \in Nat /\ n = StrLen(s)
      BY <1>1, <1>2, <2>2
    <3> QED BY <1>2, <1>3, <2>2, <3>1, SizeIs
  <2> QED BY <2>1, <2>2
<1> HIDE DEF c
<1>5. Word(n) \in AllWords
  BY <1>1, WordOfNumber
<1> HIDE DEF n
<1>6. PICK ns \in Seq(Int) : LengthBytes(Word(n), ns)
  BY <1>5, LengthWritten
<1>7. b = Bytes(ns) \o c
  BY <1>4, <1>6 DEF writeImage, LengthBytes
<1>8. Bytes(ns) \in Seq(Chunk) /\ Len(Bytes(ns)) = Len(ns) /\ \A i \in 1..Len(ns) : Bytes(ns)[i] = <<ns[i]>>
  BY BytesIs
<1> DEFINE m == Bytes(ns)
<1> HIDE DEF b, m
<1>9. m \in Seq(T) /\ c \in Seq(T) /\ Len(m) = Len(ns)
  <2>1. m \in Seq(T) /\ Len(m) = Len(ns)
    BY <1>8 DEF m
  <2>2. c \in Seq(T)
    <3>1. x \in T
      OBVIOUS
    <3> HIDE DEF T
    <3>2. <<x>> \in Seq(T) /\ <<>> \in Seq(T)
      BY <3>1
    <3> QED BY <1>3, <3>2
  <2> QED BY <2>1, <2>2
<1>10. /\ b \in Seq(T) /\ Len(b) = Len(m) + Len(c)
       /\ \A i \in 1..(Len(m) + Len(c)) : b[i] = IF i <= Len(m) THEN m[i] ELSE c[i - Len(m)]
  <2>1. b = m \o c
    BY <1>7 DEF m
  <2> HIDE DEF T
  <2> QED BY <1>9, <2>1, ConcatProperties
<1> HIDE DEF T
<1>11. Len(ns) \in Nat /\ Len(c) \in Nat /\ Len(ns) <= Len(b) /\ Len(m) = Len(ns)
  BY <1>9, <1>10
<1>12. BytesAt(b, 1, ns)
  <2> SUFFICES ASSUME NEW i \in 1..Len(ns)
               PROVE  b[1 + i - 1] = <<ns[i]>>
    BY DEF BytesAt
  <2>1. 1 + i - 1 = i /\ i \in 1..(Len(m) + Len(c)) /\ i <= Len(m)
    BY <1>11
  <2>2. b[i] = m[i]
    BY <1>10, <2>1
  <2>3. m[i] = <<ns[i]>>
    BY <1>8 DEF m
  <2> QED BY <2>1, <2>2, <2>3
<1> DEFINE p == Len(ns) + 1
<1>13. \/ c = <<>> /\ n = 0 /\ Len(b) = p - 1
       \/ c = <<b[p]>> /\ n > 0 /\ Len(b) = p /\ ~IsByte(b[p]) /\ b[p][2] = n
  <2>1. CASE s = Empty
    <3>1. c = <<>> /\ n = 0
      BY <1>3, <2>1 DEF n
    <3> QED BY <1>10, <1>11, <3>1
  <2>2. CASE s # Empty
    <3>1. c = <<x>> /\ n = StrLen(s) /\ n > 0
      BY <1>1, <1>3, <2>2 DEF n
    <3>2. Len(c) = 1 /\ c[1] = x
      BY <3>1
    <3>3. Len(b) = p
      BY <1>10, <1>11, <3>2
    <3>4. p \in 1..(Len(m) + Len(c)) /\ ~(p <= Len(m)) /\ p - Len(m) = 1
      BY <1>11, <3>2
    <3>5. b[p] = x
      BY <1>10, <3>2, <3>4
    <3> QED BY <1>2, <3>1, <3>3, <3>5
  <2> QED BY <2>1, <2>2
<1>14. p \in Nat
  BY <1>11
<1>15. LengthForm(Word(n), ns) /\ n \in Nat /\ n <= MaxInt32
  BY <1>1, <1>6 DEF LengthBytes, n
<1> HIDE DEF p
<1>16. readString(b, 1) = Done(Len(b) + 1, s)
  BY <1>10, <1>11, <1>12, <1>13, <1>14, <1>15, ImageRead DEF p, c
<1> QED BY <1>16 DEF b, c

LEMMA StringsRoundTrip ==
    ASSUME NEW s \in AllStrings
    PROVE  readString(writeString(s), 1) = Done(Len(writeString(s)) + 1, s)
<1>1. CASE ~isEncodableUint32(s)
  <2>1. writeString(s) = writeImage(Content(s))
    BY <1>1 DEF writeString
  <2> QED BY <2>1, ImageWritten
<1>2. CASE isEncodableUint32(s)
  <2>1. PICK w \in AllWords : s = <<"int", w>>
    BY <1>2 DEF AllStrings, isEncodableUint32, isEncodableUint64
  <2>2. FitsInt(w, 4) /\ s[2] = w
    BY <1>2, <2>1 DEF isEncodableUint32
  <2>3. PICK j, k : /\ IntegerForm(j, k) /\ FitsInt(w, k)
                    /\ writeString(s) = Bytes(<<192 + j>>) \o LE(w, k)
    <3>1. writeString(s) = tryWriteIntString(s)
      BY <1>2 DEF writeString
    <3>2. CASE FitsInt(w, 1)
      <4>1. writeString(s) = Bytes(<<192>>) \o LE(w, 1)
        BY <2>2, <3>1, <3>2 DEF tryWriteIntString
      <4>2. IntegerForm(0, 1) /\ 192 = 192 + 0
        BY DEF IntegerForm
      <4> QED BY <3>2, <4>1, <4>2
    <3>3. CASE ~FitsInt(w, 1) /\ FitsInt(w, 2)
      <4>1. writeString(s) = Bytes(<<193>>) \o LE(w, 2)
        BY <2>2, <3>1, <3>3 DEF tryWriteIntString
      <4>2. IntegerForm(1, 2) /\ 193 = 192 + 1
        BY DEF IntegerForm
      <4> QED BY <3>3, <4>1, <4>2
    <3>4. CASE ~FitsInt(w, 1) /\ ~FitsInt(w, 2)
      <4>1. writeString(s) = Bytes(<<194>>) \o LE(w, 4)
        BY <2>2, <3>1, <3>4 DEF tryWriteIntString
      <4>2. IntegerForm(2, 4) /\ 194 = 192 + 2
        BY DEF IntegerForm
      <4> QED BY <2>2, <4>1, <4>2
    <3> QED BY <3>2, <3>3, <3>4
  <2>4. readString(Bytes(<<192 + j>>) \o LE(w, k), 1)
          = Done(Len(Bytes(<<192 + j>>) \o LE(w, k)) + 1, <<"int", w>>)
    BY <2>3, IntegerWritten
  <2> QED BY <2>1, <2>3, <2>4
<1> QED BY <1>1, <1>2

-----------------------------------------------------------------------------
(* The theorems. *)

(* What is kept of a value while it is encoded and decoded in one piece.   *)
Held == /\ job \in Jobs
        /\ pc \in {"decode", "done"} /\ ~cut => buf \in Encodings
        /\ pc = "done" /\ ~cut => out = Decoded

(* The buffer is what the encoder wrote and, once it has been read, the    *)
(* result is what the reader makes of that buffer: nothing in between      *)
(* touches a file that is not cut.                                         *)
THEOREM HeldInvariant == Spec => []Held
<1>1. Init => Held
  BY DEF Init, Held
<1>2. Held /\ [Next]_<<codecVars, lzfVars>> => Held'
  <2> SUFFICES ASSUME Held, [Next]_<<codecVars, lzfVars>>
               PROVE  Held'
    OBVIOUS
  <2>1. CASE Encode
    BY <2>1 DEF Held, Encode, Encodings, Kind, Value
  <2>2. CASE Cut
    BY <2>2 DEF Held, Cut
  <2>3. CASE Decode
    BY <2>3 DEF Held, Decode, Encodings, Decoded, Kind, Value
  <2>4. CASE UNCHANGED codecVars
    BY <2>4 DEF Held, codecVars, Encodings, Decoded, Kind, Value
  <2> QED BY <2>1, <2>2, <2>3, <2>4 DEF Next
<1> QED BY <1>1, <1>2, PTL DEF Spec

(* Every length and every string is read back as it was written and the    *)
(* reader ends where the writer did: for every uint64 and every string     *)
(* of up to 2^31 - 1 bytes, in the four forms of a length and in the three *)
(* of an integer.                                                          *)
THEOREM PrimitivesSurvive == Spec => []PrimitivesRoundTrip
<1>1. Held => PrimitivesRoundTrip
  <2> SUFFICES ASSUME Held, pc = "done", ~cut, Kind \in {"length", "string"}
               PROVE  Returned(Value) /\ Consumed
    BY DEF PrimitivesRoundTrip, Read
  <2>1. out = Decoded /\ buf \in Encodings /\ job \in Jobs
    BY DEF Held
  <2>2. CASE Kind = "length"
    <3>1. Value \in AllWords
      BY <2>1, <2>2, JobsAssumption DEF Kind, Value
    <3>2. buf = writeLength(Value) /\ out = readLength(buf, 1)
      BY <2>1, <2>2 DEF Encodings, Decoded
    <3>3. out = Done(Len(buf) + 1, Value)
      BY <3>1, <3>2, LengthsRoundTrip
    <3> QED BY <3>3, DoneIs DEF Returned, Consumed
  <2>3. CASE Kind = "string"
    <3>1. Value \in AllStrings
      BY <2>1, <2>3, JobsAssumption DEF Kind, Value
    <3>2. buf = writeString(Value) /\ out = readString(buf, 1)
      BY <2>1, <2>3 DEF Encodings, Decoded
    <3>3. out = Done(Len(buf) + 1, Value)
      BY <3>1, <3>2, StringsRoundTrip
    <3> QED BY <3>3, DoneIs DEF Returned, Consumed
  <2> QED BY <2>2, <2>3
<1> QED BY <1>1, HeldInvariant, PTL

(* What the jobs do to the compressor is what LzfSpec says, so that what   *)
(* is proved of it holds of every behaviour of the codecs.                 *)
THEOREM CodecsCompress == Spec => LzfSpec /\ []LzfInBounds /\ []LzfRoundTrip
<1>1. Init => \E in \in Seq(0..(byteMod - 1)) : Len(in) # 1 /\ LzfInit(in)
  <2> SUFFICES ASSUME Init
               PROVE  \E in \in Seq(0..(byteMod - 1)) : Len(in) # 1 /\ LzfInit(in)
    OBVIOUS
  <2> DEFINE in0 == IF Kind = "lzf" THEN Value ELSE <<>>
  <2>1. LzfInit(in0) /\ job \in Jobs
    BY DEF Init
  <2>2. in0 \in Seq(0..(byteMod - 1)) /\ Len(in0) # 1
    <3>1. CASE Kind = "lzf"
      BY <2>1, <3>1, JobsAssumption DEF Kind, Value
    <3>2. CASE Kind # "lzf"
      BY <3>2
    <3> QED BY <3>1, <3>2
  <2> HIDE DEF in0
  <2> QED BY <2>1, <2>2
<1>2. [Next]_<<codecVars, lzfVars>> => [LzfNext]_lzfVars
  BY DEF Next
<1>3. Spec => LzfSpec
  BY <1>1, <1>2, PTL DEF Spec, LzfSpec
<1> QED BY <1>3, CompressStaysInside, DecompressInverts, PTL
=============================================================================
