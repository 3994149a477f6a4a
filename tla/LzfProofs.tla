------------------------------ MODULE LzfProofs ------------------------------
(***************************************************************************)
(* Compress and Decompress are inverse to each other, and Compress stays   *)
(* in its output: proofs for every input, every width and whatever the     *)
(* hash table forgets.                                                     *)
(***************************************************************************)
EXTENDS Lzf, WellFoundedInduction, SequenceTheorems, TLAPS

Byte == 0..(byteMod - 1)

-----------------------------------------------------------------------------
(* Induction, as the least of a set of numbers. *)

LEMMA LeastNat ==
    ASSUME NEW S \in SUBSET Nat, S # {}
    PROVE  \E m \in S : \A n \in S : m <= n
<1>1. IsWellFoundedOn(OpToRel(<, Nat), Nat)
  BY NatLessThanWellFounded
<1>2. PICK x \in S : \A y \in S : ~(<<y, x>> \in OpToRel(<, Nat))
  BY <1>1, WFMin
<1>3. \A y \in S : ~(y < x)
  BY <1>2 DEF OpToRel
<1> QED BY <1>3

LEMMA NatSetInduction ==
    ASSUME NEW S, NEW N \in Nat, 0 \in S,
           \A k \in 1..N : k - 1 \in S => k \in S
    PROVE  0..N \subseteq S
<1> SUFFICES ASSUME ~(0..N \subseteq S) PROVE FALSE
  OBVIOUS
<1>1. (0..N) \ S \in SUBSET Nat /\ (0..N) \ S # {}
  OBVIOUS
<1>2. PICK m \in (0..N) \ S : \A n \in (0..N) \ S : m <= n
  BY <1>1, LeastNat
<1>3. m # 0 /\ m \in 1..N /\ m - 1 \in 0..N /\ ~(m <= m - 1)
  BY <1>2
<1> QED BY <1>2, <1>3

-----------------------------------------------------------------------------
(* The widths. *)

Two(n) == 2^n

LEMMA PowersOfTwo ==
    /\ Two(1) = 2  /\ Two(2) = 4  /\ Two(3) = 8   /\ Two(4) = 16
    /\ Two(5) = 32 /\ Two(6) = 64 /\ Two(7) = 128 /\ Two(8) = 256
<1>1. \A n \in Nat : n = 1 => Two(n) = 2
  BY Z3 DEF Two
<1>2. \A n \in Nat : n = 2 => Two(n) = 4
  BY Z3 DEF Two
<1>3. \A n \in Nat : n = 3 => Two(n) = 8
  BY Z3 DEF Two
<1>4. \A n \in Nat : n = 4 => Two(n) = 16
  BY Z3 DEF Two
<1>5. \A n \in Nat : n = 5 => Two(n) = 32
  BY Z3 DEF Two
<1>6. \A n \in Nat : n = 6 => Two(n) = 64
  BY Z3 DEF Two
<1>7. \A n \in Nat : n = 7 => Two(n) = 128
  BY Z3 DEF Two
<1>8. \A n \in Nat : n = 8 => Two(n) = 256
  BY Z3 DEF Two
<1> QED BY <1>1, <1>2, <1>3, <1>4, <1>5, <1>6, <1>7, <1>8

LEMMA Powers ==
    /\ maxLit \in Nat /\ maxLit >= 2
    /\ longLen \in Nat /\ longLen >= 1
    /\ byteMod \in Nat /\ byteMod >= 4
    /\ byteMod = maxLit * (longLen + 1)
    /\ maxOff = maxLit * byteMod
    /\ maxRef = byteMod + longLen + 1
<1>1. LitBits \in {1, 2, 3, 4, 5} /\ LenBits \in {1, 2, 3}
  BY WidthAssumption
<1>2. /\ maxLit = Two(LitBits)
      /\ longLen = Two(LenBits) - 1
      /\ byteMod = Two(LitBits + LenBits)
      /\ maxRef = byteMod + Two(LenBits)
  BY DEF maxLit, longLen, byteMod, maxRef, Two
<1>3. Two(LitBits) \in {2, 4, 8, 16, 32}
  BY <1>1, PowersOfTwo
<1>4. Two(LenBits) \in {2, 4, 8}
  BY <1>1, PowersOfTwo
<1>5. Two(LitBits + LenBits) = Two(LitBits) * Two(LenBits)
  <2>1. CASE LenBits = 1
    BY <1>1, <2>1, PowersOfTwo
  <2>2. CASE LenBits = 2
    BY <1>1, <2>2, PowersOfTwo
  <2>3. CASE LenBits = 3
    BY <1>1, <2>3, PowersOfTwo
  <2> QED BY <1>1, <2>1, <2>2, <2>3
<1>6. byteMod = maxLit * (longLen + 1) /\ maxRef = byteMod + longLen + 1
  BY <1>2, <1>3, <1>4, <1>5
<1>7. byteMod \in Nat /\ byteMod >= 4
  BY <1>2, <1>3, <1>4, <1>5
<1>8. maxLit \in Nat /\ maxLit >= 2
  BY <1>2, <1>3
<1>9. longLen \in Nat /\ longLen >= 1
  BY <1>2, <1>4
<1> QED BY <1>6, <1>7, <1>8, <1>9 DEF maxOff

(* A number of two digits. *)
LEMMA LowDigit ==
    ASSUME NEW a \in Nat, NEW n \in Nat, NEW M \in Nat, M > 0, a < M
    PROVE  (a + M * n) \div M = n /\ (a + M * n) % M = a
OBVIOUS

LEMMA TwoDigits ==
    ASSUME NEW x \in Nat, NEW M \in Nat, NEW L \in Nat, M > 0, x < L * M
    PROVE  /\ x = ((x \div M) * M) + (x % M)
           /\ x \div M \in Nat /\ x \div M < L
           /\ x % M \in Nat /\ x % M < M
OBVIOUS

-----------------------------------------------------------------------------
(* One turn of Decompress leads from m bytes read and out to m2 and out2. *)
Leads(b, outLen, m, out, m2, out2) ==
    Turn(b, outLen, [at |-> m, out |-> out]) = [at |-> m2, out |-> out2]

(* Decompress: out is what the first m bytes of buf stand for, when some   *)
(* number of turns leads there whatever bytes are behind them.             *)

Agrees(b, buf, m) == b \in Seq(Int) /\ Len(b) >= m /\ \A i \in 1..m : b[i] = buf[i]

Decodes(buf, m, outLen, out) ==
    \E n \in 0..m : \E f :
        /\ f[0] = [at |-> 0, out |-> <<>>]
        /\ f[n] = [at |-> m, out |-> out]
        /\ \A b : Agrees(b, buf, m) => \A k \in 1..n : f[k] = Turn(b, outLen, f[k - 1])

LEMMA DecodesNothing ==
    ASSUME NEW buf, NEW outLen
    PROVE  Decodes(buf, 0, outLen, <<>>)
<1> DEFINE f == [ k \in 0..0 |-> [at |-> 0, out |-> <<>>] ]
<1>1. f[0] = [at |-> 0, out |-> <<>>]
  OBVIOUS
<1>2. 0 \in 0..0 /\ 1..0 = {}
  OBVIOUS
<1> HIDE DEF f
<1> QED BY <1>1, <1>2 DEF Decodes

LEMMA DecodesSame ==
    ASSUME NEW buf, NEW buf2, NEW m \in Nat, NEW outLen, NEW out,
           Decodes(buf, m, outLen, out),
           \A i \in 1..m : buf2[i] = buf[i]
    PROVE  Decodes(buf2, m, outLen, out)
<1>1. \A b : Agrees(b, buf2, m) => Agrees(b, buf, m)
  BY DEF Agrees
<1> QED BY <1>1 DEF Decodes

LEMMA DecodesMore ==
    ASSUME NEW buf, NEW buf2, NEW m \in Nat, NEW m2 \in Nat, NEW outLen, NEW out, NEW out2,
           m < m2,
           Decodes(buf, m, outLen, out),
           \A i \in 1..m : buf2[i] = buf[i],
           \A b : Agrees(b, buf2, m2) =>
               Leads(b, outLen, m, out, m2, out2)
    PROVE  Decodes(buf2, m2, outLen, out2)
<1>1. PICK n \in 0..m : \E f :
        /\ f[0] = [at |-> 0, out |-> <<>>]
        /\ f[n] = [at |-> m, out |-> out]
        /\ \A b : Agrees(b, buf, m) => \A k \in 1..n : f[k] = Turn(b, outLen, f[k - 1])
  BY DEF Decodes
<1>2. PICK f :
        /\ f[0] = [at |-> 0, out |-> <<>>]
        /\ f[n] = [at |-> m, out |-> out]
        /\ \A b : Agrees(b, buf, m) => \A k \in 1..n : f[k] = Turn(b, outLen, f[k - 1])
  BY <1>1
<1> DEFINE g == [ k \in 0..(n + 1) |-> IF k = n + 1 THEN [at |-> m2, out |-> out2] ELSE f[k] ]
<1>3. g[n + 1] = [at |-> m2, out |-> out2] /\ \A k \in 0..n : g[k] = f[k]
  OBVIOUS
<1> HIDE DEF g
<1>4. n + 1 \in 0..m2 /\ 0 \in 0..n /\ n \in 0..n
  OBVIOUS
<1>5. \A b : Agrees(b, buf2, m2) => Agrees(b, buf, m)
  BY DEF Agrees
<1>6. ASSUME NEW b, Agrees(b, buf2, m2), NEW k \in 1..(n + 1)
      PROVE  g[k] = Turn(b, outLen, g[k - 1])
  <2>1. CASE k = n + 1
    <3>1. k - 1 = n
      BY <2>1
    <3> QED BY <1>2, <1>3, <1>4, <1>6, <2>1, <3>1 DEF Leads
  <2>2. CASE k # n + 1
    <3>1. k \in 1..n /\ k \in 0..n /\ k - 1 \in 0..n
      BY <2>2
    <3> QED BY <1>2, <1>3, <1>5, <1>6, <3>1
  <2> QED BY <2>1, <2>2
<1>7. g[0] = [at |-> 0, out |-> <<>>]
  BY <1>2, <1>3, <1>4
<1> QED BY <1>3, <1>4, <1>6, <1>7 DEF Decodes

(* When there are no bytes left, a turn changes nothing: the turns of      *)
(* Decompress, as many as there are bytes, are enough.                     *)
LEMMA DecompressGives ==
    ASSUME NEW b \in Seq(Int), NEW outLen, NEW out, Decodes(b, Len(b), outLen, out)
    PROVE  Decompress(b, outLen) = out
<1> DEFINE N == Len(b)
           start == [at |-> 0, out |-> <<>>]
           end == [at |-> N, out |-> out]
           IsAfter(f) == f = [ k \in 0..N |-> IF k = 0 THEN start
                                              ELSE Turn(b, outLen, f[k - 1]) ]
<1>1. PICK n \in 0..N : \E f :
        /\ f[0] = start
        /\ f[n] = end
        /\ \A c : Agrees(c, b, N) => \A k \in 1..n : f[k] = Turn(c, outLen, f[k - 1])
  BY DEF Decodes
<1>2. PICK f :
        /\ f[0] = start
        /\ f[n] = end
        /\ \A c : Agrees(c, b, N) => \A k \in 1..n : f[k] = Turn(c, outLen, f[k - 1])
  BY <1>1
<1>3. N \in Nat /\ Agrees(b, b, N)
  BY DEF Agrees
<1>4. Turn(b, outLen, end) = end
  BY <1>3 DEF Turn
<1> DEFINE g == [ k \in 0..N |-> IF k <= n THEN f[k] ELSE end ]
<1>5. IsAfter(g)
  <2>1. \A k \in 1..n : f[k] = Turn(b, outLen, f[k - 1])
    BY <1>2, <1>3
  <2>2. ASSUME NEW k \in 0..N
        PROVE  g[k] = IF k = 0 THEN start ELSE Turn(b, outLen, g[k - 1])
    <3>1. CASE k = 0
      BY <1>2, <3>1
    <3>2. CASE k \in 1..n
      <4>1. g[k] = f[k] /\ g[k - 1] = f[k - 1]
        BY <3>2
      <4> QED BY <2>1, <3>2, <4>1
    <3>3. CASE k > n
      <4>1. g[k] = end /\ g[k - 1] = end
        BY <1>2, <3>3
      <4>2. k # 0
        BY <3>3
      <4> HIDE DEF g, end, start
      <4> QED BY <1>4, <4>1, <4>2
    <3> QED BY <3>1, <3>2, <3>3
  <2> QED BY <2>2
<1>6. ASSUME NEW h, IsAfter(h)
      PROVE  h[N] = end
  <2> DEFINE S == {k \in 0..N : h[k] = g[k]}
  <2>1. \A k \in 0..N : h[k] = IF k = 0 THEN start ELSE Turn(b, outLen, h[k - 1])
    BY <1>6
  <2>2. \A k \in 0..N : g[k] = IF k = 0 THEN start ELSE Turn(b, outLen, g[k - 1])
    BY <1>5
  <2>3. g[N] = end
    BY <1>2, <1>3
  <2> HIDE DEF g, end, start
  <2>4. 0 \in S
    BY <1>3, <2>1, <2>2
  <2>5. \A k \in 1..N : k - 1 \in S => k \in S
    BY <1>3, <2>1, <2>2
  <2> HIDE DEF S
  <2>6. 0..N \subseteq S
    BY <1>3, <2>4, <2>5, NatSetInduction
  <2> QED BY <1>3, <2>3, <2>6 DEF S
<1> DEFINE Written(h) == h = [ k \in 0..Len(b) |->
                                 IF k = 0 THEN [at |-> 0, out |-> <<>>]
                                 ELSE With(h[k - 1], LAMBDA s : Turn(b, outLen, s)) ]
<1>7. Decompress(b, outLen) = (CHOOSE h : Written(h))[Len(b)].out
  BY DEF Decompress
<1>8. \A x : With(x, LAMBDA s : Turn(b, outLen, s)) = Turn(b, outLen, x)
  BY DEF With
<1>9. \A h : Written(h) <=> IsAfter(h)
  BY <1>8
<1> HIDE DEF Written, IsAfter
<1>10. Written(CHOOSE h : Written(h))
  BY <1>5, <1>9
<1>11. (CHOOSE h : Written(h))[N] = end
  BY <1>6, <1>9, <1>10
<1> QED BY <1>7, <1>11

-----------------------------------------------------------------------------
(* The turns that the chunks of a compressed string cause. *)

(* The first byte of a match and its last: n of the length, off of the     *)
(* distance.                                                               *)
Codes(head, low, n, off) ==
    /\ head \in Nat /\ low \in Nat
    /\ head >= maxLit /\ head \div maxLit = n
    /\ (head % maxLit) * byteMod \in Nat
    /\ ((head % maxLit) * byteMod) + low = off

LEMMA CodesGive ==
    ASSUME NEW head, NEW low, NEW n, NEW off, Codes(head, low, n, off)
    PROVE  /\ head \in Nat /\ low \in Nat
           /\ head >= maxLit /\ head \div maxLit = n
           /\ (head % maxLit) * byteMod \in Nat
           /\ ((head % maxLit) * byteMod) + low = off
BY Zenon DEF Codes

(* What Turn computes of a match: its last byte, its length (less 2) and   *)
(* where it refers to.                                                     *)
LastAt(b, m) == m + (IF b[m + 1] \div maxLit = longLen THEN 2 ELSE 1)
LengthAt(b, m) ==
    (b[m + 1] \div maxLit) + (IF b[m + 1] \div maxLit = longLen THEN b[(m + 1) + 1] ELSE 0)
RefAt(b, m, out) ==
    Len(out) - ((b[m + 1] % maxLit) * byteMod) - 1 - b[LastAt(b, m) + 1]

MatchAt(b, m, out, last, n, ref) ==
    LastAt(b, m) = last /\ LengthAt(b, m) = n /\ RefAt(b, m, out) = ref

LEMMA TurnOfMatch ==
    ASSUME NEW b, NEW outLen, NEW out, NEW m, NEW last, NEW n, NEW ref,
           MatchAt(b, m, out, last, n, ref),
           ~(m >= Len(b)), ~(b[m + 1] < maxLit), ~(m + 1 >= Len(b)), ~(last >= Len(b)),
           ~(Len(out) + n + 2 > outLen), ~(ref < 0)
    PROVE  Leads(b, outLen, m, out, last + 1, CopyBack(out, ref, n + 2))
<1>1. ~(m + 1 >= Len(b) \/ LastAt(b, m) >= Len(b))
  BY Zenon DEF MatchAt
<1>2. ~(Len(out) + LengthAt(b, m) + 2 > outLen \/ RefAt(b, m, out) < 0)
  BY Zenon DEF MatchAt
<1>3. Leads(b, outLen, m, out, LastAt(b, m) + 1,
            CopyBack(out, RefAt(b, m, out), LengthAt(b, m) + 2))
  BY <1>1, <1>2 DEF Leads, Turn, LastAt, LengthAt, RefAt
<1> QED BY <1>3, Zenon DEF MatchAt

LEMMA ShortMatchAt ==
    ASSUME NEW b \in Seq(Int), NEW out \in Seq(Int), NEW m \in Nat, NEW n \in Nat,
           NEW off \in Nat, NEW ref \in Nat, n # longLen,
           Codes(b[m + 1], b[m + 2], n, off), Len(out) - off - 1 = ref
    PROVE  MatchAt(b, m, out, m + 1, n, ref)
<1> DEFINE hi == (b[m + 1] % maxLit) * byteMod
           low == b[m + 2]
           kind == b[m + 1] \div maxLit
<1>1. hi \in Nat /\ low \in Nat /\ hi + low = off /\ kind = n
  BY CodesGive, Zenon
<1>2. LastAt(b, m) = m + (IF kind = longLen THEN 2 ELSE 1)
  BY DEF LastAt
<1>3. LengthAt(b, m) = kind + (IF kind = longLen THEN b[(m + 1) + 1] ELSE 0)
  BY DEF LengthAt
<1>4. RefAt(b, m, out) = Len(out) - hi - 1 - b[LastAt(b, m) + 1]
  BY DEF RefAt
<1>5. (m + 1) + 1 = m + 2 /\ n + 0 = n /\ Len(out) \in Nat
  OBVIOUS
<1>6. b[(m + 1) + 1] = low
  BY <1>5
<1> HIDE DEF hi, low, kind
<1>7. LastAt(b, m) = m + 1 /\ LengthAt(b, m) = n
  BY <1>1, <1>2, <1>3, <1>5
<1>8. RefAt(b, m, out) = Len(out) - hi - 1 - low
  BY <1>4, <1>6, <1>7
<1>9. Len(out) - hi - 1 - low = ref
  BY <1>1, <1>5
<1> QED BY <1>7, <1>8, <1>9, Zenon DEF MatchAt

LEMMA LongMatchAt ==
    ASSUME NEW b \in Seq(Int), NEW out \in Seq(Int), NEW m \in Nat, NEW n \in Nat,
           NEW off \in Nat, NEW ref \in Nat, longLen + b[m + 2] = n,
           Codes(b[m + 1], b[m + 3], longLen, off), Len(out) - off - 1 = ref
    PROVE  MatchAt(b, m, out, m + 2, n, ref)
<1> DEFINE hi == (b[m + 1] % maxLit) * byteMod
           low == b[m + 3]
           kind == b[m + 1] \div maxLit
<1>1. hi \in Nat /\ low \in Nat /\ hi + low = off /\ kind = longLen
  BY CodesGive, Zenon
<1>2. LastAt(b, m) = m + (IF kind = longLen THEN 2 ELSE 1)
  BY DEF LastAt
<1>3. LengthAt(b, m) = kind + (IF kind = longLen THEN b[(m + 1) + 1] ELSE 0)
  BY DEF LengthAt
<1>4. RefAt(b, m, out) = Len(out) - hi - 1 - b[LastAt(b, m) + 1]
  BY DEF RefAt
<1>5. (m + 1) + 1 = m + 2 /\ (m + 2) + 1 = m + 3 /\ Len(out) \in Nat
  OBVIOUS
<1>6. b[(m + 2) + 1] = low /\ b[(m + 1) + 1] = b[m + 2]
  BY <1>5
<1> HIDE DEF hi, low, kind
<1>7. LastAt(b, m) = m + 2 /\ LengthAt(b, m) = n
  BY <1>1, <1>2, <1>3, <1>6
<1>8. RefAt(b, m, out) = Len(out) - hi - 1 - low
  BY <1>4, <1>6, <1>7
<1>9. Len(out) - hi - 1 - low = ref
  BY <1>1, <1>5
<1> QED BY <1>7, <1>8, <1>9, Zenon DEF MatchAt

LEMMA TurnOfShortMatch ==
    ASSUME NEW b \in Seq(Int), NEW outLen \in Nat, NEW out \in Seq(Int),
           NEW m \in Nat, NEW n \in Nat, NEW ref \in Nat, NEW off \in Nat,
           m + 2 <= Len(b), n # longLen, Len(out) + n + 2 <= outLen,
           Codes(b[m + 1], b[m + 2], n, off), Len(out) - off - 1 = ref
    PROVE  Leads(b, outLen, m, out, m + 2, CopyBack(out, ref, n + 2))
<1>1. Len(b) \in Nat /\ Len(out) \in Nat
  BY LenProperties, Zenon
<1>2. MatchAt(b, m, out, m + 1, n, ref)
  BY ShortMatchAt, Zenon
<1>3. b[m + 1] \in Nat /\ b[m + 1] >= maxLit
  BY CodesGive, Zenon
<1>4. ~(b[m + 1] < maxLit)
  BY <1>3, Powers, SMTT(30)
<1>5. ~(m >= Len(b)) /\ ~(m + 1 >= Len(b)) /\ ~(Len(out) + n + 2 > outLen) /\ ~(ref < 0)
  <2>1. \A l \in Nat : m + 2 <= l => ~(m >= l) /\ ~(m + 1 >= l)
    OBVIOUS
  <2>2. \A l \in Nat : l + n + 2 <= outLen => ~(l + n + 2 > outLen)
    OBVIOUS
  <2>3. ~(ref < 0)
    OBVIOUS
  <2> QED BY <1>1, <2>1, <2>2, <2>3, Zenon
<1>6. Leads(b, outLen, m, out, (m + 1) + 1, CopyBack(out, ref, n + 2))
  BY <1>2, <1>4, <1>5, TurnOfMatch, Zenon
<1>7. (m + 1) + 1 = m + 2
  OBVIOUS
<1> QED BY <1>6, <1>7, Zenon

LEMMA TurnOfLongMatch ==
    ASSUME NEW b \in Seq(Int), NEW outLen \in Nat, NEW out \in Seq(Int),
           NEW m \in Nat, NEW n \in Nat, NEW ref \in Nat, NEW off \in Nat,
           m + 3 <= Len(b), longLen + b[m + 2] = n, Len(out) + n + 2 <= outLen,
           Codes(b[m + 1], b[m + 3], longLen, off), Len(out) - off - 1 = ref
    PROVE  Leads(b, outLen, m, out, m + 3, CopyBack(out, ref, n + 2))
<1>1. Len(b) \in Nat /\ Len(out) \in Nat
  BY LenProperties, Zenon
<1>2. MatchAt(b, m, out, m + 2, n, ref)
  BY LongMatchAt, Zenon
<1>3. b[m + 1] \in Nat /\ b[m + 1] >= maxLit
  BY CodesGive, Zenon
<1>4. ~(b[m + 1] < maxLit)
  BY <1>3, Powers, SMTT(30)
<1>5. /\ ~(m >= Len(b)) /\ ~(m + 1 >= Len(b)) /\ ~(m + 2 >= Len(b))
      /\ ~(Len(out) + n + 2 > outLen) /\ ~(ref < 0)
  <2>1. \A l \in Nat : m + 3 <= l => ~(m >= l) /\ ~(m + 1 >= l) /\ ~(m + 2 >= l)
    OBVIOUS
  <2>2. \A l \in Nat : l + n + 2 <= outLen => ~(l + n + 2 > outLen)
    OBVIOUS
  <2>3. ~(ref < 0)
    OBVIOUS
  <2> QED BY <1>1, <2>1, <2>2, <2>3, Zenon
<1>6. Leads(b, outLen, m, out, (m + 2) + 1, CopyBack(out, ref, n + 2))
  BY <1>2, <1>4, <1>5, TurnOfMatch, Zenon
<1>7. (m + 2) + 1 = m + 3
  OBVIOUS
<1> QED BY <1>6, <1>7, Zenon

(* The two or three bytes of a match hold its length and its distance.     *)
LEMMA MatchBytes ==
    ASSUME NEW off \in Nat, NEW n \in Nat, off < maxOff, 1 <= n
    PROVE  Codes((off \div byteMod) + (maxLit * n), off % byteMod, n, off)
<1> DEFINE hi == off \div byteMod
           lo == off % byteMod
           head == hi + (maxLit * n)
<1>1. /\ maxLit \in Nat /\ maxLit >= 2 /\ byteMod \in Nat /\ byteMod >= 4
      /\ maxOff = maxLit * byteMod
  BY Powers
<1>2. off = (hi * byteMod) + lo /\ hi \in Nat /\ hi < maxLit /\ lo \in Nat
  BY <1>1, TwoDigits
<1> HIDE DEF hi, lo
<1>3. head \div maxLit = n /\ head % maxLit = hi
  BY <1>1, <1>2, LowDigit
<1>4. hi * byteMod \in Nat
  BY <1>1, <1>2
<1>5. maxLit * n \in Nat /\ maxLit * n >= maxLit
  BY <1>1
<1>6. head \in Nat /\ head >= maxLit
  BY <1>1, <1>2, <1>5
<1> HIDE DEF head
<1>7. /\ head \in Nat /\ head >= maxLit
      /\ head \div maxLit = n
      /\ ((head % maxLit) * byteMod) + lo = off
      /\ (head % maxLit) * byteMod \in Nat
      /\ lo \in Nat
  BY <1>2, <1>3, <1>4, <1>6
<1> QED BY <1>7 DEF Codes, head, hi, lo

(* What CopyBack copies is the part of s that repeats an earlier part.     *)
LEMMA CopyBackRepeats ==
    ASSUME NEW s \in Seq(Int), NEW p \in Nat, NEW ref \in Nat, NEW n \in Nat,
           ref < p, p + n <= Len(s),
           \A j \in 1..n : s[p + j] = s[ref + j]
    PROVE  CopyBack(SubSeq(s, 1, p), ref, n) = SubSeq(s, 1, p + n)
<1> DEFINE out == SubSeq(s, 1, p)
           all == SubSeq(s, 1, p + n)
           IsByte(f) == f = [ k \in 1..(Len(out) + n) |->
                               IF k <= Len(out) THEN out[k] ELSE f[k - (Len(out) - ref)] ]
<1>1. Len(s) \in Nat /\ out \in Seq(Int) /\ Len(out) = p
  OBVIOUS
<1>2. \A k \in 1..p : out[k] = s[k]
  OBVIOUS
<1>3. all = [ k \in 1..(p + n) |-> s[k] ]
  <2>1. all \in Seq(Int) /\ Len(all) = p + n
    BY <1>1
  <2>2. \A k \in 1..(p + n) : all[k] = s[k]
    BY <1>1
  <2> HIDE DEF all
  <2>3. all = [ k \in 1..Len(all) |-> all[k] ]
    BY <2>1
  <2> QED BY <2>1, <2>2, <2>3
<1> HIDE DEF out
<1>4. ASSUME NEW f
      PROVE  IsByte(f)
               <=> f = [ k \in 1..(p + n) |-> IF k <= p THEN s[k] ELSE f[k - (p - ref)] ]
  <2>1. \A k \in 1..(p + n) : k <= p => k \in 1..p
    OBVIOUS
  <2>2. \A k \in 1..(p + n) : (IF k <= p THEN out[k] ELSE f[k - (p - ref)])
                              = (IF k <= p THEN s[k] ELSE f[k - (p - ref)])
    BY <1>2, <2>1, Zenon
  <2>3. [ k \in 1..(p + n) |-> IF k <= p THEN out[k] ELSE f[k - (p - ref)] ]
          = [ k \in 1..(p + n) |-> IF k <= p THEN s[k] ELSE f[k - (p - ref)] ]
    BY <2>2, Zenon
  <2> QED BY <1>1, <2>3, Zenon
<1> HIDE DEF IsByte
<1>5. IsByte(all)
  <2>1. ASSUME NEW k \in 1..(p + n)
        PROVE  all[k] = IF k <= p THEN s[k] ELSE all[k - (p - ref)]
    <3>1. CASE k <= p
      BY <1>3, <3>1
    <3>2. CASE k > p
      <4>1. k - (p - ref) \in 1..(p + n)
        BY <3>2
      <4>2. k - p \in 1..n /\ p + (k - p) = k /\ ref + (k - p) = k - (p - ref)
        BY <3>2
      <4>3. s[p + (k - p)] = s[ref + (k - p)]
        BY <4>2
      <4> QED BY <1>3, <3>2, <4>1, <4>2, <4>3
    <3> QED BY <3>1, <3>2
  <2> HIDE DEF all
  <2>2. all = [ k \in 1..(p + n) |-> all[k] ]
    BY <1>3
  <2>3. all = [ k \in 1..(p + n) |-> IF k <= p THEN s[k] ELSE all[k - (p - ref)] ]
    BY <2>1, <2>2, Zenon
  <2> QED BY <1>4, <2>3
<1>6. ASSUME NEW f, IsByte(f)
      PROVE  f = all
  <2>1. f = [ k \in 1..(p + n) |-> IF k <= p THEN s[k] ELSE f[k - (p - ref)] ]
    BY <1>4, <1>6
  <2>2. \A k \in 1..(p + n) : f[k] = IF k <= p THEN s[k] ELSE f[k - (p - ref)]
    BY <2>1
  <2>3. \A k \in 1..(p + n) : all[k] = IF k <= p THEN s[k] ELSE all[k - (p - ref)]
    BY <1>4, <1>5
  <2> DEFINE Bad == {k \in 1..(p + n) : f[k] # all[k]}
  <2>4. Bad = {}
    <3> SUFFICES ASSUME Bad # {} PROVE FALSE
      OBVIOUS
    <3>1. Bad \in SUBSET Nat
      OBVIOUS
    <3>2. PICK k \in Bad : \A j \in Bad : k <= j
      BY <3>1, LeastNat
    <3>3. k > p
      BY <2>2, <2>3, <3>2
    <3>4. k - (p - ref) \in 1..(p + n) /\ ~(k <= k - (p - ref))
      BY <3>2, <3>3
    <3>5. f[k - (p - ref)] = all[k - (p - ref)]
      BY <3>2, <3>4
    <3> QED BY <2>2, <2>3, <3>2, <3>3, <3>5
  <2> HIDE DEF all
  <2>5. all = [ k \in 1..(p + n) |-> all[k] ] /\ f = [ k \in 1..(p + n) |-> f[k] ]
    BY <1>3, <2>1
  <2> QED BY <2>4, <2>5
<1>7. CopyBack(out, ref, n) = CHOOSE f : IsByte(f)
  BY DEF CopyBack, IsByte
<1> HIDE DEF all
<1>8. IsByte(CHOOSE f : IsByte(f))
  BY <1>5
<1>9. CopyBack(out, ref, n) = all
  BY <1>6, <1>7, <1>8
<1> QED BY <1>9 DEF out, all

LEMMA Part ==
    ASSUME NEW s \in Seq(Int), NEW m \in Nat, NEW n \in Nat, m + n <= Len(s)
    PROVE  /\ SubSeq(s, m + 1, m + n) \in Seq(Int)
           /\ Len(SubSeq(s, m + 1, m + n)) = n
           /\ \A j \in 1..n : SubSeq(s, m + 1, m + n)[j] = s[m + j]
<1> DEFINE a == m + 1
           c == m + n
<1>1. a \in Nat /\ c \in Nat /\ 1 <= a /\ a <= c + 1 /\ c + 1 - a = n
  OBVIOUS
<1>2. \A j \in 1..n : a - 1 + j = m + j
  OBVIOUS
<1>3. c <= Len(s)
  OBVIOUS
<1> HIDE DEF a, c
<1>4. /\ SubSeq(s, a, c) \in Seq(Int)
      /\ Len(SubSeq(s, a, c)) = c + 1 - a
      /\ \A j \in 1..(c + 1 - a) : SubSeq(s, a, c)[j] = s[a - 1 + j]
  BY <1>1, <1>3
<1>5. /\ SubSeq(s, a, c) \in Seq(Int)
      /\ Len(SubSeq(s, a, c)) = n
      /\ \A j \in 1..n : SubSeq(s, a, c)[j] = s[m + j]
  BY <1>1, <1>2, <1>4
<1> QED BY <1>5 DEF a, c

LEMMA Beginning ==
    ASSUME NEW s \in Seq(Int), NEW n \in Nat, n <= Len(s)
    PROVE  /\ SubSeq(s, 1, n) \in Seq(Int)
           /\ Len(SubSeq(s, 1, n)) = n
           /\ \A j \in 1..n : SubSeq(s, 1, n)[j] = s[j]
OBVIOUS

LEMMA Joined ==
    ASSUME NEW s \in Seq(Int), NEW t \in Seq(Int), NEW p \in Nat,
           p + Len(t) <= Len(s), \A j \in 1..Len(t) : t[j] = s[p + j]
    PROVE  SubSeq(s, 1, p) \o t = SubSeq(s, 1, p + Len(t))
<1> DEFINE n == Len(t)
           q == p + n
           u == SubSeq(s, 1, p)
           v == SubSeq(s, 1, q)
           w == u \o t
<1>1. n \in Nat /\ q \in Nat /\ q = p + n /\ q <= Len(s) /\ p <= q /\ p <= Len(s)
  OBVIOUS
<1>2. \A j \in 1..n : t[j] = s[p + j]
  OBVIOUS
<1>3. Len(t) = n
  OBVIOUS
<1> HIDE DEF n, q
<1>4. u \in Seq(Int) /\ Len(u) = p /\ \A j \in 1..p : u[j] = s[j]
  BY <1>1, Beginning
<1>5. v \in Seq(Int) /\ Len(v) = q /\ \A j \in 1..q : v[j] = s[j]
  BY <1>1, Beginning
<1> HIDE DEF u, v
<1>6. /\ w \in Seq(Int) /\ Len(w) = q
      /\ \A j \in 1..q : w[j] = IF j <= p THEN u[j] ELSE t[j - p]
  <2>1. /\ w \in Seq(Int) /\ Len(w) = Len(u) + Len(t)
        /\ \A j \in 1..(Len(u) + Len(t)) : w[j] = IF j <= Len(u) THEN u[j] ELSE t[j - Len(u)]
    BY <1>4, ConcatProperties, Zenon
  <2> QED BY <1>1, <1>3, <1>4, <2>1, Zenon
<1> HIDE DEF w
<1>7. ASSUME NEW j \in 1..q
      PROVE  w[j] = v[j]
  <2>1. CASE j <= p
    <3>1. j \in 1..p
      BY <1>1, <2>1
    <3> QED BY <1>4, <1>5, <1>6, <2>1, <3>1, Zenon
  <2>2. CASE ~(j <= p)
    <3>1. j - p \in 1..n /\ p + (j - p) = j
      BY <1>1, <2>2
    <3>2. t[j - p] = s[j]
      BY <1>2, <3>1, Zenon
    <3>3. w[j] = t[j - p] /\ v[j] = s[j]
      BY <1>5, <1>6, <2>2, Zenon
    <3> QED BY <3>2, <3>3, Zenon
  <2> QED BY <2>1, <2>2, Zenon
<1>8. w = v
  BY <1>5, <1>6, <1>7, SeqEqual
<1> QED BY <1>8 DEF n, q, u, v, w

LEMMA TurnOfRun ==
    ASSUME NEW s \in Seq(Int), NEW b \in Seq(Int), NEW m \in Nat, NEW sent \in Nat,
           NEW run \in Nat,
           1 <= run, run <= maxLit, sent + run <= Len(s), m + 1 + run <= Len(b),
           b[m + 1] = run - 1,
           \A j \in 1..run : b[m + 1 + j] = s[sent + j]
    PROVE  Leads(b, Len(s), m, SubSeq(s, 1, sent), m + 1 + run, SubSeq(s, 1, sent + run))
<1> DEFINE out == SubSeq(s, 1, sent)
           lits == SubSeq(b, m + 2, m + 1 + run)
<1>1. maxLit \in Nat /\ Len(b) \in Nat /\ Len(s) \in Nat
  BY Powers
<1>2. out \in Seq(Int) /\ Len(out) = sent
  BY <1>1, Beginning
<1>3. /\ lits \in Seq(Int) /\ Len(lits) = run
      /\ \A j \in 1..run : lits[j] = b[m + 1 + j]
  <2> DEFINE k == m + 1
  <2>1. k \in Nat /\ k + run <= Len(b) /\ k + 1 = m + 2
    OBVIOUS
  <2>2. lits = SubSeq(b, k + 1, k + run)
    BY <2>1
  <2> HIDE DEF lits, k
  <2>3. /\ lits \in Seq(Int) /\ Len(lits) = run
        /\ \A j \in 1..run : lits[j] = b[k + j]
    <3>1. /\ SubSeq(b, k + 1, k + run) \in Seq(Int) /\ Len(SubSeq(b, k + 1, k + run)) = run
          /\ \A j \in 1..run : SubSeq(b, k + 1, k + run)[j] = b[k + j]
      BY <2>1, Part, ZenonT(30)
    <3> QED BY <2>2, <3>1, Zenon
  <2> QED BY <2>3 DEF k
<1> HIDE DEF out, lits
<1>4. \A j \in 1..run : lits[j] = s[sent + j]
  BY <1>3
<1>5. out \o lits = SubSeq(s, 1, sent + run)
  BY <1>3, <1>4, Joined DEF out
<1>6. ~(m >= Len(b)) /\ b[m + 1] < maxLit /\ b[m + 1] + 1 = run
  BY <1>1
<1>7. ~(Len(out) + run > Len(s) \/ m + 1 + run > Len(b))
  BY <1>1, <1>2
<1>8. Leads(b, Len(s), m, out, m + 1 + run, out \o lits)
  BY <1>6, <1>7 DEF Leads, Turn, lits
<1> QED BY <1>5, <1>8 DEF out

(* A run of literals behind what is coded already. *)
LEMMA RunDecodes ==
    ASSUME NEW s \in Seq(Int), NEW old, NEW buf, NEW m \in Nat, NEW sent \in Nat,
           NEW run \in Nat, 1 <= run, run <= maxLit, sent + run <= Len(s),
           Decodes(old, m, Len(s), SubSeq(s, 1, sent)),
           \A i \in 1..m : buf[i] = old[i],
           buf[m + 1] = run - 1,
           \A j \in 1..run : buf[m + 1 + j] = s[sent + j]
    PROVE  Decodes(buf, m + 1 + run, Len(s), SubSeq(s, 1, sent + run))
<1> DEFINE out == SubSeq(s, 1, sent)
           all == SubSeq(s, 1, sent + run)
<1>1. PICK m2 \in Nat : m2 = m + 1 + run
  OBVIOUS
<1>2. m < m2
  BY <1>1
<1>3. ASSUME NEW b, Agrees(b, buf, m2)
      PROVE  Leads(b, Len(s), m, out, m2, all)
  <2>1. b \in Seq(Int) /\ m2 <= Len(b) /\ \A i \in 1..m2 : b[i] = buf[i]
    BY <1>3 DEF Agrees
  <2>2. m + 1 \in 1..m2 /\ \A j \in 1..run : m + 1 + j \in 1..m2
    BY <1>1
  <2>3. b[m + 1] = run - 1 /\ \A j \in 1..run : b[m + 1 + j] = s[sent + j]
    BY <2>1, <2>2
  <2>4. m + 1 + run <= Len(b)
    BY <1>1, <2>1
  <2>5. Leads(b, Len(s), m, out, m + 1 + run, all)
    BY <2>1, <2>3, <2>4, TurnOfRun
  <2> QED BY <1>1, <2>5
<1>4. Decodes(old, m, Len(s), out)
  OBVIOUS
<1> HIDE DEF out, all
<1>5. Decodes(buf, m2, Len(s), all)
  BY <1>2, <1>3, <1>4, DecodesMore
<1> QED BY <1>1, <1>5 DEF all

(* A match: the next n + 2 bytes of s stood at ref already.                *)
LEMMA MatchDecodes ==
    ASSUME NEW s \in Seq(Int), NEW old, NEW buf, NEW m \in Nat, NEW i \in Nat,
           NEW ref \in Nat, NEW n \in Nat, NEW m2 \in Nat,
           m < m2, ref < i, i + n <= Len(s),
           \A j \in 1..n : s[i + j] = s[ref + j],
           Decodes(old, m, Len(s), SubSeq(s, 1, i)),
           \A k \in 1..m : buf[k] = old[k],
           \A b : Agrees(b, buf, m2) =>
               Leads(b, Len(s), m, SubSeq(s, 1, i), m2, CopyBack(SubSeq(s, 1, i), ref, n))
    PROVE  Decodes(buf, m2, Len(s), SubSeq(s, 1, i + n))
<1> DEFINE out == SubSeq(s, 1, i)
           all == SubSeq(s, 1, i + n)
<1>1. CopyBack(out, ref, n) = all
  BY CopyBackRepeats
<1>2. Decodes(old, m, Len(s), out)
  OBVIOUS
<1>3. \A b : Agrees(b, buf, m2) => Leads(b, Len(s), m, out, m2, all)
  BY <1>1
<1> HIDE DEF out, all
<1>4. Decodes(buf, m2, Len(s), all)
  BY <1>2, <1>3, DecodesMore
<1> QED BY <1>4 DEF all

(* Behind m bytes of buf that decode to the first i of s comes a match of  *)
(* the n + 2 bytes that stand at ref.                                      *)
Matches(s, old, buf, m, i, ref, n, off) ==
    /\ off = i - ref - 1 /\ i + (n + 2) <= Len(s)
    /\ \A j \in 1..(n + 2) : s[i + j] = s[ref + j]
    /\ Decodes(old, m, Len(s), SubSeq(s, 1, i))
    /\ \A k \in 1..m : buf[k] = old[k]

LEMMA MatchTurns ==
    ASSUME NEW s \in Seq(Int), NEW old, NEW buf, NEW m \in Nat, NEW i \in Nat,
           NEW ref \in Nat, NEW n \in Nat, NEW off \in Nat, NEW m2 \in Nat, m < m2,
           Matches(s, old, buf, m, i, ref, n, off),
           \A b : Agrees(b, buf, m2) =>
               Leads(b, Len(s), m, SubSeq(s, 1, i), m2, CopyBack(SubSeq(s, 1, i), ref, n + 2))
    PROVE  Decodes(buf, m2, Len(s), SubSeq(s, 1, i + (n + 2)))
<1> DEFINE n2 == n + 2
<1>1. n2 \in Nat /\ ref < i /\ i + n2 <= Len(s)
  BY DEF Matches
<1>2. /\ \A j \in 1..n2 : s[i + j] = s[ref + j]
      /\ Decodes(old, m, Len(s), SubSeq(s, 1, i))
      /\ \A k \in 1..m : buf[k] = old[k]
  BY DEF Matches
<1>3. \A b : Agrees(b, buf, m2) =>
               Leads(b, Len(s), m, SubSeq(s, 1, i), m2, CopyBack(SubSeq(s, 1, i), ref, n2))
  OBVIOUS
<1> HIDE DEF n2
<1>4. Decodes(buf, m2, Len(s), SubSeq(s, 1, i + n2))
  BY <1>1, <1>2, <1>3, MatchDecodes
<1> QED BY <1>4 DEF n2

LEMMA ShortMatchDecodes ==
    ASSUME NEW s \in Seq(Int), NEW old, NEW buf, NEW m \in Nat, NEW i \in Nat,
           NEW ref \in Nat, NEW n \in Nat, NEW off \in Nat,
           Matches(s, old, buf, m, i, ref, n, off),
           n # longLen, Codes(buf[m + 1], buf[m + 2], n, off)
    PROVE  Decodes(buf, m + 2, Len(s), SubSeq(s, 1, i + (n + 2)))
<1> DEFINE out == SubSeq(s, 1, i)
<1>1. Len(s) \in Nat /\ i <= Len(s) /\ i + (n + 2) <= Len(s) /\ i - off - 1 = ref
  BY DEF Matches
<1>2. out \in Seq(Int) /\ Len(out) = i
  BY <1>1, Beginning
<1>3. ASSUME NEW b, Agrees(b, buf, m + 2)
      PROVE  Leads(b, Len(s), m, out, m + 2, CopyBack(out, ref, n + 2))
  <2> HIDE DEF out
  <2>1. b \in Seq(Int) /\ m + 2 <= Len(b) /\ \A k \in 1..(m + 2) : b[k] = buf[k]
    BY <1>3 DEF Agrees
  <2>2. m + 1 \in 1..(m + 2) /\ m + 2 \in 1..(m + 2)
    OBVIOUS
  <2>3. b[m + 1] = buf[m + 1] /\ b[m + 2] = buf[m + 2]
    BY <2>1, <2>2
  <2>4. Codes(b[m + 1], b[m + 2], n, off)
    BY <2>3, Zenon
  <2>5. Len(out) + n + 2 <= Len(s) /\ Len(out) - off - 1 = ref
    BY <1>1, <1>2
  <2> QED BY <1>1, <1>2, <2>1, <2>4, <2>5, TurnOfShortMatch, Zenon
<1>4. m < m + 2 /\ m + 2 \in Nat
  OBVIOUS
<1>5. \A b : Agrees(b, buf, m + 2) =>
          Leads(b, Len(s), m, SubSeq(s, 1, i), m + 2, CopyBack(SubSeq(s, 1, i), ref, n + 2))
  BY <1>3, Zenon
<1> QED BY <1>4, <1>5, MatchTurns, Zenon

LEMMA LongMatchDecodes ==
    ASSUME NEW s \in Seq(Int), NEW old, NEW buf, NEW m \in Nat, NEW i \in Nat,
           NEW ref \in Nat, NEW n \in Nat, NEW off \in Nat,
           Matches(s, old, buf, m, i, ref, n, off),
           longLen <= n, buf[m + 2] = n - longLen,
           Codes(buf[m + 1], buf[m + 3], longLen, off)
    PROVE  Decodes(buf, m + 3, Len(s), SubSeq(s, 1, i + (n + 2)))
<1> DEFINE out == SubSeq(s, 1, i)
<1>1. Len(s) \in Nat /\ i <= Len(s) /\ i + (n + 2) <= Len(s) /\ i - off - 1 = ref
  BY DEF Matches
<1>2. out \in Seq(Int) /\ Len(out) = i
  BY <1>1, Beginning
<1>3. ASSUME NEW b, Agrees(b, buf, m + 3)
      PROVE  Leads(b, Len(s), m, out, m + 3, CopyBack(out, ref, n + 2))
  <2> HIDE DEF out
  <2>1. b \in Seq(Int) /\ m + 3 <= Len(b) /\ \A k \in 1..(m + 3) : b[k] = buf[k]
    BY <1>3 DEF Agrees
  <2>2. m + 1 \in 1..(m + 3) /\ m + 2 \in 1..(m + 3) /\ m + 3 \in 1..(m + 3)
    OBVIOUS
  <2>3. b[m + 1] = buf[m + 1] /\ b[m + 2] = buf[m + 2] /\ b[m + 3] = buf[m + 3]
    BY <2>1, <2>2
  <2>4. Codes(b[m + 1], b[m + 3], longLen, off)
    BY <2>3, Zenon
  <2>5. Len(out) + n + 2 <= Len(s) /\ Len(out) - off - 1 = ref
    BY <1>1, <1>2
  <2>6. longLen + b[m + 2] = n
    BY <2>3, Powers
  <2> QED BY <1>1, <1>2, <2>1, <2>4, <2>5, <2>6, TurnOfLongMatch, Zenon
<1>4. m < m + 3 /\ m + 3 \in Nat
  OBVIOUS
<1>5. \A b : Agrees(b, buf, m + 3) =>
          Leads(b, Len(s), m, SubSeq(s, 1, i), m + 3, CopyBack(SubSeq(s, 1, i), ref, n + 2))
  BY <1>3, Zenon
<1> QED BY <1>4, <1>5, MatchTurns, Zenon

-----------------------------------------------------------------------------
(* What Compress has written: out ends with a run of n literals whose       *)
(* header, at o - n, is not there yet; what is in front of it decodes to    *)
(* what is in front of these literals in s.                                 *)
Pending(s, out, o, i, n) ==
    /\ Decodes(out, o - n - 1, Len(s), SubSeq(s, 1, i - n))
    /\ \A j \in 1..n : out[(o - n) + j] = s[(i - n) + j]

(* The same but for the header of the pending run.                         *)
SameBut(old, new, o, n) == \A k \in 1..o : k # o - n => new[k] = old[k]

LEMMA RunBegins ==
    ASSUME NEW s, NEW out, NEW m \in Nat, NEW i \in Nat,
           Decodes(out, m, Len(s), SubSeq(s, 1, i))
    PROVE  Pending(s, out, m + 1, i, 0)
<1>1. (m + 1) - 0 - 1 = m /\ i - 0 = i
  OBVIOUS
<1>2. 1..0 = {}
  OBVIOUS
<1> QED BY <1>1, <1>2, Zenon DEF Pending

LEMMA LiteralPends ==
    ASSUME NEW s, NEW old, NEW new, NEW o \in Nat, NEW i \in Nat, NEW n \in Nat,
           n < o, n <= i, Pending(s, old, o, i, n), SameBut(old, new, o, n),
           new[o + 1] = s[i + 1]
    PROVE  Pending(s, new, o + 1, i + 1, n + 1)
<1> DEFINE m == o - n - 1
           a == o - n
           c == i - n
<1>1. /\ m \in Nat /\ a \in Nat /\ c \in Nat /\ m + 1 = a /\ a + n = o /\ c + n = i
      /\ (o + 1) - (n + 1) - 1 = m /\ (o + 1) - (n + 1) = a /\ (i + 1) - (n + 1) = c
  OBVIOUS
<1>2. Decodes(old, m, Len(s), SubSeq(s, 1, c)) /\ \A j \in 1..n : old[a + j] = s[c + j]
  BY DEF Pending
<1>3. \A k \in 1..o : k # a => new[k] = old[k]
  BY DEF SameBut
<1> HIDE DEF m, a, c
<1>4. \A k \in 1..m : new[k] = old[k]
  BY <1>1, <1>3
<1>5. Decodes(new, m, Len(s), SubSeq(s, 1, c))
  BY <1>1, <1>2, <1>4, DecodesSame, Zenon
<1>6. ASSUME NEW j \in 1..(n + 1)
      PROVE  new[a + j] = s[c + j]
  <2>1. CASE j = n + 1
    <3>1. a + j = o + 1 /\ c + j = i + 1
      BY <1>1, <2>1
    <3> QED BY <3>1, Zenon
  <2>2. CASE j # n + 1
    <3>1. j \in 1..n /\ a + j \in 1..o /\ a + j # a
      BY <1>1, <2>2
    <3> QED BY <1>2, <1>3, <3>1, Zenon
  <2> QED BY <2>1, <2>2, Zenon
<1> QED BY <1>1, <1>5, <1>6, Zenon DEF Pending

LEMMA RunEnds ==
    ASSUME NEW s \in Seq(Int), NEW out, NEW o \in Nat, NEW i \in Nat, NEW n \in Nat,
           1 <= n, n <= maxLit, n < o, n <= i, i <= Len(s),
           Pending(s, out, o, i, n), out[o - n] = n - 1
    PROVE  Decodes(out, o, Len(s), SubSeq(s, 1, i))
<1> DEFINE m == o - n - 1
           a == o - n
           c == i - n
<1>1. /\ m \in Nat /\ a \in Nat /\ c \in Nat /\ m + 1 = a
      /\ m + 1 + n = o /\ c + n = i /\ c + n <= Len(s)
  OBVIOUS
<1>2. Decodes(out, m, Len(s), SubSeq(s, 1, c)) /\ \A j \in 1..n : out[a + j] = s[c + j]
  BY DEF Pending
<1>3. out[a] = n - 1
  OBVIOUS
<1> HIDE DEF m, a, c
<1>4. out[m + 1] = n - 1 /\ \A j \in 1..n : out[m + 1 + j] = s[c + j]
  BY <1>1, <1>2, <1>3, Zenon
<1>5. Decodes(out, m + 1 + n, Len(s), SubSeq(s, 1, c + n))
  BY <1>1, <1>2, <1>4, RunDecodes
<1> QED BY <1>1, <1>5, Zenon

LEMMA PendingSame ==
    ASSUME NEW s, NEW old, NEW new, NEW o \in Nat, NEW i \in Nat, NEW n \in Nat,
           n < o, n <= i, Pending(s, old, o, i, n), SameBut(old, new, o, n)
    PROVE  Pending(s, new, o, i, n)
<1> DEFINE m == o - n - 1
           a == o - n
           c == i - n
<1>1. m \in Nat /\ a \in Nat /\ c \in Nat /\ m + 1 = a /\ a + n = o
  OBVIOUS
<1>2. Decodes(old, m, Len(s), SubSeq(s, 1, c)) /\ \A j \in 1..n : old[a + j] = s[c + j]
  BY DEF Pending
<1>3. \A k \in 1..o : k # a => new[k] = old[k]
  BY DEF SameBut
<1> HIDE DEF m, a, c
<1>4. (\A k \in 1..m : new[k] = old[k]) /\ (\A j \in 1..n : new[a + j] = old[a + j])
  BY <1>1, <1>3
<1>5. Decodes(new, m, Len(s), SubSeq(s, 1, c))
  BY <1>1, <1>2, <1>4, DecodesSame, Zenon
<1>6. \A j \in 1..n : new[a + j] = s[c + j]
  BY <1>2, <1>4, Zenon
<1> QED BY <1>5, <1>6, Zenon DEF Pending, m, a, c

(* The header of the pending run is written, or taken back if it is empty. *)
LEMMA RunStopped ==
    ASSUME NEW s \in Seq(Int), NEW old, NEW new, NEW o \in Nat, NEW i \in Nat, NEW n \in Nat,
           n <= maxLit, n < o, n <= i, i <= Len(s),
           Pending(s, old, o, i, n), SameBut(old, new, o, n),
           n # 0 => new[o - n] = n - 1
    PROVE  Decodes(new, IF n = 0 THEN o - 1 ELSE o, Len(s), SubSeq(s, 1, i))
<1>1. Pending(s, new, o, i, n)
  BY PendingSame, Zenon
<1>2. CASE n = 0
  <2>1. o - n - 1 = o - 1 /\ i - n = i
    BY <1>2
  <2> QED BY <1>1, <1>2, <2>1, Zenon DEF Pending
<1>3. CASE n # 0
  <2>1. 1 <= n
    BY <1>3
  <2>2. Decodes(new, o, Len(s), SubSeq(s, 1, i))
    BY <1>1, <1>3, <2>1, RunEnds, Zenon
  <2> QED BY <1>3, <2>2, Zenon
<1> QED BY <1>2, <1>3

-----------------------------------------------------------------------------
(* What the code writes. *)

(* Writes that are all inside of the output, each to a place of its own.   *)
Inside(writes) ==
    /\ \A w \in writes : w[1] \in 0..(Len(input) - 1) /\ w[2] \in Int
    /\ \A v, w \in writes : v[1] = w[1] => v[2] = w[2]

LEMMA PutWrites ==
    ASSUME NEW writes, NEW pc, Inside(writes), Put(writes, pc),
           output \in Seq(Int), Len(output) = Len(input)
    PROVE  /\ lzfPc' = pc
           /\ output' \in Seq(Int) /\ Len(output') = Len(output)
           /\ \A w \in writes : output'[w[1] + 1] = w[2]
           /\ \A k \in 1..Len(output) : (\A w \in writes : w[1] # k - 1) => output'[k] = output[k]
<1> DEFINE N == Len(output)
           Hit(k) == \E w \in writes : w[1] = k - 1
           Value(k) == (CHOOSE w \in writes : w[1] = k - 1)[2]
<1>1. N \in Nat /\ DOMAIN output = 1..N /\ N = Len(input)
  OBVIOUS
<1>2. ~(\E w \in writes : ~InBounds(w[1]))
  BY Zenon DEF Inside, InBounds
<1>3. lzfPc' = pc /\ output' = [ k \in DOMAIN output |-> IF Hit(k) THEN Value(k) ELSE output[k] ]
  BY <1>2, Zenon DEF Put
<1>4. ASSUME NEW k \in 1..N, Hit(k)
      PROVE  Value(k) \in Int /\ \A w \in writes : w[1] = k - 1 => Value(k) = w[2]
  <2> DEFINE c == CHOOSE w \in writes : w[1] = k - 1
  <2>1. c \in writes /\ c[1] = k - 1
    BY <1>4, Zenon
  <2> HIDE DEF c
  <2>2. c[2] \in Int /\ \A w \in writes : w[1] = k - 1 => c[2] = w[2]
    BY <2>1, Zenon DEF Inside
  <2> QED BY <2>2, Zenon DEF c
<1>5. \A k \in 1..N : output[k] \in Int
  BY <1>1
<1> HIDE DEF Hit, Value
<1>6. output' = [ k \in 1..N |-> IF Hit(k) THEN Value(k) ELSE output[k] ]
  BY <1>1, <1>3, Zenon
<1>7. \A k \in 1..N : (IF Hit(k) THEN Value(k) ELSE output[k]) \in Int
  BY <1>4, <1>5, Zenon
<1>8. output' \in Seq(Int) /\ Len(output') = N
  BY <1>1, <1>6, <1>7
<1>9. ASSUME NEW w \in writes
      PROVE  output'[w[1] + 1] = w[2]
  <2>1. w[1] \in 0..(N - 1)
    BY <1>1, Zenon DEF Inside
  <2>2. w[1] + 1 \in 1..N /\ w[1] = (w[1] + 1) - 1
    BY <1>1, <2>1
  <2>3. Hit(w[1] + 1)
    BY <2>2, Zenon DEF Hit
  <2>4. Value(w[1] + 1) = w[2]
    BY <1>4, <2>2, <2>3, Zenon
  <2> QED BY <1>6, <2>2, <2>3, <2>4, Zenon
<1>10. ASSUME NEW k \in 1..N, \A w \in writes : w[1] # k - 1
       PROVE  output'[k] = output[k]
  <2>1. ~Hit(k)
    BY <1>10, Zenon DEF Hit
  <2> QED BY <1>6, <2>1, Zenon
<1> QED BY <1>3, <1>8, <1>9, <1>10, Zenon

-----------------------------------------------------------------------------
(* The match that the code finds: it is inside of the input, at least three *)
(* bytes long and no longer than three bytes can say, and equal throughout. *)
LEMMA MatchLengthRight ==
    ASSUME NEW ref \in Nat, NEW i \in Nat, i = inputIndex, NEW N \in Nat, N = Len(input),
           i + 3 <= N, ref < i,
           \A j \in 1..3 : input[ref + j] = input[i + j]
    PROVE  /\ MatchLength(ref) \in Nat
           /\ 3 <= MatchLength(ref) /\ i + MatchLength(ref) <= N
           /\ MatchLength(ref) - 2 - longLen < byteMod
           /\ \A j \in 1..MatchLength(ref) : input[i + j] = input[ref + j]
<1> DEFINE rest == N - i - 2
           maxLen == IF rest > maxRef THEN maxRef ELSE rest
           Stops(n) == n >= maxLen \/ At(ref + n) # At(i + n)
           Good == {n \in 3..N : Stops(n)}
           Right(n) == n \in 3..N /\ Stops(n) /\ \A k \in 3..(n - 1) : ~Stops(k)
<1>1. /\ rest \in Int /\ maxLen \in Int /\ maxLen <= rest /\ maxLen <= maxRef
      /\ rest + i + 2 = N
  BY Powers
<1>2. MatchLength(ref) = CHOOSE n \in 3..N : Stops(n) /\ \A k \in 3..(n - 1) : ~Stops(k)
  BY Zenon DEF MatchLength
<1> HIDE DEF rest, maxLen
<1>3. Good \in SUBSET Nat
  OBVIOUS
<1>4. Good # {}
  <2>1. CASE maxLen <= 3
    <3>1. 3 \in 3..N /\ 3 >= maxLen
      BY <1>1, <2>1
    <3> QED BY <3>1
  <2>2. CASE ~(maxLen <= 3)
    <3>1. maxLen \in 3..N /\ maxLen >= maxLen
      BY <1>1, <2>2
    <3> QED BY <3>1
  <2> QED BY <2>1, <2>2
<1>5. PICK m \in Good : \A k \in Good : m <= k
  <2> HIDE DEF Good
  <2> QED BY <1>3, <1>4, LeastNat, Zenon
<1>6. Right(m)
  <2>1. m \in 3..N /\ Stops(m)
    BY <1>5
  <2>2. ASSUME NEW k \in 3..(m - 1), Stops(k)
        PROVE  FALSE
    <3>1. k \in 3..N /\ ~(m <= k)
      BY <2>1
    <3>2. k \in Good
      BY <2>2, <3>1, Zenon
    <3> QED BY <1>5, <3>1, <3>2, Zenon
  <2> QED BY <2>1, <2>2, Zenon
<1> DEFINE L == CHOOSE n \in 3..N : Stops(n) /\ \A k \in 3..(n - 1) : ~Stops(k)
<1>7. Right(L)
  BY <1>6, Zenon
<1> HIDE DEF L, Right
<1>8. L \in 3..N /\ \A k \in 3..(L - 1) : ~Stops(k)
  BY <1>7, Zenon DEF Right
<1>9. L = 3 \/ L <= maxLen
  <2> SUFFICES ASSUME L # 3, ~(L <= maxLen) PROVE FALSE
    OBVIOUS
  <2>1. L - 1 \in 3..(L - 1) /\ L - 1 >= maxLen
    BY <1>1, <1>8
  <2> QED BY <1>8, <2>1
<1>10. /\ L \in Nat /\ 3 <= L /\ i + L <= N
       /\ L <= 3 \/ L <= maxRef
  <2>1. L \in Nat /\ 3 <= L
    BY <1>8
  <2>2. CASE L = 3
    BY <2>1, <2>2
  <2>3. CASE L <= maxLen
    <3>1. i + L <= N
      BY <1>1, <2>1, <2>3
    <3>2. maxRef \in Int
      BY Powers
    <3>3. L <= maxRef
      BY <1>1, <2>1, <2>3, <3>2
    <3> QED BY <2>1, <3>1, <3>3
  <2> QED BY <1>9, <2>2, <2>3
<1>11. L - 2 - longLen < byteMod
  BY <1>10, Powers
<1>12. ASSUME NEW j \in 1..L
       PROVE  input[i + j] = input[ref + j]
  <2>1. CASE j \in 1..3
    BY <2>1
  <2>2. CASE ~(j \in 1..3)
    <3>1. j - 1 \in 3..(L - 1) /\ (ref + (j - 1)) + 1 = ref + j /\ (i + (j - 1)) + 1 = i + j
      BY <1>10, <2>2
    <3>2. At(ref + (j - 1)) = At(i + (j - 1))
      BY <1>8, <3>1, Zenon
    <3> QED BY <3>1, <3>2, Zenon DEF At
  <2> QED BY <2>1, <2>2
<1>13. MatchLength(ref) = L
  BY <1>2 DEF L
<1> QED BY <1>10, <1>11, <1>12, <1>13, Zenon

-----------------------------------------------------------------------------
(* The inductive invariant.                                                *)

Shape ==
    /\ input \in Seq(Int) /\ output \in Seq(Int) /\ Len(output) = Len(input)
    /\ inputIndex \in Nat /\ outputIndex \in Nat /\ lit \in Nat
    /\ htab \in SUBSET Nat
    /\ lzfPc \in {"idle", "loop", "tail", "done", "error"}

(* The pending run is shorter than the longest, and part of what has been  *)
(* read; so is every position in the hash table.                           *)
Behind ==
    /\ lit < maxLit /\ lit <= inputIndex /\ inputIndex <= Len(input)
    /\ \A r \in htab : r < inputIndex

(* The room that the last bytes may need: each of them, and the header of  *)
(* the run that one of two bytes, or one that follows others, may fill.    *)
Left == Len(input) - inputIndex
Needed == IF Left = 0 THEN 0 ELSE IF Left = 1 THEN (IF lit = 0 THEN 1 ELSE 2) ELSE 3

Room ==
    /\ lzfPc \in {"loop", "tail"} => lit < outputIndex
    /\ lzfPc = "loop" => outputIndex <= Len(output) + (IF lit = 0 THEN 1 ELSE 0)
    /\ lzfPc = "tail" => Left <= 2 /\ outputIndex + Needed < Len(output)
    /\ lzfPc = "done" => outputIndex < Len(output)

(* What has been written decodes to what has been read.                    *)
Coded ==
    /\ lzfPc \in {"loop", "tail"} => Pending(input, output, outputIndex, inputIndex, lit)
    /\ lzfPc = "done" => Decodes(output, outputIndex, Len(input), input)

LzfInv == Shape /\ Behind /\ Room /\ Coded

(* A byte becomes a literal: what is written, and where. *)
LEMMA LiteralWritten ==
    ASSUME Shape, Behind, lit < outputIndex,
           inputIndex < Len(input), outputIndex < Len(output), CopyLiteral
    PROVE  /\ lzfPc' = lzfPc
           /\ output' \in Seq(Int) /\ Len(output') = Len(output)
           /\ SameBut(output, output', outputIndex, lit)
           /\ output'[outputIndex + 1] = input[inputIndex + 1]
           /\ lit + 1 = maxLit => output'[outputIndex - lit] = lit
<1> DEFINE writes == LiteralWrites(outputIndex, inputIndex, lit)
           byte == input[inputIndex + 1]
           start == outputIndex - lit - 1
<1>1. Put(writes, lzfPc)
  BY DEF CopyLiteral
<1>2. /\ input \in Seq(Int) /\ output \in Seq(Int) /\ Len(output) = Len(input)
      /\ inputIndex \in Nat /\ outputIndex \in Nat /\ lit \in Nat
  BY DEF Shape
<1>3. byte \in Int
  BY <1>2
<1>4. start \in 0..(Len(input) - 1) /\ outputIndex \in 0..(Len(input) - 1) /\ start # outputIndex
  BY <1>2
<1>5. lit + 1 = maxLit => StopRun(outputIndex + 1, lit + 1) = <<start, lit>>
  <2> SUFFICES ASSUME lit + 1 = maxLit PROVE StopRun(outputIndex + 1, lit + 1) = <<start, lit>>
    OBVIOUS
  <2>1. lit < byteMod /\ byteMod \in Nat
    <3>1. maxLit <= byteMod
      BY Powers
    <3> QED BY <1>2, <3>1, Powers, SMTT(30)
  <2>2. (lit + 1) - 1 = lit /\ lit % byteMod = lit
    <3>1. \A x \in Nat, y \in Nat : x < y => x % y = x
      OBVIOUS
    <3>2. (lit + 1) - 1 = lit
      BY <1>2
    <3> QED BY <1>2, <2>1, <3>1, <3>2, Zenon
  <2>3. (outputIndex + 1) - (lit + 1) - 1 = start
    BY <1>2
  <2> QED BY <2>2, <2>3, Zenon DEF StopRun
<1>6. writes = {<<outputIndex, byte>>} \cup (IF lit + 1 = maxLit THEN {<<start, lit>>} ELSE {})
  BY <1>5, Zenon DEF LiteralWrites, At
<1> HIDE DEF writes, byte, start
<1>7. Inside(writes)
  <2>1. \A w \in writes : \/ w[1] = outputIndex /\ w[2] = byte
                          \/ w[1] = start /\ w[2] = lit
    <3>1. \A w \in writes : w = <<outputIndex, byte>> \/ w = <<start, lit>>
      BY <1>6, Zenon
    <3> QED BY <3>1
  <2>2. \A w \in writes : w[1] \in 0..(Len(input) - 1) /\ w[2] \in Int
    <3>1. lit \in Int
      BY <1>2
    <3> QED BY <1>3, <1>4, <2>1, <3>1, Zenon
  <2>3. \A v, w \in writes : v[1] = w[1] => v[2] = w[2]
    BY <1>4, <2>1, Zenon
  <2> QED BY <2>2, <2>3, Zenon DEF Inside
<1>8. /\ lzfPc' = lzfPc
      /\ output' \in Seq(Int) /\ Len(output') = Len(output)
      /\ \A w \in writes : output'[w[1] + 1] = w[2]
      /\ \A k \in 1..Len(output) : (\A w \in writes : w[1] # k - 1) => output'[k] = output[k]
  BY <1>1, <1>2, <1>7, PutWrites, Zenon
<1>9. output'[outputIndex + 1] = byte
  <2>1. <<outputIndex, byte>> \in writes
    BY <1>6
  <2> QED BY <1>8, <2>1
<1>10. lit + 1 = maxLit => output'[outputIndex - lit] = lit
  <2> SUFFICES ASSUME lit + 1 = maxLit PROVE output'[outputIndex - lit] = lit
    OBVIOUS
  <2>1. <<start, lit>> \in writes
    BY <1>6
  <2>2. output'[start + 1] = lit
    BY <1>8, <2>1
  <2>3. start + 1 = outputIndex - lit
    BY <1>2 DEF start
  <2> QED BY <2>2, <2>3, Zenon
<1>11. ASSUME NEW k \in 1..outputIndex, k # outputIndex - lit
       PROVE  output'[k] = output[k]
  <2>1. k \in 1..Len(output) /\ k - 1 # outputIndex /\ k - 1 # start
    BY <1>2, <1>11 DEF start
  <2>2. \A w \in writes : w[1] = outputIndex \/ w[1] = start
    BY <1>6
  <2>3. \A w \in writes : w[1] # k - 1
    BY <2>1, <2>2, Zenon
  <2> QED BY <1>8, <2>1, <2>3, Zenon
<1>12. SameBut(output, output', outputIndex, lit)
  BY <1>11, Zenon DEF SameBut
<1> QED BY <1>8, <1>9, <1>10, <1>12, Zenon DEF byte

(* The literal is pending then, or the last of a run that is not.          *)
LEMMA LiteralCodes ==
    ASSUME Shape, Behind, lit < outputIndex,
           inputIndex < Len(input), outputIndex < Len(output), CopyLiteral,
           Pending(input, output, outputIndex, inputIndex, lit)
    PROVE  Pending(input, output', outputIndex', inputIndex', lit')
<1> DEFINE o == outputIndex
           i == inputIndex
<1>1. /\ SameBut(output, output', o, lit) /\ output'[o + 1] = input[i + 1]
      /\ lit + 1 = maxLit => output'[o - lit] = lit
  BY LiteralWritten, Zenon
<1>2. input \in Seq(Int) /\ i \in Nat /\ o \in Nat /\ lit \in Nat /\ Len(input) \in Nat
  BY DEF Shape
<1>3. lit < o /\ lit <= i /\ i < Len(input) /\ lit < maxLit
  BY DEF Behind
<1>4. /\ lit' = IF lit + 1 = maxLit THEN 0 ELSE lit + 1
      /\ o' = o + (IF lit + 1 = maxLit THEN 2 ELSE 1)
      /\ i' = i + 1
  BY Zenon DEF CopyLiteral
<1>5. Pending(input, output', o + 1, i + 1, lit + 1)
  BY <1>1, <1>2, <1>3, LiteralPends, Zenon
<1>6. CASE lit + 1 # maxLit
  <2>1. lit' = lit + 1 /\ o' = o + 1
    BY <1>4, <1>6
  <2> QED BY <1>4, <1>5, <2>1, Zenon
<1>7. CASE lit + 1 = maxLit
  <2> DEFINE o1 == o + 1
             i1 == i + 1
             n1 == lit + 1
  <2>1. /\ o1 \in Nat /\ i1 \in Nat /\ n1 \in Nat
        /\ 1 <= n1 /\ n1 < o1 /\ n1 <= i1 /\ i1 <= Len(input)
        /\ o1 - n1 = o - lit /\ n1 - 1 = lit
    BY <1>2, <1>3
  <2>2. n1 <= maxLit
    BY <1>7, Powers
  <2>3. Pending(input, output', o1, i1, n1)
    BY <1>5
  <2>4. output'[o - lit] = lit
    BY <1>1, <1>7
  <2>5. lit' = 0 /\ o' = o1 + 1 /\ i' = i1
    BY <1>2, <1>4, <1>7
  <2> HIDE DEF o1, i1, n1
  <2>6. output'[o1 - n1] = n1 - 1
    BY <2>1, <2>4, Zenon
  <2>7. Decodes(output', o1, Len(input), SubSeq(input, 1, i1))
    BY <1>2, <2>1, <2>2, <2>3, <2>6, RunEnds, Zenon
  <2>8. Pending(input, output', o1 + 1, i1, 0)
    BY <2>1, <2>7, RunBegins, Zenon
  <2> QED BY <2>5, <2>8, Zenon
<1> QED BY <1>6, <1>7

(* What a reference found in the hash table is. *)
LEMMA RefRight ==
    ASSUME Shape, Behind, InLoop, NEW ref \in Refs
    PROVE  /\ ref \in Nat /\ ref < inputIndex
           /\ inputIndex - ref - 1 \in Nat /\ inputIndex - ref - 1 < maxOff
           /\ MatchLength(ref) \in Nat
           /\ 3 <= MatchLength(ref) /\ inputIndex + MatchLength(ref) <= Len(input)
           /\ MatchLength(ref) - 2 - longLen < byteMod
           /\ \A j \in 1..MatchLength(ref) : input[inputIndex + j] = input[ref + j]
<1> DEFINE i == inputIndex
           N == Len(input)
<1>1. input \in Seq(Int) /\ i \in Nat /\ N \in Nat /\ htab \in SUBSET Nat
  BY DEF Shape
<1>2. i + 3 <= N
  BY <1>1 DEF InLoop
<1>3. ref \in htab /\ Triple(ref) = Triple(i) /\ i - ref - 1 < maxOff
  BY Zenon DEF Refs
<1>4. ref \in Nat /\ ref < i
  BY <1>1, <1>3, Zenon DEF Behind
<1>5. SubSeq(input, ref + 1, ref + 3) = SubSeq(input, i + 1, i + 3)
  BY <1>3, Zenon DEF Triple
<1>6. \A j \in 1..3 : input[ref + j] = input[i + j]
  <2>1. 3 \in Nat /\ ref + 3 <= Len(input) /\ i + 3 <= Len(input)
    BY <1>1, <1>2, <1>4
  <2>2. \A j \in 1..3 : SubSeq(input, ref + 1, ref + 3)[j] = input[ref + j]
    BY <1>1, <1>4, <2>1, Part, Zenon
  <2>3. \A j \in 1..3 : SubSeq(input, i + 1, i + 3)[j] = input[i + j]
    BY <1>1, <2>1, Part, Zenon
  <2> QED BY <1>5, <2>2, <2>3, Zenon
<1>7. i - ref - 1 \in Nat
  BY <1>1, <1>4
<1>8. /\ MatchLength(ref) \in Nat
      /\ 3 <= MatchLength(ref) /\ i + MatchLength(ref) <= N
      /\ MatchLength(ref) - 2 - longLen < byteMod
      /\ \A j \in 1..MatchLength(ref) : input[i + j] = input[ref + j]
  BY <1>1, <1>2, <1>4, <1>6, MatchLengthRight, Zenon
<1> QED BY <1>3, <1>4, <1>7, <1>8, Zenon

(* Where the match begins, and its last byte. *)
Begin == IF lit = 0 THEN outputIndex - 1 ELSE outputIndex
Final(n) == IF n >= longLen THEN Begin + 2 ELSE Begin + 1

MatchHead(n, off) == (off \div byteMod) + (maxLit * (IF n >= longLen THEN longLen ELSE n))

MatchWrites(n, off) ==
    (IF lit = 0 THEN {} ELSE {<<outputIndex - lit - 1, lit - 1>>})
      \cup {<<Begin, MatchHead(n, off)>>, <<Final(n), off % byteMod>>}
      \cup (IF n >= longLen THEN {<<Begin + 1, n - longLen>>} ELSE {})

(* What Match does with a match of n + 2 bytes, off + 1 bytes back. *)
Matched(n, off) ==
    /\ Put((IF lit = 0 THEN {} ELSE {StopRun(outputIndex, lit)})
             \cup {<<Begin, MatchHead(n, off)>>, <<Final(n), off % byteMod>>}
             \cup (IF n >= longLen THEN {<<Begin + 1, LongByte(n)>>} ELSE {}), "loop")
    /\ outputIndex' = Final(n) + 2
    /\ lit' = 0
    /\ inputIndex' = inputIndex + n + 2
    /\ htab' = htab \cup {inputIndex}
                 \cup (IF inputIndex + n + 2 >= Len(input) - 2 THEN {}
                       ELSE {(inputIndex + n + 2) - 2, (inputIndex + n + 2) - 1})

LEMMA MatchGives ==
    ASSUME NEW ref, Match(ref), ~RefusesMatch
    PROVE  Matched(MatchLength(ref) - 2, inputIndex - ref - 1)
BY Zenon DEF Match, Matched, Begin, Final, MatchHead

LEMMA MatchPuts ==
    ASSUME Shape, Behind, InLoop, NEW ref \in Refs, Match(ref), ~RefusesMatch,
           NEW n \in Nat, n = MatchLength(ref) - 2,
           NEW off \in Nat, off = inputIndex - ref - 1
    PROVE  /\ Put(MatchWrites(n, off), "loop")
           /\ outputIndex' = Final(n) + 2 /\ lit' = 0 /\ inputIndex' = inputIndex + n + 2
           /\ htab' = htab \cup {inputIndex}
                        \cup (IF inputIndex + n + 2 >= Len(input) - 2 THEN {}
                              ELSE {(inputIndex + n + 2) - 2, (inputIndex + n + 2) - 1})
<1>1. lit # 0 => StopRun(outputIndex, lit) = <<outputIndex - lit - 1, lit - 1>>
  <2> SUFFICES ASSUME lit # 0
               PROVE  StopRun(outputIndex, lit) = <<outputIndex - lit - 1, lit - 1>>
    OBVIOUS
  <2>1. lit \in Nat /\ lit < maxLit
    BY DEF Shape, Behind
  <2>2. maxLit \in Nat /\ byteMod \in Nat /\ maxLit <= byteMod
    BY Powers
  <2>3. (lit - 1) % byteMod = lit - 1
    BY <2>1, <2>2
  <2> QED BY <2>3, Zenon DEF StopRun
<1>2. n >= longLen => LongByte(n) = n - longLen
  <2> SUFFICES ASSUME n >= longLen PROVE LongByte(n) = n - longLen
    OBVIOUS
  <2>1. MatchLength(ref) - 2 - longLen < byteMod
    BY RefRight, Zenon
  <2>2. n - longLen < byteMod
    BY <2>1, Zenon
  <2> DEFINE x == n - longLen
  <2>3. x \in Nat /\ x < byteMod /\ byteMod \in Nat
    BY <2>2, Powers
  <2> HIDE DEF x
  <2>4. x % byteMod = x
    BY <2>3
  <2> QED BY <2>4, Zenon DEF LongByte, x
<1>3. MatchWrites(n, off) =
        (IF lit = 0 THEN {} ELSE {StopRun(outputIndex, lit)})
          \cup {<<Begin, MatchHead(n, off)>>, <<Final(n), off % byteMod>>}
          \cup (IF n >= longLen THEN {<<Begin + 1, LongByte(n)>>} ELSE {})
  <2>1. (IF lit = 0 THEN {} ELSE {StopRun(outputIndex, lit)})
          = (IF lit = 0 THEN {} ELSE {<<outputIndex - lit - 1, lit - 1>>})
    BY <1>1, Zenon
  <2>2. (IF n >= longLen THEN {<<Begin + 1, LongByte(n)>>} ELSE {})
          = (IF n >= longLen THEN {<<Begin + 1, n - longLen>>} ELSE {})
    BY <1>2, Zenon
  <2> QED BY <2>1, <2>2, Zenon DEF MatchWrites
<1>4. /\ Put((IF lit = 0 THEN {} ELSE {StopRun(outputIndex, lit)})
               \cup {<<Begin, MatchHead(n, off)>>, <<Final(n), off % byteMod>>}
               \cup (IF n >= longLen THEN {<<Begin + 1, LongByte(n)>>} ELSE {}), "loop")
      /\ outputIndex' = Final(n) + 2 /\ lit' = 0 /\ inputIndex' = inputIndex + n + 2
      /\ htab' = htab \cup {inputIndex}
                   \cup (IF inputIndex + n + 2 >= Len(input) - 2 THEN {}
                         ELSE {(inputIndex + n + 2) - 2, (inputIndex + n + 2) - 1})
  BY MatchGives, Zenon DEF Matched
<1> QED BY <1>3, <1>4, Zenon

LEMMA HeadCodes ==
    ASSUME NEW n \in Nat, NEW off \in Nat, 1 <= n, off < maxOff
    PROVE  Codes(MatchHead(n, off), off % byteMod, IF n >= longLen THEN longLen ELSE n, off)
<1> DEFINE k == IF n >= longLen THEN longLen ELSE n
<1>1. k \in Nat /\ 1 <= k
  BY Powers
<1> HIDE DEF k
<1>2. Codes((off \div byteMod) + (maxLit * k), off % byteMod, k, off)
  BY <1>1, MatchBytes, Zenon
<1> QED BY <1>2, Zenon DEF MatchHead, k

(* A match is written: where, when there was room for it. *)
LEMMA MatchWritten ==
    ASSUME Shape, Behind, lit < outputIndex, Begin + 4 < Len(output),
           NEW n \in Nat, NEW off \in Nat, 1 <= n, off < maxOff,
           Put(MatchWrites(n, off), "loop")
    PROVE  /\ lzfPc' = "loop"
           /\ output' \in Seq(Int) /\ Len(output') = Len(output)
           /\ SameBut(output, output', outputIndex, lit)
           /\ lit # 0 => output'[outputIndex - lit] = lit - 1
           /\ output'[Begin + 1] = MatchHead(n, off)
           /\ output'[Final(n) + 1] = off % byteMod
           /\ n >= longLen => output'[(Begin + 1) + 1] = n - longLen
<1> DEFINE writes == MatchWrites(n, off)
           start == outputIndex - lit - 1
           head == MatchHead(n, off)
           low == off % byteMod
           b1 == Begin + 1
           last == Final(n)
           long == n >= longLen
           rest == n - longLen
           run == lit - 1
<1>1. /\ output \in Seq(Int) /\ Len(output) = Len(input) /\ Len(output) \in Nat
      /\ outputIndex \in Nat /\ lit \in Nat
  BY DEF Shape
<1>2. head \in Int /\ low \in Int /\ rest \in Int /\ run \in Int
  <2>1. head \in Nat /\ low \in Nat
    BY HeadCodes, CodesGive, Zenon
  <2>2. rest \in Int
    BY Powers
  <2>3. run \in Int
    BY <1>1
  <2> QED BY <2>1, <2>2, <2>3
<1>3. /\ start \in Nat /\ Begin \in Nat /\ Begin = (IF lit = 0 THEN outputIndex - 1 ELSE outputIndex)
      /\ lit # 0 => start < Begin
  BY <1>1 DEF Begin
<1>4. last = IF long THEN Begin + 2 ELSE b1
  BY Zenon DEF Final
<1>5. writes = (IF lit = 0 THEN {} ELSE {<<start, run>>})
                 \cup {<<Begin, head>>, <<last, low>>}
                 \cup (IF long THEN {<<b1, rest>>} ELSE {})
  BY Zenon DEF MatchWrites
<1> HIDE DEF writes, head, low, last, long, rest, run
<1>6. ASSUME NEW w \in writes
      PROVE  \/ lit # 0 /\ w = <<start, run>>
             \/ w = <<Begin, head>> \/ w = <<last, low>>
             \/ long /\ w = <<b1, rest>>
  BY <1>5, <1>6, Zenon
<1>7. ASSUME NEW w \in writes
      PROVE  \/ lit # 0 /\ w[1] = start /\ w[2] = run
             \/ w[1] = Begin /\ w[2] = head
             \/ w[1] = last /\ w[2] = low
             \/ long /\ w[1] = b1 /\ w[2] = rest
  <2>1. CASE lit # 0 /\ w = <<start, run>>
    BY <2>1
  <2>2. CASE w = <<Begin, head>>
    BY <2>2
  <2>3. CASE w = <<last, low>>
    BY <2>3
  <2>4. CASE long /\ w = <<b1, rest>>
    BY <2>4
  <2> QED BY <1>6, <2>1, <2>2, <2>3, <2>4, Zenon
<1>8. /\ lit # 0 => start # Begin /\ start # b1 /\ start # last
      /\ Begin # b1 /\ Begin # last /\ (long => b1 # last)
  BY <1>1, <1>3, <1>4
<1>9. /\ start \in 0..(Len(input) - 1) \/ lit = 0
      /\ Begin \in 0..(Len(input) - 1) /\ b1 \in 0..(Len(input) - 1)
      /\ last \in 0..(Len(input) - 1)
  BY <1>1, <1>3, <1>4
<1> HIDE DEF start, b1
<1>10. Inside(writes)
  <2>1. \A w \in writes : w[1] \in 0..(Len(input) - 1) /\ w[2] \in Int
    BY <1>2, <1>7, <1>9, Zenon
  <2>2. ASSUME NEW v \in writes, NEW w \in writes, v[1] = w[1]
        PROVE  v[2] = w[2]
    <3>1. CASE lit # 0 /\ v[1] = start /\ v[2] = run
      BY <1>7, <1>8, <2>2, <3>1, Zenon
    <3>2. CASE v[1] = Begin /\ v[2] = head
      BY <1>7, <1>8, <2>2, <3>2, Zenon
    <3>3. CASE v[1] = last /\ v[2] = low
      BY <1>7, <1>8, <2>2, <3>3, Zenon
    <3>4. CASE long /\ v[1] = b1 /\ v[2] = rest
      BY <1>7, <1>8, <2>2, <3>4, Zenon
    <3> QED BY <1>7, <3>1, <3>2, <3>3, <3>4, Zenon
  <2> QED BY <2>1, <2>2, Zenon DEF Inside
<1>11. /\ lzfPc' = "loop"
       /\ output' \in Seq(Int) /\ Len(output') = Len(output)
       /\ \A w \in writes : output'[w[1] + 1] = w[2]
       /\ \A k \in 1..Len(output) : (\A w \in writes : w[1] # k - 1) => output'[k] = output[k]
  BY <1>1, <1>10, PutWrites, Zenon DEF writes
<1>12. /\ lit # 0 => output'[start + 1] = run
       /\ output'[Begin + 1] = head /\ output'[last + 1] = low
       /\ long => output'[b1 + 1] = rest
  <2>1. /\ lit # 0 => <<start, run>> \in writes
        /\ <<Begin, head>> \in writes /\ <<last, low>> \in writes
        /\ long => <<b1, rest>> \in writes
    BY <1>5, Zenon
  <2>2. ASSUME NEW x, NEW y, <<x, y>> \in writes
        PROVE  output'[x + 1] = y
    BY <1>11, <2>2
  <2> QED BY <2>1, <2>2, Zenon
<1>13. ASSUME NEW k \in 1..outputIndex, k # outputIndex - lit
       PROVE  output'[k] = output[k]
  <2>1. /\ k \in 1..Len(output) /\ k - 1 # start /\ k - 1 # Begin
        /\ k - 1 # b1 /\ k - 1 # last
    BY <1>1, <1>3, <1>4, <1>13 DEF start, b1
  <2>2. \A w \in writes : w[1] # k - 1
    BY <1>7, <2>1, Zenon
  <2> QED BY <1>11, <2>1, <2>2, Zenon
<1>14. SameBut(output, output', outputIndex, lit)
  BY <1>13, Zenon DEF SameBut
<1>15. start + 1 = outputIndex - lit
  BY <1>1 DEF start
<1>16. lit # 0 => output'[outputIndex - lit] = lit - 1
  BY <1>12, <1>15, Zenon DEF run
<1>17. /\ output'[Begin + 1] = MatchHead(n, off)
       /\ output'[Final(n) + 1] = off % byteMod
       /\ n >= longLen => output'[(Begin + 1) + 1] = n - longLen
  BY <1>12, Zenon DEF head, last, low, long, b1, rest
<1> QED BY <1>11, <1>14, <1>16, <1>17, Zenon

(* Behind a match nothing is pending, and all that is read is coded.       *)
LEMMA MatchCodes ==
    ASSUME Shape, Behind, InLoop, lit < outputIndex, NEW ref \in Refs,
           Match(ref), ~RefusesMatch,
           Pending(input, output, outputIndex, inputIndex, lit)
    PROVE  /\ lzfPc' = "loop" /\ output' \in Seq(Int) /\ Len(output') = Len(output)
           /\ lit' = 0
           /\ inputIndex' \in Nat /\ inputIndex < inputIndex' /\ inputIndex' <= Len(input)
           /\ outputIndex' \in Nat /\ 0 < outputIndex' /\ outputIndex' <= Len(output)
           /\ htab' \in SUBSET Nat /\ \A r \in htab' : r < inputIndex'
           /\ Pending(input, output', outputIndex', inputIndex', lit')
<1> DEFINE i == inputIndex
           N == Len(input)
<1>1. /\ input \in Seq(Int) /\ output \in Seq(Int) /\ Len(output) = N /\ N \in Nat
      /\ i \in Nat /\ outputIndex \in Nat /\ lit \in Nat /\ htab \in SUBSET Nat
  BY DEF Shape
<1>2. PICK n \in Nat, off \in Nat : n = MatchLength(ref) - 2 /\ off = i - ref - 1
  <2>1. MatchLength(ref) \in Nat /\ 3 <= MatchLength(ref) /\ i - ref - 1 \in Nat
    BY RefRight, Zenon
  <2>2. MatchLength(ref) - 2 \in Nat
    BY <2>1
  <2> QED BY <2>1, <2>2
<1>3. /\ ref \in Nat /\ off = i - ref - 1 /\ off < maxOff
      /\ 1 <= n /\ i + (n + 2) <= N
      /\ \A j \in 1..(n + 2) : input[i + j] = input[ref + j]
  <2>1. MatchLength(ref) = n + 2
    <3>1. MatchLength(ref) \in Nat /\ n = MatchLength(ref) - 2
      BY <1>2, RefRight, Zenon
    <3> QED BY <3>1
  <2>2. /\ ref \in Nat /\ i - ref - 1 < maxOff
        /\ 3 <= n + 2 /\ i + (n + 2) <= N
        /\ \A j \in 1..(n + 2) : input[i + j] = input[ref + j]
    BY <2>1, RefRight, Zenon
  <2>3. 1 <= n
    BY <2>2
  <2>4. off < maxOff
    BY <1>2, <2>2, Zenon
  <2> QED BY <1>2, <2>2, <2>3, <2>4, Zenon
<1>4. Begin \in Nat /\ Begin + 4 < Len(output) /\ Begin <= outputIndex
  <2>1. ~(outputIndex - (IF lit = 0 THEN 1 ELSE 0) + 3 + 1 >= Len(output))
    BY Zenon DEF RefusesMatch
  <2> QED BY <1>1, <2>1 DEF Begin
<1>5. /\ Put(MatchWrites(n, off), "loop")
      /\ outputIndex' = Final(n) + 2 /\ lit' = 0 /\ i' = i + n + 2
      /\ htab' = htab \cup {i} \cup (IF i + n + 2 >= N - 2 THEN {}
                                     ELSE {(i + n + 2) - 2, (i + n + 2) - 1})
  BY <1>2, MatchPuts, Zenon
<1>6. /\ lzfPc' = "loop"
      /\ output' \in Seq(Int) /\ Len(output') = Len(output)
      /\ SameBut(output, output', outputIndex, lit)
      /\ lit # 0 => output'[outputIndex - lit] = lit - 1
      /\ output'[Begin + 1] = MatchHead(n, off)
      /\ output'[Final(n) + 1] = off % byteMod
      /\ n >= longLen => output'[(Begin + 1) + 1] = n - longLen
  BY <1>3, <1>4, <1>5, MatchWritten, Zenon
<1>7. Decodes(output', Begin, N, SubSeq(input, 1, i))
  <2>1. lit <= maxLit /\ lit <= i /\ i <= N
    BY <1>1, Powers DEF Behind
  <2>2. Decodes(output', IF lit = 0 THEN outputIndex - 1 ELSE outputIndex, N, SubSeq(input, 1, i))
    BY <1>1, <1>6, <2>1, RunStopped, Zenon
  <2> QED BY <2>2, Zenon DEF Begin
<1>8. Matches(input, output', output', Begin, i, ref, n, off)
  BY <1>3, <1>7, Zenon DEF Matches
<1>9. Codes(output'[Begin + 1], output'[Final(n) + 1], IF n >= longLen THEN longLen ELSE n, off)
  BY <1>3, <1>6, HeadCodes, Zenon
<1> DEFINE i2 == i + (n + 2)
<1>10. i2 \in Nat /\ i < i2 /\ i2 <= N /\ i' = i2 /\ i + n + 2 = i2
  BY <1>1, <1>3, <1>5
<1>11. /\ outputIndex' \in Nat /\ 0 < outputIndex' /\ outputIndex' <= Len(output)
       /\ Pending(input, output', outputIndex', i2, 0)
  <2>1. CASE n >= longLen
    <3>1. Final(n) = Begin + 2
      BY <2>1, Zenon DEF Final
    <3>2. (Begin + 2) + 1 = Begin + 3 /\ (Begin + 1) + 1 = Begin + 2 /\ Begin + 3 \in Nat
      BY <1>4
    <3>3. outputIndex' = (Begin + 3) + 1
      BY <1>4, <1>5, <3>1
    <3>4. Codes(output'[Begin + 1], output'[Begin + 3], longLen, off)
      BY <1>9, <2>1, <3>1, <3>2, Zenon
    <3>5. output'[Begin + 2] = n - longLen /\ longLen <= n
      <4>1. longLen <= n
        BY <2>1, Powers
      <4> QED BY <1>6, <2>1, <3>2, <4>1, Zenon
    <3>6. Decodes(output', Begin + 3, N, SubSeq(input, 1, i2))
      BY <1>1, <1>3, <1>4, <1>8, <3>4, <3>5, LongMatchDecodes, Zenon
    <3>7. Pending(input, output', (Begin + 3) + 1, i2, 0)
      BY <1>10, <3>2, <3>6, RunBegins, Zenon
    <3>8. (Begin + 3) + 1 \in Nat /\ 0 < (Begin + 3) + 1 /\ (Begin + 3) + 1 <= Len(output)
      BY <1>1, <1>4
    <3> QED BY <3>3, <3>7, <3>8, Zenon
  <2>2. CASE ~(n >= longLen)
    <3>1. Final(n) = Begin + 1
      BY <2>2, Zenon DEF Final
    <3>2. (Begin + 1) + 1 = Begin + 2 /\ Begin + 2 \in Nat
      BY <1>4
    <3>3. outputIndex' = (Begin + 2) + 1
      BY <1>4, <1>5, <3>1
    <3>4. Codes(output'[Begin + 1], output'[Begin + 2], n, off)
      BY <1>9, <2>2, <3>1, <3>2, Zenon
    <3>5. n # longLen
      BY <2>2, Powers
    <3>6. Decodes(output', Begin + 2, N, SubSeq(input, 1, i2))
      BY <1>1, <1>3, <1>4, <1>8, <3>4, <3>5, ShortMatchDecodes, Zenon
    <3>7. Pending(input, output', (Begin + 2) + 1, i2, 0)
      BY <1>10, <3>2, <3>6, RunBegins, Zenon
    <3>8. (Begin + 2) + 1 \in Nat /\ 0 < (Begin + 2) + 1 /\ (Begin + 2) + 1 <= Len(output)
      BY <1>1, <1>4
    <3> QED BY <3>3, <3>7, <3>8, Zenon
  <2> QED BY <2>1, <2>2, Zenon
<1>12. htab' \in SUBSET Nat /\ \A r \in htab' : r < i2
  <2>1. \A r \in htab : r \in Nat /\ r < i2
    <3>1. \A r \in htab : r \in Nat /\ r < i
      BY <1>1, Zenon DEF Behind
    <3> QED BY <1>1, <1>10, <3>1
  <2>2. i2 - 2 \in Nat /\ i2 - 1 \in Nat /\ i2 - 2 < i2 /\ i2 - 1 < i2
    BY <1>1, <1>3
  <2> HIDE DEF i2
  <2>3. \A r \in htab' : r \in htab \/ r = i \/ r = i2 - 2 \/ r = i2 - 1
    BY <1>5, <1>10, Zenon
  <2>4. \A r \in htab' : r \in Nat /\ r < i2
    BY <1>1, <1>10, <2>1, <2>2, <2>3, Zenon
  <2> QED BY <2>4, Zenon
<1> QED BY <1>5, <1>6, <1>10, <1>11, <1>12, Zenon

-----------------------------------------------------------------------------
(* The steps keep the invariant. *)

LEMMA InitInv ==
    ASSUME NEW in \in Seq(Byte), Len(in) # 1, LzfInit(in)
    PROVE  LzfInv
<1>1. /\ input = in /\ output = [ k \in DOMAIN in |-> 0 ]
      /\ inputIndex = 0 /\ outputIndex = 1 /\ lit = 0 /\ htab = {}
  BY Zenon DEF LzfInit
<1>2. byteMod \in Nat /\ maxLit \in Nat /\ maxLit >= 2
  BY Powers
<1>3. Len(in) \in Nat /\ in \in Seq(Int)
  BY <1>2 DEF Byte
<1>4. output \in Seq(Int) /\ Len(output) = Len(input)
  BY <1>1, <1>3
<1>5. \/ lzfPc = "idle" /\ Len(in) = 0
      \/ lzfPc = "loop" /\ Len(in) >= 2
  <2>1. \/ Len(in) = 0 /\ lzfPc = "idle"
        \/ Len(in) = 1 /\ lzfPc = "panic"
        \/ Len(in) > 1 /\ lzfPc = "loop"
    BY Zenon DEF LzfInit
  <2>2. Len(in) > 1 => Len(in) >= 2
    BY <1>3
  <2> QED BY <2>1, <2>2, Zenon
<1>6. Shape
  BY <1>1, <1>3, <1>4, <1>5 DEF Shape
<1>7. Behind
  BY <1>1, <1>2, <1>3 DEF Behind
<1>8. Room
  BY <1>1, <1>3, <1>4, <1>5 DEF Room
<1>9. Pending(input, output, outputIndex, inputIndex, lit)
  <2>1. SubSeq(input, 1, 0) = <<>>
    BY <1>1, <1>3
  <2>2. Decodes(output, 0, Len(input), <<>>)
    BY DecodesNothing
  <2>3. Pending(input, output, 0 + 1, 0, 0)
    BY <2>1, <2>2, RunBegins
  <2>4. 0 + 1 = 1
    OBVIOUS
  <2> QED BY <1>1, <2>3, <2>4, Zenon
<1>10. Coded
  BY <1>5, <1>9 DEF Coded
<1> QED BY <1>6, <1>7, <1>8, <1>10, Zenon DEF LzfInv

LEMMA RefusedInv ==
    ASSUME LzfInv, Refused, input' = input
    PROVE  LzfInv'
<1>1. /\ lzfPc' = "error" /\ output' = output /\ inputIndex' = inputIndex
      /\ outputIndex' = outputIndex /\ lit' = lit /\ htab' = htab
  BY Zenon DEF Refused
<1>2. Shape'
  BY <1>1 DEF LzfInv, Shape
<1>3. Behind'
  BY <1>1 DEF LzfInv, Behind
<1>4. Room'
  BY <1>1 DEF Room
<1>5. Coded'
  BY <1>1 DEF Coded
<1> QED BY <1>2, <1>3, <1>4, <1>5, Zenon DEF LzfInv

LEMMA MatchInv ==
    ASSUME LzfInv, InLoop, NEW ref \in Refs, Match(ref), input' = input
    PROVE  LzfInv'
<1>1. Shape /\ Behind /\ Room /\ Coded /\ lzfPc = "loop"
  BY Zenon DEF LzfInv, InLoop
<1>2. CASE RefusesMatch
  <2>1. Refused
    BY <1>2, Zenon DEF Match
  <2> QED BY <2>1, RefusedInv, Zenon
<1>3. CASE ~RefusesMatch
  <2>1. lit < outputIndex /\ Pending(input, output, outputIndex, inputIndex, lit)
    BY <1>1 DEF Room, Coded
  <2>2. /\ lzfPc' = "loop" /\ output' \in Seq(Int) /\ Len(output') = Len(output)
        /\ lit' = 0
        /\ inputIndex' \in Nat /\ inputIndex < inputIndex' /\ inputIndex' <= Len(input)
        /\ outputIndex' \in Nat /\ 0 < outputIndex' /\ outputIndex' <= Len(output)
        /\ htab' \in SUBSET Nat /\ \A r \in htab' : r < inputIndex'
        /\ Pending(input, output', outputIndex', inputIndex', lit')
    BY <1>1, <1>3, <2>1, MatchCodes, Zenon
  <2>3. /\ input \in Seq(Int) /\ Len(output) = Len(input) /\ Len(output) \in Nat
    BY <1>1 DEF Shape
  <2>4. Shape'
    BY <2>2, <2>3 DEF Shape
  <2>5. Behind'
    <3>1. 0 < maxLit /\ 0 <= inputIndex'
      BY <2>2, Powers
    <3> QED BY <2>2, <3>1, Zenon DEF Behind
  <2>6. Room'
    BY <2>2, <2>3 DEF Room
  <2>7. Coded'
    <3>1. Pending(input, output, outputIndex, inputIndex, lit)'
      BY <2>2, Zenon
    <3>2. lzfPc' # "done"
      BY <2>2
    <3> QED BY <3>1, <3>2, Zenon DEF Coded
  <2> QED BY <2>4, <2>5, <2>6, <2>7, Zenon DEF LzfInv
<1> QED BY <1>2, <1>3

LEMMA LiteralInv ==
    ASSUME LzfInv, lzfPc \in {"loop", "tail"}, inputIndex < Len(input),
           outputIndex < Len(output), CopyLiteral,
           htab' \subseteq htab \cup {inputIndex}, input' = input
    PROVE  LzfInv'
<1>1. Shape /\ Behind /\ Room /\ Coded
  BY Zenon DEF LzfInv
<1>2. lit < outputIndex /\ Pending(input, output, outputIndex, inputIndex, lit)
  BY <1>1 DEF Room, Coded
<1>3. lzfPc' = lzfPc /\ output' \in Seq(Int) /\ Len(output') = Len(output)
  BY <1>1, <1>2, LiteralWritten, Zenon
<1>4. Pending(input, output', outputIndex', inputIndex', lit')
  BY <1>1, <1>2, LiteralCodes, Zenon
<1>5. /\ input \in Seq(Int) /\ Len(output) = Len(input) /\ Len(input) \in Nat
      /\ inputIndex \in Nat /\ outputIndex \in Nat /\ lit \in Nat /\ htab \in SUBSET Nat
  BY <1>1 DEF Shape
<1>6. /\ lit' = IF lit + 1 = maxLit THEN 0 ELSE lit + 1
      /\ outputIndex' = outputIndex + (IF lit + 1 = maxLit THEN 2 ELSE 1)
      /\ inputIndex' = inputIndex + 1
  BY Zenon DEF CopyLiteral
<1>7. lit < maxLit /\ lit <= inputIndex /\ (\A r \in htab : r < inputIndex)
      /\ maxLit \in Nat /\ maxLit >= 2
  BY <1>1, Powers DEF Behind
<1>8. \/ lit + 1 = maxLit /\ lit' = 0 /\ outputIndex' = outputIndex + 2
      \/ lit + 1 < maxLit /\ lit' = lit + 1 /\ outputIndex' = outputIndex + 1
  BY <1>5, <1>6, <1>7
<1>9. /\ lit' \in Nat /\ outputIndex' \in Nat /\ inputIndex' \in Nat
      /\ lit' < maxLit /\ lit' <= inputIndex' /\ inputIndex' <= Len(input)
  BY <1>5, <1>6, <1>7, <1>8
<1>10. htab' \in SUBSET Nat /\ \A r \in htab' : r < inputIndex'
  <2>1. \A r \in htab' : r \in htab \/ r = inputIndex
    OBVIOUS
  <2>2. \A r \in htab' : r \in Nat /\ r < inputIndex'
    BY <1>5, <1>6, <1>7, <2>1
  <2> QED BY <2>2
<1>11. Shape'
  BY <1>3, <1>5, <1>9, <1>10 DEF Shape
<1>12. Behind'
  BY <1>9, <1>10, Zenon DEF Behind
<1>13. Room'
  <2>1. lit' < outputIndex'
    BY <1>2, <1>5, <1>8
  <2>2. lzfPc = "loop" => outputIndex' <= Len(output') + (IF lit' = 0 THEN 1 ELSE 0)
    BY <1>3, <1>5, <1>8
  <2>3. lzfPc = "tail" => Left' <= 2 /\ outputIndex' + Needed' < Len(output')
    <3> SUFFICES ASSUME lzfPc = "tail"
                 PROVE  Left' <= 2 /\ outputIndex' + Needed' < Len(output')
      OBVIOUS
    <3>1. Left <= 2 /\ outputIndex + Needed < Len(output)
      BY <1>1, Zenon DEF Room
    <3>2. Left \in Nat /\ Left >= 1 /\ Left' = Left - 1
      BY <1>5, <1>6 DEF Left
    <3>3. Needed' = IF Left' = 0 THEN 0
                    ELSE IF Left' = 1 THEN (IF lit' = 0 THEN 1 ELSE 2) ELSE 3
      BY Zenon DEF Needed
    <3>4. Needed = IF Left = 1 THEN (IF lit = 0 THEN 1 ELSE 2) ELSE 3
      BY <3>2 DEF Needed
    <3> DEFINE a == Left
               c == Left'
    <3>5. CASE a = 1
      <4>1. Needed' = 0 /\ Needed = IF lit = 0 THEN 1 ELSE 2
        BY <3>2, <3>3, <3>4, <3>5
      <4>2. outputIndex' + 0 < Len(output)
        BY <1>5, <1>7, <1>8, <3>1, <4>1
      <4> QED BY <1>3, <3>2, <3>5, <4>1, <4>2
    <3>6. CASE a = 2
      <4>1. Needed' = (IF lit' = 0 THEN 1 ELSE 2) /\ Needed = 3 /\ Left' = 1
        BY <3>2, <3>3, <3>4, <3>6
      <4>2. outputIndex' + (IF lit' = 0 THEN 1 ELSE 2) < Len(output)
        BY <1>5, <1>7, <1>8, <3>1, <4>1
      <4> QED BY <1>3, <4>1, <4>2
    <3> QED BY <3>1, <3>2, <3>5, <3>6
  <2>4. lzfPc' # "done"
    BY <1>3
  <2> QED BY <1>3, <2>1, <2>2, <2>3, <2>4, Zenon DEF Room
<1>14. Coded'
  <2>1. Pending(input, output, outputIndex, inputIndex, lit)'
    BY <1>4, Zenon
  <2>2. lzfPc' # "done"
    BY <1>3
  <2> QED BY <2>1, <2>2, Zenon DEF Coded
<1> QED BY <1>11, <1>12, <1>13, <1>14, Zenon DEF LzfInv

(* Behind the loop at most two bytes are left, and the test of the room    *)
(* takes the headers that they may need into account.                      *)
LEMMA TestInv ==
    ASSUME LzfInv, Test
    PROVE  LzfInv'
<1>1. Shape /\ Behind /\ Room /\ Coded /\ lzfPc = "loop" /\ ~InLoop
  BY Zenon DEF LzfInv, Test
<1>2. /\ lzfPc' = (IF outputIndex + 3 >= Len(output) THEN "error" ELSE "tail")
      /\ input' = input /\ output' = output /\ inputIndex' = inputIndex
      /\ outputIndex' = outputIndex /\ lit' = lit /\ htab' = htab
  BY Zenon DEF Test
<1>3. Shape'
  BY <1>1, <1>2 DEF Shape
<1>4. Behind'
  BY <1>1, <1>2 DEF Behind
<1>5. Coded'
  BY <1>1, <1>2 DEF Coded
<1>6. Room'
  <2>1. /\ lit < outputIndex /\ inputIndex \in Nat /\ inputIndex <= Len(input)
        /\ Len(input) \in Nat /\ Len(output) = Len(input) /\ outputIndex \in Nat
    BY <1>1 DEF Room, Shape, Behind
  <2>2. CASE outputIndex + 3 >= Len(output)
    BY <1>2, <2>2 DEF Room
  <2>3. CASE ~(outputIndex + 3 >= Len(output))
    <3>1. lzfPc' = "tail"
      BY <1>2, <2>3
    <3>2. Left \in Nat /\ Left <= 2
      BY <1>1, <2>1 DEF InLoop, Left
    <3>3. Needed <= 3 /\ Needed \in Nat
      BY DEF Needed
    <3>4. outputIndex + Needed < Len(output)
      BY <2>1, <2>3, <3>3
    <3>5. Left' = Left /\ Needed' = Needed
      BY <1>2 DEF Left, Needed
    <3> QED BY <1>2, <2>1, <3>1, <3>2, <3>4, <3>5 DEF Room
  <2> QED BY <2>2, <2>3
<1> QED BY <1>3, <1>4, <1>5, <1>6, Zenon DEF LzfInv

LEMMA RestBytesInv ==
    ASSUME LzfInv, RestBytes
    PROVE  LzfInv'
<1>1. Shape /\ Behind /\ Room
  BY Zenon DEF LzfInv
<1>2. /\ lzfPc = "tail" /\ inputIndex < Len(input) /\ CopyLiteral
      /\ input' = input /\ htab' = htab
  BY Zenon DEF RestBytes
<1>3. outputIndex < Len(output)
  <2>1. /\ outputIndex + Needed < Len(output) /\ Len(output) \in Nat /\ outputIndex \in Nat
    BY <1>1, <1>2 DEF Room, Shape
  <2>2. Needed \in Nat
    BY DEF Needed
  <2> QED BY <2>1, <2>2
<1> QED BY <1>2, <1>3, LiteralInv

LEMMA EndRunInv ==
    ASSUME LzfInv, EndRun
    PROVE  LzfInv'
<1> DEFINE start == outputIndex - lit - 1
           value == (lit - 1) % byteMod
           writes == {StopRun(outputIndex, lit)}
<1>1. Shape /\ Behind /\ Room /\ Coded
  BY Zenon DEF LzfInv
<1>2. /\ lzfPc = "tail" /\ inputIndex >= Len(input) /\ Put(writes, "done")
      /\ outputIndex' = (IF lit = 0 THEN outputIndex - 1 ELSE outputIndex)
      /\ input' = input /\ inputIndex' = inputIndex /\ lit' = lit /\ htab' = htab
  BY Zenon DEF EndRun
<1>3. /\ input \in Seq(Int) /\ output \in Seq(Int) /\ Len(output) = Len(input)
      /\ Len(input) \in Nat /\ inputIndex \in Nat /\ outputIndex \in Nat /\ lit \in Nat
  BY <1>1 DEF Shape
<1>4. lit < maxLit /\ lit <= inputIndex /\ inputIndex = Len(input)
  BY <1>1, <1>2, <1>3 DEF Behind
<1>5. lit < outputIndex /\ outputIndex < Len(output)
  <2>1. lit < outputIndex /\ outputIndex + Needed < Len(output)
    BY <1>1, <1>2 DEF Room
  <2>2. Needed = 0
    BY <1>3, <1>4 DEF Needed, Left
  <2> QED BY <1>3, <2>1, <2>2
<1>6. Pending(input, output, outputIndex, inputIndex, lit)
  BY <1>1, <1>2 DEF Coded
<1>7. start \in 0..(Len(input) - 1) /\ value \in Int
  <2>1. start \in 0..(Len(input) - 1)
    BY <1>3, <1>5
  <2>2. lit - 1 \in Int /\ byteMod \in Nat /\ byteMod > 0
    BY <1>3, Powers
  <2>3. \A x \in Int, y \in Nat : y > 0 => x % y \in Int
    OBVIOUS
  <2> QED BY <2>1, <2>2, <2>3, Zenon
<1>8. lit # 0 => value = lit - 1
  <2> SUFFICES ASSUME lit # 0 PROVE value = lit - 1
    OBVIOUS
  <2>1. lit - 1 \in Nat /\ lit - 1 < byteMod /\ byteMod \in Nat
    <3>1. maxLit <= byteMod /\ maxLit \in Nat /\ byteMod \in Nat
      BY Powers
    <3> QED BY <1>3, <1>4, <3>1
  <2>2. \A x \in Nat, y \in Nat : x < y => x % y = x
    OBVIOUS
  <2> QED BY <2>1, <2>2, Zenon
<1>9. writes = {<<start, value>>}
  BY Zenon DEF StopRun
<1> HIDE DEF start, value, writes
<1>10. \A w \in writes : w[1] = start /\ w[2] = value
  BY <1>9
<1>11. Inside(writes)
  BY <1>7, <1>10, Zenon DEF Inside
<1>12. /\ lzfPc' = "done" /\ output' \in Seq(Int) /\ Len(output') = Len(output)
       /\ \A w \in writes : output'[w[1] + 1] = w[2]
       /\ \A k \in 1..Len(output) : (\A w \in writes : w[1] # k - 1) => output'[k] = output[k]
  BY <1>2, <1>3, <1>11, PutWrites, Zenon
<1>13. output'[start + 1] = value
  BY <1>9, <1>12
<1>14. start + 1 = outputIndex - lit
  BY <1>3 DEF start
<1>15. lit # 0 => output'[outputIndex - lit] = lit - 1
  BY <1>8, <1>13, <1>14, Zenon
<1>16. SameBut(output, output', outputIndex, lit)
  <2>1. ASSUME NEW k \in 1..outputIndex, k # outputIndex - lit
        PROVE  output'[k] = output[k]
    <3>1. k \in 1..Len(output) /\ k - 1 # start
      BY <1>3, <1>5, <2>1 DEF start
    <3> QED BY <1>10, <1>12, <3>1, Zenon
  <2> QED BY <2>1, Zenon DEF SameBut
<1>17. Decodes(output', outputIndex', Len(input), input)
  <2>1. lit <= maxLit /\ inputIndex <= Len(input)
    BY <1>3, <1>4, Powers
  <2>2. Decodes(output', IF lit = 0 THEN outputIndex - 1 ELSE outputIndex, Len(input),
                SubSeq(input, 1, inputIndex))
    BY <1>3, <1>4, <1>5, <1>6, <1>15, <1>16, <2>1, RunStopped, Zenon
  <2>3. SubSeq(input, 1, inputIndex) = input
    BY <1>3, <1>4
  <2> QED BY <1>2, <2>2, <2>3, Zenon
<1>18. outputIndex' \in Nat /\ outputIndex' < Len(output)
  BY <1>2, <1>3, <1>5
<1>19. Shape'
  BY <1>1, <1>2, <1>3, <1>12, <1>18 DEF Shape
<1>20. Behind'
  BY <1>1, <1>2 DEF Behind
<1>21. Room'
  BY <1>12, <1>18 DEF Room
<1>22. Coded'
  <2>1. Decodes(output, outputIndex, Len(input), input)'
    BY <1>2, <1>17, Zenon
  <2>2. lzfPc' # "loop" /\ lzfPc' # "tail"
    BY <1>12
  <2>3. lzfPc' \notin {"loop", "tail"}
    BY <2>2
  <2> QED BY <2>1, <2>3, Zenon DEF Coded
<1> QED BY <1>19, <1>20, <1>21, <1>22, Zenon DEF LzfInv

-----------------------------------------------------------------------------
(* The theorems. *)

(* What the compressor keeps true at every turn of its loop: where it      *)
(* stands in the input and the output, the room there is for the bytes     *)
(* that are left, and that what it has written, up to the literals whose   *)
(* header is not there yet, decompresses to what it has read.              *)
THEOREM CompressInvariant == LzfSpec => []LzfInv
<1>1. ASSUME NEW in \in Seq(0..(byteMod - 1)), Len(in) # 1, LzfInit(in)
      PROVE  LzfInv
  BY <1>1, InitInv DEF Byte
<1>2. LzfInv /\ [LzfNext]_lzfVars => LzfInv'
  <2> SUFFICES ASSUME LzfInv, [LzfNext]_lzfVars
               PROVE  LzfInv'
    OBVIOUS
  <2>1. CASE Loop
    <3>1. InLoop /\ input' = input
      BY <2>1, Zenon DEF Loop
    <3>2. ASSUME NEW ref \in Refs, Match(ref)
          PROVE  LzfInv'
      BY <3>1, <3>2, MatchInv, Zenon
    <3>3. CASE Literal
      <4>1. CASE outputIndex >= Len(output)
        <5>1. Refused
          BY <3>3, <4>1, Zenon DEF Literal
        <5> QED BY <3>1, <5>1, RefusedInv, Zenon
      <4>2. CASE ~(outputIndex >= Len(output))
        <5>1. CopyLiteral /\ htab' = htab \cup {inputIndex}
          BY <3>3, <4>2, Zenon DEF Literal
        <5>2. lzfPc = "loop" /\ inputIndex < Len(input) /\ outputIndex < Len(output)
          BY <3>1, <4>2 DEF InLoop, LzfInv, Shape
        <5> QED BY <3>1, <5>1, <5>2, LiteralInv
      <4> QED BY <4>1, <4>2
    <3> QED BY <2>1, <3>2, <3>3, Zenon DEF Loop
  <2>2. CASE Test
    BY <2>2, TestInv, Zenon
  <2>3. CASE RestBytes
    BY <2>3, RestBytesInv, Zenon
  <2>4. CASE EndRun
    BY <2>4, EndRunInv, Zenon
  <2>5. CASE UNCHANGED lzfVars
    <3>1. /\ input' = input /\ output' = output /\ inputIndex' = inputIndex
          /\ outputIndex' = outputIndex /\ lit' = lit /\ htab' = htab /\ lzfPc' = lzfPc
      BY <2>5 DEF lzfVars
    <3>2. Left' = Left /\ Needed' = Needed
      BY <3>1 DEF Left, Needed
    <3>3. Shape'
      BY <3>1 DEF LzfInv, Shape
    <3>4. Behind'
      BY <3>1 DEF LzfInv, Behind
    <3>5. Room'
      BY <3>1, <3>2 DEF LzfInv, Room
    <3>6. Coded'
      BY <3>1 DEF LzfInv, Coded
    <3> QED BY <3>3, <3>4, <3>5, <3>6, Zenon DEF LzfInv
  <2> QED BY <2>1, <2>2, <2>3, <2>4, <2>5, Zenon DEF LzfNext
<1>3. (\E in \in Seq(0..(byteMod - 1)) : Len(in) # 1 /\ LzfInit(in)) => LzfInv
  BY <1>1
<1> QED BY <1>2, <1>3, PTL DEF LzfSpec

(* Compress never writes outside of its output, which is as long as its    *)
(* input, and what it returns is shorter: the tests of the room left, the  *)
(* one in the loop and the one behind it, are enough for every input.      *)
THEOREM CompressStaysInside == LzfSpec => []LzfInBounds
<1>1. LzfInv => LzfInBounds
  BY DEF LzfInv, Shape, Room, LzfInBounds
<1> QED BY <1>1, CompressInvariant, PTL

(* Decompress turns what Compress returns into the input again, with the   *)
(* length of the input announced: for every input, of any length, whatever *)
(* matches the hash table gives or hides.                                  *)
THEOREM DecompressInverts == LzfSpec => []LzfRoundTrip
<1>1. LzfInv => LzfRoundTrip
  <2> SUFFICES ASSUME LzfInv, lzfPc = "done"
               PROVE  Decompress(Compressed, Len(input)) = input
    BY DEF LzfRoundTrip
  <2>1. /\ output \in Seq(Int) /\ outputIndex \in Nat /\ outputIndex <= Len(output)
    BY DEF LzfInv, Shape, Room
  <2>2. Decodes(output, outputIndex, Len(input), input)
    BY DEF LzfInv, Coded
  <2> DEFINE b == SubSeq(output, 1, outputIndex)
  <2>3. b \in Seq(Int) /\ Len(b) = outputIndex /\ \A j \in 1..outputIndex : b[j] = output[j]
    BY <2>1, Beginning
  <2> HIDE DEF b
  <2>4. Decodes(b, outputIndex, Len(input), input)
    BY <2>1, <2>2, <2>3, DecodesSame, Zenon
  <2>5. Decodes(b, Len(b), Len(input), input)
    BY <2>3, <2>4, Zenon
  <2>6. Decompress(b, Len(input)) = input
    BY <2>3, <2>5, DecompressGives, Zenon
  <2> QED BY <2>6 DEF Compressed, b
<1> QED BY <1>1, CompressInvariant, PTL
=============================================================================
