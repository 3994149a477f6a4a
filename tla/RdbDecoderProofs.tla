-------------------------- MODULE RdbDecoderProofs --------------------------
(***************************************************************************)
(* What TLAPS proves of the Decoder, for every corpus and every setting:   *)
(* that the callback's false is final, and, when each value is read as     *)
(* what it is (ValuesRead), that the records around the values are handled *)
(* right whatever their order and wherever the file ends.                  *)
(***************************************************************************)
EXTENDS RdbCorpus, SequenceTheorems, WellFoundedInduction, TLAPS

(* The callback that stops the iteration makes Parse return. *)
StopReturns == stopped => result # "none"

(* Every action begins while Parse has not returned. *)
LEMMA StepWhileParsing == Next => result = "none"
<1>1. ASSUME NEW op, AtRecord(op)
      PROVE  result = "none"
  BY <1>1 DEF AtRecord, Parsing
<1>2. Record => result = "none"
  BY <1>1 DEF Record, ReadEOF, SelectDB, ExpireTime, ExpireTimeMs, ResizeDB, Aux, Freq, Idle,
       ModuleAux, Function, SlotInfo, SlotImport, Object
<1>3. checkHeader \/ NoRecord => result = "none"
  BY DEF checkHeader, NoRecord, Parsing
<1> QED BY <1>2, <1>3 DEF Next, DecoderNext
(* A step that sets stopped leaves the loop with it. *)
LEMMA StopLeavesTheLoop == Next /\ ~stopped /\ stopped' => result' # "none"
<1> SUFFICES ASSUME Next, ~stopped, stopped'
             PROVE  result' # "none"
  OBVIOUS
<1>1. ASSUME NEW r, NEW p, Return(r, p)
      PROVE  FALSE
  BY <1>1 DEF Return
<1>2. ASSUME NEW r, Advance(r)
      PROVE  FALSE
  BY <1>1, <1>2 DEF Advance
<1>3. ASSUME NEW x, NEW p, Callback(x, p)
      PROVE  result' # "none"
  BY <1>3 DEF Callback
<1>4. ASSUME NEW r, NEW x, SecondOperand(r, x)
      PROVE  result' # "none"
  BY <1>1, <1>2, <1>3, <1>4 DEF SecondOperand
<1>5. CASE checkHeader
  BY <1>1, <1>5 DEF checkHeader
<1>6. CASE NoRecord
  BY <1>1, <1>6 DEF NoRecord
<1>7. CASE ReadEOF
  BY <1>1, <1>7 DEF ReadEOF
<1>8. CASE SelectDB
  BY <1>2, <1>8 DEF SelectDB
<1>9. CASE ExpireTime \/ ExpireTimeMs
  BY <1>2, <1>9 DEF ExpireTime, ExpireTimeMs
<1>10. CASE ResizeDB \/ Aux
  BY <1>1, <1>4, <1>10 DEF ResizeDB, Aux
<1>11. CASE Freq \/ Idle
  BY <1>2, <1>11 DEF Freq, Idle
<1>12. CASE ModuleAux
  BY <1>2, <1>12 DEF ModuleAux
<1>13. CASE Function
  BY <1>2, <1>3, <1>13 DEF Function
<1>14. CASE SlotInfo
  BY <1>1, <1>2, <1>14 DEF SlotInfo
<1>15. CASE SlotImport
  BY <1>1, <1>2, <1>15 DEF SlotImport
<1>16. CASE \E flag \in TypeFlags : Object(flag)
  BY <1>1, <1>3, <1>16 DEF Object
<1> QED BY <1>5, <1>6, <1>7, <1>8, <1>9, <1>10, <1>11, <1>12, <1>13, <1>14, <1>15, <1>16
        DEF Next, DecoderNext, Record

LEMMA StopReturnsHolds == Spec => []StopReturns
<1>1. Init => StopReturns
  BY DEF Init, DecoderInit, StopReturns
<1>2. StopReturns /\ [Next]_allVars => StopReturns'
  <2> SUFFICES ASSUME StopReturns, [Next]_allVars, stopped'
               PROVE  result' # "none"
    BY DEF StopReturns
  <2>1. CASE UNCHANGED allVars
    BY <2>1 DEF StopReturns, allVars, dvars
  <2>2. CASE Next
    <3>1. ~stopped
      BY <2>2, StepWhileParsing DEF StopReturns
    <3> QED BY <2>2, <3>1, StopLeavesTheLoop
  <2> QED BY <2>1, <2>2
<1> QED BY <1>1, <1>2, PTL DEF Spec

(* A callback that returned false is never called again, whatever stands   *)
(* in the rest of the file ("returns false to stop the iteration",         *)
(* decoder.go:590).                                                        *)
THEOREM StopIsFinal == Spec => StopMeansStop
<1>1. StopReturns /\ [Next]_allVars => [stopped => UNCHANGED got]_allVars
  BY StepWhileParsing DEF StopReturns
<1> QED BY <1>1, StopReturnsHolds, PTL DEF Spec, StopMeansStop

-----------------------------------------------------------------------------
(* Induction, as the least of a set of numbers. *)

LEMMA LeastNat ==
    ASSUME NEW S \in SUBSET Nat, S # {}
    PROVE  \E m \in S : \A n \in S : m <= n
<1>1. IsWellFoundedOn(OpToRel(<, Nat), Nat)
  BY NatLessThanWellFounded
<1>2. PICK x \in S : \A y \in S : ~(<<y, x>> \in OpToRel(<, Nat))
  BY <1>1, WFMin
<1>3. \A y \in S : ~(y < x)
  BY <1>2 DEF OpToRel
<1> QED BY <1>3

LEMMA NatSetInduction ==
    ASSUME NEW S, NEW N \in Nat, 0 \in S,
           \A k \in 1..N : k - 1 \in S => k \in S
    PROVE  0..N \subseteq S
<1> SUFFICES ASSUME ~(0..N \subseteq S) PROVE FALSE
  OBVIOUS
<1>1. (0..N) \ S \in SUBSET Nat /\ (0..N) \ S # {}
  OBVIOUS
<1>2. PICK m \in (0..N) \ S : \A n \in (0..N) \ S : m <= n
  BY <1>1, LeastNat
<1>3. m # 0 /\ m \in 1..N /\ m - 1 \in 0..N /\ ~(m <= m - 1)
  BY <1>2
<1> QED BY <1>2, <1>3

-----------------------------------------------------------------------------
(* Concat, one page more. *)

Joins(p, n, h) == h = [ i \in 0..n |-> IF i = 0 THEN <<>> ELSE h[i - 1] \o p[i] ]

LEMMA JoinsExists ==
    ASSUME NEW p, NEW N \in Nat
    PROVE  \E h : Joins(p, N, h)
<1> DEFINE S == {n \in 0..N : \E h : Joins(p, n, h)}
<1>1. 0 \in S
  <2> DEFINE h == [ i \in 0..0 |-> <<>> ]
  <2>1. h = [ i \in 0..0 |-> IF i = 0 THEN <<>> ELSE h[i - 1] \o p[i] ]
    OBVIOUS
  <2> HIDE DEF h
  <2>2. Joins(p, 0, h)
    BY <2>1 DEF Joins
  <2> QED BY <2>2
<1>2. ASSUME NEW k \in 1..N, k - 1 \in S
      PROVE  k \in S
  <2>1. PICK h : Joins(p, k - 1, h)
    BY <1>2
  <2> DEFINE g == [ i \in 0..k |-> IF i = k THEN h[k - 1] \o p[k] ELSE h[i] ]
  <2>2. \A i \in 0..(k - 1) : h[i] = IF i = 0 THEN <<>> ELSE h[i - 1] \o p[i]
    BY <2>1 DEF Joins
  <2>3. \A i \in 0..k : g[i] = IF i = 0 THEN <<>> ELSE g[i - 1] \o p[i]
    BY <2>2
  <2>4. g = [ i \in 0..k |-> IF i = 0 THEN <<>> ELSE g[i - 1] \o p[i] ]
    BY <2>3
  <2> HIDE DEF g
  <2>5. Joins(p, k, g)
    BY <2>4 DEF Joins
  <2> QED BY <2>5
<1> HIDE DEF S
<1>3. 0..N \subseteq S
  BY <1>1, <1>2, NatSetInduction
<1> QED BY <1>3 DEF S

LEMMA ConcatIs ==
    ASSUME NEW p, Len(p) \in Nat
    PROVE  \E h : Joins(p, Len(p), h) /\ Concat(p) = h[Len(p)]
<1> DEFINE IsJoin(h) == h = [ i \in 0..Len(p) |-> IF i = 0 THEN <<>> ELSE h[i - 1] \o p[i] ]
           join == CHOOSE h : IsJoin(h)
<1>1. Concat(p) = join[Len(p)]
  BY DEF Concat
<1>2. \E h : IsJoin(h)
  BY JoinsExists DEF Joins
<1>3. IsJoin(join)
  <2> HIDE DEF IsJoin
  <2> QED BY <1>2
<1> QED BY <1>1, <1>3 DEF Joins

LEMMA ConcatNone == ASSUME NEW p, Len(p) = 0 PROVE Concat(p) = <<>>
<1>1. PICK h : Joins(p, 0, h) /\ Concat(p) = h[0]
  BY ConcatIs
<1> QED BY <1>1 DEF Joins

LEMMA ConcatMore ==
    ASSUME NEW p, NEW q, NEW n \in Nat, Len(p) = n, Len(q) = n + 1,
           \A i \in 1..n : q[i] = p[i]
    PROVE  Concat(q) = Concat(p) \o q[n + 1]
<1>1. PICK h : Joins(p, n, h) /\ Concat(p) = h[n]
  BY ConcatIs
<1>2. PICK g : Joins(q, n + 1, g) /\ Concat(q) = g[n + 1]
  BY ConcatIs
<1>3. /\ \A i \in 0..n : h[i] = IF i = 0 THEN <<>> ELSE h[i - 1] \o p[i]
      /\ \A i \in 0..(n + 1) : g[i] = IF i = 0 THEN <<>> ELSE g[i - 1] \o q[i]
  BY <1>1, <1>2 DEF Joins
<1> DEFINE S == {i \in 0..n : g[i] = h[i]}
<1>4. 0 \in S
  BY <1>3
<1>5. \A k \in 1..n : k - 1 \in S => k \in S
  BY <1>3
<1> HIDE DEF S
<1>6. 0..n \subseteq S
  BY <1>4, <1>5, NatSetInduction
<1>7. g[n] = h[n]
  BY <1>6 DEF S
<1>8. g[n + 1] = g[n] \o q[n + 1]
  <2>1. n + 1 \in 0..(n + 1) /\ n + 1 # 0 /\ (n + 1) - 1 = n
    OBVIOUS
  <2> QED BY <1>3, <2>1, Zenon
<1> QED BY <1>1, <1>2, <1>7, <1>8

LEMMA JoinsSteps ==
    ASSUME NEW p, NEW n \in Nat, NEW h, Joins(p, n, h)
    PROVE  h[0] = <<>> /\ \A k \in 1..n : h[k] = h[k - 1] \o p[k]
<1>1. \A i \in 0..n : h[i] = IF i = 0 THEN <<>> ELSE h[i - 1] \o p[i]
  BY DEF Joins
<1>2. h[0] = <<>>
  BY <1>1
<1>3. ASSUME NEW k \in 1..n
      PROVE  h[k] = h[k - 1] \o p[k]
  <2>1. k \in 0..n /\ k # 0
    OBVIOUS
  <2> QED BY <1>1, <2>1, Zenon
<1> QED BY <1>2, <1>3

Pages(p, n, S) == \A i \in 1..n : p[i] \in Seq(S)

LEMMA JoinsType ==
    ASSUME NEW S, NEW p, NEW n \in Nat, Pages(p, n, S), NEW h, Joins(p, n, h)
    PROVE  h[n] \in Seq(S)
<1> DEFINE T == {i \in 0..n : h[i] \in Seq(S)}
<1>1. h[0] = <<>> /\ \A k \in 1..n : h[k] = h[k - 1] \o p[k]
  BY JoinsSteps
<1>2. 0 \in T
  <2>1. <<>> \in Seq(S) /\ 0 \in 0..n
    OBVIOUS
  <2>2. h[0] \in Seq(S)
    BY <1>1, <2>1, Zenon
  <2> QED BY <2>1, <2>2
<1>3. ASSUME NEW k \in 1..n, k - 1 \in T
      PROVE  k \in T
  <2>1. h[k] = h[k - 1] \o p[k]
    BY <1>1, Zenon
  <2>2. h[k - 1] \in Seq(S) /\ p[k] \in Seq(S)
    BY <1>3 DEF Pages
  <2>3. h[k] \in Seq(S)
    BY <2>1, <2>2, ConcatProperties
  <2> QED BY <2>3
<1> HIDE DEF T
<1>4. 0..n \subseteq T
  BY <1>2, <1>3, NatSetInduction
<1>5. n \in T
  BY <1>4
<1> QED BY <1>5 DEF T

LEMMA ConcatType ==
    ASSUME NEW S, NEW p, Len(p) \in Nat, \A i \in 1..Len(p) : p[i] \in Seq(S)
    PROVE  Concat(p) \in Seq(S)
BY ConcatIs, JoinsType DEF Pages

-----------------------------------------------------------------------------
(* The tokens of a file. *)

LEMMA TokenKinds ==
    /\ \A f \in OpCodes \cup TypeFlags : Op(f) \in WrittenTokens
    /\ \A h \in Magics : Magic(h) \in WrittenTokens
    /\ \A n \in Nat : /\ DbIndex(n) \in WrittenTokens /\ Length(n) \in WrittenTokens
                      /\ Int64(n) \in WrittenTokens
    /\ \A s \in Strings : /\ StrHead(Text(s)) \in WrittenTokens
                          /\ StrBody(Text(s)) \in WrittenTokens
<1>1. \A s \in Strings : Text(s) \in Bytes
  BY DEF Text, Bytes
<1> QED BY <1>1 DEF WrittenTokens, Op, Magic, DbIndex, Length, Int64, StrHead, StrBody

LEMMA WrittenIsWhole == Torn \notin WrittenTokens
BY DEF Torn, WrittenTokens, LzfMark

LEMMA BodyType ==
    ASSUME NEW s \in Strings
    PROVE  /\ Body(Text(s)) \in Seq(WrittenTokens) /\ Len(Body(Text(s))) = 2
           /\ Body(Text(s))[1] = StrHead(Text(s)) /\ Body(Text(s))[2] = StrBody(Text(s))
BY TokenKinds DEF Body

LEMMA SmallTokens ==
    ASSUME NEW a, NEW b, NEW c, NEW d, NEW S, a \in S, b \in S, c \in S, d \in S
    PROVE  /\ <<a>> \in Seq(S) /\ <<a, b>> \in Seq(S)
           /\ <<a, b, c>> \in Seq(S) /\ <<a, b, c, d>> \in Seq(S)
OBVIOUS

Numbered == {"select", "expire", "expirems", "freq", "idle", "resize", "slotinfo"}
Named    == {"aux", "function", "slotimport", "moduleaux"}

LEMMA RecordKinds ==
    ASSUME NEW r, IsRecord(r)
    PROVE  /\ r[1] \in Numbered \cup Named \cup {"object"}
           /\ r[1] \in Numbered => r[2] \in Nat
           /\ r[1] \in Named => r[2] \in Strings
           /\ r[1] = "object" => /\ r[2].key \in Strings /\ r[2].flag \in TypeFlags
                                 /\ r[2].tokens \in Seq(WrittenTokens)
BY DEF IsRecord, IsObjectRecord, Numbered, Named

LEMMA OperandsType ==
    ASSUME NEW r, IsRecord(r)
    PROVE  Operands(r) \in Seq(WrittenTokens)
<1> DEFINE T == Seq(WrittenTokens)
<1>1. \A n \in Nat : Length(n) \in WrittenTokens
  BY TokenKinds
<1>2. CASE r[1] \in Numbered
  <2>1. r[2] \in Nat
    BY <1>2, RecordKinds
  <2>2. /\ << DbIndex(r[2]) >> \in T /\ << Int64(r[2]) >> \in T /\ << Length(r[2]) >> \in T
        /\ << Length(r[2]), Length(r[2]) >> \in T /\ << Length(1), Length(1), Length(0) >> \in T
    BY <2>1, TokenKinds, SmallTokens
  <2> HIDE DEF T
  <2> SUFFICES Operands(r) \in T
    BY DEF T
  <2>3. CASE r[1] = "select"
    BY <2>2, <2>3 DEF Operands, IsObjectRecord
  <2>4. CASE r[1] \in {"expire", "expirems"}
    BY <2>2, <2>4 DEF Operands, IsObjectRecord
  <2>5. CASE r[1] \in {"freq", "idle"}
    BY <2>2, <2>5 DEF Operands, IsObjectRecord
  <2>6. CASE r[1] = "resize"
    BY <2>2, <2>6 DEF Operands, IsObjectRecord
  <2>7. CASE r[1] = "slotinfo"
    BY <2>2, <2>7 DEF Operands, IsObjectRecord
  <2> QED BY <1>2, <2>3, <2>4, <2>5, <2>6, <2>7 DEF Numbered
<1>3. CASE r[1] \in Named
  <2> DEFINE b == Body(Text(r[2]))
             s == << Length(1), Length(3), Length(4) >>
             m == << Length(99), Length(2), Length(7), Length(5) >>
             z == << Length(0) >>
  <2>1. b \in T
    BY <1>3, RecordKinds, BodyType
  <2>2. s \in T /\ m \in T /\ z \in T
    BY <1>1, SmallTokens
  <2>3. /\ r[1] = "aux" => Operands(r) = b \o b
        /\ r[1] = "function" => Operands(r) = b
        /\ r[1] = "slotimport" => Operands(r) = b \o s
        /\ r[1] = "moduleaux" => Operands(r) = (m \o b) \o z
    BY DEF Operands, IsObjectRecord
  <2> HIDE DEF b, s, m, z
  <2>4. b \o b \in T /\ b \o s \in T /\ m \o b \in T
    BY <2>1, <2>2, ConcatProperties
  <2>5. (m \o b) \o z \in T
    BY <2>2, <2>4, ConcatProperties
  <2> QED BY <1>3, <2>1, <2>3, <2>4, <2>5 DEF Named
<1>4. CASE r[1] = "object"
  <2> DEFINE b == Body(Text(r[2].key))
  <2>1. b \in T /\ r[2].tokens \in T
    BY <1>4, RecordKinds, BodyType
  <2>2. Operands(r) = b \o r[2].tokens
    BY <1>4 DEF Operands, IsObjectRecord
  <2> HIDE DEF b
  <2> QED BY <2>1, <2>2, ConcatProperties
<1> QED BY <1>2, <1>3, <1>4, RecordKinds

(* A record is its opcode and its operands. *)
LEMMA RenderType ==
    ASSUME NEW r, IsRecord(r)
    PROVE  /\ Render(r) \in Seq(WrittenTokens)
           /\ Len(Operands(r)) \in Nat /\ Len(Render(r)) = Len(Operands(r)) + 1
           /\ Render(r)[1] = Op(OpOf(r))
           /\ \A i \in 1..Len(Operands(r)) : Render(r)[i + 1] = Operands(r)[i]
           /\ OpOf(r) # "opCodeEOF"
<1> DEFINE a == << Op(OpOf(r)) >>
           t == Operands(r)
<1>1. OpOf(r) \in (OpCodes \cup TypeFlags) \ {"opCodeEOF"}
  BY RecordKinds DEF OpOf, Opcode, OpCodes, TypeFlags, IsObjectRecord, Numbered, Named
<1>2. a \in Seq(WrittenTokens) /\ Len(a) = 1 /\ a[1] = Op(OpOf(r))
  BY <1>1, TokenKinds
<1>3. t \in Seq(WrittenTokens)
  BY OperandsType
<1>4. Render(r) = a \o t
  BY DEF Render
<1> HIDE DEF a, t
<1>5. /\ a \o t \in Seq(WrittenTokens) /\ Len(a \o t) = 1 + Len(t) /\ Len(t) \in Nat
      /\ \A i \in 1..(1 + Len(t)) : (a \o t)[i] = IF i <= 1 THEN a[i] ELSE t[i - 1]
  <2>1. /\ a \o t \in Seq(WrittenTokens) /\ Len(a \o t) = Len(a) + Len(t)
        /\ \A i \in 1..(Len(a) + Len(t)) :
             (a \o t)[i] = IF i <= Len(a) THEN a[i] ELSE t[i - Len(a)]
    BY <1>2, <1>3, ConcatProperties
  <2>2. Len(t) \in Nat
    BY <1>3, LenProperties
  <2> QED BY <1>2, <2>1, <2>2
<1>6. Render(r)[1] = Op(OpOf(r))
  BY <1>2, <1>4, <1>5
<1>7. \A i \in 1..Len(t) : Render(r)[i + 1] = t[i]
  BY <1>4, <1>5
<1> QED BY <1>1, <1>4, <1>5, <1>6, <1>7 DEF t

Records(rs) == Len(rs) \in Nat /\ \A i \in 1..Len(rs) : IsRecord(rs[i])

LEMMA BeginningNone == corpus.header \in Magics => \A rs : Beginning(rs, 0) = << Magic(corpus.header) >>
<1> SUFFICES ASSUME corpus.header \in Magics, NEW rs
             PROVE  Beginning(rs, 0) = << Magic(corpus.header) >>
  OBVIOUS
<1> DEFINE p == [ i \in 1..0 |-> Render(rs[i]) ]
           m == << Magic(corpus.header) >>
<1>1. Len(p) = 0
  OBVIOUS
<1>2. Beginning(rs, 0) = m \o Concat(p)
  BY DEF Beginning
<1>3. m \in Seq(WrittenTokens)
  BY TokenKinds
<1> HIDE DEF p, m
<1>4. m \o <<>> = m
  BY <1>3, ConcatEmptySeq
<1> QED BY <1>1, <1>2, <1>4, ConcatNone DEF m

LEMMA BeginningType ==
    ASSUME corpus.header \in Magics, NEW rs, Records(rs), NEW n \in 0..Len(rs)
    PROVE  /\ Beginning(rs, n) \in Seq(WrittenTokens)
           /\ Len(Beginning(rs, n)) \in Nat /\ Len(Beginning(rs, n)) >= 1
           /\ Beginning(rs, n)[1] = Magic(corpus.header)
<1> DEFINE p == [ i \in 1..n |-> Render(rs[i]) ]
           m == << Magic(corpus.header) >>
<1>1. Len(p) = n /\ n \in Nat
  BY DEF Records
<1>2. ASSUME NEW i \in 1..n
      PROVE  p[i] \in Seq(WrittenTokens)
  <2>1. i \in 1..Len(rs)
    BY DEF Records
  <2>2. Render(rs[i]) \in Seq(WrittenTokens)
    BY <2>1, RenderType DEF Records
  <2> QED BY <2>2
<1>3. Beginning(rs, n) = m \o Concat(p)
  BY DEF Beginning
<1>4. m \in Seq(WrittenTokens) /\ Len(m) = 1 /\ m[1] = Magic(corpus.header)
  BY TokenKinds
<1> HIDE DEF p, m
<1>5. Concat(p) \in Seq(WrittenTokens)
  BY <1>1, <1>2, ConcatType
<1>6. /\ m \o Concat(p) \in Seq(WrittenTokens) /\ Len(m \o Concat(p)) = Len(m) + Len(Concat(p))
      /\ \A i \in 1..(Len(m) + Len(Concat(p))) :
           (m \o Concat(p))[i] = IF i <= Len(m) THEN m[i] ELSE Concat(p)[i - Len(m)]
  BY <1>4, <1>5, ConcatProperties
<1>7. Len(Concat(p)) \in Nat
  BY <1>5, LenProperties
<1> QED BY <1>3, <1>4, <1>6, <1>7

LEMMA BeginningGrows ==
    ASSUME corpus.header \in Magics, NEW rs, Records(rs), NEW n \in 1..Len(rs)
    PROVE  Beginning(rs, n) = Beginning(rs, n - 1) \o Render(rs[n])
<1> DEFINE p == [ i \in 1..(n - 1) |-> Render(rs[i]) ]
           q == [ i \in 1..n |-> Render(rs[i]) ]
           m == << Magic(corpus.header) >>
<1>1. /\ n - 1 \in Nat /\ Len(p) = n - 1 /\ Len(q) = (n - 1) + 1
      /\ \A i \in 1..(n - 1) : q[i] = p[i]
      /\ q[(n - 1) + 1] = Render(rs[n])
  BY DEF Records
<1>2. ASSUME NEW i \in 1..(n - 1)
      PROVE  p[i] \in Seq(WrittenTokens)
  <2>1. i \in 1..Len(rs)
    BY DEF Records
  <2>2. Render(rs[i]) \in Seq(WrittenTokens)
    BY <2>1, RenderType DEF Records
  <2> QED BY <2>2
<1>3. Render(rs[n]) \in Seq(WrittenTokens)
  BY RenderType DEF Records
<1>4. Beginning(rs, n) = m \o Concat(q) /\ Beginning(rs, n - 1) = m \o Concat(p)
  BY DEF Beginning
<1>5. m \in Seq(WrittenTokens)
  BY TokenKinds
<1> HIDE DEF p, q, m
<1>6. Concat(q) = Concat(p) \o Render(rs[n])
  BY <1>1, ConcatMore
<1>7. Concat(p) \in Seq(WrittenTokens)
  BY <1>1, <1>2, ConcatType
<1>8. (m \o Concat(p)) \o Render(rs[n]) = m \o (Concat(p) \o Render(rs[n]))
  BY <1>3, <1>5, <1>7, ConcatAssociative
<1> QED BY <1>4, <1>6, <1>8

Starts(t, s) == Len(s) <= Len(t) /\ \A i \in 1..Len(s) : t[i] = s[i]

LEMMA ConcatStarts ==
    ASSUME NEW S, NEW s \in Seq(S), NEW t \in Seq(S)
    PROVE  /\ Starts(s \o t, s) /\ Len(s \o t) = Len(s) + Len(t)
           /\ Len(s) \in Nat /\ Len(t) \in Nat
           /\ \A i \in 1..Len(t) : (s \o t)[Len(s) + i] = t[i]
<1>1. /\ Len(s \o t) = Len(s) + Len(t)
      /\ \A i \in 1..(Len(s) + Len(t)) : (s \o t)[i] = IF i <= Len(s) THEN s[i] ELSE t[i - Len(s)]
  BY ConcatProperties
<1>2. Len(s) \in Nat /\ Len(t) \in Nat
  BY LenProperties
<1> QED BY <1>1, <1>2 DEF Starts

LEMMA StartsTrans ==
    ASSUME NEW s, NEW t, NEW u, Len(s) \in Nat, Len(t) \in Nat, Len(u) \in Nat,
           Starts(t, s), Starts(u, t)
    PROVE  Starts(u, s)
BY DEF Starts

LEMMA Nested ==
    ASSUME corpus.header \in Magics, NEW rs, Records(rs), NEW m \in 0..Len(rs)
    PROVE  \A n \in m..Len(rs) : Starts(Beginning(rs, n), Beginning(rs, m))
<1> DEFINE B(n) == Beginning(rs, n)
           S == {n \in 0..Len(rs) : n >= m => Starts(B(n), B(m))}
<1>1. \A n \in 0..Len(rs) : B(n) \in Seq(WrittenTokens) /\ Len(B(n)) \in Nat
  BY BeginningType
<1>2. ASSUME NEW n \in 1..Len(rs)
      PROVE  Starts(B(n), B(n - 1))
  <2>1. B(n) = B(n - 1) \o Render(rs[n])
    BY BeginningGrows
  <2>2. Render(rs[n]) \in Seq(WrittenTokens) /\ n - 1 \in 0..Len(rs)
    BY RenderType DEF Records
  <2>3. B(n - 1) \in Seq(WrittenTokens)
    BY <1>1, <2>2
  <2> HIDE DEF B
  <2> QED BY <2>1, <2>2, <2>3, ConcatStarts
<1>3. Starts(B(m), B(m)) /\ m \in Nat /\ Len(rs) \in Nat
  BY <1>1 DEF Starts, Records
<1> HIDE DEF B
<1>4. 0 \in S
  BY <1>3
<1>5. ASSUME NEW k \in 1..Len(rs), k - 1 \in S
      PROVE  k \in S
  <2>1. k \in 0..Len(rs) /\ k - 1 \in 0..Len(rs)
    BY <1>3
  <2>2. CASE k - 1 >= m
    <3>1. Starts(B(k - 1), B(m)) /\ Starts(B(k), B(k - 1))
      BY <1>2, <1>5, <2>2
    <3>2. Starts(B(k), B(m))
      BY <1>1, <2>1, <3>1, StartsTrans
    <3> QED BY <2>1, <3>2
  <2>3. CASE ~(k - 1 >= m)
    <3>1. k >= m => k = m
      BY <1>3, <2>3
    <3> QED BY <1>3, <2>1, <3>1
  <2> QED BY <2>2, <2>3
<1> HIDE DEF S
<1>6. 0..Len(rs) \subseteq S
  BY <1>3, <1>4, <1>5, NatSetInduction
<1>7. \A n \in m..Len(rs) : Starts(B(n), B(m))
  BY <1>3, <1>6 DEF S
<1> QED BY <1>7 DEF B

(* A whole file begins with its records; EOF and the checksum follow.      *)
LEMMA WholeIs ==
    ASSUME corpus.header \in Magics, NEW rs, Records(rs)
    PROVE  /\ Whole(rs) \in Seq(Tokens)
           /\ Len(Beginning(rs, Len(rs))) \in Nat
           /\ Len(Whole(rs)) = Len(Beginning(rs, Len(rs))) + 2
           /\ \A n \in 0..Len(rs) : Starts(Whole(rs), Beginning(rs, n))
           /\ Whole(rs)[Len(Beginning(rs, Len(rs))) + 1] = Op("opCodeEOF")
           /\ \A i \in 1..Len(Whole(rs)) : Whole(rs)[i] # Torn
<1> DEFINE B(n) == Beginning(rs, n)
           N == Len(rs)
           W == Whole(rs)
<1>1. Trailer \in Seq(Tokens) /\ Len(Trailer) = 2
      /\ Trailer[1] = Op("opCodeEOF") /\ Trailer[2] = Crc(<<>>)
  <2>1. Op("opCodeEOF") \in Tokens
    BY TokenKinds DEF Tokens, OpCodes
  <2>2. Crc(<<>>) \in Tokens
    <3>1. <<>> \in Seq(WrittenTokens)
      BY EmptySeq
    <3>2. Crc(<<>>) \in {"crc"} \X Seq(WrittenTokens)
      BY <3>1 DEF Crc
    <3> QED BY <3>2, Zenon DEF Tokens
  <2> QED BY <2>1, <2>2 DEF Trailer
<1>2. N \in Nat /\ N \in 0..N
  BY DEF Records
<1>3. \A n \in 0..N : B(n) \in Seq(WrittenTokens) /\ Len(B(n)) \in Nat
  BY BeginningType
<1>4. \A n \in 0..N : B(n) \in Seq(Tokens)
  <2>1. Seq(WrittenTokens) \subseteq Seq(Tokens)
    BY SeqMonotonic DEF Tokens
  <2> QED BY <1>3, <2>1
<1>5. W = B(N) \o Trailer
  BY DEF Whole
<1>6. \A n \in 0..N : Starts(B(N), B(n))
  <2> SUFFICES ASSUME NEW n \in 0..N
               PROVE  Starts(B(N), B(n))
    OBVIOUS
  <2>1. N \in n..N
    BY <1>2
  <2> QED BY <2>1, Nested
<1> HIDE DEF B, N, W
<1>7. /\ Starts(W, B(N)) /\ Len(W) = Len(B(N)) + Len(Trailer)
      /\ \A i \in 1..Len(Trailer) : W[Len(B(N)) + i] = Trailer[i]
  <2>1. B(N) \in Seq(Tokens) /\ Trailer \in Seq(Tokens)
    BY <1>1, <1>2, <1>4, Zenon
  <2>2. /\ Starts(B(N) \o Trailer, B(N)) /\ Len(B(N) \o Trailer) = Len(B(N)) + Len(Trailer)
        /\ \A i \in 1..Len(Trailer) : (B(N) \o Trailer)[Len(B(N)) + i] = Trailer[i]
    BY <2>1, ConcatStarts
  <2> QED BY <1>5, <2>2, Zenon
<1>8. W \in Seq(Tokens)
  BY <1>1, <1>2, <1>4, <1>5, ConcatProperties
<1>9. Len(W) \in Nat
  BY <1>8, LenProperties
<1>10. Len(B(N)) \in Nat /\ Len(W) = Len(B(N)) + 2
       /\ W[Len(B(N)) + 1] = Op("opCodeEOF") /\ W[Len(B(N)) + 2] = Crc(<<>>)
  BY <1>1, <1>2, <1>3, <1>7
<1>11. \A n \in 0..N : Starts(W, B(n))
  BY <1>2, <1>3, <1>6, <1>7, <1>9, StartsTrans
<1>12. ASSUME NEW i \in 1..Len(W)
       PROVE  W[i] # Torn
  <2>1. CASE i <= Len(B(N))
    <3>1. i \in 1..Len(B(N)) /\ W[i] = B(N)[i]
      BY <1>7, <1>10, <2>1 DEF Starts
    <3>2. B(N)[i] \in WrittenTokens
      BY <1>2, <1>3, <3>1, ElementOfSeq
    <3> QED BY <3>1, <3>2, WrittenIsWhole
  <2>2. CASE i > Len(B(N))
    <3>1. i = Len(B(N)) + 1 \/ i = Len(B(N)) + 2
      BY <1>10, <2>2
    <3> QED BY <1>10, <3>1 DEF Op, Crc, Torn
  <2> QED BY <1>10, <2>1, <2>2
<1> QED BY <1>8, <1>10, <1>11, <1>12 DEF B, N, W

(* Where a record and its operands stand in it.                            *)
LEMMA RecordAt ==
    ASSUME corpus.header \in Magics, NEW rs, Records(rs), NEW n \in 1..Len(rs)
    PROVE  LET b == Len(Beginning(rs, n - 1))
               k == Len(Operands(rs[n]))
           IN  /\ b \in Nat /\ b >= 1 /\ k \in Nat
               /\ Len(Beginning(rs, n)) = b + 1 + k
               /\ Len(Beginning(rs, n)) <= Len(Whole(rs)) - 2
               /\ Whole(rs)[b + 1] = Op(OpOf(rs[n]))
               /\ \A i \in 1..k : Whole(rs)[b + 1 + i] = Operands(rs[n])[i]
<1> DEFINE b == Len(Beginning(rs, n - 1))
           k == Len(Operands(rs[n]))
           B == Beginning(rs, n - 1)
           R == Render(rs[n])
<1>1. n \in 0..Len(rs) /\ n - 1 \in 0..Len(rs) /\ Len(rs) \in 0..Len(rs) /\ Len(rs) \in n..Len(rs)
  BY DEF Records
<1>2. B \in Seq(WrittenTokens) /\ b \in Nat /\ b >= 1
  BY <1>1, BeginningType
<1>3. /\ R \in Seq(WrittenTokens) /\ k \in Nat /\ Len(R) = k + 1
      /\ R[1] = Op(OpOf(rs[n])) /\ \A i \in 1..k : R[i + 1] = Operands(rs[n])[i]
  BY RenderType DEF Records
<1>4. Beginning(rs, n) = B \o R
  BY BeginningGrows
<1>5. Starts(Whole(rs), Beginning(rs, n))
  BY <1>1, WholeIs
<1>6. Len(Beginning(rs, n)) <= Len(Beginning(rs, Len(rs)))
  BY <1>1, Nested DEF Starts
<1>7. Len(Whole(rs)) = Len(Beginning(rs, Len(rs))) + 2 /\ Len(Beginning(rs, Len(rs))) \in Nat
  BY WholeIs
<1>8. Len(B) = b
  OBVIOUS
<1> HIDE DEF b, k, B, R
<1>9. /\ Len(B \o R) = b + (k + 1)
      /\ \A i \in 1..(k + 1) : (B \o R)[b + i] = R[i]
  <2>1. /\ Len(B \o R) = Len(B) + Len(R)
        /\ \A i \in 1..Len(R) : (B \o R)[Len(B) + i] = R[i]
    <3>1. B \in Seq(WrittenTokens) /\ R \in Seq(WrittenTokens)
      BY <1>2, <1>3
    <3> QED BY <3>1, ConcatStarts, Zenon
  <2> QED BY <1>3, <1>8, <2>1
<1>10. Len(Beginning(rs, n)) = b + 1 + k
  BY <1>2, <1>3, <1>4, <1>9
<1>11. \A i \in 1..(k + 1) : Whole(rs)[b + i] = R[i]
  <2> SUFFICES ASSUME NEW i \in 1..(k + 1)
               PROVE  Whole(rs)[b + i] = R[i]
    OBVIOUS
  <2>1. b + i \in 1..Len(Beginning(rs, n))
    BY <1>2, <1>3, <1>10
  <2>2. Whole(rs)[b + i] = Beginning(rs, n)[b + i]
    BY <1>5, <2>1 DEF Starts
  <2> QED BY <1>4, <1>9, <2>2
<1>12. Whole(rs)[b + 1] = Op(OpOf(rs[n]))
  BY <1>3, <1>11
<1>13. ASSUME NEW i \in 1..k
       PROVE  Whole(rs)[b + 1 + i] = Operands(rs[n])[i]
  <2>1. i + 1 \in 1..(k + 1) /\ b + (i + 1) = b + 1 + i
    BY <1>2, <1>3
  <2> QED BY <1>3, <1>11, <2>1
<1>14. Len(Beginning(rs, n)) <= Len(Whole(rs)) - 2
  BY <1>2, <1>3, <1>6, <1>7, <1>10
<1> QED BY <1>2, <1>3, <1>10, <1>12, <1>13, <1>14 DEF b, k

-----------------------------------------------------------------------------
(* Reading a file that may be cut. *)

(* What does not change while the file is read. *)
Given == /\ corpus \in Corpora
         /\ recs \in UNION { [1..n -> corpus.records] : n \in 0..corpus.max }
         /\ file \in IF corpus.cuts THEN CutFiles(Whole(recs)) ELSE {Whole(recs)}

LEMMA RecordsAre ==
    ASSUME Given
    PROVE  /\ corpus.header \in Magics
           /\ Records(recs) /\ DOMAIN recs = 1..Len(recs)
<1>1. PICK n \in 0..corpus.max : recs \in [1..n -> corpus.records]
  BY DEF Given
<1>2. /\ corpus.header \in Magics /\ corpus.max \in Nat
      /\ \A r \in corpus.records : IsRecord(r)
  BY CorpusAssumption DEF Given
<1>3. n \in Nat /\ Len(recs) = n /\ DOMAIN recs = 1..n
  BY <1>1, <1>2
<1> QED BY <1>1, <1>2, <1>3 DEF Records

(* The i-th token of the whole file is in the file.  Of the others at most *)
(* one is there in part, at its end.                                       *)
Has(i) == i <= Len(file) /\ file[i] = Whole(recs)[i]
Shaped == /\ Len(file) \in Nat /\ Len(file) <= Len(Whole(recs))
          /\ \A i \in 1..Len(file) : Has(i) \/ (i = Len(file) /\ file[i] = Torn)

LEMMA FileIs ==
    ASSUME Given
    PROVE  Shaped
<1> DEFINE W == Whole(recs)
<1>1. W \in Seq(Tokens)
  BY RecordsAre, WholeIs
<1>2. file \in {W} \cup CutFiles(W)
  BY DEF Given
<1> HIDE DEF W
<1>3. Len(W) \in Nat
  BY <1>1, LenProperties
<1> SUFFICES /\ Len(file) \in Nat /\ Len(file) <= Len(W)
             /\ \A i \in 1..Len(file) : (i <= Len(file) /\ file[i] = W[i])
                                          \/ (i = Len(file) /\ file[i] = Torn)
  BY DEF Shaped, Has, W
<1>4. CASE file = W
  BY <1>3, <1>4
<1>5. CASE \E n \in 0..Len(W) : file = SubSeq(W, 1, n)
  <2>1. PICK n \in 0..Len(W) : file = SubSeq(W, 1, n)
    BY <1>5
  <2>2. Len(file) = n /\ \A i \in 1..n : file[i] = W[i]
    BY <1>1, <1>3, <2>1
  <2> QED BY <1>3, <2>2
<1>6. CASE \E n \in 1..Len(W) : file = Append(SubSeq(W, 1, n - 1), Torn)
  <2>1. PICK n \in 1..Len(W) : file = Append(SubSeq(W, 1, n - 1), Torn)
    BY <1>6
  <2> DEFINE s == SubSeq(W, 1, n - 1)
  <2>2. s \in Seq(Tokens) /\ Len(s) = n - 1 /\ \A i \in 1..(n - 1) : s[i] = W[i]
    BY <1>1, <1>3
  <2>3. Torn \in Tokens
    BY DEF Tokens
  <2> HIDE DEF s
  <2>4. /\ Len(Append(s, Torn)) = Len(s) + 1
        /\ \A i \in 1..Len(s) : Append(s, Torn)[i] = s[i]
        /\ Append(s, Torn)[Len(s) + 1] = Torn
    BY <2>2, <2>3, AppendProperties
  <2>5. Len(file) = n /\ \A i \in 1..(n - 1) : file[i] = W[i]
    BY <1>3, <2>1, <2>2, <2>4 DEF s
  <2>6. file[n] = Torn
    BY <1>3, <2>1, <2>2, <2>4 DEF s
  <2> QED BY <1>3, <2>5, <2>6
<1> QED BY <1>2, <1>4, <1>5, <1>6 DEF CutFiles

LEMMA HasBefore ==
    ASSUME Shaped, NEW i \in Nat, NEW j \in 1..i, Has(i)
    PROVE  Has(j)
BY DEF Shaped, Has

(* Begins is about the last of the tokens. *)
LEMMA BeginsIs ==
    ASSUME Given, NEW n \in 0..Len(recs)
    PROVE  Begins(Beginning(recs, n)) <=> Has(Len(Beginning(recs, n)))
<1> DEFINE s == Beginning(recs, n)
<1>1. s \in Seq(WrittenTokens) /\ Len(s) \in Nat /\ Len(s) >= 1
  BY RecordsAre, BeginningType
<1>2. Starts(Whole(recs), s)
  BY RecordsAre, WholeIs
<1>3. Shaped
  BY FileIs
<1> HIDE DEF s
<1>4. DOMAIN s = 1..Len(s)
  BY <1>1, LenProperties
<1>5. ASSUME Has(Len(s))
      PROVE  Begins(s)
  <2>1. \A i \in 1..Len(s) : Has(i)
    BY <1>1, <1>3, <1>5, HasBefore
  <2> QED BY <1>2, <1>4, <1>5, <2>1 DEF Has, Starts, Begins
<1>6. ASSUME Begins(s)
      PROVE  Has(Len(s))
  BY <1>1, <1>2, <1>4, <1>6 DEF Has, Starts, Begins
<1> QED BY <1>5, <1>6 DEF s

(* A token that is there is read, and one that is not is an error.         *)
LEMMA TakeIs ==
    ASSUME Given, NEW i \in 1..Len(Whole(recs)), NEW kinds, Whole(recs)[i][1] \in kinds
    PROVE  Take(i, kinds) = IF Has(i) THEN Done(i + 1, Whole(recs)[i][2]) ELSE Fail(i, "error")
<1>1. Shaped
  BY FileIs
<1>2. Whole(recs)[i] # Torn
  BY RecordsAre, WholeIs
<1>3. i \in Nat /\ i >= 1
  BY RecordsAre, WholeIs, LenProperties
<1>4. CASE Has(i)
  BY <1>2, <1>4 DEF Take, Has
<1>5. CASE ~Has(i)
  <2>1. i > Len(file) \/ (i = Len(file) /\ file[i] = Torn)
    BY <1>1, <1>3, <1>5 DEF Shaped
  <2> QED BY <1>5, <2>1 DEF Take
<1> QED BY <1>4, <1>5

LEMMA BodyIs ==
    ASSUME Given, NEW h, NEW b, h = Done(h.pos, b), NEW i \in 1..Len(Whole(recs)), h.pos = i,
           Whole(recs)[i] = StrBody(b)
    PROVE  readBody(h, "raw") = IF Has(i) THEN Done(i + 1, b) ELSE Fail(i, "error")
<1>1. Take(i, {"raw"}) = IF Has(i) THEN Done(i + 1, b) ELSE Fail(i, "error")
  <2>1. Whole(recs)[i][1] \in {"raw"} /\ Whole(recs)[i][2] = b
    BY DEF StrBody
  <2> QED BY <2>1, TakeIs
<1>2. h.val = b
  BY DEF Done
<1> DEFINE Check(x) == IF x.val = h.val THEN x ELSE Fail(x.pos, "misread")
<1>3. readBody(h, "raw") = Then(Take(i, {"raw"}), Check)
  BY DEF readBody
<1>4. \A r : Then(r, Check) = IF r.st = "ok" THEN Check(r) ELSE r
  BY DEF Then
<1> HIDE DEF Check
<1>5. Check(Done(i + 1, b)) = Done(i + 1, b)
  BY <1>2 DEF Check, Done
<1>6. CASE Has(i)
  BY <1>1, <1>3, <1>4, <1>5, <1>6 DEF Done
<1>7. CASE ~Has(i)
  BY <1>1, <1>3, <1>4, <1>7 DEF Fail
<1> QED BY <1>6, <1>7

LEMMA TextIs ==
    ASSUME Given, NEW i \in Nat, NEW s, i \in 1..Len(Whole(recs)), i + 1 \in 1..Len(Whole(recs)),
           Whole(recs)[i] = StrHead(Text(s)), Whole(recs)[i + 1] = StrBody(Text(s))
    PROVE  /\ Has(i + 1) => readText(i) = Done(i + 2, s)
           /\ ~Has(i + 1) => readText(i).st = "error"
<1> DEFINE kinds == {"int", "slen", "lzfmark"}
           Rest(h) == CASE file[i][1] = "int"  -> Done(h.pos, Text(h.val))
                        [] file[i][1] = "slen" -> readBody(h, "raw")
                        [] OTHER               -> readLZF(h.pos)
           Sort(b) == IF b.val[1] = "text" THEN Done(b.pos, b.val[2]) ELSE Fail(b.pos, "misread")
<1>1. Take(i, kinds) = IF Has(i) THEN Done(i + 1, Text(s)) ELSE Fail(i, "error")
  <2>1. Whole(recs)[i][1] \in kinds /\ Whole(recs)[i][2] = Text(s)
    BY DEF StrHead
  <2> QED BY <2>1, TakeIs
<1>2. readString(i) = Then(Take(i, kinds), Rest)
  BY DEF readString
<1>3. readText(i) = Then(readString(i), Sort)
  BY DEF readText, readImage
<1>4. \A r : Then(r, Rest) = IF r.st = "ok" THEN Rest(r) ELSE r
  BY DEF Then
<1>5. \A r : Then(r, Sort) = IF r.st = "ok" THEN Sort(r) ELSE r
  BY DEF Then
<1>6. Has(i + 1) => Has(i)
  <2>1. i \in 1..(i + 1) /\ i + 1 \in Nat
    OBVIOUS
  <2> QED BY <2>1, FileIs, HasBefore
<1> DEFINE h == Done(i + 1, Text(s))
<1>7. h.pos = i + 1 /\ h.st = "ok" /\ h = Done(h.pos, Text(s))
  BY DEF Done
<1>8. readBody(h, "raw") = IF Has(i + 1) THEN Done((i + 1) + 1, Text(s)) ELSE Fail(i + 1, "error")
  <2> HIDE DEF h
  <2> QED BY <1>7, BodyIs
<1>9. Has(i) => Rest(h) = readBody(h, "raw")
  <2> SUFFICES ASSUME Has(i)
               PROVE  Rest(h) = readBody(h, "raw")
    OBVIOUS
  <2>1. file[i][1] = "slen"
    BY DEF Has, StrHead
  <2> HIDE DEF h
  <2> QED BY <2>1
<1> HIDE DEF Rest, kinds
<1>10. readString(i) = IF Has(i) THEN Rest(h) ELSE Fail(i, "error")
  BY <1>1, <1>2, <1>4, <1>7 DEF Fail
<1> HIDE DEF h
<1>11. readString(i) = IF Has(i + 1) THEN Done(i + 2, Text(s))
                       ELSE IF Has(i) THEN Fail(i + 1, "error") ELSE Fail(i, "error")
  BY <1>6, <1>8, <1>9, <1>10
<1>12. Sort(Done(i + 2, Text(s))) = Done(i + 2, s)
  BY DEF Done, Text
<1> HIDE DEF Sort
<1>13. CASE Has(i + 1)
  <2>1. readString(i) = Done(i + 2, Text(s))
    BY <1>11, <1>13
  <2>2. readString(i).st = "ok"
    BY <2>1 DEF Done
  <2>3. readText(i) = Sort(readString(i))
    BY <1>3, <1>5, <2>2
  <2> QED BY <1>12, <1>13, <2>1, <2>3
<1>14. CASE ~Has(i + 1)
  <2>1. readString(i).st = "error"
    BY <1>11, <1>14 DEF Fail
  <2> QED BY <1>3, <1>5, <1>14, <2>1
<1> QED BY <1>13, <1>14

LEMMA LengthIs ==
    ASSUME Given, NEW i \in 1..Len(Whole(recs)), NEW n, Whole(recs)[i] \in {Length(n), DbIndex(n)}
    PROVE  readLength(i) = IF Has(i) THEN Done(i + 1, n) ELSE Fail(i, "error")
<1>1. Whole(recs)[i][1] \in LengthKinds /\ Whole(recs)[i][2] = n
  BY DEF Length, DbIndex, LengthKinds
<1> QED BY <1>1, TakeIs DEF readLength

LEMMA Int64Is ==
    ASSUME Given, NEW i \in 1..Len(Whole(recs)), NEW n, Whole(recs)[i] = Int64(n)
    PROVE  readInt64(i) = IF Has(i) THEN Done(i + 1, n) ELSE Fail(i, "error")
<1>1. Whole(recs)[i][1] \in {"i64"} /\ Whole(recs)[i][2] = n
  BY DEF Int64
<1> QED BY <1>1, TakeIs DEF readInt64

(* A read r ended behind the token k, if k is there.                       *)
EndsAt(r, k) == IF Has(k) THEN r.st = "ok" /\ r.pos = k + 1 ELSE r.st = "error"

Thrice(x) == As(readLength(x.pos), LAMBDA v : Append(x.val, v))

LEMMA ThriceFirst ==
    ASSUME Given, NEW i \in 1..Len(Whole(recs)), NEW n, Whole(recs)[i] = Length(n),
           NEW x, x.st = "ok", x.pos = i
    PROVE  EndsAt(Then(x, Thrice), i)
<1> DEFINE q == readLength(i)
<1>1. Then(x, Thrice) = Thrice(x)
  BY DEF Then
<1>2. Thrice(x) = IF q.st = "ok" THEN Done(q.pos, Append(x.val, q.val)) ELSE q
  BY DEF Thrice, As
<1>3. q = IF Has(i) THEN Done(i + 1, n) ELSE Fail(i, "error")
  BY LengthIs
<1> HIDE DEF q
<1>4. CASE Has(i)
  <2>1. q.st = "ok" /\ q.pos = i + 1
    BY <1>3, <1>4 DEF Done
  <2>2. Then(x, Thrice) = Done(q.pos, Append(x.val, q.val))
    BY <1>1, <1>2, <2>1
  <2> QED BY <1>4, <2>1, <2>2 DEF EndsAt, Done
<1>5. CASE ~Has(i)
  <2>1. q.st = "error"
    BY <1>3, <1>5 DEF Fail
  <2>2. Then(x, Thrice) = q
    BY <1>1, <1>2, <2>1
  <2> QED BY <1>5, <2>1, <2>2 DEF EndsAt
<1> QED BY <1>4, <1>5

LEMMA HasPrevious ==
    ASSUME Given, NEW i \in Nat \ {0}, Has(i + 1)
    PROVE  Has(i)
<1>1. i \in 1..(i + 1) /\ i + 1 \in Nat
  OBVIOUS
<1> QED BY <1>1, FileIs, HasBefore

LEMMA ThriceIs ==
    ASSUME Given, NEW i \in Nat \ {0}, i + 1 \in 1..Len(Whole(recs)),
           NEW n, Whole(recs)[i + 1] = Length(n), NEW x, EndsAt(x, i)
    PROVE  EndsAt(Then(x, Thrice), i + 1)
<1>1. CASE Has(i)
  BY <1>1, ThriceFirst DEF EndsAt
<1>2. CASE ~Has(i)
  <2>1. Then(x, Thrice) = IF x.st = "ok" THEN Thrice(x) ELSE x
    BY DEF Then
  <2> QED BY <1>2, <2>1, HasPrevious DEF EndsAt
<1> QED BY <1>1, <1>2

LEMMA ThreeAre ==
    ASSUME Given, NEW i \in Nat \ {0}, i + 2 \in 1..Len(Whole(recs)),
           NEW a, NEW b, NEW c, Whole(recs)[i] = Length(a),
           Whole(recs)[i + 1] = Length(b), Whole(recs)[i + 2] = Length(c)
    PROVE  EndsAt(readN(i, 3, readLength), i + 2)
<1> DEFINE from == Done(i, <<>>)
           IsRun(g) == g = [ k \in 0..3 |-> IF k = 0 THEN from ELSE Then(g[k - 1], Thrice) ]
           a1 == Then(from, Thrice)
           a2 == Then(a1, Thrice)
           a3 == Then(a2, Thrice)
           g == [ k \in 0..3 |-> IF k = 0 THEN from ELSE IF k = 1 THEN a1
                                 ELSE IF k = 2 THEN a2 ELSE a3 ]
           run == CHOOSE h : IsRun(h)
<1>1. readN(i, 3, readLength) = run[3]
  BY DEF readN, Thrice
<1> HIDE DEF from
<1>2. IsRun(g)
  <2> HIDE DEF a1, a2, a3
  <2>1. \A k \in 0..3 : g[k] = IF k = 0 THEN from ELSE Then(g[k - 1], Thrice)
    <3>1. g[0] = from /\ g[1] = a1 /\ g[2] = a2 /\ g[3] = a3
      OBVIOUS
    <3> HIDE DEF g
    <3>2. g[1] = Then(g[0], Thrice) /\ g[2] = Then(g[1], Thrice) /\ g[3] = Then(g[2], Thrice)
      BY <3>1 DEF a1, a2, a3
    <3>3. \A k \in 0..3 : k = 0 \/ (k = 1 /\ k - 1 = 0) \/ (k = 2 /\ k - 1 = 1) \/ (k = 3 /\ k - 1 = 2)
      OBVIOUS
    <3> QED BY <3>1, <3>2, <3>3
  <2> QED BY <2>1
<1>3. IsRun(run)
  <2> HIDE DEF IsRun, g
  <2> QED BY <1>2
<1>4. /\ run[0] = from /\ run[1] = Then(run[0], Thrice)
      /\ run[2] = Then(run[1], Thrice) /\ run[3] = Then(run[2], Thrice)
  <2> HIDE DEF run
  <2> QED BY <1>3
<1> HIDE DEF run, g
<1>5. EndsAt(run[1], i)
  <2>1. from.st = "ok" /\ from.pos = i
    BY DEF from, Done
  <2>2. i \in 1..Len(Whole(recs))
    BY RecordsAre, WholeIs, LenProperties
  <2> QED BY <1>4, <2>1, <2>2, ThriceFirst
<1>6. EndsAt(run[2], i + 1)
  BY <1>4, <1>5, ThriceIs
<1>7. EndsAt(run[3], i + 2)
  BY <1>4, <1>6, ThriceIs
<1> QED BY <1>1, <1>7

LEMMA ChainEnds ==
    ASSUME NEW i, NEW k, NEW x, NEW y, NEW t, t = IF x.st = "ok" THEN y ELSE x,
           EndsAt(x, i), Has(i) => EndsAt(y, k), Has(k) => Has(i)
    PROVE  EndsAt(t, k)
BY DEF EndsAt

LEMMA AsEnds ==
    ASSUME NEW k, NEW v, NEW y, NEW t, t = IF y.st = "ok" THEN Done(y.pos, v) ELSE y,
           EndsAt(y, k)
    PROVE  EndsAt(t, k)
BY DEF EndsAt, Done

LEMMA LengthEnds ==
    ASSUME Given, NEW i \in 1..Len(Whole(recs)), NEW n, Whole(recs)[i] \in {Length(n), DbIndex(n)}
    PROVE  EndsAt(readLength(i), i)
BY LengthIs DEF EndsAt, Done, Fail

LengthPair(q) == readPair(q, readLength, readLength)

LEMMA PairEnds ==
    ASSUME Given, NEW i \in Nat \ {0}, i + 1 \in 1..Len(Whole(recs)),
           NEW a, NEW b, Whole(recs)[i] = Length(a), Whole(recs)[i + 1] = Length(b)
    PROVE  EndsAt(LengthPair(i), i + 1)
<1> DEFINE Second(x) == As(readLength(x.pos), LAMBDA y : << x.val, y >>)
           x == readLength(i)
           y == readLength(i + 1)
<1>1. LengthPair(i) = IF x.st = "ok" THEN Second(x) ELSE x
  BY DEF LengthPair, readPair, Then, As
<1>3. Second(x) = LET z == readLength(x.pos)
                  IN  IF z.st = "ok" THEN Done(z.pos, << x.val, z.val >>) ELSE z
  BY DEF As
<1>4. i \in 1..Len(Whole(recs))
  BY RecordsAre, WholeIs, LenProperties
<1>5. EndsAt(x, i) /\ EndsAt(y, i + 1)
  BY <1>4, LengthEnds
<1> HIDE DEF x, y, Second
<1>6. Has(i) => EndsAt(Second(x), i + 1)
  <2> SUFFICES ASSUME Has(i)
               PROVE  EndsAt(Second(x), i + 1)
    OBVIOUS
  <2>1. x.pos = i + 1
    BY <1>5 DEF EndsAt
  <2>2. Second(x) = IF y.st = "ok" THEN Done(y.pos, << x.val, y.val >>) ELSE y
    BY <1>3, <2>1 DEF y
  <2> QED BY <1>5, <2>2, AsEnds
<1> QED BY <1>1, <1>5, <1>6, HasPrevious, ChainEnds

Once(x) == As(LengthPair(x.pos), LAMBDA v : Append(x.val, v))

LEMMA OneIs ==
    ASSUME Given, NEW i \in Nat \ {0}, i + 1 \in 1..Len(Whole(recs)),
           NEW a, NEW b, Whole(recs)[i] = Length(a), Whole(recs)[i + 1] = Length(b)
    PROVE  EndsAt(readN(i, 1, LengthPair), i + 1)
<1> DEFINE from == Done(i, <<>>)
           IsRun(g) == g = [ k \in 0..1 |-> IF k = 0 THEN from ELSE Then(g[k - 1], Once) ]
           a1 == Then(from, Once)
           g == [ k \in 0..1 |-> IF k = 0 THEN from ELSE a1 ]
           run == CHOOSE h : IsRun(h)
<1>1. readN(i, 1, LengthPair) = run[1]
  BY DEF readN, Once
<1>2. from.st = "ok" /\ from.pos = i
  BY DEF Done
<1> HIDE DEF from
<1>3. IsRun(g)
  <2> HIDE DEF a1
  <2>1. g[0] = from /\ g[1] = a1
    OBVIOUS
  <2>2. g = [ k \in 0..1 |-> IF k = 0 THEN from ELSE a1 ]
    OBVIOUS
  <2> HIDE DEF g
  <2>3. \A k \in 0..1 : k = 0 \/ (k = 1 /\ k - 1 = 0)
    OBVIOUS
  <2>4. g[1] = Then(g[0], Once)
    BY <2>1 DEF a1
  <2>5. \A k \in 0..1 : g[k] = IF k = 0 THEN from ELSE Then(g[k - 1], Once)
    BY <2>1, <2>3, <2>4
  <2> QED BY <2>2, <2>5
<1>4. IsRun(run)
  <2> HIDE DEF IsRun, g
  <2> QED BY <1>3
<1>5. run[0] = from /\ run[1] = Then(run[0], Once)
  <2> HIDE DEF run
  <2> QED BY <1>4
<1> HIDE DEF run, g
<1> DEFINE y == LengthPair(i)
<1>6. Then(from, Once) = Once(from)
  BY <1>2 DEF Then
<1>7. Once(from) = IF y.st = "ok" THEN Done(y.pos, Append(from.val, y.val)) ELSE y
  BY <1>2 DEF Once, As
<1>8. EndsAt(y, i + 1)
  BY PairEnds
<1> HIDE DEF y
<1>9. EndsAt(run[1], i + 1)
  BY <1>5, <1>6, <1>7, <1>8, AsEnds
<1> QED BY <1>1, <1>9

(* The operands of SLOT IMPORT. *)
SlotJob(p) == Then(readText(p), LAMBDA job : readSized(job.pos, LengthPair))

LEMMA SlotJobIs ==
    ASSUME Given, NEW i \in Nat \ {0}, i + 4 \in 1..Len(Whole(recs)), NEW s, NEW a, NEW b,
           Whole(recs)[i] = StrHead(Text(s)), Whole(recs)[i + 1] = StrBody(Text(s)),
           Whole(recs)[i + 2] = Length(1), Whole(recs)[i + 3] = Length(a), Whole(recs)[i + 4] = Length(b)
    PROVE  EndsAt(SlotJob(i), i + 4)
<1> DEFINE Sized(job) == readSized(job.pos, LengthPair)
           Counted(n) == readN(n.pos, n.val, LengthPair)
           x == readText(i)
           n == readLength(i + 2)
<1>1. SlotJob(i) = IF x.st = "ok" THEN Sized(x) ELSE x
  BY DEF SlotJob, Then
<1>2. /\ i \in 1..Len(Whole(recs)) /\ i + 1 \in 1..Len(Whole(recs)) /\ i + 2 \in 1..Len(Whole(recs))
      /\ i + 2 \in Nat \ {0} /\ i + 3 \in Nat \ {0} /\ i + 1 \in Nat \ {0}
      /\ (i + 1) + 1 = i + 2 /\ (i + 2) + 1 = i + 3 /\ (i + 3) + 1 = i + 4
  BY RecordsAre, WholeIs, LenProperties
<1>3. /\ Has(i + 4) => Has(i + 3)
      /\ Has(i + 3) => Has(i + 2)
      /\ Has(i + 2) => Has(i + 1)
  BY <1>2, HasPrevious
<1>4. EndsAt(x, i + 1)
  <2>1. (i + 1) + 1 = i + 2
    OBVIOUS
  <2> QED BY <1>2, <2>1, TextIs DEF EndsAt, Done
<1>5. n = IF Has(i + 2) THEN Done(i + 3, 1) ELSE Fail(i + 2, "error")
  BY <1>2, LengthIs
<1>6. readSized(i + 2, LengthPair) = IF n.st = "ok" THEN Counted(n) ELSE n
  BY DEF readSized, Then
<1>7. EndsAt(readN(i + 3, 1, LengthPair), i + 4)
  BY <1>2, OneIs
<1>8. Has(i + 2) => EndsAt(Counted(n), i + 4)
  <2> SUFFICES ASSUME Has(i + 2)
               PROVE  EndsAt(Counted(n), i + 4)
    OBVIOUS
  <2>1. n.pos = i + 3 /\ n.val = 1
    BY <1>5 DEF Done
  <2> HIDE DEF n
  <2>2. Counted(n) = readN(i + 3, 1, LengthPair)
    BY <2>1
  <2> QED BY <1>7, <2>2
<1>9. EndsAt(n, i + 2)
  BY <1>2, <1>5 DEF EndsAt, Done, Fail
<1> HIDE DEF n, Counted
<1>10. EndsAt(readSized(i + 2, LengthPair), i + 4)
  BY <1>3, <1>6, <1>8, <1>9, ChainEnds
<1> HIDE DEF x
<1>11. Has(i + 1) => EndsAt(Sized(x), i + 4)
  <2> SUFFICES ASSUME Has(i + 1)
               PROVE  EndsAt(Sized(x), i + 4)
    OBVIOUS
  <2>1. x.pos = i + 2
    BY <1>2, <1>4 DEF EndsAt
  <2>2. Sized(x) = readSized(i + 2, LengthPair)
    BY <2>1
  <2> QED BY <1>10, <2>2
<1> HIDE DEF Sized
<1> QED BY <1>1, <1>3, <1>4, <1>11, ChainEnds

-----------------------------------------------------------------------------
(* The records before a place in the file. *)

LEMMA LatestNone == \A rs, kinds : Latest(rs, 0, kinds) = 0
BY DEF Latest

LEMMA LatestGrows ==
    ASSUME NEW rs, NEW n \in Nat \ {0}, NEW kinds
    PROVE  Latest(rs, n, kinds) = IF rs[n][1] \in kinds THEN n ELSE Latest(rs, n - 1, kinds)
<1> DEFINE S == {i \in 1..n : rs[i][1] \in kinds}
           T == {i \in 1..(n - 1) : rs[i][1] \in kinds}
           top == CHOOSE i \in S : \A j \in S : j <= i
<1>1. /\ Latest(rs, n, kinds) = IF S = {} THEN 0 ELSE top
      /\ Latest(rs, n - 1, kinds) = IF T = {} THEN 0 ELSE CHOOSE i \in T : \A j \in T : j <= i
  BY DEF Latest
<1>2. CASE rs[n][1] \in kinds
  <2>1. n \in S /\ \A j \in S : j <= n
    BY <1>2
  <2>2. S \subseteq Int
    OBVIOUS
  <2> HIDE DEF S
  <2>3. top \in S /\ \A j \in S : j <= top
    BY <2>1
  <2> HIDE DEF top
  <2>4. top = n
    BY <2>1, <2>2, <2>3
  <2> QED BY <1>1, <1>2, <2>1, <2>4
<1>3. CASE rs[n][1] \notin kinds
  <2>1. S = T
    BY <1>3
  <2> HIDE DEF S, T
  <2> QED BY <1>1, <1>3, <2>1
<1> QED BY <1>2, <1>3

LEMMA LatestIs ==
    ASSUME NEW rs, NEW n \in Nat, NEW kinds
    PROVE  LET l == Latest(rs, n, kinds)
           IN  l \in 0..n /\ (l # 0 => rs[l][1] \in kinds)
<1> DEFINE L(m) == Latest(rs, m, kinds)
           S == {m \in 0..n : L(m) \in 0..m /\ (L(m) # 0 => rs[L(m)][1] \in kinds)}
<1>1. L(0) = 0
  BY LatestNone
<1>2. \A m \in 1..n : L(m) = IF rs[m][1] \in kinds THEN m ELSE L(m - 1)
  BY LatestGrows
<1> HIDE DEF L
<1>3. 0 \in S
  BY <1>1
<1>4. ASSUME NEW k \in 1..n, k - 1 \in S
      PROVE  k \in S
  <2>1. L(k - 1) \in 0..(k - 1) /\ (L(k - 1) # 0 => rs[L(k - 1)][1] \in kinds)
    BY <1>4
  <2>2. (L(k) = k /\ rs[k][1] \in kinds) \/ L(k) = L(k - 1)
    BY <1>2
  <2>3. L(k) \in 0..k /\ (L(k) # 0 => rs[L(k)][1] \in kinds)
    BY <2>1, <2>2
  <2> QED BY <2>3
<1> HIDE DEF S
<1>5. 0..n \subseteq S
  BY <1>3, <1>4, NatSetInduction
<1> QED BY <1>5 DEF S, L

LEMMA PrefixGrows ==
    ASSUME NEW rs, NEW n \in Nat \ {0}, NEW kinds, "object" \notin kinds
    PROVE  PrefixOf(rs, n + 1, kinds) = IF rs[n][1] \in kinds THEN n
                                        ELSE IF rs[n][1] = "object" THEN 0
                                        ELSE PrefixOf(rs, n, kinds)
<1> DEFINE L(m) == Latest(rs, m, kinds)
           O(m) == Latest(rs, m, {"object"})
<1>1. /\ PrefixOf(rs, n + 1, kinds) = IF L(n) > O(n) THEN L(n) ELSE 0
      /\ PrefixOf(rs, n, kinds) = IF L(n - 1) > O(n - 1) THEN L(n - 1) ELSE 0
  <2>1. (n + 1) - 1 = n
    OBVIOUS
  <2> QED BY <2>1 DEF PrefixOf
<1>2. /\ L(n) = IF rs[n][1] \in kinds THEN n ELSE L(n - 1)
      /\ O(n) = IF rs[n][1] \in {"object"} THEN n ELSE O(n - 1)
  BY LatestGrows
<1>3. L(n - 1) \in 0..(n - 1) /\ O(n - 1) \in 0..(n - 1)
  BY LatestIs
<1> HIDE DEF L, O
<1> QED BY <1>1, <1>2, <1>3

(* The registers after n records, by the records. *)
DbOf(rs, n) == LET d == Latest(rs, n, {"select"}) IN IF d = 0 THEN 0 ELSE rs[d][2]
ExpOf(rs, n) ==
    LET x == PrefixOf(rs, n + 1, {"expire", "expirems"})
    IN  IF x = 0 THEN 0 ELSE IF rs[x][1] = "expire" THEN 1000 * rs[x][2] ELSE rs[x][2]
IdleOf(rs, n) == LET l == PrefixOf(rs, n + 1, {"idle"}) IN IF l = 0 THEN None ELSE rs[l][2]
FreqOf(rs, n) == LET f == PrefixOf(rs, n + 1, {"freq"}) IN IF f = 0 THEN None ELSE rs[f][2]

LEMMA RegistersNone ==
    ASSUME NEW rs
    PROVE  DbOf(rs, 0) = 0 /\ ExpOf(rs, 0) = 0 /\ IdleOf(rs, 0) = None /\ FreqOf(rs, 0) = None
<1>1. \A kinds : PrefixOf(rs, 0 + 1, kinds) = 0
  BY LatestNone DEF PrefixOf
<1> QED BY <1>1, LatestNone DEF DbOf, ExpOf, IdleOf, FreqOf

LEMMA RegistersGrow ==
    ASSUME NEW rs, NEW n \in Nat \ {0}
    PROVE  LET k == rs[n][1] IN
           /\ DbOf(rs, n) = IF k = "select" THEN rs[n][2] ELSE DbOf(rs, n - 1)
           /\ ExpOf(rs, n) = CASE k = "expire"   -> 1000 * rs[n][2]
                               [] k = "expirems" -> rs[n][2]
                               [] k = "object"   -> 0
                               [] OTHER          -> ExpOf(rs, n - 1)
           /\ IdleOf(rs, n) = CASE k = "idle"   -> rs[n][2]
                                [] k = "object" -> None
                                [] OTHER        -> IdleOf(rs, n - 1)
           /\ FreqOf(rs, n) = CASE k = "freq"   -> rs[n][2]
                                [] k = "object" -> None
                                [] OTHER        -> FreqOf(rs, n - 1)
<1> DEFINE k == rs[n][1]
<1>1. \A kinds : "object" \notin kinds =>
        PrefixOf(rs, n + 1, kinds) = IF k \in kinds THEN n
                                     ELSE IF k = "object" THEN 0 ELSE PrefixOf(rs, n, kinds)
  BY PrefixGrows
<1>2. (n - 1) + 1 = n
  OBVIOUS
<1>3. DbOf(rs, n) = IF k = "select" THEN rs[n][2] ELSE DbOf(rs, n - 1)
  BY LatestGrows DEF DbOf
<1>4. ExpOf(rs, n) = CASE k = "expire"   -> 1000 * rs[n][2]
                       [] k = "expirems" -> rs[n][2]
                       [] k = "object"   -> 0
                       [] OTHER          -> ExpOf(rs, n - 1)
  <2>1. PrefixOf(rs, n + 1, {"expire", "expirems"}) =
          IF k \in {"expire", "expirems"} THEN n
          ELSE IF k = "object" THEN 0 ELSE PrefixOf(rs, n, {"expire", "expirems"})
    BY <1>1
  <2> QED BY <1>2, <2>1 DEF ExpOf
<1>5. IdleOf(rs, n) = CASE k = "idle"   -> rs[n][2]
                        [] k = "object" -> None
                        [] OTHER        -> IdleOf(rs, n - 1)
  <2>1. PrefixOf(rs, n + 1, {"idle"}) =
          IF k \in {"idle"} THEN n ELSE IF k = "object" THEN 0 ELSE PrefixOf(rs, n, {"idle"})
    BY <1>1
  <2> QED BY <1>2, <2>1 DEF IdleOf
<1>6. FreqOf(rs, n) = CASE k = "freq"   -> rs[n][2]
                        [] k = "object" -> None
                        [] OTHER        -> FreqOf(rs, n - 1)
  <2>1. PrefixOf(rs, n + 1, {"freq"}) =
          IF k \in {"freq"} THEN n ELSE IF k = "object" THEN 0 ELSE PrefixOf(rs, n, {"freq"})
    BY <1>1
  <2> QED BY <1>2, <2>1 DEF FreqOf
<1> QED BY <1>3, <1>4, <1>5, <1>6

LEMMA ExpiresType ==
    ASSUME NEW rs, Records(rs), NEW n \in 0..Len(rs)
    PROVE  ExpOf(rs, n) \in Nat
<1> DEFINE kinds == {"expire", "expirems"}
           x == PrefixOf(rs, n + 1, kinds)
<1>1. n \in Nat /\ (n + 1) - 1 = n
  BY DEF Records
<1>2. x = 0 \/ (x \in 1..n /\ rs[x][1] \in kinds)
  <2> HIDE DEF kinds
  <2>1. LET l == Latest(rs, n, kinds) IN l \in 0..n /\ (l # 0 => rs[l][1] \in kinds)
    BY <1>1, LatestIs
  <2>2. x \in {0, Latest(rs, n, kinds)}
    BY <1>1 DEF PrefixOf
  <2> QED BY <2>1, <2>2
<1>3. x # 0 => rs[x][2] \in Nat
  <2> HIDE DEF x
  <2> SUFFICES ASSUME x \in 1..n, rs[x][1] \in kinds
               PROVE  rs[x][2] \in Nat
    BY <1>2
  <2>1. IsRecord(rs[x])
    BY DEF Records
  <2> QED BY <2>1, RecordKinds DEF Numbered
<1> HIDE DEF x
<1>4. 1000 * 0 = 0
  OBVIOUS
<1> QED BY <1>3 DEF ExpOf, x

LEMMA ExpectedNone == \A rs : Expected(rs, 0) = <<>>
<1> SUFFICES ASSUME NEW rs
             PROVE  Expected(rs, 0) = <<>>
  OBVIOUS
<1> DEFINE p == [ i \in 1..0 |-> IF IsObjectRecord(rs[i]) THEN << ExpectedEntry(rs, i) >> ELSE <<>> ]
<1>1. Len(p) = 0
  OBVIOUS
<1>2. Expected(rs, 0) = Concat(p)
  BY DEF Expected
<1> HIDE DEF p
<1> QED BY <1>1, <1>2, ConcatNone

LEMMA ExpectedGrows ==
    ASSUME NEW rs, NEW n \in Nat \ {0}
    PROVE  /\ rs[n][1] = "object" => Expected(rs, n) = Expected(rs, n - 1) \o << ExpectedEntry(rs, n) >>
           /\ rs[n][1] # "object" => Expected(rs, n) = Expected(rs, n - 1)
<1> DEFINE Page(i) == IF IsObjectRecord(rs[i]) THEN << ExpectedEntry(rs, i) >> ELSE <<>>
           p == [ i \in 1..(n - 1) |-> Page(i) ]
           q == [ i \in 1..n |-> Page(i) ]
           S == {ExpectedEntry(rs, i) : i \in 1..n}
<1>1. Expected(rs, n - 1) = Concat(p) /\ Expected(rs, n) = Concat(q)
  BY DEF Expected
<1>2. \A i \in 1..n : Page(i) \in Seq(S)
  <2> SUFFICES ASSUME NEW i \in 1..n
               PROVE  Page(i) \in Seq(S)
    OBVIOUS
  <2> DEFINE e == ExpectedEntry(rs, i)
  <2>1. e \in S
    OBVIOUS
  <2> HIDE DEF e, S
  <2>2. << e >> \in Seq(S) /\ <<>> \in Seq(S)
    BY <2>1
  <2> QED BY <2>2 DEF e
<1>3. Page(n) = IF rs[n][1] = "object" THEN << ExpectedEntry(rs, n) >> ELSE <<>>
  BY DEF IsObjectRecord
<1> HIDE DEF Page, S
<1>4. /\ Len(p) = n - 1 /\ Len(q) = (n - 1) + 1 /\ n - 1 \in Nat
      /\ \A i \in 1..(n - 1) : q[i] = p[i] /\ p[i] = Page(i)
      /\ q[(n - 1) + 1] = Page(n)
  OBVIOUS
<1> HIDE DEF p, q
<1>5. Concat(q) = Concat(p) \o Page(n)
  <2> DEFINE m == n - 1
  <2>1. m \in Nat /\ Len(p) = m /\ Len(q) = m + 1 /\ q[m + 1] = Page(n)
    BY <1>4
  <2>2. \A i \in 1..m : q[i] = p[i]
    BY <1>4
  <2> HIDE DEF m
  <2>3. Concat(q) = Concat(p) \o q[m + 1]
    BY <2>1, <2>2, ConcatMore
  <2> QED BY <2>1, <2>3, Zenon
<1>6. Concat(p) \in Seq(S)
  <2>1. \A i \in 1..Len(p) : p[i] \in Seq(S)
    BY <1>2, <1>4
  <2> QED BY <1>4, <2>1, ConcatType
<1>7. Concat(p) \o <<>> = Concat(p)
  BY <1>6, ConcatEmptySeq
<1> QED BY <1>1, <1>3, <1>5, <1>7

IsSequence(s) == \E S : s \in Seq(S)

LEMMA SequenceGrows ==
    ASSUME NEW s, IsSequence(s), NEW x
    PROVE  /\ IsSequence(Append(s, x))
           /\ Len(s) \in Nat /\ Len(Append(s, x)) = Len(s) + 1
           /\ \A i \in 1..Len(s) : Append(s, x)[i] = s[i]
           /\ Append(s, x)[Len(s) + 1] = x
<1>1. PICK S : s \in Seq(S)
  BY DEF IsSequence
<1> DEFINE T == S \cup {x}
<1>2. s \in Seq(T)
  BY <1>1, SeqMonotonic
<1>3. x \in T
  OBVIOUS
<1> HIDE DEF T
<1>4. /\ Append(s, x) \in Seq(T) /\ Len(Append(s, x)) = Len(s) + 1
      /\ \A i \in 1..Len(s) : Append(s, x)[i] = s[i]
      /\ Append(s, x)[Len(s) + 1] = x
  BY <1>2, <1>3, AppendProperties
<1>5. Len(s) \in Nat
  BY <1>2, LenProperties
<1> QED BY <1>4, <1>5 DEF IsSequence

(* The entries among what the callback got. *)
EntriesOf(g) == Concat([ i \in 1..Len(g) |-> IF g[i][1] = "object" THEN << g[i][2] >> ELSE <<>> ])

LEMMA EntriesGrow ==
    ASSUME NEW g, IsSequence(g), NEW x
    PROVE  /\ x[1] = "object" => EntriesOf(Append(g, x)) = EntriesOf(g) \o << x[2] >>
           /\ x[1] # "object" => EntriesOf(Append(g, x)) = EntriesOf(g)
<1> DEFINE h == Append(g, x)
           n == Len(g)
           Page(f, i) == IF f[i][1] = "object" THEN << f[i][2] >> ELSE <<>>
           p == [ i \in 1..n |-> Page(g, i) ]
           q == [ i \in 1..Len(h) |-> Page(h, i) ]
           S == {g[i][2] : i \in 1..n}
<1>1. EntriesOf(g) = Concat(p) /\ EntriesOf(h) = Concat(q)
  BY DEF EntriesOf
<1>2. /\ n \in Nat /\ Len(h) = n + 1 /\ h[n + 1] = x
      /\ \A i \in 1..n : h[i] = g[i]
  BY SequenceGrows
<1>3. \A i \in 1..n : Page(g, i) \in Seq(S)
  <2> SUFFICES ASSUME NEW i \in 1..n
               PROVE  Page(g, i) \in Seq(S)
    OBVIOUS
  <2> DEFINE e == g[i][2]
  <2>1. e \in S
    OBVIOUS
  <2> HIDE DEF e, S
  <2>2. << e >> \in Seq(S) /\ <<>> \in Seq(S)
    BY <2>1
  <2> QED BY <2>2 DEF e
<1> HIDE DEF h, n, S
<1>4. Page(h, n + 1) = IF x[1] = "object" THEN << x[2] >> ELSE <<>>
  <2>1. h[n + 1] = x
    BY <1>2, Zenon
  <2> QED BY <2>1, Zenon
<1>5. \A i \in 1..n : Page(h, i) = Page(g, i)
  BY <1>2
<1> HIDE DEF Page
<1>6. /\ Len(p) = n /\ Len(q) = n + 1
      /\ \A i \in 1..n : q[i] = p[i] /\ p[i] = Page(g, i)
      /\ q[n + 1] = Page(h, n + 1)
  BY <1>2, <1>5
<1> HIDE DEF p, q
<1>7. Concat(q) = Concat(p) \o Page(h, n + 1)
  BY <1>2, <1>6, ConcatMore
<1>8. Concat(p) \in Seq(S)
  <2>1. \A i \in 1..Len(p) : p[i] \in Seq(S)
    BY <1>3, <1>6
  <2> QED BY <1>2, <1>6, <2>1, ConcatType
<1>9. Concat(p) \o <<>> = Concat(p)
  BY <1>8, ConcatEmptySeq
<1> QED BY <1>1, <1>4, <1>7, <1>9 DEF h

LEMMA EntriesNone == EntriesOf(<<>>) = <<>>
<1> DEFINE p == [ i \in 1..Len(<<>>) |-> IF <<>>[i][1] = "object" THEN << <<>>[i][2] >> ELSE <<>> ]
<1>1. EntriesOf(<<>>) = Concat(p)
  BY DEF EntriesOf
<1>2. Len(p) = 0
  <2>1. Len(<<>>) = 0
    OBVIOUS
  <2> QED BY <2>1
<1> HIDE DEF p
<1> QED BY <1>1, <1>2, ConcatNone

LEMMA DeliveredIs == Delivered = EntriesOf(got)
BY DEF Delivered, EntriesOf

-----------------------------------------------------------------------------
(* How far the records can be read. *)

Clear(n) == \A i \in 1..n : ~Foreign(recs[i])

LEMMA HasLess ==
    ASSUME Given, NEW n \in 0..Len(recs), NEW m \in 0..n, Has(Len(Beginning(recs, n)))
    PROVE  Has(Len(Beginning(recs, m)))
<1>1. corpus.header \in Magics /\ Records(recs)
  BY RecordsAre
<1>2. m \in 0..Len(recs) /\ n \in m..Len(recs)
  BY <1>1 DEF Records
<1>3. Len(Beginning(recs, m)) <= Len(Beginning(recs, n))
  BY <1>1, <1>2, Nested DEF Starts
<1>4. /\ Len(Beginning(recs, n)) \in Nat /\ Len(Beginning(recs, m)) \in Nat
      /\ Len(Beginning(recs, m)) >= 1
  BY <1>1, <1>2, BeginningType
<1> QED BY <1>3, <1>4, FileIs, HasBefore

LEMMA ReadableIs ==
    ASSUME Given, NEW n \in 0..Len(recs), Has(Len(Beginning(recs, n))), Clear(n),
           n < Len(recs) => ~Has(Len(Beginning(recs, n + 1))) \/ Foreign(recs[n + 1])
    PROVE  Readable = n
<1> DEFINE fits == {m \in 0..Len(recs) : Begins(Beginning(recs, m))
                                      /\ \A i \in 1..m : ~Foreign(recs[i])}
<1>1. Readable = IF fits = {} THEN 0 ELSE CHOOSE m \in fits : \A k \in fits : k <= m
  BY DEF Readable
<1>2. Len(recs) \in Nat
  BY RecordsAre DEF Records
<1>3. n \in fits
  BY BeginsIs DEF Clear
<1>4. ASSUME NEW m \in fits
      PROVE  m <= n
  <2> SUFFICES ASSUME m > n
               PROVE  FALSE
    BY <1>2
  <2>1. m \in 0..Len(recs) /\ n < Len(recs) /\ n + 1 \in 0..m /\ n + 1 \in 1..m
    BY <1>2
  <2>2. Has(Len(Beginning(recs, m)))
    BY <2>1, BeginsIs
  <2>3. Has(Len(Beginning(recs, n + 1)))
    BY <2>1, <2>2, HasLess
  <2>4. ~Foreign(recs[n + 1])
    BY <2>1
  <2> QED BY <2>1, <2>3, <2>4
<1>5. fits \subseteq Int
  OBVIOUS
<1> HIDE DEF fits
<1> DEFINE top == CHOOSE m \in fits : \A k \in fits : k <= m
<1>6. top \in fits /\ \A k \in fits : k <= top
  BY <1>3, <1>4
<1> HIDE DEF top
<1>7. top = n
  BY <1>3, <1>4, <1>5, <1>6
<1> QED BY <1>1, <1>3, <1>7 DEF top

LEMMA NothingReadable ==
    ASSUME Given, ~Has(1)
    PROVE  Readable = 0
<1> SUFFICES ASSUME NEW m \in 0..Len(recs), Begins(Beginning(recs, m))
             PROVE  FALSE
  BY DEF Readable
<1>1. Has(Len(Beginning(recs, m)))
  BY BeginsIs
<1>2. Len(Beginning(recs, m)) \in Nat /\ Len(Beginning(recs, m)) >= 1
  BY RecordsAre, BeginningType
<1> QED BY <1>1, <1>2, FileIs, HasBefore

LEMMA ExpectedEntryIs ==
    ASSUME NEW rs, NEW n \in Nat
    PROVE  ExpectedEntry(rs, n + 1) =
             Entry(DbOf(rs, n), rs[n + 1][2].key, ExpOf(rs, n), IdleOf(rs, n), FreqOf(rs, n),
                   rs[n + 1][2].value)
<1>1. (n + 1) - 1 = n
  OBVIOUS
<1> QED BY <1>1 DEF ExpectedEntry, DbOf, ExpOf, IdleOf, FreqOf

(* Each action reads one kind of record. *)
LEMMA KindOf ==
    ASSUME NEW r, IsRecord(r)
    PROVE  /\ OpOf(r) # "opCodeEOF"
           /\ OpOf(r) = "opCodeSelectDB" => r[1] = "select"
           /\ OpOf(r) = "opCodeExpireTime" => r[1] = "expire"
           /\ OpOf(r) = "opCodeExpireTimeMs" => r[1] = "expirems"
           /\ OpOf(r) = "opCodeResizeDB" => r[1] = "resize"
           /\ OpOf(r) = "opCodeAux" => r[1] = "aux"
           /\ OpOf(r) = "opCodeFreq" => r[1] = "freq"
           /\ OpOf(r) = "opCodeIdle" => r[1] = "idle"
           /\ OpOf(r) = "opCodeModuleAux" => r[1] = "moduleaux"
           /\ OpOf(r) = "opCodeFunction" => r[1] = "function"
           /\ OpOf(r) = "opCodeSlotInfo" => r[1] = "slotinfo"
           /\ OpOf(r) = "opCodeSlotImport" => r[1] = "slotimport"
           /\ OpOf(r) \in TypeFlags => r[1] = "object" /\ r[2].flag = OpOf(r)
<1>1. CASE r[1] = "object"
  <2>1. r[2].flag \in TypeFlags
    BY <1>1, RecordKinds
  <2>2. OpOf(r) = r[2].flag
    BY <1>1 DEF OpOf, IsObjectRecord
  <2> QED BY <1>1, <2>1, <2>2 DEF TypeFlags
<1>2. CASE r[1] \in Numbered \cup Named
  <2>1. OpOf(r) = Opcode[r[1]]
    BY <1>2 DEF OpOf, IsObjectRecord, Numbered, Named
  <2> QED BY <1>2, <2>1 DEF Opcode, TypeFlags, Numbered, Named
<1> QED BY <1>1, <1>2, RecordKinds

-----------------------------------------------------------------------------
(* The decoder in the middle of a file. *)

(* The index of the last token of the first n records. *)
End(n) == Len(Beginning(recs, n))

Before == /\ pos = 1 /\ result = "none" /\ stopped = FALSE /\ got = <<>>
          /\ dbIndex = 0 /\ expireMs = 0 /\ lru = None /\ lfu = None

(* n records were read and the next is not yet. *)
At(n) == /\ n \in 0..Len(recs) /\ result = "none" /\ stopped = FALSE
         /\ pos = End(n) + 1 /\ Has(End(n)) /\ Clear(n)
         /\ valkey = (corpus.header = "VALKEY080")
         /\ IsSequence(got) /\ EntriesOf(got) = Expected(recs, n)
         /\ dbIndex = DbOf(recs, n) /\ expireMs = ExpOf(recs, n)
         /\ lru = IdleOf(recs, n) /\ lfu = FreqOf(recs, n)

(* Parse has returned, and it could not have read more. *)
Ended(n) == /\ n \in 0..Len(recs) /\ result \in {"nil", "error"} /\ stopped = FALSE
            /\ Readable = n /\ EntriesOf(got) = Expected(recs, n)
            /\ result = "nil" => ReadToEOF \/ CutInHeader
            /\ result = "error" => file # Whole(recs) \/ ~Clear(Len(recs))

(* The callback asked to stop. *)
Left(n) == /\ n \in 0..Len(recs) /\ result = "nil" /\ stopped = TRUE
           /\ EntriesOf(got) = Expected(recs, n)

Progress == Before \/ (\E n \in 0..Len(recs) : At(n) \/ Ended(n) \/ Left(n))

DecInv == Given /\ Progress

(* The file and what it was made of stay. *)
LEMMA Fixed ==
    ASSUME UNCHANGED <<corpus, recs, file>>
    PROVE  /\ Given' <=> Given
           /\ \A n : End(n)' = End(n)
           /\ \A i : Has(i)' <=> Has(i)
           /\ \A n : Clear(n)' <=> Clear(n)
           /\ Readable' = Readable /\ (CutInHeader' <=> CutInHeader)
           /\ Whole(recs)' = Whole(recs)
<1>1. corpus' = corpus /\ recs' = recs /\ file' = file
  OBVIOUS
<1>3. \A n : End(n)' = End(n)
  BY <1>1 DEF End, Beginning
<1>4. Whole(recs)' = Whole(recs)
  BY <1>1 DEF Whole, Beginning
<1>5. \A i : Has(i)' <=> Has(i)
  BY <1>1 DEF Has, Whole, Beginning
<1>6. \A n : Clear(n)' <=> Clear(n)
  BY <1>1 DEF Clear, Foreign
<1>7. Readable' = Readable
  BY <1>1 DEF Readable, Begins, Beginning, Foreign
<1>8. CutInHeader' <=> CutInHeader
  BY <1>1, <1>7 DEF CutInHeader
<1>9. Given' <=> Given
  BY <1>1 DEF Given, Whole, Beginning, CutFiles
<1> QED BY <1>3, <1>4, <1>5, <1>6, <1>7, <1>8, <1>9

LEMMA AtNext ==
    ASSUME UNCHANGED <<corpus, recs, file>>, NEW n \in 0..Len(recs), Has(End(n)), Clear(n),
           pos' = End(n) + 1, UNCHANGED <<result, stopped>>, result = "none", stopped = FALSE,
           valkey' = (corpus.header = "VALKEY080"),
           IsSequence(got'), EntriesOf(got') = Expected(recs, n),
           dbIndex' = DbOf(recs, n), expireMs' = ExpOf(recs, n),
           lru' = IdleOf(recs, n), lfu' = FreqOf(recs, n)
    PROVE  At(n)'
BY Fixed DEF At

LEMMA LeftNext ==
    ASSUME UNCHANGED <<corpus, recs, file>>, NEW n \in 0..Len(recs),
           stopped' = TRUE, result' = "nil", EntriesOf(got') = Expected(recs, n)
    PROVE  Left(n)'
BY DEF Left

(* Where the next record stands. *)
LEMMA NextRecord ==
    ASSUME Given, NEW n \in 0..Len(recs), n < Len(recs), pos = End(n) + 1
    PROVE  LET r == recs[n + 1]
               k == Len(Operands(r))
           IN  /\ n + 1 \in 0..Len(recs) /\ n \in Nat /\ IsRecord(r)
               /\ End(n) \in Nat /\ End(n) >= 1 /\ k \in Nat
               /\ pos \in Nat \ {0} /\ pos \in 1..Len(Whole(recs)) /\ pos + k \in 1..Len(Whole(recs))
               /\ End(n + 1) = pos + k
               /\ Whole(recs)[pos] = Op(OpOf(r))
               /\ \A i \in 1..k : Whole(recs)[pos + i] = Operands(r)[i]
<1>1. corpus.header \in Magics /\ Records(recs)
  BY RecordsAre
<1>2. n + 1 \in 1..Len(recs) /\ (n + 1) - 1 = n
  BY <1>1 DEF Records
<1>3. IsRecord(recs[n + 1])
  BY <1>1, <1>2 DEF Records
<1>4. LET k == Len(Operands(recs[n + 1]))
      IN  /\ End(n) \in Nat /\ End(n) >= 1 /\ k \in Nat
          /\ End(n + 1) = End(n) + 1 + k
          /\ End(n + 1) <= Len(Whole(recs)) - 2
          /\ Whole(recs)[End(n) + 1] = Op(OpOf(recs[n + 1]))
          /\ \A i \in 1..k : Whole(recs)[End(n) + 1 + i] = Operands(recs[n + 1])[i]
  <2>1. LET b == Len(Beginning(recs, (n + 1) - 1))
            k == Len(Operands(recs[n + 1]))
        IN  /\ b \in Nat /\ b >= 1 /\ k \in Nat
            /\ Len(Beginning(recs, n + 1)) = b + 1 + k
            /\ Len(Beginning(recs, n + 1)) <= Len(Whole(recs)) - 2
            /\ Whole(recs)[b + 1] = Op(OpOf(recs[n + 1]))
            /\ \A i \in 1..k : Whole(recs)[b + 1 + i] = Operands(recs[n + 1])[i]
    BY <1>1, <1>2, RecordAt
  <2> QED BY <1>2, <2>1 DEF End
<1>5. Len(Whole(recs)) \in Nat
  BY <1>1, WholeIs, LenProperties
<1> QED BY <1>1, <1>2, <1>3, <1>4, <1>5 DEF Records

LEMMA NoNextRecord ==
    ASSUME Given, NEW n \in 0..Len(recs), n >= Len(recs), pos = End(n) + 1
    PROVE  /\ n = Len(recs) /\ n \in Nat
           /\ End(n) \in Nat /\ End(n) >= 1 /\ pos \in Nat \ {0} /\ pos \in 1..Len(Whole(recs))
           /\ Whole(recs)[pos] = Op("opCodeEOF")
<1>1. corpus.header \in Magics /\ Records(recs)
  BY RecordsAre
<1>2. n = Len(recs) /\ n \in Nat
  BY <1>1 DEF Records
<1>3. End(n) >= 1
  BY <1>1, <1>2, BeginningType DEF End
<1>4. /\ End(n) \in Nat /\ Len(Whole(recs)) = End(n) + 2
      /\ Whole(recs)[End(n) + 1] = Op("opCodeEOF")
  BY <1>1, <1>2, WholeIs DEF End
<1> QED BY <1>2, <1>3, <1>4

(* The action that reads it. *)
LEMMA AtRecordIs ==
    ASSUME Given, NEW n \in 0..Len(recs), pos = End(n) + 1, NEW op, AtRecord(op)
    PROVE  /\ Has(pos)
           /\ IF n < Len(recs) THEN op = OpOf(recs[n + 1]) ELSE op = "opCodeEOF"
<1>1. /\ pos \in Nat \ {0}
      /\ Whole(recs)[pos] = IF n < Len(recs) THEN Op(OpOf(recs[n + 1])) ELSE Op("opCodeEOF")
  <2>1. Len(recs) \in Nat
    BY RecordsAre DEF Records
  <2>2. CASE n < Len(recs)
    BY <2>2, NextRecord
  <2>3. CASE n >= Len(recs)
    BY <2>1, <2>3, NoNextRecord
  <2> QED BY <2>1, <2>2, <2>3
<1>2. pos <= Len(file) /\ file[pos] = Op(op) /\ file[pos] # Torn
  BY DEF AtRecord, Op, Torn
<1>3. Has(pos)
  BY <1>1, <1>2, FileIs DEF Shaped
<1>4. Whole(recs)[pos] = Op(op)
  BY <1>2, <1>3 DEF Has
<1> QED BY <1>1, <1>3, <1>4 DEF Op

(* Parse fails where the file does. *)
LEMMA Fails ==
    ASSUME Given, UNCHANGED <<corpus, recs, file>>, NEW n \in 0..Len(recs), At(n),
           result' = "error", UNCHANGED <<got, stopped>>,
           \/ n < Len(recs) /\ (~Has(End(n + 1)) \/ Foreign(recs[n + 1]))
           \/ n >= Len(recs) /\ ~Has(pos)
    PROVE  Ended(n)'
<1>1. /\ Has(End(n)) /\ Clear(n) /\ pos = End(n) + 1 /\ stopped = FALSE
      /\ EntriesOf(got) = Expected(recs, n)
  BY DEF At
<1>2. Len(recs) \in Nat /\ Len(Whole(recs)) \in Nat
  BY RecordsAre, WholeIs, LenProperties DEF Records
<1>3. n < Len(recs) => ~Has(End(n + 1)) \/ Foreign(recs[n + 1])
  BY <1>2
<1>4. Readable = n
  BY <1>1, <1>3, ReadableIs DEF End
<1>5. file # Whole(recs) \/ ~Clear(Len(recs))
  <2>1. CASE n < Len(recs) /\ ~Has(End(n + 1))
    <3>1. End(n + 1) \in 1..Len(Whole(recs))
      BY <1>1, <2>1, NextRecord
    <3> QED BY <1>2, <2>1, <3>1 DEF Has
  <2>2. CASE n < Len(recs) /\ Foreign(recs[n + 1])
    <3>1. n + 1 \in 1..Len(recs)
      BY <1>2, <2>2
    <3> QED BY <2>2, <3>1 DEF Clear
  <2>3. CASE n >= Len(recs) /\ ~Has(pos)
    <3>1. pos \in 1..Len(Whole(recs))
      BY <1>1, <2>3, NoNextRecord
    <3> QED BY <1>2, <2>3, <3>1 DEF Has
  <2> QED BY <2>1, <2>2, <2>3
<1>6. /\ Readable' = Readable /\ Whole(recs)' = Whole(recs) /\ (Clear(Len(recs))' <=> Clear(Len(recs)))
      /\ recs' = recs /\ file' = file /\ got' = got /\ stopped' = stopped
  BY Fixed
<1> QED BY <1>1, <1>4, <1>5, <1>6 DEF Ended

LEMMA ClearGrows ==
    ASSUME NEW n \in Nat, Clear(n), ~Foreign(recs[n + 1])
    PROVE  Clear(n + 1)
<1>1. \A i \in 1..(n + 1) : i \in 1..n \/ i = n + 1
  OBVIOUS
<1> QED BY <1>1 DEF Clear

(* The registers after n records. *)
RegistersAre(n) == /\ dbIndex = DbOf(recs, n) /\ expireMs = ExpOf(recs, n)
                   /\ lru = IdleOf(recs, n) /\ lfu = FreqOf(recs, n)

(* A record is read, or Parse fails. *)
LEMMA Moves ==
    ASSUME Given, UNCHANGED <<corpus, recs, file>>, NEW n \in 0..Len(recs), At(n), n < Len(recs),
           recs[n + 1][1] # "object", ~Foreign(recs[n + 1]),
           NEW r, EndsAt(r, End(n + 1)), Advance(r),
           Has(End(n + 1)) => RegistersAre(n + 1)'
    PROVE  At(n + 1)' \/ Ended(n)'
<1>1. /\ Clear(n) /\ result = "none" /\ stopped = FALSE /\ pos = End(n) + 1
      /\ valkey = (corpus.header = "VALKEY080")
      /\ IsSequence(got) /\ EntriesOf(got) = Expected(recs, n)
  BY DEF At
<1>2. n + 1 \in 0..Len(recs) /\ n \in Nat
  BY <1>1, NextRecord
<1>3. CASE Has(End(n + 1))
  <2>1. /\ pos' = End(n + 1) + 1 /\ UNCHANGED <<valkey, got, stopped, result>>
    BY <1>3 DEF EndsAt, Advance
  <2>2. /\ dbIndex' = DbOf(recs, n + 1) /\ expireMs' = ExpOf(recs, n + 1)
        /\ lru' = IdleOf(recs, n + 1) /\ lfu' = FreqOf(recs, n + 1)
    BY <1>3 DEF RegistersAre
  <2>3. Clear(n + 1)
    BY <1>1, <1>2, ClearGrows
  <2>4. Expected(recs, n + 1) = Expected(recs, n)
    <3>1. n + 1 \in Nat \ {0} /\ (n + 1) - 1 = n
      BY <1>2
    <3> QED BY <3>1, ExpectedGrows
  <2> QED BY <1>1, <1>2, <1>3, <2>1, <2>2, <2>3, <2>4, AtNext
<1>4. CASE ~Has(End(n + 1))
  <2>1. r.st = "error"
    BY <1>4 DEF EndsAt
  <2>2. result' = "error" /\ UNCHANGED <<got, stopped>>
    BY <2>1 DEF Advance, Return
  <2> QED BY <1>4, <2>2, Fails
<1> QED BY <1>3, <1>4

(* The callback gets what was read, and may stop Parse. *)
LEMMA CallsBack ==
    ASSUME Given, UNCHANGED <<corpus, recs, file>>, NEW n \in 0..Len(recs), At(n), n < Len(recs),
           ~Foreign(recs[n + 1]), Has(End(n + 1)), NEW x, Callback(x, End(n + 1) + 1),
           EntriesOf(Append(got, x)) = Expected(recs, n + 1), RegistersAre(n + 1)'
    PROVE  At(n + 1)' \/ Left(n + 1)'
<1>1. /\ Clear(n) /\ result = "none" /\ stopped = FALSE /\ pos = End(n) + 1
      /\ valkey = (corpus.header = "VALKEY080") /\ IsSequence(got)
  BY DEF At
<1>2. n + 1 \in 0..Len(recs) /\ n \in Nat
  BY <1>1, NextRecord
<1>3. /\ got' = Append(got, x) /\ pos' = End(n + 1) + 1 /\ valkey' = valkey
      /\ UNCHANGED <<stopped, result>> \/ (stopped' = TRUE /\ result' = "nil")
  BY DEF Callback
<1>4. IsSequence(got') /\ EntriesOf(got') = Expected(recs, n + 1)
  BY <1>1, <1>3, SequenceGrows
<1>5. CASE UNCHANGED <<stopped, result>>
  <2>1. /\ dbIndex' = DbOf(recs, n + 1) /\ expireMs' = ExpOf(recs, n + 1)
        /\ lru' = IdleOf(recs, n + 1) /\ lfu' = FreqOf(recs, n + 1)
    BY DEF RegistersAre
  <2>2. Clear(n + 1)
    BY <1>1, <1>2, ClearGrows
  <2> QED BY <1>1, <1>2, <1>3, <1>4, <1>5, <2>1, <2>2, AtNext
<1>6. CASE stopped' = TRUE /\ result' = "nil"
  BY <1>2, <1>4, <1>6, LeftNext
<1> QED BY <1>3, <1>5, <1>6

(* A register is set to the operand of its record. *)
LEMMA SetsRegister ==
    ASSUME Given, UNCHANGED <<corpus, recs, file>>, NEW n \in 0..Len(recs), At(n),
           SelectDB \/ ExpireTime \/ ExpireTimeMs \/ Freq \/ Idle
    PROVE  n < Len(recs) /\ (At(n + 1)' \/ Ended(n)')
<1> DEFINE x == recs[n + 1]
           k == x[1]
           e == End(n + 1)
<1>1. pos = End(n) + 1 /\ RegistersAre(n)
  BY DEF At, RegistersAre
<1>2. PICK op \in {"opCodeSelectDB", "opCodeExpireTime", "opCodeExpireTimeMs",
                   "opCodeFreq", "opCodeIdle"} :
        /\ AtRecord(op)
        /\ op = "opCodeSelectDB" => SelectDB
        /\ op = "opCodeExpireTime" => ExpireTime
        /\ op = "opCodeExpireTimeMs" => ExpireTimeMs
        /\ op = "opCodeFreq" => Freq
        /\ op = "opCodeIdle" => Idle
  <2>1. CASE SelectDB
    BY <2>1 DEF SelectDB
  <2>2. CASE ExpireTime
    BY <2>2 DEF ExpireTime
  <2>3. CASE ExpireTimeMs
    BY <2>3 DEF ExpireTimeMs
  <2>4. CASE Freq
    BY <2>4 DEF Freq
  <2>5. CASE Idle
    BY <2>5 DEF Idle
  <2> QED BY <2>1, <2>2, <2>3, <2>4, <2>5
<1>3. n < Len(recs) /\ op = OpOf(x)
  BY <1>1, <1>2, AtRecordIs
<1>4. /\ n \in Nat /\ IsRecord(x) /\ e = pos + Len(Operands(x))
      /\ pos + Len(Operands(x)) \in 1..Len(Whole(recs)) /\ pos \in Nat
      /\ \A i \in 1..Len(Operands(x)) : Whole(recs)[pos + i] = Operands(x)[i]
  BY <1>1, <1>3, NextRecord
<1>5. /\ op = "opCodeSelectDB" <=> k = "select"
      /\ op = "opCodeExpireTime" <=> k = "expire"
      /\ op = "opCodeExpireTimeMs" <=> k = "expirems"
      /\ op = "opCodeFreq" <=> k = "freq"
      /\ op = "opCodeIdle" <=> k = "idle"
      /\ k \in {"select", "expire", "expirems", "freq", "idle"}
  BY <1>2, <1>3, <1>4, KindOf
<1>6. /\ DbOf(recs, n + 1) = IF k = "select" THEN x[2] ELSE DbOf(recs, n)
      /\ ExpOf(recs, n + 1) = CASE k = "expire"   -> 1000 * x[2]
                                [] k = "expirems" -> x[2]
                                [] k = "object"   -> 0
                                [] OTHER          -> ExpOf(recs, n)
      /\ IdleOf(recs, n + 1) = CASE k = "idle"   -> x[2]
                                 [] k = "object" -> None
                                 [] OTHER        -> IdleOf(recs, n)
      /\ FreqOf(recs, n + 1) = CASE k = "freq"   -> x[2]
                                 [] k = "object" -> None
                                 [] OTHER        -> FreqOf(recs, n)
  <2>1. n + 1 \in Nat \ {0} /\ (n + 1) - 1 = n
    BY <1>4
  <2> QED BY <2>1, RegistersGrow
<1>7. ~Foreign(x) /\ k # "object"
  BY <1>5 DEF Foreign
<1> DEFINE r == IF k \in {"expire", "expirems"} THEN readInt64(pos + 1) ELSE readLength(pos + 1)
<1>8. e = pos + 1 /\ r = IF Has(e) THEN Done(e + 1, x[2]) ELSE Fail(e, "error")
  <2>1. CASE k = "select"
    <3>1. Operands(x) = << DbIndex(x[2]) >>
      BY <2>1 DEF Operands, IsObjectRecord
    <3>2. e = pos + 1 /\ pos + 1 \in 1..Len(Whole(recs)) /\ Whole(recs)[pos + 1] = DbIndex(x[2])
      BY <1>4, <3>1
    <3> QED BY <2>1, <3>2, LengthIs
  <2>2. CASE k \in {"expire", "expirems"}
    <3>1. Operands(x) = << Int64(x[2]) >>
      BY <2>2 DEF Operands, IsObjectRecord
    <3>2. e = pos + 1 /\ pos + 1 \in 1..Len(Whole(recs)) /\ Whole(recs)[pos + 1] = Int64(x[2])
      BY <1>4, <3>1
    <3> QED BY <2>2, <3>2, Int64Is
  <2>3. CASE k \in {"freq", "idle"}
    <3>1. Operands(x) = << Length(x[2]) >>
      BY <2>3 DEF Operands, IsObjectRecord
    <3>2. e = pos + 1 /\ pos + 1 \in 1..Len(Whole(recs)) /\ Whole(recs)[pos + 1] = Length(x[2])
      BY <1>4, <3>1
    <3> QED BY <2>3, <3>2, LengthIs
  <2> QED BY <1>5, <2>1, <2>2, <2>3
<1>9. EndsAt(r, e)
  BY <1>8 DEF EndsAt, Done, Fail
<1>10. /\ Advance(r)
       /\ dbIndex' = IF k = "select" /\ r.st = "ok" THEN r.val ELSE dbIndex
       /\ expireMs' = IF k \in {"expire", "expirems"} /\ r.st = "ok"
                      THEN IF k = "expire" THEN 1000 * r.val ELSE r.val
                      ELSE expireMs
       /\ lru' = IF k = "idle" /\ r.st = "ok" THEN r.val ELSE lru
       /\ lfu' = IF k = "freq" /\ r.st = "ok" THEN r.val ELSE lfu
  <2>1. CASE k = "select"
    BY <1>2, <1>5, <2>1 DEF SelectDB
  <2>2. CASE k = "expire"
    BY <1>2, <1>5, <2>2 DEF ExpireTime
  <2>3. CASE k = "expirems"
    BY <1>2, <1>5, <2>3 DEF ExpireTimeMs
  <2>4. CASE k = "freq"
    BY <1>2, <1>5, <2>4 DEF Freq
  <2>5. CASE k = "idle"
    BY <1>2, <1>5, <2>5 DEF Idle
  <2> QED BY <1>5, <2>1, <2>2, <2>3, <2>4, <2>5
<1> HIDE DEF r, k, x
<1>11. Has(e) => RegistersAre(n + 1)'
  <2> SUFFICES ASSUME Has(e)
               PROVE  RegistersAre(n + 1)'
    OBVIOUS
  <2>1. r.st = "ok" /\ r.val = x[2]
    BY <1>8 DEF Done
  <2>2. recs' = recs
    OBVIOUS
  <2> QED BY <1>1, <1>5, <1>6, <1>10, <2>1, <2>2 DEF RegistersAre
<1> QED BY <1>3, <1>7, <1>9, <1>10, <1>11, Moves DEF k, x

(* The operands that begin with a string. *)
LEMMA NamedOperands ==
    ASSUME NEW r, IsRecord(r)
    PROVE  LET o == Operands(r)
               h(s) == StrHead(Text(s))
               b(s) == StrBody(Text(s))
           IN  /\ r[1] = "function" => Len(o) = 2 /\ o[1] = h(r[2]) /\ o[2] = b(r[2])
               /\ r[1] = "aux" => /\ Len(o) = 4 /\ o[1] = h(r[2]) /\ o[2] = b(r[2])
                                  /\ o[3] = h(r[2]) /\ o[4] = b(r[2])
               /\ r[1] = "slotimport" => /\ Len(o) = 5 /\ o[1] = h(r[2]) /\ o[2] = b(r[2])
                                         /\ o[3] = Length(1) /\ o[4] = Length(3) /\ o[5] = Length(4)
               /\ r[1] = "object" => /\ Len(o) >= 2
                                     /\ o[1] = h(r[2].key) /\ o[2] = b(r[2].key)
<1> DEFINE T == Seq(WrittenTokens)
           o == Operands(r)
<1>1. ASSUME NEW s \in Strings, NEW t \in T, o = Body(Text(s)) \o t
      PROVE  /\ Len(o) = 2 + Len(t) /\ Len(t) \in Nat
             /\ o[1] = StrHead(Text(s)) /\ o[2] = StrBody(Text(s))
             /\ \A i \in 1..Len(t) : o[2 + i] = t[i]
  <2> DEFINE c == Body(Text(s))
  <2>1. c \in T /\ Len(c) = 2 /\ c[1] = StrHead(Text(s)) /\ c[2] = StrBody(Text(s))
    BY BodyType
  <2> HIDE DEF o, c
  <2>2. /\ Starts(c \o t, c) /\ Len(c \o t) = Len(c) + Len(t) /\ Len(t) \in Nat
        /\ \A i \in 1..Len(t) : (c \o t)[Len(c) + i] = t[i]
    <3>1. c \in T /\ t \in T
      BY <2>1
    <3> QED BY <3>1, ConcatStarts
  <2>3. o = c \o t
    BY <1>1 DEF c
  <2>4. Starts(o, c) /\ Len(o) = 2 + Len(t) /\ Len(t) \in Nat
        /\ \A i \in 1..Len(t) : o[2 + i] = t[i]
    BY <2>1, <2>2, <2>3, Zenon
  <2>5. o[1] = c[1] /\ o[2] = c[2]
    BY <2>1, <2>4 DEF Starts
  <2> QED BY <2>1, <2>4, <2>5
<1>2. CASE r[1] = "function"
  <2>1. r[2] \in Strings
    BY <1>2, RecordKinds DEF Named
  <2>2. o = Body(Text(r[2]))
    BY <1>2 DEF Operands, IsObjectRecord
  <2> QED BY <1>2, <2>1, <2>2, BodyType
<1>3. CASE r[1] = "aux"
  <2> DEFINE t == Body(Text(r[2]))
  <2>1. r[2] \in Strings
    BY <1>3, RecordKinds DEF Named
  <2>2. t \in T /\ Len(t) = 2 /\ t[1] = StrHead(Text(r[2])) /\ t[2] = StrBody(Text(r[2]))
    BY <2>1, BodyType
  <2>3. o = Body(Text(r[2])) \o t
    BY <1>3 DEF Operands, IsObjectRecord
  <2> HIDE DEF o, t
  <2>4. /\ Len(o) = 2 + Len(t) /\ o[1] = StrHead(Text(r[2])) /\ o[2] = StrBody(Text(r[2]))
        /\ \A i \in 1..Len(t) : o[2 + i] = t[i]
    BY <1>1, <2>1, <2>2, <2>3
  <2>5. o[2 + 1] = t[1] /\ o[2 + 2] = t[2] /\ Len(o) = 4
    BY <2>2, <2>4
  <2> QED BY <1>3, <2>2, <2>4, <2>5 DEF o
<1>4. CASE r[1] = "slotimport"
  <2> DEFINE t == << Length(1), Length(3), Length(4) >>
  <2>1. r[2] \in Strings
    BY <1>4, RecordKinds DEF Named
  <2>2. t \in T /\ Len(t) = 3 /\ t[1] = Length(1) /\ t[2] = Length(3) /\ t[3] = Length(4)
    <3>1. Length(1) \in WrittenTokens /\ Length(3) \in WrittenTokens /\ Length(4) \in WrittenTokens
      BY TokenKinds
    <3> QED BY <3>1, SmallTokens
  <2>3. o = Body(Text(r[2])) \o t
    BY <1>4 DEF Operands, IsObjectRecord
  <2> HIDE DEF o, t
  <2>4. /\ Len(o) = 2 + Len(t) /\ o[1] = StrHead(Text(r[2])) /\ o[2] = StrBody(Text(r[2]))
        /\ \A i \in 1..Len(t) : o[2 + i] = t[i]
    BY <1>1, <2>1, <2>2, <2>3
  <2>5. o[2 + 1] = t[1] /\ o[2 + 2] = t[2] /\ o[2 + 3] = t[3] /\ Len(o) = 5
    BY <2>2, <2>4
  <2> QED BY <1>4, <2>2, <2>4, <2>5 DEF o
<1>5. CASE r[1] = "object"
  <2>1. r[2].key \in Strings /\ r[2].tokens \in T
    BY <1>5, RecordKinds
  <2>2. o = Body(Text(r[2].key)) \o r[2].tokens
    BY <1>5 DEF Operands, IsObjectRecord
  <2> HIDE DEF o
  <2>3. /\ Len(o) = 2 + Len(r[2].tokens) /\ Len(r[2].tokens) \in Nat
        /\ o[1] = StrHead(Text(r[2].key)) /\ o[2] = StrBody(Text(r[2].key))
    BY <1>1, <2>1, <2>2
  <2>4. Len(o) >= 2
    BY <2>3
  <2> QED BY <1>5, <2>3, <2>4 DEF o
<1>6. CASE r[1] \notin {"function", "aux", "slotimport", "object"}
  BY <1>6
<1> QED BY <1>2, <1>3, <1>4, <1>5, <1>6

LEMMA TextEnds ==
    ASSUME Given, NEW i \in Nat, NEW s, i \in 1..Len(Whole(recs)), i + 1 \in 1..Len(Whole(recs)),
           Whole(recs)[i] = StrHead(Text(s)), Whole(recs)[i + 1] = StrBody(Text(s))
    PROVE  EndsAt(readText(i), i + 1)
<1>1. (i + 1) + 1 = i + 2
  OBVIOUS
<1> QED BY <1>1, TextIs DEF EndsAt, Done

Registering == {"select", "expire", "expirems", "freq", "idle", "object"}

LEMMA RegistersStay ==
    ASSUME UNCHANGED <<corpus, recs, file>>, NEW n \in Nat, RegistersAre(n),
           recs[n + 1][1] \notin Registering, UNCHANGED registers
    PROVE  RegistersAre(n + 1)'
<1>1. n + 1 \in Nat \ {0} /\ (n + 1) - 1 = n
  OBVIOUS
<1> DEFINE k == recs[n + 1][1]
<1>2. /\ DbOf(recs, n + 1) = IF k = "select" THEN recs[n + 1][2] ELSE DbOf(recs, n)
      /\ ExpOf(recs, n + 1) = CASE k = "expire"   -> 1000 * recs[n + 1][2]
                                [] k = "expirems" -> recs[n + 1][2]
                                [] k = "object"   -> 0
                                [] OTHER          -> ExpOf(recs, n)
      /\ IdleOf(recs, n + 1) = CASE k = "idle"   -> recs[n + 1][2]
                                 [] k = "object" -> None
                                 [] OTHER        -> IdleOf(recs, n)
      /\ FreqOf(recs, n + 1) = CASE k = "freq"   -> recs[n + 1][2]
                                 [] k = "object" -> None
                                 [] OTHER        -> FreqOf(recs, n)
  BY <1>1, RegistersGrow
<1>3. k \notin {"select", "expire", "expirems", "freq", "idle", "object"}
  BY DEF Registering
<1> HIDE DEF k
<1>4. /\ DbOf(recs, n + 1) = DbOf(recs, n) /\ ExpOf(recs, n + 1) = ExpOf(recs, n)
      /\ IdleOf(recs, n + 1) = IdleOf(recs, n) /\ FreqOf(recs, n + 1) = FreqOf(recs, n)
  BY <1>2, <1>3
<1>5. recs' = recs
  OBVIOUS
<1> QED BY <1>4, <1>5 DEF RegistersAre, registers

(* What is delivered stays, whatever else the callback gets. *)
LEMMA DeliveredStays ==
    ASSUME NEW n \in Nat, At(n), recs[n + 1][1] # "object", NEW x, x[1] # "object"
    PROVE  /\ EntriesOf(got) = Expected(recs, n + 1)
           /\ EntriesOf(Append(got, x)) = Expected(recs, n + 1)
<1>1. n + 1 \in Nat \ {0} /\ (n + 1) - 1 = n
  OBVIOUS
<1>2. Expected(recs, n + 1) = Expected(recs, n)
  BY <1>1, ExpectedGrows
<1>3. IsSequence(got) /\ EntriesOf(got) = Expected(recs, n)
  BY DEF At
<1> QED BY <1>2, <1>3, EntriesGrow

(* The second operand of ResizeDB and Aux: its error is not reported. *)
LEMMA SecondOperandIs ==
    ASSUME Given, UNCHANGED <<corpus, recs, file>>, NEW n \in 0..Len(recs), At(n), n < Len(recs),
           recs[n + 1][1] \in {"aux", "resize"}, UNCHANGED registers,
           NEW r, EndsAt(r, End(n + 1)), NEW x, x[1] # "object", SecondOperand(r, x)
    PROVE  At(n + 1)' \/ Ended(n)' \/ Left(n + 1)'
<1>1. /\ Has(End(n)) /\ Clear(n) /\ pos = End(n) + 1 /\ stopped = FALSE
      /\ EntriesOf(got) = Expected(recs, n)
  BY DEF At
<1>2. n \in Nat
  BY <1>1, NextRecord
<1>3. ~Foreign(recs[n + 1]) /\ recs[n + 1][1] # "object"
  BY DEF Foreign
<1>4. RegistersAre(n)
  BY DEF At, RegistersAre
<1>5. RegistersAre(n + 1)'
  BY <1>2, <1>4, RegistersStay DEF Registering
<1>6. CASE Has(End(n + 1))
  <2>1. r.st = "ok" /\ r.pos = End(n + 1) + 1
    BY <1>6 DEF EndsAt
  <2>2. Advance(r) \/ Callback(x, End(n + 1) + 1)
    BY <2>1 DEF SecondOperand
  <2>3. EntriesOf(Append(got, x)) = Expected(recs, n + 1)
    BY <1>2, <1>3, DeliveredStays
  <2>4. CASE Advance(r)
    BY <1>3, <1>5, <2>4, Moves
  <2>5. CASE Callback(x, End(n + 1) + 1)
    BY <1>3, <1>5, <1>6, <2>3, <2>5, CallsBack
  <2> QED BY <2>2, <2>4, <2>5
<1>7. CASE ~Has(End(n + 1))
  <2>1. r.st = "error"
    BY <1>7 DEF EndsAt
  <2>2. result' = "nil" /\ UNCHANGED <<got, stopped>>
    BY <2>1 DEF SecondOperand, Return
  <2>3. Readable = n
    BY <1>1, <1>7, ReadableIs DEF End
  <2>4. CutInHeader
    BY <2>3 DEF CutInHeader
  <2>5. Readable' = Readable /\ CutInHeader' /\ recs' = recs
    BY <2>4, Fixed
  <2> QED BY <1>1, <2>2, <2>3, <2>5 DEF Ended
<1> QED BY <1>6, <1>7

LEMMA FirstOperandFails ==
    ASSUME Given, UNCHANGED <<corpus, recs, file>>, NEW n \in 0..Len(recs), At(n), n < Len(recs),
           NEW i \in 1..Len(Operands(recs[n + 1])), NEW r, EndsAt(r, pos + i),
           r.st # "ok", NEW p, Return(r.st, p)
    PROVE  Ended(n)'
<1>1. pos = End(n) + 1
  BY DEF At
<1>2. LET k == Len(Operands(recs[n + 1]))
      IN  k \in Nat /\ pos \in Nat \ {0} /\ End(n + 1) = pos + k
  BY <1>1, NextRecord
<1>3. ~Has(pos + i) /\ r.st = "error"
  BY DEF EndsAt
<1>4. pos + i \in 1..End(n + 1) /\ End(n + 1) \in Nat
  BY <1>2
<1>5. ~Has(End(n + 1))
  BY <1>3, <1>4, FileIs, HasBefore
<1>6. result' = "error" /\ UNCHANGED <<got, stopped>>
  BY <1>3 DEF Return
<1> QED BY <1>5, <1>6, Fails

LEMMA ReadsResizeDB ==
    ASSUME Given, UNCHANGED <<corpus, recs, file>>, NEW n \in 0..Len(recs), At(n), ResizeDB
    PROVE  n < Len(recs) /\ (At(n + 1)' \/ Ended(n)' \/ Left(n + 1)')
<1> DEFINE x == recs[n + 1]
           k == readLength(pos + 1)
           t == readLength(k.pos)
<1>1. pos = End(n) + 1 /\ AtRecord("opCodeResizeDB")
  BY DEF At, ResizeDB
<1>2. n < Len(recs) /\ OpOf(x) = "opCodeResizeDB"
  BY <1>1, AtRecordIs
<1>3. /\ n \in Nat /\ IsRecord(x) /\ End(n + 1) = pos + Len(Operands(x))
      /\ pos + Len(Operands(x)) \in 1..Len(Whole(recs)) /\ pos \in Nat \ {0}
      /\ \A i \in 1..Len(Operands(x)) : Whole(recs)[pos + i] = Operands(x)[i]
  BY <1>1, <1>2, NextRecord
<1>4. x[1] = "resize"
  BY <1>2, <1>3, KindOf
<1>5. Len(Operands(x)) = 2 /\ Operands(x)[1] = Length(x[2]) /\ Operands(x)[2] = Length(x[2])
  BY <1>4 DEF Operands, IsObjectRecord
<1> HIDE DEF x
<1>6. /\ Whole(recs)[pos + 1] = Length(x[2]) /\ Whole(recs)[pos + 2] = Length(x[2])
      /\ pos + 1 \in 1..Len(Whole(recs)) /\ pos + 2 \in 1..Len(Whole(recs))
      /\ End(n + 1) = pos + 2
  BY <1>3, <1>5
<1>7. EndsAt(k, pos + 1) /\ EndsAt(readLength(pos + 2), pos + 2)
  BY <1>6, LengthEnds
<1>8. /\ k.st # "ok" => Return(k.st, k.pos)
      /\ k.st = "ok" => SecondOperand(t, << "dbsize", << dbIndex, k.val, t.val >> >>)
      /\ UNCHANGED registers
  BY DEF ResizeDB
<1> HIDE DEF k
<1>9. CASE k.st # "ok"
  <2>1. 1 \in 1..Len(Operands(recs[n + 1]))
    BY <1>5 DEF x
  <2> QED BY <1>2, <1>7, <1>8, <1>9, <2>1, FirstOperandFails
<1>10. CASE k.st = "ok"
  <2> DEFINE y == << "dbsize", << dbIndex, k.val, t.val >> >>
  <2>1. k.pos = pos + 2
    <3>1. k.pos = (pos + 1) + 1
      BY <1>7, <1>10 DEF EndsAt
    <3> QED BY <1>3, <3>1
  <2>2. EndsAt(t, End(n + 1))
    BY <1>6, <1>7, <2>1
  <2>3. y[1] # "object"
    OBVIOUS
  <2>4. recs[n + 1][1] \in {"aux", "resize"}
    BY <1>4 DEF x
  <2> HIDE DEF t
  <2>5. SecondOperand(t, y)
    BY <1>8, <1>10
  <2> HIDE DEF y
  <2> QED BY <1>2, <1>8, <2>2, <2>3, <2>4, <2>5, SecondOperandIs
<1> QED BY <1>2, <1>9, <1>10

LEMMA ReadsAux ==
    ASSUME Given, UNCHANGED <<corpus, recs, file>>, NEW n \in 0..Len(recs), At(n), Aux
    PROVE  n < Len(recs) /\ (At(n + 1)' \/ Ended(n)' \/ Left(n + 1)')
<1> DEFINE x == recs[n + 1]
           k == readText(pos + 1)
           v == readText(k.pos)
<1>1. pos = End(n) + 1 /\ AtRecord("opCodeAux")
  BY DEF At, Aux
<1>2. n < Len(recs) /\ OpOf(x) = "opCodeAux"
  BY <1>1, AtRecordIs
<1>3. /\ n \in Nat /\ IsRecord(x) /\ End(n + 1) = pos + Len(Operands(x))
      /\ pos + Len(Operands(x)) \in 1..Len(Whole(recs)) /\ pos \in Nat \ {0}
      /\ \A i \in 1..Len(Operands(x)) : Whole(recs)[pos + i] = Operands(x)[i]
  BY <1>1, <1>2, NextRecord
<1>4. x[1] = "aux"
  BY <1>2, <1>3, KindOf
<1>5. /\ Len(Operands(x)) = 4
      /\ Operands(x)[1] = StrHead(Text(x[2])) /\ Operands(x)[2] = StrBody(Text(x[2]))
      /\ Operands(x)[3] = StrHead(Text(x[2])) /\ Operands(x)[4] = StrBody(Text(x[2]))
  BY <1>3, <1>4, NamedOperands
<1> HIDE DEF x
<1>6. /\ Whole(recs)[pos + 1] = StrHead(Text(x[2])) /\ Whole(recs)[pos + 2] = StrBody(Text(x[2]))
      /\ Whole(recs)[pos + 3] = StrHead(Text(x[2])) /\ Whole(recs)[pos + 4] = StrBody(Text(x[2]))
      /\ pos + 1 \in 1..Len(Whole(recs)) /\ pos + 2 \in 1..Len(Whole(recs))
      /\ pos + 3 \in 1..Len(Whole(recs)) /\ pos + 4 \in 1..Len(Whole(recs))
      /\ End(n + 1) = pos + 4
  BY <1>3, <1>5
<1>7. EndsAt(k, pos + 2) /\ EndsAt(readText(pos + 3), pos + 4)
  <2>1. /\ pos + 1 \in Nat /\ pos + 3 \in Nat
        /\ (pos + 1) + 1 = pos + 2 /\ (pos + 3) + 1 = pos + 4
    BY <1>3
  <2> QED BY <1>6, <2>1, TextEnds
<1>8. /\ k.st # "ok" => Return(k.st, k.pos)
      /\ k.st = "ok" => SecondOperand(v, << "aux", << k.val, v.val >> >>)
      /\ UNCHANGED registers
  BY DEF Aux
<1> HIDE DEF k
<1>9. CASE k.st # "ok"
  <2>1. 2 \in 1..Len(Operands(recs[n + 1]))
    BY <1>5 DEF x
  <2> QED BY <1>2, <1>7, <1>8, <1>9, <2>1, FirstOperandFails
<1>10. CASE k.st = "ok"
  <2> DEFINE y == << "aux", << k.val, v.val >> >>
  <2>1. k.pos = pos + 3
    <3>1. k.pos = (pos + 2) + 1
      BY <1>7, <1>10 DEF EndsAt
    <3> QED BY <1>3, <3>1
  <2>2. EndsAt(v, End(n + 1))
    BY <1>6, <1>7, <2>1
  <2>3. y[1] # "object"
    OBVIOUS
  <2>4. recs[n + 1][1] \in {"aux", "resize"}
    BY <1>4 DEF x
  <2> HIDE DEF v
  <2>5. SecondOperand(v, y)
    BY <1>8, <1>10
  <2> HIDE DEF y
  <2> QED BY <1>2, <1>8, <2>2, <2>3, <2>4, <2>5, SecondOperandIs
<1> QED BY <1>2, <1>9, <1>10

(* What ValuesRead says of the record that is read next. *)
LEMMA ValueIsRead ==
    ASSUME Given, ValuesRead, NEW n \in 0..Len(recs), n < Len(recs), pos = End(n) + 1,
           NEW op, AtRecord(op)
    PROVE  LET r   == recs[n + 1]
               key == readText(pos + 1)
               e   == End(n + 1)
           IN  /\ r[1] = "moduleaux" => EndsAt(readModuleType(pos + 1), e)
               /\ r[1] = "object" /\ key.st = "ok" =>
                    LET o == readObject(r[2].flag, key.pos)
                    IN  EndsAt(o, e) /\ (Has(e) => o.val = r[2].value)
<1> DEFINE r == recs[n + 1]
           key == readText(pos + 1)
           o == readObject(r[2].flag, key.pos)
           m == readModuleType(pos + 1)
           read == IF IsObjectRecord(r) THEN o ELSE m
           e == End(n + 1)
<1>1. n + 1 \in DOMAIN recs /\ (n + 1) - 1 = n /\ n + 1 \in 0..Len(recs)
  <2>1. n + 1 \in 0..Len(recs) /\ n \in Nat
    BY NextRecord
  <2>2. DOMAIN recs = 1..Len(recs)
    BY RecordsAre
  <2> QED BY <2>1, <2>2
<1>2. Parsing /\ pos > 1 /\ pos <= Len(file)
  BY DEF AtRecord
<1>3. pos = Len(Beginning(recs, (n + 1) - 1)) + 1
  BY <1>1 DEF End
<1>4. r[1] \in {"object", "moduleaux"} /\ (IsObjectRecord(r) => key.st = "ok")
        => IF Begins(Beginning(recs, n + 1))
           THEN read = Done(e + 1, IF IsObjectRecord(r) THEN r[2].value ELSE 99)
           ELSE read.st = "error"
  BY <1>1, <1>2, <1>3 DEF ValuesRead, End
<1>5. Begins(Beginning(recs, n + 1)) <=> Has(e)
  BY <1>1, BeginsIs DEF End
<1> HIDE DEF e, o, m, key
<1>6. ASSUME r[1] = "moduleaux"
      PROVE  EndsAt(m, e)
  <2>1. ~IsObjectRecord(r)
    BY <1>6 DEF IsObjectRecord
  <2>2. IF Has(e) THEN m = Done(e + 1, 99) ELSE m.st = "error"
    BY <1>4, <1>5, <1>6, <2>1
  <2> QED BY <2>2 DEF EndsAt, Done
<1>7. ASSUME r[1] = "object", key.st = "ok"
      PROVE  EndsAt(o, e) /\ (Has(e) => o.val = r[2].value)
  <2>1. IsObjectRecord(r)
    BY <1>7 DEF IsObjectRecord
  <2>2. IF Has(e) THEN o = Done(e + 1, r[2].value) ELSE o.st = "error"
    BY <1>4, <1>5, <1>7, <2>1
  <2> QED BY <2>2 DEF EndsAt, Done
<1> QED BY <1>6, <1>7 DEF o, m, key, e

LEMMA ReadsModuleAux ==
    ASSUME Given, ValuesRead, UNCHANGED <<corpus, recs, file>>, NEW n \in 0..Len(recs), At(n),
           ModuleAux
    PROVE  n < Len(recs) /\ (At(n + 1)' \/ Ended(n)')
<1> DEFINE r == readModuleType(pos + 1)
<1>1. /\ pos = End(n) + 1 /\ RegistersAre(n)
      /\ AtRecord("opCodeModuleAux") /\ Advance(r) /\ UNCHANGED registers
  BY DEF At, RegistersAre, ModuleAux
<1>2. n < Len(recs) /\ OpOf(recs[n + 1]) = "opCodeModuleAux"
  BY <1>1, AtRecordIs
<1>3. n \in Nat /\ IsRecord(recs[n + 1])
  BY <1>1, <1>2, NextRecord
<1>4. recs[n + 1][1] = "moduleaux"
  BY <1>2, <1>3, KindOf
<1>5. EndsAt(r, End(n + 1))
  BY <1>1, <1>2, <1>4, ValueIsRead
<1>6. RegistersAre(n + 1)' /\ ~Foreign(recs[n + 1]) /\ recs[n + 1][1] # "object"
  BY <1>1, <1>3, <1>4, RegistersStay DEF Registering, Foreign
<1> HIDE DEF r
<1> QED BY <1>1, <1>2, <1>5, <1>6, Moves

LEMMA ReadsFunction ==
    ASSUME Given, UNCHANGED <<corpus, recs, file>>, NEW n \in 0..Len(recs), At(n), Function
    PROVE  n < Len(recs) /\ (At(n + 1)' \/ Ended(n)' \/ Left(n + 1)')
<1> DEFINE x == recs[n + 1]
           r == readText(pos + 1)
           y == << "functions", r.val >>
<1>1. /\ pos = End(n) + 1 /\ RegistersAre(n)
      /\ AtRecord("opCodeFunction") /\ UNCHANGED registers
      /\ IF r.st = "ok" /\ WithSpecialOpCode THEN Callback(y, r.pos) ELSE Advance(r)
  BY DEF At, RegistersAre, Function
<1>2. n < Len(recs) /\ OpOf(x) = "opCodeFunction"
  BY <1>1, AtRecordIs
<1>3. /\ n \in Nat /\ IsRecord(x) /\ End(n + 1) = pos + Len(Operands(x))
      /\ pos + Len(Operands(x)) \in 1..Len(Whole(recs)) /\ pos \in Nat \ {0}
      /\ \A i \in 1..Len(Operands(x)) : Whole(recs)[pos + i] = Operands(x)[i]
  BY <1>1, <1>2, NextRecord
<1>4. x[1] = "function"
  BY <1>2, <1>3, KindOf
<1>5. /\ Len(Operands(x)) = 2
      /\ Operands(x)[1] = StrHead(Text(x[2])) /\ Operands(x)[2] = StrBody(Text(x[2]))
  BY <1>3, <1>4, NamedOperands
<1>6. RegistersAre(n + 1)' /\ ~Foreign(x) /\ x[1] # "object"
  BY <1>1, <1>3, <1>4, RegistersStay DEF Registering, Foreign
<1>7. y[1] # "object"
  OBVIOUS
<1> HIDE DEF y
<1>8. EntriesOf(Append(got, y)) = Expected(recs, n + 1)
  BY <1>3, <1>6, <1>7, DeliveredStays
<1> HIDE DEF x
<1>9. EndsAt(r, End(n + 1))
  <2>1. /\ Whole(recs)[pos + 1] = StrHead(Text(x[2])) /\ Whole(recs)[pos + 2] = StrBody(Text(x[2]))
        /\ pos + 1 \in 1..Len(Whole(recs)) /\ pos + 2 \in 1..Len(Whole(recs))
        /\ End(n + 1) = pos + 2 /\ pos + 1 \in Nat /\ (pos + 1) + 1 = pos + 2
    BY <1>3, <1>5
  <2> QED BY <2>1, TextEnds
<1> HIDE DEF r
<1>10. CASE Advance(r)
  BY <1>2, <1>6, <1>9, <1>10, Moves DEF x
<1>11. CASE r.st = "ok" /\ Callback(y, r.pos)
  <2>1. Has(End(n + 1)) /\ r.pos = End(n + 1) + 1
    BY <1>9, <1>11 DEF EndsAt
  <2>2. Callback(y, End(n + 1) + 1)
    BY <1>11, <2>1
  <2> QED BY <1>2, <1>6, <1>8, <2>1, <2>2, CallsBack DEF x
<1> QED BY <1>1, <1>2, <1>10, <1>11

LEMMA ReadsSlots ==
    ASSUME Given, UNCHANGED <<corpus, recs, file>>, NEW n \in 0..Len(recs), At(n),
           SlotInfo \/ SlotImport
    PROVE  n < Len(recs) /\ (At(n + 1)' \/ Ended(n)')
<1> DEFINE x == recs[n + 1]
           r == IF x[1] = "slotinfo" THEN readN(pos + 1, 3, readLength) ELSE SlotJob(pos + 1)
<1>1. /\ pos = End(n) + 1 /\ RegistersAre(n) /\ valkey = (corpus.header = "VALKEY080")
      /\ UNCHANGED registers
  BY DEF At, RegistersAre, SlotInfo, SlotImport
<1>2. PICK op \in {"opCodeSlotInfo", "opCodeSlotImport"} :
        /\ AtRecord(op)
        /\ op = "opCodeSlotInfo" => SlotInfo
        /\ op = "opCodeSlotImport" => SlotImport
  <2>1. CASE SlotInfo
    BY <2>1 DEF SlotInfo
  <2>2. CASE SlotImport
    BY <2>2 DEF SlotImport
  <2> QED BY <2>1, <2>2
<1>3. n < Len(recs) /\ op = OpOf(x)
  BY <1>1, <1>2, AtRecordIs
<1>4. /\ n \in Nat /\ IsRecord(x) /\ End(n + 1) = pos + Len(Operands(x))
      /\ pos + Len(Operands(x)) \in 1..Len(Whole(recs)) /\ pos \in Nat \ {0}
      /\ \A i \in 1..Len(Operands(x)) : Whole(recs)[pos + i] = Operands(x)[i]
  BY <1>1, <1>3, NextRecord
<1>5. /\ op = "opCodeSlotInfo" <=> x[1] = "slotinfo"
      /\ op = "opCodeSlotImport" <=> x[1] = "slotimport"
      /\ x[1] \in {"slotinfo", "slotimport"}
  BY <1>2, <1>3, <1>4, KindOf
<1>6. RegistersAre(n + 1)' /\ x[1] # "object"
  BY <1>1, <1>4, <1>5, RegistersStay DEF Registering
<1>7. IF valkey THEN Advance(r) ELSE Return("error", pos + 1)
  <2>1. CASE x[1] = "slotinfo"
    BY <1>2, <1>5, <2>1 DEF SlotInfo
  <2>2. CASE x[1] = "slotimport"
    <3>1. SlotJob(pos + 1) =
            Then(readText(pos + 1), LAMBDA job :
              readSized(job.pos, LAMBDA q : readPair(q, readLength, readLength)))
      BY DEF SlotJob, LengthPair
    <3>2. IF valkey THEN Advance(SlotJob(pos + 1)) ELSE Return("error", pos + 1)
      BY <1>2, <1>5, <2>2, <3>1 DEF SlotImport
    <3> QED BY <2>2, <3>2
  <2> QED BY <1>5, <2>1, <2>2
<1>8. valkey <=> ~Foreign(x)
  BY <1>1, <1>5 DEF Foreign
<1>9. EndsAt(r, End(n + 1))
  <2>1. CASE x[1] = "slotinfo"
    <3>1. Operands(x) = << Length(1), Length(1), Length(0) >>
      BY <2>1 DEF Operands, IsObjectRecord
    <3>2. /\ Whole(recs)[pos + 1] = Length(1) /\ Whole(recs)[pos + 2] = Length(1)
          /\ Whole(recs)[pos + 3] = Length(0) /\ End(n + 1) = pos + 3
          /\ pos + 3 \in 1..Len(Whole(recs))
      BY <1>4, <3>1
    <3>3. pos + 1 \in Nat \ {0} /\ (pos + 1) + 1 = pos + 2 /\ (pos + 1) + 2 = pos + 3
      BY <1>4
    <3>4. EndsAt(readN(pos + 1, 3, readLength), pos + 3)
      BY <3>2, <3>3, ThreeAre
    <3> QED BY <2>1, <3>2, <3>4
  <2>2. CASE x[1] = "slotimport"
    <3>1. /\ Len(Operands(x)) = 5
          /\ Operands(x)[1] = StrHead(Text(x[2])) /\ Operands(x)[2] = StrBody(Text(x[2]))
          /\ Operands(x)[3] = Length(1) /\ Operands(x)[4] = Length(3) /\ Operands(x)[5] = Length(4)
      BY <1>4, <2>2, NamedOperands
    <3>2. /\ Whole(recs)[pos + 1] = StrHead(Text(x[2])) /\ Whole(recs)[pos + 2] = StrBody(Text(x[2]))
          /\ Whole(recs)[pos + 3] = Length(1) /\ Whole(recs)[pos + 4] = Length(3)
          /\ Whole(recs)[pos + 5] = Length(4) /\ End(n + 1) = pos + 5
          /\ pos + 5 \in 1..Len(Whole(recs))
      BY <1>4, <3>1
    <3>3. /\ pos + 1 \in Nat \ {0} /\ (pos + 1) + 1 = pos + 2 /\ (pos + 1) + 2 = pos + 3
          /\ (pos + 1) + 3 = pos + 4 /\ (pos + 1) + 4 = pos + 5
      BY <1>4
    <3>4. EndsAt(SlotJob(pos + 1), pos + 5)
      BY <3>2, <3>3, SlotJobIs
    <3> QED BY <2>2, <3>2, <3>4
  <2> QED BY <1>5, <2>1, <2>2
<1> HIDE DEF r
<1>10. CASE valkey
  BY <1>3, <1>6, <1>7, <1>8, <1>9, <1>10, Moves
<1>11. CASE ~valkey
  <2>1. result' = "error" /\ UNCHANGED <<got, stopped>>
    BY <1>7, <1>11 DEF Return
  <2>2. Foreign(recs[n + 1])
    BY <1>8, <1>11
  <2> QED BY <1>3, <2>1, <2>2, Fails
<1> QED BY <1>10, <1>11

LEMMA ReadsObject ==
    ASSUME Given, ValuesRead, UNCHANGED <<corpus, recs, file>>, NEW n \in 0..Len(recs), At(n),
           NEW flag \in TypeFlags, Object(flag)
    PROVE  n < Len(recs) /\ (At(n + 1)' \/ Ended(n)' \/ Left(n + 1)')
<1> DEFINE x == recs[n + 1]
           k == readText(pos + 1)
           o == readObject(flag, k.pos)
           exp == IF expireMs > 0 THEN expireMs ELSE 0
           y == << "object", Entry(dbIndex, k.val, exp, lru, lfu, o.val) >>
<1>1. /\ pos = End(n) + 1 /\ RegistersAre(n) /\ AtRecord(flag)
      /\ IsSequence(got) /\ EntriesOf(got) = Expected(recs, n)
  BY DEF At, RegistersAre, Object
<1>2. n < Len(recs) /\ OpOf(x) = flag
  <2>1. flag # "opCodeEOF"
    BY DEF TypeFlags
  <2> QED BY <1>1, <2>1, AtRecordIs
<1>3. /\ n \in Nat /\ IsRecord(x) /\ End(n + 1) = pos + Len(Operands(x))
      /\ pos + Len(Operands(x)) \in 1..Len(Whole(recs)) /\ pos \in Nat \ {0}
      /\ \A i \in 1..Len(Operands(x)) : Whole(recs)[pos + i] = Operands(x)[i]
      /\ Len(Operands(x)) \in Nat /\ n + 1 \in Nat \ {0} /\ (n + 1) - 1 = n
  <2>1. /\ n \in Nat /\ IsRecord(x) /\ End(n + 1) = pos + Len(Operands(x))
        /\ pos + Len(Operands(x)) \in 1..Len(Whole(recs)) /\ pos \in Nat \ {0}
        /\ \A i \in 1..Len(Operands(x)) : Whole(recs)[pos + i] = Operands(x)[i]
        /\ Len(Operands(x)) \in Nat
    BY <1>1, <1>2, NextRecord
  <2>2. n + 1 \in Nat \ {0} /\ (n + 1) - 1 = n
    BY <2>1
  <2> HIDE DEF x
  <2> QED BY <2>1, <2>2
<1>4. x[1] = "object" /\ x[2].flag = flag
  BY <1>2, <1>3, KindOf
<1>5. ~Foreign(x)
  BY <1>4 DEF Foreign
<1>6. /\ Len(Operands(x)) >= 2
      /\ Operands(x)[1] = StrHead(Text(x[2].key)) /\ Operands(x)[2] = StrBody(Text(x[2].key))
  BY <1>3, <1>4, NamedOperands
<1>7. /\ k.st = "ok" => /\ EndsAt(o, End(n + 1))
                        /\ Has(End(n + 1)) => o.val = x[2].value
  BY <1>1, <1>2, <1>4, ValueIsRead
<1>8. /\ k.st # "ok" => Return(k.st, k.pos)
      /\ k.st = "ok" => /\ expireMs' = IF expireMs > 0 THEN 0 ELSE expireMs
                        /\ lru' = None /\ lfu' = None /\ dbIndex' = dbIndex
                        /\ o.st # "ok" => Return(o.st, o.pos)
                        /\ o.st = "ok" => Callback(y, o.pos)
  BY DEF Object
<1>9. Expected(recs, n + 1) = Expected(recs, n) \o << ExpectedEntry(recs, n + 1) >>
  BY <1>3, <1>4, ExpectedGrows
<1>10. ExpectedEntry(recs, n + 1) =
         Entry(DbOf(recs, n), x[2].key, ExpOf(recs, n), IdleOf(recs, n), FreqOf(recs, n), x[2].value)
  BY <1>3, ExpectedEntryIs
<1>11. /\ DbOf(recs, n + 1) = DbOf(recs, n) /\ ExpOf(recs, n + 1) = 0
       /\ IdleOf(recs, n + 1) = None /\ FreqOf(recs, n + 1) = None
  BY <1>3, <1>4, RegistersGrow
<1> HIDE DEF x
<1>12. /\ Whole(recs)[pos + 1] = StrHead(Text(x[2].key)) /\ Whole(recs)[pos + 2] = StrBody(Text(x[2].key))
       /\ pos + 1 \in 1..Len(Whole(recs)) /\ pos + 2 \in 1..Len(Whole(recs))
       /\ pos + 1 \in Nat /\ (pos + 1) + 1 = pos + 2
  BY <1>3, <1>6
<1>13. EndsAt(k, pos + 2)
  BY <1>12, TextEnds
<1>14. Has(pos + 2) => k.val = x[2].key
  BY <1>12, TextIs DEF Done
<1>15. ExpOf(recs, n) \in Nat
  BY RecordsAre, ExpiresType
<1> HIDE DEF k
<1>16. CASE k.st # "ok"
  <2>1. 2 \in 1..Len(Operands(recs[n + 1]))
    BY <1>3, <1>6 DEF x
  <2> QED BY <1>2, <1>8, <1>13, <1>16, <2>1, FirstOperandFails
<1>17. CASE k.st = "ok"
  <2>1. EndsAt(o, End(n + 1))
    BY <1>7, <1>17
  <2> HIDE DEF o
  <2>2. CASE ~Has(End(n + 1))
    <3>1. o.st = "error"
      BY <2>1, <2>2 DEF EndsAt
    <3>2. result' = "error" /\ UNCHANGED <<got, stopped>>
      BY <1>8, <1>17, <3>1 DEF Return
    <3> QED BY <1>2, <2>2, <3>2, Fails
  <2>3. CASE Has(End(n + 1))
    <3>1. o.st = "ok" /\ o.pos = End(n + 1) + 1 /\ o.val = x[2].value
      BY <1>7, <1>17, <2>1, <2>3 DEF EndsAt
    <3>2. Has(pos + 2) /\ k.val = x[2].key
      BY <1>13, <1>14, <1>17 DEF EndsAt
    <3>3. exp = ExpOf(recs, n) /\ expireMs' = 0
      BY <1>1, <1>8, <1>15, <1>17 DEF RegistersAre
    <3>4. y[1] = "object" /\ y[2] = ExpectedEntry(recs, n + 1)
      <4> HIDE DEF exp
      <4>1. y[2] = Entry(dbIndex, k.val, exp, lru, lfu, o.val)
        OBVIOUS
      <4> QED BY <1>1, <1>10, <3>1, <3>2, <3>3, <4>1 DEF RegistersAre
    <3>5. Callback(y, End(n + 1) + 1)
      BY <1>8, <1>17, <3>1
    <3> HIDE DEF y, exp
    <3>6. EntriesOf(Append(got, y)) = Expected(recs, n + 1)
      BY <1>1, <1>9, <3>4, EntriesGrow
    <3>7. RegistersAre(n + 1)'
      <4>1. recs' = recs
        OBVIOUS
      <4>2. /\ dbIndex' = DbOf(recs, n + 1) /\ expireMs' = ExpOf(recs, n + 1)
            /\ lru' = IdleOf(recs, n + 1) /\ lfu' = FreqOf(recs, n + 1)
        BY <1>1, <1>8, <1>11, <1>17, <3>3 DEF RegistersAre
      <4> QED BY <4>1, <4>2 DEF RegistersAre
    <3> QED BY <1>2, <1>5, <2>3, <3>5, <3>6, <3>7, CallsBack DEF x
  <2> QED BY <1>2, <2>2, <2>3
<1> QED BY <1>2, <1>16, <1>17

LEMMA ReadsEOF ==
    ASSUME Given, UNCHANGED <<corpus, recs, file>>, NEW n \in 0..Len(recs), At(n), ReadEOF
    PROVE  Ended(n)'
<1>1. /\ pos = End(n) + 1 /\ Has(End(n)) /\ Clear(n) /\ stopped = FALSE
      /\ EntriesOf(got) = Expected(recs, n)
  BY DEF At
<1>2. /\ AtRecord("opCodeEOF") /\ result' = "nil" /\ pos' = pos + 1 /\ UNCHANGED <<got, stopped>>
  BY DEF ReadEOF, Return
<1>3. ~(n < Len(recs))
  <2> SUFFICES ASSUME n < Len(recs)
               PROVE  FALSE
    OBVIOUS
  <2>1. OpOf(recs[n + 1]) = "opCodeEOF"
    BY <1>1, <1>2, AtRecordIs
  <2>2. IsRecord(recs[n + 1])
    BY <1>1, NextRecord
  <2> QED BY <2>1, <2>2, KindOf
<1>4. Readable = n
  BY <1>1, <1>3, ReadableIs DEF End
<1>5. pos \in Nat \ {0}
  <2>1. Len(recs) \in Nat
    BY RecordsAre DEF Records
  <2> QED BY <1>1, <1>3, <2>1, NoNextRecord
<1>6. ReadToEOF'
  <2>1. pos' > 1 /\ pos' - 1 = pos /\ file' = file
    BY <1>2, <1>5
  <2>2. file[pos] = Op("opCodeEOF")
    BY <1>2 DEF AtRecord
  <2> QED BY <2>1, <2>2 DEF ReadToEOF
<1>7. Readable' = Readable /\ recs' = recs
  BY Fixed
<1> QED BY <1>1, <1>2, <1>4, <1>6, <1>7 DEF Ended

LEMMA MeetsNoRecord ==
    ASSUME Given, UNCHANGED <<corpus, recs, file>>, NEW n \in 0..Len(recs), At(n), NoRecord
    PROVE  Ended(n)'
<1>1. pos = End(n) + 1
  BY DEF At
<1>2. Len(recs) \in Nat
  BY RecordsAre DEF Records
<1>3. /\ pos \in 1..Len(Whole(recs)) /\ pos \in Nat \ {0}
      /\ Whole(recs)[pos][1] \in {"op"}
      /\ n < Len(recs) => End(n + 1) \in Nat /\ pos <= End(n + 1)
  <2>1. CASE n < Len(recs)
    <3>1. /\ pos \in 1..Len(Whole(recs)) /\ pos \in Nat \ {0}
          /\ Whole(recs)[pos] = Op(OpOf(recs[n + 1]))
      BY <1>1, <2>1, NextRecord
    <3>2. End(n + 1) \in Nat /\ pos <= End(n + 1)
      BY <1>1, <2>1, NextRecord
    <3> QED BY <3>1, <3>2 DEF Op
  <2>2. CASE n >= Len(recs)
    <3>1. /\ pos \in 1..Len(Whole(recs)) /\ pos \in Nat \ {0}
          /\ Whole(recs)[pos] = Op("opCodeEOF")
      BY <1>1, <2>2, NoNextRecord
    <3> QED BY <1>2, <2>2, <3>1 DEF Op
  <2> QED BY <1>2, <2>1, <2>2
<1> DEFINE r == Take(pos, {"op"})
<1>4. r = IF Has(pos) THEN Done(pos + 1, Whole(recs)[pos][2]) ELSE Fail(pos, "error")
  BY <1>3, TakeIs
<1>5. r.st # "ok" /\ Return(r.st, pos)
  BY DEF NoRecord
<1> HIDE DEF r
<1>6. ~Has(pos) /\ r.st = "error"
  BY <1>4, <1>5 DEF Done, Fail
<1>7. result' = "error" /\ UNCHANGED <<got, stopped>>
  BY <1>5, <1>6 DEF Return
<1>8. n < Len(recs) => ~Has(End(n + 1))
  <2> SUFFICES ASSUME n < Len(recs), Has(End(n + 1))
               PROVE  FALSE
    OBVIOUS
  <2>1. pos \in 1..End(n + 1) /\ End(n + 1) \in Nat
    BY <1>3
  <2> QED BY <1>6, <2>1, FileIs, HasBefore
<1> QED BY <1>2, <1>6, <1>7, <1>8, Fails

LEMMA ReadsHeader ==
    ASSUME Given, UNCHANGED <<corpus, recs, file>>, Before, checkHeader
    PROVE  0 \in 0..Len(recs) /\ (At(0)' \/ Ended(0)')
<1>1. corpus.header \in Magics /\ Records(recs)
  BY RecordsAre
<1>2. 0 \in 0..Len(recs) /\ Len(recs) \in Nat
  BY <1>1 DEF Records
<1>3. Beginning(recs, 0) = << Magic(corpus.header) >>
  BY <1>1, BeginningNone
<1>4. End(0) = 1
  BY <1>3 DEF End
<1>5. Whole(recs)[1] = Magic(corpus.header) /\ 1 \in 1..Len(Whole(recs)) /\ Len(Whole(recs)) \in Nat
  <2>1. Starts(Whole(recs), Beginning(recs, 0)) /\ Len(Whole(recs)) \in Nat
    BY <1>1, <1>2, WholeIs, LenProperties
  <2>2. Len(Beginning(recs, 0)) = 1 /\ Beginning(recs, 0)[1] = Magic(corpus.header)
    BY <1>3
  <2> QED BY <2>1, <2>2 DEF Starts
<1> DEFINE m == Take(1, {"magic"})
<1>6. m = IF Has(1) THEN Done(2, corpus.header) ELSE Fail(1, "error")
  <2>1. Whole(recs)[1][1] \in {"magic"} /\ Whole(recs)[1][2] = corpus.header
    BY <1>5 DEF Magic
  <2> QED BY <1>5, <2>1, TakeIs
<1>7. /\ IF m.st # "ok" \/ m.val \notin Magics
         THEN Return("error", 1)
         ELSE /\ pos' = 2 /\ valkey' = (m.val = "VALKEY080")
              /\ UNCHANGED <<got, stopped, result>>
      /\ UNCHANGED registers
  BY DEF checkHeader
<1> HIDE DEF m
<1>8. IsSequence(<<>>) /\ EntriesOf(<<>>) = Expected(recs, 0)
  <2>1. <<>> \in Seq({})
    OBVIOUS
  <2> QED BY <2>1, EntriesNone, ExpectedNone DEF IsSequence
<1>9. CASE Has(1)
  <2>1. m.st = "ok" /\ m.val = corpus.header
    BY <1>6, <1>9 DEF Done
  <2>2. pos' = 2 /\ valkey' = (corpus.header = "VALKEY080") /\ UNCHANGED <<got, stopped, result>>
    BY <1>1, <1>7, <2>1
  <2>3. Clear(0)
    BY DEF Clear
  <2>4. /\ dbIndex' = DbOf(recs, 0) /\ expireMs' = ExpOf(recs, 0)
        /\ lru' = IdleOf(recs, 0) /\ lfu' = FreqOf(recs, 0)
    BY <1>7, RegistersNone DEF Before, registers
  <2>5. /\ IsSequence(got') /\ EntriesOf(got') = Expected(recs, 0)
        /\ result = "none" /\ stopped = FALSE /\ pos' = End(0) + 1
    BY <1>4, <1>8, <2>2 DEF Before
  <2> QED BY <1>2, <1>4, <1>9, <2>2, <2>3, <2>4, <2>5, AtNext
<1>10. CASE ~Has(1)
  <2>1. m.st = "error"
    BY <1>6, <1>10 DEF Fail
  <2>2. result' = "error" /\ UNCHANGED <<got, stopped>>
    BY <1>7, <2>1 DEF Return
  <2>3. Readable = 0
    BY <1>10, NothingReadable
  <2>4. file # Whole(recs)
    BY <1>5, <1>10 DEF Has
  <2>5. Readable' = Readable /\ Whole(recs)' = Whole(recs) /\ file' = file /\ recs' = recs
    BY Fixed
  <2> QED BY <1>2, <1>8, <2>2, <2>3, <2>4, <2>5 DEF Before, Ended
<1> QED BY <1>2, <1>9, <1>10

LEMMA PositionPastHeader == \A op : AtRecord(op) \/ NoRecord => pos # 1 /\ result = "none"
BY DEF AtRecord, NoRecord, Parsing

LEMMA RecordStarts == Record => \E op : AtRecord(op)
BY DEF Record, ReadEOF, SelectDB, ExpireTime, ExpireTimeMs, ResizeDB, Aux, Freq, Idle,
       ModuleAux, Function, SlotInfo, SlotImport, Object

(* From one record to the next, to the end, or out of the loop. *)
LEMMA ReadsOn ==
    ASSUME Given, ValuesRead, UNCHANGED <<corpus, recs, file>>, NEW n \in 0..Len(recs), At(n),
           NoRecord \/ Record
    PROVE  Progress'
<1> DEFINE Out == Ended(n)' \/ (n < Len(recs) /\ (At(n + 1)' \/ Ended(n)' \/ Left(n + 1)'))
<1>1. NoRecord \/ ReadEOF => Out
  BY ReadsEOF, MeetsNoRecord
<1>2. SelectDB \/ ExpireTime \/ ExpireTimeMs \/ Freq \/ Idle => Out
  BY SetsRegister
<1>3. ResizeDB \/ Aux \/ Function => Out
  BY ReadsResizeDB, ReadsAux, ReadsFunction
<1>4. ModuleAux \/ SlotInfo \/ SlotImport => Out
  BY ReadsModuleAux, ReadsSlots
<1>5. (\E flag \in TypeFlags : Object(flag)) => Out
  BY ReadsObject
<1>6. Out
  <2> HIDE DEF Out
  <2> QED BY <1>1, <1>2, <1>3, <1>4, <1>5 DEF Record
<1>7. n < Len(recs) => n + 1 \in 0..Len(recs)
  BY RecordsAre DEF Records
<1>8. recs' = recs
  OBVIOUS
<1> QED BY <1>6, <1>7, <1>8 DEF Progress

LEMMA StepsOn ==
    ASSUME DecInv, ValuesRead, [Next]_allVars
    PROVE  DecInv'
<1>1. CASE UNCHANGED allVars
  <2>1. UNCHANGED <<corpus, recs, file>> /\ UNCHANGED dvars
    BY <1>1 DEF allVars
  <2>2. Given'
    BY <2>1, Fixed DEF DecInv
  <2>3. ReadToEOF' <=> ReadToEOF
    BY <2>1 DEF ReadToEOF, dvars
  <2>4. Before' <=> Before
    BY <2>1 DEF Before, dvars
  <2>5. \A n \in 0..Len(recs) : At(n)' <=> At(n)
    BY <2>1, Fixed DEF At, dvars
  <2>6. \A n \in 0..Len(recs) : Ended(n)' <=> Ended(n)
    BY <2>1, <2>3, Fixed DEF Ended, dvars
  <2>7. \A n \in 0..Len(recs) : Left(n)' <=> Left(n)
    BY <2>1 DEF Left, dvars
  <2> QED BY <2>1, <2>2, <2>4, <2>5, <2>6, <2>7 DEF DecInv, Progress
<1>2. CASE Next
  <2>1. Given /\ Progress /\ UNCHANGED <<corpus, recs, file>> /\ (checkHeader \/ NoRecord \/ Record)
    BY <1>2 DEF DecInv, Next, DecoderNext
  <2>2. Given'
    BY <2>1, Fixed
  <2>3. result = "none"
    BY <1>2, StepWhileParsing
  <2>4. CASE Before
    <3>1. ~NoRecord /\ ~Record
      BY <2>4, PositionPastHeader, RecordStarts DEF Before
    <3>2. 0 \in 0..Len(recs) /\ (At(0)' \/ Ended(0)')
      BY <2>1, <2>4, <3>1, ReadsHeader
    <3>3. recs' = recs
      BY <2>1
    <3>4. Progress'
      BY <3>2, <3>3 DEF Progress
    <3> QED BY <2>2, <3>4 DEF DecInv
  <2>5. ASSUME NEW n \in 0..Len(recs), At(n)
        PROVE  DecInv'
    <3>1. ~checkHeader
      <4>1. pos = End(n) + 1 /\ End(n) \in Nat /\ End(n) >= 1
        BY <2>1, <2>5, RecordsAre, BeginningType DEF At, End
      <4> QED BY <4>1 DEF checkHeader
    <3>2. NoRecord \/ Record
      BY <2>1, <3>1
    <3>3. Progress'
      BY <2>1, <2>5, <3>2, ReadsOn
    <3> QED BY <2>2, <3>3 DEF DecInv
  <2>6. Before \/ \E n \in 0..Len(recs) : At(n)
    BY <2>1, <2>3 DEF Progress, Ended, Left
  <2> QED BY <2>4, <2>5, <2>6
<1> QED BY <1>1, <1>2

-----------------------------------------------------------------------------
(* What Parse delivers and how it ends. *)

LEMMA InvariantGives ==
    DecInv => OwnRegisters /\ NothingLost /\ result # "misread" /\ NoSilentTruncation
                /\ ValidFilesAreRead
<1> SUFFICES ASSUME DecInv
             PROVE  /\ OwnRegisters /\ NothingLost /\ result # "misread"
                    /\ NoSilentTruncation /\ ValidFilesAreRead
  OBVIOUS
<1>1. Delivered = EntriesOf(got)
  BY DeliveredIs
<1>2. 0 \in 0..Len(recs) /\ DOMAIN recs = 1..Len(recs)
  BY RecordsAre DEF DecInv, Records
<1>3. CASE Before
  <2>1. result = "none" /\ EntriesOf(got) = Expected(recs, 0)
    BY <1>3, EntriesNone, ExpectedNone DEF Before
  <2> QED BY <1>1, <1>2, <2>1 DEF OwnRegisters, NothingLost, NoSilentTruncation, ValidFilesAreRead
<1>4. ASSUME NEW n \in 0..Len(recs), At(n)
      PROVE  /\ OwnRegisters /\ NothingLost /\ result # "misread"
             /\ NoSilentTruncation /\ ValidFilesAreRead
  <2>1. result = "none" /\ EntriesOf(got) = Expected(recs, n)
    BY <1>4 DEF At
  <2> QED BY <1>1, <2>1 DEF OwnRegisters, NothingLost, NoSilentTruncation, ValidFilesAreRead
<1>5. ASSUME NEW n \in 0..Len(recs), Ended(n)
      PROVE  /\ OwnRegisters /\ NothingLost /\ result # "misread"
             /\ NoSilentTruncation /\ ValidFilesAreRead
  <2>1. /\ result \in {"nil", "error"} /\ Readable = n /\ EntriesOf(got) = Expected(recs, n)
        /\ result = "nil" => ReadToEOF \/ CutInHeader
        /\ result = "error" => file # Whole(recs) \/ ~Clear(Len(recs))
    BY <1>5 DEF Ended
  <2>2. OwnRegisters
    BY <1>1, <2>1 DEF OwnRegisters
  <2>3. NothingLost
    BY <1>1, <2>1 DEF NothingLost
  <2>4. NoSilentTruncation
    BY <2>1 DEF NoSilentTruncation
  <2>5. ValidFilesAreRead
    BY <1>2, <2>1 DEF ValidFilesAreRead, Clear
  <2> QED BY <2>1, <2>2, <2>3, <2>4, <2>5
<1>6. ASSUME NEW n \in 0..Len(recs), Left(n)
      PROVE  /\ OwnRegisters /\ NothingLost /\ result # "misread"
             /\ NoSilentTruncation /\ ValidFilesAreRead
  <2>1. result = "nil" /\ stopped /\ EntriesOf(got) = Expected(recs, n)
    BY <1>6 DEF Left
  <2> QED BY <1>1, <2>1 DEF OwnRegisters, NothingLost, NoSilentTruncation, ValidFilesAreRead
<1> QED BY <1>3, <1>4, <1>5, <1>6 DEF DecInv, Progress

LEMMA DecInvHolds == Spec /\ []ValuesRead => []DecInv
<1>1. Init => DecInv
  BY DEF Init, DecoderInit, Given, Before, Progress, DecInv
<1>2. DecInv /\ ValuesRead /\ [Next]_allVars => DecInv'
  BY StepsOn
<1> QED BY <1>1, <1>2, PTL DEF Spec

(* The registers of parse, from one object to the next: each object comes  *)
(* with the database selected last and with the prefixes written for it,   *)
(* whatever records stand between two objects and however many, provided   *)
(* that the readers of the single values consume what they should.         *)
THEOREM RegistersAreOwn == Spec /\ []ValuesRead => []OwnRegisters
BY DecInvHolds, InvariantGives, PTL

(* Every object that stands complete in the file before the first cut or   *)
(* foreign opcode reaches the callback, when Parse returns with an error   *)
(* as when it returns nil.                                                 *)
THEOREM NothingIsLost == Spec /\ []ValuesRead => []NothingLost
BY DecInvHolds, InvariantGives, PTL

(* Parse never takes a token for what it is not: the operands of each      *)
(* record are read or skipped with their right length.                     *)
THEOREM NeverMisreads == Spec /\ []ValuesRead => [](result # "misread")
BY DecInvHolds, InvariantGives, PTL

(* Parse returns nil only behind the EOF opcode, or for the callback, or   *)
(* where the file was cut inside the second operand of AUX or RESIZEDB.    *)
THEOREM TruncationIsReported == Spec /\ []ValuesRead => []NoSilentTruncation
BY DecInvHolds, InvariantGives, PTL

(* A complete file of records that the decoder supports is read to its     *)
(* end.                                                                    *)
THEOREM CompleteFilesAreRead == Spec /\ []ValuesRead => []ValidFilesAreRead
BY DecInvHolds, InvariantGives, PTL
=============================================================================
