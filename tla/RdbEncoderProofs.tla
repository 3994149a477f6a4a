--------------------------- MODULE RdbEncoderProofs ---------------------------
(***************************************************************************)
(* What holds of the Encoder for every set of keys, databases, objects and *)
(* thresholds, for any number of calls and of writer failures.             *)
(***************************************************************************)
EXTENDS RdbEncoder, SequenceTheorems, FiniteSetTheorems,
        WellFoundedInduction, TLAPS

-----------------------------------------------------------------------------
(* Induction, as the least of a set of numbers. *)

LEMMA LeastOf ==
    ASSUME NEW S \in SUBSET Nat, S # {}
    PROVE  \E m \in S : \A n \in S : m <= n
<1> DEFINE Less == {ss \in Nat \X Nat : ss[1] < ss[2]}
<1>1. IsWellFoundedOn(Less, Nat)
  BY NatLessThanWellFounded, Zenon DEF OpToRel
<1> HIDE DEF Less
<1>2. PICK x \in S : \A y \in S : ~(<<y, x>> \in Less)
  BY <1>1, WFMin
<1>3. \A y \in S : ~(y < x)
  BY <1>2 DEF Less
<1> QED BY <1>3

LEMMA UpTo ==
    ASSUME NEW S, NEW N \in Nat, 0 \in S,
           \A k \in 1..N : k - 1 \in S => k \in S
    PROVE  0..N \subseteq S
<1> SUFFICES ASSUME ~(0..N \subseteq S) PROVE FALSE
  OBVIOUS
<1>1. (0..N) \ S \in SUBSET Nat /\ (0..N) \ S # {}
  OBVIOUS
<1>2. PICK m \in (0..N) \ S : \A n \in (0..N) \ S : m <= n
  BY <1>1, LeastOf
<1>3. m # 0 /\ m \in 1..N /\ m - 1 \in 0..N /\ ~(m <= m - 1)
  BY <1>2
<1> QED BY <1>2, <1>3

-----------------------------------------------------------------------------
(* Statements that write neither an opcode nor a type flag (the bodies of  *)
(* the encodings), statements that write a type flag, and all those that   *)
(* neither write a database index nor the checksum.                        *)

BodyTokens ==
    ({"magic"} \X Magics) \cup ({"len"} \X Int) \cup ({"i64"} \X Int)
      \cup ({"f64"} \X Scores) \cup ({"int"} \X Strings)
      \cup ({"slen", "raw", "clen", "lzf"} \X Bytes) \cup {LzfMark}

BodyWrites == ({"write"} \X BodyTokens) \cup ({"str", "nan"} \X Bytes)

BodyInstrs == BodyWrites \cup ({"lzf"} \X Bytes \X (1..4))

FlagInstrs == {W(Op(f)) : f \in TypeFlags}

PlainTokens == ({"op"} \X (OpCodes \cup TypeFlags)) \cup BodyTokens

PlainInstrs ==
    {W(Op(o)) : o \in OpCodes} \cup FlagInstrs \cup BodyInstrs
      \cup ({"ttl"} \X TTLs) \cup ({"set"} \X States)

(* The statements of one object: its type flag, and a body.                *)
Encodings ==
    { q \in Seq(PlainInstrs) : /\ q # <<>>
                               /\ q[1] \in FlagInstrs
                               /\ \A i \in 2..Len(q) : q[i] \in BodyWrites }

LEMMA PlainTokensWritten == PlainTokens \subseteq WrittenTokens
BY DEF PlainTokens, BodyTokens, WrittenTokens

LEMMA PlainIsNoDB == \A t \in PlainTokens : t[1] # "db" /\ t[1] # "crc" /\ t # Torn
BY DEF PlainTokens, BodyTokens, LzfMark, Torn

(* The statements of the string methods write a body. *)
LEMMA StringWrites ==
    ASSUME NEW b \in Bytes
    PROVE  /\ writeSimpleString(b) \in Seq(BodyInstrs)
           /\ writeNanString(b) \subseteq Seq(BodyInstrs)
           /\ writeString(b) \subseteq Seq(BodyInstrs)
<1>1. W(StrHead(b)) \in BodyInstrs /\ W(StrBody(b)) \in BodyInstrs
  BY DEF W, StrHead, StrBody, BodyInstrs, BodyWrites, BodyTokens
<1>2. <<"lzf", b, 4>> \in BodyInstrs
  BY DEF BodyInstrs
<1>3. writeSimpleString(b) \in Seq(BodyInstrs)
  BY <1>1 DEF writeSimpleString
<1>4. writeLZFString(b) \in Seq(BodyInstrs)
  BY <1>2 DEF writeLZFString
<1>5. writeNanString(b) \subseteq Seq(BodyInstrs)
  BY <1>3, <1>4 DEF writeNanString
<1>6. ASSUME b[1] = "text", b[2] \in IntStrings
      PROVE  << W(IntStr(b[2])) >> \in Seq(BodyInstrs)
  <2>1. b[2] \in Strings
    BY <1>6, StringsAssumption
  <2>2. W(IntStr(b[2])) \in BodyInstrs
    BY <2>1 DEF W, IntStr, BodyInstrs, BodyWrites, BodyTokens
  <2> QED BY <2>2
<1>7. writeString(b) \subseteq Seq(BodyInstrs)
  BY <1>5, <1>6 DEF writeString
<1> QED BY <1>3, <1>5, <1>7

-----------------------------------------------------------------------------
(* The statements of the object encodings are plain. *)

LEMMA IntervalCardinality ==
    ASSUME NEW n \in Nat
    PROVE  Cardinality(0..n) = n + 1 /\ Cardinality(1..n) = n
BY FS_Interval, n + 1 \in Nat, SMT

LEMMA BodyStatements ==
    /\ \A n \in Int : W(Length(n)) \in BodyWrites /\ W(Int64(n)) \in BodyWrites
    /\ \A x \in Scores : W(Float64(x)) \in BodyWrites
    /\ \A s \in Strings : Str(s) \in BodyWrites
    /\ \A es \in Seq(Entries) : Nan(ZipList(es)) \in BodyWrites
    /\ \A S \in SUBSET Strings : Nan(IntSet(S)) \in BodyWrites
<1>2. \A n \in Int : W(Length(n)) \in BodyWrites /\ W(Int64(n)) \in BodyWrites
  BY DEF W, Length, Int64, BodyWrites, BodyTokens
<1>3. \A x \in Scores : W(Float64(x)) \in BodyWrites
  BY DEF W, Float64, BodyWrites, BodyTokens
<1>4. \A s \in Strings : Str(s) \in BodyWrites
  BY DEF Str, Text, BodyWrites, Bytes
<1>5. \A es \in Seq(Entries) : Nan(ZipList(es)) \in BodyWrites
  BY DEF Nan, ZipList, BodyWrites, Bytes
<1>6. \A S \in SUBSET Strings : Nan(IntSet(S)) \in BodyWrites
  BY DEF Nan, IntSet, BodyWrites, Bytes
<1> QED BY <1>2, <1>3, <1>4, <1>5, <1>6

(* A type flag and a body make an encoding. *)
LEMMA Encoded ==
    ASSUME NEW f \in FlagInstrs, NEW a \in BodyWrites, NEW b \in BodyWrites,
           NEW items \in Seq(BodyWrites)
    PROVE  /\ <<f, a, b>> \in Encodings
           /\ <<f, a, b>> \o items \in Encodings
           /\ \A c \in BodyWrites : <<f, a, b, c>> \o items \in Encodings
<1>1. BodyWrites \subseteq PlainInstrs /\ FlagInstrs \subseteq PlainInstrs
  BY DEF PlainInstrs, BodyInstrs
<1>2. ASSUME NEW q \in Seq(PlainInstrs), q # <<>>, q[1] = f,
             \A i \in 2..Len(q) : q[i] \in BodyWrites
      PROVE  q \in Encodings /\ q \o items \in Encodings
  <2>1. q \in Encodings
    BY <1>2 DEF Encodings
  <2>2. Len(q) \in Nat \ {0} /\ Len(items) \in Nat /\ items \in Seq(PlainInstrs)
    BY <1>1, <1>2, EmptySeq
  <2>3. /\ q \o items \in Seq(PlainInstrs)
        /\ Len(q \o items) = Len(q) + Len(items)
        /\ \A i \in 1..Len(q) : (q \o items)[i] = q[i]
        /\ \A i \in 1..Len(items) : (q \o items)[Len(q) + i] = items[i]
    BY <2>2, ConcatProperties
  <2>4. \A i \in 2..Len(q \o items) : (q \o items)[i] \in BodyWrites
    <3> SUFFICES ASSUME NEW i \in 2..Len(q \o items)
                 PROVE  (q \o items)[i] \in BodyWrites
      OBVIOUS
    <3>1. CASE i \in 1..Len(q)
      BY <1>2, <2>2, <2>3, <3>1
    <3>2. CASE i \notin 1..Len(q)
      <4>1. i - Len(q) \in 1..Len(items) /\ i = Len(q) + (i - Len(q))
        BY <2>2, <2>3, <3>2
      <4> QED BY <2>3, <4>1
    <3> QED BY <3>1, <3>2
  <2>5. q \o items # <<>> /\ (q \o items)[1] = f
    BY <1>2, <2>2, <2>3
  <2> QED BY <2>1, <2>3, <2>4, <2>5 DEF Encodings
<1>3. <<f, a, b>> \in Encodings /\ <<f, a, b>> \o items \in Encodings
  <2> DEFINE q == <<f, a, b>>
  <2>1. q \in Seq(PlainInstrs) /\ q # <<>> /\ q[1] = f /\ \A i \in 2..Len(q) : q[i] \in BodyWrites
    BY <1>1
  <2> HIDE DEF q
  <2>2. q \in Encodings /\ q \o items \in Encodings
    BY <1>2, <2>1
  <2> QED BY <2>2 DEF q
<1>4. ASSUME NEW c \in BodyWrites
      PROVE  <<f, a, b, c>> \o items \in Encodings
  <2> DEFINE q == <<f, a, b, c>>
  <2>1. q \in Seq(PlainInstrs) /\ q # <<>> /\ q[1] = f /\ \A i \in 2..Len(q) : q[i] \in BodyWrites
    BY <1>1
  <2> HIDE DEF q
  <2>2. q \o items \in Encodings
    BY <1>2, <2>1
  <2> QED BY <2>2 DEF q
<1> QED BY <1>3, <1>4

LEMMA FunctionIsSeq ==
    ASSUME NEW S, NEW n \in Nat, NEW f \in [1..n -> S]
    PROVE  f \in Seq(S)
OBVIOUS

LEMMA TextsType ==
    ASSUME NEW vs \in Seq(Strings)
    PROVE  Texts(vs) \in Seq(Entries) /\ Strs(vs) \in Seq(BodyWrites)
<1>1. Texts(vs) \in [1..Len(vs) -> Entries]
  BY DEF Texts, Text, Entries
<1>2. Strs(vs) \in [1..Len(vs) -> BodyWrites]
  BY BodyStatements DEF Strs
<1> QED BY <1>1, <1>2, FunctionIsSeq, Len(vs) \in Nat

(* What writeQuickList writes when its pages end at cut. *)
QuickWrites(key, vs, cut) ==
    LET n == Cardinality(DOMAIN cut) - 1
    IN  << W(Op("typeListQuickList")), Str(key), W(Length(n)) >>
          \o [ k \in 1..n |-> Nan(ZipList(Texts(SubSeq(vs, cut[k-1] + 1, cut[k])))) ]

LEMMA QuickListWrites ==
    ASSUME NEW key, NEW vs
    PROVE  writeQuickList(key, vs) = {QuickWrites(key, vs, cut) : cut \in Pagings(vs)}
BY DEF writeQuickList, QuickWrites

LEMMA PagingFacts ==
    ASSUME NEW vs, NEW cut \in Pagings(vs)
    PROVE  /\ cut[0] = 0
           /\ cut[Cardinality(DOMAIN cut) - 1] = Len(vs)
           /\ \A i \in 1..(Cardinality(DOMAIN cut) - 1) : cut[i - 1] < cut[i]
BY DEF Pagings

LEMMA ListWrites ==
    ASSUME NEW key \in Strings, NEW vs \in Seq(Strings)
    PROVE  WriteListObject(key, vs) \subseteq Encodings
<1>1. << W(Op("typeListZipList")), Str(key), Nan(ZipList(Texts(vs))) >> \in Encodings
  <2>1. W(Op("typeListZipList")) \in FlagInstrs
    BY DEF FlagInstrs, TypeFlags
  <2>2. Str(key) \in BodyWrites /\ Nan(ZipList(Texts(vs))) \in BodyWrites
    BY BodyStatements, TextsType
  <2> QED BY <2>1, <2>2, Encoded, <<>> \in Seq(BodyWrites)
<1>2. writeQuickList(key, vs) \subseteq Encodings
  <2> SUFFICES ASSUME NEW cut \in Pagings(vs)
               PROVE  LET n == Cardinality(DOMAIN cut) - 1
                      IN  << W(Op("typeListQuickList")), Str(key), W(Length(n)) >>
                            \o [ k \in 1..n |-> Nan(ZipList(Texts(SubSeq(vs, cut[k-1] + 1, cut[k])))) ]
                          \in Encodings
    BY DEF writeQuickList
  <2>1. PICK n \in 0..Len(vs) : cut \in [0..n -> 0..Len(vs)]
    BY DEF Pagings
  <2>2. n \in Nat /\ Cardinality(DOMAIN cut) - 1 = n
    BY <2>1, IntervalCardinality
  <2>3. W(Op("typeListQuickList")) \in FlagInstrs
    BY DEF FlagInstrs, TypeFlags
  <2>6. Str(key) \in BodyWrites /\ W(Length(n)) \in BodyWrites
    BY <2>2, BodyStatements
  <2>4. ASSUME NEW k \in 1..n
        PROVE  Nan(ZipList(Texts(SubSeq(vs, cut[k-1] + 1, cut[k])))) \in BodyWrites
    <3>1. cut[k-1] + 1 \in 1..(Len(vs) + 1) /\ cut[k] \in 0..Len(vs)
      BY <2>1, <2>2
    <3>2. SubSeq(vs, cut[k-1] + 1, cut[k]) \in Seq(Strings)
      <4>1. \A i \in (cut[k-1] + 1)..cut[k] : vs[i] \in Strings
        BY <3>1
      <4> QED BY <3>1, <4>1, SubSeqProperties
    <3> QED BY <3>2, TextsType, BodyStatements
  <2>5. [ k \in 1..n |-> Nan(ZipList(Texts(SubSeq(vs, cut[k-1] + 1, cut[k])))) ] \in Seq(BodyWrites)
    <3> DEFINE f == [ k \in 1..n |-> Nan(ZipList(Texts(SubSeq(vs, cut[k-1] + 1, cut[k])))) ]
    <3>1. f \in [1..n -> BodyWrites]
      BY <2>4
    <3> HIDE DEF f
    <3>2. f \in Seq(BodyWrites)
      BY <2>2, <3>1, FunctionIsSeq
    <3> QED BY <3>2 DEF f
  <2> QED BY <2>2, <2>3, <2>5, <2>6, Encoded
<1> QED BY <1>1, <1>2 DEF WriteListObject

LEMMA SetWrites ==
    ASSUME NEW key \in Strings, NEW vs \in Seq(Strings)
    PROVE  WriteSetObject(key, vs) \subseteq Encodings
<1> DEFINE elems == {vs[i] : i \in DOMAIN vs}
<1>1. elems \in SUBSET Strings
  OBVIOUS
<1>2. << W(Op("typeSetIntSet")), Str(key), Nan(IntSet(elems)) >> \in Encodings
  <2>1. W(Op("typeSetIntSet")) \in FlagInstrs
    BY DEF FlagInstrs, TypeFlags
  <2>2. Str(key) \in BodyWrites /\ Nan(IntSet(elems)) \in BodyWrites
    BY <1>1, BodyStatements
  <2> QED BY <2>1, <2>2, Encoded, <<>> \in Seq(BodyWrites)
<1>3. << W(Op("typeSet")), Str(key), W(Length(Len(vs))) >> \o Strs(vs) \in Encodings
  <2>1. W(Op("typeSet")) \in FlagInstrs
    BY DEF FlagInstrs, TypeFlags
  <2>2. Str(key) \in BodyWrites /\ W(Length(Len(vs))) \in BodyWrites
    BY BodyStatements
  <2> QED BY <2>1, <2>2, TextsType, Encoded
<1> QED BY <1>2, <1>3 DEF WriteSetObject

(* Which of the two or three parts of an item the i-th statement is. *)
LEMMA ItemIndex ==
    ASSUME NEW n \in Nat
    PROVE  /\ \A i \in 1..2*n : /\ i % 2 = 1 => (i + 1) \div 2 \in 1..n
                                /\ i % 2 # 1 => i \div 2 \in 1..n
           /\ \A i \in 1..3*n : (i + 2) \div 3 \in 1..n
OBVIOUS

LEMMA ZSetWrites ==
    ASSUME NEW key \in Strings, NEW es \in Seq(Strings \X Scores)
    PROVE  WriteZSetObject(key, es) \subseteq Encodings
<1> DEFINE n == Len(es)
<1> DEFINE compact == [ i \in 1..2*n |-> IF i % 2 = 1 THEN Text(es[(i + 1) \div 2][1])
                                                     ELSE ScoreText(es[i \div 2][2]) ]
<1> DEFINE items == [ i \in 1..2*n |-> IF i % 2 = 1 THEN Str(es[(i + 1) \div 2][1])
                                                   ELSE W(Float64(es[i \div 2][2])) ]
<1>1. n \in Nat /\ 2*n \in Nat /\ \A j \in 1..n : es[j][1] \in Strings /\ es[j][2] \in Scores
  OBVIOUS
<1>2. compact \in Seq(Entries)
  <2>1. \A j \in 1..n : Text(es[j][1]) \in Entries /\ ScoreText(es[j][2]) \in Entries
    BY <1>1 DEF Text, ScoreText, Entries
  <2>2. compact \in [1..2*n -> Entries]
    BY <1>1, <2>1, ItemIndex
  <2> QED BY <1>1, <2>2, FunctionIsSeq
<1>3. items \in Seq(BodyWrites)
  <2>1. \A j \in 1..n : Str(es[j][1]) \in BodyWrites /\ W(Float64(es[j][2])) \in BodyWrites
    BY <1>1, BodyStatements
  <2>2. items \in [1..2*n -> BodyWrites]
    BY <1>1, <2>1, ItemIndex
  <2> QED BY <1>1, <2>2, FunctionIsSeq
<1>4. /\ W(Op("typeZsetZipList")) \in FlagInstrs
      /\ W(Op("typeZset2")) \in FlagInstrs
  BY DEF FlagInstrs, TypeFlags
<1> HIDE DEF compact, items
<1>5. /\ Str(key) \in BodyWrites
      /\ W(Length(n)) \in BodyWrites
      /\ Nan(ZipList(compact)) \in BodyWrites
  BY <1>1, <1>2, BodyStatements
<1>6. << W(Op("typeZsetZipList")), Str(key), Nan(ZipList(compact)) >> \in Encodings
  BY <1>4, <1>5, Encoded, <<>> \in Seq(BodyWrites)
<1>7. << W(Op("typeZset2")), Str(key), W(Length(n)) >> \o items \in Encodings
  BY <1>3, <1>4, <1>5, Encoded
<1> QED BY <1>6, <1>7 DEF WriteZSetObject, compact, items

(* An order of the fields of a hash is a sequence of them. *)
LEMMA OrdersType ==
    ASSUME NEW F \in SUBSET Strings, NEW fs \in Orders(F)
    PROVE  fs \in Seq(F) /\ Len(fs) \in Nat /\ \A j \in 1..Len(fs) : fs[j] \in F
<1>1. Cardinality(F) \in Nat
  BY EncoderAssumption, FS_Subset, FS_CardinalityType
<1>2. fs \in [1..Cardinality(F) -> F]
  BY DEF Orders
<1>3. fs \in Seq(F)
  BY <1>1, <1>2, FunctionIsSeq
<1> QED BY <1>3

(* What the three methods for hashes write for one order of the fields. *)
HashStatements(key, h, fs) ==
    LET n == Len(fs)
        Item(i) == IF i % 2 = 1 THEN fs[(i + 1) \div 2] ELSE h[fs[i \div 2]]
    IN  IF Compact(n, {h[f] : f \in DOMAIN h})
        THEN << W(Op("typeHashZipList")), Str(key),
                Nan(ZipList([ i \in 1..2*n |-> Text(Item(i)) ])) >>
        ELSE << W(Op("typeHash")), Str(key), W(Length(n)) >>
               \o [ i \in 1..2*n |-> Str(Item(i)) ]

HashExStatements(key, h, e, fs) ==
    LET n == Len(fs)
        Ttl(f) == IF e[f] = 0 THEN 0 ELSE e[f] - MinExpire(e) + 1
    IN  << W(Op("typeHashWithHfe")), Str(key), W(Int64(MinExpire(e))), W(Length(n)) >>
          \o [ i \in 1..3*n |->
                 LET f == fs[(i + 2) \div 3] IN
                 CASE i % 3 = 1 -> W(Length(Ttl(f)))
                   [] i % 3 = 2 -> Str(f)
                   [] OTHER     -> Str(h[f]) ]

Hash2Statements(key, h, e, fs) ==
    LET n == Len(fs)
    IN  << W(Op(typeHash2)), Str(key), W(Length(n)) >>
          \o [ i \in 1..3*n |->
                 LET f == fs[(i + 2) \div 3] IN
                 CASE i % 3 = 1 -> Str(f)
                   [] i % 3 = 2 -> Str(h[f])
                   [] OTHER     -> W(Int64(IF e[f] = 0 THEN -1 ELSE e[f])) ]

LEMMA HashOrders ==
    ASSUME NEW key, NEW F, NEW h \in [F -> Strings], NEW ws \in WriteHashMapObject(key, h)
    PROVE  \E fs \in Orders(F) : ws = HashStatements(key, h, fs)
BY DEF WriteHashMapObject, HashStatements

LEMMA HashExOrders ==
    ASSUME NEW key, NEW F, NEW h \in [F -> Strings], NEW e,
           NEW ws \in writeHashEncodingEx(key, h, e)
    PROVE  \E fs \in Orders(F) : ws = HashExStatements(key, h, e, fs)
BY DEF writeHashEncodingEx, HashExStatements

LEMMA Hash2Orders ==
    ASSUME NEW key, NEW F, NEW h \in [F -> Strings], NEW e,
           NEW ws \in writeHash2Encoding(key, h, e)
    PROVE  \E fs \in Orders(F) : ws = Hash2Statements(key, h, e, fs)
BY DEF writeHash2Encoding, Hash2Statements

(* An order of the fields of a hash lists each of them once. *)

Listed(fs, n, F) ==
    /\ n \in Nat /\ Len(fs) = n /\ fs \in [1..n -> F]
    /\ \A f \in F : \E i \in 1..n : fs[i] = f
    /\ \A i, j \in 1..n : fs[i] = fs[j] => i = j

LEMMA OrdersList ==
    ASSUME NEW F \in SUBSET Strings, NEW fs \in Orders(F)
    PROVE  Listed(fs, Len(fs), F) /\ Len(fs) = Cardinality(F)
<1> DEFINE n == Cardinality(F)
<1>1. IsFiniteSet(F) /\ n \in Nat
  BY EncoderAssumption, FS_Subset, FS_CardinalityType
<1>2. fs \in [1..n -> F] /\ \A i, j \in 1..n : fs[i] = fs[j] => i = j
  BY DEF Orders
<1> HIDE DEF n
<1>3. Len(fs) = n
  BY <1>1, <1>2
<1> DEFINE T == {fs[i] : i \in 1..n}
<1>4. T \in SUBSET F
  BY <1>2
<1>5. fs \in [1..n -> T]
  BY <1>2
<1> HIDE DEF T
<1>6. IsFiniteSet(T) /\ Cardinality(T) <= n /\ Cardinality(T) \in Nat /\ (n = Cardinality(T) => F = T)
  BY <1>1, <1>4, FS_Subset, FS_CardinalityType DEF n
<1>7. IsFiniteSet(1..n) /\ Cardinality(1..n) = n
  <2> DEFINE a == 1
  <2>1. a \in Int /\ n \in Int
    BY <1>1
  <2> HIDE DEF a
  <2>2. IsFiniteSet(a..n) /\ Cardinality(a..n) = IF a > n THEN 0 ELSE n-a+1
    BY <2>1, FS_Interval
  <2> QED BY <1>1, <2>2 DEF a
<1>8. ~(Cardinality(T) < n)
  <2> DEFINE S == 1..n
  <2>1. /\ IsFiniteSet(S) /\ Cardinality(S) = n /\ fs \in [S -> T]
        /\ ~ \E i, j \in S : i # j /\ fs[i] = fs[j]
    BY <1>2, <1>5, <1>7
  <2> HIDE DEF S
  <2> SUFFICES ASSUME Cardinality(T) < Cardinality(S) PROVE FALSE
    BY <2>1
  <2> QED BY <1>6, <2>1, FS_PigeonHole
<1>9. F = T
  BY <1>1, <1>6, <1>8
<1>10. \A f \in F : \E i \in 1..n : fs[i] = f
  BY <1>9 DEF T
<1>11. Listed(fs, n, F)
  BY <1>1, <1>2, <1>3, <1>10 DEF Listed
<1> QED BY <1>3, <1>11 DEF n

LEMMA HashWrites ==
    ASSUME NEW key \in Strings, NEW F \in SUBSET Strings, NEW h \in [F -> Strings]
    PROVE  WriteHashMapObject(key, h) \subseteq Encodings
<1> SUFFICES ASSUME NEW fs \in Orders(F)
             PROVE  LET n == Len(fs)
                        Item(i) == IF i % 2 = 1 THEN fs[(i + 1) \div 2] ELSE h[fs[i \div 2]]
                    IN  /\ << W(Op("typeHashZipList")), Str(key),
                              Nan(ZipList([ i \in 1..2*n |-> Text(Item(i)) ])) >> \in Encodings
                        /\ << W(Op("typeHash")), Str(key), W(Length(n)) >>
                              \o [ i \in 1..2*n |-> Str(Item(i)) ] \in Encodings
  BY DEF WriteHashMapObject
<1> DEFINE n == Len(fs)
<1> DEFINE Item(i) == IF i % 2 = 1 THEN fs[(i + 1) \div 2] ELSE h[fs[i \div 2]]
<1> DEFINE compact == [ i \in 1..2*n |-> Text(Item(i)) ]
<1> DEFINE items == [ i \in 1..2*n |-> Str(Item(i)) ]
<1>1. n \in Nat /\ 2*n \in Nat /\ \A i \in 1..2*n : Item(i) \in Strings
  BY OrdersType, ItemIndex
<1> HIDE DEF n, Item
<1>2. compact \in Seq(Entries)
  <2>1. compact \in [1..2*n -> Entries]
    BY <1>1 DEF Text, Entries
  <2> QED BY <1>1, <2>1, FunctionIsSeq
<1>3. items \in Seq(BodyWrites)
  <2>1. items \in [1..2*n -> BodyWrites]
    BY <1>1, BodyStatements
  <2> QED BY <1>1, <2>1, FunctionIsSeq
<1> HIDE DEF compact, items
<1>4. /\ W(Op("typeHashZipList")) \in FlagInstrs
      /\ W(Op("typeHash")) \in FlagInstrs
  BY DEF FlagInstrs, TypeFlags
<1>5. /\ Str(key) \in BodyWrites
      /\ W(Length(n)) \in BodyWrites
      /\ Nan(ZipList(compact)) \in BodyWrites
  BY <1>1, <1>2, BodyStatements
<1>6. << W(Op("typeHashZipList")), Str(key), Nan(ZipList(compact)) >> \in Encodings
  BY <1>4, <1>5, Encoded, <<>> \in Seq(BodyWrites)
<1>7. << W(Op("typeHash")), Str(key), W(Length(n)) >> \o items \in Encodings
  BY <1>3, <1>4, <1>5, Encoded
<1> QED BY <1>6, <1>7 DEF compact, items, n, Item

(* A nonempty set of positive numbers has a least one, so that the CHOOSE  *)
(* of MinExpire names a number.                                            *)
LEMMA MinExpireType ==
    ASSUME NEW F, NEW e \in [F -> Int]
    PROVE  MinExpire(e) \in Int
<1> DEFINE live == {e[f] : f \in DOMAIN e} \cap 1..(EbInvalid - 1)
<1>1. live \subseteq Nat
  BY StringsAssumption
<1>3. live # {} => \E m \in live : \A x \in live : m <= x
  <2> HIDE DEF live
  <2> QED BY <1>1, LeastOf
<1> QED BY <1>1, <1>3 DEF MinExpire

(* The encodings with field expirations: three statements for each field. *)
LEMMA HashExWrites ==
    ASSUME NEW key \in Strings, NEW F \in SUBSET Strings,
           NEW h \in [F -> Strings], NEW e \in [F -> Int]
    PROVE  writeHashEncodingEx(key, h, e) \subseteq Encodings
<1> SUFFICES ASSUME NEW fs \in Orders(F)
             PROVE  LET n == Len(fs)
                        Ttl(f) == IF e[f] = 0 THEN 0 ELSE e[f] - MinExpire(e) + 1
                    IN  << W(Op("typeHashWithHfe")), Str(key), W(Int64(MinExpire(e))), W(Length(n)) >>
                          \o [ i \in 1..3*n |->
                                 LET f == fs[(i + 2) \div 3] IN
                                 CASE i % 3 = 1 -> W(Length(Ttl(f)))
                                   [] i % 3 = 2 -> Str(f)
                                   [] OTHER     -> Str(h[f]) ] \in Encodings
  BY DEF writeHashEncodingEx
<1> DEFINE n == Len(fs)
<1> DEFINE Ttl(f) == IF e[f] = 0 THEN 0 ELSE e[f] - MinExpire(e) + 1
<1> DEFINE items == [ i \in 1..3*n |->
                        LET f == fs[(i + 2) \div 3] IN
                        CASE i % 3 = 1 -> W(Length(Ttl(f)))
                          [] i % 3 = 2 -> Str(f)
                          [] OTHER     -> Str(h[f]) ]
<1>1. n \in Nat /\ 3*n \in Nat /\ \A i \in 1..3*n : fs[(i + 2) \div 3] \in F
  BY OrdersType, ItemIndex
<1>2. \A f \in F : /\ W(Length(Ttl(f))) \in BodyWrites
                   /\ Str(f) \in BodyWrites
                   /\ Str(h[f]) \in BodyWrites
  <2> SUFFICES ASSUME NEW f \in F
               PROVE  /\ W(Length(Ttl(f))) \in BodyWrites
                      /\ Str(f) \in BodyWrites
                      /\ Str(h[f]) \in BodyWrites
    OBVIOUS
  <2>1. Ttl(f) \in Int
    BY MinExpireType
  <2> HIDE DEF Ttl
  <2>2. f \in Strings /\ h[f] \in Strings
    OBVIOUS
  <2> QED BY <2>1, <2>2, BodyStatements
<1>3. items \in Seq(BodyWrites)
  <2> HIDE DEF n, Ttl
  <2>1. items \in [1..3*n -> BodyWrites]
    BY <1>1, <1>2
  <2> QED BY <1>1, <2>1, FunctionIsSeq
<1>4. W(Op("typeHashWithHfe")) \in FlagInstrs
  BY DEF FlagInstrs, TypeFlags
<1>5. Str(key) \in BodyWrites /\ W(Int64(MinExpire(e))) \in BodyWrites /\ W(Length(n)) \in BodyWrites
  BY <1>1, MinExpireType, BodyStatements
<1> HIDE DEF items
<1>7. << W(Op("typeHashWithHfe")), Str(key), W(Int64(MinExpire(e))), W(Length(n)) >> \o items
        \in Encodings
  BY <1>3, <1>4, <1>5, Encoded
<1> QED BY <1>7 DEF items

LEMMA Hash2Writes ==
    ASSUME NEW key \in Strings, NEW F \in SUBSET Strings,
           NEW h \in [F -> Strings], NEW e \in [F -> Int]
    PROVE  writeHash2Encoding(key, h, e) \subseteq Encodings
<1> SUFFICES ASSUME NEW fs \in Orders(F)
             PROVE  LET n == Len(fs)
                    IN  << W(Op(typeHash2)), Str(key), W(Length(n)) >>
                          \o [ i \in 1..3*n |->
                                 LET f == fs[(i + 2) \div 3] IN
                                 CASE i % 3 = 1 -> Str(f)
                                   [] i % 3 = 2 -> Str(h[f])
                                   [] OTHER     -> W(Int64(IF e[f] = 0 THEN -1 ELSE e[f])) ]
                        \in Encodings
  BY DEF writeHash2Encoding
<1> DEFINE n == Len(fs)
<1> DEFINE items == [ i \in 1..3*n |->
                        LET f == fs[(i + 2) \div 3] IN
                        CASE i % 3 = 1 -> Str(f)
                          [] i % 3 = 2 -> Str(h[f])
                          [] OTHER     -> W(Int64(IF e[f] = 0 THEN -1 ELSE e[f])) ]
<1>1. n \in Nat /\ 3*n \in Nat /\ \A i \in 1..3*n : fs[(i + 2) \div 3] \in F
  BY OrdersType, ItemIndex
<1>2. \A f \in F : /\ Str(f) \in BodyWrites
                   /\ Str(h[f]) \in BodyWrites
                   /\ W(Int64(IF e[f] = 0 THEN -1 ELSE e[f])) \in BodyWrites
  BY BodyStatements
<1>3. items \in Seq(BodyWrites)
  <2> HIDE DEF n
  <2>1. items \in [1..3*n -> BodyWrites]
    BY <1>1, <1>2
  <2> QED BY <1>1, <2>1, FunctionIsSeq
<1>4. W(Op(typeHash2)) \in FlagInstrs
  BY DEF FlagInstrs, TypeFlags, typeHash2
<1>5. Str(key) \in BodyWrites /\ W(Length(n)) \in BodyWrites
  BY <1>1, BodyStatements
<1> HIDE DEF items
<1>7. << W(Op(typeHash2)), Str(key), W(Length(n)) >> \o items \in Encodings
  BY <1>3, <1>4, <1>5, Encoded
<1> QED BY <1>7 DEF items

LEMMA ObjectWritesType ==
    ASSUME NEW key \in Keys, NEW o \in Objects
    PROVE  ObjectWrites(key, o) \subseteq Encodings
<1>1. key \in Strings /\ IsObject(o)
  BY EncoderAssumption
<1>2. CASE o \in {"string"} \X Strings
  <2>1. << W(Op("typeString")), Str(key), Str(o[2]) >> \in Encodings
    <3>1. W(Op("typeString")) \in FlagInstrs
      BY DEF FlagInstrs, TypeFlags
    <3> QED BY <1>1, <1>2, <3>1, BodyStatements, Encoded, <<>> \in Seq(BodyWrites)
  <2> QED BY <1>2, <2>1 DEF ObjectWrites
<1>3. CASE o \in {"list", "set"} \X Seq(Strings)
  BY <1>1, <1>3, ListWrites, SetWrites DEF ObjectWrites
<1>4. CASE o \in {"zset"} \X Seq(Strings \X Scores)
  BY <1>1, <1>4, ZSetWrites DEF ObjectWrites
<1>5. ASSUME NEW F \in SUBSET Strings,
             o \in {"hash", "hashex"} \X ([F -> Strings] \X [F -> Int])
      PROVE  ObjectWrites(key, o) \subseteq Encodings
  <2>1. o[2][1] \in [F -> Strings] /\ o[2][2] \in [F -> Int] /\ o[1] \in {"hash", "hashex"}
    BY <1>5
  <2>2. WriteHashMapObject(key, o[2][1]) \subseteq Encodings
    BY <1>1, <2>1, HashWrites
  <2>3. WriteHashMapObjectEx(key, o[2][1], o[2][2]) \subseteq Encodings
    BY <1>1, <2>1, HashExWrites, Hash2Writes DEF WriteHashMapObjectEx
  <2> QED BY <2>1, <2>2, <2>3 DEF ObjectWrites
<1> QED BY <1>1, <1>2, <1>3, <1>4, <1>5 DEF IsObject

-----------------------------------------------------------------------------
(* The rest of a call: plain statements that end with the new state, or    *)
(* what is left of WriteDBHeader or WriteEnd before the index or the       *)
(* checksum is written.                                                    *)

DBRest(d) == << W(DbIndex(d)), W(Op("opCodeResizeDB")), W(Length(0)), W(Length(0)),
                <<"set", "WrittenDBHeader">> >>
DBCall(d) == << W(Op("opCodeSelectDB")), W(DbIndex(d)),
                W(Op("opCodeResizeDB")), W(Length(0)), W(Length(0)),
                <<"set", "WrittenDBHeader">> >>
EndRest   == << <<"sum">>, <<"set", "WritingEnd">> >>
EndCall   == << W(Op("opCodeEOF")), <<"sum">>, <<"set", "WritingEnd">> >>

PlainSeq(q) == /\ q \in Seq(PlainInstrs)
               /\ q # <<>> => q[Len(q)][1] = "set"

Selecting(d) == todo \in {DBCall(d), DBRest(d)}
Ending       == todo \in {EndCall, EndRest}

TodoShape == \/ PlainSeq(todo)
             \/ \E d \in existDB : Selecting(d)
             \/ Ending

CallOK == call[1] = "db" => call[2] \in DBs

TypeInv == TypeOK /\ TodoShape /\ CallOK

LEMMA PlainStatements ==
    /\ \A o \in OpCodes : W(Op(o)) \in PlainInstrs
    /\ \A n \in Int : W(Length(n)) \in PlainInstrs /\ W(Int64(n)) \in PlainInstrs
    /\ \A s \in Strings : Str(s) \in PlainInstrs
    /\ \A m \in Magics : W(Magic(m)) \in PlainInstrs
    /\ \A s \in States : <<"set", s>> \in PlainInstrs
    /\ BodyInstrs \subseteq PlainInstrs
<1>1. \A m \in Magics : W(Magic(m)) \in BodyInstrs
  BY DEF W, Magic, BodyInstrs, BodyWrites, BodyTokens
<1>2. \A s \in States : <<"set", s>> \in PlainInstrs
  BY DEF PlainInstrs
<1>3. /\ BodyWrites \subseteq BodyInstrs /\ BodyInstrs \subseteq PlainInstrs
      /\ \A o \in OpCodes : W(Op(o)) \in PlainInstrs
  BY DEF PlainInstrs, BodyInstrs
<1> QED BY <1>1, <1>2, <1>3, BodyStatements

LEMMA PlainTail ==
    ASSUME NEW q, PlainSeq(q), q # <<>>
    PROVE  /\ Head(q) \in PlainInstrs
           /\ PlainSeq(Tail(q))
           /\ Head(q)[1] # "set" => Tail(q) # <<>>
<1>1. Head(q) = q[1] /\ Head(q) \in PlainInstrs
  BY DEF PlainSeq
<1>2. /\ Tail(q) \in Seq(PlainInstrs)
      /\ Len(Tail(q)) = Len(q) - 1
      /\ \A i \in 1..Len(Tail(q)) : Tail(q)[i] = q[i+1]
  BY HeadTailProperties DEF PlainSeq
<1>3. Len(q) \in Nat \ {0}
  BY EmptySeq DEF PlainSeq
<1>4. Tail(q) = <<>> => Head(q)[1] = "set"
  BY <1>1, <1>2, <1>3 DEF PlainSeq
<1>5. Tail(q) # <<>> => Tail(q)[Len(Tail(q))] = q[Len(q)]
  BY <1>2, <1>3
<1> QED BY <1>1, <1>2, <1>4, <1>5 DEF PlainSeq

LEMMA PlainConcat ==
    ASSUME NEW p \in Seq(PlainInstrs), NEW q, PlainSeq(q), q # <<>>
    PROVE  PlainSeq(p \o q) /\ p \o q # <<>>
<1>1. Len(q) \in Nat \ {0} /\ Len(p) \in Nat
  BY EmptySeq DEF PlainSeq
<1>2. /\ p \o q \in Seq(PlainInstrs)
      /\ Len(p \o q) = Len(p) + Len(q)
      /\ (p \o q)[Len(p) + Len(q)] = q[Len(q)]
  BY <1>1, ConcatProperties DEF PlainSeq
<1> QED BY <1>1, <1>2 DEF PlainSeq

LEMMA DBCallShape ==
    ASSUME NEW d \in Nat
    PROVE  /\ DBCall(d) # <<>> /\ DBRest(d) # <<>>
           /\ Head(DBCall(d)) = W(Op("opCodeSelectDB")) /\ Tail(DBCall(d)) = DBRest(d)
           /\ Head(DBRest(d)) = W(DbIndex(d)) /\ PlainSeq(Tail(DBRest(d)))
           /\ Tail(DBRest(d)) # <<>>
<1>1. Tail(DBRest(d)) = << W(Op("opCodeResizeDB")), W(Length(0)), W(Length(0)),
                           <<"set", "WrittenDBHeader">> >>
  BY DEF DBRest
<1>2. /\ W(Op("opCodeResizeDB")) \in PlainInstrs
      /\ W(Length(0)) \in PlainInstrs
      /\ <<"set", "WrittenDBHeader">> \in PlainInstrs
  BY PlainStatements DEF OpCodes, PlainInstrs, States
<1>3. PlainSeq(Tail(DBRest(d)))
  <2> DEFINE q == << W(Op("opCodeResizeDB")), W(Length(0)), W(Length(0)),
                     <<"set", "WrittenDBHeader">> >>
  <2>1. q \in Seq(PlainInstrs)
    BY <1>2
  <2>2. q[Len(q)] = <<"set", "WrittenDBHeader">>
    OBVIOUS
  <2> HIDE DEF q
  <2>3. PlainSeq(q)
    BY <2>1, <2>2 DEF PlainSeq
  <2> QED BY <1>1, <2>3 DEF q
<1> QED BY <1>1, <1>3 DEF DBCall, DBRest

LEMMA EndCallShape ==
    /\ EndCall # <<>> /\ EndRest # <<>>
    /\ Head(EndCall) = W(Op("opCodeEOF")) /\ Tail(EndCall) = EndRest
    /\ Head(EndRest) = <<"sum">> /\ Tail(EndRest) = << <<"set", "WritingEnd">> >>
    /\ PlainSeq(Tail(EndRest))
<1>1. <<"set", "WritingEnd">> \in PlainInstrs
  BY DEF PlainInstrs, States
<1>2. PlainSeq(<< <<"set", "WritingEnd">> >>)
  BY <1>1 DEF PlainSeq
<1> QED BY <1>2 DEF EndCall, EndRest

-----------------------------------------------------------------------------
(* A call is refused, or it begins with one of the three forms. *)

LEMMA CallerCases ==
    ASSUME Caller
    PROVE  \/ Refuse
           \/ /\ state # "WritingEnd"
              /\ UNCHANGED existDB
              /\ \E c, writes : /\ Begin(c, writes) /\ c[1] # "db"
                                /\ writes # <<>>
                                /\ PlainSeq(writes) \/ writes = EndCall
           \/ /\ state # "WritingEnd"
              /\ \E d \in DBs : /\ d \notin existDB
                                /\ existDB' = existDB \cup {d}
                                /\ Begin(<<"db", d>>, DBCall(d))
<1> DEFINE Begins == \E c, writes : /\ Begin(c, writes) /\ c[1] # "db"
                                    /\ writes # <<>>
                                    /\ PlainSeq(writes) \/ writes = EndCall
<1>0. \A to : validateStateChange(to) => state # "WritingEnd"
  BY DEF validateStateChange, stateChanges, States
<1>1. ASSUME WriteHeader, ~Refuse
      PROVE  state # "WritingEnd" /\ UNCHANGED existDB /\ Begins
  <2>1. ASSUME NEW m \in Magics
        PROVE  PlainSeq(<< W(Magic(m)), <<"set", "WrittenHeader">> >>)
    <3>1. W(Magic(m)) \in PlainInstrs /\ <<"set", "WrittenHeader">> \in PlainInstrs
      BY PlainStatements DEF States
    <3> QED BY <3>1 DEF PlainSeq
  <2>2. PICK m \in Magics : Begin(<<"header">>, << W(Magic(m)), <<"set", "WrittenHeader">> >>)
    BY <1>1 DEF WriteHeader, Magics
  <2> QED BY <1>0, <1>1, <2>1, <2>2 DEF WriteHeader
<1>2. ASSUME NEW k \in Keys, NEW v \in Keys, WriteAux(k, v), ~Refuse
      PROVE  state # "WritingEnd" /\ UNCHANGED existDB /\ Begins
  <2>1. PlainSeq(<< W(Op("opCodeAux")), Str(k), Str(v), <<"set", "WrittenAux">> >>)
    <3>1. W(Op("opCodeAux")) \in PlainInstrs /\ Str(k) \in PlainInstrs /\ Str(v) \in PlainInstrs
      BY PlainStatements, EncoderAssumption DEF OpCodes
    <3>2. <<"set", "WrittenAux">> \in PlainInstrs
      BY DEF PlainInstrs, States
    <3> QED BY <3>1, <3>2 DEF PlainSeq
  <2> QED BY <1>0, <1>2, <2>1 DEF WriteAux
<1>3. ASSUME NEW d \in DBs, WriteDBHeader(d), ~Refuse
      PROVE  /\ state # "WritingEnd"
             /\ d \notin existDB
             /\ existDB' = existDB \cup {d}
             /\ Begin(<<"db", d>>, DBCall(d))
  BY <1>0, <1>3 DEF WriteDBHeader, DBCall
<1>4. ASSUME NEW k \in Keys, NEW o \in Objects, NEW opts \in TTLOptions,
             WriteObject(k, o, opts), ~Refuse
      PROVE  state # "WritingEnd" /\ UNCHANGED existDB /\ Begins
  <2> DEFINE ttls == [ i \in 1..Len(opts) |-> <<"ttl", opts[i]>> ]
  <2>1. ttls \in Seq(PlainInstrs)
    <3>1. opts \in Seq(TTLs)
      BY EncoderAssumption, FunctionIsSeq DEF TTLOptions
    <3>2. ttls \in [1..Len(opts) -> PlainInstrs]
      BY <3>1 DEF PlainInstrs
    <3> QED BY <3>1, <3>2, FunctionIsSeq
  <2>2. PICK writes \in ObjectWrites(k, o) :
              Begin(<<"object", Requested(k, o, opts)>>,
                    ttls \o writes \o << <<"set", "WrittenObject">> >>)
    BY <1>4 DEF WriteObject
  <2> HIDE DEF ttls
  <2>3. writes \in Seq(PlainInstrs)
    BY ObjectWritesType DEF Encodings
  <2>4. ttls \o writes \in Seq(PlainInstrs)
    BY <2>1, <2>3, ConcatProperties
  <2>5. PlainSeq(<< <<"set", "WrittenObject">> >>)
    BY DEF PlainSeq, PlainInstrs, States
  <2>6. PlainSeq((ttls \o writes) \o << <<"set", "WrittenObject">> >>)
         /\ (ttls \o writes) \o << <<"set", "WrittenObject">> >> # <<>>
    BY <2>4, <2>5, PlainConcat
  <2>7. Begins
    <3> DEFINE c == <<"object", Requested(k, o, opts)>>
    <3> DEFINE w == ttls \o writes \o << <<"set", "WrittenObject">> >>
    <3>1. Begin(c, w) /\ w # <<>> /\ PlainSeq(w)
      BY <2>2, <2>6
    <3>2. c[1] # "db"
      OBVIOUS
    <3> HIDE DEF c, w
    <3> QED BY <3>1, <3>2
  <2> QED BY <1>0, <1>4, <2>7 DEF WriteObject
<1>5. ASSUME WriteEnd, ~Refuse
      PROVE  state # "WritingEnd" /\ UNCHANGED existDB /\ Begins
  BY <1>0, <1>5, EndCallShape DEF WriteEnd, EndCall
<1> QED BY <1>1, <1>2, <1>3, <1>4, <1>5 DEF Caller

-----------------------------------------------------------------------------
(* The instruction a step runs, and what it leaves to do. *)

LEMMA PlainKinds ==
    ASSUME NEW x \in PlainInstrs
    PROVE  /\ x[1] = "write" => x[2] \in PlainTokens
           /\ x[1] \in {"str", "nan"} => x[2] \in Bytes
           /\ x[1] = "lzf" => x[2] \in Bytes /\ x[3] \in 1..4
           /\ x[1] = "ttl" => x[2] \in TTLs
           /\ x[1] = "set" => x[2] \in States
           /\ x[1] # "sum"
BY DEF PlainInstrs, BodyInstrs, BodyWrites, FlagInstrs, PlainTokens, W, Op

LEMMA SelectingNow ==
    ASSUME TypeInv, NEW d \in existDB, Selecting(d)
    PROVE  \/ /\ now = W(Op("opCodeSelectDB"))
              /\ rest = DBRest(d)
              /\ rest # <<>>
           \/ /\ todo = DBRest(d)
              /\ now = W(DbIndex(d))
              /\ PlainSeq(rest)
              /\ rest # <<>>
<1>1. d \in Nat
  BY EncoderAssumption DEF TypeInv, TypeOK
<1>2. CASE todo = DBCall(d)
  BY <1>1, <1>2, DBCallShape DEF now, rest
<1>3. CASE todo = DBRest(d)
  BY <1>1, <1>3, DBCallShape DEF now, rest
<1> QED BY <1>2, <1>3 DEF Selecting

LEMMA PlainNow ==
    ASSUME TypeInv, ~Idle, now[1] \in {"str", "nan", "lzf", "ttl", "set"}
    PROVE  PlainSeq(todo) /\ now \in PlainInstrs /\ PlainSeq(rest)
             /\ (now[1] # "set" => rest # <<>>)
<1>1. PlainSeq(todo)
  <2>1. ASSUME NEW d \in existDB, Selecting(d)
        PROVE  FALSE
    <3>1. now[1] = "write"
      BY <2>1, SelectingNow DEF W
    <3> QED BY <3>1
  <2>2. ~Ending
    BY EndCallShape DEF Ending, now, W
  <2> QED BY <2>1, <2>2 DEF TypeInv, TodoShape
<1> QED BY <1>1, PlainTail DEF now, rest, Idle

LEMMA WriteNow ==
    ASSUME TypeInv, ~Idle, now[1] = "write"
    PROVE  /\ rest # <<>>
           /\ PlainSeq(rest) \/ (\E d \in existDB : rest = DBRest(d)) \/ rest = EndRest
           /\ \/ now[2] \in PlainTokens
              \/ \E d \in existDB : todo = DBRest(d) /\ now[2] = DbIndex(d) /\ PlainSeq(rest)
<1>1. CASE PlainSeq(todo)
  <2>1. now \in PlainInstrs /\ PlainSeq(rest) /\ rest # <<>>
    BY <1>1, PlainTail DEF now, rest, Idle
  <2> QED BY <2>1, PlainKinds
<1>2. ASSUME NEW d \in existDB, Selecting(d)
      PROVE  /\ rest # <<>>
             /\ PlainSeq(rest) \/ rest = DBRest(d)
             /\ \/ now[2] \in PlainTokens
                \/ todo = DBRest(d) /\ now[2] = DbIndex(d) /\ PlainSeq(rest)
  <2>1. Op("opCodeSelectDB") \in PlainTokens
    BY DEF Op, OpCodes, PlainTokens
  <2> QED BY <1>2, <2>1, SelectingNow DEF W
<1>3. CASE Ending
  <2>1. Op("opCodeEOF") \in PlainTokens
    BY DEF Op, OpCodes, PlainTokens
  <2> QED BY <1>3, <2>1, EndCallShape DEF Ending, now, rest, W
<1> QED BY <1>1, <1>2, <1>3 DEF TypeInv, TodoShape

LEMMA SumNow ==
    ASSUME TypeInv, ~Idle, now[1] = "sum"
    PROVE  todo = EndRest /\ rest = << <<"set", "WritingEnd">> >> /\ PlainSeq(rest)
<1>1. ~PlainSeq(todo)
  BY PlainTail, PlainKinds DEF now, Idle
<1>2. ASSUME NEW d \in existDB, Selecting(d)
      PROVE  FALSE
  <2>1. now[1] = "write"
    BY <1>2, SelectingNow DEF W
  <2> QED BY <2>1
<1>3. todo # EndCall
  BY EndCallShape DEF now, W
<1> QED BY <1>1, <1>2, <1>3, EndCallShape DEF TypeInv, TodoShape, Ending, rest

LEMMA LzfTokens ==
    ASSUME NEW b \in Bytes, NEW n \in 1..4
    PROVE  LzfToken(b, n) \in BodyTokens
BY DEF LzfToken, LzfMark, LzfLen, StrHead, LzfBody, BodyTokens

-----------------------------------------------------------------------------
(* What one step adds to the file. *)

LEMMA FileStep ==
    ASSUME TypeInv, Step
    PROVE  /\ UNCHANGED existDB
           /\ \/ out' = out /\ crc' = crc
              \/ /\ now[1] \in {"write", "lzf", "sum"}
                 /\ out' = Append(out, Torn) /\ crc' = crc
              \/ /\ now[1] \in {"write", "lzf"}
                 /\ \E t \in PlainTokens : out' = Append(out, t) /\ crc' = Append(crc, t)
              \/ \E d \in existDB : /\ todo = DBRest(d) /\ PlainSeq(todo')
                                    /\ now[1] = "write"
                                    /\ out' = Append(out, DbIndex(d))
                                    /\ crc' = Append(crc, DbIndex(d))
              \/ /\ todo = EndRest /\ todo' = << <<"set", "WritingEnd">> >>
                 /\ out' = Append(out, Crc(crc)) /\ crc' = crc
<1>1. CASE WriteToken
  BY <1>1, WriteNow DEF WriteToken, Write
<1>2. CASE WriteLzfToken
  <2>1. now \in PlainInstrs
    BY <1>2, PlainNow DEF WriteLzfToken
  <2>2. LzfToken(now[2], now[3]) \in PlainTokens
    BY <1>2, <2>1, PlainKinds, LzfTokens DEF WriteLzfToken, PlainTokens
  <2> QED BY <1>2, <2>2 DEF WriteLzfToken, Write
<1>3. CASE WriteSum
  BY <1>3, SumNow DEF WriteSum
<1>4. CASE WriteStr
  BY <1>4 DEF WriteStr
<1>5. CASE WriteTTL
  BY <1>5 DEF WriteTTL
<1>6. CASE SetState
  BY <1>6 DEF SetState
<1>7. CASE WriterFails
  BY <1>7 DEF WriterFails
<1> QED BY <1>1, <1>2, <1>3, <1>4, <1>5, <1>6, <1>7 DEF Step

(* What one step leaves to do: plain statements, unless it is the first    *)
(* step of WriteDBHeader or WriteEnd; nothing exactly when the call        *)
(* returns.                                                                *)
LEMMA TodoStep ==
    ASSUME TypeInv, Step
    PROVE  /\ \/ PlainSeq(todo')
              \/ \E d \in existDB : todo = DBCall(d) /\ todo' = DBRest(d)
              \/ todo' = EndRest
           /\ \/ todo' # <<>> /\ Continue
              \/ todo' = <<>> /\ Return("error")
              \/ todo' = <<>> /\ Return("nil")
<1>0. PlainSeq(<<>>)
  BY DEF PlainSeq
<1>1. CASE WriteToken
  <2>1. PlainSeq(todo) => PlainSeq(rest)
    BY <1>1, PlainTail DEF WriteToken, Idle, rest
  <2>2. \A d \in existDB : Selecting(d) => \/ todo = DBCall(d) /\ rest = DBRest(d)
                                           \/ PlainSeq(rest)
    <3> SUFFICES ASSUME NEW d \in existDB, Selecting(d)
                 PROVE  (todo = DBCall(d) /\ rest = DBRest(d)) \/ PlainSeq(rest)
      OBVIOUS
    <3>1. d \in Nat
      BY EncoderAssumption DEF TypeInv, TypeOK
    <3> QED BY <3>1, DBCallShape DEF Selecting, rest
  <2>3. Ending => rest = EndRest \/ PlainSeq(rest)
    BY EndCallShape DEF Ending, rest
  <2> QED BY <1>1, <2>1, <2>2, <2>3, WriteNow DEF WriteToken, Write, TypeInv, TodoShape
<1>2. CASE WriteLzfToken
  <2>1. now \in PlainInstrs /\ PlainSeq(rest) /\ rest # <<>> /\ now[2] \in Bytes /\ now[3] \in 1..4
    BY <1>2, PlainNow, PlainKinds DEF WriteLzfToken
  <2>2. now[3] # 1 => << <<"lzf", now[2], now[3] - 1>> >> \in Seq(PlainInstrs)
    <3>1. now[3] # 1 => <<"lzf", now[2], now[3] - 1>> \in BodyInstrs
      BY <2>1 DEF BodyInstrs
    <3> QED BY <3>1, PlainStatements
  <2>3. PlainSeq(todo') /\ todo' # <<>>
    BY <1>2, <2>1, <2>2, PlainConcat DEF WriteLzfToken
  <2>4. Continue
    BY <1>2 DEF WriteLzfToken, Write
  <2> QED BY <2>3, <2>4
<1>3. CASE WriteSum
  <2>1. PlainSeq(todo') /\ todo' # <<>>
    BY <1>3, SumNow DEF WriteSum
  <2>2. Continue
    BY <1>3 DEF WriteSum
  <2> QED BY <2>1, <2>2
<1>4. CASE WriteStr
  <2>1. now \in PlainInstrs /\ PlainSeq(rest) /\ rest # <<>> /\ now[2] \in Bytes
    BY <1>4, PlainNow, PlainKinds DEF WriteStr
  <2>2. PICK ws \in writeString(now[2]) \cup writeNanString(now[2]) : todo' = ws \o rest
    BY <1>4 DEF WriteStr
  <2>3. ws \in Seq(PlainInstrs)
    BY <2>1, <2>2, StringWrites, PlainStatements
  <2>4. PlainSeq(todo') /\ todo' # <<>>
    BY <2>1, <2>2, <2>3, PlainConcat
  <2>5. Continue
    BY <1>4 DEF WriteStr
  <2> QED BY <2>4, <2>5
<1>5. CASE WriteTTL
  <2>1. now \in PlainInstrs /\ PlainSeq(rest) /\ rest # <<>> /\ now[2] \in TTLs
    BY <1>5, PlainNow, PlainKinds DEF WriteTTL
  <2> DEFINE ws == << W(Op("opCodeExpireTimeMs")), W(Int64(now[2])), <<"set", "WrittenTTL">> >>
  <2>2. \/ todo' = ws \o rest /\ Continue
        \/ todo' = <<>> /\ Return("error")
    BY <1>5 DEF WriteTTL
  <2>3. ws \in Seq(PlainInstrs)
    <3>1. W(Op("opCodeExpireTimeMs")) \in PlainInstrs
      BY PlainStatements DEF OpCodes
    <3>2. TTLs \subseteq Int
      BY EncoderAssumption
    <3>3. now[2] \in Int
      BY <2>1, <3>2, Zenon
    <3>4. W(Int64(now[2])) \in PlainInstrs
      BY <3>3, PlainStatements
    <3>5. <<"set", "WrittenTTL">> \in PlainInstrs
      BY DEF PlainInstrs, States
    <3> QED BY <3>1, <3>4, <3>5
  <2> HIDE DEF ws
  <2> QED BY <1>0, <2>1, <2>2, <2>3, PlainConcat
<1>6. CASE SetState
  BY <1>6, PlainNow DEF SetState
<1>7. CASE WriterFails
  <2>1. CASE now[1] = "lzf"
    <3>1. PlainSeq(rest) /\ rest # <<>> /\ now[2] \in Bytes
      BY <1>7, <2>1, PlainNow, PlainKinds DEF WriterFails
    <3>2. writeSimpleString(now[2]) \in Seq(PlainInstrs)
      BY <3>1, StringWrites, PlainStatements
    <3> QED BY <1>7, <2>1, <3>1, <3>2, PlainConcat DEF WriterFails
  <2>2. CASE now[1] # "lzf"
    BY <1>0, <1>7, <2>2 DEF WriterFails
  <2> QED BY <2>1, <2>2
<1> QED BY <1>1, <1>2, <1>3, <1>4, <1>5, <1>6, <1>7 DEF Step

-----------------------------------------------------------------------------
(* Type correctness. *)

LEMMA TypeInit == Init => TypeInv
<1> SUFFICES ASSUME Init
             PROVE  TypeInv
  OBVIOUS
<1>1. TypeOK
  BY EncoderAssumption DEF Init, TypeOK, States, Idle
<1>2. TodoShape /\ CallOK
  BY DEF Init, TodoShape, CallOK, PlainSeq
<1> QED BY <1>1, <1>2 DEF TypeInv

LEMMA CallerType == TypeInv /\ Caller => TypeInv'
<1> SUFFICES ASSUME TypeInv, Caller
             PROVE  TypeInv'
  OBVIOUS
<1>1. TypeOK /\ TodoShape /\ CallOK
  BY DEF TypeInv
<1>2. CASE Refuse
  <2>1. TypeOK'
    BY <1>1, <1>2 DEF TypeOK, Refuse, Idle
  <2>2. TodoShape' /\ CallOK'
    BY <1>1, <1>2 DEF TodoShape, CallOK, Refuse, Selecting, Ending
  <2> QED BY <2>1, <2>2 DEF TypeInv
<1>3. ASSUME NEW c, NEW writes, Begin(c, writes), writes # <<>>, existDB' \subseteq DBs
      PROVE  TypeOK'
  BY <1>1, <1>3, EncoderAssumption DEF Begin, TypeOK, Idle
<1>4. ASSUME NEW c, NEW writes, Begin(c, writes), UNCHANGED existDB,
             c[1] # "db", writes # <<>>, PlainSeq(writes) \/ writes = EndCall
      PROVE  TypeInv'
  <2>1. TypeOK'
    BY <1>1, <1>3, <1>4 DEF TypeOK
  <2>2. TodoShape' /\ CallOK'
    BY <1>4 DEF Begin, TodoShape, CallOK, Ending
  <2> QED BY <2>1, <2>2 DEF TypeInv
<1>5. ASSUME NEW d \in DBs, existDB' = existDB \cup {d}, Begin(<<"db", d>>, DBCall(d))
      PROVE  TypeInv'
  <2>1. DBCall(d) # <<>>
    BY DBCallShape, EncoderAssumption
  <2>2. TypeOK'
    BY <1>1, <1>3, <1>5, <2>1 DEF TypeOK
  <2>3. TodoShape' /\ CallOK'
    BY <1>5 DEF Begin, TodoShape, CallOK, Selecting
  <2> QED BY <2>2, <2>3 DEF TypeInv
<1> QED BY <1>2, <1>4, <1>5, CallerCases

LEMMA StepType == TypeInv /\ Step => TypeInv'
<1> SUFFICES ASSUME TypeInv, Step
             PROVE  TypeInv'
  OBVIOUS
<1>1. /\ state \in States /\ existDB \subseteq DBs
      /\ out \in Seq(Tokens) /\ crc \in Seq(WrittenTokens)
      /\ calls \in 0..MaxCalls /\ faults \in 0..MaxFaults
      /\ ret \in {"none", "nil", "error"} /\ (ret = "none") = ~Idle
      /\ health \in {"clean", "failed", "spoiled"}
      /\ db \in DBs \cup {None}
      /\ CallOK
  BY DEF TypeInv, TypeOK
<1>2. TodoShape'
  BY FileStep, TodoStep DEF TodoShape, Selecting, Ending
<1>3. /\ ~Idle /\ UNCHANGED <<call, calls>>
      /\ faults' \in 0..MaxFaults
  BY <1>1, EncoderAssumption DEF Step, WriteToken, WriteLzfToken, Write, WriteSum, WriteStr,
     WriteTTL, SetState, WriterFails
<1>4. state' \in States
  <2>1. CASE SetState
    BY <2>1, PlainNow, PlainKinds DEF SetState
  <2>2. CASE ~SetState
    BY <1>1, <2>2 DEF Step, WriteToken, WriteLzfToken, Write, WriteSum, WriteStr,
       WriteTTL, WriterFails
  <2> QED BY <2>1, <2>2
<1>5. out' \in Seq(Tokens) /\ crc' \in Seq(WrittenTokens)
  <2>1. WrittenTokens \subseteq Tokens /\ Torn \in Tokens /\ Crc(crc) \in Tokens
    BY <1>1 DEF Tokens, Crc
  <2>2. \A d \in existDB : DbIndex(d) \in WrittenTokens
    BY <1>1, EncoderAssumption DEF DbIndex, WrittenTokens
  <2>3. CASE crc' = crc /\ out' \in {out, Append(out, Torn), Append(out, Crc(crc))}
    <3>1. Append(out, Torn) \in Seq(Tokens) /\ Append(out, Crc(crc)) \in Seq(Tokens)
      BY <1>1, <2>1, AppendProperties
    <3> QED BY <1>1, <2>3, <3>1
  <2>4. ASSUME NEW t \in WrittenTokens, out' = Append(out, t), crc' = Append(crc, t)
        PROVE  out' \in Seq(Tokens) /\ crc' \in Seq(WrittenTokens)
    BY <1>1, <2>1, <2>4, AppendProperties
  <2>5. \/ crc' = crc /\ out' \in {out, Append(out, Torn), Append(out, Crc(crc))}
        \/ \E t \in PlainTokens : out' = Append(out, t) /\ crc' = Append(crc, t)
        \/ \E d \in existDB : out' = Append(out, DbIndex(d)) /\ crc' = Append(crc, DbIndex(d))
    BY FileStep
  <2> QED BY <2>2, <2>3, <2>4, <2>5, PlainTokensWritten
<1>6. /\ ret' \in {"none", "nil", "error"} /\ (ret' = "none") = ~Idle'
      /\ health' \in {"clean", "failed", "spoiled"}
      /\ db' \in DBs \cup {None}
  <2>1. CASE todo' # <<>> /\ Continue
    BY <1>1, <1>3, <2>1 DEF Continue, Idle
  <2>2. ASSUME NEW r \in {"error", "nil"}, todo' = <<>>, Return(r)
        PROVE  /\ ret' \in {"none", "nil", "error"} /\ (ret' = "none") = ~Idle'
               /\ health' \in {"clean", "failed", "spoiled"}
               /\ db' \in DBs \cup {None}
    BY <1>1, <2>2 DEF Return, Idle, CallOK
  <2> QED BY <2>1, <2>2, TodoStep
<1>7. TypeOK'
  BY <1>1, <1>3, <1>4, <1>5, <1>6, FileStep DEF TypeOK
<1> QED BY <1>1, <1>2, <1>3, <1>7 DEF TypeInv, CallOK

LEMMA TypeNext == TypeInv /\ [Next]_vars => TypeInv'
<1>1. TypeInv /\ UNCHANGED vars => TypeInv'
  BY DEF TypeInv, TypeOK, TodoShape, CallOK, Selecting, Ending, Idle, vars
<1> QED BY <1>1, CallerType, StepType DEF Next

(* Whatever is called, in whatever order, and whichever writes fail, the   *)
(* fields of the encoder stay in their types, and a call has a result      *)
(* exactly when nothing is left of it.                                     *)
THEOREM TypeCorrect == Spec => []TypeOK
<1>1. Spec => []TypeInv
  BY TypeInit, TypeNext, PTL DEF Spec
<1>2. TypeInv => TypeOK
  BY DEF TypeInv
<1> QED BY <1>1, <1>2, PTL

-----------------------------------------------------------------------------
(* No database twice.  The index of a WriteDBHeader in progress is in      *)
(* existDB, as are those of the file, and not yet in the file itself.      *)

DBsInFile == \A i \in DOMAIN out : out[i][1] = "db" => out[i][2] \in existDB

FreshIndex == \A d \in existDB : Selecting(d) => \A i \in DOMAIN out : out[i] # DbIndex(d)

DBInv == DBsInFile /\ FreshIndex /\ NoDuplicateDB

LEMMA NotSelecting ==
    ASSUME NEW d \in Nat, NEW q, PlainSeq(q) \/ q = EndRest \/ q = EndCall
    PROVE  q # DBCall(d) /\ q # DBRest(d)
<1>1. W(DbIndex(d)) \notin PlainInstrs
  BY PlainIsNoDB, PlainKinds DEF W, DbIndex
<1>2. CASE PlainSeq(q)
  <2>1. ~PlainSeq(DBRest(d))
    <3>1. Head(DBRest(d)) = W(DbIndex(d)) /\ DBRest(d) # <<>>
      BY DBCallShape
    <3> QED BY <1>1, <3>1, PlainTail
  <2>2. ~PlainSeq(DBCall(d))
    <3>1. Tail(DBCall(d)) = DBRest(d) /\ DBCall(d) # <<>>
      BY DBCallShape
    <3> QED BY <2>1, <3>1, PlainTail
  <2> QED BY <1>2, <2>1, <2>2
<1>3. CASE q \in {EndRest, EndCall}
  <2>1. Head(DBCall(d)) = W(Op("opCodeSelectDB")) /\ Head(DBRest(d)) = W(DbIndex(d))
    BY DBCallShape
  <2>2. Head(q) \in {<<"sum">>, W(Op("opCodeEOF"))}
    BY <1>3, EndCallShape
  <2>3. /\ W(Op("opCodeSelectDB")) \notin {<<"sum">>, W(Op("opCodeEOF"))}
        /\ W(DbIndex(d)) \notin {<<"sum">>, W(Op("opCodeEOF"))}
    BY DEF W, Op, DbIndex
  <2> QED BY <2>1, <2>2, <2>3
<1> QED BY <1>2, <1>3

LEMMA SelectingOne ==
    ASSUME NEW d \in Nat, NEW e \in Nat
    PROVE  /\ DBCall(d) # DBRest(e)
           /\ DBCall(d) = DBCall(e) => d = e
           /\ DBRest(d) = DBRest(e) => d = e
<1>1. /\ Head(DBCall(d)) = W(Op("opCodeSelectDB"))
      /\ Head(DBRest(d)) = W(DbIndex(d)) /\ Head(DBRest(e)) = W(DbIndex(e))
      /\ Tail(DBCall(d)) = DBRest(d) /\ Tail(DBCall(e)) = DBRest(e)
  BY DBCallShape
<1>2. W(Op("opCodeSelectDB")) # W(DbIndex(e))
  BY DEF W, Op, DbIndex
<1>3. W(DbIndex(d)) = W(DbIndex(e)) => d = e
  BY DEF W, DbIndex
<1> QED BY <1>1, <1>2, <1>3

LEMMA AppendElement ==
    ASSUME NEW S, NEW s \in Seq(S), NEW t \in S, NEW i \in DOMAIN Append(s, t)
    PROVE  \/ i \in DOMAIN s /\ Append(s, t)[i] = s[i]
           \/ i = Len(s) + 1 /\ Append(s, t)[i] = t
BY AppendProperties

LEMMA DBStep == TypeInv /\ DBInv /\ Step => DBInv'
<1> SUFFICES ASSUME TypeInv, DBInv, Step
             PROVE  DBInv'
  OBVIOUS
<1>1. out \in Seq(Tokens) /\ existDB' = existDB /\ \A d \in existDB : d \in Nat
  BY EncoderAssumption, FileStep DEF TypeInv, TypeOK
<1>2. ASSUME NEW d \in existDB, Selecting(d)'
      PROVE  todo = DBCall(d) /\ todo' = DBRest(d)
  <2>1. PICK e \in existDB : todo = DBCall(e) /\ todo' = DBRest(e)
    BY <1>1, <1>2, TodoStep, NotSelecting DEF Selecting
  <2>2. d = e
    BY <1>1, <1>2, <2>1, SelectingOne DEF Selecting
  <2> QED BY <2>1, <2>2
<1>3. ASSUME out' = out \/ \E t \in Tokens : out' = Append(out, t) /\ t[1] # "db"
      PROVE  DBInv'
  <2>1. \A i \in DOMAIN out' : out'[i][1] = "db" => i \in DOMAIN out /\ out'[i] = out[i]
    BY <1>1, <1>3, AppendElement
  <2>2. DBsInFile'
    BY <1>1, <2>1 DEF DBInv, DBsInFile
  <2>3. FreshIndex'
    BY <1>1, <1>2, <2>1 DEF DBInv, FreshIndex, Selecting, DbIndex
  <2>4. NoDuplicateDB'
    BY <2>1 DEF DBInv, NoDuplicateDB
  <2> QED BY <2>2, <2>3, <2>4 DEF DBInv
<1>4. ASSUME NEW d \in existDB, todo = DBRest(d), PlainSeq(todo'), out' = Append(out, DbIndex(d))
      PROVE  DBInv'
  <2>1. DbIndex(d) \in Tokens
    BY <1>1 DEF DbIndex, Tokens, WrittenTokens
  <2>2. \A i \in DOMAIN out' : \/ i \in DOMAIN out /\ out'[i] = out[i]
                               \/ i = Len(out) + 1 /\ out'[i] = DbIndex(d)
    BY <1>1, <1>4, <2>1, AppendElement
  <2>3. \A i \in DOMAIN out : out[i] # DbIndex(d)
    BY <1>4 DEF DBInv, FreshIndex, Selecting
  <2>4. DBsInFile'
    BY <1>1, <2>2 DEF DBInv, DBsInFile, DbIndex
  <2>5. FreshIndex'
    BY <1>1, <1>4, NotSelecting DEF FreshIndex, Selecting
  <2>6. NoDuplicateDB'
    BY <2>2, <2>3 DEF DBInv, NoDuplicateDB
  <2> QED BY <2>4, <2>5, <2>6 DEF DBInv
<1>5. Torn \in Tokens /\ Torn[1] # "db"
  BY DEF Tokens, Torn
<1>6. \A t \in PlainTokens : t \in Tokens /\ t[1] # "db"
  BY PlainTokensWritten, PlainIsNoDB DEF Tokens
<1>7. Crc(crc) \in Tokens /\ Crc(crc)[1] # "db"
  BY DEF TypeInv, TypeOK, Crc, Tokens
<1> QED BY <1>3, <1>4, <1>5, <1>6, <1>7, FileStep

LEMMA DBCaller == TypeInv /\ DBInv /\ Caller => DBInv'
<1> SUFFICES ASSUME TypeInv, DBInv, Caller
             PROVE  DBInv'
  OBVIOUS
<1>1. existDB \subseteq Nat /\ DBs \subseteq Nat
  BY EncoderAssumption DEF TypeInv, TypeOK
<1>2. CASE Refuse
  BY <1>2 DEF DBInv, DBsInFile, FreshIndex, NoDuplicateDB, Selecting, Refuse
<1>3. ASSUME NEW c, NEW writes, Begin(c, writes), UNCHANGED existDB,
             PlainSeq(writes) \/ writes = EndCall
      PROVE  DBInv'
  <2>1. out' = out /\ todo' = writes
    BY <1>3 DEF Begin
  <2>2. \A d \in existDB : ~Selecting(d)'
    BY <1>1, <1>3, <2>1, NotSelecting DEF Selecting
  <2> QED BY <1>3, <2>1, <2>2 DEF DBInv, DBsInFile, FreshIndex, NoDuplicateDB
<1>4. ASSUME NEW d \in DBs, d \notin existDB, existDB' = existDB \cup {d},
             Begin(<<"db", d>>, DBCall(d))
      PROVE  DBInv'
  <2>1. out' = out /\ todo' = DBCall(d)
    BY <1>4 DEF Begin
  <2>2. \A i \in DOMAIN out : out[i] # DbIndex(d)
    BY <1>4 DEF DBInv, DBsInFile, DbIndex
  <2>3. \A e \in existDB' : Selecting(e)' => e = d
    BY <1>1, <1>4, <2>1, SelectingOne DEF Selecting
  <2>4. FreshIndex'
    BY <2>1, <2>2, <2>3 DEF FreshIndex
  <2> QED BY <1>4, <2>1, <2>4 DEF DBInv, DBsInFile, NoDuplicateDB
<1> QED BY <1>2, <1>3, <1>4, CallerCases

LEMMA DBNext == TypeInv /\ DBInv /\ [Next]_vars => DBInv'
<1>1. DBInv /\ UNCHANGED vars => DBInv'
  BY DEF DBInv, DBsInFile, FreshIndex, NoDuplicateDB, Selecting, vars
<1> QED BY <1>1, DBCaller, DBStep DEF Next

(* No database is selected twice in a file, whatever the caller repeats    *)
(* and whichever writes fail (existDB, core/encoder.go:17).                *)
THEOREM DatabasesOnce == Spec => []NoDuplicateDB
<1>1. Init => DBInv
  BY DEF Init, DBInv, DBsInFile, FreshIndex, NoDuplicateDB
<1>2. Spec => [](TypeInv /\ DBInv)
  <2>1. Init => TypeInv /\ DBInv
    BY <1>1, TypeInit
  <2>2. TypeInv /\ DBInv /\ [Next]_vars => (TypeInv /\ DBInv)'
    BY TypeNext, DBNext
  <2> QED BY <2>1, <2>2, PTL DEF Spec
<1>3. DBInv => NoDuplicateDB
  BY DEF DBInv
<1> QED BY <1>2, <1>3, PTL

-----------------------------------------------------------------------------
(* The checksum.  Before it is written, the encoder's CRC was fed exactly  *)
(* the file unless a token is torn; after it, nothing more is written.     *)

SumFree(ts) == \A i \in DOMAIN ts : ts[i][1] # "crc"

SumLast == SumFree(out) \/ (Idle /\ state = "WritingEnd")
                        \/ todo = << <<"set", "WritingEnd">> >>

SumFed == SumFree(out) /\ TornFree(out) => crc = out

SumInv == SumLast /\ SumFed /\ SumTellsDamage

(* A step that writes finds no checksum in the file. *)
LEMMA WriteBeforeSum ==
    ASSUME TypeInv, SumInv, ~Idle, now[1] # "set"
    PROVE  SumFree(out)
BY DEF SumInv, SumLast, now

LEMMA SumAppend ==
    ASSUME TypeInv, SumInv, SumFree(out), NEW t \in Tokens, t[1] # "crc",
           out' = Append(out, t),
           crc' = Append(crc, t) \/ (t = Torn /\ crc' = crc)
    PROVE  SumInv'
<1>1. out \in Seq(Tokens)
  BY DEF TypeInv, TypeOK
<1>2. DOMAIN out' = 1..(Len(out) + 1) /\ DOMAIN out = 1..Len(out)
        /\ \A i \in DOMAIN out : out'[i] = out[i]
        /\ out'[Len(out) + 1] = t /\ Len(out) + 1 \in DOMAIN out'
  BY <1>1, AppendProperties
<1>3. SumFree(out')
  BY <1>2 DEF SumFree
<1>4. TornFree(out') => TornFree(out) /\ t # Torn
  BY <1>2 DEF TornFree
<1>5. SumFed'
  BY <1>3, <1>4 DEF SumInv, SumFed
<1>6. SumTellsDamage'
  BY <1>3 DEF SumFree, SumTellsDamage
<1> QED BY <1>3, <1>5, <1>6 DEF SumInv, SumLast

LEMMA SumStep == TypeInv /\ SumInv /\ Step => SumInv'
<1> SUFFICES ASSUME TypeInv, SumInv, Step
             PROVE  SumInv'
  OBVIOUS
<1>0. out \in Seq(Tokens) /\ crc \in Seq(WrittenTokens) /\ existDB \subseteq Nat
  BY EncoderAssumption DEF TypeInv, TypeOK
<1>1. CASE out' = out /\ crc' = crc
  <2>1. SumFed' /\ SumTellsDamage'
    BY <1>1 DEF SumInv, SumFed, SumTellsDamage
  <2>2. CASE SumFree(out)
    BY <1>1, <2>1, <2>2 DEF SumInv, SumLast
  <2>3. CASE ~SumFree(out)
    <3>1. ~Idle
      BY DEF Step, WriteToken, WriteLzfToken, WriteSum, WriteStr, WriteTTL, SetState, WriterFails
    <3>2. todo = << <<"set", "WritingEnd">> >>
      BY <2>3, <3>1 DEF SumInv, SumLast
    <3>3. now = <<"set", "WritingEnd">> /\ rest = <<>>
      BY <3>2 DEF now, rest
    <3>4. SetState
      BY <3>3 DEF Step, WriteToken, WriteLzfToken, WriteSum, WriteStr, WriteTTL, WriterFails
    <3>5. state' = "WritingEnd" /\ Idle'
      BY <3>3, <3>4 DEF SetState, Idle
    <3> QED BY <2>1, <3>5 DEF SumInv, SumLast
  <2> QED BY <2>2, <2>3
<1>2. CASE now[1] \in {"write", "lzf", "sum"} /\ out' = Append(out, Torn) /\ crc' = crc
  <2>1. SumFree(out)
    BY <1>2, WriteBeforeSum DEF Step, WriteToken, WriteLzfToken, WriteSum, WriteStr,
       WriteTTL, SetState, WriterFails
  <2>2. Torn \in Tokens /\ Torn[1] # "crc"
    BY DEF Torn, Tokens
  <2> QED BY <1>2, <2>1, <2>2, SumAppend
<1>3. ASSUME now[1] \in {"write", "lzf"}, NEW t \in WrittenTokens, t[1] # "crc",
             out' = Append(out, t), crc' = Append(crc, t)
      PROVE  SumInv'
  <2>1. SumFree(out)
    BY <1>3, WriteBeforeSum DEF Step, WriteToken, WriteLzfToken, WriteSum, WriteStr,
       WriteTTL, SetState, WriterFails
  <2>2. t \in Tokens
    BY <1>3 DEF Tokens
  <2> QED BY <1>3, <2>1, <2>2, SumAppend
<1>4. CASE /\ todo = EndRest /\ todo' = << <<"set", "WritingEnd">> >>
           /\ out' = Append(out, Crc(crc)) /\ crc' = crc
  <2>1. SumFree(out)
    BY <1>4, EndCallShape, WriteBeforeSum DEF Idle, now
  <2>2. Crc(crc) \in Tokens
    BY <1>0 DEF Crc, Tokens
  <2>3. /\ DOMAIN out' = 1..(Len(out) + 1)
        /\ \A i \in 1..Len(out) : out'[i] = out[i]
        /\ out'[Len(out) + 1] = Crc(crc)
        /\ SubSeq(out', 1, Len(out)) = out
    <3>1. Append(out, Crc(crc)) \in Seq(Tokens) /\ Len(Append(out, Crc(crc))) = Len(out) + 1
      BY <1>0, <2>2, AppendProperties
    <3>2. \A i \in 1..Len(out) : Append(out, Crc(crc))[i] = out[i]
      BY <1>0, <2>2, AppendProperties
    <3>3. SubSeq(Append(out, Crc(crc)), 1, Len(out)) = out
      BY <1>0, <3>1, <3>2
    <3> QED BY <1>0, <1>4, <2>2, <3>1, <3>3, AppendProperties
  <2>4. crc = out <=> TornFree(out)
    <3>1. TornFree(out) => crc = out
      BY <2>1 DEF SumInv, SumFed
    <3>2. \A i \in DOMAIN crc : crc[i] # Torn
      <4>1. Torn \notin WrittenTokens
        BY DEF Torn, WrittenTokens, LzfMark
      <4> QED BY <1>0, <4>1
    <3> QED BY <3>1, <3>2 DEF TornFree
  <2>5. SumTellsDamage'
    <3> SUFFICES ASSUME NEW i \in DOMAIN out', out'[i][1] = "crc"
                 PROVE  (out'[i][2] = SubSeq(out', 1, i - 1)) <=> TornFree(SubSeq(out', 1, i - 1))
      BY DEF SumTellsDamage
    <3>1. i = Len(out) + 1
      BY <1>0, <2>1, <2>3 DEF SumFree
    <3>2. SubSeq(out', 1, i - 1) = out
      BY <1>0, <2>3, <3>1
    <3>3. out'[i][2] = crc
      BY <2>3, <3>1 DEF Crc
    <3> QED BY <2>4, <3>2, <3>3
  <2>6. SumFed'
    <3>1. Len(out) + 1 \in DOMAIN out' /\ out'[Len(out) + 1][1] = "crc"
      BY <1>0, <2>3 DEF Crc
    <3> QED BY <3>1 DEF SumFed, SumFree
  <2> QED BY <1>4, <2>5, <2>6 DEF SumInv, SumLast
<1>5. \A t \in PlainTokens : t \in WrittenTokens /\ t[1] # "crc"
  BY PlainTokensWritten, PlainIsNoDB
<1>6. \A d \in existDB : DbIndex(d) \in WrittenTokens /\ DbIndex(d)[1] # "crc"
  BY <1>0 DEF DbIndex, WrittenTokens
<1> QED BY <1>1, <1>2, <1>3, <1>4, <1>5, <1>6, FileStep

LEMMA SumCaller == TypeInv /\ SumInv /\ Caller => SumInv'
<1> SUFFICES ASSUME TypeInv, SumInv, Caller
             PROVE  SumInv'
  OBVIOUS
<1>1. CASE Refuse
  BY <1>1 DEF Refuse, SumInv, SumLast, SumFed, SumTellsDamage, Idle
<1>2. ASSUME NEW c, NEW writes, state # "WritingEnd", Begin(c, writes)
      PROVE  SumInv'
  <2>1. out' = out /\ crc' = crc /\ SumFree(out)
    BY <1>2 DEF Begin, SumInv, SumLast, Idle
  <2> QED BY <2>1 DEF SumInv, SumLast, SumFed, SumTellsDamage
<1> QED BY <1>1, <1>2, CallerCases

LEMMA SumNext == TypeInv /\ SumInv /\ [Next]_vars => SumInv'
<1>1. SumInv /\ UNCHANGED vars => SumInv'
  BY DEF SumInv, SumLast, SumFed, SumTellsDamage, Idle, vars
<1> QED BY <1>1, SumCaller, SumStep DEF Next

(* The checksum at the end of a file is that of the bytes before it        *)
(* exactly when no failed write left a part of a token among them: what    *)
(* Encoder.write (core/encoder.go:147) feeds to the CRC, and what WriteEnd *)
(* (core/encoder.go:238) sums.                                             *)
THEOREM ChecksumTellsDamage == Spec => []SumTellsDamage
<1>1. Init => SumInv
  BY DEF Init, SumInv, SumLast, SumFed, SumFree, SumTellsDamage
<1>2. Spec => [](TypeInv /\ SumInv)
  <2>1. Init => TypeInv /\ SumInv
    BY <1>1, TypeInit
  <2>2. TypeInv /\ SumInv /\ [Next]_vars => (TypeInv /\ SumInv)'
    BY TypeNext, SumNext
  <2> QED BY <2>1, <2>2, PTL DEF Spec
<1>3. SumInv => SumTellsDamage
  BY DEF SumInv
<1> QED BY <1>2, <1>3, PTL

-----------------------------------------------------------------------------
(* The grammar of the file an Encoder writes while the writer works: what  *)
(* stateChanges (core/encoder.go:65) is for.  No database is empty, every  *)
(* expiration is followed by an object, nothing but the checksum follows   *)
(* EOF.  A refused call may leave a database or an expiration open; the    *)
(* invariant says what the next accepted call can only be then.            *)

(* The tokens the grammar of the file is about; every other one is quiet. *)
Flags == {"op"} \X TypeFlags
Marks == {Op("opCodeSelectDB"), Op("opCodeEOF"), Op("opCodeExpireTimeMs")} \cup Flags

(* Statements that neither write a mark nor change the state. *)
QuietInstrs ==
    BodyInstrs \cup {<<"sum">>, W(Op("opCodeAux")), W(Op("opCodeResizeDB"))}
      \cup {W(DbIndex(d)) : d \in DBs}

(* q writes no mark and ends in the state s. *)
Quietly(q, s) ==
    /\ q # <<>>
    /\ q \in Seq(QuietInstrs \cup {<<"set", s>>})
    /\ q[Len(q)] = <<"set", s>>
    /\ \A i \in 1..(Len(q) - 1) : q[i] \in QuietInstrs

(* q is what is left of a WriteObject whose type flag is not written yet:  *)
(* TTL options, the flag, the body.                                        *)
ObjectRest(q) ==
    /\ q \in Seq(PlainInstrs)
    /\ \E n \in 1..(Len(q) - 1) :
         /\ \A i \in 1..(n - 1) : q[i] \in {"ttl"} \X TTLs
         /\ q[n] \in FlagInstrs
         /\ \A i \in (n + 1)..(Len(q) - 1) : q[i] \in BodyInstrs
    /\ q[Len(q)] = <<"set", "WrittenObject">>

(* The same when a writeTTL is in progress, by what is left of it. *)
SetsTTL(q)      == q # <<>> /\ Head(q) = <<"set", "WrittenTTL">> /\ ObjectRest(Tail(q))
WritesMs(q)     == q # <<>> /\ (\E n \in TTLs : Head(q) = W(Int64(n))) /\ SetsTTL(Tail(q))
WritesExpire(q) == q # <<>> /\ Head(q) = W(Op("opCodeExpireTimeMs")) /\ WritesMs(Tail(q))

BeforeFlag(q) == ObjectRest(q) \/ SetsTTL(q) \/ WritesMs(q) \/ WritesExpire(q)

InDB == {"WrittenDBHeader", "WrittenTTL", "WrittenObject"}

PhaseInv ==
    \/ Idle
    \/ \E s \in States \ {"WrittenTTL"} : Quietly(todo, s)
    \/ \E d \in DBs : todo = DBCall(d)
    \/ todo = EndCall
    \/ BeforeFlag(todo) /\ state \in InDB

(* Every database selected has an object. *)
Filled == \A i \in DOMAIN out :
            out[i] = Op("opCodeSelectDB") => \E k \in i..Len(out) : out[k] \in Flags

(* Or an object must come next. *)
FilledInv ==
    \/ Filled
    \/ Quietly(todo, "WrittenDBHeader")
    \/ Idle /\ state \in {"WrittenDBHeader", "WrittenTTL"}
    \/ BeforeFlag(todo)

TTLInv ==
    LET n == Len(out) IN
    /\ n \in DOMAIN out /\ out[n] = Op("opCodeExpireTimeMs") => WritesMs(todo)
    /\ n - 1 \in DOMAIN out /\ out[n - 1] = Op("opCodeExpireTimeMs") =>
         \/ SetsTTL(todo)
         \/ state = "WrittenTTL" /\ (Idle \/ ObjectRest(todo))

EOFInv ==
    \A i \in DOMAIN out : out[i] = Op("opCodeEOF") =>
        \/ i = Len(out) /\ todo = EndRest
        \/ /\ i = Len(out) - 1
           /\ \/ todo = << <<"set", "WritingEnd">> >>
              \/ Idle /\ state = "WritingEnd"

(* What NoEmptyDB and NoOrphanTTL say of a file. *)
DBsFull ==
    \A i, j \in DOMAIN out :
        /\ i < j
        /\ out[i] = Op("opCodeSelectDB")
        /\ out[j] \in {Op("opCodeSelectDB"), Op("opCodeEOF")}
        => \E k \in i..j : out[k] \in Flags
TTLsFollowed ==
    \A i \in DOMAIN out :
        /\ out[i] = Op("opCodeExpireTimeMs")
        /\ i + 2 \in DOMAIN out
        => out[i + 2] \in Flags

Grammar == PhaseInv /\ FilledInv /\ TTLInv /\ EOFInv /\ DBsFull /\ TTLsFollowed

GrammarInv == faults = 0 => Grammar

-----------------------------------------------------------------------------
(* Statements and sequences of statements. *)

LEMMA QuietKinds ==
    ASSUME NEW x \in QuietInstrs
    PROVE  /\ x[1] \in {"write", "str", "nan", "lzf", "sum"}
           /\ x[1] = "write" => x[2] \notin Marks /\ x[2] # Torn
           /\ x[1] \in {"str", "nan"} => x[2] \in Bytes
           /\ x[1] = "lzf" => x[2] \in Bytes /\ x[3] \in 1..4
<1>1. CASE x \in BodyInstrs
  BY <1>1 DEF BodyInstrs, BodyWrites, BodyTokens, Marks, Flags, Op, Torn, LzfMark
<1>2. CASE x \in {<<"sum">>, W(Op("opCodeAux")), W(Op("opCodeResizeDB"))}
  BY <1>2 DEF W, Op, Marks, Flags, TypeFlags, Torn
<1>3. CASE x \in {W(DbIndex(d)) : d \in DBs}
  BY <1>3 DEF W, DbIndex, Op, Marks, Flags, Torn
<1> QED BY <1>1, <1>2, <1>3 DEF QuietInstrs

LEMMA FlagKinds ==
    ASSUME NEW x \in FlagInstrs
    PROVE  x[1] = "write" /\ x[2] \in Flags
BY DEF FlagInstrs, Flags, W, Op

LEMMA MarksDiffer ==
    /\ Op("opCodeSelectDB") \notin Flags
    /\ Op("opCodeEOF") \notin Flags
    /\ Op("opCodeExpireTimeMs") \notin Flags
    /\ Op("opCodeSelectDB") # Op("opCodeEOF")
    /\ Op("opCodeSelectDB") # Op("opCodeExpireTimeMs")
    /\ Op("opCodeEOF") # Op("opCodeExpireTimeMs")
BY DEF Op, Flags, TypeFlags

LEMMA HeadTail ==
    ASSUME NEW S, NEW q \in Seq(S), q # <<>>
    PROVE  /\ Len(q) \in Nat \ {0}
           /\ Head(q) = q[1] /\ Head(q) \in S
           /\ Tail(q) \in Seq(S)
           /\ Len(Tail(q)) = Len(q) - 1
           /\ \A i \in 1..(Len(q) - 1) : Tail(q)[i] = q[i+1]
           /\ Len(q) = 1 => q = << q[1] >>
           /\ Len(q) # 1 => Tail(q) # <<>>
<1>1. Len(q) \in Nat \ {0}
  BY EmptySeq
<1>2. /\ Head(q) = q[1] /\ Head(q) \in S
      /\ Tail(q) \in Seq(S)
      /\ Len(Tail(q)) = Len(q) - 1
      /\ \A i \in 1..(Len(q) - 1) : Tail(q)[i] = q[i+1]
  BY HeadTailProperties
<1>3. Len(q) = 1 => q = << q[1] >>
  OBVIOUS
<1>4. Len(q) # 1 => Tail(q) # <<>>
  <2>1. Len(q) # 1 => Len(Tail(q)) # 0
    BY <1>1, <1>2
  <2>2. Tail(q) = <<>> => Len(Tail(q)) = 0
    BY EmptySeq, Zenon
  <2> QED BY <2>1, <2>2
<1> QED BY <1>1, <1>2, <1>3, <1>4

LEMMA QuietHead ==
    ASSUME NEW q, NEW s, Quietly(q, s)
    PROVE  \/ q = << <<"set", s>> >>
           \/ Head(q) \in QuietInstrs /\ Quietly(Tail(q), s)
<1>1. q \in Seq(QuietInstrs \cup {<<"set", s>>}) /\ q # <<>>
  BY DEF Quietly
<1>2. CASE Len(q) = 1
  BY <1>1, <1>2, HeadTail DEF Quietly
<1>3. CASE Len(q) # 1
  <2>1. Len(q) \in Nat /\ 1 \in 1..(Len(q) - 1)
    BY <1>1, <1>3, HeadTail
  <2>2. Head(q) \in QuietInstrs
    BY <1>1, <2>1, HeadTail DEF Quietly
  <2>3. /\ Tail(q) \in Seq(QuietInstrs \cup {<<"set", s>>}) /\ Tail(q) # <<>>
        /\ Len(Tail(q)) = Len(q) - 1
        /\ \A i \in 1..(Len(q) - 1) : Tail(q)[i] = q[i+1]
    BY <1>1, <1>3, HeadTail
  <2>4. Tail(q)[Len(Tail(q))] = <<"set", s>>
    BY <2>1, <2>3 DEF Quietly
  <2>5. \A i \in 1..(Len(Tail(q)) - 1) : Tail(q)[i] \in QuietInstrs
    BY <2>1, <2>3 DEF Quietly
  <2> QED BY <2>2, <2>3, <2>4, <2>5 DEF Quietly
<1> QED BY <1>2, <1>3

LEMMA QuietConcat ==
    ASSUME NEW p \in Seq(QuietInstrs), NEW q, NEW s, Quietly(q, s)
    PROVE  Quietly(p \o q, s)
<1> DEFINE S == QuietInstrs \cup {<<"set", s>>}
<1>1. q \in Seq(S) /\ p \in Seq(S) /\ q # <<>>
  BY DEF Quietly
<1>2. Len(q) \in Nat \ {0} /\ Len(p) \in Nat
  BY <1>1, EmptySeq
<1>3. /\ p \o q \in Seq(S)
      /\ Len(p \o q) = Len(p) + Len(q)
      /\ \A i \in 1..Len(p) : (p \o q)[i] = p[i]
      /\ \A i \in 1..Len(q) : (p \o q)[Len(p) + i] = q[i]
  BY <1>1, ConcatProperties
<1>4. p \o q # <<>> /\ (p \o q)[Len(p \o q)] = <<"set", s>>
  BY <1>2, <1>3 DEF Quietly
<1>5. \A i \in 1..(Len(p \o q) - 1) : (p \o q)[i] \in QuietInstrs
  <2> SUFFICES ASSUME NEW i \in 1..(Len(p \o q) - 1)
               PROVE  (p \o q)[i] \in QuietInstrs
    OBVIOUS
  <2>1. CASE i \in 1..Len(p)
    BY <1>3, <2>1
  <2>2. CASE i \notin 1..Len(p)
    <3>1. i - Len(p) \in 1..(Len(q) - 1) /\ i = Len(p) + (i - Len(p))
      BY <1>2, <1>3, <2>2
    <3>2. (p \o q)[i] = q[i - Len(p)]
      BY <1>2, <1>3, <3>1
    <3> QED BY <3>1, <3>2 DEF Quietly
  <2> QED BY <2>1, <2>2
<1> QED BY <1>3, <1>4, <1>5 DEF Quietly

LEMMA ObjectHead ==
    ASSUME NEW q, ObjectRest(q)
    PROVE  /\ q # <<>>
           /\ \/ Head(q) \in {"ttl"} \X TTLs /\ ObjectRest(Tail(q))
              \/ Head(q) \in FlagInstrs /\ Quietly(Tail(q), "WrittenObject")
<1>1. PICK n \in 1..(Len(q) - 1) :
         /\ \A i \in 1..(n - 1) : q[i] \in {"ttl"} \X TTLs
         /\ q[n] \in FlagInstrs
         /\ \A i \in (n + 1)..(Len(q) - 1) : q[i] \in BodyInstrs
  BY DEF ObjectRest
<1>2. q \in Seq(PlainInstrs) /\ q[Len(q)] = <<"set", "WrittenObject">>
  BY DEF ObjectRest
<1>3. q # <<>> /\ Len(q) \in Nat /\ Len(q) > 1
  BY <1>2
<1>4. /\ Head(q) = q[1] /\ Tail(q) \in Seq(PlainInstrs) /\ Len(Tail(q)) = Len(q) - 1
      /\ \A i \in 1..(Len(q) - 1) : Tail(q)[i] = q[i+1]
      /\ Tail(q) # <<>>
  BY <1>2, <1>3, HeadTail
<1>5. Tail(q)[Len(Tail(q))] = <<"set", "WrittenObject">>
  BY <1>2, <1>3, <1>4
<1>6. CASE n = 1
  <2>1. Head(q) \in FlagInstrs
    BY <1>1, <1>4, <1>6
  <2>2. \A i \in 1..(Len(Tail(q)) - 1) : Tail(q)[i] \in BodyInstrs
    BY <1>1, <1>3, <1>4, <1>6
  <2>3. \A i \in 1..(Len(Tail(q)) - 1) : Tail(q)[i] \in QuietInstrs
    BY <2>2 DEF QuietInstrs
  <2>4. Tail(q) \in Seq(QuietInstrs \cup {<<"set", "WrittenObject">>})
    <3> DEFINE S == QuietInstrs \cup {<<"set", "WrittenObject">>}
    <3>0. Len(Tail(q)) \in Nat
      BY <1>3, <1>4
    <3>1. \A i \in 1..Len(Tail(q)) : i \in 1..(Len(Tail(q)) - 1) \/ i = Len(Tail(q))
      BY <3>0
    <3>2. \A i \in 1..Len(Tail(q)) : Tail(q)[i] \in S
      BY <1>5, <2>3, <3>1
    <3>3. Tail(q) \in [1..Len(Tail(q)) -> S] /\ Len(Tail(q)) \in Nat
      BY <1>4, <3>2, LenProperties
    <3> QED BY <3>3, FunctionIsSeq
  <2> QED BY <1>3, <1>4, <1>5, <2>1, <2>3, <2>4 DEF Quietly
<1>7. CASE n # 1
  <2>1. Head(q) \in {"ttl"} \X TTLs
    BY <1>1, <1>4, <1>7
  <2>2. /\ n - 1 \in 1..(Len(Tail(q)) - 1)
        /\ \A i \in 1..(n - 2) : Tail(q)[i] \in {"ttl"} \X TTLs
        /\ Tail(q)[n - 1] \in FlagInstrs
        /\ \A i \in n..(Len(Tail(q)) - 1) : Tail(q)[i] \in BodyInstrs
    <3>1. n - 1 \in 1..(Len(Tail(q)) - 1) /\ Tail(q)[n - 1] = q[n]
      <4>1. n - 1 \in 1..(Len(q) - 1) /\ n - 1 \in 1..(Len(Tail(q)) - 1) /\ (n - 1) + 1 = n
        BY <1>3, <1>4, <1>7
      <4> QED BY <1>4, <4>1
    <3>2. ASSUME NEW i \in 1..(n - 2)
          PROVE  Tail(q)[i] \in {"ttl"} \X TTLs
      <4>1. i \in 1..(Len(q) - 1) /\ i + 1 \in 1..(n - 1)
        BY <1>3
      <4> QED BY <1>1, <1>4, <4>1
    <3>3. ASSUME NEW i \in n..(Len(Tail(q)) - 1)
          PROVE  Tail(q)[i] \in BodyInstrs
      <4>1. i \in 1..(Len(q) - 1) /\ i + 1 \in (n + 1)..(Len(q) - 1)
        BY <1>3, <1>4
      <4> QED BY <1>1, <1>4, <4>1
    <3> QED BY <1>1, <3>1, <3>2, <3>3
  <2>3. ObjectRest(Tail(q))
    <3>1. (n - 1) - 1 = n - 2 /\ (n - 1) + 1 = n
      OBVIOUS
    <3> QED BY <1>4, <1>5, <2>2, <3>1 DEF ObjectRest
  <2> QED BY <1>3, <2>1, <2>3
<1> QED BY <1>6, <1>7

(* A WriteObject begins before its type flag. *)
LEMMA ObjectBegins ==
    ASSUME NEW ttls \in Seq({"ttl"} \X TTLs), NEW w \in Encodings
    PROVE  ObjectRest((ttls \o w) \o << <<"set", "WrittenObject">> >>)
<1> DEFINE end == << <<"set", "WrittenObject">> >>
<1> DEFINE p == ttls \o w
<1> DEFINE q == p \o end
<1> DEFINE a == Len(ttls)
<1> DEFINE b == Len(w)
<1>1. /\ ttls \in Seq(PlainInstrs) /\ w \in Seq(PlainInstrs) /\ end \in Seq(PlainInstrs)
      /\ a \in Nat /\ b \in Nat \ {0} /\ Len(end) = 1 /\ end[1] = <<"set", "WrittenObject">>
  <2>1. {"ttl"} \X TTLs \subseteq PlainInstrs
    BY DEF PlainInstrs
  <2>2. w \in Seq(PlainInstrs) /\ w # <<>>
    BY DEF Encodings
  <2>3. <<"set", "WrittenObject">> \in PlainInstrs
    BY PlainStatements DEF States
  <2> QED BY <2>1, <2>2, <2>3, EmptySeq
<1> HIDE DEF end
<1>2. /\ p \in Seq(PlainInstrs) /\ Len(p) = a + b
      /\ \A i \in 1..a : p[i] = ttls[i]
      /\ \A i \in 1..b : p[a + i] = w[i]
  BY <1>1, ConcatProperties
<1> HIDE DEF p, a, b
<1>3. /\ q \in Seq(PlainInstrs) /\ Len(q) = a + b + 1
      /\ \A i \in 1..(a + b) : q[i] = p[i]
      /\ q[a + b + 1] = <<"set", "WrittenObject">>
  <2>1. /\ q \in Seq(PlainInstrs) /\ Len(q) = (a + b) + 1
        /\ \A i \in 1..((a + b) + 1) :
             q[i] = IF i <= a + b THEN p[i] ELSE end[i - (a + b)]
    <3>1. /\ q \in Seq(PlainInstrs) /\ Len(q) = Len(p) + Len(end)
          /\ \A i \in 1..(Len(p) + Len(end)) :
               q[i] = IF i <= Len(p) THEN p[i] ELSE end[i - Len(p)]
      BY <1>1, <1>2, ConcatProperties
    <3> HIDE DEF q
    <3> QED BY <1>1, <1>2, <3>1
  <2>2. (a + b) + 1 \in 1..((a + b) + 1) /\ ((a + b) + 1) - (a + b) = 1 /\ ~((a + b) + 1 <= a + b)
    BY <1>1
  <2>3. \A i \in 1..(a + b) : i \in 1..((a + b) + 1) /\ i <= a + b
    BY <1>1
  <2> HIDE DEF q
  <2> QED BY <1>1, <2>1, <2>2, <2>3
<1> HIDE DEF q
<1>4. \A i \in 1..a : q[i] \in {"ttl"} \X TTLs
  <2>1. \A i \in 1..a : i \in 1..(a + b) /\ ttls[i] \in {"ttl"} \X TTLs
    BY <1>1 DEF a, b
  <2> QED BY <1>2, <1>3, <2>1
<1>5. \A i \in 1..b : q[a + i] = w[i]
  <2>1. \A i \in 1..b : a + i \in 1..(a + b)
    BY <1>1
  <2> QED BY <1>2, <1>3, <2>1
<1>6. q[a + 1] \in FlagInstrs
  <2>1. 1 \in 1..b /\ w[1] \in FlagInstrs
    BY <1>1 DEF Encodings, b
  <2> QED BY <1>5, <2>1
<1>7. \A i \in (a + 2)..(a + b) : q[i] \in BodyInstrs
  <2> SUFFICES ASSUME NEW i \in (a + 2)..(a + b)
               PROVE  q[i] \in BodyInstrs
    OBVIOUS
  <2>1. i - a \in 2..b /\ i - a \in 1..b /\ a + (i - a) = i
    BY <1>1
  <2>2. w[i - a] \in BodyInstrs
    BY <2>1 DEF Encodings, BodyInstrs, b
  <2> QED BY <1>5, <2>1, <2>2
<1>8. ObjectRest(q)
  <2>1. /\ a + 1 \in 1..(Len(q) - 1)
        /\ (a + 1) - 1 = a /\ (a + 1) + 1 = a + 2 /\ Len(q) - 1 = a + b
    BY <1>1, <1>3
  <2>2. q[Len(q)] = <<"set", "WrittenObject">>
    BY <1>3
  <2> QED BY <1>3, <1>4, <1>6, <1>7, <2>1, <2>2 DEF ObjectRest
<1> QED BY <1>8 DEF q, p, end

LEMMA QuietCalls ==
    /\ \A m \in Magics : Quietly(<< W(Magic(m)), <<"set", "WrittenHeader">> >>, "WrittenHeader")
    /\ \A k, v \in Keys : Quietly(<< W(Op("opCodeAux")), Str(k), Str(v),
                                     <<"set", "WrittenAux">> >>, "WrittenAux")
    /\ \A d \in DBs : Quietly(DBRest(d), "WrittenDBHeader")
    /\ Quietly(EndRest, "WritingEnd")
<1>1. \A m \in Magics : W(Magic(m)) \in QuietInstrs
  BY DEF W, Magic, QuietInstrs, BodyInstrs, BodyWrites, BodyTokens
<1>2. \A k \in Keys : Str(k) \in QuietInstrs
  BY EncoderAssumption, BodyStatements DEF QuietInstrs, BodyInstrs
<1>3. W(Length(0)) \in QuietInstrs
  BY BodyStatements DEF QuietInstrs, BodyInstrs
<1>4. /\ W(Op("opCodeAux")) \in QuietInstrs /\ W(Op("opCodeResizeDB")) \in QuietInstrs
      /\ <<"sum">> \in QuietInstrs
      /\ \A d \in DBs : W(DbIndex(d)) \in QuietInstrs
  BY DEF QuietInstrs
<1>5. \A s : \A x \in QuietInstrs : Quietly(<< x, <<"set", s>> >>, s)
  BY DEF Quietly
<1>6. \A s : \A x, y, z \in QuietInstrs : Quietly(<< x, y, z, <<"set", s>> >>, s)
  BY DEF Quietly
<1>7. \A s : \A u, x, y, z \in QuietInstrs : Quietly(<< u, x, y, z, <<"set", s>> >>, s)
  BY DEF Quietly
<1>8. \A d \in DBs : Quietly(DBRest(d), "WrittenDBHeader")
  BY <1>3, <1>4, <1>7 DEF DBRest
<1>9. Quietly(EndRest, "WritingEnd")
  BY <1>4, <1>5 DEF EndRest
<1> QED BY <1>1, <1>2, <1>4, <1>5, <1>6, <1>8, <1>9

(* The statement a call runs next tells where it is. *)
LEMMA HeadKinds ==
    ASSUME NEW q
    PROVE  /\ \A s : Quietly(q, s) => Head(q) \in QuietInstrs \cup {<<"set", s>>}
           /\ ObjectRest(q) => Head(q) \in FlagInstrs \cup ({"ttl"} \X TTLs)
           /\ SetsTTL(q) => Head(q) = <<"set", "WrittenTTL">>
           /\ WritesMs(q) => Head(q)[1] = "write" /\ Head(q)[2][1] = "i64"
                               /\ Head(Tail(q)) = <<"set", "WrittenTTL">>
           /\ WritesExpire(q) => Head(q) = W(Op("opCodeExpireTimeMs"))
           /\ \A d \in DBs : q = DBCall(d) => Head(q) = W(Op("opCodeSelectDB"))
           /\ q = EndCall => Head(q) = W(Op("opCodeEOF"))
           /\ q = EndRest => Head(q) = <<"sum">>
<1>1. \A s : Quietly(q, s) => Head(q) \in QuietInstrs \cup {<<"set", s>>}
  <2>1. \A s : Head(<< <<"set", s>> >>) = <<"set", s>>
    OBVIOUS
  <2> QED BY <2>1, QuietHead
<1>2. WritesMs(q) => Head(q)[1] = "write" /\ Head(q)[2][1] = "i64"
                       /\ Head(Tail(q)) = <<"set", "WrittenTTL">>
  BY DEF WritesMs, SetsTTL, W, Int64
<1>3. \A d \in DBs : q = DBCall(d) => Head(q) = W(Op("opCodeSelectDB"))
  BY EncoderAssumption, DBCallShape
<1> QED BY <1>1, <1>2, <1>3, ObjectHead, EndCallShape DEF SetsTTL, WritesExpire

LEMMA NotEmpty ==
    ASSUME NEW q, q = <<>>
    PROVE  /\ \A s : ~Quietly(q, s)
           /\ ~BeforeFlag(q) /\ ~ObjectRest(q) /\ ~SetsTTL(q) /\ ~WritesMs(q) /\ ~WritesExpire(q)
           /\ \A d \in DBs : q # DBCall(d)
           /\ q # EndCall /\ q # EndRest
BY ObjectHead, EndCallShape, DBCallShape, EncoderAssumption
   DEF Quietly, BeforeFlag, SetsTTL, WritesMs, WritesExpire

(* Where a call is, it is in one place only. *)
LEMMA QuietOnly ==
    ASSUME NEW q, NEW s, s # "WrittenTTL", Quietly(q, s)
    PROVE  /\ q # <<>> /\ ~BeforeFlag(q)
           /\ q # EndCall /\ \A d \in DBs : q # DBCall(d)
           /\ \A r : Quietly(q, r) => r = s
<1>1. Head(q) \in QuietInstrs \cup {<<"set", s>>}
  BY HeadKinds
<1>2. ~ObjectRest(q)
  BY <1>1, HeadKinds, QuietKinds, FlagKinds DEF Marks
<1>3. ~SetsTTL(q)
  BY <1>1, HeadKinds, QuietKinds
<1>4. ~WritesMs(q)
  <2>1. CASE q = << <<"set", s>> >>
    <3>1. Head(q)[1] = "set"
      BY <2>1
    <3> QED BY <3>1, HeadKinds
  <2>2. CASE Quietly(Tail(q), s)
    <3>1. Head(Tail(q)) \in QuietInstrs \cup {<<"set", s>>}
      BY <2>2, HeadKinds
    <3>2. <<"set", "WrittenTTL">> \notin QuietInstrs
      BY QuietKinds
    <3>3. <<"set", "WrittenTTL">> # <<"set", s>>
      OBVIOUS
    <3> QED BY <3>1, <3>2, <3>3, HeadKinds
  <2> QED BY <2>1, <2>2, QuietHead
<1>5. /\ W(Op("opCodeExpireTimeMs")) \notin QuietInstrs \cup {<<"set", s>>}
      /\ W(Op("opCodeSelectDB")) \notin QuietInstrs \cup {<<"set", s>>}
      /\ W(Op("opCodeEOF")) \notin QuietInstrs \cup {<<"set", s>>}
  BY QuietKinds DEF W, Marks
<1>6. ~WritesExpire(q) /\ q # EndCall /\ \A d \in DBs : q # DBCall(d)
  BY <1>1, <1>5, HeadKinds
<1>7. \A r : Quietly(q, r) => r = s
  BY DEF Quietly
<1> QED BY <1>2, <1>3, <1>4, <1>6, <1>7, NotEmpty DEF BeforeFlag

LEMMA FlagOnly ==
    ASSUME NEW q, BeforeFlag(q)
    PROVE  /\ q # <<>> /\ q # EndCall /\ q # EndRest /\ q # << <<"set", "WritingEnd">> >>
           /\ \A d \in DBs : q # DBCall(d)
           /\ \A s : Quietly(q, s) => s = "WrittenTTL"
           /\ ObjectRest(q) => ~SetsTTL(q) /\ ~WritesMs(q) /\ ~WritesExpire(q)
           /\ SetsTTL(q) => ~WritesMs(q) /\ ~WritesExpire(q)
           /\ WritesMs(q) => ~WritesExpire(q)
<1>1. \A s : Quietly(q, s) => s = "WrittenTTL"
  BY QuietOnly
<1>2. Quietly(EndRest, "WritingEnd") /\ Quietly(<< <<"set", "WritingEnd">> >>, "WritingEnd")
  BY QuietCalls DEF Quietly
<1>3. \/ Head(q) \in FlagInstrs \cup ({"ttl"} \X TTLs)
      \/ Head(q) = <<"set", "WrittenTTL">>
      \/ Head(q)[1] = "write" /\ Head(q)[2][1] = "i64"
      \/ Head(q) = W(Op("opCodeExpireTimeMs"))
  BY HeadKinds DEF BeforeFlag
<1>4. q # EndCall /\ \A d \in DBs : q # DBCall(d)
  BY <1>3, HeadKinds, FlagKinds, MarksDiffer DEF W, Op
<1>5. ObjectRest(q) => ~SetsTTL(q) /\ ~WritesMs(q) /\ ~WritesExpire(q)
  BY HeadKinds, FlagKinds, MarksDiffer DEF W, Flags
<1>6. SetsTTL(q) => ~WritesMs(q) /\ ~WritesExpire(q)
  BY HeadKinds DEF W
<1>7. WritesMs(q) => ~WritesExpire(q)
  BY HeadKinds DEF W, Op
<1> QED BY <1>1, <1>2, <1>4, <1>5, <1>6, <1>7, NotEmpty

LEMMA CallOnly ==
    /\ \A d \in DBs : /\ DBCall(d) \notin {<<>>, EndCall, EndRest, << <<"set", "WritingEnd">> >>}
                      /\ ~BeforeFlag(DBCall(d))
                      /\ \A s : Quietly(DBCall(d), s) => s = "WrittenTTL"
    /\ EndCall \notin {<<>>, EndRest, << <<"set", "WritingEnd">> >>}
    /\ ~BeforeFlag(EndCall)
    /\ \A s : Quietly(EndCall, s) => s = "WrittenTTL"
    /\ EndRest # << <<"set", "WritingEnd">> >> /\ EndRest # <<>>
<1>1. /\ \A d \in DBs : /\ ~BeforeFlag(DBCall(d))
                        /\ \A s : Quietly(DBCall(d), s) => s = "WrittenTTL"
      /\ ~BeforeFlag(EndCall)
      /\ \A s : Quietly(EndCall, s) => s = "WrittenTTL"
  BY QuietOnly, FlagOnly
<1>2. /\ \A d \in DBs : Head(DBCall(d)) = W(Op("opCodeSelectDB"))
      /\ Head(EndCall) = W(Op("opCodeEOF")) /\ Head(EndRest) = <<"sum">>
      /\ Head(<< <<"set", "WritingEnd">> >>) = <<"set", "WritingEnd">>
  BY HeadKinds
<1>3. /\ W(Op("opCodeSelectDB")) \notin {W(Op("opCodeEOF")), <<"sum">>, <<"set", "WritingEnd">>}
      /\ W(Op("opCodeEOF")) \notin {<<"sum">>, <<"set", "WritingEnd">>}
      /\ <<"sum">> # <<"set", "WritingEnd">>
  BY DEF W, Op
<1> QED BY <1>1, <1>2, <1>3, NotEmpty

-----------------------------------------------------------------------------
(* What a step of a call does while the writer works. *)

LEMMA Grown ==
    ASSUME out \in Seq(Tokens), NEW t, out' = Append(out, t)
    PROVE  /\ Len(out) \in Nat /\ DOMAIN out = 1..Len(out)
           /\ Len(out') = Len(out) + 1 /\ DOMAIN out' = 1..(Len(out) + 1)
           /\ \A i \in 1..Len(out) : out'[i] = out[i]
           /\ out'[Len(out) + 1] = t
<1> DEFINE S == Tokens \cup {t}
<1>1. out \in Seq(S) /\ t \in S
  OBVIOUS
<1> HIDE DEF S
<1> QED BY <1>1, AppendProperties

LEMMA Prefixed ==
    ASSUME NEW S, NEW p \in Seq(S), p # <<>>, NEW r \in Seq(S)
    PROVE  p \o r # <<>> /\ Head(p \o r) = Head(p) /\ Tail(p \o r) = Tail(p) \o r
<1> DEFINE q == p \o r
<1> DEFINE u == Tail(p) \o r
<1>1. /\ Len(p) \in Nat \ {0} /\ Len(r) \in Nat
      /\ Tail(p) \in Seq(S) /\ Len(Tail(p)) = Len(p) - 1
      /\ \A i \in 1..(Len(p) - 1) : Tail(p)[i] = p[i+1]
      /\ Head(p) = p[1]
  BY HeadTail
<1>2. /\ q \in Seq(S) /\ Len(q) = Len(p) + Len(r)
      /\ \A i \in 1..(Len(p) + Len(r)) : q[i] = IF i <= Len(p) THEN p[i] ELSE r[i - Len(p)]
  BY ConcatProperties
<1>3. /\ u \in Seq(S) /\ Len(u) = Len(Tail(p)) + Len(r)
      /\ \A i \in 1..(Len(Tail(p)) + Len(r)) :
           u[i] = IF i <= Len(Tail(p)) THEN Tail(p)[i] ELSE r[i - Len(Tail(p))]
  BY <1>1, ConcatProperties
<1> HIDE DEF q, u
<1>4. q # <<>>
  BY <1>1, <1>2, EmptySeq
<1>5. /\ Head(q) = q[1] /\ Tail(q) \in Seq(S) /\ Len(Tail(q)) = Len(q) - 1
      /\ \A i \in 1..(Len(q) - 1) : Tail(q)[i] = q[i+1]
  BY <1>2, <1>4, HeadTail
<1>6. Head(q) = Head(p)
  BY <1>1, <1>2, <1>5
<1>7. \A i \in 1..Len(Tail(q)) : Tail(q)[i] = u[i]
  <2> SUFFICES ASSUME NEW i \in 1..Len(Tail(q))
               PROVE  Tail(q)[i] = u[i]
    OBVIOUS
  <2>1. /\ i \in 1..(Len(q) - 1) /\ i + 1 \in 1..(Len(p) + Len(r))
        /\ i \in 1..(Len(Tail(p)) + Len(r))
    BY <1>1, <1>2, <1>5
  <2>2. CASE i <= Len(p) - 1
    <3>1. i + 1 <= Len(p) /\ i <= Len(Tail(p)) /\ i \in 1..(Len(p) - 1)
      BY <1>1, <2>2
    <3> QED BY <1>1, <1>2, <1>3, <1>5, <2>1, <3>1
  <2>3. CASE ~(i <= Len(p) - 1)
    <3>1. ~(i + 1 <= Len(p)) /\ ~(i <= Len(Tail(p))) /\ (i + 1) - Len(p) = i - Len(Tail(p))
      BY <1>1, <2>3
    <3> QED BY <1>2, <1>3, <1>5, <2>1, <3>1
  <2> QED BY <2>2, <2>3
<1>8. Tail(q) = u
  <2>1. Len(Tail(q)) = Len(u)
    BY <1>1, <1>2, <1>3, <1>5
  <2> QED BY <1>3, <1>5, <1>7, <2>1, SeqEqual
<1> QED BY <1>4, <1>6, <1>8 DEF q, u

LEMMA Effects ==
    ASSUME Step, ~WriterFails
    PROVE  /\ todo # <<>>
           /\ now[1] = "write" => out' = Append(out, now[2]) /\ todo' = rest /\ state' = state
           /\ now[1] = "sum" => out' = Append(out, Crc(crc)) /\ todo' = rest /\ state' = state
           /\ now[1] = "lzf" => /\ out' = Append(out, LzfToken(now[2], now[3]))
                                /\ state' = state
                                /\ \/ todo' = rest
                                   \/ /\ now[3] # 1
                                      /\ todo' = << <<"lzf", now[2], now[3] - 1>> >> \o rest
           /\ now[1] \in {"str", "nan"} =>
                /\ out' = out /\ state' = state
                /\ \E ws \in writeString(now[2]) \cup writeNanString(now[2]) : todo' = ws \o rest
           /\ now[1] = "set" => out' = out /\ todo' = rest /\ state' = now[2]
<1>1. CASE WriteToken
  BY <1>1 DEF WriteToken, Write, Idle
<1>2. CASE WriteLzfToken
  BY <1>2 DEF WriteLzfToken, Write, Idle
<1>3. CASE WriteSum
  BY <1>3 DEF WriteSum, Idle
<1>4. CASE WriteStr
  BY <1>4 DEF WriteStr, Idle
<1>5. CASE WriteTTL
  BY <1>5 DEF WriteTTL, Idle
<1>6. CASE SetState
  BY <1>6 DEF SetState, Idle
<1> QED BY <1>1, <1>2, <1>3, <1>4, <1>5, <1>6 DEF Step

LEMMA TTLEffect ==
    ASSUME Step, ~WriterFails, now[1] = "ttl"
    PROVE  /\ out' = out /\ state' = state
           /\ \/ /\ validateStateChange("WrittenTTL")
                 /\ todo' = << W(Op("opCodeExpireTimeMs")), W(Int64(now[2])),
                               <<"set", "WrittenTTL">> >> \o rest
              \/ ~validateStateChange("WrittenTTL") /\ todo' = <<>>
<1>1. WriteTTL
  BY DEF Step, WriteToken, WriteLzfToken, WriteSum, WriteStr, SetState
<1> QED BY <1>1 DEF WriteTTL

(* A call that writes no mark goes on writing none. *)
LEMMA QuietStep ==
    ASSUME TypeInv, Step, ~WriterFails, NEW s, Quietly(todo, s)
    PROVE  \/ todo = << <<"set", s>> >> /\ todo' = <<>> /\ state' = s /\ out' = out
           \/ /\ todo # << <<"set", s>> >>
              /\ Quietly(todo', s) /\ state' = state
              /\ out' = out \/ \E t : t \notin Marks /\ out' = Append(out, t)
              /\ todo = EndRest => /\ todo' = << <<"set", "WritingEnd">> >>
                                   /\ \E t : t \notin Marks /\ out' = Append(out, t)
<1>1. CASE todo = << <<"set", s>> >>
  <2>1. now = <<"set", s>> /\ rest = <<>>
    BY <1>1 DEF now, rest
  <2> QED BY <1>1, <2>1, Effects
<1>2. CASE now \in QuietInstrs /\ Quietly(rest, s) /\ todo # << <<"set", s>> >>
  <2>1. CASE now[1] = "write"
    <3>1. todo # EndRest
      BY <2>1, EndCallShape DEF now
    <3>2. now[2] \notin Marks
      BY <1>2, <2>1, QuietKinds
    <3> QED BY <1>2, <2>1, <3>1, <3>2, Effects
  <2>2. CASE now[1] = "sum"
    <3>1. Crc(crc) \notin Marks
      BY DEF Crc, Marks, Flags, Op
    <3>2. todo = EndRest => rest = << <<"set", "WritingEnd">> >>
      BY EndCallShape DEF rest
    <3> QED BY <1>2, <2>2, <3>1, <3>2, Effects
  <2>3. CASE now[1] = "lzf"
    <3>1. now[2] \in Bytes /\ now[3] \in 1..4
      BY <1>2, <2>3, QuietKinds
    <3>2. LzfToken(now[2], now[3]) \notin Marks
      BY <3>1, LzfTokens DEF BodyTokens, Marks, Flags, Op, LzfMark
    <3>3. ASSUME now[3] # 1
          PROVE  Quietly(<< <<"lzf", now[2], now[3] - 1>> >> \o rest, s)
      <4>1. <<"lzf", now[2], now[3] - 1>> \in QuietInstrs
        BY <3>1, <3>3 DEF QuietInstrs, BodyInstrs
      <4>2. << <<"lzf", now[2], now[3] - 1>> >> \in Seq(QuietInstrs)
        BY <4>1
      <4> QED BY <1>2, <4>2, QuietConcat
    <3>4. todo # EndRest
      BY <2>3, EndCallShape DEF now
    <3> QED BY <1>2, <2>3, <3>2, <3>3, <3>4, Effects
  <2>4. CASE now[1] \in {"str", "nan"}
    <3>1. now[2] \in Bytes
      BY <1>2, <2>4, QuietKinds
    <3>2. PICK ws \in writeString(now[2]) \cup writeNanString(now[2]) :
               todo' = ws \o rest /\ out' = out /\ state' = state
      BY <2>4, Effects
    <3>3. ws \in Seq(BodyInstrs)
      BY <3>1, <3>2, StringWrites
    <3>4. ws \in Seq(QuietInstrs)
      BY <3>3 DEF QuietInstrs
    <3>5. Quietly(todo', s)
      BY <1>2, <3>2, <3>4, QuietConcat
    <3>6. todo # EndRest
      BY <2>4, EndCallShape DEF now
    <3> QED BY <1>2, <3>2, <3>5, <3>6
  <2> QED BY <1>2, <2>1, <2>2, <2>3, <2>4, QuietKinds
<1>3. todo = << <<"set", s>> >> \/ (now \in QuietInstrs /\ Quietly(rest, s))
  BY QuietHead DEF now, rest
<1> QED BY <1>1, <1>2, <1>3

(* Before its type flag, a call that writes an object takes its TTL        *)
(* options, is refused at the second one, or writes the flag.              *)
LEMMA FlagStep ==
    ASSUME Step, ~WriterFails, BeforeFlag(todo), state \in InDB
    PROVE  \/ /\ ObjectRest(todo) /\ state # "WrittenTTL"
              /\ WritesExpire(todo') /\ state' = state /\ out' = out
           \/ /\ ObjectRest(todo) /\ state = "WrittenTTL"
              /\ todo' = <<>> /\ state' = state /\ out' = out
           \/ /\ ObjectRest(todo)
              /\ Quietly(todo', "WrittenObject") /\ state' = state
              /\ \E t \in Flags : out' = Append(out, t)
           \/ /\ WritesExpire(todo) /\ WritesMs(todo') /\ state' = state
              /\ out' = Append(out, Op("opCodeExpireTimeMs"))
           \/ /\ WritesMs(todo) /\ SetsTTL(todo') /\ state' = state
              /\ \E t : t \notin Marks /\ out' = Append(out, t)
           \/ /\ SetsTTL(todo) /\ ObjectRest(todo')
              /\ state' = "WrittenTTL" /\ out' = out
<1>1. CASE ObjectRest(todo) /\ now \in {"ttl"} \X TTLs /\ ObjectRest(rest)
  <2>1. now[1] = "ttl" /\ now[2] \in TTLs
    BY <1>1
  <2>2. validateStateChange("WrittenTTL") <=> state # "WrittenTTL"
    BY DEF validateStateChange, stateChanges, States, InDB
  <2>3. CASE state # "WrittenTTL"
    <3> DEFINE e == W(Op("opCodeExpireTimeMs"))
    <3> DEFINE m == W(Int64(now[2]))
    <3> DEFINE x == <<"set", "WrittenTTL">>
    <3>1. todo' = << e, m, x >> \o rest /\ out' = out /\ state' = state
      BY <2>1, <2>2, <2>3, TTLEffect
    <3>2. rest \in Seq(PlainInstrs)
      BY <1>1 DEF ObjectRest
    <3>3. e \in PlainInstrs /\ m \in PlainInstrs /\ x \in PlainInstrs
      <4>1. TTLs \subseteq Int
        BY EncoderAssumption
      <4>2. now[2] \in Int
        BY <2>1, <4>1, Zenon
      <4> QED BY <4>2, PlainStatements DEF OpCodes, States
    <3> HIDE DEF e, m, x
    <3>4. /\ <<e, m, x>> \in Seq(PlainInstrs) /\ <<e, m, x>> # <<>>
          /\ <<m, x>> \in Seq(PlainInstrs) /\ <<m, x>> # <<>>
          /\ <<x>> \in Seq(PlainInstrs) /\ <<x>> # <<>>
      BY <3>3
    <3>5. <<>> \o rest = rest
      BY <3>2, ConcatEmptySeq
    <3>6. Head(<<e, m, x>>) = e /\ Tail(<<e, m, x>>) = <<m, x>>
      OBVIOUS
    <3>7. Head(<<m, x>>) = m /\ Tail(<<m, x>>) = <<x>>
      OBVIOUS
    <3>8. Head(<<x>>) = x /\ Tail(<<x>>) = <<>>
      OBVIOUS
    <3>9. todo' # <<>> /\ Head(todo') = e /\ Tail(todo') = <<m, x>> \o rest
      BY <3>1, <3>2, <3>4, <3>6, Prefixed
    <3>10. <<m, x>> \o rest # <<>> /\ Head(<<m, x>> \o rest) = m /\ Tail(<<m, x>> \o rest) = <<x>> \o rest
      BY <3>2, <3>4, <3>7, Prefixed
    <3>11. <<x>> \o rest # <<>> /\ Head(<<x>> \o rest) = x /\ Tail(<<x>> \o rest) = rest
      BY <3>2, <3>4, <3>5, <3>8, Prefixed
    <3>12. /\ todo' # <<>> /\ Head(todo') = e
          /\ Tail(todo') = << m, x >> \o rest
          /\ Tail(todo') # <<>> /\ Head(Tail(todo')) = m
          /\ Tail(Tail(todo')) = << x >> \o rest
          /\ Tail(Tail(todo')) # <<>> /\ Head(Tail(Tail(todo'))) = x
          /\ Tail(Tail(Tail(todo'))) = rest
      BY <3>9, <3>10, <3>11
    <3>13. SetsTTL(Tail(Tail(todo')))
      BY <1>1, <3>12 DEF SetsTTL, x
    <3>14. WritesMs(Tail(todo'))
      BY <2>1, <3>12, <3>13 DEF WritesMs, m
    <3>15. WritesExpire(todo')
      BY <3>12, <3>14 DEF WritesExpire, e
    <3> QED BY <1>1, <2>3, <3>1, <3>15
  <2>4. CASE state = "WrittenTTL"
    BY <1>1, <2>1, <2>2, <2>4, TTLEffect
  <2> QED BY <2>3, <2>4
<1>2. CASE ObjectRest(todo) /\ now \in FlagInstrs /\ Quietly(rest, "WrittenObject")
  BY <1>2, FlagKinds, Effects
<1>3. CASE WritesExpire(todo)
  <2>1. now[1] = "write" /\ now[2] = Op("opCodeExpireTimeMs") /\ WritesMs(rest)
    BY <1>3 DEF WritesExpire, now, rest, W
  <2> QED BY <1>3, <2>1, Effects
<1>4. CASE WritesMs(todo)
  <2>1. PICK n : now = W(Int64(n))
    BY <1>4 DEF WritesMs, now
  <2>2. now[1] = "write" /\ now[2] = Int64(n) /\ SetsTTL(rest)
    BY <1>4, <2>1 DEF WritesMs, now, rest, W
  <2>3. Int64(n) \notin Marks
    BY DEF Int64, Marks, Flags, Op
  <2> QED BY <1>4, <2>2, <2>3, Effects
<1>5. CASE SetsTTL(todo)
  <2>1. now[1] = "set" /\ now[2] = "WrittenTTL" /\ ObjectRest(rest)
    BY <1>5 DEF SetsTTL, now, rest
  <2> QED BY <1>5, <2>1, Effects
<1> QED BY <1>1, <1>2, <1>3, <1>4, <1>5, ObjectHead DEF BeforeFlag, now, rest

(* WriteDBHeader and WriteEnd write their opcode first. *)
LEMMA OpcodeStep ==
    ASSUME Step, ~WriterFails
    PROVE  /\ \A d \in DBs : todo = DBCall(d) =>
                /\ Quietly(todo', "WrittenDBHeader") /\ state' = state
                /\ out' = Append(out, Op("opCodeSelectDB"))
           /\ todo = EndCall => /\ todo' = EndRest /\ state' = state
                                /\ out' = Append(out, Op("opCodeEOF"))
<1>1. ASSUME NEW d \in DBs, todo = DBCall(d)
      PROVE  /\ Quietly(todo', "WrittenDBHeader") /\ state' = state
             /\ out' = Append(out, Op("opCodeSelectDB"))
  <2>1. now = W(Op("opCodeSelectDB")) /\ rest = DBRest(d)
    BY <1>1, DBCallShape, EncoderAssumption DEF now, rest
  <2>2. now[1] = "write" /\ now[2] = Op("opCodeSelectDB")
    BY <2>1 DEF W
  <2> QED BY <2>1, <2>2, Effects, QuietCalls
<1>2. ASSUME todo = EndCall
      PROVE  /\ todo' = EndRest /\ state' = state
             /\ out' = Append(out, Op("opCodeEOF"))
  <2>1. now = W(Op("opCodeEOF")) /\ rest = EndRest
    BY <1>2, EndCallShape DEF now, rest
  <2>2. now[1] = "write" /\ now[2] = Op("opCodeEOF")
    BY <2>1 DEF W
  <2> QED BY <2>1, <2>2, Effects
<1> QED BY <1>1, <1>2

-----------------------------------------------------------------------------
(* A step keeps the grammar. *)

LEMMA PhaseStep ==
    ASSUME TypeInv, PhaseInv, Step, ~WriterFails
    PROVE  PhaseInv'
<1>1. todo # <<>>
  BY Effects
<1>2. ASSUME NEW s \in States \ {"WrittenTTL"}, Quietly(todo, s)
      PROVE  PhaseInv'
  BY <1>2, QuietStep DEF PhaseInv, Idle
<1>3. ASSUME NEW d \in DBs, todo = DBCall(d)
      PROVE  PhaseInv'
  <2>1. Quietly(todo', "WrittenDBHeader")
    BY <1>3, OpcodeStep
  <2> QED BY <2>1 DEF PhaseInv, States
<1>4. CASE todo = EndCall
  <2>1. Quietly(todo', "WritingEnd")
    BY <1>4, OpcodeStep, QuietCalls
  <2> QED BY <2>1 DEF PhaseInv, States
<1>5. CASE BeforeFlag(todo) /\ state \in InDB
  <2>1. \/ todo' = <<>>
        \/ Quietly(todo', "WrittenObject")
        \/ BeforeFlag(todo') /\ state' \in InDB
    BY <1>5, FlagStep DEF BeforeFlag, InDB
  <2> QED BY <2>1 DEF PhaseInv, Idle, States
<1> QED BY <1>1, <1>2, <1>3, <1>4, <1>5 DEF PhaseInv, Idle

(* Where the last two databases, expirations and the EOF may be: in the    *)
(* phases that are not about them there is none left open.                 *)
LEMMA Settled ==
    ASSUME out \in Seq(Tokens), FilledInv, TTLInv, EOFInv, todo # <<>>
    PROVE  /\ ~BeforeFlag(todo) /\ ~Quietly(todo, "WrittenDBHeader") => Filled
           /\ ~BeforeFlag(todo) \/ (ObjectRest(todo) /\ state # "WrittenTTL") \/ WritesExpire(todo) =>
                \A i \in DOMAIN out : i >= Len(out) - 1 => out[i] # Op("opCodeExpireTimeMs")
           /\ todo \notin {EndRest, << <<"set", "WritingEnd">> >>} =>
                \A i \in DOMAIN out : out[i] # Op("opCodeEOF")
<1>1. ~BeforeFlag(todo) /\ ~Quietly(todo, "WrittenDBHeader") => Filled
  BY DEF FilledInv, Idle
<1>2. ASSUME ~BeforeFlag(todo) \/ (ObjectRest(todo) /\ state # "WrittenTTL") \/ WritesExpire(todo),
             NEW i \in DOMAIN out, i >= Len(out) - 1
      PROVE  out[i] # Op("opCodeExpireTimeMs")
  <2>1. /\ ~WritesMs(todo) /\ ~SetsTTL(todo)
        /\ ~(state = "WrittenTTL" /\ (Idle \/ ObjectRest(todo)))
    BY <1>2, FlagOnly DEF BeforeFlag, Idle
  <2>2. i = Len(out) \/ i = Len(out) - 1
    <3>1. Len(out) \in Nat /\ i \in 1..Len(out)
      OBVIOUS
    <3> QED BY <1>2, <3>1
  <2> QED BY <1>2, <2>1, <2>2 DEF TTLInv
<1>3. todo \notin {EndRest, << <<"set", "WritingEnd">> >>} =>
        \A i \in DOMAIN out : out[i] # Op("opCodeEOF")
  BY DEF EOFInv, Idle
<1> QED BY <1>1, <1>2, <1>3

(* The four effects a step can have on the file, and what they leave of    *)
(* each part of the grammar.                                               *)
LEMMA FilledGrows ==
    ASSUME out \in Seq(Tokens), Filled,
           out' = out \/ \E t : t # Op("opCodeSelectDB") /\ out' = Append(out, t)
    PROVE  Filled'
<1>1. CASE out' = out
  BY <1>1 DEF Filled
<1>2. ASSUME NEW t, t # Op("opCodeSelectDB"), out' = Append(out, t)
      PROVE  Filled'
  <2> SUFFICES ASSUME NEW i \in DOMAIN out', out'[i] = Op("opCodeSelectDB")
               PROVE  \E k \in i..Len(out') : out'[k] \in Flags
    BY DEF Filled
  <2>1. i \in 1..Len(out) /\ i \in DOMAIN out /\ out[i] = Op("opCodeSelectDB") /\ Len(out) \in Nat
    BY <1>2, Grown
  <2>2. PICK k \in i..Len(out) : out[k] \in Flags
    BY <2>1 DEF Filled
  <2>3. k \in 1..Len(out) /\ k \in i..(Len(out) + 1)
    BY <2>1
  <2> QED BY <1>2, <2>2, <2>3, Grown
<1> QED BY <1>1, <1>2

LEMMA FlagFills ==
    ASSUME out \in Seq(Tokens), NEW t \in Flags, out' = Append(out, t)
    PROVE  Filled'
<1> SUFFICES ASSUME NEW i \in DOMAIN out'
             PROVE  \E k \in i..Len(out') : out'[k] \in Flags
  BY DEF Filled
<1>1. i \in 1..(Len(out) + 1) /\ Len(out) \in Nat /\ Len(out') = Len(out) + 1
  BY Grown
<1>2. Len(out) + 1 \in i..Len(out')
  BY <1>1
<1> QED BY <1>2, Grown

LEMMA FullGrows ==
    ASSUME out \in Seq(Tokens), DBsFull, NEW t, out' = Append(out, t),
           t \in {Op("opCodeSelectDB"), Op("opCodeEOF")} => Filled
    PROVE  DBsFull'
<1> SUFFICES ASSUME NEW i \in DOMAIN out', NEW j \in DOMAIN out', i < j,
                    out'[i] = Op("opCodeSelectDB"),
                    out'[j] \in {Op("opCodeSelectDB"), Op("opCodeEOF")}
             PROVE  \E k \in i..j : out'[k] \in Flags
  BY DEF DBsFull
<1>1. /\ Len(out) \in Nat /\ i \in 1..Len(out) /\ j \in 1..(Len(out) + 1)
      /\ out'[i] = out[i] /\ i \in DOMAIN out
  BY Grown
<1>2. CASE j \in 1..Len(out)
  <2>1. out'[j] = out[j] /\ j \in DOMAIN out
    BY <1>2, Grown
  <2>2. PICK k \in i..j : out[k] \in Flags
    BY <1>1, <2>1 DEF DBsFull
  <2>3. k \in 1..Len(out)
    BY <1>1, <1>2
  <2> QED BY <2>2, <2>3, Grown
<1>3. CASE j = Len(out) + 1
  <2>1. Filled
    BY <1>3, Grown
  <2>2. PICK k \in i..Len(out) : out[k] \in Flags
    BY <1>1, <2>1 DEF Filled
  <2>3. k \in 1..Len(out) /\ k \in i..j
    BY <1>1, <1>3
  <2> QED BY <2>2, <2>3, Grown
<1> QED BY <1>1, <1>2, <1>3

LEMMA FollowedGrows ==
    ASSUME out \in Seq(Tokens), TTLsFollowed, NEW t, out' = Append(out, t),
           \/ t \in Flags
           \/ \A i \in DOMAIN out : i >= Len(out) - 1 => out[i] # Op("opCodeExpireTimeMs")
           \/ Len(out) - 1 \notin DOMAIN out
           \/ out[Len(out) - 1] # Op("opCodeExpireTimeMs")
    PROVE  TTLsFollowed'
<1> SUFFICES ASSUME NEW i \in DOMAIN out', out'[i] = Op("opCodeExpireTimeMs"),
                    i + 2 \in DOMAIN out'
             PROVE  out'[i + 2] \in Flags
  BY DEF TTLsFollowed
<1>1. /\ Len(out) \in Nat /\ i \in 1..(Len(out) + 1) /\ i + 2 \in 1..(Len(out) + 1)
  BY Grown
<1>2. i \in 1..Len(out) /\ i \in DOMAIN out /\ out[i] = Op("opCodeExpireTimeMs")
  <2>1. i \in 1..Len(out)
    BY <1>1
  <2> QED BY <2>1, Grown
<1>3. CASE i + 2 \in 1..Len(out)
  BY <1>2, <1>3, Grown DEF TTLsFollowed
<1>4. CASE i + 2 = Len(out) + 1
  <2>1. i = Len(out) - 1 /\ i >= Len(out) - 1
    BY <1>1, <1>4
  <2>2. t \in Flags
    BY <1>2, <2>1
  <2> QED BY <1>4, <2>2, Grown
<1> QED BY <1>1, <1>3, <1>4

NoExpire == \A i \in DOMAIN out : i >= Len(out) - 1 => out[i] # Op("opCodeExpireTimeMs")
NoEOF    == \A i \in DOMAIN out : out[i] # Op("opCodeEOF")

LEMMA StillNoExpire ==
    ASSUME out \in Seq(Tokens), NoExpire, TTLsFollowed,
           out' = out \/ \E t : t # Op("opCodeExpireTimeMs") /\ out' = Append(out, t)
    PROVE  TTLInv' /\ TTLsFollowed'
<1>1. CASE out' = out
  <2>1. NoExpire' /\ TTLsFollowed' /\ Len(out') \in Nat
    BY <1>1 DEF NoExpire, TTLsFollowed
  <2> QED BY <2>1 DEF NoExpire, TTLInv
<1>2. ASSUME NEW t, t # Op("opCodeExpireTimeMs"), out' = Append(out, t)
      PROVE  TTLInv' /\ TTLsFollowed'
  <2>1. TTLsFollowed'
    BY <1>2, FollowedGrows DEF NoExpire
  <2>2. ASSUME NEW i \in DOMAIN out', i >= Len(out') - 1
        PROVE  out'[i] # Op("opCodeExpireTimeMs")
    <3>1. /\ Len(out) \in Nat /\ i \in 1..(Len(out) + 1)
          /\ i >= Len(out)
      BY <1>2, <2>2, Grown
    <3>2. CASE i = Len(out) + 1
      BY <1>2, <3>2, Grown
    <3>3. CASE i = Len(out) /\ i \in 1..Len(out)
      <4>1. i \in DOMAIN out /\ i >= Len(out) - 1 /\ out'[i] = out[i]
        BY <1>2, <3>1, <3>3, Grown
      <4> QED BY <4>1 DEF NoExpire
    <3> QED BY <3>1, <3>2, <3>3
  <2>3. Len(out') \in Nat
    BY <1>2, Grown
  <2> QED BY <2>1, <2>2, <2>3 DEF TTLInv
<1> QED BY <1>1, <1>2

LEMMA StillNoEOF ==
    ASSUME out \in Seq(Tokens), NoEOF,
           out' = out \/ \E t : t # Op("opCodeEOF") /\ out' = Append(out, t)
    PROVE  EOFInv'
<1>1. CASE out' = out
  BY <1>1 DEF NoEOF, EOFInv
<1>2. ASSUME NEW t, t # Op("opCodeEOF"), out' = Append(out, t)
      PROVE  EOFInv'
  <2>1. \A i \in DOMAIN out' : out'[i] # Op("opCodeEOF")
    <3> SUFFICES ASSUME NEW i \in DOMAIN out'
                 PROVE  out'[i] # Op("opCodeEOF")
      OBVIOUS
    <3>1. i \in 1..Len(out) \/ i = Len(out) + 1
      BY <1>2, Grown
    <3> QED BY <1>2, <3>1, Grown DEF NoEOF
  <2> QED BY <2>1 DEF EOFInv
<1> QED BY <1>1, <1>2

(* The parts of the grammar that are about the file. *)
FileGrammar == FilledInv /\ TTLInv /\ EOFInv /\ DBsFull /\ TTLsFollowed

LEMMA QuietGrammar ==
    ASSUME TypeInv, FileGrammar, Step, ~WriterFails,
           NEW s \in States \ {"WrittenTTL"}, Quietly(todo, s)
    PROVE  FileGrammar'
<1>1. out \in Seq(Tokens) /\ todo # <<>> /\ ~BeforeFlag(todo)
        /\ (Quietly(todo, "WrittenDBHeader") => s = "WrittenDBHeader")
        /\ (todo = EndRest => s = "WritingEnd")
        /\ (todo = << <<"set", "WritingEnd">> >> => s = "WritingEnd")
  <2>1. Quietly(EndRest, "WritingEnd") /\ Quietly(<< <<"set", "WritingEnd">> >>, "WritingEnd")
    BY QuietCalls DEF Quietly
  <2>2. out \in Seq(Tokens)
    BY DEF TypeInv, TypeOK
  <2>3. todo # <<>> /\ ~BeforeFlag(todo) /\ \A r : Quietly(todo, r) => r = s
    BY QuietOnly
  <2> QED BY <2>1, <2>2, <2>3
<1>2. /\ s # "WrittenDBHeader" => Filled
      /\ NoExpire
      /\ todo \notin {EndRest, << <<"set", "WritingEnd">> >>} => NoEOF
  BY <1>1, Settled DEF FileGrammar, NoExpire, NoEOF
<1>3. out' = out \/ \E t : t \notin Marks /\ out' = Append(out, t)
  BY QuietStep
<1>4. /\ out' = out \/ \E t : t # Op("opCodeSelectDB") /\ out' = Append(out, t)
      /\ out' = out \/ \E t : t # Op("opCodeExpireTimeMs") /\ out' = Append(out, t)
      /\ out' = out \/ \E t : t # Op("opCodeEOF") /\ out' = Append(out, t)
  BY <1>3 DEF Marks
<1>5. TTLInv' /\ TTLsFollowed'
  BY <1>1, <1>2, <1>4, StillNoExpire DEF FileGrammar
<1>6. DBsFull'
  <2>1. CASE out' = out
    BY <2>1 DEF FileGrammar, DBsFull
  <2>2. ASSUME NEW t, t \notin Marks, out' = Append(out, t)
        PROVE  DBsFull'
    BY <1>1, <2>2, FullGrows DEF FileGrammar, Marks
  <2> QED BY <1>3, <2>1, <2>2
<1>7. FilledInv'
  <2>1. CASE s # "WrittenDBHeader"
    <3>1. Filled'
      BY <1>1, <1>2, <1>4, <2>1, FilledGrows
    <3> QED BY <3>1 DEF FilledInv
  <2>2. CASE s = "WrittenDBHeader"
    <3>1. \/ todo' = <<>> /\ state' = "WrittenDBHeader"
          \/ Quietly(todo', "WrittenDBHeader")
      BY <2>2, QuietStep
    <3> QED BY <3>1 DEF FilledInv, Idle
  <2> QED BY <2>1, <2>2
<1>8. \/ todo = << <<"set", s>> >> /\ todo' = <<>> /\ state' = s /\ out' = out
      \/ todo # << <<"set", s>> >>
  BY QuietStep
<1>9. EOFInv'
  <2>1. CASE todo \notin {EndRest, << <<"set", "WritingEnd">> >>}
    BY <1>1, <1>2, <1>4, <2>1, StillNoEOF
  <2>2. CASE todo = << <<"set", "WritingEnd">> >>
    <3>0. s = "WritingEnd" /\ todo = << <<"set", s>> >>
      BY <1>1, <2>2
    <3>1. todo' = <<>> /\ state' = "WritingEnd" /\ out' = out
      BY <1>8, <3>0
    <3>2. \A i \in DOMAIN out : out[i] = Op("opCodeEOF") => i = Len(out) - 1
      <4>1. todo # EndRest
        BY <2>2, CallOnly
      <4> QED BY <4>1 DEF FileGrammar, EOFInv
    <3> QED BY <3>1, <3>2 DEF EOFInv, Idle
  <2>3. CASE todo = EndRest
    <3>0. todo # << <<"set", s>> >>
      <4>1. Head(<< <<"set", s>> >>) = <<"set", s>> /\ Head(EndRest) = <<"sum">>
        BY EndCallShape
      <4>2. <<"set", s>> # <<"sum">>
        OBVIOUS
      <4> QED BY <2>3, <4>1, <4>2
    <3>1. PICK t : t \notin Marks /\ out' = Append(out, t)
      BY <2>3, <3>0, QuietStep
    <3>2. todo' = << <<"set", "WritingEnd">> >>
      BY <2>3, <3>0, QuietStep
    <3>3. \A i \in DOMAIN out : out[i] = Op("opCodeEOF") => i = Len(out)
      BY <2>3, CallOnly DEF FileGrammar, EOFInv, Idle
    <3> SUFFICES ASSUME NEW i \in DOMAIN out', out'[i] = Op("opCodeEOF")
                 PROVE  i = Len(out') - 1
      BY <3>2 DEF EOFInv
    <3>4. i \in 1..Len(out) /\ out[i] = Op("opCodeEOF")
      <4>1. i \in 1..Len(out) \/ i = Len(out) + 1
        BY <1>1, <3>1, Grown
      <4>2. out'[Len(out) + 1] # Op("opCodeEOF")
        BY <1>1, <3>1, Grown DEF Marks
      <4> QED BY <1>1, <3>1, <4>1, <4>2, Grown
    <3>5. Len(out') = Len(out) + 1 /\ i \in DOMAIN out /\ Len(out) \in Nat
      BY <1>1, <3>1, <3>4, Grown
    <3> QED BY <3>3, <3>4, <3>5
  <2> QED BY <2>1, <2>2, <2>3
<1> QED BY <1>5, <1>6, <1>7, <1>9 DEF FileGrammar

LEMMA FlagGrammar ==
    ASSUME TypeInv, FileGrammar, Step, ~WriterFails, BeforeFlag(todo), state \in InDB
    PROVE  FileGrammar'
<1>1. out \in Seq(Tokens) /\ todo # <<>>
        /\ todo \notin {EndRest, << <<"set", "WritingEnd">> >>}
  BY FlagOnly DEF TypeInv, TypeOK
<1>2. NoEOF
  BY <1>1, Settled DEF FileGrammar, NoEOF
<1>3. /\ ObjectRest(todo) => ~WritesMs(todo) /\ ~SetsTTL(todo) /\ ~WritesExpire(todo)
      /\ SetsTTL(todo) => ~WritesMs(todo) /\ ~WritesExpire(todo)
      /\ WritesMs(todo) => ~WritesExpire(todo)
  BY FlagOnly
<1>4. ASSUME out' = out, BeforeFlag(todo') \/ (todo' = <<>> /\ state' = "WrittenTTL")
      PROVE  FilledInv' /\ EOFInv' /\ DBsFull' /\ TTLsFollowed'
  BY <1>1, <1>2, <1>4, StillNoEOF DEF FileGrammar, FilledInv, DBsFull, TTLsFollowed, Idle
<1>5. CASE /\ ObjectRest(todo) /\ state # "WrittenTTL"
           /\ WritesExpire(todo') /\ state' = state /\ out' = out
  <2>1. NoExpire
    BY <1>1, <1>5, Settled DEF FileGrammar, NoExpire
  <2>2. TTLInv'
    BY <1>1, <1>5, <2>1, StillNoExpire DEF FileGrammar
  <2> QED BY <1>4, <1>5, <2>2 DEF FileGrammar, BeforeFlag
<1>6. CASE /\ ObjectRest(todo) /\ state = "WrittenTTL"
           /\ todo' = <<>> /\ state' = state /\ out' = out
  <2>1. TTLInv'
    BY <1>3, <1>6 DEF FileGrammar, TTLInv, Idle
  <2> QED BY <1>4, <1>6, <2>1 DEF FileGrammar
<1>7. ASSUME ObjectRest(todo), NEW t \in Flags, out' = Append(out, t)
      PROVE  FileGrammar'
  <2>1. t \notin {Op("opCodeSelectDB"), Op("opCodeEOF"), Op("opCodeExpireTimeMs")}
    BY <1>7, MarksDiffer
  <2>2. Filled' /\ DBsFull' /\ TTLsFollowed' /\ EOFInv'
    BY <1>1, <1>2, <1>7, <2>1, FlagFills, FullGrows, FollowedGrows, StillNoEOF DEF FileGrammar
  <2>3. TTLInv'
    <3>1. Len(out) \in DOMAIN out => out[Len(out)] # Op("opCodeExpireTimeMs")
      BY <1>3, <1>7 DEF FileGrammar, TTLInv
    <3>2. /\ Len(out) \in Nat /\ DOMAIN out = 1..Len(out)
          /\ Len(out') = Len(out) + 1 /\ out'[Len(out) + 1] = t
          /\ \A i \in 1..Len(out) : out'[i] = out[i]
          /\ DOMAIN out' = 1..(Len(out) + 1)
      BY <1>1, <1>7, Grown
    <3>3. /\ Len(out') - 1 = Len(out)
          /\ Len(out') - 1 \in DOMAIN out' => Len(out) \in DOMAIN out /\ out'[Len(out)] = out[Len(out)]
      <4>1. Len(out') - 1 = Len(out)
        BY <3>2
      <4>2. Len(out) \in 1..(Len(out) + 1) => Len(out) \in 1..Len(out)
        BY <3>2
      <4> QED BY <3>2, <4>1, <4>2
    <3> QED BY <2>1, <3>1, <3>2, <3>3 DEF TTLInv
  <2> QED BY <2>2, <2>3 DEF FileGrammar, FilledInv
<1>8. CASE /\ WritesExpire(todo) /\ WritesMs(todo')
           /\ out' = Append(out, Op("opCodeExpireTimeMs"))
  <2> DEFINE e == Op("opCodeExpireTimeMs")
  <2>1. NoExpire
    BY <1>1, <1>8, Settled DEF FileGrammar, NoExpire
  <2>2. DBsFull' /\ TTLsFollowed' /\ EOFInv'
    BY <1>1, <1>2, <1>8, <2>1, MarksDiffer, FullGrows, FollowedGrows, StillNoEOF DEF FileGrammar, NoExpire
  <2>3. TTLInv'
    <3>1. /\ Len(out) \in Nat /\ DOMAIN out = 1..Len(out)
          /\ Len(out') = Len(out) + 1 /\ DOMAIN out' = 1..(Len(out) + 1)
          /\ \A i \in 1..Len(out) : out'[i] = out[i]
      BY <1>1, <1>8, Grown
    <3>2. Len(out') - 1 \in DOMAIN out' => out'[Len(out') - 1] # e
      <4>1. Len(out') - 1 = Len(out)
        BY <3>1
      <4>2. ASSUME Len(out) \in DOMAIN out'
            PROVE  out'[Len(out)] # e
        <5>1. Len(out) \in 1..Len(out) /\ Len(out) >= Len(out) - 1
          BY <3>1, <4>2
        <5> QED BY <2>1, <3>1, <5>1 DEF NoExpire
      <4> QED BY <4>1, <4>2
    <3> QED BY <1>8, <3>2 DEF TTLInv
  <2> QED BY <1>8, <2>2, <2>3 DEF FileGrammar, FilledInv, BeforeFlag
<1>9. ASSUME WritesMs(todo), SetsTTL(todo'), NEW t, t \notin Marks, out' = Append(out, t)
      PROVE  FileGrammar'
  <2>1. t \notin {Op("opCodeSelectDB"), Op("opCodeEOF"), Op("opCodeExpireTimeMs")}
    BY <1>9 DEF Marks
  <2>2. Len(out) - 1 \in DOMAIN out => out[Len(out) - 1] # Op("opCodeExpireTimeMs")
    BY <1>1, <1>3, <1>9 DEF FileGrammar, TTLInv, Idle
  <2>3. DBsFull' /\ TTLsFollowed' /\ EOFInv'
    BY <1>1, <1>2, <1>9, <2>1, <2>2, FullGrows, FollowedGrows, StillNoEOF DEF FileGrammar
  <2>4. TTLInv'
    <3>1. Len(out') = Len(out) + 1 /\ out'[Len(out) + 1] = t
      BY <1>1, <1>9, Grown
    <3> QED BY <1>9, <2>1, <3>1 DEF TTLInv
  <2> QED BY <1>9, <2>3, <2>4 DEF FileGrammar, FilledInv, BeforeFlag
<1>10. CASE SetsTTL(todo) /\ ObjectRest(todo') /\ state' = "WrittenTTL" /\ out' = out
  <2>1. TTLInv'
    BY <1>3, <1>10 DEF FileGrammar, TTLInv
  <2> QED BY <1>4, <1>10, <2>1 DEF FileGrammar, BeforeFlag
<1> QED BY <1>5, <1>6, <1>7, <1>8, <1>9, <1>10, FlagStep

LEMMA OpcodeGrammar ==
    ASSUME TypeInv, FileGrammar, Step, ~WriterFails,
           (\E d \in DBs : todo = DBCall(d)) \/ todo = EndCall
    PROVE  FileGrammar'
<1>1. /\ out \in Seq(Tokens) /\ todo # <<>> /\ ~BeforeFlag(todo)
      /\ todo \notin {EndRest, << <<"set", "WritingEnd">> >>}
      /\ ~Quietly(todo, "WrittenDBHeader")
  BY CallOnly DEF TypeInv, TypeOK
<1>2. Filled /\ NoExpire /\ NoEOF
  BY <1>1, Settled DEF FileGrammar, NoExpire, NoEOF
<1>3. CASE \E d \in DBs : todo = DBCall(d)
  <2>1. Quietly(todo', "WrittenDBHeader") /\ out' = Append(out, Op("opCodeSelectDB"))
    BY <1>3, OpcodeStep
  <2>2. TTLInv' /\ TTLsFollowed' /\ EOFInv' /\ DBsFull'
    BY <1>1, <1>2, <2>1, MarksDiffer, StillNoExpire, StillNoEOF, FullGrows DEF FileGrammar
  <2> QED BY <2>1, <2>2 DEF FileGrammar, FilledInv
<1>4. CASE todo = EndCall
  <2>1. todo' = EndRest /\ out' = Append(out, Op("opCodeEOF"))
    BY <1>4, OpcodeStep
  <2>2. TTLInv' /\ TTLsFollowed' /\ DBsFull' /\ Filled'
    BY <1>1, <1>2, <2>1, MarksDiffer, StillNoExpire, FilledGrows, FullGrows DEF FileGrammar
  <2>3. EOFInv'
    <3> SUFFICES ASSUME NEW i \in DOMAIN out', out'[i] = Op("opCodeEOF")
                 PROVE  i = Len(out')
      BY <2>1 DEF EOFInv
    <3>1. /\ i \in 1..(Len(out) + 1) /\ Len(out') = Len(out) + 1 /\ Len(out) \in Nat
          /\ DOMAIN out = 1..Len(out)
          /\ \A k \in 1..Len(out) : out'[k] = out[k]
      BY <1>1, <2>1, Grown
    <3>2. i \notin 1..Len(out)
      BY <1>2, <3>1 DEF NoEOF
    <3> QED BY <3>1, <3>2
  <2> QED BY <2>2, <2>3 DEF FileGrammar, FilledInv
<1> QED BY <1>3, <1>4

LEMMA GrammarStep == TypeInv /\ GrammarInv /\ Step => GrammarInv'
<1> SUFFICES ASSUME TypeInv, GrammarInv, Step, faults' = 0
             PROVE  Grammar'
  BY DEF GrammarInv
<1>1. faults = 0 /\ ~WriterFails
  <2>1. faults \in Nat
    BY EncoderAssumption DEF TypeInv, TypeOK
  <2>2. ~WriterFails
    BY <2>1 DEF WriterFails
  <2> QED BY <2>2 DEF Step, WriteToken, WriteLzfToken, Write, WriteSum, WriteStr, WriteTTL, SetState
<1>2. PhaseInv /\ FileGrammar
  BY <1>1 DEF GrammarInv, Grammar, FileGrammar
<1>3. todo # <<>>
  BY <1>1, Effects
<1>4. FileGrammar'
  BY <1>1, <1>2, <1>3, QuietGrammar, FlagGrammar, OpcodeGrammar DEF PhaseInv, Idle
<1>5. PhaseInv'
  BY <1>1, <1>2, PhaseStep
<1> QED BY <1>4, <1>5 DEF Grammar, FileGrammar

-----------------------------------------------------------------------------
(* A call the encoder accepts fits what the file needs next. *)

LEMMA Allowed ==
    ASSUME state \in States
    PROVE  /\ validateStateChange("WrittenHeader") => state = "Start"
           /\ validateStateChange("WrittenAux") => state \in {"WrittenHeader", "WrittenAux"}
           /\ validateStateChange("WrittenDBHeader") =>
                state \in {"WrittenHeader", "WrittenAux", "WrittenObject"}
           /\ validateStateChange("WritingEnd") =>
                state \in {"WrittenHeader", "WrittenAux", "WrittenObject"}
           /\ validateStateChange("WrittenObject") => state \in InDB
BY DEF validateStateChange, stateChanges, States, InDB

LEMMA Accepted ==
    ASSUME TypeInv, Caller, ~Refuse
    PROVE  /\ todo = <<>> /\ UNCHANGED <<out, state, faults>>
           /\ \/ /\ state \in {"Start", "WrittenHeader", "WrittenAux"}
                 /\ \E s \in {"WrittenHeader", "WrittenAux"} : Quietly(todo', s)
              \/ /\ state \in {"WrittenHeader", "WrittenAux", "WrittenObject"}
                 /\ (\E d \in DBs : todo' = DBCall(d)) \/ todo' = EndCall
              \/ state \in InDB /\ ObjectRest(todo')
<1>0. state \in States
  BY DEF TypeInv, TypeOK
<1>1. CASE WriteHeader
  <2>1. PICK m \in Magics : Begin(<<"header">>, << W(Magic(m)), <<"set", "WrittenHeader">> >>)
    BY <1>1 DEF WriteHeader, Magics
  <2>2. state = "Start"
    BY <1>0, <1>1, Allowed DEF WriteHeader
  <2> QED BY <2>1, <2>2, QuietCalls DEF Begin, Idle
<1>2. ASSUME NEW k \in Keys, NEW v \in Keys, WriteAux(k, v)
      PROVE  /\ todo = <<>> /\ UNCHANGED <<out, state, faults>>
             /\ state \in {"WrittenHeader", "WrittenAux"}
             /\ Quietly(todo', "WrittenAux")
  <2>1. Begin(<<"aux">>, << W(Op("opCodeAux")), Str(k), Str(v), <<"set", "WrittenAux">> >>)
    BY <1>2 DEF WriteAux
  <2>2. state \in {"WrittenHeader", "WrittenAux"}
    BY <1>0, <1>2, Allowed DEF WriteAux
  <2> QED BY <2>1, <2>2, QuietCalls DEF Begin, Idle
<1>3. ASSUME NEW d \in DBs, WriteDBHeader(d)
      PROVE  /\ todo = <<>> /\ UNCHANGED <<out, state, faults>>
             /\ state \in {"WrittenHeader", "WrittenAux", "WrittenObject"}
             /\ todo' = DBCall(d)
  <2>1. Begin(<<"db", d>>, DBCall(d))
    BY <1>3 DEF WriteDBHeader, DBCall
  <2>2. state \in {"WrittenHeader", "WrittenAux", "WrittenObject"}
    BY <1>0, <1>3, Allowed DEF WriteDBHeader
  <2> QED BY <2>1, <2>2 DEF Begin, Idle
<1>4. ASSUME NEW k \in Keys, NEW o \in Objects, NEW opts \in TTLOptions, WriteObject(k, o, opts)
      PROVE  /\ todo = <<>> /\ UNCHANGED <<out, state, faults>>
             /\ state \in InDB
             /\ ObjectRest(todo')
  <2> DEFINE ttls == [ i \in 1..Len(opts) |-> <<"ttl", opts[i]>> ]
  <2>1. ttls \in Seq({"ttl"} \X TTLs)
    <3>1. opts \in Seq(TTLs)
      BY EncoderAssumption, FunctionIsSeq DEF TTLOptions
    <3>2. ttls \in [1..Len(opts) -> {"ttl"} \X TTLs]
      BY <3>1
    <3> QED BY <3>1, <3>2, FunctionIsSeq
  <2>2. PICK writes \in ObjectWrites(k, o) :
              Begin(<<"object", Requested(k, o, opts)>>,
                    ttls \o writes \o << <<"set", "WrittenObject">> >>)
    BY <1>4 DEF WriteObject
  <2>3. writes \in Encodings
    BY ObjectWritesType
  <2> HIDE DEF ttls
  <2>4. /\ todo = <<>> /\ UNCHANGED <<out, state, faults>>
        /\ todo' = (ttls \o writes) \o << <<"set", "WrittenObject">> >>
    BY <2>2 DEF Begin, Idle
  <2>5. ObjectRest(todo')
    BY <2>1, <2>3, <2>4, ObjectBegins
  <2>6. state \in InDB
    BY <1>0, <1>4, Allowed DEF WriteObject
  <2> QED BY <2>4, <2>5, <2>6
<1>5. CASE WriteEnd
  <2>1. Begin(<<"end">>, EndCall)
    BY <1>5 DEF WriteEnd, EndCall
  <2>2. state \in {"WrittenHeader", "WrittenAux", "WrittenObject"}
    BY <1>0, <1>5, Allowed DEF WriteEnd
  <2> QED BY <2>1, <2>2 DEF Begin, Idle
<1> QED BY <1>1, <1>2, <1>3, <1>4, <1>5 DEF Caller

LEMMA GrammarCaller == TypeInv /\ GrammarInv /\ Caller => GrammarInv'
<1> SUFFICES ASSUME TypeInv, GrammarInv, Caller, faults' = 0
             PROVE  Grammar'
  BY DEF GrammarInv
<1>1. CASE Refuse
  BY <1>1 DEF Refuse, GrammarInv, Grammar, PhaseInv, FilledInv, Filled, TTLInv, EOFInv,
     DBsFull, TTLsFollowed, Idle
<1>2. CASE ~Refuse
  <2>1. todo = <<>> /\ out' = out /\ state' = state /\ faults = 0
    BY <1>2, Accepted
  <2>2. Grammar
    BY <2>1 DEF GrammarInv
  <2>3. DBsFull' /\ TTLsFollowed'
    BY <2>1, <2>2 DEF Grammar, DBsFull, TTLsFollowed
  <2>4. /\ Filled \/ state \in {"WrittenDBHeader", "WrittenTTL"}
        /\ Len(out) \in DOMAIN out => out[Len(out)] # Op("opCodeExpireTimeMs")
        /\ Len(out) - 1 \in DOMAIN out /\ out[Len(out) - 1] = Op("opCodeExpireTimeMs") =>
             state = "WrittenTTL"
        /\ state # "WritingEnd" => NoEOF
    <3>1. /\ ~Quietly(todo, "WrittenDBHeader") /\ ~BeforeFlag(todo)
          /\ ~WritesMs(todo) /\ ~SetsTTL(todo)
          /\ todo # EndRest /\ todo # << <<"set", "WritingEnd">> >>
      BY <2>1, NotEmpty
    <3> QED BY <2>2, <3>1 DEF Grammar, FilledInv, TTLInv, EOFInv, NoEOF
  <2>5. state # "WritingEnd" /\ state \in States
    BY <1>2, Accepted DEF TypeInv, TypeOK, InDB
  <2>6. EOFInv'
    BY <2>1, <2>4, <2>5 DEF EOFInv, NoEOF
  <2>7. Filled => Filled'
    BY <2>1 DEF Filled
  <2>8. CASE /\ state \in {"Start", "WrittenHeader", "WrittenAux"}
             /\ \E s \in {"WrittenHeader", "WrittenAux"} : Quietly(todo', s)
    <3>1. PhaseInv'
      BY <2>8 DEF PhaseInv, States
    <3>2. FilledInv' /\ TTLInv'
      BY <2>1, <2>4, <2>7, <2>8 DEF FilledInv, TTLInv
    <3> QED BY <2>3, <2>6, <3>1, <3>2 DEF Grammar
  <2>9. CASE /\ state \in {"WrittenHeader", "WrittenAux", "WrittenObject"}
             /\ (\E d \in DBs : todo' = DBCall(d)) \/ todo' = EndCall
    <3>1. PhaseInv'
      BY <2>9 DEF PhaseInv
    <3>2. FilledInv' /\ TTLInv'
      BY <2>1, <2>4, <2>7, <2>9 DEF FilledInv, TTLInv
    <3> QED BY <2>3, <2>6, <3>1, <3>2 DEF Grammar
  <2>10. CASE state \in InDB /\ ObjectRest(todo')
    <3>1. PhaseInv'
      BY <2>1, <2>10 DEF PhaseInv, BeforeFlag
    <3>2. FilledInv' /\ TTLInv'
      BY <2>1, <2>4, <2>10 DEF FilledInv, TTLInv, BeforeFlag
    <3> QED BY <2>3, <2>6, <3>1, <3>2 DEF Grammar
  <2> QED BY <1>2, <2>8, <2>9, <2>10, Accepted
<1> QED BY <1>1, <1>2

LEMMA GrammarInvariant == Spec => [](TypeInv /\ GrammarInv)
<1>1. Init => TypeInv /\ GrammarInv
  <2> SUFFICES ASSUME Init
               PROVE  TypeInv /\ Grammar
    BY DEF GrammarInv
  <2>1. PhaseInv /\ FilledInv /\ TTLInv /\ EOFInv /\ DBsFull /\ TTLsFollowed
    BY DEF Init, PhaseInv, FilledInv, Filled, TTLInv, EOFInv, DBsFull, TTLsFollowed, Idle
  <2> QED BY <2>1, TypeInit DEF Grammar
<1>2. TypeInv /\ GrammarInv /\ [Next]_vars => (TypeInv /\ GrammarInv)'
  <2>1. GrammarInv /\ UNCHANGED vars => GrammarInv'
    BY DEF GrammarInv, Grammar, PhaseInv, FilledInv, Filled, TTLInv, EOFInv,
       DBsFull, TTLsFollowed, Idle, vars
  <2> QED BY <2>1, TypeNext, GrammarStep, GrammarCaller DEF Next
<1> QED BY <1>1, <1>2, PTL DEF Spec

(* "do not allow empty db" (core/encoder.go:79): while the writer works,   *)
(* an object stands between a SELECTDB and the next SELECTDB or the EOF,   *)
(* whichever calls were refused in between.                                *)
THEOREM NoDatabaseEmpty == Spec => []NoEmptyDB
<1>1. GrammarInv => NoEmptyDB
  BY DEF GrammarInv, Grammar, DBsFull, NoEmptyDB, Flags
<1> QED BY <1>1, GrammarInvariant, PTL

(* What follows an expiration is the type flag of an object, also when a   *)
(* second TTL option was refused after the first was in the file           *)
(* (writeTTL, core/encoder.go:255).                                        *)
THEOREM TTLsBelongToObjects == Spec => []NoOrphanTTL
<1>1. GrammarInv => NoOrphanTTL
  BY DEF GrammarInv, Grammar, TTLsFollowed, NoOrphanTTL, Flags
<1> QED BY <1>1, GrammarInvariant, PTL

(* Nothing but the checksum follows EOF, whatever methods are called then  *)
(* (writtenEndState has no successor, core/encoder.go:65).                 *)
THEOREM EOFIsLast == Spec => []NothingAfterEOF
<1>1. TypeInv /\ GrammarInv => NothingAfterEOF
  <2> SUFFICES ASSUME TypeInv, GrammarInv, faults = 0, NEW i \in DOMAIN out,
                      out[i] = Op("opCodeEOF")
               PROVE  Len(out) <= i + 1
    BY DEF NothingAfterEOF
  <2>1. i = Len(out) \/ i = Len(out) - 1
    BY DEF GrammarInv, Grammar, EOFInv
  <2>2. Len(out) \in Nat
    BY DEF TypeInv, TypeOK
  <2> QED BY <2>1, <2>2
<1> QED BY <1>1, GrammarInvariant, PTL
=============================================================================
