--------------------------- MODULE RdbReadBackProofs ---------------------------
(***************************************************************************)
(* The reading side: every value is read back as it was written, or the    *)
(* read meets the end of the file; so a Decoder goes from point to point   *)
(* of the file that RdbRoundTripProofs describes, and what RdbRoundTrip    *)
(* promises follows, for every set of keys, databases, expirations and     *)
(* objects, every number of calls and of failed writes.                    *)
(***************************************************************************)
EXTENDS RdbRoundTripProofs

-----------------------------------------------------------------------------
(* What a read of the file ends with: it gives v and stops at q, or it     *)
(* meets the end of the file when q is beyond it.                          *)

Got(q, v) == [st |-> "ok", pos |-> q, val |-> v]

Ends(x, q, v) == IF Past(out, q) THEN x.st = "error" ELSE x = Got(q, v)

(* y is read where x ended. *)
LEMMA EndsThen ==
    ASSUME NEW x, NEW y, NEW t, NEW r, NEW v, NEW q, NEW w, Ends(x, r, v),
           t = IF x.st = "ok" THEN y ELSE x,
           ~Past(out, r) => Ends(y, q, w), Past(out, r) => Past(out, q)
    PROVE  Ends(t, q, w)
BY DEF Ends, Got

LEMMA TakeEnds ==
    ASSUME out \in Seq(Tokens), NEW p \in Nat \ {0}, NEW kinds
    PROVE  /\ p > EndOf(out) => Decoder!Take(p, kinds).st = "error"
           /\ p <= EndOf(out) /\ out[p][1] \in kinds =>
                Decoder!Take(p, kinds) = Got(p + 1, out[p][2])
<1>1. /\ EndOf(out) \in Nat /\ Len(out) \in Nat /\ EndOf(out) <= Len(out)
      /\ EndOf(out) \in {Len(out), Len(out) - 1}
  BY EndType
<1>2. EndOf(out) = Len(out) <=> ~(out # <<>> /\ out[Len(out)] = Torn)
  BY <1>1 DEF EndOf
<1>3. out = <<>> <=> Len(out) = 0
  BY EmptySeq
<1>4. (p > Len(out) \/ (p = Len(out) /\ out[p] = Torn)) <=> p > EndOf(out)
  BY <1>1, <1>2, <1>3 DEF EndOf
<1>5. Decoder!Torn = Torn
  BY DEF Decoder!Torn, Torn
<1>6. Decoder!Take(p, kinds) = IF p > EndOf(out) THEN Decoder!Fail(p, "error")
                               ELSE IF out[p][1] \in kinds THEN Decoder!Done(p + 1, out[p][2])
                               ELSE Decoder!Fail(p, "misread")
  BY <1>4, <1>5 DEF Decoder!Take
<1>7. Decoder!Fail(p, "error").st = "error" /\ Decoder!Done(p + 1, out[p][2]) = Got(p + 1, out[p][2])
  BY DEF Decoder!Fail, Decoder!Done, Got
<1> HIDE DEF EndOf
<1> QED BY <1>1, <1>6, <1>7

(* The token a statement wrote, read back. *)
LEMMA TakeHas ==
    ASSUME out \in Seq(Tokens), NEW p \in Nat \ {0}, NEW t, NEW kinds, t[1] \in kinds,
           Has(out, p, t)
    PROVE  Ends(Decoder!Take(p, kinds), p + 1, t[2])
<1>1. EndOf(out) \in Nat
  BY EndType
<1>2. Past(out, p + 1) <=> p > EndOf(out)
  BY <1>1 DEF Past
<1>3. CASE p > EndOf(out)
  BY <1>2, <1>3, TakeEnds DEF Ends
<1>4. CASE p <= EndOf(out)
  <2>1. out[p] = t /\ ~Past(out, p + 1)
    BY <1>1, <1>2, <1>4 DEF Has
  <2> QED BY <1>4, <2>1, TakeEnds DEF Ends
<1> QED BY <1>1, <1>3, <1>4

LEMMA EndsSame ==
    ASSUME NEW x, NEW p, NEW q, NEW v, Ends(x, p, v), Same(out, q, p)
    PROVE  Ends(x, q, v)
BY DEF Ends, Same

LEMMA PastOn ==
    ASSUME out \in Seq(Tokens), NEW p \in Nat, NEW q \in Nat, p <= q
    PROVE  Past(out, p) => Past(out, q)
<1>1. EndOf(out) \in Nat
  BY EndType
<1> QED BY <1>1 DEF Past

LEMMA TakeSpells ==
    ASSUME out \in Seq(Tokens), NEW p \in Nat \ {0}, NEW q \in Nat \ {0}, NEW t, NEW kinds,
           t[1] \in kinds, Spells(out, W(t), p, q)
    PROVE  Ends(Decoder!Take(p, kinds), q, t[2])
<1>1. Has(out, p, t) /\ Same(out, q, p + 1)
  BY SpellsWrite
<1> QED BY <1>1, TakeHas, EndsSame

-----------------------------------------------------------------------------
(* Strings. *)

LEMMA BodyEnds ==
    ASSUME out \in Seq(Tokens), NEW p \in Nat \ {0}, NEW b, NEW kind,
           Has(out, p, <<kind, b>>)
    PROVE  Ends(Decoder!readBody(Got(p, b), kind), p + 1, b)
<1> DEFINE x == Decoder!Take(p, {kind})
           h == Got(p, b)
           y == IF x.val = b THEN x ELSE Decoder!Fail(x.pos, "misread")
           t == Decoder!readBody(h, kind)
<1>1. Ends(x, p + 1, b)
  <2> DEFINE u == <<kind, b>>
             K == {kind}
  <2>1. u[1] \in K /\ u[2] = b
    OBVIOUS
  <2> HIDE DEF u, K
  <2>2. Ends(Decoder!Take(p, K), p + 1, u[2])
    BY <2>1, TakeHas DEF u
  <2> QED BY <2>1, <2>2 DEF K
<1>2. h.pos = p /\ h.val = b
  BY DEF Got
<1>3. t = IF x.st = "ok" THEN y ELSE x
  <2> HIDE DEF h
  <2>1. t = IF Decoder!Take(h.pos, {kind}).st = "ok"
            THEN IF Decoder!Take(h.pos, {kind}).val = h.val THEN Decoder!Take(h.pos, {kind})
                 ELSE Decoder!Fail(Decoder!Take(h.pos, {kind}).pos, "misread")
            ELSE Decoder!Take(h.pos, {kind})
    BY DEF Decoder!readBody, Decoder!Then
  <2> QED BY <1>2, <2>1
<1>4. ~Past(out, p + 1) => Ends(y, p + 1, b)
  <2> HIDE DEF x
  <2> QED BY <1>1 DEF Ends, Got
<1> HIDE DEF t, x, y, h
<1>5. Ends(t, p + 1, b)
  BY <1>1, <1>3, <1>4, EndsThen
<1> QED BY <1>5 DEF t, h

LEMMA LZFEnds ==
    ASSUME out \in Seq(Tokens), NEW p \in Nat \ {0}, NEW b,
           Has(out, p, LzfLen(b)), Has(out, p + 1, StrHead(b)), Has(out, p + 2, LzfBody(b))
    PROVE  Ends(Decoder!readLZF(p), p + 3, b)
<1> DEFINE c == Decoder!Take(p, {"clen"})
           h == Decoder!Take(c.pos, {"slen"})
           z == Decoder!readBody(h, "lzf")
           y == IF h.st = "ok" THEN z ELSE h
           t == Decoder!readLZF(p)
<1>1. t = IF c.st = "ok" THEN y ELSE c
  BY DEF Decoder!readLZF, Decoder!Then
<1>2. Ends(c, p + 1, b)
  <2>1. LzfLen(b)[1] \in {"clen"} /\ LzfLen(b)[2] = b
    BY DEF LzfLen
  <2>2. Ends(c, p + 1, LzfLen(b)[2])
    BY <2>1, TakeHas
  <2> QED BY <2>1, <2>2
<1>3. ~Past(out, p + 1) => Ends(h, p + 2, b)
  <2> SUFFICES ASSUME ~Past(out, p + 1) PROVE Ends(h, p + 2, b)
    OBVIOUS
  <2>1. c.pos = p + 1 /\ p + 1 \in Nat \ {0} /\ (p + 1) + 1 = p + 2
    BY <1>2 DEF Ends, Got
  <2>2. StrHead(b)[1] \in {"slen"} /\ StrHead(b)[2] = b
    BY DEF StrHead
  <2>3. Ends(Decoder!Take(p + 1, {"slen"}), (p + 1) + 1, StrHead(b)[2])
    BY <2>1, <2>2, TakeHas
  <2> HIDE DEF c
  <2> QED BY <2>1, <2>2, <2>3
<1>4. ~Past(out, p + 2) => Ends(z, p + 3, b)
  <2> SUFFICES ASSUME ~Past(out, p + 2) PROVE Ends(z, p + 3, b)
    OBVIOUS
  <2>1. p + 2 \in Nat \ {0} /\ (p + 2) + 1 = p + 3 /\ p + 1 \in Nat /\ p + 1 <= p + 2
    OBVIOUS
  <2>2. ~Past(out, p + 1)
    BY <2>1, PastOn
  <2>3. h = Got(p + 2, b)
    <3> HIDE DEF h
    <3> QED BY <1>3, <2>2 DEF Ends
  <2>4. Ends(Decoder!readBody(Got(p + 2, b), "lzf"), (p + 2) + 1, b)
    BY <2>1, BodyEnds DEF LzfBody
  <2> HIDE DEF h
  <2> QED BY <2>1, <2>3, <2>4
<1>5. /\ Past(out, p + 1) => Past(out, p + 2)
      /\ Past(out, p + 2) => Past(out, p + 3)
  <2>1. p + 1 \in Nat /\ p + 2 \in Nat /\ p + 3 \in Nat /\ p + 1 <= p + 2 /\ p + 2 <= p + 3
    OBVIOUS
  <2> QED BY <2>1, PastOn
<1> HIDE DEF t, c, z, h
<1>6. ~Past(out, p + 1) => Ends(y, p + 3, b)
  <2> SUFFICES ASSUME ~Past(out, p + 1) PROVE Ends(y, p + 3, b)
    OBVIOUS
  <2>1. Ends(h, p + 2, b) /\ y = IF h.st = "ok" THEN z ELSE h
    BY <1>3
  <2> HIDE DEF y
  <2> QED BY <1>4, <1>5, <2>1, EndsThen
<1> HIDE DEF y
<1>7. Ends(t, p + 3, b)
  BY <1>1, <1>2, <1>5, <1>6, EndsThen
<1> QED BY <1>7 DEF t

LEMMA StringEnds ==
    ASSUME out \in Seq(Tokens), NEW p \in Nat \ {0}, NEW q \in Nat \ {0},
           NEW x, x[1] \in {"str", "nan"}, x[2] \in Bytes, Spells(out, x, p, q)
    PROVE  Ends(Decoder!readString(p), q, x[2])
<1> DEFINE K == {"int", "slen", "lzfmark"}
           h == Decoder!Take(p, K)
           y == CASE out[p][1] = "int"  -> Decoder!Done(h.pos, Decoder!Text(h.val))
                  [] out[p][1] = "slen" -> Decoder!readBody(h, "raw")
                  [] OTHER              -> Decoder!readLZF(h.pos)
           t == Decoder!readString(p)
           b == x[2]
<1>1. t = IF h.st = "ok" THEN y ELSE h
  BY DEF Decoder!readString, Decoder!Then
<1>2. EndOf(out) \in Nat
  BY EndType
<1>3. p <= EndOf(out) <=> ~Past(out, p + 1)
  BY <1>2 DEF Past
<1>4. CASE Past(out, p) /\ Past(out, q)
  <2>1. p > EndOf(out)
    BY <1>2, <1>4 DEF Past
  <2>2. h.st = "error"
    BY <2>1, TakeEnds
  <2> HIDE DEF h, y, t
  <2>3. t.st = "error"
    BY <1>1, <2>2
  <2> QED BY <1>4, <2>3 DEF Ends, t
<1>5. CASE \E w : Form(x, w) /\ (\A i \in 1..Len(w) : Has(out, p + i - 1, w[i])) /\ Same(out, q, p + Len(w))
  <2>1. PICK w : Form(x, w) /\ (\A i \in 1..Len(w) : Has(out, p + i - 1, w[i])) /\ Same(out, q, p + Len(w))
    BY <1>5
  <2>2. \/ b[1] = "text" /\ w = << IntStr(b[2]) >>
        \/ w = << StrHead(b), StrBody(b) >>
        \/ w = << LzfMark, LzfLen(b), StrHead(b), LzfBody(b) >>
    BY <2>1 DEF Form, StringForm
  <2>3. CASE b[1] = "text" /\ w = << IntStr(b[2]) >>
    <3>1. Has(out, p, IntStr(b[2])) /\ Same(out, q, p + 1)
      BY <2>1, <2>3, HasTuples, TupleLengths
    <3>2. Ends(h, p + 1, b[2])
      <4>1. IntStr(b[2])[1] \in K /\ IntStr(b[2])[2] = b[2]
        BY DEF IntStr
      <4> HIDE DEF K, b
      <4>2. Ends(h, p + 1, IntStr(b[2])[2])
        BY <3>1, <4>1, TakeHas
      <4> QED BY <4>1, <4>2
    <3>3. ~Past(out, p + 1) => Ends(y, p + 1, b)
      <4> SUFFICES ASSUME ~Past(out, p + 1) PROVE Ends(y, p + 1, b)
        OBVIOUS
      <4>1. out[p][1] = "int"
        BY <1>3, <3>1 DEF Has, IntStr
      <4>2. h.pos = p + 1 /\ h.val = b[2]
        BY <3>2 DEF Ends, Got
      <4>3. b = <<"text", b[2]>>
        BY <2>3 DEF Bytes
      <4> HIDE DEF h, b
      <4>4. y = Decoder!Done(p + 1, Decoder!Text(b[2]))
        BY <4>1, <4>2
      <4>5. Decoder!Done(p + 1, Decoder!Text(b[2])) = Got(p + 1, b)
        BY <4>3 DEF Decoder!Done, Decoder!Text, Got
      <4> HIDE DEF y
      <4> QED BY <4>4, <4>5 DEF Ends
    <3> HIDE DEF t, h, y, b
    <3>4. Ends(t, p + 1, b)
      BY <1>1, <3>2, <3>3, EndsThen
    <3> QED BY <3>1, <3>4, EndsSame DEF t, b
  <2>4. CASE w = << StrHead(b), StrBody(b) >>
    <3>1. Has(out, p, StrHead(b)) /\ Has(out, p + 1, StrBody(b)) /\ Same(out, q, p + 2)
      BY <2>1, <2>4, HasTuples, TupleLengths
    <3>2. Ends(h, p + 1, b)
      <4>1. StrHead(b)[1] \in K /\ StrHead(b)[2] = b
        BY DEF StrHead
      <4> HIDE DEF K, b
      <4>2. Ends(h, p + 1, StrHead(b)[2])
        BY <3>1, <4>1, TakeHas
      <4> QED BY <4>1, <4>2
    <3>3. ~Past(out, p + 1) => Ends(y, p + 2, b)
      <4> SUFFICES ASSUME ~Past(out, p + 1) PROVE Ends(y, p + 2, b)
        OBVIOUS
      <4>1. out[p][1] = "slen"
        BY <1>3, <3>1 DEF Has, StrHead
      <4>2. h = Got(p + 1, b)
        BY <3>2 DEF Ends
      <4>3. (p + 1) + 1 = p + 2 /\ p + 1 \in Nat \ {0}
        OBVIOUS
      <4> HIDE DEF h, b
      <4>4. y = Decoder!readBody(Got(p + 1, b), "raw")
        BY <4>1, <4>2
      <4>5. Ends(Decoder!readBody(Got(p + 1, b), "raw"), (p + 1) + 1, b)
        BY <3>1, <4>3, BodyEnds DEF StrBody
      <4> HIDE DEF y
      <4> QED BY <4>3, <4>4, <4>5
    <3>4. Past(out, p + 1) => Past(out, p + 2)
      BY <1>2 DEF Past
    <3> HIDE DEF t, h, y, b
    <3>5. Ends(t, p + 2, b)
      BY <1>1, <3>2, <3>3, <3>4, EndsThen
    <3> QED BY <3>1, <3>5, EndsSame DEF t, b
  <2>5. CASE w = << LzfMark, LzfLen(b), StrHead(b), LzfBody(b) >>
    <3>1. /\ Has(out, p, LzfMark) /\ Has(out, p + 1, LzfLen(b)) /\ Has(out, p + 2, StrHead(b))
          /\ Has(out, p + 3, LzfBody(b)) /\ Same(out, q, p + 4)
      BY <2>1, <2>5, HasTuples, TupleLengths
    <3>2. Ends(h, p + 1, 0)
      <4>1. LzfMark[1] \in K /\ LzfMark[2] = 0
        BY DEF LzfMark
      <4> HIDE DEF K
      <4>2. Ends(h, p + 1, LzfMark[2])
        BY <3>1, <4>1, TakeHas
      <4> QED BY <4>1, <4>2
    <3>3. ~Past(out, p + 1) => Ends(y, p + 4, b)
      <4> SUFFICES ASSUME ~Past(out, p + 1) PROVE Ends(y, p + 4, b)
        OBVIOUS
      <4>1. out[p][1] = "lzfmark"
        BY <1>3, <3>1 DEF Has, LzfMark
      <4>2. h.pos = p + 1
        BY <3>2 DEF Ends, Got
      <4>3. /\ (p + 1) + 1 = p + 2 /\ (p + 1) + 2 = p + 3 /\ (p + 1) + 3 = p + 4
            /\ p + 1 \in Nat \ {0}
        OBVIOUS
      <4> HIDE DEF h, b
      <4>4. y = Decoder!readLZF(p + 1)
        BY <4>1, <4>2
      <4>5. Ends(Decoder!readLZF(p + 1), (p + 1) + 3, b)
        BY <3>1, <4>3, LZFEnds
      <4> HIDE DEF y
      <4> QED BY <4>3, <4>4, <4>5
    <3>4. Past(out, p + 1) => Past(out, p + 4)
      BY <1>2 DEF Past
    <3> HIDE DEF t, h, y, b
    <3>5. Ends(t, p + 4, b)
      BY <1>1, <3>2, <3>3, <3>4, EndsThen
    <3> QED BY <3>1, <3>5, EndsSame DEF t, b
  <2> QED BY <2>2, <2>3, <2>4, <2>5
<1> QED BY <1>4, <1>5 DEF Spells

(* A text, or an image of the sort asked for. *)
LEMMA ImageEnds ==
    ASSUME out \in Seq(Tokens), NEW p \in Nat \ {0}, NEW q \in Nat \ {0},
           NEW x, x[1] \in {"str", "nan"}, NEW sort, NEW v, x[2] = <<sort, v>>, x[2] \in Bytes,
           Spells(out, x, p, q)
    PROVE  Ends(Decoder!readImage(p, sort), q, v)
<1> DEFINE b == Decoder!readString(p)
           y == IF b.val[1] = sort THEN Decoder!Done(b.pos, b.val[2]) ELSE Decoder!Fail(b.pos, "misread")
           t == Decoder!readImage(p, sort)
<1>1. Ends(b, q, x[2])
  BY StringEnds
<1>2. t = IF b.st = "ok" THEN y ELSE b
  BY DEF Decoder!readImage, Decoder!Then
<1>3. ~Past(out, q) => Ends(y, q, v)
  <2> SUFFICES ASSUME ~Past(out, q) PROVE Ends(y, q, v)
    OBVIOUS
  <2>1. b.pos = q /\ b.val[1] = sort /\ b.val[2] = v
    BY <1>1 DEF Ends, Got
  <2> HIDE DEF b
  <2>2. y = Got(q, v)
    BY <2>1 DEF Decoder!Done, Got
  <2> HIDE DEF y
  <2> QED BY <2>2 DEF Ends
<1> HIDE DEF b, y, t
<1>4. Ends(t, q, v)
  BY <1>1, <1>2, <1>3, EndsThen
<1> QED BY <1>4 DEF t

LEMMA TextEnds ==
    ASSUME out \in Seq(Tokens), NEW p \in Nat \ {0}, NEW q \in Nat \ {0},
           NEW s \in Strings, Spells(out, Str(s), p, q)
    PROVE  Ends(Decoder!readText(p), q, s)
<1> DEFINE x == Str(s)
<1>1. x[1] \in {"str", "nan"} /\ x[2] = <<"text", s>> /\ x[2] \in Bytes
  BY DEF Str, Text, Bytes
<1> HIDE DEF x
<1>2. Ends(Decoder!readImage(p, "text"), q, s)
  BY <1>1, ImageEnds DEF x
<1> QED BY <1>2 DEF Decoder!readText

-----------------------------------------------------------------------------
(* The elements of a value, one after the other.                           *)

Int64At(q) == Decoder!Take(q, {"i64"})
ScoreAt(q) == Decoder!Take(q, {"f64"})
ScoredAt(q) == Decoder!readPair(q, Decoder!readText, ScoreAt)
FieldAt(q) == Decoder!readPair(q, Decoder!readText, Decoder!readText)
FieldUntilAt(q) == Decoder!readPair(q, FieldAt, Int64At)

(* The element that readHashMapEx reads: expiration, field and value. *)
ExpiringAt(q, min, rc) ==
    Decoder!Then(Decoder!readLength(q), LAMBDA t :
      LET expire == IF rc THEN t.val
                    ELSE IF t.val = 0 THEN 0 ELSE t.val + min - 1
      IN  IF expire > EbInvalid - 1 THEN Decoder!Fail(t.pos, "error")
          ELSE Decoder!As(Decoder!readPair(t.pos, Decoder!readText, Decoder!readText),
                          LAMBDA fv : << fv[1], fv[2], expire >>))

(* The elements, by what they are of. *)
ReadBy(k, q) ==
    CASE k[1] = "text"   -> Decoder!readText(q)
      [] k[1] = "page"   -> Decoder!readZipList(q)
      [] k[1] = "scored" -> ScoredAt(q)
      [] k[1] = "field"  -> FieldAt(q)
      [] k[1] = "hfe"    -> ExpiringAt(q, k[2], k[3])
      [] OTHER           -> FieldUntilAt(q)

Grow(x, l) == IF x.st = "ok" THEN Got(x.pos, Append(l.val, x.val)) ELSE x
More(k, l) == IF l.st = "ok" THEN Grow(ReadBy(k, l.pos), l) ELSE l
Run(k, p, n, g) == g = [ i \in 0..n |-> IF i = 0 THEN Got(p, <<>>) ELSE More(k, g[i - 1]) ]

LEMMA RunExists ==
    ASSUME NEW k, NEW p, NEW N \in Nat
    PROVE  \E g : Run(k, p, N, g)
<1> DEFINE S == {n \in 0..N : \E h : Run(k, p, n, h)}
<1>1. 0 \in S
  <2> DEFINE h == [ i \in 0..0 |-> Got(p, <<>>) ]
  <2>1. h = [ i \in 0..0 |-> IF i = 0 THEN Got(p, <<>>) ELSE More(k, h[i - 1]) ]
    OBVIOUS
  <2> HIDE DEF h
  <2>2. Run(k, p, 0, h)
    BY <2>1 DEF Run
  <2> QED BY <2>2
<1>2. ASSUME NEW n \in 1..N, n - 1 \in S
      PROVE  n \in S
  <2>1. PICK h : Run(k, p, n - 1, h)
    BY <1>2
  <2> DEFINE g == [ i \in 0..n |-> IF i = n THEN More(k, h[n - 1]) ELSE h[i] ]
  <2>2. \A i \in 0..(n - 1) : h[i] = IF i = 0 THEN Got(p, <<>>) ELSE More(k, h[i - 1])
    BY <2>1 DEF Run
  <2>3. \A i \in 0..n : g[i] = IF i = 0 THEN Got(p, <<>>) ELSE More(k, g[i - 1])
    BY <2>2
  <2>4. g = [ i \in 0..n |-> IF i = 0 THEN Got(p, <<>>) ELSE More(k, g[i - 1]) ]
    BY <2>3
  <2> HIDE DEF g
  <2>5. Run(k, p, n, g)
    BY <2>4 DEF Run
  <2> QED BY <2>5
<1> HIDE DEF S
<1>3. 0..N \subseteq S
  BY <1>1, <1>2, UpTo
<1> QED BY <1>3 DEF S

Firsts(vs, n) == [ i \in 1..n |-> vs[i] ]

(* Each element read ends where the next one begins. *)
Stepwise(k, n, at, vs) ==
    \A i \in 1..n : /\ Ends(ReadBy(k, at[i]), at[i + 1], vs[i])
                    /\ Past(out, at[i]) => Past(out, at[i + 1])

LEMMA RunEnds ==
    ASSUME out \in Seq(Tokens), NEW k, NEW n \in Nat,
           NEW at \in [1..(n + 1) -> Nat \ {0}], ~Past(out, at[1]),
           NEW g, Run(k, at[1], n, g), NEW vs, Stepwise(k, n, at, vs)
    PROVE  Ends(g[n], at[n + 1], Firsts(vs, n))
<1> DEFINE P(i) == [ j \in 1..i |-> vs[j] ]
           T == {i \in 0..n : Ends(g[i], at[i + 1], P(i))}
<1>1. \A i \in 0..n : g[i] = IF i = 0 THEN Got(at[1], <<>>) ELSE More(k, g[i - 1])
  BY DEF Run
<1>2. 0 \in T
  <2>1. P(0) = <<>>
    OBVIOUS
  <2> HIDE DEF P
  <2>2. g[0] = Got(at[1], P(0))
    BY <1>1, <2>1
  <2> QED BY <2>2 DEF Ends
<1>3. ASSUME NEW i \in 1..n, i - 1 \in T
      PROVE  i \in T
  <2>1. Ends(g[i - 1], at[i], P(i - 1))
    BY <1>3
  <2>2. g[i] = More(k, g[i - 1])
    BY <1>1
  <2>3. CASE Past(out, at[i])
    <3>1. g[i] = g[i - 1] /\ g[i].st = "error" /\ Past(out, at[i + 1])
      BY <2>1, <2>2, <2>3 DEF Ends, More, Stepwise
    <3> QED BY <3>1 DEF Ends
  <2>4. CASE ~Past(out, at[i])
    <3> DEFINE x == ReadBy(k, at[i])
               l == P(i - 1)
    <3>1. g[i - 1] = Got(at[i], l)
      BY <2>1, <2>4 DEF Ends
    <3>2. Append(l, vs[i]) = P(i)
      OBVIOUS
    <3>3. Ends(x, at[i + 1], vs[i])
      BY DEF Stepwise
    <3> HIDE DEF x, l, P
    <3>4. g[i] = IF x.st = "ok" THEN Got(x.pos, Append(l, x.val)) ELSE x
      BY <2>2, <3>1 DEF More, Grow, Got, x
    <3>5. Ends(g[i], at[i + 1], P(i))
      <4>1. CASE Past(out, at[i + 1])
        BY <3>3, <3>4, <4>1 DEF Ends
      <4>2. CASE ~Past(out, at[i + 1])
        <5>1. x.st = "ok" /\ x.pos = at[i + 1] /\ x.val = vs[i]
          BY <3>3, <4>2 DEF Ends, Got
        <5>2. g[i] = Got(at[i + 1], P(i))
          BY <3>2, <3>4, <5>1
        <5> QED BY <4>2, <5>2 DEF Ends
      <4> QED BY <4>1, <4>2
    <3> QED BY <3>5
  <2> QED BY <2>3, <2>4
<1> HIDE DEF T
<1>4. 0..n \subseteq T
  BY <1>2, <1>3, UpTo
<1>5. n \in T
  BY <1>4
<1> QED BY <1>5 DEF T, Firsts

LEMMA TextRun ==
    ASSUME NEW p, NEW n \in Nat
    PROVE  \E g : Run(<<"text">>, p, n, g) /\ Decoder!readN(p, n, Decoder!readText) = g[n]
<1> DEFINE k == <<"text">>
           A(h, i) == IF i = 0 THEN Decoder!Done(p, <<>>)
                      ELSE Decoder!Then(h[i - 1], LAMBDA l :
                             Decoder!As(Decoder!readText(l.pos), LAMBDA v : Append(l.val, v)))
           B(h, i) == IF i = 0 THEN Got(p, <<>>) ELSE More(k, h[i - 1])
           IsUp(h) == h = [ i \in 0..n |-> A(h, i) ]
           up == CHOOSE h : IsUp(h)
<1>1. Decoder!readN(p, n, Decoder!readText) = up[n]
  BY DEF Decoder!readN
<1>2. \A h, i : A(h, i) = B(h, i)
  <2>1. k[1] = "text"
    OBVIOUS
  <2> HIDE DEF k
  <2>2. \A q : ReadBy(k, q) = Decoder!readText(q)
    BY <2>1 DEF ReadBy
  <2> DEFINE S(l) == Decoder!As(Decoder!readText(l.pos), LAMBDA v : Append(l.val, v))
             R(l) == Decoder!Then(l, LAMBDA z :
                       Decoder!As(Decoder!readText(z.pos), LAMBDA v : Append(z.val, v)))
  <2>3. \A l : S(l) = Grow(Decoder!readText(l.pos), l)
    BY DEF Decoder!As, Decoder!Done, Grow, Got
  <2>4. \A l : R(l) = IF l.st = "ok" THEN S(l) ELSE l
    BY DEF Decoder!Then, Decoder!As
  <2>6. \A l : R(l) = More(k, l)
    <3> HIDE DEF R, S
    <3> QED BY <2>2, <2>3, <2>4 DEF More
  <2>5. Decoder!Done(p, <<>>) = Got(p, <<>>)
    BY DEF Decoder!Done, Got
  <2>7. \A h, i : A(h, i) = IF i = 0 THEN Decoder!Done(p, <<>>) ELSE R(h[i - 1])
    BY DEF Decoder!Then, Decoder!As
  <2> HIDE DEF R, A
  <2> QED BY <2>5, <2>6, <2>7
<1>3. \A h : IsUp(h) <=> Run(k, p, n, h)
  <2> HIDE DEF A
  <2> QED BY <1>2 DEF Run
<1>4. \E h : IsUp(h)
  <2> HIDE DEF IsUp
  <2> QED BY <1>3, RunExists
<1>5. IsUp(up)
  <2> HIDE DEF IsUp
  <2> QED BY <1>4
<1> HIDE DEF IsUp, up
<1> QED BY <1>1, <1>3, <1>5 DEF k

LEMMA ScoredRun ==
    ASSUME NEW p, NEW n \in Nat
    PROVE  \E g : Run(<<"scored">>, p, n, g) /\ Decoder!readN(p, n, ScoredAt) = g[n]
<1> DEFINE k == <<"scored">>
           A(h, i) == IF i = 0 THEN Decoder!Done(p, <<>>)
                      ELSE Decoder!Then(h[i - 1], LAMBDA l :
                             Decoder!As(ScoredAt(l.pos), LAMBDA v : Append(l.val, v)))
           B(h, i) == IF i = 0 THEN Got(p, <<>>) ELSE More(k, h[i - 1])
           IsUp(h) == h = [ i \in 0..n |-> A(h, i) ]
           up == CHOOSE h : IsUp(h)
<1>1. Decoder!readN(p, n, ScoredAt) = up[n]
  BY DEF Decoder!readN
<1>2. \A h, i : A(h, i) = B(h, i)
  <2>1. k[1] = "scored"
    OBVIOUS
  <2> HIDE DEF k
  <2>2. \A q : ReadBy(k, q) = ScoredAt(q)
    BY <2>1 DEF ReadBy
  <2> DEFINE S(l) == Decoder!As(ScoredAt(l.pos), LAMBDA v : Append(l.val, v))
             R(l) == Decoder!Then(l, LAMBDA z :
                       Decoder!As(ScoredAt(z.pos), LAMBDA v : Append(z.val, v)))
  <2>3. \A l : S(l) = Grow(ScoredAt(l.pos), l)
    BY DEF Decoder!As, Decoder!Done, Grow, Got
  <2>4. \A l : R(l) = IF l.st = "ok" THEN S(l) ELSE l
    BY DEF Decoder!Then, Decoder!As
  <2>6. \A l : R(l) = More(k, l)
    <3> HIDE DEF R, S
    <3> QED BY <2>2, <2>3, <2>4 DEF More
  <2>5. Decoder!Done(p, <<>>) = Got(p, <<>>)
    BY DEF Decoder!Done, Got
  <2>7. \A h, i : A(h, i) = IF i = 0 THEN Decoder!Done(p, <<>>) ELSE R(h[i - 1])
    BY DEF Decoder!Then, Decoder!As
  <2> HIDE DEF R, A
  <2> QED BY <2>5, <2>6, <2>7
<1>3. \A h : IsUp(h) <=> Run(k, p, n, h)
  <2> HIDE DEF A
  <2> QED BY <1>2 DEF Run
<1>4. \E h : IsUp(h)
  <2> HIDE DEF IsUp
  <2> QED BY <1>3, RunExists
<1>5. IsUp(up)
  <2> HIDE DEF IsUp
  <2> QED BY <1>4
<1> HIDE DEF IsUp, up
<1> QED BY <1>1, <1>3, <1>5 DEF k

LEMMA FieldRun ==
    ASSUME NEW p, NEW n \in Nat
    PROVE  \E g : Run(<<"field">>, p, n, g) /\ Decoder!readN(p, n, FieldAt) = g[n]
<1> DEFINE k == <<"field">>
           A(h, i) == IF i = 0 THEN Decoder!Done(p, <<>>)
                      ELSE Decoder!Then(h[i - 1], LAMBDA l :
                             Decoder!As(FieldAt(l.pos), LAMBDA v : Append(l.val, v)))
           B(h, i) == IF i = 0 THEN Got(p, <<>>) ELSE More(k, h[i - 1])
           IsUp(h) == h = [ i \in 0..n |-> A(h, i) ]
           up == CHOOSE h : IsUp(h)
<1>1. Decoder!readN(p, n, FieldAt) = up[n]
  BY DEF Decoder!readN
<1>2. \A h, i : A(h, i) = B(h, i)
  <2>1. k[1] = "field"
    OBVIOUS
  <2> HIDE DEF k
  <2>2. \A q : ReadBy(k, q) = FieldAt(q)
    BY <2>1 DEF ReadBy
  <2> DEFINE S(l) == Decoder!As(FieldAt(l.pos), LAMBDA v : Append(l.val, v))
             R(l) == Decoder!Then(l, LAMBDA z :
                       Decoder!As(FieldAt(z.pos), LAMBDA v : Append(z.val, v)))
  <2>3. \A l : S(l) = Grow(FieldAt(l.pos), l)
    BY DEF Decoder!As, Decoder!Done, Grow, Got
  <2>4. \A l : R(l) = IF l.st = "ok" THEN S(l) ELSE l
    BY DEF Decoder!Then, Decoder!As
  <2>6. \A l : R(l) = More(k, l)
    <3> HIDE DEF R, S
    <3> QED BY <2>2, <2>3, <2>4 DEF More
  <2>5. Decoder!Done(p, <<>>) = Got(p, <<>>)
    BY DEF Decoder!Done, Got
  <2>7. \A h, i : A(h, i) = IF i = 0 THEN Decoder!Done(p, <<>>) ELSE R(h[i - 1])
    BY DEF Decoder!Then, Decoder!As
  <2> HIDE DEF R, A
  <2> QED BY <2>5, <2>6, <2>7
<1>3. \A h : IsUp(h) <=> Run(k, p, n, h)
  <2> HIDE DEF A
  <2> QED BY <1>2 DEF Run
<1>4. \E h : IsUp(h)
  <2> HIDE DEF IsUp
  <2> QED BY <1>3, RunExists
<1>5. IsUp(up)
  <2> HIDE DEF IsUp
  <2> QED BY <1>4
<1> HIDE DEF IsUp, up
<1> QED BY <1>1, <1>3, <1>5 DEF k

LEMMA PageRun ==
    ASSUME NEW p, NEW n \in Nat
    PROVE  \E g : Run(<<"page">>, p, n, g) /\ Decoder!readN(p, n, Decoder!readZipList) = g[n]
<1> DEFINE k == <<"page">>
           A(h, i) == IF i = 0 THEN Decoder!Done(p, <<>>)
                      ELSE Decoder!Then(h[i - 1], LAMBDA l :
                             Decoder!As(Decoder!readZipList(l.pos), LAMBDA v : Append(l.val, v)))
           B(h, i) == IF i = 0 THEN Got(p, <<>>) ELSE More(k, h[i - 1])
           IsUp(h) == h = [ i \in 0..n |-> A(h, i) ]
           up == CHOOSE h : IsUp(h)
<1>1. Decoder!readN(p, n, Decoder!readZipList) = up[n]
  BY DEF Decoder!readN
<1>2. \A h, i : A(h, i) = B(h, i)
  <2>1. k[1] = "page"
    OBVIOUS
  <2> HIDE DEF k
  <2>2. \A q : ReadBy(k, q) = Decoder!readZipList(q)
    BY <2>1 DEF ReadBy
  <2> DEFINE S(l) == Decoder!As(Decoder!readZipList(l.pos), LAMBDA v : Append(l.val, v))
             R(l) == Decoder!Then(l, LAMBDA z :
                       Decoder!As(Decoder!readZipList(z.pos), LAMBDA v : Append(z.val, v)))
  <2>3. \A l : S(l) = Grow(Decoder!readZipList(l.pos), l)
    BY DEF Decoder!As, Decoder!Done, Grow, Got
  <2>4. \A l : R(l) = IF l.st = "ok" THEN S(l) ELSE l
    BY DEF Decoder!Then, Decoder!As
  <2>6. \A l : R(l) = More(k, l)
    <3> HIDE DEF R, S
    <3> QED BY <2>2, <2>3, <2>4 DEF More
  <2>5. Decoder!Done(p, <<>>) = Got(p, <<>>)
    BY DEF Decoder!Done, Got
  <2>7. \A h, i : A(h, i) = IF i = 0 THEN Decoder!Done(p, <<>>) ELSE R(h[i - 1])
    BY DEF Decoder!Then, Decoder!As
  <2> HIDE DEF R, A
  <2> QED BY <2>5, <2>6, <2>7
<1>3. \A h : IsUp(h) <=> Run(k, p, n, h)
  <2> HIDE DEF A
  <2> QED BY <1>2 DEF Run
<1>4. \E h : IsUp(h)
  <2> HIDE DEF IsUp
  <2> QED BY <1>3, RunExists
<1>5. IsUp(up)
  <2> HIDE DEF IsUp
  <2> QED BY <1>4
<1> HIDE DEF IsUp, up
<1> QED BY <1>1, <1>3, <1>5 DEF k

(* A count, and that many elements. *)
LEMMA SizedEnds ==
    ASSUME out \in Seq(Tokens), NEW k, NEW n \in Nat,
           NEW x, NEW y, NEW t, t = IF x.st = "ok" THEN y ELSE x,
           NEW at \in [1..(n + 1) -> Nat \ {0}], Ends(x, at[1], n),
           ~Past(out, at[1]) => \E g : Run(k, at[1], n, g) /\ y = g[n],
           NEW vs, Stepwise(k, n, at, vs),
           Past(out, at[1]) => Past(out, at[n + 1])
    PROVE  Ends(t, at[n + 1], Firsts(vs, n))
<1>1. ASSUME ~Past(out, at[1])
      PROVE  Ends(y, at[n + 1], Firsts(vs, n))
  <2>1. PICK g : Run(k, at[1], n, g) /\ y = g[n]
    BY <1>1
  <2>2. Ends(g[n], at[n + 1], Firsts(vs, n))
    BY <1>1, <2>1, RunEnds
  <2> QED BY <2>1, <2>2
<1> QED BY <1>1, EndsThen

(* Two reads in a row. *)
LEMMA PairEnds ==
    ASSUME out \in Seq(Tokens), NEW x, NEW y, NEW t, NEW r, NEW q, NEW a, NEW b,
           Ends(x, r, a), ~Past(out, r) => Ends(y, q, b), Past(out, r) => Past(out, q),
           t = IF x.st = "ok" THEN (IF y.st = "ok" THEN Got(y.pos, << x.val, y.val >>) ELSE y)
               ELSE x
    PROVE  Ends(t, q, << a, b >>)
<1> DEFINE z == IF y.st = "ok" THEN Got(y.pos, << x.val, y.val >>) ELSE y
<1>1. ~Past(out, r) => Ends(z, q, << a, b >>)
  <2> SUFFICES ASSUME ~Past(out, r) PROVE Ends(z, q, << a, b >>)
    OBVIOUS
  <2>1. x.val = a /\ Ends(y, q, b)
    BY DEF Ends, Got
  <2>2. z = IF y.st = "ok" THEN Got(y.pos, << a, y.val >>) ELSE y
    BY <2>1
  <2> HIDE DEF z
  <2>3. CASE Past(out, q)
    BY <2>1, <2>2, <2>3 DEF Ends
  <2>4. CASE ~Past(out, q)
    <3>1. y.st = "ok" /\ y.pos = q /\ y.val = b
      BY <2>1, <2>4 DEF Ends, Got
    <3> QED BY <2>2, <2>4, <3>1 DEF Ends
  <2> QED BY <2>3, <2>4
<1> HIDE DEF z
<1>2. t = IF x.st = "ok" THEN z ELSE x
  BY DEF z
<1> QED BY <1>1, <1>2, EndsThen

LEMMA FieldEnds ==
    ASSUME out \in Seq(Tokens), NEW p \in Nat \ {0}, NEW r \in Nat \ {0}, NEW q \in Nat \ {0},
           NEW f \in Strings, NEW v \in Strings,
           Spells(out, Str(f), p, r), Spells(out, Str(v), r, q)
    PROVE  Ends(FieldAt(p), q, << f, v >>)
<1> DEFINE x == Decoder!readText(p)
           y == Decoder!readText(x.pos)
           Second(z) == Decoder!As(Decoder!readText(z.pos), LAMBDA b : << z.val, b >>)
           t == FieldAt(p)
<1>1. t = IF x.st = "ok" THEN Second(x) ELSE x
  BY DEF FieldAt, Decoder!readPair, Decoder!Then, Decoder!As
<1>2. Second(x) = IF y.st = "ok" THEN Got(y.pos, << x.val, y.val >>) ELSE y
  BY DEF Decoder!As, Decoder!Done, Got
<1>3. Ends(x, r, f)
  BY TextEnds
<1>4. ~Past(out, r) => Ends(y, q, v)
  <2> HIDE DEF x
  <2>1. ~Past(out, r) => x.pos = r
    BY <1>3 DEF Ends, Got
  <2>2. Ends(Decoder!readText(r), q, v)
    BY TextEnds
  <2> QED BY <2>1, <2>2
<1>5. Past(out, r) => Past(out, q)
  BY SpellsOn
<1> HIDE DEF t, x, y, Second
<1>6. t = IF x.st = "ok" THEN (IF y.st = "ok" THEN Got(y.pos, << x.val, y.val >>) ELSE y) ELSE x
  BY <1>1, <1>2
<1>7. Ends(t, q, << f, v >>)
  BY <1>3, <1>4, <1>5, <1>6, PairEnds
<1> QED BY <1>7 DEF t

LEMMA ScoredEnds ==
    ASSUME out \in Seq(Tokens), NEW p \in Nat \ {0}, NEW r \in Nat \ {0}, NEW q \in Nat \ {0},
           NEW f \in Strings, NEW v,
           Spells(out, Str(f), p, r), Spells(out, W(Float64(v)), r, q)
    PROVE  Ends(ScoredAt(p), q, << f, v >>)
<1> DEFINE x == Decoder!readText(p)
           y == Decoder!Take(x.pos, {"f64"})
           Second(z) == Decoder!As(Decoder!Take(z.pos, {"f64"}), LAMBDA b : << z.val, b >>)
           t == ScoredAt(p)
<1>1. t = IF x.st = "ok" THEN Second(x) ELSE x
  BY DEF ScoredAt, ScoreAt, Decoder!readPair, Decoder!Then, Decoder!As
<1>2. Second(x) = IF y.st = "ok" THEN Got(y.pos, << x.val, y.val >>) ELSE y
  BY DEF Decoder!As, Decoder!Done, Got
<1>3. Ends(x, r, f)
  BY TextEnds
<1>4. ~Past(out, r) => Ends(y, q, v)
  <2> HIDE DEF x
  <2>1. ~Past(out, r) => x.pos = r
    BY <1>3 DEF Ends, Got
  <2>2. Float64(v)[1] \in {"f64"} /\ Float64(v)[2] = v
    BY DEF Float64
  <2>3. Ends(Decoder!Take(r, {"f64"}), q, Float64(v)[2])
    BY <2>2, TakeSpells
  <2> QED BY <2>1, <2>2, <2>3
<1>5. Past(out, r) => Past(out, q)
  BY SpellsOn
<1> HIDE DEF t, x, y, Second
<1>6. t = IF x.st = "ok" THEN (IF y.st = "ok" THEN Got(y.pos, << x.val, y.val >>) ELSE y) ELSE x
  BY <1>1, <1>2
<1>7. Ends(t, q, << f, v >>)
  BY <1>3, <1>4, <1>5, <1>6, PairEnds
<1> QED BY <1>7 DEF t

LEMMA LengthEnds ==
    ASSUME out \in Seq(Tokens), NEW p \in Nat \ {0}, NEW q \in Nat \ {0}, NEW n,
           Spells(out, W(Length(n)), p, q)
    PROVE  Ends(Decoder!readLength(p), q, n)
<1>1. Length(n)[1] \in Decoder!LengthKinds /\ Length(n)[2] = n
  BY DEF Length, Decoder!LengthKinds
<1>2. Ends(Decoder!Take(p, Decoder!LengthKinds), q, Length(n)[2])
  BY <1>1, TakeSpells
<1> QED BY <1>1, <1>2 DEF Decoder!readLength

LEMMA SizedTexts ==
    ASSUME out \in Seq(Tokens), NEW p \in Nat \ {0}, NEW r \in Nat \ {0}, NEW q \in Nat \ {0},
           NEW vs \in Seq(Strings), Spells(out, W(Length(Len(vs))), p, r),
           Spelled(out, Strs(vs), r, q)
    PROVE  Ends(Decoder!readSized(p, Decoder!readText), q, vs)
<1> DEFINE n == Len(vs)
           x == Decoder!readLength(p)
           y == Decoder!readN(x.pos, x.val, Decoder!readText)
           t == Decoder!readSized(p, Decoder!readText)
           k == <<"text">>
<1>1. t = IF x.st = "ok" THEN y ELSE x
  BY DEF Decoder!readSized, Decoder!Then
<1>2. Ends(x, r, n)
  BY LengthEnds
<1>3. n \in Nat /\ Len(Strs(vs)) = n /\ \A i \in 1..n : vs[i] \in Strings /\ Strs(vs)[i] = Str(vs[i])
  BY DEF Strs
<1>4. PICK at \in [1..(n + 1) -> Nat \ {0}] :
             /\ at[1] = r /\ at[n + 1] = q
             /\ \A i \in 1..n : Spells(out, Strs(vs)[i], at[i], at[i + 1])
  BY <1>3 DEF Spelled
<1>5. ~Past(out, at[1]) => \E g : Run(k, at[1], n, g) /\ y = g[n]
  <2> SUFFICES ASSUME ~Past(out, r) PROVE \E g : Run(k, r, n, g) /\ y = g[n]
    BY <1>4
  <2>1. x.pos = r /\ x.val = n
    BY <1>2 DEF Ends, Got
  <2>2. \E g : Run(k, r, n, g) /\ Decoder!readN(r, n, Decoder!readText) = g[n]
    BY <1>3, TextRun
  <2>3. y = Decoder!readN(r, n, Decoder!readText)
    <3> HIDE DEF x
    <3> QED BY <2>1
  <2> HIDE DEF y, k
  <2> QED BY <2>2, <2>3
<1>6. ASSUME NEW i \in 1..n
      PROVE  Ends(ReadBy(k, at[i]), at[i + 1], vs[i]) /\ (Past(out, at[i]) => Past(out, at[i + 1]))
  <2>1. at[i] \in Nat \ {0} /\ at[i + 1] \in Nat \ {0} /\ Spells(out, Str(vs[i]), at[i], at[i + 1])
        /\ vs[i] \in Strings
    <3>1. i \in 1..(n + 1) /\ i + 1 \in 1..(n + 1)
      BY <1>3
    <3> HIDE DEF n
    <3> QED BY <1>3, <1>4, <3>1
  <2>2. ReadBy(k, at[i]) = Decoder!readText(at[i])
    BY DEF ReadBy
  <2> QED BY <2>1, <2>2, TextEnds, SpellsOn
<1>7. Past(out, at[1]) => Past(out, at[n + 1])
  <2>1. \A i \in 1..n : Spells(out, Strs(vs)[i], at[i], at[i + 1])
    BY <1>4
  <2>2. n + 1 \in 1..(n + 1)
    BY <1>3
  <2> HIDE DEF n
  <2> QED BY <1>3, <1>4, <2>1, <2>2, PositionsOn
<1>8. vs = Firsts(vs, n)
  <2>1. vs \in [1..n -> Strings]
    BY LenProperties
  <2> QED BY <2>1 DEF Firsts
<1>10. Stepwise(k, n, at, vs)
  BY <1>6 DEF Stepwise
<1> HIDE DEF x, y, t, k, n
<1>9. Ends(t, at[n + 1], Firsts(vs, n))
  BY <1>1, <1>2, <1>3, <1>4, <1>5, <1>7, <1>10, SizedEnds
<1> QED BY <1>4, <1>8, <1>9 DEF t


(* What is read is turned into another value. *)
LEMMA EndsTurned ==
    ASSUME NEW x, NEW t, NEW q, NEW v, NEW w, NEW u, Ends(x, q, v),
           t = IF x.st = "ok" THEN Got(x.pos, w) ELSE x, x.val = v => w = u
    PROVE  Ends(t, q, u)
BY DEF Ends, Got

-----------------------------------------------------------------------------
(* Ziplists. *)

LEMMA EntriesOf ==
    ASSUME NEW vs \in Seq(Strings)
    PROVE  /\ Texts(vs) \in Seq(Entries)
           /\ Len(Texts(vs)) = Len(vs)
           /\ Decoder!Elements(Texts(vs)) = vs
<1> DEFINE n == Len(vs)
<1>1. n \in Nat /\ vs \in [1..n -> Strings]
  BY LenProperties
<1>2. \A i \in 1..n : Text(vs[i]) \in Entries /\ Text(vs[i])[2] = vs[i]
  BY <1>1 DEF Text, Entries
<1>3. Texts(vs) = [ i \in 1..n |-> Text(vs[i]) ]
  BY <1>1 DEF Texts
<1> HIDE DEF n
<1>4. Texts(vs) \in Seq(Entries) /\ Len(Texts(vs)) = n /\ \A i \in 1..n : Texts(vs)[i][2] = vs[i]
  BY <1>1, <1>2, <1>3
<1> DEFINE es == Texts(vs)
<1>5. Decoder!Elements(es) = [ j \in 1..(Len(es) \div 1) |-> es[(j - 1) * 1 + 1][2] ]
  BY DEF Decoder!Elements, Decoder!Every
<1> HIDE DEF es
<1>6. \A j \in 1..n : (j - 1) * 1 + 1 = j
  BY <1>1
<1>7. Len(es) = n /\ n \div 1 = n
  BY <1>1, <1>4 DEF es
<1>8. Decoder!Elements(es) = [ j \in 1..n |-> es[j][2] ]
  BY <1>5, <1>6, <1>7
<1>9. Decoder!Elements(es) = vs
  BY <1>1, <1>4, <1>8 DEF es
<1> QED BY <1>4, <1>9 DEF n, es

LEMMA NanBytes ==
    ASSUME NEW es \in Seq(Entries)
    PROVE  Nan(ZipList(es))[1] \in {"str", "nan"} /\ Nan(ZipList(es))[2] = <<"ziplist", es>>
           /\ Nan(ZipList(es))[2] \in Bytes
BY DEF Nan, ZipList, Bytes

LEMMA ZipListEnds ==
    ASSUME out \in Seq(Tokens), NEW p \in Nat \ {0}, NEW q \in Nat \ {0},
           NEW vs \in Seq(Strings), Spells(out, Nan(ZipList(Texts(vs))), p, q)
    PROVE  Ends(Decoder!readZipList(p), q, vs)
<1> DEFINE es == Texts(vs)
           x == Decoder!readImage(p, "ziplist")
           t == Decoder!readZipList(p)
<1>1. es \in Seq(Entries) /\ Decoder!Elements(es) = vs
  BY EntriesOf
<1> HIDE DEF es
<1>2. Ends(x, q, es)
  BY <1>1, NanBytes, ImageEnds DEF es
<1>3. t = IF x.st = "ok" THEN Got(x.pos, Decoder!Elements(x.val)) ELSE x
  BY DEF Decoder!readZipList, Decoder!readEntries, Decoder!As, Decoder!Done, Got
<1> HIDE DEF x, t
<1>4. x.val = es => Decoder!Elements(x.val) = vs
  BY <1>1
<1>5. Ends(t, q, vs)
  BY <1>2, <1>3, <1>4, EndsTurned
<1> QED BY <1>5 DEF t

-----------------------------------------------------------------------------
(* The records of an object. *)

Back(k, o, p, q) ==
    \E flag \in TypeFlags, r \in Nat \ {0} :
        /\ Has(out, p, Op(flag))
        /\ Ends(Decoder!readText(p + 1), r, k)
        /\ ~Past(out, r) => Ends(Decoder!readObject(flag, r), q, o)
        /\ Past(out, r) => Past(out, q)
        /\ Past(out, p + 1) => Past(out, r)

LEMMA HeadBack ==
    ASSUME out \in Seq(Tokens), NEW flag \in TypeFlags, NEW k \in Strings, NEW o,
           NEW p \in Nat \ {0}, NEW r \in Nat \ {0}, NEW q \in Nat \ {0},
           NEW m \in Nat \ {0},
           Spells(out, W(Op(flag)), p, m), Spells(out, Str(k), m, r),
           ~Past(out, r) => Ends(Decoder!readObject(flag, r), q, o),
           Past(out, r) => Past(out, q)
    PROVE  Back(k, o, p, q)
<1>1. Has(out, p, Op(flag)) /\ Same(out, m, p + 1)
  BY SpellsWrite
<1>2. Spells(out, Str(k), p + 1, r)
  <2>1. CASE m = p + 1
    BY <2>1
  <2>2. CASE Past(out, m) /\ Past(out, p + 1)
    <3>1. Past(out, r)
      BY <2>2, SpellsOn
    <3> QED BY <2>2, <3>1 DEF Spells
  <2> QED BY <1>1, <2>1, <2>2 DEF Same
<1>3. Ends(Decoder!readText(p + 1), r, k) /\ (Past(out, p + 1) => Past(out, r))
  BY <1>2, TextEnds, SpellsOn
<1> QED BY <1>1, <1>3 DEF Back

LEMMA ThreeBack ==
    ASSUME out \in Seq(Tokens), NEW flag \in TypeFlags, NEW k \in Strings, NEW o, NEW x,
           NEW p, NEW q, Spelled(out, << W(Op(flag)), Str(k), x >>, p, q),
           \A r \in Nat \ {0} : Spells(out, x, r, q) /\ ~Past(out, r)
                                  => Ends(Decoder!readObject(flag, r), q, o)
    PROVE  Back(k, o, p, q)
<1>1. p \in Nat \ {0} /\ q \in Nat \ {0}
  BY SpelledThree
<1>2. PICK m \in Nat \ {0}, r \in Nat \ {0} :
        Spells(out, W(Op(flag)), p, m) /\ Spells(out, Str(k), m, r) /\ Spells(out, x, r, q)
  BY SpelledThree
<1>3. Past(out, r) => Past(out, q)
  BY <1>1, <1>2, SpellsOn
<1> QED BY <1>1, <1>2, <1>3, HeadBack

LEMMA SizedBack ==
    ASSUME out \in Seq(Tokens), NEW flag \in TypeFlags, NEW k \in Strings, NEW o, NEW n,
           NEW items \in Seq(BodyWrites),
           NEW p, NEW q, Spelled(out, << W(Op(flag)), Str(k), W(Length(n)) >> \o items, p, q),
           \A r \in Nat \ {0}, m \in Nat \ {0} :
               Spells(out, W(Length(n)), r, m) /\ Spelled(out, items, m, q) /\ ~Past(out, r)
                 => Ends(Decoder!readObject(flag, r), q, o)
    PROVE  Back(k, o, p, q)
<1> DEFINE A == << W(Op(flag)), Str(k), W(Length(n)) >>
           S == {W(Op(flag)), Str(k), W(Length(n))} \cup BodyWrites
<1>1. A \in Seq(S) /\ items \in Seq(S)
  OBVIOUS
<1>2. Len(items) \in Nat
  OBVIOUS
<1> HIDE DEF A, S
<1>3. PICK m \in Nat \ {0} : Spelled(out, A, p, m) /\ Spelled(out, items, m, q)
  BY <1>1, SpelledPrefix DEF A
<1>4. p \in Nat \ {0}
  BY <1>3, SpelledThree DEF A
<1>5. PICK s \in Nat \ {0}, r \in Nat \ {0} :
        Spells(out, W(Op(flag)), p, s) /\ Spells(out, Str(k), s, r) /\ Spells(out, W(Length(n)), r, m)
  BY <1>3, SpelledThree DEF A
<1>6. q \in Nat \ {0}
  <2>1. PICK at \in [1..(Len(items) + 1) -> Nat \ {0}] : at[Len(items) + 1] = q
    BY <1>3 DEF Spelled
  <2>2. Len(items) + 1 \in 1..(Len(items) + 1)
    BY <1>2
  <2> QED BY <2>1, <2>2
<1>7. Past(out, r) => Past(out, q)
  BY <1>2, <1>3, <1>5, <1>6, SpellsOn, SpelledOn
<1> QED BY <1>3, <1>4, <1>5, <1>6, <1>7, HeadBack

-----------------------------------------------------------------------------
(* The elements of a value and the statements they were written with, w of *)
(* them each.                                                              *)

Chunk(items, w, i) == [ j \in 1..w |-> items[(i - 1) * w + j] ]

LEMMA ChunkIndexes ==
    ASSUME NEW n \in Nat, NEW w \in 1..3
    PROVE  /\ n * w \in Nat
           /\ (n + 1 - 1) * w + 1 = n * w + 1
           /\ (1 - 1) * w + 1 = 1
           /\ \A i \in 1..(n + 1) : (i - 1) * w + 1 \in 1..(n * w + 1)
           /\ \A i \in 1..n : ((i + 1) - 1) * w + 1 = (i - 1) * w + 1 + w
           /\ \A i \in 1..n, j \in 1..w : (i - 1) * w + j \in 1..(n * w)
           /\ \A i \in 1..n, j \in 1..(w + 1) : (i - 1) * w + j \in 1..(n * w + 1)
<1>1. CASE w = 1
  BY <1>1
<1>2. CASE w = 2
  BY <1>2
<1>3. CASE w = 3
  BY <1>3
<1> QED BY <1>1, <1>2, <1>3

Chunked(f, items, w, n, bt, r, q) ==
    /\ bt \in [1..(n + 1) -> Nat \ {0}]
    /\ bt[1] = r
    /\ bt[n + 1] = q
    /\ \A i \in 1..n : /\ Spelled(f, Chunk(items, w, i), bt[i], bt[i + 1])
                       /\ Past(f, bt[i]) => Past(f, bt[i + 1])

LEMMA ChunkSpelled ==
    ASSUME NEW f \in Seq(Tokens), NEW n \in Nat, NEW w \in 1..3, NEW items, Len(items) = n * w,
           NEW r, NEW q, Spelled(f, items, r, q)
    PROVE  \E bt : Chunked(f, items, w, n, bt, r, q)
<1> DEFINE N == n * w
           J(i) == (i - 1) * w + 1
<1>1. /\ N \in Nat /\ Len(items) = N /\ J(n + 1) = N + 1 /\ J(1) = 1
      /\ \A i \in 1..(n + 1) : J(i) \in 1..(N + 1)
      /\ \A i \in 1..n : J(i + 1) = J(i) + w
      /\ \A i \in 1..n, j \in 1..w : (i - 1) * w + j \in 1..N
      /\ \A i \in 1..n, j \in 1..(w + 1) : (i - 1) * w + j \in 1..(N + 1)
  BY ChunkIndexes
<1>2. \A i \in 1..n, j \in 1..(w + 1) : (i - 1) * w + j = J(i) + j - 1 /\ J(i) + j - 1 \in 1..(N + 1)
  <2> SUFFICES ASSUME NEW i \in 1..n, NEW j \in 1..(w + 1)
               PROVE  (i - 1) * w + j = J(i) + j - 1
    BY <1>1
  <2> DEFINE z == (i - 1) * w
  <2>1. z \in Int
    BY <1>1
  <2> HIDE DEF z
  <2>2. z + j = z + 1 + j - 1
    BY <2>1
  <2> QED BY <2>2 DEF z
<1>3. \A i \in 1..n, j \in 1..w : Chunk(items, w, i)[j] = items[J(i) + j - 1] /\ J(i) + j - 1 \in 1..N
  BY <1>1, <1>2 DEF Chunk
<1>4. \A i \in 1..n : Len(Chunk(items, w, i)) = w
  BY DEF Chunk
<1> HIDE DEF J, N
<1>5. PICK at \in [1..(N + 1) -> Nat \ {0}] :
             /\ at[1] = r /\ at[N + 1] = q
             /\ \A i \in 1..N : Spells(f, items[i], at[i], at[i + 1])
  BY <1>1 DEF Spelled
<1> DEFINE bt == [ i \in 1..(n + 1) |-> at[J(i)] ]
<1>6. bt \in [1..(n + 1) -> Nat \ {0}]
  BY <1>1, <1>5
<1>7. bt[1] = r /\ bt[n + 1] = q
  <2>1. 1 \in 1..(n + 1) /\ n + 1 \in 1..(n + 1)
    OBVIOUS
  <2> QED BY <1>1, <1>5, <2>1
<1>8. ASSUME NEW i \in 1..n
      PROVE  Spelled(f, Chunk(items, w, i), bt[i], bt[i + 1])
  <2> DEFINE ct == [ j \in 1..(w + 1) |-> at[J(i) + j - 1] ]
             C == Chunk(items, w, i)
  <2>1. J(i) \in Nat /\ i \in 1..(n + 1) /\ i + 1 \in 1..(n + 1) /\ J(i + 1) = J(i) + w
    BY <1>1
  <2>2. ct \in [1..(w + 1) -> Nat \ {0}]
    BY <1>2, <1>5
  <2>3. ct[1] = bt[i] /\ ct[w + 1] = bt[i + 1]
    <3>1. J(i) + 1 - 1 = J(i) /\ J(i) + (w + 1) - 1 = J(i + 1)
      BY <2>1
    <3>2. 1 \in 1..(w + 1) /\ w + 1 \in 1..(w + 1)
      OBVIOUS
    <3> QED BY <2>1, <3>1, <3>2
  <2>4. \A j \in 1..w : Spells(f, C[j], ct[j], ct[j + 1])
    <3> SUFFICES ASSUME NEW j \in 1..w PROVE Spells(f, C[j], ct[j], ct[j + 1])
      OBVIOUS
    <3> DEFINE x == J(i) + j - 1
    <3>1. x \in 1..N /\ C[j] = items[x]
      BY <1>3
    <3>2. j \in 1..(w + 1) /\ j + 1 \in 1..(w + 1) /\ J(i) + (j + 1) - 1 = x + 1
      BY <2>1
    <3>3. ct[j] = at[x] /\ ct[j + 1] = at[x + 1]
      BY <3>2
    <3> HIDE DEF x, C, ct
    <3> QED BY <1>5, <3>1, <3>3
  <2>5. Len(C) = w
    BY <1>4
  <2> HIDE DEF ct, C
  <2>6. Spelled(f, C, bt[i], bt[i + 1])
    BY <2>2, <2>3, <2>4, <2>5 DEF Spelled
  <2> QED BY <2>6 DEF C
<1> HIDE DEF bt
<1>9. ASSUME NEW i \in 1..n
      PROVE  Past(f, bt[i]) => Past(f, bt[i + 1])
  <2> DEFINE C == Chunk(items, w, i)
  <2>1. Spelled(f, C, bt[i], bt[i + 1]) /\ Len(C) \in Nat
    BY <1>4, <1>8
  <2>2. bt[i] \in Nat /\ bt[i + 1] \in Nat
    <3>1. i \in 1..(n + 1) /\ i + 1 \in 1..(n + 1)
      OBVIOUS
    <3> QED BY <1>6, <3>1
  <2> HIDE DEF C
  <2> QED BY <2>1, <2>2, SpelledOn
<1> QED BY <1>6, <1>7, <1>8, <1>9 DEF Chunked

Runs(k, p, n, y) == \E g : Run(k, p, n, g) /\ y = g[n]

Chunkwise(k, items, w, n, vs) ==
    \A i \in 1..n, a \in Nat \ {0}, b \in Nat \ {0} :
        Spelled(out, Chunk(items, w, i), a, b) => Ends(ReadBy(k, a), b, vs[i])

(* A count, and the elements. *)
LEMMA SizedItems ==
    ASSUME out \in Seq(Tokens), NEW k, NEW n \in Nat, NEW w \in 1..3,
           NEW p \in Nat \ {0}, NEW r \in Nat \ {0}, NEW q \in Nat \ {0},
           Spells(out, W(Length(n)), p, r),
           NEW items, Len(items) = n * w, Spelled(out, items, r, q),
           NEW x, x = Decoder!readLength(p), NEW y, NEW t, t = IF x.st = "ok" THEN y ELSE x,
           ~Past(out, r) => Runs(k, r, n, y),
           NEW vs, Chunkwise(k, items, w, n, vs)
    PROVE  Ends(t, q, Firsts(vs, n))
<1>1. Ends(x, r, n)
  BY LengthEnds
<1>12. PICK bt : Chunked(out, items, w, n, bt, r, q)
  BY ChunkSpelled
<1>2. /\ bt \in [1..(n + 1) -> Nat \ {0}]
      /\ bt[1] = r
      /\ bt[n + 1] = q
      /\ \A i \in 1..n : /\ Spelled(out, Chunk(items, w, i), bt[i], bt[i + 1])
                         /\ Past(out, bt[i]) => Past(out, bt[i + 1])
  BY <1>12 DEF Chunked
<1>3. Stepwise(k, n, bt, vs)
  <2> SUFFICES ASSUME NEW i \in 1..n
               PROVE  Ends(ReadBy(k, bt[i]), bt[i + 1], vs[i])
    BY <1>2 DEF Stepwise
  <2>1. bt[i] \in Nat \ {0} /\ bt[i + 1] \in Nat \ {0}
    <3>1. i \in 1..(n + 1) /\ i + 1 \in 1..(n + 1)
      OBVIOUS
    <3> QED BY <1>2, <3>1
  <2> QED BY <1>2, <2>1 DEF Chunkwise
<1>4. Past(out, bt[1]) => Past(out, bt[n + 1])
  <2>1. n * w \in Nat
    BY ChunkIndexes
  <2> DEFINE N == n * w
  <2> HIDE DEF N
  <2>2. N \in Nat /\ Len(items) = N
    BY <2>1 DEF N
  <2>3. Past(out, r) => Past(out, q)
    BY <2>2, SpelledOn
  <2> QED BY <1>2, <2>3
<1>5. Ends(t, bt[n + 1], Firsts(vs, n))
  <2>1. ~Past(out, bt[1]) => \E g : Run(k, bt[1], n, g) /\ y = g[n]
    BY <1>2 DEF Runs
  <2> QED BY <1>1, <1>2, <1>3, <1>4, <2>1, SizedEnds
<1> QED BY <1>2, <1>5

-----------------------------------------------------------------------------
(* What readObject makes of the reads of its cases. *)

LEMMA TypedReads ==
    ASSUME NEW r, NEW x, NEW t
    PROVE  LET Typed(ty, a) == x = a => t = IF x.st = "ok" THEN Got(x.pos, << ty, x.val >>) ELSE x
           IN  /\ t = Decoder!readObject("typeString", r) => Typed("string", Decoder!readText(r))
               /\ t = Decoder!readObject("typeListZipList", r)
                    => Typed("list", Decoder!readZipList(r))
               /\ t = Decoder!readObject("typeListQuickList", r)
                    => Typed("list", Decoder!readQuickList(r))
               /\ t = Decoder!readObject("typeZsetZipList", r)
                    => Typed("zset", Decoder!readZipListZSet(r))
               /\ t = Decoder!readObject("typeZset2", r) => Typed("zset", Decoder!readZSet(r))
BY DEF Decoder!readObject, Decoder!As, Decoder!Done, Got

LEMMA TypedEnds ==
    ASSUME NEW x, NEW t, NEW q, NEW v, NEW ty, Ends(x, q, v),
           t = IF x.st = "ok" THEN Got(x.pos, << ty, x.val >>) ELSE x
    PROVE  Ends(t, q, << ty, v >>)
BY EndsTurned

LEMMA StringBack ==
    ASSUME out \in Seq(Tokens), NEW k \in Strings, NEW s \in Strings, NEW p, NEW q,
           Spelled(out, << W(Op("typeString")), Str(k), Str(s) >>, p, q)
    PROVE  Back(k, <<"string", s>>, p, q)
<1>1. q \in Nat \ {0}
  BY SpelledThree
<1>2. ASSUME NEW r \in Nat \ {0}, Spells(out, Str(s), r, q)
      PROVE  Ends(Decoder!readObject("typeString", r), q, <<"string", s>>)
  <2> DEFINE x == Decoder!readText(r)
             t == Decoder!readObject("typeString", r)
  <2>1. Ends(x, q, s)
    BY <1>1, <1>2, TextEnds
  <2>2. t = IF x.st = "ok" THEN Got(x.pos, << "string", x.val >>) ELSE x
    BY TypedReads
  <2> HIDE DEF x, t
  <2>3. Ends(t, q, <<"string", s>>)
    BY <2>1, <2>2, TypedEnds
  <2> QED BY <2>3 DEF t
<1>3. "typeString" \in TypeFlags
  BY DEF TypeFlags
<1> QED BY <1>2, <1>3, ThreeBack

LEMMA ZipListBack ==
    ASSUME out \in Seq(Tokens), NEW k \in Strings, NEW vs \in Seq(Strings), NEW p, NEW q,
           Spelled(out, << W(Op("typeListZipList")), Str(k), Nan(ZipList(Texts(vs))) >>, p, q)
    PROVE  Back(k, <<"list", vs>>, p, q)
<1>1. q \in Nat \ {0}
  BY SpelledThree
<1>2. ASSUME NEW r \in Nat \ {0}, Spells(out, Nan(ZipList(Texts(vs))), r, q)
      PROVE  Ends(Decoder!readObject("typeListZipList", r), q, <<"list", vs>>)
  <2> DEFINE x == Decoder!readZipList(r)
             t == Decoder!readObject("typeListZipList", r)
  <2>1. Ends(x, q, vs)
    BY <1>1, <1>2, ZipListEnds
  <2>2. t = IF x.st = "ok" THEN Got(x.pos, << "list", x.val >>) ELSE x
    BY TypedReads
  <2> HIDE DEF x, t
  <2>3. Ends(t, q, <<"list", vs>>)
    BY <2>1, <2>2, TypedEnds
  <2> QED BY <2>3 DEF t
<1>3. "typeListZipList" \in TypeFlags
  BY DEF TypeFlags
<1> QED BY <1>2, <1>3, ThreeBack

-----------------------------------------------------------------------------
(* Sets. *)

LEMMA IntSetBack ==
    ASSUME out \in Seq(Tokens), NEW k \in Strings, NEW S \in SUBSET Strings, NEW p, NEW q,
           Spelled(out, << W(Op("typeSetIntSet")), Str(k), Nan(IntSet(S)) >>, p, q)
    PROVE  Back(k, <<"set", S>>, p, q)
<1>1. q \in Nat \ {0}
  BY SpelledThree
<1>2. ASSUME NEW r \in Nat \ {0}, Spells(out, Nan(IntSet(S)), r, q)
      PROVE  Ends(Decoder!readObject("typeSetIntSet", r), q, <<"set", S>>)
  <2> DEFINE x == Decoder!readImage(r, "intset")
             t == Decoder!readObject("typeSetIntSet", r)
             y == Nan(IntSet(S))
  <2>1. y[1] \in {"str", "nan"} /\ y[2] = <<"intset", S>> /\ y[2] \in Bytes
    BY DEF Nan, IntSet, Bytes
  <2>2. Spells(out, y, r, q)
    BY <1>2
  <2> HIDE DEF y
  <2>3. Ends(x, q, S)
    BY <1>1, <2>1, <2>2, ImageEnds
  <2>4. t = IF x.st = "ok" THEN Got(x.pos, << "set", x.val >>) ELSE x
    BY DEF Decoder!readObject, Decoder!readIntSet, Decoder!As, Decoder!Done, Got
  <2> HIDE DEF x, t
  <2>5. Ends(t, q, <<"set", S>>)
    BY <2>3, <2>4, TypedEnds
  <2> QED BY <2>5 DEF t
<1>3. "typeSetIntSet" \in TypeFlags
  BY DEF TypeFlags
<1> QED BY <1>2, <1>3, ThreeBack

LEMMA StrsWrites ==
    ASSUME NEW vs \in Seq(Strings)
    PROVE  Strs(vs) \in Seq(BodyWrites)
<1> DEFINE n == Len(vs)
<1>1. n \in Nat /\ vs \in [1..n -> Strings]
  BY LenProperties
<1>2. \A i \in 1..n : Str(vs[i]) \in BodyWrites
  BY <1>1 DEF Str, Text, BodyWrites, Bytes
<1>3. Strs(vs) = [ i \in 1..n |-> Str(vs[i]) ]
  BY <1>1 DEF Strs
<1> HIDE DEF n
<1> QED BY <1>1, <1>2, <1>3

LEMMA SetBack ==
    ASSUME out \in Seq(Tokens), NEW k \in Strings, NEW vs \in Seq(Strings), NEW p, NEW q,
           Spelled(out, << W(Op("typeSet")), Str(k), W(Length(Len(vs))) >> \o Strs(vs), p, q)
    PROVE  Back(k, <<"set", {vs[i] : i \in DOMAIN vs}>>, p, q)
<1> DEFINE items == Strs(vs)
           n == Len(vs)
           o == <<"set", {vs[i] : i \in DOMAIN vs}>>
<1>1. items \in Seq(BodyWrites)
  BY StrsWrites
<1>2. ASSUME NEW r \in Nat \ {0}, NEW m \in Nat \ {0},
             Spells(out, W(Length(n)), r, m), Spelled(out, items, m, q)
      PROVE  Ends(Decoder!readObject("typeSet", r), q, o)
  <2> DEFINE x == Decoder!readSized(r, Decoder!readText)
             t == Decoder!readObject("typeSet", r)
  <2>0. q \in Nat \ {0}
    <3>1. PICK at \in [1..(Len(items) + 1) -> Nat \ {0}] : at[Len(items) + 1] = q
      BY <1>2 DEF Spelled
    <3>2. Len(items) + 1 \in 1..(Len(items) + 1)
      BY <1>1
    <3> QED BY <3>1, <3>2
  <2>1. Ends(x, q, vs)
    BY <1>2, <2>0, SizedTexts
  <2>2. t = IF x.st = "ok" THEN Got(x.pos, Decoder!SetOf(x.val)) ELSE x
    BY DEF Decoder!readObject, Decoder!readSet, Decoder!As, Decoder!Done, Got
  <2> HIDE DEF x, t
  <2>3. x.val = vs => Decoder!SetOf(x.val) = o
    BY DEF Decoder!SetOf
  <2> HIDE DEF o
  <2>4. Ends(t, q, o)
    BY <2>1, <2>2, <2>3, EndsTurned
  <2> QED BY <2>4 DEF t
<1>3. "typeSet" \in TypeFlags
  BY DEF TypeFlags
<1>4. Spelled(out, << W(Op("typeSet")), Str(k), W(Length(n)) >> \o items, p, q)
  OBVIOUS
<1> HIDE DEF items, n, o
<1>5. Back(k, o, p, q)
  BY <1>1, <1>2, <1>3, <1>4, SizedBack
<1> QED BY <1>5 DEF o

-----------------------------------------------------------------------------
(* Concat, one page more. *)

Joins(p, n, h) == h = [ i \in 0..n |-> IF i = 0 THEN <<>> ELSE h[i - 1] \o p[i] ]

LEMMA JoinsExists ==
    ASSUME NEW p, NEW N \in Nat
    PROVE  \E h : Joins(p, N, h)
<1> DEFINE S == {n \in 0..N : \E h : Joins(p, n, h)}
<1>1. 0 \in S
  <2> DEFINE h == [ i \in 0..0 |-> <<>> ]
  <2>1. h = [ i \in 0..0 |-> IF i = 0 THEN <<>> ELSE h[i - 1] \o p[i] ]
    OBVIOUS
  <2> HIDE DEF h
  <2>2. Joins(p, 0, h)
    BY <2>1 DEF Joins
  <2> QED BY <2>2
<1>2. ASSUME NEW k \in 1..N, k - 1 \in S
      PROVE  k \in S
  <2>1. PICK h : Joins(p, k - 1, h)
    BY <1>2
  <2> DEFINE g == [ i \in 0..k |-> IF i = k THEN h[k - 1] \o p[k] ELSE h[i] ]
  <2>2. \A i \in 0..(k - 1) : h[i] = IF i = 0 THEN <<>> ELSE h[i - 1] \o p[i]
    BY <2>1 DEF Joins
  <2>3. \A i \in 0..k : g[i] = IF i = 0 THEN <<>> ELSE g[i - 1] \o p[i]
    BY <2>2
  <2>4. g = [ i \in 0..k |-> IF i = 0 THEN <<>> ELSE g[i - 1] \o p[i] ]
    BY <2>3
  <2> HIDE DEF g
  <2>5. Joins(p, k, g)
    BY <2>4 DEF Joins
  <2> QED BY <2>5
<1> HIDE DEF S
<1>3. 0..N \subseteq S
  BY <1>1, <1>2, UpTo
<1> QED BY <1>3 DEF S

LEMMA ConcatIs ==
    ASSUME NEW p, Len(p) \in Nat
    PROVE  \E h : Joins(p, Len(p), h) /\ Decoder!Concat(p) = h[Len(p)]
<1> DEFINE IsJoin(h) == h = [ i \in 0..Len(p) |-> IF i = 0 THEN <<>> ELSE h[i - 1] \o p[i] ]
           join == CHOOSE h : IsJoin(h)
<1>1. Decoder!Concat(p) = join[Len(p)]
  BY DEF Decoder!Concat
<1>2. \E h : IsJoin(h)
  BY JoinsExists DEF Joins
<1>3. IsJoin(join)
  <2> HIDE DEF IsJoin
  <2> QED BY <1>2
<1> QED BY <1>1, <1>3 DEF Joins

LEMMA ConcatNone == ASSUME NEW p, Len(p) = 0 PROVE Decoder!Concat(p) = <<>>
<1>1. PICK h : Joins(p, 0, h) /\ Decoder!Concat(p) = h[0]
  BY ConcatIs
<1> QED BY <1>1 DEF Joins

LEMMA ConcatMore ==
    ASSUME NEW p, NEW q, NEW n \in Nat, Len(p) = n, Len(q) = n + 1,
           \A i \in 1..n : q[i] = p[i]
    PROVE  Decoder!Concat(q) = Decoder!Concat(p) \o q[n + 1]
<1>1. PICK h : Joins(p, n, h) /\ Decoder!Concat(p) = h[n]
  BY ConcatIs
<1>2. PICK g : Joins(q, n + 1, g) /\ Decoder!Concat(q) = g[n + 1]
  BY ConcatIs
<1>3. /\ \A i \in 0..n : h[i] = IF i = 0 THEN <<>> ELSE h[i - 1] \o p[i]
      /\ \A i \in 0..(n + 1) : g[i] = IF i = 0 THEN <<>> ELSE g[i - 1] \o q[i]
  BY <1>1, <1>2 DEF Joins
<1> DEFINE S == {i \in 0..n : g[i] = h[i]}
<1>4. 0 \in S
  BY <1>3
<1>5. \A k \in 1..n : k - 1 \in S => k \in S
  BY <1>3
<1> HIDE DEF S
<1>6. 0..n \subseteq S
  BY <1>4, <1>5, UpTo
<1>7. g[n] = h[n]
  BY <1>6 DEF S
<1>8. g[n + 1] = g[n] \o q[n + 1]
  <2>1. n + 1 \in 0..(n + 1) /\ n + 1 # 0 /\ (n + 1) - 1 = n
    OBVIOUS
  <2> QED BY <1>3, <2>1, Zenon
<1> QED BY <1>1, <1>2, <1>7, <1>8

LEMMA JoinsSteps ==
    ASSUME NEW p, NEW n \in Nat, NEW h, Joins(p, n, h)
    PROVE  h[0] = <<>> /\ \A k \in 1..n : h[k] = h[k - 1] \o p[k]
<1>1. \A i \in 0..n : h[i] = IF i = 0 THEN <<>> ELSE h[i - 1] \o p[i]
  BY DEF Joins
<1>2. h[0] = <<>>
  BY <1>1
<1>3. ASSUME NEW k \in 1..n
      PROVE  h[k] = h[k - 1] \o p[k]
  <2>1. k \in 0..n /\ k # 0
    OBVIOUS
  <2> QED BY <1>1, <2>1, Zenon
<1> QED BY <1>2, <1>3

Pages(p, n, S) == \A i \in 1..n : p[i] \in Seq(S)

LEMMA JoinsType ==
    ASSUME NEW S, NEW p, NEW n \in Nat, Pages(p, n, S), NEW h, Joins(p, n, h)
    PROVE  h[n] \in Seq(S)
<1> DEFINE T == {i \in 0..n : h[i] \in Seq(S)}
<1>1. h[0] = <<>> /\ \A k \in 1..n : h[k] = h[k - 1] \o p[k]
  BY JoinsSteps
<1>2. 0 \in T
  <2>1. <<>> \in Seq(S) /\ 0 \in 0..n
    OBVIOUS
  <2>2. h[0] \in Seq(S)
    BY <1>1, <2>1, Zenon
  <2> QED BY <2>1, <2>2
<1>3. ASSUME NEW k \in 1..n, k - 1 \in T
      PROVE  k \in T
  <2>1. h[k] = h[k - 1] \o p[k]
    BY <1>1, Zenon
  <2>2. h[k - 1] \in Seq(S) /\ p[k] \in Seq(S)
    BY <1>3 DEF Pages
  <2>3. h[k] \in Seq(S)
    BY <2>1, <2>2, ConcatProperties
  <2> QED BY <2>3
<1> HIDE DEF T
<1>4. 0..n \subseteq T
  BY <1>2, <1>3, UpTo
<1>5. n \in T
  BY <1>4
<1> QED BY <1>5 DEF T

LEMMA ConcatType ==
    ASSUME NEW S, NEW p, Len(p) \in Nat, \A i \in 1..Len(p) : p[i] \in Seq(S)
    PROVE  Decoder!Concat(p) \in Seq(S)
BY ConcatIs, JoinsType DEF Pages

IsSequence(s) == \E S : s \in Seq(S)

LEMMA SequenceGrows ==
    ASSUME NEW s, IsSequence(s), NEW x
    PROVE  /\ IsSequence(Append(s, x))
           /\ Len(s) \in Nat /\ Len(Append(s, x)) = Len(s) + 1
           /\ \A i \in 1..Len(s) : Append(s, x)[i] = s[i]
           /\ Append(s, x)[Len(s) + 1] = x
<1>1. PICK S : s \in Seq(S)
  BY DEF IsSequence
<1> DEFINE T == S \cup {x}
<1>2. s \in Seq(T)
  BY <1>1, SeqMonotonic
<1>3. x \in T
  OBVIOUS
<1> HIDE DEF T
<1>4. /\ Append(s, x) \in Seq(T) /\ Len(Append(s, x)) = Len(s) + 1
      /\ \A i \in 1..Len(s) : Append(s, x)[i] = s[i]
      /\ Append(s, x)[Len(s) + 1] = x
  BY <1>2, <1>3, AppendProperties
<1>5. Len(s) \in Nat
  BY <1>2, LenProperties
<1> QED BY <1>4, <1>5 DEF IsSequence

LEMMA EntriesGrow ==
    ASSUME NEW g, IsSequence(g), NEW x
    PROVE  /\ x[1] = "object" => Received(Append(g, x)) = Received(g) \o << x[2] >>
           /\ x[1] # "object" => Received(Append(g, x)) = Received(g)
<1> DEFINE h == Append(g, x)
           n == Len(g)
           Page(f, i) == IF f[i][1] = "object" THEN << f[i][2] >> ELSE <<>>
           p == [ i \in 1..n |-> Page(g, i) ]
           q == [ i \in 1..Len(h) |-> Page(h, i) ]
           S == {g[i][2] : i \in 1..n}
<1>1. Received(g) = Decoder!Concat(p) /\ Received(h) = Decoder!Concat(q)
  BY DEF Received
<1>2. /\ n \in Nat /\ Len(h) = n + 1 /\ h[n + 1] = x
      /\ \A i \in 1..n : h[i] = g[i]
  BY SequenceGrows
<1>3. \A i \in 1..n : Page(g, i) \in Seq(S)
  <2> SUFFICES ASSUME NEW i \in 1..n
               PROVE  Page(g, i) \in Seq(S)
    OBVIOUS
  <2> DEFINE e == g[i][2]
  <2>1. e \in S
    OBVIOUS
  <2> HIDE DEF e, S
  <2>2. << e >> \in Seq(S) /\ <<>> \in Seq(S)
    BY <2>1
  <2> QED BY <2>2 DEF e
<1> HIDE DEF h, n, S
<1>4. Page(h, n + 1) = IF x[1] = "object" THEN << x[2] >> ELSE <<>>
  <2>1. h[n + 1] = x
    BY <1>2, Zenon
  <2> QED BY <2>1, Zenon
<1>5. \A i \in 1..n : Page(h, i) = Page(g, i)
  BY <1>2
<1> HIDE DEF Page
<1>6. /\ Len(p) = n /\ Len(q) = n + 1
      /\ \A i \in 1..n : q[i] = p[i] /\ p[i] = Page(g, i)
      /\ q[n + 1] = Page(h, n + 1)
  BY <1>2, <1>5
<1> HIDE DEF p, q
<1>7. Decoder!Concat(q) = Decoder!Concat(p) \o Page(h, n + 1)
  <2>1. \A i \in 1..n : q[i] = p[i]
    BY <1>6
  <2>2. Decoder!Concat(q) = Decoder!Concat(p) \o q[n + 1]
    BY <1>2, <1>6, <2>1, ConcatMore
  <2> QED BY <1>6, <2>2
<1>8. Decoder!Concat(p) \in Seq(S)
  <2>1. \A i \in 1..Len(p) : p[i] \in Seq(S)
    BY <1>3, <1>6
  <2> QED BY <1>2, <1>6, <2>1, ConcatType
<1>9. Decoder!Concat(p) \o <<>> = Decoder!Concat(p)
  BY <1>8, ConcatEmptySeq
<1> QED BY <1>1, <1>4, <1>7, <1>9 DEF h

LEMMA EntriesNone == Received(<<>>) = <<>>
<1> DEFINE p == [ i \in 1..Len(<<>>) |-> IF <<>>[i][1] = "object" THEN << <<>>[i][2] >> ELSE <<>> ]
<1>1. Received(<<>>) = Decoder!Concat(p)
  BY DEF Received
<1>2. Len(p) = 0
  <2>1. Len(<<>>) = 0
    OBVIOUS
  <2> QED BY <2>1
<1> HIDE DEF p
<1> QED BY <1>1, <1>2, ConcatNone


Cuts(vs, n, cut, pages) ==
    /\ cut \in [0..n -> 0..Len(vs)]
    /\ cut[0] = 0
    /\ \A k \in 1..n : /\ cut[k-1] < cut[k]
                       /\ pages[k] = SubSeq(vs, cut[k-1] + 1, cut[k])

LEMMA Adjacent ==
    ASSUME NEW S, NEW vs \in Seq(S), NEW a \in Nat, NEW b \in Nat, a <= b, b <= Len(vs)
    PROVE  SubSeq(vs, 1, a) \o SubSeq(vs, a + 1, b) = SubSeq(vs, 1, b)
<1> DEFINE s == SubSeq(vs, 1, a)
           t == SubSeq(vs, a + 1, b)
           u == SubSeq(vs, 1, b)
<1>1. Len(vs) \in Nat /\ a \in Nat /\ b \in Nat /\ a <= Len(vs) /\ b <= Len(vs)
  BY LenProperties
<1>2. \A i \in 1..b : vs[i] \in S
  BY <1>1
<1>3. s \in Seq(S) /\ Len(s) = a /\ \A i \in 1..a : s[i] = vs[i]
  BY <1>1, <1>2, SubSeqProperties
<1>4. t \in Seq(S) /\ Len(t) = b - a /\ \A i \in 1..(b - a) : t[i] = vs[a + i]
  <2>1. \A i \in (a + 1)..b : vs[i] \in S
    BY <1>1, <1>2
  <2>2. t \in Seq(S) /\ Len(t) = b - (a + 1) + 1
        /\ \A i \in 1..(b - (a + 1) + 1) : t[i] = vs[(a + 1) + i - 1]
    BY <1>1, <2>1, SubSeqProperties
  <2> HIDE DEF t
  <2>3. b - (a + 1) + 1 = b - a /\ \A i \in 1..(b - a) : (a + 1) + i - 1 = a + i
    BY <1>1
  <2> QED BY <2>2, <2>3
<1>5. u \in Seq(S) /\ Len(u) = b /\ \A i \in 1..b : u[i] = vs[i]
  BY <1>1, <1>2, SubSeqProperties
<1> HIDE DEF s, t, u
<1> DEFINE st == s \o t
<1>6. /\ st \in Seq(S) /\ Len(st) = Len(s) + Len(t)
      /\ \A i \in 1..(Len(s) + Len(t)) : st[i] = IF i <= Len(s) THEN s[i] ELSE t[i - Len(s)]
  <2>1. s \in Seq(S) /\ t \in Seq(S)
    BY <1>3, <1>4
  <2> QED BY <2>1, ConcatProperties
<1> HIDE DEF st
<1>10. Len(s) + Len(t) = b /\ Len(s) = a
  BY <1>1, <1>3, <1>4
<1>7. st \in Seq(S) /\ Len(st) = b /\ \A i \in 1..b : st[i] = IF i <= a THEN s[i] ELSE t[i - a]
  BY <1>6, <1>10
<1>8. ASSUME NEW i \in 1..b
      PROVE  st[i] = u[i]
  <2>1. CASE i <= a
    <3>1. i \in 1..a
      BY <1>1, <2>1
    <3> QED BY <1>3, <1>5, <1>7, <2>1, <3>1
  <2>2. CASE ~(i <= a)
    <3>1. i - a \in 1..(b - a) /\ a + (i - a) = i
      BY <1>1, <2>2
    <3>2. t[i - a] = vs[i]
      BY <1>4, <3>1
    <3> QED BY <1>5, <1>7, <2>2, <3>2
  <2> QED BY <2>1, <2>2
<1>9. st = u
  BY <1>5, <1>7, <1>8, SeqEqual
<1> QED BY <1>9 DEF st, s, t, u

LEMMA PagesJoin ==
    ASSUME NEW S, NEW vs \in Seq(S), NEW n \in Nat, NEW cut, NEW pages, Cuts(vs, n, cut, pages),
           NEW h, Joins(pages, n, h)
    PROVE  h[n] = SubSeq(vs, 1, cut[n])
<1> DEFINE T == {i \in 0..n : h[i] = SubSeq(vs, 1, cut[i])}
<1>1. h[0] = <<>> /\ \A k \in 1..n : h[k] = h[k - 1] \o pages[k]
  BY JoinsSteps
<1>2. 0 \in T
  <2>1. SubSeq(vs, 1, 0) = <<>>
    BY SubSeqEmpty
  <2>2. h[0] = SubSeq(vs, 1, cut[0])
    BY <1>1, <2>1 DEF Cuts
  <2> QED BY <2>2
<1>3. ASSUME NEW k \in 1..n, k - 1 \in T
      PROVE  k \in T
  <2> DEFINE a == cut[k - 1]
             b == cut[k]
  <2>1. a \in 0..Len(vs) /\ b \in 0..Len(vs) /\ a < b
    <3>1. k - 1 \in 0..n /\ k \in 0..n
      OBVIOUS
    <3> QED BY <3>1 DEF Cuts
  <2>2. h[k] = SubSeq(vs, 1, a) \o SubSeq(vs, a + 1, b)
    <3>1. h[k - 1] = SubSeq(vs, 1, a)
      BY <1>3
    <3>2. h[k] = h[k - 1] \o pages[k]
      BY <1>1, Zenon
    <3>3. pages[k] = SubSeq(vs, a + 1, b)
      BY DEF Cuts
    <3> QED BY <3>1, <3>2, <3>3
  <2> HIDE DEF a
  <2>3. SubSeq(vs, 1, a) \o SubSeq(vs, a + 1, b) = SubSeq(vs, 1, b)
    <3> HIDE DEF b
    <3>1. Len(vs) \in Nat
      BY LenProperties
    <3>2. a \in Nat /\ b \in Nat /\ a <= b /\ b <= Len(vs)
      BY <2>1, <3>1
    <3> QED BY <3>2, Adjacent
  <2>4. h[k] = SubSeq(vs, 1, cut[k])
    BY <2>2, <2>3
  <2> QED BY <2>4
<1> HIDE DEF T
<1>4. 0..n \subseteq T
  BY <1>2, <1>3, UpTo
<1>5. n \in T
  BY <1>4
<1> QED BY <1>5 DEF T

LEMMA PagesConcat ==
    ASSUME NEW S, NEW vs \in Seq(S), NEW n \in Nat, NEW cut, NEW pages,
           Cuts(vs, n, cut, pages), Len(pages) = n, cut[n] = Len(vs)
    PROVE  Decoder!Concat(pages) = vs
<1>1. PICK h : Joins(pages, n, h) /\ Decoder!Concat(pages) = h[n]
  BY ConcatIs
<1>2. h[n] = SubSeq(vs, 1, cut[n])
  BY <1>1, PagesJoin
<1>3. SubSeq(vs, 1, Len(vs)) = vs
  BY SubSeqFull
<1> QED BY <1>1, <1>2, <1>3

-----------------------------------------------------------------------------
(* Quicklists. *)

(* The end of what a sequence of writes spells is a position. *)
LEMMA SpelledEnd ==
    ASSUME NEW f, NEW C, Len(C) \in Nat, NEW p, NEW q, Spelled(f, C, p, q)
    PROVE  p \in Nat \ {0} /\ q \in Nat \ {0}
<1>1. PICK at \in [1..(Len(C) + 1) -> Nat \ {0}] : at[1] = p /\ at[Len(C) + 1] = q
  BY DEF Spelled
<1>2. 1 \in 1..(Len(C) + 1) /\ Len(C) + 1 \in 1..(Len(C) + 1)
  OBVIOUS
<1> QED BY <1>1, <1>2

LEMMA ChunkOne ==
    ASSUME NEW items, NEW i \in Nat
    PROVE  Chunk(items, 1, i) = << items[i] >>
<1>1. (i - 1) * 1 + 1 = i
  OBVIOUS
<1> QED BY <1>1 DEF Chunk

LEMMA SizedPages ==
    ASSUME out \in Seq(Tokens), NEW p \in Nat \ {0}, NEW r \in Nat \ {0}, NEW q \in Nat \ {0},
           NEW n \in Nat, NEW pages \in Seq(Seq(Strings)), Len(pages) = n,
           NEW items, Len(items) = n,
           \A i \in 1..n : items[i] = Nan(ZipList(Texts(pages[i]))),
           Spells(out, W(Length(n)), p, r), Spelled(out, items, r, q)
    PROVE  Ends(Decoder!readSized(p, Decoder!readZipList), q, pages)
<1> DEFINE x == Decoder!readLength(p)
           y == Decoder!readN(x.pos, x.val, Decoder!readZipList)
           t == Decoder!readSized(p, Decoder!readZipList)
           k == <<"page">>
<1>1. t = IF x.st = "ok" THEN y ELSE x
  BY DEF Decoder!readSized, Decoder!Then
<1>2. Ends(x, r, n)
  BY LengthEnds
<1>3. ~Past(out, r) => Runs(k, r, n, y)
  <2> SUFFICES ASSUME ~Past(out, r) PROVE \E g : Run(k, r, n, g) /\ y = g[n]
    BY DEF Runs
  <2>1. x.pos = r /\ x.val = n
    BY <1>2 DEF Ends, Got
  <2>2. \E g : Run(k, r, n, g) /\ Decoder!readN(r, n, Decoder!readZipList) = g[n]
    BY PageRun
  <2>3. y = Decoder!readN(r, n, Decoder!readZipList)
    <3> HIDE DEF x
    <3> QED BY <2>1
  <2> HIDE DEF y, k
  <2> QED BY <2>2, <2>3
<1>4. ASSUME NEW i \in 1..n, NEW a \in Nat \ {0}, NEW b \in Nat \ {0},
             Spelled(out, Chunk(items, 1, i), a, b)
      PROVE  Ends(ReadBy(k, a), b, pages[i])
  <2>4. Chunk(items, 1, i) = << items[i] >>
    BY ChunkOne
  <2>5. Spelled(out, << items[i] >>, a, b)
    BY <1>4, <2>4
  <2>1. Spells(out, Nan(ZipList(Texts(pages[i]))), a, b)
    BY <2>5, SpelledOne
  <2>2. ReadBy(k, a) = Decoder!readZipList(a)
    BY DEF ReadBy
  <2>3. pages[i] \in Seq(Strings)
    OBVIOUS
  <2> QED BY <2>1, <2>2, <2>3, ZipListEnds
<1>5. pages = Firsts(pages, n)
  <2>1. pages \in [1..n -> Seq(Strings)]
    BY LenProperties
  <2> QED BY <2>1 DEF Firsts
<1> DEFINE w == 1
<1>6. w \in 1..3 /\ Len(items) = n * w
  OBVIOUS
<1>9. Chunkwise(k, items, w, n, pages)
  BY <1>4 DEF Chunkwise
<1>7. x = Decoder!readLength(p)
  BY DEF x
<1> HIDE DEF x, y, t, k, w
<1>8. Ends(t, q, Firsts(pages, n))
  BY <1>1, <1>3, <1>6, <1>7, <1>9, SizedItems
<1> QED BY <1>5, <1>8 DEF t

LEMMA QuickListBack ==
    ASSUME out \in Seq(Tokens), NEW k \in Strings, NEW vs \in Seq(Strings), NEW p, NEW q,
           NEW n \in Nat, NEW cut, NEW pages \in Seq(Seq(Strings)), Len(pages) = n,
           Cuts(vs, n, cut, pages), cut[n] = Len(vs),
           NEW items \in Seq(BodyWrites), Len(items) = n,
           \A i \in 1..n : items[i] = Nan(ZipList(Texts(pages[i]))),
           Spelled(out, << W(Op("typeListQuickList")), Str(k), W(Length(n)) >> \o items, p, q)
    PROVE  Back(k, <<"list", vs>>, p, q)
<1>1. ASSUME NEW r \in Nat \ {0}, NEW m \in Nat \ {0},
             Spells(out, W(Length(n)), r, m), Spelled(out, items, m, q)
      PROVE  Ends(Decoder!readObject("typeListQuickList", r), q, <<"list", vs>>)
  <2> DEFINE z == Decoder!readSized(r, Decoder!readZipList)
             x == Decoder!readQuickList(r)
             t == Decoder!readObject("typeListQuickList", r)
  <2>0. q \in Nat \ {0}
    BY <1>1, SpelledEnd
  <2>1. Ends(z, q, pages)
    BY <1>1, <2>0, SizedPages
  <2>2. x = IF z.st = "ok" THEN Got(z.pos, Decoder!Concat(z.val)) ELSE z
    BY DEF Decoder!readQuickList, Decoder!As, Decoder!Done, Got
  <2>3. t = IF x.st = "ok" THEN Got(x.pos, << "list", x.val >>) ELSE x
    BY TypedReads
  <2> HIDE DEF x, t, z
  <2>4. Decoder!Concat(pages) = vs
    BY PagesConcat
  <2>5. Ends(x, q, vs)
    BY <2>1, <2>2, <2>4, EndsTurned, ZenonT(30)
  <2>6. Ends(t, q, <<"list", vs>>)
    BY <2>3, <2>5, TypedEnds
  <2> QED BY <2>6 DEF t
<1>2. "typeListQuickList" \in TypeFlags
  BY DEF TypeFlags
<1> QED BY <1>1, <1>2, SizedBack

LEMMA QuickListWritten ==
    ASSUME out \in Seq(Tokens), NEW k \in Strings, NEW vs \in Seq(Strings), NEW p, NEW q,
           NEW ws \in writeQuickList(k, vs), Spelled(out, ws, p, q)
    PROVE  Back(k, <<"list", vs>>, p, q)
<1>1. PICK cut \in Pagings(vs) : ws = QuickWrites(k, vs, cut)
  BY QuickListWrites
<1>4. /\ cut[0] = 0
      /\ cut[Cardinality(DOMAIN cut) - 1] = Len(vs)
      /\ \A i \in 1..(Cardinality(DOMAIN cut) - 1) : cut[i - 1] < cut[i]
  BY PagingFacts
<1>2. PICK n \in 0..Len(vs) : cut \in [0..n -> 0..Len(vs)]
  BY DEF Pagings
<1>3. n \in Nat /\ Cardinality(DOMAIN cut) - 1 = n
  BY <1>2, IntervalCardinality
<1>5. cut[0] = 0 /\ cut[n] = Len(vs) /\ \A i \in 1..n : cut[i - 1] < cut[i]
  BY <1>3, <1>4
<1> DEFINE pages == [ i \in 1..n |-> SubSeq(vs, cut[i-1] + 1, cut[i]) ]
           items == [ i \in 1..n |-> Nan(ZipList(Texts(SubSeq(vs, cut[i-1] + 1, cut[i])))) ]
<1>6. \A i \in 1..n : SubSeq(vs, cut[i-1] + 1, cut[i]) \in Seq(Strings)
  <2> SUFFICES ASSUME NEW i \in 1..n
               PROVE  SubSeq(vs, cut[i-1] + 1, cut[i]) \in Seq(Strings)
    OBVIOUS
  <2>1. cut[i-1] + 1 \in 1..(Len(vs) + 1) /\ cut[i] \in 0..Len(vs)
    BY <1>2, <1>3
  <2>2. \A j \in (cut[i-1] + 1)..cut[i] : vs[j] \in Strings
    BY <2>1
  <2> QED BY <2>1, <2>2, SubSeqProperties
<1>7. pages \in Seq(Seq(Strings)) /\ Len(pages) = n
  <2>1. pages \in [1..n -> Seq(Strings)]
    BY <1>6
  <2> HIDE DEF pages
  <2> QED BY <1>3, <2>1, FunctionIsSeq
<1>8. \A i \in 1..n : items[i] = Nan(ZipList(Texts(pages[i])))
  OBVIOUS
<1>9. items \in Seq(BodyWrites) /\ Len(items) = n
  <2>1. items \in [1..n -> BodyWrites]
    BY <1>6, TextsType, BodyStatements
  <2> HIDE DEF items
  <2> QED BY <1>3, <2>1, FunctionIsSeq
<1>10. Cuts(vs, n, cut, pages)
  BY <1>2, <1>5 DEF Cuts
<1>11. ws = << W(Op("typeListQuickList")), Str(k), W(Length(n)) >> \o items
  BY <1>1, <1>3 DEF QuickWrites
<1> HIDE DEF pages, items
<1>12. Spelled(out, << W(Op("typeListQuickList")), Str(k), W(Length(n)) >> \o items, p, q)
  BY <1>11
<1> QED BY <1>3, <1>5, <1>7, <1>8, <1>9, <1>10, <1>12, QuickListBack

LEMMA ListWritten ==
    ASSUME out \in Seq(Tokens), NEW k \in Strings, NEW vs \in Seq(Strings), NEW p, NEW q,
           NEW ws \in WriteListObject(k, vs), Spelled(out, ws, p, q)
    PROVE  Back(k, <<"list", vs>>, p, q)
BY ZipListBack, QuickListWritten DEF WriteListObject

LEMMA SetWritten ==
    ASSUME out \in Seq(Tokens), NEW k \in Strings, NEW vs \in Seq(Strings), NEW p, NEW q,
           NEW ws \in WriteSetObject(k, vs), Spelled(out, ws, p, q)
    PROVE  Back(k, <<"set", {vs[i] : i \in DOMAIN vs}>>, p, q)
<1> DEFINE S == {vs[i] : i \in DOMAIN vs}
<1>1. S \in SUBSET Strings
  OBVIOUS
<1>2. \/ ws = << W(Op("typeSetIntSet")), Str(k), Nan(IntSet(S)) >>
      \/ ws = << W(Op("typeSet")), Str(k), W(Length(Len(vs))) >> \o Strs(vs)
  BY DEF WriteSetObject
<1>4. Spelled(out, << W(Op("typeSet")), Str(k), W(Length(Len(vs))) >> \o Strs(vs), p, q)
        => Back(k, <<"set", S>>, p, q)
  BY SetBack
<1> HIDE DEF S
<1>5. Back(k, <<"set", S>>, p, q)
  BY <1>1, <1>2, <1>4, IntSetBack
<1> QED BY <1>5 DEF S

-----------------------------------------------------------------------------
(* Sorted sets and hashes: two parts for each element. *)

Coupled(es, n) == [ j \in 1..n |-> << es[2 * j - 1][2], es[2 * j][2] >> ]

LEMMA PairIndex ==
    ASSUME NEW n \in Nat
    PROVE  \A j \in 1..n : /\ (j - 1) * 2 + 1 = 2 * j - 1 /\ (j - 1) * 2 + 2 = 2 * j
                           /\ 2 * j - 1 \in 1..2*n /\ 2 * j \in 1..2*n
                           /\ (2 * j - 1) % 2 = 1 /\ (2 * j) % 2 # 1
                           /\ (2 * j - 1 + 1) \div 2 = j /\ (2 * j) \div 2 = j
OBVIOUS

LEMMA PairsAre ==
    ASSUME NEW es, NEW n \in Nat, Len(es) = 2 * n
    PROVE  Decoder!Pairs(Decoder!Every(es, 1, 2), Decoder!Every(es, 2, 2)) = Coupled(es, n)
<1> DEFINE a == Decoder!Every(es, 1, 2)
           b == Decoder!Every(es, 2, 2)
<1>1. Len(es) \div 2 = n
  OBVIOUS
<1>2. a = [ j \in 1..n |-> es[(j - 1) * 2 + 1][2] ] /\ b = [ j \in 1..n |-> es[(j - 1) * 2 + 2][2] ]
  BY <1>1 DEF Decoder!Every
<1>3. \A j \in 1..n : a[j] = es[2 * j - 1][2] /\ b[j] = es[2 * j][2]
  BY <1>2, PairIndex
<1>4. DOMAIN a = 1..n
  BY <1>2
<1> HIDE DEF a, b
<1>5. Decoder!Pairs(a, b) = [ j \in 1..n |-> << a[j], b[j] >> ]
  BY <1>4 DEF Decoder!Pairs
<1> QED BY <1>3, <1>5 DEF Coupled, a, b

LEMMA PairsEnds ==
    ASSUME out \in Seq(Tokens), NEW p \in Nat \ {0}, NEW q \in Nat \ {0},
           NEW es \in Seq(Entries), NEW n \in Nat, Len(es) = 2 * n,
           Spells(out, Nan(ZipList(es)), p, q)
    PROVE  Ends(Decoder!readEntryPairs(p), q, Coupled(es, n))
<1> DEFINE x == Decoder!readImage(p, "ziplist")
           t == Decoder!readEntryPairs(p)
           Turn(e) == Decoder!Pairs(Decoder!Every(e, 1, 2), Decoder!Every(e, 2, 2))
<1>1. Ends(x, q, es)
  BY NanBytes, ImageEnds
<1>2. t = IF x.st = "ok" THEN Got(x.pos, Turn(x.val)) ELSE x
  BY DEF Decoder!readEntryPairs, Decoder!readEntries, Decoder!As, Decoder!Done, Got
<1>3. Turn(es) = Coupled(es, n)
  BY PairsAre
<1> HIDE DEF x, t, Turn
<1>4. Ends(t, q, Coupled(es, n))
  BY <1>1, <1>2, <1>3, EndsTurned
<1> QED BY <1>4 DEF t

LEMMA ZSetImageBack ==
    ASSUME out \in Seq(Tokens), NEW k \in Strings, NEW es \in Seq(Entries), NEW n \in Nat,
           Len(es) = 2 * n, NEW p, NEW q,
           Spelled(out, << W(Op("typeZsetZipList")), Str(k), Nan(ZipList(es)) >>, p, q)
    PROVE  Back(k, <<"zset", Coupled(es, n)>>, p, q)
<1> DEFINE v == Coupled(es, n)
<1>1. q \in Nat \ {0}
  BY SpelledThree
<1>2. ASSUME NEW r \in Nat \ {0}, Spells(out, Nan(ZipList(es)), r, q)
      PROVE  Ends(Decoder!readObject("typeZsetZipList", r), q, <<"zset", v>>)
  <2> DEFINE x == Decoder!readZipListZSet(r)
             t == Decoder!readObject("typeZsetZipList", r)
  <2>1. Ends(x, q, v)
    BY <1>1, <1>2, PairsEnds DEF Decoder!readZipListZSet
  <2>2. t = IF x.st = "ok" THEN Got(x.pos, << "zset", x.val >>) ELSE x
    BY TypedReads
  <2> HIDE DEF x, t, v
  <2>3. Ends(t, q, <<"zset", v>>)
    BY <2>1, <2>2, TypedEnds
  <2> QED BY <2>3 DEF t
<1>3. "typeZsetZipList" \in TypeFlags
  BY DEF TypeFlags
<1> QED BY <1>2, <1>3, ThreeBack

LEMMA ChunkTwo ==
    ASSUME NEW items, NEW i \in Nat
    PROVE  Chunk(items, 2, i) = << items[2 * i - 1], items[2 * i] >>
<1>1. (i - 1) * 2 + 1 = 2 * i - 1 /\ (i - 1) * 2 + 2 = 2 * i
  OBVIOUS
<1> QED BY <1>1 DEF Chunk

(* A count, and elements of two statements each. *)
LEMMA SizedScored ==
    ASSUME out \in Seq(Tokens), NEW p \in Nat \ {0}, NEW r \in Nat \ {0}, NEW q \in Nat \ {0},
           NEW n \in Nat, NEW es \in [1..n -> Strings \X Scores],
           NEW items, Len(items) = 2 * n,
           \A i \in 1..n : /\ items[2 * i - 1] = Str(es[i][1])
                           /\ items[2 * i] = W(Float64(es[i][2])),
           Spells(out, W(Length(n)), p, r), Spelled(out, items, r, q)
    PROVE  Ends(Decoder!readZSet(p), q, es)
<1> DEFINE x == Decoder!readLength(p)
           y == Decoder!readN(x.pos, x.val, ScoredAt)
           t == Decoder!readZSet(p)
           k == <<"scored">>
           w == 2
<1>1. t = IF x.st = "ok" THEN y ELSE x
  <2> DEFINE N(a) == Decoder!readN(a.pos, a.val, LAMBDA c :
                       Decoder!readPair(c, Decoder!readText, LAMBDA d : Decoder!Take(d, {"f64"})))
  <2> DEFINE T == Decoder!Then(x, LAMBDA z : N(z))
  <2>3. t = T
    BY Zenon DEF Decoder!readZSet, Decoder!readSized, Decoder!Then, Decoder!readN, Decoder!readPair
  <2>1. T = IF x.st = "ok" THEN N(x) ELSE x
    <3> HIDE DEF N, x
    <3> QED BY DEF Decoder!Then
  <2>2. N(x) = y
    <3> HIDE DEF x
    <3> QED BY Zenon DEF Decoder!readN, Decoder!readPair, ScoredAt, ScoreAt
  <2> HIDE DEF N, x, y, t, T
  <2> QED BY <2>1, <2>2, <2>3
<1>2. Ends(x, r, n)
  BY LengthEnds
<1>3. ~Past(out, r) => Runs(k, r, n, y)
  <2> SUFFICES ASSUME ~Past(out, r) PROVE \E g : Run(k, r, n, g) /\ y = g[n]
    BY DEF Runs
  <2>1. x.pos = r /\ x.val = n
    BY <1>2 DEF Ends, Got
  <2>2. \E g : Run(k, r, n, g) /\ Decoder!readN(r, n, ScoredAt) = g[n]
    BY ScoredRun
  <2>3. y = Decoder!readN(r, n, ScoredAt)
    <3> HIDE DEF x
    <3> QED BY <2>1
  <2> HIDE DEF y, k
  <2> QED BY <2>2, <2>3
<1>4. ASSUME NEW i \in 1..n, NEW a \in Nat \ {0}, NEW b \in Nat \ {0},
             Spelled(out, Chunk(items, 2, i), a, b)
      PROVE  Ends(ReadBy(k, a), b, es[i])
  <2>1. Chunk(items, 2, i) = << Str(es[i][1]), W(Float64(es[i][2])) >>
    BY ChunkTwo
  <2>2. PICK m \in Nat \ {0} : Spells(out, Str(es[i][1]), a, m) /\ Spells(out, W(Float64(es[i][2])), m, b)
    BY <1>4, <2>1, SpelledTwo
  <2>3. ReadBy(k, a) = ScoredAt(a)
    BY DEF ReadBy
  <2>4. es[i] = << es[i][1], es[i][2] >> /\ es[i][1] \in Strings
    OBVIOUS
  <2> QED BY <2>2, <2>3, <2>4, ScoredEnds
<1>5. es = Firsts(es, n)
  BY DEF Firsts
<1>6. w \in 1..3 /\ Len(items) = n * w
  OBVIOUS
<1>7. x = Decoder!readLength(p)
  OBVIOUS
<1>8. Chunkwise(k, items, w, n, es)
  BY <1>4 DEF Chunkwise
<1> HIDE DEF x, y, t, k, w
<1>9. Ends(t, q, Firsts(es, n))
  BY <1>1, <1>3, <1>6, <1>7, <1>8, SizedItems
<1> QED BY <1>5, <1>9 DEF t

LEMMA ZSetBack ==
    ASSUME out \in Seq(Tokens), NEW k \in Strings, NEW p, NEW q,
           NEW n \in Nat, NEW es \in [1..n -> Strings \X Scores],
           NEW items \in Seq(BodyWrites), Len(items) = 2 * n,
           \A i \in 1..n : /\ items[2 * i - 1] = Str(es[i][1])
                           /\ items[2 * i] = W(Float64(es[i][2])),
           Spelled(out, << W(Op("typeZset2")), Str(k), W(Length(n)) >> \o items, p, q)
    PROVE  Back(k, <<"zset", es>>, p, q)
<1>1. ASSUME NEW r \in Nat \ {0}, NEW m \in Nat \ {0},
             Spells(out, W(Length(n)), r, m), Spelled(out, items, m, q)
      PROVE  Ends(Decoder!readObject("typeZset2", r), q, <<"zset", es>>)
  <2> DEFINE x == Decoder!readZSet(r)
             t == Decoder!readObject("typeZset2", r)
  <2>0. q \in Nat \ {0}
    BY <1>1, SpelledEnd
  <2>1. Ends(x, q, es)
    BY <1>1, <2>0, SizedScored
  <2>3. t = IF x.st = "ok" THEN Got(x.pos, << "zset", x.val >>) ELSE x
    BY TypedReads
  <2> HIDE DEF x, t
  <2>6. Ends(t, q, <<"zset", es>>)
    BY <2>1, <2>3, TypedEnds
  <2> QED BY <2>6 DEF t
<1>2. "typeZset2" \in TypeFlags
  BY DEF TypeFlags
<1> QED BY <1>1, <1>2, SizedBack

LEMMA ZSetWritten ==
    ASSUME out \in Seq(Tokens), NEW k \in Strings, NEW es \in Seq(Strings \X Scores), NEW p, NEW q,
           NEW ws \in WriteZSetObject(k, es), Spelled(out, ws, p, q)
    PROVE  Back(k, <<"zset", es>>, p, q)
<1> DEFINE n == Len(es)
           compact == [ i \in 1..2*n |-> IF i % 2 = 1 THEN Text(es[(i + 1) \div 2][1])
                                                     ELSE ScoreText(es[i \div 2][2]) ]
           items == [ i \in 1..2*n |-> IF i % 2 = 1 THEN Str(es[(i + 1) \div 2][1])
                                                   ELSE W(Float64(es[i \div 2][2])) ]
<1>1. n \in Nat /\ 2*n \in Nat /\ es \in [1..n -> Strings \X Scores]
  BY LenProperties
<1>2. \/ ws = << W(Op("typeZsetZipList")), Str(k), Nan(ZipList(compact)) >>
      \/ ws = << W(Op("typeZset2")), Str(k), W(Length(n)) >> \o items
  BY DEF WriteZSetObject
<1> HIDE DEF n
<1>3. \A i \in 1..n : es[i] = << es[i][1], es[i][2] >> /\ es[i][1] \in Strings /\ es[i][2] \in Scores
  BY <1>1
<1>4. compact \in Seq(Entries) /\ Len(compact) = 2 * n
  <2>1. \A j \in 1..n : Text(es[j][1]) \in Entries /\ ScoreText(es[j][2]) \in Entries
    BY <1>3 DEF Text, ScoreText, Entries
  <2>2. compact \in [1..2*n -> Entries]
    BY <1>1, <2>1, ItemIndex
  <2> HIDE DEF compact
  <2> QED BY <1>1, <2>2, FunctionIsSeq
<1>5. items \in Seq(BodyWrites) /\ Len(items) = 2 * n
  <2>1. \A j \in 1..n : Str(es[j][1]) \in BodyWrites /\ W(Float64(es[j][2])) \in BodyWrites
    BY <1>3, BodyStatements
  <2>2. items \in [1..2*n -> BodyWrites]
    BY <1>1, <2>1, ItemIndex
  <2> HIDE DEF items
  <2> QED BY <1>1, <2>2, FunctionIsSeq
<1>6. ASSUME NEW i \in 1..n
      PROVE  /\ compact[2 * i - 1] = Text(es[i][1]) /\ compact[2 * i] = ScoreText(es[i][2])
             /\ items[2 * i - 1] = Str(es[i][1]) /\ items[2 * i] = W(Float64(es[i][2]))
  <2>1. /\ 2 * i - 1 \in 1..2*n /\ 2 * i \in 1..2*n
        /\ (2 * i - 1) % 2 = 1 /\ (2 * i) % 2 # 1
        /\ (2 * i - 1 + 1) \div 2 = i /\ (2 * i) \div 2 = i
    BY <1>1, PairIndex
  <2> DEFINE a == 2 * i - 1
             b == 2 * i
  <2>2. a \in 1..2*n /\ b \in 1..2*n /\ a % 2 = 1 /\ b % 2 # 1 /\ (a + 1) \div 2 = i /\ b \div 2 = i
    BY <2>1
  <2> HIDE DEF a, b
  <2>3. /\ compact[a] = Text(es[i][1]) /\ compact[b] = ScoreText(es[i][2])
        /\ items[a] = Str(es[i][1]) /\ items[b] = W(Float64(es[i][2]))
    BY <2>2
  <2> QED BY <2>3 DEF a, b
<1>7. Coupled(compact, n) = es
  <2> HIDE DEF compact
  <2>3. \A i \in 1..n : compact[2 * i - 1] = Text(es[i][1]) /\ compact[2 * i] = ScoreText(es[i][2])
    BY <1>6
  <2>2. \A i \in 1..n : compact[2 * i - 1][2] = es[i][1] /\ compact[2 * i][2] = es[i][2]
    BY <2>3 DEF Text, ScoreText
  <2>1. Coupled(compact, n) = [ i \in 1..n |-> es[i] ]
    BY <1>3, <2>2 DEF Coupled
  <2> QED BY <1>1, <2>1
<1> HIDE DEF compact, items
<1>8. CASE ws = << W(Op("typeZsetZipList")), Str(k), Nan(ZipList(compact)) >>
  <2>1. Back(k, <<"zset", Coupled(compact, n)>>, p, q)
    BY <1>1, <1>4, <1>8, ZSetImageBack
  <2> QED BY <1>7, <2>1
<1>9. CASE ws = << W(Op("typeZset2")), Str(k), W(Length(n)) >> \o items
  BY <1>1, <1>5, <1>6, <1>9, ZSetBack
<1> QED BY <1>2, <1>8, <1>9

-----------------------------------------------------------------------------
(* Hashes. *)

Lists(ps, fs, h, n) ==
    DOMAIN ps = 1..n /\ \A j \in 1..n : ps[j][1] = fs[j] /\ ps[j][2] = h[fs[j]]

LEMMA MapOfListed ==
    ASSUME NEW F, NEW fs, NEW n, Listed(fs, n, F), NEW X, NEW h \in [F -> X],
           NEW ps, Lists(ps, fs, h, n)
    PROVE  Decoder!MapOf(ps) = h /\ {ps[i][1] : i \in DOMAIN ps} = F
<1> DEFINE D == {ps[i][1] : i \in DOMAIN ps}
           Last(f, i) == /\ ps[i][1] = f
                         /\ \A j \in DOMAIN ps : ps[j][1] = f => j <= i
           Value(f) == LET last == CHOOSE i \in DOMAIN ps : Last(f, i) IN ps[last][2]
<1>5. DOMAIN ps = 1..n /\ \A j \in 1..n : ps[j][1] = fs[j] /\ ps[j][2] = h[fs[j]]
  BY DEF Lists
<1>1. D = F
  BY <1>5 DEF Listed
<1>2. Decoder!MapOf(ps) = [ f \in D |-> Value(f) ]
  BY DEF Decoder!MapOf
<1>3. ASSUME NEW f \in F
      PROVE  Value(f) = h[f]
  <2> DEFINE last == CHOOSE i \in DOMAIN ps : Last(f, i)
  <2>1. PICK i \in 1..n : fs[i] = f
    BY DEF Listed
  <2>2. \A j \in 1..n : ps[j][1] = f => j = i
    BY <1>5, <2>1 DEF Listed
  <2>3. i <= i
    BY DEF Listed
  <2>4. Last(f, i)
    BY <1>5, <2>1, <2>2, <2>3
  <2>5. last \in DOMAIN ps /\ Last(f, last)
    <3> HIDE DEF Last
    <3> QED BY <1>5, <2>4
  <2> HIDE DEF last
  <2>6. last \in 1..n /\ ps[last][1] = f
    BY <1>5, <2>5
  <2>7. ps[last][2] = h[f]
    BY <1>5, <2>6
  <2> QED BY <2>7 DEF last
<1> HIDE DEF D, Value
<1>4. Decoder!MapOf(ps) = [ f \in F |-> h[f] ]
  BY <1>1, <1>2, <1>3
<1> QED BY <1>1, <1>4 DEF D

Plain(F) == [ f \in F |-> 0 ]

LEMMA HashListed ==
    ASSUME NEW F, NEW fs, NEW n, Listed(fs, n, F), NEW h \in [F -> Strings],
           NEW ps, Lists(ps, fs, h, n)
    PROVE  Decoder!Hash(ps) = <<"hash", << h, Plain(F) >> >>
<1>1. Decoder!MapOf(ps) = h /\ {ps[i][1] : i \in DOMAIN ps} = F
  BY MapOfListed
<1> QED BY <1>1 DEF Decoder!Hash, Plain

LEMMA HashImageBack ==
    ASSUME out \in Seq(Tokens), NEW k \in Strings, NEW es \in Seq(Entries), NEW n \in Nat,
           Len(es) = 2 * n, NEW p, NEW q, NEW o, Decoder!Hash(Coupled(es, n)) = o,
           Spelled(out, << W(Op("typeHashZipList")), Str(k), Nan(ZipList(es)) >>, p, q)
    PROVE  Back(k, o, p, q)
<1> DEFINE v == Coupled(es, n)
<1>1. q \in Nat \ {0}
  BY SpelledThree
<1>2. ASSUME NEW r \in Nat \ {0}, Spells(out, Nan(ZipList(es)), r, q)
      PROVE  Ends(Decoder!readObject("typeHashZipList", r), q, o)
  <2> DEFINE x == Decoder!readEntryPairs(r)
             t == Decoder!readObject("typeHashZipList", r)
  <2>1. Ends(x, q, v)
    BY <1>1, <1>2, PairsEnds
  <2>2. t = IF x.st = "ok" THEN Got(x.pos, Decoder!Hash(x.val)) ELSE x
    BY DEF Decoder!readObject, Decoder!readZipListHash, Decoder!As, Decoder!Done, Got
  <2> HIDE DEF x, t
  <2>3. x.val = v => Decoder!Hash(x.val) = o
    OBVIOUS
  <2> HIDE DEF v
  <2>4. Ends(t, q, o)
    BY <2>1, <2>2, <2>3, EndsTurned
  <2> QED BY <2>4 DEF t
<1>3. "typeHashZipList" \in TypeFlags
  BY DEF TypeFlags
<1> QED BY <1>2, <1>3, ThreeBack

LEMMA SizedFields ==
    ASSUME out \in Seq(Tokens), NEW p \in Nat \ {0}, NEW r \in Nat \ {0}, NEW q \in Nat \ {0},
           NEW n \in Nat, NEW ps \in [1..n -> Strings \X Strings],
           NEW items, Len(items) = 2 * n,
           \A i \in 1..n : /\ items[2 * i - 1] = Str(ps[i][1])
                           /\ items[2 * i] = Str(ps[i][2]),
           Spells(out, W(Length(n)), p, r), Spelled(out, items, r, q)
    PROVE  Ends(Decoder!readSized(p, FieldAt), q, ps)
<1> DEFINE x == Decoder!readLength(p)
           y == Decoder!readN(x.pos, x.val, FieldAt)
           t == Decoder!readSized(p, FieldAt)
           k == <<"field">>
           w == 2
<1>1. t = IF x.st = "ok" THEN y ELSE x
  BY DEF Decoder!readSized, Decoder!Then
<1>2. Ends(x, r, n)
  BY LengthEnds
<1>3. ~Past(out, r) => Runs(k, r, n, y)
  <2> SUFFICES ASSUME ~Past(out, r) PROVE \E g : Run(k, r, n, g) /\ y = g[n]
    BY DEF Runs
  <2>1. x.pos = r /\ x.val = n
    BY <1>2 DEF Ends, Got
  <2>2. \E g : Run(k, r, n, g) /\ Decoder!readN(r, n, FieldAt) = g[n]
    BY FieldRun
  <2>3. y = Decoder!readN(r, n, FieldAt)
    <3> HIDE DEF x
    <3> QED BY <2>1
  <2> HIDE DEF y, k
  <2> QED BY <2>2, <2>3
<1>4. ASSUME NEW i \in 1..n, NEW a \in Nat \ {0}, NEW b \in Nat \ {0},
             Spelled(out, Chunk(items, 2, i), a, b)
      PROVE  Ends(ReadBy(k, a), b, ps[i])
  <2>1. Chunk(items, 2, i) = << Str(ps[i][1]), Str(ps[i][2]) >>
    BY ChunkTwo
  <2>2. PICK m \in Nat \ {0} : Spells(out, Str(ps[i][1]), a, m) /\ Spells(out, Str(ps[i][2]), m, b)
    BY <1>4, <2>1, SpelledTwo
  <2>3. ReadBy(k, a) = FieldAt(a)
    BY DEF ReadBy
  <2>4. ps[i] = << ps[i][1], ps[i][2] >> /\ ps[i][1] \in Strings /\ ps[i][2] \in Strings
    OBVIOUS
  <2> QED BY <2>2, <2>3, <2>4, FieldEnds
<1>5. ps = Firsts(ps, n)
  BY DEF Firsts
<1>6. w \in 1..3 /\ Len(items) = n * w
  OBVIOUS
<1>7. x = Decoder!readLength(p)
  OBVIOUS
<1>8. Chunkwise(k, items, w, n, ps)
  BY <1>4 DEF Chunkwise
<1> HIDE DEF x, y, t, k, w
<1>9. Ends(t, q, Firsts(ps, n))
  BY <1>1, <1>3, <1>6, <1>7, <1>8, SizedItems
<1> QED BY <1>5, <1>9 DEF t

LEMMA HashBack ==
    ASSUME out \in Seq(Tokens), NEW k \in Strings, NEW p, NEW q,
           NEW n \in Nat, NEW ps \in [1..n -> Strings \X Strings], NEW o, Decoder!Hash(ps) = o,
           NEW items \in Seq(BodyWrites), Len(items) = 2 * n,
           \A i \in 1..n : /\ items[2 * i - 1] = Str(ps[i][1])
                           /\ items[2 * i] = Str(ps[i][2]),
           Spelled(out, << W(Op("typeHash")), Str(k), W(Length(n)) >> \o items, p, q)
    PROVE  Back(k, o, p, q)
<1>1. ASSUME NEW r \in Nat \ {0}, NEW m \in Nat \ {0},
             Spells(out, W(Length(n)), r, m), Spelled(out, items, m, q)
      PROVE  Ends(Decoder!readObject("typeHash", r), q, o)
  <2> DEFINE x == Decoder!readSized(r, FieldAt)
             t == Decoder!readObject("typeHash", r)
             Turn(z) == Decoder!As(z, Decoder!Hash)
             u == Turn(x)
  <2>0. q \in Nat \ {0}
    BY <1>1, SpelledEnd
  <2>1. Ends(x, q, ps)
    BY <1>1, <2>0, SizedFields
  <2>2. t = Decoder!readHashMap(r)
    BY DEF Decoder!readObject
  <2>3. Decoder!readHashMap(r) = u
    BY Zenon DEF Decoder!readHashMap, Decoder!readSized, Decoder!Then, Decoder!As, Decoder!readN,
                 Decoder!readPair, FieldAt
  <2>4. u = IF x.st = "ok" THEN Got(x.pos, Decoder!Hash(x.val)) ELSE x
    <3> HIDE DEF x
    <3> QED BY DEF Decoder!As, Decoder!Done, Got
  <2> HIDE DEF x, t, u, Turn
  <2>5. x.val = ps => Decoder!Hash(x.val) = o
    OBVIOUS
  <2>6. Ends(u, q, o)
    BY <2>1, <2>4, <2>5, EndsTurned
  <2> QED BY <2>2, <2>3, <2>6 DEF t
<1>2. "typeHash" \in TypeFlags
  BY DEF TypeFlags
<1> QED BY <1>1, <1>2, SizedBack

LEMMA HashWritten ==
    ASSUME out \in Seq(Tokens), NEW k \in Strings, NEW F \in SUBSET Strings,
           NEW h \in [F -> Strings], NEW p, NEW q,
           NEW ws \in WriteHashMapObject(k, h), Spelled(out, ws, p, q)
    PROVE  Back(k, <<"hash", << h, Plain(F) >> >>, p, q)
<1> DEFINE o == <<"hash", << h, Plain(F) >> >>
<1>1. PICK fs \in Orders(F) : ws = HashStatements(k, h, fs)
  BY HashOrders
<1> DEFINE n == Len(fs)
           Item(i) == IF i % 2 = 1 THEN fs[(i + 1) \div 2] ELSE h[fs[i \div 2]]
           compact == [ i \in 1..2*n |-> Text(Item(i)) ]
           items == [ i \in 1..2*n |-> Str(Item(i)) ]
           ps == [ i \in 1..n |-> << fs[i], h[fs[i]] >> ]
<1>2. \/ ws = << W(Op("typeHashZipList")), Str(k), Nan(ZipList(compact)) >>
      \/ ws = << W(Op("typeHash")), Str(k), W(Length(n)) >> \o items
  BY <1>1 DEF HashStatements
<1>3. Listed(fs, n, F)
  BY OrdersList
<1> HIDE DEF n
<1>4. n \in Nat /\ 2*n \in Nat /\ \A i \in 1..n : fs[i] \in Strings /\ h[fs[i]] \in Strings
  BY <1>3 DEF Listed
<1>5. \A i \in 1..2*n : Item(i) \in Strings
  BY <1>4, ItemIndex
<1>6. \A i \in 1..n : Item(2 * i - 1) = fs[i] /\ Item(2 * i) = h[fs[i]]
  <2> SUFFICES ASSUME NEW i \in 1..n PROVE Item(2 * i - 1) = fs[i] /\ Item(2 * i) = h[fs[i]]
    OBVIOUS
  <2> DEFINE a == 2 * i - 1
             b == 2 * i
  <2>2. a \in 1..2*n /\ b \in 1..2*n /\ a % 2 = 1 /\ b % 2 # 1 /\ (a + 1) \div 2 = i /\ b \div 2 = i
    BY <1>4, PairIndex
  <2> HIDE DEF a, b
  <2>3. Item(a) = fs[i] /\ Item(b) = h[fs[i]]
    BY <2>2
  <2> QED BY <2>3 DEF a, b
<1> HIDE DEF Item
<1>7. compact \in Seq(Entries) /\ Len(compact) = 2 * n
  <2>2. compact \in [1..2*n -> Entries]
    BY <1>5 DEF Text, Entries
  <2> HIDE DEF compact
  <2> QED BY <1>4, <2>2, FunctionIsSeq
<1>8. items \in Seq(BodyWrites) /\ Len(items) = 2 * n
  <2>2. items \in [1..2*n -> BodyWrites]
    BY <1>5, BodyStatements
  <2> HIDE DEF items
  <2> QED BY <1>4, <2>2, FunctionIsSeq
<1>9. ps \in [1..n -> Strings \X Strings] /\ DOMAIN ps = 1..n
      /\ \A i \in 1..n : ps[i][1] = fs[i] /\ ps[i][2] = h[fs[i]]
  BY <1>4
<1>10. \A i \in 1..n : 2 * i - 1 \in 1..2*n /\ 2 * i \in 1..2*n
  BY <1>4, PairIndex
<1>11. \A i \in 1..n : items[2 * i - 1] = Str(fs[i]) /\ items[2 * i] = Str(h[fs[i]])
  BY <1>6, <1>10
<1>12. \A i \in 1..n : compact[2 * i - 1] = Text(fs[i]) /\ compact[2 * i] = Text(h[fs[i]])
  BY <1>6, <1>10
<1> HIDE DEF compact, items
<1>13. Coupled(compact, n) = ps
  <2>1. \A i \in 1..n : compact[2 * i - 1][2] = fs[i] /\ compact[2 * i][2] = h[fs[i]]
    BY <1>12 DEF Text
  <2> HIDE DEF compact
  <2> QED BY <2>1 DEF Coupled
<1> HIDE DEF ps
<1>14. Decoder!Hash(ps) = o
  <2>1. Lists(ps, fs, h, n)
    BY <1>9 DEF Lists
  <2>2. Decoder!Hash(ps) = <<"hash", << h, Plain(F) >> >>
    BY <1>3, <2>1, HashListed
  <2> QED BY <2>2
<1>15. \A i \in 1..n : items[2 * i - 1] = Str(ps[i][1]) /\ items[2 * i] = Str(ps[i][2])
  BY <1>9, <1>11
<1> HIDE DEF o
<1>16. CASE ws = << W(Op("typeHashZipList")), Str(k), Nan(ZipList(compact)) >>
  <2>1. Decoder!Hash(Coupled(compact, n)) = o
    BY <1>13, <1>14
  <2>2. Back(k, o, p, q)
    BY <1>4, <1>7, <1>16, <2>1, HashImageBack
  <2> QED BY <2>2 DEF o
<1>17. CASE ws = << W(Op("typeHash")), Str(k), W(Length(n)) >> \o items
  <2>1. Spelled(out, << W(Op("typeHash")), Str(k), W(Length(n)) >> \o items, p, q)
    BY <1>17
  <2>2. Back(k, o, p, q)
    BY <1>4, <1>8, <1>9, <1>14, <1>15, <2>1, HashBack
  <2> QED BY <2>2 DEF o
<1> QED BY <1>2, <1>16, <1>17

-----------------------------------------------------------------------------
(* Hashes whose fields expire. *)

LEMMA UntilRun ==
    ASSUME NEW p, NEW n \in Nat
    PROVE  \E g : Run(<<"until">>, p, n, g) /\ Decoder!readN(p, n, FieldUntilAt) = g[n]
<1> DEFINE k == <<"until">>
           A(h, i) == IF i = 0 THEN Decoder!Done(p, <<>>)
                      ELSE Decoder!Then(h[i - 1], LAMBDA l :
                             Decoder!As(FieldUntilAt(l.pos), LAMBDA v : Append(l.val, v)))
           B(h, i) == IF i = 0 THEN Got(p, <<>>) ELSE More(k, h[i - 1])
           IsUp(h) == h = [ i \in 0..n |-> A(h, i) ]
           up == CHOOSE h : IsUp(h)
<1>1. Decoder!readN(p, n, FieldUntilAt) = up[n]
  BY DEF Decoder!readN
<1>2. \A h, i : A(h, i) = B(h, i)
  <2>1. k[1] = "until"
    OBVIOUS
  <2> HIDE DEF k
  <2>2. \A q : ReadBy(k, q) = FieldUntilAt(q)
    BY <2>1 DEF ReadBy
  <2> DEFINE S(l) == Decoder!As(FieldUntilAt(l.pos), LAMBDA v : Append(l.val, v))
             R(l) == Decoder!Then(l, LAMBDA z :
                       Decoder!As(FieldUntilAt(z.pos), LAMBDA v : Append(z.val, v)))
  <2>3. \A l : S(l) = Grow(FieldUntilAt(l.pos), l)
    BY DEF Decoder!As, Decoder!Done, Grow, Got
  <2>4. \A l : R(l) = IF l.st = "ok" THEN S(l) ELSE l
    BY DEF Decoder!Then, Decoder!As
  <2>6. \A l : R(l) = More(k, l)
    <3> HIDE DEF R, S
    <3> QED BY <2>2, <2>3, <2>4 DEF More
  <2>5. Decoder!Done(p, <<>>) = Got(p, <<>>)
    BY DEF Decoder!Done, Got
  <2>7. \A h, i : A(h, i) = IF i = 0 THEN Decoder!Done(p, <<>>) ELSE R(h[i - 1])
    BY DEF Decoder!Then, Decoder!As
  <2> HIDE DEF R, A
  <2> QED BY <2>5, <2>6, <2>7
<1>3. \A h : IsUp(h) <=> Run(k, p, n, h)
  <2> HIDE DEF A
  <2> QED BY <1>2 DEF Run
<1>4. \E h : IsUp(h)
  <2> HIDE DEF IsUp
  <2> QED BY <1>3, RunExists
<1>5. IsUp(up)
  <2> HIDE DEF IsUp
  <2> QED BY <1>4
<1> HIDE DEF IsUp, up
<1> QED BY <1>1, <1>3, <1>5 DEF k

ExpiringRead(p, n, min, rc) == Decoder!readN(p, n, LAMBDA a : ExpiringAt(a, min, rc))

LEMMA ExpiringRun ==
    ASSUME NEW p, NEW n \in Nat, NEW min, NEW rc
    PROVE  Runs(<<"hfe", min, rc>>, p, n, ExpiringRead(p, n, min, rc))
<1> DEFINE k == <<"hfe", min, rc>>
           A(h, i) == IF i = 0 THEN Decoder!Done(p, <<>>)
                      ELSE Decoder!Then(h[i - 1], LAMBDA l :
                             Decoder!As(ExpiringAt(l.pos, min, rc), LAMBDA v : Append(l.val, v)))
           B(h, i) == IF i = 0 THEN Got(p, <<>>) ELSE More(k, h[i - 1])
           IsUp(h) == h = [ i \in 0..n |-> A(h, i) ]
           up == CHOOSE h : IsUp(h)
<1>1. ExpiringRead(p, n, min, rc) = up[n]
  BY DEF Decoder!readN, ExpiringRead
<1>2. \A h, i : A(h, i) = B(h, i)
  <2>1. k[1] = "hfe" /\ k[2] = min /\ k[3] = rc
    OBVIOUS
  <2> HIDE DEF k
  <2>2. \A q : ReadBy(k, q) = ExpiringAt(q, min, rc)
    BY <2>1 DEF ReadBy
  <2> DEFINE S(l) == Decoder!As(ExpiringAt(l.pos, min, rc), LAMBDA v : Append(l.val, v))
             R(l) == Decoder!Then(l, LAMBDA z :
                       Decoder!As(ExpiringAt(z.pos, min, rc), LAMBDA v : Append(z.val, v)))
  <2>3. \A l : S(l) = Grow(ExpiringAt(l.pos, min, rc), l)
    BY DEF Decoder!As, Decoder!Done, Grow, Got
  <2>4. \A l : R(l) = IF l.st = "ok" THEN S(l) ELSE l
    BY DEF Decoder!Then, Decoder!As
  <2>6. \A l : R(l) = More(k, l)
    <3> HIDE DEF R, S
    <3> QED BY <2>2, <2>3, <2>4 DEF More
  <2>5. Decoder!Done(p, <<>>) = Got(p, <<>>)
    BY DEF Decoder!Done, Got
  <2>7. \A h, i : A(h, i) = IF i = 0 THEN Decoder!Done(p, <<>>) ELSE R(h[i - 1])
    BY DEF Decoder!Then, Decoder!As
  <2> HIDE DEF R, A
  <2> QED BY <2>5, <2>6, <2>7
<1>3. \A h : IsUp(h) <=> Run(k, p, n, h)
  <2> HIDE DEF A
  <2> QED BY <1>2 DEF Run
<1>4. \E h : IsUp(h)
  <2> HIDE DEF IsUp
  <2> QED BY <1>3, RunExists
<1>5. IsUp(up)
  <2> HIDE DEF IsUp
  <2> QED BY <1>4
<1> HIDE DEF IsUp, up
<1> QED BY <1>1, <1>3, <1>5 DEF k, Runs

LEMMA LeastExpire ==
    ASSUME NEW F \in SUBSET Strings, NEW e \in [F -> Int], \A f \in F : e[f] >= 0 /\ e[f] < EbInvalid
    PROVE  /\ MinExpire(e) \in Nat
           /\ MinExpire(e) <= EbInvalid
           /\ \A f \in F : e[f] # 0 => MinExpire(e) \in Nat \ {0} /\ MinExpire(e) <= e[f]
<1> DEFINE live == {e[f] : f \in F} \cap 1..(EbInvalid - 1)
           m == CHOOSE x \in live : \A y \in live : x <= y
<1>0. EbInvalid \in Nat
  BY StringsAssumption
<1>1. MinExpire(e) = IF live = {} THEN 0 ELSE m
  <2>1. DOMAIN e = F
    OBVIOUS
  <2>2. MinExpire(e) = LET l == {e[f] : f \in DOMAIN e} \cap 1..(EbInvalid - 1)
                       IN  IF l = {} THEN 0 ELSE CHOOSE x \in l : \A y \in l : x <= y
    BY Zenon DEF MinExpire
  <2> QED BY <2>1, <2>2, Zenon
<1>2. live \in SUBSET Nat
  BY <1>0
<1>3. live # {} => \E x \in live : \A y \in live : x <= y
  <2> HIDE DEF live
  <2> QED BY <1>2, LeastOf
<1>4. live # {} => m \in live /\ \A y \in live : m <= y
  <2> HIDE DEF live
  <2> QED BY <1>3
<1>5. \A f \in F : e[f] # 0 => e[f] \in live
  BY <1>0
<1>6. \A y \in live : y \in Nat \ {0} /\ y <= EbInvalid
  BY <1>0
<1> HIDE DEF live, m
<1>7. CASE live = {}
  BY <1>0, <1>1, <1>5, <1>7
<1>8. CASE live # {}
  BY <1>1, <1>4, <1>5, <1>6, <1>8
<1> QED BY <1>7, <1>8

LEMMA ExpiringEnds ==
    ASSUME out \in Seq(Tokens), NEW p \in Nat \ {0}, NEW s \in Nat \ {0}, NEW r \in Nat \ {0},
           NEW q \in Nat \ {0}, NEW f \in Strings, NEW v \in Strings,
           NEW min \in Nat, NEW e \in Nat, e < EbInvalid, e # 0 => min <= e,
           NEW t, t = IF e = 0 THEN 0 ELSE e - min + 1,
           Spells(out, W(Length(t)), p, s), Spells(out, Str(f), s, r), Spells(out, Str(v), r, q),
           NEW rc, ~rc
    PROVE  Ends(ExpiringAt(p, min, rc), q, << f, v, e >>)
<1> DEFINE x == Decoder!readLength(p)
           Z(n) == IF rc THEN n ELSE IF n = 0 THEN 0 ELSE n + min - 1
           Field(z, n) == Decoder!As(FieldAt(z), LAMBDA fv : << fv[1], fv[2], n >>)
           B(z) == IF Z(z.val) > EbInvalid - 1 THEN Decoder!Fail(z.pos, "error")
                   ELSE Field(z.pos, Z(z.val))
           u == ExpiringAt(p, min, rc)
           y == FieldAt(s)
<1>1. u = IF x.st = "ok" THEN B(x) ELSE x
  <2> DEFINE T == Decoder!Then(x, LAMBDA z : B(z))
  <2>1. u = T
    BY Zenon DEF ExpiringAt, FieldAt
  <2>2. T = IF x.st = "ok" THEN B(x) ELSE x
    <3> HIDE DEF B, x
    <3> QED BY DEF Decoder!Then
  <2> HIDE DEF T, B, x, u
  <2> QED BY <2>1, <2>2
<1>2. Ends(x, s, t)
  BY LengthEnds
<1>3. Z(t) = e
  OBVIOUS
<1>4. EbInvalid \in Nat
  BY StringsAssumption
<1>5. Ends(y, q, << f, v >>)
  BY FieldEnds
<1>6. Field(s, e) = IF y.st = "ok" THEN Got(y.pos, << y.val[1], y.val[2], e >>) ELSE y
  <2> HIDE DEF y
  <2>1. Decoder!As(y, LAMBDA fv : << fv[1], fv[2], e >>)
          = IF y.st = "ok" THEN Got(y.pos, << y.val[1], y.val[2], e >>) ELSE y
    BY DEF Decoder!As, Decoder!Done, Got
  <2> QED BY <2>1 DEF y
<1>7. ~Past(out, s) => Ends(B(x), q, << f, v, e >>)
  <2> SUFFICES ASSUME ~Past(out, s) PROVE Ends(B(x), q, << f, v, e >>)
    OBVIOUS
  <2>1. x.pos = s /\ x.val = t
    BY <1>2 DEF Ends, Got
  <2> HIDE DEF x, Field, Z
  <2>2. B(x) = Field(s, e)
    BY <1>3, <1>4, <2>1
  <2> HIDE DEF B, y
  <2>3. y.val = << f, v >> => << y.val[1], y.val[2], e >> = << f, v, e >>
    OBVIOUS
  <2>4. Ends(Field(s, e), q, << f, v, e >>)
    BY <1>5, <1>6, <2>3, EndsTurned
  <2> QED BY <2>2, <2>4
<1>8. Past(out, s) => Past(out, q)
  BY SpellsOn
<1> HIDE DEF B, x, u
<1>9. Ends(u, q, << f, v, e >>)
  BY <1>1, <1>2, <1>7, <1>8, EndsThen
<1> QED BY <1>9 DEF u

LEMMA UntilEnds ==
    ASSUME out \in Seq(Tokens), NEW p \in Nat \ {0}, NEW s \in Nat \ {0}, NEW r \in Nat \ {0},
           NEW q \in Nat \ {0}, NEW f \in Strings, NEW v \in Strings, NEW t,
           Spells(out, Str(f), p, s), Spells(out, Str(v), s, r), Spells(out, W(Int64(t)), r, q)
    PROVE  Ends(FieldUntilAt(p), q, << << f, v >>, t >>)
<1> DEFINE x == FieldAt(p)
           y == Int64At(x.pos)
           Second(z) == Decoder!As(Int64At(z.pos), LAMBDA b : << z.val, b >>)
           u == FieldUntilAt(p)
<1>1. u = IF x.st = "ok" THEN Second(x) ELSE x
  <2> HIDE DEF x
  <2>1. Decoder!Then(x, LAMBDA z : Second(z)) = IF x.st = "ok" THEN Second(x) ELSE x
    <3> HIDE DEF Second
    <3> QED BY DEF Decoder!Then
  <2>2. u = Decoder!Then(x, LAMBDA z : Second(z))
    BY Zenon DEF FieldUntilAt, Decoder!readPair, x
  <2> HIDE DEF Second, u
  <2> QED BY <2>1, <2>2
<1>2. Second(x) = IF y.st = "ok" THEN Got(y.pos, << x.val, y.val >>) ELSE y
  <2> HIDE DEF x
  <2> QED BY DEF Decoder!As, Decoder!Done, Got
<1>3. Ends(x, r, << f, v >>)
  BY FieldEnds
<1>4. ~Past(out, r) => Ends(y, q, t)
  <2> HIDE DEF x
  <2>1. ~Past(out, r) => x.pos = r
    BY <1>3 DEF Ends, Got
  <2>2. Int64(t)[1] \in {"i64"} /\ Int64(t)[2] = t
    BY DEF Int64
  <2>3. Ends(Decoder!Take(r, {"i64"}), q, Int64(t)[2])
    BY <2>2, TakeSpells
  <2> QED BY <2>1, <2>2, <2>3 DEF Int64At
<1>5. Past(out, r) => Past(out, q)
  BY SpellsOn
<1> HIDE DEF u, x, y, Second
<1>6. u = IF x.st = "ok" THEN (IF y.st = "ok" THEN Got(y.pos, << x.val, y.val >>) ELSE y) ELSE x
  BY <1>1, <1>2
<1>7. Ends(u, q, << << f, v >>, t >>)
  BY <1>3, <1>4, <1>5, <1>6, PairEnds
<1> QED BY <1>7 DEF u

LEMMA ChunkThree ==
    ASSUME NEW items, NEW i \in Nat
    PROVE  Chunk(items, 3, i) = << items[3 * i - 2], items[3 * i - 1], items[3 * i] >>
<1>1. (i - 1) * 3 + 1 = 3 * i - 2 /\ (i - 1) * 3 + 2 = 3 * i - 1 /\ (i - 1) * 3 + 3 = 3 * i
  OBVIOUS
<1> DEFINE C == Chunk(items, 3, i)
<1>2. C = [ j \in 1..3 |-> items[(i - 1) * 3 + j] ]
  BY DEF Chunk
<1> HIDE DEF C
<1>3. C[1] = items[3 * i - 2] /\ C[2] = items[3 * i - 1] /\ C[3] = items[3 * i]
  BY <1>1, <1>2
<1>4. C = << C[1], C[2], C[3] >>
  BY <1>2
<1> QED BY <1>3, <1>4 DEF C

LEMMA FieldsListed ==
    ASSUME NEW F, NEW fs, NEW n, Listed(fs, n, F), NEW h \in [F -> Strings],
           NEW ps, Lists(ps, fs, h, n)
    PROVE  Decoder!MapOf(ps) = h
BY MapOfListed

LEMMA ExpirationsListed ==
    ASSUME NEW F, NEW fs, NEW n, Listed(fs, n, F), NEW e \in [F -> Int],
           NEW ps, Lists(ps, fs, e, n)
    PROVE  Decoder!MapOf(ps) = e
BY MapOfListed

Expired(fs, h, e, n) == [ i \in 1..n |-> << fs[i], h[fs[i]], e[fs[i]] >> ]
Dated(fs, h, e, n) ==
    [ i \in 1..n |-> << << fs[i], h[fs[i]] >>, IF e[fs[i]] = 0 THEN -1 ELSE e[fs[i]] >> ]

Expiring(xs) == Decoder!HashEx(xs, [ i \in DOMAIN xs |-> <<xs[i][1], xs[i][3]>> ])
Until(xs) == Decoder!HashEx([ i \in DOMAIN xs |-> xs[i][1] ],
                            [ i \in DOMAIN xs |->
                                << xs[i][1][1], IF xs[i][2] < 0 THEN 0 ELSE xs[i][2] >> ])

LEMMA ExpiringListed ==
    ASSUME NEW F, NEW fs, NEW n, Listed(fs, n, F), NEW h \in [F -> Strings], NEW e \in [F -> Int]
    PROVE  Expiring(Expired(fs, h, e, n)) = <<"hash", << h, e >> >>
<1> DEFINE xs == Expired(fs, h, e, n)
           es == [ i \in DOMAIN xs |-> <<xs[i][1], xs[i][3]>> ]
<1>0. DOMAIN xs = 1..n /\ \A i \in 1..n : xs[i][1] = fs[i] /\ xs[i][2] = h[fs[i]] /\ xs[i][3] = e[fs[i]]
  BY DEF Expired
<1>4. DOMAIN es = 1..n /\ \A i \in 1..n : es[i][1] = fs[i] /\ es[i][2] = e[fs[i]]
  BY <1>0
<1> HIDE DEF es
<1>1. Lists(xs, fs, h, n) /\ Lists(es, fs, e, n)
  BY <1>0, <1>4 DEF Lists
<1>2. Decoder!MapOf(xs) = h /\ Decoder!MapOf(es) = e
  <2>1. Lists(xs, fs, h, n)
    BY <1>1
  <2>2. Lists(es, fs, e, n)
    BY <1>1
  <2>3. Decoder!MapOf(xs) = h
    BY <2>1, FieldsListed
  <2>4. Decoder!MapOf(es) = e
    BY <2>2, ExpirationsListed
  <2> QED BY <2>3, <2>4
<1>3. Expiring(xs) = << "hash", << Decoder!MapOf(xs), Decoder!MapOf(es) >> >>
  BY DEF Expiring, Decoder!HashEx, es
<1> QED BY <1>2, <1>3

LEMMA UntilListed ==
    ASSUME NEW F, NEW fs, NEW n, Listed(fs, n, F), NEW h \in [F -> Strings], NEW e \in [F -> Int],
           \A f \in F : e[f] >= 0
    PROVE  Until(Dated(fs, h, e, n)) = <<"hash", << h, e >> >>
<1> DEFINE xs == Dated(fs, h, e, n)
           ps == [ i \in DOMAIN xs |-> xs[i][1] ]
           es == [ i \in DOMAIN xs |-> << xs[i][1][1], IF xs[i][2] < 0 THEN 0 ELSE xs[i][2] >> ]
<1>0. \A i \in 1..n : e[fs[i]] \in Int /\ e[fs[i]] >= 0
  BY DEF Listed
<1>4. DOMAIN xs = 1..n
  BY DEF Dated
<1>5. ASSUME NEW i \in 1..n
      PROVE  /\ xs[i][1] = << fs[i], h[fs[i]] >>
             /\ (IF xs[i][2] < 0 THEN 0 ELSE xs[i][2]) = e[fs[i]]
  <2>1. xs[i] = << << fs[i], h[fs[i]] >>, IF e[fs[i]] = 0 THEN -1 ELSE e[fs[i]] >>
    BY DEF Dated
  <2> QED BY <1>0, <2>1
<1>6. DOMAIN ps = 1..n /\ \A i \in 1..n : ps[i][1] = fs[i] /\ ps[i][2] = h[fs[i]]
  BY <1>4, <1>5
<1>7. DOMAIN es = 1..n /\ \A i \in 1..n : es[i][1] = fs[i] /\ es[i][2] = e[fs[i]]
  BY <1>4, <1>5
<1> HIDE DEF es, ps
<1>1. Lists(ps, fs, h, n) /\ Lists(es, fs, e, n)
  BY <1>6, <1>7 DEF Lists
<1>2. Decoder!MapOf(ps) = h /\ Decoder!MapOf(es) = e
  <2>1. Lists(ps, fs, h, n)
    BY <1>1
  <2>2. Lists(es, fs, e, n)
    BY <1>1
  <2>3. Decoder!MapOf(ps) = h
    BY <2>1, FieldsListed
  <2>4. Decoder!MapOf(es) = e
    BY <2>2, ExpirationsListed
  <2> QED BY <2>3, <2>4
<1>3. Until(xs) = << "hash", << Decoder!MapOf(ps), Decoder!MapOf(es) >> >>
  BY DEF Until, Decoder!HashEx, es, ps
<1> QED BY <1>2, <1>3

(* The fields of a hash, their values and expirations. *)
ExBody(p, min, rc) ==
    Decoder!Then(Decoder!readLength(p), LAMBDA n :
      IF n.val = 0 THEN Decoder!Fail(n.pos, "error")
      ELSE Decoder!As(ExpiringRead(n.pos, n.val, min, rc), Expiring))

LEMMA ExReads ==
    ASSUME NEW p, NEW rc, ~rc, NEW x, x = Decoder!readInt64(p), NEW t, t = Decoder!readHashMapEx(p, rc)
    PROVE  t = IF x.st = "ok"
               THEN (IF x.val > EbInvalid THEN Decoder!Fail(x.pos, "error")
                     ELSE ExBody(x.pos, x.val, rc))
               ELSE x
<1> DEFINE N(m) == IF m.val > EbInvalid THEN Decoder!Fail(m.pos, "error")
                   ELSE ExBody(m.pos, m.val, rc)
           T == Decoder!Then(x, LAMBDA m : N(m))
<1>1. t = T
  BY Zenon DEF Decoder!readHashMapEx, ExBody, ExpiringRead, ExpiringAt, Expiring
<1>2. T = IF x.st = "ok" THEN N(x) ELSE x
  <2> HIDE DEF N
  <2> QED BY DEF Decoder!Then
<1> HIDE DEF T
<1> QED BY <1>1, <1>2

Ttl(e, f) == IF e[f] = 0 THEN 0 ELSE e[f] - MinExpire(e) + 1

ExpiringItems(items, fs, h, e, n) ==
    \A i \in 1..n : /\ items[3 * i - 2] = W(Length(Ttl(e, fs[i])))
                    /\ items[3 * i - 1] = Str(fs[i])
                    /\ items[3 * i] = Str(h[fs[i]])

(* The expirations that hpexpireat sets: none is EB_EXPIRE_TIME_INVALID. *)
Dates(F, e) == \A f \in F : e[f] >= 0 /\ e[f] < EbInvalid

LEMMA SizedExpiring ==
    ASSUME out \in Seq(Tokens), NEW p \in Nat \ {0}, NEW r \in Nat \ {0}, NEW q \in Nat \ {0},
           NEW F \in SUBSET Strings, NEW fs, NEW n \in Nat \ {0}, Listed(fs, n, F),
           NEW h \in [F -> Strings], NEW e \in [F -> Int],
           Dates(F, e),
           NEW items, Len(items) = 3 * n,
           ExpiringItems(items, fs, h, e, n),
           Spells(out, W(Length(n)), p, r), Spelled(out, items, r, q),
           NEW min, min = MinExpire(e), NEW rc, ~rc
    PROVE  Ends(ExBody(p, min, rc), q, <<"hash", << h, e >> >>)
<1> DEFINE x == Decoder!readLength(p)
           y == ExpiringRead(x.pos, x.val, min, rc)
           t == IF x.st = "ok" THEN y ELSE x
           k == <<"hfe", min, rc>>
           w == 3
           vs == Expired(fs, h, e, n)
           B(z) == IF z.val = 0 THEN Decoder!Fail(z.pos, "error")
                   ELSE Decoder!As(ExpiringRead(z.pos, z.val, min, rc), Expiring)
           u == ExBody(p, min, rc)
<1>1. u = IF x.st = "ok" THEN B(x) ELSE x
  <2> DEFINE T == Decoder!Then(x, LAMBDA z : B(z))
  <2>1. u = T
    BY Zenon DEF ExBody
  <2>2. T = IF x.st = "ok" THEN B(x) ELSE x
    <3> HIDE DEF B, x
    <3> QED BY DEF Decoder!Then
  <2> HIDE DEF T, B, x, u
  <2> QED BY <2>1, <2>2
<1>2. Ends(x, r, n)
  BY LengthEnds
<1>3. ~Past(out, r) => Runs(k, r, n, y)
  <2> SUFFICES ASSUME ~Past(out, r) PROVE Runs(k, r, n, y)
    OBVIOUS
  <2>1. x.pos = r /\ x.val = n
    BY <1>2 DEF Ends, Got
  <2>2. Runs(k, r, n, ExpiringRead(r, n, min, rc))
    BY ExpiringRun
  <2>3. y = ExpiringRead(r, n, min, rc)
    <3> HIDE DEF x
    <3> QED BY <2>1
  <2> HIDE DEF y, k
  <2> QED BY <2>2, <2>3
<1>18. min \in Nat /\ \A f \in F : e[f] # 0 => min <= e[f]
  BY LeastExpire DEF Dates
<1>4. ASSUME NEW i \in 1..n, NEW a \in Nat \ {0}, NEW b \in Nat \ {0},
             Spelled(out, Chunk(items, 3, i), a, b)
      PROVE  Ends(ReadBy(k, a), b, vs[i])
  <2> DEFINE f == fs[i]
  <2>1. Chunk(items, 3, i) = << W(Length(Ttl(e, f))), Str(f), Str(h[f]) >>
    BY ChunkThree DEF ExpiringItems
  <2>2. PICK l \in Nat \ {0}, m \in Nat \ {0} :
          Spells(out, W(Length(Ttl(e, f))), a, l) /\ Spells(out, Str(f), l, m) /\ Spells(out, Str(h[f]), m, b)
    BY <1>4, <2>1, SpelledThree
  <2>3. ReadBy(k, a) = ExpiringAt(a, min, rc)
    BY DEF ReadBy
  <2>4. f \in F /\ f \in Strings /\ h[f] \in Strings
    BY DEF Listed
  <2>5. vs[i] = << f, h[f], e[f] >>
    BY DEF Expired
  <2>6. min \in Nat /\ e[f] \in Nat /\ e[f] < EbInvalid /\ (e[f] # 0 => min <= e[f])
    BY <1>18, <2>4 DEF Dates
  <2>7. Ttl(e, f) = IF e[f] = 0 THEN 0 ELSE e[f] - min + 1
    BY DEF Ttl
  <2> HIDE DEF f, vs
  <2>8. Ends(ExpiringAt(a, min, rc), b, << f, h[f], e[f] >>)
    BY <2>2, <2>4, <2>6, <2>7, ExpiringEnds
  <2> QED BY <2>3, <2>5, <2>8
<1>5. vs = Firsts(vs, n)
  BY DEF Firsts, Expired
<1>6. w \in 1..3 /\ Len(items) = n * w
  OBVIOUS
<1>7. x = Decoder!readLength(p) /\ t = IF x.st = "ok" THEN y ELSE x
  OBVIOUS
<1>8. Chunkwise(k, items, w, n, vs)
  BY <1>4 DEF Chunkwise
<1>9. Expiring(vs) = <<"hash", << h, e >> >>
  <2>1. Expiring(Expired(fs, h, e, n)) = <<"hash", << h, e >> >>
    BY ExpiringListed
  <2> QED BY <2>1
<1>10. B(x) = IF x.val = 0 THEN Decoder!Fail(x.pos, "error")
              ELSE (IF y.st = "ok" THEN Got(y.pos, Expiring(y.val)) ELSE y)
  <2> HIDE DEF x
  <2> DEFINE Y == ExpiringRead(x.pos, x.val, min, rc)
  <2>1. Decoder!As(Y, Expiring) = IF Y.st = "ok" THEN Got(Y.pos, Expiring(Y.val)) ELSE Y
    <3> HIDE DEF Y
    <3> QED BY DEF Decoder!As, Decoder!Done, Got
  <2>2. B(x) = IF x.val = 0 THEN Decoder!Fail(x.pos, "error") ELSE Decoder!As(Y, Expiring)
    BY Zenon
  <2>3. Y = y
    OBVIOUS
  <2> HIDE DEF Y, B, y
  <2> QED BY <2>1, <2>2, <2>3
<1> HIDE DEF x, y, t, k, w, vs, B, u
<1>11. Ends(t, q, Firsts(vs, n))
  BY <1>3, <1>6, <1>7, <1>8, SizedItems
<1>12. t.st = "ok" => t.val = y.val
  BY <1>7, <1>2 DEF Ends, Got
<1>13. u = IF t.st = "ok" THEN Got(t.pos, Expiring(y.val)) ELSE t
  <2>1. x.st = "ok" => x.val # 0
    BY <1>2 DEF Ends, Got
  <2> QED BY <1>1, <1>7, <1>10, <2>1
<1>14. u = IF t.st = "ok" THEN Got(t.pos, Expiring(t.val)) ELSE t
  BY <1>12, <1>13
<1>15. t.val = vs => Expiring(t.val) = <<"hash", << h, e >> >>
  BY <1>9
<1>16. Ends(t, q, vs)
  BY <1>5, <1>11
<1>17. Ends(u, q, <<"hash", << h, e >> >>)
  <2> DEFINE o == <<"hash", << h, e >> >>
             z == Expiring(t.val)
  <2>1. u = (IF t.st = "ok" THEN Got(t.pos, z) ELSE t) /\ (t.val = vs => z = o)
    BY <1>14, <1>15
  <2> HIDE DEF o, z
  <2>2. Ends(u, q, o)
    BY <1>16, <2>1, EndsTurned
  <2> QED BY <2>2 DEF o
<1> QED BY <1>17 DEF u

LEMMA ExObject ==
    ASSUME NEW r, ~valkey
    PROVE  \E rc : ~rc /\ Decoder!readObject("typeHashWithHfe", r) = Decoder!readHashMapEx(r, rc)
<1> DEFINE rc == "typeHashWithHfe" = "typeHashWithHfeRc"
<1>1. ~rc
  OBVIOUS
<1>2. Decoder!readObject("typeHashWithHfe", r) = Decoder!readHashMapEx(r, rc)
  BY DEF Decoder!readObject
<1> HIDE DEF rc
<1> QED BY <1>1, <1>2

LEMMA FourSpelled ==
    ASSUME NEW f, NEW a, NEW b, NEW c, NEW d, NEW S, NEW items \in Seq(S),
           NEW p, NEW q, Spelled(f, << a, b, c, d >> \o items, p, q)
    PROVE  \E s, r, m, l \in Nat \ {0} :
             /\ Spells(f, a, p, s) /\ Spells(f, b, s, r) /\ Spells(f, c, r, m) /\ Spells(f, d, m, l)
             /\ Spelled(f, items, l, q)
<1> DEFINE H == << a, b, c, d >>
           A == << a, b, c >>
           B == << d >>
           T == S \cup {a, b, c, d}
<1>1. H \in Seq(T) /\ items \in Seq(T)
  OBVIOUS
<1>2. /\ Len(A) = 3 /\ Len(B) = 1 /\ Len(H) = 4
      /\ \A i \in 1..3 : H[i] = A[i]
      /\ \A i \in 1..1 : H[3 + i] = B[i]
  <2>1. Len(A) = 3 /\ Len(B) = 1 /\ Len(H) = 4
    OBVIOUS
  <2>2. H[1] = A[1] /\ H[2] = A[2] /\ H[3] = A[3] /\ H[4] = B[1]
    OBVIOUS
  <2>3. (\A i \in 1..3 : i = 1 \/ i = 2 \/ i = 3) /\ \A i \in 1..1 : i = 1 /\ 3 + i = 4
    OBVIOUS
  <2> HIDE DEF H, A, B
  <2> QED BY <2>1, <2>2, <2>3
<1>7. /\ Len(A) \in Nat /\ Len(B) \in Nat /\ Len(H) = Len(A) + Len(B)
      /\ \A i \in 1..Len(A) : H[i] = A[i]
      /\ \A i \in 1..Len(B) : H[Len(A) + i] = B[i]
  <2> HIDE DEF H, A, B
  <2> QED BY <1>2
<1> HIDE DEF H, A, B, T
<1>3. PICK l \in Nat \ {0} : Spelled(f, H, p, l) /\ Spelled(f, items, l, q)
  BY <1>1, SpelledPrefix DEF H
<1>4. PICK m \in Nat \ {0} : Spelled(f, A, p, m) /\ Spelled(f, B, m, l)
  BY <1>3, <1>7, SpelledSplit
<1>5. Spells(f, d, m, l)
  BY <1>4, SpelledOne DEF B
<1>6. \E s, r \in Nat \ {0} : Spells(f, a, p, s) /\ Spells(f, b, s, r) /\ Spells(f, c, r, m)
  BY <1>4, SpelledThree DEF A
<1> QED BY <1>3, <1>5, <1>6

LEMMA TripleIndex ==
    ASSUME NEW n \in Nat
    PROVE  \A j \in 1..n :
             /\ 3 * j - 2 \in 1..3*n /\ 3 * j - 1 \in 1..3*n /\ 3 * j \in 1..3*n
             /\ (3 * j - 2) % 3 = 1 /\ (3 * j - 1) % 3 = 2 /\ (3 * j) % 3 = 0
             /\ (3 * j - 2 + 2) \div 3 = j /\ (3 * j - 1 + 2) \div 3 = j /\ (3 * j + 2) \div 3 = j
OBVIOUS

(* Redis. *)
LEMMA HashExBack ==
    ASSUME out \in Seq(Tokens), ~valkey, NEW k \in Strings, NEW p, NEW q,
           NEW F \in SUBSET Strings, NEW fs, NEW n \in Nat \ {0}, Listed(fs, n, F),
           NEW h \in [F -> Strings], NEW e \in [F -> Int],
           Dates(F, e),
           NEW items \in Seq(BodyWrites), Len(items) = 3 * n,
           ExpiringItems(items, fs, h, e, n),
           NEW min, min = MinExpire(e),
           Spelled(out, << W(Op("typeHashWithHfe")), Str(k), W(Int64(min)), W(Length(n)) >> \o items, p, q)
    PROVE  Back(k, <<"hash", << h, e >> >>, p, q)
<1> DEFINE o == <<"hash", << h, e >> >>
<1>1. PICK s, r, m, l \in Nat \ {0} :
        /\ Spells(out, W(Op("typeHashWithHfe")), p, s) /\ Spells(out, Str(k), s, r)
        /\ Spells(out, W(Int64(min)), r, m) /\ Spells(out, W(Length(n)), m, l)
        /\ Spelled(out, items, l, q)
  BY FourSpelled
<1>2. q \in Nat \ {0}
  BY <1>1, SpelledEnd
<1>3. p \in Nat \ {0}
  <2> DEFINE H == << W(Op("typeHashWithHfe")), Str(k), W(Int64(min)), W(Length(n)) >>
             D == H \o items
  <2>1. Len(D) \in Nat
    <3> DEFINE T == BodyWrites \cup {W(Op("typeHashWithHfe")), Str(k), W(Int64(min)), W(Length(n))}
    <3>1. H \in Seq(T) /\ items \in Seq(T)
      OBVIOUS
    <3> HIDE DEF H, T
    <3> QED BY <3>1, ConcatProperties
  <2>2. Spelled(out, D, p, q)
    OBVIOUS
  <2> HIDE DEF D
  <2> QED BY <2>1, <2>2, SpelledEnd
<1>4. PICK rc : ~rc /\ Decoder!readObject("typeHashWithHfe", r) = Decoder!readHashMapEx(r, rc)
  BY ExObject
<1>5. min \in Nat /\ min <= EbInvalid /\ EbInvalid \in Nat
  BY LeastExpire, StringsAssumption DEF Dates
<1>6. Ends(ExBody(m, min, rc), q, o)
  BY <1>1, <1>2, <1>4, SizedExpiring
<1>7. /\ Past(out, r) => Past(out, m)
      /\ Past(out, m) => Past(out, q)
  <2>1. Past(out, r) => Past(out, m)
    BY <1>1, SpellsOn
  <2>2. Past(out, m) => Past(out, l)
    BY <1>1, SpellsOn
  <2>3. Len(items) \in Nat
    OBVIOUS
  <2>4. Past(out, l) => Past(out, q)
    BY <1>1, <1>2, <2>3, SpelledOn
  <2> QED BY <2>1, <2>2, <2>4
<1>8. Ends(Decoder!readObject("typeHashWithHfe", r), q, o)
  <2> DEFINE x == Decoder!readInt64(r)
             t == Decoder!readHashMapEx(r, rc)
             y == IF x.val > EbInvalid THEN Decoder!Fail(x.pos, "error")
                  ELSE ExBody(x.pos, x.val, rc)
  <2>1. t = IF x.st = "ok" THEN y ELSE x
    BY <1>4, ExReads
  <2>2. Ends(x, m, min)
    <3>1. Int64(min)[1] \in {"i64"} /\ Int64(min)[2] = min
      BY DEF Int64
    <3>2. Ends(Decoder!Take(r, {"i64"}), m, Int64(min)[2])
      BY <1>1, <3>1, TakeSpells
    <3> QED BY <3>1, <3>2 DEF Decoder!readInt64
  <2>3. ~Past(out, m) => Ends(y, q, o)
    <3> SUFFICES ASSUME ~Past(out, m) PROVE Ends(y, q, o)
      OBVIOUS
    <3>1. x.pos = m /\ x.val = min
      BY <2>2 DEF Ends, Got
    <3> HIDE DEF x, o
    <3>2. y = ExBody(m, min, rc)
      BY <1>5, <3>1
    <3> HIDE DEF y
    <3> QED BY <1>6, <3>2
  <2> HIDE DEF x, y, t, o
  <2>4. Ends(t, q, o)
    BY <1>7, <2>1, <2>2, <2>3, EndsThen
  <2> QED BY <1>4, <2>4 DEF t
<1>9. "typeHashWithHfe" \in TypeFlags
  BY DEF TypeFlags
<1> HIDE DEF o
<1>10. Back(k, o, p, q)
  BY <1>1, <1>2, <1>3, <1>7, <1>8, <1>9, HeadBack
<1> QED BY <1>10 DEF o

LEMMA HashExWritten ==
    ASSUME out \in Seq(Tokens), ~valkey, NEW k \in Strings, NEW F \in SUBSET Strings, F # {},
           NEW h \in [F -> Strings], NEW e \in [F -> Int],
           Dates(F, e), NEW p, NEW q,
           NEW ws \in writeHashEncodingEx(k, h, e), Spelled(out, ws, p, q)
    PROVE  Back(k, <<"hash", << h, e >> >>, p, q)
<1>1. PICK fs \in Orders(F) : ws = HashExStatements(k, h, e, fs)
  BY HashExOrders
<1> DEFINE n == Len(fs)
           min == MinExpire(e)
           items == [ i \in 1..3*n |-> LET f == fs[(i + 2) \div 3] IN
                                       CASE i % 3 = 1 -> W(Length(Ttl(e, f)))
                                         [] i % 3 = 2 -> Str(f)
                                         [] OTHER     -> Str(h[f]) ]
<1>2. ws = << W(Op("typeHashWithHfe")), Str(k), W(Int64(min)), W(Length(n)) >> \o items
  BY <1>1 DEF HashExStatements, Ttl
<1>3. Listed(fs, n, F)
  BY OrdersList
<1> HIDE DEF n
<1>4. n \in Nat \ {0} /\ 3*n \in Nat /\ \A i \in 1..n : fs[i] \in F /\ fs[i] \in Strings /\ h[fs[i]] \in Strings
  BY <1>3 DEF Listed
<1>5. min \in Nat /\ \A f \in F : Ttl(e, f) \in Int
  BY LeastExpire DEF Ttl, Dates
<1>6. items \in Seq(BodyWrites) /\ Len(items) = 3 * n
  <2>1. \A j \in 1..n : /\ W(Length(Ttl(e, fs[j]))) \in BodyWrites
                        /\ Str(fs[j]) \in BodyWrites /\ Str(h[fs[j]]) \in BodyWrites
    BY <1>4, <1>5, BodyStatements
  <2>3. \A i \in 1..3*n : (i + 2) \div 3 \in 1..n
    BY <1>4, ItemIndex
  <2>2. items \in [1..3*n -> BodyWrites]
    BY <2>1, <2>3
  <2> HIDE DEF items
  <2> QED BY <1>4, <2>2, FunctionIsSeq
<1>7. ExpiringItems(items, fs, h, e, n)
  <2> SUFFICES ASSUME NEW i \in 1..n
               PROVE  /\ items[3 * i - 2] = W(Length(Ttl(e, fs[i])))
                      /\ items[3 * i - 1] = Str(fs[i])
                      /\ items[3 * i] = Str(h[fs[i]])
    BY DEF ExpiringItems
  <2> DEFINE a == 3 * i - 2
             b == 3 * i - 1
             c == 3 * i
  <2>1. /\ a \in 1..3*n /\ b \in 1..3*n /\ c \in 1..3*n
        /\ a % 3 = 1 /\ b % 3 = 2 /\ c % 3 = 0
        /\ (a + 2) \div 3 = i /\ (b + 2) \div 3 = i /\ (c + 2) \div 3 = i
    BY <1>4, TripleIndex
  <2> HIDE DEF a, b, c
  <2>2. items[a] = W(Length(Ttl(e, fs[i])))
    BY <2>1
  <2>3. items[b] = Str(fs[i])
    BY <2>1
  <2>4. items[c] = Str(h[fs[i]])
    <3>1. c \in 1..3*n /\ ~(c % 3 = 1) /\ ~(c % 3 = 2) /\ (c + 2) \div 3 = i
      BY <2>1
    <3> QED BY <3>1
  <2> QED BY <2>2, <2>3, <2>4 DEF a, b, c
<1> HIDE DEF items, min
<1>8. min = MinExpire(e)
  BY DEF min
<1> QED BY <1>2, <1>3, <1>4, <1>6, <1>7, <1>8, HashExBack

(* Valkey. *)
UntilItems(items, fs, h, e, n) ==
    \A i \in 1..n : /\ items[3 * i - 2] = Str(fs[i])
                    /\ items[3 * i - 1] = Str(h[fs[i]])
                    /\ items[3 * i] = W(Int64(IF e[fs[i]] = 0 THEN -1 ELSE e[fs[i]]))

UntilRead(p, n) == Decoder!readN(p, n, FieldUntilAt)

LEMMA UntilObject ==
    ASSUME NEW p, valkey, NEW x, x = Decoder!readLength(p),
           NEW y, y = UntilRead(x.pos, x.val), NEW t, t = Decoder!readObject("typeHashWithHfeRc", p)
    PROVE  t = IF x.st = "ok"
               THEN (IF x.val = 0 THEN Decoder!Fail(x.pos, "error")
                     ELSE (IF y.st = "ok" THEN Got(y.pos, Until(y.val)) ELSE y))
               ELSE x
<1> DEFINE N(n) == IF n.val = 0 THEN Decoder!Fail(n.pos, "error")
                   ELSE Decoder!As(UntilRead(n.pos, n.val), Until)
           T == Decoder!Then(x, LAMBDA n : N(n))
<1>1. t = Decoder!readHashMapExValkey(p)
  BY DEF Decoder!readObject
<1>2. Decoder!readHashMapExValkey(p) = T
  BY Zenon DEF Decoder!readHashMapExValkey, UntilRead, FieldUntilAt, FieldAt, Int64At,
               Decoder!readInt64, Until
<1>3. T = IF x.st = "ok" THEN N(x) ELSE x
  <2> HIDE DEF N
  <2> QED BY DEF Decoder!Then
<1>4. Decoder!As(y, Until) = IF y.st = "ok" THEN Got(y.pos, Until(y.val)) ELSE y
  BY DEF Decoder!As, Decoder!Done, Got
<1>5. N(x) = IF x.val = 0 THEN Decoder!Fail(x.pos, "error") ELSE Decoder!As(y, Until)
  BY Zenon
<1> HIDE DEF T, N
<1> QED BY <1>1, <1>2, <1>3, <1>4, <1>5

LEMMA SizedUntil ==
    ASSUME out \in Seq(Tokens), valkey, NEW p \in Nat \ {0}, NEW r \in Nat \ {0}, NEW q \in Nat \ {0},
           NEW F \in SUBSET Strings, NEW fs, NEW n \in Nat \ {0}, Listed(fs, n, F),
           NEW h \in [F -> Strings], NEW e \in [F -> Int], \A f \in F : e[f] >= 0,
           NEW items, Len(items) = 3 * n, UntilItems(items, fs, h, e, n),
           Spells(out, W(Length(n)), p, r), Spelled(out, items, r, q)
    PROVE  Ends(Decoder!readObject("typeHashWithHfeRc", p), q, <<"hash", << h, e >> >>)
<1> DEFINE x == Decoder!readLength(p)
           y == UntilRead(x.pos, x.val)
           t == IF x.st = "ok" THEN y ELSE x
           k == <<"until">>
           w == 3
           vs == Dated(fs, h, e, n)
           u == Decoder!readObject("typeHashWithHfeRc", p)
           o == <<"hash", << h, e >> >>
<1>1. u = IF x.st = "ok"
          THEN (IF x.val = 0 THEN Decoder!Fail(x.pos, "error")
                ELSE (IF y.st = "ok" THEN Got(y.pos, Until(y.val)) ELSE y))
          ELSE x
  BY UntilObject
<1>2. Ends(x, r, n)
  BY LengthEnds
<1>3. ~Past(out, r) => Runs(k, r, n, y)
  <2> SUFFICES ASSUME ~Past(out, r) PROVE Runs(k, r, n, y)
    OBVIOUS
  <2>1. x.pos = r /\ x.val = n
    BY <1>2 DEF Ends, Got
  <2>2. Runs(k, r, n, UntilRead(r, n))
    <3>1. \E g : Run(k, r, n, g) /\ Decoder!readN(r, n, FieldUntilAt) = g[n]
      BY UntilRun
    <3> HIDE DEF k
    <3> QED BY <3>1 DEF Runs, UntilRead
  <2>3. y = UntilRead(r, n)
    <3> HIDE DEF x
    <3> QED BY <2>1
  <2> HIDE DEF y, k
  <2> QED BY <2>2, <2>3
<1>4. ASSUME NEW i \in 1..n, NEW a \in Nat \ {0}, NEW b \in Nat \ {0},
             Spelled(out, Chunk(items, 3, i), a, b)
      PROVE  Ends(ReadBy(k, a), b, vs[i])
  <2> DEFINE f == fs[i]
             d == IF e[f] = 0 THEN -1 ELSE e[f]
  <2>1. Chunk(items, 3, i) = << Str(f), Str(h[f]), W(Int64(d)) >>
    BY ChunkThree DEF UntilItems
  <2>2. PICK l \in Nat \ {0}, m \in Nat \ {0} :
          Spells(out, Str(f), a, l) /\ Spells(out, Str(h[f]), l, m) /\ Spells(out, W(Int64(d)), m, b)
    BY <1>4, <2>1, SpelledThree
  <2>3. ReadBy(k, a) = FieldUntilAt(a)
    BY DEF ReadBy
  <2>4. f \in F /\ f \in Strings /\ h[f] \in Strings
    BY DEF Listed
  <2>5. vs[i] = << << f, h[f] >>, d >>
    BY DEF Dated
  <2> HIDE DEF f, vs, d
  <2>8. Ends(FieldUntilAt(a), b, << << f, h[f] >>, d >>)
    BY <2>2, <2>4, UntilEnds
  <2> QED BY <2>3, <2>5, <2>8
<1>5. vs = Firsts(vs, n)
  BY DEF Firsts, Dated
<1>6. w \in 1..3 /\ Len(items) = n * w
  OBVIOUS
<1>7. x = Decoder!readLength(p) /\ t = IF x.st = "ok" THEN y ELSE x
  OBVIOUS
<1>8. Chunkwise(k, items, w, n, vs)
  BY <1>4 DEF Chunkwise
<1>9. Until(vs) = o
  <2>1. Until(Dated(fs, h, e, n)) = <<"hash", << h, e >> >>
    BY UntilListed
  <2> QED BY <2>1
<1> HIDE DEF x, y, t, k, w, vs, u, o
<1>11. Ends(t, q, Firsts(vs, n))
  BY <1>3, <1>6, <1>7, <1>8, SizedItems
<1>12. t.st = "ok" => t.val = y.val
  BY <1>7, <1>2 DEF Ends, Got
<1>13. u = IF t.st = "ok" THEN Got(t.pos, Until(y.val)) ELSE t
  <2>1. x.st = "ok" => x.val # 0
    BY <1>2 DEF Ends, Got
  <2> QED BY <1>1, <1>7, <2>1
<1>14. u = IF t.st = "ok" THEN Got(t.pos, Until(t.val)) ELSE t
  BY <1>12, <1>13
<1>15. t.val = vs => Until(t.val) = o
  BY <1>9
<1>16. Ends(t, q, vs)
  BY <1>5, <1>11
<1>17. Ends(u, q, o)
  <2> DEFINE z == Until(t.val)
  <2>1. u = (IF t.st = "ok" THEN Got(t.pos, z) ELSE t) /\ (t.val = vs => z = o)
    BY <1>14, <1>15
  <2> HIDE DEF z
  <2> QED BY <1>16, <2>1, EndsTurned
<1> QED BY <1>17 DEF u, o

LEMMA Hash2Written ==
    ASSUME out \in Seq(Tokens), valkey, NEW k \in Strings, NEW F \in SUBSET Strings, F # {},
           NEW h \in [F -> Strings], NEW e \in [F -> Int], \A f \in F : e[f] >= 0, NEW p, NEW q,
           NEW ws \in writeHash2Encoding(k, h, e), Spelled(out, ws, p, q)
    PROVE  Back(k, <<"hash", << h, e >> >>, p, q)
<1>1. PICK fs \in Orders(F) : ws = Hash2Statements(k, h, e, fs)
  BY Hash2Orders
<1> DEFINE n == Len(fs)
           o == <<"hash", << h, e >> >>
           T(f) == W(Int64(IF e[f] = 0 THEN -1 ELSE e[f]))
           items == [ i \in 1..3*n |-> LET f == fs[(i + 2) \div 3] IN
                                       CASE i % 3 = 1 -> Str(f)
                                         [] i % 3 = 2 -> Str(h[f])
                                         [] OTHER     -> T(f) ]
<1>2. ws = << W(Op("typeHashWithHfeRc")), Str(k), W(Length(n)) >> \o items
  BY <1>1 DEF Hash2Statements, typeHash2
<1>3. Listed(fs, n, F)
  BY OrdersList
<1> HIDE DEF n
<1>4. n \in Nat \ {0} /\ 3*n \in Nat /\ \A i \in 1..n : fs[i] \in F /\ fs[i] \in Strings /\ h[fs[i]] \in Strings
  BY <1>3 DEF Listed
<1>5. \A f \in F : T(f) \in BodyWrites
  BY BodyStatements
<1> HIDE DEF T
<1>6. items \in Seq(BodyWrites) /\ Len(items) = 3 * n
  <2>1. \A j \in 1..n : T(fs[j]) \in BodyWrites /\ Str(fs[j]) \in BodyWrites /\ Str(h[fs[j]]) \in BodyWrites
    BY <1>4, <1>5, BodyStatements
  <2>3. \A i \in 1..3*n : (i + 2) \div 3 \in 1..n
    BY <1>4, ItemIndex
  <2>2. items \in [1..3*n -> BodyWrites]
    BY <2>1, <2>3
  <2> HIDE DEF items
  <2> QED BY <1>4, <2>2, FunctionIsSeq
<1>7. UntilItems(items, fs, h, e, n)
  <2> SUFFICES ASSUME NEW i \in 1..n
               PROVE  /\ items[3 * i - 2] = Str(fs[i])
                      /\ items[3 * i - 1] = Str(h[fs[i]])
                      /\ items[3 * i] = T(fs[i])
    BY DEF UntilItems, T
  <2> DEFINE a == 3 * i - 2
             b == 3 * i - 1
             c == 3 * i
  <2>1. /\ a \in 1..3*n /\ b \in 1..3*n /\ c \in 1..3*n
        /\ a % 3 = 1 /\ b % 3 = 2 /\ c % 3 = 0
        /\ (a + 2) \div 3 = i /\ (b + 2) \div 3 = i /\ (c + 2) \div 3 = i
    BY <1>4, TripleIndex
  <2> HIDE DEF a, b, c
  <2>2. items[a] = Str(fs[i])
    BY <2>1
  <2>3. items[b] = Str(h[fs[i]])
    BY <2>1
  <2>4. items[c] = T(fs[i])
    <3>1. c \in 1..3*n /\ ~(c % 3 = 1) /\ ~(c % 3 = 2) /\ (c + 2) \div 3 = i
      BY <2>1
    <3> QED BY <3>1
  <2> QED BY <2>2, <2>3, <2>4 DEF a, b, c
<1> HIDE DEF items
<1>8. ASSUME NEW r \in Nat \ {0}, NEW m \in Nat \ {0},
             Spells(out, W(Length(n)), r, m), Spelled(out, items, m, q)
      PROVE  Ends(Decoder!readObject("typeHashWithHfeRc", r), q, o)
  <2>1. q \in Nat \ {0}
    <3>1. Len(items) \in Nat
      BY <1>4, <1>6
    <3> QED BY <1>8, <3>1, SpelledEnd
  <2> QED BY <1>3, <1>4, <1>6, <1>7, <1>8, <2>1, SizedUntil
<1>9. "typeHashWithHfeRc" \in TypeFlags
  BY DEF TypeFlags
<1> HIDE DEF o
<1>10. Spelled(out, << W(Op("typeHashWithHfeRc")), Str(k), W(Length(n)) >> \o items, p, q)
  BY <1>2
<1>11. Back(k, o, p, q)
  BY <1>6, <1>8, <1>9, <1>10, SizedBack
<1> QED BY <1>11 DEF o

-----------------------------------------------------------------------------
(* An object that the two sides agree upon: a hash written without         *)
(* expirations has none; one written with expirations has a field, no      *)
(* expiration before the epoch, and (for redis) none that is invalid.      *)
Storable(o) ==
    /\ o[1] = "hash" => \A f \in DOMAIN o[2][2] : o[2][2][f] = 0
    /\ o[1] = "hashex" => /\ DOMAIN o[2][1] # {}
                          /\ \A f \in DOMAIN o[2][2] :
                               o[2][2][f] >= 0 /\ (~Valkey => o[2][2][f] < EbInvalid)

LEMMA ObjectBack ==
    ASSUME out \in Seq(Tokens), valkey = Valkey, NEW k \in Strings, NEW o, IsObject(o), Storable(o),
           NEW p, NEW q, NEW ws \in ObjectWrites(k, o), Spelled(out, ws, p, q)
    PROVE  Back(k, Canonical(o), p, q)
<1>1. CASE o \in {"string"} \X Strings
  <2>1. o = <<"string", o[2]>> /\ o[2] \in Strings /\ Canonical(o) = o
    BY <1>1 DEF Canonical
  <2>2. ws = << W(Op("typeString")), Str(k), Str(o[2]) >>
    BY <2>1 DEF ObjectWrites
  <2> QED BY <2>1, <2>2, StringBack
<1>2. CASE o \in {"list"} \X Seq(Strings)
  <2>1. o = <<"list", o[2]>> /\ o[2] \in Seq(Strings) /\ Canonical(o) = o
    BY <1>2 DEF Canonical
  <2>2. ws \in WriteListObject(k, o[2])
    BY <2>1 DEF ObjectWrites
  <2> QED BY <2>1, <2>2, ListWritten
<1>3. CASE o \in {"set"} \X Seq(Strings)
  <2>1. o = <<"set", o[2]>> /\ o[2] \in Seq(Strings)
    BY <1>3
  <2>3. Canonical(o) = <<"set", {o[2][i] : i \in DOMAIN o[2]}>>
    BY <2>1 DEF Canonical
  <2>2. ws \in WriteSetObject(k, o[2])
    BY <2>1 DEF ObjectWrites
  <2> QED BY <2>1, <2>2, <2>3, SetWritten
<1>4. CASE o \in {"zset"} \X Seq(Strings \X Scores)
  <2>1. o = <<"zset", o[2]>> /\ o[2] \in Seq(Strings \X Scores) /\ Canonical(o) = o
    BY <1>4 DEF Canonical
  <2>2. ws \in WriteZSetObject(k, o[2])
    BY <2>1 DEF ObjectWrites
  <2> QED BY <2>1, <2>2, ZSetWritten
<1>5. ASSUME NEW F \in SUBSET Strings, o \in {"hash", "hashex"} \X ([F -> Strings] \X [F -> Int])
      PROVE  Back(k, Canonical(o), p, q)
  <2> DEFINE h == o[2][1]
             e == o[2][2]
  <2>1. /\ o[1] \in {"hash", "hashex"} /\ h \in [F -> Strings] /\ e \in [F -> Int]
        /\ DOMAIN h = F /\ DOMAIN e = F /\ o = <<o[1], <<h, e>> >>
    BY <1>5
  <2>2. CASE o[1] = "hash"
    <3>1. Canonical(o) = <<"hash", <<h, e>> >>
      BY <2>1, <2>2 DEF Canonical
    <3>2. e = Plain(F)
      BY <2>1, <2>2 DEF Storable, Plain
    <3>3. ws \in WriteHashMapObject(k, h)
      BY <2>2 DEF ObjectWrites
    <3> HIDE DEF h, e
    <3> QED BY <2>1, <3>1, <3>2, <3>3, HashWritten
  <2>3. CASE o[1] = "hashex"
    <3>1. Canonical(o) = <<"hash", <<h, e>> >>
      BY <2>1, <2>3 DEF Canonical
    <3>2. F # {} /\ \A f \in F : e[f] >= 0 /\ (~Valkey => e[f] < EbInvalid)
      BY <2>1, <2>3 DEF Storable
    <3>3. ws \in WriteHashMapObjectEx(k, h, e)
      BY <2>3 DEF ObjectWrites
    <3> HIDE DEF h, e
    <3>4. CASE Valkey
      <4>1. ws \in writeHash2Encoding(k, h, e) /\ valkey
        BY <3>3, <3>4 DEF WriteHashMapObjectEx
      <4> QED BY <2>1, <3>1, <3>2, <4>1, Hash2Written
    <3>5. CASE ~Valkey
      <4>1. ws \in writeHashEncodingEx(k, h, e) /\ ~valkey
        BY <3>3, <3>5 DEF WriteHashMapObjectEx
      <4>2. Dates(F, e)
        BY <3>2, <3>5 DEF Dates
      <4> QED BY <2>1, <3>1, <3>2, <4>1, <4>2, HashExWritten
    <3> QED BY <3>4, <3>5
  <2> QED BY <2>1, <2>2, <2>3
<1> QED BY <1>1, <1>2, <1>3, <1>4, <1>5 DEF IsObject


-----------------------------------------------------------------------------
(* The reader between two records.                                         *)

At(a) ==
    /\ result = "none" /\ stopped = FALSE
    /\ pos = a.pos /\ dbIndex = a.db /\ expireMs = a.exp /\ lru = None /\ lfu = None
    /\ valkey = (a.head /\ Valkey)
    /\ a.head <=> pos > 1
    /\ IsSequence(got) /\ Received(got) = a.ents

(* The reader returned, and what it gave before was all of it. *)
Over(a) == result # "none" /\ Received(got) = a.ents

(* Only one kind of record begins with a token. *)
LEMMA AtOne ==
    ASSUME NEW x, NEW y, Decoder!AtRecord(x), Decoder!AtRecord(y)
    PROVE  x = y
BY DEF Decoder!AtRecord, Decoder!Op

(* What is read at a record, beyond which nothing of it is left. *)
LEMMA AtHas ==
    ASSUME out \in Seq(Tokens), NEW x, Has(out, pos, Op(x)), pos \in Nat \ {0}, pos > 1,
           ~Past(out, pos + 1), result = "none"
    PROVE  Decoder!AtRecord(x)
<1>1. EndOf(out) \in Nat /\ EndOf(out) <= Len(out) /\ Len(out) \in Nat
  BY EndType
<1>2. pos <= EndOf(out)
  BY <1>1 DEF Past
<1> QED BY <1>1, <1>2 DEF Has, Decoder!AtRecord, Decoder!Op, Op, Decoder!Parsing

(* At the end of the file the reader returns. *)
LEMMA ReaderEnd ==
    ASSUME out \in Seq(Tokens), NEW a \in Points, At(a), a.pos = EndOf(out) + 1,
           Decoder!DecoderNext
    PROVE  Over(a)'
<1>1. EndOf(out) \in Nat /\ pos = EndOf(out) + 1 /\ pos \in Nat \ {0}
  BY EndType DEF At
<1>2. \A kinds : Decoder!Take(pos, kinds).st = "error"
  BY <1>1, TakeEnds
<1>3. CASE Decoder!checkHeader
  <2>1. Decoder!Return("error", 1)
    BY <1>2, <1>3 DEF Decoder!checkHeader
  <2> QED BY <2>1 DEF Decoder!Return, Over, At
<1>4. CASE Decoder!NoRecord
  <2>1. Decoder!Return("error", pos)
    BY <1>2, <1>4 DEF Decoder!NoRecord
  <2> QED BY <2>1 DEF Decoder!Return, Over, At
<1>5. ASSUME NEW x, Decoder!AtRecord(x)
      PROVE  FALSE
  <2>1. pos <= Len(out) /\ out[pos] = <<"op", x>>
    BY <1>5 DEF Decoder!AtRecord, Decoder!Op
  <2>2. EndOf(out) = Len(out) - 1 /\ out[Len(out)] = Torn
    <3>1. Len(out) \in Nat /\ (EndOf(out) = Len(out) \/ EndOf(out) = Len(out) - 1)
      BY EndType
    <3>2. EndOf(out) # Len(out)
      BY <1>1, <2>1, <3>1
    <3> QED BY <3>1, <3>2 DEF EndOf
  <2>3. pos = Len(out)
    BY <1>1, <2>2
  <2> QED BY <2>1, <2>2, <2>3 DEF Torn
<1>6. CASE Decoder!Record
  BY <1>5, <1>6 DEF Decoder!Record, Decoder!ReadEOF, Decoder!SelectDB, Decoder!ExpireTime,
     Decoder!ExpireTimeMs, Decoder!ResizeDB, Decoder!Aux, Decoder!Freq, Decoder!Idle,
     Decoder!ModuleAux, Decoder!Function, Decoder!SlotInfo, Decoder!SlotImport, Decoder!Object
<1> QED BY <1>3, <1>4, <1>6 DEF Decoder!DecoderNext

(* What the reader does with the record that leads from a to b. *)
Moves(a, b) ==
    /\ Past(out, b.pos) => Over(a)'
    /\ ~Past(out, b.pos) /\ b.done => result' = "nil" /\ Over(b)'
    /\ ~Past(out, b.pos) /\ ~b.done => At(b)'

LEMMA HeadOne ==
    ASSUME out \in Seq(Tokens), NEW t, NEW y, NEW p \in Nat \ {0}, NEW m \in Nat \ {0},
           NEW q \in Nat \ {0}, Spells(out, W(t), p, m), Spells(out, y, m, q)
    PROVE  Has(out, p, t) /\ Spells(out, y, p + 1, q) /\ (Past(out, p + 1) => Past(out, q))
<1>1. Has(out, p, t) /\ Same(out, m, p + 1)
  BY SpellsWrite
<1>2. Spells(out, y, p + 1, q)
  <2>1. CASE m = p + 1
    BY <2>1
  <2>2. CASE Past(out, m) /\ Past(out, p + 1)
    <3>1. Past(out, q)
      BY <2>2, SpellsOn
    <3> QED BY <2>2, <3>1 DEF Spells
  <2> QED BY <1>1, <2>1, <2>2 DEF Same
<1>3. Past(out, p + 1) => Past(out, q)
  BY <1>2, SpellsOn
<1> QED BY <1>1, <1>2, <1>3

(* The action of the record that stands there. *)
LEMMA AtAction ==
    ASSUME out \in Seq(Tokens), pos \in Nat, NEW x, Decoder!AtRecord(x), Decoder!DecoderNext
    PROVE  /\ x = "opCodeEOF" => Decoder!ReadEOF
           /\ x = "opCodeSelectDB" => Decoder!SelectDB
           /\ x = "opCodeExpireTimeMs" => Decoder!ExpireTimeMs
           /\ x = "opCodeResizeDB" => Decoder!ResizeDB
           /\ x = "opCodeAux" => Decoder!Aux
           /\ x \in TypeFlags => Decoder!Object(x)
<1>1. ~Decoder!checkHeader
  BY DEF Decoder!checkHeader, Decoder!AtRecord
<1>2. ~Decoder!NoRecord
  <2>1. Len(out) \in Nat /\ pos <= Len(out) /\ out[pos] = <<"op", x>>
    BY DEF Decoder!AtRecord, Decoder!Op
  <2>2. ~(pos > Len(out) \/ (pos = Len(out) /\ out[pos] = Decoder!Torn)) /\ out[pos][1] = "op"
    BY <2>1 DEF Decoder!Torn
  <2>3. Decoder!Take(pos, {"op"}).st = "ok"
    BY <2>2 DEF Decoder!Take, Decoder!Done
  <2> QED BY <2>3 DEF Decoder!NoRecord
<1>3. Decoder!Record
  BY <1>1, <1>2 DEF Decoder!DecoderNext
<1>4. \A y : Decoder!AtRecord(y) => y = x
  BY AtOne
<1>5. Decoder!TypeFlags = TypeFlags
  BY DEF Decoder!TypeFlags, TypeFlags
<1>6. /\ Decoder!ReadEOF => x = "opCodeEOF"
      /\ Decoder!SelectDB => x = "opCodeSelectDB"
      /\ Decoder!ExpireTime => x = "opCodeExpireTime"
      /\ Decoder!ExpireTimeMs => x = "opCodeExpireTimeMs"
      /\ Decoder!ResizeDB => x = "opCodeResizeDB"
      /\ Decoder!Aux => x = "opCodeAux"
      /\ Decoder!Freq => x = "opCodeFreq"
      /\ Decoder!Idle => x = "opCodeIdle"
      /\ Decoder!ModuleAux => x = "opCodeModuleAux"
      /\ Decoder!Function => x = "opCodeFunction"
      /\ Decoder!SlotInfo => x = "opCodeSlotInfo"
      /\ Decoder!SlotImport => x = "opCodeSlotImport"
  BY <1>4 DEF Decoder!ReadEOF, Decoder!SelectDB, Decoder!ExpireTime,
     Decoder!ExpireTimeMs, Decoder!ResizeDB, Decoder!Aux, Decoder!Freq, Decoder!Idle,
     Decoder!ModuleAux, Decoder!Function, Decoder!SlotInfo, Decoder!SlotImport
<1>7. \A flag : Decoder!Object(flag) => flag = x
  BY <1>4 DEF Decoder!Object
<1>8. x \in TypeFlags =>
        x \notin {"opCodeEOF", "opCodeSelectDB", "opCodeExpireTime", "opCodeExpireTimeMs",
                  "opCodeResizeDB", "opCodeAux", "opCodeFreq", "opCodeIdle", "opCodeModuleAux",
                  "opCodeFunction", "opCodeSlotInfo", "opCodeSlotImport"}
  BY DEF TypeFlags
<1>9. \A y \in {"opCodeEOF", "opCodeSelectDB", "opCodeExpireTimeMs", "opCodeResizeDB",
                "opCodeAux"} : y \notin TypeFlags
  BY DEF TypeFlags
<1>10. (\E flag \in TypeFlags : Decoder!Object(flag)) => x \in TypeFlags /\ Decoder!Object(x)
  BY <1>7
<1> QED BY <1>3, <1>5, <1>6, <1>8, <1>9, <1>10, Zenon DEF Decoder!Record

LEMMA ReceivedNext == Received(got)' = Received(got')
BY DEF Received, Decoder!Concat

LEMMA AtType ==
    ASSUME NEW a \in Points, At(a)
    PROVE  /\ pos \in Nat \ {0} /\ dbIndex \in Nat /\ expireMs \in Nat
           /\ a.head \in BOOLEAN /\ a.done \in BOOLEAN
           /\ a.pos = pos /\ a.db = dbIndex /\ a.exp = expireMs
BY DEF At, Points

LEMMA HeaderMoves ==
    ASSUME out \in Seq(Tokens), NEW a \in Points, At(a), ~a.head, Valkey \in BOOLEAN,
           NEW q \in Nat \ {0},
           Spells(out, W(Magic(IF Valkey THEN "VALKEY080" ELSE "REDIS0011")), a.pos, q),
           Decoder!DecoderNext
    PROVE  Moves(a, Point(q, a.db, a.exp, a.ents, TRUE, FALSE))
<1> DEFINE v == IF Valkey THEN "VALKEY080" ELSE "REDIS0011"
           m == Decoder!Take(1, {"magic"})
           b == Point(q, a.db, a.exp, a.ents, TRUE, FALSE)
<1>1. pos = 1 /\ a.pos = 1
  <2>1. pos \in Nat \ {0} /\ a.pos = pos /\ ~(pos > 1)
    BY AtType DEF At
  <2> QED BY <2>1
<1>2. Decoder!checkHeader
  BY <1>1 DEF Decoder!DecoderNext, Decoder!NoRecord, Decoder!Record, Decoder!AtRecord,
     Decoder!ReadEOF, Decoder!SelectDB, Decoder!ExpireTime,
     Decoder!ExpireTimeMs, Decoder!ResizeDB, Decoder!Aux, Decoder!Freq, Decoder!Idle,
     Decoder!ModuleAux, Decoder!Function, Decoder!SlotInfo, Decoder!SlotImport, Decoder!Object
<1>3. Ends(m, q, v) /\ Same(out, q, 2)
  <2>1. Spells(out, W(Magic(v)), 1, q)
    BY <1>1
  <2>2. Magic(v)[1] \in {"magic"} /\ Magic(v)[2] = v
    BY DEF Magic
  <2> HIDE DEF v
  <2>3. Ends(m, q, Magic(v)[2])
    <3>1. 1 \in Nat \ {0}
      OBVIOUS
    <3> QED BY <2>1, <2>2, <3>1, TakeSpells
  <2>4. Same(out, q, 1 + 1)
    <3>1. 1 \in Nat \ {0}
      OBVIOUS
    <3> QED BY <2>1, <3>1, SpellsWrite
  <2> QED BY <2>2, <2>3, <2>4
<1>4. v \in Decoder!Magics /\ (v = "VALKEY080" <=> Valkey)
  BY DEF Decoder!Magics
<1> SUFFICES Moves(a, b)
  OBVIOUS
<1>5. b.pos = q /\ b.db = a.db /\ b.exp = a.exp /\ b.ents = a.ents /\ b.head = TRUE /\ b.done = FALSE
  BY DEF Point
<1> HIDE DEF v, b
<1>6. CASE Past(out, q)
  <2>1. m.st = "error"
    BY <1>3, <1>6 DEF Ends
  <2> HIDE DEF m
  <2>2. result' = "error" /\ got' = got
    BY <1>2, <2>1 DEF Decoder!checkHeader, Decoder!Return, m
  <2>3. Over(a)'
    BY <2>2, ReceivedNext DEF Over, At
  <2> QED BY <1>5, <1>6, <2>3 DEF Moves
<1>7. CASE ~Past(out, q)
  <2>1. m.st = "ok" /\ m.val = v /\ q = 2
    BY <1>3, <1>7 DEF Ends, Got, Same
  <2> HIDE DEF m
  <2>2. /\ pos' = 2 /\ valkey' = (v = "VALKEY080") /\ UNCHANGED <<got, stopped, result>>
        /\ UNCHANGED <<dbIndex, expireMs, lru, lfu>>
    BY <1>2, <1>4, <2>1 DEF Decoder!checkHeader, Decoder!Return, Decoder!registers, m
  <2>3. valkey' = (TRUE /\ Valkey)
    BY <1>4, <2>2
  <2>4. At(b)'
    BY <1>5, <2>1, <2>2, <2>3, ReceivedNext DEF At
  <2> QED BY <1>5, <1>7, <2>4 DEF Moves
<1> QED BY <1>6, <1>7

(* A record that sets a register. *)
LEMMA RegisterMoves ==
    ASSUME NEW a \in Points, At(a), a.head, NEW x, NEW q \in Nat \ {0}, NEW v,
           q > 1, NEW d \in Nat, NEW e \in Nat,
           Ends(x, q, v), Decoder!Advance(x),
           ~Past(out, q) => dbIndex' = d /\ expireMs' = e /\ lru' = lru /\ lfu' = lfu
    PROVE  Moves(a, Point(q, d, e, a.ents, TRUE, FALSE))
<1> DEFINE b == Point(q, d, e, a.ents, TRUE, FALSE)
<1> SUFFICES Moves(a, b)
  OBVIOUS
<1>1. b.pos = q /\ b.db = d /\ b.exp = e /\ b.ents = a.ents /\ b.head = TRUE /\ b.done = FALSE
  BY DEF Point
<1> HIDE DEF b
<1>2. CASE Past(out, q)
  <2>1. x.st = "error"
    BY <1>2 DEF Ends
  <2>2. result' = "error" /\ got' = got
    BY <2>1 DEF Decoder!Advance, Decoder!Return
  <2>3. Over(a)'
    BY <2>2, ReceivedNext DEF Over, At
  <2> QED BY <1>1, <1>2, <2>3 DEF Moves
<1>3. CASE ~Past(out, q)
  <2>1. x.st = "ok" /\ x.pos = q
    BY <1>3 DEF Ends, Got
  <2>2. pos' = q /\ UNCHANGED <<valkey, got, stopped, result>>
    BY <2>1 DEF Decoder!Advance
  <2>3. At(b)'
    BY <1>1, <1>3, <2>2, ReceivedNext DEF At
  <2> QED BY <1>1, <1>3, <2>3 DEF Moves
<1> QED BY <1>2, <1>3

LEMMA SelectMoves ==
    ASSUME out \in Seq(Tokens), NEW a \in Points, At(a), a.head, NEW d \in DBs, DBs \subseteq Nat,
           NEW q \in Nat \ {0}, q > 1, ~Past(out, a.pos + 1),
           Spelled(out, << W(Op("opCodeSelectDB")), W(DbIndex(d)) >>, a.pos, q),
           Decoder!DecoderNext
    PROVE  Moves(a, Point(q, d, a.exp, a.ents, TRUE, FALSE))
<1>1. PICK m \in Nat \ {0} : Spells(out, W(Op("opCodeSelectDB")), a.pos, m)
                               /\ Spells(out, W(DbIndex(d)), m, q)
  BY SpelledTwo
<1>2. pos \in Nat \ {0} /\ a.pos = pos /\ pos > 1 /\ result = "none" /\ a.exp = expireMs
  BY AtType DEF At
<1>3. Has(out, pos, Op("opCodeSelectDB")) /\ Spells(out, W(DbIndex(d)), pos + 1, q)
  BY <1>1, <1>2, HeadOne
<1>4. Decoder!SelectDB
  BY <1>2, <1>3, AtHas, AtAction
<1> DEFINE x == Decoder!readLength(pos + 1)
<1>5. Ends(x, q, d)
  <2>1. DbIndex(d)[1] \in Decoder!LengthKinds /\ DbIndex(d)[2] = d
    BY DEF DbIndex, Decoder!LengthKinds
  <2>2. pos + 1 \in Nat \ {0}
    BY <1>2
  <2>3. Ends(Decoder!Take(pos + 1, Decoder!LengthKinds), q, DbIndex(d)[2])
    BY <1>3, <2>1, <2>2, TakeSpells
  <2> QED BY <2>1, <2>3 DEF Decoder!readLength
<1>6. /\ Decoder!Advance(x) /\ UNCHANGED <<expireMs, lru, lfu>>
      /\ x.st = "ok" => dbIndex' = x.val
  BY <1>4 DEF Decoder!SelectDB
<1>7. ~Past(out, q) => dbIndex' = d
  BY <1>5, <1>6 DEF Ends, Got
<1> HIDE DEF x
<1>8. a.exp \in Nat /\ d \in Nat
  BY DEF Points
<1> QED BY <1>2, <1>5, <1>6, <1>7, <1>8, RegisterMoves

LEMMA ExpireMoves ==
    ASSUME out \in Seq(Tokens), NEW a \in Points, At(a), a.head, NEW n \in TTLs, TTLs \subseteq Nat,
           NEW q \in Nat \ {0}, q > 1, ~Past(out, a.pos + 1),
           Spells(out, <<"ttl", n>>, a.pos, q),
           Decoder!DecoderNext
    PROVE  Moves(a, Point(q, a.db, n, a.ents, TRUE, FALSE))
<1>1. pos \in Nat \ {0} /\ a.pos = pos /\ pos > 1 /\ result = "none" /\ a.db = dbIndex
  BY AtType DEF At
<1> DEFINE X == Op("opCodeExpireTimeMs")
           Y == Int64(n)
           w == << X, Y >>
<1>2. Len(w) = 2 /\ w[1] = X /\ w[2] = Y
  OBVIOUS
<1>3. Has(out, pos, X) /\ Has(out, pos + 1, Y) /\ Same(out, q, pos + 2)
  <2>1. ~Past(out, pos)
    BY <1>1, PastOn
  <2>2. \A u : Form(<<"ttl", n>>, u) => u = w
    BY DEF Form
  <2> HIDE DEF X, Y, w
  <2>3. (\A i \in 1..Len(w) : Has(out, pos + i - 1, w[i])) /\ Same(out, q, pos + Len(w))
    BY <1>1, <2>1, <2>2 DEF Spells
  <2>4. 1 \in 1..Len(w) /\ 2 \in 1..Len(w) /\ pos + 1 - 1 = pos /\ pos + 2 - 1 = pos + 1
    BY <1>1, <1>2
  <2> QED BY <1>2, <2>3, <2>4
<1> HIDE DEF w
<1>4. Decoder!ExpireTimeMs
  BY <1>1, <1>3, AtHas, AtAction DEF X
<1> DEFINE x == Decoder!readInt64(pos + 1)
<1>5. Ends(x, q, n)
  <2>1. Y[1] \in {"i64"} /\ Y[2] = n
    BY DEF Int64
  <2>2. pos + 1 \in Nat \ {0}
    BY <1>1
  <2> HIDE DEF Y
  <2>3. Ends(Decoder!Take(pos + 1, {"i64"}), (pos + 1) + 1, n)
    <3>1. Ends(Decoder!Take(pos + 1, {"i64"}), (pos + 1) + 1, Y[2])
      BY <1>3, <2>1, <2>2, TakeHas
    <3> QED BY <2>1, <3>1
  <2>4. Same(out, q, (pos + 1) + 1)
    <3>1. (pos + 1) + 1 = pos + 2
      BY <1>1
    <3> QED BY <1>3, <3>1
  <2>5. Ends(Decoder!Take(pos + 1, {"i64"}), q, n)
    BY <2>3, <2>4, EndsSame
  <2> QED BY <2>5 DEF Decoder!readInt64
<1>6. /\ Decoder!Advance(x) /\ UNCHANGED <<dbIndex, lru, lfu>>
      /\ x.st = "ok" => expireMs' = x.val
  BY <1>4 DEF Decoder!ExpireTimeMs
<1>7. ~Past(out, q) => expireMs' = n
  BY <1>5, <1>6 DEF Ends, Got
<1> HIDE DEF x
<1>8. a.db \in Nat /\ n \in Nat
  BY DEF Points
<1> QED BY <1>1, <1>5, <1>6, <1>7, <1>8, RegisterMoves

(* A read that fails ends the reader's work, with an error or without. *)
LEMMA FailMoves ==
    ASSUME NEW a \in Points, At(a), NEW b, NEW r, NEW p, Past(out, b.pos),
           Decoder!Return(r, p), r # "none"
    PROVE  Moves(a, b)
<1>1. result' = r /\ got' = got
  BY DEF Decoder!Return
<1>2. Over(a)'
  BY <1>1, ReceivedNext DEF Over, At
<1> QED BY <1>2 DEF Moves

(* The callback gets something else than an object. *)
LEMMA SecondMoves ==
    ASSUME NEW a \in Points, At(a), a.head, MayStop = FALSE, NEW x, NEW q \in Nat \ {0}, NEW v,
           q > 1, NEW e, e[1] # "object", Ends(x, q, v), Decoder!SecondOperand(x, e),
           UNCHANGED <<dbIndex, expireMs, lru, lfu>>
    PROVE  Moves(a, Point(q, a.db, a.exp, a.ents, TRUE, FALSE))
<1> DEFINE b == Point(q, a.db, a.exp, a.ents, TRUE, FALSE)
<1> SUFFICES Moves(a, b)
  OBVIOUS
<1>1. b.pos = q /\ b.db = a.db /\ b.exp = a.exp /\ b.ents = a.ents /\ b.head = TRUE /\ b.done = FALSE
  BY DEF Point
<1> HIDE DEF b
<1>2. CASE Past(out, q)
  <2>1. x.st = "error"
    BY <1>2 DEF Ends
  <2>2. Decoder!Return("nil", x.pos)
    BY <2>1 DEF Decoder!SecondOperand
  <2> QED BY <1>1, <1>2, <2>2, FailMoves
<1>3. CASE ~Past(out, q)
  <2>1. x.st = "ok" /\ x.pos = q
    BY <1>3 DEF Ends, Got
  <2>2. IF WithSpecialOpCode THEN Decoder!Callback(e, q) ELSE Decoder!Advance(x)
    BY <2>1 DEF Decoder!SecondOperand
  <2>3. /\ pos' = q /\ UNCHANGED <<valkey, stopped, result>>
        /\ got' = Append(got, e) \/ got' = got
    BY <2>1, <2>2 DEF Decoder!Callback, Decoder!Advance
  <2>4. IsSequence(got') /\ Received(got') = Received(got)
    <3>1. IsSequence(got)
      BY DEF At
    <3>2. IsSequence(Append(got, e)) /\ Received(Append(got, e)) = Received(got)
      BY <3>1, SequenceGrows, EntriesGrow
    <3> QED BY <2>3, <3>1, <3>2
  <2>5. At(b)'
    <3>1. IsSequence(got)' /\ Received(got)' = a.ents
      BY <2>4, ReceivedNext DEF At, IsSequence
    <3> QED BY <1>1, <2>3, <3>1 DEF At
  <2> QED BY <1>1, <1>3, <2>5 DEF Moves
<1> QED BY <1>2, <1>3

LEMMA ResizeMoves ==
    ASSUME out \in Seq(Tokens), NEW a \in Points, At(a), a.head, MayStop = FALSE,
           NEW q \in Nat \ {0}, q > 1, ~Past(out, a.pos + 1),
           Spelled(out, << W(Op("opCodeResizeDB")), W(Length(0)), W(Length(0)) >>, a.pos, q),
           Decoder!DecoderNext
    PROVE  Moves(a, Point(q, a.db, a.exp, a.ents, TRUE, FALSE))
<1> DEFINE L == W(Length(0))
           O == W(Op("opCodeResizeDB"))
<1>1. PICK m \in Nat \ {0}, r \in Nat \ {0} :
        Spells(out, O, a.pos, m) /\ Spells(out, L, m, r) /\ Spells(out, L, r, q)
  <2> HIDE DEF L, O
  <2>1. Spelled(out, << O, L, L >>, a.pos, q)
    BY DEF L, O
  <2> QED BY <2>1, SpelledThree
<1>2. pos \in Nat \ {0} /\ a.pos = pos /\ pos > 1 /\ result = "none"
  BY AtType DEF At
<1>3. Has(out, pos, Op("opCodeResizeDB")) /\ Spells(out, L, pos + 1, r)
  BY <1>1, <1>2, HeadOne
<1>4. Decoder!ResizeDB
  BY <1>2, <1>3, AtHas, AtAction
<1> DEFINE x == Decoder!readLength(pos + 1)
           y == Decoder!readLength(x.pos)
           e == <<"dbsize", <<dbIndex, x.val, y.val>> >>
<1>5. Ends(x, r, 0)
  <2>1. pos + 1 \in Nat \ {0}
    BY <1>2
  <2> QED BY <1>3, <2>1, LengthEnds
<1>6. /\ IF x.st # "ok" THEN Decoder!Return(x.st, x.pos) ELSE Decoder!SecondOperand(y, e)
      /\ UNCHANGED <<dbIndex, expireMs, lru, lfu>>
  BY <1>4 DEF Decoder!ResizeDB, Decoder!registers
<1>7. CASE Past(out, r)
  <2>1. Past(out, q)
    BY <1>1, <1>7, SpellsOn
  <2>2. x.st = "error"
    BY <1>5, <1>7 DEF Ends
  <2> HIDE DEF x
  <2>3. Decoder!Return("error", x.pos)
    BY <1>6, <2>2
  <2>4. Past(out, Point(q, a.db, a.exp, a.ents, TRUE, FALSE).pos)
    BY <2>1 DEF Point
  <2> QED BY <2>3, <2>4, FailMoves
<1>8. CASE ~Past(out, r)
  <2>1. x.st = "ok" /\ x.pos = r
    BY <1>5, <1>8 DEF Ends, Got
  <2> HIDE DEF x
  <2>2. Ends(y, q, 0)
    BY <1>1, <2>1, LengthEnds
  <2>3. e[1] # "object"
    OBVIOUS
  <2> HIDE DEF y, e
  <2>4. Decoder!SecondOperand(y, e)
    BY <1>6, <2>1
  <2> QED BY <1>6, <2>2, <2>3, <2>4, SecondMoves
<1> QED BY <1>7, <1>8

LEMMA AuxMoves ==
    ASSUME out \in Seq(Tokens), NEW a \in Points, At(a), a.head, MayStop = FALSE,
           NEW q \in Nat \ {0}, q > 1, ~Past(out, a.pos + 1),
           NEW k \in Strings, NEW v \in Strings,
           Spelled(out, << W(Op("opCodeAux")), Str(k), Str(v) >>, a.pos, q),
           Decoder!DecoderNext
    PROVE  Moves(a, Point(q, a.db, a.exp, a.ents, TRUE, FALSE))
<1> DEFINE K == Str(k)
           V == Str(v)
           O == W(Op("opCodeAux"))
<1>1. PICK m \in Nat \ {0}, r \in Nat \ {0} :
        Spells(out, O, a.pos, m) /\ Spells(out, K, m, r) /\ Spells(out, V, r, q)
  <2> HIDE DEF K, V, O
  <2>1. Spelled(out, << O, K, V >>, a.pos, q)
    BY DEF K, V, O
  <2> QED BY <2>1, SpelledThree
<1>2. pos \in Nat \ {0} /\ a.pos = pos /\ pos > 1 /\ result = "none"
  BY AtType DEF At
<1>3. Has(out, pos, Op("opCodeAux")) /\ Spells(out, K, pos + 1, r)
  BY <1>1, <1>2, HeadOne
<1>4. Decoder!Aux
  BY <1>2, <1>3, AtHas, AtAction
<1> DEFINE x == Decoder!readText(pos + 1)
           y == Decoder!readText(x.pos)
           e == <<"aux", <<x.val, y.val>> >>
<1>5. Ends(x, r, k)
  <2>1. pos + 1 \in Nat \ {0}
    BY <1>2
  <2> QED BY <1>3, <2>1, TextEnds
<1>6. /\ IF x.st # "ok" THEN Decoder!Return(x.st, x.pos) ELSE Decoder!SecondOperand(y, e)
      /\ UNCHANGED <<dbIndex, expireMs, lru, lfu>>
  BY <1>4 DEF Decoder!Aux, Decoder!registers
<1>7. CASE Past(out, r)
  <2>1. Past(out, q)
    BY <1>1, <1>7, SpellsOn
  <2>2. x.st = "error"
    BY <1>5, <1>7 DEF Ends
  <2> HIDE DEF x
  <2>3. Decoder!Return("error", x.pos)
    BY <1>6, <2>2
  <2>4. Past(out, Point(q, a.db, a.exp, a.ents, TRUE, FALSE).pos)
    BY <2>1 DEF Point
  <2> QED BY <2>3, <2>4, FailMoves
<1>8. CASE ~Past(out, r)
  <2>1. x.st = "ok" /\ x.pos = r
    BY <1>5, <1>8 DEF Ends, Got
  <2> HIDE DEF x
  <2>2. Ends(y, q, v)
    BY <1>1, <2>1, TextEnds
  <2>3. e[1] # "object"
    OBVIOUS
  <2> HIDE DEF y, e
  <2>4. Decoder!SecondOperand(y, e)
    BY <1>6, <2>1
  <2> QED BY <1>6, <2>2, <2>3, <2>4, SecondMoves
<1> QED BY <1>7, <1>8

LEMMA EOFMoves ==
    ASSUME out \in Seq(Tokens), NEW a \in Points, At(a), a.head,
           NEW q \in Nat \ {0}, q > 1, ~Past(out, a.pos + 1),
           Spelled(out, << W(Op("opCodeEOF")), <<"sum">> >>, a.pos, q),
           Decoder!DecoderNext
    PROVE  Moves(a, Point(q, a.db, a.exp, a.ents, TRUE, TRUE))
<1> DEFINE b == Point(q, a.db, a.exp, a.ents, TRUE, TRUE)
<1>1. PICK m \in Nat \ {0} : Spells(out, W(Op("opCodeEOF")), a.pos, m)
                               /\ Spells(out, <<"sum">>, m, q)
  BY SpelledTwo
<1>2. pos \in Nat \ {0} /\ a.pos = pos /\ pos > 1 /\ result = "none"
  BY AtType DEF At
<1>3. Has(out, pos, Op("opCodeEOF"))
  BY <1>1, <1>2, HeadOne
<1>4. Decoder!ReadEOF
  BY <1>2, <1>3, AtHas, AtAction
<1>5. result' = "nil" /\ got' = got
  BY <1>4 DEF Decoder!ReadEOF, Decoder!Return
<1>6. Over(a)'
  BY <1>5, ReceivedNext DEF Over, At
<1>7. b.ents = a.ents /\ b.done = TRUE
  BY DEF Point
<1> HIDE DEF b
<1>8. Over(b)'
  BY <1>6, <1>7 DEF Over
<1>9. Moves(a, b)
  BY <1>5, <1>6, <1>7, <1>8 DEF Moves
<1> QED BY <1>9 DEF b

LEMMA ObjectMoves ==
    ASSUME out \in Seq(Tokens), NEW a \in Points, At(a), a.head, MayStop = FALSE,
           NEW q \in Nat \ {0}, q > 1, ~Past(out, a.pos + 1),
           NEW k \in Strings, NEW o, Back(k, o, a.pos, q),
           Decoder!DecoderNext
    PROVE  Moves(a, Point(q, a.db, 0, Append(a.ents, Entry(a.db, k, a.exp, None, None, o)),
                          TRUE, FALSE))
<1> DEFINE e == Entry(a.db, k, a.exp, None, None, o)
           b == Point(q, a.db, 0, Append(a.ents, e), TRUE, FALSE)
<1> SUFFICES Moves(a, b)
  OBVIOUS
<1>1. b.pos = q /\ b.db = a.db /\ b.exp = 0 /\ b.ents = Append(a.ents, e) /\ b.head = TRUE /\ b.done = FALSE
  BY DEF Point
<1> HIDE DEF b
<1>2. PICK flag \in TypeFlags, r \in Nat \ {0} :
        /\ Has(out, a.pos, Op(flag))
        /\ Ends(Decoder!readText(a.pos + 1), r, k)
        /\ ~Past(out, r) => Ends(Decoder!readObject(flag, r), q, o)
        /\ Past(out, r) => Past(out, q)
  BY DEF Back
<1>3. /\ pos \in Nat \ {0} /\ a.pos = pos /\ pos > 1 /\ result = "none"
      /\ a.db = dbIndex /\ a.exp = expireMs /\ expireMs \in Nat
  BY AtType DEF At
<1>4. Decoder!Object(flag)
  BY <1>2, <1>3, AtHas, AtAction
<1> DEFINE x == Decoder!readText(pos + 1)
           y == Decoder!readObject(flag, x.pos)
           d == Decoder!Entry(dbIndex, x.val, IF expireMs > 0 THEN expireMs ELSE 0, lru, lfu, y.val)
<1>5. IF x.st # "ok" THEN Decoder!Return(x.st, x.pos) /\ UNCHANGED <<dbIndex, expireMs, lru, lfu>>
      ELSE /\ expireMs' = IF expireMs > 0 THEN 0 ELSE expireMs
           /\ lru' = Decoder!None
           /\ lfu' = Decoder!None
           /\ IF y.st # "ok" THEN Decoder!Return(y.st, y.pos) ELSE Decoder!Callback(<<"object", d>>, y.pos)
           /\ UNCHANGED dbIndex
  BY <1>4 DEF Decoder!Object, Decoder!registers
<1>6. Ends(x, r, k)
  BY <1>2, <1>3
<1>7. CASE Past(out, r)
  <2>1. x.st = "error" /\ Past(out, q)
    BY <1>2, <1>6, <1>7 DEF Ends
  <2> HIDE DEF x, y
  <2>2. Decoder!Return("error", x.pos)
    BY <1>5, <2>1
  <2> QED BY <1>1, <2>1, <2>2, FailMoves
<1>8. CASE ~Past(out, r)
  <2>1. x.st = "ok" /\ x.pos = r /\ x.val = k
    BY <1>6, <1>8 DEF Ends, Got
  <2> HIDE DEF x
  <2>2. Ends(y, q, o)
    BY <1>2, <1>8, <2>1
  <2> HIDE DEF y
  <2>3. /\ expireMs' = 0 /\ lru' = None /\ lfu' = None /\ dbIndex' = dbIndex
        /\ IF y.st # "ok" THEN Decoder!Return(y.st, y.pos) ELSE Decoder!Callback(<<"object", d>>, y.pos)
    BY <1>3, <1>5, <2>1 DEF Decoder!None, None
  <2>4. CASE Past(out, q)
    <3>1. y.st = "error"
      BY <2>2, <2>4 DEF Ends
    <3>2. Decoder!Return("error", y.pos)
      BY <2>3, <3>1
    <3> QED BY <1>1, <2>4, <3>2, FailMoves
  <2>5. CASE ~Past(out, q)
    <3>1. y.st = "ok" /\ y.pos = q /\ y.val = o
      BY <2>2, <2>5 DEF Ends, Got
    <3>2. d = e
      <4>1. lru = None /\ lfu = None
        BY DEF At
      <4>2. (IF expireMs > 0 THEN expireMs ELSE 0) = expireMs
        BY <1>3
      <4> QED BY <1>3, <2>1, <3>1, <4>1, <4>2 DEF Decoder!Entry, Entry
    <3> DEFINE g == <<"object", d>>
    <3>3. g[1] = "object" /\ g[2] = d
      OBVIOUS
    <3> HIDE DEF g, d, e
    <3>4. /\ pos' = q /\ got' = Append(got, g)
          /\ UNCHANGED <<valkey, stopped, result>>
      BY <2>3, <3>1 DEF Decoder!Callback, g
    <3>5. IsSequence(got') /\ Received(got') = Received(got) \o << d >>
      <4>1. IsSequence(got)
        BY DEF At
      <4>2. IsSequence(Append(got, g)) /\ Received(Append(got, g)) = Received(got) \o << g[2] >>
        BY <3>3, <4>1, SequenceGrows, EntriesGrow
      <4> QED BY <3>3, <3>4, <4>2
    <3>6. a.ents \o << e >> = Append(a.ents, e)
      <4>1. a.ents \in Seq(Ents)
        BY DEF Points
      <4> QED BY <4>1
    <3>7. IsSequence(got)' /\ Received(got)' = Append(a.ents, e)
      BY <3>2, <3>5, <3>6, ReceivedNext DEF At, IsSequence
    <3>8. At(b)'
      BY <1>1, <1>3, <2>3, <3>4, <3>7 DEF At
    <3> QED BY <1>1, <2>5, <3>8 DEF Moves
  <2> QED BY <2>4, <2>5
<1> QED BY <1>7, <1>8

LEMMA LeadsUp ==
    ASSUME NEW f \in Seq(Tokens), NEW a \in Points, NEW b \in Points, Leads(f, a, b), a.pos > 1
    PROVE  b.pos > 1
<1>1. a.pos \in Nat \ {0} /\ b.pos \in Nat \ {0}
  BY DEF Points
<1>2. \A x : Spells(f, x, a.pos, b.pos) => b.pos > 1
  BY <1>1, SpellsOn
<1>3. ASSUME NEW C, Len(C) \in Nat, Spelled(f, C, a.pos, b.pos)
      PROVE  b.pos > 1
  BY <1>1, <1>3, SpelledOn
<1>4. ASSUME NEW k \in Keys, NEW o \in Objects, NEW ws \in ObjectWrites(k, o)
      PROVE  Len(ws) \in Nat
  <2>1. ws \in Seq(InnerInstrs)
    BY ObjectWritesType, ObjectStatements
  <2> QED BY <2>1
<1>5. \A x, y, z : /\ Len(<< x, y >>) \in Nat /\ Len(<< x, y, z >>) \in Nat
  OBVIOUS
<1> QED BY <1>2, <1>3, <1>4, <1>5, Zenon DEF Leads

(* A record takes a token at least. *)
LEMMA TokenPast ==
    ASSUME out \in Seq(Tokens), NEW p \in Nat \ {0}, NEW q \in Nat \ {0}, Past(out, p + 1)
    PROVE  /\ \A t : Spells(out, W(t), p, q) => Past(out, q)
           /\ \A t, y : Spelled(out, << W(t), y >>, p, q) => Past(out, q)
           /\ \A t, y, z : Spelled(out, << W(t), y, z >>, p, q) => Past(out, q)
           /\ \A n : Spells(out, <<"ttl", n>>, p, q) => Past(out, q)
<1>1. ASSUME NEW t, NEW m \in Nat \ {0}, Spells(out, W(t), p, m)
      PROVE  Past(out, m)
  <2>1. Same(out, m, p + 1)
    BY <1>1, SpellsWrite
  <2> QED BY <2>1 DEF Same
<1>2. ASSUME NEW t, NEW y, Spelled(out, << W(t), y >>, p, q)
      PROVE  Past(out, q)
  <2>1. PICK m \in Nat \ {0} : Spells(out, W(t), p, m) /\ Spells(out, y, m, q)
    BY <1>2, SpelledTwo
  <2> QED BY <1>1, <2>1, SpellsOn
<1>3. ASSUME NEW t, NEW y, NEW z, Spelled(out, << W(t), y, z >>, p, q)
      PROVE  Past(out, q)
  <2>1. PICK m \in Nat \ {0}, r \in Nat \ {0} :
          Spells(out, W(t), p, m) /\ Spells(out, y, m, r) /\ Spells(out, z, r, q)
    BY <1>3, SpelledThree
  <2>2. Past(out, r)
    BY <1>1, <2>1, SpellsOn
  <2> QED BY <2>1, <2>2, SpellsOn
<1>4. ASSUME NEW n, Spells(out, <<"ttl", n>>, p, q)
      PROVE  Past(out, q)
  <2> DEFINE w == << Op("opCodeExpireTimeMs"), Int64(n) >>
  <2>1. \A u : Form(<<"ttl", n>>, u) => u = w
    BY DEF Form
  <2>2. Len(w) = 2
    OBVIOUS
  <2> HIDE DEF w
  <2>3. Past(out, q) \/ Same(out, q, p + 2)
    BY <1>4, <2>1, <2>2 DEF Spells
  <2>4. Past(out, p + 2)
    <3>1. p + 1 \in Nat /\ p + 2 \in Nat /\ p + 1 <= p + 2
      OBVIOUS
    <3> QED BY <3>1, PastOn
  <2> QED BY <2>3, <2>4 DEF Same
<1> QED BY <1>1, <1>2, <1>3, <1>4

LEMMA BackPast ==
    ASSUME NEW k, NEW o, NEW p, NEW q, Back(k, o, p, q), Past(out, p + 1)
    PROVE  Past(out, q)
BY DEF Back

LEMMA LeadsPast ==
    ASSUME out \in Seq(Tokens), NEW a \in Points, NEW b \in Points, Leads(out, a, b),
           \A o \in Objects : Storable(o), At(a), Past(out, a.pos + 1)
    PROVE  Past(out, b.pos)
<1>1. a.pos \in Nat \ {0} /\ b.pos \in Nat \ {0}
  BY DEF Points
<1>2. ASSUME NEW k \in Keys, NEW o \in Objects, NEW ws \in ObjectWrites(k, o),
             Spelled(out, ws, a.pos, b.pos), a.head
      PROVE  Past(out, b.pos)
  <2>1. IsObject(o) /\ k \in Strings /\ Storable(o) /\ valkey = Valkey
    BY <1>2, EncoderAssumption DEF At
  <2>2. Back(k, Canonical(o), a.pos, b.pos)
    BY <1>2, <2>1, ObjectBack
  <2> QED BY <2>2, BackPast
<1>3. CASE Spells(out, W(Magic(IF Valkey THEN "VALKEY080" ELSE "REDIS0011")), a.pos, b.pos)
  <2> DEFINE t == Magic(IF Valkey THEN "VALKEY080" ELSE "REDIS0011")
  <2>1. Spells(out, W(t), a.pos, b.pos)
    BY <1>3
  <2> HIDE DEF t
  <2> QED BY <1>1, <2>1, TokenPast
<1>4. ASSUME NEW t, NEW y, Spelled(out, << W(t), y >>, a.pos, b.pos)
      PROVE  Past(out, b.pos)
  BY <1>1, <1>4, TokenPast
<1>5. ASSUME NEW t, NEW y, NEW z, Spelled(out, << W(t), y, z >>, a.pos, b.pos)
      PROVE  Past(out, b.pos)
  BY <1>1, <1>5, TokenPast
<1>6. ASSUME NEW n, Spells(out, <<"ttl", n>>, a.pos, b.pos)
      PROVE  Past(out, b.pos)
  BY <1>1, <1>6, TokenPast
<1> QED BY <1>2, <1>3, <1>4, <1>5, <1>6, Zenon DEF Leads

(* Every record that leads from a to b. *)
LEMMA ReaderStep ==
    ASSUME out \in Seq(Tokens), MayStop = FALSE, \A o \in Objects : Storable(o),
           NEW a \in Points, NEW b \in Points, At(a), ~Past(out, a.pos), Leads(out, a, b),
           Decoder!DecoderNext
    PROVE  Moves(a, b)
<1>1. a.pos \in Nat \ {0} /\ b.pos \in Nat \ {0} /\ EndOf(out) \in Nat
  BY EndType DEF Points
<1>2. CASE Past(out, a.pos + 1)
  <2>1. a.pos = EndOf(out) + 1
    BY <1>1, <1>2 DEF Past
  <2>2. Over(a)'
    BY <2>1, ReaderEnd
  <2>3. Past(out, b.pos)
    BY <1>2, LeadsPast
  <2> QED BY <2>2, <2>3 DEF Moves
<1>3. CASE ~a.head
  <2>1. /\ Spells(out, W(Magic(IF Valkey THEN "VALKEY080" ELSE "REDIS0011")), a.pos, b.pos)
        /\ b = Point(b.pos, a.db, a.exp, a.ents, TRUE, FALSE)
    BY <1>3 DEF Leads
  <2>2. Valkey \in BOOLEAN
    BY EncoderAssumption
  <2>3. Moves(a, Point(b.pos, a.db, a.exp, a.ents, TRUE, FALSE))
    BY <1>1, <1>3, <2>1, <2>2, HeaderMoves
  <2> QED BY <2>1, <2>3
<1>4. CASE a.head /\ ~Past(out, a.pos + 1)
  <2>1. b.pos > 1
    BY <1>4, LeadsUp DEF At
  <2>2. DBs \subseteq Nat /\ TTLs \subseteq Nat /\ Keys \subseteq Strings
          /\ \A o \in Objects : IsObject(o)
    BY EncoderAssumption
  <2>3. ASSUME NEW d \in DBs, Spelled(out, << W(Op("opCodeSelectDB")), W(DbIndex(d)) >>, a.pos, b.pos),
               b = Point(b.pos, d, a.exp, a.ents, TRUE, FALSE)
        PROVE  Moves(a, b)
    <3>1. Moves(a, Point(b.pos, d, a.exp, a.ents, TRUE, FALSE))
      BY <1>1, <1>4, <2>1, <2>2, <2>3, SelectMoves
    <3> QED BY <2>3, <3>1
  <2>4. ASSUME Spelled(out, << W(Op("opCodeResizeDB")), W(Length(0)), W(Length(0)) >>, a.pos, b.pos),
               b = Point(b.pos, a.db, a.exp, a.ents, TRUE, FALSE)
        PROVE  Moves(a, b)
    <3>1. Moves(a, Point(b.pos, a.db, a.exp, a.ents, TRUE, FALSE))
      BY <1>1, <1>4, <2>1, <2>4, ResizeMoves
    <3> QED BY <2>4, <3>1
  <2>5. ASSUME NEW k \in Keys, NEW v \in Keys,
               Spelled(out, << W(Op("opCodeAux")), Str(k), Str(v) >>, a.pos, b.pos),
               b = Point(b.pos, a.db, a.exp, a.ents, TRUE, FALSE)
        PROVE  Moves(a, b)
    <3>1. k \in Strings /\ v \in Strings
      BY <2>2
    <3>2. Moves(a, Point(b.pos, a.db, a.exp, a.ents, TRUE, FALSE))
      BY <1>1, <1>4, <2>1, <2>5, <3>1, AuxMoves
    <3> QED BY <2>5, <3>2
  <2>6. ASSUME NEW n \in TTLs, Spells(out, <<"ttl", n>>, a.pos, b.pos),
               b = Point(b.pos, a.db, n, a.ents, TRUE, FALSE)
        PROVE  Moves(a, b)
    <3>1. Moves(a, Point(b.pos, a.db, n, a.ents, TRUE, FALSE))
      BY <1>1, <1>4, <2>1, <2>2, <2>6, ExpireMoves
    <3> QED BY <2>6, <3>1
  <2>7. ASSUME NEW k \in Keys, NEW o \in Objects, NEW ws \in ObjectWrites(k, o),
               Spelled(out, ws, a.pos, b.pos),
               b = Point(b.pos, a.db, 0,
                         Append(a.ents, Entry(a.db, k, a.exp, None, None, Canonical(o))), TRUE, FALSE)
        PROVE  Moves(a, b)
    <3>1. k \in Strings /\ IsObject(o) /\ Storable(o) /\ valkey = Valkey
      BY <1>4, <2>2, EncoderAssumption DEF At
    <3>2. Back(k, Canonical(o), a.pos, b.pos)
      BY <2>7, <3>1, ObjectBack
    <3>3. Moves(a, Point(b.pos, a.db, 0,
                         Append(a.ents, Entry(a.db, k, a.exp, None, None, Canonical(o))), TRUE, FALSE))
      BY <1>1, <1>4, <2>1, <3>1, <3>2, ObjectMoves
    <3> QED BY <2>7, <3>3
  <2>8. ASSUME Spelled(out, << W(Op("opCodeEOF")), <<"sum">> >>, a.pos, b.pos),
               b = Point(b.pos, a.db, a.exp, a.ents, TRUE, TRUE)
        PROVE  Moves(a, b)
    <3>1. Moves(a, Point(b.pos, a.db, a.exp, a.ents, TRUE, TRUE))
      BY <1>1, <1>4, <2>1, <2>8, EOFMoves
    <3> QED BY <2>8, <3>1
  <2> QED BY <1>4, <2>3, <2>4, <2>5, <2>6, <2>7, <2>8, Zenon DEF Leads
<1> QED BY <1>2, <1>3, <1>4

-----------------------------------------------------------------------------
(* The file that is there.  It leads to the end of what was written, or    *)
(* breaks off in the record that a call wrote.                             *)

Final(a) ==
    /\ ~Past(out, a.pos) => a.pos = EndOf(out) + 1 /\ a.ents = Sent /\ (Finished => a.done)
    /\ Finished /\ health = "clean" => ~Past(out, a.pos)

(* The files of which something is promised. *)
Kept == Trusted \/ (Cut /\ health = "failed")

LEMMA Written ==
    ASSUME WriteInv, Kept
    PROVE  \E a \in Points : Sound(out, log, a) /\ Final(a)
<1>1. TypeInv /\ LinkInv /\ (Trusted => Story) /\ out \in Seq(Tokens)
  BY DEF WriteInv, TypeInv, TypeOK
<1>2. CASE Trusted
  <2>1. Ext(out, out)
    BY <1>1, EndType DEF Ext
  <2>2. PICK q \in Nat \ {0} :
             /\ Sound(out, log, Goal(q)) /\ Goal(q) \in Points
             /\ Goal(q).pos = q /\ Goal(q).ents = Sent
             /\ q = EndOf(out) + 1 \/ Past(out, q)
             /\ Idle => ~Past(out, q)
    BY <1>1, <1>2, <2>1, Unwritten
  <2>3. Finished => Idle /\ Goal(q).done
    BY DEF Finished, Goal
  <2>4. Final(Goal(q))
    BY <2>2, <2>3 DEF Final
  <2> QED BY <2>2, <2>4
<1>3. CASE ~Trusted
  <2>1. Cut /\ health = "failed"
    BY <1>3 DEF Kept
  <2>2. PICK a \in Points : Sound(out, log, a) /\ Past(out, a.pos)
    BY <2>1 DEF WriteInv, Failed
  <2>3. Final(a)
    BY <2>1, <2>2 DEF Final
  <2> QED BY <2>2, <2>3
<1> QED BY <1>2, <1>3

-----------------------------------------------------------------------------
(* The reader has come to a point of the file, or has returned there:      *)
(* because the next record is not complete, or at the end.                 *)

Stands(m, st, i) ==
    /\ Tells(out, log, m, st) /\ Final(st[m])
    /\ i \in 0..m /\ ~Past(out, st[i].pos)
    /\ result = "none" => At(st[i]) /\ ~st[i].done
    /\ result # "none" =>
         /\ Received(got) = st[i].ents
         /\ \/ i < m /\ Past(out, st[i + 1].pos)
            \/ i = m /\ (st[m].done => result = "nil")

ReadInv == \E m, st, i : Stands(m, st, i)

RInv == /\ WriteInv
        /\ ~reading => At(Beginning)
        /\ reading /\ Kept => ReadInv

LEMMA AtBeginning == RInit => At(Beginning)
<1> SUFFICES ASSUME RInit
             PROVE  At(Beginning)
  OBVIOUS
<1>1. /\ result = "none" /\ stopped = FALSE /\ pos = 1 /\ dbIndex = 0 /\ expireMs = 0
      /\ lru = None /\ lfu = None /\ valkey = FALSE /\ got = <<>>
  BY DEF RInit, Decoder!DecoderInit, Decoder!None, None
<1>2. IsSequence(got)
  BY <1>1 DEF IsSequence
<1>3. Received(got) = <<>>
  BY <1>1, EntriesNone
<1> DEFINE a == Beginning
<1>4. a.pos = 1 /\ a.db = 0 /\ a.exp = 0 /\ a.ents = <<>> /\ a.head = FALSE
  BY DEF Beginning, Point
<1> HIDE DEF a
<1>5. valkey = (a.head /\ Valkey)
  BY <1>1, <1>4
<1>6. At(a)
  BY <1>1, <1>2, <1>3, <1>4, <1>5 DEF At
<1> QED BY <1>6 DEF a

(* A reader that begins. *)
LEMMA ReadBegins ==
    ASSUME WriteInv, Kept, At(Beginning)
    PROVE  ReadInv
<1>1. PICK a \in Points : Sound(out, log, a) /\ Final(a)
  BY Written
<1>2. PICK m, st : Tells(out, log, m, st) /\ st[m] = a
  BY <1>1 DEF Sound
<1>3. m \in Nat /\ st[0] = Beginning
  BY <1>2 DEF Tells
<1>4. ~Past(out, 1)
  <2>1. out \in Seq(Tokens)
    BY DEF WriteInv, TypeInv, TypeOK
  <2>2. EndOf(out) \in Nat
    BY <2>1, EndType
  <2> QED BY <2>2 DEF Past
<1>5. Beginning.pos = 1 /\ Beginning.done = FALSE
  BY DEF Beginning, Point
<1>6. result = "none"
  BY DEF At
<1>7. Stands(m, st, 0)
  BY <1>1, <1>2, <1>3, <1>4, <1>5, <1>6 DEF Stands
<1> QED BY <1>7 DEF ReadInv

(* One record more, or the end of the file. *)
LEMMA ReadGoesOn ==
    ASSUME MayStop = FALSE, \A o \in Objects : Storable(o), WriteInv, ReadInv,
           Decoder!DecoderNext, UNCHANGED vars
    PROVE  ReadInv'
<1>1. PICK m, st, i : Stands(m, st, i)
  BY DEF ReadInv
<1>2. result = "none"
  BY DEF Decoder!DecoderNext, Decoder!checkHeader, Decoder!NoRecord, Decoder!Record, Decoder!AtRecord,
     Decoder!ReadEOF, Decoder!SelectDB, Decoder!ExpireTime, Decoder!Parsing,
     Decoder!ExpireTimeMs, Decoder!ResizeDB, Decoder!Aux, Decoder!Freq, Decoder!Idle,
     Decoder!ModuleAux, Decoder!Function, Decoder!SlotInfo, Decoder!SlotImport, Decoder!Object
<1>3. /\ Tells(out, log, m, st) /\ Final(st[m]) /\ i \in 0..m /\ ~Past(out, st[i].pos)
      /\ At(st[i]) /\ ~st[i].done
  BY <1>1, <1>2 DEF Stands
<1>4. m \in Nat /\ st \in [0..m -> Points]
  BY <1>3 DEF Tells
<1>5. out \in Seq(Tokens) /\ out' = out /\ log' = log
  BY DEF WriteInv, TypeInv, TypeOK, vars
<1>6. Tells(out', log', m, st) /\ Final(st[m])'
  BY <1>3, <1>5 DEF Final, Finished, Sent, Idle, vars
<1>7. CASE i = m
  <2>1. st[i] \in Points /\ st[i].pos = EndOf(out) + 1
    BY <1>3, <1>4, <1>7 DEF Final
  <2>2. Over(st[i])'
    BY <1>3, <1>5, <2>1, ReaderEnd
  <2>3. Stands(m, st, i)'
    BY <1>3, <1>5, <1>6, <1>7, <2>2 DEF Stands, Over
  <2> QED BY <2>3 DEF ReadInv
<1>8. CASE i < m
  <2> DEFINE j == i + 1
             a == st[i]
             b == st[j]
  <2>1. j \in 0..m /\ j \in 1..m /\ j - 1 = i /\ j # i
    BY <1>3, <1>4, <1>8
  <2> HIDE DEF j
  <2>2. a \in Points /\ b \in Points /\ Leads(out, a, b)
    BY <1>3, <1>4, <2>1 DEF Tells
  <2> HIDE DEF a, b
  <2>3. Moves(a, b)
    BY <1>3, <1>5, <2>2, ReaderStep DEF a
  <2>4. CASE Past(out, b.pos)
    <3>1. Over(a)'
      BY <2>3, <2>4 DEF Moves
    <3>2. (i < m /\ Past(out, st[i + 1].pos))'
      BY <1>5, <1>8, <2>4 DEF b, j
    <3>3. Stands(m, st, i)'
      BY <1>3, <1>5, <1>6, <3>1, <3>2 DEF Stands, Over, a
    <3> QED BY <3>3 DEF ReadInv
  <2>5. CASE ~Past(out, b.pos) /\ b.done
    <3>1. result' = "nil" /\ Over(b)'
      BY <2>3, <2>5 DEF Moves
    <3>2. j = m
      <4>1. CASE j < m
        <5>1. j + 1 \in 1..m /\ (j + 1) - 1 = j
          BY <1>4, <2>1, <4>1
        <5>2. Leads(out, st[j], st[j + 1])
          BY <1>3, <5>1 DEF Tells
        <5> QED BY <2>5, <5>2 DEF Leads, b
      <4> QED BY <2>1, <4>1, <1>4
    <3>3. Stands(m, st, j)'
      BY <1>5, <1>6, <2>1, <2>5, <3>1, <3>2 DEF Stands, Over, b
    <3> QED BY <3>3 DEF ReadInv
  <2>6. CASE ~Past(out, b.pos) /\ ~b.done
    <3>1. At(b)'
      BY <2>3, <2>6 DEF Moves
    <3>2. result' = "none"
      BY <3>1 DEF At
    <3>3. Stands(m, st, j)'
      BY <1>5, <1>6, <2>1, <2>6, <3>1, <3>2 DEF Stands, b
    <3> QED BY <3>3 DEF ReadInv
  <2> QED BY <2>4, <2>5, <2>6
<1> QED BY <1>3, <1>4, <1>7, <1>8

-----------------------------------------------------------------------------
(* The callback takes all there is, and every object can be stored. *)
Readable == MayStop = FALSE /\ \A o \in Objects : Storable(o)

LEMMA RInvInit == RInit => RInv
BY AtBeginning, WriteInvInit DEF RInv, RInit

LEMMA ReadSame == UNCHANGED vars /\ UNCHANGED readVars => ReadInv' = ReadInv
<1> SUFFICES ASSUME UNCHANGED vars, UNCHANGED readVars
             PROVE  ReadInv' = ReadInv
  OBVIOUS
<1>1. /\ UNCHANGED <<out, log, health, result, stopped, pos, dbIndex, expireMs, lru, lfu, valkey, got>>
      /\ Idle' = Idle /\ Finished' = Finished /\ Sent' = Sent
  BY DEF vars, readVars, Idle, Finished, Sent
<1>2. Received(got)' = Received(got)
  BY <1>1, ReceivedNext
<1>3. \A a : At(a)' = At(a) /\ Final(a)' = Final(a)
  BY <1>1, <1>2 DEF At, IsSequence, Final
<1>4. \A m, st, i : Stands(m, st, i)' = Stands(m, st, i)
  BY <1>1, <1>2, <1>3 DEF Stands
<1> QED BY <1>4 DEF ReadInv

LEMMA RInvNext ==
    ASSUME Readable
    PROVE  RInv /\ [RNext]_roundVars => RInv'
<1> SUFFICES ASSUME RInv, [RNext]_roundVars
             PROVE  RInv'
  OBVIOUS
<1>1. WriteInv /\ (~reading => At(Beginning)) /\ (reading /\ Kept => ReadInv)
  BY DEF RInv
<1>2. [Next]_vars
  BY DEF RNext, Encode, Open, Decode, roundVars
<1>3. WriteInv'
  BY <1>1, <1>2, WriteInvNext
<1>4. UNCHANGED vars => Kept' = Kept
  BY DEF Kept, Trusted, Cut, vars
<1>5. UNCHANGED readVars => At(Beginning)' = At(Beginning)
  <2> SUFFICES ASSUME UNCHANGED readVars
               PROVE  At(Beginning)' = At(Beginning)
    OBVIOUS
  <2>1. got' = got /\ UNCHANGED <<result, stopped, pos, dbIndex, expireMs, lru, lfu, valkey>>
    BY DEF readVars
  <2>2. Received(got)' = Received(got)
    BY <2>1, ReceivedNext
  <2> QED BY <2>1, <2>2 DEF At, IsSequence, Beginning, Point
<1>6. CASE Encode
  BY <1>1, <1>3, <1>5, <1>6 DEF RInv, Encode
<1>7. CASE Open
  <2>1. UNCHANGED vars /\ UNCHANGED readVars /\ ~reading
    BY <1>7 DEF Open
  <2>2. Kept' => Kept /\ WriteInv /\ At(Beginning)
    BY <1>1, <1>4, <2>1
  <2>3. Kept' => ReadInv'
    BY <2>1, <2>2, ReadBegins, ReadSame
  <2>4. reading'
    BY <1>7 DEF Open
  <2> QED BY <1>3, <2>3, <2>4 DEF RInv
<1>8. CASE Decode
  <2>1. UNCHANGED vars /\ Decoder!DecoderNext /\ reading /\ reading' = reading
    BY <1>8 DEF Decode
  <2>2. Kept' => ReadInv
    BY <1>1, <1>4, <2>1
  <2>3. Kept' => ReadInv'
    BY <1>1, <2>1, <2>2, ReadGoesOn DEF Readable
  <2> QED BY <1>3, <2>1, <2>3 DEF RInv
<1>9. CASE UNCHANGED roundVars
  <2>1. UNCHANGED vars /\ UNCHANGED readVars /\ reading' = reading
    BY <1>9 DEF roundVars
  <2>2. At(Beginning)' = At(Beginning) /\ ReadInv' = ReadInv
    BY <1>5, <2>1, ReadSame
  <2> QED BY <1>1, <1>3, <1>4, <2>1, <2>2 DEF RInv
<1> QED BY <1>6, <1>7, <1>8, <1>9 DEF RNext

(* Where the reader has returned. *)
LEMMA Returned ==
    ASSUME RInv, Kept, result # "none"
    PROVE  \E m, st, i :
             /\ Tells(out, log, m, st) /\ Final(st[m])
             /\ i \in 0..m /\ ~Past(out, st[i].pos)
             /\ Received(got) = st[i].ents
             /\ \/ i < m /\ Past(out, st[i + 1].pos)
                \/ i = m /\ (st[m].done => result = "nil")
<1>1. reading /\ ReadInv
  BY DEF RInv, At
<1>2. PICK m, st, i : Stands(m, st, i)
  BY <1>1 DEF ReadInv
<1> QED BY <1>2 DEF Stands

LEMMA ReadsBack ==
    ASSUME RInv, Trusted, Finished, result # "none"
    PROVE  result = "nil" /\ Delivered = log
<1>1. PICK m, st, i :
             /\ Tells(out, log, m, st) /\ Final(st[m])
             /\ i \in 0..m /\ ~Past(out, st[i].pos)
             /\ Received(got) = st[i].ents
             /\ \/ i < m /\ Past(out, st[i + 1].pos)
                \/ i = m /\ (st[m].done => result = "nil")
  BY Returned DEF Kept
<1>2. ~Past(out, st[m].pos) /\ st[m].ents = Sent /\ st[m].done
  BY <1>1 DEF Final, Trusted
<1>3. m \in Nat /\ \A j \in 0..m : ~Past(out, st[j].pos)
  BY <1>1, <1>2 DEF Tells
<1>4. i = m
  <2>1. CASE i < m
    <3>1. i + 1 \in 0..m
      BY <1>1, <1>3, <2>1
    <3> QED BY <1>1, <1>3, <2>1, <3>1
  <2> QED BY <1>1, <2>1
<1>5. Sent = log
  <2>1. log \in Seq(Ents)
    BY DEF RInv, WriteInv, LinkInv
  <2> QED BY <2>1, ConcatEmptySeq DEF Sent, Finished
<1> QED BY <1>1, <1>2, <1>4, <1>5 DEF Delivered

LEMMA PreIsPrefix ==
    ASSUME NEW s \in Seq(Ents), NEW t \in Seq(Ents), Pre(s, t)
    PROVE  Seqs!IsPrefix(s, t)
<1> DEFINE n == Len(s)
           a == SubSeq(s, 1, n)
           b == SubSeq(t, 1, n)
<1>1. n \in Nat /\ Len(t) \in Nat /\ n <= Len(t)
  BY DEF Pre
<1>2. a = [ i \in 1..n |-> s[i] ] /\ b = [ i \in 1..n |-> t[i] ]
  BY <1>1
<1>3. \A i \in 1..n : s[i] = t[i]
  BY DEF Pre
<1>4. a = b
  <2> HIDE DEF n, a, b
  <2> QED BY <1>2, <1>3
<1> QED BY <1>1, <1>4 DEF Seqs!IsPrefix

LEMMA Delivers ==
    ASSUME RInv, Kept, result # "none"
    PROVE  Seqs!IsPrefix(log, Delivered) /\ Seqs!IsPrefix(Delivered, Sent)
<1>1. PICK m, st, i :
             /\ Tells(out, log, m, st) /\ Final(st[m])
             /\ i \in 0..m /\ ~Past(out, st[i].pos)
             /\ Received(got) = st[i].ents
             /\ \/ i < m /\ Past(out, st[i + 1].pos)
                \/ i = m /\ (st[m].done => result = "nil")
  BY Returned
<1>2. m \in Nat /\ st[i].ents \in Seq(Ents)
  <2>1. m \in Nat /\ st[i] \in Points
    BY <1>1 DEF Tells
  <2> QED BY <2>1 DEF Points
<1>3. log \in Seq(Ents) /\ Sent \in Seq(Ents) /\ Pre(log, Sent)
  BY SentType DEF RInv, WriteInv, LinkInv
<1>4. Pre(log, st[i].ents)
  BY <1>1 DEF Tells
<1>5. Pre(st[i].ents, Sent)
  <2>1. CASE i < m
    <3>1. i \in 0..(m - 1)
      BY <1>1, <1>2, <2>1
    <3>2. Pre(st[i].ents, log)
      BY <1>1, <3>1 DEF Tells
    <3> QED BY <1>2, <1>3, <3>2, PreFacts
  <2>2. CASE i = m
    <3>1. st[i].ents = Sent
      BY <1>1, <2>2 DEF Final
    <3> QED BY <1>3, <3>1, PreFacts
  <2> QED BY <1>1, <2>1, <2>2
<1> QED BY <1>1, <1>2, <1>3, <1>4, <1>5, PreIsPrefix DEF Delivered

-----------------------------------------------------------------------------
(* A file all of whose writes succeeded gives back exactly the objects     *)
(* whose WriteXxx returned nil, and Parse returns nil.                     *)
THEOREM RoundTripHolds ==
    ASSUME Readable, MaxTTLOptions <= 1
    PROVE  RSpec => []RoundTrip
<1>1. RInv => RoundTrip
  <2> SUFFICES ASSUME RInv, Finished, faults = 0, result # "none"
               PROVE  result = "nil" /\ Delivered = log
    BY DEF RoundTrip
  <2>1. Trusted
    BY DEF RInv, WriteInv, LinkInv, Trusted
  <2> QED BY <2>1, ReadsBack
<1> QED BY <1>1, RInvInit, RInvNext, PTL DEF RSpec

(* Wherever the writing process ends, and whatever write fails first, what *)
(* was accepted before comes back, and at most the object being written    *)
(* comes on top.                                                           *)
THEOREM CrashSafeHolds ==
    ASSUME Readable, Cut
    PROVE  RSpec => []CrashSafe
<1>1. RInv => CrashSafe
  <2> SUFFICES ASSUME RInv, health # "spoiled", result # "none"
               PROVE  Seqs!IsPrefix(log, Delivered) /\ Seqs!IsPrefix(Delivered, Sent)
    BY DEF CrashSafe
  <2>1. health \in {"clean", "failed"}
    BY DEF RInv, WriteInv, TypeInv, TypeOK
  <2>2. Kept
    BY <2>1 DEF Kept, Trusted, Cut
  <2> QED BY <2>2, Delivers
<1> QED BY <1>1, RInvInit, RInvNext, PTL DEF RSpec

(* When every call that began returned nil, the file reads back whole. *)
THEOREM NilMeansReadableHolds ==
    ASSUME Readable, Cut
    PROVE  RSpec => []NilMeansReadable
<1>1. RInv => NilMeansReadable
  <2> SUFFICES ASSUME RInv, Finished, health = "clean", result # "none"
               PROVE  result = "nil" /\ Delivered = log
    BY DEF NilMeansReadable
  <2>1. Trusted
    BY DEF Trusted, Cut
  <2> QED BY <2>1, ReadsBack
<1> QED BY <1>1, RInvInit, RInvNext, PTL DEF RSpec

-----------------------------------------------------------------------------
(* The file as a queue. *)

LEMMA SentOf ==
    /\ Sent = log \o IF ~Idle /\ call[1] = "object" THEN << call[2] >> ELSE <<>>
    /\ Sent' = log' \o IF ~Idle' /\ call'[1] = "object" THEN << call'[2] >> ELSE <<>>
BY DEF Sent

LEMMA SendsOne ==
    ASSUME NEW s \in Seq(Ents), NEW e
    PROVE  LET t == s \o << e >> IN Len(t) = Len(s) + 1 /\ SubSeq(t, 1, Len(s)) = s
<1> DEFINE S == Ents \cup {e}
           t == s \o << e >>
<1>1. s \in Seq(S) /\ << e >> \in Seq(S) /\ Len(<< e >>) = 1
  OBVIOUS
<1>2. Len(s) \in Nat
  OBVIOUS
<1> HIDE DEF S
<1>3. Len(t) = Len(s) + 1 /\ (\A i \in 1..Len(s) : t[i] = s[i]) /\ t \in Seq(S)
  BY <1>1, ConcatProperties
<1> HIDE DEF t
<1> DEFINE u == SubSeq(t, 1, Len(s))
<1>4. u \in Seq(S) /\ Len(u) = Len(s) /\ \A i \in 1..Len(s) : u[i] = t[i]
  BY <1>2, <1>3, SubSeqProperties
<1> HIDE DEF u
<1>5. u = s
  BY <1>1, <1>3, <1>4, SeqEqual
<1> QED BY <1>3, <1>5 DEF t, u

(* A call puts its object in, once. *)
LEMMA CallerSends ==
    ASSUME TypeInv, LinkInv, Caller
    PROVE  Sent' = Sent \/ \E e : Sent' = Sent \o << e >>
<1>1. log \in Seq(Ents)
  BY DEF LinkInv
<1>2. CASE Refuse
  BY <1>2 DEF Refuse, Sent, Idle
<1>3. CASE ~Refuse
  <2>1. Idle /\ log' = log
    BY <1>3, Begun
  <2>2. Sent = log
    BY <1>1, <2>1, ConcatEmptySeq, SentOf
  <2>3. Sent' = log \/ Sent' = log \o << call'[2] >>
    BY <1>1, <2>1, ConcatEmptySeq, SentOf
  <2> QED BY <2>2, <2>3
<1> QED BY <1>2, <1>3

(* No step of a call takes it out again, when none of them can fail. *)
LEMMA StepSends ==
    ASSUME TypeInv, LinkInv, Step, LinkInv', health' = "clean"
    PROVE  Sent' = Sent
<1>1. ~Idle /\ call' = call /\ log \in Seq(Ents)
  BY StepCases DEF LinkInv
<1>2. Sent = log \o IF call[1] = "object" THEN << call[2] >> ELSE <<>>
  BY <1>1, SentOf
<1>3. CASE Continue /\ todo' # <<>>
  <2>1. log' = log /\ ~Idle'
    BY <1>3 DEF Continue, Idle
  <2> QED BY <1>1, <1>2, <2>1, SentOf
<1>4. CASE Return("nil") /\ todo' = <<>>
  <2>1. Idle' /\ log' = IF call[1] = "object" THEN Append(log, call[2]) ELSE log
    BY <1>4 DEF Return, Idle
  <2>2. log' \in Seq(Ents)
    BY DEF LinkInv
  <2>3. Sent' = log'
    BY <2>1, <2>2, SentOf, ConcatEmptySeq
  <2>4. CASE call[1] = "object"
    <3>1. Sent = log \o << call[2] >>
      BY <1>2, <2>4
    <3>2. log' = Append(log, call[2])
      BY <2>1, <2>4
    <3>3. Append(log, call[2]) = log \o << call[2] >>
      <4> DEFINE S == Ents \cup {call[2]}
      <4>1. log \in Seq(S) /\ call[2] \in S
        BY <1>1
      <4> HIDE DEF S
      <4> QED BY <4>1, AppendIsConcat
    <3> QED BY <2>3, <3>1, <3>2, <3>3
  <2>5. CASE call[1] # "object"
    BY <1>1, <1>2, <2>1, <2>3, <2>5, ConcatEmptySeq
  <2> QED BY <2>4, <2>5
<1>5. CASE Return("error")
  <2>1. FALSE
    BY <1>5, ReturnEffect
  <2> QED BY <2>1
<1> QED BY <1>3, <1>4, <1>5, StepCases

(* The reader takes the next one out. *)
LEMMA ReaderTakes ==
    ASSUME Readable, RInv, Kept, reading, Decoder!DecoderNext, UNCHANGED vars
    PROVE  \/ Delivered' = Delivered
           \/ /\ Len(Delivered) < Len(Sent)
              /\ Delivered' = Append(Delivered, Sent[Len(Delivered) + 1])
<1>1. WriteInv /\ ReadInv
  BY DEF RInv
<1>2. PICK m, st, i : Stands(m, st, i)
  BY <1>1 DEF ReadInv
<1>3. result = "none"
  BY DEF Decoder!DecoderNext, Decoder!checkHeader, Decoder!NoRecord, Decoder!Record, Decoder!AtRecord,
     Decoder!ReadEOF, Decoder!SelectDB, Decoder!ExpireTime, Decoder!Parsing,
     Decoder!ExpireTimeMs, Decoder!ResizeDB, Decoder!Aux, Decoder!Freq, Decoder!Idle,
     Decoder!ModuleAux, Decoder!Function, Decoder!SlotInfo, Decoder!SlotImport, Decoder!Object
<1>4. /\ Tells(out, log, m, st) /\ Final(st[m]) /\ i \in 0..m /\ ~Past(out, st[i].pos)
      /\ At(st[i])
  BY <1>2, <1>3 DEF Stands
<1>5. m \in Nat /\ st \in [0..m -> Points]
  BY <1>4 DEF Tells
<1>6. out \in Seq(Tokens) /\ out' = out
  BY <1>1 DEF WriteInv, TypeInv, TypeOK, vars
<1>7. Delivered = st[i].ents /\ Delivered' = Received(got)'
  BY <1>4 DEF At, Delivered
<1>8. CASE i = m
  <2>1. st[i] \in Points /\ st[i].pos = EndOf(out) + 1
    BY <1>4, <1>5, <1>8 DEF Final
  <2>2. Over(st[i])'
    BY <1>4, <1>6, <2>1, ReaderEnd
  <2> QED BY <1>7, <2>2 DEF Over
<1>9. CASE i < m
  <2> DEFINE j == i + 1
             a == st[i]
             b == st[j]
  <2>1. j \in 0..m /\ j \in 1..m /\ j - 1 = i /\ j # i
    BY <1>4, <1>5, <1>9
  <2> HIDE DEF j
  <2>2. a \in Points /\ b \in Points /\ Leads(out, a, b)
    BY <1>4, <1>5, <2>1 DEF Tells
  <2> HIDE DEF a, b
  <2>3. Moves(a, b)
    BY <1>4, <1>6, <2>2, ReaderStep DEF a, Readable
  <2>4. CASE Past(out, b.pos)
    BY <1>7, <2>3, <2>4 DEF Moves, Over, a
  <2>5. CASE ~Past(out, b.pos)
    <3>1. Delivered' = b.ents
      BY <1>7, <2>2, <2>3, <2>5 DEF Moves, Over, At, Points
    <3>2. b.ents = a.ents \/ \E e : b.ents = Append(a.ents, e)
      <4>1. \A p, d, x, es, h, z : b = Point(p, d, x, es, h, z) => b.ents = es
        BY DEF Point
      <4>2. \/ \E p, d, x, h, z : b = Point(p, d, x, a.ents, h, z)
            \/ \E p, d, x, h, z, e : b = Point(p, d, x, Append(a.ents, e), h, z)
        BY <2>2, Zenon DEF Leads
      <4> QED BY <4>1, <4>2
    <3>3. a.ents \in Seq(Ents) /\ b.ents \in Seq(Ents)
      BY <2>2 DEF Points
    <3>4. log \in Seq(Ents) /\ Sent \in Seq(Ents) /\ Pre(log, Sent)
      BY <1>1, SentType DEF WriteInv, LinkInv
    <3>5. Pre(b.ents, Sent)
      <4>1. CASE j < m
        <5>1. j \in 0..(m - 1)
          BY <1>5, <2>1, <4>1
        <5>2. Pre(b.ents, log)
          BY <1>4, <5>1 DEF Tells, b
        <5> QED BY <3>3, <3>4, <5>2, PreFacts
      <4>2. CASE j = m
        <5>1. b.ents = Sent
          BY <1>4, <2>5, <4>2 DEF Final, b
        <5> QED BY <3>4, <5>1, PreFacts
      <4> QED BY <1>5, <2>1, <4>1, <4>2
    <3>6. ASSUME NEW e, b.ents = Append(a.ents, e)
          PROVE  /\ Len(a.ents) < Len(Sent)
                 /\ b.ents = Append(a.ents, Sent[Len(a.ents) + 1])
      <4> DEFINE n == Len(a.ents)
                 S == Ents \cup {e}
      <4>1. a.ents \in Seq(S) /\ e \in S
        BY <3>3
      <4> HIDE DEF S
      <4>2. n \in Nat /\ Len(b.ents) = n + 1 /\ b.ents[n + 1] = e
        BY <3>6, <4>1, AppendProperties, LenProperties
      <4> HIDE DEF n
      <4>3. n + 1 <= Len(Sent) /\ Sent[n + 1] = e /\ Len(Sent) \in Nat
        BY <3>4, <3>5, <4>2 DEF Pre
      <4>4. n < Len(Sent)
        BY <4>2, <4>3
      <4> QED BY <3>6, <4>3, <4>4 DEF n
    <3> QED BY <1>7, <3>1, <3>2, <3>6 DEF a
  <2> QED BY <2>4, <2>5
<1> QED BY <1>4, <1>5, <1>8, <1>9

(* At every moment of writing and reading, the file is a queue: what is    *)
(* handed in comes out once, whole and in order.                           *)
THEOREM RoundTripIsObjectPipe ==
    ASSUME Readable, MaxFaults = 0, MaxTTLOptions <= 1
    PROVE  RSpec => IsObjectPipe
<1>1. RInit => Pipe!Init
  <2> SUFFICES ASSUME RInit
               PROVE  Pipe!Init
    OBVIOUS
  <2>1. log = <<>> /\ Idle /\ got = <<>>
    BY DEF RInit, Init, Decoder!DecoderInit, Idle
  <2>2. Sent = <<>>
    BY <2>1 DEF Sent
  <2>3. Delivered = <<>>
    BY <2>1, EntriesNone DEF Delivered
  <2> QED BY <2>2, <2>3 DEF Pipe!Init
<1>2. RInv /\ RInv' /\ [RNext]_roundVars => [Pipe!Next]_<<Sent, Delivered>>
  <2> SUFFICES ASSUME RInv, RInv', [RNext]_roundVars
               PROVE  [Pipe!Next]_<<Sent, Delivered>>
    OBVIOUS
  <2>1. TypeInv /\ LinkInv /\ LinkInv' /\ TypeInv'
    BY DEF RInv, WriteInv
  <2>2. health = "clean" /\ health' = "clean"
    <3>1. faults \in 0..MaxFaults /\ faults' \in 0..MaxFaults
      BY <2>1 DEF TypeInv, TypeOK
    <3>2. faults = 0 /\ faults' = 0
      BY <3>1
    <3> QED BY <2>1, <3>2 DEF LinkInv
  <2>3. Kept
    BY <2>2 DEF Kept, Trusted
  <2>4. Sent \in Seq(Ents)
    BY <2>1, SentType
  <2>5. UNCHANGED readVars => Delivered' = Delivered
    <3>1. UNCHANGED readVars => got' = got
      BY DEF readVars
    <3> QED BY <3>1, ReceivedNext DEF Delivered
  <2>6. UNCHANGED vars => Sent' = Sent
    BY DEF vars, Sent, Idle
  <2>7. CASE Encode
    <3>1. Delivered' = Delivered /\ (Caller \/ Step)
      BY <2>5, <2>7 DEF Encode, Next
    <3>2. Sent' = Sent \/ \E e : Sent' = Sent \o << e >>
      BY <2>1, <2>2, <3>1, CallerSends, StepSends
    <3>3. ASSUME NEW e, Sent' = Sent \o << e >>
          PROVE  Pipe!Send
      BY <2>4, <3>1, <3>3, SendsOne DEF Pipe!Send
    <3> QED BY <3>1, <3>2, <3>3 DEF Pipe!Next
  <2>8. CASE Decode
    <3>1. Decoder!DecoderNext /\ reading /\ UNCHANGED vars
      BY <2>8 DEF Decode
    <3>2. \/ Delivered' = Delivered
          \/ /\ Len(Delivered) < Len(Sent)
             /\ Delivered' = Append(Delivered, Sent[Len(Delivered) + 1])
      BY <2>3, <3>1, ReaderTakes
    <3> QED BY <2>6, <3>1, <3>2 DEF Pipe!Next, Pipe!Receive
  <2>9. CASE Open \/ UNCHANGED roundVars
    <3>1. UNCHANGED vars /\ UNCHANGED readVars
      BY <2>9 DEF Open, roundVars
    <3> QED BY <2>5, <2>6, <3>1
  <2> QED BY <2>7, <2>8, <2>9 DEF RNext
<1> QED BY <1>1, <1>2, RInvInit, RInvNext, PTL DEF RSpec, IsObjectPipe, Pipe!Spec
=============================================================================
