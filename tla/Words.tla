------------------------------- MODULE Words -------------------------------
(***************************************************************************)
(* 64-bit integers and byte buffers, for the codecs of core/ that pack     *)
(* integers and strings into bytes.                                        *)
(*                                                                         *)
(* A word is the tuple of its eight bytes, the lowest first (TLC's own     *)
(* integers have 32 bits).  A buffer is a sequence of elements: a byte     *)
(* <<b>>, or the content of a redis string <<s, n>>, which stands for the  *)
(* n bytes of s and is never looked into.                                  *)
(***************************************************************************)
EXTENDS Integers, Sequences, FiniteSets, Reads
LOCAL INSTANCE SequencesExt

CONSTANT TextLen    \* the length in bytes of each text

Empty == <<"text", "">>
MaxInt32 == 2147483647

ASSUME TextAssumption ==
    /\ TextLen \in [DOMAIN TextLen -> Nat]
    /\ \A t \in DOMAIN TextLen : TextLen[t] = 0 <=> t = ""
    /\ \A t \in DOMAIN TextLen : TextLen[t] <= MaxInt32

-----------------------------------------------------------------------------
(* Words. *)

(* Of an integer of 32 bits. *)
Word(n) == LET sign == IF n < 0 THEN 255 ELSE 0
           IN  << n % 256, (n \div 256) % 256, (n \div 65536) % 256, (n \div 16777216) % 256,
                  sign, sign, sign, sign >>
Zero == Word(0)

AllWords == [1..8 -> 0..255]

Negative(w) == w[8] >= 128

(* int8, int16, int24 or int32 widened to int64, and uint16, uint32. *)
SignExtend(bs) == [ i \in 1..8 |-> IF i <= Len(bs) THEN bs[i]
                                   ELSE IF bs[Len(bs)] >= 128 THEN 255 ELSE 0 ]
ZeroExtend(bs) == [ i \in 1..8 |-> IF i <= Len(bs) THEN bs[i] ELSE 0 ]

Low(w, k) == SubSeq(w, 1, k)

(* w is what its low k bytes are widened to. *)
FitsInt(w, k)  == w = SignExtend(Low(w, k))
FitsUint(w, k) == w = ZeroExtend(Low(w, k))

(* The number, of a word that fits an int32. *)
Val(w) == w[1] + 256 * w[2] + 65536 * w[3]
            + 16777216 * (IF w[4] >= 128 THEN w[4] - 256 ELSE w[4])

InRange(w, lo, hi) == FitsInt(w, 4) /\ Val(w) >= lo /\ Val(w) <= hi

(* Addition in 64 bits. *)
Add(a, b) ==
    LET carry[i \in 1..9] == IF i = 1 THEN 0
                             ELSE (a[i-1] + b[i-1] + carry[i-1]) \div 256
    IN  [ i \in 1..8 |-> (a[i] + b[i] + carry[i]) % 256 ]
Sub(a, b) == Add(Add(a, [ i \in 1..8 |-> 255 - b[i] ]), Word(1))

(* a <= b, of signed words. *)
LessEq(a, b) ==
    LET Biased(w) == [ w EXCEPT ![8] = (@ + 128) % 256 ]
        x == Biased(a)
        y == Biased(b)
    IN  x = y \/ \E i \in 1..8 : /\ x[i] < y[i]
                                 /\ \A j \in (i+1)..8 : x[j] = y[j]

(* The number of its digits, of an unsigned word. *)
DivTen(w) ==
    LET rest[i \in 1..9] == IF i = 9 THEN 0 ELSE (256 * rest[i+1] + w[i]) % 10
    IN  [ i \in 1..8 |-> (256 * rest[i+1] + w[i]) \div 10 ]
Digits(w) ==
    LET shorter[n \in 0..19] ==        \* w without its last n digits, and that count
          IF n = 0 THEN <<w, 0>>
          ELSE With(shorter[n-1], LAMBDA s :
                 IF FitsUint(s[1], 1) /\ s[1][1] < 10 THEN s ELSE <<DivTen(s[1]), n>>)
    IN  shorter[19][2] + 1

-----------------------------------------------------------------------------
(* Strings: a text, or the decimal form of an integer, <<"int", w>>. *)

AllStrings == ({"text"} \X DOMAIN TextLen) \cup ({"int"} \X AllWords)

StrLen(s) == IF s[1] = "text" THEN TextLen[s[2]]
             ELSE IF Negative(s[2]) THEN 1 + Digits(Sub(Zero, s[2]))
             ELSE Digits(s[2])

-----------------------------------------------------------------------------
(* Buffers. *)

Bytes(ns) == [ i \in DOMAIN ns |-> <<ns[i]>> ]
LE(w, k)  == Bytes(Low(w, k))
BE(w, k)  == Bytes(Reverse(Low(w, k)))

IsByte(x) == Len(x) = 1
SizeOf(x) == IF IsByte(x) THEN 1 ELSE x[2]
Size(buf) ==
    LET upTo[i \in 0..Len(buf)] == IF i = 0 THEN 0 ELSE upTo[i-1] + SizeOf(buf[i])
    IN  upTo[Len(buf)]

(* The bytes of a redis string, and the redis string some bytes are. *)
Content(s) == IF s = Empty THEN <<>> ELSE << <<s, StrLen(s)>> >>
StringOf(buf) == IF buf = <<>> THEN Empty ELSE buf[1][1]
IsString(buf) == buf = <<>> \/ (Len(buf) = 1 /\ ~IsByte(buf[1]))

(* readByte, and readBytes of n bytes (core/utils.go). *)
readByte(buf, p) ==
    IF p > Len(buf) THEN Fail(p, "error")
    ELSE IF IsByte(buf[p]) THEN Done(p + 1, buf[p][1])
    ELSE Fail(p, "misread")

(* The position behind the n bytes at p, element by element: a read at     *)
(* left[i] has passed i elements and its value is what is left of n.       *)
PassBytes(buf, p, n) ==
    LET last == IF n < Len(buf) + 1 - p THEN n ELSE Len(buf) + 1 - p
        left[i \in 0..last] ==
          IF i = 0 THEN Done(p, n)
          ELSE Then(left[i-1], LAMBDA r :
                 IF r.val = 0 THEN r
                 ELSE IF SizeOf(buf[r.pos]) > r.val THEN Fail(r.pos, "misread")
                 ELSE Done(r.pos + 1, r.val - SizeOf(buf[r.pos])))
    IN  IF p > Len(buf) + 1 THEN Fail(p, "error")
        ELSE IF n < 0 THEN Fail(p, "misread")
        ELSE Then(left[last], LAMBDA r :
               IF r.val = 0 THEN Done(r.pos, <<>>) ELSE Fail(r.pos, "error"))

readBytes(buf, p, n) ==
    Then(PassBytes(buf, p, n), LAMBDA e : Done(e.pos, SubSeq(buf, p, e.pos - 1)))

(* n bytes that are a number: their values, the first first. *)
readRaw(buf, p, n) ==
    Then(readBytes(buf, p, n),
         LAMBDA r : IF \A i \in DOMAIN r.val : IsByte(r.val[i])
                    THEN Done(r.pos, [ i \in DOMAIN r.val |-> r.val[i][1] ])
                    ELSE Fail(r.pos, "misread"))

readLE(buf, p, n) == As(readRaw(buf, p, n), ZeroExtend)
readBE(buf, p, n) == As(readRaw(buf, p, n), LAMBDA bs : ZeroExtend(Reverse(bs)))
readInt(buf, p, n) == As(readRaw(buf, p, n), SignExtend)

(* The n bytes of a string. *)
readText(buf, p, n) ==
    Then(readBytes(buf, p, n),
         LAMBDA r : IF IsString(r.val) THEN Done(r.pos, StringOf(r.val))
                    ELSE Fail(r.pos, "misread"))

(* cursor += n: it may end behind the buffer, where the next read fails. *)
Skip(buf, p, n) ==
    With(PassBytes(buf, p, n), LAMBDA e :
         IF e.st = "error" THEN Done(Len(buf) + 2, <<>>) ELSE e)

(* w elements, each at least a byte long. *)
readMany(buf, p, w, Read(_)) ==
    IF Negative(w) \/ ~InRange(w, 0, Len(buf) + 1) THEN Fail(p, "error")
    ELSE readN(p, Val(w), Read)
=============================================================================
