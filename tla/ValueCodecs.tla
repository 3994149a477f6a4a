---------------------------- MODULE ValueCodecs ----------------------------
(***************************************************************************)
(* The bytes of lengths and strings (core/string.go), of ziplists          *)
(* (core/ziplist.go, core/list.go), intsets (core/set.go) and zipmaps      *)
(* (core/hash.go).  The compressed form of strings is in module Lzf, the   *)
(* order of the records of a file in RdbFile.                              *)
(*                                                                         *)
(* A redis string here is <<"text", name>> or <<"int", w>>, the decimal    *)
(* form of the integer w, without leading zeros.                           *)
(***************************************************************************)
EXTENDS ListPack
LOCAL INSTANCE SequencesExt

CONSTANTS
    CountMod,           \* what the entry count of a ziplist is taken modulo (65536)
    ZipMapCounts        \* the last first byte of a zipmap that is a count (254)

ASSUME CountAssumption == CountMod \in 2..65536 /\ ZipMapCounts \in 1..254

-----------------------------------------------------------------------------
(* Lengths: uint64, the high bytes first. *)

writeLength(w) ==
    IF FitsUint(w, 4) /\ InRange(w, 0, 63) THEN LE(w, 1)
    ELSE IF InRange(w, 0, 16383) THEN Bytes(<<64 + w[2], w[1]>>)
    ELSE IF FitsUint(w, 4) THEN Bytes(<<128>>) \o BE(w, 4)
    ELSE Bytes(<<129>>) \o BE(w, 8)

(* A length, or one of the special string encodings. *)
readLengthOrSpecial(buf, p) ==
    Then(readByte(buf, p), LAMBDA h :
      LET b == h.val
          Plain(r) == As(r, LAMBDA w : <<w, FALSE>>)
      IN  CASE b < 64              -> Done(h.pos, <<Word(b), FALSE>>)
            [] b >= 64 /\ b < 128  -> As(readByte(buf, h.pos),
                                         LAMBDA l : <<Word((b - 64) * 256 + l), FALSE>>)
            [] b = 128             -> Plain(readBE(buf, h.pos, 4))
            [] b = 129             -> Plain(readBE(buf, h.pos, 8))
            [] b > 129 /\ b < 192  -> Fail(h.pos, "error")
            [] OTHER               -> Done(h.pos, <<Word(b - 192), TRUE>>))

(* The callers that read a number do not look at the special flag. *)
readLength(buf, p) == As(readLengthOrSpecial(buf, p), LAMBDA l : l[1])

-----------------------------------------------------------------------------
(* Strings. *)

isEncodableUint64(s) == s[1] = "int" /\ ~Negative(s[2])
isEncodableUint32(s) == isEncodableUint64(s) /\ FitsInt(s[2], 4)

(* A wrong variant: the bounds of an unsigned byte. *)
tryWriteIntString_unsigned(s) ==
    LET w == s[2] IN
    IF FitsUint(w, 1) THEN Bytes(<<192>>) \o LE(w, 1)
    ELSE IF FitsInt(w, 2) THEN Bytes(<<193>>) \o LE(w, 2)
    ELSE Bytes(<<194>>) \o LE(w, 4)

tryWriteIntString(s) ==
    LET w == s[2] IN
    IF FitsInt(w, 1) THEN Bytes(<<192>>) \o LE(w, 1)
    ELSE IF FitsInt(w, 2) THEN Bytes(<<193>>) \o LE(w, 2)
    ELSE Bytes(<<194>>) \o LE(w, 4)

writeImage(b) == writeLength(Word(Size(b))) \o b        \* writeNanString
writeString(s) == IF isEncodableUint32(s) THEN tryWriteIntString(s)
                  ELSE writeImage(Content(s))

(* readString, as the content of the string it returns. *)
readImage(buf, p) ==
    Then(readLengthOrSpecial(buf, p), LAMBDA l :
      LET w == l.val[1]
          Number(k) == As(readInt(buf, l.pos, k), LAMBDA v : Content(<<"int", v>>))
      IN  IF l.val[2]
          THEN CASE w = Word(0) -> Number(1)
                 [] w = Word(1) -> Number(2)
                 [] w = Word(2) -> Number(4)
                 [] OTHER       -> Fail(l.pos, "error")
          ELSE IF ~InRange(w, 0, MaxInt32) THEN Fail(l.pos, "error")
          ELSE readBytes(buf, l.pos, Val(w)))

readString(buf, p) ==
    Then(readImage(buf, p), LAMBDA b : IF IsString(b.val) THEN Done(b.pos, StringOf(b.val))
                                       ELSE Fail(b.pos, "misread"))

-----------------------------------------------------------------------------
(* Ziplists. *)

(* A wrong variant: a length of 16383 is given the 32-bit form. *)
zipString_edge(s) ==
    LET n == StrLen(s) IN
    ( IF n <= 63 THEN Bytes(<<n>>)
      ELSE IF n < 16383 THEN Bytes(<<64 + n \div 256, n % 256>>)
      ELSE Bytes(<<128>>) \o LE(Word(n), 8) ) \o Content(s)

zipInteger(w) ==
    IF InRange(w, 0, 12) THEN Bytes(<<240 + w[1] + 1>>)
    ELSE IF FitsInt(w, 1) THEN Bytes(<<254>>) \o LE(w, 1)
    ELSE IF FitsInt(w, 3) THEN Bytes(<<240>>) \o LE(w, 3)
    ELSE IF FitsInt(w, 4) THEN Bytes(<<208>>) \o LE(w, 4)
    ELSE Bytes(<<224>>) \o LE(w, 8)

zipString(s) ==
    LET n == StrLen(s) IN
    ( IF n <= 63 THEN Bytes(<<n>>)
      ELSE IF n <= 16383 THEN Bytes(<<64 + n \div 256, n % 256>>)
      ELSE Bytes(<<128>>) \o LE(Word(n), 8) ) \o Content(s)

encodeZipListEntry(prevLen, s) ==
    (IF prevLen < 254 THEN Bytes(<<prevLen>>) ELSE Bytes(<<254>>) \o LE(Word(prevLen), 4))
      \o (IF isEncodableUint64(s) THEN zipInteger(s[2]) ELSE zipString(s))

ZipListImage(values) ==
    LET upTo[i \in 0..Len(values)] ==       \* the entries, and the length of the last
          IF i = 0 THEN << <<>>, 0, 0 >>
          ELSE With(upTo[i-1], LAMBDA u :
                 With(encodeZipListEntry(u[2], values[i]),
                      LAMBDA e : << u[1] \o e, Size(e), Size(u[1]) >>))
    IN  With(upTo[Len(values)], LAMBDA u :
          LE(Word(Size(u[1]) + 11), 4) \o LE(Word(10 + u[3]), 4)
            \o LE(Word(Len(values) % CountMod), 2) \o u[1] \o Bytes(<<255>>))

readZipListEntry(buf, p) ==
    LET Header(q) == readByte(buf, q)
        Value(h) ==
          LET b == h.val
              Number(k) == As(readInt(buf, h.pos, k), LAMBDA w : <<"int", w>>)
          IN  IF b < 64 THEN readText(buf, h.pos, b)
              ELSE IF b < 128
              THEN Then(readByte(buf, h.pos), LAMBDA l :
                     readText(buf, l.pos, (b - 64) * 256 + l.val))
              ELSE IF b < 192
              THEN Then(readBE(buf, h.pos, 4), LAMBDA n :
                     IF FitsInt(n.val, 4) THEN readText(buf, n.pos, Val(n.val))
                     ELSE Fail(n.pos, "error"))
              ELSE CASE b = 254 -> Number(1)
                     [] b = 192 -> Number(2)
                     [] b = 208 -> Number(4)
                     [] b = 224 -> Number(8)
                     [] b = 240 -> Number(3)
                     [] b > 240 /\ b # 254 -> Done(h.pos, <<"int", Word(b - 241)>>)
                     [] OTHER -> Fail(h.pos, "error")
    IN  Then(readByte(buf, p), LAMBDA l :
          IF l.val # 254 THEN Then(Header(l.pos), Value)
          ELSE Then(Skip(buf, l.pos, 4), LAMBDA s : Then(Header(s.pos), Value)))

(* The header: eight bytes that are skipped, then the number of entries. *)
readZipList(buf) ==
    Then(readBytes(buf, 1, 8), LAMBDA t : Then(readLE(buf, t.pos, 2), LAMBDA n :
      readMany(buf, n.pos, n.val, LAMBDA q : readZipListEntry(buf, q))))

-----------------------------------------------------------------------------
(* Intsets. *)

IntSize(ws) == IF \A i \in DOMAIN ws : FitsInt(ws[i], 2) THEN 2
               ELSE IF \A i \in DOMAIN ws : FitsInt(ws[i], 4) THEN 4 ELSE 8

IntSetImage(ws) ==
    LET k == IntSize(ws)
        sorted == SortSeq(ws, LAMBDA a, b : a # b /\ LessEq(a, b))
    IN  LE(Word(k), 4) \o LE(Word(Len(ws)), 4)
          \o FlattenSeq([ i \in DOMAIN sorted |-> LE(sorted[i], k) ])

readIntSet(buf) ==
    Then(readLE(buf, 1, 4), LAMBDA k :
      IF k.val \notin {Word(2), Word(4), Word(8)} THEN Fail(k.pos, "error")
      ELSE Then(readLE(buf, k.pos, 4), LAMBDA n :
             readMany(buf, n.pos, n.val, LAMBDA q :
               As(readInt(buf, q, Val(k.val)), LAMBDA w : <<"int", w>>))))

-----------------------------------------------------------------------------
(* Zipmaps, which are only read.  The entry of a field has no free byte. *)

(* A length, the free bytes behind the value; a length of -1 is the end. *)
readZipMapEntryLen(buf, p, readFree) ==
    Then(readByte(buf, p), LAMBDA b :
      CASE b.val = 253 -> Then(readRaw(buf, b.pos, 5), LAMBDA x :
                            Done(x.pos, <<Val(ZeroExtend(Reverse(Low(x.val, 4)))), x.val[5]>>))
        [] b.val = 254 -> Fail(b.pos, "error")
        [] b.val = 255 -> Done(b.pos, <<-1, 0>>)
        [] OTHER       -> IF readFree THEN As(readByte(buf, b.pos), LAMBDA f : <<b.val, f>>)
                          ELSE Done(b.pos, <<b.val, 0>>))

readZipMapEntry(buf, p, readFree) ==
    Then(readZipMapEntryLen(buf, p, readFree), LAMBDA l :
      IF l.val[1] = -1 THEN Done(l.pos, Empty)
      ELSE Then(readText(buf, l.pos, l.val[1]), LAMBDA s :
             As(Skip(buf, s.pos, l.val[2]), LAMBDA x : s.val)))

(* A wrong variant: the free byte is expected behind fields. *)
countZipMapEntries_swapped(buf, p) ==
    LET from[q \in p..(Len(buf) + 2), n \in 0..Len(buf)] ==
          Then(readZipMapEntryLen(buf, q, n % 2 = 0), LAMBDA l :
            IF l.val[1] = -1 THEN Done(l.pos, n)
            ELSE Then(Skip(buf, l.pos, l.val[1] + l.val[2]), LAMBDA x : from[x.pos, n + 1]))
    IN  from[p, 0]

countZipMapEntries(buf, p) ==
    LET from[q \in p..(Len(buf) + 2), n \in 0..Len(buf)] ==
          Then(readZipMapEntryLen(buf, q, n % 2 # 0), LAMBDA l :
            IF l.val[1] = -1 THEN Done(l.pos, n)
            ELSE Then(Skip(buf, l.pos, l.val[1] + l.val[2]), LAMBDA x : from[x.pos, n + 1]))
    IN  from[p, 0]

readZipMapHash(buf) ==
    LET Pairs(p, n) == readN(p, n, LAMBDA q :
                         readPair(q, LAMBDA r : readZipMapEntry(buf, r, FALSE),
                                     LAMBDA r : readZipMapEntry(buf, r, TRUE)))
    IN  Then(readByte(buf, 1), LAMBDA b :
          IF b.val <= ZipMapCounts THEN Pairs(b.pos, b.val)
          ELSE Then(countZipMapEntries(buf, b.pos), LAMBDA n : Pairs(b.pos, n.val \div 2)))
=============================================================================
