------------------------------ MODULE ListPack ------------------------------
(***************************************************************************)
(* Listpacks: the encoder of core/stream.go (encodeListPackInt,            *)
(* encodeListPackString, encodeBacklen, buildListpackWithBacklen) and the  *)
(* decoder of core/listpack.go.  An entry is <<"int", w>> or <<"str", s>>, *)
(* as listpackEntry has an intVal and a strVal.                            *)
(***************************************************************************)
EXTENDS Words

-----------------------------------------------------------------------------
(* The encoder. *)

encodeListPackInt(w) ==
    IF InRange(w, -127, 127) THEN LE(w, 1)
    ELSE IF InRange(w, -8191, 8191)
    THEN LET uval == IF Val(w) < 0 THEN Val(w) + 8192 ELSE Val(w)
         IN  Bytes(<<192 + uval \div 256, uval % 256>>)
    ELSE IF InRange(w, -32767, 32767)       THEN Bytes(<<241>>) \o LE(w, 2)
    ELSE IF InRange(w, -8388607, 8388607)   THEN Bytes(<<242>>) \o LE(w, 3)
    ELSE IF InRange(w, -MaxInt32, MaxInt32) THEN Bytes(<<243>>) \o LE(w, 4)
    ELSE Bytes(<<244>>) \o LE(w, 8)

encodeListPackString(s) ==
    LET n == StrLen(s) IN
    ( IF n <= 63 THEN Bytes(<<128 + n>>)
      ELSE IF n < 4096 THEN Bytes(<<224 + n \div 256, n % 256>>)
      ELSE Bytes(<<240>>) \o LE(Word(n), 4) ) \o Content(s)

(* The bytes of a back length, which depend on the length it counts. *)
getBackLen(n) == CASE n <= 127                        -> 1
                   [] n > 127 /\ n < 16383            -> 2
                   [] n >= 16383 /\ n < 2097151       -> 3
                   [] n >= 2097151 /\ n < 268435455   -> 4
                   [] OTHER                           -> 5

encodeBacklen(n) ==
    LET k    == getBackLen(n)
        mark == <<0, 128, 192, 224, 240>>
        head(i) == IF k = 5 /\ i = 1 THEN 0 ELSE (n \div 256^(k - i)) % 256
    IN  Bytes([ i \in 1..k |-> head(i) + (IF i = 1 THEN mark[k] ELSE 0) ])

(* An entry without a string value is taken for an integer. *)
encodeEntry(e) ==
    IF e[1] = "str" /\ e[2] # Empty THEN encodeListPackString(e[2])
    ELSE encodeListPackInt(IF e[1] = "int" THEN e[2] ELSE Zero)

buildListpackWithBacklen(entries) ==
    LET upTo[i \in 0..Len(entries)] ==
          IF i = 0 THEN <<>>
          ELSE With(encodeEntry(entries[i]),
                    LAMBDA e : upTo[i-1] \o e \o encodeBacklen(Size(e)))
    IN  With(upTo[Len(entries)],
             LAMBDA b : LE(Word(Size(b) + 6), 4) \o LE(Word(Len(entries)), 2) \o b)

-----------------------------------------------------------------------------
(* The decoder. *)

readListPackEntry(buf, p) ==
    Then(readByte(buf, p), LAMBDA h :
      LET b == h.val
          (* The content has been read: step over the back length. *)
          Sized(r, sort, n) == Then(r, LAMBDA v :
                                 As(Skip(buf, v.pos, getBackLen(n)), LAMBDA x : <<sort, v.val>>))
          Str(r, head) == Then(r, LAMBDA v : Sized(Done(v.pos, v.val[1]), "str", head + v.val[2]))
          Text(q, n)   == As(readText(buf, q, n), LAMBDA s : <<s, n>>)
          Number(k)    == Sized(readInt(buf, h.pos, k), "int", k + 1)
      IN  IF b < 128 THEN Sized(Done(h.pos, Word(b)), "int", 1)
          ELSE IF b < 192 THEN Str(Text(h.pos, b % 64), 1)
          ELSE IF b < 224
          THEN Then(readByte(buf, h.pos), LAMBDA l :
                 LET v == (b % 32) * 256 + l.val
                 IN  Sized(Done(l.pos, Word(IF v >= 4096 THEN v - 8192 ELSE v)), "int", 2))
          ELSE IF b < 240
          THEN Then(readByte(buf, h.pos), LAMBDA l :
                 Str(Text(l.pos, (b % 16) * 256 + l.val), 2))
          ELSE CASE b = 240 -> Then(readLE(buf, h.pos, 4), LAMBDA n :
                                 IF FitsInt(n.val, 4) THEN Str(Text(n.pos, Val(n.val)), 5)
                                 ELSE Fail(n.pos, "error"))
                 [] b = 241 -> Number(2)
                 [] b = 242 -> Number(3)
                 [] b = 243 -> Number(4)
                 [] b = 244 -> Number(8)
                 [] OTHER   -> Fail(h.pos, "error"))

readListPackEntryAsString(buf, p) ==
    As(readListPackEntry(buf, p), LAMBDA e : IF e[1] = "str" THEN e[2] ELSE <<"int", e[2]>>)

readListPackEntryAsInt(buf, p) ==
    Then(readListPackEntry(buf, p),
         LAMBDA e : IF e.val[1] = "int" THEN Done(e.pos, e.val[2]) ELSE Fail(e.pos, "error"))

(* The header: four bytes that are skipped, then the number of entries. *)
readListPackLength(buf, p) == Then(readBytes(buf, p, 4), LAMBDA t : readLE(buf, t.pos, 2))

readListPack(buf) ==
    Then(readListPackLength(buf, 1), LAMBDA n :
      readMany(buf, n.pos, n.val, LAMBDA q : readListPackEntryAsString(buf, q)))
=============================================================================
