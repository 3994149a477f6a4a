------------------------------- MODULE Codecs -------------------------------
(***************************************************************************)
(* One value at a time goes through an encoder, possibly through a file    *)
(* that is cut short, and through the decoder.  Lengths, strings, ziplists *)
(* intsets and streams are written by core/; listpacks and zipmaps by      *)
(* Redis, as the reader knows them; strings are compressed by module Lzf.  *)
(***************************************************************************)
EXTENDS Streams, Lzf
LOCAL INSTANCE SequencesExt

CONSTANTS
    Jobs,       \* <<kind, value>>
    Names       \* orders in which the fields of a message are walked

\* Lengths are any uint64.  The compressor is not handed a single byte.
ASSUME JobsAssumption ==
    \A j \in Jobs : /\ j[1] = "length" => j[2] \in AllWords
                    /\ j[1] = "string" => j[2] \in AllStrings
                    /\ j[1] = "lzf" => j[2] \in Seq(0..(byteMod - 1)) /\ Len(j[2]) # 1

VARIABLES
    job, buf,
    cut,        \* the file ends before the buffer does
    out,        \* what the decoder returned
    pc          \* "encode", "decode", "done"

codecVars == <<job, buf, cut, out, pc>>

-----------------------------------------------------------------------------
(* What Redis writes (lpEncodeInteger and lpEncodeString; zipmap.c).  It   *)
(* writes any string that is an integer as one.                            *)

lpEncodeInteger(w) ==
    IF InRange(w, 0, 127) THEN LE(w, 1)
    ELSE IF InRange(w, -4096, 4095)
    THEN LET u == (Val(w) + 8192) % 8192 IN Bytes(<<192 + u \div 256, u % 256>>)
    ELSE LET k == CHOOSE k \in {2, 3, 4, 8} :
                    FitsInt(w, k) /\ \A j \in {2, 3, 4} : FitsInt(w, j) => k <= j
         IN  Bytes(<<CASE k = 2 -> 241 [] k = 3 -> 242 [] k = 4 -> 243 [] OTHER -> 244>>)
               \o LE(w, k)

RedisListPack(values) ==
    LET Entry(s) == With(IF s[1] = "int" THEN lpEncodeInteger(s[2]) ELSE encodeListPackString(s),
                         LAMBDA e : e \o encodeBacklen(Size(e)))
        body == FlattenSeq([ i \in DOMAIN values |-> Entry(values[i]) ]) \o Bytes(<<255>>)
    IN  LE(Word(Size(body) + 6), 4) \o LE(Word(Len(values)), 2) \o body

(* pairs of a field and a value with free bytes behind it.  A length has   *)
(* one byte up to 253 and five from 254 on, a 254 and the number, its low  *)
(* byte first.  The first byte counts the pairs (head is "count"), and     *)
(* stays at 254 once there have been that many ("many"); a file of cases/  *)
(* has 255 ("unknown").                                                    *)
ZipMapBigLen == 254
RedisZipMap(m) ==
    LET Length(s) == IF StrLen(s) < ZipMapBigLen THEN Bytes(<<StrLen(s)>>)
                     ELSE Bytes(<<ZipMapBigLen>>) \o LE(Word(StrLen(s)), 4)
        Pair(p) == Length(p[1]) \o Content(p[1])
                     \o Length(p[2]) \o Bytes(<<m.free>>) \o Content(p[2])
                     \o Bytes([ i \in 1..m.free |-> 0 ])
    IN  Bytes(<<CASE m.head = "count"   -> Len(m.pairs)
                 [] m.head = "many"    -> ZipMapCounts
                 [] m.head = "unknown" -> 255>>)
          \o FlattenSeq([ i \in DOMAIN m.pairs |-> Pair(m.pairs[i]) ]) \o Bytes(<<255>>)

-----------------------------------------------------------------------------
Kind  == job[1]
Value == job[2]

Encodings ==
    CASE Kind = "length"   -> {writeLength(Value)}
      [] Kind = "string"   -> {writeString(Value)}
      [] Kind = "ziplist"  -> {ZipListImage(Value)}
      [] Kind = "intset"   -> {IntSetImage(Value)}
      [] Kind = "listpack" -> {RedisListPack(Value)}
      [] Kind = "zipmap"   -> {RedisZipMap(Value)}
      [] Kind = "stream"   -> {WriteStreamObject(Value, names) : names \in Names}

Decoded ==
    CASE Kind = "length"   -> readLength(buf, 1)
      [] Kind = "string"   -> readString(buf, 1)
      [] Kind = "ziplist"  -> readZipList(buf)
      [] Kind = "intset"   -> readIntSet(buf)
      [] Kind = "listpack" -> readListPack(buf)
      [] Kind = "zipmap"   -> readZipMapHash(buf)
      [] Kind = "stream"   -> readStream(buf)

(* The kinds that are read from the file itself and not from a string.     *)
FromFile == {"length", "string", "stream"}

Init ==
    /\ job \in Jobs
    /\ buf = <<>>
    /\ cut = FALSE
    /\ out = <<>>
    /\ pc = IF Kind = "lzf" THEN "compress" ELSE "encode"
    /\ LzfInit(IF Kind = "lzf" THEN Value ELSE <<>>)

Encode ==
    /\ pc = "encode"
    /\ buf' \in Encodings
    /\ pc' = "decode"
    /\ UNCHANGED <<job, cut, out>>

Cut ==
    /\ pc = "decode" /\ ~cut /\ Kind \in FromFile
    /\ \E n \in 0..(Len(buf) - 1) : buf' = SubSeq(buf, 1, n)
    /\ cut' = TRUE
    /\ UNCHANGED <<job, out, pc>>

Decode ==
    /\ pc = "decode"
    /\ out' = Decoded
    /\ pc' = "done"
    /\ UNCHANGED <<job, buf, cut>>

Next == \/ (Encode \/ Cut \/ Decode) /\ UNCHANGED lzfVars
        \/ LzfNext /\ UNCHANGED codecVars

Spec == Init /\ [][Next]_<<codecVars, lzfVars>>

-----------------------------------------------------------------------------
(* What a value is read back as. *)

Read(kinds) == pc = "done" /\ ~cut /\ Kind \in kinds
Returned(v) == out.st = "ok" /\ out.val = v
Consumed    == out.pos = Len(buf) + 1
Texts(ws)   == {<<"int", ws[i]>> : i \in DOMAIN ws}

(* Strings of 16384 bytes and more get eight bytes of length in a ziplist, *)
(* of which the reader takes four, in the other order; 65536 entries count *)
(* as none.                                                                *)
ZipListStorable(values) ==
    /\ Len(values) < CountMod
    /\ \A i \in DOMAIN values : isEncodableUint64(values[i]) \/ StrLen(values[i]) <= 16383

(* The reader takes a length of 253 for the mark of a long one, and 254    *)
(* for an error, and a first byte of 254 for the number of pairs.          *)
ZipMapReadable(m) ==
    /\ \A i \in DOMAIN m.pairs : \A k \in 1..2 : StrLen(m.pairs[i][k]) <= 252
    /\ m.head = "many" => Len(m.pairs) = ZipMapCounts

(* The integers encodeListPackInt gives an encoding that reads back as the *)
(* same: the seven-bit form is unsigned, the thirteen-bit form ends at     *)
(* 4095 and begins at -4096.                                               *)
IntStorable(w) == ~(\/ InRange(w, -127, -1)
                    \/ InRange(w, -8191, -4097)
                    \/ InRange(w, 4096, 8191))

IdsStorable(s) ==
    \A i \in DOMAIN s.Entries : \A j \in DOMAIN s.Entries[i].Msgs :
      LET e == s.Entries[i] IN
      \A k \in 1..2 : IntStorable(Sub(e.Msgs[j].Id[k], e.FirstMsgId[k]))

(* An empty string is written as the integer 0; where the master entry     *)
(* lists a field twice, a message may be taken to have the same fields     *)
(* although it has one more; versions from 4 on are written with the flag  *)
(* of version 1.                                                           *)
ShapeStorable(s) ==
    /\ s.Version <= 3
    /\ \A i \in DOMAIN s.Entries :
         LET e == s.Entries[i] IN
         /\ Empty \notin ToSet(e.Fields)
         /\ \A j \in DOMAIN e.Msgs :
              LET fields == e.Msgs[j].Fields IN
              /\ \A f \in DOMAIN fields : f # Empty /\ fields[f] # Empty
              /\ Cardinality(DOMAIN fields) = Len(e.Fields)
                   => ~(ToSet(e.Fields) \subseteq DOMAIN fields /\ ToSet(e.Fields) # DOMAIN fields)

(* A stream as its version can hold it. *)
AsStored(s) ==
    LET v2 == s.Version >= 2
        OrZero(id) == IF ~v2 THEN NilId ELSE IF id = NilId THEN ZeroId ELSE id
        Consumer(c) == IF s.Version >= 3 THEN c ELSE [ c EXCEPT !.ActiveTime = c.SeenTime ]
        Group(g) == [ g EXCEPT !.EntriesRead = IF v2 THEN @ ELSE Zero,
                               !.Consumers = [ i \in DOMAIN @ |-> Consumer(@[i]) ] ]
    IN  [ s EXCEPT !.Version = IF s.Version = 0 THEN 1 ELSE @,
                   !.FirstId = OrZero(@), !.MaxDeletedId = OrZero(@),
                   !.AddedEntriesCount = IF v2 THEN @ ELSE Zero,
                   !.Groups = [ i \in DOMAIN @ |-> Group(@[i]) ] ]

-----------------------------------------------------------------------------
(* Properties. *)

(* Every length (any uint64) and every string is read back as it was       *)
(* written, and the reader ends where the writer did, so that the next     *)
(* record starts at the right byte: the boundaries of the 6, 14, 32 and 64 *)
(* bit lengths and of the 8, 16 and 32 bit strings (writeLength,           *)
(* tryWriteIntString; readLength, readString).                             *)
PrimitivesRoundTrip == Read({"length", "string"}) => Returned(Value) /\ Consumed

(* The elements of a ziplist and of an intset come back, exactly when the  *)
(* ziplist can be stored: integers in the five widths, strings up to 16383 *)
(* bytes, previous lengths of one byte and of five (writeZipList,          *)
(* tryWriteIntSetEncoding; readZipListEntry, readIntSet).                  *)
ImagesRoundTrip ==
    /\ Read({"ziplist"}) => (ZipListStorable(Value) <=> Returned(Value))
    /\ Read({"intset"})  => /\ out.st = "ok"
                            /\ ToSet(out.val) = Texts(Value)
                            /\ Len(out.val) = Len(Value)

(* Listpacks as Redis writes them are read as what it stored: negative     *)
(* integers in the 13, 16, 24, 32 and 64 bit forms, back lengths that grow *)
(* with the entry.  Zipmaps are, exactly when no text has more than 252    *)
(* bytes and the first byte is not 254 for another number of pairs: with   *)
(* free bytes behind values only, and counted in a first pass when the     *)
(* first byte does not say how many they are (readZipMapHash,              *)
(* readZipMapEntryLen).                                                    *)
RedisImagesRead ==
    /\ Read({"listpack"}) => Returned(Value)
    /\ Read({"zipmap"})   => (ZipMapReadable(Value) <=> Returned(Value.pairs))

(* A stream comes back as its version can hold it, and the reader ends     *)
(* where the writer did, exactly when its ids, names and values are among  *)
(* those the listpack encoder can write (WriteStreamObject,                *)
(* readStreamListPacks).                                                   *)
StreamRoundTrip ==
    Read({"stream"}) => ( IdsStorable(Value) /\ ShapeStorable(Value)
                          <=> Returned(AsStored(Value)) /\ Consumed )

(* A file that ends inside a value it can hold is an error, wherever it is *)
(* cut, also behind the name of a consumer group, whose own error is       *)
(* dropped (stream.go: name, _ := dec.readString()).                       *)
CutIsError ==
    pc = "done" /\ cut /\ (Kind = "stream" => IdsStorable(Value) /\ ShapeStorable(Value))
      => out.st = "error"
=============================================================================
