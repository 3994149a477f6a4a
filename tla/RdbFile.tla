------------------------------ MODULE RdbFile ------------------------------
(***************************************************************************)
(* The bytes of an RDB file, as core/encoder.go writes them and            *)
(* core/decoder.go reads them back.                                        *)
(*                                                                         *)
(* A file is a sequence of tokens <<kind, payload>>.  A token is what one  *)
(* call of Encoder.write puts into the writer (one opcode, one length, one *)
(* string body, ...), which is also the unit the Decoder's primitive       *)
(* readers (readByte, readLength, readFull) consume.  The bits inside a    *)
(* token are abstracted; which token follows which is not.                 *)
(***************************************************************************)
EXTENDS Integers, Sequences, FiniteSets

CONSTANTS
    Strings,        \* the redis strings in use: keys, fields, elements
    StrLen,         \* StrLen[s]: the length of s in bytes
    IntStrings,     \* strings isEncodableUint32 accepts (core/string.go)
    WideIntStrings, \* strings isEncodableUint64 accepts (core/ziplist.go)
    Scores,         \* the scores of sorted set entries
    EbInvalid       \* EB_EXPIRE_TIME_INVALID, scaled down

ASSUME StringsAssumption ==
    /\ StrLen \in [Strings -> Nat]
    /\ IntStrings \subseteq WideIntStrings
    /\ WideIntStrings \subseteq Strings
    /\ EbInvalid \in Nat \ {0}

-----------------------------------------------------------------------------
(* Byte strings.  The body of a string is a redis string, or the image of a *)
(* compact structure: a ziplist or listpack (its entries), an intset.       *)

Text(s)      == <<"text", s>>
ScoreText(x) == <<"score", x>>
TtlText(n)   == <<"ttl", n>>
ZipList(es)  == <<"ziplist", es>>
IntSet(S)    == <<"intset", S>>

Entries == ({"text"} \X Strings) \cup ({"score"} \X Scores) \cup ({"ttl"} \X Int)
Bytes   == ({"text"} \X Strings) \cup ({"ziplist"} \X Seq(Entries))
               \cup ({"intset"} \X SUBSET Strings)

-----------------------------------------------------------------------------
(* Opcodes and type flags (core/decoder.go). *)

OpCodes ==
    { "opCodeSlotImport", "opCodeSlotInfo", "opCodeFunction",
      "opCodeModuleAux", "opCodeIdle", "opCodeFreq", "opCodeAux",
      "opCodeResizeDB", "opCodeExpireTimeMs", "opCodeExpireTime",
      "opCodeSelectDB", "opCodeEOF" }

TypeFlags ==
    { "typeString", "typeList", "typeSet", "typeZset", "typeHash",
      "typeZset2", "typeModule2", "typeHashZipMap", "typeListZipList",
      "typeSetIntSet", "typeZsetZipList", "typeHashZipList",
      "typeListQuickList", "typeHashListPack", "typeZsetListPack",
      "typeListQuickList2", "typeSetListPack",
      "typeHashWithHfeRc", "typeHashListPackWithHfeRc",
      "typeHashWithHfe", "typeHashListPackWithHfe" }

typeHash2 == "typeHashWithHfeRc"     \* Valkey 9 gives the flag 22 a new meaning

Magics == {"REDIS0011", "VALKEY080"}   \* of the versions the decoder accepts

-----------------------------------------------------------------------------
(* Tokens. *)

Op(o)        == <<"op", o>>          \* an opcode or a type flag, one byte
Magic(m)     == <<"magic", m>>
Length(n)    == <<"len", n>>         \* writeLength of a count or a number
DbIndex(d)   == <<"db", d>>          \* writeLength of a database index
Int64(n)     == <<"i64", n>>
Float64(x)   == <<"f64", x>>
IntStr(s)    == <<"int", s>>         \* a string encoded as an 8/16/32 bit integer
StrHead(b)   == <<"slen", b>>        \* writeLength of the length of b
StrBody(b)   == <<"raw", b>>
LzfMark      == <<"lzfmark", 0>>     \* encodeLZFPrefix
LzfLen(b)    == <<"clen", b>>        \* writeLength of the compressed length of b
LzfBody(b)   == <<"lzf", b>>
Crc(ts)      == <<"crc", ts>>        \* a CRC that tells any two inputs apart
Torn         == <<"torn", 0>>        \* a part of a token: the writer failed inside it

(* What Encoder.write emits: everything but the checksum, which WriteEnd   *)
(* hands to the writer itself, and the remains of a failed write.          *)
WrittenTokens ==
    ({"op"} \X (OpCodes \cup TypeFlags)) \cup ({"magic"} \X Magics)
      \cup ({"len"} \X Int) \cup ({"db"} \X Nat) \cup ({"i64"} \X Int)
      \cup ({"f64"} \X Scores) \cup ({"int"} \X Strings)
      \cup ({"slen", "raw", "clen", "lzf"} \X Bytes) \cup {LzfMark}

Tokens == WrittenTokens \cup ({"crc"} \X Seq(WrittenTokens)) \cup {Torn}

LengthKinds == {"len", "db"}

-----------------------------------------------------------------------------
(* Objects: <<type, value>> as the caller of the encoder passes them.      *)
(*   string: s              list, set: sequence of strings                 *)
(*   zset: sequence of <<member, score>>                                   *)
(*   hash: <<h, e>>, h the fields' values, e their expirations (0: none)   *)

IsObject(o) ==
    \/ o \in ({"string"} \X Strings) \cup ({"list", "set"} \X Seq(Strings))
               \cup ({"zset"} \X Seq(Strings \X Scores))
    \/ \E F \in SUBSET Strings :
         o \in {"hash", "hashex"} \X ([F -> Strings] \X [F -> Int])

(* An object as the two sides compare it: a set has no order, and a hash   *)
(* written with field expirations is delivered as a hash.                  *)
Canonical(o) ==
    CASE o[1] = "set"    -> <<"set", {o[2][i] : i \in DOMAIN o[2]}>>
      [] o[1] = "hashex" -> <<"hash", o[2]>>
      [] OTHER           -> o

None == -1      \* a nil *int64 (IdleTime, Freq)

Entry(d, k, exp, idle, freq, o) ==
    [db |-> d, key |-> k, exp |-> exp, idle |-> idle, freq |-> freq, obj |-> o]
=============================================================================
