------------------------------ MODULE RdbCorpus ------------------------------
(***************************************************************************)
(* The Decoder on every file that a sequence of records makes, complete or *)
(* cut anywhere: between two tokens or inside one.  The records also say,  *)
(* without any of the decoder's registers, what the callback should get.   *)
(***************************************************************************)
EXTENDS RdbDecoder

(* A corpus is the files of up to max of the given records behind a header;*)
(* when cuts holds, whole or cut anywhere, otherwise whole.  max is a bound.*)
CONSTANT Corpora

(* A record is <<kind, argument>>.  An object record carries its key, its  *)
(* type flag, the tokens of its value, and the value they stand for.       *)
IsObjectRecord(r) == r[1] = "object"
IsRecord(r) ==
    \/ r \in {"select", "expire", "expirems", "freq", "idle", "resize", "slotinfo"} \X Nat
    \/ r \in {"aux", "function", "slotimport", "moduleaux"} \X Strings
    \/ /\ IsObjectRecord(r)
       /\ r[2].key \in Strings /\ r[2].flag \in TypeFlags
       /\ r[2].tokens \in Seq(WrittenTokens)

ASSUME CorpusAssumption ==
    \A c \in Corpora : /\ c.header \in Magics /\ c.max \in Nat /\ c.cuts \in BOOLEAN
                       /\ \A r \in c.records : IsRecord(r)

VARIABLES
    corpus,     \* the corpus of the file
    recs        \* the records the file was made of

allVars == <<corpus, recs, file, dvars>>

-----------------------------------------------------------------------------
Opcode ==
    [ select |-> "opCodeSelectDB", expire |-> "opCodeExpireTime",
      expirems |-> "opCodeExpireTimeMs", freq |-> "opCodeFreq", idle |-> "opCodeIdle",
      resize |-> "opCodeResizeDB", aux |-> "opCodeAux", function |-> "opCodeFunction",
      slotinfo |-> "opCodeSlotInfo", slotimport |-> "opCodeSlotImport",
      moduleaux |-> "opCodeModuleAux" ]

OpOf(r) == IF IsObjectRecord(r) THEN r[2].flag ELSE Opcode[r[1]]

Body(b) == << StrHead(b), StrBody(b) >>

Operands(r) ==
    CASE r[1] = "select"               -> << DbIndex(r[2]) >>
      [] r[1] \in {"expire", "expirems"} -> << Int64(r[2]) >>
      [] r[1] \in {"freq", "idle"}       -> << Length(r[2]) >>
      [] r[1] = "resize"               -> << Length(r[2]), Length(r[2]) >>
      [] r[1] = "aux"                  -> Body(Text(r[2])) \o Body(Text(r[2]))
      [] r[1] = "function"             -> Body(Text(r[2]))
      [] r[1] = "slotinfo"             -> << Length(1), Length(1), Length(0) >>
      [] r[1] = "slotimport"           -> Body(Text(r[2])) \o << Length(1), Length(3), Length(4) >>
      [] r[1] = "moduleaux"            -> << Length(99), Length(2), Length(7), Length(5) >>
                                            \o Body(Text(r[2])) \o << Length(0) >>
      [] IsObjectRecord(r)             -> Body(Text(r[2].key)) \o r[2].tokens

Render(r) == << Op(OpOf(r)) >> \o Operands(r)

(* The header and the first n records; the whole file. *)
Beginning(rs, n) == << Magic(corpus.header) >> \o Concat([ i \in 1..n |-> Render(rs[i]) ])
Trailer   == << Op("opCodeEOF"), Crc(<<>>) >>
Whole(rs) == Beginning(rs, Len(rs)) \o Trailer

(* A cut inside a token leaves its remains; a token of one byte has none. *)
CutFiles(ts) ==
    { SubSeq(ts, 1, n) : n \in 0..Len(ts) }
      \cup { Append(SubSeq(ts, 1, n - 1), Torn) :
               n \in {m \in 1..Len(ts) : ts[m][1] \notin {"op", "lzfmark"}} }

-----------------------------------------------------------------------------
(* What the callback should get. *)

(* The last of the first n records that is of such a kind, 0 when none is. *)
Latest(rs, n, kinds) ==
    LET S == {i \in 1..n : rs[i][1] \in kinds}
    IN  IF S = {} THEN 0 ELSE CHOOSE i \in S : \A j \in S : j <= i

(* A prefix of an object counts when no other object stands between them. *)
PrefixOf(rs, i, kinds) ==
    LET p == Latest(rs, i - 1, kinds)
    IN  IF p > Latest(rs, i - 1, {"object"}) THEN p ELSE 0

ExpectedEntry(rs, i) ==
    LET d == Latest(rs, i - 1, {"select"})
        x == PrefixOf(rs, i, {"expire", "expirems"})
        l == PrefixOf(rs, i, {"idle"})
        f == PrefixOf(rs, i, {"freq"})
    IN  Entry(IF d = 0 THEN 0 ELSE rs[d][2],
              rs[i][2].key,
              IF x = 0 THEN 0 ELSE IF rs[x][1] = "expire" THEN 1000 * rs[x][2] ELSE rs[x][2],
              IF l = 0 THEN None ELSE rs[l][2],
              IF f = 0 THEN None ELSE rs[f][2],
              rs[i][2].value)

(* The entries of the first n records. *)
Expected(rs, n) ==
    Concat([ i \in 1..n |-> IF IsObjectRecord(rs[i]) THEN << ExpectedEntry(rs, i) >> ELSE <<>> ])

(* The opcodes that only Valkey has. *)
Foreign(r) == corpus.header # "VALKEY080" /\ r[1] \in {"slotinfo", "slotimport"}

(* The file begins with these tokens. *)
Begins(ts) == Len(ts) <= Len(file) /\ \A i \in DOMAIN ts : file[i] = ts[i]

(* How many records a reader of the file can get through. *)
Readable ==
    LET fits == {n \in 0..Len(recs) : Begins(Beginning(recs, n))
                                   /\ \A i \in 1..n : ~Foreign(recs[i])}
    IN  IF fits = {} THEN 0 ELSE CHOOSE n \in fits : \A m \in fits : m <= n

(* The entries the callback has got. *)
Delivered == Concat([ i \in 1..Len(got) |-> IF got[i][1] = "object" THEN << got[i][2] >> ELSE <<>> ])

-----------------------------------------------------------------------------
Init ==
    /\ corpus \in Corpora
    /\ recs \in UNION { [1..n -> corpus.records] : n \in 0..corpus.max }
    /\ file \in IF corpus.cuts THEN CutFiles(Whole(recs)) ELSE {Whole(recs)}
    /\ DecoderInit

Next == DecoderNext /\ UNCHANGED <<corpus, recs, file>>

Spec == Init /\ [][Next]_allVars /\ WF_allVars(Next)

-----------------------------------------------------------------------------
(* The value of an object, or the operands of module aux data, read as what *)
(* the record stands for, to its last token and no further; when the file   *)
(* is cut among them, wherever, that is an error (readObject, with every    *)
(* reader of a type, and skipModuleAuxData).                                *)
ValuesRead ==
    \A n \in DOMAIN recs :
        LET r    == recs[n]
            key  == readText(pos + 1)
            read == IF IsObjectRecord(r) THEN readObject(r[2].flag, key.pos)
                                         ELSE readModuleType(pos + 1)
        IN  /\ Parsing /\ pos > 1 /\ pos <= Len(file)
            /\ pos = Len(Beginning(recs, n - 1)) + 1
            /\ r[1] \in {"object", "moduleaux"}
            /\ IsObjectRecord(r) => key.st = "ok"
            => IF Begins(Beginning(recs, n))
               THEN read = Done(Len(Beginning(recs, n)) + 1,
                                IF IsObjectRecord(r) THEN r[2].value ELSE 99)
               ELSE read.st = "error"

(* Whatever the order of SELECTDB, EXPIRETIME, IDLE and FREQ records, an   *)
(* object is delivered with the database selected last and with exactly    *)
(* those prefixes that stand between it and the object before it: no       *)
(* register of parse leaks into the next object or is lost on the way.     *)
OwnRegisters == \E n \in 0..Len(recs) : Delivered = Expected(recs, n)

(* Unless the callback stopped it, Parse returns only after it delivered   *)
(* every object that stands complete in the file before the first cut or   *)
(* unsupported opcode, whether it returns an error or not.                 *)
NothingLost ==
    result # "none" /\ ~stopped => Delivered = Expected(recs, Readable)

(* The operands of all records are skipped or read with the right length,  *)
(* and values as what they are: a file that was well-formed before it was  *)
(* cut never makes the decoder read a token for what it is not.            *)
Aligned == result # "misread" /\ ValuesRead

(* A nil result means that the file was read up to its EOF opcode, or that *)
(* the callback asked to stop.  The exception is a file cut in the second  *)
(* operand of an AUX or RESIZEDB record, whose error the code shadows.     *)
ReadToEOF     == pos > 1 /\ file[pos - 1] = Op("opCodeEOF")
CutInHeader   == Readable < Len(recs) /\ recs[Readable + 1][1] \in {"aux", "resize"}
NoSilentTruncation == (result = "nil" /\ ~stopped) => ReadToEOF \/ CutInHeader

(* The same without the exception: "Parse Aux value failed" (decoder.go:449)*)
(* reaches the caller of Parse.                                             *)
AuxErrorReported == (result = "nil" /\ ~stopped) => ReadToEOF

(* A complete file of supported records is read to its end.                *)
ValidFilesAreRead ==
    (result # "none" /\ file = Whole(recs) /\ \A i \in DOMAIN recs : ~Foreign(recs[i]))
        => result = "nil"

(* "returns false to stop the iteration" (decoder.go:590): after that no   *)
(* object, aux field, size or function reaches the callback.               *)
StopMeansStop == [][stopped => UNCHANGED got]_allVars

(* Parse returns on every file. *)
Returns == <>(result # "none")
=============================================================================
