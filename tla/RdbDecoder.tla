----------------------------- MODULE RdbDecoder -----------------------------
(***************************************************************************)
(* The Decoder of core/decoder.go: Parse over a file of RdbFile tokens,    *)
(* one action per kind of record, with the registers (database, pending    *)
(* expiration, idle time, frequency) that parse carries from one record to *)
(* the next, the callback that may stop the iteration, and every way the   *)
(* file can end early.                                                     *)
(*                                                                         *)
(* What the decoder does when it meets a token of another kind than the    *)
(* one it reads depends on bytes this model does not have: such a run ends *)
(* with the result "misread", of which nothing more is said.  Streams are  *)
(* left out, and no handler is registered for module types.                *)
(***************************************************************************)
EXTENDS RdbFile, Reads

CONSTANTS
    WithSpecialOpCode,  \* Decoder.WithSpecialOpCode
    MayStop             \* the callback may return false

ASSUME DecoderAssumption == {WithSpecialOpCode, MayStop} \subseteq BOOLEAN

VARIABLES
    file,       \* the input
    pos,        \* index of the next token to read
    valkey,     \* Decoder.valkey
    dbIndex, expireMs, lru, lfu,    \* the locals of parse
    got,        \* what the callback received
    stopped,    \* the callback returned false
    result      \* "none" before Parse returns; then "nil", "error" or "misread"

registers == <<dbIndex, expireMs, lru, lfu>>
dvars     == <<pos, valkey, dbIndex, expireMs, lru, lfu, got, stopped, result>>

-----------------------------------------------------------------------------
(* A token that is not there, or only in part, is an io.EOF. *)
Take(p, kinds) ==
    IF p > Len(file) \/ (p = Len(file) /\ file[p] = Torn) THEN Fail(p, "error")
    ELSE IF file[p][1] \in kinds THEN Done(p + 1, file[p][2])
    ELSE Fail(p, "misread")

readLength(p) == Take(p, LengthKinds)
readInt64(p)  == Take(p, {"i64"})

readBody(h, kind) ==
    Then(Take(h.pos, {kind}),
         LAMBDA b : IF b.val = h.val THEN b ELSE Fail(b.pos, "misread"))

readLZF(p) ==
    Then(Take(p, {"clen"}),
         LAMBDA c : Then(Take(c.pos, {"slen"}), LAMBDA h : readBody(h, "lzf")))

readString(p) ==
    Then(Take(p, {"int", "slen", "lzfmark"}),
         LAMBDA h : CASE file[p][1] = "int"  -> Done(h.pos, Text(h.val))
                      [] file[p][1] = "slen" -> readBody(h, "raw")
                      [] OTHER               -> readLZF(h.pos))

(* readString of an image of the given sort. *)
readImage(p, sort) ==
    Then(readString(p),
         LAMBDA b : IF b.val[1] = sort THEN Done(b.pos, b.val[2]) ELSE Fail(b.pos, "misread"))

readText(p) == readImage(p, "text")

readSized(p, Read(_)) == Then(readLength(p), LAMBDA n : readN(n.pos, n.val, Read))

-----------------------------------------------------------------------------
(* Values.  m[field] = value in a loop: the last write of a field stays.   *)

MapOf(ps) ==
    [ f \in {ps[i][1] : i \in DOMAIN ps} |->
        LET last == CHOOSE i \in DOMAIN ps :
                      /\ ps[i][1] = f
                      /\ \A j \in DOMAIN ps : ps[j][1] = f => j <= i
        IN  ps[last][2] ]

Hash(ps)        == <<"hash", << MapOf(ps), [ f \in {ps[i][1] : i \in DOMAIN ps} |-> 0 ] >> >>
HashEx(ps, es)  == <<"hash", << MapOf(ps), MapOf(es) >> >>

(* Entries i, i+k, i+2k, ... of an image. *)
Every(es, i, k) == [ j \in 1..(Len(es) \div k) |-> es[(j - 1) * k + i][2] ]
Pairs(as, bs)   == [ i \in DOMAIN as |-> <<as[i], bs[i]>> ]
Elements(es)    == Every(es, 1, 1)
Concat(pages) ==
    LET upTo[i \in 0..Len(pages)] == IF i = 0 THEN <<>> ELSE upTo[i-1] \o pages[i]
    IN  upTo[Len(pages)]
SetOf(vs) == <<"set", {vs[i] : i \in DOMAIN vs}>>

(* A wrong variant: the minimum is added without the 1 that marks a TTL. *)
readHashMapEx_offByOne(p, rc) ==
    LET Body(q, min) ==
          Then(readLength(q), LAMBDA n :
            As(readN(n.pos, n.val, LAMBDA a :
                 Then(readLength(a), LAMBDA t :
                   As(readPair(t.pos, readText, readText),
                      LAMBDA fv : << fv[1], fv[2], IF t.val = 0 THEN 0 ELSE t.val + min >>))),
               LAMBDA xs : HashEx(xs, [ i \in DOMAIN xs |-> <<xs[i][1], xs[i][3]>> ])))
    IN  IF rc THEN Body(p, 0) ELSE Then(readInt64(p), LAMBDA m : Body(m.pos, m.val))

(* readHashMapEx; rc is the release candidate's format, without the minimum *)
readHashMapEx(p, rc) ==
    LET Body(q, min) ==
          Then(readLength(q), LAMBDA n :
            IF n.val = 0 THEN Fail(n.pos, "error")
            ELSE As(readN(n.pos, n.val, LAMBDA a :
                      Then(readLength(a), LAMBDA t :
                        LET expire == IF rc THEN t.val
                                      ELSE IF t.val = 0 THEN 0 ELSE t.val + min - 1
                        IN  IF expire > EbInvalid - 1 THEN Fail(t.pos, "error")
                            ELSE As(readPair(t.pos, readText, readText),
                                    LAMBDA fv : << fv[1], fv[2], expire >>))),
                    LAMBDA xs : HashEx(xs, [ i \in DOMAIN xs |-> <<xs[i][1], xs[i][3]>> ])))
    IN  IF rc THEN Body(p, 0)
        ELSE Then(readInt64(p), LAMBDA m :
               IF m.val > EbInvalid THEN Fail(m.pos, "error") ELSE Body(m.pos, m.val))

readHashMapExValkey(p) ==
    Then(readLength(p), LAMBDA n :
      IF n.val = 0 THEN Fail(n.pos, "error")
      ELSE As(readN(n.pos, n.val, LAMBDA a :
                readPair(a, LAMBDA b : readPair(b, readText, readText), readInt64)),
              LAMBDA xs : HashEx([ i \in DOMAIN xs |-> xs[i][1] ],
                                 [ i \in DOMAIN xs |->
                                     << xs[i][1][1], IF xs[i][2] < 0 THEN 0 ELSE xs[i][2] >> ])))

readListPackHashEx(p, rc) ==
    LET Body(q) ==
          Then(readImage(q, "ziplist"), LAMBDA b :
            IF b.val = <<>> \/ Len(b.val) % 3 # 0 THEN Fail(b.pos, "error")
            ELSE LET fs == Every(b.val, 1, 3)
                 IN  Done(b.pos, HashEx(Pairs(fs, Every(b.val, 2, 3)),
                                        Pairs(fs, Every(b.val, 3, 3)))))
    IN  IF rc THEN Body(p) ELSE Then(readInt64(p), LAMBDA m : Body(m.pos))

(* A node of a quicklist2: <<container, elements>>. *)
readNode(p) ==
    Then(readLength(p), LAMBDA c :
      CASE c.val = 1 -> As(readText(c.pos), LAMBDA v : <<1, <<v>> >>)
        [] c.val = 2 -> As(readImage(c.pos, "ziplist"), LAMBDA es : <<2, Elements(es)>>)
        [] OTHER     -> Fail(c.pos, "error"))

(* sizeOfQuicklist2 (memprofiler/list.go) indexes the values, and the      *)
(* entry sizes of the packed nodes, by the number of the node.             *)
SizePanics(nodes, values) ==
    LET packed == {i \in DOMAIN nodes : nodes[i][1] = 2}
    IN  \E i \in DOMAIN nodes : IF i \in packed THEN i > Cardinality(packed)
                                                ELSE i > Len(values)

readQuickList2(p) ==
    Then(readSized(p, readNode), LAMBDA ns :
      LET values == Concat([ i \in DOMAIN ns.val |-> ns.val[i][2] ])
      IN  IF SizePanics(ns.val, values) THEN Fail(ns.pos, "error")
          ELSE Done(ns.pos, <<"list", values>>))

(* A wrong variant: floats are skipped as if they were lengths. *)
skipModule_noFloat(p) ==
    LET Operand(op, q) == IF op < 5 THEN readLength(q) ELSE readString(q)
        from[q \in p..(Len(file) + 1)] ==
          Then(readLength(q), LAMBDA op :
            CASE op.val = 0 -> Done(op.pos, <<>>)
              [] op.val > 5 -> Fail(op.pos, "error")
              [] OTHER      -> Then(Operand(op.val, op.pos), LAMBDA x : from[x.pos]))
    IN  from[p]

(* skipModuleAuxData, from the position behind the module id. *)
skipModule(p) ==
    LET Operand(op, q) == CASE op \in {1, 2} -> readLength(q)
                            [] op \in {3, 4} -> Take(q, {"f64"})
                            [] OTHER         -> readString(q)
        from[q \in p..(Len(file) + 1)] ==
          Then(readLength(q), LAMBDA op :
            CASE op.val = 0 -> Done(op.pos, <<>>)
              [] op.val > 5 -> Fail(op.pos, "error")
              [] OTHER      -> Then(Operand(op.val, op.pos), LAMBDA x : from[x.pos]))
    IN  from[p]

readModuleType(p) == Then(readLength(p), LAMBDA id : As(skipModule(id.pos), LAMBDA x : id.val))

(* The other values, one operator per function of the codec files. *)

readEntries(p)      == readImage(p, "ziplist")      \* of a ziplist or a listpack
readEntryPairs(p)   == As(readEntries(p),
                          LAMBDA es : Pairs(Every(es, 1, 2), Every(es, 2, 2)))
readListPack(p)     == As(readEntries(p), Elements)
readZipList(p)      == As(readEntries(p), Elements)

readList(p)         == readSized(p, readText)
readQuickList(p)    == As(readSized(p, readZipList), Concat)

readSet(p)          == As(readSized(p, readText), SetOf)
readIntSet(p)       == As(readImage(p, "intset"), LAMBDA S : <<"set", S>>)
readListPackSet(p)  == As(readListPack(p), SetOf)

readHashMap(p)      == As(readSized(p, LAMBDA q : readPair(q, readText, readText)), Hash)
readZipMapHash(p)   == As(readEntryPairs(p), Hash)
readZipListHash(p)  == As(readEntryPairs(p), Hash)
readListPackHash(p) == As(readEntryPairs(p), Hash)

(* The scores of a zset are text (readLiteralFloat) or binary (readFloat), *)
(* one token either way.                                                   *)
readZSet(p)         == readSized(p, LAMBDA q : readPair(q, readText, LAMBDA r : Take(r, {"f64"})))
readZipListZSet(p)  == readEntryPairs(p)
readListPackZSet(p) == readEntryPairs(p)

(* readObject, and the SizeOfObject call that follows it. *)
readObject(flag, p) ==
    LET Typed(t, r) == As(r, LAMBDA v : <<t, v>>) IN
    CASE flag = "typeString"         -> Typed("string", readText(p))
      [] flag = "typeList"           -> Typed("list", readList(p))
      [] flag = "typeListZipList"    -> Typed("list", readZipList(p))
      [] flag = "typeListQuickList"  -> Typed("list", readQuickList(p))
      [] flag = "typeListQuickList2" -> readQuickList2(p)
      [] flag = "typeSet"            -> readSet(p)
      [] flag = "typeSetIntSet"      -> readIntSet(p)
      [] flag = "typeSetListPack"    -> readListPackSet(p)
      [] flag = "typeHash"           -> readHashMap(p)
      [] flag = "typeHashZipMap"     -> readZipMapHash(p)
      [] flag = "typeHashZipList"    -> readZipListHash(p)
      [] flag = "typeHashListPack"   -> readListPackHash(p)
      [] flag = "typeZsetZipList"    -> Typed("zset", readZipListZSet(p))
      [] flag = "typeZsetListPack"   -> Typed("zset", readListPackZSet(p))
      [] flag \in {"typeZset", "typeZset2"} -> Typed("zset", readZSet(p))
      [] flag \in {"typeHashWithHfe", "typeHashWithHfeRc"} ->
           IF valkey THEN readHashMapExValkey(p)
                     ELSE readHashMapEx(p, flag = "typeHashWithHfeRc")
      [] flag \in {"typeHashListPackWithHfe", "typeHashListPackWithHfeRc"} ->
           readListPackHashEx(p, flag = "typeHashListPackWithHfeRc")
      [] flag = "typeModule2"        -> Typed("module", readModuleType(p))
      [] OTHER                       -> Fail(p, "error")

-----------------------------------------------------------------------------
(* Parse. *)

Parsing == result = "none"

(* Parse returns; a failed read leaves the reader where it failed. *)
Return(r, p) ==
    /\ result' = r
    /\ pos' = p
    /\ UNCHANGED <<valkey, got, stopped>>

(* A wrong variant: the dialect of the magic is not remembered. *)
checkHeader_forgets ==
    /\ Parsing /\ pos = 1
    /\ LET m == Take(1, {"magic"}) IN
         IF m.st # "ok" \/ m.val \notin Magics
         THEN Return("error", 1)
         ELSE pos' = 2 /\ UNCHANGED <<valkey, got, stopped, result>>
    /\ UNCHANGED registers

checkHeader ==
    /\ Parsing /\ pos = 1
    /\ LET m == Take(1, {"magic"}) IN
         IF m.st # "ok" \/ m.val \notin Magics
         THEN Return("error", 1)
         ELSE /\ pos' = 2
              /\ valkey' = (m.val = "VALKEY080")
              /\ UNCHANGED <<got, stopped, result>>
    /\ UNCHANGED registers

(* The opcode or type flag parse reads next, at the head of its loop. *)
AtRecord(op) == /\ Parsing /\ pos > 1
                /\ pos <= Len(file)
                /\ file[pos] = Op(op)

(* A wrong variant: io.EOF is the normal end of a file. *)
NoRecord_silent ==
    /\ Parsing /\ pos > 1
    /\ LET r == Take(pos, {"op"})
       IN  r.st # "ok" /\ Return(IF r.st = "error" THEN "nil" ELSE r.st, pos)
    /\ UNCHANGED registers

(* readByte fails, or meets something that is no opcode. *)
NoRecord ==
    /\ Parsing /\ pos > 1
    /\ LET r == Take(pos, {"op"}) IN r.st # "ok" /\ Return(r.st, pos)
    /\ UNCHANGED registers

(* After the read r of a record's operands: carry on, or return the error. *)
Advance(r) == IF r.st = "ok"
              THEN pos' = r.pos /\ UNCHANGED <<valkey, got, stopped, result>>
              ELSE Return(r.st, r.pos)

(* A wrong variant: what the callback returns is not looked at. *)
Callback_ignored(x, p) ==
    /\ got' = Append(got, x)
    /\ pos' = p
    /\ \/ UNCHANGED stopped
       \/ MayStop /\ stopped' = TRUE
    /\ UNCHANGED <<valkey, result>>

(* Call back with x, then go on, or leave the loop and read the trailer. *)
Callback(x, p) ==
    /\ got' = Append(got, x)
    /\ \/ /\ pos' = p
          /\ UNCHANGED <<stopped, result>>
       \/ /\ MayStop
          /\ stopped' = TRUE
          /\ result' = "nil"
          /\ pos' = p
    /\ UNCHANGED valkey

(* A wrong variant: the checksum is skipped without looking for it. *)
ReadEOF_skips ==
    /\ AtRecord("opCodeEOF")
    /\ Return("nil", pos + 2)
    /\ UNCHANGED registers

ReadEOF ==
    /\ AtRecord("opCodeEOF")
    /\ Return("nil", pos + 1)       \* the checksum behind it is not looked at
    /\ UNCHANGED registers

SelectDB ==
    /\ AtRecord("opCodeSelectDB")
    /\ LET r == readLength(pos + 1) IN
         /\ Advance(r)
         /\ dbIndex' = IF r.st = "ok" THEN r.val ELSE dbIndex
    /\ UNCHANGED <<expireMs, lru, lfu>>

ExpireTime ==
    /\ AtRecord("opCodeExpireTime")
    /\ LET r == readInt64(pos + 1) IN       \* four bytes in the file
         /\ Advance(r)
         /\ expireMs' = IF r.st = "ok" THEN 1000 * r.val ELSE expireMs
    /\ UNCHANGED <<dbIndex, lru, lfu>>

ExpireTimeMs ==
    /\ AtRecord("opCodeExpireTimeMs")
    /\ LET r == readInt64(pos + 1) IN
         /\ Advance(r)
         /\ expireMs' = IF r.st = "ok" THEN r.val ELSE expireMs
    /\ UNCHANGED <<dbIndex, lru, lfu>>

(* The second operands of ResizeDB and Aux: `err' is shadowed there, and a *)
(* failed read leaves the loop for the normal return.                      *)
SecondOperand(r, x) ==
    CASE r.st = "error"   -> Return("nil", r.pos)
      [] r.st = "misread" -> Return("misread", r.pos)
      [] OTHER            -> IF WithSpecialOpCode THEN Callback(x, r.pos) ELSE Advance(r)

ResizeDB ==
    /\ AtRecord("opCodeResizeDB")
    /\ LET k == readLength(pos + 1) IN
         IF k.st # "ok" THEN Return(k.st, k.pos)
         ELSE LET t == readLength(k.pos) IN
                SecondOperand(t, <<"dbsize", <<dbIndex, k.val, t.val>> >>)
    /\ UNCHANGED registers

Aux ==
    /\ AtRecord("opCodeAux")
    /\ LET k == readText(pos + 1) IN
         IF k.st # "ok" THEN Return(k.st, k.pos)
         ELSE LET v == readText(k.pos) IN SecondOperand(v, <<"aux", <<k.val, v.val>> >>)
    /\ UNCHANGED registers

Freq ==
    /\ AtRecord("opCodeFreq")
    /\ LET r == readLength(pos + 1) IN      \* one byte
         /\ Advance(r)
         /\ lfu' = IF r.st = "ok" THEN r.val ELSE lfu
    /\ UNCHANGED <<dbIndex, expireMs, lru>>

Idle ==
    /\ AtRecord("opCodeIdle")
    /\ LET r == readLength(pos + 1) IN
         /\ Advance(r)
         /\ lru' = IF r.st = "ok" THEN r.val ELSE lru
    /\ UNCHANGED <<dbIndex, expireMs, lfu>>

(* A wrong variant: the record is met again and again. *)
ModuleAux_stays ==
    /\ AtRecord("opCodeModuleAux")
    /\ UNCHANGED dvars

ModuleAux ==
    /\ AtRecord("opCodeModuleAux")
    /\ Advance(readModuleType(pos + 1))
    /\ UNCHANGED registers

Function ==
    /\ AtRecord("opCodeFunction")
    /\ LET r == readText(pos + 1) IN
         IF r.st = "ok" /\ WithSpecialOpCode
         THEN Callback(<<"functions", r.val>>, r.pos)
         ELSE Advance(r)
    /\ UNCHANGED registers

SlotInfo ==
    /\ AtRecord("opCodeSlotInfo")
    /\ IF valkey THEN Advance(readN(pos + 1, 3, readLength)) ELSE Return("error", pos + 1)
    /\ UNCHANGED registers

(* Redis 8 gives this opcode another meaning (RDB_OPCODE_KEY_META). *)
SlotImport ==
    /\ AtRecord("opCodeSlotImport")
    /\ IF valkey
       THEN Advance(Then(readText(pos + 1), LAMBDA job :
                      readSized(job.pos, LAMBDA q : readPair(q, readLength, readLength))))
       ELSE Return("error", pos + 1)
    /\ UNCHANGED registers

(* Wrong variants: registers are left for the next object; a value that    *)
(* cannot be read is delivered nevertheless.                               *)
Object_leaks(flag) ==
    /\ AtRecord(flag)
    /\ LET k == readText(pos + 1)
           o == readObject(flag, k.pos)
       IN  IF k.st # "ok" \/ o.st # "ok"
           THEN Return(IF k.st # "ok" THEN k.st ELSE o.st, o.pos)
           ELSE Callback(<<"object", Entry(dbIndex, k.val, expireMs, lru, lfu, o.val)>>, o.pos)
    /\ UNCHANGED registers
Object_careless(flag) ==
    /\ AtRecord(flag)
    /\ LET k == readText(pos + 1)
           o == readObject(flag, k.pos)
       IN  IF k.st # "ok"
           THEN Return(k.st, k.pos) /\ UNCHANGED registers
           ELSE /\ expireMs' = 0 /\ lru' = None /\ lfu' = None
                /\ Callback(<<"object", Entry(dbIndex, k.val, expireMs, lru, lfu, o.val)>>, o.pos)
                /\ UNCHANGED dbIndex

(* A key and its object take the registers, and clear all but the database.*)
Object(flag) ==
    /\ AtRecord(flag)
    /\ LET k == readText(pos + 1)
           o == readObject(flag, k.pos)
       IN  IF k.st # "ok"
           THEN Return(k.st, k.pos) /\ UNCHANGED registers
           ELSE /\ expireMs' = IF expireMs > 0 THEN 0 ELSE expireMs
                /\ lru' = None
                /\ lfu' = None
                /\ IF o.st # "ok" THEN Return(o.st, o.pos)
                   ELSE Callback(<<"object", Entry(dbIndex, k.val,
                                    IF expireMs > 0 THEN expireMs ELSE 0, lru, lfu, o.val)>>,
                                 o.pos)
                /\ UNCHANGED dbIndex

Record == \/ ReadEOF  \/ SelectDB  \/ ExpireTime \/ ExpireTimeMs
          \/ ResizeDB \/ Aux       \/ Freq       \/ Idle
          \/ ModuleAux \/ Function \/ SlotInfo   \/ SlotImport
          \/ \E flag \in TypeFlags : Object(flag)

DecoderInit ==
    /\ pos = 1
    /\ valkey = FALSE
    /\ dbIndex = 0
    /\ expireMs = 0
    /\ lru = None
    /\ lfu = None
    /\ got = <<>>
    /\ stopped = FALSE
    /\ result = "none"

DecoderNext == checkHeader \/ NoRecord \/ Record

-----------------------------------------------------------------------------
DecoderTypeOK ==
    /\ pos \in 1..(Len(file) + 1)
    /\ valkey \in BOOLEAN
    /\ dbIndex \in Nat
    /\ expireMs \in Int
    /\ lru \in Nat \cup {None}
    /\ lfu \in Nat \cup {None}
    /\ \A i \in 1..Len(got) : got[i][1] \in {"object", "aux", "dbsize", "functions"}
    /\ stopped \in BOOLEAN
    /\ result \in {"none", "nil", "error", "misread"}
=============================================================================
