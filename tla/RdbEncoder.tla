----------------------------- MODULE RdbEncoder -----------------------------
(***************************************************************************)
(* The Encoder of core/encoder.go: the caller's WriteXxx methods, the      *)
(* state machine that orders them, the encodings they choose, and the      *)
(* io.Writer behind them, which may fail in any call, after any part of    *)
(* its input.                                                              *)
(*                                                                         *)
(* A call is run write by write.  `todo' is what is left of it: the        *)
(* remaining statements of the method, each one an instruction             *)
(*    <<"write", t>>   enc.write of the token t                            *)
(*    <<"str", b>>     enc.writeString(b)                                  *)
(*    <<"nan", b>>     enc.writeNanString(b)                               *)
(*    <<"lzf", b, n>>  the last n writes of enc.writeLZFString(b)          *)
(*    <<"ttl", ms>>    enc.writeTTL(ms)                                    *)
(*    <<"sum">>        the checksum, written past enc.write by WriteEnd    *)
(*    <<"set", s>>     enc.state = s                                       *)
(* The method returns nil when nothing is left, and an error when a write  *)
(* or a check fails.                                                       *)
(***************************************************************************)
EXTENDS RdbFile, FiniteSetsExt

CONSTANTS
    DBs,            \* the database indexes the caller uses
    Keys,           \* the keys, and the strings of aux fields
    TTLs,           \* the arguments of WithTTL
    MaxTTLOptions,  \* how many TTL options the caller passes to one call
    Objects,        \* the objects the caller writes
    Valkey,         \* NewEncoderValkey
    Compress,       \* EnableCompress
    Compressible,   \* long strings lzf.Compress shrinks (it fails on the others)
    ZipListMaxValue, ZipListMaxEntries,  \* SetXxxZipListOpt
    ListZipListSize,                     \* page size of a quicklist
    MaxCalls,       \* bound: calls the caller makes
    MaxFaults       \* bound: failures of the writer

ASSUME EncoderAssumption ==
    /\ DBs \subseteq Nat
    /\ Keys \subseteq Strings
    /\ TTLs \subseteq Nat
    /\ MaxTTLOptions \in Nat
    /\ \A o \in Objects : IsObject(o)
    /\ IsFiniteSet(Strings)
    /\ Valkey \in BOOLEAN
    /\ Compress \in BOOLEAN
    /\ Compressible \subseteq Strings
    /\ ZipListMaxValue \in Nat
    /\ ZipListMaxEntries \in Nat
    /\ ListZipListSize \in Nat
    /\ MaxCalls \in Nat
    /\ MaxFaults \in Nat

VARIABLES
    state,      \* Encoder.state
    existDB,    \* Encoder.existDB
    out,        \* what the writer received
    crc,        \* what Encoder.crc was fed
    todo,       \* the rest of the call in progress, <<>> between calls
    call,       \* the call in progress or the last one
    ret,        \* its result: "none" while it runs, "nil" or "error"
    calls,      \* calls made so far
    faults,     \* failures of the writer so far
    health,     \* history: "clean"; "failed" when a call that had begun returned
                \*   an error; "spoiled" when another call began after that
    db,         \* history: the database of the last accepted WriteDBHeader
    log         \* history: the objects whose call returned nil

vars == <<state, existDB, out, crc, todo, call, ret, calls, faults, health, db, log>>

-----------------------------------------------------------------------------
(* The state machine of the file. *)

States == { "Start", "WrittenHeader", "WrittenDBHeader", "WrittenAux",
            "WrittenTTL", "WrittenObject", "WritingEnd" }

(* Wrong variants of stateChanges, for the properties to catch. *)
stateChanges_emptyDB ==
    [ s \in States |-> CASE s = "Start"           -> {"WrittenHeader"}
                         [] s = "WrittenHeader"   -> {"WrittenAux", "WrittenDBHeader", "WritingEnd"}
                         [] s = "WrittenAux"      -> {"WrittenAux", "WrittenDBHeader", "WritingEnd"}
                         [] s = "WrittenTTL"      -> {"WrittenObject"}
                         [] s = "WritingEnd"      -> {}
                         [] OTHER -> {"WrittenTTL", "WrittenObject", "WrittenDBHeader", "WritingEnd"} ]
stateChanges_endTwice ==
    [ s \in States |-> CASE s = "Start"           -> {"WrittenHeader"}
                         [] s = "WrittenHeader"   -> {"WrittenAux", "WrittenDBHeader", "WritingEnd"}
                         [] s = "WrittenAux"      -> {"WrittenAux", "WrittenDBHeader", "WritingEnd"}
                         [] s = "WrittenDBHeader" -> {"WrittenTTL", "WrittenObject"}
                         [] s = "WrittenTTL"      -> {"WrittenObject"}
                         [] s = "WrittenObject"   -> {"WrittenTTL", "WrittenObject",
                                                      "WrittenDBHeader", "WritingEnd"}
                         [] OTHER                 -> {"WritingEnd"} ]

stateChanges ==
    [ s \in States |->
        CASE s = "Start"           -> {"WrittenHeader"}
          [] s = "WrittenHeader"   -> {"WrittenAux", "WrittenDBHeader", "WritingEnd"}
          [] s = "WrittenAux"      -> {"WrittenAux", "WrittenDBHeader", "WritingEnd"}
          [] s = "WrittenDBHeader" -> {"WrittenTTL", "WrittenObject"}
          [] s = "WrittenTTL"      -> {"WrittenObject"}
          [] s = "WrittenObject"   -> {"WrittenTTL", "WrittenObject",
                                       "WrittenDBHeader", "WritingEnd"}
          [] OTHER                 -> {} ]

validateStateChange(to) == to \in stateChanges[state]

-----------------------------------------------------------------------------
(* Strings. *)

W(t)   == <<"write", t>>
Str(s) == <<"str", Text(s)>>
Nan(b) == <<"nan", b>>

writeSimpleString(b) == << W(StrHead(b)), W(StrBody(b)) >>

writeLZFString(b) == << <<"lzf", b, 4>> >>

LzfToken(b, left) == CASE left = 4 -> LzfMark
                       [] left = 3 -> LzfLen(b)
                       [] left = 2 -> StrHead(b)
                       [] OTHER    -> LzfBody(b)

(* len(s) > 20 and lzf.Compress succeeds.  The images of ziplists and      *)
(* intsets may be of either sort.                                          *)
Compressions(b) ==
    IF ~Compress THEN {FALSE}
    ELSE IF b[1] = "text" THEN {StrLen[b[2]] > 20 /\ b[2] \in Compressible}
    ELSE BOOLEAN

(* The ways writeNanString and writeString go about b. *)
writeNanString(b) ==
    { IF z THEN writeLZFString(b) ELSE writeSimpleString(b) : z \in Compressions(b) }

writeString(b) ==
    IF b[1] = "text" /\ b[2] \in IntStrings
    THEN { << W(IntStr(b[2])) >> }          \* tryWriteIntString
    ELSE writeNanString(b)

-----------------------------------------------------------------------------
(* Objects.  Each operator gives the instructions its method may run: more *)
(* than one when the code ranges over a Go map.                            *)

Texts(vs) == [ i \in DOMAIN vs |-> Text(vs[i]) ]
Strs(vs)  == [ i \in DOMAIN vs |-> Str(vs[i]) ]

(* The size checks of tryWriteListZipList, ...HashMap and ...ZSet. *)
Compact(n, values) ==
    /\ n <= ZipListMaxEntries
    /\ \A v \in values : StrLen[v] <= ZipListMaxValue

PageSize(vs) == MapThenSumSet(LAMBDA i : StrLen[vs[i]], DOMAIN vs)

(* The page ends of writeQuickList: a page is closed by the first value    *)
(* that brings it to listZipListSize; what is left makes the last page.    *)
Pagings(vs) ==
    { cut \in UNION { [0..n -> 0..Len(vs)] : n \in 0..Len(vs) } :
        LET n == Cardinality(DOMAIN cut) - 1
            Page(k) == SubSeq(vs, cut[k-1] + 1, cut[k])
        IN  /\ cut[0] = 0
            /\ cut[n] = Len(vs)
            /\ \A k \in 1..n :
                 /\ cut[k-1] < cut[k]
                 /\ PageSize(SubSeq(vs, cut[k-1] + 1, cut[k] - 1)) < ListZipListSize
                 /\ k < n => PageSize(Page(k)) >= ListZipListSize }

writeQuickList(key, vs) ==
    { LET n == Cardinality(DOMAIN cut) - 1
      IN  << W(Op("typeListQuickList")), Str(key), W(Length(n)) >>
            \o [ k \in 1..n |-> Nan(ZipList(Texts(SubSeq(vs, cut[k-1] + 1, cut[k])))) ]
      : cut \in Pagings(vs) }

WriteListObject(key, vs) ==
    IF Compact(Len(vs), {vs[i] : i \in DOMAIN vs})
    THEN { << W(Op("typeListZipList")), Str(key), Nan(ZipList(Texts(vs))) >> }
    ELSE writeQuickList(key, vs)

WriteSetObject(key, vs) ==
    LET elems == {vs[i] : i \in DOMAIN vs} IN
    IF elems \subseteq WideIntStrings
    THEN { << W(Op("typeSetIntSet")), Str(key), Nan(IntSet(elems)) >> }
    ELSE { << W(Op("typeSet")), Str(key), W(Length(Len(vs))) >> \o Strs(vs) }

WriteZSetObject(key, es) ==
    LET n == Len(es) IN
    IF Compact(n, {es[i][1] : i \in DOMAIN es})
    THEN { << W(Op("typeZsetZipList")), Str(key),
              Nan(ZipList([ i \in 1..2*n |->
                    IF i % 2 = 1 THEN Text(es[(i + 1) \div 2][1])
                                 ELSE ScoreText(es[i \div 2][2]) ])) >> }
    ELSE { << W(Op("typeZset2")), Str(key), W(Length(n)) >>
             \o [ i \in 1..2*n |->
                    IF i % 2 = 1 THEN Str(es[(i + 1) \div 2][1])
                                 ELSE W(Float64(es[i \div 2][2])) ] }

(* Go ranges over a map in any order. *)
Orders(S) == { f \in [1..Cardinality(S) -> S] : \A i, j \in DOMAIN f : f[i] = f[j] => i = j }

WriteHashMapObject(key, h) ==
    { LET n == Len(fs)
          Item(i) == IF i % 2 = 1 THEN fs[(i + 1) \div 2] ELSE h[fs[i \div 2]]
      IN  IF Compact(n, {h[f] : f \in DOMAIN h})
          THEN << W(Op("typeHashZipList")), Str(key),
                  Nan(ZipList([ i \in 1..2*n |-> Text(Item(i)) ])) >>
          ELSE << W(Op("typeHash")), Str(key), W(Length(n)) >>
                 \o [ i \in 1..2*n |-> Str(Item(i)) ]
      : fs \in Orders(DOMAIN h) }

MinExpire(e) ==
    LET live == {e[f] : f \in DOMAIN e} \cap 1..(EbInvalid - 1)
    IN  IF live = {} THEN 0 ELSE CHOOSE m \in live : \A x \in live : m <= x

(* A wrong variant: the first field to expire is written as 0, no TTL. *)
writeHashEncodingEx_zero(key, h, e) ==
    { << W(Op("typeHashWithHfe")), Str(key), W(Int64(MinExpire(e))), W(Length(Len(fs))) >>
        \o [ i \in 1..3*Len(fs) |->
               LET f == fs[(i + 2) \div 3] IN
               CASE i % 3 = 1 -> W(Length(IF e[f] = 0 THEN 0 ELSE e[f] - MinExpire(e)))
                 [] i % 3 = 2 -> Str(f)
                 [] OTHER     -> Str(h[f]) ]
      : fs \in Orders(DOMAIN h) }

writeHashEncodingEx(key, h, e) ==
    { LET n == Len(fs)
          Ttl(f) == IF e[f] = 0 THEN 0 ELSE e[f] - MinExpire(e) + 1
      IN  << W(Op("typeHashWithHfe")), Str(key), W(Int64(MinExpire(e))), W(Length(n)) >>
            \o [ i \in 1..3*n |->
                   LET f == fs[(i + 2) \div 3] IN
                   CASE i % 3 = 1 -> W(Length(Ttl(f)))
                     [] i % 3 = 2 -> Str(f)
                     [] OTHER     -> Str(h[f]) ]
      : fs \in Orders(DOMAIN h) }

writeHash2Encoding(key, h, e) ==
    { LET n == Len(fs)
      IN  << W(Op(typeHash2)), Str(key), W(Length(n)) >>
            \o [ i \in 1..3*n |->
                   LET f == fs[(i + 2) \div 3] IN
                   CASE i % 3 = 1 -> Str(f)
                     [] i % 3 = 2 -> Str(h[f])
                     [] OTHER     -> W(Int64(IF e[f] = 0 THEN -1 ELSE e[f])) ]
      : fs \in Orders(DOMAIN h) }

WriteHashMapObjectEx(key, h, e) ==
    IF Valkey THEN writeHash2Encoding(key, h, e) ELSE writeHashEncodingEx(key, h, e)

ObjectWrites(key, o) ==
    CASE o[1] = "string" -> { << W(Op("typeString")), Str(key), Str(o[2]) >> }
      [] o[1] = "list"   -> WriteListObject(key, o[2])
      [] o[1] = "set"    -> WriteSetObject(key, o[2])
      [] o[1] = "zset"   -> WriteZSetObject(key, o[2])
      [] o[1] = "hash"   -> WriteHashMapObject(key, o[2][1])
      [] OTHER           -> WriteHashMapObjectEx(key, o[2][1], o[2][2])

-----------------------------------------------------------------------------
(* The public methods.  A call is refused at once, or begun. *)

Idle == todo = <<>>

Refuse == /\ Idle
          /\ ret' = "error"
          /\ UNCHANGED <<state, existDB, out, crc, todo, call, calls,
                         faults, health, db, log>>

Begin(c, writes) == /\ Idle
                    /\ calls < MaxCalls
                    /\ calls' = calls + 1
                    /\ call' = c
                    /\ ret' = "none"
                    /\ todo' = writes
                    /\ health' = IF health = "clean" THEN "clean" ELSE "spoiled"
                    /\ UNCHANGED <<state, out, crc, faults, db, log>>

WriteHeader ==
    \/ /\ ~validateStateChange("WrittenHeader")
       /\ Refuse
    \/ /\ validateStateChange("WrittenHeader")
       /\ Begin(<<"header">>, << W(Magic(IF Valkey THEN "VALKEY080" ELSE "REDIS0011")),
                                 <<"set", "WrittenHeader">> >>)
       /\ UNCHANGED existDB

WriteAux(k, v) ==
    \/ /\ ~validateStateChange("WrittenAux")
       /\ Refuse
    \/ /\ validateStateChange("WrittenAux")
       /\ Begin(<<"aux">>, << W(Op("opCodeAux")), Str(k), Str(v),
                              <<"set", "WrittenAux">> >>)
       /\ UNCHANGED existDB

(* A wrong variant: existDB is not consulted. *)
WriteDBHeader_unchecked(d) ==
    \/ /\ ~validateStateChange("WrittenDBHeader")
       /\ Refuse
    \/ /\ validateStateChange("WrittenDBHeader")
       /\ existDB' = existDB \cup {d}
       /\ Begin(<<"db", d>>, << W(Op("opCodeSelectDB")), W(DbIndex(d)),
                                W(Op("opCodeResizeDB")), W(Length(0)), W(Length(0)),
                                <<"set", "WrittenDBHeader">> >>)

(* The index enters existDB before anything is written. *)
WriteDBHeader(d) ==
    \/ /\ ~validateStateChange("WrittenDBHeader") \/ d \in existDB
       /\ Refuse
    \/ /\ validateStateChange("WrittenDBHeader")
       /\ d \notin existDB
       /\ existDB' = existDB \cup {d}
       /\ Begin(<<"db", d>>, << W(Op("opCodeSelectDB")), W(DbIndex(d)),
                                W(Op("opCodeResizeDB")), W(Length(0)), W(Length(0)),
                                <<"set", "WrittenDBHeader">> >>)

WriteEnd ==
    \/ /\ ~validateStateChange("WritingEnd")
       /\ Refuse
    \/ /\ validateStateChange("WritingEnd")
       /\ Begin(<<"end">>, << W(Op("opCodeEOF")), <<"sum">>, <<"set", "WritingEnd">> >>)
       /\ UNCHANGED existDB

TTLOptions == UNION { [1..n -> TTLs] : n \in 0..MaxTTLOptions }

(* What the caller asked for: the last TTL option counts, 0 is no TTL. *)
Requested(key, o, opts) ==
    Entry(db, key, IF opts = <<>> THEN 0 ELSE opts[Len(opts)], None, None, Canonical(o))

(* WriteStringObject, WriteListObject, ...: beforeWriteObject, then the    *)
(* encoding, then the new state.                                           *)
WriteObject(key, o, opts) ==
    \/ /\ ~validateStateChange("WrittenObject")
       /\ Refuse
    \/ /\ validateStateChange("WrittenObject")
       /\ \E writes \in ObjectWrites(key, o) :
            Begin(<<"object", Requested(key, o, opts)>>,
                  [ i \in 1..Len(opts) |-> <<"ttl", opts[i]>> ] \o writes
                     \o << <<"set", "WrittenObject">> >>)
       /\ UNCHANGED existDB

-----------------------------------------------------------------------------
(* The steps of a call. *)

now  == Head(todo)
rest == Tail(todo)

Return(r) ==
    /\ ret' = r
    /\ health' = IF r = "error" /\ health = "clean" THEN "failed" ELSE health
    /\ log' = IF r = "nil" /\ call[1] = "object" THEN Append(log, call[2]) ELSE log
    /\ db'  = IF r = "nil" /\ call[1] = "db" THEN call[2] ELSE db

Continue == UNCHANGED <<ret, health, log, db>>

(* Encoder.write: the writer first, the checksum when it succeeded. *)
Write(t) == /\ out' = Append(out, t)
            /\ crc' = Append(crc, t)
            /\ Continue
            /\ UNCHANGED <<state, existDB, call, calls, faults>>

WriteToken == /\ ~Idle /\ now[1] = "write"
              /\ Write(now[2])
              /\ todo' = rest

WriteLzfToken == /\ ~Idle /\ now[1] = "lzf"
                 /\ Write(LzfToken(now[2], now[3]))
                 /\ todo' = IF now[3] = 1 THEN rest
                            ELSE << <<"lzf", now[2], now[3] - 1>> >> \o rest

WriteSum == /\ ~Idle /\ now[1] = "sum"
            /\ out' = Append(out, Crc(crc))
            /\ todo' = rest
            /\ Continue
            /\ UNCHANGED <<state, existDB, crc, call, calls, faults>>

WriteStr == /\ ~Idle /\ now[1] \in {"str", "nan"}
            /\ \E ws \in IF now[1] = "str" THEN writeString(now[2])
                                          ELSE writeNanString(now[2]) :
                 todo' = ws \o rest
            /\ Continue
            /\ UNCHANGED <<state, existDB, out, crc, call, calls, faults>>

(* A wrong variant: the state is not checked. *)
WriteTTL_unchecked ==
    /\ ~Idle /\ now[1] = "ttl"
    /\ todo' = << W(Op("opCodeExpireTimeMs")), W(Int64(now[2])), <<"set", "WrittenTTL">> >> \o rest
    /\ Continue
    /\ UNCHANGED <<state, existDB, out, crc, call, calls, faults>>

(* writeTTL checks and changes the state on its own: a second TTL option   *)
(* of the same call is refused after the first one is in the file.         *)
WriteTTL ==
    /\ ~Idle /\ now[1] = "ttl"
    /\ IF validateStateChange("WrittenTTL")
       THEN /\ todo' = << W(Op("opCodeExpireTimeMs")), W(Int64(now[2])),
                          <<"set", "WrittenTTL">> >> \o rest
            /\ Continue
       ELSE /\ todo' = <<>>
            /\ Return("error")
    /\ UNCHANGED <<state, existDB, out, crc, call, calls, faults>>

SetState == /\ ~Idle /\ now[1] = "set"
            /\ state' = now[2]
            /\ todo' = rest
            /\ IF rest = <<>> THEN Return("nil") ELSE Continue
            /\ UNCHANGED <<existDB, out, crc, call, calls, faults>>

(* Wrong variants: the checksum is fed before the writer; the method goes  *)
(* on after the error; the error is dropped.                               *)
WriterFails_summed ==
    /\ ~Idle /\ now[1] \in {"write", "lzf", "sum"}
    /\ faults < MaxFaults
    /\ faults' = faults + 1
    /\ out' \in {out, Append(out, Torn)}
    /\ crc' = IF now[1] = "write" THEN Append(crc, now[2]) ELSE crc
    /\ todo' = <<>>
    /\ Return("error")
    /\ UNCHANGED <<state, existDB, call, calls>>
WriterFails_goesOn ==
    /\ ~Idle /\ now[1] \in {"write", "lzf", "sum"}
    /\ faults < MaxFaults
    /\ faults' = faults + 1
    /\ out' \in {out, Append(out, Torn)}
    /\ todo' = rest
    /\ Return("error")
    /\ UNCHANGED <<state, existDB, crc, call, calls>>
WriterFails_dropped ==
    /\ ~Idle /\ now[1] \in {"write", "lzf", "sum"}
    /\ faults < MaxFaults
    /\ faults' = faults + 1
    /\ out' \in {out, Append(out, Torn)}
    /\ todo' = rest
    /\ Continue
    /\ UNCHANGED <<state, existDB, crc, call, calls>>

(* The writer fails, with or without having taken a part of the token.     *)
(* Nothing is undone.  Inside writeLZFString the error is taken for a      *)
(* failed compression and the string is written again, uncompressed.       *)
WriterFails ==
    /\ ~Idle /\ now[1] \in {"write", "lzf", "sum"}
    /\ faults < MaxFaults
    /\ faults' = faults + 1
    /\ out' \in {out, Append(out, Torn)}
    /\ IF now[1] = "lzf"
       THEN /\ todo' = writeSimpleString(now[2]) \o rest
            /\ Continue
       ELSE /\ todo' = <<>>
            /\ Return("error")
    /\ UNCHANGED <<state, existDB, crc, call, calls>>

-----------------------------------------------------------------------------
Init ==
    /\ state = "Start"
    /\ existDB = {}
    /\ out = <<>>
    /\ crc = <<>>
    /\ todo = <<>>
    /\ call = <<"none">>
    /\ ret = "nil"
    /\ calls = 0
    /\ faults = 0
    /\ health = "clean"
    /\ db = None
    /\ log = <<>>

Caller == \/ WriteHeader
          \/ \E k, v \in Keys : WriteAux(k, v)
          \/ \E d \in DBs : WriteDBHeader(d)
          \/ \E k \in Keys, o \in Objects, opts \in TTLOptions : WriteObject(k, o, opts)
          \/ WriteEnd

Step == \/ WriteToken
        \/ WriteLzfToken
        \/ WriteSum
        \/ WriteStr
        \/ WriteTTL
        \/ SetState
        \/ WriterFails

Next == Caller \/ Step

Spec == Init /\ [][Next]_vars /\ WF_vars(Step)

-----------------------------------------------------------------------------
TypeOK ==
    /\ state \in States
    /\ existDB \subseteq DBs
    /\ out \in Seq(Tokens)
    /\ crc \in Seq(WrittenTokens)
    /\ ret \in {"none", "nil", "error"}
    /\ (ret = "none") = ~Idle
    /\ calls \in 0..MaxCalls
    /\ faults \in 0..MaxFaults
    /\ health \in {"clean", "failed", "spoiled"}
    /\ db \in DBs \cup {None}

-----------------------------------------------------------------------------
(* No database is selected twice in a file, whatever calls the writer made *)
(* fail and whichever of them the caller repeats (existDB, encoder.go:17). *)
NoDuplicateDB ==
    \A i, j \in DOMAIN out : out[i][1] = "db" /\ out[i] = out[j] => i = j

(* The trailing checksum is the one of the bytes before it exactly when no *)
(* write was torn: Encoder.write feeds the CRC only what the writer took   *)
(* whole, and WriteEnd includes the EOF opcode but not the sum itself.     *)
TornFree(ts) == \A i \in DOMAIN ts : ts[i] # Torn
SumTellsDamage ==
    \A i \in DOMAIN out : out[i][1] = "crc" =>
        LET before == SubSeq(out, 1, i - 1)
        IN  (out[i][2] = before) <=> TornFree(before)

(* "do not allow empty db" (encoder.go:79): while the writer works, an     *)
(* object stands between a SELECTDB and the next SELECTDB or EOF.          *)
NoEmptyDB ==
    faults = 0 =>
        \A i, j \in DOMAIN out :
            /\ i < j
            /\ out[i] = Op("opCodeSelectDB")
            /\ out[j] \in {Op("opCodeSelectDB"), Op("opCodeEOF")}
            => \E k \in i..j : out[k] \in {"op"} \X TypeFlags

(* An expiration is never left hanging: while the writer works, what       *)
(* follows it is an object, also when the call that wrote it was refused.  *)
NoOrphanTTL ==
    faults = 0 =>
        \A i \in DOMAIN out :
            /\ out[i] = Op("opCodeExpireTimeMs")
            /\ i + 2 \in DOMAIN out
            => out[i + 2] \in {"op"} \X TypeFlags

(* Nothing but the checksum follows EOF, whatever methods are called then. *)
NothingAfterEOF ==
    faults = 0 =>
        \A i \in DOMAIN out : out[i] = Op("opCodeEOF") => Len(out) <= i + 1
=============================================================================
