----------------------------- MODULE MC_RdbCorpus -----------------------------
(* Records for the Decoder: one of each opcode, one object of each type flag. *)
EXTENDS RdbCorpus

MCStrings == {"a", "b"}
MCStrLen  == [ s \in MCStrings |-> 1 ]
MCScores  == {1, 2}

Obj(flag, tokens, value) ==
    << "object", [key |-> "a", flag |-> flag, tokens |-> tokens, value |-> value] >>

T(s) == Body(Text(s))
Lp(es) == Body(ZipList(es))
ab == << Text("a"), Text("b") >>
MapAB(exp) == << [f \in {"a"} |-> "b"], [f \in {"a"} |-> exp] >>

StringRecord == Obj("typeString", T("b"), <<"string", "b">>)
IntRecord    == Obj("typeString", << IntStr("b") >>, <<"string", "b">>)
LzfRecord    == Obj("typeString", << LzfMark, LzfLen(Text("b")), StrHead(Text("b")),
                                     LzfBody(Text("b")) >>, <<"string", "b">>)

PlainNode  == << Length(1) >> \o T("a")
PackedNode == << Length(2) >> \o Lp(ab)

(* One object per type flag and shape, streams apart. *)
ObjectRecords ==
    { StringRecord, IntRecord, LzfRecord,
      Obj("typeList", << Length(2) >> \o T("a") \o T("b"), <<"list", <<"a", "b">> >>),
      Obj("typeListZipList", Lp(ab), <<"list", <<"a", "b">> >>),
      Obj("typeListQuickList", << Length(2) >> \o Lp(ab) \o Lp(ab),
          <<"list", <<"a", "b", "a", "b">> >>),
      Obj("typeListQuickList2", << Length(2) >> \o PackedNode \o PlainNode,
          <<"list", <<"a", "b", "a">> >>),
      Obj("typeSet", << Length(2) >> \o T("b") \o T("a"), <<"set", {"a", "b"}>>),
      Obj("typeSetIntSet", Body(IntSet({"a", "b"})), <<"set", {"a", "b"}>>),
      Obj("typeSetListPack", Lp(ab), <<"set", {"a", "b"}>>),
      Obj("typeHash", << Length(1) >> \o T("a") \o T("b"), <<"hash", MapAB(0)>>),
      Obj("typeHashZipMap", Lp(ab), <<"hash", MapAB(0)>>),
      Obj("typeHashZipList", Lp(ab), <<"hash", MapAB(0)>>),
      Obj("typeHashListPack", Lp(ab), <<"hash", MapAB(0)>>),
      Obj("typeZset", << Length(1) >> \o T("a") \o << Float64(2) >>, <<"zset", << <<"a", 2>> >> >>),
      Obj("typeZset2", << Length(1) >> \o T("a") \o << Float64(2) >>, <<"zset", << <<"a", 2>> >> >>),
      Obj("typeZsetZipList", Lp(<< Text("a"), ScoreText(2) >>), <<"zset", << <<"a", 2>> >> >>),
      Obj("typeZsetListPack", Lp(<< Text("a"), ScoreText(2) >>), <<"zset", << <<"a", 2>> >> >>),
      Obj("typeHashListPackWithHfe", << Int64(5) >> \o Lp(<< Text("a"), Text("b"), TtlText(5) >>),
          <<"hash", MapAB(5)>>),
      Obj("typeHashListPackWithHfeRc", Lp(<< Text("a"), Text("b"), TtlText(5) >>),
          <<"hash", MapAB(5)>>),
      Obj("typeModule2", << Length(99), Length(4), Float64(1), Length(0) >>, <<"module", 99>>) }

(* The flags whose value depends on the dialect. *)
RedisRecords ==
    { Obj("typeHashWithHfe", << Int64(5), Length(2) >> \o << Length(0) >> \o T("b") \o T("b")
                               \o << Length(2) >> \o T("a") \o T("b"),
          <<"hash", << [f \in {"a", "b"} |-> "b"],
                       [f \in {"a", "b"} |-> IF f = "a" THEN 6 ELSE 0] >> >>),
      Obj("typeHashWithHfeRc", << Length(1), Length(6) >> \o T("a") \o T("b"),
          <<"hash", MapAB(6)>>) }

ValkeyRecords ==
    { Obj(typeHash2, << Length(2) >> \o T("a") \o T("b") \o << Int64(6) >>
                        \o T("b") \o T("b") \o << Int64(-1) >>,
          <<"hash", << [f \in {"a", "b"} |-> "b"],
                       [f \in {"a", "b"} |-> IF f = "a" THEN 6 ELSE 0] >> >>) }

OpRecords ==
    { <<"select", 1>>, <<"expire", 1>>, <<"expirems", 5>>, <<"freq", 3>>, <<"idle", 4>>,
      <<"function", "a">>, <<"slotinfo", 0>>, <<"slotimport", "a">>, <<"moduleaux", "a">> }

HeaderRecords == { <<"aux", "a">>, <<"resize", 2>> }

Corpus(header, records, max, cuts) ==
    [header |-> header, records |-> records, max |-> max, cuts |-> cuts]

(* Pairs of records in both dialects, five in a row that set registers,    *)
(* three in a row that the callback may see; see README.md.                *)
MCCorpora ==
    { Corpus("REDIS0011", ObjectRecords \cup RedisRecords \cup OpRecords, 2, TRUE),
      Corpus("VALKEY080", ValkeyRecords \cup OpRecords \cup {StringRecord}, 2, TRUE),
      Corpus("REDIS0011", { <<"select", 1>>, <<"select", 2>>, <<"expire", 1>>, <<"expirems", 5>>,
                            <<"freq", 3>>, <<"idle", 4>>, StringRecord }, 5, FALSE),
      Corpus("REDIS0011", HeaderRecords \cup { <<"function", "a">>, <<"select", 1>>,
                                               StringRecord }, 3, TRUE) }

MCTruncated  == { Corpus("REDIS0011", HeaderRecords, 1, TRUE) }
MCQuickList2 ==
    { Corpus("REDIS0011", { Obj("typeListQuickList2", << Length(2) >> \o PlainNode \o PackedNode,
                                <<"list", <<"a", "a", "b">> >>), StringRecord }, 2, FALSE) }
=============================================================================
