----------------------------- MODULE MC_Codecs -----------------------------
(* Values for the model checking of Codecs: one at each side of every      *)
(* boundary of every encoding.                                             *)
EXTENDS Codecs
LOCAL INSTANCE SequencesExt

MCTextLen == [ t \in {"", "a", "f", "g", "name", "t63", "t64", "t251", "t252", "t253",
                      "t254", "t255", "t4095", "t4096", "t16383", "t16384"} |->
                 CASE t = "" -> 0 [] t \in {"a", "f", "g"} -> 1 [] t = "name" -> 4
                   [] t = "t63" -> 63 [] t = "t64" -> 64 [] t = "t251" -> 251
                   [] t = "t252" -> 252 [] t = "t253" -> 253 [] t = "t254" -> 254
                   [] t = "t255" -> 255
                   [] t = "t4095" -> 4095 [] t = "t4096" -> 4096
                   [] t = "t16383" -> 16383 [] t = "t16384" -> 16384 ]

Text(t) == <<"text", t>>
Int64(bs) == [ i \in 1..8 |-> bs[i] ]
MaxInt64 == <<255, 255, 255, 255, 255, 255, 255, 127>>
MinInt64 == <<0, 0, 0, 0, 0, 0, 0, 128>>
TwoTo31  == <<0, 0, 0, 128, 0, 0, 0, 0>>
TwoTo32  == <<0, 0, 0, 0, 1, 0, 0, 0>>
MaxUint  == [ i \in 1..8 |-> 255 ]

Edges == {0, 1, 12, 13, 63, 64, 127, 128, 255, 4095, 4096, 8191, 8192, 16383, 16384,
          32767, 32768, 65535, 8388607, 8388608, 2147483647}
Negatives == {-n : n \in Edges \ {0}} \cup {-2147483647 - 1, -65}
Wide == {MaxInt64, MinInt64, TwoTo31, TwoTo32}

Words64 == {Word(n) : n \in Edges \cup Negatives} \cup Wide
Texts0  == {Text(t) : t \in DOMAIN MCTextLen}
Ints(ws) == {<<"int", w>> : w \in ws}

Lengths == {<<"length", w>> : w \in Words64 \cup {MaxUint}}
StringJobs == {<<"string", s>> : s \in Texts0 \cup Ints(Words64)}

(* Two entries, so that the length of the first one matters to the second. *)
ZipLists == {<<"ziplist", <<s, t>> >> : s \in Texts0 \cup Ints(Words64),
                                        t \in {Text("a"), <<"int", Word(12)>>}}
              \cup {<<"ziplist", [ i \in 1..n |-> Text("a") ]>> : n \in {0, 3, 4, 5}}

IntSets == {<<"intset", <<v, w>> >> :
              v \in {Word(0), Word(32767), Word(32768), Word(2147483647), TwoTo31, MaxInt64},
              w \in {Word(5), Word(128), Word(65535), TwoTo32}}

ListPacks == {<<"listpack", <<s, Text("a")>> >> : s \in Texts0 \cup Ints(Words64)}

(* Texts on both sides of 253 and 254 bytes, as fields and as values, and  *)
(* numbers of pairs on both sides of ZipMapCounts.                         *)
Numbered(n) == [ i \in 1..n |-> <<<<"int", Word(i)>>, Text("a")>> ]
ZipMap(ps, n, h) == <<"zipmap", [pairs |-> ps, free |-> n, head |-> h]>>
ZipMaps ==
    {ZipMap(ps, n, h) : n \in {0, 2}, h \in {"count", "many", "unknown"},
       ps \in {<<>>, << <<Text("f"), Text("a")>> >>}
               \cup {<< <<Text("f"), Text(t)>>, <<Text("name"), Text("")>> >> :
                       t \in {"t64", "t252", "t253", "t254", "t255", "t4096"}}
               \cup {<< <<Text(t), Text("a")>>, <<Text("f"), Text("t63")>> >> :
                       t \in {"t252", "t253", "t254", "t255"}}}
      \cup {ZipMap(Numbered(ZipMapCounts - 1), 0, "count")}
      \cup {ZipMap(Numbered(n), 0, h) : n \in (ZipMapCounts - 1)..(ZipMapCounts + 1),
                                        h \in {"many", "unknown"}}

-----------------------------------------------------------------------------
Id(ms, seq) == <<ms, seq>>
First == Id(TwoTo32, Word(5))

Fields(f, v) == [ x \in {Text(f)} |-> Text(v) ]
Two(v, w)    == [ x \in {Text("f"), Text("g")} |-> IF x = Text("f") THEN Text(v) ELSE w ]

Message(ms, seq, fs, del) == [Id |-> <<Add(First[1], ms), Add(First[2], seq)>>,
                              Fields |-> fs, Deleted |-> del]
Entry(fields, ms) == [FirstMsgId |-> First, Fields |-> fields, Msgs |-> ms]

Stream(version, es, first, gs) ==
    [Version |-> version, Entries |-> es, Length |-> Word(64), LastId |-> First,
     FirstId |-> first, MaxDeletedId |-> NilId, AddedEntriesCount |-> TwoTo32, Groups |-> gs]

Consumer(ids) == [Name |-> Text("a"), SeenTime |-> TwoTo31, ActiveTime |-> TwoTo32, Pending |-> ids]
Group(ps, cs) == [Name |-> Text("name"), LastId |-> First, EntriesRead |-> Word(16384),
                  Pending |-> ps, Consumers |-> cs]
Pending == [Id |-> First, DeliveryTime |-> TwoTo32, DeliveryCount |-> Word(3)]

Plain == Message(Word(1), Word(0), Fields("f", "a"), FALSE)

(* Differences of IDs. *)
IdStreams ==
    {Stream(1, <<Entry(<<Text("f")>>, <<Message(d, Word(0), Fields("f", "a"), FALSE)>>)>>, NilId, <<>>)
       : d \in Words64 \ {MinInt64}}
      \cup
    {Stream(1, <<Entry(<<Text("f")>>, <<Message(Word(4095), d, Fields("f", "a"), FALSE)>>)>>, NilId, <<>>)
       : d \in {Word(0), Word(-5), Word(-4096), Word(5000)}}

(* Messages: their fields and the master entry's. *)
ShapeStreams ==
    {Stream(2, <<Entry(fields, <<Plain, Message(Word(2), Word(128), fs, del)>>)>>, First, <<>>)
       : fields \in {<<>>, <<Text("f")>>, <<Text("f"), Text("g")>>, <<Text("f"), Text("f")>>},
         fs \in {Fields("f", "t63"), Fields("f", "t64"), Fields("f", "t4096"), Fields("g", ""), Fields("g", "a"),
                 Fields("", "a"), Two("t4095", <<"int", Word(7)>>)},
         del \in BOOLEAN}

(* Groups and versions. *)
GroupStreams ==
    {Stream(version, <<Entry(<<Text("f")>>, <<Plain>>)>>, first, gs)
       : version \in 0..4, first \in {NilId, First},
         gs \in {<<>>, <<Group(<<>>, <<>>)>>,
                 <<Group(<<Pending>>, <<Consumer(<<First>>), Consumer(<<>>)>>)>>,
                 <<Group(<<>>, <<>>), Group(<<Pending, Pending>>, <<Consumer(<<First, First>>)>>)>>}}

Streams0 == {<<"stream", s>> : s \in IdStreams \cup ShapeStreams \cup GroupStreams}

-----------------------------------------------------------------------------
(* Inputs to compress: all strings of up to 8 bytes over two, and longer   *)
(* ones that repeat after one, two, three and seventeen bytes, for the     *)
(* longest matches and the farthest references.                            *)
Periodic(p, n) == [ i \in 1..n |-> IF (i - 1) % p = 0 THEN 1 ELSE 0 ]
LzfJobs == {<<"lzf", s>> : s \in UNION {[1..n -> {0, 1}] : n \in 3..8}
                 \cup {Periodic(p, n) : p \in {1, 2, 3, 7, 17, 19}, n \in {12, 17, 20, 26}}
                 \cup {[ i \in 1..22 |-> (i * i) % 8 ]}}

MCJobs == Lengths \cup StringJobs \cup ZipLists \cup IntSets \cup ListPacks \cup ZipMaps
            \cup Streams0 \cup LzfJobs

MCNames == {<<Text("f"), Text("g"), Text("")>>, <<Text("g"), Text(""), Text("f")>>}
=============================================================================
