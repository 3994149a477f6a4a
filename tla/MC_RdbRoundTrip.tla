--------------------------- MODULE MC_RdbRoundTrip ---------------------------
(* The round trip of one object per type and encoding. *)
EXTENDS RdbRoundTrip

MCStrings        == {"a", "7", "9e9", "big", "lzf"}
MCStrLen         == [ s \in MCStrings |->
                        CASE s = "lzf" -> 30 [] s = "big" -> 5 [] OTHER -> 1 ]
MCIntStrings     == {"7"}
MCWideIntStrings == {"7", "9e9"}
MCScores         == {1, 2}

MCStringObjects == { <<"string", "a">>, <<"string", "lzf">> }

MCValkeyObjects ==
    { <<"string", "a">>,
      <<"hashex", << [f \in {"a", "7"} |-> "7"],
                     [f \in {"a", "7"} |-> IF f = "a" THEN 0 ELSE 7] >> >> }

MCObjects ==
    { <<"string", "7">>,
      <<"list", <<"a", "7">> >>,                      \* ziplist
      <<"list", <<"big", "a", "big">> >>,             \* two pages
      <<"set", <<"7", "9e9">> >>,                     \* intset
      <<"set", <<"a", "lzf">> >>,
      <<"zset", << <<"a", 2>> >> >>,                  \* ziplist
      <<"zset", << <<"big", 1>>, <<"a", 2>> >> >>,
      <<"hash", << [f \in {"a", "7"} |-> "a"], [f \in {"a", "7"} |-> 0] >> >>,
      <<"hash", << [f \in {"a"} |-> "lzf"], [f \in {"a"} |-> 0] >> >>,
      <<"hashex", << [f \in {"a", "7", "big"} |-> "big"],
                     [f \in {"a", "7", "big"} |->
                        CASE f = "a" -> 0 [] f = "7" -> 7 [] OTHER -> 5] >> >> }
=============================================================================
