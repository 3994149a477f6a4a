--------------------------- MODULE MC_RdbEncoder ---------------------------
(* The Encoder with a handful of strings, one object per type and encoding. *)
EXTENDS RdbEncoder

MCStrings        == {"a", "7", "9e9", "big", "lzf"}
MCStrLen         == [ s \in MCStrings |->
                        CASE s = "lzf" -> 30 [] s = "big" -> 5 [] OTHER -> 1 ]
MCIntStrings     == {"7"}
MCWideIntStrings == {"7", "9e9"}
MCScores         == {1, 2}

MCSomeObjects == { <<"string", "lzf">>, <<"set", <<"7", "9e9">> >> }
=============================================================================
