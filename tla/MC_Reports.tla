----------------------------- MODULE MC_Reports -----------------------------
(* Command lines and the objects of their files. *)
EXTENDS Reports

MCDigits == 0 :> <<"0">> @@ 1 :> <<"1">> @@ 10 :> <<"1", "0">>
              @@ 100 :> <<"1", "0", "0">> @@ 101 :> <<"1", "0", "1">>

K(db, key, size) ==
    [db |-> db, key |-> key, kind |-> "string", size |-> size, exp |-> Nil, freq |-> -1,
     value |-> "v", fieldExps |-> <<>>]

Unset == [regex |-> None, noExpired |-> None, expire |-> None, size |-> None, globalMeta |-> None]
On == <<TRUE>>

Line(name, objects) ==
    [name |-> name, n |-> 0, maxDepth |-> 0, seps |-> <<>>, prefixSeps |-> <<>>,
     flags |-> Unset, output |-> "file", objects |-> objects]

a == <<"a">>
b == <<"b">>
ab == <<"a", "b">>
abc == <<"a", "b", "c">>

-----------------------------------------------------------------------------
(* Filters: Now is the middle of second 2. *)

Timed == { [K(0, a, 3) EXCEPT !.exp = 24], [K(0, b, 5) EXCEPT !.exp = 25],
           [K(0, ab, 8) EXCEPT !.exp = 31], [K(1, a, 8) EXCEPT !.exp = 12], K(0, abc, 9),
           [K(0, <<"m">>, 0) EXCEPT !.kind = "aux"] }

FlagSets ==
    LET expire(e) == [Unset EXCEPT !.expire = e]
    IN  { [Unset EXCEPT !.regex = << {a, ab} >>, !.size = << At(5), inf >>],
          [Unset EXCEPT !.regex = << {illegal} >>],
          [Unset EXCEPT !.noExpired = On, !.globalMeta = On],
          expire(<< <<"noexpire">> >>), expire(<< <<"anyexpire">> >>),
          expire(<< now, inf >>), expire(<< At(1), now >>), expire(<< At(2), At(2) >>),
          expire(<< At(1) >>),
          [expire(<< now, inf >>) EXCEPT !.noExpired = On, !.size = << At(3), At(5) >>],
          [Unset EXCEPT !.size = << At(0), At(99) >>, !.globalMeta = On],
          [Unset EXCEPT !.size = << At(5), illegal >>] }

FilterJobs == {[Line("memory", Timed) EXCEPT !.flags = f] : f \in FlagSets}

-----------------------------------------------------------------------------
(* Lists, trees and groups. *)

Sized == { K(0, a, 5), K(0, b, 3), K(0, ab, 3), K(1, a, 1), K(0, abc, 7) }
Hot(o, freq) == [o EXCEPT !.freq = freq]
Freqs == { Hot(K(0, a, 5), 0), Hot(K(0, b, 3), 4), Hot(K(0, ab, 3), 4), Hot(K(1, a, 1), 2),
           Hot(K(0, abc, 7), -1) }
ListJobs ==
    { [Line("bigkey", Sized) EXCEPT !.n = 2], [Line("bigkey", Sized) EXCEPT !.n = 0],
      [Line("hotkey", Freqs) EXCEPT !.n = 1], [Line("hotkey", Freqs) EXCEPT !.n = 3] }

Words == { K(0, ab, 1), K(0, a, 2), K(0, abc, 4), K(0, b, 8), K(0, <<"a", " ", "a">>, 16),
           K(0, <<"a", " ", "b">>, 32) }
Databases == { K(0, a, 1), K(1, <<>>, 2), K(10, a, 4), K(100, a, 8), K(101, a, 16) }
TreeJobs ==
    { Line("prefix", Words), [Line("prefix", Words) EXCEPT !.n = 2, !.maxDepth = 1],
      Line("prefix", Databases), [Line("prefix", Words) EXCEPT !.n = -1] }

Parted == { K(0, <<"a", ":", "b">>, 1), K(0, <<"a", ";", "c">>, 2), K(0, a, 4),
            K(0, <<"a", ":", "b", ":", "c">>, 8), K(1, <<"a", ":", "b">>, 9),
            K(0, <<"a", ":">>, 6) }
GroupJobs ==
    {[Line("prefix", Parted) EXCEPT !.prefixSeps = s, !.n = x[1], !.maxDepth = x[2]] :
       s \in { << ":" >>, << ":", ";" >> }, x \in { <<0, 0>>, <<1, 0>>, <<2, 1>> }}

OthersKey == K(0, <<"a", ":">> \o Others \o << ":", "d" >>, 3)
FlameJobs ==
    { Line("flamegraph", (Parted \ {K(0, <<"a", ":">>, 6)}) \cup {OthersKey}),
      [Line("flamegraph", Parted) EXCEPT !.seps = << ":", ";" >>] }

-----------------------------------------------------------------------------
(* Values for the AOF. *)

V(db, kind, value, fieldExps, exp) ==
    [K(db, <<kind>>, 1) EXCEPT !.kind = kind, !.value = value, !.fieldExps = fieldExps, !.exp = exp]
Message(id, deleted) == [id |-> id, fields |-> [f \in {"f"} |-> "v"], deleted |-> deleted]

Stream(msgs, lastId, groups) == [msgs |-> msgs, lastId |-> lastId, groups |-> groups]

Values ==
    { V(0, "string", "v", <<>>, 30), V(0, "list", <<"x", "x">>, <<>>, Nil),
      V(0, "set", {"x", "y"}, <<>>, Nil), V(0, "hash", [f \in {"f", "g"} |-> "v"], <<>>, 30),
      V(0, "zset", [m \in {"x"} |-> 2], <<>>, Nil), V(0, "module", "v", <<>>, 30),
      V(0, "hashex", [f \in {"f", "g"} |-> "v"], [f \in {"f", "g"} |-> IF f = "f" THEN 0 ELSE 9], 30),
      V(0, "stream", Stream(<< Message(<<1, 1>>, FALSE), Message(<<1, 2>>, FALSE) >>, <<1, 2>>, {}), <<>>, 30),
      V(1, "stream", Stream(<< Message(<<1, 1>>, TRUE) >>, <<1, 1>>, {}), <<>>, Nil) }

(* Streams that differ in one thing each. *)
Streams ==
    LET msgs == << Message(<<1, 1>>, FALSE), Message(<<2, 1>>, FALSE) >>
        Of(name, stream, exp) == [V(0, "stream", stream, <<>>, exp) EXCEPT !.key = <<name>>]
    IN  { Of("plain", Stream(msgs, <<2, 1>>, {}), 30), Of("empty", Stream(<<>>, <<2, 1>>, {}), 30),
          Of("trimmed", Stream(msgs, <<3, 0>>, {}), Nil), Of("groups", Stream(msgs, <<2, 1>>, {"g"}), Nil),
          Of("deleted", Stream(<<msgs[1], Message(<<2, 1>>, TRUE)>>, <<2, 1>>, {}), Nil) }

(* Both hashes have the kind "hash", and the names of Values. *)
Typed == {[o EXCEPT !.kind = IF @ = "hashex" THEN "hash" ELSE @] : o \in Values}
AofJobs == { [Line("aof", Typed) EXCEPT !.flags = [Unset EXCEPT !.regex = << {<<"list">>} >>]],
             Line("aof", Streams \cup {V(1, "string", "w", <<>>, 30)}), [Line("aof", Typed) EXCEPT !.output = ""] }

MCJobs == FilterJobs \cup ListJobs \cup TreeJobs \cup GroupJobs \cup FlameJobs \cup AofJobs

(* The job of the run that shows which prefixes are missing. *)
PrefixJobs == {Line("prefix", Words)}
PrefixItems == Words

MCItems == UNION {j.objects : j \in MCJobs}
=============================================================================
