------------------------------ MODULE Filters ------------------------------
(***************************************************************************)
(* helper/regex.go: the filters between the decoder and a command.         *)
(*                                                                         *)
(* flags: the filter flags of the command line (cmd.go), each a sequence   *)
(* that is empty when the flag is not given: the set of the keys a regular *)
(* expression matches, TRUE for a switch, the parts around "~" for a       *)
(* range.  Times are in ticks, Second of them in a second.                 *)
(***************************************************************************)
EXTENDS Integers, Sequences, SequencesExt

CONSTANTS Now, Second, MaxInt

ASSUME TimeAssumption == Now \in Nat /\ Second \in Nat \ {0} /\ MaxInt \in Nat

Nil  == -1          \* no expiration
None == <<>>        \* a flag that is not given

(* Parts of an expression. *)
At(n)   == << "number", n >>
now     == << "now" >>
inf     == << "inf" >>
illegal == << "illegal" >>

-----------------------------------------------------------------------------
(* The options of cmd.go, in its order. *)

Given(name, value) == IF value = None THEN <<>> ELSE << <<name, value>> >>

Options(flags) ==
    Given("Regex", flags.regex) \o Given("NoExpired", flags.noExpired)
      \o Given("Expiration", flags.expire) \o Given("Size", flags.size)
      \o Given("GlobalMeta", flags.globalMeta)

(* The value of the last option of that kind. *)
Option(options, name) ==
    LET those == {i \in DOMAIN options : options[i][1] = name}
    IN  IF those = {} THEN None
        ELSE options[CHOOSE i \in those : \A j \in those : j <= i][2]

(* <<minimum, maximum>>, or <<>> for an error. *)
ParseRange(parts, value) ==
    IF Len(parts) = 2 /\ illegal \notin ToSet(parts)
    THEN << value[parts[1]], value[parts[2]] >> ELSE <<>>

parseExpireExpr(parts) ==
    ParseRange(parts, [ p \in ToSet(parts) |-> CASE p = now -> Now \div Second
                                                 [] p = inf -> MaxInt
                                                 [] OTHER   -> p[2] ])
parseSizeExpr(parts) ==
    ParseRange(parts, [ p \in ToSet(parts) |-> IF p = inf \/ p[2] > MaxInt THEN MaxInt ELSE p[2] ])

(* The command line gives a range as text, of which the parts are numbers, *)
(* the words now (in a range of times) and inf, or illegal.                *)
Ranges(words) == Seq(words \cup ({"number"} \X Int))
IsFlags(flags) ==
    /\ flags.size \in {None} \cup Ranges({inf, illegal})
    /\ flags.expire \in {None, << <<"noexpire">> >>, << <<"anyexpire">> >>}
                          \cup Ranges({now, inf, illegal})

-----------------------------------------------------------------------------
(* What a link of the chain lets through. *)

Unix(exp) == exp \div Second

(* A wrong variant: an object that never expires is in every range. *)
Lets_unset(link, object) ==
    CASE link[1] = "Regex" -> object.key \in link[2][1]
      [] link[1] = "NoExpired" -> object.exp = Nil \/ object.exp > Now
      [] link[1] = "NoExpiration" -> object.exp = Nil
      [] link[1] = "Expiration" ->
            object.exp = Nil \/ Unix(object.exp) \in link[2][1]..link[2][2]
      [] link[1] = "Size" -> object.size \in link[2][1]..link[2][2]

Lets(link, object) ==
    CASE link[1] = "Regex" -> object.key \in link[2][1]
      [] link[1] = "NoExpired" -> object.exp = Nil \/ object.exp > Now
      [] link[1] = "NoExpiration" -> object.exp = Nil
      [] link[1] = "Expiration" ->
            object.exp # Nil /\ Unix(object.exp) \in link[2][1]..link[2][2]
      [] link[1] = "Size" -> object.size \in link[2][1]..link[2][2]

(* wrapDecoder: the chain, innermost link first, or "error". *)
wrapDecoder(options) ==
    LET regex  == Option(options, "Regex")
        expire == Option(options, "Expiration")
        size   == Option(options, "Size")
        ofTime == CASE expire = None -> <<>>
                    [] expire = << <<"noexpire">> >>  -> << <<"NoExpiration", None>> >>
                    [] expire = << <<"anyexpire">> >> -> << <<"Expiration", <<0, MaxInt>> >> >>
                    [] OTHER -> << <<"Expiration", parseExpireExpr(expire)>> >>
        ofSize == IF size = None THEN <<>> ELSE << <<"Size", parseSizeExpr(size)>> >>
        chain  == Given("Regex", regex) \o Given("NoExpired", Option(options, "NoExpired"))
                    \o ofTime \o ofSize
    IN  IF \E i \in DOMAIN chain : \/ chain[i] = <<"Regex", << {illegal} >> >>
                                   \/ chain[i] \in {<<"Expiration", <<>> >>, <<"Size", <<>> >>}
        THEN "error" ELSE chain

(* A link only calls the next one for an object it lets through. *)
Passes(chain, object) == \A i \in DOMAIN chain : Lets(chain[i], object)

(* The links hand on whether the callback wants more, and the parser goes  *)
(* on after an object that did not get there.                              *)
GoesOn(chain, object, wants) == Passes(chain, object) => wants

WithSpecialOpCode(options) == Option(options, "GlobalMeta") # None

-----------------------------------------------------------------------------
(* What the help text of cmd.go promises of each flag. *)

InRange(n, parts, nowIs) ==
    LET Bound(p) == CASE p = now -> nowIs [] p = inf -> MaxInt [] OTHER -> p[2]
    IN  Bound(parts[1]) <= n /\ n <= Bound(parts[2])

Wanted(flags, object) ==
    /\ flags.regex # None => object.key \in flags.regex[1]
    /\ flags.noExpired # None => \/ object.exp = Nil
                                 \/ object.exp > Now
    /\ flags.size # None => InRange(object.size, flags.size, 0)
    /\ CASE flags.expire = None -> TRUE
         [] flags.expire = << <<"noexpire">> >>  -> object.exp = Nil
         [] flags.expire = << <<"anyexpire">> >> -> object.exp # Nil
         [] OTHER -> /\ object.exp # Nil
                     /\ InRange(object.exp \div Second, flags.expire, Now \div Second)
    /\ object.kind = "aux" => flags.globalMeta # None
=============================================================================
