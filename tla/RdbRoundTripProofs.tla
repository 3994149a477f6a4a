-------------------------- MODULE RdbRoundTripProofs --------------------------
(***************************************************************************)
(* What an Encoder writes, a Decoder reads back: for every set of keys,    *)
(* databases, expirations and objects, any number of calls, and wherever   *)
(* the writing process ends.                                               *)
(*                                                                         *)
(* The invariant of the writing side speaks of every file that the call in *)
(* progress may still make of what is written so far: a step of the call   *)
(* leaves fewer such files, so that what is true of them all stays true.   *)
(***************************************************************************)
EXTENDS RdbRoundTrip, RdbEncoderProofs

-----------------------------------------------------------------------------
(* The whole tokens of a file, the positions beyond them, and the tokens a *)
(* statement writes.  All positions a reader cannot reach count as one.    *)

EndOf(f)     == IF f # <<>> /\ f[Len(f)] = Torn THEN Len(f) - 1 ELSE Len(f)
Past(f, p)   == p > EndOf(f) + 1
Has(f, p, t) == p <= EndOf(f) => f[p] = t
Same(f, p, q) == p = q \/ (Past(f, p) /\ Past(f, q))

StringForm(b, w) ==
    w \in { << StrHead(b), StrBody(b) >>, << LzfMark, LzfLen(b), StrHead(b), LzfBody(b) >> }

Form(x, w) ==
    \/ x[1] = "write" /\ w = << x[2] >>
    \/ x[1] = "str" /\ x[2][1] = "text" /\ w = << IntStr(x[2][2]) >>
    \/ x[1] \in {"str", "nan"} /\ StringForm(x[2], w)
    \/ x[1] = "lzf" /\ x[3] = 4
         /\ w = << LzfMark, LzfLen(x[2]), StrHead(x[2]), LzfBody(x[2]) >>
    \/ x[1] = "lzf" /\ x[3] = 3 /\ w = << LzfLen(x[2]), StrHead(x[2]), LzfBody(x[2]) >>
    \/ x[1] = "lzf" /\ x[3] = 2 /\ w = << StrHead(x[2]), LzfBody(x[2]) >>
    \/ x[1] = "lzf" /\ x[3] = 1 /\ w = << LzfBody(x[2]) >>
    \/ x[1] = "ttl" /\ w = << Op("opCodeExpireTimeMs"), Int64(x[2]) >>
    \/ x[1] = "sum" /\ \E c \in Seq(WrittenTokens) : w = << Crc(c) >>
    \/ x[1] = "set" /\ w = <<>>

(* The statement x makes what stands between p and q. *)
Spells(f, x, p, q) ==
    \/ Past(f, p) /\ Past(f, q)
    \/ \E w : /\ Form(x, w)
              /\ \A i \in 1..Len(w) : Has(f, p + i - 1, w[i])
              /\ Same(f, q, p + Len(w))

Spelled(f, C, p, q) ==
    \E at \in [1..(Len(C) + 1) -> Nat \ {0}] :
        /\ at[1] = p
        /\ at[Len(C) + 1] = q
        /\ \A i \in 1..Len(C) : Spells(f, C[i], at[i], at[i + 1])

LEMMA EndType ==
    ASSUME NEW S, NEW f \in Seq(S)
    PROVE  EndOf(f) \in Nat /\ EndOf(f) \in {Len(f), Len(f) - 1} /\ EndOf(f) <= Len(f)
BY EmptySeq DEF EndOf

(* A form of a statement is short, and empty only for a change of state. *)
LEMMA FormLength ==
    ASSUME NEW x, NEW w, Form(x, w)
    PROVE  Len(w) \in 0..4 /\ (x[1] # "set" => Len(w) \in 1..4)
BY DEF Form, StringForm

LEMMA SpellsWrite ==
    ASSUME NEW S, NEW f \in Seq(S), NEW t, NEW p \in Nat \ {0}, NEW q \in Nat \ {0}
    PROVE  Spells(f, W(t), p, q) <=> (Has(f, p, t) /\ Same(f, q, p + 1))
<1>1. EndOf(f) \in Nat
  BY EndType
<1>2. \A w : Form(W(t), w) <=> w = << t >>
  BY DEF Form, W
<1>3. Spells(f, W(t), p, q) <=> \/ Past(f, p) /\ Past(f, q)
                                \/ Has(f, p, t) /\ Same(f, q, p + 1)
  <2> DEFINE w == << t >>
  <2>1. Len(w) = 1 /\ w[1] = t
    OBVIOUS
  <2> HIDE DEF w
  <2>2. Spells(f, W(t), p, q) <=> \/ Past(f, p) /\ Past(f, q)
                                  \/ /\ \A i \in 1..Len(w) : Has(f, p + i - 1, w[i])
                                     /\ Same(f, q, p + Len(w))
    BY <1>2 DEF Spells, w
  <2>3. (\A i \in 1..Len(w) : Has(f, p + i - 1, w[i])) <=> Has(f, p, t)
    <3>1. p + 1 - 1 = p
      OBVIOUS
    <3>2. \A i \in 1..Len(w) : i = 1
      BY <2>1
    <3> QED BY <2>1, <3>1, <3>2
  <2> QED BY <2>1, <2>2, <2>3
<1> QED BY <1>1, <1>3 DEF Past, Has, Same

LEMMA SpelledNone ==
    ASSUME NEW f, NEW C, Len(C) = 0, NEW p \in Nat \ {0}, NEW q
    PROVE  Spelled(f, C, p, q) <=> p = q
<1>1. Spelled(f, C, p, q) => p = q
  BY DEF Spelled
<1>2. p = q => Spelled(f, C, p, q)
  <2> DEFINE at == [ i \in 1..1 |-> p ]
  <2>1. at \in [1..(Len(C) + 1) -> Nat \ {0}] /\ at[1] = p /\ at[Len(C) + 1] = p
    OBVIOUS
  <2> HIDE DEF at
  <2> QED BY <2>1 DEF Spelled
<1> QED BY <1>1, <1>2

(* A statement, and the rest. *)
LEMMA SpelledCons ==
    ASSUME NEW f, NEW C, NEW D, Len(D) \in Nat, Len(C) = Len(D) + 1,
           \A i \in 1..Len(D) : C[i + 1] = D[i],
           NEW p \in Nat \ {0}, NEW r \in Nat \ {0}, NEW q,
           Spells(f, C[1], p, r), Spelled(f, D, r, q)
    PROVE  Spelled(f, C, p, q)
<1>1. PICK at \in [1..(Len(D) + 1) -> Nat \ {0}] :
             /\ at[1] = r
             /\ at[Len(D) + 1] = q
             /\ \A i \in 1..Len(D) : Spells(f, D[i], at[i], at[i + 1])
  BY DEF Spelled
<1> DEFINE bt == [ i \in 1..(Len(C) + 1) |-> IF i = 1 THEN p ELSE at[i - 1] ]
<1>2. bt \in [1..(Len(C) + 1) -> Nat \ {0}]
  OBVIOUS
<1>3. bt[1] = p /\ bt[2] = r /\ \A i \in 1..(Len(D) + 1) : bt[i + 1] = at[i]
  BY <1>1
<1> HIDE DEF bt
<1>4. bt[Len(C) + 1] = q
  BY <1>1, <1>3
<1>5. ASSUME NEW i \in 1..Len(C)
      PROVE  Spells(f, C[i], bt[i], bt[i + 1])
  <2>1. CASE i = 1
    BY <1>3, <2>1
  <2>2. CASE i # 1
    <3> DEFINE j == i - 1
    <3>1. j \in 1..Len(D) /\ i = j + 1
      BY <2>2
    <3> HIDE DEF j
    <3>2. /\ C[i] = D[j] /\ bt[i] = at[j] /\ bt[i + 1] = at[j + 1]
      BY <1>3, <3>1
    <3> QED BY <1>1, <3>1, <3>2
  <2> QED BY <2>1, <2>2
<1> QED BY <1>2, <1>3, <1>4, <1>5 DEF Spelled

(* What two lists of statements make stands one behind the other. *)
LEMMA SpelledSplit ==
    ASSUME NEW f, NEW C, NEW A, NEW B, Len(A) \in Nat, Len(B) \in Nat,
           Len(C) = Len(A) + Len(B),
           \A i \in 1..Len(A) : C[i] = A[i],
           \A i \in 1..Len(B) : C[Len(A) + i] = B[i],
           NEW p, NEW q, Spelled(f, C, p, q)
    PROVE  \E r \in Nat \ {0} : Spelled(f, A, p, r) /\ Spelled(f, B, r, q)
<1>1. PICK at \in [1..(Len(C) + 1) -> Nat \ {0}] :
             /\ at[1] = p
             /\ at[Len(C) + 1] = q
             /\ \A i \in 1..Len(C) : Spells(f, C[i], at[i], at[i + 1])
  BY DEF Spelled
<1> DEFINE r == at[Len(A) + 1]
           ft == [ i \in 1..(Len(A) + 1) |-> at[i] ]
           bt == [ i \in 1..(Len(B) + 1) |-> at[Len(A) + i] ]
<1>2. r \in Nat \ {0}
  OBVIOUS
<1>3. Spelled(f, A, p, r)
  <2>1. ft \in [1..(Len(A) + 1) -> Nat \ {0}] /\ \A i \in 1..(Len(A) + 1) : ft[i] = at[i]
    OBVIOUS
  <2> HIDE DEF ft
  <2>2. ft[1] = p /\ ft[Len(A) + 1] = r
    BY <1>1, <2>1
  <2>3. ASSUME NEW i \in 1..Len(A)
        PROVE  Spells(f, A[i], ft[i], ft[i + 1])
    <3>1. i \in 1..Len(C) /\ i \in 1..(Len(A) + 1) /\ i + 1 \in 1..(Len(A) + 1)
      OBVIOUS
    <3>2. ft[i] = at[i] /\ ft[i + 1] = at[i + 1]
      BY <2>1, <3>1, Zenon
    <3> QED BY <1>1, <3>1, <3>2
  <2> HIDE DEF r
  <2> QED BY <2>1, <2>2, <2>3 DEF Spelled
<1>4. Spelled(f, B, r, q)
  <2>1. /\ bt \in [1..(Len(B) + 1) -> Nat \ {0}]
        /\ \A i \in 1..(Len(B) + 1) : bt[i] = at[Len(A) + i]
    OBVIOUS
  <2> HIDE DEF bt
  <2>2. bt[1] = r /\ bt[Len(B) + 1] = q
    BY <1>1, <2>1
  <2>3. ASSUME NEW i \in 1..Len(B)
        PROVE  Spells(f, B[i], bt[i], bt[i + 1])
    <3> DEFINE j == Len(A) + i
    <3>1. /\ j \in 1..Len(C) /\ i \in 1..(Len(B) + 1) /\ i + 1 \in 1..(Len(B) + 1)
          /\ Len(A) + (i + 1) = j + 1
      OBVIOUS
    <3>2. bt[i] = at[j] /\ C[j] = B[i]
      BY <2>1, <3>1, Zenon
    <3>3. bt[i + 1] = at[j + 1]
      BY <2>1, <3>1
    <3> HIDE DEF j
    <3> QED BY <1>1, <3>1, <3>2, <3>3
  <2> HIDE DEF r
  <2> QED BY <2>1, <2>2, <2>3 DEF Spelled
<1> QED BY <1>2, <1>3, <1>4

(* No statement comes back from beyond the file. *)
LEMMA SpellsOn ==
    ASSUME NEW S, NEW f \in Seq(S), NEW x, NEW p \in Nat \ {0}, NEW q \in Nat \ {0},
           Spells(f, x, p, q)
    PROVE  (Past(f, p) => Past(f, q)) /\ (p > 1 => q > 1)
<1>1. EndOf(f) \in Nat
  BY EndType
<1>2. ASSUME NEW w, Form(x, w), Same(f, q, p + Len(w))
      PROVE  (Past(f, p) => Past(f, q)) /\ (p > 1 => q > 1)
  <2>1. Len(w) \in Nat
    BY <1>2, FormLength
  <2> QED BY <1>1, <1>2, <2>1 DEF Same, Past
<1> QED BY <1>1, <1>2 DEF Spells, Past

LEMMA PositionsOn ==
    ASSUME NEW S, NEW f \in Seq(S), NEW C, NEW n \in Nat, Len(C) = n,
           NEW at \in [1..(n + 1) -> Nat \ {0}],
           \A i \in 1..n : Spells(f, C[i], at[i], at[i + 1]),
           NEW i \in 1..(n + 1)
    PROVE  /\ Past(f, at[1]) => Past(f, at[i])
           /\ Past(f, at[i]) => Past(f, at[n + 1])
           /\ at[1] > 1 => at[i] > 1
<1>1. \A k \in 1..n : /\ Past(f, at[k]) => Past(f, at[k + 1])
                      /\ at[k] > 1 => at[k + 1] > 1
  BY SpellsOn
<1> DEFINE T == {k \in 0..n : (Past(f, at[1]) => Past(f, at[k + 1]))
                                /\ (at[1] > 1 => at[k + 1] > 1)}
<1>2. 0 \in T
  OBVIOUS
<1>3. \A k \in 1..n : k - 1 \in T => k \in T
  <2> SUFFICES ASSUME NEW k \in 1..n, k - 1 \in T
               PROVE  k \in T
    OBVIOUS
  <2>1. (k - 1) + 1 = k
    OBVIOUS
  <2> QED BY <1>1, <2>1
<1>4. 0..n \subseteq T
  <2> HIDE DEF T
  <2> QED BY <1>2, <1>3, UpTo
<1> DEFINE U == {k \in 0..n : Past(f, at[n + 1 - k]) => Past(f, at[n + 1])}
<1>5. 0 \in U
  OBVIOUS
<1>6. \A k \in 1..n : k - 1 \in U => k \in U
  <2> SUFFICES ASSUME NEW k \in 1..n, k - 1 \in U
               PROVE  k \in U
    OBVIOUS
  <2>1. n + 1 - (k - 1) = (n + 1 - k) + 1 /\ n + 1 - k \in 1..n
    OBVIOUS
  <2> QED BY <1>1, <2>1
<1>7. 0..n \subseteq U
  <2> HIDE DEF U
  <2> QED BY <1>5, <1>6, UpTo
<1> DEFINE a == i - 1
           b == n + 1 - i
<1>8. a \in 0..n /\ b \in 0..n /\ a + 1 = i /\ n + 1 - b = i
  OBVIOUS
<1> HIDE DEF a, b
<1>9. a \in T /\ b \in U
  BY <1>4, <1>7, <1>8, Zenon
<1> QED BY <1>8, <1>9

LEMMA SpelledOn ==
    ASSUME NEW S, NEW f \in Seq(S), NEW C, Len(C) \in Nat, NEW p \in Nat, NEW q \in Nat,
           Spelled(f, C, p, q)
    PROVE  p # 0 /\ q # 0 /\ (Past(f, p) => Past(f, q)) /\ (p > 1 => q > 1)
<1>1. PICK at \in [1..(Len(C) + 1) -> Nat \ {0}] :
             /\ at[1] = p
             /\ at[Len(C) + 1] = q
             /\ \A i \in 1..Len(C) : Spells(f, C[i], at[i], at[i + 1])
  BY DEF Spelled
<1>2. Len(C) + 1 \in 1..(Len(C) + 1)
  OBVIOUS
<1>3. /\ Past(f, at[1]) => Past(f, at[Len(C) + 1])
      /\ at[1] > 1 => at[Len(C) + 1] > 1
  BY <1>1, <1>2, PositionsOn
<1> QED BY <1>1, <1>2, <1>3

-----------------------------------------------------------------------------
(* What is left of a call: any statements, and the last one sets the state *)
(* the call leads to.  A compressed form only with compression; a second   *)
(* TTL option only when the caller may pass one.                           *)

InnerInstrs ==
    ({"write"} \X WrittenTokens) \cup ({"str", "nan"} \X Bytes)
      \cup {x \in {"lzf"} \X Bytes \X (1..4) : Compress}
      \cup ({"ttl"} \X TTLs) \cup {<<"sum">>, <<"set", "WrittenTTL">>}

NoTTL(q) == \A i \in 1..Len(q) : q[i][1] # "ttl"

Rest(q, s) ==
    /\ q # <<>>
    /\ q \in Seq(InnerInstrs \cup {<<"set", s>>})
    /\ q[Len(q)] = <<"set", s>>
    /\ \A i \in 1..(Len(q) - 1) : q[i] \in InnerInstrs
    /\ MaxTTLOptions <= 1 => \A i \in 2..Len(q) : q[i][1] # "ttl"

Target(kind) == CASE kind = "header" -> "WrittenHeader"
                  [] kind = "aux"    -> "WrittenAux"
                  [] kind = "db"     -> "WrittenDBHeader"
                  [] kind = "object" -> "WrittenObject"
                  [] OTHER           -> "WritingEnd"

(* The objects as the decoder delivers them. *)
Ents == {Entry(d, k, n, None, None, Canonical(o)) : d \in Int, k \in Keys, n \in Nat, o \in Objects}

Called ==
    \/ call \in {<<"header">>, <<"aux">>, <<"end">>}
    \/ \E d \in DBs : call = <<"db", d>>
    \/ \E e \in Ents : call = <<"object", e>>

(* Nothing is left of a token that the writer took a part of. *)
Trusted == health = "clean" /\ (~Compress \/ MaxFaults = 0 \/ faults = 0)

LinkInv ==
    /\ log \in Seq(Ents)
    /\ ~Idle => Called /\ Rest(todo, Target(call[1]))
    /\ ~Idle /\ health = "clean" /\ MaxTTLOptions <= 1 /\ now[1] = "ttl" =>
         state \in {"WrittenDBHeader", "WrittenObject"}
    /\ Idle /\ health = "clean" => /\ state # "WrittenTTL"
                                   /\ state \in {"WrittenDBHeader", "WrittenObject"} => db # None
    /\ ~Idle /\ health = "clean" /\ call[1] = "object" => db # None
    /\ MaxTTLOptions <= 1 /\ faults = 0 => health = "clean"
    /\ Trusted => EndOf(out) = Len(out)

LEMMA InnerKinds ==
    ASSUME NEW x \in InnerInstrs
    PROVE  /\ x[1] \in {"write", "str", "nan", "lzf", "ttl", "sum", "set"}
           /\ x[1] = "write" => x[2] \in WrittenTokens
           /\ x[1] \in {"str", "nan"} => x[2] \in Bytes
           /\ x[1] = "lzf" => x[2] \in Bytes /\ x[3] \in 1..4 /\ Compress
           /\ x[1] = "ttl" => x[2] \in TTLs
           /\ x[1] = "set" => x = <<"set", "WrittenTTL">>
BY DEF InnerInstrs

LEMMA RestHead ==
    ASSUME NEW q, NEW s, Rest(q, s)
    PROVE  \/ q = << <<"set", s>> >>
           \/ /\ Head(q) \in InnerInstrs /\ Rest(Tail(q), s)
              /\ MaxTTLOptions <= 1 => NoTTL(Tail(q))
<1>1. q \in Seq(InnerInstrs \cup {<<"set", s>>}) /\ q # <<>>
  BY DEF Rest
<1>2. CASE Len(q) = 1
  BY <1>1, <1>2, HeadTail DEF Rest
<1>3. CASE Len(q) # 1
  <2>1. Len(q) \in Nat /\ 1 \in 1..(Len(q) - 1)
    BY <1>1, <1>3, HeadTail
  <2>2. Head(q) \in InnerInstrs
    BY <1>1, <2>1, HeadTail DEF Rest
  <2>3. /\ Tail(q) \in Seq(InnerInstrs \cup {<<"set", s>>}) /\ Tail(q) # <<>>
        /\ Len(Tail(q)) = Len(q) - 1
        /\ \A i \in 1..(Len(q) - 1) : Tail(q)[i] = q[i+1]
    BY <1>1, <1>3, HeadTail
  <2>4. Tail(q)[Len(Tail(q))] = <<"set", s>>
    BY <2>1, <2>3 DEF Rest
  <2>5. \A i \in 1..(Len(Tail(q)) - 1) : Tail(q)[i] \in InnerInstrs
    BY <2>1, <2>3 DEF Rest
  <2>6. MaxTTLOptions <= 1 => NoTTL(Tail(q))
    BY <2>1, <2>3 DEF Rest, NoTTL
  <2>7. MaxTTLOptions <= 1 => \A i \in 2..Len(Tail(q)) : Tail(q)[i][1] # "ttl"
    BY <2>3, <2>6 DEF NoTTL
  <2> QED BY <2>2, <2>3, <2>4, <2>5, <2>6, <2>7 DEF Rest
<1> QED BY <1>2, <1>3

LEMMA RestConcat ==
    ASSUME NEW p \in Seq(InnerInstrs), NEW q, NEW s, Rest(q, s),
           MaxTTLOptions <= 1 => NoTTL(p) /\ NoTTL(q)
    PROVE  /\ Rest(p \o q, s)
           /\ MaxTTLOptions <= 1 => NoTTL(p \o q)
<1> DEFINE S == InnerInstrs \cup {<<"set", s>>}
<1>1. q \in Seq(S) /\ p \in Seq(S) /\ q # <<>>
  BY DEF Rest
<1>2. Len(q) \in Nat \ {0} /\ Len(p) \in Nat
  BY <1>1, EmptySeq
<1>3. /\ p \o q \in Seq(S)
      /\ Len(p \o q) = Len(p) + Len(q)
      /\ \A i \in 1..Len(p) : (p \o q)[i] = p[i]
      /\ \A i \in 1..Len(q) : (p \o q)[Len(p) + i] = q[i]
  BY <1>1, ConcatProperties
<1>4. p \o q # <<>> /\ (p \o q)[Len(p \o q)] = <<"set", s>>
  BY <1>2, <1>3 DEF Rest
<1>5. \A i \in 1..Len(p \o q) : \/ i \in 1..Len(p) /\ (p \o q)[i] = p[i]
                                \/ \E j \in 1..Len(q) : i = Len(p) + j /\ (p \o q)[i] = q[j]
  <2> SUFFICES ASSUME NEW i \in 1..Len(p \o q), i \notin 1..Len(p)
               PROVE  \E j \in 1..Len(q) : i = Len(p) + j /\ (p \o q)[i] = q[j]
    BY <1>3
  <2>1. i - Len(p) \in 1..Len(q) /\ i = Len(p) + (i - Len(p))
    BY <1>2, <1>3
  <2> QED BY <1>3, <2>1
<1>6. \A i \in 1..(Len(p \o q) - 1) : (p \o q)[i] \in InnerInstrs
  <2> SUFFICES ASSUME NEW i \in 1..(Len(p \o q) - 1)
               PROVE  (p \o q)[i] \in InnerInstrs
    OBVIOUS
  <2>1. i \in 1..Len(p \o q)
    BY <1>2, <1>3
  <2>2. CASE i \in 1..Len(p) /\ (p \o q)[i] = p[i]
    BY <2>2
  <2>3. ASSUME NEW j \in 1..Len(q), i = Len(p) + j, (p \o q)[i] = q[j]
        PROVE  (p \o q)[i] \in InnerInstrs
    <3>1. j \in 1..(Len(q) - 1)
      BY <1>2, <1>3, <2>3
    <3> QED BY <2>3, <3>1 DEF Rest
  <2> QED BY <1>5, <2>1, <2>2, <2>3
<1>7. MaxTTLOptions <= 1 => NoTTL(p \o q)
  BY <1>5 DEF NoTTL
<1>8. MaxTTLOptions <= 1 => \A i \in 2..Len(p \o q) : (p \o q)[i][1] # "ttl"
  BY <1>2, <1>3, <1>7 DEF NoTTL
<1> QED BY <1>3, <1>4, <1>6, <1>7, <1>8 DEF Rest

LEMMA TTLStatements ==
    ASSUME NEW n \in TTLs
    PROVE  LET ws == << W(Op("opCodeExpireTimeMs")), W(Int64(n)), <<"set", "WrittenTTL">> >>
           IN  ws \in Seq(InnerInstrs) /\ NoTTL(ws)
<1>1. W(Op("opCodeExpireTimeMs")) \in InnerInstrs
  BY DEF W, Op, InnerInstrs, WrittenTokens, OpCodes
<1>2. n \in Int
  BY EncoderAssumption
<1>3. W(Int64(n)) \in InnerInstrs
  BY <1>2 DEF W, Int64, InnerInstrs, WrittenTokens
<1>4. <<"set", "WrittenTTL">> \in InnerInstrs
  BY DEF InnerInstrs
<1>5. << W(Op("opCodeExpireTimeMs")), W(Int64(n)), <<"set", "WrittenTTL">> >> \in Seq(InnerInstrs)
  BY <1>1, <1>3, <1>4
<1> QED BY <1>5 DEF NoTTL, W

(* The statements that take the place of one. *)
LEMMA Replacements ==
    ASSUME NEW b \in Bytes
    PROVE  /\ writeSimpleString(b) \in Seq(InnerInstrs) /\ NoTTL(writeSimpleString(b))
           /\ \A ws \in writeNanString(b) \cup writeString(b) :
                ws \in Seq(InnerInstrs) /\ NoTTL(ws)
           /\ \A n \in 1..4 : Compress => /\ << <<"lzf", b, n>> >> \in Seq(InnerInstrs)
                                          /\ NoTTL(<< <<"lzf", b, n>> >>)
<1>1. W(StrHead(b)) \in InnerInstrs /\ W(StrBody(b)) \in InnerInstrs
  BY DEF W, StrHead, StrBody, InnerInstrs, WrittenTokens
<1>2. writeSimpleString(b) \in Seq(InnerInstrs) /\ NoTTL(writeSimpleString(b))
  BY <1>1 DEF writeSimpleString, NoTTL, W
<1>3. ASSUME NEW n \in 1..4, Compress
      PROVE  << <<"lzf", b, n>> >> \in Seq(InnerInstrs) /\ NoTTL(<< <<"lzf", b, n>> >>)
  <2>1. <<"lzf", b, n>> \in InnerInstrs
    BY <1>3 DEF InnerInstrs
  <2> QED BY <2>1 DEF NoTTL
<1>4. ASSUME NEW ws \in writeNanString(b)
      PROVE  ws \in Seq(InnerInstrs) /\ NoTTL(ws)
  <2>1. \/ ws = writeSimpleString(b)
        \/ ws = << <<"lzf", b, 4>> >> /\ Compress
    <3>1. \A z \in Compressions(b) : Compress \/ z = FALSE
      BY DEF Compressions
    <3>2. \A z \in Compressions(b) :
            LET v == IF z THEN writeLZFString(b) ELSE writeSimpleString(b)
            IN  v \in {writeLZFString(b), writeSimpleString(b)}
                  /\ (~Compress => v = writeSimpleString(b))
      BY <3>1
    <3>3. /\ ws \in {writeLZFString(b), writeSimpleString(b)}
          /\ ~Compress => ws = writeSimpleString(b)
      BY <1>4, <3>2 DEF writeNanString
    <3>4. Compress \in BOOLEAN
      BY EncoderAssumption
    <3> QED BY <3>3, <3>4 DEF writeLZFString
  <2>2. 4 \in 1..4
    OBVIOUS
  <2>3. Compress => << <<"lzf", b, 4>> >> \in Seq(InnerInstrs) /\ NoTTL(<< <<"lzf", b, 4>> >>)
    BY <1>3, <2>2, Zenon
  <2> QED BY <1>2, <2>1, <2>3, Zenon
<1>5. ASSUME NEW ws \in writeString(b)
      PROVE  ws \in Seq(InnerInstrs) /\ NoTTL(ws)
  <2>1. CASE b[1] = "text" /\ b[2] \in IntStrings
    <3>1. b[2] \in Strings
      BY <2>1, StringsAssumption
    <3>2. W(IntStr(b[2])) \in InnerInstrs
      BY <3>1 DEF W, IntStr, InnerInstrs, WrittenTokens
    <3>3. ws = << W(IntStr(b[2])) >>
      BY <2>1 DEF writeString
    <3> QED BY <3>2, <3>3 DEF NoTTL, W
  <2>2. CASE ~(b[1] = "text" /\ b[2] \in IntStrings)
    <3>1. writeString(b) = writeNanString(b)
      BY <2>2, Zenon DEF writeString
    <3> QED BY <1>4, <1>5, <3>1
  <2> QED BY <2>1, <2>2
<1> QED BY <1>2, <1>3, <1>4, <1>5

-----------------------------------------------------------------------------
(* The statements of the five calls. *)

HeaderCall == << W(Magic(IF Valkey THEN "VALKEY080" ELSE "REDIS0011")),
                 <<"set", "WrittenHeader">> >>
AuxCall(k, v) == << W(Op("opCodeAux")), Str(k), Str(v), <<"set", "WrittenAux">> >>
TTLs_(opts) == [ i \in 1..Len(opts) |-> <<"ttl", opts[i]>> ]
ObjectCall(opts, ws) == TTLs_(opts) \o ws \o << <<"set", "WrittenObject">> >>

LEMMA BodyInner ==
    /\ BodyWrites \subseteq InnerInstrs
    /\ FlagInstrs \subseteq InnerInstrs
    /\ \A x \in OpCodes : W(Op(x)) \in InnerInstrs
    /\ \A x \in BodyWrites \cup FlagInstrs : x[1] # "ttl" /\ x[1] # "set"
    /\ \A d \in Nat : W(DbIndex(d)) \in InnerInstrs
    /\ \A m \in Magics : W(Magic(m)) \in InnerInstrs
<1>1. BodyTokens \subseteq WrittenTokens
  BY DEF BodyTokens, WrittenTokens
<1>2. BodyWrites \subseteq InnerInstrs
  BY <1>1 DEF BodyWrites, InnerInstrs
<1>3. FlagInstrs \subseteq InnerInstrs
  BY DEF FlagInstrs, InnerInstrs, WrittenTokens, W, Op
<1>4. \A x \in OpCodes : W(Op(x)) \in InnerInstrs
  BY DEF InnerInstrs, WrittenTokens, W, Op
<1>5. \A x \in BodyWrites \cup FlagInstrs : x[1] # "ttl" /\ x[1] # "set"
  BY DEF BodyWrites, FlagInstrs, W
<1>6. \A d \in Nat : W(DbIndex(d)) \in InnerInstrs
  BY DEF InnerInstrs, WrittenTokens, W, DbIndex
<1>7. \A m \in Magics : W(Magic(m)) \in InnerInstrs
  BY DEF InnerInstrs, WrittenTokens, W, Magic
<1> QED BY <1>2, <1>3, <1>4, <1>5, <1>6, <1>7

LEMMA RestLast ==
    ASSUME NEW p \in Seq(InnerInstrs), NEW s,
           MaxTTLOptions <= 1 => \A i \in 2..Len(p) : p[i][1] # "ttl"
    PROVE  Rest(p \o << <<"set", s>> >>, s)
<1> DEFINE S == InnerInstrs \cup {<<"set", s>>}
           z == << <<"set", s>> >>
           q == p \o z
<1>1. p \in Seq(S) /\ z \in Seq(S) /\ Len(z) = 1 /\ z[1] = <<"set", s>> /\ z[1][1] # "ttl"
  OBVIOUS
<1> HIDE DEF S, z
<1>a. /\ q \in Seq(S) /\ Len(q) = Len(p) + Len(z)
      /\ \A i \in 1..(Len(p) + Len(z)) : q[i] = IF i <= Len(p) THEN p[i] ELSE z[i - Len(p)]
  <2>1. p \in Seq(S) /\ z \in Seq(S)
    BY <1>1
  <2> QED BY <2>1, ConcatProperties, Zenon
<1>b. Len(p) \in Nat
  BY <1>1, LenProperties
<1>2. /\ q \in Seq(S) /\ Len(q) = Len(p) + 1 /\ Len(p) \in Nat
      /\ \A i \in 1..(Len(p) + 1) : q[i] = IF i <= Len(p) THEN p[i] ELSE z[i - Len(p)]
  BY <1>1, <1>a, <1>b
<1> HIDE DEF q
<1>3. q # <<>> /\ q[Len(q)] = <<"set", s>>
  BY <1>1, <1>2, EmptySeq
<1>4. \A i \in 1..(Len(q) - 1) : q[i] \in InnerInstrs
  BY <1>2
<1>5. MaxTTLOptions <= 1 => \A i \in 2..Len(q) : q[i][1] # "ttl"
  BY <1>1, <1>2
<1> QED BY <1>2, <1>3, <1>4, <1>5 DEF Rest, S, q, z

LEMMA ObjectStatements ==
    ASSUME NEW ws \in Encodings
    PROVE  /\ ws \in Seq(InnerInstrs) /\ NoTTL(ws) /\ ws # <<>>
           /\ \A i \in 1..Len(ws) : ws[i][1] # "set"
<1>1. ws \in Seq(PlainInstrs) /\ Len(ws) \in Nat
  BY DEF Encodings
<1>2. \A i \in 1..Len(ws) : ws[i] \in BodyWrites \cup FlagInstrs
  BY <1>1 DEF Encodings
<1>3. \A i \in 1..Len(ws) : ws[i] \in InnerInstrs /\ ws[i][1] # "ttl" /\ ws[i][1] # "set"
  BY <1>2, BodyInner
<1> QED BY <1>1, <1>3 DEF Encodings, NoTTL

LEMMA OptionsType ==
    ASSUME NEW opts \in TTLOptions
    PROVE  /\ opts \in Seq(TTLs) /\ Len(opts) <= MaxTTLOptions
           /\ TTLs_(opts) \in Seq({"ttl"} \X TTLs)
           /\ Len(TTLs_(opts)) = Len(opts)
<1>1. opts \in Seq(TTLs) /\ Len(opts) <= MaxTTLOptions
  BY EncoderAssumption, FunctionIsSeq DEF TTLOptions
<1>2. TTLs_(opts) \in [1..Len(opts) -> {"ttl"} \X TTLs]
  BY <1>1 DEF TTLs_
<1>3. Len(opts) \in Nat
  BY <1>1
<1> QED BY <1>1, <1>2, <1>3, FunctionIsSeq

LEMMA CallRests ==
    /\ Rest(HeaderCall, "WrittenHeader")
    /\ \A k, v \in Strings : Rest(AuxCall(k, v), "WrittenAux")
    /\ \A d \in Nat : Rest(DBCall(d), "WrittenDBHeader")
    /\ \A opts \in TTLOptions, ws \in Encodings : Rest(ObjectCall(opts, ws), "WrittenObject")
    /\ Rest(EndCall, "WritingEnd")
<1>1. Rest(HeaderCall, "WrittenHeader")
  <2> DEFINE m == IF Valkey THEN "VALKEY080" ELSE "REDIS0011"
  <2>1. W(Magic(m)) \in InnerInstrs
    BY BodyInner DEF Magics
  <2>2. W(Magic(m))[1] = "write"
    BY DEF W
  <2> QED BY <2>1, <2>2 DEF HeaderCall, Rest
<1>2. ASSUME NEW k \in Strings, NEW v \in Strings
      PROVE  Rest(AuxCall(k, v), "WrittenAux")
  <2>1. W(Op("opCodeAux")) \in InnerInstrs /\ Str(k) \in InnerInstrs /\ Str(v) \in InnerInstrs
    BY BodyInner, BodyStatements DEF OpCodes
  <2>2. Str(k)[1] # "ttl" /\ Str(v)[1] # "ttl"
    BY DEF Str
  <2> QED BY <2>1, <2>2 DEF AuxCall, Rest
<1>3. ASSUME NEW d \in Nat
      PROVE  Rest(DBCall(d), "WrittenDBHeader")
  <2>1. /\ W(Op("opCodeSelectDB")) \in InnerInstrs /\ W(DbIndex(d)) \in InnerInstrs
        /\ W(Op("opCodeResizeDB")) \in InnerInstrs /\ W(Length(0)) \in InnerInstrs
    BY BodyInner, BodyStatements DEF OpCodes
  <2>2. /\ W(Op("opCodeSelectDB"))[1] # "ttl" /\ W(DbIndex(d))[1] # "ttl"
        /\ W(Op("opCodeResizeDB"))[1] # "ttl" /\ W(Length(0))[1] # "ttl"
    BY DEF W
  <2> HIDE DEF W
  <2> QED BY <2>1, <2>2 DEF DBCall, Rest
<1>4. ASSUME NEW opts \in TTLOptions, NEW ws \in Encodings
      PROVE  Rest(ObjectCall(opts, ws), "WrittenObject")
  <2> DEFINE p == TTLs_(opts)
             r == p \o ws
  <2>1. /\ p \in Seq({"ttl"} \X TTLs) /\ Len(p) <= MaxTTLOptions
        /\ ws \in Seq(InnerInstrs) /\ NoTTL(ws)
    BY OptionsType, ObjectStatements
  <2>2. p \in Seq(InnerInstrs)
    BY <2>1 DEF InnerInstrs
  <2> HIDE DEF p
  <2>3. /\ r \in Seq(InnerInstrs) /\ Len(r) = Len(p) + Len(ws)
        /\ Len(p) \in Nat /\ Len(ws) \in Nat
        /\ \A i \in 1..(Len(p) + Len(ws)) : r[i] = IF i <= Len(p) THEN p[i] ELSE ws[i - Len(p)]
    BY <2>1, <2>2, ConcatProperties
  <2> HIDE DEF r
  <2>4. MaxTTLOptions \in Nat
    BY EncoderAssumption
  <2>5. ASSUME MaxTTLOptions <= 1, NEW i \in 2..Len(r)
        PROVE  r[i][1] # "ttl"
    <3>1. i - Len(p) \in 1..Len(ws) /\ r[i] = ws[i - Len(p)]
      BY <2>1, <2>3, <2>4, <2>5
    <3> QED BY <2>1, <3>1 DEF NoTTL
  <2>6. Rest(r \o << <<"set", "WrittenObject">> >>, "WrittenObject")
    BY <2>3, <2>5, RestLast
  <2> QED BY <2>6 DEF ObjectCall, p, r
<1>5. Rest(EndCall, "WritingEnd")
  <2>1. W(Op("opCodeEOF")) \in InnerInstrs /\ <<"sum">> \in InnerInstrs
    BY BodyInner DEF OpCodes, InnerInstrs
  <2> QED BY <2>1 DEF EndCall, Rest
<1> QED BY <1>1, <1>2, <1>3, <1>4, <1>5

-----------------------------------------------------------------------------
(* How a call begins, and what its steps do. *)

LEMMA Begun ==
    ASSUME TypeInv, Caller, ~Refuse
    PROVE  /\ Idle /\ UNCHANGED <<state, out, crc, faults, db, log>>
           /\ health' = IF health = "clean" THEN "clean" ELSE "spoiled"
           /\ \/ state = "Start" /\ call' = <<"header">> /\ todo' = HeaderCall
              \/ state # "Start" /\ call' = <<"aux">>
                   /\ \E k, v \in Keys : todo' = AuxCall(k, v)
              \/ state # "Start" /\ \E d \in DBs : call' = <<"db", d>> /\ todo' = DBCall(d)
              \/ state \in InDB
                   /\ \E k \in Keys, o \in Objects, opts \in TTLOptions :
                        /\ call' = <<"object", Requested(k, o, opts)>>
                        /\ \E ws \in ObjectWrites(k, o) : todo' = ObjectCall(opts, ws)
              \/ state # "Start" /\ call' = <<"end">> /\ todo' = EndCall
<1>0. state \in States
  BY DEF TypeInv, TypeOK
<1>1. CASE WriteHeader
  <2>1. Begin(<<"header">>, HeaderCall) /\ state = "Start"
    BY <1>0, <1>1, Allowed DEF WriteHeader, HeaderCall
  <2> QED BY <2>1 DEF Begin
<1>2. ASSUME NEW k \in Keys, NEW v \in Keys, WriteAux(k, v)
      PROVE  Begin(<<"aux">>, AuxCall(k, v)) /\ state # "Start"
  BY <1>0, <1>2, Allowed DEF WriteAux, AuxCall
<1>3. ASSUME NEW d \in DBs, WriteDBHeader(d)
      PROVE  Begin(<<"db", d>>, DBCall(d)) /\ state # "Start"
  BY <1>0, <1>3, Allowed DEF WriteDBHeader, DBCall
<1>4. ASSUME NEW k \in Keys, NEW o \in Objects, NEW opts \in TTLOptions, WriteObject(k, o, opts)
      PROVE  /\ state \in InDB
             /\ \E ws \in ObjectWrites(k, o) :
                  Begin(<<"object", Requested(k, o, opts)>>, ObjectCall(opts, ws))
  BY <1>0, <1>4, Allowed DEF WriteObject, ObjectCall, TTLs_
<1>5. CASE WriteEnd
  <2>1. Begin(<<"end">>, EndCall) /\ state # "Start"
    BY <1>0, <1>5, Allowed DEF WriteEnd, EndCall
  <2> QED BY <2>1 DEF Begin
<1>6. ASSUME NEW k \in Keys, NEW v \in Keys, WriteAux(k, v)
      PROVE  /\ Idle /\ UNCHANGED <<state, out, crc, faults, db, log>>
             /\ health' = IF health = "clean" THEN "clean" ELSE "spoiled"
             /\ state # "Start" /\ call' = <<"aux">> /\ todo' = AuxCall(k, v)
  BY <1>2, <1>6 DEF Begin
<1>7. ASSUME NEW d \in DBs, WriteDBHeader(d)
      PROVE  /\ Idle /\ UNCHANGED <<state, out, crc, faults, db, log>>
             /\ health' = IF health = "clean" THEN "clean" ELSE "spoiled"
             /\ state # "Start" /\ call' = <<"db", d>> /\ todo' = DBCall(d)
  BY <1>3, <1>7 DEF Begin
<1>8. ASSUME NEW k \in Keys, NEW o \in Objects, NEW opts \in TTLOptions, WriteObject(k, o, opts)
      PROVE  /\ Idle /\ UNCHANGED <<state, out, crc, faults, db, log>>
             /\ health' = IF health = "clean" THEN "clean" ELSE "spoiled"
             /\ state \in InDB
             /\ call' = <<"object", Requested(k, o, opts)>>
             /\ \E ws \in ObjectWrites(k, o) : todo' = ObjectCall(opts, ws)
  BY <1>4, <1>8 DEF Begin
<1> QED BY <1>1, <1>5, <1>6, <1>7, <1>8 DEF Caller

(* The three ways on, and the three ways out. *)
Writes(t) == out' = Append(out, t) /\ state' = state /\ faults' = faults

GoesOn ==
    \/ now[1] = "write" /\ Writes(now[2]) /\ todo' = rest
    \/ now[1] = "sum" /\ Writes(Crc(crc)) /\ todo' = rest
    \/ now[1] = "lzf" /\ now[3] = 1 /\ Writes(LzfToken(now[2], now[3])) /\ todo' = rest
    \/ now[1] = "lzf" /\ now[3] # 1 /\ Writes(LzfToken(now[2], now[3]))
         /\ todo' = << <<"lzf", now[2], now[3] - 1>> >> \o rest
    \/ now[1] \in {"str", "nan"} /\ UNCHANGED <<out, state, faults>>
         /\ \E ws \in IF now[1] = "str" THEN writeString(now[2]) ELSE writeNanString(now[2]) :
              todo' = ws \o rest
    \/ now[1] = "ttl" /\ UNCHANGED <<out, state, faults>>
         /\ todo' = << W(Op("opCodeExpireTimeMs")), W(Int64(now[2])),
                       <<"set", "WrittenTTL">> >> \o rest
    \/ now = <<"set", "WrittenTTL">> /\ UNCHANGED <<out, faults>>
         /\ state' = "WrittenTTL" /\ todo' = rest
    \/ now[1] = "lzf" /\ faults' = faults + 1 /\ faults < MaxFaults /\ state' = state
         /\ out' \in {out, Append(out, Torn)}
         /\ todo' = writeSimpleString(now[2]) \o rest

Returns == UNCHANGED <<out, faults>> /\ state' = Target(call[1])
             /\ todo = << <<"set", Target(call[1])>> >>

IsRefused == /\ now[1] = "ttl" /\ ~validateStateChange("WrittenTTL")
             /\ UNCHANGED <<out, faults, state>>

Breaks == /\ now[1] \in {"write", "sum"} /\ faults' = faults + 1 /\ faults < MaxFaults
          /\ state' = state /\ out' \in {out, Append(out, Torn)}

LEMMA StepCases ==
    ASSUME TypeInv, LinkInv, Step
    PROVE  /\ ~Idle /\ call' = call
           /\ \/ /\ GoesOn /\ Continue /\ todo' # <<>>
                 /\ now \in InnerInstrs /\ rest # <<>>
                 /\ Rest(rest, Target(call[1]))
                 /\ MaxTTLOptions <= 1 => NoTTL(rest)
              \/ Returns /\ Return("nil") /\ todo' = <<>>
              \/ /\ IsRefused \/ Breaks
                 /\ Return("error") /\ todo' = <<>>
                 /\ now \in InnerInstrs /\ rest # <<>>
                 /\ Rest(rest, Target(call[1]))
<1> DEFINE s == Target(call[1])
<1>1. ~Idle /\ call' = call
  BY DEF Step, WriteToken, Write, WriteLzfToken, WriteSum, WriteStr, WriteTTL, SetState, WriterFails
<1>2. Rest(todo, s)
  BY <1>1 DEF LinkInv
<1>3. \/ todo = << <<"set", s>> >>
      \/ /\ now \in InnerInstrs /\ Rest(rest, s)
         /\ MaxTTLOptions <= 1 => NoTTL(rest)
  BY <1>2, RestHead DEF now, rest
<1>4. Rest(rest, s) => rest # <<>>
  BY DEF Rest
<1>5. CASE todo = << <<"set", s>> >>
  <2>1. now = <<"set", s>> /\ rest = <<>>
    BY <1>5 DEF now, rest
  <2>2. SetState
    BY <2>1 DEF Step, WriteToken, WriteLzfToken, WriteSum, WriteStr, WriteTTL, SetState, WriterFails
  <2>3. Returns /\ Return("nil") /\ todo' = <<>>
    BY <1>5, <2>1, <2>2 DEF SetState, Returns
  <2> QED BY <1>1, <2>3
<1>6. CASE /\ now \in InnerInstrs /\ Rest(rest, s)
           /\ MaxTTLOptions <= 1 => NoTTL(rest)
  <2>1. \/ todo' # <<>> /\ Continue
        \/ todo' = <<>> /\ Return("error")
        \/ todo' = <<>> /\ Return("nil")
    BY TodoStep
  <2>2. rest # <<>>
    BY <1>4, <1>6
  <2>0. Continue => todo' # <<>>
    <3>1. ret = "none"
      BY <1>1 DEF TypeInv, TypeOK
    <3> QED BY <2>1, <3>1 DEF Continue, Return
  <2>3. (GoesOn /\ Continue /\ todo' # <<>>)
          \/ ((IsRefused \/ Breaks) /\ Return("error") /\ todo' = <<>>)
    <3>1. CASE WriteToken
      BY <2>2, <3>1 DEF WriteToken, Write, GoesOn, Writes
    <3>2. CASE WriteLzfToken
      <4>1. GoesOn
        BY <3>2 DEF WriteLzfToken, Write, GoesOn, Writes
      <4>2. Continue
        BY <3>2 DEF WriteLzfToken, Write
      <4> QED BY <2>0, <4>1, <4>2
    <3>3. CASE WriteSum
      BY <2>2, <3>3 DEF WriteSum, GoesOn, Writes
    <3>4. CASE WriteStr
      <4>1. Continue /\ now[1] \in {"str", "nan"} /\ UNCHANGED <<out, state, faults>>
        BY <3>4 DEF WriteStr
      <4>2. \E ws \in IF now[1] = "str" THEN writeString(now[2]) ELSE writeNanString(now[2]) :
              todo' = ws \o rest
        BY <3>4, Zenon DEF WriteStr
      <4>3. GoesOn
        BY <4>1, <4>2, Zenon DEF GoesOn
      <4>4. Continue /\ todo' # <<>>
        BY <2>0, <4>1, Zenon
      <4> QED BY <4>3, <4>4, Zenon
    <3>5. CASE WriteTTL
      <4>1. CASE validateStateChange("WrittenTTL")
        <5>1. Continue /\ now[1] = "ttl" /\ UNCHANGED <<out, state, faults>>
          BY <3>5, <4>1, Zenon DEF WriteTTL
        <5>2. todo' = << W(Op("opCodeExpireTimeMs")), W(Int64(now[2])),
                         <<"set", "WrittenTTL">> >> \o rest
          BY <3>5, <4>1, Zenon DEF WriteTTL
        <5>3. GoesOn
          BY <5>1, <5>2, Zenon DEF GoesOn
        <5> QED BY <2>0, <5>1, <5>3, Zenon
      <4>2. CASE ~validateStateChange("WrittenTTL")
        BY <3>5, <4>2 DEF WriteTTL, IsRefused
      <4> QED BY <4>1, <4>2
    <3>6. CASE SetState
      <4>1. now = <<"set", "WrittenTTL">>
        BY <1>6, <3>6, InnerKinds DEF SetState
      <4>2. Continue /\ todo' = rest
        BY <2>2, <3>6 DEF SetState
      <4>3. UNCHANGED <<out, faults>> /\ state' = "WrittenTTL"
        BY <3>6, <4>1 DEF SetState
      <4> QED BY <2>2, <4>1, <4>2, <4>3, Zenon DEF GoesOn
    <3>7. CASE WriterFails
      <4>1. CASE now[1] = "lzf"
        <5>1. Continue /\ GoesOn
          BY <3>7, <4>1 DEF WriterFails, GoesOn
        <5> QED BY <2>0, <5>1
      <4>2. CASE now[1] # "lzf"
        BY <3>7, <4>2 DEF WriterFails, Breaks
      <4> QED BY <4>1, <4>2
    <3> QED BY <3>1, <3>2, <3>3, <3>4, <3>5, <3>6, <3>7 DEF Step
  <2> QED BY <1>1, <1>6, <2>2, <2>3
<1> QED BY <1>3, <1>5, <1>6

LEMMA RequestedType ==
    ASSUME TypeInv, NEW k \in Keys, NEW o \in Objects, NEW opts \in TTLOptions
    PROVE  Requested(k, o, opts) \in Ents
<1>1. db \in Int
  <2>1. db \in DBs \cup {None}
    BY DEF TypeInv, TypeOK
  <2> QED BY <2>1, EncoderAssumption DEF None
<1>2. (IF opts = <<>> THEN 0 ELSE opts[Len(opts)]) \in Nat
  <2>1. opts \in Seq(TTLs) /\ TTLs \subseteq Nat
    BY OptionsType, EncoderAssumption
  <2>2. opts # <<>> => Len(opts) \in Nat \ {0}
    BY <2>1, HeadTail, Zenon
  <2>3. opts # <<>> => opts[Len(opts)] \in TTLs
    BY <2>1, <2>2
  <2>4. 0 \in Nat
    OBVIOUS
  <2>5. opts # <<>> => opts[Len(opts)] \in Nat
    BY <2>1, <2>3, Zenon
  <2>6. CASE opts = <<>>
    BY <2>4, <2>6
  <2>7. CASE opts # <<>>
    BY <2>5, <2>7
  <2> QED BY <2>6, <2>7, Zenon
<1> DEFINE n == IF opts = <<>> THEN 0 ELSE opts[Len(opts)]
<1>3. n \in Nat /\ Requested(k, o, opts) = Entry(db, k, n, None, None, Canonical(o))
  BY <1>2 DEF Requested
<1> HIDE DEF n
<1>4. Entry(db, k, n, None, None, Canonical(o)) \in Ents
  BY <1>1, <1>3 DEF Ents
<1> QED BY <1>3, <1>4

LEMMA ReturnEffect ==
    ASSUME TypeInv, NEW r, Return(r)
    PROVE  /\ health' = "clean" => r # "error" /\ health = "clean"
           /\ health' = "clean" <=> (r # "error" /\ health = "clean")
           /\ r = "error" => log' = log /\ db' = db
BY DEF Return, TypeInv, TypeOK

LEMMA LastToken ==
    ASSUME NEW S, NEW f \in Seq(S), NEW t
    PROVE  /\ t # Torn => EndOf(Append(f, t)) = Len(f) + 1
           /\ EndOf(Append(f, Torn)) = Len(f)
<1> DEFINE T == S \cup {t, Torn}
<1>1. f \in Seq(T) /\ t \in T /\ Torn \in T
  OBVIOUS
<1> HIDE DEF T
<1>2. ASSUME NEW x \in T
      PROVE  /\ Append(f, x) # <<>> /\ Len(Append(f, x)) = Len(f) + 1
             /\ Append(f, x)[Len(Append(f, x))] = x
  BY <1>1, <1>2, AppendProperties
<1>3. Len(f) \in Nat
  OBVIOUS
<1> QED BY <1>1, <1>2, <1>3 DEF EndOf

(* A token written whole is no remains. *)
LEMMA WrittenWhole ==
    /\ \A t \in WrittenTokens : t # Torn
    /\ \A c : Crc(c) # Torn
    /\ \A b \in Bytes, n \in 1..4 : LzfToken(b, n) \in WrittenTokens
<1>1. \A b \in Bytes, n \in 1..4 : LzfToken(b, n) \in BodyTokens
  BY LzfTokens
<1> QED BY <1>1 DEF WrittenTokens, BodyTokens, Torn, Crc, LzfMark

LEMMA LinkInit == Init => LinkInv
<1> SUFFICES ASSUME Init
             PROVE  LinkInv
  OBVIOUS
<1>1. EndOf(out) = Len(out)
  BY DEF Init, EndOf
<1> QED BY <1>1 DEF Init, LinkInv, Idle

LEMMA LinkCaller == TypeInv /\ LinkInv /\ Caller => LinkInv'
<1> SUFFICES ASSUME TypeInv, LinkInv, Caller
             PROVE  LinkInv'
  OBVIOUS
<1>1. CASE Refuse
  BY <1>1 DEF Refuse, LinkInv, Called, Idle, now, Trusted
<1>2. CASE ~Refuse
  <2>1. /\ Idle /\ UNCHANGED <<state, out, crc, faults, db, log>>
        /\ health' = "clean" <=> health = "clean"
    BY <1>2, Begun
  <2>2. /\ log \in Seq(Ents)
        /\ health = "clean" => /\ state # "WrittenTTL"
                               /\ state \in {"WrittenDBHeader", "WrittenObject"} => db # None
        /\ MaxTTLOptions <= 1 /\ faults = 0 => health = "clean"
        /\ Trusted => EndOf(out) = Len(out)
    BY <2>1 DEF LinkInv
  <2>3. Trusted' => Trusted
    BY <2>1 DEF Trusted
  <2>4. ASSUME Called', Rest(todo', Target(call'[1])),
               health = "clean" /\ now'[1] = "ttl" => state \in {"WrittenDBHeader", "WrittenObject"},
               health = "clean" /\ call'[1] = "object" => db # None
        PROVE  LinkInv'
    <3>1. ~Idle'
      BY <2>4 DEF Rest, Idle
    <3> QED BY <2>1, <2>2, <2>3, <2>4, <3>1 DEF LinkInv
  <2>5. CASE call' = <<"header">> /\ todo' = HeaderCall
    <3>1. now'[1] # "ttl"
      BY <2>5 DEF HeaderCall, now, W
    <3> QED BY <2>4, <2>5, <3>1, CallRests DEF Called, Target
  <2>6. ASSUME NEW k \in Keys, NEW v \in Keys, call' = <<"aux">>, todo' = AuxCall(k, v)
        PROVE  LinkInv'
    <3>1. now'[1] # "ttl"
      BY <2>6 DEF AuxCall, now, W
    <3>2. Rest(AuxCall(k, v), "WrittenAux")
      BY CallRests, EncoderAssumption
    <3> QED BY <2>4, <2>6, <3>1, <3>2 DEF Called, Target
  <2>7. ASSUME NEW d \in DBs, call' = <<"db", d>>, todo' = DBCall(d)
        PROVE  LinkInv'
    <3>1. now'[1] # "ttl"
      BY <2>7 DEF DBCall, now, W
    <3>2. Rest(DBCall(d), "WrittenDBHeader")
      BY CallRests, EncoderAssumption
    <3>3. Called' /\ call'[1] = "db"
      BY <2>7 DEF Called
    <3>4. Target("db") = "WrittenDBHeader"
      BY DEF Target
    <3> QED BY <2>4, <2>7, <3>1, <3>2, <3>3, <3>4
  <2>8. ASSUME state \in InDB,
               NEW k \in Keys, NEW o \in Objects, NEW opts \in TTLOptions,
               call' = <<"object", Requested(k, o, opts)>>,
               NEW ws \in ObjectWrites(k, o), todo' = ObjectCall(opts, ws)
        PROVE  LinkInv'
    <3>1. Rest(ObjectCall(opts, ws), "WrittenObject")
      BY ObjectWritesType, CallRests
    <3>2. Requested(k, o, opts) \in Ents
      BY RequestedType
    <3>3. Called' /\ call'[1] = "object"
      BY <2>8, <3>2 DEF Called
    <3>4. Target("object") = "WrittenObject"
      BY DEF Target
    <3>5. health = "clean" => state \in {"WrittenDBHeader", "WrittenObject"} /\ db # None
      BY <2>2, <2>8 DEF InDB
    <3> QED BY <2>4, <2>8, <3>1, <3>3, <3>4, <3>5
  <2>9. CASE call' = <<"end">> /\ todo' = EndCall
    <3>1. now'[1] # "ttl"
      BY <2>9 DEF EndCall, now, W
    <3> QED BY <2>4, <2>9, <3>1, CallRests DEF Called, Target
  <2> QED BY <1>2, <2>5, <2>6, <2>7, <2>8, <2>9, Begun
<1> QED BY <1>1, <1>2

(* A step of a call never has a second TTL option before it, but for the   *)
(* one it may be at.                                                       *)
LEMMA GoesOnRest ==
    ASSUME TypeInv, NEW s, Rest(rest, s), MaxTTLOptions <= 1 => NoTTL(rest),
           now \in InnerInstrs, GoesOn
    PROVE  /\ Rest(todo', s)
           /\ MaxTTLOptions <= 1 => NoTTL(todo')
<1>1. CASE todo' = rest
  BY <1>1
<1>2. ASSUME NEW ws \in Seq(InnerInstrs), NoTTL(ws), todo' = ws \o rest
      PROVE  Rest(todo', s) /\ (MaxTTLOptions <= 1 => NoTTL(todo'))
  BY <1>2, RestConcat
<1>3. /\ now[1] \in {"str", "nan", "lzf"} => now[2] \in Bytes
      /\ now[1] = "lzf" => now[3] \in 1..4 /\ Compress
      /\ now[1] = "ttl" => now[2] \in TTLs
  BY InnerKinds
<1>4. CASE now[1] = "lzf" /\ now[3] # 1 /\ todo' = << <<"lzf", now[2], now[3] - 1>> >> \o rest
  <2>1. now[3] - 1 \in 1..4 /\ Compress /\ now[2] \in Bytes
    BY <1>3, <1>4
  <2>2. /\ << <<"lzf", now[2], now[3] - 1>> >> \in Seq(InnerInstrs)
        /\ NoTTL(<< <<"lzf", now[2], now[3] - 1>> >>)
    BY <2>1, Replacements, Zenon
  <2> QED BY <1>2, <1>4, <2>2
<1>5. CASE now[1] = "lzf" /\ todo' = writeSimpleString(now[2]) \o rest
  BY <1>2, <1>3, <1>5, Replacements
<1>6. ASSUME now[1] \in {"str", "nan"},
             NEW ws \in writeNanString(now[2]) \cup writeString(now[2]), todo' = ws \o rest
      PROVE  Rest(todo', s) /\ (MaxTTLOptions <= 1 => NoTTL(todo'))
  <2>1. now[2] \in Bytes
    BY <1>3, <1>6
  <2>2. ws \in Seq(InnerInstrs) /\ NoTTL(ws)
    BY <1>6, <2>1, Replacements, Zenon
  <2> QED BY <1>2, <1>6, <2>2
<1>7. CASE now[1] = "ttl" /\ todo' = << W(Op("opCodeExpireTimeMs")), W(Int64(now[2])),
                                        <<"set", "WrittenTTL">> >> \o rest
  <2> DEFINE ws == << W(Op("opCodeExpireTimeMs")), W(Int64(now[2])), <<"set", "WrittenTTL">> >>
  <2>1. ws \in Seq(InnerInstrs) /\ NoTTL(ws)
    BY <1>3, <1>7, TTLStatements
  <2> QED BY <1>2, <1>7, <2>1
<1> QED BY <1>1, <1>4, <1>5, <1>6, <1>7 DEF GoesOn

LEMMA LinkStep == TypeInv /\ LinkInv /\ Step => LinkInv'
<1> SUFFICES ASSUME TypeInv, LinkInv, Step
             PROVE  LinkInv'
  OBVIOUS
<1> DEFINE s == Target(call[1])
<1>1. ~Idle /\ call' = call /\ call[1] \in {"header", "aux", "end", "db", "object"}
  <2>1. ~Idle /\ call' = call
    BY StepCases
  <2> QED BY <2>1 DEF LinkInv, Called
<1>2. /\ log \in Seq(Ents) /\ Called
      /\ health = "clean" /\ MaxTTLOptions <= 1 /\ now[1] = "ttl" =>
           state \in {"WrittenDBHeader", "WrittenObject"}
      /\ health = "clean" /\ call[1] = "object" => db # None
      /\ MaxTTLOptions <= 1 /\ faults = 0 => health = "clean"
      /\ Trusted => EndOf(out) = Len(out)
  BY <1>1 DEF LinkInv
<1>3. /\ out \in Seq(Tokens) /\ faults \in Nat /\ MaxFaults \in Nat /\ faults <= MaxFaults
      /\ Compress \in BOOLEAN
  BY EncoderAssumption DEF TypeInv, TypeOK
<1>4. Called'
  BY <1>1, <1>2 DEF Called
<1>5. ASSUME GoesOn, Continue, todo' # <<>>, now \in InnerInstrs, rest # <<>>,
             Rest(rest, s), MaxTTLOptions <= 1 => NoTTL(rest)
      PROVE  LinkInv'
  <2>1. Rest(todo', s) /\ (MaxTTLOptions <= 1 => NoTTL(todo'))
    BY <1>5, GoesOnRest
  <2>2. Continue
    BY <1>5
  <2>3. MaxTTLOptions <= 1 => now'[1] # "ttl"
    <3>1. todo' \in Seq(InnerInstrs \cup {<<"set", s>>}) /\ todo' # <<>>
      BY <2>1 DEF Rest
    <3>2. Len(todo') \in Nat \ {0} /\ now' = todo'[1]
      BY <3>1, HeadTail DEF now
    <3>3. 1 \in 1..Len(todo')
      BY <3>2
    <3> QED BY <2>1, <3>2, <3>3 DEF NoTTL
  <2>4. faults' \in {faults, faults + 1}
    BY <1>5 DEF GoesOn, Writes
  <2>5. Trusted' => EndOf(out') = Len(out')
    <3> SUFFICES ASSUME Trusted'
                 PROVE  EndOf(out') = Len(out')
      OBVIOUS
    <3>1. Trusted /\ (~Compress \/ MaxFaults = 0 \/ faults' = 0)
      BY <1>3, <2>2, <2>4 DEF Trusted, Continue
    <3>2. EndOf(out) = Len(out)
      BY <1>2, <3>1
    <3>3. ASSUME NEW t, t # Torn, out' = Append(out, t)
          PROVE  EndOf(out') = Len(out')
      <4>1. out \in Seq(Tokens \cup {t}) /\ t \in Tokens \cup {t}
        BY <1>3
      <4>2. Len(Append(out, t)) = Len(out) + 1
        BY <4>1
      <4> QED BY <1>3, <3>3, <4>2, LastToken
    <3>4. now[1] = "write" => now[2] # Torn
      BY <1>5, InnerKinds, WrittenWhole
    <3>5. now[1] = "lzf" => LzfToken(now[2], now[3]) # Torn /\ Compress
      <4>1. now[1] = "lzf" => now[2] \in Bytes /\ now[3] \in 1..4 /\ Compress
        BY <1>5, InnerKinds
      <4>2. now[1] = "lzf" => LzfToken(now[2], now[3]) \in WrittenTokens
        BY <4>1, WrittenWhole, Zenon
      <4> QED BY <4>1, <4>2, WrittenWhole, Zenon
    <3>6. Crc(crc) # Torn
      BY WrittenWhole
    <3>7. ~(now[1] = "lzf" /\ faults' = faults + 1 /\ faults < MaxFaults)
      BY <1>3, <3>1, <3>5
    <3> QED BY <1>5, <3>2, <3>3, <3>4, <3>5, <3>6, <3>7 DEF GoesOn, Writes
  <2>6. health' = health /\ log' = log /\ db' = db
    BY <2>2 DEF Continue
  <2>7. MaxTTLOptions <= 1 /\ faults' = 0 => health' = "clean"
    BY <1>2, <1>3, <2>4, <2>6
  <2>8. ~Idle'
    BY <1>5 DEF Idle
  <2> QED BY <1>1, <1>2, <1>4, <2>1, <2>3, <2>5, <2>6, <2>7, <2>8 DEF LinkInv
<1>6. ASSUME Returns, Return("nil"), todo' = <<>>
      PROVE  LinkInv'
  <2>1. state' = s /\ UNCHANGED <<out, faults>>
    BY <1>6 DEF Returns
  <2>2. health' = health
    BY <1>6, ReturnEffect DEF Return
  <2>3. log' \in Seq(Ents)
    <3>1. log' = IF call[1] = "object" THEN Append(log, call[2]) ELSE log
      BY <1>6 DEF Return
    <3>2. call[1] = "object" => call[2] \in Ents
      BY <1>2 DEF Called
    <3> QED BY <1>2, <3>1, <3>2
  <2>4. s # "WrittenTTL"
    BY DEF Target
  <2>5. health = "clean" /\ s \in {"WrittenDBHeader", "WrittenObject"} => db' # None
    <3>1. db' = IF call[1] = "db" THEN call[2] ELSE db
      BY <1>6 DEF Return
    <3>2. call[1] = "db" => call[2] # None
      <4>1. \A d \in DBs : d # None
        BY EncoderAssumption DEF None
      <4> QED BY <1>2, <4>1 DEF Called
    <3>3. s \in {"WrittenDBHeader", "WrittenObject"} => call[1] \in {"db", "object"}
      BY <1>1 DEF Target
    <3> QED BY <1>2, <3>1, <3>2, <3>3
  <2>6. Trusted' => EndOf(out') = Len(out')
    BY <1>2, <2>1, <2>2 DEF Trusted
  <2>7. Idle'
    BY <1>6 DEF Idle
  <2> HIDE DEF s
  <2> QED BY <1>2, <2>1, <2>2, <2>3, <2>4, <2>5, <2>6, <2>7 DEF LinkInv
<1>7. ASSUME IsRefused \/ Breaks, Return("error"), todo' = <<>>
      PROVE  LinkInv'
  <2>1. health' # "clean" /\ log' = log
    BY <1>7, ReturnEffect
  <2>2. Idle' /\ ~Trusted'
    BY <1>7, <2>1 DEF Idle, Trusted
  <2>3. MaxTTLOptions <= 1 => faults' # 0
    <3>1. CASE Breaks
      BY <1>3, <3>1 DEF Breaks
    <3>2. CASE IsRefused
      <4>1. validateStateChange("WrittenTTL") <=> state \in {"WrittenDBHeader", "WrittenObject"}
        BY DEF validateStateChange, stateChanges, States, TypeInv, TypeOK
      <4> QED BY <1>2, <3>2, <4>1 DEF IsRefused
    <3> QED BY <1>7, <3>1, <3>2
  <2> QED BY <1>2, <2>1, <2>2, <2>3 DEF LinkInv
<1> QED BY <1>5, <1>6, <1>7, StepCases

LEMMA LinkNext == TypeInv /\ LinkInv /\ [Next]_vars => LinkInv'
<1>1. LinkInv /\ UNCHANGED vars => LinkInv'
  BY DEF LinkInv, Called, Idle, now, Trusted, vars
<1> QED BY <1>1, LinkCaller, LinkStep DEF Next

-----------------------------------------------------------------------------
(* The points between two records of a file: what a reader of the records  *)
(* before it knows.                                                        *)

Points == [ pos : Nat \ {0}, db : Nat, exp : Nat, ents : Seq(Ents),
            head : BOOLEAN, done : BOOLEAN ]
Point(p, d, x, es, h, z) ==
    [ pos |-> p, db |-> d, exp |-> x, ents |-> es, head |-> h, done |-> z ]

Beginning == Point(1, 0, 0, <<>>, FALSE, FALSE)

Leads(f, a, b) ==
    /\ ~a.done
    /\ \/ /\ ~a.head
          /\ Spells(f, W(Magic(IF Valkey THEN "VALKEY080" ELSE "REDIS0011")), a.pos, b.pos)
          /\ b = Point(b.pos, a.db, a.exp, a.ents, TRUE, FALSE)
       \/ /\ a.head
          /\ \E d \in DBs :
               /\ Spelled(f, << W(Op("opCodeSelectDB")), W(DbIndex(d)) >>, a.pos, b.pos)
               /\ b = Point(b.pos, d, a.exp, a.ents, TRUE, FALSE)
       \/ /\ a.head
          /\ Spelled(f, << W(Op("opCodeResizeDB")), W(Length(0)), W(Length(0)) >>, a.pos, b.pos)
          /\ b = Point(b.pos, a.db, a.exp, a.ents, TRUE, FALSE)
       \/ /\ a.head
          /\ \E k, v \in Keys :
               Spelled(f, << W(Op("opCodeAux")), Str(k), Str(v) >>, a.pos, b.pos)
          /\ b = Point(b.pos, a.db, a.exp, a.ents, TRUE, FALSE)
       \/ /\ a.head
          /\ \E n \in TTLs : /\ Spells(f, <<"ttl", n>>, a.pos, b.pos)
                             /\ b = Point(b.pos, a.db, n, a.ents, TRUE, FALSE)
       \/ /\ a.head /\ a.db \in DBs
          /\ \E k \in Keys, o \in Objects : \E ws \in ObjectWrites(k, o) :
               /\ Spelled(f, ws, a.pos, b.pos)
               /\ b = Point(b.pos, a.db, 0,
                            Append(a.ents, Entry(a.db, k, a.exp, None, None, Canonical(o))),
                            TRUE, FALSE)
       \/ /\ a.head
          /\ Spelled(f, << W(Op("opCodeEOF")), <<"sum">> >>, a.pos, b.pos)
          /\ b = Point(b.pos, a.db, a.exp, a.ents, TRUE, TRUE)

Pre(s, t) == Len(s) <= Len(t) /\ \A i \in 1..Len(s) : s[i] = t[i]

(* The file f leads from its beginning to the point a.  Where it breaks    *)
(* off, nothing but s was delivered.                                       *)
Tells(f, s, m, st) ==
    /\ m \in Nat
    /\ st \in [0..m -> Points]
    /\ st[0] = Beginning
    /\ \A j \in 1..m : Leads(f, st[j-1], st[j])
    /\ \A j \in 0..m : Past(f, st[j].pos) => Past(f, st[m].pos)
    /\ \A j \in 0..(m-1) : Pre(st[j].ents, s)
    /\ \A j \in 0..m :
         ~Past(f, st[j].pos) /\ (j < m => Past(f, st[j+1].pos)) => Pre(s, st[j].ents)

Sound(f, s, a) == \E m, st : Tells(f, s, m, st) /\ st[m] = a

LEMMA PreFacts ==
    /\ \A s \in Seq(Ents) : Pre(s, s)
    /\ \A s, t, u \in Seq(Ents) : Pre(s, t) /\ Pre(t, u) => Pre(s, u)
    /\ \A s \in Seq(Ents), e \in Ents : Pre(s, Append(s, e))
    /\ \A s, t \in Seq(Ents) : Pre(s, t) /\ Pre(t, s) => s = t
<1>1. \A s \in Seq(Ents) : Pre(s, s)
  BY DEF Pre
<1>2. ASSUME NEW s \in Seq(Ents), NEW t \in Seq(Ents), NEW u \in Seq(Ents), Pre(s, t), Pre(t, u)
      PROVE  Pre(s, u)
  <2>1. Len(s) \in Nat /\ Len(t) \in Nat /\ Len(u) \in Nat
    OBVIOUS
  <2> QED BY <1>2, <2>1 DEF Pre
<1>3. ASSUME NEW s \in Seq(Ents), NEW e \in Ents
      PROVE  Pre(s, Append(s, e))
  BY AppendProperties DEF Pre
<1>4. ASSUME NEW s \in Seq(Ents), NEW t \in Seq(Ents), Pre(s, t), Pre(t, s)
      PROVE  s = t
  <2>1. Len(s) = Len(t)
    BY <1>4 DEF Pre
  <2> QED BY <1>4, <2>1, SeqEqual DEF Pre
<1> QED BY <1>1, <1>2, <1>3, <1>4

LEMMA LeadsOn ==
    ASSUME NEW f \in Seq(Tokens), NEW a \in Points, NEW b \in Points, Leads(f, a, b)
    PROVE  Past(f, a.pos) => Past(f, b.pos)
<1>1. a.pos \in Nat \ {0} /\ b.pos \in Nat \ {0}
  BY DEF Points
<1>2. \A x : Spells(f, x, a.pos, b.pos) => (Past(f, a.pos) => Past(f, b.pos))
  BY <1>1, SpellsOn
<1>3. ASSUME NEW C, Len(C) \in Nat, Spelled(f, C, a.pos, b.pos)
      PROVE  Past(f, a.pos) => Past(f, b.pos)
  BY <1>1, <1>3, SpelledOn
<1>4. ASSUME NEW k \in Keys, NEW o \in Objects, NEW ws \in ObjectWrites(k, o)
      PROVE  Len(ws) \in Nat
  <2>1. ws \in Seq(InnerInstrs)
    BY ObjectWritesType, ObjectStatements
  <2> QED BY <2>1
<1>5. \A x, y, z : /\ Len(<< x, y >>) \in Nat /\ Len(<< x, y, z >>) \in Nat
  OBVIOUS
<1> QED BY <1>2, <1>3, <1>4, <1>5, Zenon DEF Leads

LEMMA SoundStart == \A f \in Seq(Tokens) : Sound(f, <<>>, Beginning)
<1> SUFFICES ASSUME NEW f \in Seq(Tokens)
             PROVE  Sound(f, <<>>, Beginning)
  OBVIOUS
<1> DEFINE st == [ j \in 0..0 |-> Beginning ]
<1>1. Beginning \in Points
  BY DEF Beginning, Points, Point
<1>2. st \in [0..0 -> Points] /\ st[0] = Beginning
  BY <1>1
<1>3. Pre(<<>>, Beginning.ents)
  BY DEF Pre, Beginning, Point
<1> HIDE DEF st
<1>4. Tells(f, <<>>, 0, st)
  BY <1>2, <1>3 DEF Tells
<1> QED BY <1>2, <1>4 DEF Sound

(* One record more. *)
LEMMA SoundStep ==
    ASSUME NEW f \in Seq(Tokens), NEW s \in Seq(Ents), NEW a \in Points, NEW b \in Points,
           Sound(f, s, a), a.ents = s, Leads(f, a, b), Pre(s, b.ents)
    PROVE  Sound(f, s, b)
<1>1. PICK m, st : Tells(f, s, m, st) /\ st[m] = a
  BY DEF Sound
<1>2. m \in Nat /\ st \in [0..m -> Points]
  BY <1>1 DEF Tells
<1> DEFINE n == m + 1
           ut == [ j \in 0..n |-> IF j <= m THEN st[j] ELSE b ]
<1>3. n \in Nat /\ n = m + 1 /\ n - 1 = m
  BY <1>2
<1>4. /\ ut \in [0..n -> Points] /\ ut[n] = b
      /\ \A j \in 0..m : ut[j] = st[j]
  BY <1>2
<1> HIDE DEF n, ut
<1>5. ut[0] = Beginning
  BY <1>1, <1>2, <1>4 DEF Tells
<1>6. \A j \in 0..n : j \in 0..m \/ j = n
  BY <1>2, <1>3
<1>7. ASSUME NEW j \in 1..n
      PROVE  Leads(f, ut[j-1], ut[j])
  <2>1. CASE j \in 1..m
    <3>1. j - 1 \in 0..m /\ j \in 0..m
      BY <1>2, <2>1
    <3> QED BY <1>1, <1>4, <2>1, <3>1 DEF Tells
  <2>2. CASE j = n
    <3>1. j - 1 = m /\ m \in 0..m
      BY <1>2, <1>3, <2>2
    <3> QED BY <1>1, <1>4, <2>2, <3>1
  <2> QED BY <1>2, <1>3, <2>1, <2>2
<1>8. ASSUME NEW j \in 0..n, Past(f, ut[j].pos)
      PROVE  Past(f, ut[n].pos)
  <2>1. CASE j \in 0..m
    BY <1>1, <1>4, <1>8, <2>1, LeadsOn DEF Tells
  <2> QED BY <1>4, <1>6, <1>8, <2>1
<1>9. ASSUME NEW j \in 0..(n-1)
      PROVE  Pre(ut[j].ents, s)
  <2>1. j \in 0..m
    BY <1>3
  <2>2. CASE j = m
    BY <1>1, <1>4, <2>1, <2>2, PreFacts
  <2>3. CASE j # m
    <3>1. j \in 0..(m-1)
      BY <1>2, <2>1, <2>3
    <3> QED BY <1>1, <1>4, <2>1, <3>1 DEF Tells
  <2> QED BY <2>2, <2>3
<1>10. ASSUME NEW j \in 0..n, ~Past(f, ut[j].pos), j < n => Past(f, ut[j+1].pos)
       PROVE  Pre(s, ut[j].ents)
  <2>1. CASE j = n
    BY <1>4, <2>1
  <2>2. CASE j = m
    <3>1. m \in 0..m
      BY <1>2
    <3>2. ut[j] = a
      BY <1>1, <1>4, <2>2, <3>1
    <3> QED BY <3>2, PreFacts
  <2>3. CASE j \in 0..m /\ j # m
    <3>1. j < n /\ j < m /\ j + 1 \in 0..m
      BY <1>2, <1>3, <2>3
    <3> QED BY <1>1, <1>4, <1>10, <2>3, <3>1 DEF Tells
  <2> QED BY <1>6, <2>1, <2>2, <2>3
<1>11. Tells(f, s, n, ut)
  BY <1>3, <1>4, <1>5, <1>7, <1>8, <1>9, <1>10 DEF Tells
<1> QED BY <1>4, <1>11 DEF Sound

(* What a call that returns has written counts. *)
LEMMA SoundReturn ==
    ASSUME NEW f \in Seq(Tokens), NEW s \in Seq(Ents), NEW a \in Points,
           Sound(f, s, a), ~Past(f, a.pos)
    PROVE  Sound(f, a.ents, a)
<1>1. PICK m, st : Tells(f, s, m, st) /\ st[m] = a
  BY DEF Sound
<1>2. m \in Nat /\ st \in [0..m -> Points] /\ a.ents \in Seq(Ents)
  BY <1>1 DEF Tells, Points
<1>3. m \in 0..m /\ ~(m < m)
  BY <1>2
<1>4. Pre(s, a.ents)
  BY <1>1, <1>3 DEF Tells
<1>5. \A j \in 0..m : ~Past(f, st[j].pos)
  BY <1>1 DEF Tells
<1>6. ASSUME NEW j \in 0..(m-1)
      PROVE  Pre(st[j].ents, a.ents)
  <2>1. Pre(st[j].ents, s)
    BY <1>1 DEF Tells
  <2>2. j \in 0..m
    BY <1>2
  <2>3. st[j].ents \in Seq(Ents)
    BY <1>2, <2>2 DEF Points
  <2> QED BY <1>2, <1>4, <2>1, <2>3, PreFacts
<1>7. ASSUME NEW j \in 0..m, j < m => Past(f, st[j+1].pos)
      PROVE  Pre(a.ents, st[j].ents)
  <2>1. j = m
    <3>1. CASE j < m
      <4>1. j + 1 \in 0..m
        BY <1>2, <3>1
      <4> QED BY <1>5, <1>7, <3>1, <4>1
    <3> QED BY <1>2, <3>1
  <2> QED BY <1>1, <1>2, <2>1, PreFacts
<1>8. Tells(f, a.ents, m, st)
  BY <1>1, <1>6, <1>7 DEF Tells
<1> QED BY <1>1, <1>8 DEF Sound

-----------------------------------------------------------------------------
(* Short lists of statements. *)

LEMMA HasTuples ==
    ASSUME NEW f, NEW p \in Nat
    PROVE  /\ \A w : Len(w) = 0 => \A i \in 1..Len(w) : Has(f, p + i - 1, w[i])
           /\ \A x : (\A i \in 1..Len(<< x >>) : Has(f, p + i - 1, << x >>[i])) <=> Has(f, p, x)
           /\ \A x, y : (\A i \in 1..Len(<< x, y >>) : Has(f, p + i - 1, << x, y >>[i]))
                          <=> (Has(f, p, x) /\ Has(f, p + 1, y))
           /\ \A x, y, z :
                (\A i \in 1..Len(<< x, y, z >>) : Has(f, p + i - 1, << x, y, z >>[i]))
                  <=> (Has(f, p, x) /\ Has(f, p + 1, y) /\ Has(f, p + 2, z))
           /\ \A x, y, z, u :
                (\A i \in 1..Len(<< x, y, z, u >>) : Has(f, p + i - 1, << x, y, z, u >>[i]))
                  <=> (/\ Has(f, p, x) /\ Has(f, p + 1, y)
                       /\ Has(f, p + 2, z) /\ Has(f, p + 3, u))
<1>1. /\ p + 1 - 1 = p /\ p + 2 - 1 = p + 1 /\ p + 3 - 1 = p + 2 /\ p + 4 - 1 = p + 3
  OBVIOUS
<1>2. /\ 1..1 = {1} /\ 1..2 = {1, 2} /\ 1..3 = {1, 2, 3} /\ 1..4 = {1, 2, 3, 4}
  OBVIOUS
<1>0. \A w : Len(w) = 0 => \A i \in 1..Len(w) : Has(f, p + i - 1, w[i])
  OBVIOUS
<1>3. ASSUME NEW x
      PROVE  (\A i \in 1..Len(<< x >>) : Has(f, p + i - 1, << x >>[i])) <=> Has(f, p, x)
  <2> DEFINE w == << x >>
  <2>1. Len(w) = 1 /\ w[1] = x
    OBVIOUS
  <2> HIDE DEF w
  <2>2. (\A i \in {1} : Has(f, p + i - 1, w[i])) <=> Has(f, p, x)
    BY <1>1, <2>1
  <2>3. (\A i \in 1..Len(w) : Has(f, p + i - 1, w[i])) <=> Has(f, p, x)
    BY <1>2, <2>1, <2>2
  <2> QED BY <2>3 DEF w
<1>4. ASSUME NEW x, NEW y
      PROVE  (\A i \in 1..Len(<< x, y >>) : Has(f, p + i - 1, << x, y >>[i]))
               <=> (Has(f, p, x) /\ Has(f, p + 1, y))
  <2> DEFINE w == << x, y >>
  <2>1. Len(w) = 2 /\ w[1] = x /\ w[2] = y
    OBVIOUS
  <2> HIDE DEF w
  <2>2. (\A i \in {1, 2} : Has(f, p + i - 1, w[i])) <=> (Has(f, p, x) /\ Has(f, p + 1, y))
    BY <1>1, <2>1
  <2>3. (\A i \in 1..Len(w) : Has(f, p + i - 1, w[i])) <=> (Has(f, p, x) /\ Has(f, p + 1, y))
    BY <1>2, <2>1, <2>2
  <2> QED BY <2>3 DEF w
<1>5. ASSUME NEW x, NEW y, NEW z
      PROVE  (\A i \in 1..Len(<< x, y, z >>) : Has(f, p + i - 1, << x, y, z >>[i]))
               <=> (Has(f, p, x) /\ Has(f, p + 1, y) /\ Has(f, p + 2, z))
  <2> DEFINE w == << x, y, z >>
  <2>1. Len(w) = 3 /\ w[1] = x /\ w[2] = y /\ w[3] = z
    OBVIOUS
  <2> HIDE DEF w
  <2>2. (\A i \in {1, 2, 3} : Has(f, p + i - 1, w[i]))
          <=> (Has(f, p, x) /\ Has(f, p + 1, y) /\ Has(f, p + 2, z))
    BY <1>1, <2>1
  <2>3. (\A i \in 1..Len(w) : Has(f, p + i - 1, w[i]))
          <=> (Has(f, p, x) /\ Has(f, p + 1, y) /\ Has(f, p + 2, z))
    BY <1>2, <2>1, <2>2
  <2> QED BY <2>3 DEF w
<1>6. ASSUME NEW x, NEW y, NEW z, NEW u
      PROVE  (\A i \in 1..Len(<< x, y, z, u >>) : Has(f, p + i - 1, << x, y, z, u >>[i]))
               <=> (/\ Has(f, p, x) /\ Has(f, p + 1, y)
                    /\ Has(f, p + 2, z) /\ Has(f, p + 3, u))
  <2> DEFINE w == << x, y, z, u >>
  <2>1. Len(w) = 4 /\ w[1] = x /\ w[2] = y /\ w[3] = z /\ w[4] = u
    OBVIOUS
  <2> HIDE DEF w
  <2>2. (\A i \in {1, 2, 3, 4} : Has(f, p + i - 1, w[i]))
          <=> (/\ Has(f, p, x) /\ Has(f, p + 1, y)
               /\ Has(f, p + 2, z) /\ Has(f, p + 3, u))
    BY <1>1, <2>1
  <2>3. (\A i \in 1..Len(w) : Has(f, p + i - 1, w[i]))
          <=> (/\ Has(f, p, x) /\ Has(f, p + 1, y)
               /\ Has(f, p + 2, z) /\ Has(f, p + 3, u))
    BY <1>2, <2>1, <2>2
  <2> QED BY <2>3 DEF w
<1> QED BY <1>0, <1>3, <1>4, <1>5, <1>6

LEMMA TupleLengths ==
    /\ Len(<<>>) = 0
    /\ \A x : Len(<< x >>) = 1
    /\ \A x, y : Len(<< x, y >>) = 2
    /\ \A x, y, z : Len(<< x, y, z >>) = 3
    /\ \A x, y, z, u : Len(<< x, y, z, u >>) = 4
OBVIOUS

(* A form that stands in a file is what its statement spells. *)
LEMMA FormSpells ==
    ASSUME NEW f, NEW x, NEW p \in Nat \ {0}, NEW q \in Nat \ {0}
    PROVE  /\ Form(x, <<>>) /\ Same(f, q, p) => Spells(f, x, p, q)
           /\ \A t : Form(x, << t >>) /\ Has(f, p, t) /\ Same(f, q, p + 1)
                       => Spells(f, x, p, q)
           /\ \A t, u : /\ Form(x, << t, u >>)
                        /\ Has(f, p, t) /\ Has(f, p + 1, u) /\ Same(f, q, p + 2)
                        => Spells(f, x, p, q)
           /\ \A t, u, v : /\ Form(x, << t, u, v >>)
                           /\ Has(f, p, t) /\ Has(f, p + 1, u) /\ Has(f, p + 2, v)
                           /\ Same(f, q, p + 3)
                           => Spells(f, x, p, q)
           /\ \A t, u, v, w : /\ Form(x, << t, u, v, w >>)
                              /\ Has(f, p, t) /\ Has(f, p + 1, u) /\ Has(f, p + 2, v)
                              /\ Has(f, p + 3, w) /\ Same(f, q, p + 4)
                              => Spells(f, x, p, q)
<1>1. \A w : /\ Form(x, w) /\ (\A i \in 1..Len(w) : Has(f, p + i - 1, w[i]))
             /\ Same(f, q, p + Len(w))
             => Spells(f, x, p, q)
  BY DEF Spells
<1>2. p + 0 = p
  OBVIOUS
<1>3. Form(x, <<>>) /\ Same(f, q, p) => Spells(f, x, p, q)
  BY <1>1, <1>2, HasTuples, TupleLengths
<1>4. ASSUME NEW t, Form(x, << t >>), Has(f, p, t), Same(f, q, p + 1)
      PROVE  Spells(f, x, p, q)
  <2>1. Len(<< t >>) = 1
    OBVIOUS
  <2>2. \A i \in 1..Len(<< t >>) : Has(f, p + i - 1, << t >>[i])
    BY <1>4, HasTuples, Zenon
  <2> HIDE DEF Form
  <2> QED BY <1>1, <1>4, <2>1, <2>2, Zenon
<1>5. ASSUME NEW t, NEW u, Form(x, << t, u >>), Has(f, p, t), Has(f, p + 1, u),
             Same(f, q, p + 2)
      PROVE  Spells(f, x, p, q)
  <2>1. Len(<< t, u >>) = 2
    OBVIOUS
  <2>2. \A i \in 1..Len(<< t, u >>) : Has(f, p + i - 1, << t, u >>[i])
    BY <1>5, HasTuples, Zenon
  <2> QED BY <1>1, <1>5, <2>1, <2>2, Zenon
<1>6. ASSUME NEW t, NEW u, NEW v, Form(x, << t, u, v >>),
             Has(f, p, t), Has(f, p + 1, u), Has(f, p + 2, v), Same(f, q, p + 3)
      PROVE  Spells(f, x, p, q)
  <2>1. Len(<< t, u, v >>) = 3
    OBVIOUS
  <2>2. \A i \in 1..Len(<< t, u, v >>) : Has(f, p + i - 1, << t, u, v >>[i])
    BY <1>6, HasTuples, Zenon
  <2> QED BY <1>1, <1>6, <2>1, <2>2, Zenon
<1>7. ASSUME NEW t, NEW u, NEW v, NEW w, Form(x, << t, u, v, w >>),
             Has(f, p, t), Has(f, p + 1, u), Has(f, p + 2, v), Has(f, p + 3, w),
             Same(f, q, p + 4)
      PROVE  Spells(f, x, p, q)
  <2>1. Len(<< t, u, v, w >>) = 4
    OBVIOUS
  <2>2. \A i \in 1..Len(<< t, u, v, w >>) : Has(f, p + i - 1, << t, u, v, w >>[i])
    BY <1>7, HasTuples, Zenon
  <2> QED BY <1>1, <1>7, <2>1, <2>2, Zenon
<1> QED BY <1>3, <1>4, <1>5, <1>6, <1>7, Zenon

LEMMA SpellsSame ==
    ASSUME NEW S, NEW f \in Seq(S), NEW x, NEW p \in Nat \ {0},
           NEW q \in Nat \ {0}, NEW r \in Nat \ {0}, Spells(f, x, p, r), Same(f, q, r)
    PROVE  Spells(f, x, p, q)
<1>1. Past(f, p) /\ Past(f, r) => Spells(f, x, p, q)
  BY DEF Spells, Same
<1>2. ASSUME NEW w, Form(x, w), \A i \in 1..Len(w) : Has(f, p + i - 1, w[i]),
             Same(f, r, p + Len(w))
      PROVE  Spells(f, x, p, q)
  <2>1. Same(f, q, p + Len(w))
    BY <1>2 DEF Same
  <2> QED BY <1>2, <2>1 DEF Spells
<1> QED BY <1>1, <1>2 DEF Spells

LEMMA SpellsSet ==
    ASSUME NEW f, NEW x, x[1] = "set", NEW p \in Nat \ {0}, NEW q \in Nat \ {0}
    PROVE  Spells(f, x, p, q) <=> Same(f, q, p)
<1>1. \A w : Form(x, w) <=> w = <<>>
  BY DEF Form
<1>2. Len(<<>>) = 0 /\ p + 0 = p
  OBVIOUS
<1>3. \A w : Form(x, w) => Len(w) = 0
  BY <1>1, <1>2
<1>4. Spells(f, x, p, q) => Same(f, q, p)
  BY <1>2, <1>3 DEF Spells, Same
<1>5. Same(f, q, p) => Spells(f, x, p, q)
  BY <1>1, FormSpells
<1> QED BY <1>4, <1>5

(* The change of state at the end of a call writes nothing. *)
LEMMA DropSet ==
    ASSUME NEW S, NEW f \in Seq(S), NEW C, NEW D, NEW n \in Nat \ {0}, Len(D) = n,
           Len(C) = n + 1, \A i \in 1..n : C[i] = D[i], C[n + 1][1] = "set",
           NEW p \in Nat \ {0}, NEW q \in Nat \ {0}, Spelled(f, C, p, q)
    PROVE  Spelled(f, D, p, q)
<1>1. PICK at \in [1..(Len(C) + 1) -> Nat \ {0}] :
             /\ at[1] = p
             /\ at[Len(C) + 1] = q
             /\ \A i \in 1..Len(C) : Spells(f, C[i], at[i], at[i + 1])
  BY DEF Spelled
<1> DEFINE bt == [ i \in 1..(n + 1) |-> IF i = n + 1 THEN q ELSE at[i] ]
<1>2. /\ at \in [1..(n + 2) -> Nat \ {0}] /\ n + 1 + 1 = n + 2
      /\ at[1] = p /\ at[n + 2] = q
      /\ \A i \in 1..(n + 1) : Spells(f, C[i], at[i], at[i + 1])
  BY <1>1
<1>3. /\ bt \in [1..(n + 1) -> Nat \ {0}]
      /\ bt[n + 1] = q /\ \A i \in 1..n : bt[i] = at[i]
  BY <1>2
<1> HIDE DEF bt
<1>4. bt[1] = p
  BY <1>2, <1>3
<1>5. Same(f, q, at[n + 1])
  <2>1. n + 1 \in 1..(n + 1) /\ at[n + 1] \in Nat \ {0}
    BY <1>2
  <2>2. Spells(f, C[n + 1], at[n + 1], q)
    BY <1>2, <2>1
  <2> QED BY <2>1, <2>2, SpellsSet
<1>6. ASSUME NEW i \in 1..n
      PROVE  Spells(f, D[i], bt[i], bt[i + 1])
  <2>1. Spells(f, D[i], at[i], at[i + 1]) /\ bt[i] = at[i] /\ at[i] \in Nat \ {0}
          /\ at[i + 1] \in Nat \ {0}
    BY <1>2, <1>3
  <2>2. CASE i = n
    BY <1>3, <1>5, <2>1, <2>2, SpellsSame
  <2>3. CASE i # n
    <3>1. i + 1 \in 1..n
      BY <2>3
    <3> QED BY <1>3, <2>1, <3>1
  <2> QED BY <2>2, <2>3
<1> QED BY <1>3, <1>4, <1>6 DEF Spelled

LEMMA SpelledOne ==
    ASSUME NEW f, NEW x, NEW p, NEW q
    PROVE  Spelled(f, << x >>, p, q) => /\ p \in Nat \ {0} /\ q \in Nat \ {0}
                                        /\ Spells(f, x, p, q)
<1> SUFFICES ASSUME Spelled(f, << x >>, p, q)
             PROVE  p \in Nat \ {0} /\ q \in Nat \ {0} /\ Spells(f, x, p, q)
  OBVIOUS
<1> DEFINE C == << x >>
<1>1. Len(C) = 1 /\ C[1] = x
  OBVIOUS
<1> HIDE DEF C
<1>2. PICK at \in [1..(Len(C) + 1) -> Nat \ {0}] :
             /\ at[1] = p
             /\ at[Len(C) + 1] = q
             /\ \A i \in 1..Len(C) : Spells(f, C[i], at[i], at[i + 1])
  BY DEF Spelled, C
<1>3. at \in [1..2 -> Nat \ {0}] /\ at[1] = p /\ at[2] = q /\ Spells(f, x, at[1], at[2])
  BY <1>1, <1>2
<1>4. \A i \in 1..2 : at[i] \in Nat \ {0}
  BY <1>3
<1>5. 1 \in 1..2 /\ 2 \in 1..2
  OBVIOUS
<1> QED BY <1>3, <1>4, <1>5, Zenon

LEMMA SpelledTwo ==
    ASSUME NEW f, NEW x, NEW y, NEW p, NEW q, Spelled(f, << x, y >>, p, q)
    PROVE  /\ p \in Nat \ {0} /\ q \in Nat \ {0}
           /\ \E r \in Nat \ {0} : Spells(f, x, p, r) /\ Spells(f, y, r, q)
<1> DEFINE C == << x, y >>
<1>1. Len(C) = 2 /\ C[1] = x /\ C[2] = y
  OBVIOUS
<1> HIDE DEF C
<1>2. PICK at \in [1..(Len(C) + 1) -> Nat \ {0}] :
             /\ at[1] = p
             /\ at[Len(C) + 1] = q
             /\ \A i \in 1..Len(C) : Spells(f, C[i], at[i], at[i + 1])
  BY DEF Spelled, C
<1>3. /\ at \in [1..3 -> Nat \ {0}] /\ at[1] = p /\ at[3] = q
      /\ Spells(f, x, at[1], at[2]) /\ Spells(f, y, at[2], at[3])
  BY <1>1, <1>2
<1> QED BY <1>3

LEMMA SpelledThree ==
    ASSUME NEW f, NEW x, NEW y, NEW z, NEW p, NEW q, Spelled(f, << x, y, z >>, p, q)
    PROVE  /\ p \in Nat \ {0} /\ q \in Nat \ {0}
           /\ \E r, s \in Nat \ {0} :
                Spells(f, x, p, r) /\ Spells(f, y, r, s) /\ Spells(f, z, s, q)
<1> DEFINE C == << x, y, z >>
<1>1. Len(C) = 3 /\ C[1] = x /\ C[2] = y /\ C[3] = z
  OBVIOUS
<1> HIDE DEF C
<1>2. PICK at \in [1..(Len(C) + 1) -> Nat \ {0}] :
             /\ at[1] = p
             /\ at[Len(C) + 1] = q
             /\ \A i \in 1..Len(C) : Spells(f, C[i], at[i], at[i + 1])
  BY DEF Spelled, C
<1>3. /\ at \in [1..4 -> Nat \ {0}] /\ at[1] = p /\ at[4] = q
      /\ Spells(f, x, at[1], at[2]) /\ Spells(f, y, at[2], at[3]) /\ Spells(f, z, at[3], at[4])
  BY <1>1, <1>2
<1>4. \A i \in {1, 2, 3, 4} : at[i] \in Nat \ {0}
  BY <1>3, SMTT(30)
<1> QED BY <1>3, <1>4, Zenon

LEMMA TwoWrites ==
    ASSUME NEW S, NEW f \in Seq(S), NEW t, NEW u, NEW p \in Nat \ {0}, NEW q,
           Spelled(f, << W(t), W(u) >>, p, q)
    PROVE  Has(f, p, t) /\ Has(f, p + 1, u) /\ Same(f, q, p + 2)
<1>1. q \in Nat \ {0} /\ EndOf(f) \in Nat
  BY SpelledTwo, EndType
<1>2. PICK r \in Nat \ {0} : Spells(f, W(t), p, r) /\ Spells(f, W(u), r, q)
  BY SpelledTwo
<1>3. Has(f, p, t) /\ Same(f, r, p + 1) /\ Has(f, r, u) /\ Same(f, q, r + 1)
  BY <1>1, <1>2, SpellsWrite
<1> QED BY <1>1, <1>3 DEF Has, Same, Past

-----------------------------------------------------------------------------
(* What is written so far, and every file that the rest of the call may    *)
(* make of it.                                                             *)

Ext(f, g) == EndOf(f) <= EndOf(g) /\ \A i \in 1..EndOf(f) : g[i] = f[i]

Goal(q) ==
    [ pos  |-> q,
      db   |-> IF ~Idle /\ call[1] = "db" THEN call[2] ELSE IF db = None THEN 0 ELSE db,
      exp  |-> 0,
      ents |-> Sent,
      head |-> ~Idle \/ state # "Start",
      done |-> IF Idle THEN state = "WritingEnd" ELSE call[1] = "end" ]

Story ==
    \A f \in Seq(Tokens), q \in Nat \ {0} :
        Ext(out, f) /\ Spelled(f, todo, EndOf(out) + 1, q) => Sound(f, log, Goal(q))

LEMMA SentType ==
    ASSUME TypeInv, LinkInv
    PROVE  Sent \in Seq(Ents) /\ Pre(log, Sent)
<1>1. log \in Seq(Ents)
  BY DEF LinkInv
<1>2. CASE ~Idle /\ call[1] = "object"
  <2>1. call[2] \in Ents
    BY <1>2 DEF LinkInv, Called
  <2>2. Sent = log \o << call[2] >>
    BY <1>2 DEF Sent
  <2>3. /\ << call[2] >> \in Seq(Ents) /\ Len(<< call[2] >>) = 1
    BY <2>1
  <2>4. /\ Sent \in Seq(Ents) /\ Len(Sent) = Len(log) + 1
        /\ \A i \in 1..Len(log) : Sent[i] = log[i]
    BY <1>1, <2>2, <2>3, ConcatProperties
  <2> QED BY <1>1, <2>4 DEF Pre
<1>3. CASE ~(~Idle /\ call[1] = "object")
  <2>1. Sent = log \o <<>>
    BY <1>3 DEF Sent
  <2>2. Sent = log
    BY <1>1, <2>1
  <2> QED BY <1>1, <2>2, PreFacts
<1> QED BY <1>2, <1>3

LEMMA GoalType ==
    ASSUME TypeInv, LinkInv, NEW q \in Nat \ {0}
    PROVE  Goal(q) \in Points
<1>1. db \in DBs \cup {None} /\ DBs \subseteq Nat
  BY EncoderAssumption DEF TypeInv, TypeOK
<1>2. ~Idle /\ call[1] = "db" => call[2] \in DBs
  BY DEF TypeInv, CallOK
<1>3. Goal(q).db \in Nat
  BY <1>1, <1>2 DEF Goal
<1>4. Sent \in Seq(Ents)
  BY SentType
<1> HIDE DEF Goal
<1>5. Goal(q) = [pos |-> q, db |-> Goal(q).db, exp |-> 0, ents |-> Sent,
                 head |-> Goal(q).head, done |-> Goal(q).done]
       /\ Goal(q).head \in BOOLEAN /\ Goal(q).done \in BOOLEAN
  BY DEF Goal, Idle
<1> QED BY <1>3, <1>4, <1>5 DEF Points

(* The head of the call, and its rest. *)
LEMMA NowRest ==
    ASSUME NEW s, Rest(todo, s)
    PROVE  /\ todo # <<>> /\ todo[1] = now
           /\ Len(rest) \in Nat /\ Len(todo) = Len(rest) + 1
           /\ \A i \in 1..Len(rest) : todo[i + 1] = rest[i]
<1>1. todo \in Seq(InnerInstrs \cup {<<"set", s>>}) /\ todo # <<>>
  BY DEF Rest
<1>2. /\ Len(todo) \in Nat \ {0} /\ now = todo[1]
      /\ Len(rest) = Len(todo) - 1
      /\ \A i \in 1..(Len(todo) - 1) : rest[i] = todo[i+1]
  BY <1>1, HeadTail DEF now, rest
<1> QED BY <1>1, <1>2

LEMMA SpelledNow ==
    ASSUME NEW s, Rest(todo, s), NEW f, NEW p \in Nat \ {0}, NEW r \in Nat \ {0}, NEW q,
           Spells(f, now, p, r), Spelled(f, rest, r, q)
    PROVE  Spelled(f, todo, p, q)
BY NowRest, SpelledCons

LEMMA SpelledPrefix ==
    ASSUME NEW f, NEW S, NEW ws \in Seq(S), NEW q \in Seq(S), NEW p, NEW r,
           Spelled(f, ws \o q, p, r)
    PROVE  \E m \in Nat \ {0} : Spelled(f, ws, p, m) /\ Spelled(f, q, m, r)
<1>1. /\ Len(ws \o q) = Len(ws) + Len(q) /\ Len(ws) \in Nat /\ Len(q) \in Nat
      /\ \A i \in 1..Len(ws) : (ws \o q)[i] = ws[i]
      /\ \A i \in 1..Len(q) : (ws \o q)[Len(ws) + i] = q[i]
  BY ConcatProperties
<1> DEFINE C == ws \o q
<1> HIDE DEF C
<1>2. \E m \in Nat \ {0} : Spelled(f, ws, p, m) /\ Spelled(f, q, m, r)
  BY <1>1, SpelledSplit DEF C
<1> QED BY <1>2

(* What takes the place of a statement spells what it spells. *)
LEMMA ReplacementSpells ==
    ASSUME NEW f \in Seq(Tokens), NEW p \in Nat \ {0}, NEW r \in Nat \ {0},
           NEW x \in InnerInstrs, x[1] \in {"str", "nan"},
           NEW ws \in IF x[1] = "str" THEN writeString(x[2]) ELSE writeNanString(x[2]),
           Spelled(f, ws, p, r)
    PROVE  Spells(f, x, p, r)
<1> DEFINE b == x[2]
<1>1. CASE ws = writeSimpleString(b)
  <2>1. Spelled(f, << W(StrHead(b)), W(StrBody(b)) >>, p, r)
    BY <1>1 DEF writeSimpleString
  <2>2. Has(f, p, StrHead(b)) /\ Has(f, p + 1, StrBody(b)) /\ Same(f, r, p + 2)
    BY <2>1, TwoWrites
  <2>3. Form(x, << StrHead(b), StrBody(b) >>)
    BY DEF Form, StringForm
  <2> QED BY <2>2, <2>3, FormSpells
<1>2. CASE ws = writeLZFString(b)
  <2> DEFINE y == <<"lzf", b, 4>>
  <2>1. Spells(f, y, p, r)
    BY <1>2, SpelledOne DEF writeLZFString
  <2>2. \A w : Form(y, w) => Form(x, w)
    BY DEF Form, StringForm
  <2> HIDE DEF y
  <2> QED BY <2>1, <2>2 DEF Spells
<1>3. CASE x[1] = "str" /\ b[1] = "text" /\ ws = << W(IntStr(b[2])) >>
  <2>1. Spells(f, W(IntStr(b[2])), p, r)
    BY <1>3, SpelledOne
  <2>2. Has(f, p, IntStr(b[2])) /\ Same(f, r, p + 1)
    BY <2>1, SpellsWrite
  <2>3. Form(x, << IntStr(b[2]) >>)
    BY <1>3 DEF Form
  <2> QED BY <2>2, <2>3, FormSpells
<1>4. \A v \in writeNanString(b) : v = writeSimpleString(b) \/ v = writeLZFString(b)
  <2>1. \A z \in Compressions(b) :
          LET v == IF z THEN writeLZFString(b) ELSE writeSimpleString(b)
          IN  v = writeSimpleString(b) \/ v = writeLZFString(b)
    OBVIOUS
  <2> QED BY <2>1 DEF writeNanString
<1>5. \/ ws \in writeNanString(b)
      \/ x[1] = "str" /\ b[1] = "text" /\ ws = << W(IntStr(b[2])) >>
  <2>1. CASE x[1] = "str" /\ b[1] = "text" /\ b[2] \in IntStrings
    BY <2>1 DEF writeString
  <2>2. CASE ~(x[1] = "str" /\ b[1] = "text" /\ b[2] \in IntStrings)
    <3>1. x[1] = "str" => writeString(b) = writeNanString(b)
      BY <2>2, Zenon DEF writeString
    <3> QED BY <3>1, Zenon
  <2> QED BY <2>1, <2>2
<1> QED BY <1>1, <1>2, <1>3, <1>4, <1>5

LEMMA TTLSpells ==
    ASSUME NEW f \in Seq(Tokens), NEW p \in Nat \ {0}, NEW r \in Nat \ {0}, NEW n,
           Spelled(f, << W(Op("opCodeExpireTimeMs")), W(Int64(n)), <<"set", "WrittenTTL">> >>, p, r)
    PROVE  Spells(f, <<"ttl", n>>, p, r)
<1> DEFINE C == << W(Op("opCodeExpireTimeMs")), W(Int64(n)), <<"set", "WrittenTTL">> >>
           D == << W(Op("opCodeExpireTimeMs")), W(Int64(n)) >>
<1>1. /\ Len(C) = 2 + 1 /\ Len(D) = 2 /\ C[2 + 1][1] = "set"
      /\ C[1] = D[1] /\ C[2] = D[2] /\ 1..2 = {1, 2}
  OBVIOUS
<1> HIDE DEF C, D
<1>2. \A i \in 1..2 : C[i] = D[i]
  BY <1>1
<1>3. Spelled(f, D, p, r)
  <2>1. Spelled(f, C, p, r) /\ 2 \in Nat \ {0}
    BY DEF C
  <2>2. \A l \in Nat \ {0} :
           /\ Len(D) = l /\ Len(C) = l + 1
           /\ \A i \in 1..l : C[i] = D[i]
           /\ C[l + 1][1] = "set"
           => Spelled(f, D, p, r)
    BY <2>1, DropSet
  <2> QED BY <1>1, <1>2, <2>1, <2>2, Zenon
<1>4. Has(f, p, Op("opCodeExpireTimeMs")) /\ Has(f, p + 1, Int64(n)) /\ Same(f, r, p + 2)
  BY <1>3, TwoWrites DEF D
<1>5. Form(<<"ttl", n>>, << Op("opCodeExpireTimeMs"), Int64(n) >>)
  BY DEF Form
<1> QED BY <1>4, <1>5, FormSpells

(* The first token of a compressed form before the others. *)
LEMMA LzfSpells ==
    ASSUME NEW f \in Seq(Tokens), NEW p \in Nat \ {0}, NEW r \in Nat \ {0}, p <= EndOf(f),
           NEW b, NEW n \in 2..4, f[p] = LzfToken(b, n),
           Spells(f, <<"lzf", b, n - 1>>, p + 1, r)
    PROVE  Spells(f, <<"lzf", b, n>>, p, r)
<1>1. EndOf(f) \in Nat /\ ~Past(f, p + 1) /\ Has(f, p, LzfToken(b, n))
  BY EndType DEF Past, Has
<1>2. PICK w : /\ Form(<<"lzf", b, n - 1>>, w)
               /\ \A i \in 1..Len(w) : Has(f, p + 1 + i - 1, w[i])
               /\ Same(f, r, p + 1 + Len(w))
  BY <1>1 DEF Spells
<1>3. p + 1 \in Nat /\ p + 1 + 1 = p + 2 /\ p + 1 + 2 = p + 3 /\ p + 1 + 3 = p + 4
  OBVIOUS
<1>4. CASE n = 2
  <2>1. w = << LzfBody(b) >> /\ Form(<<"lzf", b, n>>, << StrHead(b), LzfBody(b) >>)
        /\ LzfToken(b, n) = StrHead(b)
    BY <1>2, <1>4 DEF Form, LzfToken
  <2>2. Len(w) = 1
    BY <2>1
  <2>3. Has(f, p + 1, LzfBody(b))
    BY <1>2, <1>3, <2>1, HasTuples, Zenon
  <2>4. Same(f, r, p + 2)
    BY <1>2, <1>3, <2>2
  <2> QED BY <1>1, <2>1, <2>3, <2>4, FormSpells
<1>5. CASE n = 3
  <2>1. /\ w = << StrHead(b), LzfBody(b) >>
        /\ Form(<<"lzf", b, n>>, << LzfLen(b), StrHead(b), LzfBody(b) >>)
        /\ LzfToken(b, n) = LzfLen(b)
    BY <1>2, <1>5 DEF Form, LzfToken
  <2>2. Len(w) = 2
    BY <2>1
  <2>3. Has(f, p + 1, StrHead(b)) /\ Has(f, p + 1 + 1, LzfBody(b))
    BY <1>2, <1>3, <2>1, HasTuples, Zenon
  <2>4. Same(f, r, p + 3)
    BY <1>2, <1>3, <2>2
  <2> QED BY <1>1, <1>3, <2>1, <2>3, <2>4, FormSpells
<1>6. CASE n = 4
  <2>1. /\ w = << LzfLen(b), StrHead(b), LzfBody(b) >>
        /\ Form(<<"lzf", b, n>>, << LzfMark, LzfLen(b), StrHead(b), LzfBody(b) >>)
        /\ LzfToken(b, n) = LzfMark
    BY <1>2, <1>6 DEF Form, LzfToken
  <2>2. Len(w) = 3
    BY <2>1
  <2>5. \A i \in 1..Len(<< LzfLen(b), StrHead(b), LzfBody(b) >>) :
           Has(f, p + 1 + i - 1, << LzfLen(b), StrHead(b), LzfBody(b) >>[i])
    BY <1>2, <2>1, Zenon
  <2>3. Has(f, p + 1, LzfLen(b)) /\ Has(f, p + 1 + 1, StrHead(b)) /\ Has(f, p + 1 + 2, LzfBody(b))
    <3>1. p + 1 \in Nat
      OBVIOUS
    <3> QED BY <2>5, <3>1, HasTuples
  <2>4. Same(f, r, p + 4)
    BY <1>2, <1>3, <2>2
  <2> QED BY <1>1, <1>3, <2>1, <2>3, <2>4, FormSpells
<1> QED BY <1>4, <1>5, <1>6

LEMMA ExtFacts ==
    ASSUME NEW g \in Seq(Tokens), NEW f \in Seq(Tokens), NEW t \in Tokens,
           EndOf(g) = Len(g), t # Torn, Ext(Append(g, t), f)
    PROVE  /\ Ext(g, f) /\ EndOf(Append(g, t)) = EndOf(g) + 1
           /\ f[EndOf(g) + 1] = t /\ EndOf(g) + 1 <= EndOf(f)
<1>1. EndOf(Append(g, t)) = Len(g) + 1 /\ Len(g) \in Nat
  BY LastToken
<1>2. /\ Append(g, t)[Len(g) + 1] = t
      /\ \A i \in 1..Len(g) : Append(g, t)[i] = g[i]
  BY AppendProperties
<1>3. EndOf(f) \in Nat
  BY EndType
<1> QED BY <1>1, <1>2, <1>3 DEF Ext

(* A step of a call leaves some of the files that it could have made.      *)
LEMMA StepSpelled ==
    ASSUME TypeInv, Trusted => EndOf(out) = Len(out), NEW s, Rest(todo, s),
           now \in InnerInstrs, Rest(rest, s), GoesOn, Continue, Trusted',
           NEW f \in Seq(Tokens), NEW q \in Nat \ {0},
           Ext(out', f), Spelled(f, todo', EndOf(out') + 1, q)
    PROVE  Ext(out, f) /\ Spelled(f, todo, EndOf(out) + 1, q)
<1> DEFINE p == EndOf(out) + 1
<1>1. /\ out \in Seq(Tokens) /\ crc \in Seq(WrittenTokens) /\ faults \in Nat /\ MaxFaults \in Nat
      /\ Compress \in BOOLEAN
  BY EncoderAssumption DEF TypeInv, TypeOK
<1>2. faults' \in {faults, faults + 1}
  BY DEF GoesOn, Writes
<1>3. Trusted /\ (~Compress \/ MaxFaults = 0 \/ faults' = 0)
  BY <1>1, <1>2 DEF Trusted, Continue
<1>4. EndOf(out) = Len(out) /\ p \in Nat \ {0} /\ p + 1 \in Nat \ {0}
  BY <1>1, <1>3
<1>5. /\ now[1] = "write" => now[2] \in WrittenTokens
      /\ now[1] \in {"str", "nan", "lzf"} => now[2] \in Bytes
      /\ now[1] = "lzf" => now[3] \in 1..4 /\ Compress
      /\ now[1] = "ttl" => now[2] \in TTLs
  BY InnerKinds
<1>6. ASSUME NEW t \in Tokens, t # Torn, Writes(t)
      PROVE  /\ Ext(out, f) /\ EndOf(out') + 1 = p + 1 /\ f[p] = t /\ p <= EndOf(f)
             /\ Has(f, p, t) /\ ~Past(f, p + 1) /\ Same(f, p + 1, p + 1)
  <2>1. /\ Ext(out, f) /\ EndOf(out') = EndOf(out) + 1 /\ f[EndOf(out) + 1] = t
        /\ EndOf(out) + 1 <= EndOf(f)
    BY <1>1, <1>4, <1>6, ExtFacts DEF Writes
  <2>2. EndOf(f) \in Nat
    BY EndType
  <2> QED BY <1>4, <2>1, <2>2 DEF Has, Past, Same
<1>7. ASSUME NEW t \in Tokens, t # Torn, Writes(t), Form(now, << t >>), todo' = rest
      PROVE  Ext(out, f) /\ Spelled(f, todo, p, q)
  <2>1. Has(f, p, t) /\ Same(f, p + 1, p + 1) /\ Spelled(f, rest, p + 1, q) /\ Ext(out, f)
    BY <1>6, <1>7
  <2>2. Spells(f, now, p, p + 1)
    BY <1>4, <1>7, <2>1, FormSpells
  <2> QED BY <1>4, <2>1, <2>2, SpelledNow
<1>8. ASSUME out' = out, NEW ws \in Seq(InnerInstrs), todo' = ws \o rest,
             \A r \in Nat \ {0} : Spelled(f, ws, p, r) => Spells(f, now, p, r)
      PROVE  Ext(out, f) /\ Spelled(f, todo, p, q)
  <2>1. Ext(out, f) /\ Spelled(f, ws \o rest, p, q)
    BY <1>8
  <2>2. rest \in Seq(InnerInstrs \cup {<<"set", s>>}) /\ ws \in Seq(InnerInstrs \cup {<<"set", s>>})
    BY <1>8 DEF Rest
  <2>3. PICK r \in Nat \ {0} : Spelled(f, ws, p, r) /\ Spelled(f, rest, r, q)
    BY <2>1, <2>2, SpelledPrefix
  <2> QED BY <1>4, <1>8, <2>1, <2>3, SpelledNow
<1>9. CASE now[1] = "write" /\ Writes(now[2]) /\ todo' = rest
  <2>1. now[2] \in Tokens /\ now[2] # Torn /\ Form(now, << now[2] >>)
    BY <1>5, <1>9, WrittenWhole DEF Form, Tokens
  <2> QED BY <1>7, <1>9, <2>1
<1>10. CASE now[1] = "sum" /\ Writes(Crc(crc)) /\ todo' = rest
  <2>1. Crc(crc) \in Tokens /\ Crc(crc) # Torn
    BY <1>1, WrittenWhole DEF Crc, Tokens
  <2>2. Form(now, << Crc(crc) >>)
    BY <1>1, <1>10 DEF Form
  <2> QED BY <1>7, <1>10, <2>1, <2>2
<1>11. ASSUME now[1] = "lzf"
       PROVE  LzfToken(now[2], now[3]) \in Tokens /\ LzfToken(now[2], now[3]) # Torn
  <2>1. LzfToken(now[2], now[3]) \in WrittenTokens
    BY <1>5, <1>11, WrittenWhole, Zenon
  <2> QED BY <2>1, WrittenWhole DEF Tokens
<1>12. CASE now[1] = "lzf" /\ now[3] = 1 /\ Writes(LzfToken(now[2], now[3])) /\ todo' = rest
  <2>1. Form(now, << LzfToken(now[2], now[3]) >>)
    BY <1>12 DEF Form, LzfToken
  <2> QED BY <1>7, <1>11, <1>12, <2>1
<1>13. CASE /\ now[1] = "lzf" /\ now[3] # 1 /\ Writes(LzfToken(now[2], now[3]))
            /\ todo' = << <<"lzf", now[2], now[3] - 1>> >> \o rest
  <2> DEFINE b == now[2]
             n == now[3]
             y == <<"lzf", b, n - 1>>
  <2>1. n \in 2..4 /\ n - 1 \in 1..4 /\ Compress /\ b \in Bytes
    BY <1>5, <1>13
  <2>2. << y >> \in Seq(InnerInstrs)
    BY <2>1, Replacements, Zenon
  <2>3. now = <<"lzf", b, n>>
    <3>1. now \in {"lzf"} \X Bytes \X (1..4)
      BY <1>13 DEF InnerInstrs
    <3> QED BY <3>1
  <2>4. /\ Ext(out, f) /\ EndOf(out') + 1 = p + 1 /\ f[p] = LzfToken(b, n) /\ p <= EndOf(f)
    BY <1>6, <1>11, <1>13
  <2> HIDE DEF b, n, y
  <2>5. Spelled(f, << y >> \o rest, p + 1, q)
    BY <1>13, <2>4 DEF b, n, y
  <2>6. /\ rest \in Seq(InnerInstrs \cup {<<"set", s>>})
        /\ << y >> \in Seq(InnerInstrs \cup {<<"set", s>>})
    BY <2>2 DEF Rest
  <2>7. PICK r \in Nat \ {0} : Spelled(f, << y >>, p + 1, r) /\ Spelled(f, rest, r, q)
    BY <2>5, <2>6, SpelledPrefix
  <2>8. Spells(f, y, p + 1, r)
    BY <2>7, SpelledOne
  <2>9. Spells(f, now, p, r)
    BY <1>4, <2>1, <2>3, <2>4, <2>8, LzfSpells DEF y
  <2> QED BY <1>4, <2>4, <2>7, <2>9, SpelledNow
<1>14. CASE now[1] \in {"str", "nan"} /\ UNCHANGED <<out, state, faults>>
             /\ \E ws \in IF now[1] = "str" THEN writeString(now[2]) ELSE writeNanString(now[2]) :
                  todo' = ws \o rest
  <2>1. PICK ws \in IF now[1] = "str" THEN writeString(now[2]) ELSE writeNanString(now[2]) :
               todo' = ws \o rest
    BY <1>14
  <2>2. ws \in writeNanString(now[2]) \cup writeString(now[2])
    BY <2>1
  <2>3. ws \in Seq(InnerInstrs)
    BY <1>5, <1>14, <2>2, Replacements
  <2>4. \A r \in Nat \ {0} : Spelled(f, ws, p, r) => Spells(f, now, p, r)
    BY <1>4, <1>14, <2>1, ReplacementSpells
  <2> QED BY <1>8, <1>14, <2>1, <2>3, <2>4
<1>15. CASE now[1] = "ttl" /\ UNCHANGED <<out, state, faults>>
             /\ todo' = << W(Op("opCodeExpireTimeMs")), W(Int64(now[2])),
                           <<"set", "WrittenTTL">> >> \o rest
  <2> DEFINE ws == << W(Op("opCodeExpireTimeMs")), W(Int64(now[2])), <<"set", "WrittenTTL">> >>
  <2>1. ws \in Seq(InnerInstrs)
    BY <1>5, <1>15, TTLStatements
  <2>2. now = <<"ttl", now[2]>>
    <3>1. now \in {"ttl"} \X TTLs
      BY <1>15 DEF InnerInstrs
    <3> QED BY <3>1
  <2>3. \A r \in Nat \ {0} : Spelled(f, ws, p, r) => Spells(f, <<"ttl", now[2]>>, p, r)
    BY <1>4, TTLSpells
  <2>4. todo' = ws \o rest /\ out' = out
    BY <1>15
  <2> HIDE DEF ws
  <2>5. \A r \in Nat \ {0} : Spelled(f, ws, p, r) => Spells(f, now, p, r)
    BY <2>2, <2>3
  <2> QED BY <1>8, <2>1, <2>4, <2>5
<1>16. CASE now = <<"set", "WrittenTTL">> /\ UNCHANGED <<out, faults>> /\ todo' = rest
  <2>1. Ext(out, f) /\ Spelled(f, rest, p, q)
    BY <1>16
  <2>2. Spells(f, now, p, p)
    <3>1. now[1] = "set" /\ Same(f, p, p)
      BY <1>16 DEF Same
    <3> QED BY <1>4, <3>1, SpellsSet
  <2> QED BY <1>4, <2>1, <2>2, SpelledNow
<1>17. ~(now[1] = "lzf" /\ faults' = faults + 1 /\ faults < MaxFaults)
  BY <1>1, <1>3, <1>5
<1> DEFINE Good == Ext(out, f) /\ Spelled(f, todo, EndOf(out) + 1, q)
<1>18. Good
  <2> HIDE DEF Good
  <2>1. /\ now[1] = "write" /\ Writes(now[2]) /\ todo' = rest => Good
        /\ now[1] = "sum" /\ Writes(Crc(crc)) /\ todo' = rest => Good
    BY <1>9, <1>10 DEF Good
  <2>2. /\ now[1] = "lzf" /\ now[3] = 1 /\ Writes(LzfToken(now[2], now[3])) /\ todo' = rest => Good
        /\ (/\ now[1] = "lzf" /\ now[3] # 1 /\ Writes(LzfToken(now[2], now[3]))
            /\ todo' = << <<"lzf", now[2], now[3] - 1>> >> \o rest) => Good
    BY <1>12, <1>13 DEF Good
  <2>3. (/\ now[1] \in {"str", "nan"} /\ UNCHANGED <<out, state, faults>>
         /\ \E ws \in IF now[1] = "str" THEN writeString(now[2]) ELSE writeNanString(now[2]) :
              todo' = ws \o rest) => Good
    BY <1>14 DEF Good
  <2>4. (/\ now[1] = "ttl" /\ UNCHANGED <<out, state, faults>>
         /\ todo' = << W(Op("opCodeExpireTimeMs")), W(Int64(now[2])),
                       <<"set", "WrittenTTL">> >> \o rest) => Good
    BY <1>15 DEF Good
  <2>5. now = <<"set", "WrittenTTL">> /\ UNCHANGED <<out, faults>> /\ todo' = rest => Good
    BY <1>16 DEF Good
  <2> QED BY <1>17, <2>1, <2>2, <2>3, <2>4, <2>5, Zenon DEF GoesOn
<1> QED BY <1>18

-----------------------------------------------------------------------------
(* The story of the file goes on. *)

LEMMA StoryStep ==
    ASSUME TypeInv, LinkInv, LinkInv', Step, Trusted => Story, Trusted'
    PROVE  Story'
<1> DEFINE s == Target(call[1])
<1>1. ~Idle /\ call' = call /\ call[1] \in {"header", "aux", "end", "db", "object"}
  <2>1. ~Idle /\ call' = call
    BY StepCases
  <2> QED BY <2>1 DEF LinkInv, Called
<1>2. Rest(todo, s) /\ log \in Seq(Ents)
  BY <1>1 DEF LinkInv
<1>3. /\ out \in Seq(Tokens) /\ faults \in Nat /\ MaxFaults \in Nat /\ Compress \in BOOLEAN
      /\ EndOf(out) + 1 \in Nat \ {0}
  <2>1. out \in Seq(Tokens)
    BY DEF TypeInv, TypeOK
  <2>2. EndOf(out) \in Nat
    BY <2>1, EndType
  <2> QED BY <2>1, <2>2, EncoderAssumption DEF TypeInv, TypeOK
<1>4. ASSUME GoesOn, Continue, todo' # <<>>, now \in InnerInstrs, Rest(rest, s)
      PROVE  Story'
  <2>1. faults' \in {faults, faults + 1}
    BY <1>4 DEF GoesOn, Writes
  <2>2. health' = health /\ log' = log /\ db' = db
    BY <1>4 DEF Continue
  <2>3. Trusted
    BY <1>3, <2>1, <2>2 DEF Trusted
  <2>4. ~Idle' /\ Sent' = Sent
    BY <1>1, <1>4, <2>2 DEF Idle, Sent
  <2>5. \A q : Goal(q)' = Goal(q)
    BY <1>1, <2>2, <2>4 DEF Goal
  <2>6. Trusted => EndOf(out) = Len(out)
    BY DEF LinkInv
  <2> SUFFICES ASSUME NEW f \in Seq(Tokens), NEW q \in Nat \ {0},
                      Ext(out', f), Spelled(f, todo', EndOf(out') + 1, q)
               PROVE  Sound(f, log', Goal(q)')
    BY DEF Story
  <2>7. Ext(out, f) /\ Spelled(f, todo, EndOf(out) + 1, q)
    BY <1>2, <1>4, <2>6, StepSpelled
  <2>8. Sound(f, log, Goal(q))
    BY <2>3, <2>7 DEF Story
  <2> QED BY <2>2, <2>5, <2>8
<1>5. ASSUME Returns, Return("nil"), todo' = <<>>
      PROVE  Story'
  <2>1. /\ out' = out /\ state' = s /\ todo = << <<"set", s>> >> /\ faults' = faults
    BY <1>5 DEF Returns
  <2>2. /\ health' = health
        /\ log' = IF call[1] = "object" THEN Append(log, call[2]) ELSE log
        /\ db' = IF call[1] = "db" THEN call[2] ELSE db
    BY <1>5, ReturnEffect DEF Return
  <2>3. Trusted
    BY <2>1, <2>2 DEF Trusted
  <2>4. Sent = log' /\ Sent' = log'
    <3>1. CASE call[1] = "object"
      <4>1. call[2] \in Ents
        BY <1>1, <3>1 DEF LinkInv, Called
      <4>2. Append(log, call[2]) = log \o << call[2] >>
        BY <1>2, <4>1
      <4>3. Append(log, call[2]) \o <<>> = Append(log, call[2])
        BY <1>2, <4>1
      <4> QED BY <1>1, <1>5, <2>2, <3>1, <4>2, <4>3 DEF Sent, Idle
    <3>2. CASE call[1] # "object"
      <4>1. log \o <<>> = log
        BY <1>2
      <4> QED BY <1>1, <1>5, <2>2, <3>2, <4>1 DEF Sent, Idle
    <3> QED BY <3>1, <3>2
  <2>5. \A q : Goal(q)' = Goal(q)
    <3>1. call[1] = "db" => call[2] \in DBs /\ call[2] # None
      BY EncoderAssumption DEF TypeInv, CallOK, None
    <3>2. /\ Goal(1)'.db = Goal(1).db
          /\ (s # "Start") /\ (s = "WritingEnd" <=> call[1] = "end")
      <4>1. Idle'
        BY <1>5 DEF Idle
      <4>2. (s # "Start") /\ (s = "WritingEnd" <=> call[1] = "end")
        BY <1>1 DEF Target
      <4>3. Goal(1)'.db = IF db' = None THEN 0 ELSE db'
        BY <4>1 DEF Goal
      <4>4. Goal(1).db = IF call[1] = "db" THEN call[2] ELSE IF db = None THEN 0 ELSE db
        BY <1>1 DEF Goal
      <4> QED BY <2>2, <3>1, <4>2, <4>3, <4>4
    <3>3. \A q : /\ Goal(q)'.db = Goal(1)'.db /\ Goal(q).db = Goal(1).db
      BY DEF Goal
    <3>4. Idle' /\ (~Idle' \/ state' # "Start") = TRUE /\ (~Idle \/ state # "Start") = TRUE
          /\ (IF Idle' THEN state' = "WritingEnd" ELSE call'[1] = "end")
                = (IF Idle THEN state = "WritingEnd" ELSE call[1] = "end")
      BY <1>1, <1>5, <2>1, <3>2 DEF Idle
    <3> HIDE DEF s
    <3> SUFFICES ASSUME NEW q
                 PROVE  Goal(q)' = Goal(q)
      OBVIOUS
    <3>5. Goal(q) = [pos |-> q, db |-> Goal(1).db, exp |-> 0, ents |-> log', head |-> TRUE,
                     done |-> call[1] = "end"]
      BY <1>1, <2>4, <3>4 DEF Goal
    <3>6. (state' = "WritingEnd") = (call[1] = "end")
      BY <2>1, <3>2
    <3>7. Goal(q)' = [pos |-> q, db |-> Goal(1)'.db, exp |-> 0, ents |-> log', head |-> TRUE,
                      done |-> call[1] = "end"]
      BY <2>4, <3>4, <3>6 DEF Goal
    <3> QED BY <3>2, <3>5, <3>7
  <2> SUFFICES ASSUME NEW f \in Seq(Tokens), NEW q \in Nat \ {0},
                      Ext(out', f), Spelled(f, todo', EndOf(out') + 1, q)
               PROVE  Sound(f, log', Goal(q)')
    BY DEF Story
  <2>6. Len(todo') = 0
    BY <1>5
  <2>7. q = EndOf(out) + 1
    BY <1>3, <2>1, <2>6, SpelledNone
  <2>8. Spelled(f, todo, EndOf(out) + 1, q)
    <3> DEFINE C == << <<"set", s>> >>
    <3>1. Spells(f, C[1], q, q)
      <4>1. C[1][1] = "set" /\ Same(f, q, q)
        BY DEF Same
      <4> QED BY <4>1, SpellsSet
    <3>2. Spelled(f, <<>>, q, q)
      BY <2>6, <1>5, SpelledNone
    <3>3. Len(<<>>) = 0 /\ Len(C) = Len(<<>>) + 1
      OBVIOUS
    <3>4. \A i \in 1..Len(<<>>) : C[i + 1] = <<>>[i]
      BY <3>3
    <3> HIDE DEF C
    <3>5. Spelled(f, C, q, q)
      BY <3>1, <3>2, <3>3, <3>4, SpelledCons
    <3> QED BY <2>1, <2>7, <3>5 DEF C
  <2>9. Ext(out, f) /\ ~Past(f, q)
    <3>1. EndOf(f) \in Nat /\ EndOf(out) \in Nat
      BY <1>3, EndType
    <3> QED BY <2>1, <2>7, <3>1 DEF Ext, Past
  <2>10. Sound(f, log, Goal(q))
    BY <2>3, <2>8, <2>9 DEF Story
  <2>11. Goal(q).pos = q /\ Goal(q).ents = Sent /\ Goal(q) \in Points
    BY GoalType DEF Goal
  <2>12. Sound(f, Sent, Goal(q))
    BY <1>2, <2>9, <2>10, <2>11, SoundReturn
  <2> QED BY <2>4, <2>5, <2>12
<1>6. ASSUME Return("error")
      PROVE  FALSE
  BY <1>6, ReturnEffect DEF Trusted
<1> QED BY <1>4, <1>5, <1>6, StepCases

(* The TTL options of a call: the last one counts. *)
LEMMA OptionsSound ==
    ASSUME NEW f \in Seq(Tokens), NEW s \in Seq(Ents),
           NEW p \in Nat \ {0}, NEW d \in Nat,
           Sound(f, s, Point(p, d, 0, s, TRUE, FALSE)),
           NEW opts \in TTLOptions, NEW r \in Nat \ {0}, Spelled(f, TTLs_(opts), p, r)
    PROVE  Sound(f, s, Point(r, d, IF opts = <<>> THEN 0 ELSE opts[Len(opts)], s, TRUE, FALSE))
<1>1. opts \in Seq(TTLs) /\ TTLs \subseteq Nat /\ Len(TTLs_(opts)) = Len(opts)
  BY OptionsType, EncoderAssumption
<1> DEFINE n == Len(opts)
<1>2. n \in Nat /\ \A i \in 1..n : opts[i] \in TTLs /\ TTLs_(opts)[i] = <<"ttl", opts[i]>>
  BY <1>1 DEF TTLs_
<1>3. PICK at \in [1..(n + 1) -> Nat \ {0}] :
             /\ at[1] = p
             /\ at[n + 1] = r
             /\ \A i \in 1..n : Spells(f, TTLs_(opts)[i], at[i], at[i + 1])
  BY <1>1 DEF Spelled
<1> DEFINE E(i) == IF i = 0 THEN 0 ELSE opts[i]
           P(i) == Point(at[i + 1], d, E(i), s, TRUE, FALSE)
<1>4. ASSUME NEW i \in 0..n
      PROVE  P(i) \in Points
  <2>1. at[i + 1] \in Nat \ {0}
    <3>1. i + 1 \in 1..(n + 1)
      BY <1>2
    <3> HIDE DEF n
    <3> QED BY <1>3, <3>1
  <2>2. E(i) \in Nat
    <3>1. CASE i = 0
      BY <3>1
    <3>2. CASE i # 0
      <4>1. i \in 1..n
        BY <3>2
      <4> QED BY <1>1, <1>2, <3>2, <4>1
    <3> QED BY <3>1, <3>2
  <2> DEFINE x == at[i + 1]
             y == E(i)
  <2>4. x \in Nat \ {0} /\ y \in Nat
    BY <2>1, <2>2
  <2> HIDE DEF x, y
  <2>5. Point(x, d, y, s, TRUE, FALSE) \in Points
    BY <2>4 DEF Points, Point
  <2> QED BY <2>5 DEF x, y
<1>5. P(0) = Point(p, d, 0, s, TRUE, FALSE)
  <2>1. at[0 + 1] = p /\ E(0) = 0
    BY <1>3
  <2> HIDE DEF E
  <2> QED BY <2>1
<1>12. \A i : P(i).pos = at[i + 1] /\ P(i).ents = s /\ P(i).exp = E(i) /\ P(i).head /\ ~P(i).done
              /\ P(i).db = d
  <2> HIDE DEF E
  <2> QED BY DEF Point
<1> DEFINE T == {i \in 0..n : Sound(f, s, P(i))}
<1>6. 0 \in T
  <2>1. 0 \in 0..n
    BY <1>2
  <2> HIDE DEF P
  <2> QED BY <1>5, <2>1
<1>7. ASSUME NEW i \in 1..n, i - 1 \in T
      PROVE  i \in T
  <2>1. i - 1 \in 0..n /\ i \in 0..n /\ (i - 1) + 1 = i
    BY <1>2
  <2>2. Sound(f, s, P(i - 1))
    BY <1>7
  <2>3. Spells(f, <<"ttl", opts[i]>>, at[i], at[i + 1]) /\ opts[i] \in TTLs
    BY <1>2, <1>3
  <2>4. P(i) = Point(P(i).pos, P(i - 1).db, opts[i], P(i - 1).ents, TRUE, FALSE)
    <3>1. E(i) = opts[i]
      BY <2>1
    <3>2. P(i) = Point(at[i + 1], d, opts[i], s, TRUE, FALSE)
      <4> HIDE DEF E
      <4> QED BY <3>1
    <3> HIDE DEF P
    <3> QED BY <1>12, <3>2
  <2> HIDE DEF P
  <2>5. P(i - 1).pos = at[i] /\ P(i).pos = at[i + 1] /\ P(i - 1).head /\ ~P(i - 1).done
    BY <1>12, <2>1
  <2>6. /\ P(i - 1) \in Points /\ P(i) \in Points
        /\ P(i - 1).ents = s /\ P(i).ents = s
    BY <1>4, <1>12, <2>1
  <2>7. Leads(f, P(i - 1), P(i))
    BY <2>3, <2>4, <2>5 DEF Leads
  <2>8. Pre(s, P(i).ents)
    BY <2>6, PreFacts
  <2>9. Sound(f, s, P(i))
    BY <2>2, <2>6, <2>7, <2>8, SoundStep
  <2> QED BY <2>1, <2>9
<1>8. 0..n \subseteq T
  <2> HIDE DEF T
  <2> QED BY <1>2, <1>6, <1>7, UpTo
<1>9. Sound(f, s, P(n))
  <2>1. n \in 0..n
    BY <1>2
  <2> HIDE DEF P
  <2> QED BY <1>8, <2>1
<1>10. n = 0 <=> opts = <<>>
  BY <1>1, EmptySeq
<1>11. P(n) = Point(r, d, IF opts = <<>> THEN 0 ELSE opts[Len(opts)], s, TRUE, FALSE)
  <2>1. E(n) = IF opts = <<>> THEN 0 ELSE opts[Len(opts)]
    BY <1>10
  <2> HIDE DEF E
  <2> QED BY <1>3, <2>1
<1> QED BY <1>9, <1>11

LEMMA DropLast ==
    ASSUME NEW S, NEW f \in Seq(S), NEW C, NEW D, NEW n \in Nat \ {0}, Len(D) = n,
           Len(C) = n + 1, \A i \in 1..n : C[i] = D[i], C[n + 1][1] = "set",
           NEW p, NEW q, Spelled(f, C, p, q)
    PROVE  Spelled(f, D, p, q) /\ p \in Nat \ {0} /\ q \in Nat \ {0}
<1>1. PICK at \in [1..(Len(C) + 1) -> Nat \ {0}] : at[1] = p /\ at[Len(C) + 1] = q
  BY DEF Spelled
<1>2. 1 \in 1..(Len(C) + 1) /\ Len(C) + 1 \in 1..(Len(C) + 1)
  OBVIOUS
<1>3. p \in Nat \ {0} /\ q \in Nat \ {0}
  BY <1>1, <1>2
<1> QED BY <1>3, DropSet

(* The calls of a fixed form. *)
LEMMA FixedCalls ==
    ASSUME NEW f \in Seq(Tokens), NEW p, NEW q
    PROVE  /\ Spelled(f, HeaderCall, p, q) =>
                Spells(f, W(Magic(IF Valkey THEN "VALKEY080" ELSE "REDIS0011")), p, q)
           /\ \A k, v : Spelled(f, AuxCall(k, v), p, q) =>
                Spelled(f, << W(Op("opCodeAux")), Str(k), Str(v) >>, p, q)
           /\ \A d : Spelled(f, DBCall(d), p, q) =>
                \E r \in Nat \ {0} :
                  /\ Spelled(f, << W(Op("opCodeSelectDB")), W(DbIndex(d)) >>, p, r)
                  /\ Spelled(f, << W(Op("opCodeResizeDB")), W(Length(0)), W(Length(0)) >>, r, q)
           /\ Spelled(f, EndCall, p, q) =>
                Spelled(f, << W(Op("opCodeEOF")), <<"sum">> >>, p, q)
<1>1. ASSUME Spelled(f, HeaderCall, p, q)
      PROVE  Spells(f, W(Magic(IF Valkey THEN "VALKEY080" ELSE "REDIS0011")), p, q)
  <2> DEFINE D == << W(Magic(IF Valkey THEN "VALKEY080" ELSE "REDIS0011")) >>
             n == 1
  <2>1. Len(D) = n /\ Len(HeaderCall) = n + 1 /\ n \in Nat \ {0}
    BY DEF HeaderCall
  <2>2. (\A i \in 1..n : HeaderCall[i] = D[i]) /\ HeaderCall[n + 1][1] = "set"
    BY DEF HeaderCall
  <2> HIDE DEF n, D
  <2>3. Spelled(f, D, p, q)
    BY <1>1, <2>1, <2>2, DropLast
  <2> QED BY <2>3, SpelledOne DEF D
<1>2. ASSUME NEW k, NEW v, Spelled(f, AuxCall(k, v), p, q)
      PROVE  Spelled(f, << W(Op("opCodeAux")), Str(k), Str(v) >>, p, q)
  <2> DEFINE D == << W(Op("opCodeAux")), Str(k), Str(v) >>
             n == 3
  <2>1. Len(D) = n /\ Len(AuxCall(k, v)) = n + 1 /\ n \in Nat \ {0}
    BY DEF AuxCall
  <2>2. (\A i \in 1..n : AuxCall(k, v)[i] = D[i]) /\ AuxCall(k, v)[n + 1][1] = "set"
    BY DEF AuxCall
  <2> HIDE DEF n, D
  <2>3. Spelled(f, D, p, q)
    BY <1>2, <2>1, <2>2, DropLast
  <2> QED BY <2>3 DEF D
<1>3. ASSUME NEW d, Spelled(f, DBCall(d), p, q)
      PROVE  \E r \in Nat \ {0} :
               /\ Spelled(f, << W(Op("opCodeSelectDB")), W(DbIndex(d)) >>, p, r)
               /\ Spelled(f, << W(Op("opCodeResizeDB")), W(Length(0)), W(Length(0)) >>, r, q)
  <2> DEFINE C == DBCall(d)
             A == << W(Op("opCodeSelectDB")), W(DbIndex(d)) >>
             B == << W(Op("opCodeResizeDB")), W(Length(0)), W(Length(0)),
                     <<"set", "WrittenDBHeader">> >>
             D == << W(Op("opCodeResizeDB")), W(Length(0)), W(Length(0)) >>
             n == 3
  <2>1. /\ Len(A) = 2 /\ Len(B) = 4 /\ Len(C) = 6
        /\ C[1] = A[1] /\ C[2] = A[2] /\ C[3] = B[1] /\ C[4] = B[2] /\ C[5] = B[3] /\ C[6] = B[4]
        /\ B[4][1] = "set" /\ B[1] = D[1] /\ B[2] = D[2] /\ B[3] = D[3] /\ Len(D) = 3
    BY DEF DBCall
  <2> HIDE DEF A, B, C, D
  <2>2. /\ Len(A) \in Nat /\ Len(B) \in Nat /\ Len(C) = Len(A) + Len(B)
        /\ \A i \in 1..Len(A) : C[i] = A[i]
        /\ \A i \in 1..Len(B) : C[Len(A) + i] = B[i]
    BY <2>1
  <2>3. PICK r \in Nat \ {0} : Spelled(f, A, p, r) /\ Spelled(f, B, r, q)
    BY <1>3, <2>2, SpelledSplit DEF C
  <2>4. /\ n \in Nat \ {0} /\ Len(D) = n /\ Len(B) = n + 1
        /\ \A i \in 1..n : B[i] = D[i]
        /\ B[n + 1][1] = "set"
    BY <2>1
  <2> HIDE DEF n
  <2>5. Spelled(f, D, r, q)
    BY <2>3, <2>4, DropLast
  <2> QED BY <2>3, <2>5 DEF A, D
<1>4. ASSUME Spelled(f, EndCall, p, q)
      PROVE  Spelled(f, << W(Op("opCodeEOF")), <<"sum">> >>, p, q)
  <2> DEFINE D == << W(Op("opCodeEOF")), <<"sum">> >>
             n == 2
  <2>1. Len(D) = n /\ Len(EndCall) = n + 1 /\ n \in Nat \ {0}
    BY DEF EndCall
  <2>2. (\A i \in 1..n : EndCall[i] = D[i]) /\ EndCall[n + 1][1] = "set"
    BY DEF EndCall
  <2> HIDE DEF n, D
  <2>3. Spelled(f, D, p, q)
    BY <1>4, <2>1, <2>2, DropLast
  <2> QED BY <2>3 DEF D
<1> QED BY <1>1, <1>2, <1>3, <1>4

-----------------------------------------------------------------------------
(* The options of a call, and its statements. *)
LEMMA ObjectCallSpelled ==
    ASSUME NEW f \in Seq(Tokens), NEW opts \in TTLOptions, NEW ws \in Seq(InnerInstrs),
           ws # <<>>, NEW p, NEW q, Spelled(f, ObjectCall(opts, ws), p, q)
    PROVE  \E m \in Nat \ {0} : Spelled(f, TTLs_(opts), p, m) /\ Spelled(f, ws, m, q)
<1> DEFINE ts == TTLs_(opts)
           D == ts \o ws
           T == << <<"set", "WrittenObject">> >>
           C == D \o T
           n == Len(D)
<1>1. ts \in Seq(InnerInstrs)
  <2>1. ts \in Seq({"ttl"} \X TTLs) /\ {"ttl"} \X TTLs \subseteq InnerInstrs
    BY OptionsType DEF InnerInstrs
  <2> HIDE DEF ts
  <2> QED BY <2>1
<1>2. Spelled(f, C, p, q)
  BY DEF ObjectCall
<1> HIDE DEF ts
<1>3. D \in Seq(InnerInstrs) /\ n \in Nat \ {0}
  <2>1. Len(ws) \in Nat \ {0}
    BY EmptySeq
  <2> QED BY <1>1, <2>1, ConcatProperties
<1>4. T \in Seq({T[1]}) /\ Len(T) = 1 /\ T[1][1] = "set"
  OBVIOUS
<1> HIDE DEF D, T
<1>5. Len(C) = n + 1 /\ (\A i \in 1..n : C[i] = D[i]) /\ C[n + 1] = T[1]
  <2>1. D \in Seq(InnerInstrs \cup {T[1]}) /\ T \in Seq(InnerInstrs \cup {T[1]})
    BY <1>3, <1>4
  <2>2. /\ Len(C) = Len(D) + Len(T)
        /\ \A i \in 1..Len(D) : C[i] = D[i]
        /\ \A i \in 1..Len(T) : C[Len(D) + i] = T[i]
    BY <2>1, ConcatProperties
  <2> HIDE DEF C
  <2> QED BY <1>4, <2>2
<1> HIDE DEF C, n
<1>6. Spelled(f, D, p, q)
  <2>1. Len(D) = n
    BY DEF n
  <2> QED BY <1>2, <1>3, <1>4, <1>5, <2>1, DropLast
<1> QED BY <1>1, <1>6, SpelledPrefix DEF D, ts

(* A call begins where the record before it ended. *)
LEMMA StoryCaller ==
    ASSUME TypeInv, LinkInv, TypeInv', LinkInv', Caller, Trusted => Story, Trusted'
    PROVE  Story'
<1>1. CASE Refuse
  <2>1. Trusted
    BY <1>1 DEF Trusted, Refuse
  <2>2. Story
    BY <2>1
  <2> QED BY <1>1, <2>2 DEF Refuse, Story, Goal, Sent, Idle
<1>2. ASSUME ~Refuse
      PROVE  Story'
  <2>1. /\ Idle /\ UNCHANGED <<state, out, crc, faults, db, log>>
        /\ health' = IF health = "clean" THEN "clean" ELSE "spoiled"
    BY <1>2, Begun
  <2>2. state # "WritingEnd"
    BY <1>2, CallerCases
  <2>3. Trusted /\ health = "clean"
    BY <2>1 DEF Trusted
  <2>4. Story
    BY <2>3
  <2>5. ~Idle'
    <3>1. HeaderCall # <<>> /\ EndCall # <<>> /\ (\A k, v : AuxCall(k, v) # <<>>) /\ (\A d : DBCall(d) # <<>>)
      BY DEF HeaderCall, EndCall, AuxCall, DBCall
    <3>2. \A k \in Keys, o \in Objects, opts \in TTLOptions : \A ws \in ObjectWrites(k, o) :
            ObjectCall(opts, ws) # <<>>
      BY ObjectWritesType, CallRests DEF Rest
    <3> QED BY <1>2, <3>1, <3>2, Begun DEF Idle
  <2>6. SUFFICES ASSUME NEW f \in Seq(Tokens), NEW q \in Nat \ {0},
                        Ext(out, f), Spelled(f, todo', EndOf(out) + 1, q)
                 PROVE  Sound(f, log, Goal(q)')
    BY <2>1 DEF Story
  <2> DEFINE p == EndOf(out) + 1
             d == IF db = None THEN 0 ELSE db
  <2>7. out \in Seq(Tokens) /\ db \in DBs \cup {None} /\ DBs \subseteq Nat /\ state \in States
    BY EncoderAssumption DEF TypeInv, TypeOK
  <2>8. p \in Nat \ {0} /\ d \in Nat
    BY <2>7, EndType
  <2>9. log \in Seq(Ents)
    BY DEF LinkInv
  <2>10. Sound(f, log, Goal(p))
    <3>1. Spelled(f, todo, p, p)
      BY <2>1, <2>8, SpelledNone, TupleLengths DEF Idle
    <3> HIDE DEF p
    <3>2. p = EndOf(out) + 1
      BY DEF p
    <3> QED BY <2>4, <2>6, <2>8, <3>1, <3>2 DEF Story
  <2>11. Goal(p) = Point(p, d, 0, log, state # "Start", FALSE)
    <3>1. Sent = log
      BY <2>1, <2>9, ConcatEmptySeq DEF Sent
    <3> HIDE DEF p, d
    <3> QED BY <2>1, <2>2, <3>1 DEF Goal, Point, d
  <2>12. \A x \in Nat, es \in Seq(Ents), z \in BOOLEAN, r \in Nat \ {0}, h \in BOOLEAN, c \in Nat :
           Point(r, c, x, es, h, z) \in Points
    BY DEF Point, Points
  <2>13. Sound(f, log, Point(p, d, 0, log, state # "Start", FALSE))
    <3> HIDE DEF p, d
    <3> QED BY <2>10, <2>11
  <2>14. /\ d = IF db = None THEN 0 ELSE db
         /\ Spelled(f, todo', p, q)
    BY <2>6
  <2> HIDE DEF p, d
  <2> DEFINE a == Point(p, d, 0, log, state # "Start", FALSE)
  <2>15. a \in Points
    BY <2>8, <2>9, <2>12
  <2>16. \A b \in Points : Leads(f, a, b) /\ Pre(log, b.ents) => Sound(f, log, b)
    <3>1. Sound(f, log, a) /\ a.ents = log
      BY <2>13 DEF Point
    <3> HIDE DEF a
    <3> QED BY <2>9, <2>15, <3>1, SoundStep
  <2>17. Pre(log, log)
    BY <2>9, PreFacts
  <2>18. (call[1] # "object")' => Sent' = log
    <3>1. log \o <<>> = log
      BY <2>9, ConcatEmptySeq
    <3> QED BY <2>1, <3>1 DEF Sent
  <2>19. ~a.done /\ (a.head <=> state # "Start") /\ a.pos = p /\ a.db = d /\ a.exp = 0 /\ a.ents = log
    BY DEF Point
  <2>21. CASE state = "Start" /\ call' = <<"header">> /\ todo' = HeaderCall
    <3> DEFINE b == Point(q, d, 0, log, TRUE, FALSE)
    <3>1. Spells(f, W(Magic(IF Valkey THEN "VALKEY080" ELSE "REDIS0011")), p, q)
      BY <2>14, <2>21, FixedCalls
    <3>2. b \in Points /\ b.pos = q /\ b.ents = log
      BY <2>8, <2>9, <2>12 DEF Point
    <3>3. b = Point(b.pos, a.db, a.exp, a.ents, TRUE, FALSE)
      BY <2>19, <3>2
    <3>4. Goal(q)' = b
      <4>1. call'[1] = "header"
        BY <2>21
      <4> QED BY <2>1, <2>5, <2>14, <2>18, <4>1 DEF Goal, Point
    <3> HIDE DEF a, b
    <3>5. Leads(f, a, b)
      BY <2>19, <2>21, <3>1, <3>2, <3>3 DEF Leads
    <3> QED BY <2>16, <2>17, <3>2, <3>4, <3>5
  <2>22. CASE /\ state # "Start" /\ call' = <<"aux">>
              /\ \E k, v \in Keys : todo' = AuxCall(k, v)
    <3> DEFINE b == Point(q, d, 0, log, TRUE, FALSE)
    <3>1. PICK k \in Keys, v \in Keys : todo' = AuxCall(k, v)
      BY <2>22
    <3>2. b \in Points /\ b.pos = q /\ b.ents = log
      BY <2>8, <2>9, <2>12 DEF Point
    <3>3. b = Point(b.pos, a.db, a.exp, a.ents, TRUE, FALSE)
      BY <2>19, <3>2
    <3>4. Goal(q)' = b
      <4>1. call'[1] = "aux"
        BY <2>22
      <4> QED BY <2>1, <2>5, <2>14, <2>18, <4>1 DEF Goal, Point
    <3>5. Spelled(f, << W(Op("opCodeAux")), Str(k), Str(v) >>, p, q)
      BY <2>14, <3>1, FixedCalls
    <3> HIDE DEF a, b
    <3>6. Leads(f, a, b)
      BY <2>19, <2>22, <3>2, <3>3, <3>5 DEF Leads
    <3> QED BY <2>16, <2>17, <3>2, <3>4, <3>6
  <2>23. CASE state # "Start" /\ \E e \in DBs : call' = <<"db", e>> /\ todo' = DBCall(e)
    <3>1. PICK e \in DBs : call' = <<"db", e>> /\ todo' = DBCall(e)
      BY <2>23
    <3>2. PICK r \in Nat \ {0} :
            /\ Spelled(f, << W(Op("opCodeSelectDB")), W(DbIndex(e)) >>, p, r)
            /\ Spelled(f, << W(Op("opCodeResizeDB")), W(Length(0)), W(Length(0)) >>, r, q)
      BY <2>14, <3>1, FixedCalls
    <3> DEFINE c == Point(r, e, 0, log, TRUE, FALSE)
               b == Point(q, e, 0, log, TRUE, FALSE)
    <3>3. /\ b \in Points /\ b.pos = q /\ b.ents = log
          /\ c \in Points /\ c.pos = r /\ c.ents = log /\ c.head /\ ~c.done /\ c.db = e /\ c.exp = 0
      BY <2>7, <2>8, <2>9, <2>12 DEF Point
    <3>4. Goal(q)' = b
      <4>1. call'[1] = "db" /\ call'[2] = e
        BY <3>1
      <4> QED BY <2>1, <2>5, <2>14, <2>18, <4>1 DEF Goal, Point
    <3>5. /\ c = Point(c.pos, e, a.exp, a.ents, TRUE, FALSE)
          /\ b = Point(b.pos, c.db, c.exp, c.ents, TRUE, FALSE)
      BY <2>19, <3>3
    <3> HIDE DEF a, b, c
    <3>6. Leads(f, a, c)
      BY <2>19, <2>23, <3>2, <3>3, <3>5 DEF Leads
    <3>7. Sound(f, log, c)
      BY <2>16, <2>17, <3>3, <3>6
    <3>8. Leads(f, c, b)
      BY <3>2, <3>3, <3>5 DEF Leads
    <3> QED BY <2>9, <2>17, <3>3, <3>4, <3>7, <3>8, SoundStep
  <2>24. CASE /\ state \in InDB
              /\ \E k \in Keys, o \in Objects, opts \in TTLOptions :
                   /\ call' = <<"object", Requested(k, o, opts)>>
                   /\ \E ws \in ObjectWrites(k, o) : todo' = ObjectCall(opts, ws)
    <3>1. PICK k \in Keys, o \in Objects, opts \in TTLOptions :
                   /\ call' = <<"object", Requested(k, o, opts)>>
                   /\ \E ws \in ObjectWrites(k, o) : todo' = ObjectCall(opts, ws)
      BY <2>24
    <3>2. PICK ws \in ObjectWrites(k, o) : todo' = ObjectCall(opts, ws)
      BY <3>1
    <3> DEFINE e == Requested(k, o, opts)
               x == IF opts = <<>> THEN 0 ELSE opts[Len(opts)]
               ts == TTLs_(opts)
               T == << <<"set", "WrittenObject">> >>
    <3>3. e \in Ents
      BY RequestedType
    <3>4. db # None /\ d \in DBs /\ d = db
      BY <2>1, <2>3, <2>7, <2>14, <2>24 DEF LinkInv, InDB
    <3>5. /\ ws \in Seq(InnerInstrs) /\ ws # <<>>
      BY ObjectWritesType, ObjectStatements
    <3>6. ts \in Seq({"ttl"} \X TTLs) /\ Len(ts) = Len(opts) /\ opts \in Seq(TTLs)
      BY OptionsType
    <3>7. PICK m \in Nat \ {0} : Spelled(f, ts, p, m) /\ Spelled(f, ws, m, q)
      BY <2>14, <3>2, <3>5, ObjectCallSpelled
    <3>8. x \in Nat
      <4>1. opts = <<>> \/ Len(opts) \in 1..Len(opts)
        BY <3>6, EmptySeq
      <4>2. CASE opts = <<>>
        BY <4>2
      <4>3. CASE opts # <<>>
        <5>1. opts[Len(opts)] \in TTLs
          BY <3>6, <4>1, <4>3
        <5> QED BY <4>3, <5>1, EncoderAssumption
      <4> QED BY <4>2, <4>3
    <3>9. Sound(f, log, Point(p, d, 0, log, TRUE, FALSE))
      <4>1. (state # "Start") = TRUE
        BY <2>24 DEF InDB
      <4> QED BY <2>13, <4>1
    <3>10. Sound(f, log, Point(m, d, x, log, TRUE, FALSE))
      BY <2>8, <2>9, <3>7, <3>9, OptionsSound
    <3>11. e = Entry(d, k, x, None, None, Canonical(o))
      BY <3>4 DEF Requested
    <3> HIDE DEF x, e
    <3> DEFINE c == Point(m, d, x, log, TRUE, FALSE)
               b == Point(q, d, 0, Append(log, e), TRUE, FALSE)
    <3>12. Append(log, e) \in Seq(Ents)
      BY <2>9, <3>3
    <3>13. /\ b \in Points /\ b.pos = q /\ b.ents = Append(log, e)
           /\ c \in Points /\ c.pos = m /\ c.ents = log /\ c.head /\ ~c.done /\ c.db = d /\ c.exp = x
      BY <2>8, <2>9, <2>12, <3>8, <3>12 DEF Point
    <3>14. Goal(q)' = b
      <4>1. call'[1] = "object" /\ call'[2] = e
        BY <3>1 DEF e
      <4>2. Sent' = Append(log, e)
        <5>1. log \o << e >> = Append(log, e)
          BY <2>9, <3>3
        <5> QED BY <2>1, <2>5, <4>1, <5>1 DEF Sent
      <4> QED BY <2>1, <2>5, <2>14, <4>1, <4>2 DEF Goal, Point
    <3>15. b = Point(b.pos, c.db, 0, Append(c.ents, Entry(c.db, k, c.exp, None, None, Canonical(o))),
                     TRUE, FALSE)
      BY <3>11, <3>13
    <3>16. Pre(log, b.ents)
      <4>1. Pre(log, Append(log, e))
        BY <2>9, <3>3, PreFacts
      <4> HIDE DEF b
      <4> QED BY <3>13, <4>1
    <3> HIDE DEF c, b
    <3>17. Leads(f, c, b)
      BY <3>4, <3>7, <3>13, <3>15 DEF Leads
    <3>18. Sound(f, log, c)
      BY <3>10 DEF c
    <3> QED BY <2>9, <3>13, <3>14, <3>16, <3>17, <3>18, SoundStep
  <2>25. CASE state # "Start" /\ call' = <<"end">> /\ todo' = EndCall
    <3> DEFINE b == Point(q, d, 0, log, TRUE, TRUE)
    <3>1. Spelled(f, << W(Op("opCodeEOF")), <<"sum">> >>, p, q)
      BY <2>14, <2>25, FixedCalls
    <3>2. b \in Points /\ b.pos = q /\ b.ents = log
      BY <2>8, <2>9, <2>12 DEF Point
    <3>3. b = Point(b.pos, a.db, a.exp, a.ents, TRUE, TRUE)
      BY <2>19, <3>2
    <3>4. Goal(q)' = b
      <4>1. call'[1] = "end"
        BY <2>25
      <4> QED BY <2>1, <2>5, <2>14, <2>18, <4>1 DEF Goal, Point
    <3> HIDE DEF a, b
    <3>5. Leads(f, a, b)
      BY <2>19, <2>25, <3>1, <3>2, <3>3 DEF Leads
    <3> QED BY <2>16, <2>17, <3>2, <3>4, <3>5
  <2> QED
    <3> HIDE DEF a
    <3> QED BY <1>2, <2>21, <2>22, <2>23, <2>24, <2>25, Begun
<1> QED BY <1>1, <1>2

LEMMA StoryInit == Init => Story
<1> SUFFICES ASSUME Init, NEW f \in Seq(Tokens), NEW q \in Nat \ {0},
                    Spelled(f, todo, EndOf(out) + 1, q)
             PROVE  Sound(f, log, Goal(q))
  BY DEF Story
<1>1. todo = <<>> /\ out = <<>> /\ log = <<>> /\ state = "Start" /\ db = None
  BY DEF Init
<1>2. EndOf(out) = 0
  BY <1>1 DEF EndOf
<1>3. q = 1
  <2> DEFINE p == EndOf(out) + 1
  <2>1. p = 1
    BY <1>2
  <2> HIDE DEF p
  <2>2. p = q
    BY <1>1, <2>1, SpelledNone, TupleLengths DEF p
  <2> QED BY <2>1, <2>2
<1>4. Goal(1) = Beginning
  <2>1. Sent = <<>>
    BY <1>1, ConcatEmptySeq, <<>> \in Seq(Ents) DEF Sent, Idle
  <2> QED BY <1>1, <2>1 DEF Goal, Beginning, Point, Idle
<1> QED BY <1>1, <1>3, <1>4, SoundStart

LEMMA StoryNext ==
    TypeInv /\ LinkInv /\ TypeInv' /\ LinkInv' /\ (Trusted => Story) /\ [Next]_vars
        => (Trusted => Story)'
<1>1. UNCHANGED vars /\ (Trusted => Story) => (Trusted => Story)'
  BY DEF vars, Trusted, Story, Goal, Sent, Idle
<1> QED BY <1>1, StoryCaller, StoryStep DEF Next

-----------------------------------------------------------------------------
(* The rest of a call that stays unwritten: it ends beyond the file, or it *)
(* has nothing to write.                                                   *)

LEMMA FormExists ==
    ASSUME NEW x \in InnerInstrs, x[1] # "set"
    PROVE  \E w : Form(x, w)
<1>1. x[1] \in {"write", "str", "nan", "lzf", "ttl", "sum", "set"} /\ (x[1] = "lzf" => x[3] \in 1..4)
  BY InnerKinds
<1>2. CASE x[1] = "write"
  BY <1>2 DEF Form
<1>3. CASE x[1] \in {"str", "nan"}
  <2> DEFINE w == << StrHead(x[2]), StrBody(x[2]) >>
  <2>1. StringForm(x[2], w)
    BY DEF StringForm
  <2> HIDE DEF w
  <2>2. Form(x, w)
    BY <1>3, <2>1 DEF Form
  <2> QED BY <2>2
<1>4. CASE x[1] = "lzf"
  <2>1. CASE x[3] = 4
    BY <1>4, <2>1 DEF Form
  <2>2. CASE x[3] = 3
    BY <1>4, <2>2 DEF Form
  <2>3. CASE x[3] = 2
    BY <1>4, <2>3 DEF Form
  <2>4. CASE x[3] = 1
    BY <1>4, <2>4 DEF Form
  <2> QED BY <1>1, <1>4, <2>1, <2>2, <2>3, <2>4
<1>5. CASE x[1] = "ttl"
  BY <1>5 DEF Form
<1>6. CASE x[1] = "sum"
  <2>1. <<>> \in Seq(WrittenTokens)
    OBVIOUS
  <2> QED BY <1>6, <2>1 DEF Form
<1> QED BY <1>1, <1>2, <1>3, <1>4, <1>5, <1>6

LEMMA Beyond ==
    ASSUME NEW f \in Seq(Tokens), NEW x \in InnerInstrs, x[1] # "set"
    PROVE  Spells(f, x, EndOf(f) + 1, EndOf(f) + 2)
<1> DEFINE e == EndOf(f)
<1>1. e \in Nat
  BY EndType
<1>2. PICK w : Form(x, w)
  BY FormExists
<1>3. Len(w) \in 1..4
  BY <1>2, FormLength
<1>4. \A i \in 1..Len(w) : Has(f, (e + 1) + i - 1, w[i])
  <2> SUFFICES ASSUME NEW i \in 1..Len(w) PROVE ~((e + 1) + i - 1 <= e)
    BY DEF Has
  <2> HIDE DEF e
  <2> QED BY <1>1, <1>3
<1>5. Same(f, e + 2, (e + 1) + Len(w))
  <2> HIDE DEF e
  <2> DEFINE n == Len(w)
  <2>1. n \in 1..4
    BY <1>3
  <2> HIDE DEF n
  <2>2. e + 2 = (e + 1) + n \/ (e + 2 > e + 1 /\ (e + 1) + n > e + 1)
    BY <1>1, <2>1
  <2> QED BY <2>2 DEF Same, Past, n, e
<1> QED BY <1>2, <1>4, <1>5 DEF Spells

LEMMA Abort ==
    ASSUME NEW f \in Seq(Tokens), NEW C, NEW n \in Nat, Len(C) = n,
           \A i \in 1..n : C[i] \in InnerInstrs \/ C[i][1] = "set"
    PROVE  \E q \in Nat \ {0} :
             /\ Spelled(f, C, EndOf(f) + 1, q)
             /\ q = EndOf(f) + 1 \/ Past(f, q)
             /\ n > 0 /\ C[1][1] # "set" => Past(f, q)
<1> DEFINE e == EndOf(f)
           S(i) == \A j \in 1..n : j < i => C[j][1] = "set"
           at == [ i \in 1..(n + 1) |-> IF S(i) THEN e + 1 ELSE e + 2 ]
<1>1. e \in Nat
  BY EndType
<1>2. at \in [1..(n + 1) -> Nat \ {0}]
  BY <1>1
<1>3. ASSUME NEW i \in 1..n
      PROVE  Spells(f, C[i], at[i], at[i + 1])
  <2>1. i \in 1..(n + 1) /\ i + 1 \in 1..(n + 1) /\ \A j \in 1..n : j < i + 1 <=> (j < i \/ j = i)
    OBVIOUS
  <2>2. at[i] = (IF S(i) THEN e + 1 ELSE e + 2) /\ at[i + 1] = IF S(i + 1) THEN e + 1 ELSE e + 2
    BY <2>1
  <2>3. S(i + 1) <=> S(i) /\ C[i][1] = "set"
    BY <2>1
  <2> HIDE DEF S, at, e
  <2>4. CASE ~S(i)
    <3>1. at[i] = e + 2 /\ at[i + 1] = e + 2
      BY <2>2, <2>3, <2>4
    <3>2. Past(f, e + 2)
      BY <1>1 DEF Past, e
    <3> QED BY <3>1, <3>2 DEF Spells
  <2>5. CASE S(i) /\ C[i][1] = "set"
    <3>1. at[i] = e + 1 /\ at[i + 1] = e + 1 /\ e + 1 \in Nat \ {0}
      BY <1>1, <2>2, <2>3, <2>5
    <3>2. Same(f, e + 1, e + 1)
      BY DEF Same
    <3> QED BY <2>5, <3>1, <3>2, SpellsSet
  <2>6. CASE S(i) /\ C[i][1] # "set"
    <3>1. at[i] = e + 1 /\ at[i + 1] = e + 2
      BY <2>2, <2>3, <2>6
    <3> QED BY <2>6, <3>1, Beyond DEF e
  <2> QED BY <2>4, <2>5, <2>6
<1>4. at[1] = e + 1
  <2>1. S(1) /\ 1 \in 1..(n + 1)
    OBVIOUS
  <2> HIDE DEF S
  <2> QED BY <2>1
<1>5. at[n + 1] \in {e + 1, e + 2} /\ (n > 0 /\ C[1][1] # "set" => at[n + 1] = e + 2)
  <2>1. n + 1 \in 1..(n + 1) /\ (S(n + 1) /\ n > 0 => C[1][1] = "set")
    OBVIOUS
  <2> HIDE DEF S
  <2> QED BY <2>1
<1> DEFINE q == at[n + 1]
<1>6. q \in Nat \ {0} /\ (q = e + 1 \/ Past(f, q)) /\ (n > 0 /\ C[1][1] # "set" => Past(f, q))
  <2> HIDE DEF at
  <2>1. Past(f, e + 2) /\ e + 1 \in Nat \ {0} /\ e + 2 \in Nat \ {0}
    <3> HIDE DEF e
    <3> QED BY <1>1 DEF Past, e
  <2> HIDE DEF e
  <2> QED BY <1>5, <2>1
<1>7. Spelled(f, C, e + 1, q)
  <2> HIDE DEF at
  <2> QED BY <1>2, <1>3, <1>4 DEF Spelled
<1> HIDE DEF q
<1> QED BY <1>6, <1>7

-----------------------------------------------------------------------------
(* After a call that returned an error, before the next one.               *)

Cut == ~Compress \/ MaxFaults = 0

Failed == \E a \in Points : Sound(out, log, a) /\ Past(out, a.pos)

WriteInv ==
    /\ TypeInv
    /\ LinkInv
    /\ Trusted => Story
    /\ health = "failed" /\ Cut => Idle /\ Failed

(* The file that is there, read to where the caller is. *)
LEMMA Unwritten ==
    ASSUME TypeInv, LinkInv, Trusted => Story, Trusted,
           NEW f \in Seq(Tokens), EndOf(f) = EndOf(out), Ext(out, f)
    PROVE  \E q \in Nat \ {0} :
             /\ Sound(f, log, Goal(q)) /\ Goal(q) \in Points
             /\ Goal(q).pos = q /\ Goal(q).ents = Sent
             /\ q = EndOf(f) + 1 \/ Past(f, q)
             /\ Idle => ~Past(f, q)
             /\ ~Idle /\ now[1] # "set" => Past(f, q)
<1>1. \A q \in Nat \ {0} : Goal(q) \in Points /\ Goal(q).pos = q /\ Goal(q).ents = Sent
  BY GoalType DEF Goal
<1>2. EndOf(f) + 1 \in Nat \ {0} /\ ~Past(f, EndOf(f) + 1)
  BY EndType DEF Past
<1>3. CASE Idle
  <2> DEFINE p == EndOf(f) + 1
  <2>1. Spelled(f, todo, p, p)
    BY <1>2, <1>3, SpelledNone, TupleLengths DEF Idle
  <2> HIDE DEF p
  <2>2. Sound(f, log, Goal(p))
    BY <1>2, <2>1 DEF Story, p
  <2> QED BY <1>1, <1>2, <1>3, <2>2 DEF p
<1>4. CASE ~Idle
  <2> DEFINE n == Len(todo)
             s == Target(call[1])
  <2>1. Rest(todo, s)
    BY <1>4 DEF LinkInv
  <2> HIDE DEF s
  <2>2. /\ n \in Nat /\ n > 0 /\ todo[1] = now
        /\ \A i \in 1..n : todo[i] \in InnerInstrs \/ todo[i][1] = "set"
    <3>1. todo \in Seq(InnerInstrs \cup {<<"set", s>>}) /\ todo # <<>>
      BY <2>1 DEF Rest
    <3>2. \A i \in 1..n : todo[i] \in InnerInstrs \cup {<<"set", s>>}
      BY <3>1
    <3>3. n \in Nat /\ n > 0
      BY <3>1, EmptySeq
    <3> QED BY <2>1, <3>2, <3>3, NowRest
  <2> HIDE DEF n
  <2>3. PICK q \in Nat \ {0} : /\ Spelled(f, todo, EndOf(f) + 1, q)
                               /\ q = EndOf(f) + 1 \/ Past(f, q)
                               /\ todo[1][1] # "set" => Past(f, q)
    BY <2>2, Abort DEF n
  <2>4. Sound(f, log, Goal(q))
    BY <2>3 DEF Story
  <2> QED BY <1>1, <1>4, <2>2, <2>3, <2>4
<1> QED BY <1>3, <1>4

LEMMA TornEnd ==
    ASSUME NEW g \in Seq(Tokens), EndOf(g) = Len(g), NEW f \in {g, Append(g, Torn)}
    PROVE  f \in Seq(Tokens) /\ EndOf(f) = EndOf(g) /\ Ext(g, f)
<1>1. Torn \in Tokens
  BY DEF Tokens
<1>2. CASE f = g
  BY <1>2, EndType DEF Ext
<1>3. CASE f = Append(g, Torn)
  <2>1. EndOf(f) = Len(g)
    BY <1>3, LastToken
  <2>2. \A i \in 1..Len(g) : f[i] = g[i]
    BY <1>3
  <2>3. f \in Seq(Tokens)
    BY <1>1, <1>3
  <2> QED BY <2>1, <2>2, <2>3, EndType DEF Ext
<1> QED BY <1>2, <1>3

LEMMA FailedStep ==
    ASSUME WriteInv, Step, Cut, health' = "failed"
    PROVE  Idle' /\ Failed'
<1>1. TypeInv /\ LinkInv /\ (Trusted => Story)
  BY DEF WriteInv
<1>2. ~Idle /\ call' = call
  BY <1>1, StepCases
<1>3. health # "failed"
  BY <1>2 DEF WriteInv
<1>4. Return("error") /\ health = "clean" /\ todo' = <<>>
  <2>1. Continue => health' = health
    BY DEF Continue
  <2>2. Return("nil") => health' = health
    BY DEF Return
  <2>3. Return("error") => health = "clean"
    BY <1>1, <1>3 DEF Return, TypeInv, TypeOK
  <2>4. Return("error") /\ todo' = <<>>
    BY <1>1, <1>3, <2>1, <2>2, StepCases
  <2> QED BY <2>3, <2>4
<1>5. Trusted /\ EndOf(out) = Len(out) /\ out \in Seq(Tokens) /\ log \in Seq(Ents)
  BY <1>1, <1>4 DEF Trusted, Cut, LinkInv, TypeInv, TypeOK
<1>6. (IsRefused \/ Breaks) /\ now \in InnerInstrs
  <2>1. ~Continue
    BY <1>3, <1>4 DEF Continue, Return
  <2>2. ~Return("nil")
    BY <1>4 DEF Return
  <2> QED BY <1>1, <2>1, <2>2, StepCases
<1>7. out' \in {out, Append(out, Torn)} /\ now[1] # "set" /\ log' = log
  BY <1>1, <1>4, <1>6, ReturnEffect DEF IsRefused, Breaks
<1>8. out' \in Seq(Tokens) /\ EndOf(out') = EndOf(out) /\ Ext(out, out')
  BY <1>5, <1>7, TornEnd
<1>9. PICK q \in Nat \ {0} : Sound(out', log, Goal(q)) /\ Goal(q) \in Points /\ Past(out', Goal(q).pos)
  BY <1>1, <1>2, <1>5, <1>7, <1>8, Unwritten
<1>10. Failed'
  BY <1>7, <1>9 DEF Failed
<1> QED BY <1>4, <1>10 DEF Idle

LEMMA WriteInvInit == Init => WriteInv
<1>1. Init => TypeInv
  BY TypeInit
<1> QED BY <1>1, LinkInit, StoryInit DEF WriteInv, Init

LEMMA WriteInvNext == WriteInv /\ [Next]_vars => WriteInv'
<1> SUFFICES ASSUME WriteInv, [Next]_vars
             PROVE  WriteInv'
  OBVIOUS
<1>1. TypeInv /\ LinkInv /\ (Trusted => Story)
  BY DEF WriteInv
<1>2. TypeInv'
  BY <1>1, TypeNext
<1>3. LinkInv'
  BY <1>1, LinkNext
<1>4. (Trusted => Story)'
  BY <1>1, <1>2, <1>3, StoryNext
<1>5. ASSUME health' = "failed", Cut
      PROVE  Idle' /\ Failed'
  <2>1. CASE Step
    BY <1>5, <2>1, FailedStep
  <2>2. ASSUME Caller
        PROVE  Refuse
    <3>1. Refuse \/ health' = IF health = "clean" THEN "clean" ELSE "spoiled"
      BY <1>1, <2>2, Begun
    <3> QED BY <1>5, <3>1
  <2>3. CASE Refuse \/ UNCHANGED vars
    <3>1. UNCHANGED <<todo, out, log, health>>
      BY <2>3 DEF Refuse, vars
    <3> QED BY <1>5, <3>1 DEF WriteInv, Idle, Failed
  <2> QED BY <2>1, <2>2, <2>3 DEF Next
<1>6. (Cut /\ health = "failed")' => (Idle /\ Failed)'
  BY <1>5 DEF Cut
<1> QED BY <1>2, <1>3, <1>4, <1>6 DEF WriteInv
=============================================================================
