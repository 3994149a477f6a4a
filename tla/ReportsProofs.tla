---------------------------- MODULE ReportsProofs ----------------------------
(***************************************************************************)
(* The top list, for every capacity and every sequence of entries, the     *)
(* filters of the commands, for every command line and every file, and the *)
(* tree of the prefix analysis, for every set of keys.                     *)
(***************************************************************************)
EXTENDS Reports, SequenceTheorems, FiniteSetTheorems, TLAPS
Order == INSTANCE WellFoundedInduction

-----------------------------------------------------------------------------
(* The top list is right with any number of entries of the same weight.    *)

TopTypeOK ==
    /\ list \in Seq(TopEntry)
    /\ added \in Seq(TopEntry)
    /\ capacity \in Nat \ {0}

(* NothingHeavierDropped alone says nothing of entries that are equal to   *)
(* one of the list; the two facts about lengths and membership of          *)
(* TopListRight are what keeps the rest inductive.                         *)
TopInv == TopTypeOK /\ TopListRight

-----------------------------------------------------------------------------
LEMMA LeastNat ==
    ASSUME NEW S \in SUBSET Nat, S # {}
    PROVE  \E m \in S : \A n \in S : m <= n
<1> DEFINE Less == {ss \in Nat \X Nat : ss[1] < ss[2]}
<1>1. Order!IsWellFoundedOn(Less, Nat)
  BY Order!NatLessThanWellFounded, Zenon DEF Order!OpToRel
<1>2. PICK m \in S : \A n \in S : ~(<<n, m>> \in Less)
  <2> HIDE DEF Less
  <2> QED BY <1>1, Order!WFMin
<1>3. \A n \in S : ~(n < m)
  BY <1>2 DEF Less
<1> QED BY <1>3

(* sort.Search returns an index within the list or one behind it: the      *)
(* entries before it are heavier, and the one there, if any, is not.       *)
LEMMA SearchFinds ==
    ASSUME NEW l \in Seq(TopEntry), NEW w \in Int
    PROVE  /\ Search(l, w) \in 1..(Len(l) + 1)
           /\ Search(l, w) <= Len(l) => l[Search(l, w)][1] <= w
           /\ \A j \in 1..(Search(l, w) - 1) : l[j][1] > w
<1> DEFINE notHeavier == {i \in 1..(Len(l) + 1) : i <= Len(l) => l[i][1] <= w}
<1>1. Len(l) \in Nat
  OBVIOUS
<1>2. notHeavier \subseteq Nat
  BY <1>1
<1>3. Len(l) + 1 \in notHeavier
  BY <1>1
<1>5. PICK m \in notHeavier : \A x \in notHeavier : m <= x
  <2> HIDE DEF notHeavier
  <2> QED BY <1>2, <1>3, LeastNat
<1>6. \A j \in 1..(m - 1) : l[j][1] > w
  <2> SUFFICES ASSUME NEW j \in 1..(m - 1)
               PROVE  l[j][1] > w
    OBVIOUS
  <2>1. j \in 1..Len(l) /\ j < m
    BY <1>1
  <2>2. l[j] \in TopEntry
    BY <2>1
  <2>3. l[j][1] \in Int
    BY <2>2 DEF TopEntry
  <2>4. j \notin notHeavier
    BY <1>1, <1>5, <2>1
  <2> QED BY <1>1, <2>1, <2>3, <2>4
<1>7. \E i \in 1..(Len(l) + 1) :
        /\ i <= Len(l) => l[i][1] <= w
        /\ \A j \in 1..(i - 1) : l[j][1] > w
  BY <1>5, <1>6
<1> QED BY <1>7 DEF Search

-----------------------------------------------------------------------------
(* An entry put in at its place keeps the list sorted and loses nothing.   *)
LEMMA InsertedProperties ==
    ASSUME NEW l \in Seq(TopEntry), NEW x \in TopEntry,
           \A i, j \in 1..Len(l) : i <= j => l[i][1] >= l[j][1]
    PROVE  LET m == Inserted(l, Search(l, x[1]), x)
           IN  /\ m \in Seq(TopEntry)
               /\ Len(m) = Len(l) + 1
               /\ \A i, j \in 1..Len(m) : i <= j => m[i][1] >= m[j][1]
               /\ \A i \in 1..Len(l) : \E j \in 1..Len(m) : m[j] = l[i]
               /\ \A i \in 1..Len(l) : m[i][1] >= l[i][1]
               /\ \E j \in 1..Len(m) : m[j] = x
               /\ \A j \in 1..Len(m) : m[j] = x \/ \E i \in 1..Len(l) : m[j] = l[i]
<1> DEFINE s == Search(l, x[1])
<1> DEFINE m == Inserted(l, s, x)
<1>1. Len(l) \in Nat /\ x[1] \in Int /\ \A i \in 1..Len(l) : l[i] \in TopEntry /\ l[i][1] \in Int
  BY DEF TopEntry
<1>2. /\ s \in 1..(Len(l) + 1)
      /\ s <= Len(l) => l[s][1] <= x[1]
      /\ \A j \in 1..(s - 1) : l[j][1] > x[1]
  BY <1>1, SearchFinds
<1> HIDE DEF s
<1>3. m = [ k \in 1..(Len(l) + 1) |-> IF k < s THEN l[k] ELSE IF k = s THEN x ELSE l[k - 1] ]
  BY DEF Inserted
<1> HIDE DEF m
<1>4. \A k \in 1..(Len(l) + 1) :
        /\ k < s => k \in 1..Len(l) /\ m[k] = l[k]
        /\ k = s => m[k] = x
        /\ k > s => k - 1 \in 1..Len(l) /\ m[k] = l[k - 1]
  BY <1>1, <1>2, <1>3
<1>5. m \in Seq(TopEntry) /\ Len(m) = Len(l) + 1
  <2>1. \A k \in 1..(Len(l) + 1) : m[k] \in TopEntry
    BY <1>1, <1>2, <1>4
  <2>2. m \in [1..(Len(l) + 1) -> TopEntry]
    BY <1>3, <2>1
  <2> QED BY <1>1, <2>2
<1>6. ASSUME NEW i \in 1..Len(m), NEW j \in 1..Len(m), i <= j
      PROVE  m[i][1] >= m[j][1]
  <2>1. i \in 1..(Len(l) + 1) /\ j \in 1..(Len(l) + 1)
    BY <1>5
  <2>2. CASE j < s
    BY <1>1, <1>2, <1>4, <1>6, <2>1, <2>2
  <2>3. CASE j = s
    BY <1>1, <1>2, <1>4, <1>6, <2>1, <2>3
  <2>4. CASE j > s
    <3>1. j - 1 \in 1..Len(l) /\ m[j] = l[j - 1]
      BY <1>4, <2>1, <2>4
    <3>2. CASE i < s
      BY <1>1, <1>2, <1>4, <2>1, <2>4, <3>1, <3>2, SMTT(30)
    <3>3. CASE i = s
      <4>1. s \in 1..Len(l) /\ s <= j - 1
        BY <1>1, <1>2, <2>4, <3>1
      <4>2. l[s][1] >= l[j - 1][1]
        BY <3>1, <4>1
      <4> QED BY <1>1, <1>2, <1>4, <2>1, <3>1, <3>3, <4>1, <4>2, SMTT(30)
    <3>4. CASE i > s
      <4>1. i - 1 \in 1..Len(l) /\ m[i] = l[i - 1] /\ i - 1 <= j - 1
        BY <1>1, <1>4, <1>6, <2>1, <3>4
      <4> QED BY <3>1, <4>1
    <3> QED BY <1>2, <2>1, <3>2, <3>3, <3>4
  <2> QED BY <1>2, <2>1, <2>2, <2>3, <2>4
<1>7. ASSUME NEW i \in 1..Len(l)
      PROVE  \E j \in 1..Len(m) : m[j] = l[i]
  <2>1. CASE i < s
    BY <1>1, <1>4, <1>5, <2>1
  <2>2. CASE i >= s
    <3>1. i + 1 \in 1..Len(m) /\ m[i + 1] = l[i]
      BY <1>1, <1>2, <1>4, <1>5, <2>2
    <3> QED BY <3>1
  <2> QED BY <1>1, <1>2, <2>1, <2>2
<1>8. \E j \in 1..Len(m) : m[j] = x
  BY <1>2, <1>4, <1>5
<1>9. ASSUME NEW j \in 1..Len(m)
      PROVE  m[j] = x \/ \E i \in 1..Len(l) : m[j] = l[i]
  <2>1. j \in 1..(Len(l) + 1)
    BY <1>5
  <2>2. CASE j < s
    BY <1>4, <2>1, <2>2
  <2>3. CASE j = s
    BY <1>4, <2>1, <2>3
  <2>4. CASE j > s
    BY <1>4, <2>1, <2>4
  <2> QED BY <1>2, <2>1, <2>2, <2>3, <2>4
<1>10. ASSUME NEW i \in 1..Len(l)
       PROVE  m[i][1] >= l[i][1]
  <2>1. i \in 1..(Len(l) + 1)
    BY <1>1
  <2>2. CASE i < s
    BY <1>1, <1>4, <2>1, <2>2
  <2>3. CASE i = s
    BY <1>1, <1>2, <1>4, <2>1, <2>3
  <2>4. CASE i > s
    <3>1. i - 1 \in 1..Len(l) /\ m[i] = l[i - 1] /\ i - 1 <= i
      BY <1>1, <1>4, <2>1, <2>4
    <3> QED BY <3>1
  <2> QED BY <1>2, <2>1, <2>2, <2>3, <2>4
<1> QED BY <1>5, <1>6, <1>7, <1>8, <1>9, <1>10 DEF m, s

LEMMA ShorterProperties ==
    ASSUME NEW m \in Seq(TopEntry), NEW cap \in Nat \ {0}
    PROVE  /\ Shorter(m, cap) \in Seq(TopEntry)
           /\ Len(Shorter(m, cap)) = IF Len(m) > cap THEN cap ELSE Len(m)
           /\ \A i \in 1..Len(Shorter(m, cap)) : i \in 1..Len(m) /\ Shorter(m, cap)[i] = m[i]
<1>1. Len(m) \in Nat
  OBVIOUS
<1>2. CASE Len(m) > cap
  <2>1. Shorter(m, cap) = SubSeq(m, 1, cap)
    BY <1>2 DEF Shorter
  <2>2. /\ SubSeq(m, 1, cap) \in Seq(TopEntry)
        /\ Len(SubSeq(m, 1, cap)) = cap
        /\ \A i \in 1..cap : SubSeq(m, 1, cap)[i] = m[i]
    BY <1>1, <1>2
  <2> QED BY <1>1, <1>2, <2>1, <2>2
<1>3. CASE ~(Len(m) > cap)
  BY <1>1, <1>3 DEF Shorter
<1> QED BY <1>2, <1>3

-----------------------------------------------------------------------------
LEMMA TopInit_Inv == TopInit => TopInv
<1> SUFFICES ASSUME NEW cap \in Nat \ {0}, newToplist(cap)
             PROVE  TopInv
  BY DEF TopInit
<1>1. list = <<>> /\ added = <<>> /\ capacity = cap
  BY DEF newToplist
<1>2. TopTypeOK
  BY <1>1 DEF TopTypeOK
<1>3. Len(list) = 0 /\ Len(added) = 0
  BY <1>1
<1>4. TopListRight
  BY <1>1, <1>3 DEF TopListRight, Sorted, NothingHeavierDropped
<1> QED BY <1>2, <1>4 DEF TopInv

(* Adding an entry: the new list is the first entries of the longer one.   *)
LEMMA TopAdd_Inv ==
    ASSUME TopInv, NEW x \in TopEntry, add(x)
    PROVE  TopInv'
<1> DEFINE m == Inserted(list, Search(list, x[1]), x)
<1>1. /\ list \in Seq(TopEntry) /\ added \in Seq(TopEntry) /\ capacity \in Nat \ {0}
      /\ Len(list) \in Nat /\ Len(added) \in Nat
  BY DEF TopInv, TopTypeOK
<1>2. \A i, j \in 1..Len(list) : i <= j => list[i][1] >= list[j][1]
  BY DEF TopInv, TopListRight, Sorted
<1>3. /\ m \in Seq(TopEntry)
      /\ Len(m) = Len(list) + 1
      /\ \A i, j \in 1..Len(m) : i <= j => m[i][1] >= m[j][1]
      /\ \A i \in 1..Len(list) : \E j \in 1..Len(m) : m[j] = list[i]
      /\ \A i \in 1..Len(list) : m[i][1] >= list[i][1]
      /\ \E j \in 1..Len(m) : m[j] = x
      /\ \A j \in 1..Len(m) : m[j] = x \/ \E i \in 1..Len(list) : m[j] = list[i]
  BY <1>1, <1>2, InsertedProperties
<1>4. list' = Shorter(m, capacity) /\ added' = Append(added, x) /\ capacity' = capacity
  BY DEF add, insert
<1> HIDE DEF m
<1>5. /\ list' \in Seq(TopEntry)
      /\ Len(list') = IF Len(m) > capacity THEN capacity ELSE Len(m)
      /\ \A i \in 1..Len(list') : i \in 1..Len(m) /\ list'[i] = m[i]
  BY <1>1, <1>3, <1>4, ShorterProperties
<1>6. /\ added' \in Seq(TopEntry) /\ Len(added') = Len(added) + 1
      /\ \A i \in 1..Len(added) : added'[i] = added[i]
      /\ added'[Len(added) + 1] = x
  BY <1>1, <1>4
<1>7. TopTypeOK'
  BY <1>1, <1>4, <1>5, <1>6 DEF TopTypeOK
<1>8. Sorted'
  BY <1>3, <1>5 DEF Sorted
<1>9. Len(list) = IF Len(added) < capacity THEN Len(added) ELSE capacity
  BY DEF TopInv, TopListRight
<1>10. Len(list') = IF Len(added') < capacity' THEN Len(added') ELSE capacity'
  BY <1>1, <1>3, <1>4, <1>5, <1>6, <1>9
<1>11. ASSUME NEW j \in 1..Len(list')
       PROVE  \E i \in 1..Len(added') : added'[i] = list'[j]
  <2>1. j \in 1..Len(m) /\ list'[j] = m[j]
    BY <1>5
  <2>2. CASE m[j] = x
    BY <1>1, <1>6, <2>1, <2>2
  <2>3. ASSUME NEW k \in 1..Len(list), m[j] = list[k]
        PROVE  \E i \in 1..Len(added') : added'[i] = list'[j]
    <3>1. PICK i \in 1..Len(added) : added[i] = list[k]
      BY DEF TopInv, TopListRight
    <3>2. i \in 1..Len(added') /\ added'[i] = added[i]
      BY <1>1, <1>6
    <3> QED BY <2>1, <2>3, <3>1, <3>2
  <2> QED BY <1>3, <2>1, <2>2, <2>3
(* What is in the longer list stays, or is no heavier than all that stays. *)
<1>12. ASSUME NEW k \in 1..Len(m)
       PROVE  \/ \E j \in 1..Len(list') : list'[j] = m[k]
              \/ /\ Len(list') = capacity'
                 /\ \A j \in 1..Len(list') : list'[j][1] >= m[k][1]
  <2>1. Len(m) \in Nat /\ k \in Nat
    BY <1>1, <1>3
  <2>2. CASE k <= Len(list')
    BY <1>1, <1>5, <2>1, <2>2
  <2>3. CASE k > Len(list')
    <3>1. Len(list') = capacity
      BY <1>1, <1>5, <2>1, <2>3
    <3>2. ASSUME NEW j \in 1..Len(list')
          PROVE  list'[j][1] >= m[k][1]
      <4>1. j \in 1..Len(m) /\ j <= k /\ list'[j] = m[j]
        BY <1>1, <1>5, <2>1, <2>3
      <4> QED BY <1>3, <4>1
    <3> QED BY <1>4, <3>1, <3>2
  <2> QED BY <1>1, <1>5, <2>1, <2>2, <2>3
<1>13. ASSUME NEW i \in 1..Len(added')
       PROVE  \/ \E j \in 1..Len(list') : list'[j] = added'[i]
              \/ /\ Len(list') = capacity'
                 /\ \A j \in 1..Len(list') : list'[j][1] >= added'[i][1]
  <2>1. CASE i = Len(added) + 1
    <3>1. PICK k \in 1..Len(m) : m[k] = x
      BY <1>3
    <3> QED BY <1>6, <1>12, <2>1, <3>1
  <2>2. CASE i \in 1..Len(added)
    <3>1. added'[i] = added[i]
      BY <1>6, <2>2
    <3>2. ASSUME NEW j \in 1..Len(list), list[j] = added[i]
          PROVE  \E k \in 1..Len(m) : m[k] = added[i]
      BY <1>3, <3>2
    <3>3. ASSUME Len(list) = capacity,
                 \A j \in 1..Len(list) : list[j][1] >= added[i][1]
          PROVE  /\ Len(list') = capacity'
                 /\ \A j \in 1..Len(list') : list'[j][1] >= added'[i][1]
      <4>1. Len(list') = capacity
        BY <1>1, <1>3, <1>5, <3>3
      <4>2. ASSUME NEW j \in 1..Len(list')
            PROVE  list'[j][1] >= added'[i][1]
        <5>1. j \in 1..Len(list) /\ list'[j] = m[j]
          BY <1>5, <3>3, <4>1
        <5>2. m[j][1] >= list[j][1] /\ list[j][1] >= added[i][1]
          BY <1>3, <3>3, <5>1
        <5>3. m[j] \in TopEntry /\ list[j] \in TopEntry /\ added[i] \in TopEntry
          BY <1>1, <1>3, <1>5, <2>2, <5>1
        <5>4. m[j][1] \in Int /\ list[j][1] \in Int /\ added[i][1] \in Int
          BY <5>3 DEF TopEntry
        <5> QED BY <3>1, <5>1, <5>2, <5>4
      <4> QED BY <1>4, <4>1, <4>2
    <3>4. \/ \E j \in 1..Len(list) : list[j] = added[i]
          \/ /\ Len(list) = capacity
             /\ \A j \in 1..Len(list) : list[j][1] >= added[i][1]
      BY <2>2 DEF TopInv, TopListRight, NothingHeavierDropped
    <3> QED BY <1>12, <3>1, <3>2, <3>3, <3>4
  <2> QED BY <1>1, <1>6, <2>1, <2>2
<1>14. TopListRight'
  BY <1>8, <1>10, <1>11, <1>13 DEF TopListRight, NothingHeavierDropped
<1> QED BY <1>7, <1>14 DEF TopInv

LEMMA TopNext_Inv == TopInv /\ [TopNext]_topVars => TopInv'
<1>1. ASSUME TopInv, TopNext
      PROVE  TopInv'
  BY <1>1, TopAdd_Inv DEF TopNext
<1>2. ASSUME TopInv, UNCHANGED topVars
      PROVE  TopInv'
  BY <1>2 DEF topVars, TopInv, TopTypeOK, TopListRight, Sorted, NothingHeavierDropped
<1> QED BY <1>1, <1>2

(* Whatever entries are added to a topList or hotKeyList, in whatever      *)
(* order, it holds the heaviest of them, heaviest first.                   *)
THEOREM TopListIsRight == TopSpec => []TopListRight
<1>1. TopInv => TopListRight
  BY DEF TopInv
<1> QED BY TopInit_Inv, TopNext_Inv, <1>1, PTL DEF TopSpec

-----------------------------------------------------------------------------
(* The elements of a sequence, which is all a chain of filters depends on. *)

Elements(s) == {s[i] : i \in DOMAIN s}

LEMMA ElementsConcat ==
    ASSUME NEW S, NEW s \in Seq(S), NEW t \in Seq(S)
    PROVE  Elements(s \o t) = Elements(s) \cup Elements(t)
<1>1. Len(s) \in Nat /\ Len(t) \in Nat /\ s \o t \in Seq(S) /\ Len(s \o t) = Len(s) + Len(t)
  OBVIOUS
<1>2. \A i \in 1..Len(s) : (s \o t)[i] = s[i]
  OBVIOUS
<1>3. \A i \in 1..Len(t) : (s \o t)[Len(s) + i] = t[i]
  OBVIOUS
<1>4. DOMAIN s = 1..Len(s) /\ DOMAIN t = 1..Len(t) /\ DOMAIN (s \o t) = 1..(Len(s) + Len(t))
  BY <1>1
<1>5. ASSUME NEW i \in DOMAIN (s \o t)
      PROVE  (s \o t)[i] \in Elements(s) \cup Elements(t)
  <2>1. CASE i \in 1..Len(s)
    BY <1>2, <1>4, <2>1 DEF Elements
  <2>2. CASE i \notin 1..Len(s)
    <3>1. i - Len(s) \in 1..Len(t) /\ Len(s) + (i - Len(s)) = i
      BY <1>1, <1>4, <2>2
    <3> QED BY <1>3, <1>4, <3>1 DEF Elements
  <2> QED BY <2>1, <2>2
<1>6. \A i \in 1..Len(s) : i \in DOMAIN (s \o t)
  BY <1>1, <1>4
<1>7. \A i \in 1..Len(t) : Len(s) + i \in DOMAIN (s \o t)
  BY <1>1, <1>4
<1>8. Elements(s) \subseteq Elements(s \o t)
  BY <1>2, <1>4, <1>6 DEF Elements
<1>9. Elements(t) \subseteq Elements(s \o t)
  BY <1>3, <1>4, <1>7 DEF Elements
<1>10. Elements(s \o t) \subseteq Elements(s) \cup Elements(t)
  BY <1>5 DEF Elements
<1> QED BY <1>8, <1>9, <1>10

LEMMA GivenIs ==
    ASSUME NEW name, NEW value
    PROVE  /\ Given(name, value) \in Seq({<<name, value>>})
           /\ Elements(Given(name, value)) = IF value = None THEN {} ELSE {<<name, value>>}
<1>1. CASE value = None
  BY <1>1 DEF Given, Elements
<1>2. CASE value # None
  BY <1>2 DEF Given, Elements
<1> QED BY <1>1, <1>2

(* The option of a kind, of a sequence in which there is one at most.      *)
LEMMA GreatestIndex ==
    ASSUME NEW n \in Nat, NEW S \in SUBSET (1..n), S # {}
    PROVE  \E i \in S : \A j \in S : j <= i
<1> DEFINE Least == {k \in Nat : \E i \in S : k = n - i}
<1>2. \A i \in S : i \in Nat /\ n - i \in Nat /\ n - i \in Least
  OBVIOUS
<1>3. PICK d \in Least : \A k \in Least : d <= k
  <2>1. Least \subseteq Nat /\ Least # {}
    BY <1>2
  <2> HIDE DEF Least
  <2> QED BY <2>1, LeastNat
<1>4. PICK i \in S : d = n - i
  OBVIOUS
<1>5. ASSUME NEW j \in S
      PROVE  j <= i
  <2>1. n - i <= n - j
    BY <1>2, <1>3, <1>4
  <2> QED BY <1>2, <2>1
<1> QED BY <1>5

LEMMA OptionOf ==
    ASSUME NEW options, NEW n \in Nat, DOMAIN options = 1..n,
           NEW name, NEW value,
           \A o \in Elements(options) : o[1] = name => o = <<name, value>>,
           value # None <=> \E o \in Elements(options) : o[1] = name
    PROVE  Option(options, name) = value
<1> DEFINE those == {i \in DOMAIN options : options[i][1] = name}
<1>1. those \in SUBSET (1..n)
  OBVIOUS
<1>2. \A i \in those : options[i] = <<name, value>>
  BY DEF Elements
<1>3. value # None <=> those # {}
  BY DEF Elements
<1>4. Option(options, name) = IF those = {} THEN None
                              ELSE options[CHOOSE i \in those : \A j \in those : j <= i][2]
  BY DEF Option
<1> HIDE DEF those
<1>5. those # {} => (CHOOSE i \in those : \A j \in those : j <= i) \in those
  BY <1>1, GreatestIndex
<1> QED BY <1>2, <1>3, <1>4, <1>5

-----------------------------------------------------------------------------
(* The options of a command line are found again by their kind, and the    *)
(* chain has a link for each that is given.                                *)

OptionSet(flags) ==
    {<<"Regex", flags.regex>>, <<"NoExpired", flags.noExpired>>, <<"Expiration", flags.expire>>,
     <<"Size", flags.size>>, <<"GlobalMeta", flags.globalMeta>>}

IfGiven(name, value) == IF value = None THEN {} ELSE {<<name, value>>}

LEMMA FourConcat ==
    ASSUME NEW S, NEW a \in Seq(S), NEW b \in Seq(S), NEW c \in Seq(S), NEW d \in Seq(S)
    PROVE  /\ a \o b \o c \o d \in Seq(S)
           /\ Elements(a \o b \o c \o d) = Elements(a) \cup Elements(b) \cup Elements(c) \cup Elements(d)
<1>1. a \o b \in Seq(S) /\ a \o b \o c \in Seq(S) /\ a \o b \o c \o d \in Seq(S)
  OBVIOUS
<1>2. Elements(a \o b) = Elements(a) \cup Elements(b)
  BY ElementsConcat
<1>3. Elements(a \o b \o c) = Elements(a \o b) \cup Elements(c)
  BY <1>1, ElementsConcat, ZenonT(30)
<1>4. Elements(a \o b \o c \o d) = Elements(a \o b \o c) \cup Elements(d)
  BY <1>1, ElementsConcat, ZenonT(30)
<1> QED BY <1>1, <1>2, <1>3, <1>4

LEMMA WiderSeq ==
    ASSUME NEW x, NEW S, x \in S, NEW s \in Seq({x})
    PROVE  s \in Seq(S)
<1>1. Len(s) \in Nat /\ s \in [1..Len(s) -> {x}]
  OBVIOUS
<1>2. s \in [1..Len(s) -> S]
  BY <1>1
<1> QED BY <1>1, <1>2

LEMMA GivenIn ==
    ASSUME NEW name, NEW value, NEW S, <<name, value>> \in S
    PROVE  Given(name, value) \in Seq(S) /\ Elements(Given(name, value)) = IfGiven(name, value)
BY GivenIs, WiderSeq DEF IfGiven

LEMMA OptionsAre ==
    ASSUME NEW flags
    PROVE  /\ Options(flags) \in Seq(OptionSet(flags))
           /\ Elements(Options(flags)) =
                IfGiven("Regex", flags.regex) \cup IfGiven("NoExpired", flags.noExpired)
                  \cup IfGiven("Expiration", flags.expire) \cup IfGiven("Size", flags.size)
                  \cup IfGiven("GlobalMeta", flags.globalMeta)
<1> DEFINE S == OptionSet(flags)
           a == Given("Regex", flags.regex)
           b == Given("NoExpired", flags.noExpired)
           c == Given("Expiration", flags.expire)
           d == Given("Size", flags.size)
           e == Given("GlobalMeta", flags.globalMeta)
<1>1. a \in Seq(S) /\ Elements(a) = IfGiven("Regex", flags.regex)
  BY GivenIn DEF OptionSet
<1>2. b \in Seq(S) /\ Elements(b) = IfGiven("NoExpired", flags.noExpired)
  BY GivenIn DEF OptionSet
<1>3. c \in Seq(S) /\ Elements(c) = IfGiven("Expiration", flags.expire)
  BY GivenIn DEF OptionSet
<1>4. d \in Seq(S) /\ Elements(d) = IfGiven("Size", flags.size)
  BY GivenIn DEF OptionSet
<1>5. e \in Seq(S) /\ Elements(e) = IfGiven("GlobalMeta", flags.globalMeta)
  BY GivenIn DEF OptionSet
<1>6. Options(flags) = a \o b \o c \o d \o e
  BY DEF Options
<1> HIDE DEF S, a, b, c, d, e
<1> DEFINE f == a \o b \o c \o d
<1>7. f \in Seq(S) /\ Elements(f) = Elements(a) \cup Elements(b) \cup Elements(c) \cup Elements(d)
  BY <1>1, <1>2, <1>3, <1>4, FourConcat
<1>8. Options(flags) = f \o e
  BY <1>6
<1> HIDE DEF f
<1>9. f \o e \in Seq(S)
  BY <1>5, <1>7
<1>10. Elements(f \o e) = Elements(f) \cup Elements(e)
  BY <1>5, <1>7, ElementsConcat
<1> QED BY <1>1, <1>2, <1>3, <1>4, <1>5, <1>7, <1>8, <1>9, <1>10 DEF S

(* Options of other kinds do not matter. *)
LEMMA OptionAmong ==
    ASSUME NEW options, NEW n \in Nat, DOMAIN options = 1..n,
           NEW name, NEW value, NEW others,
           Elements(options) = IfGiven(name, value) \cup others,
           \A o \in others : o[1] # name
    PROVE  Option(options, name) = value
<1>1. \A o \in Elements(options) : o[1] = name => o = <<name, value>>
  BY DEF IfGiven
<1>2. CASE value = None
  <2>1. ~\E o \in Elements(options) : o[1] = name
    BY <1>2 DEF IfGiven
  <2> QED BY <1>1, <1>2, <2>1, OptionOf
<1>3. CASE value # None
  <2>1. <<name, value>> \in Elements(options) /\ <<name, value>>[1] = name
    BY <1>3 DEF IfGiven
  <2> QED BY <1>1, <1>3, <2>1, OptionOf
<1> QED BY <1>2, <1>3

LEMMA FirstGiven == \A name, value : \A o \in IfGiven(name, value) : o[1] = name
BY DEF IfGiven

LEMMA OptionFound ==
    ASSUME NEW flags
    PROVE  /\ Option(Options(flags), "Regex") = flags.regex
           /\ Option(Options(flags), "NoExpired") = flags.noExpired
           /\ Option(Options(flags), "Expiration") = flags.expire
           /\ Option(Options(flags), "Size") = flags.size
           /\ Option(Options(flags), "GlobalMeta") = flags.globalMeta
<1> DEFINE options == Options(flags)
           r == IfGiven("Regex", flags.regex)
           n == IfGiven("NoExpired", flags.noExpired)
           x == IfGiven("Expiration", flags.expire)
           z == IfGiven("Size", flags.size)
           g == IfGiven("GlobalMeta", flags.globalMeta)
<1>0. Len(options) \in Nat /\ DOMAIN options = 1..Len(options)
  <2>1. options \in Seq(OptionSet(flags))
    BY OptionsAre
  <2> HIDE DEF options
  <2> QED BY <2>1
<1>1. Elements(options) = r \cup n \cup x \cup z \cup g
  BY OptionsAre
<1>2. /\ \A o \in r : o[1] = "Regex"
      /\ \A o \in n : o[1] = "NoExpired"
      /\ \A o \in x : o[1] = "Expiration"
      /\ \A o \in z : o[1] = "Size"
      /\ \A o \in g : o[1] = "GlobalMeta"
  BY FirstGiven
<1> HIDE DEF options
<1>3. Option(options, "Regex") = flags.regex
  <2> DEFINE others == n \cup x \cup z \cup g
  <2>1. \A o \in others : o[1] # "Regex"
    BY <1>2
  <2>2. Elements(options) = IfGiven("Regex", flags.regex) \cup others
    BY <1>1
  <2> HIDE DEF others, r, n, x, z, g
  <2> QED BY <1>0, <2>1, <2>2, OptionAmong
<1>4. Option(options, "NoExpired") = flags.noExpired
  <2> DEFINE others == r \cup x \cup z \cup g
  <2>1. \A o \in others : o[1] # "NoExpired"
    BY <1>2
  <2>2. Elements(options) = IfGiven("NoExpired", flags.noExpired) \cup others
    BY <1>1
  <2> HIDE DEF others, r, n, x, z, g
  <2> QED BY <1>0, <2>1, <2>2, OptionAmong
<1>5. Option(options, "Expiration") = flags.expire
  <2> DEFINE others == r \cup n \cup z \cup g
  <2>1. \A o \in others : o[1] # "Expiration"
    BY <1>2
  <2>2. Elements(options) = IfGiven("Expiration", flags.expire) \cup others
    BY <1>1
  <2> HIDE DEF others, r, n, x, z, g
  <2> QED BY <1>0, <2>1, <2>2, OptionAmong
<1>6. Option(options, "Size") = flags.size
  <2> DEFINE others == r \cup n \cup x \cup g
  <2>1. \A o \in others : o[1] # "Size"
    BY <1>2
  <2>2. Elements(options) = IfGiven("Size", flags.size) \cup others
    BY <1>1
  <2> HIDE DEF others, r, n, x, z, g
  <2> QED BY <1>0, <2>1, <2>2, OptionAmong
<1>7. Option(options, "GlobalMeta") = flags.globalMeta
  <2> DEFINE others == r \cup n \cup x \cup z
  <2>1. \A o \in others : o[1] # "GlobalMeta"
    BY <1>2
  <2>2. Elements(options) = IfGiven("GlobalMeta", flags.globalMeta) \cup others
    BY <1>1
  <2> HIDE DEF others, r, n, x, z, g
  <2> QED BY <1>0, <2>1, <2>2, OptionAmong
<1> QED BY <1>3, <1>4, <1>5, <1>6, <1>7 DEF options

(* The links for the flags expire and size. *)
TimeLink(expire) ==
    IF expire = << <<"noexpire">> >> THEN <<"NoExpiration", None>>
    ELSE IF expire = << <<"anyexpire">> >> THEN <<"Expiration", <<0, MaxInt>> >>
    ELSE <<"Expiration", parseExpireExpr(expire)>>
TimeLinks(expire) == IF expire = None THEN {} ELSE {TimeLink(expire)}
SizeLinks(size) == IF size = None THEN {} ELSE {<<"Size", parseSizeExpr(size)>>}

LEMMA OneOrNone ==
    ASSUME NEW c, NEW x, NEW S, x \in S, NEW s, s = IF c THEN <<>> ELSE <<x>>
    PROVE  s \in Seq(S) /\ Elements(s) = IF c THEN {} ELSE {x}
<1>1. CASE c
  BY <1>1 DEF Elements
<1>2. CASE ~c
  BY <1>2 DEF Elements
<1> QED BY <1>1, <1>2

(* wrapDecoder, from the values of the options. *)
OfTime(expire) ==
    CASE expire = None -> <<>>
      [] expire = << <<"noexpire">> >>  -> << <<"NoExpiration", None>> >>
      [] expire = << <<"anyexpire">> >> -> << <<"Expiration", <<0, MaxInt>> >> >>
      [] OTHER -> << <<"Expiration", parseExpireExpr(expire)>> >>
OfSize(size) == IF size = None THEN <<>> ELSE << <<"Size", parseSizeExpr(size)>> >>
Chain(regex, noExpired, expire, size) ==
    Given("Regex", regex) \o Given("NoExpired", noExpired) \o OfTime(expire) \o OfSize(size)
Illegal(links) ==
    \E i \in DOMAIN links : \/ links[i] = <<"Regex", << {illegal} >> >>
                             \/ links[i] \in {<<"Expiration", <<>> >>, <<"Size", <<>> >>}
Wrapped(links) == IF Illegal(links) THEN "error" ELSE links

LEMMA WrapIs ==
    ASSUME NEW options
    PROVE  wrapDecoder(options) =
             Wrapped(Chain(Option(options, "Regex"), Option(options, "NoExpired"),
                           Option(options, "Expiration"), Option(options, "Size")))
BY DEF wrapDecoder, Wrapped, Illegal, Chain, OfTime, OfSize

LEMMA OfTimeIs ==
    ASSUME NEW expire
    PROVE  OfTime(expire) = IF expire = None THEN <<>> ELSE << TimeLink(expire) >>
<1>1. CASE expire = None
  BY <1>1 DEF OfTime, None
<1>2. CASE expire = << <<"noexpire">> >>
  BY <1>2 DEF OfTime, TimeLink, None
<1>3. CASE expire = << <<"anyexpire">> >>
  BY <1>3 DEF OfTime, TimeLink, None
<1>4. CASE expire \notin {None, << <<"noexpire">> >>, << <<"anyexpire">> >>}
  BY <1>4 DEF OfTime, TimeLink
<1> QED BY <1>1, <1>2, <1>3, <1>4

LEMMA ChainIs ==
    ASSUME NEW flags, wrapDecoder(Options(flags)) # "error"
    PROVE  LET links == wrapDecoder(Options(flags))
           IN  /\ Elements(links) = IfGiven("Regex", flags.regex)
                     \cup IfGiven("NoExpired", flags.noExpired)
                     \cup TimeLinks(flags.expire) \cup SizeLinks(flags.size)
               /\ <<"Expiration", <<>> >> \notin Elements(links)
               /\ <<"Size", <<>> >> \notin Elements(links)
<1> DEFINE S == {<<"Regex", flags.regex>>, <<"NoExpired", flags.noExpired>>,
                 TimeLink(flags.expire), <<"Size", parseSizeExpr(flags.size)>>}
           a == Given("Regex", flags.regex)
           b == Given("NoExpired", flags.noExpired)
           c == OfTime(flags.expire)
           d == OfSize(flags.size)
           all == a \o b \o c \o d
<1>1. wrapDecoder(Options(flags)) = Wrapped(all)
  BY WrapIs, OptionFound DEF Chain
<1>2. a \in Seq(S) /\ Elements(a) = IfGiven("Regex", flags.regex)
  BY GivenIn
<1>3. b \in Seq(S) /\ Elements(b) = IfGiven("NoExpired", flags.noExpired)
  BY GivenIn
<1>4. c \in Seq(S) /\ Elements(c) = TimeLinks(flags.expire)
  <2>1. c = IF flags.expire = None THEN <<>> ELSE << TimeLink(flags.expire) >>
    BY OfTimeIs
  <2> HIDE DEF c
  <2> QED BY <2>1, OneOrNone DEF TimeLinks
<1>5. d \in Seq(S) /\ Elements(d) = SizeLinks(flags.size)
  BY OneOrNone DEF SizeLinks, OfSize
<1> HIDE DEF S, a, b, c, d
<1>6. Elements(all) = Elements(a) \cup Elements(b) \cup Elements(c) \cup Elements(d)
  BY <1>2, <1>3, <1>4, <1>5, FourConcat
<1> HIDE DEF all
<1>7. ~Illegal(all) /\ wrapDecoder(Options(flags)) = all
  BY <1>1 DEF Wrapped
<1>8. <<"Expiration", <<>> >> \notin Elements(all) /\ <<"Size", <<>> >> \notin Elements(all)
  BY <1>7 DEF Elements, Illegal
<1> QED BY <1>2, <1>3, <1>4, <1>5, <1>6, <1>7, <1>8

-----------------------------------------------------------------------------
(* What each link lets through is what its flag asks for. *)

LEMMA PassesAll == \A c, o : Passes(c, o) <=> \A l \in Elements(c) : Lets(l, o)
BY DEF Passes, Elements

LEMMA RegexLets ==
    ASSUME NEW regex, NEW o
    PROVE  (\A l \in IfGiven("Regex", regex) : Lets(l, o)) <=> (regex # None => o.key \in regex[1])
<1>1. Lets(<<"Regex", regex>>, o) <=> o.key \in regex[1]
  BY DEF Lets
<1> QED BY <1>1 DEF IfGiven

LEMMA NoExpiredLets ==
    ASSUME NEW noExpired, NEW o
    PROVE  (\A l \in IfGiven("NoExpired", noExpired) : Lets(l, o))
             <=> (noExpired # None => o.exp = Nil \/ o.exp > Now)
<1>1. Lets(<<"NoExpired", noExpired>>, o) <=> (o.exp = Nil \/ o.exp > Now)
  BY DEF Lets
<1> QED BY <1>1 DEF IfGiven

(* A bound of a range as the parser of the flag computes it, and as the    *)
(* help text means it.                                                     *)
SizeBound(p) == IF p = inf \/ p[2] > MaxInt THEN MaxInt ELSE p[2]
TimeBound(p) == CASE p = now -> Now \div Second [] p = inf -> MaxInt [] OTHER -> p[2]
Meant(p, nowIs) == CASE p = now -> nowIs [] p = inf -> MaxInt [] OTHER -> p[2]

LEMMA InRangeIs ==
    ASSUME NEW n, NEW parts, NEW nowIs
    PROVE  InRange(n, parts, nowIs) <=> (Meant(parts[1], nowIs) <= n /\ n <= Meant(parts[2], nowIs))
BY DEF InRange, Meant

LEMMA PartKinds ==
    ASSUME NEW p \in {now, inf, illegal} \cup ({"number"} \X Int), p # illegal
    PROVE  p = now \/ p = inf \/ (p # now /\ p # inf /\ p[2] \in Int)
BY DEF now, inf, illegal

LEMMA NowIsNoSize ==
    now \notin {inf, illegal} \cup ({"number"} \X Int)
BY DEF now, inf, illegal

(* A range that is parsed has two parts, none of them illegal. *)
LEMMA TwoParts ==
    ASSUME NEW words, NEW parts \in Ranges(words), NEW value,
           ParseRange(parts, value) # <<>>
    PROVE  /\ ParseRange(parts, value) = << value[parts[1]], value[parts[2]] >>
           /\ \A i \in {1, 2} : /\ parts[i] \in words \cup ({"number"} \X Int)
                                 /\ parts[i] # illegal
                                 /\ parts[i] \in ToSet(parts)
<1>1. Len(parts) = 2 /\ illegal \notin ToSet(parts)
  BY DEF ParseRange
<1>2. parts \in Seq(words \cup ({"number"} \X Int))
  BY DEF Ranges
<1>3. \A i \in {1, 2} : i \in DOMAIN parts
  BY <1>1, <1>2
<1>4. \A i \in {1, 2} : parts[i] \in ToSet(parts)
  BY <1>3 DEF ToSet
<1> QED BY <1>1, <1>2, <1>3, <1>4 DEF ParseRange

LEMMA SizeLets ==
    ASSUME NEW size \in {None} \cup Ranges({inf, illegal}), NEW o,
           o.size \in Nat, o.size < MaxInt,
           <<"Size", <<>> >> \notin SizeLinks(size)
    PROVE  (\A l \in SizeLinks(size) : Lets(l, o)) <=> (size # None => InRange(o.size, size, 0))
<1>1. CASE size = None
  BY <1>1 DEF SizeLinks
<1>2. CASE size # None
  <2> DEFINE value == [ p \in ToSet(size) |-> SizeBound(p) ]
             n == o.size
  <2>1. SizeLinks(size) = {<<"Size", parseSizeExpr(size)>>} /\ parseSizeExpr(size) # <<>>
    BY <1>2 DEF SizeLinks
  <2>2. parseSizeExpr(size) = ParseRange(size, value)
    BY DEF parseSizeExpr, SizeBound
  <2>3. /\ parseSizeExpr(size) = << value[size[1]], value[size[2]] >>
        /\ \A i \in {1, 2} : /\ size[i] \in {inf, illegal} \cup ({"number"} \X Int)
                              /\ size[i] # illegal
                              /\ size[i] \in ToSet(size)
    <3> HIDE DEF value
    <3> QED BY <1>2, <2>1, <2>2, TwoParts
  <2>4. parseSizeExpr(size) = << SizeBound(size[1]), SizeBound(size[2]) >>
    BY <2>3
  <2>5. ASSUME NEW p \in {inf, illegal} \cup ({"number"} \X Int), p # illegal
        PROVE  /\ SizeBound(p) \in Int
               /\ SizeBound(p) <= n <=> Meant(p, 0) <= n
               /\ n <= SizeBound(p) <=> n <= Meant(p, 0)
    <3>1. p = inf \/ (p # now /\ p # inf /\ p[2] \in Int)
      BY <2>5, PartKinds, NowIsNoSize
    <3>2. CASE p = inf
      <4>1. inf # now
        BY DEF inf, now
      <4> QED BY <3>2, <4>1, TimeAssumption DEF SizeBound, Meant
    <3>3. CASE p # now /\ p # inf /\ p[2] \in Int
      <4>1. Meant(p, 0) = p[2]
        BY <3>3 DEF Meant
      <4> QED BY <3>3, <4>1, TimeAssumption DEF SizeBound
    <3> QED BY <3>1, <3>2, <3>3
  <2>6. Lets(<<"Size", parseSizeExpr(size)>>, o)
          <=> (SizeBound(size[1]) <= n /\ n <= SizeBound(size[2]))
    BY <2>3, <2>4, <2>5 DEF Lets
  <2>7. Lets(<<"Size", parseSizeExpr(size)>>, o) <=> InRange(n, size, 0)
    BY <2>3, <2>5, <2>6, InRangeIs
  <2> QED BY <1>2, <2>1, <2>7
<1> QED BY <1>1, <1>2

LEMMA RangeLets ==
    ASSUME NEW expire \in Ranges({now, inf, illegal}), NEW o, o.exp = Nil \/ o.exp \in Nat,
           parseExpireExpr(expire) # <<>>
    PROVE  Lets(<<"Expiration", parseExpireExpr(expire)>>, o)
             <=> (o.exp # Nil /\ InRange(o.exp \div Second, expire, Now \div Second))
<1> DEFINE value == [ p \in ToSet(expire) |-> TimeBound(p) ]
           n == o.exp \div Second
           words == {now, inf, illegal}
<1>1. parseExpireExpr(expire) = ParseRange(expire, value)
  BY DEF parseExpireExpr, TimeBound
<1>2. /\ parseExpireExpr(expire) = << value[expire[1]], value[expire[2]] >>
      /\ \A i \in {1, 2} : /\ expire[i] \in words \cup ({"number"} \X Int)
                           /\ expire[i] # illegal
                           /\ expire[i] \in ToSet(expire)
  <2> HIDE DEF value, words
  <2>1. expire \in Ranges(words)
    BY DEF words
  <2> QED BY <1>1, <2>1, TwoParts
<1>3. parseExpireExpr(expire) = << TimeBound(expire[1]), TimeBound(expire[2]) >>
  BY <1>2
<1>4. \A p : TimeBound(p) = Meant(p, Now \div Second)
  BY DEF TimeBound, Meant
<1>5. Now \div Second \in Int
  BY TimeAssumption
<1>6. ASSUME NEW p \in words \cup ({"number"} \X Int), p # illegal
      PROVE  TimeBound(p) \in Int
  <2>1. p = now \/ p = inf \/ (p # now /\ p # inf /\ p[2] \in Int)
    BY <1>6, PartKinds
  <2>2. now # inf
    BY DEF now, inf
  <2> QED BY <1>5, <2>1, <2>2, TimeAssumption DEF TimeBound
<1>7. TimeBound(expire[1]) \in Int /\ TimeBound(expire[2]) \in Int
  BY <1>2, <1>6
<1>8. Lets(<<"Expiration", parseExpireExpr(expire)>>, o)
        <=> (o.exp # Nil /\ Unix(o.exp) \in TimeBound(expire[1])..TimeBound(expire[2]))
  BY <1>3 DEF Lets
<1>9. Unix(o.exp) = n
  BY DEF Unix
<1>10. o.exp # Nil => n \in Int
  BY TimeAssumption
<1>11. InRange(n, expire, Now \div Second)
         <=> (TimeBound(expire[1]) <= n /\ n <= TimeBound(expire[2]))
  BY <1>4, InRangeIs
<1>12. CASE o.exp = Nil
  BY <1>8, <1>12
<1>13. CASE o.exp # Nil
  <2> DEFINE a == TimeBound(expire[1])
             b == TimeBound(expire[2])
  <2>1. n \in Int /\ a \in Int /\ b \in Int
    BY <1>7, <1>10, <1>13
  <2>2. Lets(<<"Expiration", parseExpireExpr(expire)>>, o) <=> n \in a..b
    BY <1>8, <1>9, <1>13
  <2>3. InRange(n, expire, Now \div Second) <=> (a <= n /\ n <= b)
    BY <1>11
  <2> HIDE DEF a, b, n
  <2>4. n \in a..b <=> (a <= n /\ n <= b)
    BY <2>1
  <2>5. Lets(<<"Expiration", parseExpireExpr(expire)>>, o)
          <=> InRange(n, expire, Now \div Second)
    BY <2>2, <2>3, <2>4
  <2> QED BY <2>5, <1>13 DEF n
<1> QED BY <1>12, <1>13

(* What the flag expire asks for. *)
Timely(expire, o) ==
    CASE expire = None -> TRUE
      [] expire = << <<"noexpire">> >>  -> o.exp = Nil
      [] expire = << <<"anyexpire">> >> -> o.exp # Nil
      [] OTHER -> /\ o.exp # Nil
                  /\ InRange(o.exp \div Second, expire, Now \div Second)

LEMMA TimeLets ==
    ASSUME NEW expire \in {None, << <<"noexpire">> >>, << <<"anyexpire">> >>}
                            \cup Ranges({now, inf, illegal}),
           NEW o, o.exp = Nil \/ (o.exp \in Nat /\ Unix(o.exp) <= MaxInt),
           <<"Expiration", <<>> >> \notin TimeLinks(expire)
    PROVE  (\A l \in TimeLinks(expire) : Lets(l, o)) <=> Timely(expire, o)
<1>1. CASE expire = None
  BY <1>1 DEF TimeLinks, Timely, None
<1>2. CASE expire = << <<"noexpire">> >>
  <2>1. expire # None /\ TimeLink(expire) = <<"NoExpiration", None>>
    BY <1>2 DEF None, TimeLink
  <2>2. Timely(expire, o) <=> o.exp = Nil
    BY <1>2 DEF Timely, None
  <2>3. Lets(<<"NoExpiration", None>>, o) <=> o.exp = Nil
    BY DEF Lets
  <2> QED BY <2>1, <2>2, <2>3 DEF TimeLinks
<1>3. CASE expire = << <<"anyexpire">> >>
  <2>1. expire # None /\ TimeLink(expire) = <<"Expiration", <<0, MaxInt>> >>
    BY <1>3 DEF None, TimeLink
  <2>2. Timely(expire, o) <=> o.exp # Nil
    BY <1>3 DEF Timely, None
  <2>3. o.exp # Nil => Unix(o.exp) \in 0..MaxInt
    BY TimeAssumption DEF Unix
  <2>4. Lets(<<"Expiration", <<0, MaxInt>> >>, o) <=> (o.exp # Nil /\ Unix(o.exp) \in 0..MaxInt)
    BY DEF Lets
  <2> QED BY <2>1, <2>2, <2>3, <2>4 DEF TimeLinks
<1>4. CASE expire \notin {None, << <<"noexpire">> >>, << <<"anyexpire">> >>}
  <2>1. expire # None /\ TimeLink(expire) = <<"Expiration", parseExpireExpr(expire)>>
    BY <1>4 DEF TimeLink
  <2>2. TimeLinks(expire) = {<<"Expiration", parseExpireExpr(expire)>>}
        /\ parseExpireExpr(expire) # <<>>
    BY <2>1 DEF TimeLinks
  <2>3. expire \in Ranges({now, inf, illegal})
    BY <1>4
  <2>4. Timely(expire, o) <=> (o.exp # Nil /\ InRange(o.exp \div Second, expire, Now \div Second))
    BY <1>4 DEF Timely
  <2> QED BY <2>2, <2>3, <2>4, RangeLets
<1> QED BY <1>1, <1>2, <1>3, <1>4

(* The chain lets through what the flags ask for. *)
LEMMA ChainRight ==
    ASSUME NEW flags, IsFlags(flags), wrapDecoder(Options(flags)) # "error",
           NEW o, o.size \in Nat, o.size < MaxInt,
           o.exp = Nil \/ (o.exp \in Nat /\ Unix(o.exp) <= MaxInt),
           o.kind = "aux" => WithSpecialOpCode(Options(flags))
    PROVE  Passes(wrapDecoder(Options(flags)), o) <=> Wanted(flags, o)
<1> DEFINE links == wrapDecoder(Options(flags))
           r == IfGiven("Regex", flags.regex)
           n == IfGiven("NoExpired", flags.noExpired)
           x == TimeLinks(flags.expire)
           z == SizeLinks(flags.size)
<1>1. /\ Elements(links) = r \cup n \cup x \cup z
      /\ <<"Expiration", <<>> >> \notin Elements(links)
      /\ <<"Size", <<>> >> \notin Elements(links)
  BY ChainIs
<1>2. Passes(links, o) <=> \A l \in Elements(links) : Lets(l, o)
  BY PassesAll
<1>3. (\A l \in r : Lets(l, o)) <=> (flags.regex # None => o.key \in flags.regex[1])
  BY RegexLets
<1>4. (\A l \in n : Lets(l, o)) <=> (flags.noExpired # None => o.exp = Nil \/ o.exp > Now)
  BY NoExpiredLets
<1>5. (\A l \in x : Lets(l, o)) <=> Timely(flags.expire, o)
  BY <1>1, TimeLets DEF IsFlags
<1>6. (\A l \in z : Lets(l, o)) <=> (flags.size # None => InRange(o.size, flags.size, 0))
  BY <1>1, SizeLets DEF IsFlags
<1>7. o.kind = "aux" => flags.globalMeta # None
  BY OptionFound DEF WithSpecialOpCode
<1>8. Wanted(flags, o) <=> /\ flags.regex # None => o.key \in flags.regex[1]
                           /\ flags.noExpired # None => o.exp = Nil \/ o.exp > Now
                           /\ flags.size # None => InRange(o.size, flags.size, 0)
                           /\ Timely(flags.expire, o)
                           /\ o.kind = "aux" => flags.globalMeta # None
  BY DEF Wanted, Timely
<1> HIDE DEF links, r, n, x, z
<1>9. Passes(links, o) <=> /\ \A l \in r : Lets(l, o)
                           /\ \A l \in n : Lets(l, o)
                           /\ \A l \in x : Lets(l, o)
                           /\ \A l \in z : Lets(l, o)
  BY <1>1, <1>2
<1>10. Passes(links, o) <=> Wanted(flags, o)
  BY <1>3, <1>4, <1>5, <1>6, <1>7, <1>8, <1>9
<1> QED BY <1>10 DEF links

-----------------------------------------------------------------------------
(* at takes the objects let through to their places among those seen.      *)

Picks(at, flags, seen, let) ==
    /\ \A i, k \in DOMAIN at : i < k => at[i] < at[k]
    /\ {at[i] : i \in DOMAIN at} = {i \in DOMAIN seen : Wanted(flags, seen[i])}
    /\ \A i \in DOMAIN at : let[i] = seen[at[i]]
Exact(flags, seen, let) == \E at \in [DOMAIN let -> DOMAIN seen] : Picks(at, flags, seen, let)

(* One more object is seen, and not let through. *)
LEMMA ExactSkips ==
    ASSUME NEW flags, NEW S, NEW seen \in Seq(S), NEW let, NEW o,
           ~Wanted(flags, o), Exact(flags, seen, let)
    PROVE  Exact(flags, Append(seen, o), let)
<1> DEFINE n == Len(seen)
           more == Append(seen, o)
<1>1. /\ n \in Nat /\ DOMAIN seen = 1..n /\ DOMAIN more = 1..(n + 1)
      /\ more[n + 1] = o /\ \A i \in 1..n : more[i] = seen[i]
  OBVIOUS
<1>2. PICK at \in [DOMAIN let -> DOMAIN seen] : Picks(at, flags, seen, let)
  BY DEF Exact
<1> HIDE DEF n, more
<1>3. at \in [DOMAIN let -> DOMAIN more]
  BY <1>1
<1>4. {i \in DOMAIN more : Wanted(flags, more[i])} = {i \in DOMAIN seen : Wanted(flags, seen[i])}
  BY <1>1
<1>5. \A i \in DOMAIN at : let[i] = more[at[i]]
  BY <1>1, <1>2 DEF Picks
<1>6. Picks(at, flags, more, let)
  BY <1>2, <1>4, <1>5 DEF Picks
<1> QED BY <1>3, <1>6 DEF Exact, more

(* One more object is seen and let through. *)
LEMMA ExactGrows ==
    ASSUME NEW flags, NEW S, NEW seen \in Seq(S), NEW let \in Seq(S), NEW o \in S,
           Wanted(flags, o), Exact(flags, seen, let)
    PROVE  Exact(flags, Append(seen, o), Append(let, o))
<1> DEFINE n == Len(seen)
           m == Len(let)
           more == Append(seen, o)
           longer == Append(let, o)
<1>1. /\ n \in Nat /\ DOMAIN seen = 1..n /\ DOMAIN more = 1..(n + 1)
      /\ more[n + 1] = o /\ \A i \in 1..n : more[i] = seen[i]
  OBVIOUS
<1>2. /\ m \in Nat /\ DOMAIN let = 1..m /\ DOMAIN longer = 1..(m + 1)
      /\ longer[m + 1] = o /\ \A i \in 1..m : longer[i] = let[i]
  OBVIOUS
<1>3. PICK at \in [DOMAIN let -> DOMAIN seen] : Picks(at, flags, seen, let)
  BY DEF Exact
<1> DEFINE next == [i \in 1..(m + 1) |-> IF i = m + 1 THEN n + 1 ELSE at[i]]
<1>4. /\ DOMAIN next = 1..(m + 1) /\ next[m + 1] = n + 1
      /\ \A i \in 1..m : next[i] = at[i] /\ at[i] \in 1..n
  BY <1>1, <1>2, SMTT(30)
<1>5. next \in [DOMAIN longer -> DOMAIN more]
  BY <1>1, <1>2
<1> HIDE DEF n, m, more, longer, next
<1>6. 1..(m + 1) = 1..m \cup {m + 1} /\ 1..(n + 1) = 1..n \cup {n + 1}
  BY <1>1, <1>2
<1>7. DOMAIN at = 1..m
  BY <1>2
<1>8. \A i, k \in DOMAIN next : i < k => next[i] < next[k]
  <2> SUFFICES ASSUME NEW i \in 1..(m + 1), NEW k \in 1..(m + 1), i < k
               PROVE  next[i] < next[k]
    BY <1>4
  <2>1. i \in 1..m /\ next[i] = at[i] /\ at[i] \in 1..n
    BY <1>2, <1>4
  <2>2. CASE k = m + 1
    BY <1>1, <1>4, <2>1, <2>2
  <2>3. CASE k \in 1..m
    BY <1>3, <1>4, <1>7, <2>1, <2>3 DEF Picks
  <2> QED BY <1>6, <2>2, <2>3
<1>9. {next[i] : i \in DOMAIN next} = {at[i] : i \in DOMAIN at} \cup {n + 1}
  BY <1>4, <1>6, <1>7
<1>10. {i \in DOMAIN more : Wanted(flags, more[i])}
         = {i \in DOMAIN seen : Wanted(flags, seen[i])} \cup {n + 1}
  BY <1>1, <1>6
<1>11. \A i \in DOMAIN next : longer[i] = more[next[i]]
  <2>1. \A i \in 1..m : longer[i] = more[next[i]]
    BY <1>1, <1>2, <1>3, <1>4, <1>7 DEF Picks
  <2>2. longer[m + 1] = more[next[m + 1]]
    BY <1>1, <1>2, <1>4
  <2> QED BY <1>4, <1>6, <2>1, <2>2
<1>12. Picks(next, flags, more, longer)
  BY <1>3, <1>8, <1>9, <1>10, <1>11 DEF Picks
<1> QED BY <1>5, <1>12 DEF Exact, more, longer

-----------------------------------------------------------------------------
(* The invariant: the callback has had the objects the flags ask for so    *)
(* far, and while the file is read the chain is the one of these flags.    *)

FilterInv ==
    /\ job \in Jobs
    /\ read \in Seq(job.objects) /\ passed \in Seq(job.objects)
    /\ pc = "reading" => chain = wrapDecoder(OptionsOf(job)) /\ chain # "error"
    /\ job.name # "aof" => Exact(job.flags, read, passed)
    /\ job.name = "memory" => IF failed THEN pc = "done" ELSE rows = passed

LEMMA FilterInit == Init => FilterInv
<1> SUFFICES ASSUME Init
             PROVE  FilterInv
  OBVIOUS
<1>1. /\ job \in Jobs /\ pc = "flags" /\ read = <<>> /\ passed = <<>> /\ rows = <<>>
      /\ failed = FALSE
  BY DEF Init
<1>2. DOMAIN passed = {} /\ DOMAIN read = {}
  BY <1>1
<1> DEFINE at == [i \in DOMAIN passed |-> 0]
<1>3. at \in [DOMAIN passed -> DOMAIN read] /\ DOMAIN at = {}
  BY <1>2
<1> HIDE DEF at
<1>4. Picks(at, job.flags, read, passed)
  BY <1>2, <1>3 DEF Picks
<1>5. Exact(job.flags, read, passed)
  BY <1>3, <1>4 DEF Exact
<1> QED BY <1>1, <1>5 DEF FilterInv

(* A step that hands over no object. *)
LEMMA FilterSame ==
    ASSUME FilterInv, UNCHANGED <<job, read, passed>>,
           job.name = "memory" => rows' = rows,
           failed => failed',
           job.name = "memory" /\ failed' => pc' = "done" \/ (failed /\ pc' = pc),
           pc' = "reading" => chain' = wrapDecoder(OptionsOf(job)) /\ chain' # "error"
    PROVE  FilterInv'
<1>1. OptionsOf(job)' = OptionsOf(job)
  BY DEF OptionsOf
<1>2. Exact(job.flags, read, passed)' <=> Exact(job.flags, read, passed)
  BY DEF Exact, Picks
<1>3. job.name = "memory" => IF failed' THEN pc' = "done" ELSE rows' = passed'
  BY DEF FilterInv
<1> QED BY <1>1, <1>2, <1>3 DEF FilterInv

(* The decoder hands over an object of the file. *)
LEMMA FilterObject == FilterInv /\ Object => FilterInv'
<1> SUFFICES ASSUME FilterInv, Object
             PROVE  FilterInv'
  OBVIOUS
<1>1. PICK o \in Arriving :
         /\ read' = Append(read, o)
         /\ IF Passes(chain, o)
            THEN /\ passed' = Append(passed, o)
                 /\ IF job.name \in {"aof", "memory"} THEN WriteObject(o)
                    ELSE Collect(o) /\ UNCHANGED <<failed, rows, pc, result>>
            ELSE UNCHANGED <<passed, failed, acc, rows, pc, result>> /\ NoList
  BY DEF Object
<1>2. /\ job' = job /\ chain' = chain /\ pc = "reading"
      /\ job \in Jobs /\ read \in Seq(job.objects) /\ passed \in Seq(job.objects)
      /\ chain = wrapDecoder(OptionsOf(job)) /\ chain # "error"
  BY DEF Object, FilterInv
<1>3. o \in job.objects /\ (o.kind = "aux" => WithSpecialOpCode(OptionsOf(job)))
  BY DEF Arriving
<1>4. read' \in Seq(job.objects) /\ passed' \in Seq(job.objects)
  <2>1. read' = Append(read, o) /\ (passed' = Append(passed, o) \/ passed' = passed)
    BY <1>1
  <2>2. Append(read, o) \in Seq(job.objects) /\ Append(passed, o) \in Seq(job.objects)
    BY <1>2, <1>3, AppendProperties
  <2> QED BY <1>2, <2>1, <2>2
<1>5. OptionsOf(job)' = OptionsOf(job)
  BY <1>2 DEF OptionsOf
<1>6. ASSUME job.name # "aof"
      PROVE  Exact(job.flags, read', passed')
  <2>1. OptionsOf(job) = Options(job.flags)
    BY <1>6 DEF OptionsOf
  <2>2. /\ IsFlags(job.flags) /\ o.size \in Nat /\ o.size < MaxInt
        /\ o.exp = Nil \/ (o.exp \in Nat /\ Unix(o.exp) <= MaxInt)
    BY <1>2, <1>3, JobsAssumption
  <2>3. Passes(chain, o) <=> Wanted(job.flags, o)
    BY <1>2, <1>3, <2>1, <2>2, ChainRight
  <2>4. Exact(job.flags, read, passed)
    BY <1>6 DEF FilterInv
  <2>5. CASE Wanted(job.flags, o)
    <3>1. passed' = Append(passed, o) /\ read' = Append(read, o)
      BY <1>1, <2>3, <2>5
    <3> QED BY <1>2, <1>3, <2>4, <2>5, <3>1, ExactGrows
  <2>6. CASE ~Wanted(job.flags, o)
    <3>1. passed' = passed /\ read' = Append(read, o)
      BY <1>1, <2>3, <2>6
    <3> QED BY <1>2, <2>4, <2>6, <3>1, ExactSkips
  <2> QED BY <2>5, <2>6
<1>7. ASSUME job.name = "memory"
      PROVE  IF failed' THEN pc' = "done" ELSE rows' = passed'
  <2>0. ~failed /\ rows = passed
    BY <1>2, <1>7 DEF FilterInv
  <2>1. CASE Passes(chain, o)
    <3>1. passed' = Append(passed, o) /\ WriteObject(o)
      BY <1>1, <1>7, <2>1
    <3>2. CASE rows' = rows \o <<o>> /\ failed' = failed
      BY <1>2, <1>3, <2>0, <3>1, <3>2
    <3>3. CASE failed' = TRUE /\ pc' = "done"
      BY <3>3
    <3>4. ~GoesOn(chain, o, job.name = "aof")
      BY <1>7, <2>1 DEF GoesOn
    <3> QED BY <1>7, <3>1, <3>2, <3>3, <3>4 DEF WriteObject
  <2>2. CASE ~Passes(chain, o)
    BY <1>1, <2>0, <2>2
  <2> QED BY <2>1, <2>2
<1>8. Exact(job.flags, read, passed)' <=> Exact(job.flags, read', passed')
  BY <1>2 DEF Exact, Picks
<1> QED BY <1>2, <1>4, <1>5, <1>6, <1>7, <1>8 DEF FilterInv

LEMMA FilterNext == FilterInv /\ [Next]_vars => FilterInv'
<1> SUFFICES ASSUME FilterInv, [Next]_vars
             PROVE  FilterInv'
  OBVIOUS
<1>1. CASE CannotStart \/ ParseError
  BY <1>1, FilterSame DEF CannotStart, ParseError, Fails
<1>2. CASE Open
  <2>1. /\ UNCHANGED <<job, read, passed, failed, rows>> /\ pc = "flags"
        /\ chain' = wrapDecoder(OptionsOf(job)) /\ chain' # "error"
    BY <1>2 DEF Open
  <2>2. job.name = "memory" => ~failed
    BY <2>1 DEF FilterInv
  <2> QED BY <2>1, <2>2, FilterSame
<1>3. CASE Object
  BY <1>3, FilterObject
<1>4. CASE End
  <2>1. UNCHANGED <<job, read, passed, chain>> /\ (failed => failed') /\ pc' # "reading"
    BY <1>4 DEF End
  <2>2. job.name = "memory" => rows' = rows /\ pc' = "done"
    BY <1>4 DEF End, IsSepPrefix
  <2> QED BY <2>1, <2>2, FilterSame
<1>5. CASE Serving
  BY <1>5, FilterSame DEF Serving
<1>6. CASE UNCHANGED vars
  <2>1. UNCHANGED <<job, pc, chain, read, passed, failed, rows>>
    BY <1>6 DEF vars
  <2> QED BY <2>1, FilterSame DEF FilterInv
<1> QED BY <1>1, <1>2, <1>3, <1>4, <1>5, <1>6 DEF Next

LEMMA FilterImplies == FilterInv => FiltersExact
BY DEF FilterInv, FiltersExact, Exact, Picks

(* Whatever the flags of the command line, whatever the objects of the     *)
(* file and their order, the callback gets the objects the flags ask for,  *)
(* all of them and in order; the memory report has a row for each until a  *)
(* write fails, after which nothing is read (wrapDecoder and the decoders  *)
(* of helper/regex.go).                                                    *)
THEOREM FiltersAreExact == Spec => []FiltersExact
<1>1. Spec => []FilterInv
  BY FilterInit, FilterNext, PTL DEF Spec
<1> QED BY <1>1, FilterImplies, PTL

-----------------------------------------------------------------------------
(* Sums over finite sets: MapThenSumSet takes the elements in an order of  *)
(* its own, and any order gives the same.                                  *)

Additive(U, f, h) ==
    /\ h \in [SUBSET U -> Int]
    /\ h[{}] = 0
    /\ \A s \in SUBSET U : \A x \in U \ s : h[s \cup {x}] = h[s] + f[x]

LEMMA AdditiveExists ==
    ASSUME NEW V, IsFiniteSet(V), NEW f, \A x \in V : f[x] \in Int
    PROVE  \E h : Additive(V, f, h)
<1> DEFINE Bad == {n \in Nat : \E U \in SUBSET V : Cardinality(U) = n /\ ~\E h : Additive(U, f, h)}
<1>1. ASSUME NEW n \in Bad
      PROVE  \E m \in Bad : m < n
  <2>1. PICK U \in SUBSET V : Cardinality(U) = n /\ ~\E h : Additive(U, f, h)
    OBVIOUS
  <2>2. IsFiniteSet(U)
    BY FS_Subset
  <2>3. U # {}
    <3> SUFFICES ASSUME U = {} PROVE FALSE
      OBVIOUS
    <3> DEFINE h == [s \in SUBSET U |-> 0]
    <3>1. Additive(U, f, h)
      BY DEF Additive
    <3> QED BY <2>1, <3>1
  <2>4. PICK u \in U : TRUE
    BY <2>3
  <2> DEFINE W == U \ {u}
  <2>5. Cardinality(W) = n - 1 /\ n - 1 \in Nat
    <3>1. Cardinality(U \ {u}) = Cardinality(U) - 1
      BY <2>2, <2>4, FS_RemoveElement
    <3>2. IsFiniteSet(U \ {u})
      BY <2>2, FS_Subset
    <3>3. Cardinality(U \ {u}) \in Nat
      BY <3>2, FS_CardinalityType
    <3> QED BY <2>1, <3>1, <3>3
  <2>6. ~\E h : Additive(W, f, h)
    <3> SUFFICES ASSUME NEW h, Additive(W, f, h) PROVE FALSE
      OBVIOUS
    <3> DEFINE g == [s \in SUBSET U |-> IF u \in s THEN h[s \ {u}] + f[u] ELSE h[s]]
    <3>1. \A s \in SUBSET U : s \ {u} \in SUBSET W /\ (u \notin s => s \in SUBSET W)
      OBVIOUS
    <3>2. f[u] \in Int /\ \A s \in SUBSET W : h[s] \in Int
      BY <2>4 DEF Additive
    <3>3. g \in [SUBSET U -> Int]
      <4>1. \A s \in SUBSET U : (IF u \in s THEN h[s \ {u}] + f[u] ELSE h[s]) \in Int
        BY <3>1, <3>2
      <4> HIDE DEF W
      <4> QED BY <4>1
    <3>4. g[{}] = 0
      BY DEF Additive
    <3>5. \A s \in SUBSET U : g[s] = IF u \in s THEN h[s \ {u}] + f[u] ELSE h[s]
      OBVIOUS
    <3>6. ASSUME NEW s \in SUBSET U, NEW x \in U \ s
          PROVE  g[s \cup {x}] = g[s] + f[x]
      <4>0. s \cup {x} \in SUBSET U
        OBVIOUS
      <4>1. CASE x = u
        <5>1. (s \cup {x}) \ {u} = s /\ u \in s \cup {x} /\ u \notin s
          BY <4>1
        <5> HIDE DEF g
        <5> QED BY <3>5, <4>0, <4>1, <5>1
      <4>2. CASE x # u /\ u \in s
        <5>1. (s \cup {x}) \ {u} = (s \ {u}) \cup {x} /\ s \ {u} \in SUBSET W /\ x \in W \ (s \ {u})
          BY <4>2
        <5>2. h[(s \ {u}) \cup {x}] = h[s \ {u}] + f[x] /\ h[s \ {u}] \in Int /\ f[x] \in Int
          BY <5>1, <3>2 DEF Additive
        <5>3. g[s \cup {x}] = h[(s \ {u}) \cup {x}] + f[u] /\ g[s] = h[s \ {u}] + f[u]
          BY <4>0, <4>2, <5>1
        <5> HIDE DEF g, W
        <5> QED BY <3>2, <5>2, <5>3
      <4>3. CASE x # u /\ u \notin s
        <5>1. u \notin s \cup {x} /\ s \in SUBSET W /\ x \in W \ s
          BY <4>3
        <5>2. h[s \cup {x}] = h[s] + f[x]
          BY <5>1 DEF Additive
        <5>3. g[s \cup {x}] = h[s \cup {x}] /\ g[s] = h[s]
          BY <4>0, <4>3, <5>1
        <5> QED BY <5>2, <5>3
      <4> QED BY <4>1, <4>2, <4>3
    <3> HIDE DEF g
    <3>7. Additive(U, f, g)
      BY <3>3, <3>4, <3>6 DEF Additive
    <3> QED BY <2>1, <3>7
  <2>7. n - 1 \in Bad
    BY <2>5, <2>6
  <2>8. n \in Nat
    OBVIOUS
  <2> HIDE DEF Bad
  <2> QED BY <2>5, <2>7, <2>8
<1>2. Bad \in SUBSET Nat
  OBVIOUS
<1>3. Bad = {}
  <2> HIDE DEF Bad
  <2> SUFFICES ASSUME Bad # {} PROVE FALSE
    OBVIOUS
  <2>1. PICK m \in Bad : \A n \in Bad : m <= n
    BY <1>2, LeastNat
  <2> QED BY <1>1, <1>2, <2>1
<1>4. Cardinality(V) \in Nat
  BY FS_CardinalityType
<1> QED BY <1>3, <1>4

Folds(V, f, iter) ==
    iter = [s \in SUBSET V |->
              IF s = {} THEN 0
              ELSE f[CHOOSE x \in s : TRUE] + iter[s \ {CHOOSE x \in s : TRUE}]]

(* The function MapThenFoldSet computes is the additive one. *)
LEMMA IterAdditive ==
    ASSUME NEW V, IsFiniteSet(V), NEW f, \A x \in V : f[x] \in Int, NEW h, Additive(V, f, h),
           NEW iter, Folds(V, f, iter)
    PROVE  iter[V] = h[V]
<1> DEFINE Bad == {n \in Nat : \E s \in SUBSET V : Cardinality(s) = n /\ iter[s] # h[s]}
<1>1. ASSUME NEW n \in Bad
      PROVE  \E m \in Bad : m < n
  <2>1. PICK s \in SUBSET V : Cardinality(s) = n /\ iter[s] # h[s]
    OBVIOUS
  <2> DEFINE x == CHOOSE y \in s : TRUE
             t == s \ {x}
  <2>2. s # {} /\ x \in s
    BY <2>1 DEF Additive, Folds
  <2>3. iter[s] = f[x] + iter[t]
    BY <2>2 DEF Folds
  <2>4. IsFiniteSet(s) /\ t \in SUBSET V /\ x \in V \ t /\ s = t \cup {x}
    BY <2>2, FS_Subset
  <2>5. Cardinality(t) = n - 1 /\ n - 1 \in Nat
    <3>1. Cardinality(t) = Cardinality(s) - 1
      BY <2>2, <2>4, FS_RemoveElement
    <3>2. IsFiniteSet(t)
      BY <2>4, FS_Subset
    <3>3. Cardinality(t) \in Nat
      BY <3>2, FS_CardinalityType
    <3> QED BY <2>1, <3>1, <3>3
  <2> HIDE DEF x, t
  <2>6. h[s] = h[t] + f[x] /\ h[t] \in Int /\ f[x] \in Int
    BY <2>4 DEF Additive
  <2>7. iter[t] # h[t]
    BY <2>1, <2>3, <2>6
  <2>8. n - 1 \in Bad
    BY <2>4, <2>5, <2>7
  <2>9. n \in Nat
    OBVIOUS
  <2> HIDE DEF Bad
  <2> QED BY <2>5, <2>8, <2>9
<1>2. Bad \in SUBSET Nat
  OBVIOUS
<1>3. Bad = {}
  <2> HIDE DEF Bad
  <2> SUFFICES ASSUME Bad # {} PROVE FALSE
    OBVIOUS
  <2>1. PICK m \in Bad : \A n \in Bad : m <= n
    BY <1>2, LeastNat
  <2> QED BY <1>1, <1>2, <2>1
<1>4. Cardinality(V) \in Nat
  BY FS_CardinalityType
<1> QED BY <1>3, <1>4

(* It exists: the additive function is one. *)
LEMMA AdditiveIter ==
    ASSUME NEW V, NEW f, \A x \in V : f[x] \in Int, NEW h, Additive(V, f, h)
    PROVE  Folds(V, f, h)
<1>1. ASSUME NEW s \in SUBSET V
      PROVE  h[s] = IF s = {} THEN 0
                    ELSE f[CHOOSE x \in s : TRUE] + h[s \ {CHOOSE x \in s : TRUE}]
  <2>1. CASE s = {}
    BY <2>1 DEF Additive
  <2>2. CASE s # {}
    <3> DEFINE x == CHOOSE y \in s : TRUE
               t == s \ {x}
    <3>1. x \in s
      BY <2>2
    <3>2. t \in SUBSET V /\ x \in V \ t /\ s = t \cup {x}
      BY <3>1
    <3> HIDE DEF x, t
    <3>3. h[s] = h[t] + f[x] /\ h[t] \in Int /\ f[x] \in Int
      BY <3>2 DEF Additive
    <3>4. h[s] = f[x] + h[t]
      BY <3>3
    <3> QED BY <2>2, <3>4 DEF x, t
  <2> QED BY <2>1, <2>2
<1>2. h = [s \in SUBSET V |-> h[s]]
  BY DEF Additive
<1> QED BY <1>1, <1>2, Zenon DEF Folds

(* The sum, with a function for the values. *)
SumOf(V, f) ==
    LET iter[s \in SUBSET V] ==
          IF s = {} THEN 0
          ELSE f[CHOOSE x \in s : TRUE] + iter[s \ {CHOOSE x \in s : TRUE}]
    IN  iter[V]

LEMMA SumOfAdditive ==
    ASSUME NEW V, IsFiniteSet(V), NEW f, \A x \in V : f[x] \in Int, NEW h, Additive(V, f, h)
    PROVE  SumOf(V, f) = h[V]
<1> DEFINE it == CHOOSE iter : Folds(V, f, iter)
<1>1. SumOf(V, f) = it[V]
  BY Zenon DEF SumOf, Folds
<1>2. Folds(V, f, it)
  BY AdditiveIter, Zenon
<1> HIDE DEF it
<1>3. it[V] = h[V]
  BY <1>2, IterAdditive
<1> QED BY <1>1, <1>3

LEMMA SumGrows ==
    ASSUME NEW S, IsFiniteSet(S), NEW x, x \notin S, NEW f, \A y \in S \cup {x} : f[y] \in Int
    PROVE  /\ SumOf(S, f) \in Int
           /\ SumOf(S \cup {x}, f) = SumOf(S, f) + f[x]
<1> DEFINE V == S \cup {x}
<1>1. IsFiniteSet(V)
  BY FS_AddElement
<1>2. PICK h : Additive(V, f, h)
  BY <1>1, AdditiveExists
<1>3. SumOf(V, f) = h[V]
  BY <1>1, <1>2, SumOfAdditive
<1> DEFINE g == [s \in SUBSET S |-> h[s]]
<1>4. Additive(S, f, g)
  <2>1. \A s \in SUBSET S : s \in SUBSET V /\ g[s] = h[s]
    OBVIOUS
  <2>2. g \in [SUBSET S -> Int]
    BY <1>2, <2>1 DEF Additive
  <2>3. \A s \in SUBSET S : \A y \in S \ s : s \cup {y} \in SUBSET S /\ y \in V \ s
    OBVIOUS
  <2> HIDE DEF V, g
  <2> QED BY <1>2, <2>1, <2>2, <2>3 DEF Additive
<1>5. SumOf(S, f) = g[S]
  BY <1>4, SumOfAdditive
<1>6. g[S] = h[S] /\ h[S] \in Int
  BY <1>2 DEF Additive
<1>7. h[S \cup {x}] = h[S] + f[x]
  BY <1>2 DEF Additive
<1> QED BY <1>3, <1>5, <1>6, <1>7

LEMMA SumEmpty == ASSUME NEW f PROVE SumOf({}, f) = 0
<1>1. IsFiniteSet({}) /\ \A x \in {} : f[x] \in Int
  BY FS_EmptySet
<1>2. PICK h : Additive({}, f, h)
  BY <1>1, AdditiveExists
<1> QED BY <1>1, <1>2, SumOfAdditive DEF Additive

LEMMA WordSizesIs ==
    ASSUME NEW ws, IsFiniteSet(ws), NEW f, \A w \in ws : f[w] = w[2] /\ f[w] \in Int
    PROVE  WordSizes(ws) = SumOf(ws, f)
<1> DEFINE Is(iter) == iter = [s \in SUBSET ws |->
                         IF s = {} THEN 0
                         ELSE (CHOOSE x \in s : TRUE)[2] + iter[s \ {CHOOSE x \in s : TRUE}]]
           it == CHOOSE iter : Is(iter)
<1>1. WordSizes(ws) = it[ws]
  BY Zenon DEF WordSizes, Sum, MapThenSumSet, MapThenFoldSet
<1>2. \A iter : Is(iter) <=> Folds(ws, f, iter)
  <2> TAKE iter
  <2>1. ASSUME NEW s \in SUBSET ws
        PROVE  (IF s = {} THEN 0
                ELSE (CHOOSE x \in s : TRUE)[2] + iter[s \ {CHOOSE x \in s : TRUE}])
             = (IF s = {} THEN 0
                ELSE f[CHOOSE x \in s : TRUE] + iter[s \ {CHOOSE x \in s : TRUE}])
    OBVIOUS
  <2> QED BY <2>1, Zenon DEF Folds
<1> HIDE DEF Is
<1>3. PICK h : Additive(ws, f, h)
  BY AdditiveExists
<1>4. Folds(ws, f, h)
  BY <1>3, AdditiveIter
<1>5. Is(it)
  BY <1>2, <1>4, Zenon
<1> HIDE DEF it
<1>6. it[ws] = h[ws]
  BY <1>2, <1>3, <1>5, IterAdditive
<1> QED BY <1>1, <1>3, <1>6, SumOfAdditive

(* One more word. *)
LEMMA WordSizesGrow ==
    ASSUME NEW ws, IsFiniteSet(ws), NEW w, w \notin ws, \A v \in ws \cup {w} : v[2] \in Int
    PROVE  /\ WordSizes(ws) \in Int
           /\ WordSizes(ws \cup {w}) = WordSizes(ws) + w[2]
<1> DEFINE f == [v \in ws \cup {w} |-> v[2]]
<1>1. \A v \in ws \cup {w} : f[v] = v[2] /\ f[v] \in Int
  OBVIOUS
<1>2. IsFiniteSet(ws \cup {w})
  BY FS_AddElement
<1> HIDE DEF f
<1>3. WordSizes(ws) = SumOf(ws, f) /\ WordSizes(ws \cup {w}) = SumOf(ws \cup {w}, f)
  BY <1>1, <1>2, WordSizesIs
<1>4. SumOf(ws, f) \in Int /\ SumOf(ws \cup {w}, f) = SumOf(ws, f) + f[w]
  BY <1>1, SumGrows
<1> QED BY <1>1, <1>3, <1>4

LEMMA NoWordSizes == WordSizes({}) = 0
<1>1. WordSizes({}) = SumOf({}, <<>>)
  BY FS_EmptySet, WordSizesIs
<1> QED BY <1>1, SumEmpty

LEMMA WordSizesType ==
    ASSUME NEW ws, IsFiniteSet(ws), \A v \in ws : v[2] \in Int
    PROVE  WordSizes(ws) \in Int
<1> DEFINE f == [v \in ws |-> v[2]]
<1>1. \A w \in ws : f[w] = w[2] /\ f[w] \in Int
  OBVIOUS
<1> HIDE DEF f
<1>2. WordSizes(ws) = SumOf(ws, f)
  BY <1>1, WordSizesIs
<1>3. PICK h : Additive(ws, f, h)
  BY <1>1, AdditiveExists
<1>4. SumOf(ws, f) = h[ws]
  BY <1>1, <1>3, SumOfAdditive
<1> QED BY <1>2, <1>3, <1>4 DEF Additive

-----------------------------------------------------------------------------
(* Words and their beginnings. *)

p \preceq w == Len(p) <= Len(w) /\ \A i \in 1..Len(p) : p[i] = w[i]
p \prec w   == p \preceq w /\ p # w

(* The letter with which w goes on after p. *)
After(p, w) == w[Len(p) + 1]

LEMMA PreRefl == ASSUME NEW C, NEW p \in Seq(C) PROVE p \preceq p
BY DEF \preceq

LEMMA PreTrans ==
    ASSUME NEW C, NEW p \in Seq(C), NEW q \in Seq(C), NEW r \in Seq(C), p \preceq q, q \preceq r
    PROVE  p \preceq r
<1>1. Len(p) \in Nat /\ Len(q) \in Nat /\ Len(r) \in Nat
  OBVIOUS
<1> QED BY <1>1 DEF \preceq

LEMMA PreAnti ==
    ASSUME NEW C, NEW p \in Seq(C), NEW q \in Seq(C), p \preceq q, Len(q) <= Len(p)
    PROVE  p = q
<1>1. Len(p) \in Nat /\ Len(q) \in Nat /\ Len(p) = Len(q)
  BY DEF \preceq
<1>2. \A i \in 1..Len(p) : p[i] = q[i]
  BY DEF \preceq
<1> QED BY <1>1, <1>2

LEMMA PreMeet ==
    ASSUME NEW C, NEW p \in Seq(C), NEW q \in Seq(C), NEW r \in Seq(C), p \preceq r, q \preceq r,
           Len(p) <= Len(q)
    PROVE  p \preceq q
<1>1. Len(p) \in Nat /\ Len(q) \in Nat /\ Len(r) \in Nat
  OBVIOUS
<1> QED BY <1>1 DEF \preceq

LEMMA PreAfter ==
    ASSUME NEW C, NEW p \in Seq(C), NEW q \in Seq(C), NEW r \in Seq(C), p \prec q, q \preceq r
    PROVE  After(p, q) = After(p, r)
<1>1. Len(p) \in Nat /\ Len(q) \in Nat /\ Len(r) \in Nat
  OBVIOUS
<1>2. Len(p) < Len(q)
  BY <1>1, PreAnti DEF \prec
<1> QED BY <1>1, <1>2 DEF \preceq, After

(* What is needed of the order of words in what follows. *)
LEMMA WordOrder ==
    ASSUME NEW C
    PROVE  /\ \A p \in Seq(C) : p \preceq p
           /\ \A p, q, r \in Seq(C) : p \preceq q /\ q \preceq r => p \preceq r
           /\ \A p, q \in Seq(C) : p \preceq q /\ q \preceq p => p = q
           /\ \A p, q, r \in Seq(C) : p \preceq r /\ q \preceq r => p \preceq q \/ q \preceq p
           /\ \A p, q, r \in Seq(C) : p \prec q /\ q \preceq r => After(p, q) = After(p, r)
           /\ \A p \in Seq(C) : <<>> \preceq p
<1>1. \A p \in Seq(C) : p \preceq p
  BY PreRefl
<1>2. \A p, q, r \in Seq(C) : p \preceq q /\ q \preceq r => p \preceq r
  BY PreTrans
<1>3. \A p, q \in Seq(C) : p \preceq q /\ q \preceq p => p = q
  <2> TAKE p, q \in Seq(C)
  <2> HAVE p \preceq q /\ q \preceq p
  <2>1. Len(q) <= Len(p)
    BY DEF \preceq
  <2> QED BY <2>1, PreAnti
<1>4. \A p, q, r \in Seq(C) : p \preceq r /\ q \preceq r => p \preceq q \/ q \preceq p
  <2> TAKE p, q, r \in Seq(C)
  <2> HAVE p \preceq r /\ q \preceq r
  <2>1. Len(p) <= Len(q) \/ Len(q) <= Len(p)
    OBVIOUS
  <2> QED BY <2>1, PreMeet
<1>5. \A p, q, r \in Seq(C) : p \prec q /\ q \preceq r => After(p, q) = After(p, r)
  BY PreAfter
<1>6. \A p \in Seq(C) : <<>> \preceq p
  BY DEF \preceq
<1> QED BY <1>1, <1>2, <1>3, <1>4, <1>5, <1>6

-----------------------------------------------------------------------------
(* The shape of the tree: n nodes, F the full path of a node and K its     *)
(* children.                                                               *)

Between(n, F, p, q) == \E j \in 1..n : p \prec F[j] /\ F[j] \prec q

Tree(C, n, F, K) ==
    /\ n \in Nat \ {0} /\ F \in [1..n -> Seq(C)] /\ K \in [1..n -> SUBSET (1..n)]
    /\ F[1] = <<>>
    /\ \A i, j \in 1..n : F[i] = F[j] => i = j
    /\ \A i \in 1..n : \A c \in K[i] : F[i] \prec F[c] /\ ~Between(n, F, F[i], F[c])
    /\ \A i, j \in 1..n : F[i] \prec F[j] => \E c \in K[i] : F[c] \preceq F[j]
    /\ \A i \in 1..n : \A c, d \in K[i] : After(F[i], F[c]) = After(F[i], F[d]) => c = d

(* A node that goes on like a child goes on below this child. *)
LEMMA GoesThrough ==
    ASSUME NEW C, NEW n, NEW F, NEW K, Tree(C, n, F, K),
           NEW p \in 1..n, NEW q \in K[p], NEW w \in Seq(C), F[p] \prec w, After(F[p], w) = After(F[p], F[q]),
           NEW j \in 1..n, w \preceq F[j]
    PROVE  F[q] \preceq F[j]
<1>1. F[p] \in Seq(C) /\ F[q] \in Seq(C) /\ F[j] \in Seq(C) /\ q \in 1..n
  BY DEF Tree
<1>2. F[p] \prec F[j] /\ After(F[p], F[j]) = After(F[p], w)
  BY <1>1, WordOrder DEF \prec
<1>3. PICK d \in K[p] : F[d] \preceq F[j]
  BY <1>2 DEF Tree
<1>4. F[d] \in Seq(C) /\ F[p] \prec F[d]
  BY DEF Tree
<1>5. After(F[p], F[d]) = After(F[p], F[j])
  BY <1>1, <1>3, <1>4, WordOrder
<1>6. d = q
  BY <1>2, <1>5 DEF Tree
<1> QED BY <1>3, <1>6

(* No child of k goes on like w. *)
Apart(F, K, k, w) == \A c \in K[k] : After(F[k], F[c]) # After(F[k], w)

(* A word that no child of k goes on like has no node between k and it,    *)
(* and none below it.                                                      *)
LEMMA NoneThrough ==
    ASSUME NEW C, NEW n, NEW F, NEW K, Tree(C, n, F, K),
           NEW k \in 1..n, NEW w \in Seq(C), F[k] \prec w,
           Apart(F, K, k, w), NEW j \in 1..n
    PROVE  /\ ~(w \preceq F[j])
           /\ F[j] \preceq w => F[j] \preceq F[k]
<1>1. F[k] \in Seq(C) /\ F[j] \in Seq(C)
  BY DEF Tree
<1>2. ASSUME F[k] \prec F[j], After(F[k], F[j]) = After(F[k], w)
      PROVE  FALSE
  <2>1. PICK c \in K[k] : F[c] \preceq F[j]
    BY <1>2 DEF Tree
  <2>2. F[c] \in Seq(C) /\ F[k] \prec F[c]
    BY DEF Tree
  <2>3. After(F[k], F[c]) = After(F[k], F[j])
    BY <1>1, <2>1, <2>2, WordOrder
  <2> QED BY <1>2, <2>3 DEF Apart
<1>3. ~(w \preceq F[j])
  <2> SUFFICES ASSUME w \preceq F[j] PROVE FALSE
    OBVIOUS
  <2>1. F[k] \prec F[j] /\ After(F[k], F[j]) = After(F[k], w)
    BY <1>1, WordOrder DEF \prec
  <2> QED BY <1>2, <2>1
<1>4. F[j] \preceq w => F[j] \preceq F[k]
  <2> SUFFICES ASSUME F[j] \preceq w, ~(F[j] \preceq F[k]) PROVE FALSE
    OBVIOUS
  <2>1. F[k] \preceq F[j]
    BY <1>1, WordOrder DEF \prec
  <2>2. F[k] \prec F[j]
    BY <1>1, <2>1, WordOrder DEF \prec
  <2>3. After(F[k], F[j]) = After(F[k], w)
    BY <1>1, <2>2, WordOrder
  <2> QED BY <1>2, <2>2, <2>3
<1> QED BY <1>3, <1>4

(* The node q below p is parted at u: it keeps u, and the new node n + 1   *)
(* takes its word and its children.                                        *)
SplitF(n, F, q, u) == [i \in 1..(n + 1) |-> IF i = q THEN u ELSE IF i = n + 1 THEN F[q] ELSE F[i]]
SplitK(n, K, q) == [i \in 1..(n + 1) |-> IF i = q THEN {n + 1} ELSE IF i = n + 1 THEN K[q] ELSE K[i]]

LEMMA SplitTree ==
    ASSUME NEW C, NEW n, NEW F, NEW K, Tree(C, n, F, K),
           NEW p \in 1..n, NEW q \in K[p], NEW u \in Seq(C), F[p] \prec u, u \prec F[q]
    PROVE  Tree(C, n + 1, SplitF(n, F, q, u), SplitK(n, K, q))
<1> DEFINE G == SplitF(n, F, q, u)
           L == SplitK(n, K, q)
<1>0. n \in Nat \ {0} /\ F \in [1..n -> Seq(C)] /\ K \in [1..n -> SUBSET (1..n)]
  BY DEF Tree
<1>1. /\ n \in Nat \ {0} /\ q \in 1..n /\ n + 1 \notin 1..n /\ 1..(n + 1) = 1..n \cup {n + 1}
      /\ F \in [1..n -> Seq(C)] /\ K \in [1..n -> SUBSET (1..n)]
  <2>1. n + 1 \notin 1..n /\ 1..(n + 1) = 1..n \cup {n + 1}
    <3>1. \A m \in Nat : m + 1 \notin 1..m /\ 1..(m + 1) = 1..m \cup {m + 1}
      OBVIOUS
    <3> QED BY <1>0, <3>1
  <2>2. q \in 1..n
    <3>1. K[p] \in SUBSET (1..n)
      BY <1>0, Zenon
    <3> QED BY <3>1
  <2> QED BY <1>0, <2>1, <2>2
<1>2. /\ \A i \in 1..n : i # q => G[i] = F[i] /\ L[i] = K[i]
      /\ G[q] = u /\ L[q] = {n + 1} /\ G[n + 1] = F[q] /\ L[n + 1] = K[q]
  BY <1>1 DEF SplitF, SplitK
<1>3. G \in [1..(n + 1) -> Seq(C)] /\ L \in [1..(n + 1) -> SUBSET (1..(n + 1))]
  <2>1. DOMAIN G = 1..(n + 1) /\ DOMAIN L = 1..(n + 1)
    BY DEF SplitF, SplitK
  <2>2. \A i \in 1..(n + 1) : G[i] \in Seq(C) /\ L[i] \in SUBSET (1..(n + 1))
    BY <1>1, <1>2
  <2>3. G = [i \in 1..(n + 1) |-> G[i]] /\ L = [i \in 1..(n + 1) |-> L[i]]
    BY DEF SplitF, SplitK
  <2> HIDE DEF G, L
  <2> QED BY <2>2, <2>3
<1> HIDE DEF G, L
<1>4. \A i \in 1..n : F[i] \in Seq(C)
  BY <1>1
<1>5. \A j \in 1..n : ~(F[p] \prec F[j] /\ F[j] \prec F[q])
  BY DEF Tree, Between
<1>6. \A j \in 1..n : F[j] # u
  BY <1>5
<1>7. \A j \in 1..n : u \preceq F[j] => F[q] \preceq F[j]
  <2> TAKE j \in 1..n
  <2> HAVE u \preceq F[j]
  <2>1. After(F[p], u) = After(F[p], F[q])
    BY <1>1, <1>4, WordOrder DEF \prec
  <2> QED BY <2>1, GoesThrough
<1>8. \A i, j \in 1..n : F[i] = F[j] => i = j
  BY DEF Tree
<1>9. ~(F[q] \preceq u)
  BY <1>1, <1>4, WordOrder DEF \prec
<1>10. \A i \in 1..n : q \in K[i] => i = p
  <2> SUFFICES ASSUME NEW i \in 1..n, q \in K[i], i # p PROVE FALSE
    OBVIOUS
  <2>1. F[i] \prec F[q] /\ F[p] \prec F[q] /\ F[i] # F[p]
    BY <1>8 DEF Tree
  <2>2. F[i] \prec F[p] \/ F[p] \prec F[i]
    BY <1>1, <1>4, <2>1, WordOrder DEF \prec
  <2> QED BY <1>1, <2>1, <2>2 DEF Tree, Between
<1>11. \A c \in K[q] : c # q /\ c \in 1..n
  BY <1>1 DEF Tree, \prec
<1>12. ASSUME NEW i \in 1..(n + 1), NEW c \in L[i]
       PROVE  G[i] \prec G[c] /\ ~Between(n + 1, G, G[i], G[c])
  <2>1. CASE i = q
    <3>1. c = n + 1 /\ G[i] = u /\ G[c] = F[q]
      BY <1>2, <2>1
    <3>2. \A j \in 1..n : ~(u \prec F[j] /\ F[j] \prec F[q])
      BY <1>1, <1>4, <1>5, WordOrder DEF \prec
    <3>3. \A j \in 1..(n + 1) : ~(u \prec G[j] /\ G[j] \prec F[q])
      BY <1>1, <1>2, <3>2 DEF \prec
    <3> QED BY <3>1, <3>3 DEF Between
  <2>2. CASE i = n + 1
    <3>1. c \in K[q] /\ G[i] = F[q] /\ G[c] = F[c]
      BY <1>2, <1>11, <2>2
    <3>2. F[q] \prec F[c] /\ \A j \in 1..n : ~(F[q] \prec F[j] /\ F[j] \prec F[c])
      BY <1>1, <3>1 DEF Tree, Between
    <3>3. \A j \in 1..(n + 1) : ~(F[q] \prec G[j] /\ G[j] \prec F[c])
      BY <1>1, <1>2, <1>9, <3>2 DEF \prec
    <3> QED BY <3>1, <3>2, <3>3 DEF Between
  <2>3. CASE i \in 1..n /\ i # q /\ c = q
    <3>1. i = p /\ G[i] = F[p] /\ G[c] = u
      BY <1>2, <1>10, <2>3
    <3>2. \A j \in 1..n : ~(F[p] \prec F[j] /\ F[j] \prec u)
      BY <1>1, <1>4, <1>5, WordOrder DEF \prec
    <3>3. \A j \in 1..(n + 1) : ~(F[p] \prec G[j] /\ G[j] \prec u)
      BY <1>1, <1>2, <1>9, <3>2 DEF \prec
    <3> QED BY <3>1, <3>3 DEF Between
  <2>4. CASE i \in 1..n /\ i # q /\ c # q
    <3>1. c \in K[i] /\ c \in 1..n /\ G[i] = F[i] /\ G[c] = F[c]
      BY <1>1, <1>2, <2>4
    <3>2. F[i] \prec F[c] /\ \A j \in 1..n : ~(F[i] \prec F[j] /\ F[j] \prec F[c])
      BY <2>4, <3>1 DEF Tree, Between
    <3>3. ~(F[i] \prec u /\ u \prec F[c])
      <4> SUFFICES ASSUME F[i] \prec u, u \prec F[c] PROVE FALSE
        OBVIOUS
      <4>1. F[q] \preceq F[c] /\ F[q] # F[c]
        BY <1>1, <1>7, <1>8, <2>4, <3>1 DEF \prec
      <4>2. F[i] \prec F[q]
        BY <1>1, <1>4, <2>4, WordOrder DEF \prec
      <4> QED BY <1>1, <3>2, <4>1, <4>2 DEF \prec
    <3>4. \A j \in 1..(n + 1) : ~(F[i] \prec G[j] /\ G[j] \prec F[c])
      BY <1>1, <1>2, <3>2, <3>3
    <3> QED BY <3>1, <3>2, <3>4 DEF Between
  <2> QED BY <1>1, <2>1, <2>2, <2>3, <2>4
<1>13. ASSUME NEW i \in 1..(n + 1), NEW j \in 1..(n + 1), G[i] \prec G[j]
       PROVE  \E c \in L[i] : G[c] \preceq G[j]
  <2>0. G[j] \in Seq(C) /\ G[i] \in Seq(C)
    BY <1>3
  <2>1. CASE i = q
    <3>1. j # q /\ u \prec G[j]
      BY <1>2, <1>13, <2>1 DEF \prec
    <3>2. F[q] \preceq G[j]
      BY <1>1, <1>2, <1>4, <1>7, <3>1, WordOrder DEF \prec
    <3> QED BY <1>2, <2>1, <3>2
  <2>2. CASE i = n + 1
    <3>1. F[q] \prec G[j] /\ j \in 1..n /\ j # q
      BY <1>1, <1>2, <1>9, <1>13, <2>2 DEF \prec
    <3>2. PICK c \in K[q] : F[c] \preceq F[j]
      BY <1>1, <1>2, <3>1 DEF Tree
    <3> QED BY <1>2, <1>11, <2>2, <3>1, <3>2
  <2>3. CASE i \in 1..n /\ i # q
    <3>1. CASE j = q
      <4>1. F[i] \prec u /\ F[i] \prec F[q]
        BY <1>1, <1>2, <1>4, <1>13, <2>3, <3>1, WordOrder DEF \prec
      <4>2. PICK c \in K[i] : F[c] \preceq F[q]
        BY <1>1, <2>3, <4>1 DEF Tree
      <4>3. c \in 1..n
        BY <1>1, <2>3, <4>2
      <4>4. CASE c = q
        BY <1>2, <1>3, <2>0, <2>3, <3>1, <4>4, <4>2, WordOrder
      <4>5. CASE c # q
        <5>1. F[c] \prec F[q]
          BY <1>1, <1>8, <4>2, <4>3, <4>5 DEF \prec
        <5>2. F[c] \preceq u \/ u \preceq F[c]
          BY <1>1, <1>4, <4>3, <5>1, WordOrder DEF \prec
        <5>3. ~(u \preceq F[c])
          <6> SUFFICES ASSUME u \preceq F[c] PROVE FALSE
            OBVIOUS
          <6>1. F[p] \prec F[c]
            BY <1>1, <1>4, <4>3, WordOrder DEF \prec
          <6> QED BY <1>5, <4>3, <5>1, <6>1
        <5> QED BY <1>2, <2>3, <3>1, <4>2, <4>3, <4>5, <5>2, <5>3
      <4> QED BY <4>4, <4>5
    <3>2. CASE j = n + 1
      <4>1. F[i] \prec F[q]
        BY <1>2, <1>13, <2>3, <3>2
      <4>2. PICK c \in K[i] : F[c] \preceq F[q]
        BY <1>1, <2>3, <4>1 DEF Tree
      <4>3. c \in 1..n
        BY <1>1, <2>3, <4>2
      <4> QED BY <1>2, <2>3, <3>2, <4>2, <4>3 DEF \prec
    <3>3. CASE j \in 1..n /\ j # q
      <4>1. F[i] \prec F[j]
        BY <1>2, <1>13, <2>3, <3>3
      <4>2. PICK c \in K[i] : F[c] \preceq F[j]
        BY <1>1, <2>3, <3>3, <4>1 DEF Tree
      <4>3. c \in 1..n
        BY <1>1, <2>3, <4>2
      <4>4. c = q => u \preceq F[j]
        BY <1>1, <1>4, <3>3, <4>2, WordOrder DEF \prec
      <4> QED BY <1>2, <2>3, <3>3, <4>2, <4>3, <4>4
    <3> QED BY <1>1, <3>1, <3>2, <3>3
  <2> QED BY <1>1, <2>1, <2>2, <2>3
<1>14. ASSUME NEW i \in 1..(n + 1), NEW c \in L[i], NEW d \in L[i], After(G[i], G[c]) = After(G[i], G[d])
       PROVE  c = d
  <2>1. CASE i = q
    BY <1>2, <2>1, <1>14
  <2>2. CASE i = n + 1
    <3>1. c \in K[q] /\ d \in K[q] /\ G[i] = F[q] /\ G[c] = F[c] /\ G[d] = F[d]
      BY <1>2, <1>11, <1>14, <2>2
    <3> QED BY <1>1, <1>14, <3>1 DEF Tree
  <2>3. CASE i \in 1..n /\ i # q
    <3>1. \A e \in L[i] : e \in K[i] /\ After(G[i], G[e]) = After(F[i], F[e])
      <4> TAKE e \in L[i]
      <4>1. e \in K[i] /\ e \in 1..n /\ G[i] = F[i]
        BY <1>1, <1>2, <2>3
      <4>2. CASE e = q
        <5>1. i = p /\ G[e] = u
          BY <1>2, <1>10, <2>3, <4>1, <4>2
        <5>2. F[p] \in Seq(C) /\ F[q] \in Seq(C) /\ u \preceq F[q]
          BY <1>1, <1>4 DEF \prec
        <5>3. After(F[p], u) = After(F[p], F[q])
          BY <5>2, PreAfter
        <5> QED BY <4>1, <4>2, <5>1, <5>3
      <4>3. CASE e # q
        BY <1>2, <4>1, <4>3
      <4> QED BY <4>2, <4>3
    <3> QED BY <1>14, <2>3, <3>1 DEF Tree
  <2> QED BY <1>1, <2>1, <2>2, <2>3
<1>15. \A i, j \in 1..(n + 1) : G[i] = G[j] => i = j
  <2>1. u # F[q]
    BY DEF \prec
  <2>2. \A i \in 1..n : i # q => G[i] # u /\ G[i] # F[q]
    BY <1>1, <1>2, <1>6, <1>8
  <2>3. \A i, j \in 1..n : i # q /\ j # q /\ G[i] = G[j] => i = j
    BY <1>2, <1>8
  <2> QED BY <1>1, <1>2, <2>1, <2>2, <2>3
<1>16. G[1] = <<>>
  <2>1. <<>> \preceq u
    BY WordOrder
  <2>2. F[1] = <<>>
    BY DEF Tree
  <2>3. 1 # q
    BY <1>9, <2>1, <2>2
  <2> QED BY <1>1, <1>2, <2>2, <2>3
<1>17. n + 1 \in Nat \ {0}
  BY <1>1
<1> QED BY <1>3, <1>12, <1>13, <1>14, <1>15, <1>16, <1>17 DEF Tree, G, L

(* A new leaf below k for a word no child of k goes on like. *)
LeafF(n, F, w) == [i \in 1..(n + 1) |-> IF i = n + 1 THEN w ELSE F[i]]
LeafK(n, K, k) == [i \in 1..(n + 1) |-> IF i = n + 1 THEN {} ELSE IF i = k THEN K[k] \cup {n + 1} ELSE K[i]]

LEMMA LeafTree ==
    ASSUME NEW C, NEW n, NEW F, NEW K, Tree(C, n, F, K),
           NEW k \in 1..n, NEW w \in Seq(C), F[k] \prec w,
           Apart(F, K, k, w)
    PROVE  Tree(C, n + 1, LeafF(n, F, w), LeafK(n, K, k))
<1> DEFINE G == LeafF(n, F, w)
           L == LeafK(n, K, k)
<1>0. n \in Nat \ {0} /\ F \in [1..n -> Seq(C)] /\ K \in [1..n -> SUBSET (1..n)]
  BY DEF Tree
<1>1. /\ n \in Nat \ {0} /\ n + 1 \notin 1..n /\ 1..(n + 1) = 1..n \cup {n + 1}
      /\ F \in [1..n -> Seq(C)] /\ K \in [1..n -> SUBSET (1..n)]
  <2>0. \A m \in Nat : m + 1 \notin 1..m /\ 1..(m + 1) = 1..m \cup {m + 1}
    OBVIOUS
  <2>1. n + 1 \notin 1..n /\ 1..(n + 1) = 1..n \cup {n + 1}
    BY <1>0, <2>0
  <2> QED BY <1>0, <2>1
<1>2. /\ \A i \in 1..n : G[i] = F[i] /\ L[i] = (IF i = k THEN K[k] \cup {n + 1} ELSE K[i])
      /\ G[n + 1] = w /\ L[n + 1] = {}
  BY <1>1 DEF LeafF, LeafK
<1>3. G \in [1..(n + 1) -> Seq(C)] /\ L \in [1..(n + 1) -> SUBSET (1..(n + 1))]
  <2>2. \A i \in 1..(n + 1) : G[i] \in Seq(C) /\ L[i] \in SUBSET (1..(n + 1))
    BY <1>1, <1>2
  <2>3. G = [i \in 1..(n + 1) |-> G[i]] /\ L = [i \in 1..(n + 1) |-> L[i]]
    BY DEF LeafF, LeafK
  <2> HIDE DEF G, L
  <2> QED BY <2>2, <2>3
<1> HIDE DEF G, L
<1>4. \A i \in 1..n : F[i] \in Seq(C)
  BY <1>1
<1>5. \A j \in 1..n : ~(w \preceq F[j]) /\ (F[j] \preceq w => F[j] \preceq F[k])
  BY NoneThrough
<1>6. \A j \in 1..n : F[j] # w
  BY <1>4, <1>5, WordOrder
<1>12. ASSUME NEW i \in 1..(n + 1), NEW c \in L[i]
       PROVE  G[i] \prec G[c] /\ ~Between(n + 1, G, G[i], G[c])
  <2>1. i \in 1..n /\ G[i] = F[i]
    BY <1>1, <1>2
  <2>2. CASE i = k /\ c = n + 1
    <3>1. \A j \in 1..n : ~(F[k] \prec F[j] /\ F[j] \prec w)
      BY <1>4, <1>5, WordOrder DEF \prec
    <3>2. \A j \in 1..(n + 1) : ~(F[k] \prec G[j] /\ G[j] \prec w)
      BY <1>1, <1>2, <3>1 DEF \prec
    <3> QED BY <1>2, <2>1, <2>2, <3>2 DEF Between
  <2>3. CASE ~(i = k /\ c = n + 1)
    <3>1. c \in K[i] /\ c \in 1..n /\ G[c] = F[c]
      BY <1>1, <1>2, <2>1, <2>3
    <3>2. F[i] \prec F[c] /\ \A j \in 1..n : ~(F[i] \prec F[j] /\ F[j] \prec F[c])
      BY <2>1, <3>1 DEF Tree, Between
    <3>3. \A j \in 1..(n + 1) : ~(F[i] \prec G[j] /\ G[j] \prec F[c])
      BY <1>1, <1>2, <1>5, <3>1, <3>2 DEF \prec
    <3> QED BY <2>1, <3>1, <3>2, <3>3 DEF Between
  <2> QED BY <2>2, <2>3
<1>13. ASSUME NEW i \in 1..(n + 1), NEW j \in 1..(n + 1), G[i] \prec G[j]
       PROVE  \E c \in L[i] : G[c] \preceq G[j]
  <2>1. i \in 1..n /\ G[i] = F[i]
    BY <1>1, <1>2, <1>5, <1>13 DEF \prec
  <2>2. CASE j = n + 1 /\ i = k
    <3>1. n + 1 \in L[i]
      BY <1>2, <2>1, <2>2
    <3> QED BY <1>2, <2>2, <3>1, WordOrder
  <2>3. CASE j = n + 1 /\ i # k
    <3>1. F[i] \prec F[k]
      BY <1>2, <1>5, <1>13, <2>1, <2>3 DEF Tree, \prec
    <3>2. PICK c \in K[i] : F[c] \preceq F[k]
      BY <2>1, <3>1 DEF Tree
    <3>3. c \in L[i] /\ G[c] = F[c] /\ F[c] \in Seq(C)
      BY <1>1, <1>2, <2>1, <2>3, <3>2
    <3>4. F[c] \preceq w
      BY <1>4, <3>2, <3>3, WordOrder DEF \prec
    <3> QED BY <1>2, <2>3, <3>3, <3>4
  <2>4. CASE j \in 1..n
    <3>1. PICK c \in K[i] : F[c] \preceq F[j]
      BY <1>2, <1>13, <2>1, <2>4 DEF Tree
    <3>2. c \in L[i] /\ G[c] = F[c]
      BY <1>1, <1>2, <2>1, <3>1
    <3> QED BY <1>2, <2>4, <3>1, <3>2
  <2> QED BY <1>1, <2>2, <2>3, <2>4
<1>14. ASSUME NEW i \in 1..(n + 1), NEW c \in L[i], NEW d \in L[i], After(G[i], G[c]) = After(G[i], G[d])
       PROVE  c = d
  <2>1. i \in 1..n /\ G[i] = F[i] /\ K[i] \subseteq 1..n
    BY <1>1, <1>2, <1>14
  <2>2. c \in K[i] /\ d \in K[i] => c = d
    BY <1>2, <1>14, <2>1 DEF Tree
  <2>3. ASSUME NEW e \in K[i], i = k PROVE After(G[i], G[e]) # After(G[i], G[n + 1])
    BY <1>2, <2>1, <2>3 DEF Apart
  <2> QED BY <1>2, <1>14, <2>1, <2>2, <2>3
<1>15. \A i, j \in 1..(n + 1) : G[i] = G[j] => i = j
  <2>1. \A i, j \in 1..n : F[i] = F[j] => i = j
    BY DEF Tree
  <2> QED BY <1>1, <1>2, <1>6, <2>1
<1>16. G[1] = <<>>
  BY <1>1, <1>2 DEF Tree
<1>17. n + 1 \in Nat \ {0}
  BY <1>1
<1> QED BY <1>3, <1>12, <1>13, <1>14, <1>15, <1>16, <1>17 DEF Tree, G, L

-----------------------------------------------------------------------------
(* The tree of radix.go.  W is the set of the words it holds.              *)

Node(C) == [path : Seq(C), fullpath : Seq(C), end : BOOLEAN, children : Seq(Nat),
            totalSize : Int, keyCount : Int]

FullOf(T) == [i \in DOMAIN T |-> T[i].fullpath]
KidsOf(T) == [i \in DOMAIN T |-> Elements(T[i].children)]

Hangs(T, i, c) == T[c].path # <<>> /\ T[c].fullpath = T[i].fullpath \o T[c].path

Built(C, T) ==
    /\ T \in Seq(Node(C))
    /\ Tree(C, Len(T), FullOf(T), KidsOf(T))
    /\ T[1].path = <<>>
    /\ \A i \in 1..Len(T) : \A c \in KidsOf(T)[i] : Hangs(T, i, c)

(* What a split makes of the nodes. *)
LEMMA SplitIs ==
    ASSUME NEW C, NEW T \in Seq(Node(C)), NEW q \in 1..Len(T), NEW i \in Nat,
           i <= Len(T[q].path), Len(T[q].path) <= Len(T[q].fullpath)
    PROVE  /\ Radix!Split(T, q, i) \in Seq(Node(C)) /\ Len(Radix!Split(T, q, i)) = Len(T) + 1
           /\ \A j \in 1..Len(T) : j # q => Radix!Split(T, q, i)[j] = T[j]
           /\ Radix!Split(T, q, i)[Len(T) + 1] = Radix!NewNode(Radix!From(T[q].path, i + 1), T[q].fullpath,
                               T[q].end, T[q].children, T[q].totalSize, T[q].keyCount)
           /\ Radix!Split(T, q, i)[q].path = SubSeq(T[q].path, 1, i) /\ Radix!Split(T, q, i)[q].children = <<Len(T) + 1>>
           /\ Radix!Split(T, q, i)[q].fullpath = SubSeq(T[q].fullpath, 1, Len(T[q].fullpath) - (Len(T[q].path) - i))
           /\ Radix!Split(T, q, i)[q].end = FALSE
           /\ Radix!Split(T, q, i)[q].totalSize = T[q].totalSize /\ Radix!Split(T, q, i)[q].keyCount = T[q].keyCount
<1> DEFINE n == Len(T)
           lower == Radix!NewNode(Radix!From(T[q].path, i + 1), T[q].fullpath, T[q].end,
                                  T[q].children, T[q].totalSize, T[q].keyCount)
           upper == [T[q] EXCEPT !.path = SubSeq(@, 1, i), !.end = FALSE,
                             !.fullpath = SubSeq(@, 1, Len(@) - (Len(T[q].path) - i)),
                             !.children = <<n + 1>>]
           R == [T EXCEPT ![q] = upper]
           S == Radix!Split(T, q, i)
<1>1. T[q] \in Node(C) /\ n \in Nat
  OBVIOUS
<1>3. Radix!Split(T, q, i) = Append(R, lower)
  BY DEF Radix!Split
<1>2. T[q].path \in Seq(C)
  BY <1>1 DEF Node
<1>4. Radix!From(T[q].path, i + 1) \in Seq(C)
  <2>1. \A s \in Seq(C), k \in Nat : k <= Len(s) => SubSeq(s, k + 1, Len(s)) \in Seq(C)
    OBVIOUS
  <2>2. SubSeq(T[q].path, i + 1, Len(T[q].path)) \in Seq(C)
    BY <1>2, <2>1
  <2> QED BY <2>2 DEF Radix!From
<1>5. SubSeq(T[q].path, 1, i) \in Seq(C)
  <2>1. \A s \in Seq(C), k \in Nat : k <= Len(s) => SubSeq(s, 1, k) \in Seq(C)
    OBVIOUS
  <2> QED BY <1>2, <2>1
<1>6. SubSeq(T[q].fullpath, 1, Len(T[q].fullpath) - (Len(T[q].path) - i)) \in Seq(C)
  <2>1. T[q].fullpath \in Seq(C) /\ T[q].path \in Seq(C)
    BY <1>1 DEF Node
  <2>2. Len(T[q].fullpath) \in Nat /\ Len(T[q].path) \in Nat
    BY <2>1
  <2>3. Len(T[q].fullpath) - (Len(T[q].path) - i) \in 0..Len(T[q].fullpath)
    <3>1. \A a, b \in Nat : i <= b /\ b <= a => a - (b - i) \in 0..a
      OBVIOUS
    <3> QED BY <2>2, <3>1
  <2> QED BY <2>1, <2>3
<1>7. lower \in Node(C)
  BY <1>1, <1>4 DEF Node, Radix!NewNode
<1>8. upper \in Node(C)
  <2>1. <<n + 1>> \in Seq(Nat)
    BY <1>1
  <2> QED BY <1>1, <1>5, <1>6, <2>1 DEF Node
<1>11. /\ upper.path = SubSeq(T[q].path, 1, i) /\ upper.children = <<n + 1>>
       /\ upper.fullpath = SubSeq(T[q].fullpath, 1, Len(T[q].fullpath) - (Len(T[q].path) - i))
       /\ upper.end = FALSE
       /\ upper.totalSize = T[q].totalSize /\ upper.keyCount = T[q].keyCount
  BY <1>1 DEF Node
<1> HIDE DEF lower, upper
<1>9. R \in Seq(Node(C)) /\ Len(R) = n /\ R[q] = upper /\ \A j \in 1..n : j # q => R[j] = T[j]
  BY <1>8
<1> HIDE DEF R
<1>10. /\ Append(R, lower) \in Seq(Node(C)) /\ Len(Append(R, lower)) = n + 1
       /\ Append(R, lower)[n + 1] = lower
       /\ \A j \in 1..n : Append(R, lower)[j] = R[j]
  BY <1>7, <1>9
<1> HIDE DEF n, S
<1>12. S = Append(R, lower)
  BY <1>3 DEF S
<1>13. /\ S[q] = upper /\ S[n + 1] = lower /\ \A j \in 1..n : j # q => S[j] = T[j]
  BY <1>9, <1>10, <1>12 DEF n
<1>14. S \in Seq(Node(C)) /\ Len(S) = n + 1
  BY <1>10, <1>12
<1> QED BY <1>11, <1>13, <1>14, Zenon DEF lower, n, S

(* Two words, one behind the other, and the rest of a word. *)
LEMMA Joined ==
    ASSUME NEW C, NEW a \in Seq(C), NEW b \in Seq(C)
    PROVE  /\ a \o b \in Seq(C) /\ Len(a \o b) = Len(a) + Len(b)
           /\ \A j \in 1..Len(a) : (a \o b)[j] = a[j]
           /\ \A j \in (Len(a) + 1)..(Len(a) + Len(b)) : (a \o b)[j] = b[j - Len(a)]
<1>1. Len(a) \in Nat /\ Len(b) \in Nat
  OBVIOUS
<1>2. /\ a \o b \in Seq(C) /\ Len(a \o b) = Len(a) + Len(b)
      /\ \A j \in 1..(Len(a) + Len(b)) :
           (a \o b)[j] = IF j <= Len(a) THEN a[j] ELSE b[j - Len(a)]
  BY ConcatProperties
<1> QED BY <1>1, <1>2

LEMMA Rest ==
    ASSUME NEW C, NEW w \in Seq(C), NEW i \in Nat, i <= Len(w)
    PROVE  /\ Radix!From(w, i + 1) \in Seq(C) /\ Len(Radix!From(w, i + 1)) = Len(w) - i
           /\ \A j \in 1..(Len(w) - i) : Radix!From(w, i + 1)[j] = w[i + j]
<1>1. Len(w) \in Nat /\ \A j \in (i + 1)..Len(w) : w[j] \in C
  OBVIOUS
<1> DEFINE m == i + 1
           n == Len(w)
           z == SubSeq(w, m, n)
<1>2. m \in Int /\ n \in Int /\ \A j \in m..n : w[j] \in C
  BY <1>1
<1>3. z \in Seq(C) /\ Len(z) = (IF m <= n THEN n - m + 1 ELSE 0)
      /\ \A j \in 1..(n - m + 1) : z[j] = w[m + j - 1]
  <2> HIDE DEF m, n
  <2> QED BY <1>2, SubSeqProperties
<1>4. Len(z) = Len(w) - i
  BY <1>1, <1>3
<1>5. \A j \in 1..(Len(w) - i) : m + j - 1 = i + j
  BY <1>1
<1> HIDE DEF z
<1>6. \A j \in 1..(Len(w) - i) : z[j] = w[i + j]
  BY <1>1, <1>3, <1>5, SMTT(30)
<1> QED BY <1>3, <1>4, <1>6 DEF Radix!From, z

(* A node and what is left of the word part after i letters of its path:   *)
(* u is what they have in common.                                          *)
Stem(base, path, i) == base \o SubSeq(path, 1, i)

PartsOf(C, base, path, i) ==
    LET q == base \o path
        u == Stem(base, path, i)
        z == Radix!From(path, i + 1)
    IN  /\ u \in Seq(C) /\ q \in Seq(C) /\ u \preceq q
        /\ Len(u) = Len(base) + i
        /\ i = Len(path) => u = q
        /\ i < Len(path) => u \prec q /\ path[i + 1] = After(u, q)
        /\ 0 < i => base \prec u
        /\ SubSeq(q, 1, Len(q) - (Len(path) - i)) = u
        /\ z \in Seq(C)
        /\ z = <<>> <=> i = Len(path)
        /\ i < Len(path) => z[1] = After(u, q)
        /\ q = u \o z

LEMMA Parts ==
    ASSUME NEW C, NEW base \in Seq(C), NEW path \in Seq(C), NEW i \in Nat, i <= Len(path)
    PROVE  PartsOf(C, base, path, i)
<1> DEFINE a == SubSeq(path, 1, i)
           q == base \o path
           u == Stem(base, path, i)
           z == Radix!From(path, i + 1)
<1>1. /\ a \in Seq(C) /\ Len(a) = i /\ \A j \in 1..i : a[j] = path[j]
  OBVIOUS
<1>2. /\ q \in Seq(C) /\ Len(q) = Len(base) + Len(path)
      /\ \A j \in 1..Len(base) : q[j] = base[j]
      /\ \A j \in (Len(base) + 1)..(Len(base) + Len(path)) : q[j] = path[j - Len(base)]
  BY Joined
<1>16. u = base \o a
  BY DEF Stem
<1>4. /\ z \in Seq(C) /\ Len(z) = Len(path) - i
      /\ \A j \in 1..(Len(path) - i) : z[j] = path[i + j]
  BY Rest
<1> HIDE DEF a, q, u, z
<1>3. /\ u \in Seq(C) /\ Len(u) = Len(base) + i
      /\ \A j \in 1..Len(base) : u[j] = base[j]
      /\ \A j \in (Len(base) + 1)..(Len(base) + i) : u[j] = path[j - Len(base)]
  <2>0. /\ u \in Seq(C) /\ Len(u) = Len(base) + Len(a)
        /\ \A j \in 1..Len(base) : u[j] = base[j]
        /\ \A j \in (Len(base) + 1)..(Len(base) + Len(a)) : u[j] = a[j - Len(base)]
    <3>1. /\ base \o a \in Seq(C) /\ Len(base \o a) = Len(base) + Len(a)
          /\ \A j \in 1..Len(base) : (base \o a)[j] = base[j]
          /\ \A j \in (Len(base) + 1)..(Len(base) + Len(a)) : (base \o a)[j] = a[j - Len(base)]
      <4>1. a \in Seq(C)
        BY <1>1
      <4> QED BY <4>1, Joined, Zenon
    <3> QED BY <1>16, <3>1
  <2>1. /\ u \in Seq(C) /\ Len(u) = Len(base) + i
        /\ \A j \in 1..Len(base) : u[j] = base[j]
        /\ \A j \in (Len(base) + 1)..(Len(base) + i) : u[j] = a[j - Len(base)]
    <3> QED BY <1>1, <2>0
  <2>2. Len(base) \in Nat
    OBVIOUS
  <2>3. \A j \in (Len(base) + 1)..(Len(base) + i) : j - Len(base) \in 1..i
    BY <2>2
  <2> QED BY <1>1, <2>1, <2>3
<1>5. Len(base) \in Nat /\ Len(path) \in Nat
  OBVIOUS
<1>15. /\ u \o z \in Seq(C) /\ Len(u \o z) = Len(base) + i + Len(z)
       /\ \A j \in 1..(Len(base) + i) : (u \o z)[j] = u[j]
       /\ \A j \in (Len(base) + i + 1)..(Len(base) + i + Len(z)) : (u \o z)[j] = z[j - (Len(base) + i)]
  <2>1. /\ u \o z \in Seq(C) /\ Len(u \o z) = Len(u) + Len(z)
        /\ \A j \in 1..Len(u) : (u \o z)[j] = u[j]
        /\ \A j \in (Len(u) + 1)..(Len(u) + Len(z)) : (u \o z)[j] = z[j - Len(u)]
    BY <1>3, <1>4, Joined, Zenon
  <2> DEFINE uz == u \o z
  <2> HIDE DEF uz
  <2>2. Len(u) = Len(base) + i
    BY <1>3
  <2> QED BY <2>1, <2>2
<1>6. \A j \in 1..Len(u) : u[j] = q[j]
  <2> TAKE j \in 1..Len(u)
  <2>1. CASE j \in 1..Len(base)
    BY <1>2, <1>3, <2>1
  <2>2. CASE j \notin 1..Len(base)
    <3>1. j \in (Len(base) + 1)..(Len(base) + i) /\ j \in (Len(base) + 1)..(Len(base) + Len(path))
      BY <1>3, <1>5, <2>2
    <3> QED BY <1>2, <1>3, <3>1
  <2> QED BY <2>1, <2>2
<1>7. u \preceq q
  BY <1>2, <1>3, <1>5, <1>6 DEF \preceq
<1>8. i = Len(path) => u = q
  BY <1>2, <1>3, <1>5, <1>6
<1>9. i < Len(path) => u \prec q /\ path[i + 1] = After(u, q)
  <2> HAVE i < Len(path)
  <2>1. Len(u) + 1 \in (Len(base) + 1)..(Len(base) + Len(path)) /\ Len(u) + 1 - Len(base) = i + 1
    BY <1>3, <1>5
  <2>2. After(u, q) = path[i + 1]
    BY <1>2, <2>1 DEF After
  <2>3. Len(u) # Len(q)
    BY <1>2, <1>3, <1>5
  <2> QED BY <1>7, <2>2, <2>3 DEF \prec
<1>10. 0 < i => base \prec u
  <2> HAVE 0 < i
  <2>1. Len(base) # Len(u) /\ Len(base) <= Len(u)
    BY <1>3, <1>5
  <2> QED BY <1>3, <2>1 DEF \prec, \preceq
<1>11. SubSeq(q, 1, Len(q) - (Len(path) - i)) = u
  <2>1. Len(q) - (Len(path) - i) = Len(u) /\ Len(u) \in 0..Len(q)
    BY <1>2, <1>3, <1>5
  <2>2. SubSeq(q, 1, Len(u)) = u
    BY <1>2, <1>3, <1>6, <2>1
  <2> QED BY <2>1, <2>2
<1>12. z = <<>> <=> i = Len(path)
  BY <1>4, <1>5
<1>13. i < Len(path) => z[1] = After(u, q)
  BY <1>4, <1>5, <1>9
<1>14. q = u \o z
  <2>1. Len(u \o z) = Len(q)
    BY <1>2, <1>4, <1>5, <1>15
  <2>2. ASSUME NEW j \in 1..Len(q) PROVE q[j] = (u \o z)[j]
    <3>1. CASE j <= Len(base) + i
      BY <1>2, <1>3, <1>5, <1>6, <1>15, <3>1
    <3>2. CASE j > Len(base) + i
      <4>1. /\ j \in (Len(base) + i + 1)..(Len(base) + i + Len(z))
            /\ j \in (Len(base) + 1)..(Len(base) + Len(path))
            /\ j - (Len(base) + i) \in 1..(Len(path) - i)
            /\ i + (j - (Len(base) + i)) = j - Len(base)
        BY <1>2, <1>4, <1>5, <3>2
      <4> QED BY <1>2, <1>4, <1>15, <4>1
    <3>3. j \in Nat
      BY <1>2, <1>5
    <3>4. j <= Len(base) + i \/ j > Len(base) + i
      BY <1>5, <3>3
    <3> QED BY <3>1, <3>2, <3>4, Zenon
  <2> QED BY <1>2, <1>15, <2>1, <2>2, SMTT(30)
<1> QED BY <1>2, <1>3, <1>4, <1>7, <1>8, <1>9, <1>10, <1>11, <1>12, <1>13, <1>14, Zenon DEF q, u, z, PartsOf

Common(a, b, i) ==
    /\ i \in Nat /\ i <= Len(a) /\ i <= Len(b)
    /\ SubSeq(a, 1, i) = SubSeq(b, 1, i)
    /\ i = Len(a) \/ i = Len(b) \/ a[i + 1] # b[i + 1]

LEMMA CommonPrefix ==
    ASSUME NEW C, NEW a \in Seq(C), NEW b \in Seq(C)
    PROVE  Common(a, b, Radix!commonPrefixLen(a, b))
<1> DEFINE stops == {i \in Nat : i = Len(a) \/ i = Len(b) \/ a[i + 1] # b[i + 1]}
<1>1. Len(a) \in Nat /\ Len(b) \in Nat
  OBVIOUS
<1>2. stops \in SUBSET Nat /\ Len(a) \in stops /\ Len(b) \in stops
  BY <1>1
<1>3. PICK m \in stops : \A x \in stops : m <= x
  <2> HIDE DEF stops
  <2> QED BY <1>2, LeastNat
<1>4. m \in Nat /\ m <= Len(a) /\ m <= Len(b)
  BY <1>2, <1>3
<1>5. \A j \in 1..m : a[j] = b[j]
  <2> SUFFICES ASSUME NEW j \in 1..m, a[j] # b[j] PROVE FALSE
    OBVIOUS
  <2>1. j - 1 \in Nat /\ a[(j - 1) + 1] # b[(j - 1) + 1]
    BY <1>4
  <2>2. j - 1 \in stops
    BY <2>1
  <2> HIDE DEF stops
  <2> QED BY <1>3, <1>4, <2>2
<1>6. SubSeq(a, 1, m) = SubSeq(b, 1, m)
  BY <1>1, <1>4, <1>5
<1>7. m = Len(a) \/ m = Len(b) \/ a[m + 1] # b[m + 1]
  BY <1>3
<1>8. m \in 0..Len(a)
  BY <1>1, <1>4
<1>9. \E i \in 0..Len(a) : /\ i <= Len(b) /\ SubSeq(a, 1, i) = SubSeq(b, 1, i)
                           /\ i = Len(a) \/ i = Len(b) \/ a[i + 1] # b[i + 1]
  BY <1>4, <1>6, <1>7, <1>8
<1>10. LET i == Radix!commonPrefixLen(a, b)
       IN  /\ i \in 0..Len(a) /\ i <= Len(b) /\ SubSeq(a, 1, i) = SubSeq(b, 1, i)
           /\ i = Len(a) \/ i = Len(b) \/ a[i + 1] # b[i + 1]
  BY <1>9, Zenon DEF Radix!commonPrefixLen
<1> QED BY <1>1, <1>10 DEF Common

LEMMA PartsCut ==
    ASSUME NEW C, NEW base \in Seq(C), NEW path \in Seq(C), NEW i \in Nat, i <= Len(path)
    PROVE  SubSeq(base \o path, 1, Len(base \o path) - (Len(path) - i)) = Stem(base, path, i)
<1>1. PartsOf(C, base, path, i)
  BY Parts
<1> QED BY <1>1, Zenon DEF PartsOf

LEMMA PartsRest ==
    ASSUME NEW C, NEW base \in Seq(C), NEW path \in Seq(C), NEW i \in Nat, i <= Len(path)
    PROVE  /\ Radix!From(path, i + 1) \in Seq(C)
           /\ (Radix!From(path, i + 1) = <<>>) <=> (i = Len(path))
           /\ i # Len(path) => Radix!From(path, i + 1)[1] = After(Stem(base, path, i), base \o path)
           /\ base \o path = Stem(base, path, i) \o Radix!From(path, i + 1)
<1>1. i # Len(path) => i < Len(path)
  OBVIOUS
<1>2. PartsOf(C, base, path, i)
  BY Parts
<1> QED BY <1>1, <1>2, Zenon DEF PartsOf

LEMMA PartsStem ==
    ASSUME NEW C, NEW base \in Seq(C), NEW path \in Seq(C), NEW i \in Nat, i <= Len(path)
    PROVE  /\ Stem(base, path, i) \in Seq(C) /\ base \o path \in Seq(C)
           /\ Stem(base, path, i) \preceq base \o path
           /\ i = Len(path) => Stem(base, path, i) = base \o path
           /\ i # Len(path) => /\ Stem(base, path, i) \prec base \o path
                               /\ path[i + 1] = After(Stem(base, path, i), base \o path)
           /\ i # 0 => base \prec Stem(base, path, i)
<1>1. (i # Len(path) => i < Len(path)) /\ (i # 0 => 0 < i)
  OBVIOUS
<1>2. PartsOf(C, base, path, i)
  BY Parts
<1> QED BY <1>1, <1>2, Zenon DEF PartsOf

LEMMA NodeTypes ==
    ASSUME NEW C, NEW T \in Seq(Node(C)), NEW i \in 1..Len(T)
    PROVE  /\ T[i] \in Node(C)
           /\ T[i].path \in Seq(C) /\ T[i].fullpath \in Seq(C) /\ T[i].end \in BOOLEAN
           /\ T[i].children \in Seq(Nat) /\ T[i].totalSize \in Int /\ T[i].keyCount \in Int
           /\ FullOf(T)[i] = T[i].fullpath
           /\ KidsOf(T)[i] = Elements(T[i].children)
<1>1. T[i] \in Node(C) /\ i \in DOMAIN T
  OBVIOUS
<1> QED BY <1>1 DEF Node, FullOf, KidsOf

LEMMA Hanging ==
    ASSUME NEW C, NEW T, Built(C, T), NEW p \in 1..Len(T), NEW q \in KidsOf(T)[p]
    PROVE  /\ q \in 1..Len(T)
           /\ T[q].path \in Seq(C) /\ T[q].path # <<>> /\ T[p].fullpath \in Seq(C) /\ T[q].fullpath \in Seq(C)
           /\ T[q].fullpath = T[p].fullpath \o T[q].path
           /\ Len(T[q].path) \in Nat /\ Len(T[q].path) <= Len(T[q].fullpath)
           /\ T[p].fullpath \prec T[q].fullpath
           /\ T[q].path[1] = After(T[p].fullpath, T[q].fullpath)
<1>1. /\ T \in Seq(Node(C)) /\ KidsOf(T) \in [1..Len(T) -> SUBSET (1..Len(T))]
      /\ Hangs(T, p, q)
  BY DEF Built, Tree
<1>2. q \in 1..Len(T)
  <2>1. KidsOf(T)[p] \in SUBSET (1..Len(T))
    BY <1>1, Zenon
  <2> QED BY <2>1
<1>3. T[q].path \in Seq(C) /\ T[p].fullpath \in Seq(C) /\ T[q].fullpath \in Seq(C)
  BY <1>1, <1>2, NodeTypes
<1>4. T[q].path # <<>> /\ T[q].fullpath = T[p].fullpath \o T[q].path
  BY <1>1 DEF Hangs
<1> DEFINE a == T[p].fullpath
           b == T[q].path
           c == T[q].fullpath
<1> HIDE DEF a, b, c
<1>5. /\ a \in Seq(C) /\ b \in Seq(C) /\ c \in Seq(C) /\ b # <<>> /\ c = a \o b
  BY <1>3, <1>4 DEF a, b, c
<1>6. Len(a) \in Nat /\ Len(b) \in Nat \ {0} /\ Len(c) = Len(a) + Len(b)
  BY <1>5
<1>7. (\A j \in 1..Len(a) : c[j] = a[j])
      /\ \A j \in (Len(a) + 1)..(Len(a) + Len(b)) : c[j] = b[j - Len(a)]
  BY <1>5, Joined
<1>8. a \prec c
  BY <1>6, <1>7 DEF \prec, \preceq
<1>9. b[1] = After(a, c)
  BY <1>6, <1>7 DEF After
<1>10. b \in Seq(C) /\ Len(b) \in Nat /\ Len(b) <= Len(c)
  BY <1>5, <1>6
<1> QED BY <1>2, <1>3, <1>4, <1>8, <1>9, <1>10, Zenon DEF a, b, c

Hung(C, T, p, q) ==
    /\ q \in 1..Len(T) /\ T[p].fullpath \prec T[q].fullpath
    /\ T[q].path[1] = After(T[p].fullpath, T[q].fullpath)

LEMMA HungIs ==
    ASSUME NEW C, NEW T, Built(C, T), NEW p \in 1..Len(T), NEW q \in KidsOf(T)[p]
    PROVE  Hung(C, T, p, q)
BY Hanging DEF Hung

LEMMA ElementsOf ==
    ASSUME NEW x
    PROVE  Elements(<<x>>) = {x} /\ Elements(<<>>) = {}
BY DEF Elements

Inside(T, q, i) == 0 < i /\ i < Len(T[q].path)

LEMMA SplitBuilt ==
    ASSUME NEW C, NEW T, Built(C, T), NEW p \in 1..Len(T), NEW q \in KidsOf(T)[p],
           NEW i \in Nat, Inside(T, q, i)
    PROVE  LET S == Radix!Split(T, q, i)
               u == Stem(T[p].fullpath, T[q].path, i)
           IN  /\ Built(C, S) /\ Len(S) = Len(T) + 1
               /\ FullOf(S) = SplitF(Len(T), FullOf(T), q, u)
               /\ KidsOf(S) = SplitK(Len(T), KidsOf(T), q)
<1> DEFINE S == Radix!Split(T, q, i)
           n == Len(T)
           a == T[p].fullpath
           b == T[q].path
           u == Stem(a, b, i)
           z == Radix!From(b, i + 1)
<1>1. /\ T \in Seq(Node(C)) /\ n \in Nat \ {0} /\ T[1].path = <<>>
      /\ Tree(C, n, FullOf(T), KidsOf(T))
      /\ \A j \in 1..n : \A c \in KidsOf(T)[j] : Hangs(T, j, c)
  BY DEF Built, Tree
<1>2. /\ q \in 1..n /\ b \in Seq(C) /\ a \in Seq(C) /\ T[q].fullpath \in Seq(C)
      /\ T[q].fullpath = a \o b /\ Len(b) \in Nat /\ Len(b) <= Len(T[q].fullpath)
  BY Hanging, Zenon
<1>20. i <= Len(b) /\ i < Len(b) /\ 0 < i
  BY <1>2 DEF Inside
<1>21. T \in Seq(Node(C)) /\ q \in 1..Len(T) /\ i <= Len(T[q].path) /\ Len(T[q].path) <= Len(T[q].fullpath)
  BY <1>1, <1>2, <1>20
<1>22. a \in Seq(C) /\ b \in Seq(C) /\ i <= Len(b) /\ i < Len(b) /\ i # Len(b) /\ 0 < i /\ T[q].fullpath = a \o b
  BY <1>2, <1>20
<1>3. /\ S \in Seq(Node(C)) /\ Len(S) = n + 1
      /\ \A j \in 1..n : j # q => S[j] = T[j]
      /\ S[n + 1] = Radix!NewNode(z, T[q].fullpath, T[q].end, T[q].children,
                                  T[q].totalSize, T[q].keyCount)
      /\ S[q].path = SubSeq(b, 1, i) /\ S[q].children = <<n + 1>>
      /\ S[q].fullpath = SubSeq(T[q].fullpath, 1, Len(T[q].fullpath) - (Len(b) - i))
  <2>1. S \in Seq(Node(C)) /\ Len(S) = n + 1
    BY <1>21, SplitIs, ZenonT(30)
  <2>2. \A j \in 1..n : j # q => S[j] = T[j]
    BY <1>21, SplitIs, ZenonT(30)
  <2>3. S[n + 1] = Radix!NewNode(z, T[q].fullpath, T[q].end, T[q].children,
                                  T[q].totalSize, T[q].keyCount)
    BY <1>21, SplitIs, ZenonT(30)
  <2>4. S[q].path = SubSeq(b, 1, i) /\ S[q].children = <<n + 1>>
    BY <1>21, SplitIs, ZenonT(30)
  <2>5. S[q].fullpath = SubSeq(T[q].fullpath, 1, Len(T[q].fullpath) - (Len(b) - i))
    BY <1>21, SplitIs, ZenonT(30)
  <2> QED BY <2>1, <2>2, <2>3, <2>4, <2>5
<1>4. /\ S[n + 1].path = z /\ S[n + 1].fullpath = T[q].fullpath
      /\ S[n + 1].children = T[q].children
  BY <1>3 DEF Radix!NewNode
<1>5. /\ S[q].path = SubSeq(b, 1, i) /\ S[q].children = <<n + 1>>
      /\ S[q].fullpath = SubSeq(T[q].fullpath, 1, Len(T[q].fullpath) - (Len(b) - i))
  BY <1>3
<1> HIDE DEF S
<1>6. /\ u \in Seq(C) /\ a \prec u /\ u \prec T[q].fullpath
      /\ SubSeq(T[q].fullpath, 1, Len(T[q].fullpath) - (Len(b) - i)) = u
      /\ z \in Seq(C) /\ z # <<>> /\ T[q].fullpath = u \o z
  <2>0. i # Len(b) /\ i # 0
    BY <1>22
  <2>1. u \in Seq(C) /\ a \prec u /\ u \prec a \o b
    BY <1>22, <2>0, PartsStem, Zenon
  <2>2. SubSeq(a \o b, 1, Len(a \o b) - (Len(b) - i)) = u
    BY <1>22, PartsCut, Zenon
  <2>3. z \in Seq(C) /\ z # <<>> /\ a \o b = u \o z
  <3>1. PartsOf(C, a, b, i)
      BY <1>22, Parts
    <3> QED BY <1>22, <2>0, <3>1, Zenon DEF PartsOf
  <2> QED BY <1>22, <2>1, <2>2, <2>3
<1> HIDE DEF u, z
<1>7. \A j \in 1..n : FullOf(T)[j] = T[j].fullpath /\ KidsOf(T)[j] = Elements(T[j].children)
  BY <1>1, NodeTypes
<1>8. \A j \in 1..(n + 1) : FullOf(S)[j] = S[j].fullpath /\ KidsOf(S)[j] = Elements(S[j].children)
  BY <1>3, NodeTypes
<1>9. 1..(n + 1) = 1..n \cup {n + 1} /\ n + 1 \notin 1..n
  BY <1>1
<1>10. FullOf(S) = SplitF(n, FullOf(T), q, u)
  <2>1. \A j \in 1..(n + 1) : FullOf(S)[j] = IF j = q THEN u ELSE IF j = n + 1 THEN FullOf(T)[q]
                                                             ELSE FullOf(T)[j]
    <3> TAKE j \in 1..(n + 1)
    <3>0. FullOf(S)[j] = S[j].fullpath /\ FullOf(T)[q] = T[q].fullpath
      BY <1>2, <1>7, <1>8
    <3>1. CASE j = q
      BY <1>5, <1>6, <3>0, <3>1
    <3>2. CASE j = n + 1
      BY <1>2, <1>4, <1>9, <3>0, <3>2
    <3>3. CASE j \in 1..n /\ j # q
      BY <1>3, <1>7, <1>9, <3>0, <3>3
    <3> QED BY <1>9, <3>1, <3>2, <3>3
  <2>2. FullOf(S) = [j \in 1..(n + 1) |-> FullOf(S)[j]]
    BY <1>3 DEF FullOf
  <2> QED BY <2>1, <2>2, Zenon DEF SplitF
<1>11. KidsOf(S) = SplitK(n, KidsOf(T), q)
  <2>1. \A j \in 1..(n + 1) : KidsOf(S)[j] = IF j = q THEN {n + 1} ELSE IF j = n + 1 THEN KidsOf(T)[q]
                                                             ELSE KidsOf(T)[j]
    <3> TAKE j \in 1..(n + 1)
    <3>0. KidsOf(S)[j] = Elements(S[j].children) /\ KidsOf(T)[q] = Elements(T[q].children)
      BY <1>2, <1>7, <1>8
    <3>1. CASE j = q
      BY <1>5, <3>0, <3>1, ElementsOf
    <3>2. CASE j = n + 1
      BY <1>2, <1>4, <1>9, <3>0, <3>2
    <3>3. CASE j \in 1..n /\ j # q
      BY <1>3, <1>7, <1>9, <3>0, <3>3
    <3> QED BY <1>9, <3>1, <3>2, <3>3
  <2>2. KidsOf(S) = [j \in 1..(n + 1) |-> KidsOf(S)[j]]
    BY <1>3 DEF KidsOf
  <2> QED BY <2>1, <2>2, Zenon DEF SplitK
<1>12. Tree(C, n + 1, FullOf(S), KidsOf(S))
  <2>1. FullOf(T)[p] \prec u /\ u \prec FullOf(T)[q]
    BY <1>2, <1>6, <1>7
  <2> QED BY <1>1, <1>6, <1>10, <1>11, <2>1, SplitTree
<1>13. S[1].path = <<>>
  <2>1. T[1].fullpath = <<>> /\ T[q].fullpath # <<>>
    <3>1. FullOf(T)[1] = <<>>
      BY <1>1 DEF Tree
    <3>2. \A x, y \in Nat : 0 < i /\ i < x /\ x <= y => 0 < y
      OBVIOUS
    <3>3. Len(T[q].fullpath) \in Nat
      <4>1. T[q].fullpath \in Seq(C)
        BY <1>2
      <4> QED BY <4>1
    <3>4. Len(T[q].fullpath) > 0
      BY <1>2, <1>20, <3>2, <3>3
    <3> QED BY <1>1, <1>7, <3>1, <3>4
  <2> QED BY <1>1, <1>3, <2>1, SMTT(30)
<1>14. ASSUME NEW j \in 1..(n + 1), NEW c \in KidsOf(S)[j]
       PROVE  Hangs(S, j, c)
  <2>1. CASE j = q
    <3>0. KidsOf(S)[q] = Elements(S[q].children)
      BY <1>2, <1>8, <1>9
    <3>1. c = n + 1
      BY <1>5, <1>14, <2>1, <3>0, ElementsOf
    <3> QED BY <1>4, <1>5, <1>6, <2>1, <3>1 DEF Hangs
  <2>2. CASE j = n + 1
    <3>1. c \in KidsOf(T)[q]
      BY <1>2, <1>4, <1>7, <1>8, <1>14, <2>2
    <3>2. Hangs(T, q, c) /\ c \in 1..n /\ c # q
      <4>1. c \in 1..n /\ T[q].fullpath \prec T[c].fullpath
        BY <1>2, <3>1, Hanging
      <4> QED BY <1>1, <1>2, <3>1, <4>1 DEF \prec
    <3> QED BY <1>3, <1>4, <2>2, <3>2 DEF Hangs
  <2>3. CASE j \in 1..n /\ j # q
    <3>1. c \in KidsOf(T)[j] /\ S[j] = T[j]
      BY <1>3, <1>7, <1>8, <1>9, <1>14, <2>3
    <3>2. /\ c \in 1..n /\ T[c].path \in Seq(C) /\ T[c].path # <<>> /\ T[j].fullpath \in Seq(C)
          /\ T[c].fullpath = T[j].fullpath \o T[c].path
      BY <2>3, <3>1, Hanging, ZenonT(30)
    <3>3. CASE c = q
      <4>1. /\ SubSeq(T[q].fullpath, 1, Len(T[q].fullpath) - (Len(b) - i))
                  = Stem(T[j].fullpath, b, i)
        <5>1. T[j].fullpath \in Seq(C) /\ T[q].fullpath = T[j].fullpath \o b
          BY <3>2, <3>3, Zenon
        <5>2. SubSeq(T[j].fullpath \o b, 1, Len(T[j].fullpath \o b) - (Len(b) - i)) = Stem(T[j].fullpath, b, i)
          BY <1>22, <5>1, PartsCut, Zenon
        <5> QED BY <5>1, <5>2
      <4>2. SubSeq(b, 1, i) # <<>>
        <5>1. Len(SubSeq(b, 1, i)) = i
          BY <1>22
        <5>2. Len(<<>>) = 0
          OBVIOUS
        <5>3. i # 0
          BY <1>22
        <5> QED BY <5>1, <5>2, <5>3, Zenon
      <4> QED BY <1>5, <3>1, <3>3, <4>1, <4>2 DEF Hangs, Stem
    <3>4. CASE c # q
      BY <1>3, <3>1, <3>2, <3>4 DEF Hangs
    <3> QED BY <3>3, <3>4
  <2> QED BY <1>9, <2>1, <2>2, <2>3
<1>15. Built(C, S)
  BY <1>3, <1>12, <1>13, <1>14 DEF Built
<1> QED BY <1>3, <1>10, <1>11, <1>15 DEF S, u

-----------------------------------------------------------------------------
(* The words the tree holds.                                               *)

WordSet(C, W) == /\ IsFiniteSet(W)
                 /\ \A x \in W : x[1] \in Seq(C) /\ x[2] \in Int

LEMMA PrefixIs ==
    ASSUME NEW C, NEW p \in Seq(C), NEW w \in Seq(C)
    PROVE  IsPrefix(p, w) <=> p \preceq w
<1>1. Len(p) \in Nat /\ Len(w) \in Nat
  OBVIOUS
<1>2. CASE Len(p) <= Len(w)
  <2>1. SubSeq(p, 1, Len(p)) = p
    OBVIOUS
  <2>2. SubSeq(w, 1, Len(p)) \in Seq(C) /\ Len(SubSeq(w, 1, Len(p))) = Len(p)
        /\ \A i \in 1..Len(p) : SubSeq(w, 1, Len(p))[i] = w[i]
    BY <1>1, <1>2
  <2>3. (p = SubSeq(w, 1, Len(p))) <=> \A i \in 1..Len(p) : p[i] = w[i]
    BY <2>2
  <2> QED BY <1>2, <2>1, <2>3 DEF IsPrefix, \preceq
<1>3. CASE ~(Len(p) <= Len(w))
  BY <1>3 DEF IsPrefix, \preceq
<1> QED BY <1>2, <1>3

LEMMA BelowIs ==
    ASSUME NEW C, NEW W, WordSet(C, W), NEW p \in Seq(C)
    PROVE  /\ Radix!Below(p, W) = {x \in W : p \preceq x[1]}
           /\ IsFiniteSet(Radix!Below(p, W))
           /\ WordSizes(Radix!Below(p, W)) \in Int
           /\ Cardinality(Radix!Below(p, W)) \in Nat
<1>1. \A x \in W : IsPrefix(p, x[1]) <=> p \preceq x[1]
  <2> TAKE x \in W
  <2>1. x[1] \in Seq(C)
    BY DEF WordSet
  <2> QED BY <2>1, PrefixIs
<1>2. Radix!Below(p, W) = {x \in W : p \preceq x[1]}
  BY <1>1, Zenon DEF Radix!Below, Radix!IsPrefix, IsPrefix
<1> DEFINE B == Radix!Below(p, W)
<1>3. B \subseteq W
  BY <1>2
<1>4. IsFiniteSet(B)
  BY <1>3, FS_Subset, Zenon DEF WordSet
<1>5. \A x \in B : x[2] \in Int
  BY <1>3 DEF WordSet
<1> HIDE DEF B
<1>6. WordSizes(B) \in Int
  BY <1>4, <1>5, WordSizesType
<1>7. Cardinality(B) \in Nat
  BY <1>4, FS_CardinalityType
<1> QED BY <1>2, <1>4, <1>6, <1>7 DEF B

(* What a node says of the words below it, and of more words of this size. *)
Weighs(node, W, size, count) ==
    /\ node.totalSize = WordSizes(Radix!Below(node.fullpath, W)) + size
    /\ node.keyCount = Cardinality(Radix!Below(node.fullpath, W)) + count
    /\ node.end = Radix!IsWord(node.fullpath, W)

(* The nodes above p have counted a word of this size already. *)
Counts(T, W, size, p) ==
    \A j \in 1..Len(T) : /\ T[j].fullpath \prec p => Weighs(T[j], W, size, 1)
                         /\ ~(T[j].fullpath \prec p) => Weighs(T[j], W, 0, 0)

HasWords(T, W) == \A x \in W : \E j \in 1..Len(T) : T[j].fullpath = x[1]

LEMMA SplitCounts ==
    ASSUME NEW C, NEW W, WordSet(C, W), NEW size,
           NEW T, Built(C, T), HasWords(T, W), NEW p \in 1..Len(T), NEW q \in KidsOf(T)[p],
           NEW i \in Nat, Inside(T, q, i), Counts(T, W, size, T[q].fullpath)
    PROVE  /\ Counts(Radix!Split(T, q, i), W, size, Stem(T[p].fullpath, T[q].path, i))
           /\ HasWords(Radix!Split(T, q, i), W)
<1> DEFINE S == Radix!Split(T, q, i)
           n == Len(T)
           u == Stem(T[p].fullpath, T[q].path, i)
           F == FullOf(T)
           K == KidsOf(T)
<1>1. Built(C, S) /\ Len(S) = n + 1 /\ FullOf(S) = SplitF(n, F, q, u)
  BY SplitBuilt, Zenon
<1>2. /\ T \in Seq(Node(C)) /\ n \in Nat \ {0} /\ Tree(C, n, F, K)
      /\ S \in Seq(Node(C))
  BY <1>1 DEF Built, Tree
<1>3. /\ q \in 1..n /\ T[q].path \in Seq(C) /\ T[p].fullpath \in Seq(C)
      /\ T[q].fullpath = T[p].fullpath \o T[q].path
      /\ Len(T[q].path) \in Nat /\ Len(T[q].path) <= Len(T[q].fullpath)
  BY Hanging, Zenon
<1>4. i <= Len(T[q].path) /\ i # Len(T[q].path) /\ i # 0
  BY <1>3 DEF Inside
<1>5. /\ u \in Seq(C) /\ T[p].fullpath \prec u /\ u \prec T[q].fullpath
  <2>1. u \in Seq(C) /\ T[p].fullpath \prec u /\ u \prec T[p].fullpath \o T[q].path
    BY <1>3, <1>4, PartsStem, Zenon
  <2> QED BY <1>3, <2>1
<1>6. /\ \A j \in 1..n : j # q => S[j] = T[j]
      /\ S[n + 1] = Radix!NewNode(Radix!From(T[q].path, i + 1), T[q].fullpath, T[q].end,
                                  T[q].children, T[q].totalSize, T[q].keyCount)
      /\ S[q].end = FALSE
      /\ S[q].totalSize = T[q].totalSize /\ S[q].keyCount = T[q].keyCount
  <2>0. T \in Seq(Node(C)) /\ q \in 1..Len(T) /\ i <= Len(T[q].path) /\ Len(T[q].path) <= Len(T[q].fullpath)
    BY <1>2, <1>3, <1>4
  <2>1. \A j \in 1..n : j # q => S[j] = T[j]
    BY <2>0, SplitIs
  <2>2. S[n + 1] = Radix!NewNode(Radix!From(T[q].path, i + 1), T[q].fullpath, T[q].end,
                                  T[q].children, T[q].totalSize, T[q].keyCount)
    BY <2>0, SplitIs
  <2>3. S[q].end = FALSE /\ S[q].totalSize = T[q].totalSize /\ S[q].keyCount = T[q].keyCount
    BY <2>0, SplitIs
  <2> QED BY <2>1, <2>2, <2>3
<1>7. /\ S[n + 1].fullpath = T[q].fullpath /\ S[n + 1].end = T[q].end
      /\ S[n + 1].totalSize = T[q].totalSize /\ S[n + 1].keyCount = T[q].keyCount
  BY <1>6 DEF Radix!NewNode
<1>17. \A m \in Nat : 1..(m + 1) = 1..m \cup {m + 1} /\ m + 1 \notin 1..m
  OBVIOUS
<1>8. 1..(n + 1) = 1..n \cup {n + 1} /\ n + 1 \notin 1..n
  BY <1>2, <1>17
<1>18. n \in Nat /\ Len(S) = n + 1
  BY <1>1, <1>2
<1> HIDE DEF S, u
<1>9. S[q].fullpath = u
  <2>1. FullOf(S)[q] = S[q].fullpath
    BY <1>2, <1>3, <1>8, <1>18, NodeTypes
  <2>2. SplitF(n, F, q, u)[q] = u
    BY <1>3, <1>8 DEF SplitF
  <2> QED BY <1>1, <2>1, <2>2
<1> DEFINE v == T[q].fullpath
<1>10. v \in Seq(C) /\ F[q] = v /\ F[p] = T[p].fullpath /\ p \in 1..n
       /\ \A j \in 1..n : F[j] = T[j].fullpath /\ T[j].fullpath \in Seq(C)
  BY <1>2, <1>3, NodeTypes
<1>11. \A j \in 1..n : /\ T[j].fullpath # u /\ (u \preceq T[j].fullpath => v \preceq T[j].fullpath)
                       /\ j # q => (T[j].fullpath \prec u <=> T[j].fullpath \prec v)
  <2> TAKE j \in 1..n
  <2>1. ~Between(n, F, F[p], F[q]) /\ F[p] \prec F[q]
    BY <1>2, <1>10 DEF Tree
  <2>2. ~(F[p] \prec F[j] /\ F[j] \prec F[q])
    BY <2>1, Zenon DEF Between
  <2>3. T[j].fullpath # u
    BY <1>5, <1>10, <2>2
  <2>4. After(F[p], u) = After(F[p], F[q])
    BY <1>5, <1>10, PreAfter DEF \prec
  <2>5. ASSUME u \preceq F[j] PROVE F[q] \preceq F[j]
    BY <1>2, <1>5, <1>10, <2>4, <2>5, GoesThrough
  <2>6. ASSUME F[j] \prec u PROVE F[j] \prec F[q]
    BY <1>5, <1>10, <2>6, WordOrder DEF \prec
  <2>7. ASSUME F[j] \prec F[q] PROVE F[j] \prec u
    <3>1. ~(F[p] \prec F[j])
      BY <2>2, <2>7
    <3>2. F[j] \preceq F[p]
      <4>1. F[j] \preceq F[q] /\ F[p] \preceq F[q]
        BY <2>1, <2>7 DEF \prec
      <4>2. F[j] \preceq F[p] \/ F[p] \preceq F[j]
        BY <1>10, <4>1, WordOrder
      <4>3. F[p] \preceq F[p]
        BY <1>10, WordOrder
      <4> QED BY <3>1, <4>2, <4>3 DEF \prec
    <3> QED BY <1>5, <1>10, <3>2, WordOrder DEF \prec
  <2> QED BY <1>10, <2>3, <2>5, <2>6, <2>7
<1>12. Radix!Below(u, W) = Radix!Below(v, W)
  <2>1. \A x \in W : u \preceq x[1] <=> v \preceq x[1]
    <3> TAKE x \in W
    <3>1. PICK j \in 1..n : T[j].fullpath = x[1]
      BY DEF HasWords
    <3>2. u \preceq x[1] => v \preceq x[1]
      BY <1>11, <3>1
    <3>3. v \preceq x[1] => u \preceq x[1]
      BY <1>5, <1>10, <3>1, WordOrder DEF \prec
    <3> QED BY <3>2, <3>3
  <2>2. Radix!Below(u, W) = {x \in W : u \preceq x[1]} /\ Radix!Below(v, W) = {x \in W : v \preceq x[1]}
    BY <1>5, <1>10, BelowIs
  <2> QED BY <2>1, <2>2
<1>13. ~Radix!IsWord(u, W)
  <2>1. \A x \in W : x[1] # u
    BY <1>11 DEF HasWords
  <2> QED BY <2>1 DEF Radix!IsWord
<1>14. ~(v \prec v) /\ ~(u \prec u) /\ ~(v \prec u)
  BY <1>5, <1>10, WordOrder DEF \prec
<1>15. Weighs(T[q], W, 0, 0)
  BY <1>3, <1>14, Zenon DEF Counts
<1>16. ASSUME NEW j \in 1..(n + 1) 
       PROVE  /\ S[j].fullpath \prec u => Weighs(S[j], W, size, 1)
              /\ ~(S[j].fullpath \prec u) => Weighs(S[j], W, 0, 0)
  <2>1. CASE j = q
    <3>1. Weighs(S[q], W, 0, 0)
      <4>1. /\ S[q].totalSize = WordSizes(Radix!Below(u, W)) + 0
            /\ S[q].keyCount = Cardinality(Radix!Below(u, W)) + 0
        BY <1>6, <1>12, <1>15 DEF Weighs
      <4>2. Radix!IsWord(u, W) \in BOOLEAN
        BY DEF Radix!IsWord
      <4>3. S[q].end = Radix!IsWord(u, W)
        BY <1>6, <1>13, <4>2, Zenon
      <4> QED BY <1>9, <4>1, <4>3 DEF Weighs
    <3> QED BY <1>9, <1>14, <2>1, <3>1
  <2>2. CASE j = n + 1
    <3>1. Weighs(S[n + 1], W, 0, 0)
      BY <1>7, <1>15 DEF Weighs
    <3> QED BY <1>7, <1>14, <2>2, <3>1
  <2>3. CASE j \in 1..n /\ j # q
    <3>1. /\ S[j] = T[j]
          /\ T[j].fullpath \prec v => Weighs(T[j], W, size, 1)
          /\ ~(T[j].fullpath \prec v) => Weighs(T[j], W, 0, 0)
      BY <1>6, <2>3, Zenon DEF Counts
    <3>2. T[j].fullpath \prec u <=> T[j].fullpath \prec v
      BY <1>11, <2>3
    <3> QED BY <3>1, <3>2
  <2> QED BY <1>8, <2>1, <2>2, <2>3
<1>19. HasWords(S, W)
  <2> SUFFICES ASSUME NEW x \in W PROVE \E j \in 1..(n + 1) : S[j].fullpath = x[1]
    BY <1>18 DEF HasWords
  <2>1. PICK j \in 1..n : T[j].fullpath = x[1]
    BY DEF HasWords
  <2>2. CASE j = q
    BY <1>7, <1>8, <2>1, <2>2
  <2>3. CASE j # q
    BY <1>6, <1>8, <2>1, <2>3
  <2> QED BY <2>2, <2>3
<1> QED BY <1>16, <1>18, <1>19 DEF S, u, Counts

(* Changes of the counters and marks leave the shape alone. *)
SameShape(T, R) ==
    /\ Len(R) = Len(T)
    /\ \A j \in 1..Len(T) : /\ R[j].path = T[j].path /\ R[j].fullpath = T[j].fullpath
                            /\ R[j].children = T[j].children

LEMMA SameBuilt ==
    ASSUME NEW C, NEW T, Built(C, T), NEW R \in Seq(Node(C)), SameShape(T, R)
    PROVE  Built(C, R) /\ FullOf(R) = FullOf(T) /\ KidsOf(R) = KidsOf(T)
<1>1. /\ T \in Seq(Node(C)) /\ Len(R) = Len(T) /\ DOMAIN R = 1..Len(T) /\ DOMAIN T = 1..Len(T)
      /\ Len(T) \in Nat \ {0}
  BY DEF SameShape, Built, Tree
<1>2. FullOf(R) = FullOf(T)
  BY <1>1 DEF SameShape, FullOf
<1>3. KidsOf(R) = KidsOf(T)
  BY <1>1 DEF SameShape, KidsOf
<1>4. R[1].path = <<>>
  BY <1>1 DEF SameShape, Built
<1>5. ASSUME NEW i \in 1..Len(R), NEW c \in KidsOf(R)[i] PROVE Hangs(R, i, c)
  <2>1. i \in 1..Len(T) /\ c \in KidsOf(T)[i]
    BY <1>1, <1>3
  <2>2. Hangs(T, i, c) /\ c \in 1..Len(T)
    BY <2>1, Hanging DEF Built
  <2> QED BY <2>1, <2>2 DEF Hangs, SameShape
<1>6. Tree(C, Len(R), FullOf(R), KidsOf(R))
  BY <1>1, <1>2, <1>3 DEF Built
<1> QED BY <1>2, <1>3, <1>4, <1>5, <1>6 DEF Built

LEMMA CountedIs ==
    ASSUME NEW C, NEW T \in Seq(Node(C)), NEW q \in 1..Len(T), NEW size \in Int
    PROVE  /\ Radix!Counted(T, q, size) \in Seq(Node(C)) /\ SameShape(T, Radix!Counted(T, q, size))
           /\ \A j \in 1..Len(T) : j # q => Radix!Counted(T, q, size)[j] = T[j]
           /\ Radix!Counted(T, q, size)[q].totalSize = T[q].totalSize + size
           /\ Radix!Counted(T, q, size)[q].keyCount = T[q].keyCount + 1
           /\ Radix!Counted(T, q, size)[q].end = T[q].end
<1> DEFINE R == Radix!Counted(T, q, size)
           n == Len(T)
<1>1. \A x \in Node(C) : /\ [x EXCEPT !.totalSize = @ + size] \in Node(C)
                         /\ [x EXCEPT !.keyCount = @ + 1] \in Node(C)
  <2> TAKE x \in Node(C)
  <2>1. x.totalSize + size \in Int /\ x.keyCount + 1 \in Int
    BY DEF Node
  <2>2. \A k \in Int : [x EXCEPT !.totalSize = k] \in Node(C) /\ [x EXCEPT !.keyCount = k] \in Node(C)
    BY DEF Node
  <2> QED BY <2>1, <2>2
<1> DEFINE T1 == [T EXCEPT ![q].totalSize = @ + size]
<1>2. T1 = [T EXCEPT ![q] = [T[q] EXCEPT !.totalSize = @ + size]]
  OBVIOUS
<1>3. R = [T1 EXCEPT ![q] = [T1[q] EXCEPT !.keyCount = @ + 1]]
  BY DEF Radix!Counted
<1>4. T[q] \in Node(C)
  OBVIOUS
<1> HIDE DEF T1, R
<1>5. T1 \in Seq(Node(C)) /\ Len(T1) = n /\ T1[q] = [T[q] EXCEPT !.totalSize = @ + size]
      /\ \A j \in 1..n : j # q => T1[j] = T[j]
  <2> DEFINE y == [T[q] EXCEPT !.totalSize = @ + size]
  <2>1. y \in Node(C)
    BY <1>1, <1>4, Zenon
  <2> HIDE DEF y
  <2>2. T1 = [T EXCEPT ![q] = y]
    BY <1>2 DEF y
  <2> QED BY <2>1, <2>2 DEF y
<1>6. T1[q] \in Node(C)
  BY <1>5
<1>7. R \in Seq(Node(C)) /\ Len(R) = n /\ R[q] = [T1[q] EXCEPT !.keyCount = @ + 1]
      /\ \A j \in 1..n : j # q => R[j] = T1[j]
  <2> DEFINE y == [T1[q] EXCEPT !.keyCount = @ + 1]
  <2>1. y \in Node(C)
    BY <1>1, <1>6, Zenon
  <2> HIDE DEF y
  <2>2. R = [T1 EXCEPT ![q] = y]
    BY <1>3 DEF y
  <2> QED BY <1>5, <2>1, <2>2 DEF y
<1>8. \A x \in Node(C), k \in Int :
        /\ [x EXCEPT !.totalSize = @ + k].path = x.path /\ [x EXCEPT !.totalSize = @ + k].fullpath = x.fullpath
        /\ [x EXCEPT !.totalSize = @ + k].children = x.children /\ [x EXCEPT !.totalSize = @ + k].end = x.end
        /\ [x EXCEPT !.totalSize = @ + k].totalSize = x.totalSize + k
        /\ [x EXCEPT !.totalSize = @ + k].keyCount = x.keyCount
        /\ [x EXCEPT !.keyCount = @ + k].path = x.path /\ [x EXCEPT !.keyCount = @ + k].fullpath = x.fullpath
        /\ [x EXCEPT !.keyCount = @ + k].children = x.children /\ [x EXCEPT !.keyCount = @ + k].end = x.end
        /\ [x EXCEPT !.keyCount = @ + k].totalSize = x.totalSize
        /\ [x EXCEPT !.keyCount = @ + k].keyCount = x.keyCount + k
  BY DEF Node
<1>9. /\ T1[q].path = T[q].path /\ T1[q].fullpath = T[q].fullpath /\ T1[q].children = T[q].children
      /\ T1[q].end = T[q].end /\ T1[q].totalSize = T[q].totalSize + size /\ T1[q].keyCount = T[q].keyCount
  BY <1>4, <1>5, <1>8
<1>10. /\ R[q].path = T1[q].path /\ R[q].fullpath = T1[q].fullpath /\ R[q].children = T1[q].children
       /\ R[q].end = T1[q].end /\ R[q].totalSize = T1[q].totalSize /\ R[q].keyCount = T1[q].keyCount + 1
  BY <1>6, <1>7, <1>8
<1>11. \A j \in 1..n : j # q => R[j] = T[j]
  BY <1>5, <1>7
<1>12. SameShape(T, R)
  <2>1. \A j \in 1..n : /\ R[j].path = T[j].path /\ R[j].fullpath = T[j].fullpath
                        /\ R[j].children = T[j].children
    <3> TAKE j \in 1..n
    <3>1. CASE j = q
      BY <1>9, <1>10, <3>1
    <3>2. CASE j # q
      BY <1>11, <3>2
    <3> QED BY <3>1, <3>2
  <2> QED BY <1>7, <2>1 DEF SameShape
<1> QED BY <1>7, <1>9, <1>10, <1>11, <1>12 DEF R, n

Ended(T, q) == [T EXCEPT ![q].end = TRUE]

EndSet(C, T, q) ==
    LET R == Ended(T, q)
    IN  /\ R \in Seq(Node(C)) /\ SameShape(T, R)
        /\ \A j \in 1..Len(T) : j # q => R[j] = T[j]
        /\ R[q].totalSize = T[q].totalSize /\ R[q].keyCount = T[q].keyCount /\ R[q].end = TRUE

LEMMA EndedIs ==
    ASSUME NEW C, NEW T \in Seq(Node(C)), NEW q \in 1..Len(T)
    PROVE  EndSet(C, T, q)
<1> DEFINE R == Ended(T, q)
           n == Len(T)
           y == [T[q] EXCEPT !.end = TRUE]
<1>1. \A x \in Node(C) :
        /\ [x EXCEPT !.end = TRUE] \in Node(C)
        /\ [x EXCEPT !.end = TRUE].path = x.path /\ [x EXCEPT !.end = TRUE].fullpath = x.fullpath
        /\ [x EXCEPT !.end = TRUE].children = x.children /\ [x EXCEPT !.end = TRUE].end = TRUE
        /\ [x EXCEPT !.end = TRUE].totalSize = x.totalSize
        /\ [x EXCEPT !.end = TRUE].keyCount = x.keyCount
  BY DEF Node
<1>2. T[q] \in Node(C)
  OBVIOUS
<1>3. /\ y \in Node(C) /\ y.path = T[q].path /\ y.fullpath = T[q].fullpath
      /\ y.children = T[q].children /\ y.end = TRUE /\ y.totalSize = T[q].totalSize
      /\ y.keyCount = T[q].keyCount
  BY <1>1, <1>2
<1>4. R = [T EXCEPT ![q] = y]
  BY DEF Ended
<1> HIDE DEF R, y
<1>5. R \in Seq(Node(C)) /\ Len(R) = n /\ R[q] = y /\ \A j \in 1..n : j # q => R[j] = T[j]
  BY <1>3, <1>4
<1>6. SameShape(T, R)
  <2>1. \A j \in 1..n : /\ R[j].path = T[j].path /\ R[j].fullpath = T[j].fullpath
                        /\ R[j].children = T[j].children
    <3> TAKE j \in 1..n
    <3>1. CASE j = q
      BY <1>3, <1>5, <3>1
    <3>2. CASE j # q
      BY <1>5, <3>2
    <3> QED BY <3>1, <3>2
  <2> QED BY <1>5, <2>1 DEF SameShape
<1>7. /\ R[q].totalSize = T[q].totalSize /\ R[q].keyCount = T[q].keyCount /\ R[q].end = TRUE
  BY <1>3, <1>5
<1> QED BY <1>5, <1>6, <1>7, Zenon DEF R, n, EndSet

LeafAdded(C, T, k, word, full, size) ==
    LET S == Radix!AddLeaf(T, k, word, full, size)
    IN  /\ S \in Seq(Node(C)) /\ Len(S) = Len(T) + 1
        /\ \A j \in 1..Len(T) : j # k => S[j] = T[j]
        /\ S[Len(T) + 1] = Radix!NewNode(word, full, TRUE, <<>>, size, 1)
        /\ S[k] = [T[k] EXCEPT !.children = Append(@, Len(T) + 1)]

LEMMA AddLeafIs ==
    ASSUME NEW C, NEW T \in Seq(Node(C)), NEW k \in 1..Len(T), NEW word \in Seq(C),
           NEW full \in Seq(C), NEW size \in Int
    PROVE  LeafAdded(C, T, k, word, full, size)
<1> DEFINE n == Len(T)
           leaf == Radix!NewNode(word, full, TRUE, <<>>, size, 1)
           y == [T[k] EXCEPT !.children = Append(@, n + 1)]
           R == [T EXCEPT ![k] = y]
           S == Radix!AddLeaf(T, k, word, full, size)
<1>1. T[k] \in Node(C) /\ n \in Nat
  OBVIOUS
<1>2. leaf \in Node(C)
  BY DEF Radix!NewNode, Node
<1>3. y \in Node(C)
  <2>1. T[k].children \in Seq(Nat)
    BY <1>1 DEF Node
  <2>2. Append(T[k].children, n + 1) \in Seq(Nat)
    BY <1>1, <2>1
  <2>3. \A x \in Node(C) : \A c \in Seq(Nat) : [x EXCEPT !.children = c] \in Node(C)
    BY DEF Node
  <2> QED BY <1>1, <2>2, <2>3
<1>4. S = Append(R, leaf)
  BY DEF Radix!AddLeaf
<1> HIDE DEF y, leaf, S
<1>5. R \in Seq(Node(C)) /\ Len(R) = n /\ R[k] = y /\ \A j \in 1..n : j # k => R[j] = T[j]
  BY <1>3
<1> HIDE DEF R
<1>6. /\ S \in Seq(Node(C)) /\ Len(S) = n + 1 /\ S[n + 1] = leaf
      /\ \A j \in 1..n : S[j] = R[j]
  <2>1. /\ Append(R, leaf) \in Seq(Node(C)) /\ Len(Append(R, leaf)) = Len(R) + 1
        /\ Append(R, leaf)[Len(R) + 1] = leaf
        /\ \A j \in 1..Len(R) : Append(R, leaf)[j] = R[j]
    <3>1. R \in Seq(Node(C)) /\ leaf \in Node(C)
      BY <1>2, <1>5
    <3> QED BY <3>1
  <2>2. Len(R) = n
    BY <1>5
  <2> HIDE DEF n
  <2> QED BY <1>4, <2>1, <2>2
<1>7. S[k] = y /\ \A j \in 1..n : j # k => S[j] = T[j]
  BY <1>5, <1>6
<1> QED BY <1>6, <1>7, Zenon DEF S, y, leaf, n, LeafAdded

Continues(T, k, word, full) == full = T[k].fullpath \o word
Grown(C, T, full, S) == Built(C, S) /\ FullOf(S) = LeafF(Len(T), FullOf(T), full)

LEMMA LeafBuilt ==
    ASSUME NEW C, NEW T, Built(C, T), NEW k \in 1..Len(T), NEW word \in Seq(C), word # <<>>,
           NEW full \in Seq(C), Continues(T, k, word, full), NEW size \in Int,
           Apart(FullOf(T), KidsOf(T), k, full)
    PROVE  Grown(C, T, full, Radix!AddLeaf(T, k, word, full, size))
<1> DEFINE n == Len(T)
           S == Radix!AddLeaf(T, k, word, full, size)
           F == FullOf(T)
           K == KidsOf(T)
<1>1. /\ T \in Seq(Node(C)) /\ n \in Nat \ {0} /\ T[1].path = <<>> /\ Tree(C, n, F, K)
      /\ \A j \in 1..n : \A c \in K[j] : Hangs(T, j, c) /\ c \in 1..n
  <2>1. \A j \in 1..n : \A c \in K[j] : c \in 1..n
    BY Hanging
  <2> QED BY <2>1 DEF Built, Tree
<1>2. /\ S \in Seq(Node(C)) /\ Len(S) = n + 1
      /\ \A j \in 1..n : j # k => S[j] = T[j]
      /\ S[n + 1] = Radix!NewNode(word, full, TRUE, <<>>, size, 1)
      /\ S[k] = [T[k] EXCEPT !.children = Append(@, n + 1)]
  <2>0. T \in Seq(Node(C))
    BY <1>1
  <2>1. LeafAdded(C, T, k, word, full, size)
    BY <2>0, AddLeafIs
  <2> QED BY <2>1, Zenon DEF LeafAdded
<1>3. S[n + 1].path = word /\ S[n + 1].fullpath = full /\ S[n + 1].children = <<>>
  BY <1>2 DEF Radix!NewNode
<1>4. /\ S[k].path = T[k].path /\ S[k].fullpath = T[k].fullpath
      /\ S[k].children = Append(T[k].children, n + 1)
  <2>1. \A x \in Node(C) : \A c :
          /\ [x EXCEPT !.children = c].path = x.path /\ [x EXCEPT !.children = c].fullpath = x.fullpath
          /\ [x EXCEPT !.children = c].children = c
    BY DEF Node
  <2>2. T[k] \in Node(C)
    BY <1>1
  <2> QED BY <1>2, <2>1, <2>2
<1> HIDE DEF S
<1>5. \A m \in Nat : 1..(m + 1) = 1..m \cup {m + 1} /\ m + 1 \notin 1..m
  OBVIOUS
<1>6. 1..(n + 1) = 1..n \cup {n + 1} /\ n + 1 \notin 1..n
  BY <1>1, <1>5
<1>7. \A j \in 1..n : F[j] = T[j].fullpath /\ K[j] = Elements(T[j].children)
  BY <1>1, NodeTypes
<1>8. \A j \in 1..(n + 1) : FullOf(S)[j] = S[j].fullpath /\ KidsOf(S)[j] = Elements(S[j].children)
  BY <1>2, NodeTypes
<1>9. \A j \in 1..n : S[j].path = T[j].path /\ S[j].fullpath = T[j].fullpath
  BY <1>2, <1>4
<1>10. FullOf(S) = LeafF(n, F, full)
  <2>1. \A j \in 1..(n + 1) : FullOf(S)[j] = IF j = n + 1 THEN full ELSE F[j]
    BY <1>3, <1>6, <1>7, <1>8, <1>9
  <2>2. FullOf(S) = [j \in 1..(n + 1) |-> FullOf(S)[j]]
    BY <1>2 DEF FullOf
  <2> QED BY <2>1, <2>2, Zenon DEF LeafF
<1>11. KidsOf(S) = LeafK(n, K, k)
  <2>0. Elements(Append(T[k].children, n + 1)) = Elements(T[k].children) \cup {n + 1}
    <3>1. T[k].children \in Seq(Nat)
      BY <1>1, NodeTypes
    <3> DEFINE c == T[k].children
    <3> HIDE DEF c
    <3>2. c \in Seq(Nat) /\ n + 1 \in Nat
      BY <1>1, <3>1 DEF c
    <3>3. Elements(Append(c, n + 1)) = Elements(c) \cup {n + 1}
      <4>1. /\ Len(c) \in Nat /\ DOMAIN c = 1..Len(c) /\ DOMAIN Append(c, n + 1) = 1..(Len(c) + 1)
            /\ Append(c, n + 1)[Len(c) + 1] = n + 1 /\ \A i \in 1..Len(c) : Append(c, n + 1)[i] = c[i]
        BY <3>2
      <4>2. 1..(Len(c) + 1) = 1..Len(c) \cup {Len(c) + 1}
        BY <1>5, <4>1
      <4> HIDE DEF n
      <4>3. ASSUME NEW x PROVE x \in Elements(Append(c, n + 1)) <=> x \in Elements(c) \cup {n + 1}
        BY <4>1, <4>2 DEF Elements
      <4> QED BY <4>3, Zenon
    <3> QED BY <3>3 DEF c
  <2>1. \A j \in 1..(n + 1) : KidsOf(S)[j] = IF j = n + 1 THEN {}
                                             ELSE IF j = k THEN K[k] \cup {n + 1} ELSE K[j]
    <3> TAKE j \in 1..(n + 1)
    <3>1. CASE j = n + 1
      BY <1>3, <1>8, <3>1, ElementsOf
    <3>2. CASE j = k
      BY <1>4, <1>6, <1>7, <1>8, <2>0, <3>2
    <3>3. CASE j \in 1..n /\ j # k
      BY <1>2, <1>6, <1>7, <1>8, <3>3
    <3> QED BY <1>6, <3>1, <3>2, <3>3
  <2>2. KidsOf(S) = [j \in 1..(n + 1) |-> KidsOf(S)[j]]
    BY <1>2 DEF KidsOf
  <2> QED BY <2>1, <2>2, Zenon DEF LeafK
<1>12. T[k].fullpath \in Seq(C) /\ F[k] \prec full
  <2>1. T[k].fullpath \in Seq(C)
    BY <1>1, NodeTypes
  <2>2. T[k].fullpath \prec full
    <3> DEFINE a == T[k].fullpath
    <3> HIDE DEF a
    <3>1. a \in Seq(C) /\ full = a \o word /\ Len(a) \in Nat /\ Len(word) \in Nat \ {0}
      <4>1. full = a \o word
        BY DEF a, Continues
      <4> QED BY <2>1, <4>1 DEF a
    <3>2. Len(full) = Len(a) + Len(word) /\ \A j \in 1..Len(a) : full[j] = a[j]
      BY <3>1, Joined
    <3> QED BY <3>1, <3>2 DEF \prec, \preceq, a
  <2> QED BY <1>7, <2>1, <2>2
<1>13. Tree(C, n + 1, FullOf(S), KidsOf(S))
  <2> QED BY <1>1, <1>10, <1>11, <1>12, LeafTree
<1>14. S[1].path = <<>>
  <2>1. 1 \in 1..n
    BY <1>1
  <2> QED BY <1>1, <1>9, <2>1
<1>15. ASSUME NEW j \in 1..(n + 1), NEW c \in KidsOf(S)[j] PROVE Hangs(S, j, c)
  <2>1. c \in LeafK(n, K, k)[j] /\ LeafK(n, K, k)[j] = IF j = n + 1 THEN {}
                                             ELSE IF j = k THEN K[k] \cup {n + 1} ELSE K[j]
    BY <1>11, <1>15 DEF LeafK
  <2>2. j # n + 1 /\ j \in 1..n
    BY <1>6, <2>1
  <2>3. CASE c = n + 1
    <3>1. j = k
      BY <1>1, <1>6, <2>1, <2>2, <2>3
    <3> QED BY <1>3, <1>9, <2>3, <3>1 DEF Hangs, Continues
  <2>4. CASE c # n + 1
    <3>1. c \in K[j] /\ c \in 1..n /\ Hangs(T, j, c)
      BY <1>1, <2>1, <2>2, <2>4
    <3> QED BY <1>9, <2>2, <3>1 DEF Hangs
  <2> QED BY <2>3, <2>4
<1>16. Built(C, S)
  BY <1>2, <1>13, <1>14, <1>15 DEF Built
<1> QED BY <1>10, <1>16 DEF S, Grown

-----------------------------------------------------------------------------
(* One turn of the loop of insert.                                         *)

Fulls(T) == {T[i].fullpath : i \in DOMAIN T}

(* The turn begins at node q, with the rest of w in word: at the root, or  *)
(* at a child that goes on like word.                                      *)
AtChild(T, w, p, q, word) ==
    w = T[p].fullpath \o word /\ word # <<>> /\ word[1] = T[q].path[1]
AtTurn(T, w, q, word) ==
    \/ q = 1 /\ word = w
    \/ \E p \in 1..Len(T) : q \in KidsOf(T)[p] /\ AtChild(T, w, p, q, word)

Lcp(T, q, word) == Radix!commonPrefixLen(word, T[q].path)
Fitted(T, q, word) ==
    IF Lcp(T, q, word) < Len(T[q].path) THEN Radix!Split(T, q, Lcp(T, q, word)) ELSE T

(* w goes on with z after u. *)
Goes(C, w, u, z) ==
    /\ u \in Seq(C) /\ z \in Seq(C) /\ u \preceq w /\ w = u \o z
    /\ (z = <<>>) <=> (u = w)
    /\ z # <<>> => z[1] = After(u, w)

(* After the split, if there was one: node q is u, and w goes on with rest.*)
Fit(C, W, w, size, T, q, R, u, rest) ==
    /\ Built(C, R) /\ HasWords(R, W) /\ q \in 1..Len(R) /\ R[q].fullpath = u
    /\ Counts(R, W, size, u)
    /\ Goes(C, w, u, rest)
    /\ \/ R = T
       \/ /\ Fulls(R) = Fulls(T) \cup {u}
          /\ \E x \in Fulls(T) : u \prec x /\ (u # w => After(u, x) # After(u, w))
          /\ u # w => \A c \in KidsOf(R)[q] : After(u, R[c].fullpath) # After(u, w)

(* What is left of a word after the first i letters. *)
LEMMA LeftOver ==
    ASSUME NEW C, NEW base \in Seq(C), NEW word \in Seq(C), NEW i \in Nat, i <= Len(word),
           NEW w, w = base \o word
    PROVE  Goes(C, w, Stem(base, word, i), Radix!From(word, i + 1))
<1>1. PartsOf(C, base, word, i)
  BY Parts
<1> DEFINE u == Stem(base, word, i)
           z == Radix!From(word, i + 1)
<1>2. /\ u \in Seq(C) /\ u \preceq base \o word /\ z \in Seq(C) /\ base \o word = u \o z
      /\ i = Len(word) => u = base \o word
      /\ i < Len(word) => u \prec base \o word
      /\ (z = <<>>) <=> (i = Len(word))
      /\ i < Len(word) => z[1] = After(u, base \o word)
  BY <1>1, Zenon DEF PartsOf
<1>3. i = Len(word) \/ i < Len(word)
  OBVIOUS
<1> HIDE DEF u, z
<1>4. u \in Seq(C) /\ z \in Seq(C) /\ u \preceq w /\ w = u \o z
  BY <1>2
<1>5. (z = <<>>) <=> (u = w)
  BY <1>2, <1>3 DEF \prec
<1>6. z # <<>> => z[1] = After(u, w)
  BY <1>2, <1>3
<1> QED BY <1>4, <1>5, <1>6 DEF u, z, Goes

LEMMA FitRoot ==
    ASSUME NEW C, NEW W, NEW T, Built(C, T), HasWords(T, W), NEW w \in Seq(C), NEW size,
           Counts(T, W, size, T[1].fullpath)
    PROVE  /\ Lcp(T, 1, w) = 0
           /\ Fit(C, W, w, size, T, 1, Fitted(T, 1, w), Fitted(T, 1, w)[1].fullpath,
                  Radix!From(w, Lcp(T, 1, w) + 1))
<1>1. /\ T \in Seq(Node(C)) /\ Len(T) \in Nat \ {0} /\ T[1].path = <<>> /\ FullOf(T)[1] = <<>>
  BY DEF Built, Tree
<1>2. T[1].fullpath = <<>>
  BY <1>1, NodeTypes
<1>3. <<>> \in Seq(C) /\ Len(<<>>) = 0
  OBVIOUS
<1>4. Common(w, T[1].path, Lcp(T, 1, w))
  BY <1>1, <1>3, CommonPrefix DEF Lcp
<1>5. Lcp(T, 1, w) = 0
  BY <1>1, <1>3, <1>4 DEF Common
<1>6. Fitted(T, 1, w) = T
  BY <1>1, <1>3, <1>5 DEF Fitted
<1>7. w = <<>> \o w /\ Stem(<<>>, w, 0) = <<>>
  BY DEF Stem
<1>8. 0 \in Nat /\ 0 <= Len(w)
  OBVIOUS
<1> DEFINE z == Radix!From(w, 0 + 1)
<1>9. Goes(C, w, <<>>, z)
  <2>1. Goes(C, w, Stem(<<>>, w, 0), z)
    BY <1>3, <1>7, <1>8, LeftOver
  <2> QED BY <1>7, <2>1
<1> HIDE DEF z
<1>10. 1 \in 1..Len(T) /\ Counts(T, W, size, <<>>)
  BY <1>1, <1>2
<1>11. Fit(C, W, w, size, T, 1, T, <<>>, z)
  BY <1>2, <1>3, <1>9, <1>10 DEF Fit
<1> QED BY <1>2, <1>5, <1>6, <1>11 DEF z

LEMMA FitWhole ==
    ASSUME NEW C, NEW W, NEW T, Built(C, T), HasWords(T, W), NEW w \in Seq(C), NEW size,
           NEW p \in 1..Len(T), NEW q \in KidsOf(T)[p], NEW word \in Seq(C),
           AtChild(T, w, p, q, word),
           Counts(T, W, size, T[q].fullpath), Lcp(T, q, word) = Len(T[q].path)
    PROVE  /\ Lcp(T, q, word) \in Nat \ {0}
           /\ Fit(C, W, w, size, T, q, Fitted(T, q, word), Fitted(T, q, word)[q].fullpath,
                  Radix!From(word, Lcp(T, q, word) + 1))
<1> DEFINE i == Lcp(T, q, word)
           a == T[p].fullpath
           b == T[q].path
           z == Radix!From(word, i + 1)
<1>1. /\ q \in 1..Len(T) /\ b \in Seq(C) /\ b # <<>> /\ a \in Seq(C)
      /\ T[q].fullpath = a \o b /\ Len(b) \in Nat
  BY Hanging
<1>2. Common(word, b, i)
  BY <1>1, CommonPrefix DEF Lcp
<1>3. Fitted(T, q, word) = T
  BY <1>1 DEF Fitted
<1>4. i \in Nat /\ i <= Len(word) /\ i = Len(b) /\ SubSeq(word, 1, i) = SubSeq(b, 1, i)
  BY <1>2 DEF Common
<1>5. Stem(a, word, i) = T[q].fullpath
  <2>1. SubSeq(b, 1, Len(b)) = b
    BY <1>1
  <2> QED BY <1>1, <1>4, <2>1 DEF Stem
<1>6. Goes(C, w, Stem(a, word, i), z)
  <2> HIDE DEF i, a, z
  <2>1. w = a \o word
    BY DEF a, AtChild
  <2> QED BY <1>1, <1>4, <2>1, LeftOver DEF z
<1>7. i # 0
  BY <1>1, <1>4
<1> HIDE DEF i, z
<1>8. Fit(C, W, w, size, T, q, T, T[q].fullpath, z)
  BY <1>1, <1>5, <1>6 DEF Fit
<1> QED BY <1>3, <1>4, <1>7, <1>8 DEF i, z

LEMMA SplitFulls ==
    ASSUME NEW C, NEW T \in Seq(Node(C)), NEW R \in Seq(Node(C)), NEW q \in 1..Len(T), NEW u,
           Len(R) = Len(T) + 1, FullOf(R) = SplitF(Len(T), FullOf(T), q, u)
    PROVE  Fulls(R) = Fulls(T) \cup {u}
<1> DEFINE n == Len(T)
<1>0. \A m \in Nat : 1..(m + 1) = 1..m \cup {m + 1} /\ m + 1 \notin 1..m
  OBVIOUS
<1>1. n \in Nat /\ DOMAIN T = 1..n /\ DOMAIN R = 1..(n + 1) /\ 1..(n + 1) = 1..n \cup {n + 1}
      /\ n + 1 \notin 1..n
  BY <1>0
<1>2. /\ \A j \in 1..(n + 1) : R[j].fullpath = SplitF(n, FullOf(T), q, u)[j]
      /\ \A j \in 1..n : FullOf(T)[j] = T[j].fullpath
  <2>1. \A j \in 1..(n + 1) : FullOf(R)[j] = R[j].fullpath
    BY <1>1 DEF FullOf
  <2>2. \A j \in 1..n : FullOf(T)[j] = T[j].fullpath
    BY <1>1 DEF FullOf
  <2> QED BY <2>1, <2>2
<1>3. /\ R[q].fullpath = u /\ R[n + 1].fullpath = T[q].fullpath
      /\ \A j \in 1..n : j # q => R[j].fullpath = T[j].fullpath
  BY <1>1, <1>2 DEF SplitF
<1> HIDE DEF n
<1>4. ASSUME NEW x PROVE x \in Fulls(R) <=> x \in Fulls(T) \cup {u}
  <2>1. ASSUME x \in Fulls(R) PROVE x \in Fulls(T) \cup {u}
    <3>1. PICK j \in 1..(n + 1) : x = R[j].fullpath
      BY <1>1, <2>1 DEF Fulls
    <3> QED BY <1>1, <1>3, <3>1 DEF Fulls, n
  <2>2. ASSUME x \in Fulls(T) \cup {u} PROVE x \in Fulls(R)
    <3>1. CASE x = u
      BY <1>1, <1>3, <3>1 DEF Fulls, n
    <3>2. CASE x # u
      <4>1. PICK j \in 1..n : x = T[j].fullpath
        BY <1>1, <2>2, <3>2 DEF Fulls
      <4>2. CASE j = q
        BY <1>1, <1>3, <4>1, <4>2 DEF Fulls
      <4>3. CASE j # q
        BY <1>1, <1>3, <4>1, <4>3 DEF Fulls
      <4> QED BY <4>2, <4>3
    <3> QED BY <3>1, <3>2
  <2> QED BY <2>1, <2>2
<1> QED BY <1>4, Zenon

LEMMA FitSplit ==
    ASSUME NEW C, NEW W, WordSet(C, W), NEW T, Built(C, T), HasWords(T, W), NEW w \in Seq(C), NEW size,
           NEW p \in 1..Len(T), NEW q \in KidsOf(T)[p], NEW word \in Seq(C),
           AtChild(T, w, p, q, word),
           Counts(T, W, size, T[q].fullpath), Lcp(T, q, word) # Len(T[q].path)
    PROVE  /\ Lcp(T, q, word) \in Nat \ {0}
           /\ Fit(C, W, w, size, T, q, Fitted(T, q, word), Fitted(T, q, word)[q].fullpath,
                  Radix!From(word, Lcp(T, q, word) + 1))
<1> DEFINE i == Lcp(T, q, word)
           a == T[p].fullpath
           b == T[q].path
           z == Radix!From(word, i + 1)
           R == Fitted(T, q, word)
           u == Stem(a, b, i)
<1>1. /\ q \in 1..Len(T) /\ b \in Seq(C) /\ b # <<>> /\ a \in Seq(C)
      /\ T[q].fullpath = a \o b /\ Len(b) \in Nat
  BY Hanging
<1>2. Common(word, b, i)
  BY <1>1, CommonPrefix DEF Lcp
<1>3. i \in Nat /\ i <= Len(word) /\ i <= Len(b) /\ i < Len(b) /\ SubSeq(word, 1, i) = SubSeq(b, 1, i)
      /\ (i # Len(word) => word[i + 1] # b[i + 1])
  <2>1. i # Len(b)
    OBVIOUS
  <2> HIDE DEF i, b
  <2>2. i \in Nat /\ i <= Len(word) /\ i <= Len(b) /\ SubSeq(word, 1, i) = SubSeq(b, 1, i)
        /\ (i # Len(word) => word[i + 1] # b[i + 1])
    BY <1>2, <2>1 DEF Common
  <2>3. i < Len(b)
    BY <1>1, <2>1, <2>2
  <2> QED BY <2>2, <2>3
<1>4. i # 0
  <2>1. word[1] = b[1] /\ word # <<>>
    BY DEF AtChild
  <2>2. Len(word) # 0
    BY <2>1
  <2> HIDE DEF i
  <2>3. CASE i = 0
    BY <1>3, <2>1, <2>2, <2>3
  <2> QED BY <2>3
<1>5. R = Radix!Split(T, q, i) /\ Inside(T, q, i)
  BY <1>3, <1>4 DEF Fitted, Inside
<1>6. u = Stem(a, word, i)
  BY <1>3 DEF Stem
<1>7. Goes(C, w, u, z)
  <2> HIDE DEF i, a, z
  <2>1. w = a \o word
    BY DEF a, AtChild
  <2>2. Goes(C, w, Stem(a, word, i), z)
    BY <1>1, <1>3, <2>1, LeftOver DEF z
  <2> QED BY <1>6, <2>2
<1>8. /\ Counts(R, W, size, u) /\ HasWords(R, W) /\ Built(C, R) /\ Len(R) = Len(T) + 1
      /\ FullOf(R) = SplitF(Len(T), FullOf(T), q, u)
      /\ KidsOf(R) = SplitK(Len(T), KidsOf(T), q)
  <2>1. Built(C, Radix!Split(T, q, i)) /\ Len(Radix!Split(T, q, i)) = Len(T) + 1
        /\ FullOf(Radix!Split(T, q, i)) = SplitF(Len(T), FullOf(T), q, u)
        /\ KidsOf(Radix!Split(T, q, i)) = SplitK(Len(T), KidsOf(T), q)
    BY <1>3, <1>5, SplitBuilt
  <2>2. Counts(Radix!Split(T, q, i), W, size, u) /\ HasWords(Radix!Split(T, q, i), W)
    BY <1>3, <1>5, SplitCounts
  <2> QED BY <1>5, <2>1, <2>2
<1>9. T \in Seq(Node(C)) /\ R \in Seq(Node(C)) /\ Len(T) \in Nat /\ q \in 1..Len(R)
  BY <1>1, <1>8 DEF Built
<1>10. u \prec T[q].fullpath /\ b[i + 1] = After(u, T[q].fullpath)
  <2>1. i # Len(b)
    BY <1>1, <1>3
  <2> HIDE DEF a, b, i
  <2>2. u \prec a \o b /\ b[i + 1] = After(u, a \o b)
    BY <1>1, <1>3, <2>1, PartsStem
  <2> QED BY <1>1, <2>2
<1>11. u # w => b[i + 1] # After(u, w)
  <2> SUFFICES ASSUME u # w PROVE b[i + 1] # After(u, w)
    OBVIOUS
  <2>1. z # <<>> /\ z[1] = After(u, w)
    BY <1>7 DEF Goes
  <2> HIDE DEF i, b, u
  <2>2. Radix!From(word, i + 1) \in Seq(C) /\ Len(z) = Len(word) - i
        /\ \A j \in 1..(Len(word) - i) : z[j] = word[i + j]
    BY <1>3, Rest DEF z
  <2>3. Len(word) \in Nat
    OBVIOUS
  <2>4. Len(z) # 0
    BY <2>1, <2>2
  <2>5. i # Len(word) /\ z[1] = word[i + 1]
    BY <1>3, <2>2, <2>3, <2>4
  <2> QED BY <1>3, <2>1, <2>5
<1>12. Fulls(R) = Fulls(T) \cup {u}
  BY <1>1, <1>8, <1>9, SplitFulls
<1>19. DOMAIN T = 1..Len(T) /\ DOMAIN R = 1..Len(R)
  BY <1>9
<1>13. T[q].fullpath \in Fulls(T)
  BY <1>1, <1>19, Zenon DEF Fulls
<1>17. \A m \in Nat : 1..(m + 1) = 1..m \cup {m + 1} /\ m + 1 \notin 1..m
  OBVIOUS
<1>18. 1..(Len(T) + 1) = 1..Len(T) \cup {Len(T) + 1} /\ Len(T) + 1 \notin 1..Len(T)
  BY <1>9, <1>17
<1>14. R[q].fullpath = u
  <2>1. FullOf(R)[q] = R[q].fullpath
    BY <1>9 DEF FullOf
  <2> QED BY <1>1, <1>8, <1>18, <2>1 DEF SplitF
<1>15. \A c \in KidsOf(R)[q] : R[c].fullpath = T[q].fullpath
  <2>1. KidsOf(R)[q] = {Len(T) + 1}
    BY <1>1, <1>8, <1>18 DEF SplitK
  <2>2. FullOf(R)[Len(T) + 1] = R[Len(T) + 1].fullpath
    BY <1>8, <1>9, <1>18 DEF FullOf
  <2>3. SplitF(Len(T), FullOf(T), q, u)[Len(T) + 1] = FullOf(T)[q] /\ FullOf(T)[q] = T[q].fullpath
    <3>1. FullOf(T)[q] = T[q].fullpath
      BY <1>1, <1>9, NodeTypes
    <3>2. Len(T) + 1 # q /\ Len(T) + 1 \in 1..(Len(T) + 1)
      BY <1>1, <1>18
    <3> QED BY <3>1, <3>2 DEF SplitF
  <2> QED BY <1>8, <2>1, <2>2, <2>3
<1> HIDE DEF u, R, z, i, b
<1>16. Fit(C, W, w, size, T, q, R, u, z)
  <2>1. u # w => After(u, T[q].fullpath) # After(u, w)
    BY <1>10, <1>11
  <2>2. u # w => \A c \in KidsOf(R)[q] : After(u, R[c].fullpath) # After(u, w)
    BY <1>15, <2>1
  <2>3. \E x \in Fulls(T) : u \prec x /\ (u # w => After(u, x) # After(u, w))
    BY <1>10, <1>13, <2>1
  <2> QED BY <1>7, <1>8, <1>9, <1>12, <1>14, <2>2, <2>3 DEF Fit
<1> QED BY <1>3, <1>4, <1>14, <1>16 DEF R, z, i

LEMMA FitIs ==
    ASSUME NEW C, NEW W, WordSet(C, W), NEW T, Built(C, T), HasWords(T, W), NEW w \in Seq(C), NEW size,
           NEW q \in 1..Len(T), NEW word \in Seq(C), AtTurn(T, w, q, word),
           Counts(T, W, size, T[q].fullpath)
    PROVE  /\ Lcp(T, q, word) \in Nat /\ (Lcp(T, q, word) # 0 \/ q = 1)
           /\ Fit(C, W, w, size, T, q, Fitted(T, q, word), Fitted(T, q, word)[q].fullpath,
                  Radix!From(word, Lcp(T, q, word) + 1))
<1>1. CASE q = 1 /\ word = w
  <2>1. Counts(T, W, size, T[1].fullpath)
    BY <1>1
  <2> QED BY <1>1, <2>1, FitRoot
<1>2. ASSUME NEW p \in 1..Len(T), q \in KidsOf(T)[p], AtChild(T, w, p, q, word)
      PROVE  /\ Lcp(T, q, word) \in Nat /\ (Lcp(T, q, word) # 0 \/ q = 1)
             /\ Fit(C, W, w, size, T, q, Fitted(T, q, word), Fitted(T, q, word)[q].fullpath,
                    Radix!From(word, Lcp(T, q, word) + 1))
  <2>1. CASE Lcp(T, q, word) = Len(T[q].path)
    BY <1>2, <2>1, FitWhole
  <2>2. CASE Lcp(T, q, word) # Len(T[q].path)
    BY <1>2, <2>2, FitSplit
  <2> QED BY <2>1, <2>2
<1> QED BY <1>1, <1>2 DEF AtTurn

(* The nodes down to u have counted the word. *)
CountsTo(T, W, size, u) ==
    \A j \in 1..Len(T) : /\ T[j].fullpath \preceq u => Weighs(T[j], W, size, 1)
                         /\ ~(T[j].fullpath \preceq u) => Weighs(T[j], W, 0, 0)

Tallied(C, W, size, R, q, u, H) ==
    /\ Built(C, H) /\ SameShape(R, H) /\ HasWords(H, W) /\ CountsTo(H, W, size, u)
    /\ Fulls(H) = Fulls(R) /\ KidsOf(H) = KidsOf(R) /\ FullOf(H) = FullOf(R)
    /\ Len(H) = Len(R) /\ H[q].fullpath = u /\ H \in Seq(Node(C))

LEMMA CountedCounts ==
    ASSUME NEW C, NEW W, WordSet(C, W), NEW size \in Int, NEW R, Built(C, R), HasWords(R, W),
           NEW q \in 1..Len(R), NEW u, u = R[q].fullpath, Counts(R, W, size, u)
    PROVE  Tallied(C, W, size, R, q, u, Radix!Counted(R, q, size))
<1> DEFINE H == Radix!Counted(R, q, size)
<1>1. /\ R \in Seq(Node(C)) /\ Len(R) \in Nat
      /\ \A i, j \in 1..Len(R) : FullOf(R)[i] = FullOf(R)[j] => i = j
  BY DEF Built, Tree
<1>2. /\ H \in Seq(Node(C)) /\ SameShape(R, H)
      /\ \A j \in 1..Len(R) : j # q => H[j] = R[j]
      /\ H[q].totalSize = R[q].totalSize + size /\ H[q].keyCount = R[q].keyCount + 1
      /\ H[q].end = R[q].end
  BY <1>1, CountedIs
<1> HIDE DEF H
<1>3. Built(C, H) /\ FullOf(H) = FullOf(R) /\ KidsOf(H) = KidsOf(R)
  BY <1>2, SameBuilt
<1>4. /\ Len(H) = Len(R) /\ \A j \in 1..Len(R) : H[j].fullpath = R[j].fullpath
  BY <1>2 DEF SameShape
<1>5. DOMAIN H = DOMAIN R /\ DOMAIN R = 1..Len(R)
  BY <1>1, <1>2, <1>4
<1>6. Fulls(H) = Fulls(R)
  BY <1>4, <1>5 DEF Fulls
<1>7. HasWords(H, W)
  BY <1>4 DEF HasWords
<1>8. /\ u \in Seq(C)
      /\ \A j \in 1..Len(R) : R[j].fullpath \in Seq(C) /\ (R[j].fullpath = u => j = q)
  BY <1>1, NodeTypes
<1>9. ASSUME NEW j \in 1..Len(H)
      PROVE  /\ H[j].fullpath \preceq u => Weighs(H[j], W, size, 1)
             /\ ~(H[j].fullpath \preceq u) => Weighs(H[j], W, 0, 0)
  <2>1. CASE j = q
    <3>1. ~(u \prec u) /\ u \preceq u
      BY <1>8, WordOrder DEF \prec
    <3>2. Weighs(R[q], W, 0, 0)
      BY <3>1, Zenon DEF Counts
    <3>3. WordSizes(Radix!Below(u, W)) \in Int /\ Cardinality(Radix!Below(u, W)) \in Nat
      BY <1>8, BelowIs
    <3>4. Weighs(H[q], W, size, 1)
      BY <1>2, <1>4, <3>2, <3>3 DEF Weighs
    <3> QED BY <1>4, <2>1, <3>1, <3>4
  <2>2. CASE j # q
    <3>1. H[j] = R[j] /\ j \in 1..Len(R)
      BY <1>2, <1>4, <2>2
    <3>2. R[j].fullpath \preceq u <=> R[j].fullpath \prec u
      BY <1>8, <2>2, <3>1 DEF \prec
    <3> QED BY <3>1, <3>2 DEF Counts
  <2> QED BY <2>1, <2>2
<1>10. CountsTo(H, W, size, u)
  BY <1>9 DEF CountsTo
<1> QED BY <1>2, <1>3, <1>4, <1>6, <1>7, <1>10 DEF Tallied, H

(* Where two nodes part there is a node. *)
LEMMA PartIsNode ==
    ASSUME NEW C, NEW n, NEW F, NEW K, Tree(C, n, F, K), NEW a \in 1..n, NEW b \in 1..n,
           NEW p \in Seq(C), p \prec F[a], p \prec F[b], After(p, F[a]) # After(p, F[b])
    PROVE  \E k \in 1..n : F[k] = p
<1>1. /\ n \in Nat \ {0} /\ F \in [1..n -> Seq(C)] /\ F[1] = <<>>
      /\ \A i \in 1..n : F[i] \in Seq(C) /\ Len(F[i]) \in Nat
  <2>1. n \in Nat \ {0} /\ F \in [1..n -> Seq(C)] /\ F[1] = <<>>
    BY DEF Tree
  <2>2. \A i \in 1..n : F[i] \in Seq(C)
    BY <2>1
  <2>3. \A s \in Seq(C) : Len(s) \in Nat
    OBVIOUS
  <2> QED BY <2>1, <2>2, <2>3
<1> DEFINE Gaps == {m \in Nat : \E k \in 1..n : F[k] \preceq p /\ m = Len(p) - Len(F[k])}
<1>2. Len(p) \in Nat /\ <<>> \preceq p
  BY WordOrder
<1>3. Len(p) \in Gaps
  <2>1. 1 \in 1..n /\ Len(<<>>) = 0
    BY <1>1
  <2>2. F[1] \preceq p /\ Len(p) = Len(p) - Len(F[1])
    BY <1>1, <1>2, <2>1
  <2> QED BY <1>2, <2>1, <2>2
<1>4. PICK m \in Gaps : \A x \in Gaps : m <= x
  <2>1. Gaps \in SUBSET Nat
    OBVIOUS
  <2> HIDE DEF Gaps
  <2> QED BY <1>3, <2>1, LeastNat
<1>5. PICK k \in 1..n : F[k] \preceq p /\ m = Len(p) - Len(F[k])
  BY <1>4
<1>6. CASE F[k] = p
  BY <1>6
<1>7. CASE F[k] # p
  <2>1. F[k] \prec p /\ F[k] \prec F[a] /\ F[k] \prec F[b]
    BY <1>1, <1>5, <1>7, WordOrder DEF \prec
  <2>2. PICK c \in K[k] : F[c] \preceq F[a] /\ c \in 1..n /\ F[k] \prec F[c]
    BY <2>1 DEF Tree
  <2>3. PICK d \in K[k] : F[d] \preceq F[b] /\ d \in 1..n /\ F[k] \prec F[d]
    BY <2>1 DEF Tree
  <2>4. After(F[k], F[c]) = After(F[k], F[a]) /\ After(F[k], F[a]) = After(F[k], p)
    BY <1>1, <2>1, <2>2, WordOrder DEF \prec
  <2>5. After(F[k], F[d]) = After(F[k], F[b]) /\ After(F[k], F[b]) = After(F[k], p)
    BY <1>1, <2>1, <2>3, WordOrder DEF \prec
  <2>6. c = d
    BY <2>4, <2>5 DEF Tree
  <2>7. F[c] \preceq p \/ p \preceq F[c]
    BY <1>1, <2>2, WordOrder DEF \prec
  <2>8. CASE F[c] \preceq p
    <3>1. Len(F[c]) <= Len(p) /\ Len(F[k]) <= Len(F[c]) /\ Len(F[k]) # Len(F[c])
      BY <1>1, <2>2, <2>8, PreAnti DEF \prec, \preceq
    <3>2. Len(p) - Len(F[c]) \in Gaps
      <4>1. Len(p) - Len(F[c]) \in Nat
        BY <1>1, <1>2, <2>2, <3>1
      <4> QED BY <2>2, <2>8, <4>1
    <3>3. m <= Len(p) - Len(F[c])
      BY <1>4, <3>2
    <3> HIDE DEF Gaps
    <3> QED BY <1>1, <1>2, <1>5, <2>2, <3>1, <3>3
  <2>9. CASE p \preceq F[c] /\ p # F[c]
    <3>1. p \prec F[c]
      BY <2>9 DEF \prec
    <3>2. After(p, F[c]) = After(p, F[a]) /\ After(p, F[c]) = After(p, F[b])
      BY <1>1, <2>2, <2>3, <2>6, <3>1, WordOrder
    <3> QED BY <3>2
  <2>10. CASE p = F[c]
    BY <2>2, <2>10
  <2> QED BY <2>7, <2>8, <2>9, <2>10
<1> QED BY <1>6, <1>7

-----------------------------------------------------------------------------
(* The nodes the words determine.                                          *)

(* Two words part after p. *)
PartAt(p, v, w) == p \prec v /\ p \prec w /\ After(p, v) # After(p, w)
Named(C, W, p) ==
    /\ p \in Seq(C)
    /\ p = <<>> \/ Radix!IsWord(p, W) \/ \E x, y \in W : PartAt(p, x[1], y[1])

LEMMA BeginningIs ==
    ASSUME NEW C, NEW p \in Seq(C), NEW w \in Seq(C), p \preceq w
    PROVE  /\ Len(p) \in 0..Len(w) /\ p = SubSeq(w, 1, Len(p))
           /\ p # w => Len(w) > Len(p)
<1>1. Len(p) \in Nat /\ Len(w) \in Nat /\ Len(p) <= Len(w) /\ \A i \in 1..Len(p) : p[i] = w[i]
  BY DEF \preceq
<1>2. /\ SubSeq(w, 1, Len(p)) \in Seq(C) /\ Len(SubSeq(w, 1, Len(p))) = Len(p)
      /\ \A i \in 1..Len(p) : SubSeq(w, 1, Len(p))[i] = w[i]
  BY <1>1
<1>3. p = SubSeq(w, 1, Len(p))
  BY <1>1, <1>2
<1>4. p # w => Len(w) # Len(p)
  BY <1>1
<1> QED BY <1>1, <1>3, <1>4

LEMMA NodesOfIs ==
    ASSUME NEW C, NEW W, WordSet(C, W), NEW p
    PROVE  p \in Radix!NodesOf(W) <=> Named(C, W, p)
<1>1. \A x \in W : x[1] \in Seq(C) /\ Len(x[1]) \in Nat
  BY DEF WordSet
<1>2. ASSUME NEW x \in W, NEW i \in 0..Len(x[1]) PROVE SubSeq(x[1], 1, i) \in Seq(C)
  BY <1>1
<1>3. p \in Radix!AllPrefixes(W) \cup {<<>>} => p \in Seq(C)
  <2>1. CASE p = <<>>
    BY <2>1
  <2>2. ASSUME p \in Radix!AllPrefixes(W) PROVE p \in Seq(C)
    <3>1. PICK x \in W : p \in {SubSeq(x[1], 1, i) : i \in 0..Len(x[1])}
      BY <2>2, Zenon DEF Radix!AllPrefixes
    <3>2. PICK i \in 0..Len(x[1]) : p = SubSeq(x[1], 1, i)
      BY <3>1
    <3> QED BY <1>2, <3>2
  <2> QED BY <2>1, <2>2
<1>4. ASSUME p \in Seq(C)
      PROVE  Radix!IsNode(p, W) <=> (p = <<>> \/ Radix!IsWord(p, W) \/ \E x, y \in W : PartAt(p, x[1], y[1]))
  <2>1. Radix!Below(p, W) = {x \in W : p \preceq x[1]} /\ Len(p) \in Nat
    BY <1>4, BelowIs
  <2>2. \A x \in W : p \preceq x[1] => (Len(x[1]) > Len(p) <=> p # x[1])
    <3> TAKE x \in W
    <3> HAVE p \preceq x[1]
    <3>1. p # x[1] => Len(x[1]) > Len(p)
      BY <1>1, <1>4, BeginningIs
    <3>2. p = x[1] => ~(Len(x[1]) > Len(p))
      BY <2>1
    <3> QED BY <3>1, <3>2
  <2>3. ASSUME NEW x \in W, NEW y \in W
        PROVE  (/\ x \in Radix!Below(p, W) /\ y \in Radix!Below(p, W)
                /\ Len(x[1]) > Len(p) /\ Len(y[1]) > Len(p)
                /\ x[1][Len(p) + 1] # y[1][Len(p) + 1]) <=> PartAt(p, x[1], y[1])
    <3>1. x \in Radix!Below(p, W) <=> p \preceq x[1]
      BY <2>1
    <3>2. y \in Radix!Below(p, W) <=> p \preceq y[1]
      BY <2>1
    <3>3. p \preceq x[1] => (Len(x[1]) > Len(p) <=> p # x[1])
      BY <2>2
    <3>4. p \preceq y[1] => (Len(y[1]) > Len(p) <=> p # y[1])
      BY <2>2
    <3> QED BY <3>1, <3>2, <3>3, <3>4, Zenon DEF PartAt, After, \prec
  <2>4. \A x \in Radix!Below(p, W) : x \in W
    BY <2>1
  <2>5. (\E v, w \in Radix!Below(p, W) : /\ Len(v[1]) > Len(p) /\ Len(w[1]) > Len(p)
                                         /\ v[1][Len(p) + 1] # w[1][Len(p) + 1])
        <=> \E x, y \in W : PartAt(p, x[1], y[1])
    BY <2>3, <2>4, Zenon
  <2> QED BY <2>5, Zenon DEF Radix!IsNode
<1>5. ASSUME Named(C, W, p) PROVE p \in Radix!AllPrefixes(W) \cup {<<>>}
  <2>1. p \in Seq(C)
    BY <1>5 DEF Named
  <2>2. ASSUME NEW x \in W, p \preceq x[1] PROVE p \in Radix!AllPrefixes(W)
    <3>1. Len(p) \in 0..Len(x[1]) /\ p = SubSeq(x[1], 1, Len(p))
      BY <1>1, <2>1, <2>2, BeginningIs
    <3>2. \E i \in 0..Len(x[1]) : p = SubSeq(x[1], 1, i)
      BY <3>1, Zenon
    <3>3. p \in {SubSeq(x[1], 1, i) : i \in 0..Len(x[1])}
      BY <3>2
    <3> QED BY <3>3, Zenon DEF Radix!AllPrefixes
  <2>3. CASE p = <<>>
    BY <2>3
  <2>4. CASE Radix!IsWord(p, W)
    <3>1. PICK x \in W : x[1] = p
      BY <2>4 DEF Radix!IsWord
    <3>2. p \preceq x[1]
      BY <2>1, <3>1, WordOrder
    <3> QED BY <2>2, <3>2
  <2>5. ASSUME NEW x \in W, NEW y \in W, PartAt(p, x[1], y[1]) PROVE p \in Radix!AllPrefixes(W)
    BY <2>2, <2>5 DEF PartAt, \prec
  <2> QED BY <1>5, <2>3, <2>4, <2>5 DEF Named
<1>6. p \in Radix!NodesOf(W) <=> p \in Radix!AllPrefixes(W) \cup {<<>>} /\ Radix!IsNode(p, W)
  BY Zenon DEF Radix!NodesOf
<1> QED BY <1>3, <1>4, <1>5, <1>6 DEF Named

(* Some word goes through every node but the root. *)
LEMMA WordThrough ==
    ASSUME NEW C, NEW W, WordSet(C, W), NEW p, Named(C, W, p), p # <<>>
    PROVE  \E x \in W : p \preceq x[1]
<1>1. CASE Radix!IsWord(p, W)
  BY <1>1, WordOrder DEF Radix!IsWord, Named
<1>2. CASE \E x, y \in W : PartAt(p, x[1], y[1])
  BY <1>2 DEF PartAt, \prec
<1> QED BY <1>1, <1>2 DEF Named

NoKid(R, q, u, w) == u # w => \A c \in KidsOf(R)[q] : After(u, R[c].fullpath) # After(u, w)

(* A new word makes itself a node, and the place where it leaves the tree. *)
LEMMA NodesGrow ==
    ASSUME NEW C, NEW W, WordSet(C, W), NEW w \in Seq(C), NEW size \in Int,
           NEW T, Built(C, T), Fulls(T) = Radix!NodesOf(W),
           NEW q, NEW R, NEW u, NEW rest, Fit(C, W, w, size, T, q, R, u, rest), NoKid(R, q, u, w)
    PROVE  Radix!NodesOf(W \cup {<<w, size>>}) = Fulls(R) \cup {w}
<1> DEFINE z == <<w, size>>
           V == W \cup {z}
           F == FullOf(R)
           K == KidsOf(R)
           n == Len(R)
<1>1. z[1] = w /\ z[2] = size
  OBVIOUS
<1>2. WordSet(C, V)
  <2>1. IsFiniteSet(V)
    BY FS_AddElement DEF WordSet
  <2>2. \A x \in V : x[1] \in Seq(C) /\ x[2] \in Int
    BY <1>1 DEF WordSet
  <2> HIDE DEF V
  <2> QED BY <2>1, <2>2 DEF WordSet
<1>3. z \in V /\ W \subseteq V /\ \A x \in V : x \in W \/ x = z
  OBVIOUS
<1>4. \A p : p \in Fulls(T) <=> Named(C, W, p)
  BY NodesOfIs
<1>5. \A p : p \in Radix!NodesOf(V) <=> Named(C, V, p)
  <2> HIDE DEF V
  <2> QED BY <1>2, NodesOfIs
<1> HIDE DEF V, z
<1>6. /\ Built(C, R) /\ HasWords(R, W) /\ q \in 1..n /\ R[q].fullpath = u
      /\ Goes(C, w, u, rest)
  BY DEF Fit
<1>7. /\ R \in Seq(Node(C)) /\ n \in Nat \ {0} /\ Tree(C, n, F, K)
  BY <1>6 DEF Built, Tree
<1>8. /\ F[1] = <<>> /\ F \in [1..n -> Seq(C)]
      /\ \A j \in 1..n : F[j] = R[j].fullpath /\ R[j].fullpath \in Fulls(R) /\ R[j].fullpath \in Seq(C)
  <2>1. DOMAIN R = 1..n
    BY <1>7
  <2>2. \A j \in 1..n : F[j] = R[j].fullpath /\ R[j].fullpath \in Seq(C)
    BY <1>7, NodeTypes
  <2> QED BY <1>7, <2>1, <2>2 DEF Tree, Fulls
<1>9. u \in Seq(C) /\ u \preceq w
  BY <1>6 DEF Goes
<1>10. Fulls(T) \subseteq Fulls(R) /\ Fulls(R) \subseteq Fulls(T) \cup {u}
  BY DEF Fit
<1>11. ASSUME NEW p, Named(C, W, p) PROVE Named(C, V, p)
  BY <1>3, <1>11 DEF Named, Radix!IsWord
<1>12. Named(C, V, w)
  BY <1>1, <1>3 DEF Named, Radix!IsWord
<1>13. ASSUME u \notin Fulls(T) PROVE Named(C, V, u)
  <2>1. CASE u = w
    BY <1>12, <2>1
  <2>2. CASE u # w
    <3>1. PICK y \in Fulls(T) : u \prec y /\ After(u, y) # After(u, w)
      <4>1. R # T
        BY <1>6, <1>8, <1>13
      <4> QED BY <2>2, <4>1 DEF Fit
    <3>2. Named(C, W, y) /\ y \in Seq(C)
      BY <1>4, <3>1 DEF Named
    <3>3. y # <<>>
      <4>1. Len(<<>>) = 0 /\ Len(u) \in Nat /\ (Len(u) = 0 => u = <<>>)
        BY <1>9
      <4>2. CASE y = <<>>
        BY <3>1, <4>1, <4>2 DEF \prec, \preceq
      <4> QED BY <4>2
    <3>4. PICK x \in W : y \preceq x[1]
      BY <3>2, <3>3, WordThrough
    <3>5. x[1] \in Seq(C)
      BY DEF WordSet
    <3>6. u \prec x[1] /\ After(u, x[1]) = After(u, y) /\ u \prec w
      BY <1>9, <2>2, <3>1, <3>2, <3>4, <3>5, WordOrder DEF \prec
    <3>7. PartAt(u, x[1], z[1])
      BY <1>1, <3>1, <3>6 DEF PartAt
    <3> QED BY <1>3, <1>9, <3>7 DEF Named
  <2> QED BY <2>1, <2>2
<1>14. ASSUME NEW p \in Seq(C), NEW x \in W, PartAt(p, x[1], w) PROVE p \in Fulls(R)
  <2>1. PICK j \in 1..n : F[j] = x[1]
    BY <1>6, <1>8 DEF HasWords
  <2>2. p \prec F[j] /\ p \prec w /\ After(p, F[j]) # After(p, w) /\ F[j] \in Seq(C)
    BY <1>8, <1>14, <2>1 DEF PartAt
  <2>3. CASE p = u
    BY <1>6, <1>8, <2>3
  <2>4. CASE p \prec u
    <3>1. After(p, u) = After(p, w)
      BY <1>9, <2>4, WordOrder
    <3>2. p \prec F[q] /\ After(p, F[j]) # After(p, F[q])
      BY <1>6, <1>8, <2>2, <2>4, <3>1
    <3>3. \E k \in 1..n : F[k] = p
      BY <1>6, <1>7, <2>2, <3>2, PartIsNode
    <3> QED BY <1>8, <3>3
  <2>5. CASE u \prec p
    <3>1. u # w /\ u \prec F[j]
      BY <1>9, <2>2, <2>5, WordOrder DEF \prec
    <3>2. PICK c \in K[q] : F[c] \preceq F[j]
      BY <1>6, <1>7, <1>8, <3>1 DEF Tree
    <3>3. c \in 1..n /\ u \prec F[c] /\ F[c] \in Seq(C)
      BY <1>6, <1>7, <1>8, <3>2 DEF Tree
    <3>4. After(u, F[c]) = After(u, F[j])
      BY <1>9, <2>2, <3>2, <3>3, WordOrder
    <3>5. After(u, p) = After(u, F[j]) /\ After(u, p) = After(u, w)
      BY <1>9, <2>2, <2>5, WordOrder DEF \prec
    <3>6. After(u, R[c].fullpath) # After(u, w)
      BY <3>1, <3>2 DEF NoKid
    <3> QED BY <1>8, <3>3, <3>4, <3>5, <3>6
  <2>6. p \preceq u \/ u \preceq p
    BY <1>9, <2>2, WordOrder DEF \prec
  <2> QED BY <2>3, <2>4, <2>5, <2>6 DEF \prec
<1>15. ASSUME NEW p, Named(C, V, p) PROVE p \in Fulls(R) \cup {w}
  <2>1. p \in Seq(C)
    BY <1>15 DEF Named
  <2>2. CASE p = <<>>
    BY <1>7, <1>8, <2>2
  <2>3. CASE Radix!IsWord(p, V)
    <3>1. PICK x \in V : x[1] = p
      BY <2>3 DEF Radix!IsWord
    <3>2. CASE x \in W
      <4>1. Named(C, W, p)
        BY <2>1, <3>1, <3>2 DEF Named, Radix!IsWord
      <4> QED BY <1>4, <1>10, <4>1
    <3>3. CASE x = z
      BY <1>1, <3>1, <3>3
    <3> QED BY <1>3, <3>2, <3>3
  <2>4. ASSUME NEW x \in V, NEW y \in V, PartAt(p, x[1], y[1]) PROVE p \in Fulls(R)
    <3>1. CASE x \in W /\ y \in W
      <4>1. Named(C, W, p)
        BY <2>1, <2>4, <3>1 DEF Named
      <4> QED BY <1>4, <1>10, <4>1
    <3>2. CASE x \in W /\ y = z
      BY <1>1, <1>14, <2>1, <2>4, <3>2
    <3>3. CASE x = z /\ y \in W
      <4>1. PartAt(p, y[1], w)
        BY <1>1, <2>4, <3>3 DEF PartAt
      <4> QED BY <1>14, <2>1, <3>3, <4>1
    <3>4. CASE x = z /\ y = z
      BY <2>4, <3>4 DEF PartAt
    <3> QED BY <1>3, <3>1, <3>2, <3>3, <3>4
  <2> QED BY <1>15, <2>2, <2>3, <2>4 DEF Named
<1>16. \A p : p \in Radix!NodesOf(V) <=> p \in Fulls(R) \cup {w}
  BY <1>4, <1>5, <1>10, <1>11, <1>12, <1>13, <1>15, Zenon
<1>17. Radix!NodesOf(V) = Fulls(R) \cup {w}
  BY <1>16, Zenon
<1> QED BY <1>17 DEF V, z

-----------------------------------------------------------------------------
(* One word more.                                                          *)

Holds(C, T, W) == /\ Built(C, T) /\ Fulls(T) = Radix!NodesOf(W)
                  /\ \A j \in 1..Len(T) : Weighs(T[j], W, 0, 0)

LEMMA BelowGrows ==
    ASSUME NEW C, NEW W, WordSet(C, W), NEW w \in Seq(C), NEW size \in Int, ~Radix!IsWord(w, W),
           NEW p \in Seq(C), NEW V, V = W \cup {<<w, size>>}
    PROVE  /\ WordSet(C, V)
           /\ p \preceq w =>
                /\ WordSizes(Radix!Below(p, V)) = WordSizes(Radix!Below(p, W)) + size
                /\ Cardinality(Radix!Below(p, V)) = Cardinality(Radix!Below(p, W)) + 1
           /\ ~(p \preceq w) => Radix!Below(p, V) = Radix!Below(p, W)
           /\ Radix!IsWord(p, V) <=> (Radix!IsWord(p, W) \/ p = w)
<1> DEFINE z == <<w, size>>
<1>1. z[1] = w /\ z[2] = size
  OBVIOUS
<1>2. V = W \cup {z}
  OBVIOUS
<1> HIDE DEF z
<1>3. z \notin W
  BY <1>1 DEF Radix!IsWord
<1>4. WordSet(C, V)
  <2>1. IsFiniteSet(W)
    BY DEF WordSet
  <2>2. IsFiniteSet(W \cup {z})
    BY <2>1, FS_AddElement, Zenon
  <2> QED BY <1>1, <1>2, <2>2 DEF WordSet
<1>5. /\ Radix!Below(p, W) = {x \in W : p \preceq x[1]}
      /\ Radix!Below(p, V) = {x \in V : p \preceq x[1]}
      /\ IsFiniteSet(Radix!Below(p, W))
      /\ WordSizes(Radix!Below(p, W)) \in Int
      /\ Cardinality(Radix!Below(p, W)) \in Nat
  BY <1>4, BelowIs
<1>6. ASSUME p \preceq w
      PROVE  /\ WordSizes(Radix!Below(p, V)) = WordSizes(Radix!Below(p, W)) + size
             /\ Cardinality(Radix!Below(p, V)) = Cardinality(Radix!Below(p, W)) + 1
  <2> DEFINE B == Radix!Below(p, W)
  <2>1. Radix!Below(p, V) = B \cup {z}
    BY <1>1, <1>2, <1>5, <1>6
  <2>2. z \notin B /\ IsFiniteSet(B) /\ \A v \in B \cup {z} : v[2] \in Int
    BY <1>1, <1>3, <1>5 DEF WordSet
  <2> HIDE DEF B
  <2>3. WordSizes(B \cup {z}) = WordSizes(B) + z[2]
    BY <2>2, WordSizesGrow
  <2>4. Cardinality(B \cup {z}) = Cardinality(B) + 1
    BY <2>2, FS_AddElement
  <2> QED BY <1>1, <2>1, <2>3, <2>4 DEF B
<1>7. ~(p \preceq w) => Radix!Below(p, V) = Radix!Below(p, W)
  BY <1>1, <1>2, <1>5
<1>8. Radix!IsWord(p, V) <=> (Radix!IsWord(p, W) \/ p = w)
  BY <1>1, <1>2 DEF Radix!IsWord
<1> QED BY <1>4, <1>6, <1>7, <1>8

(* What a node must say before w is one of the words. *)
Ready(node, W, w, size) ==
    /\ node.fullpath \preceq w =>
         /\ node.totalSize = WordSizes(Radix!Below(node.fullpath, W)) + size
         /\ node.keyCount = Cardinality(Radix!Below(node.fullpath, W)) + 1
    /\ ~(node.fullpath \preceq w) =>
         /\ node.totalSize = WordSizes(Radix!Below(node.fullpath, W)) + 0
         /\ node.keyCount = Cardinality(Radix!Below(node.fullpath, W)) + 0
    /\ node.end = (Radix!IsWord(node.fullpath, W) \/ node.fullpath = w)

LEMMA WeighsGrow ==
    ASSUME NEW C, NEW W, WordSet(C, W), NEW w \in Seq(C), NEW size \in Int, ~Radix!IsWord(w, W),
           NEW node, node.fullpath \in Seq(C), Ready(node, W, w, size)
    PROVE  Weighs(node, W \cup {<<w, size>>}, 0, 0)
<1> DEFINE V == W \cup {<<w, size>>}
           p == node.fullpath
<1>1. p \in Seq(C) /\ V = W \cup {<<w, size>>}
  OBVIOUS
<1>2. /\ node.end = (Radix!IsWord(p, W) \/ p = w)
      /\ p \preceq w => node.totalSize = WordSizes(Radix!Below(p, W)) + size
                        /\ node.keyCount = Cardinality(Radix!Below(p, W)) + 1
      /\ ~(p \preceq w) => node.totalSize = WordSizes(Radix!Below(p, W)) + 0
                           /\ node.keyCount = Cardinality(Radix!Below(p, W)) + 0
  BY Zenon DEF Ready
<1> HIDE DEF V, p
<1>3. /\ WordSet(C, V)
      /\ p \preceq w => WordSizes(Radix!Below(p, V)) = WordSizes(Radix!Below(p, W)) + size
                        /\ Cardinality(Radix!Below(p, V)) = Cardinality(Radix!Below(p, W)) + 1
      /\ ~(p \preceq w) => Radix!Below(p, V) = Radix!Below(p, W)
      /\ Radix!IsWord(p, V) <=> (Radix!IsWord(p, W) \/ p = w)
  BY <1>1, BelowGrows
<1>4. WordSizes(Radix!Below(p, V)) \in Int /\ Cardinality(Radix!Below(p, V)) \in Nat
  BY <1>1, <1>3, BelowIs
<1>5. Radix!IsWord(p, V) \in BOOLEAN
  BY DEF Radix!IsWord
<1>6. node.end = Radix!IsWord(p, V)
  BY <1>2, <1>3, <1>5, Zenon
<1>7. CASE p \preceq w
  <2>1. /\ node.totalSize = WordSizes(Radix!Below(p, V)) + 0
        /\ node.keyCount = Cardinality(Radix!Below(p, V)) + 0
    BY <1>2, <1>3, <1>4, <1>7
  <2> QED BY <1>6, <2>1 DEF Weighs, p, V
<1>8. CASE ~(p \preceq w)
  <2>1. /\ node.totalSize = WordSizes(Radix!Below(p, V)) + 0
        /\ node.keyCount = Cardinality(Radix!Below(p, V)) + 0
    BY <1>2, <1>3, <1>4, <1>8
  <2> QED BY <1>6, <2>1 DEF Weighs, p, V
<1> QED BY <1>7, <1>8

(* The word ends in a node. *)
LEMMA EndHolds ==
    ASSUME NEW C, NEW W, WordSet(C, W), NEW w \in Seq(C), NEW size \in Int, ~Radix!IsWord(w, W),
           NEW T, Built(C, T), Fulls(T) = Radix!NodesOf(W),
           NEW q, NEW R, NEW rest, Fit(C, W, w, size, T, q, R, w, rest),
           NEW H, Tallied(C, W, size, R, q, w, H)
    PROVE  Holds(C, Ended(H, q), W \cup {<<w, size>>})
<1> DEFINE Q == Ended(H, q)
           V == W \cup {<<w, size>>}
<1>1. Radix!NodesOf(V) = Fulls(R) \cup {w}
  <2>1. NoKid(R, q, w, w)
    BY DEF NoKid
  <2> QED BY <2>1, NodesGrow
<1>2. /\ q \in 1..Len(R) /\ R[q].fullpath = w /\ Built(C, R)
      /\ Built(C, H) /\ CountsTo(H, W, size, w) /\ Fulls(H) = Fulls(R) /\ Len(H) = Len(R)
      /\ H[q].fullpath = w /\ H \in Seq(Node(C))
  BY Zenon DEF Fit, Tallied
<1>3. /\ Q \in Seq(Node(C)) /\ SameShape(H, Q)
      /\ \A j \in 1..Len(H) : j # q => Q[j] = H[j]
      /\ Q[q].totalSize = H[q].totalSize /\ Q[q].keyCount = H[q].keyCount /\ Q[q].end = TRUE
  <2>1. EndSet(C, H, q)
    BY <1>2, EndedIs
  <2> QED BY <2>1, Zenon DEF EndSet
<1> HIDE DEF Q, V
<1>4. Built(C, Q) /\ FullOf(Q) = FullOf(H)
  BY <1>2, <1>3, SameBuilt
<1>5. /\ Len(Q) = Len(H) /\ \A j \in 1..Len(H) : Q[j].fullpath = H[j].fullpath
  BY <1>3 DEF SameShape
<1>6. DOMAIN Q = 1..Len(H) /\ DOMAIN H = 1..Len(H) /\ DOMAIN R = 1..Len(H)
  BY <1>2, <1>3, <1>5 DEF Built
<1>7. w \in Fulls(R)
  BY <1>2, <1>6 DEF Fulls
<1>8. Fulls(Q) = Radix!NodesOf(V)
  <2>1. Fulls(Q) = Fulls(H)
    BY <1>5, <1>6 DEF Fulls
  <2> QED BY <1>1, <1>2, <1>7, <2>1
<1>9. \A j \in 1..Len(H) : H[j].fullpath \in Seq(C) /\ (H[j].fullpath = w => j = q)
  <2>1. \A i, j \in 1..Len(H) : FullOf(H)[i] = FullOf(H)[j] => i = j
    BY <1>2 DEF Built, Tree
  <2>2. \A j \in 1..Len(H) : FullOf(H)[j] = H[j].fullpath /\ H[j].fullpath \in Seq(C)
    BY <1>2, NodeTypes
  <2> QED BY <1>2, <2>1, <2>2
<1>10. ASSUME NEW j \in 1..Len(Q) PROVE Weighs(Q[j], V, 0, 0)
  <2>1. j \in 1..Len(H) /\ Q[j].fullpath = H[j].fullpath /\ Q[j].fullpath \in Seq(C)
    BY <1>5, <1>9
  <2>2. /\ H[j].fullpath \preceq w => Weighs(H[j], W, size, 1)
        /\ ~(H[j].fullpath \preceq w) => Weighs(H[j], W, 0, 0)
    BY <1>2, <2>1 DEF CountsTo
  <2>3. CASE j = q
    <3>1. w \preceq w
      BY WordOrder
    <3>2. Weighs(H[q], W, size, 1)
      BY <1>2, <2>2, <2>3, <3>1
    <3>3. Ready(Q[q], W, w, size)
      <4>1. /\ Q[q].totalSize = WordSizes(Radix!Below(w, W)) + size
            /\ Q[q].keyCount = Cardinality(Radix!Below(w, W)) + 1
            /\ Q[q].fullpath = w /\ Q[q].end = TRUE
        BY <1>2, <1>3, <2>1, <2>3, <3>2 DEF Weighs
      <4> QED BY <3>1, <4>1, Zenon DEF Ready
    <3> QED BY <2>1, <2>3, <3>3, WeighsGrow DEF V
  <2>4. CASE j # q
    <3>1. Q[j] = H[j] /\ H[j].fullpath # w
      BY <1>3, <1>9, <2>1, <2>4
    <3>2. Radix!IsWord(H[j].fullpath, W) \in BOOLEAN
      BY DEF Radix!IsWord
    <3>3. Ready(H[j], W, w, size)
      BY <2>2, <3>1, <3>2, Zenon DEF Ready, Weighs
    <3> QED BY <2>1, <3>1, <3>3, WeighsGrow DEF V
  <2> QED BY <2>3, <2>4
<1> QED BY <1>4, <1>8, <1>10 DEF Holds, Q, V

(* The word leaves the tree at q: a new leaf. *)
LEMMA LeafHolds ==
    ASSUME NEW C, NEW W, WordSet(C, W), NEW w \in Seq(C), NEW size \in Int, ~Radix!IsWord(w, W),
           NEW T, Built(C, T), Fulls(T) = Radix!NodesOf(W),
           NEW q, NEW R, NEW u, NEW rest, Fit(C, W, w, size, T, q, R, u, rest), NoKid(R, q, u, w),
           rest # <<>>,
           NEW H, Tallied(C, W, size, R, q, u, H)
    PROVE  Holds(C, Radix!AddLeaf(H, q, rest, w, size), W \cup {<<w, size>>})
<1> DEFINE Q == Radix!AddLeaf(H, q, rest, w, size)
           V == W \cup {<<w, size>>}
           n == Len(H)
<1>1. Radix!NodesOf(V) = Fulls(R) \cup {w}
  BY NodesGrow
<1>2. /\ q \in 1..Len(R) /\ R[q].fullpath = u /\ Built(C, R) /\ Goes(C, w, u, rest)
      /\ Built(C, H) /\ CountsTo(H, W, size, u) /\ Fulls(H) = Fulls(R) /\ n = Len(R)
      /\ H[q].fullpath = u /\ H \in Seq(Node(C)) /\ KidsOf(H) = KidsOf(R) /\ FullOf(H) = FullOf(R)
      /\ HasWords(H, W) /\ SameShape(R, H)
  BY Zenon DEF Fit, Tallied
<1>3. /\ u \in Seq(C) /\ rest \in Seq(C) /\ u # w /\ u \preceq w /\ u \prec w /\ w = u \o rest
  BY <1>2 DEF Goes, \prec
<1>4. /\ \A j \in 1..n : FullOf(H)[j] = H[j].fullpath /\ H[j].fullpath \in Seq(C)
      /\ Tree(C, n, FullOf(H), KidsOf(H)) /\ n \in Nat \ {0}
  <2>1. Tree(C, n, FullOf(H), KidsOf(H)) /\ n \in Nat \ {0}
    BY <1>2 DEF Built, Tree
  <2> QED BY <1>2, <2>1, NodeTypes
<1>5. \A c \in KidsOf(H)[q] : /\ c \in 1..n /\ H[c].fullpath = R[c].fullpath
                              /\ After(u, H[c].fullpath) # After(u, w)
  <2> TAKE c \in KidsOf(H)[q]
  <2>1. c \in 1..n
    BY <1>2, <1>4 DEF Tree
  <2>2. H[c].fullpath = R[c].fullpath
    BY <1>2, <2>1 DEF SameShape
  <2> QED BY <1>2, <1>3, <2>1, <2>2 DEF NoKid
<1>18. Apart(FullOf(H), KidsOf(H), q, w)
  <2>1. FullOf(H)[q] = u /\ q \in 1..n
    BY <1>2, <1>4
  <2> QED BY <1>4, <1>5, <2>1 DEF Apart
<1>6. Built(C, Q) /\ FullOf(Q) = LeafF(n, FullOf(H), w)
  <2>1. q \in 1..Len(H) /\ Continues(H, q, rest, w)
    BY <1>2, <1>3 DEF Continues
  <2>2. Grown(C, H, w, Q)
    BY <1>2, <1>3, <1>18, <2>1, LeafBuilt
  <2> QED BY <2>2 DEF Grown
<1>7. /\ Q \in Seq(Node(C)) /\ Len(Q) = n + 1
      /\ \A j \in 1..n : j # q => Q[j] = H[j]
      /\ Q[n + 1] = Radix!NewNode(rest, w, TRUE, <<>>, size, 1)
      /\ Q[q] = [H[q] EXCEPT !.children = Append(@, n + 1)]
  <2>1. LeafAdded(C, H, q, rest, w, size)
    BY <1>2, <1>3, AddLeafIs
  <2> QED BY <2>1, Zenon DEF LeafAdded
<1>8. /\ Q[n + 1].fullpath = w /\ Q[n + 1].end = TRUE /\ Q[n + 1].totalSize = size
      /\ Q[n + 1].keyCount = 1
  BY <1>7 DEF Radix!NewNode
<1>9. \A j \in 1..n : /\ Q[j].fullpath = H[j].fullpath /\ Q[j].end = H[j].end
                      /\ Q[j].totalSize = H[j].totalSize /\ Q[j].keyCount = H[j].keyCount
  <2> TAKE j \in 1..n
  <2>1. \A x \in Node(C) : \A c :
          /\ [x EXCEPT !.children = c].end = x.end /\ [x EXCEPT !.children = c].fullpath = x.fullpath
          /\ [x EXCEPT !.children = c].totalSize = x.totalSize
          /\ [x EXCEPT !.children = c].keyCount = x.keyCount
    BY DEF Node
  <2>2. CASE j = q
    <3>1. H[q] \in Node(C)
      BY <1>2
    <3> DEFINE k == Append(H[q].children, n + 1)
    <3>2. Q[q] = [H[q] EXCEPT !.children = k]
      BY <1>7
    <3> HIDE DEF k, Q
    <3>3. /\ Q[q].fullpath = H[q].fullpath /\ Q[q].end = H[q].end
          /\ Q[q].totalSize = H[q].totalSize /\ Q[q].keyCount = H[q].keyCount
      BY <2>1, <3>1, <3>2
    <3> QED BY <2>2, <3>3
  <2>3. CASE j # q
    BY <1>7, <2>3
  <2> QED BY <2>2, <2>3
<1> HIDE DEF Q, V, n
<1>16. \A m \in Nat : 1..(m + 1) = 1..m \cup {m + 1} /\ m + 1 \notin 1..m
  OBVIOUS
<1>17. 1..(n + 1) = 1..n \cup {n + 1} /\ n + 1 \notin 1..n /\ DOMAIN Q = 1..(n + 1) /\ DOMAIN H = 1..n
  BY <1>2, <1>4, <1>7, <1>16 DEF n
<1>10. Fulls(Q) = Radix!NodesOf(V)
  <2>1. ASSUME NEW x PROVE x \in Fulls(Q) <=> x \in Fulls(H) \cup {w}
    BY <1>8, <1>9, <1>17 DEF Fulls
  <2>2. Fulls(Q) = Fulls(H) \cup {w}
    BY <2>1, Zenon
  <2> QED BY <1>1, <1>2, <2>2
<1>11. \A j \in 1..n : ~(w \preceq H[j].fullpath) /\ (H[j].fullpath \preceq w <=> H[j].fullpath \preceq u)
  <2> TAKE j \in 1..n
  <2>1. FullOf(H)[q] = u /\ q \in 1..n
    BY <1>2, <1>4
  <2>3. ~(w \preceq FullOf(H)[j]) /\ (FullOf(H)[j] \preceq w => FullOf(H)[j] \preceq FullOf(H)[q])
    BY <1>3, <1>4, <1>18, <2>1, NoneThrough
  <2>4. H[j].fullpath \preceq u => H[j].fullpath \preceq w
    BY <1>3, <1>4, WordOrder
  <2> QED BY <1>4, <2>1, <2>3, <2>4
<1>12. w \preceq w
  BY WordOrder
<1>13. Radix!Below(w, W) = {}
  <2>1. Radix!Below(w, W) = {x \in W : w \preceq x[1]}
    BY BelowIs
  <2>2. \A x \in W : ~(w \preceq x[1])
    <3> TAKE x \in W
    <3>1. PICK j \in 1..n : H[j].fullpath = x[1]
      BY <1>2 DEF HasWords, n
    <3> QED BY <1>11, <3>1
  <2> QED BY <2>1, <2>2
<1>14. ASSUME NEW j \in 1..(n + 1) PROVE Weighs(Q[j], V, 0, 0)
  <2>1. CASE j = n + 1
    <3>1. WordSizes(Radix!Below(w, W)) = 0 /\ Cardinality(Radix!Below(w, W)) = 0
      BY <1>13, NoWordSizes, FS_EmptySet
    <3>2. size = WordSizes(Radix!Below(w, W)) + size /\ 1 = Cardinality(Radix!Below(w, W)) + 1
      BY <3>1
    <3>3. Ready(Q[n + 1], W, w, size)
      BY <1>8, <1>12, <3>2, Zenon DEF Ready
    <3> QED BY <1>8, <2>1, <3>3, WeighsGrow DEF V
  <2>2. CASE j \in 1..n
    <3>1. /\ H[j].fullpath \preceq u => Weighs(H[j], W, size, 1)
          /\ ~(H[j].fullpath \preceq u) => Weighs(H[j], W, 0, 0)
      BY <1>2, <2>2 DEF CountsTo, n
    <3>2. /\ H[j].fullpath \preceq w => Weighs(H[j], W, size, 1)
          /\ ~(H[j].fullpath \preceq w) => Weighs(H[j], W, 0, 0)
      BY <1>11, <2>2, <3>1
    <3>3. H[j].fullpath # w
      BY <1>11, <1>12, <2>2
    <3>4. Radix!IsWord(H[j].fullpath, W) \in BOOLEAN
      BY DEF Radix!IsWord
    <3>5. Ready(H[j], W, w, size)
      BY <3>2, <3>3, <3>4, Zenon DEF Ready, Weighs
    <3>6. /\ Q[j].fullpath = H[j].fullpath /\ Q[j].end = H[j].end
          /\ Q[j].totalSize = H[j].totalSize /\ Q[j].keyCount = H[j].keyCount
      BY <1>9, <2>2
    <3>7. Ready(Q[j], W, w, size)
      BY <3>5, <3>6, Zenon DEF Ready
    <3>8. Q[j].fullpath \in Seq(C)
      BY <1>4, <2>2, <3>6
    <3> QED BY <3>7, <3>8, WeighsGrow DEF V
  <2> QED BY <1>17, <2>1, <2>2
<1> QED BY <1>6, <1>7, <1>10, <1>14 DEF Holds, Q, V

(* The word goes on below a child of q. *)
LEMMA NextAt ==
    ASSUME NEW C, NEW W, WordSet(C, W), NEW w \in Seq(C), NEW size \in Int,
           NEW T, Built(C, T), 
           NEW q, NEW R, NEW u, NEW rest, Fit(C, W, w, size, T, q, R, u, rest),
           rest # <<>>,
           NEW H, Tallied(C, W, size, R, q, u, H),
           NEW c \in KidsOf(H)[q], H[c].path[1] = rest[1]
    PROVE  /\ Built(C, H) /\ HasWords(H, W) /\ Fulls(H) = Fulls(T)
           /\ c \in 1..Len(H) /\ AtTurn(H, w, c, rest) /\ Counts(H, W, size, H[c].fullpath)
           /\ rest \in Seq(C)
<1>1. /\ q \in 1..Len(R) /\ R[q].fullpath = u /\ Goes(C, w, u, rest)
      /\ Built(C, H) /\ CountsTo(H, W, size, u) /\ Fulls(H) = Fulls(R) /\ Len(H) = Len(R)
      /\ H[q].fullpath = u /\ H \in Seq(Node(C)) /\ KidsOf(H) = KidsOf(R)
      /\ HasWords(H, W) /\ SameShape(R, H)
  BY Zenon DEF Fit, Tallied
<1>2. /\ u \in Seq(C) /\ rest \in Seq(C) /\ u # w /\ w = u \o rest /\ rest[1] = After(u, w)
  BY <1>1 DEF Goes
<1>3. q \in 1..Len(H)
  BY <1>1
<1>4. /\ c \in 1..Len(H) /\ u \prec H[c].fullpath /\ H[c].path[1] = After(u, H[c].fullpath)
  <2>1. Hung(C, H, q, c)
    BY <1>1, <1>3, HungIs
  <2> QED BY <1>1, <2>1, Zenon DEF Hung
<1>5. H[c].fullpath = R[c].fullpath
  BY <1>1, <1>4 DEF SameShape
<1>6. R = T
  <2>1. c \in KidsOf(R)[q] /\ After(u, R[c].fullpath) = After(u, w)
    BY <1>1, <1>2, <1>4, <1>5
  <2> QED BY <1>2, <2>1 DEF Fit
<1>7. AtTurn(H, w, c, rest)
  <2>1. AtChild(H, w, q, c, rest)
    BY <1>1, <1>2 DEF AtChild
  <2> QED BY <1>3, <2>1 DEF AtTurn
<1>8. ASSUME NEW j \in 1..Len(H)
      PROVE  H[j].fullpath \prec H[c].fullpath <=> H[j].fullpath \preceq u
  <2> DEFINE F == FullOf(H)
             K == KidsOf(H)
             n == Len(H)
  <2>1. Tree(C, n, F, K)
    BY <1>1 DEF Built
  <2>2. /\ F[j] = H[j].fullpath /\ F[c] = H[c].fullpath /\ F[q] = u
        /\ F[j] \in Seq(C) /\ F[c] \in Seq(C)
    BY <1>1, <1>3, <1>4, NodeTypes
  <2>3. ~Between(n, F, F[q], F[c])
    BY <1>3, <2>1 DEF Tree
  <2>4. ~(F[q] \prec F[j] /\ F[j] \prec F[c])
    BY <2>3, Zenon DEF Between
  <2> HIDE DEF F, K, n
  <2>5. F[j] \prec F[c] => F[j] \preceq u
    <3> HAVE F[j] \prec F[c]
    <3>1. ~(u \prec F[j])
      BY <2>2, <2>4
    <3>2. F[j] \preceq u \/ u \preceq F[j]
      BY <1>2, <1>4, <2>2, WordOrder DEF \prec
    <3>3. u \preceq u
      BY <1>2, WordOrder
    <3> QED BY <3>1, <3>2, <3>3 DEF \prec
  <2>6. F[j] \preceq u => F[j] \prec F[c]
    BY <1>2, <1>4, <2>2, WordOrder DEF \prec
  <2> QED BY <2>2, <2>5, <2>6
<1>9. Counts(H, W, size, H[c].fullpath)
  BY <1>1, <1>8 DEF Counts, CountsTo
<1> QED BY <1>1, <1>2, <1>4, <1>6, <1>7, <1>9

(* Where the loop is before a turn, and when it has ended. *)
Way(C, W, w, size, s) ==
    /\ Built(C, s.tree) /\ HasWords(s.tree, W) /\ Fulls(s.tree) = Radix!NodesOf(W)
    /\ s.node \in 1..Len(s.tree) /\ s.word \in Seq(C) /\ AtTurn(s.tree, w, s.node, s.word)
    /\ Counts(s.tree, W, size, s.tree[s.node].fullpath)
Arrived(C, W, w, size, s) == s.node = 0 /\ Holds(C, s.tree, W \cup {<<w, size>>})

LEMMA TurnIs ==
    ASSUME NEW C, NEW W, WordSet(C, W), NEW w \in Seq(C), NEW size \in Int, ~Radix!IsWord(w, W),
           NEW s, Way(C, W, w, size, s)
    PROVE  \/ Arrived(C, W, w, size, Radix!Turn(s, w, size))
           \/ /\ Way(C, W, w, size, Radix!Turn(s, w, size))
              /\ Radix!Turn(s, w, size).node # 1
              /\ Len(Radix!Turn(s, w, size).word) <= Len(s.word)
              /\ s.node # 1 => Len(Radix!Turn(s, w, size).word) < Len(s.word)
<1> DEFINE T == s.tree
           q == s.node
           word == s.word
           i == Lcp(T, q, word)
           R == Fitted(T, q, word)
           u == R[q].fullpath
           rest == Radix!From(word, i + 1)
           H == Radix!Counted(R, q, size)
           next == {c \in Elements(H[q].children) : H[c].path[1] = rest[1]}
           t == Radix!Turn(s, w, size)
<1>1. /\ Built(C, T) /\ HasWords(T, W) /\ Fulls(T) = Radix!NodesOf(W)
      /\ q \in 1..Len(T) /\ word \in Seq(C) /\ AtTurn(T, w, q, word)
      /\ Counts(T, W, size, T[q].fullpath)
  BY DEF Way
<1>2. q # 0 /\ Len(T) \in Nat
  BY <1>1 DEF Built
<1>3. i \in Nat /\ (i # 0 \/ q = 1) /\ Fit(C, W, w, size, T, q, R, u, rest)
  <2> HIDE DEF T, q, word
  <2> QED BY <1>1, FitIs
<1>4. i > 0 \/ q = 1
  BY <1>3
<1>5. t = IF rest = <<>> THEN [tree |-> Ended(H, q), node |-> 0, word |-> rest]
          ELSE IF next = {} THEN [tree |-> Radix!AddLeaf(H, q, rest, w, size), node |-> 0, word |-> rest]
          ELSE [tree |-> H, node |-> CHOOSE c \in next : TRUE, word |-> rest]
  <2>1. q # Radix!None /\ (i > 0 \/ q = Radix!Root)
    BY <1>2, <1>4 DEF Radix!None, Radix!Root
  <2> QED BY <2>1, Zenon DEF Radix!Turn, Lcp, Fitted, Ended, Radix!None, Radix!ToSet, Elements
<1>6. Tallied(C, W, size, R, q, u, H)
  <2>1. Built(C, R) /\ HasWords(R, W) /\ q \in 1..Len(R) /\ Counts(R, W, size, u)
    BY <1>3 DEF Fit
  <2> HIDE DEF R, T, q, word
  <2> QED BY <2>1, CountedCounts
<1> HIDE DEF T, q, word, i, R, u, H, next, t, rest
<1>7. CASE rest = <<>>
  <2>1. u = w
    BY <1>3, <1>7 DEF Fit, Goes
  <2>2. Holds(C, Ended(H, q), W \cup {<<w, size>>})
    BY <1>1, <1>3, <1>6, <2>1, EndHolds
  <2>3. t = [tree |-> Ended(H, q), node |-> 0, word |-> rest]
    BY <1>5, <1>7
  <2> QED BY <2>2, <2>3 DEF Arrived, t
<1>8. CASE rest # <<>> /\ next = {}
  <2>1. H \in Seq(Node(C)) /\ q \in 1..Len(H) /\ KidsOf(H) = KidsOf(R) /\ Built(C, H) /\ H[q].fullpath = u
        /\ SameShape(R, H)
    BY <1>3, <1>6, Zenon DEF Tallied, Fit
  <2>2. NoKid(R, q, u, w)
    <3> SUFFICES ASSUME u # w, NEW c \in KidsOf(R)[q] PROVE After(u, R[c].fullpath) # After(u, w)
      BY DEF NoKid
    <3>1. c \in KidsOf(H)[q] /\ KidsOf(H)[q] = Elements(H[q].children)
      BY <2>1, NodeTypes
    <3>2. H[c].path[1] # rest[1]
      BY <1>8, <3>1 DEF next
    <3>3. rest[1] = After(u, w)
      BY <1>3, <1>8 DEF Fit, Goes
    <3>4. Hung(C, H, q, c)
      BY <2>1, <3>1, HungIs
    <3>5. H[c].path[1] = After(u, H[c].fullpath) /\ c \in 1..Len(H)
      BY <2>1, <3>4, Zenon DEF Hung
    <3>6. H[c].fullpath = R[c].fullpath
      BY <2>1, <3>5 DEF SameShape
    <3> QED BY <3>2, <3>3, <3>5, <3>6
  <2>3. Holds(C, Radix!AddLeaf(H, q, rest, w, size), W \cup {<<w, size>>})
    BY <1>1, <1>3, <1>6, <1>8, <2>2, LeafHolds
  <2>4. t = [tree |-> Radix!AddLeaf(H, q, rest, w, size), node |-> 0, word |-> rest]
    BY <1>5, <1>8
  <2> QED BY <2>3, <2>4 DEF Arrived, t
<1>9. CASE rest # <<>> /\ next # {}
  <2> DEFINE c == CHOOSE c \in next : TRUE
  <2>1. t = [tree |-> H, node |-> c, word |-> rest]
    BY <1>5, <1>9
  <2>2. c \in next
    BY <1>9
  <2> HIDE DEF c
  <2>3. H \in Seq(Node(C)) /\ q \in 1..Len(H) /\ Built(C, H) /\ H[q].fullpath = u
    BY <1>3, <1>6, Zenon DEF Tallied, Fit
  <2>4. c \in KidsOf(H)[q] /\ H[c].path[1] = rest[1]
    <3>1. KidsOf(H)[q] = Elements(H[q].children)
      BY <2>3, NodeTypes
    <3> QED BY <2>2, <3>1 DEF next
  <2>5. /\ Built(C, H) /\ HasWords(H, W) /\ Fulls(H) = Fulls(T)
        /\ c \in 1..Len(H) /\ AtTurn(H, w, c, rest) /\ Counts(H, W, size, H[c].fullpath)
        /\ rest \in Seq(C)
    BY <1>1, <1>3, <1>6, <1>9, <2>4, NextAt
  <2>6. Way(C, W, w, size, t)
    BY <1>1, <2>1, <2>5 DEF Way
  <2>7. c # 1
    <3>1. Hung(C, H, q, c)
      BY <2>3, <2>4, HungIs
    <3>2. u \prec H[c].fullpath
      BY <2>3, <3>1 DEF Hung
    <3>3. FullOf(H)[1] = <<>> /\ 1 \in 1..Len(H)
      BY <2>3 DEF Built, Tree
    <3>4. H[1].fullpath = <<>>
      BY <2>3, <3>3, NodeTypes
    <3>5. u \in Seq(C)
      BY <1>3 DEF Fit, Goes
    <3>6. ~(u \prec <<>>)
      <4>1. Len(u) \in Nat /\ Len(<<>>) = 0 /\ (Len(u) = 0 => u = <<>>)
        BY <3>5
      <4> QED BY <4>1 DEF \prec, \preceq
    <3> QED BY <3>2, <3>4, <3>6
  <2>8. Len(rest) = Len(word) - i /\ Len(word) \in Nat
    <3>1. i <= Len(word)
      <4>1. T[q].path \in Seq(C)
        BY <1>1, NodeTypes DEF Built
      <4>2. Common(word, T[q].path, i)
        BY <1>1, <4>1, CommonPrefix DEF i, Lcp
      <4> QED BY <4>2 DEF Common
    <3> QED BY <1>1, <1>3, <3>1, Rest DEF rest
  <2>9. Len(rest) <= Len(word) /\ (q # 1 => Len(rest) < Len(word))
    BY <1>3, <2>8
  <2>10. t.word = rest /\ t.node = c
    BY <2>1
  <2> QED BY <2>6, <2>7, <2>9, <2>10 DEF t, word, q
<1> QED BY <1>7, <1>8, <1>9

LEMMA NothingBefore ==
    ASSUME NEW C, NEW p \in Seq(C)
    PROVE  ~(p \prec <<>>) /\ <<>> \preceq p
<1>1. Len(p) \in Nat /\ Len(<<>>) = 0 /\ (Len(p) = 0 => p = <<>>)
  OBVIOUS
<1> QED BY <1>1 DEF \prec, \preceq

LEMMA WayBegins ==
    ASSUME NEW C, NEW W, WordSet(C, W), NEW T, Holds(C, T, W), NEW w \in Seq(C), NEW size
    PROVE  Way(C, W, w, size, [tree |-> T, node |-> 1, word |-> w])
<1>1. Built(C, T) /\ Fulls(T) = Radix!NodesOf(W) /\ \A j \in 1..Len(T) : Weighs(T[j], W, 0, 0)
  BY DEF Holds
<1>2. T \in Seq(Node(C)) /\ Len(T) \in Nat \ {0} /\ FullOf(T)[1] = <<>> /\ DOMAIN T = 1..Len(T)
  BY <1>1 DEF Built, Tree
<1>3. 1 \in 1..Len(T) /\ T[1].fullpath = <<>>
  <2>1. 1 \in 1..Len(T)
    BY <1>2
  <2> QED BY <1>2, <2>1, NodeTypes
<1>4. HasWords(T, W)
  <2> SUFFICES ASSUME NEW x \in W PROVE \E j \in 1..Len(T) : T[j].fullpath = x[1]
    BY DEF HasWords
  <2>1. x[1] \in Seq(C) /\ Radix!IsWord(x[1], W)
    BY DEF WordSet, Radix!IsWord
  <2>2. Named(C, W, x[1])
    BY <2>1 DEF Named
  <2>3. x[1] \in Fulls(T)
    BY <1>1, <2>2, NodesOfIs
  <2> QED BY <1>2, <2>3 DEF Fulls
<1>5. Counts(T, W, size, T[1].fullpath)
  <2> SUFFICES ASSUME NEW j \in 1..Len(T) PROVE ~(T[j].fullpath \prec <<>>)
    BY <1>1, <1>3 DEF Counts
  <2>1. T[j].fullpath \in Seq(C)
    BY <1>2, NodeTypes
  <2> QED BY <2>1, NothingBefore
<1>6. AtTurn(T, w, 1, w)
  BY DEF AtTurn
<1> QED BY <1>1, <1>3, <1>4, <1>5, <1>6 DEF Way

LEMMA StaysThere ==
    ASSUME NEW s, NEW w, NEW size, s.node = 0
    PROVE  Radix!Turn(s, w, size) = s
BY DEF Radix!Turn, Radix!None

(* The loop of insert: g[k] is where it is after k turns. *)
Run(T, w, size, g) ==
    g = [k \in 0..(Len(w) + 1) |->
           IF k = 0 THEN [tree |-> T, node |-> Radix!Root, word |-> w]
           ELSE Radix!With(g[k - 1], LAMBDA s : Radix!Turn(s, w, size))]
Goal(C, W, w, size, k, s) ==
    \/ Arrived(C, W, w, size, s)
    \/ /\ Way(C, W, w, size, s) /\ s.node \in Nat
       /\ k = 0 => s.node = 1 /\ s.word = w
       /\ k # 0 => s.node # 1 /\ Len(s.word) + k <= Len(w) + 1

LEMMA NextTurn ==
    ASSUME NEW C, NEW W, WordSet(C, W), NEW w \in Seq(C), NEW size \in Int, ~Radix!IsWord(w, W),
           NEW k \in Nat, NEW s, Goal(C, W, w, size, k, s)
    PROVE  Goal(C, W, w, size, k + 1, Radix!Turn(s, w, size))
<1> DEFINE t == Radix!Turn(s, w, size)
<1>1. CASE Arrived(C, W, w, size, s)
  <2>1. t = s
    BY <1>1, StaysThere DEF Arrived
  <2> QED BY <1>1, <2>1 DEF Goal
<1>2. CASE ~Arrived(C, W, w, size, s)
  <2>1. /\ Way(C, W, w, size, s) /\ s.node \in Nat
        /\ k = 0 => s.node = 1 /\ s.word = w
        /\ k # 0 => s.node # 1 /\ Len(s.word) + k <= Len(w) + 1
    BY <1>2 DEF Goal
  <2>2. \/ Arrived(C, W, w, size, t)
        \/ /\ Way(C, W, w, size, t) /\ t.node # 1
           /\ Len(t.word) <= Len(s.word)
           /\ s.node # 1 => Len(t.word) < Len(s.word)
    BY <2>1, TurnIs
  <2>3. CASE Arrived(C, W, w, size, t)
    BY <2>3 DEF Goal
  <2>4. CASE ~Arrived(C, W, w, size, t)
    <3>1. Way(C, W, w, size, t) /\ t.node # 1 /\ Len(t.word) <= Len(s.word)
          /\ (s.node # 1 => Len(t.word) < Len(s.word))
      BY <2>2, <2>4
    <3>2. Len(t.word) \in Nat /\ t.node \in Nat
      <4>1. t.word \in Seq(C) /\ t.node \in 1..Len(t.tree)
        BY <3>1 DEF Way
      <4> HIDE DEF t
      <4> QED BY <4>1
    <3>3. Len(s.word) \in Nat /\ Len(w) \in Nat
      <4>1. s.word \in Seq(C)
        BY <2>1 DEF Way
      <4> QED BY <4>1
    <3>4. Len(t.word) + (k + 1) <= Len(w) + 1 /\ k + 1 # 0
      <4> DEFINE a == Len(t.word)
                 b == Len(s.word)
                 n == Len(w)
      <4>1. a <= b /\ (s.node # 1 => a < b)
        BY <3>1
      <4>2. (k = 0 => b = n) /\ (k # 0 => s.node # 1 /\ b + k <= n + 1)
        BY <2>1
      <4> HIDE DEF a, b, n
      <4>3. a \in Nat /\ b \in Nat /\ n \in Nat
        BY <3>2, <3>3 DEF a, b, n
      <4>4. a + (k + 1) <= n + 1 /\ k + 1 # 0
        BY <4>1, <4>2, <4>3
      <4> QED BY <4>4 DEF a, n
    <3> HIDE DEF t
    <3>5. Goal(C, W, w, size, k + 1, t)
      BY <3>1, <3>2, <3>4 DEF Goal
    <3> QED BY <3>5 DEF t
  <2> QED BY <2>3, <2>4
<1> QED BY <1>1, <1>2

LEMMA NatSetInduction ==
    ASSUME NEW S, NEW N \in Nat, 0 \in S,
           \A k \in 1..N : k - 1 \in S => k \in S
    PROVE  0..N \subseteq S
<1> SUFFICES ASSUME ~(0..N \subseteq S) PROVE FALSE
  OBVIOUS
<1>1. (0..N) \ S \in SUBSET Nat /\ (0..N) \ S # {}
  OBVIOUS
<1>2. PICK m \in (0..N) \ S : \A n \in (0..N) \ S : m <= n
  BY <1>1, LeastNat
<1>3. m # 0 /\ m \in 1..N /\ m - 1 \in 0..N /\ ~(m <= m - 1)
  BY <1>2
<1> QED BY <1>2, <1>3

LEMMA RunExists ==
    ASSUME NEW T, NEW w, NEW size, Len(w) \in Nat
    PROVE  \E g : Run(T, w, size, g)
<1> DEFINE N == Len(w) + 1
           start == [tree |-> T, node |-> Radix!Root, word |-> w]
           Next_(s) == Radix!With(s, LAMBDA x : Radix!Turn(x, w, size))
           Upto(n, g) == g = [ k \in 0..n |-> IF k = 0 THEN start ELSE Next_(g[k - 1]) ]
           S == {n \in 0..N : \E h : Upto(n, h)}
<1> HIDE DEF Next_, start
<1>1. 0 \in S
  <2> DEFINE h == [ k \in 0..0 |-> start ]
  <2>1. h = [ k \in 0..0 |-> IF k = 0 THEN start ELSE Next_(h[k - 1]) ]
    OBVIOUS
  <2> HIDE DEF h
  <2>2. Upto(0, h)
    BY <2>1
  <2>3. 0 \in 0..N
    OBVIOUS
  <2> QED BY <2>2, <2>3
<1>2. ASSUME NEW n \in 1..N, n - 1 \in S
      PROVE  n \in S
  <2>1. PICK h : Upto(n - 1, h)
    BY <1>2
  <2> DEFINE g == [ k \in 0..n |-> IF k = n THEN Next_(h[n - 1]) ELSE h[k] ]
  <2>2. \A k \in 0..(n - 1) : h[k] = IF k = 0 THEN start ELSE Next_(h[k - 1])
    BY <2>1
  <2>3. \A k \in 0..n : g[k] = IF k = 0 THEN start ELSE Next_(g[k - 1])
    BY <2>2
  <2>4. g = [ k \in 0..n |-> IF k = 0 THEN start ELSE Next_(g[k - 1]) ]
    BY <2>3
  <2> HIDE DEF g
  <2>5. Upto(n, g)
    BY <2>4
  <2>6. n \in 0..N
    OBVIOUS
  <2> QED BY <2>5, <2>6
<1> HIDE DEF S
<1>3. N \in Nat
  OBVIOUS
<1> HIDE DEF N
<1>4. N \in S
  <2>1. 0..N \subseteq S
    BY <1>1, <1>2, <1>3, NatSetInduction
  <2> QED BY <1>3, <2>1
<1>5. PICK h : Upto(N, h)
  BY <1>4 DEF S
<1>6. Run(T, w, size, h)
  BY <1>5, Zenon DEF Run, Next_, start, N
<1> QED BY <1>6

LEMMA TurnWith ==
    ASSUME NEW w, NEW size
    PROVE  \A x : Radix!With(x, LAMBDA s : Radix!Turn(s, w, size)) = Radix!Turn(x, w, size)
BY DEF Radix!With

Steps(T, w, size, g) ==
    /\ g[0] = [tree |-> T, node |-> 1, word |-> w]
    /\ \A k \in 1..(Len(w) + 1) : g[k] = Radix!Turn(g[k - 1], w, size)

LEMMA RunSteps ==
    ASSUME NEW T, NEW w, NEW size, Len(w) \in Nat, NEW g, Run(T, w, size, g)
    PROVE  Steps(T, w, size, g)
<1> DEFINE N == Len(w) + 1
           Next_(s) == Radix!With(s, LAMBDA x : Radix!Turn(x, w, size))
           start == [tree |-> T, node |-> Radix!Root, word |-> w]
<1>1. g = [ k \in 0..N |-> IF k = 0 THEN start ELSE Next_(g[k - 1]) ]
  BY Zenon DEF Run
<1>2. \A x : Next_(x) = Radix!Turn(x, w, size)
  BY TurnWith, Zenon
<1>3. start = [tree |-> T, node |-> 1, word |-> w]
  BY DEF Radix!Root
<1> HIDE DEF Next_, start
<1>4. N \in Nat
  OBVIOUS
<1> HIDE DEF N
<1>5. g[0] = start /\ \A k \in 1..N : g[k] = Next_(g[k - 1])
  <2>1. 0 \in 0..N /\ \A k \in 1..N : k \in 0..N /\ k # 0
    BY <1>4
  <2> QED BY <1>1, <2>1
<1>6. \A k \in 1..N : g[k] = Radix!Turn(g[k - 1], w, size)
  BY <1>2, <1>5
<1> QED BY <1>3, <1>5, <1>6 DEF N, Steps

(* A word that is new finds its place in Len(word) + 1 turns at most.      *)
LEMMA InsertHolds ==
    ASSUME NEW C, NEW W, WordSet(C, W), NEW T, Holds(C, T, W),
           NEW w \in Seq(C), NEW size \in Int, ~Radix!IsWord(w, W)
    PROVE  Holds(C, Radix!insert(T, w, size), W \cup {<<w, size>>})
<1> DEFINE N == Len(w) + 1
           g == CHOOSE h : Run(T, w, size, h)
           G(k) == Goal(C, W, w, size, k, g[k])
           S == {k \in 0..N : G(k)}
<1>1. Len(w) \in Nat
  OBVIOUS
<1>2. Run(T, w, size, g)
  BY <1>1, RunExists
<1>3. Radix!insert(T, w, size) = g[N].tree
  BY Zenon DEF Radix!insert, Run
<1> HIDE DEF g
<1>4. g[0] = [tree |-> T, node |-> 1, word |-> w]
      /\ \A k \in 1..N : g[k] = Radix!Turn(g[k - 1], w, size)
  <2>1. Steps(T, w, size, g)
    BY <1>1, <1>2, RunSteps
  <2> QED BY <2>1, Zenon DEF Steps
<1>5. 0 \in S
  <2>1. Way(C, W, w, size, g[0])
    BY <1>4, WayBegins
  <2>2. g[0].node = 1 /\ g[0].word = w
    BY <1>4
  <2>3. Goal(C, W, w, size, 0, g[0])
    BY <2>1, <2>2 DEF Goal
  <2> QED BY <1>1, <2>3
<1>6. ASSUME NEW k \in 1..N, k - 1 \in S
      PROVE  k \in S
  <2>1. k - 1 \in Nat /\ Goal(C, W, w, size, k - 1, g[k - 1]) /\ k \in 0..N
    BY <1>1, <1>6
  <2>2. Goal(C, W, w, size, (k - 1) + 1, Radix!Turn(g[k - 1], w, size))
    BY <2>1, NextTurn
  <2>3. (k - 1) + 1 = k
    BY <1>1
  <2>4. Goal(C, W, w, size, k, Radix!Turn(g[k - 1], w, size))
    BY <2>2, <2>3
  <2>5. G(k)
    BY <1>4, <2>4
  <2> QED BY <2>1, <2>5
<1> HIDE DEF S
<1>8. N \in Nat /\ N \in 0..N /\ N # 0
  BY <1>1
<1>7. 0..N \subseteq S
  <2> HIDE DEF N
  <2> QED BY <1>5, <1>6, <1>8, NatSetInduction
<1>9. Goal(C, W, w, size, N, g[N])
  BY <1>7, <1>8 DEF S
<1>10. Arrived(C, W, w, size, g[N])
  <2> SUFFICES ASSUME ~Arrived(C, W, w, size, g[N]) PROVE FALSE
    OBVIOUS
  <2>1. Way(C, W, w, size, g[N]) /\ g[N].node # 1 /\ Len(g[N].word) + N <= Len(w) + 1
    BY <1>8, <1>9 DEF Goal
  <2>2. g[N].word \in Seq(C) /\ AtTurn(g[N].tree, w, g[N].node, g[N].word)
    BY <2>1 DEF Way
  <2>3. g[N].word # <<>>
    BY <2>1, <2>2 DEF AtTurn, AtChild
  <2> DEFINE r == g[N].word
  <2>4. r \in Seq(C) /\ r # <<>> /\ Len(r) + (Len(w) + 1) <= Len(w) + 1
    BY <2>1, <2>2, <2>3
  <2> HIDE DEF r
  <2>5. Len(r) \in Nat /\ Len(r) # 0
    BY <2>4
  <2> QED BY <1>1, <2>4, <2>5
<1> QED BY <1>3, <1>10 DEF Arrived

LEMMA NewTreeHolds ==
    ASSUME NEW C
    PROVE  Holds(C, Radix!newRadixTree, {})
<1> DEFINE T == Radix!newRadixTree
<1>1. T = << [path |-> <<>>, fullpath |-> <<>>, end |-> FALSE, children |-> <<>>, totalSize |-> 0, keyCount |-> 0] >>
  BY DEF Radix!newRadixTree, Radix!NewNode
<1> HIDE DEF T
<1>2. T \in Seq(Node(C)) /\ Len(T) = 1 /\ DOMAIN T = {1}
      /\ T[1].path = <<>> /\ T[1].fullpath = <<>> /\ T[1].end = FALSE /\ T[1].children = <<>>
      /\ T[1].totalSize = 0 /\ T[1].keyCount = 0
  <2>1. [path |-> <<>>, fullpath |-> <<>>, end |-> FALSE, children |-> <<>>, totalSize |-> 0, keyCount |-> 0]
          \in Node(C)
    <3>1. <<>> \in Seq(C) /\ <<>> \in Seq(Nat)
      OBVIOUS
    <3> QED BY <3>1 DEF Node
  <2> QED BY <1>1, <2>1
<1>3. FullOf(T) = [i \in {1} |-> <<>>] /\ KidsOf(T) = [i \in {1} |-> {}]
  <2>1. Elements(T[1].children) = {}
    BY <1>2, ElementsOf
  <2>2. FullOf(T) = [i \in {1} |-> T[i].fullpath] /\ KidsOf(T) = [i \in {1} |-> Elements(T[i].children)]
    BY <1>2 DEF FullOf, KidsOf
  <2>3. \A i \in {1} : T[i].fullpath = <<>> /\ Elements(T[i].children) = {}
    BY <1>2, <2>1
  <2> QED BY <2>2, <2>3
<1>4. 1..1 = {1}
  OBVIOUS
<1>5. Tree(C, 1, FullOf(T), KidsOf(T))
  <2> DEFINE F == FullOf(T)
             K == KidsOf(T)
  <2>1. F \in [1..1 -> Seq(C)] /\ K \in [1..1 -> SUBSET (1..1)]
    <3>1. <<>> \in Seq(C)
      OBVIOUS
    <3> QED BY <1>3, <1>4, <3>1
  <2>2. \A i \in 1..1 : i = 1 /\ F[i] = <<>> /\ K[i] = {}
    BY <1>3, <1>4
  <2>3. 1 \in Nat \ {0} /\ 1 \in 1..1
    OBVIOUS
  <2>4. ~(<<>> \prec <<>>)
    <3>1. <<>> \in Seq(C)
      OBVIOUS
    <3> QED BY <3>1, NothingBefore
  <2> HIDE DEF F, K
  <2>5. Tree(C, 1, F, K)
    BY <2>1, <2>2, <2>3, <2>4 DEF Tree
  <2> QED BY <2>5 DEF F, K
<1>6. Built(C, T)
  <2>1. \A i \in 1..Len(T) : KidsOf(T)[i] = {}
    BY <1>2, <1>3, <1>4
  <2> QED BY <1>2, <1>5, <2>1 DEF Built
<1>7. WordSet(C, {})
  BY FS_EmptySet DEF WordSet
<1>8. Fulls(T) = Radix!NodesOf({})
  <2>1. ASSUME NEW p PROVE p \in Fulls(T) <=> p \in Radix!NodesOf({})
    <3>1. p \in Fulls(T) <=> p = <<>>
      BY <1>2 DEF Fulls
    <3>2. p \in Radix!NodesOf({}) <=> Named(C, {}, p)
      BY <1>7, NodesOfIs
    <3>3. <<>> \in Seq(C)
      OBVIOUS
    <3>4. Named(C, {}, p) <=> p = <<>>
      BY <3>3 DEF Named, Radix!IsWord
    <3> QED BY <3>1, <3>2, <3>4
  <2> QED BY <2>1, Zenon
<1>9. Weighs(T[1], {}, 0, 0)
  <2>1. Radix!Below(<<>>, {}) = {}
    BY DEF Radix!Below
  <2>2. Cardinality({}) = 0 /\ WordSizes({}) = 0
    BY FS_EmptySet, NoWordSizes
  <2>3. Radix!IsWord(<<>>, {}) = FALSE
    BY DEF Radix!IsWord
  <2>4. 0 + 0 = 0
    OBVIOUS
  <2> QED BY <1>2, <2>1, <2>2, <2>3, <2>4, Zenon DEF Weighs
<1>10. \A j \in 1..Len(T) : Weighs(T[j], {}, 0, 0)
  BY <1>2, <1>4, <1>9
<1> QED BY <1>6, <1>8, <1>10 DEF Holds, T

(* The characters of the words of the files. *)
Chars == {Radix!Space} \cup UNION {UNION {ToSet(o.key) \cup ToSet(Digits[o.db]) : o \in j.objects} : j \in Jobs}

LEMMA WordIs ==
    ASSUME NEW j \in Jobs, NEW o \in j.objects
    PROVE  /\ o.key \in Seq(Chars) /\ Digits[o.db] \in Seq(Chars)
           /\ \A i \in 1..Len(Digits[o.db]) : Digits[o.db][i] # Radix!Space
           /\ Radix!genKey(o.db, o.key) \in Seq(Chars)
           /\ o.size \in Int
<1>1. /\ o.key \in Seq(ToSet(o.key)) /\ Digits[o.db] \in Seq(ToSet(Digits[o.db]))
      /\ Radix!Space \notin ToSet(Digits[o.db])
  BY KeysAssumption
<1>2. ToSet(o.key) \subseteq Chars /\ ToSet(Digits[o.db]) \subseteq Chars /\ Radix!Space \in Chars
  <2> DEFINE L(q) == UNION {ToSet(x.key) \cup ToSet(Digits[x.db]) : x \in q.objects}
  <2>1. ToSet(o.key) \subseteq L(j) /\ ToSet(Digits[o.db]) \subseteq L(j)
    OBVIOUS
  <2>2. Chars = {Radix!Space} \cup UNION {L(q) : q \in Jobs}
    BY Zenon DEF Chars
  <2> HIDE DEF L
  <2> QED BY <2>1, <2>2
<1>3. \A S : \A s : s \in Seq(S) /\ S \subseteq Chars => s \in Seq(Chars)
  OBVIOUS
<1> HIDE DEF Chars
<1>4. o.key \in Seq(Chars) /\ Digits[o.db] \in Seq(Chars)
  BY <1>1, <1>2, <1>3
<1>5. \A i \in 1..Len(Digits[o.db]) : Digits[o.db][i] # Radix!Space
  BY <1>1, <1>4 DEF ToSet
<1>6. Radix!genKey(o.db, o.key) \in Seq(Chars)
  <2>1. << Radix!Space >> \in Seq(Chars)
    BY <1>2
  <2>2. Digits[o.db] \o << Radix!Space >> \in Seq(Chars)
    BY <1>4, <2>1
  <2>3. Digits[o.db] \o << Radix!Space >> \o o.key \in Seq(Chars)
    BY <1>4, <2>2
  <2> QED BY <2>3 DEF Radix!genKey
<1>7. o.size \in Int
  BY JobsAssumption
<1> QED BY <1>4, <1>5, <1>6, <1>7

(* The first space parts a word of the tree. *)
PartsOnce(C, sp) ==
    <<sp>> \in Seq(C) =>
      \A a, b, k, l \in Seq(C) :
         /\ \A i \in 1..Len(a) : a[i] # sp
         /\ \A i \in 1..Len(b) : b[i] # sp
         /\ a \o <<sp>> \o k = b \o <<sp>> \o l
         => a = b /\ k = l

LEMMA PartedOnce ==
    ASSUME NEW C, NEW sp
    PROVE  PartsOnce(C, sp)
<1> SUFFICES ASSUME <<sp>> \in Seq(C),
           NEW a \in Seq(C), NEW b \in Seq(C), NEW k \in Seq(C), NEW l \in Seq(C),
           \A i \in 1..Len(a) : a[i] # sp, \A i \in 1..Len(b) : b[i] # sp,
           a \o <<sp>> \o k = b \o <<sp>> \o l
             PROVE  a = b /\ k = l
  BY DEF PartsOnce
<1> DEFINE x == a \o <<sp>> \o k
           y == b \o <<sp>> \o l
<1>1. /\ Len(a) \in Nat /\ Len(b) \in Nat /\ Len(k) \in Nat /\ Len(l) \in Nat
  OBVIOUS
<1>2. /\ \A i \in 1..Len(a) : x[i] = a[i]
      /\ x[Len(a) + 1] = sp
      /\ \A i \in 1..Len(k) : x[Len(a) + 1 + i] = k[i]
      /\ Len(x) = Len(a) + 1 + Len(k)
  <2>1. /\ a \o <<sp>> \in Seq(C) /\ Len(a \o <<sp>>) = Len(a) + 1
        /\ \A i \in 1..Len(a) : (a \o <<sp>>)[i] = a[i]
        /\ (a \o <<sp>>)[Len(a) + 1] = sp
    BY <1>1
  <2> DEFINE z == a \o <<sp>>
  <2> HIDE DEF z
  <2>2. /\ Len(z \o k) = Len(z) + Len(k) /\ \A i \in 1..Len(z) : (z \o k)[i] = z[i]
        /\ \A i \in 1..Len(k) : (z \o k)[Len(z) + i] = k[i]
    BY <1>1, <2>1 DEF z
  <2>3. z \in Seq(C) /\ Len(z) = Len(a) + 1 /\ (\A i \in 1..Len(a) : z[i] = a[i]) /\ z[Len(a) + 1] = sp
    BY <2>1 DEF z
  <2>4. \A i \in 1..Len(a) : (z \o k)[i] = a[i]
    BY <1>1, <2>2, <2>3
  <2>5. (z \o k)[Len(a) + 1] = sp
    BY <1>1, <2>2, <2>3
  <2> QED BY <2>2, <2>3, <2>4, <2>5 DEF z
<1>3. /\ \A i \in 1..Len(b) : y[i] = b[i]
      /\ y[Len(b) + 1] = sp
      /\ \A i \in 1..Len(l) : y[Len(b) + 1 + i] = l[i]
      /\ Len(y) = Len(b) + 1 + Len(l)
  <2>1. /\ b \o <<sp>> \in Seq(C) /\ Len(b \o <<sp>>) = Len(b) + 1
        /\ \A i \in 1..Len(b) : (b \o <<sp>>)[i] = b[i]
        /\ (b \o <<sp>>)[Len(b) + 1] = sp
    BY <1>1
  <2> DEFINE z == b \o <<sp>>
  <2> HIDE DEF z
  <2>2. /\ Len(z \o l) = Len(z) + Len(l) /\ \A i \in 1..Len(z) : (z \o l)[i] = z[i]
        /\ \A i \in 1..Len(l) : (z \o l)[Len(z) + i] = l[i]
    BY <1>1, <2>1 DEF z
  <2>3. z \in Seq(C) /\ Len(z) = Len(b) + 1 /\ (\A i \in 1..Len(b) : z[i] = b[i]) /\ z[Len(b) + 1] = sp
    BY <2>1 DEF z
  <2>4. \A i \in 1..Len(b) : (z \o l)[i] = b[i]
    BY <1>1, <2>2, <2>3
  <2>5. (z \o l)[Len(b) + 1] = sp
    BY <1>1, <2>2, <2>3
  <2> QED BY <2>2, <2>3, <2>4, <2>5 DEF z
<1>4. x = y
  OBVIOUS
<1> HIDE DEF x, y
<1>5. Len(a) = Len(b)
  <2>1. ~(Len(a) < Len(b))
    <3> SUFFICES ASSUME Len(a) < Len(b) PROVE FALSE
      OBVIOUS
    <3>1. Len(a) + 1 \in 1..Len(b)
      BY <1>1
    <3> QED BY <1>2, <1>3, <1>4, <3>1
  <2>2. ~(Len(b) < Len(a))
    <3> SUFFICES ASSUME Len(b) < Len(a) PROVE FALSE
      OBVIOUS
    <3>1. Len(b) + 1 \in 1..Len(a)
      BY <1>1
    <3> QED BY <1>2, <1>3, <1>4, <3>1
  <2> QED BY <1>1, <2>1, <2>2
<1>6. Len(k) = Len(l)
  BY <1>1, <1>2, <1>3, <1>4, <1>5
<1>7. a = b
  <2>1. a \in [1..Len(a) -> C] /\ b \in [1..Len(a) -> C]
    BY <1>5
  <2>2. \A i \in 1..Len(a) : a[i] = b[i]
    BY <1>2, <1>3, <1>4, <1>5
  <2> QED BY <2>1, <2>2
<1>8. k = l
  <2>1. k \in [1..Len(k) -> C] /\ l \in [1..Len(k) -> C]
    BY <1>6
  <2>2. \A i \in 1..Len(k) : k[i] = l[i]
    BY <1>2, <1>3, <1>4, <1>5, <1>6
  <2> QED BY <2>1, <2>2
<1> QED BY <1>7, <1>8

LEMMA WordsDiffer ==
    ASSUME NEW j \in Jobs, NEW o \in j.objects, NEW p \in j.objects,
           Radix!genKey(o.db, o.key) = Radix!genKey(p.db, p.key)
    PROVE  o.db = p.db /\ o.key = p.key
<1>1. /\ o.key \in Seq(Chars) /\ Digits[o.db] \in Seq(Chars)
      /\ \A i \in 1..Len(Digits[o.db]) : Digits[o.db][i] # Radix!Space
  BY WordIs
<1>2. /\ p.key \in Seq(Chars) /\ Digits[p.db] \in Seq(Chars)
      /\ \A i \in 1..Len(Digits[p.db]) : Digits[p.db][i] # Radix!Space
  BY WordIs
<1>3. << Radix!Space >> \in Seq(Chars)
  <2>1. Radix!Space \in Chars
    BY DEF Chars
  <2> QED BY <2>1
<1>4. Digits[o.db] \o << Radix!Space >> \o o.key = Digits[p.db] \o << Radix!Space >> \o p.key
  BY Zenon DEF Radix!genKey
<1> DEFINE a == Digits[o.db]
           b == Digits[p.db]
           k == o.key
           l == p.key
           sp == Radix!Space
<1>5. /\ a \in Seq(Chars) /\ b \in Seq(Chars) /\ k \in Seq(Chars) /\ l \in Seq(Chars) /\ <<sp>> \in Seq(Chars)
      /\ (\A i \in 1..Len(a) : a[i] # sp) /\ (\A i \in 1..Len(b) : b[i] # sp)
      /\ a \o <<sp>> \o k = b \o <<sp>> \o l
  BY <1>1, <1>2, <1>3, <1>4
<1> HIDE DEF a, b, k, l, sp
<1>6. a = b /\ k = l
  <2>1. \A C, s : PartsOnce(C, s)
    BY PartedOnce
  <2>2. PartsOnce(Chars, sp)
    BY <2>1
  <2> QED BY <1>5, <2>2, Zenon DEF PartsOnce
<1>7. Digits[o.db] = Digits[p.db] /\ o.key = p.key
  BY <1>6 DEF a, b, k, l
<1> QED BY <1>7, KeysAssumption

-----------------------------------------------------------------------------
(* The objects a file has given have one word each, and the tree has them. *)

TreeInv ==
    /\ job \in Jobs /\ read \in Seq(job.objects) /\ passed \in Seq(job.objects)
    /\ Passed \subseteq Elements(read)
    /\ IsPrefixJob => WordSet(Chars, FileWords) /\ Holds(Chars, acc, FileWords)

LEMMA PassedIs == Passed = Elements(passed)
BY DEF Passed, ToSet, Elements

LEMMA TreeInit == Init => TreeInv
<1> SUFFICES ASSUME Init
             PROVE  TreeInv
  OBVIOUS
<1>1. job \in Jobs /\ read = <<>> /\ passed = <<>> /\ acc = Nothing(job)
  BY DEF Init
<1>2. Passed = {} /\ read \in Seq(job.objects) /\ passed \in Seq(job.objects)
  BY <1>1 DEF Passed, ToSet
<1>3. FileWords = {}
  BY <1>2 DEF FileWords
<1>4. ASSUME IsPrefixJob PROVE Nothing(job) = Radix!newRadixTree
  BY <1>4 DEF Nothing, IsPrefixJob
<1>5. WordSet(Chars, {})
  BY FS_EmptySet DEF WordSet
<1> QED BY <1>1, <1>2, <1>3, <1>4, <1>5, NewTreeHolds DEF TreeInv

(* Nothing of the tree changes. *)
LEMMA TreeSame ==
    ASSUME TreeInv, UNCHANGED <<job, passed>>, IsPrefixJob => acc' = acc,
           read' \in Seq(job.objects), Elements(read) \subseteq Elements(read')
    PROVE  TreeInv'
<1>1. Passed' = Passed
  BY DEF Passed
<1>2. FileWords' = FileWords
  BY <1>1 DEF FileWords
<1>3. IsPrefixJob' <=> IsPrefixJob
  BY DEF IsPrefixJob, IsSepPrefix
<1>4. /\ job \in Jobs /\ passed \in Seq(job.objects) /\ Passed \subseteq Elements(read)
      /\ IsPrefixJob => WordSet(Chars, FileWords) /\ Holds(Chars, acc, FileWords)
  BY DEF TreeInv
<1>5. job' \in Jobs /\ read' \in Seq(job'.objects) /\ passed' \in Seq(job'.objects) /\ Passed' \subseteq Elements(read')
  BY <1>1, <1>4
<1>6. IsPrefixJob' => WordSet(Chars, FileWords') /\ Holds(Chars, acc', FileWords')
  BY <1>2, <1>3, <1>4
<1> QED BY <1>5, <1>6 DEF TreeInv

LEMMA Appended ==
    ASSUME NEW S, NEW s \in Seq(S), NEW x \in S
    PROVE  Append(s, x) \in Seq(S) /\ Elements(Append(s, x)) = Elements(s) \cup {x}
<1>1. /\ Len(s) \in Nat /\ DOMAIN s = 1..Len(s)
      /\ Append(s, x) \in Seq(S) /\ DOMAIN Append(s, x) = 1..(Len(s) + 1)
      /\ \A i \in 1..Len(s) : Append(s, x)[i] = s[i]
      /\ Append(s, x)[Len(s) + 1] = x
  BY AppendProperties
<1> DEFINE t == Append(s, x)
<1> HIDE DEF t
<1>2. /\ DOMAIN t = 1..(Len(s) + 1) /\ (\A i \in 1..Len(s) : t[i] = s[i]) /\ t[Len(s) + 1] = x
  BY <1>1 DEF t
<1>3. 1..(Len(s) + 1) = 1..Len(s) \cup {Len(s) + 1}
  BY <1>1
<1>4. Elements(t) = Elements(s) \cup {x}
  BY <1>1, <1>2, <1>3 DEF Elements
<1> QED BY <1>1, <1>4 DEF t

LEMMA TreeObject == TreeInv /\ Object => TreeInv'
<1> SUFFICES ASSUME TreeInv, Object
             PROVE  TreeInv'
  OBVIOUS
<1>1. PICK o \in Arriving :
         /\ read' = Append(read, o)
         /\ IF Passes(chain, o)
            THEN /\ passed' = Append(passed, o)
                 /\ IF job.name \in {"aof", "memory"} THEN WriteObject(o)
                    ELSE Collect(o) /\ UNCHANGED <<failed, rows, pc, result>>
            ELSE UNCHANGED <<passed, failed, acc, rows, pc, result>> /\ NoList
  BY DEF Object
<1>2. /\ job' = job /\ job \in Jobs /\ read \in Seq(job.objects) /\ passed \in Seq(job.objects)
      /\ Passed \subseteq Elements(read)
      /\ IsPrefixJob => WordSet(Chars, FileWords) /\ Holds(Chars, acc, FileWords)
  BY DEF Object, TreeInv
<1>3. /\ o \in job.objects
      /\ \A i \in DOMAIN read : read[i].db # o.db \/ read[i].key # o.key
  BY DEF Arriving
<1>4. read' \in Seq(job.objects) /\ Elements(read') = Elements(read) \cup {o}
  BY <1>1, <1>2, <1>3, Appended
<1>5. CASE ~Passes(chain, o)
  <2>1. passed' = passed /\ acc' = acc
    BY <1>1, <1>5
  <2> QED BY <1>2, <1>4, <2>1, TreeSame
<1>6. CASE Passes(chain, o)
  <2>1. passed' = Append(passed, o)
    BY <1>1, <1>6
  <2>2. Passed' = Passed \cup {o}
    <3>1. Elements(passed') = Elements(passed) \cup {o}
      BY <1>2, <1>3, <2>1, Appended
    <3>2. Passed' = Elements(passed')
      BY DEF Passed, ToSet, Elements
    <3> QED BY <3>1, <3>2, PassedIs
  <2>3. IsPrefixJob' <=> IsPrefixJob
    BY <1>2 DEF IsPrefixJob, IsSepPrefix
  <2>4. FileWords' = FileWords \cup {WordOf(o)}
    <3>1. FileWords' = {WordOf(x) : x \in Passed'}
      BY DEF FileWords, WordOf
    <3> QED BY <2>2, <3>1 DEF FileWords
  <2>5. ASSUME IsPrefixJob
        PROVE  WordSet(Chars, FileWords') /\ Holds(Chars, acc', FileWords')
    <3>1. acc' = Radix!insert(acc, Radix!genKey(o.db, o.key), o.size)
      <4>1. job.name = "prefix" /\ ~IsSepPrefix(job) /\ job.name \notin {"aof", "memory"}
        BY <2>5 DEF IsPrefixJob
      <4>2. Collect(o)
        BY <1>1, <1>6, <4>1
      <4> QED BY <4>1, <4>2 DEF Collect
    <3> DEFINE w == Radix!genKey(o.db, o.key)
    <3>2. w \in Seq(Chars) /\ o.size \in Int
      BY <1>2, <1>3, WordIs
    <3>3. ~Radix!IsWord(w, FileWords)
      <4> SUFFICES ASSUME NEW x \in Passed, Radix!genKey(x.db, x.key) = w PROVE FALSE
        BY DEF Radix!IsWord, FileWords, WordOf
      <4>1. PICK i \in DOMAIN read : x = read[i]
        BY <1>2 DEF Elements
      <4>2. x \in job.objects
        BY <1>2, <4>1
      <4>3. x.db = o.db /\ x.key = o.key
        BY <1>2, <1>3, <4>2, WordsDiffer
      <4> QED BY <1>3, <4>1, <4>3
    <3>4. WordOf(o) = <<w, o.size>>
      BY DEF WordOf
    <3> HIDE DEF w
    <3>5. WordSet(Chars, FileWords) /\ Holds(Chars, acc, FileWords)
      BY <1>2, <2>5
    <3> DEFINE V == FileWords \cup {<<w, o.size>>}
    <3>6. Holds(Chars, Radix!insert(acc, w, o.size), V)
      BY <3>2, <3>3, <3>5, InsertHolds
    <3>7. WordSet(Chars, V)
      <4> DEFINE z == <<w, o.size>>
      <4>1. z[1] \in Seq(Chars) /\ z[2] \in Int
        BY <3>2
      <4> HIDE DEF z
      <4>2. IsFiniteSet(FileWords \cup {z})
        BY <3>5, FS_AddElement DEF WordSet
      <4> QED BY <3>5, <4>1, <4>2 DEF WordSet, z
    <3>8. FileWords' = V
      BY <2>4, <3>4
    <3> QED BY <3>1, <3>6, <3>7, <3>8 DEF w
  <2>6. job' \in Jobs /\ read' \in Seq(job'.objects) /\ passed' \in Seq(job'.objects) /\ Passed' \subseteq Elements(read')
    BY <1>2, <1>3, <1>4, <2>1, <2>2, Appended
  <2> QED BY <2>3, <2>5, <2>6 DEF TreeInv
<1> QED BY <1>5, <1>6

LEMMA TreeNext == TreeInv /\ [Next]_vars => TreeInv'
<1> SUFFICES ASSUME TreeInv, [Next]_vars
             PROVE  TreeInv'
  OBVIOUS
<1>1. read \in Seq(job.objects)
  BY DEF TreeInv
<1>2. ASSUME UNCHANGED <<job, read, passed, acc>> PROVE TreeInv'
  <2>1. read' \in Seq(job.objects) /\ Elements(read) \subseteq Elements(read')
    BY <1>1, <1>2
  <2> QED BY <1>2, <2>1, TreeSame
<1>3. CASE CannotStart \/ ParseError
  BY <1>2, <1>3 DEF CannotStart, ParseError, Fails
<1>4. CASE Open
  BY <1>2, <1>4 DEF Open
<1>5. CASE Object
  BY <1>5, TreeObject
<1>6. CASE End
  BY <1>2, <1>6 DEF End
<1>7. CASE Serving
  BY <1>2, <1>7 DEF Serving
<1>8. CASE UNCHANGED vars
  BY <1>2, <1>8 DEF vars
<1> QED BY <1>3, <1>4, <1>5, <1>6, <1>7, <1>8 DEF Next

LEMMA TreeImplies == TreeInv => RadixTreeCanonical
<1> SUFFICES ASSUME TreeInv, IsPrefixJob
             PROVE  RadixTreeCanonical
  BY DEF RadixTreeCanonical
<1> DEFINE W == FileWords
<1>1. WordSet(Chars, W) /\ Holds(Chars, acc, W)
  BY DEF TreeInv
<1>2. Built(Chars, acc) /\ Fulls(acc) = Radix!NodesOf(W) /\ \A i \in 1..Len(acc) : Weighs(acc[i], W, 0, 0)
  BY <1>1 DEF Holds
<1>3. acc \in Seq(Node(Chars)) /\ DOMAIN acc = 1..Len(acc)
  BY <1>2 DEF Built
<1>4. {acc[i].fullpath : i \in DOMAIN acc} = Radix!NodesOf(W)
  BY <1>2 DEF Fulls
<1>5. ASSUME NEW i \in DOMAIN acc, NEW k \in DOMAIN acc, acc[i].fullpath = acc[k].fullpath
      PROVE  i = k
  <2>1. FullOf(acc)[i] = FullOf(acc)[k]
    BY <1>3, <1>5 DEF FullOf
  <2> QED BY <1>2, <1>3, <2>1 DEF Built, Tree
<1>6. ASSUME NEW i \in DOMAIN acc
      PROVE  LET below == Radix!Below(acc[i].fullpath, W)
             IN  /\ acc[i].totalSize = WordSizes(below)
                 /\ acc[i].keyCount = Cardinality(below)
                 /\ acc[i].end = Radix!IsWord(acc[i].fullpath, W)
                 /\ \A k \in ToSet(acc[i].children) :
                       acc[k].fullpath = acc[i].fullpath \o acc[k].path
  <2> DEFINE below == Radix!Below(acc[i].fullpath, W)
  <2>1. acc[i].fullpath \in Seq(Chars)
    BY <1>3, NodeTypes
  <2>2. WordSizes(below) \in Int /\ Cardinality(below) \in Nat
    BY <1>1, <2>1, BelowIs
  <2>3. /\ acc[i].totalSize = WordSizes(below) + 0 /\ acc[i].keyCount = Cardinality(below) + 0
        /\ acc[i].end = Radix!IsWord(acc[i].fullpath, W)
    BY <1>2, <1>3 DEF Weighs
  <2> HIDE DEF below, W
  <2>4. acc[i].totalSize = WordSizes(below) /\ acc[i].keyCount = Cardinality(below)
    BY <2>2, <2>3
  <2>5. ASSUME NEW k \in ToSet(acc[i].children)
        PROVE  acc[k].fullpath = acc[i].fullpath \o acc[k].path
    <3>1. k \in KidsOf(acc)[i]
      BY <1>3, NodeTypes DEF ToSet, Elements
    <3> QED BY <1>2, <1>3, <3>1 DEF Built, Hangs
  <2> QED BY <2>3, <2>4, <2>5 DEF below
<1> QED BY <1>4, <1>5, <1>6 DEF RadixTreeCanonical

(* Whatever the keys of a file and their order, the tree of the prefix     *)
(* analysis has one node for each key and for each place where two keys    *)
(* part, with the size and the number of the keys below it, and each node  *)
(* hangs under its longest prefix (radixTree.insert).                      *)
THEOREM RadixTreeIsCanonical == Spec => []RadixTreeCanonical
<1>1. Spec => []TreeInv
  BY TreeInit, TreeNext, PTL DEF Spec
<1> QED BY <1>1, TreeImplies, PTL

=============================================================================
