----------------------------- MODULE KeyGroups -----------------------------
(***************************************************************************)
(* Keys parted by separators: the prefix analysis with a flat map          *)
(* (helper/prefix_stream.go) and the tree of the flame graph               *)
(* (helper/flamegraph.go).  A key is a sequence of characters, and a       *)
(* separator is one of them.                                               *)
(***************************************************************************)
EXTENDS Integers, Sequences, SequencesExt, FiniteSetsExt

CONSTANTS
    Digits,             \* Digits[db]: strconv.Itoa
    TrimThreshold,
    bigNodeThreshold

Sum(S, Value(_)) == MapThenSumSet(Value, S)

(* strings.ReplaceAll of every further separator by the first one. *)
Normalized(key, separators) ==
    [ i \in DOMAIN key |-> IF key[i] \in ToSet(Tail(separators)) THEN Head(separators) ELSE key[i] ]

(* Where the first n - 1 separators of a key are. *)
Cuts(key, sep, n) ==
    {i \in DOMAIN key : key[i] = sep /\ Len(SelectSeq(SubSeq(key, 1, i), LAMBDA c : c = sep)) < n}

(* strings.SplitN *)
SplitN(key, sep, n) ==
    LET ends == << 0 >> \o SetToSortSeq(Cuts(key, sep, n), <) \o << Len(key) + 1 >>
    IN  [ i \in 1..(Len(ends) - 1) |-> SubSeq(key, ends[i] + 1, ends[i + 1] - 1) ]

(* strings.Join *)
Join(parts, sep) == FlattenSeq([ i \in DOMAIN parts |-> parts[i]
                                   \o (IF i = Len(parts) THEN <<>> ELSE << sep >>) ])

-----------------------------------------------------------------------------
(* SepPrefixAnalyse: groups maps <<database, prefix>> to its size and keys.*)

Star == << "*" >>

(* A wrong variant: the full key counts as a prefix of itself. *)
PrefixesOf_full(object, separators, maxDepth) ==
    LET sep   == Head(separators)
        parts == SplitN(Normalized(object.key, separators), sep, maxDepth + 1)
    IN  {<< object.db, Join(SubSeq(parts, 1, d), sep) \o << sep >> \o Star >> :
           d \in 1..Min({Len(parts), maxDepth})}

PrefixesOf(object, separators, maxDepth) ==
    LET sep   == Head(separators)
        parts == SplitN(Normalized(object.key, separators), sep, maxDepth + 1)
    IN  {<< object.db, Join(SubSeq(parts, 1, d), sep) \o << sep >> \o Star >> :
           d \in 1..Min({Len(parts) - 1, maxDepth})}

AddToGroups(groups, object, separators, maxDepth) ==
    LET mine == PrefixesOf(object, separators, maxDepth)
        old(p) == IF p \in DOMAIN groups THEN groups[p] ELSE [size |-> 0, keyCount |-> 0]
    IN  [ p \in DOMAIN groups \cup mine |->
            IF p \in mine THEN [size |-> old(p).size + object.size, keyCount |-> old(p).keyCount + 1]
            ELSE groups[p] ]

(* sort.Slice by size: entries of one size come in any order. *)
SortedBySize(rows) ==
    LET orders[S \in SUBSET rows] ==
          IF S = {} THEN {<<>>}
          ELSE UNION {{<< r >> \o rest : rest \in orders[S \ {r}]} :
                        r \in {x \in S : \A y \in S : y.size <= x.size}}
    IN  orders[rows]

GroupRows(groups) ==
    {[db |-> p[1], prefix |-> p[2], size |-> groups[p].size, keyCount |-> groups[p].keyCount] :
       p \in DOMAIN groups}

-----------------------------------------------------------------------------
(* FlameGraph: tree maps the path of a node to its value.                  *)

Others == << "o", "t", "h", "e", "r", "s" >>

FlameParts(object, separators) ==
    LET seps == IF separators = <<>> THEN << ":" >> ELSE separators
        key  == Normalized(object.key, seps)
    IN  << << "d", "b", ":" >> \o Digits[object.db] >> \o SplitN(key, Head(seps), Len(key) + 2)

newFlame == [ path \in {<<>>} |-> 0 ]

addObject(tree, object, separators) ==
    LET parts == FlameParts(object, separators)
        path  == {SubSeq(parts, 1, d) : d \in 1..Len(parts)}
    IN  [ p \in DOMAIN tree \cup path |->
            (IF p \in DOMAIN tree THEN tree[p] ELSE 0) + (IF p \in path THEN object.size ELSE 0) ]

Children(tree, p) == {q \in DOMAIN tree : q # <<>> /\ Front(q) = p}

WithTotal(tree) == [ tree EXCEPT ![<<>>] = Sum(Children(tree, <<>>), LAMBDA p : tree[p]) ]

SmallLeaves(tree, p) ==
    {q \in Children(tree, p) : Children(tree, q) = {} /\ tree[q] < bigNodeThreshold}
LeafSum(tree, p) == Sum(SmallLeaves(tree, p), LAMBDA q : tree[q])

(* A wrong variant: the leaves are summed up before their size is tested.  *)
trimData_all(tree) ==
    LET bundles == {Append(p, Others) : p \in {q \in DOMAIN tree : LeafSum(tree, q) > 0}}
        gone    == UNION {SmallLeaves(tree, p) : p \in DOMAIN tree}
    IN  [ p \in (DOMAIN tree \ gone) \cup bundles |->
            IF p \in bundles
            THEN Sum({q \in Children(tree, Front(p)) : Children(tree, q) = {}}, LAMBDA q : tree[q])
            ELSE tree[p] ]

(* The small leaves of a node become one child, which takes the place of   *)
(* a child of that name with all that is under it.                         *)
trimData(tree) ==
    LET bundles == {Append(p, Others) : p \in {q \in DOMAIN tree : LeafSum(tree, q) > 0}}
        gone    == UNION {SmallLeaves(tree, p) : p \in DOMAIN tree}
        lost(p) == \E b \in bundles : b # p /\ IsPrefix(b, p)
    IN  [ p \in {q \in (DOMAIN tree \ gone) \cup bundles : ~lost(q)} |->
            IF p \in bundles THEN LeafSum(tree, Front(p)) ELSE tree[p] ]

Drawn(tree, count) == IF count >= TrimThreshold THEN trimData(WithTotal(tree)) ELSE WithTotal(tree)
=============================================================================
