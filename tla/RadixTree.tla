----------------------------- MODULE RadixTree -----------------------------
(***************************************************************************)
(* helper/radix.go: the tree of key prefixes.  A tree is the sequence of   *)
(* its nodes, in the order they are made; the first one is the root and    *)
(* children are indices.  Words are sequences of characters.               *)
(***************************************************************************)
EXTENDS Integers, Sequences, FiniteSets, SequencesExt, Reads

CONSTANT Digits     \* Digits[db]: strconv.Itoa

Root    == 1
NewNode(path, full, end, children, size, count) ==
    [path |-> path, fullpath |-> full, end |-> end, children |-> children,
     totalSize |-> size, keyCount |-> count]
newRadixTree == << NewNode(<<>>, <<>>, FALSE, <<>>, 0, 0) >>

From(word, i) == SubSeq(word, i, Len(word))

commonPrefixLen(a, b) ==
    CHOOSE i \in 0..Len(a) : /\ i <= Len(b) /\ SubSeq(a, 1, i) = SubSeq(b, 1, i)
                             /\ i = Len(a) \/ i = Len(b) \/ a[i + 1] # b[i + 1]

(* Wrong variant: the lower half starts again with the new key only. *)
Split_forgets(tree, node, i) ==
    LET n == tree[node]
        lower == NewNode(From(n.path, i + 1), n.fullpath, n.end, n.children, 0, 0)
    IN  Append([ tree EXCEPT ![node] =
                   [ n EXCEPT !.path = SubSeq(@, 1, i), !.end = FALSE,
                              !.fullpath = SubSeq(@, 1, Len(@) - (Len(n.path) - i)),
                              !.children = << Len(tree) + 1 >> ] ], lower)

(* The node keeps the first i characters of its path, and hands the rest,  *)
(* its children, sizes and end mark down to a new child.                   *)
Split(tree, node, i) ==
    LET n == tree[node]
        lower == NewNode(From(n.path, i + 1), n.fullpath, n.end, n.children,
                         n.totalSize, n.keyCount)
    IN  Append([ tree EXCEPT ![node] =
                   [ n EXCEPT !.path = SubSeq(@, 1, i), !.end = FALSE,
                              !.fullpath = SubSeq(@, 1, Len(@) - (Len(n.path) - i)),
                              !.children = << Len(tree) + 1 >> ] ], lower)

Counted(tree, node, size) ==
    [ tree EXCEPT ![node].totalSize = @ + size, ![node].keyCount = @ + 1 ]

AddLeaf(tree, node, word, full, size) ==
    Append([ tree EXCEPT ![node].children = Append(@, Len(tree) + 1) ],
           NewNode(word, full, TRUE, <<>>, size, 1))

(* One turn of the loop: s is the tree, the node and what is left of the   *)
(* word; the word has its place when there is no node any more (None).     *)
None == 0
Turn(s, full, size) ==
    LET path  == s.tree[s.node].path
        i     == commonPrefixLen(s.word, path)
        fit   == IF i < Len(path) THEN Split(s.tree, s.node, i) ELSE s.tree
        here  == IF i > 0 \/ s.node = Root THEN Counted(fit, s.node, size) ELSE fit
        rest  == From(s.word, i + 1)
        next  == {c \in ToSet(here[s.node].children) : here[c].path[1] = rest[1]}
    IN  IF s.node = None THEN s
        ELSE IF rest = <<>>
        THEN [tree |-> [ here EXCEPT ![s.node].end = TRUE ], node |-> None, word |-> rest]
        ELSE IF next = {}
        THEN [tree |-> AddLeaf(here, s.node, rest, full, size), node |-> None, word |-> rest]
        ELSE [tree |-> here, node |-> CHOOSE c \in next : TRUE, word |-> rest]

(* Every turn but that of the root takes at least a character. *)
insert(tree, word, size) ==
    LET after[k \in 0..(Len(word) + 1)] ==
          IF k = 0 THEN [tree |-> tree, node |-> Root, word |-> word]
          ELSE With(after[k - 1], LAMBDA s : Turn(s, word, size))
    IN  after[Len(word) + 1].tree

(* traverse: <<node, depth>> in breadth-first order; the queue, with what  *)
(* has left it, after k nodes.                                             *)
Kids(tree, visit) ==
    LET kids == tree[visit[1]].children
    IN  [ k \in DOMAIN kids |-> <<kids[k], visit[2] + 1>> ]
traverse(tree) ==
    LET queued[k \in 0..Len(tree)] ==
          IF k = 0 THEN << <<Root, 1>> >>
          ELSE With(queued[k - 1], LAMBDA q : q \o Kids(tree, q[k]))
    IN  queued[Len(tree)]

-----------------------------------------------------------------------------
(* Words of the tree: the database, a space, the key. *)

Space == " "
genKey(db, key) == Digits[db] \o << Space >> \o key

(* A wrong variant: the last space parts the word. *)
parseNodeKey_last(full) ==
    LET spaces == {i \in DOMAIN full : full[i] = Space}
        at == CHOOSE i \in spaces : \A j \in spaces : j <= i
    IN  << SubSeq(full, 1, at - 1), From(full, at + 1) >>

(* The digits of the database and the key; without a space the slice       *)
(* expression key[:-1] panics (NoSpace).                                   *)
NoSpace(full) == full # <<>> /\ Space \notin ToSet(full)
parseNodeKey(full) ==
    LET at == CHOOSE i \in DOMAIN full : full[i] = Space /\ \A j \in 1..(i-1) : full[j] # Space
    IN  << SubSeq(full, 1, at - 1), From(full, at + 1) >>

-----------------------------------------------------------------------------
(* What the tree must be, whatever the order of the insertions.            *)
(* words: a set of <<word, size>>, one size for a word.                    *)

AllPrefixes(words) == UNION {{SubSeq(w[1], 1, i) : i \in 0..Len(w[1])} : w \in words}
IsWord(p, words) == \E w \in words : w[1] = p
Below(p, words) == {w \in words : IsPrefix(p, w[1])}

(* A word, or where two words part. *)
IsNode(p, words) ==
    \/ p = <<>>
    \/ IsWord(p, words)
    \/ \E v, w \in Below(p, words) : /\ Len(v[1]) > Len(p) /\ Len(w[1]) > Len(p)
                                     /\ v[1][Len(p) + 1] # w[1][Len(p) + 1]
NodesOf(words) == {p \in AllPrefixes(words) \cup {<<>>} : IsNode(p, words)}

DepthOf(p, words) == Cardinality({q \in NodesOf(words) : IsPrefix(q, p)})
=============================================================================
