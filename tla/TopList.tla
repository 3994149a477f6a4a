------------------------------ MODULE TopList ------------------------------
(***************************************************************************)
(* The bounded list of the largest entries: topList (helper/toplist.go),   *)
(* and hotKeyList (helper/hotkey.go), which is the same over frequencies.  *)
(* An entry is <<weight, item>>; the list holds the heaviest first.        *)
(***************************************************************************)
EXTENDS Integers, Sequences

CONSTANT Items

VARIABLES
    list, capacity,     \* the fields of topList and hotKeyList
    added               \* every entry ever added, in order

topVars == <<list, capacity, added>>

TopEntry == Int \X Items

(* sort.Search: the first index whose entry is not heavier, or one behind  *)
(* the end.  The list is sorted, which a binary search relies on.          *)
Search(l, w) ==
    CHOOSE i \in 1..(Len(l) + 1) :
        /\ i <= Len(l) => l[i][1] <= w
        /\ \A j \in 1..(i - 1) : l[j][1] > w

Inserted(l, i, x) == [ k \in 1..(Len(l) + 1) |-> IF k < i THEN l[k]
                                                 ELSE IF k = i THEN x ELSE l[k - 1] ]
Shorter(l, cap) == IF Len(l) > cap THEN SubSeq(l, 1, cap) ELSE l

(* A wrong variant: the newest entry goes to the end and may be cut off.   *)
insert_late(l, x, cap) == Shorter(Append(l, x), cap)

insert(l, x, cap) == Shorter(Inserted(l, Search(l, x[1]), x), cap)

(* newToplist, newHotKeyList *)
newToplist(cap) == list = <<>> /\ capacity = cap /\ added = <<>>

add(x) == /\ list' = insert(list, x, capacity)
          /\ added' = Append(added, x)
          /\ UNCHANGED capacity

TopInit == \E cap \in Nat \ {0} : newToplist(cap)
TopNext == \E x \in TopEntry : add(x)
TopSpec == TopInit /\ [][TopNext]_topVars

-----------------------------------------------------------------------------
Sorted == \A i, j \in 1..Len(list) : i <= j => list[i][1] >= list[j][1]

(* An entry is missing only from a full list of entries that are at least  *)
(* as heavy.                                                               *)
NothingHeavierDropped ==
    \A i \in 1..Len(added) :
        \/ \E j \in 1..Len(list) : list[j] = added[i]
        \/ /\ Len(list) = capacity
           /\ \A j \in 1..Len(list) : list[j][1] >= added[i][1]

(* The list is sorted and no larger than it may be, every entry of it has  *)
(* been added, and none that was added is missing for a lighter one, in    *)
(* whatever order they came (topList.add, hotKeyList.add).                 *)
TopListRight ==
    /\ Sorted
    /\ Len(list) = IF Len(added) < capacity THEN Len(added) ELSE capacity
    /\ \A j \in 1..Len(list) : \E i \in 1..Len(added) : added[i] = list[j]
    /\ NothingHeavierDropped
=============================================================================
