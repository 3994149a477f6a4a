------------------------------- MODULE Reports -------------------------------
(***************************************************************************)
(* The commands of cmd.go, json apart: a command line is checked, the      *)
(* decoder hands over the objects of a file one by one, the filters let    *)
(* some through to the command's callback, and the end of the file makes   *)
(* the report, or the server of the flame graph.                           *)
(*                                                                         *)
(* A job is a command line and the objects a file may hold:                *)
(*   [name, n, maxDepth, seps, prefixSeps, flags, output, objects].        *)
(* An object is [db, key, kind, size, exp, freq, value, fieldExps].        *)
(***************************************************************************)
EXTENDS Filters, Resp, KeyGroups, TopList, TLC, SequencesExt, FiniteSetsExt

CONSTANTS
    Jobs,
    MaxObjects,     \* objects of a file
    Unlimited,      \* math.MaxInt as a number of entries or a depth
    MaxSends

\* The items of the top lists are the objects of the files.
ASSUME ItemsAssumption == Items = UNION {j.objects : j \in Jobs}

\* Flags as cmd.go reads them.  No object has MaxInt (2^63 - 1) bytes, and an
\* expiration in nanoseconds is fewer than MaxInt seconds.
ASSUME JobsAssumption ==
    \A j \in Jobs :
        /\ IsFlags(j.flags)
        /\ \A o \in j.objects : /\ o.size \in Nat /\ o.size < MaxInt
                                /\ o.exp = Nil \/ (o.exp \in Nat /\ Unix(o.exp) <= MaxInt)

VARIABLES
    job,
    pc,             \* "flags", "reading", "serving", "done"
    chain,          \* the filters, innermost first
    read,           \* the objects the decoder has handed over, in order
    passed,         \* those that reached the callback
    failed,         \* a write to the output has failed
    acc,            \* what the callback has collected so far
    rows,           \* the report
    result,         \* "none", "nil", "error", "panic"
    stopper, server, shutdown, caller, sent     \* FlameServer

Radix == INSTANCE RadixTree
Server == INSTANCE FlameServer

\* Keys are strings, and strconv.Itoa writes digits, others for each number.
ASSUME KeysAssumption ==
    \A j \in Jobs : \A o \in j.objects :
        /\ o.key \in Seq(ToSet(o.key)) /\ Digits[o.db] \in Seq(ToSet(Digits[o.db]))
        /\ Radix!Space \notin ToSet(Digits[o.db])
        /\ \A p \in j.objects : Digits[p.db] = Digits[o.db] => p.db = o.db

vars == <<job, pc, chain, read, passed, failed, acc, rows, result,
          list, capacity, added, stopper, server, shutdown, caller, sent>>

-----------------------------------------------------------------------------
(* Before the file is read. *)

NumberOf(j) == IF j.n = 0 THEN Unlimited ELSE j.n
IsSepPrefix(j) == j.name = "prefix" /\ j.prefixSeps # <<>>
DepthOf(j) == IF j.maxDepth <= 0 THEN Unlimited ELSE j.maxDepth

(* The errors of the first lines of each command. *)
Refused(j) ==
    \/ j.name \in {"aof", "memory"} /\ j.output = ""
    \/ j.name \in {"bigkey", "hotkey"} /\ j.n <= 0
    \/ j.name = "prefix" /\ ~IsSepPrefix(j) /\ j.n < 0

(* helper.ToAOF(src, output, options): the slice is one option of a type   *)
(* that wrapDecoder does not know.                                         *)
OptionsOf(j) == IF j.name = "aof" THEN << <<"[]interface{}", Options(j.flags)>> >>
                                  ELSE Options(j.flags)

Nothing(j) == CASE j.name = "prefix" /\ ~IsSepPrefix(j) -> Radix!newRadixTree
                [] j.name = "flamegraph" -> newFlame
                [] OTHER -> <<>>

Init ==
    /\ job \in Jobs /\ pc = "flags" /\ chain = <<>> /\ read = <<>> /\ passed = <<>>
    /\ failed = FALSE /\ acc = Nothing(job) /\ rows = <<>> /\ result = "none"
    /\ newToplist(IF NumberOf(job) > 0 THEN NumberOf(job) ELSE Unlimited)
    /\ Server!Web

NoList   == UNCHANGED <<list, capacity, added>>
NoServer == UNCHANGED <<stopper, server, shutdown, caller, sent>>

(* The command line is refused, the file cannot be opened, an expression   *)
(* is illegal, or the header of memory.csv cannot be written.              *)
Fails == /\ pc' = "done" /\ result' = "error"
         /\ UNCHANGED <<job, chain, read, passed, failed, acc, rows>> /\ NoList /\ NoServer

CannotStart == pc = "flags" /\ Fails

Open == /\ pc = "flags" /\ ~Refused(job)
        /\ wrapDecoder(OptionsOf(job)) # "error"
        /\ chain' = wrapDecoder(OptionsOf(job)) /\ pc' = "reading"
        /\ UNCHANGED <<job, read, passed, failed, acc, rows, result>> /\ NoList /\ NoServer

-----------------------------------------------------------------------------
(* Objects. *)

(* The file holds a key of a database once. *)
Arriving ==
    {o \in job.objects :
        /\ Len(read) < MaxObjects
        /\ o.kind = "aux" => WithSpecialOpCode(OptionsOf(job))
        /\ \A i \in DOMAIN read : read[i].db # o.db \/ read[i].key # o.key}

Collect(o) ==
    CASE job.name = "prefix" /\ ~IsSepPrefix(job) ->
            acc' = Radix!insert(acc, Radix!genKey(o.db, o.key), o.size) /\ NoList
      [] IsSepPrefix(job) ->
            acc' = AddToGroups(acc, o, job.prefixSeps, DepthOf(job)) /\ NoList
      [] job.name = "flamegraph" -> acc' = addObject(acc, o, job.seps) /\ NoList
      [] job.name = "bigkey" -> add(<< o.size, o >>) /\ UNCHANGED acc
      [] job.name = "hotkey" ->         \* objects without a frequency are skipped
            /\ IF o.freq < 0 THEN NoList ELSE add(<< o.freq, o >>)
            /\ UNCHANGED acc

(* The callback of a command that writes while it reads: ToAOF goes on     *)
(* after a failed write, MemoryProfile stops the parser, which returns nil.*)
WriteObject(o) ==
    /\ NoList /\ UNCHANGED acc
    /\ \/ /\ rows' = rows \o (IF job.name = "aof" THEN ObjectToCmd(o) ELSE << o >>)
          /\ UNCHANGED <<failed, pc, result>>
       \/ /\ failed' = TRUE /\ UNCHANGED rows
          /\ IF GoesOn(chain, o, job.name = "aof") THEN UNCHANGED <<pc, result>>
             ELSE pc' = "done" /\ result' = "nil"

Object ==
    /\ pc = "reading"
    /\ \E o \in Arriving :
          /\ read' = Append(read, o)
          /\ IF Passes(chain, o)
             THEN /\ passed' = Append(passed, o)
                  /\ IF job.name \in {"aof", "memory"} THEN WriteObject(o)
                     ELSE Collect(o) /\ UNCHANGED <<failed, rows, pc, result>>
             ELSE UNCHANGED <<passed, failed, acc, rows, pc, result>> /\ NoList
    /\ UNCHANGED <<job, chain>> /\ NoServer

(* Parse returns an error, or the header of the report cannot be written. *)
ParseError == pc = "reading" /\ Fails

-----------------------------------------------------------------------------
(* The end of the file. *)

(* The nodes of the tree below a database, down to the depth asked for;    *)
(* traverse stops at the first node that is too deep.                      *)
Reported ==
    LET all == Radix!traverse(acc)
        deep == IF job.maxDepth = 0 THEN Unlimited ELSE job.maxDepth + 2
    IN  SelectSeq(all, LAMBDA nd : nd[2] <= deep /\ nd[2] > 2)

NodeEntry(node) == << acc[node].totalSize, node >>
NodeRow(node) ==
    LET n == acc[node]
        where == Radix!parseNodeKey(n.fullpath)
    IN  [db |-> where[1], prefix |-> where[2], size |-> n.totalSize, keyCount |-> n.keyCount]

(* PrefixAnalyse: the top list of the nodes, and a row for each; a node    *)
(* whose path has no space stops the program.                              *)
ReportPrefixes ==
    /\ added' = [ i \in DOMAIN Reported |-> NodeEntry(Reported[i][1]) ]
    /\ list' = FoldLeft(LAMBDA l, x : insert(l, x, capacity), <<>>, added')
    /\ UNCHANGED capacity
    /\ LET bad == {i \in DOMAIN list' : Radix!NoSpace(acc[list'[i][2]].fullpath)}
       IN  IF bad # {}
           THEN /\ rows' = [ i \in 1..(Min(bad) - 1) |-> NodeRow(list'[i][2]) ]
                /\ result' = "panic"
           ELSE /\ rows' = [ i \in DOMAIN list' |-> NodeRow(list'[i][2]) ]
                /\ result' = "nil"

ReportGroups ==
    /\ \E order \in SortedBySize(GroupRows(acc)) :
          rows' = IF job.n > 0 THEN Shorter(order, job.n) ELSE order
    /\ result' = "nil" /\ NoList

End ==
    /\ pc = "reading"
    /\ CASE job.name = "prefix" /\ ~IsSepPrefix(job) -> ReportPrefixes
         [] IsSepPrefix(job) -> ReportGroups
         [] job.name = "flamegraph" ->
               rows' = Drawn(acc, Len(passed)) /\ result' = "nil" /\ NoList
         [] job.name \in {"bigkey", "hotkey"} -> rows' = list /\ result' = "nil" /\ NoList
         [] OTHER -> result' = "nil" /\ UNCHANGED rows /\ NoList
    /\ pc' = IF job.name = "flamegraph" THEN "serving" ELSE "done"
    /\ UNCHANGED <<job, chain, read, passed, acc>> /\ NoServer
    /\ \/ UNCHANGED failed
       \/ job.name \notin {"aof", "flamegraph"} /\ failed' = TRUE    \* csvWriter.Flush

Serving == /\ pc = "serving"
           /\ Server!ServerNext
           /\ UNCHANGED <<job, pc, chain, read, passed, failed, acc, rows, result>> /\ NoList

Next == CannotStart \/ Open \/ Object \/ ParseError \/ End \/ Serving

(* A goroutine that is ready runs sooner or later.  The program need not   *)
(* get through its file, nor the caller stop the server.                   *)
ServerStep(A) == pc = "serving" /\ server # "panic" /\ A
Spec == /\ Init /\ [][Next]_vars
        /\ WF_vars(ServerStep(Server!Rendezvous) /\ Serving)
        /\ WF_vars(ServerStep(Server!Close) /\ Serving)
        /\ WF_vars(ServerStep(Server!Listen \/ Server!Serve) /\ Serving)

-----------------------------------------------------------------------------
(* Properties. *)

Sizes(objects) == Sum(objects, LAMBDA o : o.size)
Passed == ToSet(passed)

(* A command sees the objects its filter flags ask for, all of them, in    *)
(* the order of the file, and no others, whichever flags are combined      *)
(* (wrapDecoder and the five Parse methods of helper/regex.go); aof is not *)
(* among them, because ToAOF does not get its options.  The rows of the    *)
(* memory report are those objects until a write fails, which ends the     *)
(* reading through whatever links are in between.                          *)
FiltersExact ==
    pc # "flags" /\ result # "error" =>
       /\ job.name # "aof" =>
            \E at \in [DOMAIN passed -> DOMAIN read] :
               /\ \A i, k \in DOMAIN at : i < k => at[i] < at[k]
               /\ {at[i] : i \in DOMAIN at} = {i \in DOMAIN read : Wanted(job.flags, read[i])}
               /\ \A i \in DOMAIN at : passed[i] = read[at[i]]
       /\ job.name = "memory" => IF failed THEN pc = "done" ELSE rows = passed

IsPrefixJob == job.name = "prefix" /\ ~IsSepPrefix(job)
WordOf(o) == << Radix!genKey(o.db, o.key), o.size >>
FileWords == {WordOf(o) : o \in Passed}
WordSizes(ws) == Sum(ws, LAMBDA w : w[2])

(* Whatever the order of the keys, the tree has one node for each key and  *)
(* for each place where two keys part, with the size and the number of the *)
(* keys below it, and each node hangs under its longest prefix             *)
(* (radixTree.insert, with every way to split a node).                     *)
RadixTreeCanonical ==
    IsPrefixJob =>
      /\ {acc[i].fullpath : i \in DOMAIN acc} = Radix!NodesOf(FileWords)
      /\ \A i, j \in DOMAIN acc : acc[i].fullpath = acc[j].fullpath => i = j
      /\ \A i \in DOMAIN acc :
           LET below == Radix!Below(acc[i].fullpath, FileWords)
           IN  /\ acc[i].totalSize = WordSizes(below)
               /\ acc[i].keyCount = Cardinality(below)
               /\ acc[i].end = Radix!IsWord(acc[i].fullpath, FileWords)
               /\ \A k \in ToSet(acc[i].children) :
                     acc[k].fullpath = acc[i].fullpath \o acc[k].path

(* The prefixes of keys of a database, <<db, prefix>>, at which the tree   *)
(* has a node: neither its root nor the roots of the databases.            *)
TreePrefixes ==
    {x \in UNION {{<< o.db, SubSeq(o.key, 1, i) >> : i \in 1..Len(o.key)} : o \in Passed} :
       Radix!genKey(x[1], x[2]) \in Radix!NodesOf(FileWords)}
Level(x) == Cardinality({y \in TreePrefixes : y[1] = x[1] /\ IsPrefix(y[2], x[2])})
RowOf(r, x) == r.db = Digits[x[1]] /\ r.prefix = x[2]

(* Every row of the prefix report gives the size and the number of the     *)
(* keys of one database with that prefix, and no two give the same; no row *)
(* has more of them above it than the depth asked for; without limits a    *)
(* prefix is missing only if it goes on from no other one                  *)
(* (AllPrefixesReported is about those); and only a database number of     *)
(* three digits can make it panic (PrefixAnalyse, parseNodeKey).           *)
PrefixReportRight ==
    IsPrefixJob /\ result \in {"nil", "panic"} =>
      /\ \A r \in ToSet(rows) :
           LET mine == {o \in Passed : Digits[o.db] = r.db /\ IsPrefix(r.prefix, o.key)}
           IN  /\ r.size = Sizes(mine) /\ r.keyCount = Cardinality(mine)
               /\ job.maxDepth # 0 => Cardinality({i \in DOMAIN rows :
                     rows[i].db = r.db /\ IsPrefix(rows[i].prefix, r.prefix)}) <= job.maxDepth
      /\ \A i, k \in DOMAIN rows :
           rows[i].db = rows[k].db /\ rows[i].prefix = rows[k].prefix => i = k
      /\ result = "nil" /\ job.n = 0 /\ job.maxDepth = 0 =>
           \A x \in TreePrefixes : Level(x) > 1 => \E r \in ToSet(rows) : RowOf(r, x)
      /\ result = "panic" => \E o \in Passed : o.db > 99

(* README.md:457 says of the prefixes "All are output by default", and     *)
(* prefix.go:64 "skip root and database root": a report without limits has *)
(* a row for each of them.                                                 *)
AllPrefixesReported ==
    IsPrefixJob /\ result = "nil" /\ job.n = 0 /\ job.maxDepth = 0 =>
      \A x \in TreePrefixes : \E r \in ToSet(rows) : RowOf(r, x)

(* The groups of the separator analysis are the beginnings of keys up to a *)
(* separator, at most maxDepth of them, with the size and the number of    *)
(* all keys that begin so, whichever separators they use; the report is    *)
(* the largest n of them (SepPrefixAnalyse).                               *)
SepGroupsRight ==
    IsSepPrefix(job) =>
      LET sep == Head(job.prefixSeps)
          key(o) == Normalized(o.key, job.prefixSeps)
          begins(o) == {SubSeq(key(o), 1, i) : i \in {k \in DOMAIN o.key :
              /\ key(o)[k] = sep
              /\ Len(SelectSeq(SubSeq(key(o), 1, k), LAMBDA c : c = sep)) <= DepthOf(job)}}
          all == UNION {{<< o.db, b >> : b \in begins(o)} : o \in Passed}
          of(g) == {o \in Passed : o.db = g[1] /\ g[2] \in begins(o)}
      IN  /\ DOMAIN acc = {<< g[1], g[2] \o Star >> : g \in all}
          /\ \A g \in all : acc[<< g[1], g[2] \o Star >>] =
                              [size |-> Sizes(of(g)), keyCount |-> Cardinality(of(g))]
          /\ result = "nil" =>
               /\ Len(rows) = Min({NumberOf(job), Cardinality(all)})
               /\ \A r \in ToSet(rows), x \in GroupRows(acc) \ ToSet(rows) : x.size <= r.size

(* In the flame graph a node of the keys is as wide as the keys under it,  *)
(* and, with its small leaves bundled or not, its children together as the *)
(* keys beyond it: but for what a bundle replaces, which is a child that a *)
(* key has named "others" (addObject, trimData).                           *)
KeyParts(o) == FlameParts(o, job.seps)
Under(p) == {o \in Passed : IsPrefix(p, KeyParts(o))}
Small(p) == (\A o \in Under(p) : KeyParts(o) = p) /\ Sizes(Under(p)) < bigNodeThreshold
Bundled(p) == {o \in Under(p) : Len(KeyParts(o)) = Len(p) + 1 /\ Small(KeyParts(o))}
Replaced(p) ==
    LET others == Append(p, Others)
    IN  IF Len(passed) >= TrimThreshold /\ Sizes(Bundled(p)) > 0 /\ ~Small(others)
        THEN Under(others) ELSE {}
FlameGraphRight ==
    job.name = "flamegraph" /\ result = "nil" =>
      \A p \in DOMAIN rows : Others \notin ToSet(p) =>
        /\ rows[p] = Sizes(Under(p))
        /\ Children(rows, p) # {} =>
             Sum(Children(rows, p), LAMBDA q : rows[q])
               = Sizes({o \in Under(p) \ Replaced(p) : KeyParts(o) # p})

(* A Redis that loads the AOF gets exactly those of the objects back that  *)
(* commands can give, with their expirations and those of hash fields: all *)
(* but modules and some streams, which Storable names.  No write has       *)
(* failed, and the key is of one database only, since the objects of all   *)
(* of them come back in the first one (ToAOF, ObjectToCmd).                *)
AofRebuilds ==
    job.name = "aof" /\ result = "nil" /\ ~failed =>
      LET base == Replay(rows)
          kept == {o \in Passed : o.kind \notin {"module", "aux"}}
      IN  /\ DOMAIN base \subseteq {o.key : o \in kept}
          /\ \A o \in kept : (\A x \in kept \ {o} : x.key # o.key) =>
               (Storable(o) <=> o.key \in DOMAIN base /\ base[o.key] = InRedis(o))

(* Once its caller has sent on the channel, the server of the flame graph  *)
(* ends, in whatever order the two goroutines of d3flame.Web run, or the   *)
(* process has already panicked.                                           *)
StopEndsServer == (sent > 0) ~> (server \in {"closed", "panic"})
=============================================================================
