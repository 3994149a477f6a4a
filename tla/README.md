# A specification of the rdb library

`github.com/hdt3213/rdb` reads the snapshot files of Redis and Valkey (RDB
files), writes them, and builds reports from them: JSON, AOF, memory tables,
biggest and hottest keys, prefix statistics, flame graphs.  This directory holds
TLA+ modules that model its encoder, its decoder, its codecs and its reports,
the TLC runs that check them on small instances, and proofs of the properties that matter most.

Paths like `core/encoder.go:255` are relative to `src/`.

## 1. The system

### Components

| Component | State it keeps | Operations | Correct means |
|---|---|---|---|
| Encoder (`core/encoder.go`, write halves of `core/*.go`) | `state`, `existDB`, the running CRC, the `io.Writer`; options (`valkey`, `compress`, ziplist limits) | `WriteHeader`, `WriteAux`, `WriteDBHeader`, `WriteXxxObject`, `WriteEnd` | the file has the grammar of an RDB file whatever the caller tries; no database twice, none empty; the checksum fits; a call that returned nil is in the file |
| Decoder (`core/decoder.go`, read halves of `core/*.go`) | the reader, `valkey`, `rdbVersion`; the locals of `parse`: database, expiration, idle time, frequency | `Parse(cb)` | each object is delivered once, in order, with its own prefixes; a damaged file is an error; a stop is a stop; `Parse` returns |
| Object encodings (`string`, `list`, `set`, `hash`, `zset`) | none | one reader per type flag, one writer per encoding | reading undoes writing |
| Ziplist, listpack, intset, zipmap codecs | cursors in a buffer | entry readers and writers | round trip at every width boundary |
| Streams (`core/stream.go`) | master entry, flags, groups | read and write | round trip of entries, groups, pending lists |
| Modules (`core/module.go`) | user handlers by module name | skip or hand over a value | the operands are consumed exactly |
| LZF, CRC64 (`lzf/`, `crc64jones/`) | tables | compress, decompress, update | `Decompress(Compress(x)) = x`; redis' polynomial |
| JSON converter (`helper/json.go`) | two bounded channels, two wait groups, shared `err` and `empty` | `ToJsons` | one record per object, a well-formed list, every goroutine ends, failures are reported |
| AOF converter (`helper/converter.go`, `helper/resp.go`) | none | `ToAOF`, `ObjectToCmd` | replaying the commands rebuilds the data |
| Filters (`helper/regex.go`) | a chain of decoders | `wrapDecoder`, `Parse` | exactly the objects every filter admits; a stop goes through |
| Top lists (`helper/toplist.go`, `bigkey.go`, `hotkey.go`) | a sorted list of bounded length | `add` | the N largest, in order |
| Prefix analysis (`helper/radix.go`, `prefix.go`; `prefix_stream.go`) | a radix tree; a map of prefixes | `insert`, `traverse` | sizes and counts are the sums over the keys with the prefix |
| Flame graph (`helper/flamegraph.go`, `d3flame/web.go`) | a tree of sizes; a web server | `addObject`, `trimData`, `Web` | trimming keeps the sums; stop stops |
| Memory profiler (`memprofiler/`) | none | `SizeOfObject` | defined on every object the decoder delivers |
| `bytefmt`, `model`, `cmd.go`, `encoder/`, `parser/` | none | formatting, data types, flags, aliases | - |

### How they interact

The caller drives an Encoder, one method at a time; the Encoder drives an
`io.Writer` that may fail.  The file it leaves, complete or not, is what a
Decoder reads.  The Decoder calls `memprofiler.SizeOfObject` on each object and
then the caller's callback, which may stop it.  Every helper is such a callback:
the filters wrap the callback of another decoder, the reports accumulate and
print after `Parse` returned, and `ToJsons` sends the objects through a channel
to marshallers and on to one writing goroutine.

### What is hard

- *Partial failure.*  Every write of an encoder method may fail, half done.
  Nothing is rolled back, the method may be called again, and some errors are
  taken for something else.
- *Incomplete files.*  A file may end anywhere, because its writer crashed.
- *State between records.*  Expiration, idle time and frequency come in records
  of their own before the object they belong to.
- *Two dialects* that give the same bytes different meanings.
- *Concurrency*: in `ToJsons` four kinds of goroutines, two bounded channels,
  variables shared without synchronisation; in `d3flame.Web` two goroutines and
  a caller around one HTTP server.
- *Boundaries.*  Integers, lengths and strings have up to six encodings each, in
  four containers, and the LZF compressor has limits on literals, matches and
  distances.
- *Order.*  The reports must not depend on the order of the keys, which cut and
  regroup one another in a tree, a bounded list or a map.

The full list, line by line, with the property that watches each, is under
`hazards` in `PROJECT.json`.

## 2. The modules

| Module | Models | Kind |
|---|---|---|
| `RdbFile` | the tokens of a file, the objects of a caller | definitions |
| `RdbEncoder` | the Encoder and its writer | state machine |
| `RdbDecoder` | the Decoder and its callback | state machine over any file |
| `RdbCorpus` | the Decoder on all files made of given records | composition with an independent description of the file |
| `ObjectPipe` | what a file promises: a queue of objects | abstract specification |
| `RdbRoundTrip` | Encoder, file, Decoder; the writing process may end anywhere | composition |
| `JsonPipeline` | the goroutines of `ToJsons` | state machine |
| `Reads` | a read that may fail, and how reads follow one another | definitions |
| `Words` | 64-bit integers and byte buffers | definitions |
| `ListPack`, `ValueCodecs`, `Streams` | bytes of listpacks; of lengths, strings, ziplists, intsets, zipmaps; of streams | codecs as operators |
| `Lzf` | `Compress` and `Decompress` | state machine, one step per turn of the loop |
| `Codecs` | one value through an encoder, a file that may be cut, and the decoder | composition |
| `TopList` | `topList` and `hotKeyList` | state machine |
| `RadixTree` | `radixTree` | operators on a tree, with the tree the keys alone determine |
| `KeyGroups` | `SepPrefixAnalyse`, the tree of the flame graph, `trimData` | operators |
| `Filters` | the options, `wrapDecoder` and the five `Parse` methods | operators, with what the flags ask for |
| `Resp` | `ObjectToCmd`; a Redis that loads the commands (external) | operators |
| `FlameServer` | the goroutines of `d3flame.Web` and a caller | state machine |
| `Reports` | the commands of `cmd.go`, except `json` | composition of the six above |
| `RdbEncoderProofs` | theorems about `RdbEncoder`: types, databases, checksum; the grammar of the file | proofs |
| `RdbDecoderProofs` | theorems about the loop of `RdbDecoder` on the files of `RdbCorpus` | proofs |
| `JsonPipelineProofs` | theorems about `JsonPipeline` | proofs |
| `LzfProofs`, `CodecsProofs` | theorems about `Lzf`, and about the lengths and strings of `Codecs` | proofs |
| `RdbRoundTripProofs`, `RdbReadBackProofs` | theorems about `RdbRoundTrip`: the file as the writing side leaves it, and what reading it gives | proofs |
| `ReportsProofs` | theorems about `TopList`, and about the filters and the radix tree in `Reports` | proofs |
| `MC_*` | the finite sets the runs use | instances |

Operators named `x_something` (`WriterFails_summed`, `Object_leaks`, ...) are
wrong variants of the operator `x`, each a bug the code could have.  They take
part in no specification; `PROJECT.json` pairs each with the property that
must catch it.

### `RdbFile`: tokens

A file is a sequence of tokens.  A token is what one call of `Encoder.write`
puts into the writer, and what one primitive read of the Decoder takes out:
an opcode, a length, the length or the body of a string, a double, an 8-byte
integer.  Which token follows which is kept exactly; the bits inside a token are
abstracted.  The body of a string is a redis string or the image of a compact
structure (ziplist or listpack entries, or an intset).  A string has a length,
and three properties the encoder's choices depend on: whether
`isEncodableUint32` and `isEncodableUint64` accept it, and whether LZF shrinks it.
`Torn` stands for the part of a token that is left when the writer fails inside
it, and `Crc(ts)` for a checksum of `ts` that no other input has.

### `RdbEncoder`

`state`, `existDB` and `crc` are the fields of the struct; `out` is what the
writer has received.  A public method is one action of the caller
(`WriteHeader`, `WriteAux`, `WriteDBHeader`, `WriteObject`, `WriteEnd`), which is
refused at once or begins a call: it checks the state machine, changes what the
method changes before its first write (`existDB`), and puts the statements that
are left into `todo`.  The steps then take `todo` apart, one write or one
decision at a time: `WriteToken`, `WriteLzfToken`, `WriteStr` (which chooses
between the integer, compressed and plain form), `WriteTTL` (which checks and
changes the state on its own, in the middle of a call), `WriteSum`,
`SetState`.  `WriterFails` may take the place of any write, with or without
having taken a part of it.  The encodings (`WriteListObject`,
`writeQuickList`, `WriteSetObject`, ...) are operators giving the statements of the
method; where the code ranges over a Go map they give one sequence per order.

`health`, `db` and `log` are history variables: whether a call that had begun
failed and whether the caller went on after that, the database of the last
accepted `WriteDBHeader`, and the objects whose call returned nil.

### `RdbDecoder`

`dbIndex`, `expireMs`, `lru`, `lfu` are the locals of `parse`, `valkey` the field;
`got` is what the callback received.  One action per branch of the loop of
`parse`, plus `checkHeader` and `NoRecord` (the read at the head of the loop
fails).  An action reads all operands of its record; the reads are operators from
a position to *(how it ended, where, what was read)*, chained by `Then`, which is
the `if err != nil { return err }` of the code.  There is one operator per reader
of the code, with its name.  `SecondOperand` is the branch of AUX and RESIZEDB
whose error is shadowed.  `readQuickList2` includes the part of `SizeOfObject` that
can panic, since `Parse` turns the panic into its error.

If the decoder meets a token of another kind than the one it reads, the result
depends on bits the model does not have.  Such a run ends as "misread" and the
property `Aligned` says that it does not happen on files that were well-formed
before they were cut.

### `RdbCorpus`

Enumerates files: sequences of records, complete or cut between or inside any
two tokens.  From the records alone, without any register, it says what the
callback should receive (`Expected`): an object gets the latest SELECTDB before it,
and those prefixes that stand between it and the object before it.

### `RdbRoundTrip` and `ObjectPipe`

The encoder runs; at any point, also inside a call, the process ends and the file
is opened for reading (`Open`); the decoder runs on what is there.  `ObjectPipe` is
a queue: objects join at one end and leave at the other, in order.  The refinement
mapping takes as sent the accepted objects and the one being written, and as
received the objects delivered to the callback.

### `JsonPipeline`

One program counter per goroutine: the parser, each marshaller, the writer, and
`ToJsons` itself; the two channels with their closed flags, the counter of the
wait group, `empty`, and `err`, which the parser, the writer and `ToJsons` assign
without synchronisation.  A write and the test of its error are two steps, so that
another assignment to `err` can come between.  `Workers` and `parseFails` are chosen
at the start: the argument of `WithConcurrent`, and the state of the RDB file.

### `Words`, `ListPack`, `ValueCodecs`, `Streams` and `Codecs`

Here the bits count.  A 64-bit integer is the tuple of its eight bytes, so every
width, sign extension and byte order is the code's own; a buffer is a sequence of
bytes in which the content of a text stands as one element with a length.  Each
encoder of the code is an operator that gives bytes, each reader one that takes a
buffer and a position, and has the name it has in the code.  Listpacks other than those of
streams, and zipmaps, are never written by the library: `RedisListPack` and
`RedisZipMap` write them as Redis does, and are marked external in the map.

`Codecs` has a job, a kind and a value.  `Encode` writes it (a stream in each order
in which a Go map may be ranged over), `Cut` may end the file after any byte, `Decode`
runs the reader.  What a stream loses because its version cannot hold it is
`AsStored`.

### `Lzf`

One action per turn of the main loop of `Compress`: a literal, a match, the rest, an
output that has become too long.  `htab` holds the positions entered in the hash
table; whether an entry has been replaced by another triple with the same hash is
left open, so that the properties hold for any hash function.  `Decompress` is a
function from the number of turns its loop has made to where it stands, with its bounds
checks; its result is where it stands when it makes no further turn.

### `Reports` and what it is made of

A job is a command line and a set of objects; the file holds up to `MaxObjects` of
them in any order.  `CannotStart` and `Open` are the checks at the head of a command,
`Object` is one call of the command's callback through the `chain` of filters,
`ParseError` an error of `Parse`, `End` what the command does afterwards: sorting,
trimming, printing.  The flame graph then goes on in `Serving`, the steps of
`FlameServer`.  `acc` is the tree or the map of the command, `list`, `capacity` and
`added` are `TopList`'s, `rows` is the report.  A write may fail (`failed`), with
what each command makes of that: `aof` goes on, `memory` stops and returns nil.

A key is a sequence of characters and a separator is one character.  A regular
expression is the set of the keys it matches, the two parts of a range expression are
already split at `~`, and times are ticks with `Second` of them in a second.  As in
`cmd.go`, `aof` receives its options as a single one of an unknown type.

`RadixTree` follows `insert` node by node: walking down, splitting a node, adding a
child.  `NodesOf` says independently, from the set of keys, which nodes there are.  In
`FlameServer` closing the server is the flag `inShutdown` and the closing of the
listeners it knows, as `net/http` does it; the caller may send on `stop` before
the server listens.

## 3. The runs

| Run | States | Question |
|---|---|---|
| `RdbEncoder` | 1.8 million | grammar, databases and checksum of the file under any calls and write failures |
| `RdbDecoder` | 310 000 | every opcode and type flag, every cut, every stop |
| `RdbRoundTrip_redis` | 640 000 | does every object come back, is the file a queue |
| `RdbRoundTrip_crash` | 2.5 million | crash and write failure in two databases, Valkey dialect |
| `JsonPipeline` | 17 000 | goroutines, channels, failures |
| `Codecs` | 40 000 | does every encoding read back at its boundaries, is every cut an error |
| `Reports` | 235 000 | filters, lists, trees, groups, commands and the server, for every order of the objects |

and five runs that end in a counterexample, see section 5.

### Properties

`RdbEncoder`
- `NoDuplicateDB`: no index is selected twice, although `WriteDBHeader` records it
  before it writes and may fail and be called again.
- `SumTellsDamage`: the checksum is that of the bytes before it if and only if no
  write was torn.  (It is not simply "equal": an encoder used on after a torn write
  does write a checksum, and that checksum gives the damage away.)
- `NoEmptyDB`, `NoOrphanTTL`, `NothingAfterEOF`: the grammar, with refused calls
  and refused TTL options in between.

`RdbDecoder`
- `NothingLost`: unless stopped, `Parse` has delivered exactly the objects complete
  in the file, with their registers, when it returns - nil or error.
- `Aligned`: no operand is skipped by a wrong amount; and wherever the loop meets an object
  or module aux data, the reader of its type gives the value the record stands for and
  ends at its last token, or an error when the file is cut in it (`ValuesRead`).
- `OwnRegisters`: no register leaks into the next object.
- `NoSilentTruncation`: nil means EOF was seen, with the exception of section 5.
- `ValidFilesAreRead`, `StopMeansStop`, `Returns`.

`RdbRoundTrip`
- `RoundTrip`: a finished file gives back what was accepted, and nothing else.
- `CrashSafe`: what was accepted before the process ended or the first failed
  write is delivered; at most the object being written comes on top.
- `NilMeansReadable`: when every call returned nil the file reads back, also when
  the writer failed in a call and the code hid it.  Without compression it holds.
- `IsObjectPipe`: implementation of the abstract specification.

`JsonPipeline`
- `OneCopy`: at every moment each parsed object is in exactly one place.
- `NothingLost`, `WellFormedJson`: what a nil result promises.
- `NoSendOnClosed`, and `wg` within bounds in `TypeOK`: no panics.
- `KeepsOrder`: one marshaller keeps the order of the file.
- `EveryoneEnds`: no deadlock, no goroutine left behind.

`Codecs`
- `PrimitivesRoundTrip`, `ImagesRoundTrip`, `StreamRoundTrip`: a value comes back, and
  the reader ends where the writer did.  The last two are equivalences: they
  also say exactly which ziplists and streams do not come back (`ZipListStorable`,
  `IdsStorable`, `ShapeStorable`).
- `RedisImagesRead`: listpacks of a Redis come back; its zipmaps do exactly when the reader
  knows the form of their lengths and of their count (`ZipMapReadable`).
- `CutIsError`: a value that is cut anywhere is an error.
- `LzfRoundTrip`, `LzfInBounds`: compression loses nothing and no index leaves its
  array, whatever the hash function.

`Reports`
- `FiltersExact`: each command sees exactly what its flags ask for, against a reading
  of the flags without any chain, and a command that has had enough is shown nothing
  more through any chain.
- `TopListRight`: the largest entries, as many as asked for, for any order and ties.
- `RadixTreeCanonical`: the tree depends only on the set of keys.
- `PrefixReportRight`, `SepGroupsRight`, `FlameGraphRight`: rows and nodes are sums
  over the keys of the file, counted from the keys and not from the tree.  A prefix with
  another one above it is not missing in a report without limits, and no row is
  deeper than asked for; the documentation promises every prefix, which is
  `AllPrefixesReported` (section 5).  `FlameGraphRight` says what is lost to a bundle
  when a key has a part called `others` (`Replaced`).
- `AofRebuilds`: a Redis that loads the commands has exactly the objects that commands can
  give (`Storable`), also next to others, if no two databases have their key.
- `StopEndsServer`: a first send on `stop` ends the server, however the goroutines run.


### Bounds, and why they are enough

- `RdbEncoder`: `MaxCalls = 5` accepted calls (header, database, object, and two
  more: another database, a repeated call after a failure, or the end), any number
  of refused ones, `MaxFaults = 2` (one failure, and one in the retry),
  `MaxTTLOptions = 2`.  Two databases, a compressible string and an intset.  The
  encodings of the other types run in the round trip.
- `RdbDecoder`: four corpora.  Pairs of records in each dialect, with all cuts:
  registers live from one record to the next object only, and readers have no
  memory, so a pair shows every interaction but the order of several prefixes; for
  that there are five records in a row out of two databases, both expirations,
  frequency, idle time and an object.  AUX, RESIZEDB, FUNCTION, SELECTDB and an object,
  three in a row, with cuts and stops.
- `RdbRoundTrip_redis`: `MaxCalls = 4` (header, database, and two objects, or one and
  the end); ten objects, at least one per encoding; a ziplist limit of two entries of
  three bytes and pages of six bytes, so that each object falls on a known side.
- `RdbRoundTrip_crash`: `MaxCalls = 6` (header, two databases with an object each, the
  end), one fault.
- `JsonPipeline`: channels of two places instead of 1000 and four objects, so that
  both channels fill up and drain; one and two marshallers; up to two failing writes.

- `Codecs`: integers of the real width at both sides of every boundary of every
  encoding, and texts of the lengths around the boundaries 64, 252, 4096 and 16384; in
  zipmaps texts of 252 to 255 and of 4096 bytes, as names and as values.
  Encoders have no memory beyond the entry before, so two entries suffice; streams
  have up to two messages, groups and consumers.  `CountMod = 4` stands for the 65536 at
  which a ziplist loses its count, and `ZipMapCounts = 5` for the 254 at which a zipmap does,
  with four, five and six pairs.  Strings in these buffers are not compressed:
  that is `Lzf`, whose control bytes have 1 and 2 bits (`LitBits`, `LenBits`) instead of 5
  and 3, so that runs of literals, long matches and the farthest references appear in
  inputs of up to 26 bytes: all of up to eight bytes over two symbols, and periodic ones.
- `Reports`: `MaxObjects = 4` in every order: a node of the tree is split, split again
  and extended, and a list of two or three is overfull with ties.  `TrimThreshold = 2`
  objects and `bigNodeThreshold = 4` bytes make the flame graph trim, `Unlimited` and
  `MaxInt` stand for `math.MaxInt`, `MaxSends = 2` has the second send on `stop`.  The streams
  for the AOF differ in one thing each: none, no messages, a last one that was deleted or
  trimmed, a group.

In the record-level runs the `Int64` values, lengths and TTLs are small numbers, and
`EbInvalid = 8` scales `EB_EXPIRE_TIME_INVALID` (2^48) down; arithmetic at the real
widths is in `Codecs`.

### Fairness and deadlock

`RdbCorpus` assumes weak fairness of the decoder's next step: `Parse` is a sequential
loop.  `RdbEncoder` assumes it of the statements of a call, never of the caller.
`JsonPipeline` assumes weak fairness of each goroutine: the Go scheduler runs
every goroutine that can run, and a channel operation that stays possible happens.
`Reports` assumes it of the goroutines of `d3flame.Web` (the rendezvous on `stop`, once
the caller sends; `Close`; `Listen` and `Serve`), but not of the caller, who need not
stop the server, nor of the reading of the file.  `Returns`, `EveryoneEnds` and
`StopEndsServer` are checked under these assumptions.

`JsonPipeline` is checked for deadlock.  The other runs are not, since there the
system really may stop: `Parse` has returned, the command has ended, or the caller
makes no further call within the bound.

## 4. What is proved

A theorem holds for every value of the constants that satisfies the assumptions of the
modules it is about.  Each proof module has the shape: what an action needs to know,
an inductive invariant that says it, one lemma per action, and a theorem that combines
them.

### The encoder (`RdbEncoderProofs`)

For all strings, objects, databases, limits and bounds on calls and faults:
`TypeCorrect`, `DatabasesOnce`, `ChecksumTellsDamage`, `NoDatabaseEmpty`,
`TTLsBelongToObjects`, `EOFIsLast`.

Type correctness needs to know what is still to be written.  `TypeInv` adds to
`TypeOK` that `todo` is a sequence of well-formed instructions that ends with the
change of state when it is not empty (`TodoShape`), and that a database call in
progress names a database (`CallOK`).  One lemma per encoding (`ListWrites`, `SetWrites`,
`ZSetWrites`, `HashWrites`, `HashExWrites`, `Hash2Writes`) shows that its statements
are such instructions; the smallest field expiration exists because the field set
is finite (`MinExpireType`, by well-founded induction on the integers).

`NoDuplicateDB` is not inductive: whether the next write duplicates an index depends
on the rest of the call.  `DBInv` adds that every index in the file is in `existDB`
(`DBsInFile`), and that an index still to be written stands at most once in `todo` and
not in the file (`FreshIndex`).  The step that begins `WriteDBHeader` establishes the
second from the first and from the guard on `existDB`; refused and failed calls only
shrink `todo`.

`SumTellsDamage` needs `SumLast`, that a checksum is preceded in a call by nothing but
the EOF opcode and followed by the change of state only, and `SumFed`: as long as
no checksum is in the file, the CRC input is the file without its torn tokens, hence
equal to the file exactly if nothing was torn.

The grammar of the file is about the file alone, while the code only has the field
`state`.  `GrammarInv` ties them together as long as no write has failed: what the last
marks of the file are in each state and, while a call runs, what its remaining statements
will put behind them (`PhaseInv`); that the databases before the last one have an object
(`FilledInv`, `DBsFull`), that an expiration is followed by a type flag or still waits for
one (`TTLInv`, `TTLsFollowed`), and that after the EOF opcode nothing but the checksum is
left to write (`EOFInv`).

### The decoder (`RdbDecoderProofs`)

`StopIsFinal`: on any file and for any corpus, nothing reaches the callback once it
has returned false.  By itself `StopMeansStop` follows from no guard of an action; it needs
that Parse has returned by then (`StopReturns`).

`RegistersAreOwn`, `NothingIsLost`, `TruncationIsReported`, `CompleteFilesAreRead` and
`NeverMisreads`: for every corpus - any number of records, in any order, with any database,
expiration, idle time, frequency and key, in both dialects, the file whole or cut anywhere, and
a callback that may stop at any call - the loop of `parse` carries its registers to the
right object, delivers all that can be delivered, and ends the way the file does.
These five have the hypothesis `[]ValuesRead`: that the reader of a *value* (an object of a
type, the operands of a module's aux data) gives what the record stands for and ends where it
does.  Of the records themselves and of everything around a value - opcodes, keys, lengths,
expirations, AUX, RESIZEDB, FUNCTION2, SLOT_INFO and SLOT_IMPORT - nothing is assumed.  `RdbDecoder`
checks `ValuesRead` for every reader, as a part of `Aligned`; the one known corpus where it
fails is the quicklist2 of section 5, which `ValidFilesAreRead` fails on too.

The invariant `DecInv` says that Parse stands before the header, or behind exactly n records
(`At`), or has returned because the file gave no more than n records (`Ended`), or because the
callback said so (`Left`); in each case that the entries delivered are those `Expected` of the n
records, and, while it stands in the loop, that the four registers are what the records before
say, without any register: the latest SELECTDB, and the prefixes since the last object.
`At` must also say that the last token of the n records is in the file: a cut file
and its whole agree up to there, except for the remains of one token (`Shaped`).  The
first half of the module shows where in a file a record and its operands stand
(`RecordAt`), by induction over the number of records, and what each primitive read gives there
when the token is whole, torn or missing (`TakeIs`, `TextIs`, `ThreeAre`, `SlotJobIs`).

### The file between them (`RdbRoundTripProofs`, `RdbReadBackProofs`)

For any keys, databases, expirations and objects, any limits of the encodings, any number of
calls in any order, in both dialects, and wherever the writing process ends:

| Theorem | States | Hypotheses |
|---|---|---|
| `RoundTripHolds` | `RSpec => []RoundTrip` | `Readable`, `MaxTTLOptions <= 1` |
| `CrashSafeHolds` | `RSpec => []CrashSafe` | `Readable`, `Cut` |
| `NilMeansReadableHolds` | `RSpec => []NilMeansReadable` | `Readable`, `Cut` |
| `RoundTripIsObjectPipe` | `RSpec => IsObjectPipe` | `Readable`, `MaxFaults = 0`, `MaxTTLOptions <= 1` |

The hypotheses are the cases that section 5 and the hazards speak of, or part of the question:

- `Readable`: the callback does not stop the reader, and every object is `Storable`.  For all types
  but hashes that is no restriction, empty collections included.  `WriteHashMapObject` takes no
  expirations, so that an object for it has none.  An object for `WriteHashMapObjectEx` has a
  field, as both readers refuse an empty hash with expirations ("hash read empty key", `core/hash.go:56`
  and `:100`); and none of its expirations is negative or, in the form of Redis, at
  `EB_EXPIRE_TIME_INVALID` or later: the search for `minExpire` (`core/hash.go:393-402`) passes over those,
  and what is written for them is not what comes back.  The runs' objects satisfy all of it.
- `Cut`, `~Compress` or no failed writes: a write that fails inside a compressed form is taken for
  a compression that failed, and the string is written again behind its torn beginning
  (`core/string.go:289`).  `RoundTripHolds`, which is about files without a failed write, covers
  compression.
- `MaxTTLOptions <= 1`: a second `WithTTL` is refused after the first expiration is in the file,
  which the run `RdbRoundTrip_two_ttls` shows.  `CrashSafe` holds with any number of them.

The argument does not follow the decoder over the steps of the encoder; it describes the file.

1. A *point* of a file is what a reader knows between two records: where it stands, the
   database, the expiration that waits for its object, the entries so far (`Points`).  `Leads(f, a, b)`
   says that a record of `f` leads from one to the next, in terms of the statements that wrote it
   (`Spells`, `Spelled`); what lies beyond the whole tokens of `f` may be anything, so that the same words
   describe a file that ends early.  `Sound(f, log, a)` says that the file leads to `a`, and
   that if it breaks off before, exactly `log` was complete by then.
2. `WriteInv` needs an invariant in the middle of a call.  `Story` quantifies over the future: *every*
   file that extends the one that is there, and in which the rest of the call (`todo`) stands, is
   sound and leads to where the call wants to be (`Goal`).  A step of the call leaves fewer such
   files (`StoryStep`), and when the call begins its statements are a record; when it returns, `todo` is
   empty and the file itself is one of them.  `Trusted` says until when this is promised, `Failed`
   what remains after the first call that failed: the file breaks off in the record of that call.
   `LinkInv` adds that what is left of a call ends with its change of state, and that no state
   waits for an object that never came.
3. Reading: `Ends(x, q, v)` says of a read that it gives `v` and stops at `q`, or is an error if the
   file ends before `q`.  One lemma per primitive read, and one per encoding, end in `ObjectBack`:
   whatever statements wrote an object, whole or cut, `readObject` gives its canonical value or
   an error.  The loops over elements (`readN`, `Concat`) are unfolded along a sequence of partial
   results, by the least number for which the claim would fail (`Run`, `Joins`).  The expirations of
   `hashex` come back because `minExpire` is the least of them and 0 stands for none.
4. `ReadInv` says that the reader stands at a point of a sound file, or has returned because the next
   one is not complete, or at the end (`Stands`); `ReaderStep` that one step takes it to the next point.
   `RInv` is `WriteInv`, and `ReadInv` from `Open` on.

The three invariants follow from `RInv` where the reader has returned (`Delivers`, `ReadsBack`).  For the refinement,
`CallerSends` and `StepSends` say that `Sent` grows by one entry or stays, and `ReaderTakes` that
`Delivered` stays or gets the next entry of `Sent`; never both change in one step.

### JSON (`JsonPipelineProofs`)

For any number of objects and marshallers and any capacity of the channels:
`TypeCorrect`, `NeverSendOnClosed`, `OneCopyEach`, `NothingIsLost`, `JsonWellFormed`,
`OneWorkerKeepsOrder`.

`PipeInv` is the conjunction of four things.  `ControlInv` says how far the goroutines can
be apart: `wg` counts the marshallers that run, a channel is closed exactly when its closer
has passed that line, a goroutine has ended only when the channel it reads is closed and
empty.  `Places` says where every parsed object is, `Apart` that no two places hold the same
one; both are needed, since an object that moves must be missing from where it goes to.
On top of it `Present` adds that nothing disappears without a failed write, `FileInv` that
every record in the file is whole and followed by a comma until `Finish` takes the
last one away, and `InLine` that with a single marshaller the two channels, its hands
and the file are one queue.

`NothingIsLost` has the hypothesis `{} \notin WorkerSets`.  It is needed: `WithConcurrent(0)`
starts no marshaller, and section 5 lists what happens then.

### LZF and the codecs (`LzfProofs`, `CodecsProofs`)

`CompressStaysInside` and `DecompressInverts` hold for every input and for any hash table
that forgets entries as it likes.  `LzfSpec` starts with any byte string but those of
length 1; `writeString` compresses strings longer than 20 bytes only.  The widths of the
control bytes are constants up to those of the code.

The idea is to say what a piece of compressed data means without saying how the rest of it
will look: `Decodes(buf, m, outLen, out)` says that some number of turns of `Decompress`
consumes `m` bytes and gives `out`, whatever bytes follow them.  Such pieces follow one
another (by the least number of turns for which that fails).  `LzfInv` then says that
what has been written `Decodes` to what has been read, except for a run of literals whose
header is written at its end (`Coded`, with `Pending`), that the run, the
positions in the hash table and the cursors lie behind one another (`Behind`), and that the
two tests of the room left leave room for the bytes that are written without a test (`Room`).

`PrimitivesSurvive` says that every `uint64` written as a length, and every string of up to
2^31 - 1 bytes, is read back, and that the reader ends where the writer did.  A length has four
forms, and an integer three; there is one lemma per form, and `Held` says that nothing
else happens to a buffer that is not cut.  `TextAssumption` states what `len` does: a text has a
length of at most 2^31 - 1, which is 0 for the empty one only.
`CodecsCompress` carries the theorems of LZF over to the behaviours of `Codecs`.

### Reports (`ReportsProofs`)

`TopListIsRight`: `TopSpec => []TopListRight`, for any set of items, any capacity and any
entries.  `TopInv` is `TopListRight` with the types of the variables.  `SearchFinds` shows that
the place `sort.Search` looks for exists: the least index whose entry is not heavier, by
well-founded induction; `InsertedProperties` and `ShorterProperties` say what the list is
after an insertion and after it is cut.  The step that needs thought is an entry that had been
dropped earlier: it must stay justified by a list that has changed.  It is, because
at every index the new list is at least as heavy as the old one.
The theorem is about any sequence of `add`s; in `Reports` the lists of `bigkey` and
`hotkey` grow by this action, one object at a time, and that of `prefix` by the same
`insert`, folded over the nodes.

`FiltersAreExact`: `Spec => []FiltersExact`, for any job, flags and file.  `ChainRight` shows
that the nested decoders that `wrapDecoder` builds let an object pass exactly if each
flag, read by itself, does; the invariant is that what has passed is a
subsequence of what has been read, at the places of the objects that are wanted.
A write of the memory report that fails ends the reading, since no link of the chain keeps the
callback's answer to itself (`GoesOn`).
`JobsAssumption` says of the objects that none has 2^63 - 1 bytes and that no expiration is later
than that many seconds, which `inf` in a range stands for.

`RadixTreeIsCanonical`: `Spec => []RadixTreeCanonical`, for any keys, sizes and databases and any order
of the file.  `KeysAssumption` says that keys are strings and that `strconv.Itoa` writes no space and
different digits for different numbers; with it the words of two objects differ (`WordsDiffer`).

1. The shape.  `Tree` is about the paths of the nodes alone: no two are equal, a child has
   no node between itself and its parent (`Between`), whatever lies below a node lies below one of its
   children, and no two children go on with the same letter.  `SplitTree` and `LeafTree` show that a
   split and a new leaf keep this, `Built` adds what the fields `path` and `children` of the code say.
2. The counters.  While `insert` is on its way down, the nodes above the one it has reached have counted the
   new word already, and the others have not (`Counts`, `Weighs`): a half-finished insertion
   is no canonical tree, and a split in the middle of it hands a counter down that must not
   include the new word.  `WordSizesGrow` says what one more word does to a sum over a set.
3. The loop.  `Way` describes the state before a turn, `Arrived` the end; `TurnIs` shows that a turn ends
   or goes on with less of the word, so that `insert` ends within `Len(word) + 1` turns
   (`InsertHolds`).  That the nodes are then those of `NodesOf`, for the set with the new word, is
   `NodesGrow`: a word that leaves the tree inside a node or between its children makes the one
   place where two words part, and no other.
4. `TreeInv` holds from `newRadixTree` on and gives the property.

### Only model-checked

- Liveness (`Returns`, `EveryoneEnds`, `StopEndsServer`): weak fairness and `ENABLED` are out
  of the reach of the proof system used.
- `ValuesRead`, the second half of `Aligned`, and `DecoderTypeOK`: the readers of the types go
  through as many elements as the file says.  What they compute for every input needs induction over data, with
  operators as parameters (`readN`), which the provers cannot instantiate; the corpora have
  every reader.  (On the files of an `Encoder` it is a theorem, `ObjectBack`: there the
  statements that wrote the elements bound and type what the readers meet.)
- `ImagesRoundTrip`, `RedisImagesRead`, `StreamRoundTrip` and `CutIsError`: the same readers one
  level down, over bytes instead of tokens, with a dozen encodings of an entry.
- `PrefixReportRight`, `SepGroupsRight`, `FlameGraphRight`, `AofRebuilds`: the traversal of the tree and
  folds over maps and commands.

## 5. Where the code does something else

Each has a run whose counterexample shows it, listed under `findings`:

1. `RdbDecoder_truncated`: the errors built at `core/decoder.go:426` and `:449` are
   assigned to a variable of the branch; a file cut there parses to nil.
2. `RdbDecoder_quicklist2`: a plain quicklist node before a packed one puts the index
   of `memprofiler/list.go:102` out of range; the file cannot be read at all.
3. `RdbRoundTrip_two_ttls`: the second of two TTL options is refused after the first is
   in the file; the next object inherits it.
4. `JsonPipeline_err_race`: a parse error is assigned to the `err` the writing goroutine is
   about to test; the JSON keeps a trailing comma, and `ToJsons` returns nil.
5. `Reports_prefixes`: `helper/prefix.go:63` skips depth 2 as "database root".  That node is the
   longest common prefix of the keys of a database, or a common prefix of several
   databases: it is missing in the report, whose rows are "all" by default
   according to `README.md:457`.  A file with one key has an empty report.

More follow from the models.  Either a property names the case it leaves out, or a
constant keeps the runs clear of it.

Writing and JSON:

- With `EnableCompress`, an error of the writer inside a compressed string counts as a
  failed compression (`core/string.go:289`): all calls return nil and the file cannot
  be read.  Set `Compress = TRUE` and an object with a compressible string in
  `RdbRoundTrip_crash` and `NilMeansReadable` fails.  The comment at
  `core/encoder.go:141` warns of the option.
- `WithConcurrent(0)` makes an empty JSON and nil.  Add `{}` to `WorkerSets` and
  `NothingLost` fails.

Codecs (`ZipListStorable`, `ZipMapReadable`, `IdsStorable` and `ShapeStorable` name these
cases, and the equivalences in `ImagesRoundTrip`, `RedisImagesRead` and `StreamRoundTrip`
show that they are all):

- The listpack encoder of streams gives the integers -127..-1, -8191..-4097 and
  4096..8191 the bytes of other integers (`core/stream.go:762`), although the
  differences of IDs it is used for "may be negative" (`core/stream.go:171`): a message
  4096 ms after the first one of its node comes back with another ID.
- Redis writes the length of a text of 253 bytes in a zipmap in one byte, and a longer one as
  254 and four bytes, the low one first.  `readZipMapEntryLen` (`core/hash.go:171`) expects 253, the
  high byte first, and a free byte behind names too; 254 is an error.  A first byte of 254
  is taken for the number of pairs, when it says that there are at least as many.
- A string of 16384 bytes or more in a ziplist is written with an eight-byte length of which
  the reader takes four bytes in the other order (`core/ziplist.go:153`); a ziplist of
  65536 entries counts as empty (`core/list.go:195`).
- An empty string in a stream is written as the integer 0 (`core/stream.go:576`).
- A message whose master entry lists a field twice may lose a field
  (`core/stream.go:499`).
- A stream of version 4 or later is written with the type flag of version 1.

Commands:

- `cmd.go:150` passes the options of `aof` as one argument, which `wrapDecoder` does not
  know: the filter flags have no effect, although the help lists them for any
  command.  Drop `job.name # "aof"` from `FiltersExact` and it fails.
- With databases 1 and 10 the report has a row with an empty prefix; with 100 and
  101 there is a node `10` without a space at a depth that is reported, and `parseNodeKey`
  panics.  `PrefixReportRight` allows the panic only with such databases.
- `bigkey` and `hotkey` without `-n` end with an error, although the help shows `-n`
  as optional: `Refused`.
- `trimData` puts its bundle in the place of a child that a key has named `others`
  (`helper/flamegraph.go:119`), and what was below is gone: `Replaced`.
- The AOF has no `SELECT` (`helper/converter.go:40`), so that the keys of all databases end up in
  one, and a key of two of them is overwritten or merged.
- A stream without messages gets no command at all, and is lost with its expiration; messages
  a stream marks as deleted are added again; its consumer groups ("TODO",
  `helper/resp.go:188`), and a last ID behind its last message, are not written.  `Storable` names
  these streams, and `AofRebuilds` says that they and the modules are all that does not come
  back.
- A failed write of the AOF is printed and the next object follows (`helper/converter.go:41`);
  `memory` stops and returns nil after a failed write; the error of a `Flush` is not looked
  at.  `AofRebuilds` is about runs without a failed write: nil does not mean that all was
  written, and no property says it does.
- A second send on the channel `FlameGraph` returns blocks for ever, since its only
  receiver has ended (`d3flame/web.go:69`).  It does so in the model too; `StopEndsServer` is
  about the server and asks nothing for the sender.
- The help text gives the size expression `1024~10KB` the range "[0Bytes, 10KB]" (`cmd.go:34`,
  `README.md:76`).  The code and the model begin at 1024.
- With `-show-global-meta`, AUX and function records reach the callbacks of all commands,
  and count as keys there.

## 6. What is not modelled, and the plan

Done: the encoder, the decoder, their composition, `ToJsons`; the codecs with
streams and LZF; filters, reports, AOF and the server of the flame graph; proofs for the
encoder, the loop of the decoder, the two composed through a file, `ToJsons`, LZF, lengths and
strings, the filters, the top list and the radix tree.

Next:

1. **Proofs** that `traverse` visits every node of the tree once and with its depth, which
   `PrefixReportRight` needs on top of `RadixTreeIsCanonical`, and
   that a length or a string that is cut is an error (`CutIsError` for two kinds of jobs).
2. **Modules**: the handlers a user registers.  Today the operands of a module value are
   skipped in the model, as they are without a handler.
3. **Separators of several characters**, which `strings.ReplaceAll` and `SplitN` allow and
   `KeyGroups` does not.

Not modelled:

- The polynomial arithmetic of `crc64jones`, a variant of the standard library's: `Crc`
  stands for a checksum that tells inputs apart.
- The size estimates of `memprofiler`: they have no reference to be compared with.  The part
  that can panic is in `RdbDecoder`.
- `bytefmt`: conversions between floating-point numbers and text.  A size in a range
  expression is a number, or illegal.
- The rendering of JSON and of CSV rows, the page templates, the parsing of flags.
- `WriteObjectToResp` (`helper/resp.go`), which writes the commands of `ObjectToCmd` one by
  one and which nothing in the repository calls.
- Times at 64 bits: an expiration in milliseconds is multiplied to nanoseconds
  (`core/decoder.go:565`), which overflows behind the year 2262.
- The packages `encoder/` and `parser/`, which are aliases of `core`.
