----------------------------- MODULE JsonPipeline -----------------------------
(***************************************************************************)
(* ToJsons (helper/json.go): a parser goroutine, `concurrent' marshalling  *)
(* goroutines and one writing goroutine, joined by two buffered channels,  *)
(* two wait groups, and the variables err and empty that they share with   *)
(* ToJsons itself.                                                         *)
(***************************************************************************)
EXTENDS Integers, Sequences, FiniteSets

CONSTANTS
    WorkerSets,     \* the sets of marshalling goroutines WithConcurrent may ask for
    Objects,        \* what an object may be
    Input,          \* the objects Parse calls back with, in order
    Unmarshalable,  \* those the JSON encoder refuses (a score that is Inf, say)
    ParseOutcomes,  \* FALSE: Parse returns nil after the last of them; TRUE: an error
    Capacity,       \* of both channels, 1000 in the code
    MaxWriteFaults  \* bound: failing writes of the output file

ASSUME PipelineAssumption ==
    /\ \A ws \in WorkerSets : IsFiniteSet(ws)
    /\ Input \in Seq(Objects)
    /\ Unmarshalable \subseteq Objects
    /\ ParseOutcomes \subseteq BOOLEAN
    /\ Capacity \in Nat \ {0}
    /\ MaxWriteFaults \in Nat

VARIABLES
    Workers,    \* the marshalling goroutines ToJsons started
    parseFails, \* the file cannot be read to its end
    parser,     \* where the parser goroutine is: "parse", "close" or "done"
    parsed,     \* how many objects it has sent
    objects,    \* redisObjectBuffer
    objectsClosed,
    worker,     \* where each marshaller is: "receive", "send" or "done"
    held,       \* the object it holds, Input indices
    wg,         \* the counter of wait group wg
    jsons,      \* jsonStringBuffer
    jsonsClosed,
    writer,     \* where the writer is: "receive", "write", "check" or "done"
    record,     \* the record it holds
    file,       \* the records in the file, see Record
    sealed,     \* the closing bracket is in the file
    empty,      \* the variable empty
    err,        \* the variable err, shared by four goroutines
    main,       \* where ToJsons is: "wait", "close", "wait2", "finish" or "returned"
    ret,        \* what it returned
    writeFaults

setup == <<Workers, parseFails>>     \* never changes
vars == <<setup, parser, parsed, objects, objectsClosed, worker, held, wg, jsons, jsonsClosed,
          writer, record, file, sealed, empty, err, main, ret, writeFaults>>

(* A record of the file: the index of its object, whether its bytes are    *)
(* all there, and whether the separator ",\n" follows them.                *)
Record(i, whole, comma) == [obj |-> i, whole |-> whole, comma |-> comma]

Nothing == 0

-----------------------------------------------------------------------------
(* The parser goroutine. *)

SendObject ==
    /\ parser = "parse"
    /\ parsed < Len(Input)
    /\ Len(objects) < Capacity
    /\ objects' = Append(objects, parsed + 1)
    /\ parsed' = parsed + 1
    /\ UNCHANGED <<parser, objectsClosed, worker, held, wg, jsons, jsonsClosed, writer,
                   record, file, sealed, empty, err, main, ret, writeFaults>>

(* err = dec.Parse(...) *)
ParseReturns ==
    /\ parser = "parse"
    /\ parsed = Len(Input)
    /\ parser' = "close"
    /\ err' = IF parseFails THEN "parse error" ELSE "nil"
    /\ UNCHANGED <<parsed, objects, objectsClosed, worker, held, wg, jsons, jsonsClosed,
                   writer, record, file, sealed, empty, main, ret, writeFaults>>

CloseObjects ==
    /\ parser = "close"
    /\ parser' = "done"
    /\ objectsClosed' = TRUE
    /\ UNCHANGED <<parsed, objects, worker, held, wg, jsons, jsonsClosed, writer,
                   record, file, sealed, empty, err, main, ret, writeFaults>>

-----------------------------------------------------------------------------
(* A marshalling goroutine.  Its own err is a local variable. *)

(* Wrong variants: a failed marshalling counts as the end of the worker;   *)
(* the newest object comes first.                                          *)
ReceiveObject_doneOnError(w) ==
    /\ worker[w] = "receive"
    /\ objects # <<>>
    /\ objects' = Tail(objects)
    /\ IF Input[Head(objects)] \in Unmarshalable
       THEN wg' = wg - 1 /\ UNCHANGED <<worker, held>>
       ELSE /\ worker' = [worker EXCEPT ![w] = "send"]
            /\ held' = [held EXCEPT ![w] = Head(objects)]
            /\ UNCHANGED wg
    /\ UNCHANGED <<parser, parsed, objectsClosed, jsons, jsonsClosed, writer,
                   record, file, sealed, empty, err, main, ret, writeFaults>>
ReceiveObject_newest(w) ==
    /\ worker[w] = "receive"
    /\ objects # <<>>
    /\ objects' = SubSeq(objects, 1, Len(objects) - 1)
    /\ worker' = [worker EXCEPT ![w] = "send"]
    /\ held' = [held EXCEPT ![w] = objects[Len(objects)]]
    /\ UNCHANGED <<parser, parsed, objectsClosed, wg, jsons, jsonsClosed, writer,
                   record, file, sealed, empty, err, main, ret, writeFaults>>

ReceiveObject(w) ==
    /\ worker[w] = "receive"
    /\ objects # <<>>
    /\ objects' = Tail(objects)
    /\ IF Input[Head(objects)] \in Unmarshalable
       THEN UNCHANGED <<worker, held>>
       ELSE /\ worker' = [worker EXCEPT ![w] = "send"]
            /\ held' = [held EXCEPT ![w] = Head(objects)]
    /\ UNCHANGED <<parser, parsed, objectsClosed, wg, jsons, jsonsClosed, writer,
                   record, file, sealed, empty, err, main, ret, writeFaults>>

(* A wrong variant: the object is sent again. *)
SendJson_twice(w) ==
    /\ worker[w] = "send"
    /\ Len(jsons) < Capacity - 1
    /\ jsons' = jsons \o <<held[w], held[w]>>
    /\ worker' = [worker EXCEPT ![w] = "receive"]
    /\ held' = [held EXCEPT ![w] = Nothing]
    /\ UNCHANGED <<parser, parsed, objects, objectsClosed, wg, jsonsClosed, writer,
                   record, file, sealed, empty, err, main, ret, writeFaults>>

SendJson(w) ==
    /\ worker[w] = "send"
    /\ Len(jsons) < Capacity
    /\ jsons' = Append(jsons, held[w])
    /\ worker' = [worker EXCEPT ![w] = "receive"]
    /\ held' = [held EXCEPT ![w] = Nothing]
    /\ UNCHANGED <<parser, parsed, objects, objectsClosed, wg, jsonsClosed, writer,
                   record, file, sealed, empty, err, main, ret, writeFaults>>

(* A wrong variant: a worker goes on receiving from the closed channel. *)
WorkerDone_spins(w) ==
    /\ worker[w] = "receive"
    /\ objects = <<>> /\ objectsClosed
    /\ UNCHANGED vars

WorkerDone(w) ==
    /\ worker[w] = "receive"
    /\ objects = <<>> /\ objectsClosed
    /\ worker' = [worker EXCEPT ![w] = "done"]
    /\ wg' = wg - 1
    /\ UNCHANGED <<parser, parsed, objects, objectsClosed, held, jsons, jsonsClosed, writer,
                   record, file, sealed, empty, err, main, ret, writeFaults>>

-----------------------------------------------------------------------------
(* The writing goroutine.  Between the assignment to err and the test of   *)
(* it, the parser goroutine may assign to the same variable, unsynchronised.*)
(* The test looks at one word of it, so that a torn value is one of the two.*)

ReceiveJson ==
    /\ writer = "receive"
    /\ jsons # <<>>
    /\ jsons' = Tail(jsons)
    /\ record' = Head(jsons)
    /\ writer' = "write"
    /\ UNCHANGED <<parser, parsed, objects, objectsClosed, worker, held, wg, jsonsClosed,
                   file, sealed, empty, err, main, ret, writeFaults>>

WriteRecord ==
    /\ writer = "write"
    /\ \/ /\ file' = Append(file, Record(record, TRUE, TRUE))
          /\ err' = "nil"
          /\ UNCHANGED writeFaults
       \/ /\ writeFaults < MaxWriteFaults
          /\ writeFaults' = writeFaults + 1
          /\ file' \in {file, Append(file, Record(record, FALSE, FALSE))}
          /\ err' = "write error"
    /\ writer' = "check"
    /\ UNCHANGED <<parser, parsed, objects, objectsClosed, worker, held, wg, jsons,
                   jsonsClosed, record, sealed, empty, main, ret>>

CheckWrite ==
    /\ writer = "check"
    /\ empty' = (empty /\ err # "nil")
    /\ writer' = "receive"
    /\ record' = Nothing
    /\ UNCHANGED <<parser, parsed, objects, objectsClosed, worker, held, wg, jsons,
                   jsonsClosed, file, sealed, err, main, ret, writeFaults>>

WriterDone ==
    /\ writer = "receive"
    /\ jsons = <<>> /\ jsonsClosed
    /\ writer' = "done"
    /\ UNCHANGED <<parser, parsed, objects, objectsClosed, worker, held, wg, jsons,
                   jsonsClosed, record, file, sealed, empty, err, main, ret, writeFaults>>

-----------------------------------------------------------------------------
(* ToJsons, once it has started them. *)

(* Wrong variants of the two waits. *)
WaitWorkers_not ==
    /\ main = "wait"
    /\ main' = "close"
    /\ UNCHANGED <<parser, parsed, objects, objectsClosed, worker, held, wg, jsons,
                   jsonsClosed, writer, record, file, sealed, empty, err, ret, writeFaults>>
WaitWriter_not ==
    /\ main = "wait2"
    /\ main' = "finish"
    /\ UNCHANGED <<parser, parsed, objects, objectsClosed, worker, held, wg, jsons,
                   jsonsClosed, writer, record, file, sealed, empty, err, ret, writeFaults>>

WaitWorkers ==      \* wg.Wait()
    /\ main = "wait"
    /\ wg = 0
    /\ main' = "close"
    /\ UNCHANGED <<parser, parsed, objects, objectsClosed, worker, held, wg, jsons,
                   jsonsClosed, writer, record, file, sealed, empty, err, ret, writeFaults>>

CloseJsons ==
    /\ main = "close"
    /\ jsonsClosed' = TRUE
    /\ main' = "wait2"
    /\ UNCHANGED <<parser, parsed, objects, objectsClosed, worker, held, wg, jsons,
                   writer, record, file, sealed, empty, err, ret, writeFaults>>

WaitWriter ==       \* wg2.Wait()
    /\ main = "wait2"
    /\ writer = "done"
    /\ main' = "finish"
    /\ UNCHANGED <<parser, parsed, objects, objectsClosed, worker, held, wg, jsons,
                   jsonsClosed, writer, record, file, sealed, empty, err, ret, writeFaults>>

(* The two bytes cut off by Seek(-2, 2): the last separator, or, when the  *)
(* last write was torn, whatever ends the file.                            *)
CutTail(f) == [f EXCEPT ![Len(f)] = Record(@.obj, @.whole /\ @.comma, FALSE)]

(* A wrong variant: the last separator stays. *)
Finish_noSeek ==
    /\ main = "finish"
    /\ main' = "returned"
    /\ sealed' = TRUE /\ err' = "nil" /\ ret' = "nil"
    /\ UNCHANGED <<parser, parsed, objects, objectsClosed, worker, held, wg, jsons,
                   jsonsClosed, writer, record, file, empty, writeFaults>>

Finish ==
    /\ main = "finish"
    /\ main' = "returned"
    /\ \/ /\ file' = IF empty \/ file = <<>> THEN file ELSE CutTail(file)
          /\ sealed' = TRUE
          /\ err' = "nil"
          /\ ret' = "nil"
          /\ UNCHANGED writeFaults
       \/ /\ writeFaults < MaxWriteFaults       \* Seek or WriteString fails
          /\ writeFaults' = writeFaults + 1
          /\ err' = "write error"
          /\ ret' = "error"
          /\ file' \in {file, IF empty \/ file = <<>> THEN file ELSE CutTail(file)}
          /\ UNCHANGED sealed
    /\ UNCHANGED <<parser, parsed, objects, objectsClosed, worker, held, wg, jsons,
                   jsonsClosed, writer, record, empty>>

-----------------------------------------------------------------------------
Init ==
    /\ Workers \in WorkerSets
    /\ parseFails \in ParseOutcomes
    /\ parser = "parse" /\ parsed = 0
    /\ objects = <<>> /\ objectsClosed = FALSE
    /\ worker = [w \in Workers |-> "receive"]
    /\ held = [w \in Workers |-> Nothing]
    /\ wg = Cardinality(Workers)
    /\ jsons = <<>> /\ jsonsClosed = FALSE
    /\ writer = "receive" /\ record = Nothing
    /\ file = <<>> /\ sealed = FALSE
    /\ empty = TRUE
    /\ err = "nil"
    /\ main = "wait" /\ ret = "none"
    /\ writeFaults = 0

Parser    == (SendObject \/ ParseReturns \/ CloseObjects) /\ UNCHANGED setup
Worker(w) == (ReceiveObject(w) \/ SendJson(w) \/ WorkerDone(w)) /\ UNCHANGED setup
Writer    == (ReceiveJson \/ WriteRecord \/ CheckWrite \/ WriterDone) /\ UNCHANGED setup
Main      == (WaitWorkers \/ CloseJsons \/ WaitWriter \/ Finish) /\ UNCHANGED setup

AllDone == /\ parser = "done" /\ writer = "done" /\ main = "returned"
           /\ \A w \in Workers : worker[w] = "done"

Terminating == AllDone /\ UNCHANGED vars

Next == Parser \/ (\E w \in Workers : Worker(w)) \/ Writer \/ Main \/ Terminating

(* The Go scheduler runs every goroutine that can run. *)
Fairness == /\ WF_vars(Parser) /\ WF_vars(Writer) /\ WF_vars(Main)
            /\ \A w \in UNION WorkerSets : WF_vars(w \in Workers /\ Worker(w))

Spec == Init /\ [][Next]_vars /\ Fairness

-----------------------------------------------------------------------------
Indices == 0..Len(Input)

TypeOK ==
    /\ parser \in {"parse", "close", "done"}
    /\ parsed \in 0..Len(Input)
    /\ objects \in Seq(Indices) /\ Len(objects) <= Capacity
    /\ Workers \in WorkerSets
    /\ worker \in [Workers -> {"receive", "send", "done"}]
    /\ held \in [Workers -> Indices]
    /\ wg \in 0..Cardinality(Workers)       \* WaitGroup.Done panics below zero
    /\ jsons \in Seq(Indices) /\ Len(jsons) <= Capacity
    /\ objectsClosed \in BOOLEAN /\ jsonsClosed \in BOOLEAN
    /\ sealed \in BOOLEAN /\ empty \in BOOLEAN
    /\ writer \in {"receive", "write", "check", "done"}
    /\ record \in Indices
    /\ file \in Seq([obj : Indices, whole : BOOLEAN, comma : BOOLEAN])
    /\ err \in {"nil", "parse error", "write error"}
    /\ main \in {"wait", "close", "wait2", "finish", "returned"}
    /\ ret \in {"none", "nil", "error"}
    /\ writeFaults \in 0..MaxWriteFaults

(* How often object i is somewhere between the parser and the file. *)
Copies(i) ==
    LET In(s) == Cardinality({j \in DOMAIN s : s[j] = i})
    IN  In(objects) + In(jsons)
          + Cardinality({w \in Workers : held[w] = i})
          + (IF writer = "write" /\ record = i THEN 1 ELSE 0)
          + Cardinality({j \in DOMAIN file : file[j].obj = i})

(* No object is duplicated by the two channels and the goroutines between  *)
(* them, and as long as no write fails only those that cannot be           *)
(* marshalled get lost, wherever the goroutines are.                       *)
OneCopy ==
    \A i \in 1..parsed :
        /\ Copies(i) <= 1
        /\ (writeFaults = 0 /\ Input[i] \notin Unmarshalable) => Copies(i) = 1

(* When ToJsons returns nil, and no write failed, every object Parse       *)
(* delivered that can be marshalled is in the JSON.                        *)
NothingLost ==
    (ret = "nil" /\ writeFaults = 0) =>
        {file[j].obj : j \in DOMAIN file}
          = {i \in 1..Len(Input) : Input[i] \notin Unmarshalable}

(* The JSON is a list: every record is whole, a comma stands between two   *)
(* records and none behind the last one ("finish json", json.go:120).      *)
IsList == \A j \in DOMAIN file : file[j].whole /\ (file[j].comma <=> j < Len(file))

(* It is one when the parse and all writes succeeded...                    *)
WellFormedJson == (ret = "nil" /\ writeFaults = 0 /\ ~parseFails) => IsList

(* ... and whenever ToJsons returned nil and all writes succeeded.         *)
FinishedJson == (ret = "nil" /\ writeFaults = 0) => IsList

(* A send on a closed channel panics: ToJsons closes jsonStringBuffer only *)
(* when no marshaller can send any more, and the parser closes its channel *)
(* behind its last object.                                                 *)
NoSendOnClosed ==
    /\ jsonsClosed => \A w \in Workers : worker[w] # "send"
    /\ objectsClosed => parser = "done" /\ parsed = Len(Input)

(* With one marshaller the records keep the order of the RDB file, whatever*)
(* writes fail.                                                            *)
KeepsOrder ==
    Cardinality(Workers) = 1 =>
        \A j, k \in DOMAIN file : j < k => file[j].obj < file[k].obj

(* Every goroutine ends, and so does ToJsons, however small the channels.  *)
EveryoneEnds == <>AllDone
=============================================================================
