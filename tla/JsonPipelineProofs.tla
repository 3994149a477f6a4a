------------------------- MODULE JsonPipelineProofs -------------------------
(***************************************************************************)
(* The goroutines of ToJsons, for any number of marshallers, any input,    *)
(* channels of any capacity and any number of failing writes.              *)
(***************************************************************************)
EXTENDS JsonPipeline, FiniteSetTheorems, SequenceTheorems, TLAPS

FileRecord == [obj : Indices, whole : BOOLEAN, comma : BOOLEAN]

(* Who has ended, what is closed, and the counter of the wait group: why   *)
(* nothing is sent on a closed channel.                                    *)
Running == {w \in Workers : worker[w] # "done"}

ControlInv ==
    /\ wg = Cardinality(Running)
    /\ \A w \in Workers : worker[w] = "send" <=> held[w] # Nothing
    /\ objectsClosed <=> parser = "done"
    /\ parser # "parse" => parsed = Len(Input)
    /\ \A w \in Workers : worker[w] = "done" => objectsClosed /\ objects = <<>>
    /\ main # "wait" => \A w \in Workers : worker[w] = "done"
    /\ jsonsClosed <=> main \in {"wait2", "finish", "returned"}
    /\ writer = "done" => jsonsClosed /\ jsons = <<>>
    /\ main \in {"finish", "returned"} => writer = "done"
    /\ ret = "nil" => main = "returned"

(* Where the objects are.  The channel behind the parser holds the newest  *)
(* ones; the others are in at most one place each further down, and there  *)
(* are only such as can be marshalled.                                     *)
Received == parsed - Len(objects)
Taken == {i \in 1..Received : Input[i] \notin Unmarshalable}

Places ==
    /\ Len(objects) <= parsed
    /\ \A j \in 1..Len(objects) : objects[j] = Received + j
    /\ \A j \in 1..Len(jsons) : jsons[j] \in Taken
    /\ \A k \in 1..Len(file) : file[k].obj \in Taken
    /\ \A w \in Workers : held[w] # Nothing => held[w] \in Taken
    /\ writer = "write" => record \in Taken

Apart ==
    /\ \A j, k \in 1..Len(jsons) : jsons[j] = jsons[k] => j = k
    /\ \A j, k \in 1..Len(file) : file[j].obj = file[k].obj => j = k
    /\ \A v, w \in Workers : held[v] = held[w] /\ held[v] # Nothing => v = w
    /\ \A j \in 1..Len(jsons), k \in 1..Len(file) : jsons[j] # file[k].obj
    /\ \A j \in 1..Len(jsons), w \in Workers : jsons[j] # held[w]
    /\ \A k \in 1..Len(file), w \in Workers : file[k].obj # held[w]
    /\ writer = "write" =>
         /\ \A j \in 1..Len(jsons) : jsons[j] # record
         /\ \A k \in 1..Len(file) : file[k].obj # record
         /\ \A w \in Workers : held[w] # record

(* While no write has failed, none of them is missing.                     *)
Somewhere(i) ==
    \/ \E j \in 1..Len(jsons) : jsons[j] = i
    \/ \E w \in Workers : held[w] = i
    \/ writer = "write" /\ record = i
    \/ \E k \in 1..Len(file) : file[k].obj = i

Present == writeFaults = 0 => \A i \in Taken : Somewhere(i)

(* While neither a write nor the parse has failed, err is nil, empty says  *)
(* whether the file is empty, and every record has its separator.          *)
FileInv ==
    writeFaults = 0 /\ ~parseFails =>
      /\ err = "nil"
      /\ writer # "check" => (empty <=> file = <<>>)
      /\ writer = "check" => file # <<>>
      /\ main # "returned" => \A k \in 1..Len(file) : file[k].whole /\ file[k].comma
      /\ main = "returned" => IsList

(* With one marshaller everything is in line.                              *)
Line(w) ==
    /\ \A j, k \in 1..Len(jsons) : j < k => jsons[j] < jsons[k]
    /\ \A j, k \in 1..Len(file) : j < k => file[j].obj < file[k].obj
    /\ \A j \in 1..Len(jsons), k \in 1..Len(file) : file[k].obj < jsons[j]
    /\ held[w] # Nothing =>
         /\ \A j \in 1..Len(jsons) : jsons[j] < held[w]
         /\ \A k \in 1..Len(file) : file[k].obj < held[w]
         /\ writer = "write" => record < held[w]
    /\ writer = "write" =>
         /\ \A j \in 1..Len(jsons) : record < jsons[j]
         /\ \A k \in 1..Len(file) : file[k].obj < record

InLine == \A w \in Workers : Workers = {w} => Line(w)

PipeInv == TypeOK /\ ControlInv /\ Places /\ Apart

-----------------------------------------------------------------------------
(* TypeOK, in the parts that a step changes or leaves alone together.      *)
Scalars ==
    /\ parser \in {"parse", "close", "done"}
    /\ parsed \in Indices
    /\ objectsClosed \in BOOLEAN /\ jsonsClosed \in BOOLEAN
    /\ sealed \in BOOLEAN /\ empty \in BOOLEAN
    /\ writer \in {"receive", "write", "check", "done"}
    /\ record \in Indices
    /\ err \in {"nil", "parse error", "write error"}
    /\ main \in {"wait", "close", "wait2", "finish", "returned"}
    /\ ret \in {"none", "nil", "error"}
    /\ writeFaults \in 0..MaxWriteFaults

Marshallers ==
    /\ Workers \in WorkerSets
    /\ worker \in [Workers -> {"receive", "send", "done"}]
    /\ held \in [Workers -> Indices]
    /\ wg \in 0..Cardinality(Workers)

Channels ==
    /\ objects \in Seq(Indices) /\ Len(objects) <= Capacity
    /\ jsons \in Seq(Indices) /\ Len(jsons) <= Capacity

FileOK == file \in Seq(FileRecord)

LEMMA TypeParts == TypeOK <=> Scalars /\ Marshallers /\ Channels /\ FileOK
  BY DEF TypeOK, Scalars, Marshallers, Channels, FileOK, FileRecord, Indices

LEMMA TypePartsNext == TypeOK' <=> Scalars' /\ Marshallers' /\ Channels' /\ FileOK'
  BY TypeParts, PTL

LEMMA TypeFacts ==
    ASSUME TypeOK
    PROVE  /\ Len(objects) \in Nat /\ Len(jsons) \in Nat /\ Len(file) \in Nat
           /\ Len(Input) \in Nat /\ parsed \in Nat
           /\ \A j \in 1..Len(objects) : objects[j] \in Indices
           /\ \A j \in 1..Len(jsons) : jsons[j] \in Indices
           /\ \A k \in 1..Len(file) : file[k] \in FileRecord
           /\ IsFiniteSet(Workers)
           /\ objectsClosed \in BOOLEAN /\ jsonsClosed \in BOOLEAN
           /\ sealed \in BOOLEAN /\ empty \in BOOLEAN
<1>1. /\ objects \in Seq(Indices) /\ jsons \in Seq(Indices) /\ file \in Seq(FileRecord)
      /\ Input \in Seq(Objects) /\ parsed \in 0..Len(Input) /\ Workers \in WorkerSets
  BY PipelineAssumption DEF TypeOK, FileRecord
<1>2. IsFiniteSet(Workers)
  BY <1>1, PipelineAssumption
<1>3. /\ objectsClosed \in BOOLEAN /\ jsonsClosed \in BOOLEAN
      /\ sealed \in BOOLEAN /\ empty \in BOOLEAN
  BY DEF TypeOK
<1> QED BY <1>1, <1>2, <1>3

(* A marshaller that ends takes one off the counter. *)
LEMMA RunningFinite ==
    ASSUME TypeOK
    PROVE  /\ IsFiniteSet(Running)
           /\ Cardinality(Running) \in Nat
           /\ Cardinality(Running) <= Cardinality(Workers)
           /\ Cardinality(Workers) \in Nat
           /\ Cardinality(Running) = 0 <=> Running = {}
<1>1. IsFiniteSet(Workers) /\ Running \in SUBSET Workers
  BY TypeFacts DEF Running
<1>2. IsFiniteSet(Running) /\ Cardinality(Running) <= Cardinality(Workers)
  BY <1>1, FS_Subset
<1> QED BY <1>1, <1>2, FS_CardinalityType, FS_EmptySet

LEMMA OneEnds ==
    ASSUME TypeOK, NEW w \in Workers, worker[w] # "done",
           worker' = [worker EXCEPT ![w] = "done"], Workers' = Workers
    PROVE  Running' = Running \ {w} /\ Cardinality(Running') = Cardinality(Running) - 1
<1>1. Running' = Running \ {w} /\ w \in Running
  BY DEF TypeOK, Running
<1> QED BY <1>1, RunningFinite, FS_RemoveElement

(* What a step may be. *)
LEMMA Steps ==
    ASSUME [Next]_vars
    PROVE  \/ UNCHANGED vars
           \/ /\ UNCHANGED setup
              /\ \/ SendObject \/ ParseReturns \/ CloseObjects
                 \/ \E w \in Workers : ReceiveObject(w) \/ SendJson(w) \/ WorkerDone(w)
                 \/ ReceiveJson \/ WriteRecord \/ CheckWrite \/ WriterDone
                 \/ WaitWorkers \/ CloseJsons \/ WaitWriter \/ Finish
  BY DEF Next, Parser, Worker, Writer, Main, Terminating

(* The two bytes cut off belong to the last record. *)
LEMMA CutTailType ==
    ASSUME NEW f \in Seq(FileRecord), f # <<>>
    PROVE  /\ CutTail(f) \in Seq(FileRecord)
           /\ Len(CutTail(f)) = Len(f)
           /\ \A k \in 1..Len(f) : CutTail(f)[k].obj = f[k].obj
           /\ \A k \in 1..(Len(f) - 1) : CutTail(f)[k] = f[k]
           /\ CutTail(f)[Len(f)].whole = (f[Len(f)].whole /\ f[Len(f)].comma)
           /\ CutTail(f)[Len(f)].comma = FALSE
<1> DEFINE last == f[Len(f)]
           cut == Record(last.obj, last.whole /\ last.comma, FALSE)
<1>1. Len(f) \in 1..Len(f) /\ Len(f) \in Nat
  BY EmptySeq
<1>2. last \in FileRecord
  BY <1>1
<1>3. cut \in FileRecord /\ cut.obj = last.obj
      /\ cut.whole = (last.whole /\ last.comma) /\ cut.comma = FALSE
  BY <1>2 DEF Record, FileRecord
<1>4. CutTail(f) = [f EXCEPT ![Len(f)] = cut]
  BY DEF CutTail
<1> HIDE DEF cut, last
<1>5. /\ CutTail(f) \in Seq(FileRecord)
      /\ Len(CutTail(f)) = Len(f)
      /\ \A k \in 1..Len(f) : CutTail(f)[k] = IF k = Len(f) THEN cut ELSE f[k]
  BY <1>1, <1>3, <1>4, ExceptSeq
<1> QED BY <1>1, <1>3, <1>5 DEF last

LEMMA TypeStep ==
    ASSUME TypeOK, ControlInv, [Next]_vars
    PROVE  TypeOK'
<1>0. Scalars /\ Marshallers /\ Channels /\ FileOK
  BY TypeParts
<1> SUFFICES Scalars' /\ Marshallers' /\ Channels' /\ FileOK'
  BY TypePartsNext
<1>a. Capacity \in Nat /\ MaxWriteFaults \in Nat /\ Len(Input) \in Nat
  BY PipelineAssumption
<1>b. /\ \A i \in Indices, b, c \in BOOLEAN : Record(i, b, c) \in FileRecord
      /\ Nothing \in Indices
  BY <1>a DEF FileRecord, Record, Nothing, Indices
<1>c. UNCHANGED <<Workers, worker, held, wg>> => Marshallers'
  BY <1>0 DEF Marshallers
<1>d. UNCHANGED <<objects, jsons>> => Channels'
  BY <1>0 DEF Channels
<1>e. UNCHANGED file => FileOK'
  BY <1>0 DEF FileOK
<1>f. parsed \in 0..Len(Input) /\ writeFaults \in 0..MaxWriteFaults
  BY <1>0 DEF Scalars, Indices
<1>g. UNCHANGED <<parser, parsed, objectsClosed, jsonsClosed, writer, record, sealed, empty,
                  err, main, ret, writeFaults>>
        => Scalars'
  BY <1>0, ZenonT(30) DEF Scalars
<1>1. CASE SendObject /\ UNCHANGED setup
  <2>1. parsed + 1 \in Indices
    BY <1>1, <1>a, <1>f DEF SendObject, Indices
  <2>2. Channels'
    BY <1>0, <1>1, <1>a, <2>1, AppendProperties DEF SendObject, Channels
  <2>3. Scalars'
    <3>1. /\ parsed' = parsed + 1
          /\ UNCHANGED <<parser, objectsClosed, jsonsClosed, writer, record, sealed, empty,
                         err, main, ret, writeFaults>>
      BY <1>1 DEF SendObject
    <3> QED BY <1>0, <2>1, <3>1, ZenonT(30) DEF Scalars
  <2> QED BY <1>1, <2>2, <2>3, <1>c, <1>e DEF SendObject, setup
<1>2. CASE ParseReturns /\ UNCHANGED setup
  <2>1. Scalars'
    BY <1>0, <1>2 DEF ParseReturns, Scalars
  <2> QED BY <1>2, <2>1, <1>c, <1>d, <1>e DEF ParseReturns, setup
<1>3. CASE CloseObjects /\ UNCHANGED setup
  <2>1. Scalars'
    BY <1>0, <1>3 DEF CloseObjects, Scalars
  <2> QED BY <1>3, <2>1, <1>c, <1>d, <1>e DEF CloseObjects, setup
<1>4. ASSUME NEW w \in Workers, ReceiveObject(w), UNCHANGED setup
      PROVE  Scalars' /\ Marshallers' /\ Channels' /\ FileOK'
  <2>1. Head(objects) \in Indices /\ objects' \in Seq(Indices) /\ Len(objects') <= Capacity
    BY <1>0, <1>4, <1>a, HeadTailProperties DEF ReceiveObject, Channels
  <2>2. Channels'
    BY <1>0, <1>4, <2>1 DEF ReceiveObject, Channels
  <2>3. Marshallers'
    BY <1>0, <1>4, <2>1 DEF ReceiveObject, Marshallers, setup
  <2>4. Scalars'
    BY <1>4, <1>g DEF ReceiveObject
  <2> QED BY <1>4, <2>2, <2>3, <2>4, <1>e DEF ReceiveObject
<1>5. ASSUME NEW w \in Workers, SendJson(w), UNCHANGED setup
      PROVE  Scalars' /\ Marshallers' /\ Channels' /\ FileOK'
  <2>1. held[w] \in Indices
    BY <1>0, <1>5 DEF Marshallers
  <2>2. Channels'
    BY <1>0, <1>5, <1>a, <2>1, AppendProperties DEF SendJson, Channels
  <2>3. Marshallers'
    BY <1>0, <1>5, <1>b DEF SendJson, Marshallers, setup
  <2>4. Scalars'
    BY <1>5, <1>g DEF SendJson
  <2> QED BY <1>5, <2>2, <2>3, <2>4, <1>e DEF SendJson
<1>6. ASSUME NEW w \in Workers, WorkerDone(w), UNCHANGED setup
      PROVE  Scalars' /\ Marshallers' /\ Channels' /\ FileOK'
  <2>1. /\ Cardinality(Running') = Cardinality(Running) - 1
        /\ wg = Cardinality(Running) /\ w \in Running
    BY <1>6, OneEnds DEF WorkerDone, ControlInv, Running, setup
  <2>2. wg' \in 0..Cardinality(Workers)
    BY <1>6, <2>1, RunningFinite DEF WorkerDone
  <2>3. Marshallers'
    BY <1>0, <1>6, <2>2 DEF WorkerDone, Marshallers, setup
  <2>4. Scalars'
    BY <1>6, <1>g DEF WorkerDone
  <2> QED BY <1>6, <2>3, <2>4, <1>d, <1>e DEF WorkerDone
<1>7. CASE ReceiveJson /\ UNCHANGED setup
  <2>1. Head(jsons) \in Indices /\ jsons' \in Seq(Indices) /\ Len(jsons') <= Capacity
    BY <1>0, <1>7, <1>a, HeadTailProperties DEF ReceiveJson, Channels
  <2>2. Channels'
    BY <1>0, <1>7, <2>1 DEF ReceiveJson, Channels
  <2>3. Scalars'
    BY <1>0, <1>7, <2>1 DEF ReceiveJson, Scalars
  <2> QED BY <1>7, <2>2, <2>3, <1>c, <1>e DEF ReceiveJson, setup
<1>8. CASE WriteRecord /\ UNCHANGED setup
  <2>1. \A b \in BOOLEAN : Append(file, Record(record, b, b)) \in Seq(FileRecord)
    BY <1>0, <1>b, AppendProperties DEF Scalars, FileOK
  <2>2. FileOK'
    BY <1>0, <1>8, <2>1 DEF WriteRecord, FileOK
  <2>3. writeFaults' \in 0..MaxWriteFaults
    <3>1. \/ writeFaults' = writeFaults
          \/ writeFaults < MaxWriteFaults /\ writeFaults' = writeFaults + 1
      BY <1>8 DEF WriteRecord
    <3> QED BY <3>1, <1>a, <1>f
  <2>4. Scalars'
    BY <1>0, <1>8, <2>3 DEF WriteRecord, Scalars
  <2> QED BY <1>8, <2>2, <2>4, <1>c, <1>d DEF WriteRecord, setup
<1>9. CASE CheckWrite /\ UNCHANGED setup
  <2>1. Scalars'
    <3>1. /\ empty' = (empty /\ err # "nil") /\ writer' = "receive" /\ record' = Nothing
          /\ UNCHANGED <<parser, parsed, objectsClosed, jsonsClosed, sealed, err, main, ret,
                         writeFaults>>
      BY <1>9 DEF CheckWrite
    <3> QED BY <1>0, <1>b, <3>1 DEF Scalars
  <2> QED BY <1>9, <2>1, <1>c, <1>d, <1>e DEF CheckWrite, setup
<1>10. CASE WriterDone /\ UNCHANGED setup
  <2>1. Scalars'
    BY <1>0, <1>10 DEF WriterDone, Scalars
  <2> QED BY <1>10, <2>1, <1>c, <1>d, <1>e DEF WriterDone, setup
<1>11. CASE WaitWorkers /\ UNCHANGED setup
  <2>1. Scalars'
    BY <1>0, <1>11 DEF WaitWorkers, Scalars
  <2> QED BY <1>11, <2>1, <1>c, <1>d, <1>e DEF WaitWorkers, setup
<1>12. CASE CloseJsons /\ UNCHANGED setup
  <2>1. Scalars'
    BY <1>0, <1>12 DEF CloseJsons, Scalars
  <2> QED BY <1>12, <2>1, <1>c, <1>d, <1>e DEF CloseJsons, setup
<1>13. CASE WaitWriter /\ UNCHANGED setup
  <2>1. Scalars'
    BY <1>0, <1>13 DEF WaitWriter, Scalars
  <2> QED BY <1>13, <2>1, <1>c, <1>d, <1>e DEF WaitWriter, setup
<1>14. CASE Finish /\ UNCHANGED setup
  <2>1. file # <<>> => CutTail(file) \in Seq(FileRecord)
    BY <1>0, CutTailType DEF FileOK
  <2>2. FileOK'
    BY <1>0, <1>14, <2>1 DEF Finish, FileOK
  <2>3. writeFaults' \in 0..MaxWriteFaults
    <3>1. \/ writeFaults' = writeFaults
          \/ writeFaults < MaxWriteFaults /\ writeFaults' = writeFaults + 1
      BY <1>14 DEF Finish
    <3> QED BY <3>1, <1>a, <1>f
  <2>4. Scalars'
    BY <1>0, <1>14, <2>3 DEF Finish, Scalars
  <2> QED BY <1>14, <2>2, <2>4, <1>c, <1>d DEF Finish, setup
<1>15. CASE UNCHANGED vars
  <2>1. Scalars'
    BY <1>15, <1>g DEF vars
  <2> QED BY <1>15, <2>1, <1>c, <1>d, <1>e DEF vars, setup
<1> QED BY <1>1, <1>2, <1>3, <1>4, <1>5, <1>6, <1>7, <1>8, <1>9, <1>10, <1>11, <1>12, <1>13, <1>14, <1>15, Steps


-----------------------------------------------------------------------------
(* Where the objects are. *)

LEMMA HeadTail ==
    ASSUME NEW S, NEW s \in Seq(S), s # <<>>
    PROVE  /\ Len(s) \in Nat \ {0} /\ Head(s) = s[1] /\ Head(s) \in S
           /\ Tail(s) \in Seq(S) /\ Len(Tail(s)) = Len(s) - 1
           /\ \A i \in 1..Len(Tail(s)) : Tail(s)[i] = s[i + 1]
  BY HeadTailProperties, EmptySeq

LEMMA Appended ==
    ASSUME NEW S, NEW s \in Seq(S), NEW e \in S
    PROVE  /\ Append(s, e) \in Seq(S) /\ Append(s, e) # <<>>
           /\ Len(s) \in Nat /\ Len(Append(s, e)) = Len(s) + 1
           /\ \A i \in 1..(Len(s) + 1) :
                Append(s, e)[i] = IF i = Len(s) + 1 THEN e ELSE s[i]
  BY AppendProperties

LEMMA PlaceFacts ==
    ASSUME TypeOK, Places
    PROVE  /\ Received \in Nat /\ Received <= Len(Input) /\ Len(Input) \in Nat
           /\ Taken \subseteq 1..Received
           /\ Nothing \notin Taken
           /\ Received + 1 \notin Taken
           /\ objects # <<>> => Head(objects) = Received + 1 /\ Head(objects) # Nothing
<1>1. /\ Len(Input) \in Nat /\ parsed \in 0..Len(Input) /\ objects \in Seq(Indices)
      /\ Len(objects) \in Nat /\ Len(objects) <= parsed
  BY TypeFacts, TypeParts DEF Scalars, Channels, Places, Indices
<1>2. Received \in Nat /\ Received <= Len(Input)
  BY <1>1 DEF Received
<1>3. objects # <<>> => Head(objects) = Received + 1
  BY <1>1, <1>2, HeadTail DEF Places
<1> HIDE DEF Received
<1>4. Taken \subseteq 1..Received
  BY DEF Taken
<1> QED BY <1>1, <1>2, <1>3, <1>4 DEF Nothing

LEMMA SameTaken ==
    ASSUME UNCHANGED <<parsed, objects>>
    PROVE  Received' = Received /\ Taken' = Taken
  BY DEF Received, Taken

(* What the two ends of the first channel do to it. *)
LEMMA SendMoves ==
    ASSUME TypeOK, Places, SendObject
    PROVE  /\ Received' = Received /\ Taken' = Taken
           /\ Len(objects') = Len(objects) + 1 /\ parsed' = parsed + 1
           /\ \A j \in 1..Len(objects') : objects'[j] = Received + j
<1>1. /\ Len(Input) \in Nat /\ parsed \in 0..Len(Input) /\ objects \in Seq(Indices)
      /\ Len(objects) \in Nat
  BY TypeFacts, TypeParts DEF Scalars, Channels, Indices
<1>2. parsed + 1 \in Indices
  BY <1>1 DEF SendObject, Indices
<1>3. /\ Len(objects') = Len(objects) + 1 /\ parsed' = parsed + 1
      /\ \A j \in 1..(Len(objects) + 1) :
           objects'[j] = IF j = Len(objects) + 1 THEN parsed + 1 ELSE objects[j]
  BY <1>1, <1>2, Appended DEF SendObject
<1>4. Received' = Received /\ Received + Len(objects) = parsed
  BY <1>1, <1>3 DEF Received
<1>5. Taken' = Taken
  BY <1>4 DEF Taken
<1>6. \A j \in 1..Len(objects) : objects[j] = Received + j
  BY DEF Places
<1>7. Received \in Nat
  BY PlaceFacts
<1> HIDE DEF Received
<1>8. \A j \in 1..Len(objects') : objects'[j] = Received + j
  BY <1>1, <1>3, <1>4, <1>6, <1>7
<1> QED BY <1>3, <1>4, <1>5, <1>8

LEMMA ReceiveMoves ==
    ASSUME TypeOK, Places, NEW w \in Workers, ReceiveObject(w)
    PROVE  /\ Received' = Received + 1
           /\ Taken' = Taken \cup {i \in {Received + 1} : Input[i] \notin Unmarshalable}
           /\ Len(objects') = Len(objects) - 1
           /\ \A j \in 1..Len(objects') : objects'[j] = Received' + j
<1>1. /\ parsed \in 0..Len(Input) /\ objects \in Seq(Indices) /\ Received \in Nat
      /\ Len(Input) \in Nat
  BY PlaceFacts, TypeParts DEF Scalars, Channels, Indices
<1>2. /\ Len(objects) \in Nat \ {0} /\ parsed' = parsed
      /\ Len(objects') = Len(objects) - 1
      /\ \A i \in 1..Len(objects') : objects'[i] = objects[i + 1]
  BY <1>1, HeadTail DEF ReceiveObject
<1>3. Received' = Received + 1
  BY <1>1, <1>2 DEF Received
<1>4. \A j \in 1..Len(objects) : objects[j] = Received + j
  BY DEF Places
<1> HIDE DEF Received
<1>5. \A j \in 1..Len(objects') : objects'[j] = Received' + j
  BY <1>1, <1>2, <1>3, <1>4
<1>6. 1..(Received + 1) = (1..Received) \cup {Received + 1}
  BY <1>1
<1>7. Taken' = Taken \cup {i \in {Received + 1} : Input[i] \notin Unmarshalable}
  BY <1>3, <1>6 DEF Taken
<1> QED BY <1>2, <1>3, <1>5, <1>7
LEMMA ControlStep ==
    ASSUME TypeOK, ControlInv, Places, [Next]_vars
    PROVE  ControlInv'
<1>0. ControlInv /\ Places /\ Scalars /\ Marshallers /\ Channels
  BY TypeParts
<1>c. UNCHANGED <<Workers, worker>> => Running' = Running
  BY DEF Running
<1>1. CASE SendObject /\ UNCHANGED setup
  BY <1>0, <1>c, <1>1 DEF SendObject, ControlInv, setup
<1>2. CASE ParseReturns /\ UNCHANGED setup
  BY <1>0, <1>c, <1>2 DEF ParseReturns, ControlInv, setup
<1>3. CASE CloseObjects /\ UNCHANGED setup
  BY <1>0, <1>c, <1>3 DEF CloseObjects, ControlInv, setup
<1>4. ASSUME NEW w \in Workers, ReceiveObject(w), UNCHANGED setup
      PROVE  ControlInv'
  <2>1. Head(objects) = Received + 1 /\ Head(objects) # Nothing
    BY <1>4, PlaceFacts DEF ReceiveObject
  <2>2. Running' = Running
    BY <1>0, <1>4 DEF ReceiveObject, Marshallers, Running, setup
  <2>3. \A v \in Workers : worker'[v] = "send" <=> held'[v] # Nothing
    BY <1>0, <1>4, <2>1 DEF ReceiveObject, Marshallers, ControlInv
  <2>4. \A v \in Workers : worker'[v] = "done" => worker[v] = "done"
    BY <1>0, <1>4 DEF ReceiveObject, Marshallers
  <2> QED BY <1>0, <1>4, <2>2, <2>3, <2>4 DEF ReceiveObject, ControlInv, setup
<1>5. ASSUME NEW w \in Workers, SendJson(w), UNCHANGED setup
      PROVE  ControlInv'
  <2>1. Running' = Running
    BY <1>0, <1>5 DEF SendJson, Marshallers, Running, setup
  <2>2. \A v \in Workers : worker'[v] = "send" <=> held'[v] # Nothing
    BY <1>0, <1>5 DEF SendJson, Marshallers, ControlInv
  <2>3. \A v \in Workers : worker'[v] = "done" <=> worker[v] = "done"
    BY <1>0, <1>5 DEF SendJson, Marshallers
  <2> QED BY <1>0, <1>5, <2>1, <2>2, <2>3 DEF SendJson, ControlInv, setup
<1>6. ASSUME NEW w \in Workers, WorkerDone(w), UNCHANGED setup
      PROVE  ControlInv'
  <2>1. wg' = Cardinality(Running')
    BY <1>0, <1>6, OneEnds, RunningFinite DEF WorkerDone, ControlInv, setup
  <2>2. \A v \in Workers : worker'[v] = IF v = w THEN "done" ELSE worker[v]
    BY <1>0, <1>6 DEF WorkerDone, Marshallers
  <2> QED BY <1>0, <1>6, <2>1, <2>2 DEF WorkerDone, ControlInv, setup
<1>7. CASE ReceiveJson /\ UNCHANGED setup
  BY <1>0, <1>c, <1>7 DEF ReceiveJson, ControlInv, setup
<1>8. CASE WriteRecord /\ UNCHANGED setup
  BY <1>0, <1>c, <1>8 DEF WriteRecord, ControlInv, setup
<1>9. CASE CheckWrite /\ UNCHANGED setup
  BY <1>0, <1>c, <1>9 DEF CheckWrite, ControlInv, setup
<1>10. CASE WriterDone /\ UNCHANGED setup
  BY <1>0, <1>c, <1>10 DEF WriterDone, ControlInv, setup
<1>11. CASE WaitWorkers /\ UNCHANGED setup
  <2>1. \A w \in Workers : worker[w] = "done"
    BY <1>0, <1>11, RunningFinite DEF WaitWorkers, ControlInv, Running
  <2> QED BY <1>0, <1>c, <1>11, <2>1 DEF WaitWorkers, ControlInv, setup
<1>12. CASE CloseJsons /\ UNCHANGED setup
  BY <1>0, <1>c, <1>12 DEF CloseJsons, ControlInv, setup
<1>13. CASE WaitWriter /\ UNCHANGED setup
  BY <1>0, <1>c, <1>13 DEF WaitWriter, ControlInv, setup
<1>14. CASE Finish /\ UNCHANGED setup
  BY <1>0, <1>c, <1>14 DEF Finish, ControlInv, setup
<1>15. CASE UNCHANGED vars
  BY <1>0, <1>c, <1>15 DEF vars, setup, ControlInv
<1> QED BY <1>1, <1>2, <1>3, <1>4, <1>5, <1>6, <1>7, <1>8, <1>9, <1>10, <1>11, <1>12, <1>13, <1>14, <1>15, Steps

-----------------------------------------------------------------------------
(* What the steps do to the second channel and to the file. *)

LEMMA SendJsonMoves ==
    ASSUME TypeOK, NEW w \in Workers, SendJson(w), UNCHANGED setup
    PROVE  /\ Len(jsons') = Len(jsons) + 1 /\ Len(jsons) \in Nat
           /\ \A j \in 1..Len(jsons') :
                \/ j \in 1..Len(jsons) /\ jsons'[j] = jsons[j]
                \/ j = Len(jsons) + 1 /\ jsons'[j] = held[w]
           /\ \A v \in Workers : held'[v] = IF v = w THEN Nothing ELSE held[v]
<1>1. /\ jsons \in Seq(Indices) /\ held \in [Workers -> Indices] /\ held[w] \in Indices
  BY TypeParts DEF Channels, Marshallers
<1>2. /\ Len(jsons') = Len(jsons) + 1 /\ Len(jsons) \in Nat
      /\ \A j \in 1..(Len(jsons) + 1) :
           jsons'[j] = IF j = Len(jsons) + 1 THEN held[w] ELSE jsons[j]
  BY <1>1, Appended DEF SendJson
<1>3. \A v \in Workers : held'[v] = IF v = w THEN Nothing ELSE held[v]
  BY <1>1 DEF SendJson
<1> QED BY <1>2, <1>3

LEMMA TakesMoves ==
    ASSUME TypeOK, Places, NEW w \in Workers, ReceiveObject(w)
    PROVE  \/ held' = held /\ Input[Received + 1] \in Unmarshalable
           \/ /\ Received + 1 \in Taken'
              /\ \A v \in Workers : held'[v] = IF v = w THEN Received + 1 ELSE held[v]
<1>1. held \in [Workers -> Indices] /\ Head(objects) = Received + 1
  BY TypeParts, PlaceFacts DEF Marshallers, ReceiveObject
<1> QED BY <1>1, ReceiveMoves DEF ReceiveObject

LEMMA ReceiveJsonMoves ==
    ASSUME TypeOK, ReceiveJson
    PROVE  /\ Len(jsons) \in Nat \ {0} /\ Len(jsons') = Len(jsons) - 1
           /\ 1 \in 1..Len(jsons) /\ record' = jsons[1]
           /\ \A j \in 1..Len(jsons') :
                j + 1 \in 1..Len(jsons) /\ j + 1 # 1 /\ jsons'[j] = jsons[j + 1]
<1>1. jsons \in Seq(Indices)
  BY TypeParts DEF Channels
<1>2. /\ Len(jsons) \in Nat \ {0} /\ Len(jsons') = Len(jsons) - 1
      /\ record' = jsons[1]
      /\ \A j \in 1..Len(jsons') : jsons'[j] = jsons[j + 1]
  BY <1>1, HeadTail DEF ReceiveJson
<1> QED BY <1>2

LEMMA WriteMoves ==
    ASSUME TypeOK, WriteRecord
    PROVE  /\ Len(file) \in Nat
           /\ \/ file' = file /\ writeFaults' # 0
              \/ /\ Len(file') = Len(file) + 1
                 /\ \A k \in 1..Len(file') :
                      \/ k \in 1..Len(file) /\ file'[k] = file[k]
                      \/ k = Len(file) + 1 /\ file'[k].obj = record
                 /\ \/ /\ file'[Len(file) + 1].whole = TRUE
                       /\ file'[Len(file) + 1].comma = TRUE
                       /\ err' = "nil"
                    \/ writeFaults' # 0
<1>1. /\ file \in Seq(FileRecord) /\ record \in Indices /\ Len(file) \in Nat
      /\ writeFaults \in 0..MaxWriteFaults
  BY TypeParts, TypeFacts DEF FileOK, Scalars
<1>2. \A b \in BOOLEAN : /\ Record(record, b, b) \in FileRecord
                         /\ Record(record, b, b).obj = record
                         /\ Record(record, b, b).whole = b
                         /\ Record(record, b, b).comma = b
  BY <1>1 DEF FileRecord, Record
<1>3. ASSUME NEW b \in BOOLEAN, file' = Append(file, Record(record, b, b))
      PROVE  /\ Len(file') = Len(file) + 1
             /\ \A k \in 1..Len(file') :
                  \/ k \in 1..Len(file) /\ file'[k] = file[k]
                  \/ k = Len(file) + 1 /\ file'[k].obj = record
             /\ file'[Len(file) + 1].whole = b
             /\ file'[Len(file) + 1].comma = b
  <2> DEFINE r == Record(record, b, b)
  <2>1. r \in FileRecord /\ r.obj = record /\ r.whole = b /\ r.comma = b
    BY <1>2
  <2>2. file' = Append(file, r)
    BY <1>3
  <2> HIDE DEF r
  <2>3. /\ Len(file') = Len(file) + 1
        /\ \A k \in 1..(Len(file) + 1) : file'[k] = IF k = Len(file) + 1 THEN r ELSE file[k]
    BY <1>1, <2>1, <2>2, Appended
  <2>4. /\ file'[Len(file) + 1] = r
        /\ \A k \in 1..Len(file') : \/ k \in 1..Len(file) /\ file'[k] = file[k]
                                    \/ k = Len(file) + 1 /\ file'[k] = r
    BY <1>1, <2>3
  <2> QED BY <2>1, <2>3, <2>4
<1>4. writeFaults' = writeFaults + 1 => writeFaults' # 0
  BY <1>1, PipelineAssumption
<1>5. \/ file' = Append(file, Record(record, TRUE, TRUE)) /\ err' = "nil"
      \/ /\ writeFaults' # 0
         /\ file' = file \/ file' = Append(file, Record(record, FALSE, FALSE))
  <2>1. \/ file' = Append(file, Record(record, TRUE, TRUE)) /\ err' = "nil"
        \/ /\ writeFaults' = writeFaults + 1
           /\ file' = file \/ file' = Append(file, Record(record, FALSE, FALSE))
    BY DEF WriteRecord
  <2> QED BY <1>4, <2>1
<1>6. CASE file' = Append(file, Record(record, TRUE, TRUE)) /\ err' = "nil"
  BY <1>1, <1>3, <1>6
<1>7. CASE writeFaults' # 0 /\ file' = Append(file, Record(record, FALSE, FALSE))
  BY <1>1, <1>3, <1>7
<1> QED BY <1>1, <1>5, <1>6, <1>7

LEMMA FinishMoves ==
    ASSUME TypeOK, Finish
    PROVE  /\ Len(file) \in Nat /\ Len(file') = Len(file)
           /\ \A k \in 1..Len(file') : k \in 1..Len(file) /\ file'[k].obj = file[k].obj
           /\ \/ file' = file
              \/ file # <<>> /\ file' = CutTail(file)
<1>1. file \in Seq(FileRecord) /\ Len(file) \in Nat
  BY TypeParts, TypeFacts DEF FileOK
<1>2. file' = file \/ (file # <<>> /\ file' = CutTail(file))
  BY DEF Finish
<1>3. CASE file' = file
  BY <1>1, <1>3
<1>4. CASE file # <<>> /\ file' = CutTail(file)
  <2>1. /\ Len(CutTail(file)) = Len(file)
        /\ \A k \in 1..Len(file) : CutTail(file)[k].obj = file[k].obj
    BY <1>1, <1>4, CutTailType
  <2> QED BY <1>1, <1>4, <2>1
<1> QED BY <1>2, <1>3, <1>4

LEMMA PlacesStep ==
    ASSUME TypeOK, ControlInv, Places, [Next]_vars
    PROVE  Places'
<1>1. CASE SendObject /\ UNCHANGED setup
  <2>1. /\ Len(objects') <= parsed' /\ Len(objects) \in Nat /\ parsed \in Nat
    BY <1>1, SendMoves, TypeFacts DEF Places
  <2> QED BY <1>1, <2>1, SendMoves DEF SendObject, Places, setup
<1>2. CASE ParseReturns /\ UNCHANGED setup
  BY <1>2, SameTaken DEF ParseReturns, Places, setup
<1>3. CASE CloseObjects /\ UNCHANGED setup
  BY <1>3, SameTaken DEF CloseObjects, Places, setup
<1>4. ASSUME NEW w \in Workers, ReceiveObject(w), UNCHANGED setup
      PROVE  Places'
  <2>1. /\ Len(objects') <= parsed' /\ Taken \subseteq Taken'
        /\ \A j \in 1..Len(objects') : objects'[j] = Received' + j
    BY <1>4, ReceiveMoves, TypeFacts DEF ReceiveObject, Places
  <2>2. \A v \in Workers : held'[v] # Nothing => held'[v] \in Taken'
    BY <1>4, <2>1, TakesMoves DEF Places
  <2> QED BY <1>4, <2>1, <2>2 DEF ReceiveObject, Places, setup
<1>5. ASSUME NEW w \in Workers, SendJson(w), UNCHANGED setup
      PROVE  Places'
  <2>1. held[w] \in Taken
    BY <1>5, TypeParts DEF SendJson, Places, ControlInv
  <2>2. \A j \in 1..Len(jsons') : jsons'[j] \in Taken
    BY <1>5, <2>1, SendJsonMoves DEF Places
  <2>3. \A v \in Workers : held'[v] # Nothing => held'[v] \in Taken
    BY <1>5, SendJsonMoves DEF Places
  <2> QED BY <1>5, <2>2, <2>3, SameTaken DEF SendJson, Places, setup
<1>6. ASSUME NEW w \in Workers, WorkerDone(w), UNCHANGED setup
      PROVE  Places'
  BY <1>6, SameTaken DEF WorkerDone, Places, setup
<1>7. CASE ReceiveJson /\ UNCHANGED setup
  <2>1. record' \in Taken /\ \A j \in 1..Len(jsons') : jsons'[j] \in Taken
    BY <1>7, ReceiveJsonMoves DEF Places
  <2> QED BY <1>7, <2>1, SameTaken DEF ReceiveJson, Places, setup
<1>8. CASE WriteRecord /\ UNCHANGED setup
  <2>1. \A k \in 1..Len(file') : file'[k].obj \in Taken
    <3>1. record \in Taken /\ \A k \in 1..Len(file) : file[k].obj \in Taken
      BY <1>8 DEF WriteRecord, Places
    <3> QED BY <1>8, <3>1, WriteMoves
  <2> QED BY <1>8, <2>1, SameTaken DEF WriteRecord, Places, setup
<1>9. CASE CheckWrite /\ UNCHANGED setup
  BY <1>9, SameTaken DEF CheckWrite, Places, setup
<1>10. CASE WriterDone /\ UNCHANGED setup
  BY <1>10, SameTaken DEF WriterDone, Places, setup
<1>11. CASE WaitWorkers /\ UNCHANGED setup
  BY <1>11, SameTaken DEF WaitWorkers, Places, setup
<1>12. CASE CloseJsons /\ UNCHANGED setup
  BY <1>12, SameTaken DEF CloseJsons, Places, setup
<1>13. CASE WaitWriter /\ UNCHANGED setup
  BY <1>13, SameTaken DEF WaitWriter, Places, setup
<1>14. CASE Finish /\ UNCHANGED setup
  <2>1. \A k \in 1..Len(file') : file'[k].obj \in Taken
    BY <1>14, FinishMoves DEF Places
  <2> QED BY <1>14, <2>1, SameTaken DEF Finish, Places, setup
<1>15. CASE UNCHANGED vars
  BY <1>15, SameTaken DEF vars, setup, Places
<1> QED BY <1>1, <1>2, <1>3, <1>4, <1>5, <1>6, <1>7, <1>8, <1>9, <1>10, <1>11, <1>12, <1>13, <1>14, <1>15, Steps

LEMMA ApartStep ==
    ASSUME TypeOK, ControlInv, Places, Apart, [Next]_vars
    PROVE  Apart'
<1>1. CASE SendObject /\ UNCHANGED setup
  BY <1>1 DEF SendObject, Apart, setup
<1>2. CASE ParseReturns /\ UNCHANGED setup
  BY <1>2 DEF ParseReturns, Apart, setup
<1>3. CASE CloseObjects /\ UNCHANGED setup
  BY <1>3 DEF CloseObjects, Apart, setup
<1>4. ASSUME NEW w \in Workers, ReceiveObject(w), UNCHANGED setup
      PROVE  Apart'
  <2>1. CASE held' = held
    BY <1>4, <2>1 DEF ReceiveObject, Apart, setup
  <2>2. CASE \A v \in Workers : held'[v] = IF v = w THEN Received + 1 ELSE held[v]
    <3>1. \A i \in Taken : i # Received + 1
      BY PlaceFacts
    <3>2. /\ \A j \in 1..Len(jsons) : jsons[j] # Received + 1
          /\ \A k \in 1..Len(file) : file[k].obj # Received + 1
          /\ \A v \in Workers : held[v] # Nothing => held[v] # Received + 1
          /\ writer = "write" => record # Received + 1
      BY <3>1 DEF Places
    <3>3. Received + 1 # Nothing /\ held[w] = Nothing
      BY <1>4, PlaceFacts DEF ControlInv, ReceiveObject
    <3> QED BY <1>4, <2>2, <3>2, <3>3 DEF ReceiveObject, Apart, setup
  <2> QED BY <1>4, <2>1, <2>2, TakesMoves
<1>5. ASSUME NEW w \in Workers, SendJson(w), UNCHANGED setup
      PROVE  Apart'
  <2>1. held[w] # Nothing /\ UNCHANGED <<Workers, file, writer, record>>
    BY <1>5 DEF SendJson, ControlInv, setup
  <2>2. /\ \A j \in 1..Len(jsons) : jsons[j] # Nothing
        /\ \A k \in 1..Len(file) : file[k].obj # Nothing
        /\ writer = "write" => record # Nothing
    BY PlaceFacts DEF Places
  <2>3. /\ \A j \in 1..Len(jsons') :
             \/ j \in 1..Len(jsons) /\ jsons'[j] = jsons[j]
             \/ j = Len(jsons) + 1 /\ jsons'[j] = held[w]
        /\ \A v \in Workers : held'[v] = IF v = w THEN Nothing ELSE held[v]
    BY <1>5, SendJsonMoves
  <2>4. /\ \A j \in 1..Len(jsons) : jsons[j] # held[w]
        /\ \A k \in 1..Len(file) : file[k].obj # held[w]
        /\ writer = "write" => held[w] # record
        /\ \A v \in Workers : v # w => held[v] # held[w]
    BY <2>1 DEF Apart
  <2>5. \A j, k \in 1..Len(jsons') : jsons'[j] = jsons'[k] => j = k
    BY <2>3, <2>4 DEF Apart
  <2>6. \A u, v \in Workers : held'[u] = held'[v] /\ held'[u] # Nothing => u = v
    BY <2>3 DEF Apart
  <2>7. /\ \A j \in 1..Len(jsons'), k \in 1..Len(file) : jsons'[j] # file[k].obj
        /\ writer = "write" => \A j \in 1..Len(jsons') : jsons'[j] # record
    BY <2>3, <2>4 DEF Apart
  <2>8. \A j \in 1..Len(jsons'), v \in Workers : jsons'[j] # held'[v]
    BY <2>1, <2>2, <2>3, <2>4 DEF Apart
  <2>9. /\ \A k \in 1..Len(file), v \in Workers : file[k].obj # held'[v]
        /\ writer = "write" => \A v \in Workers : held'[v] # record
    BY <2>2, <2>3 DEF Apart
  <2> QED BY <2>1, <2>5, <2>6, <2>7, <2>8, <2>9 DEF Apart
<1>6. ASSUME NEW w \in Workers, WorkerDone(w), UNCHANGED setup
      PROVE  Apart'
  BY <1>6 DEF WorkerDone, Apart, setup
<1>7. CASE ReceiveJson /\ UNCHANGED setup
  <2>1. UNCHANGED <<Workers, held, file>> /\ writer' = "write"
    BY <1>7 DEF ReceiveJson, setup
  <2>2. /\ record' = jsons[1] /\ 1 \in 1..Len(jsons)
        /\ \A j \in 1..Len(jsons') :
             j + 1 \in 1..Len(jsons) /\ j + 1 # 1 /\ jsons'[j] = jsons[j + 1]
    BY <1>7, ReceiveJsonMoves
  <2>3. \A j \in 1..Len(jsons') : jsons'[j] # record'
    BY <2>2 DEF Apart
  <2>4. ASSUME NEW j \in 1..Len(jsons'), NEW k \in 1..Len(jsons'), jsons'[j] = jsons'[k]
        PROVE  j = k
    <3>1. j + 1 = k + 1
      BY <2>2, <2>4 DEF Apart
    <3> QED BY <3>1
  <2>5. /\ \A j \in 1..Len(jsons'), k \in 1..Len(file) : jsons'[j] # file[k].obj
        /\ \A j \in 1..Len(jsons'), w \in Workers : jsons'[j] # held[w]
        /\ \A k \in 1..Len(file) : file[k].obj # record'
        /\ \A w \in Workers : held[w] # record'
    BY <2>2 DEF Apart
  <2> QED BY <2>1, <2>3, <2>4, <2>5 DEF Apart
<1>8. CASE WriteRecord /\ UNCHANGED setup
  <2>1. UNCHANGED <<Workers, held, jsons, record>> /\ writer = "write" /\ writer' = "check"
    BY <1>8 DEF WriteRecord, setup
  <2>2. \A k \in 1..Len(file') :
          \/ k \in 1..Len(file) /\ file'[k].obj = file[k].obj
          \/ k = Len(file) + 1 /\ file'[k].obj = record
    BY <1>8, WriteMoves
  <2>3. /\ \A k \in 1..Len(file) : file[k].obj # record
        /\ \A j \in 1..Len(jsons) : jsons[j] # record
        /\ \A w \in Workers : held[w] # record
    BY <2>1 DEF Apart
  <2>4. \A j, k \in 1..Len(file') : file'[j].obj = file'[k].obj => j = k
    BY <2>2, <2>3 DEF Apart
  <2>5. /\ \A j \in 1..Len(jsons), k \in 1..Len(file') : jsons[j] # file'[k].obj
        /\ \A k \in 1..Len(file'), w \in Workers : file'[k].obj # held[w]
    BY <2>2, <2>3 DEF Apart
  <2> QED BY <2>1, <2>4, <2>5 DEF Apart
<1>9. CASE CheckWrite /\ UNCHANGED setup
  BY <1>9 DEF CheckWrite, Apart, setup
<1>10. CASE WriterDone /\ UNCHANGED setup
  BY <1>10 DEF WriterDone, Apart, setup
<1>11. CASE WaitWorkers /\ UNCHANGED setup
  BY <1>11 DEF WaitWorkers, Apart, setup
<1>12. CASE CloseJsons /\ UNCHANGED setup
  BY <1>12 DEF CloseJsons, Apart, setup
<1>13. CASE WaitWriter /\ UNCHANGED setup
  BY <1>13 DEF WaitWriter, Apart, setup
<1>14. CASE Finish /\ UNCHANGED setup
  <2>1. UNCHANGED <<Workers, held, jsons, writer, record>>
    BY <1>14 DEF Finish, setup
  <2>2. \A k \in 1..Len(file') : k \in 1..Len(file) /\ file'[k].obj = file[k].obj
    BY <1>14, FinishMoves
  <2>3. \A j, k \in 1..Len(file') : file'[j].obj = file'[k].obj => j = k
    BY <2>2 DEF Apart
  <2>4. /\ \A j \in 1..Len(jsons), k \in 1..Len(file') : jsons[j] # file'[k].obj
        /\ \A k \in 1..Len(file'), w \in Workers : file'[k].obj # held[w]
        /\ writer = "write" => \A k \in 1..Len(file') : file'[k].obj # record
    BY <2>2 DEF Apart
  <2> QED BY <2>1, <2>3, <2>4 DEF Apart
<1>15. CASE UNCHANGED vars
  BY <1>15 DEF vars, setup, Apart
<1> QED BY <1>1, <1>2, <1>3, <1>4, <1>5, <1>6, <1>7, <1>8, <1>9, <1>10, <1>11, <1>12, <1>13, <1>14, <1>15, Steps

-----------------------------------------------------------------------------
(* While no write fails. *)

LEMMA FaultsGrow ==
    ASSUME TypeOK, WriteRecord \/ Finish, writeFaults' = 0
    PROVE  writeFaults = 0
<1>1. writeFaults \in 0..MaxWriteFaults /\ MaxWriteFaults \in Nat
  BY TypeParts, PipelineAssumption DEF Scalars
<1>2. writeFaults' = writeFaults \/ writeFaults' = writeFaults + 1
  BY DEF WriteRecord, Finish
<1> QED BY <1>1, <1>2

LEMMA PresentStep ==
    ASSUME TypeOK, ControlInv, Places, Present, [Next]_vars
    PROVE  Present'
<1>1. CASE SendObject /\ UNCHANGED setup
  <2>1. Taken' = Taken
    BY <1>1, SendMoves
  <2> QED BY <1>1, <2>1 DEF SendObject, Present, Somewhere, setup
<1>2. CASE ParseReturns /\ UNCHANGED setup
  BY <1>2, SameTaken DEF ParseReturns, Present, Somewhere, setup
<1>3. CASE CloseObjects /\ UNCHANGED setup
  BY <1>3, SameTaken DEF CloseObjects, Present, Somewhere, setup
<1>4. ASSUME NEW w \in Workers, ReceiveObject(w), UNCHANGED setup
      PROVE  Present'
  <2> SUFFICES ASSUME writeFaults' = 0, NEW i \in Taken'
               PROVE  Somewhere(i)'
    BY DEF Present
  <2>1. UNCHANGED <<Workers, jsons, writer, record, file, writeFaults>>
    BY <1>4 DEF ReceiveObject, setup
  <2>2. i \in Taken => Somewhere(i) /\ i # Nothing
    BY <2>1, PlaceFacts DEF Present
  <2>3. i \notin Taken => i = Received + 1 /\ Input[i] \notin Unmarshalable
    BY <1>4, ReceiveMoves
  <2>4. held[w] = Nothing
    BY <1>4 DEF ControlInv, ReceiveObject
  <2>5. CASE held' = held /\ Input[Received + 1] \in Unmarshalable
    BY <2>1, <2>2, <2>3, <2>5 DEF Somewhere
  <2>6. CASE \A v \in Workers : held'[v] = IF v = w THEN Received + 1 ELSE held[v]
    BY <2>1, <2>2, <2>3, <2>4, <2>6 DEF Somewhere
  <2> QED BY <1>4, <2>5, <2>6, TakesMoves
<1>5. ASSUME NEW w \in Workers, SendJson(w), UNCHANGED setup
      PROVE  Present'
  <2>1. UNCHANGED <<Workers, writer, record, file, writeFaults>> /\ Taken' = Taken
    BY <1>5, SameTaken DEF SendJson, setup
  <2> SUFFICES ASSUME writeFaults' = 0, NEW i \in Taken
               PROVE  Somewhere(i)'
    BY <2>1 DEF Present
  <2>2. Somewhere(i)
    BY <2>1 DEF Present
  <2>3. /\ Len(jsons) + 1 \in 1..Len(jsons') /\ jsons'[Len(jsons) + 1] = held[w]
        /\ \A j \in 1..Len(jsons) : j \in 1..Len(jsons') /\ jsons'[j] = jsons[j]
        /\ \A v \in Workers : v # w => held'[v] = held[v]
    BY <1>5, SendJsonMoves
  <2> QED BY <2>1, <2>2, <2>3 DEF Somewhere
<1>6. ASSUME NEW w \in Workers, WorkerDone(w), UNCHANGED setup
      PROVE  Present'
  BY <1>6, SameTaken DEF WorkerDone, Present, Somewhere, setup
<1>7. CASE ReceiveJson /\ UNCHANGED setup
  <2>1. UNCHANGED <<Workers, held, file, writeFaults>> /\ writer # "write" /\ writer' = "write"
        /\ Taken' = Taken
    BY <1>7, SameTaken DEF ReceiveJson, setup
  <2> SUFFICES ASSUME writeFaults' = 0, NEW i \in Taken
               PROVE  Somewhere(i)'
    BY <2>1 DEF Present
  <2>2. Somewhere(i)
    BY <2>1 DEF Present
  <2>3. record' = jsons[1]
    BY <1>7, ReceiveJsonMoves
  <2>4. ASSUME NEW j \in 1..Len(jsons), j # 1
        PROVE  j - 1 \in 1..Len(jsons') /\ jsons'[j - 1] = jsons[j]
    BY <1>7, <2>4, ReceiveJsonMoves
  <2> QED BY <2>1, <2>2, <2>3, <2>4 DEF Somewhere
<1>8. CASE WriteRecord /\ UNCHANGED setup
  <2>1. UNCHANGED <<Workers, held, jsons, record>> /\ Taken' = Taken
    BY <1>8, SameTaken DEF WriteRecord, setup
  <2>2. writeFaults' = 0 => writeFaults = 0
    BY <1>8, FaultsGrow
  <2> SUFFICES ASSUME writeFaults' = 0, NEW i \in Taken
               PROVE  Somewhere(i)'
    BY <2>1 DEF Present
  <2>3. Somewhere(i)
    BY <2>2 DEF Present
  <2>4. /\ Len(file) + 1 \in 1..Len(file') /\ file'[Len(file) + 1].obj = record
        /\ \A k \in 1..Len(file) : k \in 1..Len(file') /\ file'[k] = file[k]
    BY <1>8, WriteMoves
  <2> QED BY <2>1, <2>3, <2>4 DEF Somewhere
<1>9. CASE CheckWrite /\ UNCHANGED setup
  BY <1>9, SameTaken DEF CheckWrite, Present, Somewhere, setup
<1>10. CASE WriterDone /\ UNCHANGED setup
  BY <1>10, SameTaken DEF WriterDone, Present, Somewhere, setup
<1>11. CASE WaitWorkers /\ UNCHANGED setup
  BY <1>11, SameTaken DEF WaitWorkers, Present, Somewhere, setup
<1>12. CASE CloseJsons /\ UNCHANGED setup
  BY <1>12, SameTaken DEF CloseJsons, Present, Somewhere, setup
<1>13. CASE WaitWriter /\ UNCHANGED setup
  BY <1>13, SameTaken DEF WaitWriter, Present, Somewhere, setup
<1>14. CASE Finish /\ UNCHANGED setup
  <2>1. UNCHANGED <<Workers, held, jsons, writer, record>> /\ Taken' = Taken
    BY <1>14, SameTaken DEF Finish, setup
  <2>2. writeFaults' = 0 => writeFaults = 0
    BY <1>14, FaultsGrow
  <2>3. \A k \in 1..Len(file) : k \in 1..Len(file') /\ file'[k].obj = file[k].obj
    BY <1>14, FinishMoves
  <2> QED BY <2>1, <2>2, <2>3 DEF Present, Somewhere
<1>15. CASE UNCHANGED vars
  BY <1>15, SameTaken DEF vars, setup, Present, Somewhere
<1> QED BY <1>1, <1>2, <1>3, <1>4, <1>5, <1>6, <1>7, <1>8, <1>9, <1>10, <1>11, <1>12, <1>13, <1>14, <1>15, Steps

LEMMA FileStep ==
    ASSUME TypeOK, ControlInv, FileInv, [Next]_vars
    PROVE  FileInv'
<1>1. CASE SendObject /\ UNCHANGED setup
  BY <1>1 DEF SendObject, FileInv, IsList, ControlInv, setup
<1>2. CASE ParseReturns /\ UNCHANGED setup
  BY <1>2 DEF ParseReturns, FileInv, IsList, setup
<1>3. CASE CloseObjects /\ UNCHANGED setup
  BY <1>3 DEF CloseObjects, FileInv, IsList, ControlInv, setup
<1>4. ASSUME NEW w \in Workers, ReceiveObject(w), UNCHANGED setup
      PROVE  FileInv'
  BY <1>4 DEF ReceiveObject, FileInv, IsList, ControlInv, setup
<1>5. ASSUME NEW w \in Workers, SendJson(w), UNCHANGED setup
      PROVE  FileInv'
  BY <1>5 DEF SendJson, FileInv, IsList, ControlInv, setup
<1>6. ASSUME NEW w \in Workers, WorkerDone(w), UNCHANGED setup
      PROVE  FileInv'
  BY <1>6 DEF WorkerDone, FileInv, IsList, ControlInv, setup
<1>7. CASE ReceiveJson /\ UNCHANGED setup
  BY <1>7 DEF ReceiveJson, FileInv, IsList, ControlInv, setup
<1>8. CASE WriteRecord /\ UNCHANGED setup
  <2> SUFFICES ASSUME writeFaults' = 0, ~parseFails
               PROVE  FileInv'
    BY <1>8 DEF FileInv, setup
  <2>1. writeFaults = 0 /\ main # "returned"
    BY <1>8, FaultsGrow DEF WriteRecord, ControlInv
  <2>2. \A k \in 1..Len(file) : file[k].whole /\ file[k].comma
    BY <2>1 DEF FileInv
  <2>3. /\ err' = "nil" /\ file' # <<>>
        /\ \A k \in 1..Len(file') : file'[k].whole /\ file'[k].comma
    <3>1. /\ err' = "nil" /\ Len(file) \in Nat /\ Len(file') = Len(file) + 1
          /\ \A k \in 1..Len(file') :
               \/ k \in 1..Len(file) /\ file'[k] = file[k]
               \/ k = Len(file) + 1
          /\ file'[Len(file) + 1].whole /\ file'[Len(file) + 1].comma
      BY <1>8, WriteMoves
    <3>2. Len(file') # Len(<<>>)
      BY <3>1
    <3> QED BY <2>2, <3>1, <3>2
  <2>4. writer' = "check" /\ main' # "returned"
    BY <1>8, <2>1 DEF WriteRecord
  <2> QED BY <2>3, <2>4 DEF FileInv
<1>9. CASE CheckWrite /\ UNCHANGED setup
  <2>1. UNCHANGED <<file, err, main, writeFaults>> /\ writer = "check" /\ writer' = "receive"
        /\ empty' = (empty /\ err # "nil")
    BY <1>9 DEF CheckWrite
  <2>2. IsList' <=> IsList
    BY <2>1 DEF IsList
  <2> QED BY <1>9, <2>1, <2>2 DEF FileInv, setup
<1>10. CASE WriterDone /\ UNCHANGED setup
  BY <1>10 DEF WriterDone, FileInv, IsList, ControlInv, setup
<1>11. CASE WaitWorkers /\ UNCHANGED setup
  BY <1>11 DEF WaitWorkers, FileInv, IsList, ControlInv, setup
<1>12. CASE CloseJsons /\ UNCHANGED setup
  BY <1>12 DEF CloseJsons, FileInv, IsList, ControlInv, setup
<1>13. CASE WaitWriter /\ UNCHANGED setup
  BY <1>13 DEF WaitWriter, FileInv, IsList, ControlInv, setup
<1>14. CASE Finish /\ UNCHANGED setup
  <2> SUFFICES ASSUME writeFaults' = 0, ~parseFails
               PROVE  FileInv'
    BY <1>14 DEF FileInv, setup
  <2>1. writeFaults = 0 /\ main = "finish" /\ writer # "check"
    BY <1>14, FaultsGrow DEF Finish, ControlInv
  <2>2. /\ empty <=> file = <<>>
        /\ \A k \in 1..Len(file) : file[k].whole /\ file[k].comma
    BY <2>1 DEF FileInv
  <2>3. writeFaults \in Nat /\ file \in Seq(FileRecord) /\ Len(file) \in Nat
    <3>1. writeFaults \in 0..MaxWriteFaults /\ file \in Seq(FileRecord)
      BY TypeParts DEF Scalars, FileOK
    <3> QED BY <3>1, PipelineAssumption
  <2>4. /\ err' = "nil" /\ main' = "returned" /\ writer' = writer /\ empty' = empty
        /\ file' = IF file = <<>> THEN file ELSE CutTail(file)
    <3>1. writeFaults' # writeFaults + 1
      BY <2>1, <2>3
    <3> QED BY <1>14, <2>2, <3>1 DEF Finish
  <2>5. CASE file = <<>>
    BY <2>1, <2>2, <2>4, <2>5 DEF FileInv, IsList
  <2>6. CASE file # <<>>
    <3>1. file' = CutTail(file) /\ CutTail(file) \in Seq(FileRecord)
      BY <2>3, <2>4, <2>6, CutTailType
    <3>2. /\ Len(file') = Len(file) /\ DOMAIN file' = 1..Len(file) /\ file' # <<>>
          /\ Len(file) \in 1..Len(file)
      <4>1. Len(file) # 0 /\ Len(file) \in 1..Len(file)
        BY <2>3, <2>6, EmptySeq
      <4>2. Len(file') = Len(file)
        BY <2>3, <2>6, <3>1, CutTailType
      <4>3. DOMAIN file' = 1..Len(file') /\ (file' = <<>> => Len(file') = 0)
        BY <3>1
      <4> QED BY <4>1, <4>2, <4>3
    <3>3. \A k \in 1..(Len(file) - 1) : file'[k] = file[k]
      BY <2>3, <2>6, <3>1, CutTailType
    <3>4. file'[Len(file)].whole /\ file'[Len(file)].comma = FALSE
      BY <2>2, <2>3, <2>6, <3>1, <3>2, CutTailType
    <3>5. \A k \in 1..Len(file) : file'[k].whole /\ (file'[k].comma <=> k < Len(file))
      BY <2>2, <2>3, <3>3, <3>4
    <3>6. IsList'
      BY <3>2, <3>5 DEF IsList
    <3> QED BY <2>1, <2>2, <2>4, <2>6, <3>2, <3>6 DEF FileInv
  <2> QED BY <2>5, <2>6
<1>15. CASE UNCHANGED vars
  BY <1>15 DEF vars, setup, FileInv, IsList
<1> QED BY <1>1, <1>2, <1>3, <1>4, <1>5, <1>6, <1>7, <1>8, <1>9, <1>10, <1>11, <1>12, <1>13, <1>14, <1>15, Steps


-----------------------------------------------------------------------------
(* One marshaller. *)
LEMMA InLineStep ==
    ASSUME TypeOK, ControlInv, Places, InLine, [Next]_vars
    PROVE  InLine'
<1>1. CASE SendObject /\ UNCHANGED setup
  BY <1>1 DEF SendObject, InLine, Line, setup
<1>2. CASE ParseReturns /\ UNCHANGED setup
  BY <1>2 DEF ParseReturns, InLine, Line, setup
<1>3. CASE CloseObjects /\ UNCHANGED setup
  BY <1>3 DEF CloseObjects, InLine, Line, setup
<1>4. ASSUME NEW w \in Workers, ReceiveObject(w), UNCHANGED setup
      PROVE  InLine'
  <2>1. UNCHANGED <<Workers, jsons, file, writer, record>>
    BY <1>4 DEF ReceiveObject, setup
  <2> SUFFICES ASSUME Workers = {w}, Line(w)
               PROVE  Line(w)'
    BY <1>4, <2>1 DEF InLine
  <2>2. CASE held' = held
    BY <2>1, <2>2 DEF Line
  <2>3. CASE held'[w] = Received + 1
    <3>1. \A i \in Taken : i < Received + 1
      BY PlaceFacts
    <3>2. /\ \A j \in 1..Len(jsons) : jsons[j] < Received + 1
          /\ \A k \in 1..Len(file) : file[k].obj < Received + 1
          /\ writer = "write" => record < Received + 1
      BY <3>1 DEF Places
    <3> HIDE DEF Received
    <3> QED BY <2>1, <2>3, <3>2 DEF Line
  <2> QED BY <1>4, <2>2, <2>3, TakesMoves
<1>5. ASSUME NEW w \in Workers, SendJson(w), UNCHANGED setup
      PROVE  InLine'
  <2>1. UNCHANGED <<Workers, file, writer, record>> /\ held[w] # Nothing
    BY <1>5 DEF SendJson, ControlInv, setup
  <2> SUFFICES ASSUME Workers = {w}, Line(w)
               PROVE  Line(w)'
    BY <1>5, <2>1 DEF InLine
  <2>2. /\ Len(jsons') = Len(jsons) + 1 /\ Len(jsons) \in Nat
        /\ \A j \in 1..Len(jsons') :
             \/ j \in 1..Len(jsons) /\ jsons'[j] = jsons[j]
             \/ j = Len(jsons) + 1 /\ jsons'[j] = held[w]
        /\ held'[w] = Nothing
    BY <1>5, SendJsonMoves
  <2>3. /\ \A j \in 1..Len(jsons) : jsons[j] < held[w]
        /\ \A k \in 1..Len(file) : file[k].obj < held[w]
        /\ writer = "write" => record < held[w]
    BY <2>1 DEF Line
  <2>4. ASSUME NEW j \in 1..Len(jsons'), NEW k \in 1..Len(jsons'), j < k
        PROVE  jsons'[j] < jsons'[k]
    <3>1. j \in 1..Len(jsons) /\ jsons'[j] = jsons[j]
      BY <2>2, <2>4
    <3> QED BY <2>2, <2>3, <2>4, <3>1 DEF Line
  <2>5. /\ \A j \in 1..Len(jsons'), k \in 1..Len(file) : file[k].obj < jsons'[j]
        /\ writer = "write" => \A j \in 1..Len(jsons') : record < jsons'[j]
    BY <2>2, <2>3 DEF Line
  <2> QED BY <2>1, <2>2, <2>4, <2>5 DEF Line
<1>6. ASSUME NEW w \in Workers, WorkerDone(w), UNCHANGED setup
      PROVE  InLine'
  BY <1>6 DEF WorkerDone, InLine, Line, setup
<1>7. CASE ReceiveJson /\ UNCHANGED setup
  <2>1. UNCHANGED <<Workers, held, file>>
    BY <1>7 DEF ReceiveJson, setup
  <2> SUFFICES ASSUME NEW w \in Workers, Line(w)
               PROVE  Line(w)'
    BY <2>1 DEF InLine
  <2>2. /\ record' = jsons[1] /\ 1 \in 1..Len(jsons)
        /\ \A j \in 1..Len(jsons') :
             j + 1 \in 1..Len(jsons) /\ 1 < j + 1 /\ jsons'[j] = jsons[j + 1]
    BY <1>7, ReceiveJsonMoves
  <2>3. ASSUME NEW j \in 1..Len(jsons'), NEW k \in 1..Len(jsons'), j < k
        PROVE  jsons'[j] < jsons'[k]
    <3>1. j + 1 < k + 1
      BY <2>3
    <3> QED BY <2>2, <3>1 DEF Line
  <2>4. /\ \A j \in 1..Len(jsons') : record' < jsons'[j]
        /\ \A k \in 1..Len(file) : file[k].obj < record'
        /\ \A j \in 1..Len(jsons'), k \in 1..Len(file) : file[k].obj < jsons'[j]
    BY <2>2 DEF Line
  <2>5. held[w] # Nothing => /\ record' < held[w]
                             /\ \A j \in 1..Len(jsons') : jsons'[j] < held[w]
                             /\ \A k \in 1..Len(file) : file[k].obj < held[w]
    BY <2>2 DEF Line
  <2> QED BY <2>1, <2>3, <2>4, <2>5 DEF Line
<1>8. CASE WriteRecord /\ UNCHANGED setup
  <2>1. UNCHANGED <<Workers, held, jsons, record>> /\ writer = "write" /\ writer' = "check"
    BY <1>8 DEF WriteRecord, setup
  <2> SUFFICES ASSUME NEW w \in Workers, Line(w)
               PROVE  Line(w)'
    BY <2>1 DEF InLine
  <2>2. /\ \A j \in 1..Len(jsons) : record < jsons[j]
        /\ \A k \in 1..Len(file) : file[k].obj < record
        /\ held[w] # Nothing => record < held[w]
    BY <2>1 DEF Line
  <2>3. CASE file' = file
    BY <2>1, <2>3 DEF Line
  <2>4. CASE /\ Len(file') = Len(file) + 1 /\ Len(file) \in Nat
             /\ \A k \in 1..Len(file') :
                  \/ k \in 1..Len(file) /\ file'[k] = file[k]
                  \/ k = Len(file) + 1 /\ file'[k].obj = record
    <3>1. ASSUME NEW j \in 1..Len(file'), NEW k \in 1..Len(file'), j < k
          PROVE  file'[j].obj < file'[k].obj
      <4>1. j \in 1..Len(file) /\ file'[j] = file[j]
        BY <2>4, <3>1
      <4> QED BY <2>2, <2>4, <3>1, <4>1 DEF Line
    <3>2. \A j \in 1..Len(jsons), k \in 1..Len(file') : file'[k].obj < jsons[j]
      BY <2>2, <2>4 DEF Line
    <3>3. held[w] # Nothing => \A k \in 1..Len(file') : file'[k].obj < held[w]
      BY <2>2, <2>4 DEF Line
    <3> QED BY <2>1, <3>1, <3>2, <3>3 DEF Line
  <2> QED BY <1>8, <2>3, <2>4, WriteMoves
<1>9. CASE CheckWrite /\ UNCHANGED setup
  BY <1>9 DEF CheckWrite, InLine, Line, setup
<1>10. CASE WriterDone /\ UNCHANGED setup
  BY <1>10 DEF WriterDone, InLine, Line, setup
<1>11. CASE WaitWorkers /\ UNCHANGED setup
  BY <1>11 DEF WaitWorkers, InLine, Line, setup
<1>12. CASE CloseJsons /\ UNCHANGED setup
  BY <1>12 DEF CloseJsons, InLine, Line, setup
<1>13. CASE WaitWriter /\ UNCHANGED setup
  BY <1>13 DEF WaitWriter, InLine, Line, setup
<1>14. CASE Finish /\ UNCHANGED setup
  <2>1. UNCHANGED <<Workers, held, jsons, writer, record>>
    BY <1>14 DEF Finish, setup
  <2>2. Len(file') = Len(file) /\ \A k \in 1..Len(file) : file'[k].obj = file[k].obj
    BY <1>14, FinishMoves
  <2> QED BY <2>1, <2>2 DEF InLine, Line
<1>15. CASE UNCHANGED vars
  BY <1>15 DEF vars, setup, InLine, Line
<1> QED BY <1>1, <1>2, <1>3, <1>4, <1>5, <1>6, <1>7, <1>8, <1>9, <1>10, <1>11, <1>12, <1>13, <1>14, <1>15, Steps

-----------------------------------------------------------------------------
(* How often an object is somewhere. *)

LEMMA OneOrNone ==
    ASSUME NEW S, \A x, y \in S : x = y
    PROVE  Cardinality(S) = IF S = {} THEN 0 ELSE 1
<1>1. CASE S = {}
  BY <1>1, FS_EmptySet
<1>2. CASE S # {}
  <2>1. PICK x \in S : TRUE
    BY <1>2
  <2>2. S = {x}
    BY <2>1
  <2> QED BY <1>2, <2>2, FS_Singleton
<1> QED BY <1>1, <1>2

LEMMA CountCopies ==
    ASSUME TypeOK, ControlInv, Places, Apart, NEW i \in 1..parsed
    PROVE  /\ Copies(i) <= 1
           /\ i > Received \/ Somewhere(i) => Copies(i) = 1
<1> DEFINE O == {j \in DOMAIN objects : objects[j] = i}
           J == {j \in DOMAIN jsons : jsons[j] = i}
           H == {w \in Workers : held[w] = i}
           R == writer = "write" /\ record = i
           F == {k \in DOMAIN file : file[k].obj = i}
<1>1. /\ Len(objects) \in Nat /\ DOMAIN objects = 1..Len(objects)
      /\ DOMAIN jsons = 1..Len(jsons) /\ DOMAIN file = 1..Len(file)
      /\ parsed \in Nat
  BY TypeFacts, TypeParts DEF Channels, FileOK
<1>2. i \in Nat /\ i # Nothing /\ Received \in Nat /\ Received + Len(objects) = parsed
  BY <1>1, PlaceFacts DEF Nothing, Received
<1> HIDE DEF Received
<1>3. \A x, y \in O : x = y
  <2>1. \A x \in O : i = Received + x /\ x \in Nat
    BY <1>1 DEF Places
  <2> QED BY <1>2, <2>1
<1>4. O # {} <=> i > Received
  <2>1. ASSUME NEW x \in O
        PROVE  i > Received
    <3>1. i = Received + x /\ x \in 1..Len(objects)
      BY <1>1 DEF Places
    <3> QED BY <1>1, <1>2, <3>1
  <2>2. ASSUME i > Received
        PROVE  i - Received \in O
    <3>1. i - Received \in 1..Len(objects)
      BY <1>1, <1>2, <2>2
    <3>2. objects[i - Received] = Received + (i - Received)
      BY <3>1 DEF Places
    <3> QED BY <1>1, <1>2, <3>1, <3>2
  <2> QED BY <2>1, <2>2
<1>5. \A x, y \in J : x = y
  BY <1>1 DEF Apart
<1>6. \A x, y \in H : x = y
  BY <1>2 DEF Apart
<1>7. \A x, y \in F : x = y
  BY <1>1 DEF Apart
<1>8. J # {} \/ H # {} \/ R \/ F # {} => i \in Taken
  BY <1>1, <1>2 DEF Places
<1>9. J # {} \/ H # {} \/ R \/ F # {} => O = {}
  <2>1. \A x \in Taken : x <= Received /\ x \in Nat
    BY <1>2, PlaceFacts
  <2> QED BY <1>2, <1>4, <1>8, <2>1
<1>10. /\ J # {} => H = {} /\ ~R /\ F = {}
       /\ H # {} => ~R /\ F = {}
       /\ R => F = {}
  BY <1>1 DEF Apart
<1>11. Somewhere(i) <=> J # {} \/ H # {} \/ R \/ F # {}
  BY <1>1 DEF Somewhere
<1>12. Copies(i) = Cardinality(O) + Cardinality(J) + Cardinality(H)
                     + (IF R THEN 1 ELSE 0) + Cardinality(F)
  BY DEF Copies
<1>13. /\ Cardinality(O) = IF O = {} THEN 0 ELSE 1
       /\ Cardinality(J) = IF J = {} THEN 0 ELSE 1
       /\ Cardinality(H) = IF H = {} THEN 0 ELSE 1
       /\ Cardinality(F) = IF F = {} THEN 0 ELSE 1
  BY <1>3, <1>5, <1>6, <1>7, OneOrNone
<1> HIDE DEF O, J, H, R, F
<1> QED BY <1>4, <1>9, <1>10, <1>11, <1>12, <1>13

-----------------------------------------------------------------------------
(* The theorems. *)

LEMMA PipeInit == Init => PipeInv /\ Present /\ FileInv /\ InLine
<1> SUFFICES ASSUME Init
             PROVE  PipeInv /\ Present /\ FileInv /\ InLine
  OBVIOUS
<1>1. /\ Capacity \in Nat \ {0} /\ MaxWriteFaults \in Nat /\ Len(Input) \in Nat
      /\ IsFiniteSet(Workers) /\ Cardinality(Workers) \in Nat
  BY PipelineAssumption, FS_CardinalityType DEF Init
<1>2. Len(objects) = 0 /\ Len(jsons) = 0 /\ Len(file) = 0
  BY DEF Init
<1>3. Scalars
  <2>1. 0 \in Indices /\ 0 \in 0..MaxWriteFaults
    BY <1>1 DEF Indices
  <2> QED BY <2>1 DEF Init, Scalars, Nothing
<1>4. Marshallers
  BY <1>1 DEF Init, Marshallers, Indices, Nothing
<1>5. Channels /\ FileOK
  BY <1>1 DEF Init, Channels, FileOK
<1>6. TypeOK
  BY <1>3, <1>4, <1>5, TypeParts
<1>7. ControlInv
  <2>1. \A w \in Workers : worker[w] = "receive" /\ held[w] = Nothing
    BY DEF Init
  <2>2. wg = Cardinality(Running)
    <3>1. Running = Workers
      BY <2>1 DEF Running
    <3> QED BY <3>1 DEF Init
  <2>3. /\ parser = "parse" /\ ~objectsClosed /\ ~jsonsClosed
        /\ main = "wait" /\ writer = "receive" /\ ret = "none"
    BY DEF Init
  <2> QED BY <2>1, <2>2, <2>3 DEF ControlInv
<1>8. Taken = {}
  <2>1. Received = 0
    <3>1. parsed = 0
      BY DEF Init
    <3> QED BY <1>2, <3>1 DEF Received
  <2>2. 1..Received = {}
    BY <2>1
  <2> QED BY <2>2 DEF Taken
<1>9. Places /\ Apart
  BY <1>2 DEF Init, Places, Apart
<1>10. Present /\ FileInv /\ InLine
  BY <1>2, <1>8 DEF Init, Present, FileInv, InLine, Line
<1> QED BY <1>6, <1>7, <1>9, <1>10 DEF PipeInv

(* Everything together: the other theorems are read off it.                *)
LEMMA PipeInvariant == Spec => [](PipeInv /\ Present /\ FileInv /\ InLine)
<1>1. /\ PipeInv /\ Present /\ FileInv /\ InLine
      /\ [Next]_vars
      => (PipeInv /\ Present /\ FileInv /\ InLine)'
  BY TypeStep, ControlStep, PlacesStep, ApartStep, PresentStep, FileStep, InLineStep
     DEF PipeInv
<1> QED BY <1>1, PipeInit, PTL DEF Spec

(* The variables of ToJsons keep their types: both channels stay within    *)
(* their capacity, and the counter of the wait group never goes below zero *)
(* (WaitGroup.Done would panic, helper/json.go:97).                        *)
THEOREM TypeCorrect == Spec => []TypeOK
<1>1. PipeInv => TypeOK
  BY DEF PipeInv
<1> QED BY <1>1, PipeInvariant, PTL

(* Nobody sends on a channel that is closed: jsonStringBuffer is closed    *)
(* behind wg.Wait() (helper/json.go:116), redisObjectBuffer behind Parse.  *)
THEOREM NeverSendOnClosed == Spec => []NoSendOnClosed
<1>1. PipeInv => NoSendOnClosed
  BY DEF PipeInv, ControlInv, NoSendOnClosed
<1> QED BY <1>1, PipeInvariant, PTL

(* An object is in one place at most from the moment the parser sends it,  *)
(* and in exactly one while no write fails unless it cannot be marshalled: *)
(* the channels, the marshallers and the writer of helper/json.go:77-118   *)
(* neither duplicate nor drop any.                                         *)
THEOREM OneCopyEach == Spec => []OneCopy
<1>1. PipeInv /\ Present => OneCopy
  <2> SUFFICES ASSUME PipeInv, Present, NEW i \in 1..parsed
               PROVE  /\ Copies(i) <= 1
                      /\ (writeFaults = 0 /\ Input[i] \notin Unmarshalable) => Copies(i) = 1
    BY DEF OneCopy
  <2>1. /\ Copies(i) <= 1
        /\ i > Received \/ Somewhere(i) => Copies(i) = 1
    BY CountCopies DEF PipeInv
  <2>2. parsed \in Nat /\ Received \in Nat
    BY TypeFacts, PlaceFacts DEF PipeInv
  <2>3. Input[i] \notin Unmarshalable => i > Received \/ i \in Taken
    <3> HIDE DEF Received
    <3> QED BY <2>2 DEF Taken
  <2> QED BY <2>1, <2>3 DEF Present
<1> QED BY <1>1, PipeInvariant, PTL

(* When ToJsons returns nil and no write failed, the file has exactly the  *)
(* objects that can be marshalled, for any number of goroutines but zero:  *)
(* WithConcurrent(0) starts none (helper/json.go:86), and ToJsons then     *)
(* waits for nobody and returns with an empty list.                        *)
THEOREM NothingIsLost ==
    ASSUME {} \notin WorkerSets
    PROVE  Spec => []NothingLost
<1>1. PipeInv /\ Present => NothingLost
  <2> SUFFICES ASSUME PipeInv, Present, ret = "nil", writeFaults = 0
               PROVE  {file[j].obj : j \in DOMAIN file}
                        = {i \in 1..Len(Input) : Input[i] \notin Unmarshalable}
    BY DEF NothingLost
  <2>1. /\ DOMAIN file = 1..Len(file) /\ parsed \in Nat /\ Workers # {}
    <3>1. Workers \in WorkerSets
      BY TypeParts DEF PipeInv, Marshallers
    <3>2. file \in Seq(FileRecord) /\ parsed \in Nat
      BY TypeFacts, TypeParts DEF PipeInv, FileOK
    <3>3. Workers # {}
      BY <3>1, Zenon
    <3> QED BY <3>2, <3>3
  <2>2. /\ writer = "done" /\ jsons = <<>>
        /\ \A w \in Workers : worker[w] = "done"
    BY DEF PipeInv, ControlInv
  <2>3. objects = <<>> /\ parsed = Len(Input)
    BY <2>1, <2>2 DEF PipeInv, ControlInv
  <2>4. Received = Len(Input)
    BY <2>1, <2>3 DEF Received
  <2>5. Taken = {i \in 1..Len(Input) : Input[i] \notin Unmarshalable}
    BY <2>4 DEF Taken
  <2>6. \A k \in 1..Len(file) : file[k].obj \in Taken
    BY DEF PipeInv, Places
  <2>7. ASSUME NEW i \in Taken
        PROVE  \E k \in 1..Len(file) : file[k].obj = i
    <3>1. Somewhere(i) /\ i # Nothing
      BY PlaceFacts DEF PipeInv, Present
    <3>2. \A w \in Workers : held[w] = Nothing
      BY <2>2 DEF PipeInv, ControlInv
    <3> QED BY <2>2, <3>1, <3>2 DEF Somewhere
  <2> QED BY <2>1, <2>5, <2>6, <2>7
<1> QED BY <1>1, PipeInvariant, PTL

(* When the parse and all writes succeeded the file is a JSON list: every  *)
(* record is whole, with a separator between two and none behind the last. *)
(* What the Seek(-2, 2) of helper/json.go:122 cuts off is that separator.  *)
THEOREM JsonWellFormed == Spec => []WellFormedJson
<1>1. PipeInv /\ FileInv => WellFormedJson
  BY DEF PipeInv, ControlInv, FileInv, WellFormedJson
<1> QED BY <1>1, PipeInvariant, PTL

(* One marshaller alone (WithConcurrent(1)) keeps the order of the RDB     *)
(* file in the JSON, whatever writes fail.                                 *)
THEOREM OneWorkerKeepsOrder == Spec => []KeepsOrder
<1>1. PipeInv /\ InLine => KeepsOrder
  <2> SUFFICES ASSUME PipeInv, InLine, Cardinality(Workers) = 1
               PROVE  \A j, k \in DOMAIN file : j < k => file[j].obj < file[k].obj
    BY DEF KeepsOrder
  <2>1. DOMAIN file = 1..Len(file) /\ IsFiniteSet(Workers)
    BY TypeFacts, TypeParts DEF PipeInv, FileOK
  <2>2. PICK w : Workers = {w}
    BY <2>1, FS_Singleton
  <2>3. Line(w)
    BY <2>2 DEF InLine
  <2> QED BY <2>1, <2>3 DEF Line
<1> QED BY <1>1, PipeInvariant, PTL
=============================================================================
