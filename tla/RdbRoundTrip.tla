----------------------------- MODULE RdbRoundTrip -----------------------------
(***************************************************************************)
(* The file between the two sides: an Encoder writes it, the process may   *)
(* end at any point of any call, and a Decoder then reads what is there.   *)
(***************************************************************************)
EXTENDS RdbEncoder

Seqs == INSTANCE SequencesExt

CONSTANTS WithSpecialOpCode, MayStop

VARIABLES
    reading,    \* the writing side is gone, the file was opened for reading
    pos, valkey, dbIndex, expireMs, lru, lfu, got, stopped, result

Decoder == INSTANCE RdbDecoder WITH file <- out

readVars  == <<pos, valkey, dbIndex, expireMs, lru, lfu, got, stopped, result>>
roundVars == <<vars, reading, readVars>>

(* The objects among what the callback received. *)
Received(g) == Decoder!Concat([ i \in 1..Len(g) |-> IF g[i][1] = "object" THEN << g[i][2] >> ELSE <<>> ])

Delivered == Received(got)

(* The objects handed in: those accepted, and the one being written. *)
Sent == log \o IF ~Idle /\ call[1] = "object" THEN << call[2] >> ELSE <<>>

-----------------------------------------------------------------------------
RInit == Init /\ Decoder!DecoderInit /\ reading = FALSE

Encode == /\ ~reading
          /\ Next
          /\ UNCHANGED <<reading, readVars>>

(* Between two calls, or in the middle of one. *)
Open == /\ ~reading
        /\ reading' = TRUE
        /\ UNCHANGED <<vars, readVars>>

Decode == /\ reading
          /\ Decoder!DecoderNext
          /\ UNCHANGED <<vars, reading>>

RNext == Encode \/ Open \/ Decode

RSpec == RInit /\ [][RNext]_roundVars

-----------------------------------------------------------------------------
(* WriteEnd returned nil. *)
Finished == Idle /\ state = "WritingEnd"

(* A file all of whose writes succeeded gives back exactly the objects     *)
(* whose WriteXxx call returned nil, with their database, key, expiration  *)
(* and value, and nothing for the calls that were refused.                 *)
RoundTrip ==
    (Finished /\ faults = 0 /\ result # "none") => result = "nil" /\ Delivered = log

(* Wherever the writing process ends: what was accepted before that, or    *)
(* before the first failed write, is delivered, and at most the object     *)
(* being written comes on top.                                             *)
CrashSafe ==
    (health # "spoiled" /\ result # "none") =>
        /\ Seqs!IsPrefix(log, Delivered)
        /\ Seqs!IsPrefix(Delivered, Sent)

(* When every call that began returned nil, the file reads back.           *)
NilMeansReadable ==
    (Finished /\ health = "clean" /\ result # "none") => result = "nil" /\ Delivered = log

(* The file is a queue of objects, at every moment of writing and reading. *)
Pipe == INSTANCE ObjectPipe WITH sent <- Sent, received <- Delivered
IsObjectPipe == Pipe!Spec
=============================================================================
