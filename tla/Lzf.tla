-------------------------------- MODULE Lzf --------------------------------
(***************************************************************************)
(* lzf/lzf.go: Compress, one action per turn of its main loop, and         *)
(* Decompress, which writeLZFString and readLZF (core/string.go) call.     *)
(*                                                                         *)
(* The widths are parameters: a control byte has LenBits bits of length    *)
(* above LitBits others (3 and 5 in the code), and input bytes are as wide.*)
(*                                                                         *)
(* The hash table has one slot for several triples of bytes.  A position   *)
(* entered in it is found again by an equal triple, unless another triple  *)
(* of the same slot has replaced it: whether one has is left open.         *)
(* Indices are the code's own, from 0.                                     *)
(***************************************************************************)
EXTENDS Integers, Sequences, Reads

CONSTANTS LitBits, LenBits

ASSUME WidthAssumption == LitBits \in 1..5 /\ LenBits \in 1..3

maxLit   == 2^LitBits
longLen  == 2^LenBits - 1               \* 7: the length is in a byte of its own
byteMod  == 2^(LitBits + LenBits)
maxOff   == maxLit * byteMod
maxRef   == byteMod + 2^LenBits

VARIABLES
    input,      \* what is compressed
    output,     \* of the length of the input
    inputIndex, outputIndex, lit,
    htab,       \* the positions entered in the hash table
    lzfPc       \* "idle", "loop", "done", "error" (errInsufficientBuffer), "panic"

lzfVars == <<input, output, inputIndex, outputIndex, lit, htab, lzfPc>>

-----------------------------------------------------------------------------
(* Decompress: the output, or the sequence of an error. *)

Corrupt == <<-1>>

(* n bytes from ref on, one at a time: some may have been copied just now. *)
CopyBack(out, ref, n) ==
    LET byte[k \in 1..(Len(out) + n)] ==
          IF k <= Len(out) THEN out[k] ELSE byte[k - (Len(out) - ref)]
    IN  byte

(* One turn of the loop: at is inputIndex, out what has been decompressed. *)
Turn(in, outLen, s) ==
    LET In(k)   == in[k + 1]
        i       == s.at
        out     == s.out
        ctrl    == In(i)
        run     == ctrl + 1
        long    == ctrl \div maxLit = longLen
        length  == (ctrl \div maxLit) + (IF long THEN In(i + 1) ELSE 0)
        next    == i + (IF long THEN 2 ELSE 1)      \* of the byte of the offset
        ref     == Len(out) - ((ctrl % maxLit) * byteMod) - 1 - In(next)
        failed  == [at |-> Len(in), out |-> Corrupt]
    IN  IF i >= Len(in) THEN s
        ELSE IF ctrl < maxLit
        THEN IF Len(out) + run > outLen \/ i + 1 + run > Len(in) THEN failed
             ELSE [at |-> i + 1 + run, out |-> out \o SubSeq(in, i + 2, i + 1 + run)]
        ELSE IF i + 1 >= Len(in) \/ next >= Len(in) THEN failed
             ELSE IF Len(out) + length + 2 > outLen \/ ref < 0 THEN failed
             ELSE [at |-> next + 1, out |-> CopyBack(out, ref, length + 2)]

(* A turn takes at least one byte, and none when there are none left. *)
Decompress(in, outLen) ==
    LET after[k \in 0..Len(in)] ==
          IF k = 0 THEN [at |-> 0, out |-> <<>>]
          ELSE With(after[k - 1], LAMBDA s : Turn(in, outLen, s))
    IN  after[Len(in)].out

-----------------------------------------------------------------------------
(* Compress. *)

At(i)       == input[i + 1]
Triple(i)   == SubSeq(input, i + 1, i + 3)
InBounds(i) == i \in 0..(Len(input) - 1)

(* Writes <<index, byte>>; one outside of the slice panics. *)
Put(writes, pc) ==
    IF \E w \in writes : ~InBounds(w[1])
    THEN lzfPc' = "panic" /\ output' = output
    ELSE /\ lzfPc' = pc
         /\ output' = [ k \in DOMAIN output |->
                          IF \E w \in writes : w[1] = k - 1
                          THEN (CHOOSE w \in writes : w[1] = k - 1)[2] ELSE output[k] ]

(* The length of a run of n bytes, in front of it. *)
StopRun(o, n) == <<o - n - 1, (n - 1) % byteMod>>

LzfInit(in) ==
    /\ input = in
    /\ output = [ i \in DOMAIN in |-> 0 ]
    /\ inputIndex = 0
    /\ outputIndex = 1
    /\ lit = 0
    /\ htab = {}
    /\ \/ Len(in) = 0 /\ lzfPc = "idle"
       \/ Len(in) = 1 /\ lzfPc = "panic"           \* there is no second byte to read
       \/ Len(in) > 1 /\ lzfPc = "loop"

InLoop == lzfPc = "loop" /\ inputIndex < Len(input) - 2

(* The positions the slot of the next triple may hold that make a match. *)
Refs ==
    LET same == {r \in htab : Triple(r) = Triple(inputIndex)}
    IN  {r \in same : /\ \A q \in same : q <= r
                      /\ r > 0
                      /\ inputIndex - r - 1 < maxOff}

(* How far the match goes on: the length in bytes. *)
MatchLength(ref) ==
    LET rest   == Len(input) - inputIndex - 2
        maxLen == IF rest > maxRef THEN maxRef ELSE rest
        Stops(n) == n >= maxLen \/ At(ref + n) # At(inputIndex + n)
    IN  CHOOSE n \in 3..Len(input) : Stops(n) /\ \A k \in 3..(n-1) : ~Stops(k)

(* Wrong variants: the test leaves room for a reference of two bytes, not  *)
(* three; the long length is not counted from where the short ones end.    *)
RefusesMatch_late == outputIndex - (IF lit = 0 THEN 1 ELSE 0) + 1 >= Len(output)
LongByte_full(n)  == n % byteMod

(* The exact test: the bytes of the longest reference and a run header. *)
RefusesMatch == outputIndex - (IF lit = 0 THEN 1 ELSE 0) + 3 + 1 >= Len(output)

LongByte(n) == (n - longLen) % byteMod

Refused == lzfPc' = "error" /\ UNCHANGED <<output, inputIndex, outputIndex, lit, htab>>

Match(ref) ==
    LET n    == MatchLength(ref) - 2            \* #octets - 2
        off  == inputIndex - ref - 1
        o    == IF lit = 0 THEN outputIndex - 1 ELSE outputIndex    \* undo an empty run
        long == n >= longLen
        head == (off \div byteMod) + maxLit * (IF long THEN longLen ELSE n)
        o2   == IF long THEN o + 2 ELSE o + 1
        next == inputIndex + n + 2
    IN  IF RefusesMatch THEN Refused
        ELSE /\ Put((IF lit = 0 THEN {} ELSE {StopRun(outputIndex, lit)})
                      \cup {<<o, head>>, <<o2, off % byteMod>>}
                      \cup (IF long THEN {<<o + 1, LongByte(n)>>} ELSE {}), "loop")
             /\ outputIndex' = o2 + 2
             /\ lit' = 0
             /\ inputIndex' = next
             /\ htab' = htab \cup {inputIndex}
                  \cup (IF next >= Len(input) - 2 THEN {} ELSE {next - 2, next - 1})

(* The bytes of a literal, and the header of the run it fills. *)
LiteralWrites(o, i, n) ==
    {<<o, At(i)>>} \cup (IF n + 1 = maxLit THEN {StopRun(o + 1, n + 1)} ELSE {})

(* One more byte of the input becomes a literal. *)
CopyLiteral ==
    LET full == lit + 1 = maxLit IN
    /\ Put(LiteralWrites(outputIndex, inputIndex, lit), lzfPc)
    /\ lit' = IF full THEN 0 ELSE lit + 1
    /\ outputIndex' = outputIndex + (IF full THEN 2 ELSE 1)
    /\ inputIndex' = inputIndex + 1

Literal == IF outputIndex >= Len(output) THEN Refused
           ELSE CopyLiteral /\ htab' = htab \cup {inputIndex}

Loop ==
    /\ InLoop
    /\ (\E ref \in Refs : Match(ref)) \/ Literal
    /\ UNCHANGED input

(* Behind the loop: room for the last bytes, these bytes, the last run. *)
Test ==
    /\ lzfPc = "loop" /\ ~InLoop
    /\ lzfPc' = IF outputIndex + 3 >= Len(output) THEN "error" ELSE "tail"
    /\ UNCHANGED <<input, output, inputIndex, outputIndex, lit, htab>>

RestBytes ==
    /\ lzfPc = "tail" /\ inputIndex < Len(input)
    /\ CopyLiteral
    /\ UNCHANGED <<input, htab>>

EndRun ==
    /\ lzfPc = "tail" /\ inputIndex >= Len(input)
    /\ Put({StopRun(outputIndex, lit)}, "done")
    /\ outputIndex' = IF lit = 0 THEN outputIndex - 1 ELSE outputIndex
    /\ UNCHANGED <<input, inputIndex, lit, htab>>

LzfNext == Loop \/ Test \/ RestBytes \/ EndRun

(* Compress on any string but those of one byte: writeString compresses    *)
(* none of 20 bytes or less.                                               *)
LzfSpec == /\ \E in \in Seq(0..(byteMod - 1)) : Len(in) # 1 /\ LzfInit(in)
           /\ [][LzfNext]_lzfVars

Compressed == SubSeq(output, 1, outputIndex)

-----------------------------------------------------------------------------
(* Properties. *)

(* What Compress returns is what Decompress turns into the input again,    *)
(* with the length of the input as the announced length (writeLZFString,   *)
(* readLZF), whatever matches the hash table gives or hides.               *)
LzfRoundTrip == lzfPc = "done" => Decompress(Compressed, Len(input)) = input

(* Compress never writes outside of its output, which is as long as the    *)
(* input: its tests of the room left are enough, and what it returns is    *)
(* shorter than the input.                                                 *)
LzfInBounds == /\ lzfPc # "panic"
               /\ lzfPc = "done" => outputIndex < Len(input)
=============================================================================
