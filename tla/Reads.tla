------------------------------- MODULE Reads -------------------------------
(***************************************************************************)
(* A read from a position of an input, and how reads follow one another.   *)
(* A read is a record: how it ended, the position it ended at, the value.  *)
(* The input is what the operator passed as Read closes over: the tokens   *)
(* of RdbDecoder, the bytes of Words.                                      *)
(***************************************************************************)
LOCAL INSTANCE Integers
LOCAL INSTANCE Sequences

Done(p, v) == [st |-> "ok", pos |-> p, val |-> v]
Fail(p, e) == [st |-> e, pos |-> p, val |-> <<>>]       \* "error" or "misread"

(* F(v), written so that TLC evaluates v once. *)
With(v, F(_)) == CHOOSE y \in {F(x) : x \in {v}} : TRUE

(* Read on from a read that succeeded; or change what it gave. *)
Then(r, Read(_)) == CHOOSE y \in {IF x.st = "ok" THEN Read(x) ELSE x : x \in {r}} : TRUE
As(r, Value(_))  == CHOOSE y \in {IF x.st = "ok" THEN Done(x.pos, Value(x.val)) ELSE x :
                                    x \in {r}} : TRUE

(* n elements, one after the other. *)
readN(p, n, Read(_)) ==
    LET upTo[i \in 0..n] ==
          IF i = 0 THEN Done(p, <<>>)
          ELSE Then(upTo[i-1],
                    LAMBDA l : As(Read(l.pos), LAMBDA v : Append(l.val, v)))
    IN  upTo[n]

(* Read, then Read2, giving the pair of their values. *)
readPair(p, Read(_), Read2(_)) ==
    Then(Read(p), LAMBDA a : As(Read2(a.pos), LAMBDA b : <<a.val, b>>))
=============================================================================
