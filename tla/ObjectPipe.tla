------------------------------ MODULE ObjectPipe ------------------------------
(***************************************************************************)
(* What an RDB file, and every pipeline behind a Decoder, promises: it is  *)
(* a queue.  Objects come out complete, in the order they went in, none    *)
(* twice and none that never went in.                                      *)
(***************************************************************************)
EXTENDS Naturals, Sequences

VARIABLES sent, received

Init == sent = <<>> /\ received = <<>>

(* Any object joins the queue. *)
Send == /\ Len(sent') = Len(sent) + 1
        /\ SubSeq(sent', 1, Len(sent)) = sent
        /\ UNCHANGED received

Receive == /\ Len(received) < Len(sent)
           /\ received' = Append(received, sent[Len(received) + 1])
           /\ UNCHANGED sent

Next == Send \/ Receive

Spec == Init /\ [][Next]_<<sent, received>>
=============================================================================
