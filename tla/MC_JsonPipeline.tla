--------------------------- MODULE MC_JsonPipeline ---------------------------
(* ToJsons on a few objects, with one or two marshallers. *)
EXTENDS JsonPipeline
CONSTANTS w1, w2

MCWorkerSets == { {w1}, {w1, w2} }
MCOneWorker  == { {w1} }
MCInput      == <<"a", "inf", "b", "c">>
MCSingle     == <<"a">>
=============================================================================
