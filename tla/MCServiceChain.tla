--------------------------- MODULE MCServiceChain ---------------------------
(* A small instance of ServiceChain for TLC: the chain of type 1 is extended by
   type 2 and then by a port. *)
EXTENDS ServiceChain

MCAdditions == <<[act |-> TONF, dst |-> 2], [act |-> OUT, dst |-> 0]>>
=============================================================================
