----------------------------- MODULE MCStreams -----------------------------
(***************************************************************************)
(* Streams alone, with two streams that may answer up to one event each.   *)
(***************************************************************************)
EXTENDS Streams

OneEvent == [f \in Flows |-> 1]
=============================================================================
