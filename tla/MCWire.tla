-------------------------------- MODULE MCWire --------------------------------
(* An instance of Wire for TLC. *)
EXTENDS Wire, TLC

CONSTANTS empty, short, long

\* A message without a body, one of the largest size, and one over the limit.
MCSize == empty :> 0 @@ short :> 2 @@ long :> 3
=============================================================================
