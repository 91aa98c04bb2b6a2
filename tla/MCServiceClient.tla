---------------------------- MODULE MCServiceClient ----------------------------
(* Instances of ServiceClient for TLC. *)
EXTENDS ServiceClient

CONSTANTS n1, n2

OneList == {<<n1, n2>>}

Equal == [n \in Nodes |-> 1]
=============================================================================
