---------------------------- MODULE MCEasyConnection ----------------------------
(* A head, and bodies that look like the end and the beginning of a package. *)
EXTENDS EasyConnection

MCPeer == <<[format |-> 1, head |-> <<9>>, body |-> <<3, 2>>],
            [format |-> 0, head |-> <<>>, body |-> <<3>>]>>

ASSUME MCPeerFits == PeerFits
=============================================================================
