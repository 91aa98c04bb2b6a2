------------------------------ MODULE ServiceNode ------------------------------
(***************************************************************************)
(* The Node objects of a client: its sessions count on Node.Active, which  *)
(* its balancer compares.                                                  *)
(***************************************************************************)
CONSTANTS
    Nodes,  \* Node objects
    None    \* no node and nobody

VARIABLE
    active  \* active[n]: Node.Active
=============================================================================
