------------------------------ MODULE MCRelay ------------------------------
(* One room.  The third generation reconnects into a link that is being     *)
(* torn down; queues of two hold the two notices and nothing else, so every *)
(* way of finding a queue full is reached.                                  *)
EXTENDS RelayRegistry

CONSTANT room1
=============================================================================
