------------------------------- MODULE MCHost -------------------------------
(* Two LAN phones and one relay phone against one desktop. *)
EXTENDS HostPairing

CONSTANTS lan, relay, c1, c2, c3

MCRouteOf == [h \in Handles |-> IF h = lan THEN "lan" ELSE "relay"]
MCHandleOf == [c \in Connections |-> IF c = c3 THEN relay ELSE lan]
=============================================================================
