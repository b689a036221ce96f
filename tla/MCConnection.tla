---------------------------- MODULE MCConnection ----------------------------
(* Settings operations against the recovery thread. *)
EXTENDS MobileConnection

\* Both routes on, the interface never selected or the first one selected.
Both(a) == [preferences |-> [enabled |-> TRUE, lan |-> TRUE, relay |-> TRUE,
                             address |-> a, port |-> 0],
            relay |-> 1, lan |-> IF a = None THEN None ELSE 1]
Either == {Both(None), Both(1)}
=============================================================================
