------------------------------- MODULE MCPump -------------------------------
(* A sequenced bridge beside one without numbers.                          *)
EXTENDS HookPump

TwoSenders == <<[source |-> "opencode", sequenced |-> TRUE],
                [source |-> "claude", sequenced |-> FALSE]>>
=============================================================================
