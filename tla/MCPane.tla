------------------------------- MODULE MCPane -------------------------------
(* Instances of AgentPane: which providers share the pane.                 *)
EXTENDS AgentPane

Claude == [source |-> "claude", codex |-> "none", remote |-> FALSE,
           sequenced |-> FALSE, timed |-> FALSE, fifo |-> TRUE, named |-> TRUE,
           notify |-> FALSE]
Nameless == [Claude EXCEPT !.named = FALSE]
Codex == [Claude EXCEPT !.source = "codex", !.codex = "Full",
                       !.notify = TRUE]
Pi == [Claude EXCEPT !.source = "pi", !.sequenced = TRUE, !.timed = TRUE, !.fifo = FALSE]
RemoteClaude == [Claude EXCEPT !.remote = TRUE]

\* Two commands, the second agent spawned by none and the third by either.
Nesting == [provider |-> <<Claude, Claude, Nameless>>, nested |-> {3},
            faults |-> {}, emits |-> 2, sessions |-> 1]
\* A numbered bridge whose events race, with samples of the screen in between.
Numbering == [provider |-> <<Pi>>, nested |-> {},
              faults |-> {"repeat", "blank", "submit", "enter"}, emits |-> 3, sessions |-> 1]
\* Native hooks beside the notify program.
Notifying == [provider |-> <<Codex>>, nested |-> {},
              faults |-> {"lose", "repeat"}, emits |-> 4, sessions |-> 2]
\* One after the other, so that a report may come in the command after its own.
Outliving == [Notifying EXCEPT !.provider = <<Codex, Codex>>, !.faults = {},
                               !.emits = 3, !.sessions = 1]
\* Turns of one agent, to the end.
Turning == [provider |-> <<Claude>>, nested |-> {},
            faults |-> {"refuse", "submit"}, emits |-> 5, sessions |-> 1]
\* An agent behind ssh whose events all arrive, late or not.
Waiting == [provider |-> <<RemoteClaude>>, nested |-> {},
            faults |-> {"blank", "submit"}, emits |-> 5, sessions |-> 1]
\* An agent behind ssh, its bridge losing events.
Losing == [provider |-> <<RemoteClaude>>, nested |-> {},
           faults |-> {"lose", "submit"}, emits |-> 4, sessions |-> 1]

Local == {Nesting, Numbering, Notifying, Outliving, Turning, Waiting}
Remotely == {Losing}
=============================================================================
