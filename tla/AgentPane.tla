------------------------------ MODULE AgentPane ------------------------------
(***************************************************************************)
(* One terminal pane and the agents that run in it: the routing of hook    *)
(* events (gpui_shell/terminal/view/agent_activity.rs, handle_ai_hook),    *)
(* the shell's command boundaries (view/runtime.rs), and the polling of    *)
(* the screen (refresh_agent_screen_state), over AgentActivity and         *)
(* HookGate.                                                               *)
(*                                                                         *)
(* Command k of the shell runs the agent CLI k; a CLI of Nested is spawned *)
(* by the one in the foreground.  CLIs and channels are the environment:   *)
(* an agent's phase is what its screen shows.  Lane 0 is the terminal's    *)
(* byte stream, with the OSC 133 marks of the shell and the events of      *)
(* remote agents, in order; lane c holds the events of the local CLI c,    *)
(* each sent by a hook process of its own.                                 *)
(*                                                                         *)
(* lossy, spoke, heard and announced are history: the CLIs whose events    *)
(* were lost or refused, or came across a command boundary or while        *)
(* another one owned the pane; the CLIs whose events were applied since    *)
(* the last boundary; the sequence numbers applied per CLI; the turns      *)
(* whose end was notified.                                                 *)
(***************************************************************************)
EXTENDS AgentActivity

CONSTANTS
    Setups,      \* the panes looked at, see Setup
    MaxClis      \* bound: CLIs of one pane

\* What a provider's bridge is like: the hooks codex runs, where it runs, which
\* fields it fills in, and whether its events keep their order.
Providers ==
    [source : Sources, codex : CodexHookMode, remote : BOOLEAN, sequenced : BOOLEAN,
     timed : BOOLEAN, fifo : BOOLEAN, named : BOOLEAN, notify : BOOLEAN]

\* The notify program belongs to codex, here beside local native hooks.
NotifyBeside(p) ==
    /\ p.source = "codex" /\ p.codex # "none" /\ p.named
    /\ ~p.remote /\ ~p.sequenced /\ p.fifo

\* A pane to look at: per CLI its provider, the CLIs spawned by the one in the
\* foreground, what may go wrong or be typed, and bounds on the events and the
\* conversations of one CLI.
Setup(s) ==
    /\ s.provider \in Seq(Providers) /\ Len(s.provider) \in 1..MaxClis
    /\ \A c \in DOMAIN s.provider : s.provider[c].notify => NotifyBeside(s.provider[c])
    /\ s.nested \subseteq DOMAIN s.provider
    /\ s.faults \subseteq {"lose", "repeat", "refuse", "blank", "submit", "enter"}
    /\ s.emits \in Nat /\ s.sessions \in Nat

ASSUME PaneConstants ==
    /\ MaxClis \in Nat
    /\ IsFiniteSet(Setups) /\ \A s \in Setups : Setup(s)

VARIABLES
    setup,    \* the pane looked at; it does not change
    act,      \* TerminalView.agent_activity
    streams,  \* EVENT_GATE
    job,      \* the command in the foreground, or None
    last,     \* the last command started
    cli,      \* per CLI: phase, session, turn, sent
    lane,     \* what is on its way
    typed,    \* a submission the agent has not taken yet
    lossy, spoke, heard, announced

vars == <<setup, act, streams, job, last, cli, lane, typed, lossy, spoke, heard, announced>>

Provider == setup.provider
Clis == DOMAIN Provider
Nested == setup.nested
Faults == setup.faults
Phase == {"off", "up", "idle", "working", "blocked"}

Init ==
    /\ setup \in Setups
    /\ act = Default
    /\ streams = <<>>
    /\ job = None
    /\ last = 0
    /\ cli = [c \in Clis |-> [phase |-> "off", session |-> 0, turn |-> 0, sent |-> 0]]
    /\ lane = [l \in Clis \union {0} |-> <<>>]
    /\ typed = FALSE
    /\ lossy = {}
    /\ spoke = {}
    /\ heard = [c \in Clis |-> <<>>]
    /\ announced = <<>>

-----------------------------------------------------------------------------
(* The agents and the shell.                                               *)

LaneOf(c) == IF Provider[c].remote THEN 0 ELSE c
Sequenced(c) == Provider[c].remote \/ Provider[c].sequenced

\* The event a CLI sends, as the parser delivers it.
Event(c, kind, mark) ==
    LET p == Provider[c]
        n == cli[c].sent + 1
        session == cli[c].session + IF mark = "new" THEN 1 ELSE 0
        turn == cli[c].turn + IF kind = "PromptSubmit" THEN 1 ELSE 0
    IN  [kind |-> kind, source |-> p.source, codex |-> p.codex, from |-> c,
         session |-> IF p.named THEN 10 * c + session ELSE None,
         pid |-> IF p.remote THEN None ELSE c,
         process |-> IF p.remote THEN c ELSE None,
         instance |-> IF p.source = "pi" THEN c ELSE None,
         seq |-> IF Sequenced(c) THEN n ELSE None,
         at |-> IF p.timed THEN n ELSE None,
         id |-> IF p.codex # "none" /\ kind = "TurnDone" THEN 10 * c + turn ELSE None,
         turn |-> IF p.codex # "none" THEN 10 * c + turn ELSE None,
         busy |-> mark = "busy", compacted |-> mark = "compact",
         legacy |-> mark = "legacy", body |-> IF kind = "TurnDone" THEN turn ELSE 0,
         outcome |-> IF mark = "failed" THEN "Failed" ELSE "Succeeded",
         received |-> None]

\* A report is sent once, or lost, or delivered twice.
Copies == {1} \union (IF "lose" \in Faults THEN {0} ELSE {})
              \union (IF "repeat" \in Faults THEN {2} ELSE {})

\* codex starts its legacy notify program beside the native hooks, and does not wait
\* for it; n is how often its report is delivered.
Notify(c, kind, mark, n) ==
    IF Provider[c].notify /\ kind = "TurnDone"
    THEN [i \in 1..n |-> [Event(c, kind, mark) EXCEPT !.codex = "none"]] ELSE <<>>

Send(c, kind, mark, phase) ==
    /\ cli[c].sent < setup.emits
    /\ cli' = [cli EXCEPT ![c] =
                [phase |-> phase, sent |-> @.sent + 1,
                 session |-> @.session + IF mark = "new" THEN 1 ELSE 0,
                 turn |-> @.turn + IF kind = "PromptSubmit" THEN 1 ELSE 0]]
    /\ \E n, m \in Copies :
        /\ lane' = [lane EXCEPT ![LaneOf(c)] =
                        @ \o [i \in 1..n |-> Event(c, kind, mark)]
                          \o Notify(c, kind, mark, m)]
        /\ lossy' = IF n = 0 THEN lossy \union {c} ELSE lossy
    /\ typed' = (typed /\ ~(c = job /\ kind = "PromptSubmit"))
    /\ UNCHANGED <<act, streams, job, last, spoke, heard, announced>>

Mark(kind) == [kind |-> kind, from |-> None]

\* The shell starts the next command; OSC 133;C goes out.
Launch ==
    /\ job = None
    /\ last + 1 \in Clis \ Nested
    /\ last' = last + 1
    /\ job' = last + 1
    /\ cli' = [cli EXCEPT ![last + 1].phase = "up"]
    /\ lane' = [lane EXCEPT ![0] = Append(@, Mark("CommandStart"))]
    /\ UNCHANGED <<act, streams, typed, lossy, spoke, heard, announced>>

\* The agent in the foreground runs another one.
SpawnNested(c) ==
    /\ c \in Nested /\ cli[c].phase = "off" /\ cli[c].sent = 0
    /\ job # None /\ cli[job].phase = "working"
    /\ cli' = [cli EXCEPT ![c].phase = "up"]
    /\ UNCHANGED <<act, streams, job, last, lane, typed, lossy, spoke, heard, announced>>

StartSession(c) ==
    /\ cli[c].session < setup.sessions
    /\ cli[c].phase \in {"up", "idle"}
    /\ Send(c, "SessionStart", "new", "idle")

Compact(c) ==
    /\ cli[c].phase = "working" /\ Provider[c].source = "claude"
    /\ Send(c, "SessionStart", "compact", "working")

TakePrompt(c) ==
    cli[c].phase = "idle" /\ Send(c, "PromptSubmit", "plain", "working")

RunTool(c) ==
    cli[c].phase \in {"working", "blocked"} /\ Send(c, "ToolComplete", "plain", "working")

\* A bridge that knows attention reports it; another only shows it on the screen.
Reports(c) == CoverageOf([source |-> Provider[c].source, codex |-> Provider[c].codex])
                = "Lifecycle"

Ask(c) ==
    /\ cli[c].phase = "working"
    /\ Reports(c)
    /\ Send(c, "NeedsAttention", "plain", "blocked")

AskSilently(c) ==
    /\ ~Reports(c)
    /\ cli[c].phase \in {"working", "blocked"}
    /\ cli' = [cli EXCEPT ![c].phase = IF @ = "working" THEN "blocked" ELSE "working"]
    /\ UNCHANGED <<act, streams, job, last, lane, typed, lossy, spoke, heard, announced>>

\* An older claude reminds of an idle prompt with an untyped notification.
Remind(c) ==
    /\ cli[c].phase = "idle" /\ Provider[c].source = "claude"
    /\ Send(c, "NeedsAttention", "legacy", "idle")

StopTurn(c) ==
    /\ cli[c].phase \in {"working", "blocked"}
    /\ \/ Send(c, "TurnDone", "plain", "idle")
       \/ Send(c, "TurnDone", "failed", "idle")
       \/ Provider[c].source = "claude" /\ Send(c, "TurnDone", "busy", "working")

EndSession(c) ==
    /\ cli[c].phase = "idle"
    /\ Send(c, "SessionEnd", "plain", "off")

\* The agent in the foreground exits, with the agents it spawned; OSC 133;D.
Exit ==
    /\ job # None
    /\ job' = None
    /\ cli' = [c \in Clis |-> IF c = job \/ c \in Nested
                              THEN [cli[c] EXCEPT !.phase = "off"] ELSE cli[c]]
    /\ lane' = [lane EXCEPT ![0] = Append(@, Mark("CommandFinished"))]
    /\ typed' = FALSE
    /\ UNCHANGED <<act, streams, last, lossy, spoke, heard, announced>>

-----------------------------------------------------------------------------
(* The pane.                                                               *)

\* on_command_start: a late mark does not replace an agent a hook identified.
OnCommandStart ==
    /\ act' = IF HookSeen(act) THEN act ELSE BeginCommand(act, TRUE)
    /\ spoke' = IF HookSeen(act) THEN spoke ELSE {}
    /\ UNCHANGED <<streams, lossy, heard, announced>>

\* clear_foreground_agent_state at the end of a command.
OnCommandFinished ==
    /\ act' = CommandFinished(act)
    /\ spoke' = {}
    /\ UNCHANGED <<streams, lossy, heard, announced>>

\* received_sequence: later than everything the gate has recorded.
Received(e) ==
    [e EXCEPT !.received =
        1 + Max({0} \union {streams[k].received : k \in DOMAIN streams})]

\* handle_ai_hook: ownership, then the gate, then the status.
HandleAiHook(event) ==
    LET e == Received(event)
        owned == AcceptsHook(act, e)
        applied == owned /\ GateVerdict(streams, e) = "Accepted"
    IN  /\ streams' = IF owned THEN GateAfter(streams, e) ELSE streams
        /\ act' = IF applied THEN ApplyHook(act, e) ELSE act
        /\ spoke' = IF ~applied THEN spoke
                    ELSE IF e.kind = "SessionEnd" THEN {} ELSE spoke \union {e.from}
        /\ heard' = IF applied /\ e.seq # None
                    THEN [heard EXCEPT ![e.from] = Append(@, e.seq)] ELSE heard
        /\ announced' = IF applied /\ e.kind = "TurnDone" /\ ~e.busy
                        THEN Append(announced, <<e.from, e.body>>) ELSE announced
        /\ lossy' = IF \/ lane[0] # <<>> /\ ~Provider[e.from].remote
                       \/ act.owner # NoOwner
                          /\ e.from \notin {act.owner.pid, act.owner.process}
                    THEN lossy \union {e.from} ELSE lossy

\* The event came from a process outside the shell's tree, or the pane is being
\* restored and awaits another conversation: handle_ai_hook drops it.
Refuse(event) ==
    /\ "refuse" \in Faults
    /\ lossy' = lossy \union {event.from}
    /\ UNCHANGED <<act, streams, spoke, heard, announced>>

\* The second event on a lane may arrive before the first: hook processes race, or
\* the notify program is late, or it wins over the native report of the same end.
Overtakes(l, e, f) ==
    /\ l # 0
    /\ \/ ~Provider[l].fifo
       \/ /\ Provider[l].notify
          /\ e.codex = "none" \/ (f.codex = "none" /\ Same(f.id, e.id))

\* The next element of a lane, or one that overtakes all before it.
Arrive(l, i) ==
    /\ i \in DOMAIN lane[l]
    /\ \A j \in 1..i - 1 : Overtakes(l, lane[l][j], lane[l][i])
    /\ lane' = [lane EXCEPT ![l] = RemoveAt(@, i)]
    /\ LET e == lane[l][i]
       IN  CASE e.kind = "CommandStart" -> OnCommandStart
             [] e.kind = "CommandFinished" -> OnCommandFinished
             [] OTHER -> HandleAiHook(e) \/ Refuse(e)
    /\ UNCHANGED <<job, last, cli, typed>>

\* The runtime API, or an accepted confirmation, sends the agent a prompt.
Submit ==
    /\ "submit" \in Faults /\ ~typed
    /\ job # None /\ cli[job].phase \in {"idle", "blocked"}
    /\ act' = Submitted(act)
    /\ typed' = TRUE
    /\ UNCHANGED <<streams, job, last, cli, lane, lossy, spoke, heard, announced>>

\* Enter alone: it may dismiss a menu.
PressEnter ==
    /\ "enter" \in Faults /\ job # None
    /\ act' = InputSent(act)
    /\ UNCHANGED <<streams, job, last, cli, lane, typed, lossy, spoke, heard, announced>>

Remote == \A c \in Clis : Provider[c].remote

\* What detect reads off the screen of the foreground agent.
Shown == CASE cli[job].phase = "idle"    -> "Idle"
           [] cli[job].phase = "working" -> "Working"
           [] cli[job].phase = "blocked" -> "Blocked"
           [] OTHER -> "none"

\* One poll.  The screen is read where hooks lack full authority, or to reconcile
\* a remote turn; "unnamed" is a screen of no known program.
Polled(a, shown) ==
    IF ~AllowsScreen(a) /\ ~(Remote /\ HookSeen(a)) THEN a
    ELSE IF shown = "unnamed" THEN NoSamples(a)
    ELSE IF AllowsScreen(a) THEN ObserveScreen(a, shown)
    ELSE ReconcileStalledTurn(a, shown)

\* running_program is not modelled: the screen may be the first to name it.
RefreshScreen ==
    /\ job # None /\ cli[job].phase # "off"
    /\ \E a \in {act, Identify(act, "Screen")} : act' = Polled(a, Shown)
    /\ UNCHANGED <<streams, job, last, cli, lane, typed, lossy, spoke, heard, announced>>

\* The process with the id is there: an agent in the foreground until its command
\* ends, one it spawned until it is off.
Alive(pid) == pid = job \/ (pid \in Nested /\ cli[pid].phase # "off")

\* The command the pane knows of is over although no mark has said so: the shell's
\* prompt is back on the grid, or the owner is gone from the process tree.
FinishUnmarked ==
    /\ ~act.ended /\ act # Default
    /\ job = None \/ (act.owner.pid # None /\ ~Alive(act.owner.pid))
    /\ act' = CommandFinished(act)
    /\ spoke' = {}
    /\ UNCHANGED <<streams, job, last, cli, lane, typed, lossy, heard, announced>>

\* A layout no rule matches, or a screen of no known program.
RefreshBlank ==
    /\ "blank" \in Faults /\ job # None
    /\ act' \in {Polled(act, "none"), Polled(act, "unnamed")}
    /\ UNCHANGED <<streams, job, last, cli, lane, typed, lossy, spoke, heard, announced>>

\* REMOTE_TURN_STALL passes, and with it the duplicate window.
Stall ==
    /\ ~act.quiet
    /\ act' = [act EXCEPT !.quiet = TRUE]
    /\ streams' = Forgotten(streams)
    /\ UNCHANGED <<job, last, cli, lane, typed, lossy, spoke, heard, announced>>

\* Only the duplicate window passes.
ForgetPrints ==
    /\ streams' = Forgotten(streams)
    /\ streams' # streams
    /\ UNCHANGED <<act, job, last, cli, lane, typed, lossy, spoke, heard, announced>>

Agent(c) ==
    \/ SpawnNested(c) \/ StartSession(c) \/ Compact(c) \/ TakePrompt(c)
    \/ RunTool(c) \/ Ask(c) \/ AskSilently(c) \/ Remind(c) \/ StopTurn(c)
    \/ EndSession(c)

Next ==
    /\ \/ Launch \/ Exit
       \/ \E c \in Clis : Agent(c)
       \/ \E l \in DOMAIN lane : \E i \in DOMAIN lane[l] : Arrive(l, i)
       \/ Submit \/ PressEnter \/ RefreshScreen \/ RefreshBlank \/ FinishUnmarked
       \/ Stall \/ ForgetPrints
    /\ UNCHANGED setup

Spec == Init /\ [][Next]_vars

\* The pump drains what arrives, the poll timer keeps running, and time passes;
\* agents, users and shells owe nothing.
Drain(l) == Arrive(l, 1) /\ UNCHANGED setup
Poll == RefreshScreen /\ UNCHANGED setup
Pause == Stall /\ UNCHANGED setup

Fairness ==
    /\ WF_vars(\E l \in DOMAIN lane : Drain(l))
    /\ WF_vars(Poll)
    /\ WF_vars(Pause)

LiveSpec == Spec /\ Fairness

-----------------------------------------------------------------------------
(* Properties.                                                             *)

\* The status, its source and coverage, the sample counters and the lifecycles keep
\* their types, and the gate never tracks more than MaxStreams streams or remembers
\* more than MaxIds ids of one (lifecycle.rs, ordering.rs).
TypeOK ==
    /\ setup \in Setups
    /\ act.status \in Status /\ act.source \in StatusSource
    /\ act.coverage \in Coverage
    /\ act.idle \in 0..2 /\ act.working \in 0..2 /\ act.unmatched \in 0..1
    /\ act.fallback \in StatusSource \union {"none"}
    /\ Cardinality(DOMAIN streams) <= MaxStreams
    /\ \A k \in DOMAIN streams :
        streams[k].life \in Lifecycle /\ Len(streams[k].ids) <= MaxIds
    /\ job \in Clis \union {None}
    /\ \A c \in Clis : cli[c].phase \in Phase

\* Between two command boundaries one agent process has authority over the pane:
\* once an event of it was applied, no event of an agent it spawned, nor of a CLI
\* of an earlier command, is, whatever session ids they carry
\* (lifecycle.rs, accepts_hook and record_owner).
OneAgentSpeaks == Cardinality(spoke) <= 1

\* An event stamped by our bridge is applied at most once and never after a later
\* one of the same process, across sessions, command boundaries and repeated
\* deliveries (ordering.rs StaleSequence; lifecycle.rs last_remote_sequence).
SequenceAdvances ==
    \A c \in Clis : \A i \in 2..Len(heard[c]) : heard[c][i - 1] < heard[c][i]

\* The end of a turn is notified once, although the native hook and the legacy notify
\* program of codex both report it: each report may be lost or delivered twice, and
\* the one of the program may win the race, or arrive in a later turn, conversation
\* or command (lifecycle.rs native_codex and the replay rule; ordering.rs event ids).
CompletionOnce == IsInjective(announced)

\* What the phase of an agent allows its pane to show.
Agreeing(c) ==
    CASE cli[c].phase = "idle" -> {"Idle", "Done"}
      [] cli[c].phase = "working" -> IF Reports(c) THEN {"Working"} ELSE {"Working", "Blocked"}
      [] cli[c].phase = "blocked" -> IF Reports(c) THEN {"Blocked"} ELSE {"Working", "Blocked"}
      [] OTHER -> Status

\* Once everything the owner of the pane sent has arrived, none of it lost or refused,
\* and no submission is under way, the pane shows what the agent does: neither a
\* screen sample, an idle reminder, a compaction, a repeated completion nor, for a
\* remote agent, the inference of a stalled turn leaves another status behind
\* (lifecycle.rs, apply_hook, observe_screen and reconcile_stalled_turn).
StatusAgrees ==
    \A c \in Clis :
        /\ c = job /\ c \notin lossy /\ ~typed
        /\ lane[0] = <<>> /\ lane[LaneOf(c)] = <<>>
        /\ c \in {act.owner.pid, act.owner.process}
        => act.status \in Agreeing(c)

\* For ever in a phase, the submission barrier down unless a hook was seen.
Stays(phase) ==
    /\ job # None
    /\ cli[IF job = None THEN 1 ELSE job].phase = phase
    /\ HookSeen(act) \/ ~act.pending

\* A remote agent that stays idle is not shown as busy for ever, and one that stays
\* at work is shown as working, whatever hook events the bridge lost
\* (lifecycle.rs, reconcile_stalled_turn).
Converges ==
    /\ <>[]Stays("idle") => <>[](act.status \in {"Idle", "Done"})
    /\ <>[]Stays("working") => <>[](act.status = "Working")
=============================================================================
