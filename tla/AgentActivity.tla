---------------------------- MODULE AgentActivity ----------------------------
(***************************************************************************)
(* The arbitration of one pane's agent status (ai_hook/lifecycle.rs): the  *)
(* fields of AgentActivity as a record, and each of its methods as an      *)
(* operator from a record to a record.  Hook events are facts; screen      *)
(* matches are observations with limited authority.                        *)
(*                                                                         *)
(* Left out: rule, the text of the rule that matched.  quiet stands for    *)
(* last_activity_at: TRUE when there is none, or it is REMOTE_TURN_STALL   *)
(* old.  A detection is a status, or "none" for an unmatched screen.       *)
(***************************************************************************)
EXTENDS HookGate

Status == {"Unknown", "Idle", "Working", "Blocked", "Done"}
StatusSource == {"Unknown", "Process", "Hook", "Screen"}
Coverage == {"None", "Completion", "Turns", "Lifecycle"}
CodexHookMode == {"none", "Turns", "Full"}   \* "none" where there is no mode

NoOwner == [source |-> "none", session |-> None, pid |-> None,
            process |-> None, instance |-> None]

Default ==
    [status |-> "Unknown", source |-> "Unknown", coverage |-> "None",
     owner |-> NoOwner, idle |-> 0, working |-> 0, unmatched |-> 0,
     fallback |-> "none", turnObserved |-> FALSE, pending |-> FALSE,
     inferred |-> FALSE, armed |-> TRUE, ended |-> FALSE, native |-> FALSE,
     turn |-> None, remoteSeq |-> None, quiet |-> TRUE]

\* capabilities_for: the providers whose bridge reports attention, those that report
\* turns, and the rest, of which "other" stands for a name without a row.
LifecycleSources == {"claude", "qoder", "codebuddy", "qwen", "droid", "opencode",
                     "kimi", "copilot", "grok"}
TurnSources == {"pi", "omp", "cursor", "antigravity"}
Sources == LifecycleSources \union TurnSources \union {"codex", "other"}

\* What of the lifecycle an event's bridge reports; native codex hooks have a mode.
CoverageOf(e) ==
    CASE e.codex = "Full"  -> "Lifecycle"
      [] e.codex = "Turns" -> "Turns"
      [] e.codex = "none" /\ e.source \in LifecycleSources -> "Lifecycle"
      [] e.codex = "none" /\ e.source \in TurnSources -> "Turns"
      [] OTHER -> "Completion"

\* UNPROVEN_STOP
UnprovenStop == {"pi", "omp", "cursor", "copilot", "antigravity"}

AllowsScreen(a) == ~a.ended /\ a.coverage # "Lifecycle"
HookSeen(a) == a.coverage # "None"
NoSamples(a) == [a EXCEPT !.idle = 0, !.unmatched = 0, !.working = 0]

CommandFinished(a) == [Default EXCEPT !.ended = TRUE]

BeginCommand(a, agent) ==
    IF agent THEN [Default EXCEPT !.status = "Working", !.source = "Process"]
             ELSE Default

Identify(a, source) ==
    IF ~HookSeen(a) /\ a.status = "Unknown" THEN [a EXCEPT !.source = source] ELSE a

InputSent(a) == NoSamples([a EXCEPT !.armed = TRUE])

Submitted(a) ==
    InputSent([a EXCEPT !.status = "Working", !.source = "Process",
                        !.fallback = "none", !.turnObserved = TRUE,
                        !.pending = TRUE, !.quiet = FALSE])

-----------------------------------------------------------------------------
(* Hook events.                                                            *)

Known(x, y) == x # None /\ y # None
Same(x, y) == x # None /\ x = y

\* The turn of a native codex event is not the turn the pane is in.
OtherTurn(a, e) ==
    /\ e.codex # "none"
    /\ Known(a.turn, e.turn) /\ a.turn # e.turn
    /\ e.kind \notin {"SessionStart", "PromptSubmit"}

\* A replay of the completion that the pane already shows on authority.
Replayed(a, e) ==
    e.kind = "TurnDone" /\ a.status = "Done" /\ Same(e.turn, a.turn) /\ ~a.inferred

SameProcess(o, e) ==
    \/ Same(o.pid, e.pid)
    \/ Same(o.process, e.process)
    \/ e.source \in {"pi", "omp"} /\ Same(o.instance, e.instance)

\* Mutant: only sessions are compared.
ForeignSession(o, e) ==
    \/ o.source # e.source
    \/ /\ Known(o.session, e.session) /\ o.session # e.session
       /\ ~(SameProcess(o, e) /\ e.kind = "SessionStart")

\* The event belongs to another agent than the owner of the pane.
Foreign(o, e) ==
    \/ o.source # e.source
    \/ Known(o.process, e.process) /\ o.process # e.process
    \/ Known(o.pid, e.pid) /\ o.pid # e.pid
    \/ /\ Known(o.session, e.session) /\ o.session # e.session
       /\ ~(SameProcess(o, e) /\ e.kind = "SessionStart")

\* A number of the owner's remote bridge that was already passed.
RemoteStale(a, e) ==
    /\ Same(a.owner.process, e.process)
    /\ Known(e.seq, a.remoteSeq) /\ e.seq <= a.remoteSeq

AcceptsHook(a, e) ==
    /\ a.ended => e.kind = "SessionStart"
    /\ e.legacy => a.status \in {"Working", "Blocked"}
    /\ ~(a.native /\ e.source = "codex" /\ e.codex = "none")
    /\ ~OtherTurn(a, e)
    /\ ~Replayed(a, e)
    /\ a.owner # NoOwner => ~Foreign(a.owner, e) /\ ~RemoteStale(a, e)

Either(x, y) == IF x # None THEN x ELSE y

RecordOwner(o, e) ==
    IF o = NoOwner
    THEN [source |-> e.source, session |-> e.session, pid |-> e.pid,
          process |-> e.process, instance |-> e.instance]
    ELSE [o EXCEPT !.pid = Either(@, e.pid), !.process = Either(@, e.process),
                   !.instance = Either(@, e.instance),
                   !.session = Either(e.session, @)]

\* The status a turn's end leaves, by its outcome.
StopStatus(e) ==
    IF \/ e.outcome \in {"Failed", "Incomplete", "Cancelled"}
       \/ e.source \in UnprovenStop /\ e.outcome = "Unknown"
    THEN "Idle" ELSE "Done"

\* Mutant: activity does not clear the status before it.
StatusKept(a, e) ==
    CASE e.kind = "SessionStart" -> IF e.compacted THEN a.status ELSE "Idle"
      [] e.kind \in {"PromptSubmit", "ToolComplete"} -> a.status
      [] e.kind = "TurnDone" -> IF e.busy THEN "Working" ELSE StopStatus(e)
      [] e.kind = "NeedsAttention" -> "Blocked"

StatusAfter(a, e) ==
    CASE e.kind = "SessionStart" -> IF e.compacted THEN a.status ELSE "Idle"
      [] e.kind \in {"PromptSubmit", "ToolComplete"} -> "Working"
      [] e.kind = "TurnDone" -> IF e.busy THEN "Working" ELSE StopStatus(e)
      [] e.kind = "NeedsAttention" -> "Blocked"

\* turn_observed after an event: a start that is no compaction clears it.
ObservedAfter(a, e) ==
    \/ e.kind \in {"PromptSubmit", "ToolComplete"}
    \/ e.kind = "TurnDone" /\ e.busy
    \/ a.turnObserved /\ (e.kind = "SessionStart" => e.compacted)

\* What any applied event says of its sender and its turn.
Taken(a, e) ==
    [a EXCEPT !.owner = RecordOwner(@, e),
              !.native = @ \/ e.codex # "none",
              !.remoteSeq = IF Known(e.process, e.seq) THEN e.seq ELSE @,
              !.turn = IF e.turn # None \/ (e.kind = "SessionStart" /\ ~e.compacted)
                       THEN e.turn ELSE @,
              !.ended = FALSE,
              !.inferred = FALSE]

\* The hook takes the authority over the status.
Authoritative(a, e) ==
    NoSamples([a EXCEPT !.coverage = CoverageOf(e), !.source = "Hook", !.fallback = "none"])

ApplyHook(a, e) ==
    IF ~AcceptsHook(a, e) THEN a
    ELSE IF e.kind = "SessionEnd" THEN CommandFinished(Taken(a, e))
    ELSE [Authoritative(Taken(a, e), e) EXCEPT
            !.pending = @ /\ e.kind = "SessionStart",
            !.turnObserved = ObservedAfter(a, e),
            !.armed = @ /\ ~(e.kind = "TurnDone" /\ ~e.busy),
            !.status = StatusAfter(a, e),
            !.quiet = FALSE]

-----------------------------------------------------------------------------
(* Screen evidence.                                                        *)

\* A sample counter; two consecutive samples make evidence (saturating_add).
Counted(n) == IF n < 2 THEN n + 1 ELSE 2

\* An unmatched screen: after two of them an attention read from the screen goes.
ObserveNothing(a) ==
    LET b == [a EXCEPT !.idle = 0]
        c == [b EXCEPT !.unmatched = Counted(@)]
    IN  IF ~(a.source = "Screen" /\ a.status = "Blocked") THEN b
        ELSE IF c.unmatched < 2 THEN c
        ELSE [c EXCEPT !.unmatched = 0, !.fallback = "none",
                       !.status = IF a.fallback # "none" THEN "Working" ELSE "Unknown",
                       !.source = IF a.fallback # "none" THEN a.fallback ELSE "Unknown"]

\* The screen moves the pane to a status.
ScreenMoves(a, next) ==
    IF next = a.status THEN a
    ELSE [a EXCEPT !.fallback = IF next = "Blocked" /\ a.status = "Working"
                                THEN a.source ELSE "none",
                   !.status = next, !.source = "Screen"]

ObserveIdle(a) ==
    LET b == [a EXCEPT !.idle = IF a.pending THEN 0 ELSE Counted(@)]
        c == [b EXCEPT !.armed = TRUE]
    IN  IF b.idle < 2 THEN b
        ELSE IF a.coverage \in {"Completion", "Turns"} THEN c
        ELSE ScreenMoves(c, IF a.turnObserved THEN "Done" ELSE "Idle")

ObserveActive(a, shown) ==
    LET b == [a EXCEPT !.idle = 0] IN
    IF \/ /\ a.coverage = "Turns"
          /\ shown # "Blocked" \/ a.status \notin {"Working", "Blocked"}
       \/ ~a.armed
    THEN b
    ELSE ScreenMoves([b EXCEPT !.pending = FALSE,
                               !.turnObserved = @ \/ shown = "Working"], shown)

ObserveScreen(a, shown) ==
    IF ~AllowsScreen(a) THEN a
    ELSE IF shown = "none" THEN ObserveNothing(a)
    ELSE LET b == [a EXCEPT !.unmatched = 0]
         IN  IF shown = "Idle" THEN ObserveIdle(b) ELSE ObserveActive(b, shown)

\* The two directions of reconcile_stalled_turn.
Reconciled(a, next) ==
    IF next = a.status THEN a
    ELSE [a EXCEPT !.status = next, !.source = "Screen",
                   !.inferred = next \in {"Done", "Idle"},
                   !.idle = 0, !.working = 0]

\* Mutant: the submission barrier outlives the stall.
ReconcileBarred(a, shown) ==
    IF AllowsScreen(a) \/ ~a.quiet \/ a.pending THEN a
    ELSE Reconciled(a, IF shown = "Idle" THEN "Done" ELSE "Working")

ReconcileStalledTurn(a, shown) ==
    LET none == [a EXCEPT !.idle = 0, !.working = 0]
        idle == [a EXCEPT !.working = 0, !.idle = Counted(@)]
        busy == [a EXCEPT !.idle = 0, !.working = Counted(@)]
    IN  IF AllowsScreen(a) THEN a
        ELSE IF ~a.quiet THEN none
        ELSE IF a.pending THEN [none EXCEPT !.pending = FALSE]
        ELSE IF shown = "Idle"
             THEN IF idle.idle < 2 THEN idle
                  ELSE Reconciled(idle, IF a.turnObserved THEN "Done" ELSE "Idle")
        ELSE IF shown = "Working"
             THEN IF busy.working < 2 THEN busy
                  ELSE Reconciled([busy EXCEPT !.turnObserved = TRUE], "Working")
        ELSE none
=============================================================================
