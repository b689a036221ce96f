------------------------------ MODULE HookPump ------------------------------
(***************************************************************************)
(* The hook pump (gpui_shell/workspace/agents.rs, start_ai_hook_pump) over *)
(* the gate: events collect in a channel, a batch of at most BatchSize is  *)
(* taken, reordered and passed to the gate one by one.                     *)
(***************************************************************************)
EXTENDS HookGate

CONSTANTS
    Senders,     \* per sender: source, sequenced
    MaxSent,     \* bound: events of one sender
    BatchSize    \* 64 in the pump

ASSUME PumpConstants ==
    /\ MaxSent \in Nat
    /\ BatchSize \in Nat \ {0}

VARIABLES
    sent,      \* events each sender has numbered
    flying,    \* events not yet in the channel; hook processes race
    channel,   \* what the pump has not taken
    streams,   \* EVENT_GATE
    accepted,  \* history: the events the gate accepted, in order
    batch      \* history: the last batch as it was taken

vars == <<sent, flying, channel, streams, accepted, batch>>

S == DOMAIN Senders

Init ==
    /\ sent = [s \in S |-> 0]
    /\ flying = {}
    /\ channel = <<>>
    /\ streams = <<>>
    /\ accepted = <<>>
    /\ batch = <<>>

\* Turns alternate: every prompt is followed by the end of its turn.
Event(s) ==
    [kind |-> IF sent[s] % 2 = 0 THEN "PromptSubmit" ELSE "TurnDone",
     source |-> Senders[s].source, session |-> s, pid |-> s,
     process |-> None, instance |-> None,
     seq |-> IF Senders[s].sequenced THEN sent[s] + 1 ELSE None,
     at |-> None, id |-> None, received |-> 0, busy |-> FALSE, body |-> sent[s] + 1]

Emit(s) ==
    /\ sent[s] < MaxSent
    /\ sent' = [sent EXCEPT ![s] = @ + 1]
    /\ flying' = flying \union {Event(s)}
    /\ UNCHANGED <<channel, streams, accepted, batch>>

Reach(e) ==
    /\ flying' = flying \ {e}
    /\ channel' = Append(channel, e)
    /\ UNCHANGED <<sent, streams, accepted, batch>>

Pump ==
    /\ channel # <<>>
    /\ LET taken == SubSeq(channel, 1, IF Len(channel) < BatchSize THEN Len(channel)
                                                                  ELSE BatchSize)
           ordered == ReorderBatch(taken)
           run == GateRun(streams, ordered)
       IN  /\ batch' = taken
           /\ streams' = run.table
           /\ accepted' = accepted \o
                SelectSeq([i \in DOMAIN ordered |->
                              IF run.verdicts[i] = "Accepted" THEN ordered[i]
                              ELSE [ordered[i] EXCEPT !.kind = "dropped"]],
                          LAMBDA e : e.kind # "dropped")
           /\ channel' = SubSeq(channel, Len(taken) + 1, Len(channel))
    /\ UNCHANGED <<sent, flying>>

Next == (\E s \in S : Emit(s)) \/ (\E e \in flying : Reach(e)) \/ Pump
Spec == Init /\ [][Next]_vars

-----------------------------------------------------------------------------
Of(s, events) == SelectSeq(events, LAMBDA e : e.pid = s)

\* Events of one stream that reach the pump in one batch cost each other nothing: all
\* those later than what the gate had accepted before are accepted, whatever their
\* order in the channel, and no event is invented (ordering.rs, reorder_batch).
BatchKeepsAll ==
    [][Pump => \A i \in DOMAIN batch' :
        LET e == batch'[i]
            before == Of(e.pid, accepted)
        IN  \/ \E j \in DOMAIN accepted' : accepted'[j] = e
            \/ e.seq # None /\ \E j \in DOMAIN before : before[j].seq > e.seq]_vars
=============================================================================
