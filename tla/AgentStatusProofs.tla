-------------------------- MODULE AgentStatusProofs --------------------------
(***************************************************************************)
(* Proof that a pane shows what its agent does, in the panes whose agents  *)
(* report their whole lifecycle by local hooks that keep their order.      *)
(*                                                                         *)
(* What is on its way from the agent in the foreground is a path: from the *)
(* phase the pane has heard of, one event after the other, to the phase    *)
(* the agent is in (Leads).  While the agent owns the pane, the status,    *)
(* and the stream of the gate, are those of the phase at the start of that *)
(* path (Mirrors).                                                         *)
(***************************************************************************)
EXTENDS AgentPaneProofs

\* The panes of local agents whose bridge reports the whole lifecycle, without
\* numbers or times, in the order of what happened.
Direct ==
    \A c \in Clis :
        /\ Provider[c].source \in LifecycleSources /\ Provider[c].codex = "none"
        /\ Provider[c].fifo /\ ~Provider[c].remote /\ ~Provider[c].sequenced
        /\ ~Provider[c].timed /\ ~Provider[c].notify

\* The phases in which an agent may send an event, or its copy, and the phase it is
\* in afterwards.
Opens(e) == e.kind = "SessionStart" /\ ~e.compacted

Leaves(e) ==
    CASE e.kind = "SessionStart" -> IF e.compacted THEN {"working"} ELSE {"up", "idle"}
      [] e.kind = "PromptSubmit" -> {"idle", "working"}
      [] e.kind = "ToolComplete" -> {"working", "blocked"}
      [] e.kind = "TurnDone" -> {"working", "blocked"} \union (IF e.busy THEN {} ELSE {"idle"})
      [] e.kind = "NeedsAttention" -> IF e.legacy THEN {"idle"} ELSE {"working", "blocked"}
      [] e.kind = "SessionEnd" -> {"idle", "off"}

Enters(e) ==
    CASE e.kind = "SessionStart" -> IF e.compacted THEN "working" ELSE "idle"
      [] e.kind \in {"PromptSubmit", "ToolComplete"} -> "working"
      [] e.kind = "TurnDone" -> IF e.busy THEN "working" ELSE "idle"
      [] e.kind = "NeedsAttention" -> IF e.legacy THEN "idle" ELSE "blocked"
      [] e.kind = "SessionEnd" -> "off"

\* In phase w of conversation s, the event is next.
Continues(w, s, e) == w \in Leaves(e) /\ (Opens(e) \/ e.session = s)

\* The events of q lead from phase w of conversation s to phase v of conversation t.
Leads(q, w, s, v, t) ==
    /\ q = <<>> => w = v /\ s = t
    /\ q # <<>> => /\ Continues(w, s, q[1])
                   /\ Enters(q[Len(q)]) = v /\ q[Len(q)].session = t
    /\ \A j \in 1..Len(q) - 1 : Continues(Enters(q[j]), q[j].session, q[j + 1])

\* A path grows by an event, and by its copies.
LEMMA LeadsOn ==
    ASSUME NEW S, NEW q \in Seq(S), NEW p \in Seq(S), NEW e, NEW w, NEW s, NEW v, NEW t,
           Leads(q, w, s, v, t), Continues(v, t, e), Continues(Enters(e), e.session, e),
           Len(p) > Len(q), \A j \in 1..Len(q) : p[j] = q[j],
           \A j \in Len(q) + 1..Len(p) : p[j] = e
    PROVE  Leads(p, w, s, Enters(e), e.session)
<1> DEFINE n == Len(q)
           m == Len(p)
<1>1. /\ n \in Nat /\ m \in Nat /\ m > n /\ p # <<>>
      /\ q = <<>> <=> n = 0
  BY LenProperties, EmptySeq
<1>2. (\A j \in 1..n : p[j] = q[j]) /\ (\A j \in n + 1..m : p[j] = e)
  OBVIOUS
<1>3. Continues(w, s, p[1])
  <2>1. CASE n = 0
    BY <1>1, <1>2, <2>1 DEF Leads
  <2>2. CASE n > 0
    BY <1>1, <1>2, <2>2 DEF Leads
  <2> QED
    BY <1>1, <2>1, <2>2
<1>4. ASSUME NEW j \in 1..m - 1
      PROVE  Continues(Enters(p[j]), p[j].session, p[j + 1])
  <2>1. CASE j < n
    <3>1. p[j] = q[j] /\ p[j + 1] = q[j + 1] /\ j \in 1..n - 1
      BY <1>1, <1>2, <2>1
    <3> QED
      BY <3>1 DEF Leads
  <2>2. CASE j = n
    <3>1. p[j] = q[n] /\ p[j + 1] = e /\ q # <<>>
      BY <1>1, <1>2, <2>2
    <3> QED
      BY <3>1 DEF Leads
  <2>3. CASE j > n
    BY <1>1, <1>2, <2>3
  <2> QED
    BY <1>1, <2>1, <2>2, <2>3
<1>5. p[m] = e
  BY <1>1, <1>2
<1> QED
  BY <1>1, <1>3, <1>4, <1>5 DEF Leads

\* Its first event leads on to the rest of it.
LEMMA LeadsPast ==
    ASSUME NEW S, NEW q \in Seq(S), NEW p \in Seq(S), NEW w, NEW s, NEW v, NEW t,
           Leads(q, w, s, v, t), Len(q) > 0, Len(p) = Len(q) - 1,
           \A j \in 1..Len(p) : p[j] = q[j + 1]
    PROVE  Continues(w, s, q[1]) /\ Leads(p, Enters(q[1]), q[1].session, v, t)
<1> DEFINE n == Len(p)
<1>1. /\ n \in Nat /\ Len(q) = n + 1 /\ q # <<>>
      /\ p = <<>> <=> n = 0
  BY LenProperties, EmptySeq
<1>2. Continues(w, s, q[1]) /\ Enters(q[n + 1]) = v /\ q[n + 1].session = t
  BY <1>1 DEF Leads
<1>3. \A j \in 1..n : Continues(Enters(q[j]), q[j].session, q[j + 1])
  BY <1>1 DEF Leads
<1>4. p = <<>> => Enters(q[1]) = v /\ q[1].session = t
  BY <1>1, <1>2
<1>5. p # <<>> => /\ Continues(Enters(q[1]), q[1].session, p[1])
                  /\ Enters(p[n]) = v /\ p[n].session = t
  BY <1>1, <1>2, <1>3
<1>6. \A j \in 1..n - 1 : Continues(Enters(p[j]), p[j].session, p[j + 1])
  BY <1>1, <1>3
<1> QED
  BY <1>2, <1>4, <1>5, <1>6 DEF Leads

-----------------------------------------------------------------------------
(* What such an agent sends.                                               *)

\* The conversation the agent is in, as its events name it.
Conversation(c) == IF Provider[c].named THEN 10 * c + cli[c].session ELSE None

Plain(c, e) ==
    /\ e \in Events /\ e.from = c /\ e.codex = "none"
    /\ e.seq = None /\ e.at = None /\ e.id = None /\ e.turn = None
    /\ e.legacy => e.kind = "NeedsAttention"
    /\ e.session = None <=> ~Provider[c].named

PlainLanes ==
    /\ \A j \in 1..Len(lane[0]) : lane[0][j] \in Marks
    /\ \A c \in Clis : \A j \in 1..Len(lane[c]) : Plain(c, lane[c][j])

LEMMA PlainFields ==
    ASSUME PaneInv, Direct, NEW c \in Clis, NEW e, Plain(c, e)
    PROVE  /\ e.source = Provider[c].source /\ e.source \in LifecycleSources
           /\ e.pid = c /\ e.process = None /\ e.instance = None
           /\ e.kind \in Kind /\ e.busy \in BOOLEAN /\ e.compacted \in BOOLEAN
           /\ e.legacy \in BOOLEAN /\ e.body \in Nat /\ e.session \in Nat
           /\ StreamKey(e) = <<Provider[c].source, e.session, c, None>>
<1>1. e \in Events /\ e.from = c
  BY DEF Plain
<1>2. Provider[c].source # "pi" /\ ~Provider[c].remote /\ Provider[c].source \in LifecycleSources
  BY DEF Direct, LifecycleSources
<1>3. /\ e.source = Provider[c].source /\ e.pid = c /\ e.process = None /\ e.instance = None
      /\ e.kind \in Kind /\ e.busy \in BOOLEAN /\ e.compacted \in BOOLEAN
      /\ e.legacy \in BOOLEAN /\ e.body \in Nat /\ e.session \in Nat
  BY <1>1, <1>2 DEF Events
<1>4. StreamKey(e) = <<Provider[c].source, e.session, c, None>>
  BY <1>2, <1>3 DEF StreamKey
<1> QED
  BY <1>2, <1>3, <1>4

\* The events a CLI may send, and the phase it sends them in.
Sendable(c, kind, mark, phase) ==
    \/ /\ cli[c].phase \in {"up", "idle"}
       /\ kind = "SessionStart" /\ mark = "new" /\ phase = "idle"
    \/ /\ cli[c].phase = "working"
       /\ kind = "SessionStart" /\ mark = "compact" /\ phase = "working"
    \/ /\ cli[c].phase = "idle"
       /\ kind = "PromptSubmit" /\ mark = "plain" /\ phase = "working"
    \/ /\ cli[c].phase \in {"working", "blocked"}
       /\ kind = "ToolComplete" /\ mark = "plain" /\ phase = "working"
    \/ /\ cli[c].phase = "working"
       /\ kind = "NeedsAttention" /\ mark = "plain" /\ phase = "blocked"
    \/ /\ cli[c].phase = "idle"
       /\ kind = "NeedsAttention" /\ mark = "legacy" /\ phase = "idle"
    \/ /\ cli[c].phase \in {"working", "blocked"} /\ kind = "TurnDone"
       /\ mark \in {"plain", "failed"} /\ phase = "idle"
    \/ /\ cli[c].phase \in {"working", "blocked"}
       /\ kind = "TurnDone" /\ mark = "busy" /\ phase = "working"
    \/ /\ cli[c].phase = "idle"
       /\ kind = "SessionEnd" /\ mark = "plain" /\ phase = "off"

LEMMA FullCoverage ==
    ASSUME NEW e, e.codex = "none", e.source \in LifecycleSources
    PROVE  CoverageOf(e) = "Lifecycle"
<1>1. e.source \notin TurnSources
  BY DEF LifecycleSources, TurnSources
<1> QED
  BY <1>1 DEF CoverageOf

LEMMA DirectSends ==
    ASSUME PaneInv, Direct, NEW c \in Clis, Agent(c)
    PROVE  \/ SpawnNested(c)
           \/ \E kind \in Kind, phase \in Phase :
              \E mark \in {"new", "compact", "plain", "legacy", "failed", "busy"} :
                  Sendable(c, kind, mark, phase) /\ Send(c, kind, mark, phase)
<1>1. /\ \A k \in {"SessionStart", "PromptSubmit", "ToolComplete", "TurnDone",
                   "NeedsAttention", "SessionEnd"} : k \in Kind
      /\ \A p \in {"off", "idle", "working", "blocked"} : p \in Phase
  BY DEF Kind, Phase
<1> DEFINE Does(kind, mark, phase) == Sendable(c, kind, mark, phase) /\ Send(c, kind, mark, phase)
<1>2. StartSession(c) => Does("SessionStart", "new", "idle")
  BY DEF StartSession, Sendable
<1>3. Compact(c) => Does("SessionStart", "compact", "working")
  BY DEF Compact, Sendable
<1>4. TakePrompt(c) => Does("PromptSubmit", "plain", "working")
  BY DEF TakePrompt, Sendable
<1>5. RunTool(c) => Does("ToolComplete", "plain", "working")
  BY DEF RunTool, Sendable
<1>6. Ask(c) => Does("NeedsAttention", "plain", "blocked")
  BY DEF Ask, Sendable
<1>7. Remind(c) => Does("NeedsAttention", "legacy", "idle")
  BY DEF Remind, Sendable
<1>8. StopTurn(c) => \/ Does("TurnDone", "plain", "idle")
                     \/ Does("TurnDone", "failed", "idle")
                     \/ Does("TurnDone", "busy", "working")
  BY DEF StopTurn, Sendable
<1>9. EndSession(c) => Does("SessionEnd", "plain", "off")
  BY DEF EndSession, Sendable
<1>10. ~AskSilently(c)
  <2>1. Provider[c].codex = "none" /\ Provider[c].source \in LifecycleSources
    BY DEF Direct
  <2> DEFINE p == [source |-> Provider[c].source, codex |-> Provider[c].codex]
  <2>2. p.codex = "none" /\ p.source \in LifecycleSources
    BY <2>1
  <2> HIDE DEF p
  <2>3. CoverageOf(p) = "Lifecycle"
    BY <2>2, FullCoverage
  <2>4. Reports(c)
    BY <2>3 DEF Reports, p
  <2> QED
    BY <2>4 DEF AskSilently
<1> HIDE DEF Does
<1>11. \/ SpawnNested(c)
       \/ Does("SessionStart", "new", "idle") \/ Does("SessionStart", "compact", "working")
       \/ Does("PromptSubmit", "plain", "working") \/ Does("ToolComplete", "plain", "working")
       \/ Does("NeedsAttention", "plain", "blocked") \/ Does("NeedsAttention", "legacy", "idle")
       \/ Does("TurnDone", "plain", "idle") \/ Does("TurnDone", "failed", "idle")
       \/ Does("TurnDone", "busy", "working") \/ Does("SessionEnd", "plain", "off")
  BY <1>2, <1>3, <1>4, <1>5, <1>6, <1>7, <1>8, <1>9, <1>10, Zenon DEF Agent
<1>12. \/ SpawnNested(c)
       \/ \E kind \in Kind, phase \in Phase :
          \E mark \in {"new", "compact", "plain", "legacy", "failed", "busy"} :
              Does(kind, mark, phase)
  BY <1>1, <1>11
<1> QED
  BY <1>12 DEF Does

\* What is sent comes next, and so does its copy.
LEMMA DirectEvent ==
    ASSUME PaneInv, Direct, NEW c \in Clis, NEW kind \in Kind, NEW phase \in Phase,
           NEW mark \in {"new", "compact", "plain", "legacy", "failed", "busy"},
           Sendable(c, kind, mark, phase), NEW e, e = Event(c, kind, mark)
    PROVE  /\ Plain(c, e) /\ e.kind = kind
           /\ Enters(e) = phase
           /\ e.session = IF Provider[c].named
                          THEN 10 * c + (cli[c].session + IF mark = "new" THEN 1 ELSE 0)
                          ELSE None
           /\ Continues(cli[c].phase, Conversation(c), e)
           /\ Continues(phase, e.session, e)
<1>1. /\ Provider[c].codex = "none" /\ Provider[c].source \in LifecycleSources
      /\ ~Provider[c].timed /\ ~Sequenced(c)
  BY DEF Direct, Sequenced
<1>2. c \in Nat /\ c # 0 /\ cli[c].session \in Nat
  BY SetupFacts DEF PaneInv, Agents
<1> DEFINE session == cli[c].session + IF mark = "new" THEN 1 ELSE 0
<1>3. e \in Events
  BY EventFits
<1>4. /\ e.kind = kind /\ e.from = c /\ e.codex = Provider[c].codex
      /\ e.busy = (mark = "busy") /\ e.compacted = (mark = "compact")
      /\ e.legacy = (mark = "legacy")
      /\ e.seq = IF Sequenced(c) THEN cli[c].sent + 1 ELSE None
      /\ e.at = IF Provider[c].timed THEN cli[c].sent + 1 ELSE None
      /\ e.id = IF Provider[c].codex # "none" /\ kind = "TurnDone"
                THEN 10 * c + (cli[c].turn + (IF kind = "PromptSubmit" THEN 1 ELSE 0)) ELSE None
      /\ e.turn = IF Provider[c].codex # "none"
                  THEN 10 * c + (cli[c].turn + (IF kind = "PromptSubmit" THEN 1 ELSE 0)) ELSE None
      /\ e.session = IF Provider[c].named THEN 10 * c + session ELSE None
  BY DEF Event
<1>5. session \in Nat /\ 10 * c + session # None
  BY <1>2 DEF None
<1> HIDE DEF session
<1>6. Plain(c, e)
  <2>1. e.legacy => kind = "NeedsAttention"
    BY <1>4 DEF Sendable
  <2> QED
    BY <1>1, <1>3, <1>4, <1>5, <2>1 DEF Plain
<1>7. Enters(e) = phase /\ cli[c].phase \in Leaves(e) /\ phase \in Leaves(e)
  BY <1>4 DEF Sendable, Enters, Leaves
<1>8. Opens(e) \/ e.session = Conversation(c)
  <2>1. CASE mark = "new"
    BY <1>4, <2>1 DEF Sendable, Opens
  <2>2. CASE mark # "new"
    <3>1. session = cli[c].session
      BY <1>2, <2>2 DEF session
    <3> QED
      BY <1>4, <3>1 DEF Conversation
  <2> QED
    BY <2>1, <2>2
<1> QED
  BY <1>4, <1>6, <1>7, <1>8 DEF Continues, session

LEMMA DirectLane ==
    ASSUME PaneInv, Direct, NEW c \in Clis, NEW kind \in Kind, NEW mark, NEW phase,
           Send(c, kind, mark, phase), NEW e, e = Event(c, kind, mark)
    PROVE  /\ \A l \in Clis \union {0} : l # c => lane'[l] = lane[l]
           /\ lane[c] \in Seq(Events \union Marks) /\ Len(lane[c]) <= Len(lane'[c])
           /\ \A j \in 1..Len(lane[c]) : lane'[c][j] = lane[c][j]
           /\ \A j \in Len(lane[c]) + 1..Len(lane'[c]) : lane'[c][j] = e
           /\ c \notin lossy' => lossy' = lossy /\ Len(lane'[c]) > Len(lane[c])
<1> DEFINE Items == Events \union Marks
           q == lane[c]
<1>1. lane \in [Clis \union {0} -> Seq(Items)] /\ LaneOf(c) = c
  BY DEF PaneInv, LaneOf, Direct
<1>2. e \in Items
  BY EventFits
<1> HIDE DEF Items
<1>3. PICK n \in {0, 1, 2} :
        /\ lane' = [lane EXCEPT ![c] = q \o [i \in 1..n |-> e] \o <<>>]
        /\ lossy' = IF n = 0 THEN lossy \union {c} ELSE lossy
  <2>1. \A k : Notify(c, kind, mark, k) = <<>>
    BY DEF Notify, Direct
  <2>2. Copies \subseteq {0, 1, 2}
    BY DEF Copies
  <2> QED
    BY <1>1, <2>1, <2>2 DEF Send
<1> DEFINE m == [i \in 1..n |-> e]
<1>4. q \in Seq(Items) /\ Len(q) \in Nat
  BY <1>1, LenProperties
<1>5. m \in Seq(Items) /\ Len(m) = n /\ \A i \in 1..n : m[i] = e
  <2>1. m \in [1..n -> Items] /\ n \in Nat
    BY <1>2
  <2> QED
    BY <2>1, SeqDef, LenProperties
<1>6. lane'[c] = q \o m \o <<>> /\ \A l \in Clis \union {0} : l # c => lane'[l] = lane[l]
  BY <1>1, <1>3
<1> HIDE DEF m, q
<1>7. /\ q \o m \in Seq(Items) /\ Len(q \o m) = Len(q) + n
      /\ \A j \in 1..Len(q) + n : (q \o m)[j] = IF j <= Len(q) THEN q[j] ELSE m[j - Len(q)]
  BY <1>4, <1>5, ConcatProperties
<1>8. lane'[c] = q \o m
  BY <1>6, <1>7, ConcatEmptySeq
<1>9. \A j \in Len(q) + 1..Len(q) + n : j - Len(q) \in 1..n /\ j \in 1..Len(q) + n /\ ~(j <= Len(q))
  BY <1>3, <1>4
<1>10. \A j \in 1..Len(q) : j \in 1..Len(q) + n /\ j <= Len(q)
  BY <1>3, <1>4
<1> QED
  <2>1. \A j \in 1..Len(q) : lane'[c][j] = q[j]
    BY <1>7, <1>8, <1>10
  <2>2. \A j \in Len(q) + 1..Len(q) + n : lane'[c][j] = e
    BY <1>5, <1>7, <1>8, <1>9
  <2>3. c \notin lossy' => lossy' = lossy /\ n > 0
    BY <1>3
  <2>4. Len(lane'[c]) = Len(q) + n
    BY <1>7, <1>8
  <2> QED
    BY <1>3, <1>4, <1>6, <2>1, <2>2, <2>3, <2>4 DEF q, Items

-----------------------------------------------------------------------------
(* The pane mirrors the agent in the foreground.                           *)

\* What the stream of an agent may remember when it has heard of phase w, so that what
\* the agent sends next is not refused.
PrintsOf(w) ==
    CASE w = "idle" -> (Kind \ {"SessionEnd"}) \X Nat \X BOOLEAN
      [] w = "working" -> {"TurnDone"} \X Nat \X {TRUE}
      [] OTHER -> {"NeedsAttention"} \X Nat \X BOOLEAN

StreamAgrees(st, w) ==
    /\ st.life # "Ended" /\ (w # "idle" => st.life # "Done")
    /\ st.print = <<>> \/ st.print \in PrintsOf(w)

\* The status of a pane that has heard of phase w.
Showing(w) == CASE w = "idle" -> {"Idle", "Done"}
                [] w = "working" -> {"Working"}
                [] OTHER -> {"Blocked"}

Owns(c) == c \in {act.owner.pid, act.owner.process}

\* A submission is under way, in the terminal or among the agent's events.
Prompting(c) == typed \/ \E j \in 1..Len(lane[c]) : lane[c][j].kind = "PromptSubmit"

StreamOf(c, s) == <<Provider[c].source, s, c, None>>

\* The agent owns the pane, which has heard of its phase w in conversation s.
Mirrors(c, w, s) ==
    /\ lane[0] = <<>>
    /\ act.owner.source = Provider[c].source /\ act.owner.session = s
    /\ act.owner.pid = c /\ act.owner.process = None
    /\ s = None <=> ~Provider[c].named
    /\ ~act.ended /\ act.coverage = "Lifecycle"
    /\ StreamOf(c, s) \in DOMAIN streams => StreamAgrees(streams[StreamOf(c, s)], w)
    /\ Prompting(c) \/ act.status \in Showing(w)

\* Either nothing of the agent was heard, or the pane mirrors it, or it has ended.
Mirrored(c) ==
    \E w \in Phase, s \in Nat :
        /\ Leads(lane[c], w, s, cli[c].phase, Conversation(c))
        /\ IF w \in {"up", "off"} THEN ~Owns(c) ELSE Mirrors(c, w, s)

\* Commands run in the order of their CLIs, and one that has not started is unheard of.
Foreground ==
    /\ job # None => job = last /\ job \notin Nested
    /\ \A c \in Clis \ Nested : c > last =>
        cli[c].phase = "off" /\ lane[c] = <<>> /\ ~Owns(c)

Heeded == job # None /\ job \notin lossy => Mirrored(job)

LEMMA SameDirect ==
    ASSUME setup' = setup
    PROVE  /\ UNCHANGED <<Provider, Clis, Nested, Events>>
           /\ Direct' <=> Direct
           /\ \A c, e : Plain(c, e)' <=> Plain(c, e)
<1>1. UNCHANGED <<Provider, Clis, Events>>
  BY SameSetup
<1>2. Nested' = Nested
  BY DEF Nested
<1>3. Direct' <=> Direct
  BY <1>1 DEF Direct
<1>4. \A c, e : Plain(c, e)' <=> Plain(c, e)
  BY <1>1, Zenon DEF Plain
<1> QED
  BY <1>1, <1>2, <1>3, <1>4

LEMMA MirrorsKept ==
    ASSUME setup' = setup, NEW c \in Clis, NEW w, NEW s, Mirrors(c, w, s),
           UNCHANGED <<act, streams>>, lane'[0] = lane[0], Prompting(c) => Prompting(c)'
    PROVE  Mirrors(c, w, s)'
<1>1. Provider' = Provider
  BY SameSetup
<1>2. StreamOf(c, s)' = StreamOf(c, s)
  BY <1>1 DEF StreamOf
<1> QED
  BY <1>1, <1>2, Zenon DEF Mirrors

LEMMA MirroredKept ==
    ASSUME setup' = setup, NEW c \in Clis, Mirrored(c),
           UNCHANGED <<act, streams>>, lane'[0] = lane[0], lane'[c] = lane[c],
           cli'[c] = cli[c], typed => typed'
    PROVE  Mirrored(c)'
<1>1. PICK w \in Phase, s \in Nat :
        /\ Leads(lane[c], w, s, cli[c].phase, Conversation(c))
        /\ IF w \in {"up", "off"} THEN ~Owns(c) ELSE Mirrors(c, w, s)
  BY DEF Mirrored
<1>2. Conversation(c)' = Conversation(c)
  BY SameSetup DEF Conversation
<1>3. Leads(lane'[c], w, s, cli'[c].phase, Conversation(c)')
  BY <1>1, <1>2
<1>4. Prompting(c) => Prompting(c)'
  BY DEF Prompting
<1>5. ~Owns(c) => ~Owns(c)'
  BY DEF Owns
<1>6. Mirrors(c, w, s) => Mirrors(c, w, s)'
  BY <1>4, MirrorsKept
<1>7. Phase' = Phase /\ (IF w \in {"up", "off"} THEN ~Owns(c)' ELSE Mirrors(c, w, s)')
  BY <1>1, <1>5, <1>6 DEF Phase
<1> QED
  BY <1>3, <1>7, Zenon DEF Mirrored

LEMMA SendMirrored ==
    ASSUME PaneInv, PaneInv', setup' = setup, Direct, NEW c \in Clis, NEW kind \in Kind,
           NEW phase \in Phase,
           NEW mark \in {"new", "compact", "plain", "legacy", "failed", "busy"},
           Sendable(c, kind, mark, phase), Send(c, kind, mark, phase),
           c = job, c \notin lossy', Mirrored(c)
    PROVE  Mirrored(c)'
<1>1. PICK e : e = Event(c, kind, mark)
  OBVIOUS
<1>2. PICK w \in Phase, s \in Nat :
        /\ Leads(lane[c], w, s, cli[c].phase, Conversation(c))
        /\ IF w \in {"up", "off"} THEN ~Owns(c) ELSE Mirrors(c, w, s)
  BY DEF Mirrored
<1>3. /\ lane[c] \in Seq(Events \union Marks) /\ Len(lane[c]) < Len(lane'[c])
      /\ \A l \in Clis \union {0} : l # c => lane'[l] = lane[l]
      /\ \A j \in 1..Len(lane[c]) : lane'[c][j] = lane[c][j]
      /\ \A j \in Len(lane[c]) + 1..Len(lane'[c]) : lane'[c][j] = e
  BY <1>1, DirectLane
<1>4. lane'[c] \in Seq(Events \union Marks)
  <2>1. UNCHANGED <<Clis, Events>>
    BY SameDirect
  <2> QED
    BY <2>1 DEF PaneInv, Marks, None
<1>5. /\ e.kind = kind /\ Enters(e) = phase
      /\ e.session = IF Provider[c].named
                     THEN 10 * c + (cli[c].session + IF mark = "new" THEN 1 ELSE 0)
                     ELSE None
      /\ Continues(cli[c].phase, Conversation(c), e)
      /\ Continues(phase, e.session, e)
  BY <1>1, DirectEvent
<1>6. cli'[c].phase = phase /\ Conversation(c)' = e.session
  <2>1. Provider' = Provider
    BY SameDirect
  <2> DEFINE v == [phase |-> phase, sent |-> cli[c].sent + 1,
                   session |-> cli[c].session + (IF mark = "new" THEN 1 ELSE 0),
                   turn |-> cli[c].turn + (IF kind = "PromptSubmit" THEN 1 ELSE 0)]
  <2>2. cli' = [cli EXCEPT ![c] = v] /\ cli \in [Clis -> Agents]
    BY DEF Send, PaneInv
  <2>3. cli'[c] = v
    BY <2>2
  <2>4. v.phase = phase /\ v.session = cli[c].session + (IF mark = "new" THEN 1 ELSE 0)
    OBVIOUS
  <2> HIDE DEF v
  <2> QED
    BY <1>5, <2>1, <2>3, <2>4 DEF Conversation
<1>7. Leads(lane'[c], w, s, cli'[c].phase, Conversation(c)')
  <2>1. Leads(lane'[c], w, s, Enters(e), e.session)
    <3>1. Continues(Enters(e), e.session, e)
      BY <1>5
    <3> QED
      BY <1>2, <1>3, <1>4, <1>5, <3>1, LeadsOn
  <2> QED
    BY <1>5, <1>6, <2>1
<1>8. UNCHANGED <<act, streams>> /\ typed' = (typed /\ ~(c = job /\ kind = "PromptSubmit"))
  BY DEF Send
<1>9. lane'[0] = lane[0]
  BY <1>3, SetupFacts DEF PaneInv
<1>10. Prompting(c) => Prompting(c)'
  <2>1. Len(lane[c]) \in Nat /\ Len(lane'[c]) \in Nat
    BY <1>3, <1>4, LenProperties
  <2>2. CASE typed /\ kind # "PromptSubmit"
    BY <1>8, <2>2 DEF Prompting
  <2>3. CASE typed /\ kind = "PromptSubmit"
    <3>1. Len(lane'[c]) \in 1..Len(lane'[c]) /\ lane'[c][Len(lane'[c])] = e
      BY <1>3, <2>1
    <3> QED
      BY <1>5, <2>3, <3>1 DEF Prompting
  <2>4. CASE \E j \in 1..Len(lane[c]) : lane[c][j].kind = "PromptSubmit"
    <3>1. PICK j \in 1..Len(lane[c]) : lane[c][j].kind = "PromptSubmit"
      BY <2>4
    <3>2. j \in 1..Len(lane'[c]) /\ lane'[c][j].kind = "PromptSubmit"
      BY <1>3, <2>1, <3>1
    <3> QED
      BY <3>2 DEF Prompting
  <2> QED
    BY <2>2, <2>3, <2>4 DEF Prompting
<1>11. ~Owns(c) => ~Owns(c)'
  BY <1>8 DEF Owns
<1>12. Mirrors(c, w, s) => Mirrors(c, w, s)'
  BY <1>8, <1>9, <1>10, MirrorsKept
<1>13. Phase' = Phase /\ (IF w \in {"up", "off"} THEN ~Owns(c)' ELSE Mirrors(c, w, s)')
  BY <1>2, <1>11, <1>12 DEF Phase
<1> QED
  BY <1>7, <1>13, Zenon DEF Mirrored

\* A step of a CLI, in the foreground or not.
LEMMA AgentHeeded ==
    ASSUME PaneInv, PaneInv', setup' = setup, Direct, PlainLanes, Foreground, Heeded,
           NEW c \in Clis, Agent(c)
    PROVE  PlainLanes' /\ Foreground' /\ Heeded'
<1>0. /\ UNCHANGED <<Provider, Clis, Nested, Events>>
      /\ \A d, x : Plain(d, x)' <=> Plain(d, x)
  BY SameDirect
<1>1. 0 \notin Clis /\ Clis \subseteq Nat /\ cli \in [Clis -> Agents] /\ None \notin Clis
  BY SetupFacts DEF PaneInv, None
<1>2. CASE SpawnNested(c)
  <2>1. /\ c \in Nested /\ UNCHANGED <<act, streams, job, last, lane, typed, lossy>>
        /\ cli' = [cli EXCEPT ![c].phase = "up"]
    BY <1>2 DEF SpawnNested
  <2>2. \A d \in Clis : d # c => cli'[d] = cli[d]
    BY <1>1, <2>1
  <2>3. PlainLanes'
    BY <1>0, <2>1 DEF PlainLanes
  <2>4. Foreground'
    BY <1>0, <2>1, <2>2 DEF Foreground, Owns
  <2>5. job # None /\ job \notin lossy => Mirrored(job)'
    <3> SUFFICES ASSUME job # None, job \notin lossy PROVE Mirrored(job)'
      OBVIOUS
    <3>1. job \in Clis /\ job # c
      BY <2>1 DEF Foreground, PaneInv
    <3>2. PICK d \in Clis : d = job
      BY <3>1
    <3>3. Mirrored(d)'
      <4>1. Mirrored(d)
        BY <3>2 DEF Heeded
      <4>2. cli'[d] = cli[d]
        BY <2>2, <3>1, <3>2
      <4> QED
        BY <2>1, <4>1, <4>2, MirroredKept
    <3> QED
      BY <2>1, <3>2, <3>3
  <2> QED
    BY <2>1, <2>3, <2>4, <2>5 DEF Heeded
<1>3. ASSUME NEW kind \in Kind, NEW phase \in Phase,
             NEW mark \in {"new", "compact", "plain", "legacy", "failed", "busy"},
             Sendable(c, kind, mark, phase), Send(c, kind, mark, phase)
      PROVE  PlainLanes' /\ Foreground' /\ Heeded'
  <2>1. PICK e : e = Event(c, kind, mark)
    OBVIOUS
  <2>2. /\ \A l \in Clis \union {0} : l # c => lane'[l] = lane[l]
        /\ \A j \in 1..Len(lane[c]) : lane'[c][j] = lane[c][j]
        /\ \A j \in Len(lane[c]) + 1..Len(lane'[c]) : lane'[c][j] = e
        /\ c \notin lossy' => lossy' = lossy
        /\ Len(lane[c]) \in Nat /\ Len(lane[c]) <= Len(lane'[c])
    BY <1>3, <2>1, DirectLane, LenProperties
  <2>3. Plain(c, e)
    BY <1>3, <2>1, DirectEvent
  <2>4. /\ UNCHANGED <<act, streams, job, last>>
        /\ typed' = (typed /\ ~(c = job /\ kind = "PromptSubmit"))
        /\ \A d \in Clis : d # c => cli'[d] = cli[d]
        /\ lossy \subseteq lossy' /\ \A d : d # c /\ d \notin lossy => d \notin lossy'
    BY <1>1, <1>3 DEF Send
  <2>5. PlainLanes'
    <3>1. lane'[0] = lane[0]
      BY <1>1, <2>2
    <3>2. ASSUME NEW j \in 1..Len(lane'[c]) PROVE Plain(c, lane'[c][j])
      <4>1. CASE j \in 1..Len(lane[c])
        BY <2>2, <4>1 DEF PlainLanes
      <4>2. CASE j \in Len(lane[c]) + 1..Len(lane'[c])
        BY <2>2, <2>3, <4>2
      <4>3. Len(lane'[c]) \in Nat
        BY LenProperties, <1>0 DEF PaneInv
      <4> QED
        BY <2>2, <4>1, <4>2, <4>3
    <3>3. ASSUME NEW d \in Clis, d # c, NEW j \in 1..Len(lane'[d]) PROVE Plain(d, lane'[d][j])
      BY <2>2, <3>3 DEF PlainLanes
    <3>4. \A d \in Clis : \A j \in 1..Len(lane'[d]) : Plain(d, lane'[d][j])
      BY <3>2, <3>3
    <3>5. \A j \in 1..Len(lane'[0]) : lane'[0][j] \in Marks
      BY <3>1 DEF PlainLanes
    <3> QED
      BY <1>0, <3>4, <3>5 DEF PlainLanes, Marks
  <2>6. Foreground'
    <3>1. cli[c].phase # "off"
      BY <1>3 DEF Sendable
    <3>2. \A d \in Clis \ Nested : d > last => d # c
      BY <3>1 DEF Foreground
    <3> QED
      BY <1>0, <2>2, <2>4, <3>2 DEF Foreground, Owns
  <2>7. job # None /\ job \notin lossy' => Mirrored(job)'
    <3> SUFFICES ASSUME job # None, job \notin lossy' PROVE Mirrored(job)'
      OBVIOUS
    <3>1. PICK d \in Clis : d = job
      BY DEF PaneInv
    <3>2. Mirrored(d)
      BY <2>4, <3>1 DEF Heeded
    <3>3. Mirrored(d)'
      <4>1. CASE d = c
        BY <1>3, <3>1, <3>2, <4>1, SendMirrored
      <4>2. CASE d # c
        <5>1. lane'[0] = lane[0] /\ lane'[d] = lane[d] /\ cli'[d] = cli[d] /\ (typed => typed')
          BY <1>1, <2>2, <2>4, <3>1, <4>2
        <5> QED
          BY <2>4, <3>2, <5>1, MirroredKept
      <4> QED
        BY <4>1, <4>2
    <3> QED
      BY <2>4, <3>1, <3>3
  <2> QED
    BY <2>4, <2>5, <2>6, <2>7 DEF Heeded
<1>4. \/ SpawnNested(c)
      \/ \E kind \in Kind, phase \in Phase :
         \E mark \in {"new", "compact", "plain", "legacy", "failed", "busy"} :
             Sendable(c, kind, mark, phase) /\ Send(c, kind, mark, phase)
  BY DirectSends
<1> QED
  BY <1>2, <1>3, <1>4

-----------------------------------------------------------------------------
(* What the gate and the activity make of an event of such an agent.       *)

Bare(c, r) ==
    /\ Addressed(r) /\ r.codex = "none"
    /\ r.seq = None /\ r.at = None /\ r.id = None /\ r.turn = None
    /\ r.source = Provider[c].source /\ r.source \in LifecycleSources
    /\ r.pid = c /\ r.process = None
    /\ r.legacy \in BOOLEAN /\ (r.legacy => r.kind = "NeedsAttention")

LEMMA BareReceived ==
    ASSUME PaneInv, Direct, NEW c \in Clis, NEW e, Plain(c, e)
    PROVE  /\ Bare(c, Received(e)) /\ Received(e).from = c
           /\ Received(e).kind = e.kind /\ Received(e).session = e.session
           /\ Leaves(Received(e)) = Leaves(e) /\ Enters(Received(e)) = Enters(e)
           /\ Opens(Received(e)) <=> Opens(e)
           /\ StreamKey(Received(e)) = StreamOf(c, e.session)
<1> DEFINE n == 1 + Max({0} \union {streams[k].received : k \in DOMAIN streams})
           r == Received(e)
<1>1. e \in Events /\ e.from = c
  BY DEF Plain
<1>2. /\ Addressed(r) /\ r.from = c /\ r.kind = e.kind /\ r.source = e.source
      /\ r.pid = e.pid /\ r.process = e.process /\ r.seq = e.seq /\ r.id = e.id
      /\ r.session = e.session /\ r.busy = e.busy /\ StreamKey(r) = StreamKey(e)
  BY <1>1, ReceivedFits DEF PaneInv
<1>3. /\ e.source = Provider[c].source /\ e.source \in LifecycleSources
      /\ e.pid = c /\ e.process = None /\ e.legacy \in BOOLEAN
      /\ StreamKey(e) = StreamOf(c, e.session)
  BY PlainFields DEF StreamOf
<1>4. r = [e EXCEPT !.received = n]
  BY DEF Received
<1> HIDE DEF n, r
<1>5. /\ r.codex = e.codex /\ r.at = e.at /\ r.turn = e.turn
      /\ r.legacy = e.legacy /\ r.compacted = e.compacted
  BY <1>1, <1>4 DEF Events
<1>6. Bare(c, r)
  BY <1>2, <1>3, <1>5 DEF Bare, Plain
<1>7. /\ Leaves(r) = Leaves(e) /\ Enters(r) = Enters(e)
      /\ Opens(r) <=> Opens(e)
  BY <1>2, <1>5 DEF Leaves, Enters, Opens
<1> QED
  BY <1>2, <1>3, <1>6, <1>7 DEF r

\* The gate refuses an event only as a copy: of a phase it has heard of.
LEMMA BareVerdict ==
    ASSUME NEW c, NEW r, Bare(c, r), NEW s, NEW w \in {"idle", "working", "blocked"},
           StreamAgrees(s, w), w \in Leaves(r)
    PROVE  Verdict(s, r) = "Accepted" \/ (Enters(r) = w /\ r.kind # "PromptSubmit")
<1>1. /\ r.kind \in Kind /\ r.busy \in BOOLEAN /\ r.body \in Nat /\ r.legacy \in BOOLEAN
      /\ r.compacted \in BOOLEAN /\ (r.legacy => r.kind = "NeedsAttention")
      /\ r.seq = None /\ r.at = None /\ r.id = None
  BY DEF Bare, Addressed, Stamped
<1>2. s.life # "Ended" /\ (s.life = "Done" => w = "idle")
  BY DEF StreamAgrees
<1>3. r.kind = "ToolComplete" => w # "idle"
  BY DEF Leaves
<1>4. ASSUME UsesFingerprint(r), s.print = Fingerprint(r) PROVE Enters(r) = w
  <2>1. r.kind \in {"TurnDone", "NeedsAttention", "SessionEnd"}
    BY <1>4 DEF UsesFingerprint
  <2>2. <<r.kind, r.body, r.busy>> \in PrintsOf(w)
    BY <1>4 DEF StreamAgrees, Fingerprint
  <2>3. CASE w = "idle"
    <3>1. r.kind # "SessionEnd"
      BY <2>2, <2>3 DEF PrintsOf
    <3> QED
      BY <1>1, <2>1, <2>3, <3>1 DEF Leaves, Enters
  <2>4. CASE w = "working"
    <3>1. r.kind = "TurnDone" /\ r.busy
      BY <2>2, <2>4 DEF PrintsOf
    <3> QED
      BY <2>4, <3>1 DEF Enters
  <2>5. CASE w = "blocked"
    <3>1. r.kind = "NeedsAttention"
      BY <2>2, <2>5 DEF PrintsOf
    <3> QED
      BY <1>1, <2>5, <3>1 DEF Leaves, Enters
  <2> QED
    BY <2>3, <2>4, <2>5
<1>5. ~Compared(r.seq, s.seq) /\ ~Compared(r.at, s.at)
  BY <1>1 DEF Compared
<1>6. \/ UsesFingerprint(r) /\ s.print = Fingerprint(r)
      \/ Verdict(s, r) = "Accepted"
  BY <1>1, <1>2, <1>3, <1>5 DEF Verdict
<1> QED
  BY <1>4, <1>6 DEF UsesFingerprint

\* A start is always accepted.
LEMMA OpensVerdict ==
    ASSUME NEW c, NEW r, Bare(c, r), Opens(r), NEW s
    PROVE  Verdict(s, r) = "Accepted"
<1>1. r.seq = None /\ r.at = None /\ r.id = None /\ r.kind = "SessionStart"
  BY DEF Bare, Opens
<1>2. ~Compared(r.seq, s.seq) /\ ~Compared(r.at, s.at) /\ ~UsesFingerprint(r)
  BY <1>1 DEF Compared, UsesFingerprint
<1> QED
  BY <1>1, <1>2 DEF Verdict

LEMMA BareRecord ==
    ASSUME NEW c, NEW r, Bare(c, r), NEW s, Enters(r) # "off"
    PROVE  StreamAgrees(Record(s, r), Enters(r))
<1>1. /\ r.kind \in Kind /\ r.busy \in BOOLEAN /\ r.body \in Nat /\ r.legacy \in BOOLEAN
      /\ (r.legacy => r.kind = "NeedsAttention")
      /\ r.seq = None /\ r.at = None /\ r.id = None
  BY DEF Bare, Addressed, Stamped
<1> DEFINE q == Record(s, r)
<1>2. q.life = LifeAfter(r) /\ q.print = IF UsesFingerprint(r) THEN Fingerprint(r) ELSE <<>>
  BY DEF Record
<1> HIDE DEF q
<1>3. r.kind # "SessionEnd"
  BY DEF Enters
<1>4. q.life # "Ended" /\ (Enters(r) # "idle" => q.life # "Done")
  BY <1>1, <1>2, <1>3 DEF LifeAfter, Enters, Kind
<1>5. q.print = <<>> \/ q.print \in PrintsOf(Enters(r))
  <2>1. CASE r.kind \notin {"TurnDone", "NeedsAttention"}
    BY <1>2, <1>3, <2>1 DEF UsesFingerprint
  <2>2. CASE r.kind = "TurnDone" /\ r.busy
    <3>1. Enters(r) = "working" /\ <<r.kind, r.body, r.busy>> \in PrintsOf("working")
      BY <1>1, <2>2 DEF Enters, PrintsOf
    <3> QED
      BY <1>2, <3>1 DEF Fingerprint
  <2>3. CASE r.kind = "TurnDone" /\ ~r.busy
    <3>1. Enters(r) = "idle" /\ <<r.kind, r.body, r.busy>> \in PrintsOf("idle")
      BY <1>1, <2>3 DEF Enters, PrintsOf
    <3> QED
      BY <1>2, <3>1 DEF Fingerprint
  <2>4. CASE r.kind = "NeedsAttention"
    <3>1. Enters(r) \in {"idle", "blocked"}
      BY <2>4 DEF Enters
    <3>2. /\ <<r.kind, r.body, r.busy>> \in PrintsOf("idle")
          /\ <<r.kind, r.body, r.busy>> \in PrintsOf("blocked")
      BY <1>1, <2>4 DEF PrintsOf
    <3> QED
      BY <1>2, <3>1, <3>2 DEF Fingerprint
  <2> QED
    BY <1>1, <2>1, <2>2, <2>3, <2>4
<1> QED
  BY <1>4, <1>5 DEF StreamAgrees, q

\* The gate's table after an event of an agent whose stream agrees with phase w, or
\* after a start.
LEMMA BareGate ==
    ASSUME NEW st, Table(st), NEW c, NEW r, Bare(c, r),
           NEW w \in {"idle", "working", "blocked"},
           \/ Opens(r)
           \/ /\ w \in Leaves(r)
              /\ StreamKey(r) \in DOMAIN st => StreamAgrees(st[StreamKey(r)], w)
    PROVE  /\ \/ GateVerdict(st, r) = "Accepted"
              \/ Enters(r) = w /\ ~Opens(r) /\ r.kind # "PromptSubmit"
           /\ Enters(r) # "off" => StreamAgrees(GateAfter(st, r)[StreamKey(r)], Enters(r))
<1> DEFINE table == Tracked(st, r)
           key == StreamKey(r)
           s == table[key]
<1>1. /\ Table(table) /\ key \in DOMAIN table
      /\ \/ key \in DOMAIN st /\ s = st[key]
         \/ key \notin DOMAIN st /\ s = NewStream(r)
  BY TrackedFits DEF Bare, Addressed
<1>2. StreamAgrees(NewStream(r), w)
  BY DEF StreamAgrees, NewStream
<1>3. ~Opens(r) => w \in Leaves(r) /\ StreamAgrees(s, w)
  BY <1>1, <1>2
<1>4. GateVerdict(st, r) = Verdict(s, r)
  BY DEF GateVerdict
<1>5. GateAfter(st, r) = IF Verdict(s, r) = "Accepted"
                         THEN [table EXCEPT ![key] = Record(s, r)] ELSE table
  BY DEF GateAfter
<1> HIDE DEF table, key, s
<1>6. \/ Verdict(s, r) = "Accepted"
      \/ Enters(r) = w /\ ~Opens(r) /\ r.kind # "PromptSubmit"
  BY <1>3, BareVerdict, OpensVerdict
<1>7. Enters(r) # "off" => StreamAgrees(GateAfter(st, r)[key], Enters(r))
  <2> SUFFICES ASSUME Enters(r) # "off" PROVE StreamAgrees(GateAfter(st, r)[key], Enters(r))
    OBVIOUS
  <2>1. CASE Verdict(s, r) = "Accepted"
    <3>1. GateAfter(st, r)[key] = Record(s, r)
      BY <1>1, <1>5, <2>1
    <3> QED
      BY <3>1, BareRecord
  <2>2. CASE Verdict(s, r) # "Accepted"
    <3>1. GateAfter(st, r)[key] = s
      BY <1>5, <2>2 DEF s
    <3> QED
      BY <1>3, <1>6, <2>2, <3>1
  <2> QED
    BY <2>1, <2>2
<1> QED
  BY <1>4, <1>6, <1>7 DEF key

\* The pane refuses an event of its owner only when it is a reminder that nothing waits.
LEMMA BareAccepted ==
    ASSUME NEW a \in Activity, NEW c \in Nat \ {0}, NEW r, Bare(c, r),
           a.ended => Opens(r),
           \/ a.owner = NoOwner
           \/ /\ a.owner.source = r.source
              /\ a.owner.pid = c /\ a.owner.process = None
              /\ Opens(r) \/ a.owner.session = r.session
    PROVE  AcceptsHook(a, r) <=> (r.legacy => a.status \in {"Working", "Blocked"})
<1>1. /\ r.codex = "none" /\ r.seq = None /\ r.turn = None /\ r.process = None /\ r.pid = c
      /\ r.source # "codex"
  BY DEF Bare, LifecycleSources
<1>2. ~OtherTurn(a, r) /\ ~Replayed(a, r)
  BY <1>1 DEF OtherTurn, Replayed, Same
<1>3. ~RemoteStale(a, r)
  BY <1>1 DEF RemoteStale, Same
<1>4. a.owner # NoOwner => ~Foreign(a.owner, r)
  <2> SUFFICES ASSUME a.owner # NoOwner PROVE ~Foreign(a.owner, r)
    OBVIOUS
  <2>1. SameProcess(a.owner, r)
    BY <1>1 DEF SameProcess, Same, None
  <2>2. ~Known(a.owner.process, r.process)
    BY <1>1 DEF Known
  <2> QED
    BY <1>1, <2>1, <2>2 DEF Foreign, Opens
<1> QED
  BY <1>1, <1>2, <1>3, <1>4 DEF AcceptsHook, Opens

\* What an applied event leaves in the pane.
LEMMA BareApplied ==
    ASSUME NEW a \in Activity, NEW c, NEW r, Bare(c, r), r.kind # "SessionEnd",
           AcceptsHook(a, r)
    PROVE  LET b == ApplyHook(a, r) IN
           /\ b.owner = RecordOwner(a.owner, r)
           /\ ~b.ended /\ b.coverage = "Lifecycle" /\ b.status = StatusAfter(a, r)
<1> DEFINE t == Taken(a, r)
           h == Authoritative(t, r)
           pen == h.pending /\ r.kind = "SessionStart"
           obs == ObservedAfter(a, r)
           arm == h.armed /\ ~(r.kind = "TurnDone" /\ ~r.busy)
           sta == StatusAfter(a, r)
           own == RecordOwner(a.owner, r)
           nat == a.native \/ r.codex # "none"
           num == IF Known(r.process, r.seq) THEN r.seq ELSE a.remoteSeq
           trn == IF r.turn # None \/ (r.kind = "SessionStart" /\ ~r.compacted)
                  THEN r.turn ELSE a.turn
           cov == CoverageOf(r)
<1>1. t \in Activity
  BY TakenFits DEF Bare
<1>2. t = [a EXCEPT !.owner = own, !.native = nat, !.remoteSeq = num, !.turn = trn,
                    !.ended = FALSE, !.inferred = FALSE]
  BY DEF Taken
<1>3. cov = "Lifecycle"
  BY FullCoverage DEF Bare
<1>4. h = NoSamples([t EXCEPT !.coverage = cov, !.source = "Hook", !.fallback = "none"])
  BY DEF Authoritative
<1>5. ApplyHook(a, r) = [h EXCEPT !.pending = pen, !.turnObserved = obs, !.armed = arm,
                                  !.status = sta, !.quiet = FALSE]
  BY DEF ApplyHook
<1> HIDE DEF t, h, pen, obs, arm, sta, own, nat, num, trn, cov
<1>6. t.owner = own /\ ~t.ended
  BY <1>2 DEF Activity
<1> DEFINE g == [t EXCEPT !.coverage = cov, !.source = "Hook", !.fallback = "none"]
<1>7. g \in Activity /\ g.owner = own /\ ~g.ended /\ g.coverage = "Lifecycle"
  BY <1>1, <1>3, <1>6 DEF Activity, Coverage, StatusSource
<1> HIDE DEF g
<1>8. h \in Activity /\ h.owner = own /\ ~h.ended /\ h.coverage = "Lifecycle"
  <2>1. h = [g EXCEPT !.idle = 0, !.unmatched = 0, !.working = 0]
    BY <1>4 DEF NoSamples, g
  <2> QED
    BY <1>7, <2>1, SamplesCount DEF Activity
<1>9. /\ ApplyHook(a, r).owner = own /\ ~ApplyHook(a, r).ended
      /\ ApplyHook(a, r).coverage = "Lifecycle" /\ ApplyHook(a, r).status = sta
  BY <1>5, <1>8 DEF Activity
<1> QED
  BY <1>9 DEF own, sta

LEMMA BareStatus ==
    ASSUME NEW a, NEW c, NEW r, Bare(c, r), NEW w \in {"up", "idle", "working", "blocked"},
           w \in Leaves(r), r.kind # "SessionEnd",
           r.legacy => a.status \in {"Working", "Blocked"},
           w \notin {"up"} /\ r.kind # "PromptSubmit" => a.status \in Showing(w)
    PROVE  StatusAfter(a, r) \in Showing(Enters(r))
<1>1. /\ r.kind \in Kind /\ r.busy \in BOOLEAN /\ r.compacted \in BOOLEAN
      /\ r.legacy \in BOOLEAN /\ (r.legacy => r.kind = "NeedsAttention")
  BY DEF Bare, Addressed, Stamped
<1>2. CASE r.kind = "SessionStart"
  BY <1>1, <1>2 DEF StatusAfter, Showing, Enters, Leaves
<1>3. CASE r.kind \in {"PromptSubmit", "ToolComplete"}
  BY <1>3 DEF StatusAfter, Showing, Enters
<1>4. CASE r.kind = "TurnDone"
  BY <1>1, <1>4 DEF StatusAfter, StopStatus, Showing, Enters
<1>5. CASE r.kind = "NeedsAttention"
  BY <1>1, <1>5 DEF StatusAfter, Showing, Enters, Leaves
<1> QED
  BY <1>1, <1>2, <1>3, <1>4, <1>5 DEF Kind

\* The next event of the agent in the foreground: the pane has heard of one phase more.
LEMMA ArriveMirrored ==
    ASSUME PaneInv, PaneInv', setup' = setup, Direct, NEW c \in Clis, Arrive(c, 1),
           NEW e, e = lane[c][1], Plain(c, e), HandleAiHook(e), c \notin lossy', Mirrored(c)
    PROVE  Mirrored(c)'
<1> DEFINE r == Received(e)
<1>1. PICK w \in Phase, s \in Nat :
        /\ Leads(lane[c], w, s, cli[c].phase, Conversation(c))
        /\ IF w \in {"up", "off"} THEN ~Owns(c) ELSE Mirrors(c, w, s)
  BY DEF Mirrored
<1>2. /\ c \in Nat \ {0} /\ act \in Activity /\ Table(streams) /\ 0 # c
      /\ UNCHANGED <<Provider, Clis, Events>> /\ Provider[c].named \in BOOLEAN
  <2>1. Provider \in [Clis -> Providers]
    BY SetupFacts DEF PaneInv
  <2>2. Provider[c].named \in BOOLEAN
    BY <2>1 DEF Providers
  <2> QED
    BY <2>2, SetupFacts, SameDirect DEF PaneInv
<1>3. /\ Continues(w, s, e)
      /\ Leads(lane'[c], Enters(e), e.session, cli'[c].phase, Conversation(c)')
  <2>1. /\ Len(lane'[c]) = Len(lane[c]) - 1 /\ 1 \in 1..Len(lane[c])
        /\ \A j \in 1..Len(lane'[c]) : lane'[c][j] = lane[c][Was(j, 1)]
    BY ArriveLanes
  <2>2. lane[c] \in Seq(Events \union Marks) /\ lane'[c] \in Seq(Events \union Marks)
    BY <1>2 DEF PaneInv, Marks, None
  <2>3. Len(lane[c]) \in Nat /\ Len(lane'[c]) \in Nat
    BY <2>2, LenProperties
  <2>4. Len(lane[c]) > 0 /\ \A j \in 1..Len(lane'[c]) : lane'[c][j] = lane[c][j + 1]
    BY <2>1, <2>3 DEF Was
  <2>5. Continues(w, s, e) /\ Leads(lane'[c], Enters(e), e.session, cli[c].phase, Conversation(c))
    BY <1>1, <2>1, <2>2, <2>4, LeadsPast
  <2>6. cli' = cli /\ Conversation(c)' = Conversation(c)
    BY <1>2 DEF Arrive, Conversation
  <2> QED
    BY <2>5, <2>6
<1>14. /\ \A j \in 1..Len(lane'[c]) : lane'[c][j] = lane[c][j + 1]
       /\ Len(lane'[c]) = Len(lane[c]) - 1 /\ Len(lane[c]) \in Nat
  <2>1. /\ Len(lane'[c]) = Len(lane[c]) - 1
        /\ \A j \in 1..Len(lane'[c]) : lane'[c][j] = lane[c][Was(j, 1)]
    BY ArriveLanes
  <2>2. Len(lane[c]) \in Nat
    BY LenProperties DEF PaneInv
  <2> QED
    BY <2>1, <2>2 DEF Was
<1>15. Prompting(c) /\ e.kind # "PromptSubmit" => Prompting(c)'
  <2> SUFFICES ASSUME Prompting(c), e.kind # "PromptSubmit", ~typed PROVE Prompting(c)'
    BY DEF Prompting, Arrive
  <2>1. PICK j \in 1..Len(lane[c]) : lane[c][j].kind = "PromptSubmit"
    BY DEF Prompting
  <2>2. j - 1 \in 1..Len(lane'[c]) /\ lane'[c][j - 1] = lane[c][j]
    BY <1>14, <2>1
  <2> QED
    BY <2>1, <2>2 DEF Prompting
<1>4. /\ Bare(c, r) /\ r.from = c /\ r.kind = e.kind /\ r.session = e.session
      /\ Leaves(r) = Leaves(e) /\ Enters(r) = Enters(e)
      /\ Opens(r) <=> Opens(e)
      /\ StreamKey(r) = StreamOf(c, e.session)
  BY BareReceived
<1>5. /\ e.kind \in Kind /\ e.session \in Nat /\ e.compacted \in BOOLEAN
      /\ e.legacy \in BOOLEAN /\ e.busy \in BOOLEAN
      /\ e.session = None <=> ~Provider[c].named
  BY PlainFields DEF Plain
<1>6. /\ streams' = IF AcceptsHook(act, r) THEN GateAfter(streams, r) ELSE streams
      /\ act' = IF AcceptsHook(act, r) /\ GateVerdict(streams, r) = "Accepted"
                THEN ApplyHook(act, r) ELSE act
      /\ lossy' = IF \/ lane[0] # <<>> /\ ~Provider[r.from].remote
                     \/ act.owner # NoOwner
                        /\ r.from \notin {act.owner.pid, act.owner.process}
                  THEN lossy \union {r.from} ELSE lossy
  BY DEF HandleAiHook
<1> HIDE DEF r
<1>7. lane[0] = <<>> /\ (act.owner = NoOwner \/ Owns(c))
  BY <1>4, <1>6 DEF Direct, Owns
<1>8. lane'[0] = <<>>
  <2>1. \A m \in Clis \union {0} : m # c => lane'[m] = lane[m]
    BY ArriveLanes
  <2> QED
    BY <1>2, <1>7, <2>1
<1>9. Enters(e) \in {"idle", "working", "blocked", "off"} /\ Enters(e) \in Phase
      /\ (Enters(e) = "off" <=> e.kind = "SessionEnd")
  BY <1>5 DEF Enters, Kind, Phase
<1>10. act'.owner = NoOwner => ~Owns(c)'
  BY <1>2 DEF Owns, NoOwner, None
<1>11. ASSUME Enters(e) = "off" => act'.owner = NoOwner,
              Enters(e) # "off" => Mirrors(c, Enters(e), e.session)'
       PROVE  Mirrored(c)'
  <2>1. Phase' = Phase /\ e.session \in Nat
    BY <1>5 DEF Phase
  <2>2. IF Enters(e) \in {"up", "off"} THEN ~Owns(c)' ELSE Mirrors(c, Enters(e), e.session)'
    BY <1>9, <1>10, <1>11
  <2> QED
    BY <1>3, <1>9, <2>1, <2>2, Zenon DEF Mirrored
<1>12. CASE w = "off"
  <2>1. e.kind = "SessionEnd" /\ act.owner = NoOwner
    BY <1>1, <1>3, <1>5, <1>7, <1>12 DEF Continues, Leaves, Kind
  <2>2. act'.owner = NoOwner
    <3>1. ApplyHook(act, r).owner = NoOwner
      <4>1. \/ ApplyHook(act, r).owner = act.owner
            \/ ApplyHook(act, r).owner = NoOwner
            \/ r.kind # "SessionEnd"
        BY <1>2, <1>4, ApplyFits DEF Bare
      <4> QED
        BY <1>4, <2>1, <4>1
    <3> QED
      BY <1>6, <2>1, <3>1
  <2> QED
    BY <1>9, <1>11, <2>1, <2>2
\* The owner's own event, or the start by which an agent becomes the owner.
<1>13. CASE w # "off"
  <2>1. /\ w \in {"up", "idle", "working", "blocked"} /\ w \in Leaves(r)
        /\ Opens(e) \/ e.session = s
    BY <1>3, <1>4, <1>13 DEF Phase, Continues
  <2>2. w = "up" => Opens(e) /\ act.owner = NoOwner
    BY <1>1, <1>3, <1>5, <1>7 DEF Continues, Leaves, Opens, Kind
  <2>3. w # "up" => Mirrors(c, w, s)
    BY <1>1, <1>13
  <2>4. act.owner = NoOwner \/ /\ act.owner.source = r.source
                               /\ act.owner.pid = c /\ act.owner.process = None
                               /\ act.owner.session = s
    BY <1>4, <2>2, <2>3 DEF Mirrors, Bare
  <2>5. act.ended => Opens(r)
    BY <1>4, <2>2, <2>3 DEF Mirrors
  <2>6. AcceptsHook(act, r) <=> (r.legacy => act.status \in {"Working", "Blocked"})
    BY <1>2, <1>4, <2>1, <2>4, <2>5, BareAccepted
  <2>7. PICK v \in {"idle", "working", "blocked"} : w # "up" => v = w
    BY <2>1
  <2>8. /\ \/ GateVerdict(streams, r) = "Accepted"
           \/ Enters(r) = v /\ ~Opens(r) /\ r.kind # "PromptSubmit"
        /\ Enters(r) # "off" => StreamAgrees(GateAfter(streams, r)[StreamKey(r)], Enters(r))
    <3>1. \/ Opens(r)
          \/ /\ v \in Leaves(r)
             /\ StreamKey(r) \in DOMAIN streams => StreamAgrees(streams[StreamKey(r)], v)
      BY <1>4, <2>1, <2>2, <2>3, <2>7 DEF Mirrors
    <3> QED
      BY <1>2, <1>4, <3>1, BareGate
  <2>9. CASE e.kind = "SessionEnd"
    <3>1. AcceptsHook(act, r) /\ GateVerdict(streams, r) = "Accepted"
      <4>1. ~r.legacy
        BY <1>4, <2>9 DEF Bare
      <4> QED
        BY <1>4, <1>9, <2>6, <2>8, <2>9, <4>1
    <3>2. act' = ApplyHook(act, r)
      BY <1>6, <3>1
    <3>3. act'.owner = NoOwner
      <4>1. ApplyHook(act, r) = CommandFinished(Taken(act, r))
        BY <1>4, <2>9, <3>1 DEF ApplyHook
      <4> QED
        BY <3>2, <4>1, DefaultFits
    <3> QED
      BY <1>9, <1>11, <2>9, <3>3
  <2>10. CASE e.kind # "SessionEnd"
    <3>1. Enters(e) # "off" /\ r.kind # "SessionEnd"
      BY <1>4, <1>9, <2>10
    <3>2. StreamOf(c, e.session)' = StreamOf(c, e.session)
      BY <1>2 DEF StreamOf
    <3>3. ASSUME AcceptsHook(act, r), GateVerdict(streams, r) = "Accepted"
          PROVE  Mirrors(c, Enters(e), e.session)'
      <4>1. /\ act'.owner = RecordOwner(act.owner, r)
            /\ ~act'.ended /\ act'.coverage = "Lifecycle" /\ act'.status = StatusAfter(act, r)
        BY <1>2, <1>4, <1>6, <3>1, <3>3, BareApplied
      <4>2. /\ act'.owner.source = Provider[c].source /\ act'.owner.session = e.session
            /\ act'.owner.pid = c /\ act'.owner.process = None
        <5>1. /\ r.source = Provider[c].source /\ r.pid = c /\ r.process = None
              /\ r.session = e.session
          BY <1>4 DEF Bare
        <5>2. CASE act.owner = NoOwner
          BY <4>1, <5>1, <5>2 DEF RecordOwner
        <5>3. CASE act.owner # NoOwner
          <6>1. /\ act.owner \in Owners /\ act.owner.source = r.source
                /\ act.owner.pid = c /\ act.owner.process = None
            BY <1>2, <2>4, <5>3 DEF Activity
          <6>2. Either(r.session, act.owner.session) = e.session
            <7>1. CASE r.session # None
              BY <5>1, <7>1 DEF Either
            <7>2. CASE r.session = None
              <8>1. ~Opens(e) => act.owner.session = e.session
                BY <2>1, <2>4, <5>3
              <8>2. w # "up" => act.owner.session = None
                BY <1>5, <2>3, <5>1, <7>2 DEF Mirrors
              <8> QED
                BY <2>2, <5>1, <5>3, <7>2, <8>2 DEF Either
            <7> QED
              BY <7>1, <7>2
          <6> QED
            BY <1>2, <4>1, <5>1, <5>3, <6>1, <6>2 DEF RecordOwner, Owners, Either, None
        <5> QED
          BY <5>2, <5>3
      <4>3. Prompting(c)' \/ act'.status \in Showing(Enters(e))
        <5> SUFFICES ASSUME ~Prompting(c)' PROVE act'.status \in Showing(Enters(e))
          OBVIOUS
        <5>1. w \notin {"up"} /\ r.kind # "PromptSubmit" => act.status \in Showing(w)
          BY <1>4, <1>15, <2>3 DEF Mirrors
        <5>2. r.legacy => act.status \in {"Working", "Blocked"}
          BY <2>6, <3>3
        <5> QED
          BY <1>4, <2>1, <3>1, <4>1, <5>1, <5>2, BareStatus
      <4>4. /\ StreamOf(c, e.session)' \in DOMAIN streams'
               => StreamAgrees(streams'[StreamOf(c, e.session)'], Enters(e))
            /\ (e.session = None <=> ~Provider'[c].named)
        <5>1. streams' = GateAfter(streams, r)
          BY <1>6, <3>3
        <5> QED
          BY <1>2, <1>4, <1>5, <2>8, <3>1, <3>2, <5>1
      <4>5. Provider'[c] = Provider[c]
        BY <1>2
      <4> QED
        BY <1>8, <4>1, <4>2, <4>3, <4>4, <4>5, Zenon DEF Mirrors
    \* The pane has heard of it already, or it is a reminder of nothing.
    <3>4. ASSUME ~(AcceptsHook(act, r) /\ GateVerdict(streams, r) = "Accepted")
          PROVE  Mirrors(c, Enters(e), e.session)'
      <4>1. /\ Enters(e) = w /\ ~Opens(e) /\ e.kind # "PromptSubmit"
            /\ act' = act /\ streams' \in {streams, GateAfter(streams, r)}
        <5>1. act' = act /\ streams' \in {streams, GateAfter(streams, r)}
          BY <1>6, <3>4
        <5>2. CASE AcceptsHook(act, r)
          <6>1. GateVerdict(streams, r) # "Accepted"
            BY <3>4, <5>2
          <6>2. Enters(e) = v /\ ~Opens(e) /\ e.kind # "PromptSubmit"
            BY <1>4, <2>8, <6>1
          <6> QED
            BY <2>2, <2>7, <5>1, <6>2
        <5>3. CASE ~AcceptsHook(act, r)
          <6>1. e.kind = "NeedsAttention" /\ r.legacy
            BY <1>4, <2>6, <5>3 DEF Bare
          <6>2. Leaves(r) = {"idle"} /\ Enters(r) = "idle"
            BY <1>4, <6>1 DEF Leaves, Enters
          <6> QED
            BY <1>4, <2>1, <5>1, <6>1, <6>2 DEF Opens
        <5> QED
          BY <5>2, <5>3
      <4>2. e.session = s /\ Mirrors(c, w, s)
        BY <2>1, <2>2, <2>3, <4>1
      <4>3. Prompting(c)' \/ act'.status \in Showing(w)
        BY <1>15, <4>1, <4>2 DEF Mirrors
      <4>4. StreamOf(c, s)' \in DOMAIN streams' => StreamAgrees(streams'[StreamOf(c, s)'], w)
        <5>1. CASE streams' = streams
          BY <3>2, <4>2, <5>1 DEF Mirrors
        <5>2. CASE streams' = GateAfter(streams, r)
          BY <1>4, <2>8, <3>1, <3>2, <4>1, <4>2, <5>2
        <5> QED
          BY <4>1, <5>1, <5>2
      <4>5. Provider'[c] = Provider[c]
        BY <1>2
      <4>6. Mirrors(c, w, s)'
        BY <1>8, <4>1, <4>2, <4>3, <4>4, <4>5, Zenon DEF Mirrors
      <4> QED
        BY <4>1, <4>2, <4>6
    <3> QED
      BY <1>9, <1>11, <3>1, <3>3, <3>4
  <2> QED
    BY <2>9, <2>10
<1> QED
  BY <1>12, <1>13

\* An event makes nobody but its sender the owner of the pane, and while another agent
\* owns it none at all.
LEMMA OthersDisown ==
    ASSUME PaneInv, Direct, NEW d \in Clis, NEW e, Plain(d, e), HandleAiHook(e)
    PROVE  /\ \A c \in Clis : c # d /\ Owns(c)' => Owns(c)
           /\ act.owner.pid \in Clis \ {d} => UNCHANGED <<act, streams>>
<1> DEFINE r == Received(e)
<1>1. act \in Activity /\ act.owner \in Owners /\ None \notin Clis /\ Clis \subseteq Nat
  BY SetupFacts DEF PaneInv, Activity, None
<1>2. Bare(d, r) /\ Addressed(r) /\ r.pid = d /\ r.process = None
  BY BareReceived DEF Bare
<1>3. act' \in {act, ApplyHook(act, r)} /\ (~AcceptsHook(act, r) => UNCHANGED <<act, streams>>)
  BY DEF HandleAiHook
<1> HIDE DEF r
<1>4. act'.owner \in {act.owner, NoOwner, RecordOwner(act.owner, r)}
  BY <1>1, <1>2, <1>3, ApplyFits
<1>5. /\ RecordOwner(act.owner, r).pid \in {act.owner.pid, d}
      /\ RecordOwner(act.owner, r).process \in {act.owner.process, None}
  BY <1>1, <1>2 DEF RecordOwner, Either, Owners
<1>6. NoOwner.pid = None /\ NoOwner.process = None
  BY DEF NoOwner
<1>7. \A c \in Clis : c # d /\ Owns(c)' => Owns(c)
  BY <1>1, <1>4, <1>5, <1>6 DEF Owns
<1>8. ASSUME act.owner.pid \in Clis \ {d} PROVE ~AcceptsHook(act, r)
  <2>1. Known(act.owner.pid, r.pid) /\ act.owner.pid # r.pid /\ act.owner # NoOwner
    BY <1>1, <1>2, <1>6, <1>8 DEF Known
  <2> QED
    BY <2>1 DEF AcceptsHook, Foreign
<1> QED
  BY <1>3, <1>7, <1>8

\* The marks of the shell and the events of the agents reach the pane.
LEMMA ArriveHeeded ==
    ASSUME PaneInv, PaneInv', setup' = setup, Direct, PlainLanes, Foreground, Heeded,
           NEW l \in DOMAIN lane, NEW i, Arrive(l, i)
    PROVE  PlainLanes' /\ Foreground' /\ Heeded'
<1>0. /\ UNCHANGED <<Provider, Clis, Nested, Events>>
      /\ \A d, x : Plain(d, x)' <=> Plain(d, x)
  BY SameDirect
<1>1. /\ 0 \notin Clis /\ Clis \subseteq Nat /\ None \notin Clis
      /\ act \in Activity /\ l \in Clis \union {0}
  BY SetupFacts DEF PaneInv, None
<1>2. i = 1 /\ UNCHANGED <<job, last, cli, typed>>
  <2>1. UNCHANGED <<job, last, cli, typed>> /\ i \in DOMAIN lane[l]
        /\ \A j \in 1..i - 1 : Overtakes(l, lane[l][j], lane[l][i])
    BY DEF Arrive
  <2>2. \A x, y : ~Overtakes(l, x, y)
    BY <1>1 DEF Overtakes, Direct
  <2>3. i \in 1..Len(lane[l])
    BY <1>1, <2>1, LenProperties DEF PaneInv
  <2>4. ~(1 \in 1..i - 1)
    BY <2>1, <2>2
  <2> QED
    BY <2>1, <2>3, <2>4
<1>3. /\ 1 \in 1..Len(lane[l]) /\ Len(lane'[l]) = Len(lane[l]) - 1 /\ lane[l] # <<>>
      /\ \A m \in Clis \union {0} : m # l => lane'[m] = lane[m]
      /\ \A j \in 1..Len(lane'[l]) : j + 1 \in 1..Len(lane[l]) /\ lane'[l][j] = lane[l][j + 1]
  <2>1. Len(lane[l]) \in Nat /\ (lane[l] = <<>> => Len(lane[l]) = 0)
    BY <1>1, LenProperties, EmptySeq DEF PaneInv
  <2>2. /\ 1 \in 1..Len(lane[l]) /\ Len(lane'[l]) = Len(lane[l]) - 1
        /\ \A m \in Clis \union {0} : m # l => lane'[m] = lane[m]
        /\ \A j \in 1..Len(lane'[l]) : lane'[l][j] = lane[l][Was(j, 1)]
    <3>1. PICK m \in Clis \union {0} : m = l
      BY <1>1
    <3>2. Arrive(m, 1)
      BY <1>2, <3>1
    <3>3. /\ 1 \in 1..Len(lane[m]) /\ Len(lane'[m]) = Len(lane[m]) - 1
          /\ \A k \in Clis \union {0} : k # m => lane'[k] = lane[k]
          /\ \A j \in 1..Len(lane'[m]) : lane'[m][j] = lane[m][Was(j, 1)]
      BY <3>2, ArriveLanes
    <3> QED
      BY <3>1, <3>3
  <2>3. \A j \in 1..Len(lane'[l]) : Was(j, 1) = j + 1
    BY <2>1, <2>2 DEF Was
  <2> QED
    BY <2>1, <2>2, <2>3
<1> DEFINE e == lane[l][1]
<1>4. PlainLanes'
  <2>1. \A j \in 1..Len(lane'[0]) : lane'[0][j] \in Marks
    <3>1. CASE l = 0
      BY <1>3, <3>1 DEF PlainLanes
    <3>2. CASE l # 0
      BY <1>3, <3>2 DEF PlainLanes
    <3> QED
      BY <3>1, <3>2
  <2>2. ASSUME NEW c \in Clis, NEW j \in 1..Len(lane'[c]) PROVE Plain(c, lane'[c][j])
    <3>1. CASE l = c
      BY <1>3, <3>1 DEF PlainLanes
    <3>2. CASE l # c
      BY <1>3, <3>2 DEF PlainLanes
    <3> QED
      BY <3>1, <3>2
  <2> QED
    BY <1>0, <2>1, <2>2 DEF PlainLanes, Marks
<1>5. CASE l = 0
  <2>1. e \in Marks
    BY <1>3, <1>5 DEF PlainLanes
  <2>2. /\ act'.owner \in {act.owner, NoOwner} /\ UNCHANGED <<streams, lossy>>
    <3>1. OnCommandStart \/ OnCommandFinished
      BY <1>2, <2>1 DEF Arrive, Marks
    <3> QED
      BY <3>1, DefaultFits DEF OnCommandStart, OnCommandFinished
  <2>3. \A c \in Clis : Owns(c)' => Owns(c)
    BY <1>1, <2>2 DEF Owns, NoOwner
  <2>4. Foreground'
    BY <1>0, <1>1, <1>2, <1>3, <1>5, <2>3 DEF Foreground
  <2>5. job # None /\ job \notin lossy' => Mirrored(job)'
    <3> SUFFICES ASSUME job # None, job \notin lossy' PROVE Mirrored(job)'
      OBVIOUS
    <3>1. PICK d \in Clis : d = job
      BY DEF PaneInv
    <3>2. Mirrored(d)
      BY <2>2, <3>1 DEF Heeded
    <3>3. PICK w \in Phase, s \in Nat :
            /\ Leads(lane[d], w, s, cli[d].phase, Conversation(d))
            /\ IF w \in {"up", "off"} THEN ~Owns(d) ELSE Mirrors(d, w, s)
      BY <3>2 DEF Mirrored
    <3>4. w \in {"up", "off"} /\ ~Owns(d)'
      BY <1>3, <1>5, <2>3, <3>3 DEF Mirrors
    <3>5. lane'[d] = lane[d] /\ cli'[d] = cli[d] /\ Conversation(d)' = Conversation(d)
      BY <1>0, <1>1, <1>2, <1>3, <1>5 DEF Conversation
    <3>6. Leads(lane'[d], w, s, cli'[d].phase, Conversation(d)')
      BY <3>3, <3>5
    <3>7. Phase' = Phase
      BY DEF Phase
    <3>8. Mirrored(d)'
      BY <3>4, <3>6, <3>7, Zenon DEF Mirrored
    <3> QED
      BY <1>2, <3>1, <3>8
  <2> QED
    BY <1>2, <1>4, <2>4, <2>5 DEF Heeded
<1>6. CASE l # 0
  <2>1. PICK d \in Clis : d = l
    BY <1>1, <1>6
  <2>2. Plain(d, e) /\ (HandleAiHook(e) \/ Refuse(e))
    <3>1. Plain(d, e)
      BY <1>3, <2>1 DEF PlainLanes
    <3>2. e.kind \in Kind
      BY <3>1, PlainFields
    <3> QED
      BY <1>2, <3>1, <3>2 DEF Arrive, Kind
  <2>3. /\ \A c \in Clis : c # d /\ Owns(c)' => Owns(c)
        /\ act.owner.pid \in Clis \ {d} => UNCHANGED <<act, streams>>
    <3>1. CASE HandleAiHook(e)
      BY <2>2, <3>1, OthersDisown
    <3>2. CASE Refuse(e)
      <4>1. UNCHANGED <<act, streams>>
        BY <3>2 DEF Refuse
      <4> QED
        BY <4>1 DEF Owns
    <3> QED
      BY <2>2, <3>1, <3>2
  <2>4. lossy \subseteq lossy' /\ (Refuse(e) => d \in lossy')
    BY <2>2 DEF HandleAiHook, Refuse, Plain
  <2>5. lane'[0] = lane[0] /\ \A c \in Clis : c # d => lane'[c] = lane[c]
    BY <1>3, <1>6, <2>1
  <2>6. Foreground'
    <3>1. \A c \in Clis \ Nested : c > last => c # d
      BY <1>3, <2>1 DEF Foreground
    <3> QED
      BY <1>0, <1>2, <2>3, <2>5, <3>1 DEF Foreground
  <2>7. job # None /\ job \notin lossy' => Mirrored(job)'
    <3> SUFFICES ASSUME job # None, job \notin lossy' PROVE Mirrored(job)'
      OBVIOUS
    <3>1. PICK k \in Clis : k = job
      BY DEF PaneInv
    <3>2. Mirrored(k) /\ k \notin lossy'
      BY <2>4, <3>1 DEF Heeded
    <3>3. CASE k = d
      <4>1. Arrive(k, 1) /\ e = lane[k][1] /\ Plain(k, e)
        BY <1>2, <2>1, <2>2, <3>3
      <4>2. Mirrored(k)'
        BY <2>2, <2>4, <3>2, <3>3, <4>1, ArriveMirrored
      <4> QED
        BY <1>2, <3>1, <4>2
    <3>4. CASE k # d
      <4>1. PICK w \in Phase, s \in Nat :
              /\ Leads(lane[k], w, s, cli[k].phase, Conversation(k))
              /\ IF w \in {"up", "off"} THEN ~Owns(k) ELSE Mirrors(k, w, s)
        BY <3>2 DEF Mirrored
      <4>2. CASE w \in {"up", "off"}
        <5>1. ~Owns(k)'
          BY <2>3, <3>4, <4>1, <4>2
        <5>2. Leads(lane'[k], w, s, cli'[k].phase, Conversation(k)')
          BY <1>0, <1>2, <2>5, <3>4, <4>1 DEF Conversation
        <5>3. Phase' = Phase
          BY DEF Phase
        <5>4. Mirrored(k)'
          BY <4>2, <5>1, <5>2, <5>3, Zenon DEF Mirrored
        <5> QED
          BY <1>2, <3>1, <5>4
      <4>3. CASE w \notin {"up", "off"}
        <5>1. UNCHANGED <<act, streams>>
          BY <2>3, <3>4, <4>1, <4>3 DEF Mirrors
        <5>2. Mirrored(k)'
          BY <1>2, <2>5, <3>2, <3>4, <5>1, MirroredKept
        <5> QED
          BY <1>2, <3>1, <5>2
      <4> QED
        BY <4>2, <4>3
    <3> QED
      BY <3>3, <3>4
  <2> QED
    BY <1>2, <1>4, <2>6, <2>7 DEF Heeded
<1> QED
  BY <1>5, <1>6

\* The shell starts a command, or the one in the foreground exits.
LEMMA ShellHeeded ==
    ASSUME PaneInv, setup' = setup, Direct, PlainLanes, Foreground, Heeded, Launch \/ Exit
    PROVE  PlainLanes' /\ Foreground' /\ Heeded'
<1>0. /\ UNCHANGED <<Provider, Clis, Nested, Events>>
      /\ \A d, x : Plain(d, x)' <=> Plain(d, x)
  BY SameDirect
<1>1. /\ 0 \notin Clis /\ Clis \subseteq Nat /\ None \notin Clis /\ cli \in [Clis -> Agents]
      /\ lane \in [Clis \union {0} -> Seq(Events \union Marks)]
      /\ last \in Nat /\ job \in Clis \union {None}
  BY SetupFacts DEF PaneInv, None
<1>2. PICK m \in Marks : lane' = [lane EXCEPT ![0] = Append(@, m)]
  BY DEF Launch, Exit, Mark, Marks
<1>3. PlainLanes' /\ \A c \in Clis : lane'[c] = lane[c]
  <2>1. lane[0] \in Seq(Events \union Marks) /\ m \in Events \union Marks
    BY <1>1
  <2>2. /\ Len(Append(lane[0], m)) = Len(lane[0]) + 1 /\ Len(lane[0]) \in Nat
        /\ \A j \in 1..Len(lane[0]) : Append(lane[0], m)[j] = lane[0][j]
        /\ Append(lane[0], m)[Len(lane[0]) + 1] = m
    BY <2>1, AppendProperties, LenProperties
  <2>3. lane'[0] = Append(lane[0], m) /\ \A c \in Clis : lane'[c] = lane[c]
    BY <1>1, <1>2
  <2>4. ASSUME NEW j \in 1..Len(lane'[0]) PROVE lane'[0][j] \in Marks
    <3>1. CASE j \in 1..Len(lane[0])
      BY <2>2, <2>3, <3>1 DEF PlainLanes
    <3>2. CASE j = Len(lane[0]) + 1
      BY <2>2, <2>3, <3>2
    <3> QED
      BY <2>2, <2>3, <3>1, <3>2
  <2>5. \A c \in Clis : \A j \in 1..Len(lane'[c]) : Plain(c, lane'[c][j])
    BY <2>3 DEF PlainLanes
  <2> QED
    BY <1>0, <2>3, <2>4, <2>5 DEF PlainLanes, Marks
<1>4. UNCHANGED act /\ \A c : Owns(c)' <=> Owns(c)
  BY DEF Launch, Exit, Owns
<1>5. CASE Launch
  <2>1. PICK d \in Clis \ Nested : d = last + 1
    BY <1>5 DEF Launch
  <2>2. /\ job' = d /\ last' = d /\ d > last /\ cli' = [cli EXCEPT ![d].phase = "up"]
    BY <1>1, <1>5, <2>1 DEF Launch
  <2>3. lane[d] = <<>> /\ ~Owns(d)
    BY <2>2 DEF Foreground
  <2>4. /\ \A c \in Clis : c # d => cli'[c] = cli[c]
        /\ cli'[d].phase = "up" /\ cli'[d].session = cli[d].session
        /\ cli[d].session \in Nat
    BY <1>1, <2>2 DEF Agents
  <2>5. Foreground'
    <3>1. ASSUME NEW c \in Clis \ Nested, c > d PROVE c > last /\ c # d /\ c \in Clis
      BY <1>1, <2>1, <3>1
    <3>2. \A c \in Clis \ Nested : c > d =>
            cli'[c].phase = "off" /\ lane'[c] = <<>> /\ ~Owns(c)'
      BY <1>3, <1>4, <2>4, <3>1 DEF Foreground
    <3> QED
      BY <1>0, <2>1, <2>2, <3>2 DEF Foreground
  <2>6. Mirrored(d)'
    <3>1. PICK s : s = Conversation(d)'
      OBVIOUS
    <3>2. s \in Nat
      BY <1>0, <1>1, <2>1, <2>4, <3>1 DEF Conversation, None
    <3>3. Leads(<<>>, "up", s, "up", s)
      BY DEF Leads
    <3>4. Leads(lane'[d], "up", s, cli'[d].phase, Conversation(d)')
      BY <1>3, <2>3, <2>4, <3>1, <3>3
    <3>5. "up" \in Phase' /\ "up" \in {"up", "off"} /\ ~Owns(d)'
      BY <1>4, <2>3 DEF Phase
    <3> QED
      BY <3>2, <3>4, <3>5, Zenon DEF Mirrored
  <2> QED
    BY <1>3, <2>2, <2>5, <2>6 DEF Heeded
<1>6. CASE Exit
  <2>1. /\ job' = None /\ last' = last
        /\ \A c \in Clis : cli[c].phase = "off" => cli'[c].phase = "off"
    BY <1>1, <1>6 DEF Exit, Agents
  <2>2. Foreground'
    BY <1>0, <1>3, <1>4, <2>1 DEF Foreground
  <2> QED
    BY <1>3, <2>1, <2>2 DEF Heeded
<1> QED
  BY <1>5, <1>6

\* Hooks that report the whole lifecycle keep the screen out of the status.
LEMMA ScreenKeepsOut ==
    ASSUME act \in Activity, act.coverage = "Lifecycle", ~act.ended, ~Remote,
           \/ Submit \/ PressEnter \/ RefreshScreen \/ RefreshBlank \/ Stall \/ ForgetPrints
    PROVE  /\ ~act'.ended /\ act'.coverage = "Lifecycle"
           /\ typed' \/ act'.status = act.status
           /\ typed => typed'
<1>1. ~AllowsScreen(act) /\ HookSeen(act)
  BY DEF AllowsScreen, HookSeen
<1>2. CASE RefreshScreen \/ RefreshBlank
  <2>1. \A src : Identify(act, src) = act
    BY <1>1 DEF Identify
  <2>2. \A shown : Polled(act, shown) = act
    BY <1>1 DEF Polled
  <2>3. act' = act /\ typed' = typed
    BY <1>2, <2>1, <2>2 DEF RefreshScreen, RefreshBlank
  <2> QED
    BY <2>3
<1>3. ASSUME NEW a \in Activity
      PROVE  /\ InputSent(a).ended = a.ended /\ InputSent(a).coverage = a.coverage
             /\ InputSent(a).status = a.status
  BY DEF InputSent, NoSamples, Activity
<1>4. CASE Submit
  <2> DEFINE a == [act EXCEPT !.status = "Working", !.source = "Process",
                              !.fallback = "none", !.turnObserved = TRUE,
                              !.pending = TRUE, !.quiet = FALSE]
  <2>1. a \in Activity /\ a.ended = act.ended /\ a.coverage = act.coverage
    BY DEF Activity, Status, StatusSource
  <2>2. act' = InputSent(a) /\ typed'
    BY <1>4 DEF Submit, Submitted
  <2> HIDE DEF a
  <2> QED
    BY <1>3, <2>1, <2>2
<1>5. CASE PressEnter
  BY <1>3, <1>5 DEF PressEnter
<1>6. CASE Stall
  BY <1>6 DEF Stall, Activity
<1>7. CASE ForgetPrints
  BY <1>7 DEF ForgetPrints
<1> QED
  BY <1>2, <1>4, <1>5, <1>6, <1>7

\* The user, the poll and the clock.
LEMMA PaneHeeded ==
    ASSUME PaneInv, setup' = setup, Direct, PlainLanes, Foreground, Heeded,
           \/ Submit \/ PressEnter \/ RefreshScreen \/ RefreshBlank \/ Stall \/ ForgetPrints
    PROVE  PlainLanes' /\ Foreground' /\ Heeded'
<1>0. /\ UNCHANGED <<Provider, Clis, Nested, Events>>
      /\ \A d, x : Plain(d, x)' <=> Plain(d, x)
  BY SameDirect
<1>1. UNCHANGED <<job, last, cli, lane, lossy>>
  BY DEF Submit, PressEnter, RefreshScreen, RefreshBlank, Stall, ForgetPrints
<1>2. act'.owner = act.owner /\ streams' \in {streams, Forgotten(streams)}
  BY PaneFits
<1>3. PlainLanes'
  BY <1>0, <1>1 DEF PlainLanes, Marks
<1>4. \A c : Owns(c)' <=> Owns(c)
  BY <1>2 DEF Owns
<1>5. Foreground'
  BY <1>0, <1>1, <1>4 DEF Foreground
<1>6. job # None /\ job \notin lossy' => Mirrored(job)'
  <2> SUFFICES ASSUME job # None, job \notin lossy' PROVE Mirrored(job)'
    OBVIOUS
  <2>1. PICK d \in Clis : d = job
    BY DEF PaneInv
  <2>2. PICK w \in Phase, s \in Nat :
          /\ Leads(lane[d], w, s, cli[d].phase, Conversation(d))
          /\ IF w \in {"up", "off"} THEN ~Owns(d) ELSE Mirrors(d, w, s)
    BY <1>1, <2>1 DEF Heeded, Mirrored
  <2>3. Leads(lane'[d], w, s, cli'[d].phase, Conversation(d)') /\ Phase' = Phase
    BY <1>0, <1>1, <2>2 DEF Conversation, Phase
  <2>4. ASSUME Mirrors(d, w, s) PROVE Mirrors(d, w, s)'
    <3>1. act.coverage = "Lifecycle" /\ ~act.ended
      BY <2>4 DEF Mirrors
    <3>2. ~Remote /\ act \in Activity
      BY DEF Direct, Remote, PaneInv
    <3>3. /\ ~act'.ended /\ act'.coverage = "Lifecycle"
          /\ typed' \/ act'.status = act.status
          /\ typed => typed'
      BY <3>1, <3>2, ScreenKeepsOut
    <3>4. Prompting(d)' \/ act'.status \in Showing(w)
      BY <1>1, <2>4, <3>3 DEF Mirrors, Prompting
    <3>5. StreamOf(d, s) \in DOMAIN streams' => StreamAgrees(streams'[StreamOf(d, s)], w)
      <4>1. CASE streams' = streams
        BY <2>4, <4>1 DEF Mirrors
      <4>2. CASE streams' = Forgotten(streams)
        <5> SUFFICES ASSUME NEW k, k \in DOMAIN streams', StreamOf(d, s) = k
                     PROVE  StreamAgrees(streams'[k], w)
          OBVIOUS
        <5>1. k \in DOMAIN streams /\ streams'[k] = [streams[k] EXCEPT !.print = <<>>]
          BY <4>2 DEF Forgotten
        <5>2. streams[k] \in Stream /\ StreamAgrees(streams[k], w)
          BY <2>4, <5>1 DEF Mirrors, PaneInv, Table
        <5>3. streams'[k].life = streams[k].life /\ streams'[k].print = <<>>
          BY <5>1, <5>2 DEF Stream
        <5> QED
          BY <5>2, <5>3 DEF StreamAgrees
      <4> QED
        BY <1>2, <4>1, <4>2
    <3>6. Provider' = Provider /\ StreamOf(d, s)' = StreamOf(d, s)
      BY <1>0 DEF StreamOf
    <3>7. lane' = lane
      BY <1>1
    <3> QED
      BY <1>2, <2>4, <3>3, <3>4, <3>5, <3>6, <3>7, Zenon DEF Mirrors
  <2>5. IF w \in {"up", "off"} THEN ~Owns(d)' ELSE Mirrors(d, w, s)'
    BY <1>4, <2>2, <2>4
  <2>6. Mirrored(d)'
    BY <2>3, <2>5, Zenon DEF Mirrored
  <2> QED
    BY <1>1, <2>1, <2>6
<1> QED
  BY <1>1, <1>3, <1>5, <1>6 DEF Heeded

\* The pane learns that a command is over before the mark does: it is not the command
\* of an agent that owns the pane and is there.
LEMMA UnmarkedHeeded ==
    ASSUME PaneInv, setup' = setup, Direct, PlainLanes, Foreground, Heeded, FinishUnmarked
    PROVE  PlainLanes' /\ Foreground' /\ Heeded'
<1>0. /\ UNCHANGED <<Provider, Clis, Nested, Events>>
      /\ \A d, x : Plain(d, x)' <=> Plain(d, x)
  BY SameDirect
<1>1. UNCHANGED <<job, last, cli, lane, lossy>>
  BY DEF FinishUnmarked
<1>2. \A c \in Clis : ~Owns(c)'
  <2>1. act'.owner = NoOwner /\ None \notin Clis
    BY DefaultFits, SetupFacts DEF FinishUnmarked, PaneInv, None
  <2> QED
    BY <2>1 DEF Owns, NoOwner
<1>3. PlainLanes'
  BY <1>0, <1>1 DEF PlainLanes, Marks
<1>4. Foreground'
  BY <1>0, <1>1, <1>2 DEF Foreground
<1>5. ASSUME job # None, job \notin lossy PROVE Mirrored(job)'
  <2>1. PICK d \in Clis : d = job
    BY <1>5 DEF PaneInv
  <2>2. PICK w \in Phase, s \in Nat :
          /\ Leads(lane[d], w, s, cli[d].phase, Conversation(d))
          /\ IF w \in {"up", "off"} THEN ~Owns(d) ELSE Mirrors(d, w, s)
    BY <1>5, <2>1 DEF Heeded, Mirrored
  <2>3. w \in {"up", "off"}
    BY <1>5, <2>1, <2>2 DEF FinishUnmarked, Alive, Mirrors
  <2>4. Leads(lane'[d], w, s, cli'[d].phase, Conversation(d)') /\ Phase' = Phase
    BY <1>0, <1>1, <2>2 DEF Conversation, Phase
  <2>5. ~Owns(d)'
    BY <1>2
  <2>6. Mirrored(d)'
    BY <2>3, <2>4, <2>5, Zenon DEF Mirrored
  <2> QED
    BY <1>1, <2>1, <2>6
<1> QED
  BY <1>1, <1>3, <1>4, <1>5 DEF Heeded

-----------------------------------------------------------------------------

StatusInv == PaneInv /\ (Direct => PlainLanes /\ Foreground /\ Heeded)

\* The path is at its end: the pane shows the phase of the agent.
LEMMA MirrorsAgree ==
    ASSUME StatusInv, Direct
    PROVE  StatusAgrees
<1> SUFFICES ASSUME NEW c \in Clis, c = job, c \notin lossy, ~typed,
                    lane[0] = <<>>, lane[LaneOf(c)] = <<>>,
                    c \in {act.owner.pid, act.owner.process}
             PROVE  act.status \in Agreeing(c)
  BY DEF StatusAgrees
<1>1. c # None /\ LaneOf(c) = c /\ Owns(c)
  BY SetupFacts DEF StatusInv, PaneInv, None, LaneOf, Direct, Owns
<1>2. Mirrored(c)
  BY <1>1 DEF StatusInv, Heeded
<1>3. PICK w \in Phase, s \in Nat :
        /\ Leads(lane[c], w, s, cli[c].phase, Conversation(c))
        /\ IF w \in {"up", "off"} THEN ~Owns(c) ELSE Mirrors(c, w, s)
  BY <1>2 DEF Mirrored
<1>4. w = cli[c].phase
  BY <1>1, <1>3 DEF Leads
<1>5. w \in {"idle", "working", "blocked"} /\ Mirrors(c, w, s)
  BY <1>1, <1>3 DEF Phase
<1>6. ~Prompting(c)
  <2>1. \A j \in 1..Len(lane[c]) : FALSE
    BY <1>1, EmptySeq
  <2> QED
    BY <2>1 DEF Prompting
<1>7. act.status \in Showing(w)
  BY <1>5, <1>6 DEF Mirrors
<1>8. Reports(c)
  <2> DEFINE p == [source |-> Provider[c].source, codex |-> Provider[c].codex]
  <2>1. p.codex = "none" /\ p.source \in LifecycleSources
    BY DEF Direct
  <2> HIDE DEF p
  <2>2. CoverageOf(p) = "Lifecycle"
    BY <2>1, FullCoverage
  <2> QED
    BY <2>2 DEF Reports, p
<1> QED
  BY <1>4, <1>5, <1>7, <1>8 DEF Agreeing, Showing

\* In a pane of local agents that report their whole lifecycle in order, whatever is
\* lost, refused or repeated, however long the agents run, whichever agents they spawn,
\* whatever the user types and whether or not the pane learns of the end of a command
\* before its mark: once everything the owner of the pane sent has arrived, none of it
\* lost or refused, and no submission is under way, the pane shows what the agent does
\* (lifecycle.rs apply_hook and accepts_hook; ordering.rs EventGate).
THEOREM StatusIsTrue == Spec => [](Direct => StatusAgrees)
<1>1. Init => StatusInv
  <2> SUFFICES ASSUME Init PROVE StatusInv
    OBVIOUS
  <2>1. PaneInv
    BY InitFits
  <2>2. /\ job = None /\ act.owner = NoOwner /\ 0 \notin Clis /\ 0 \in Clis \union {0}
        /\ \A l \in Clis \union {0} : lane[l] = <<>>
        /\ \A c \in Clis : cli[c].phase = "off"
    BY <2>1, SetupFacts, DefaultFits DEF Init, PaneInv
  <2>3. \A c \in Clis : ~Owns(c)
    BY <2>2 DEF Owns, NoOwner, None
  <2>4. PlainLanes
    BY <2>2, EmptySeq DEF PlainLanes
  <2>5. Foreground
    BY <2>2, <2>3 DEF Foreground
  <2>6. Heeded
    BY <2>2 DEF Heeded
  <2> QED
    BY <2>1, <2>4, <2>5, <2>6 DEF StatusInv
<1>2. StatusInv /\ [Next]_vars => StatusInv'
  <2> SUFFICES ASSUME StatusInv, [Next]_vars PROVE StatusInv'
    OBVIOUS
  <2>1. PaneInv /\ PaneInv' /\ setup' = setup
    BY NextFits DEF StatusInv
  <2>2. (Direct' <=> Direct) /\ UNCHANGED <<Provider, Clis, Nested>>
    BY <2>1, SameDirect
  <2> SUFFICES ASSUME Direct, PlainLanes, Foreground, Heeded
               PROVE  PlainLanes' /\ Foreground' /\ Heeded'
    BY <2>1, <2>2 DEF StatusInv
  <2>3. CASE UNCHANGED vars
    <3>1. UNCHANGED <<act, streams, job, last, cli, lane, typed, lossy>>
      BY <2>3 DEF vars
    <3>2. \A d, x : Plain(d, x)' <=> Plain(d, x)
      BY <2>1, SameDirect
    <3>3. PlainLanes'
      BY <2>2, <3>1, <3>2 DEF PlainLanes, Marks
    <3>4. Foreground'
      BY <2>2, <3>1 DEF Foreground, Owns
    <3>5. Heeded'
      <4> SUFFICES ASSUME job # None, job \notin lossy PROVE Mirrored(job)'
        BY <3>1 DEF Heeded
      <4>1. PICK d \in Clis : d = job
        BY <2>1 DEF PaneInv
      <4>2. Mirrored(d)'
        BY <2>1, <3>1, <4>1, MirroredKept DEF Heeded
      <4> QED
        BY <3>1, <4>1, <4>2
    <3> QED
      BY <3>3, <3>4, <3>5
  <2>4. CASE Launch \/ Exit
    BY <2>1, <2>4, ShellHeeded
  <2>5. CASE \E c \in Clis : Agent(c)
    BY <2>1, <2>5, AgentHeeded
  <2>6. CASE \E l \in DOMAIN lane : \E i \in DOMAIN lane[l] : Arrive(l, i)
    BY <2>1, <2>6, ArriveHeeded
  <2>7. CASE Submit \/ PressEnter \/ RefreshScreen \/ RefreshBlank \/ Stall \/ ForgetPrints
    BY <2>1, <2>7, PaneHeeded
  <2>8. CASE FinishUnmarked
    BY <2>1, <2>8, UnmarkedHeeded
  <2> QED
    BY <2>3, <2>4, <2>5, <2>6, <2>7, <2>8 DEF Next
<1>3. StatusInv => (Direct => StatusAgrees)
  BY MirrorsAgree
<1> QED
  BY <1>1, <1>2, <1>3, PTL DEF Spec
=============================================================================
