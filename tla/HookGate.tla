------------------------------ MODULE HookGate ------------------------------
(***************************************************************************)
(* The ordering gate of agent hook events (ai_hook/ordering.rs): one       *)
(* stream per provider, session and process, with stale, duplicate and     *)
(* out-of-life events refused; and the reordering of one pump batch.       *)
(*                                                                         *)
(* An event is a record                                                    *)
(*   kind, source, session, pid, process, instance   (identity)            *)
(*   seq, id, at, received                           (order)               *)
(*   busy, body, ...                                 (payload)             *)
(* where None stands for an absent field.  busy says that the payload      *)
(* counts active background tasks; body is what the fingerprint hashes of  *)
(* the text of the event.  A provider time stamp is a number of its own    *)
(* clock; DUPLICATE_WINDOW_MS is a window of the receiver's clock, after   *)
(* which a fingerprint is forgotten (Forgotten).                           *)
(***************************************************************************)
EXTENDS Integers, Sequences, FiniteSets, SequencesExt

CONSTANTS
    MaxStreams,   \* MAX_TRACKED_STREAMS
    MaxIds        \* MAX_EVENT_IDS_PER_STREAM

ASSUME GateConstants == MaxStreams \in Nat \ {0} /\ MaxIds \in Nat \ {0}

None == 0
Kind == {"SessionStart", "PromptSubmit", "ToolComplete", "TurnDone",
         "NeedsAttention", "SessionEnd"}
Lifecycle == {"Active", "Blocked", "Done", "Ended"}

\* The part of the key that names a conversation is the bridge for pi.
StreamKey(e) ==
    <<e.source,
      IF e.source = "pi" /\ e.instance # None THEN e.instance ELSE e.session,
      e.pid, e.process>>

NewStream(e) == [seq |-> None, at |-> None, received |-> e.received,
                 life |-> "Active", ids |-> <<>>, print |-> <<>>]

\* SerializedDelivery is the one capability the gate reads.
SerializedDelivery(e) == e.source = "opencode"

Fingerprint(e) == <<e.kind, e.body, e.busy>>

UsesFingerprint(e) ==
    /\ e.id = None /\ e.seq = None /\ e.at = None
    /\ e.kind \in {"TurnDone", "NeedsAttention", "SessionEnd"}

Compared(now, before) == now # None /\ before # None

StrictlyNewer(s, e) ==
    IF Compared(e.seq, s.seq) THEN e.seq > s.seq
                              ELSE Compared(e.at, s.at) /\ e.at > s.at

\* Mutant: order is not looked at.
VerdictUnordered(s, e) ==
    IF s.life = "Ended" /\ e.kind # "SessionStart" THEN "AfterSessionEnd" ELSE "Accepted"

\* The verdict of a known stream on an event.
Verdict(s, e) ==
    IF e.id # None /\ Contains(s.ids, e.id) THEN "DuplicateEventId"
    ELSE IF Compared(e.seq, s.seq) /\ e.seq <= s.seq THEN "StaleSequence"
    ELSE IF ~Compared(e.seq, s.seq) /\ Compared(e.at, s.at) /\ e.at < s.at
         THEN "StaleTime"
    ELSE IF UsesFingerprint(e) /\ s.print = Fingerprint(e) THEN "DuplicateFingerprint"
    ELSE IF s.life = "Ended" /\ e.kind # "SessionStart" THEN "AfterSessionEnd"
    ELSE IF /\ s.life = "Done" /\ e.kind = "ToolComplete"
            /\ ~StrictlyNewer(s, e)
            /\ ~(SerializedDelivery(e) /\ e.seq # None)
         THEN "UnorderedAfterDone"
    ELSE "Accepted"

LifeAfter(e) ==
    CASE e.kind \in {"SessionStart", "PromptSubmit", "ToolComplete"} -> "Active"
      [] e.kind = "TurnDone" -> IF e.busy THEN "Active" ELSE "Done"
      [] e.kind = "NeedsAttention" -> "Blocked"
      [] e.kind = "SessionEnd" -> "Ended"

\* Mutant: ids are compared but never kept.
IdsForgotten(s, e) == <<>>

\* seen_event_ids after an accepted event: a start forgets, the oldest falls out.
IdsAfter(s, e) ==
    LET kept == IF e.kind = "SessionStart" THEN <<>> ELSE s.ids
        room == IF e.id # None /\ Len(kept) = MaxIds THEN Tail(kept) ELSE kept
    IN  IF e.id = None THEN kept ELSE Append(room, e.id)

\* What an accepted event leaves of the stream.
Record(s, e) ==
    [seq      |-> IF e.seq # None THEN e.seq ELSE s.seq,
     at       |-> IF e.at # None THEN e.at ELSE s.at,
     received |-> IF e.received > s.received THEN e.received ELSE s.received,
     life     |-> LifeAfter(e),
     ids      |-> IdsAfter(s, e),
     print    |-> IF UsesFingerprint(e) THEN Fingerprint(e) ELSE <<>>]

\* Mutant: nothing is dropped from a full table.
TrackedAll(streams, e) ==
    IF StreamKey(e) \in DOMAIN streams THEN streams
    ELSE [k \in DOMAIN streams \union {StreamKey(e)} |->
            IF k = StreamKey(e) THEN NewStream(e) ELSE streams[k]]

\* The table an event finds: its stream is created on first sight, and the stream
\* heard least recently is dropped when the table is full.
Tracked(streams, e) ==
    LET key == StreamKey(e)
        oldest == CHOOSE k \in DOMAIN streams :
                    \A other \in DOMAIN streams :
                        streams[k].received <= streams[other].received
        kept == IF Cardinality(DOMAIN streams) >= MaxStreams
                THEN DOMAIN streams \ {oldest} ELSE DOMAIN streams
    IN  IF key \in DOMAIN streams THEN streams
        ELSE [k \in kept \union {key} |->
                IF k = key THEN NewStream(e) ELSE streams[k]]

GateVerdict(streams, e) == Verdict(Tracked(streams, e)[StreamKey(e)], e)

GateAfter(streams, e) ==
    LET table == Tracked(streams, e)
        key == StreamKey(e)
    IN  IF Verdict(table[key], e) = "Accepted"
        THEN [table EXCEPT ![key] = Record(@, e)] ELSE table

\* The receiver's clock leaves the duplicate window of every fingerprint.
Forgotten(streams) == [k \in DOMAIN streams |-> [streams[k] EXCEPT !.print = <<>>]]

-----------------------------------------------------------------------------
(* reorder_batch: a stream whose events of the batch all carry a sequence  *)
(* number is sorted by it, in the slots its events had; the others stay.   *)

Slots(batch, key) == {i \in DOMAIN batch : StreamKey(batch[i]) = key}

GroupSequenced(batch, key) == \A i \in Slots(batch, key) : batch[i].seq # None

\* Mutant: the order of arrival.
ArrivalOrder(batch, i, j) == i < j

\* sort_by_key is stable: equal numbers keep their order of arrival.
Before(batch, i, j) ==
    batch[i].seq < batch[j].seq \/ (batch[i].seq = batch[j].seq /\ i < j)

\* The slot whose event ends in slot i.
SourceSlot(batch, i) ==
    LET slots == Slots(batch, StreamKey(batch[i]))
        rank(j, order(_, _)) == Cardinality({k \in slots : order(k, j)})
        earlier(k, j) == k < j
        sooner(k, j) == Before(batch, k, j)
    IN  CHOOSE j \in slots : rank(j, sooner) = rank(i, earlier)

ReorderBatch(batch) ==
    [i \in DOMAIN batch |->
        IF GroupSequenced(batch, StreamKey(batch[i]))
        THEN batch[SourceSlot(batch, i)] ELSE batch[i]]

\* The gate over a whole batch, in order: the verdicts and the final table.
GateRun(streams, batch) ==
    FoldLeft(LAMBDA acc, e :
                [table |-> GateAfter(acc.table, e),
                 verdicts |-> Append(acc.verdicts, GateVerdict(acc.table, e))],
             [table |-> streams, verdicts |-> <<>>], batch)
=============================================================================
