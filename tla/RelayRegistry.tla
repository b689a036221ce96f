--------------------------- MODULE RelayRegistry ---------------------------
(***************************************************************************)
(* The blind relay: the room registry (relay/registry.rs) and the task     *)
(* that owns one upgraded WebSocket (relay/server.rs, run_socket).         *)
(*                                                                         *)
(* A lease is identified by the generation the registry gave it.  The      *)
(* registry lock makes reserve, announce, forward and the drop of a lease  *)
(* atomic; everything between two of those calls interleaves freely.       *)
(*                                                                         *)
(* partner, forwarded and delivered are history: whom a lease was paired   *)
(* with, how many packets it handed over, and the number of the last       *)
(* packet written to its socket.  No guard reads partner or delivered.     *)
(***************************************************************************)
EXTENDS Integers, Sequences, FiniteSets

CONSTANTS
    Rooms,           \* configured rooms
    MaxGeneration,   \* where checked_add of the generation counter gives up
    MaxPeers,        \* permits of the `peers` semaphore
    QueuePackets,    \* QUEUE_PACKETS, the capacity of a lease's queue
    MaxForwards,     \* bound: packets one client sends over one lease
    Mortal           \* the leases whose client may lose its network

ASSUME RelayConstants ==
    /\ Rooms # {}
    /\ MaxGeneration \in Nat
    /\ MaxPeers \in Nat
    /\ QueuePackets \in Nat /\ QueuePackets >= 2
    /\ MaxForwards \in Nat
    /\ Mortal \subseteq 1..MaxGeneration

VARIABLES
    generation,  \* Registry.generation
    slot,        \* room.peers: the generation of the peer in a slot, or NoLease
    home,        \* Lease.room and Lease.role
    phase,       \* where the task that owns the lease is
    active,      \* Peer.active
    cancelled,   \* Peer.cancel, shared with Lease.cancel
    queue,       \* the mpsc channel from the registry to the task
    awaiting,    \* awaiting_pong.is_some()
    shutdown,    \* the relay's CancellationToken
    silent,      \* the client stopped sending (its network died)
    partner, forwarded, delivered

vars == <<generation, slot, home, phase, active, cancelled, queue, awaiting,
          shutdown, silent, partner, forwarded, delivered>>

NoLease == 0
Leases == 1..MaxGeneration
Role == {"desktop", "mobile"}
Peer(role) == IF role = "desktop" THEN "mobile" ELSE "desktop"
Slots == Rooms \X Role

\* "reserved": reserve succeeded, the upgrade has not finished.
\* "running":  the select loop of run_socket.
\* "closing":  the loop was left, or the upgrade abandoned; the lease is held.
\* "failed":   announce returned Err; the permit is gone and the queue's
\*             receiver goes next, the lease is still held.
\* "closed":   the lease is dropped; the permit is held while the socket closes.
Phase == {"none", "reserved", "running", "closing", "failed", "closed", "gone"}
Held == {"reserved", "running", "closing", "failed"}
Permitted == {"reserved", "running", "closing", "closed"}

\* tag: the epoch of a "paired" notice, the sending lease of a packet.
Message == [type : {"waiting", "paired", "data"}, tag : Nat, n : Nat]
Waiting == [type |-> "waiting", tag |-> 0, n |-> 0]
Paired(epoch) == [type |-> "paired", tag |-> epoch, n |-> 0]
Data(g, k) == [type |-> "data", tag |-> g, n |-> k]

Across(s) == <<s[1], Peer(s[2])>>
SlotOf(g) == slot[home[g]]
Opposite(g) == slot[Across(home[g])]
PermitsInUse == Cardinality({g \in Leases : phase[g] \in Permitted})

Init ==
    /\ generation = 0
    /\ slot = [s \in Slots |-> NoLease]
    /\ home = [g \in Leases |-> CHOOSE s \in Slots : TRUE]
    /\ phase = [g \in Leases |-> "none"]
    /\ active = [g \in Leases |-> FALSE]
    /\ cancelled = [g \in Leases |-> FALSE]
    /\ queue = [g \in Leases |-> << >>]
    /\ awaiting = [g \in Leases |-> FALSE]
    /\ shutdown = FALSE
    /\ silent = [g \in Leases |-> FALSE]
    /\ partner = [g \in Leases |-> NoLease]
    /\ forwarded = [g \in Leases |-> 0]
    /\ delivered = [g \in Leases |-> 0]

-----------------------------------------------------------------------------
\* Mutant: the last generation is passed.
CountableTooFar == generation <= MaxGeneration

\* checked_add.
Countable == generation < MaxGeneration

\* The upgrade handler: shutdown, the permit and the vacant slot are its
\* early returns, and a refused request changes nothing.
Reserve(s) ==
    /\ ~shutdown
    /\ PermitsInUse < MaxPeers
    /\ slot[s] = NoLease
    /\ Countable
    /\ LET g == generation + 1 IN
       /\ generation' = g
       /\ slot' = [slot EXCEPT ![s] = g]
       /\ home' = [home EXCEPT ![g] = s]
       /\ phase' = [phase EXCEPT ![g] = "reserved"]
    /\ UNCHANGED <<active, cancelled, queue, awaiting, shutdown, silent,
                   partner, forwarded, delivered>>

\* The client never finishes the upgrade: the callback is dropped unrun.
Abandon(g) ==
    /\ phase[g] = "reserved"
    /\ phase' = [phase EXCEPT ![g] = "closing"]
    /\ UNCHANGED <<generation, slot, home, active, cancelled, queue, awaiting,
                   shutdown, silent, partner, forwarded, delivered>>

\* Mutant: a queue one packet deeper than the budget.
FitsOneMore(g) == Len(queue[g]) <= QueuePackets

\* try_send finds room.
Fits(g) == Len(queue[g]) < QueuePackets

\* Mutant: computed before the lease's own flag is set.
PairedByBefore(g) ==
    /\ active[g] /\ ~cancelled[g]
    /\ Opposite(g) # NoLease
    /\ active[Opposite(g)] /\ ~cancelled[Opposite(g)]

\* Both slots hold an active, uncancelled peer once g is active.
PairedBy(g) ==
    /\ ~cancelled[g]
    /\ Opposite(g) # NoLease
    /\ active[Opposite(g)]
    /\ ~cancelled[Opposite(g)]

\* The "relay.waiting" notice goes to the announcing lease alone.
AnnounceAlone(g) ==
    /\ ~PairedBy(g)
    /\ queue' = [queue EXCEPT ![g] = IF Fits(g) THEN Append(@, Waiting) ELSE @]
    /\ phase' = [phase EXCEPT ![g] = IF Fits(g) THEN "running" ELSE "failed"]
    /\ UNCHANGED partner

\* The "relay.paired" notice goes to slot 0, then to slot 1; the first full
\* queue ends the loop with an error.  Epochs are fresh: each lease announces
\* at most once, so its generation names the epoch it started.
AnnouncePaired(g) ==
    /\ PairedBy(g)
    /\ LET h == Opposite(g)
           first == IF home[g][2] = "desktop" THEN g ELSE h
           second == IF home[g][2] = "desktop" THEN h ELSE g
           ok == Fits(first) /\ Fits(second)
       IN /\ queue' = [l \in Leases |->
                 IF (l = first /\ Fits(first)) \/ (l = second /\ ok)
                 THEN Append(queue[l], Paired(g)) ELSE queue[l]]
          /\ phase' = [phase EXCEPT ![g] = IF ok THEN "running" ELSE "failed"]
          /\ partner' = [partner EXCEPT ![g] = h, ![h] = g]

\* Secret::generate finds no randomness for the epoch: announce returns after
\* it set the flag and before it told anybody.
AnnounceUnsecured(g) ==
    /\ PairedBy(g)
    /\ phase' = [phase EXCEPT ![g] = "failed"]
    /\ UNCHANGED <<queue, partner>>

Announce(g) ==
    /\ phase[g] = "reserved"
    /\ SlotOf(g) = g
    /\ ~active[g]
    /\ ~cancelled[g]
    /\ active' = [active EXCEPT ![g] = TRUE]
    /\ AnnounceAlone(g) \/ AnnouncePaired(g) \/ AnnounceUnsecured(g)
    /\ UNCHANGED <<generation, slot, home, cancelled, awaiting, shutdown,
                   silent, forwarded, delivered>>

\* The other way out of announce.  run_socket returns at once and its
\* parameters go in reverse order: the permit before the lease.
AnnounceRefused(g) ==
    /\ phase[g] = "reserved"
    /\ SlotOf(g) # g \/ active[g] \/ cancelled[g]
    /\ phase' = [phase EXCEPT ![g] = "failed"]
    /\ UNCHANGED <<generation, slot, home, active, cancelled, queue, awaiting,
                   shutdown, silent, partner, forwarded, delivered>>

-----------------------------------------------------------------------------
(* The select loop of run_socket.  Its branches are polled in random order, *)
(* so a cancelled lease may still take any other branch first.              *)
\* Mutant: a paired socket runs on.
StopsWaiting(g) == shutdown /\ partner[g] = NoLease

\* shutdown.cancelled()
Stops(g) == shutdown

ShutdownSeen(g) ==
    /\ phase[g] = "running" /\ Stops(g)
    /\ phase' = [phase EXCEPT ![g] = "closing"]
    /\ UNCHANGED <<generation, slot, home, active, cancelled, queue, awaiting,
                   shutdown, silent, partner, forwarded, delivered>>

CancelSeen(g) ==
    /\ phase[g] = "running" /\ cancelled[g]
    /\ phase' = [phase EXCEPT ![g] = "closing"]
    /\ UNCHANGED <<generation, slot, home, active, cancelled, queue, awaiting,
                   shutdown, silent, partner, forwarded, delivered>>

\* queue.recv and a send that finishes within ten seconds.
Deliver(g) ==
    /\ phase[g] = "running" /\ queue[g] # << >>
    /\ queue' = [queue EXCEPT ![g] = Tail(@)]
    /\ delivered' = [delivered EXCEPT
           ![g] = IF Head(queue[g]).type = "data" THEN Head(queue[g]).n ELSE @]
    /\ UNCHANGED <<generation, slot, home, phase, active, cancelled, awaiting,
                   shutdown, silent, partner, forwarded>>

\* queue.recv and a send that fails or times out.
DeliverFails(g) ==
    /\ phase[g] = "running" /\ queue[g] # << >>
    /\ queue' = [queue EXCEPT ![g] = Tail(@)]
    /\ phase' = [phase EXCEPT ![g] = "closing"]
    /\ UNCHANGED <<generation, slot, home, active, cancelled, awaiting,
                   shutdown, silent, partner, forwarded, delivered>>

\* Mutant: a tick never looks for the last pong.
NeverOverdue(g) == FALSE

\* awaiting_pong.is_some() when the heartbeat ticks.
Overdue(g) == awaiting[g]

\* Every 25 seconds: a second tick without a pong in between leaves the loop.
Heartbeat(g) ==
    /\ phase[g] = "running"
    /\ phase' = [phase EXCEPT ![g] = IF Overdue(g) THEN "closing" ELSE @]
    /\ awaiting' = [awaiting EXCEPT ![g] = TRUE]
    /\ UNCHANGED <<generation, slot, home, active, cancelled, queue, shutdown,
                   silent, partner, forwarded, delivered>>

\* The ping cannot be written within ten seconds.
HeartbeatFails(g) ==
    /\ phase[g] = "running" /\ ~Overdue(g)
    /\ phase' = [phase EXCEPT ![g] = "closing"]
    /\ awaiting' = [awaiting EXCEPT ![g] = TRUE]
    /\ UNCHANGED <<generation, slot, home, active, cancelled, queue, shutdown,
                   silent, partner, forwarded, delivered>>

ReceivePong(g) ==
    /\ phase[g] = "running" /\ ~silent[g] /\ awaiting[g]
    /\ awaiting' = [awaiting EXCEPT ![g] = FALSE]
    /\ UNCHANGED <<generation, slot, home, phase, active, cancelled, queue,
                   shutdown, silent, partner, forwarded, delivered>>

\* Mutant: a cancelled sender may still forward.
CanForwardCancelled(g) ==
    /\ Opposite(g) # NoLease
    /\ active[Opposite(g)]
    /\ ~cancelled[Opposite(g)]

\* The target of Lease::forward: the occupant of the opposite slot, whoever
\* that is now.
CanForward(g) ==
    /\ ~cancelled[g]
    /\ Opposite(g) # NoLease
    /\ active[Opposite(g)]
    /\ ~cancelled[Opposite(g)]

\* A Binary frame that Lease::forward accepts.
ReceiveBinary(g) ==
    /\ phase[g] = "running" /\ ~silent[g]
    /\ forwarded[g] < MaxForwards
    /\ CanForward(g) /\ Fits(Opposite(g))
    /\ queue' = [queue EXCEPT ![Opposite(g)] =
                     Append(@, Data(g, forwarded[g] + 1))]
    /\ forwarded' = [forwarded EXCEPT ![g] = @ + 1]
    /\ UNCHANGED <<generation, slot, home, phase, active, cancelled, awaiting,
                   shutdown, silent, partner, delivered>>

\* A Binary frame for a peer whose queue is full, or already without its
\* receiver: the peer is cancelled and the sender leaves its loop too.
ReceiveBinaryFull(g) ==
    /\ phase[g] = "running" /\ ~silent[g]
    /\ CanForward(g)
    /\ ~Fits(Opposite(g)) \/ phase[Opposite(g)] = "failed"
    /\ cancelled' = [cancelled EXCEPT ![Opposite(g)] = TRUE]
    /\ phase' = [phase EXCEPT ![g] = "closing"]
    /\ UNCHANGED <<generation, slot, home, active, queue, awaiting, shutdown,
                   silent, partner, forwarded, delivered>>

\* The end of the stream, a frame of another kind, a rate over the limit, or
\* a Binary frame that Lease::forward refuses for want of a live peer.
ReceiveBreak(g) ==
    /\ phase[g] = "running" /\ ~silent[g]
    /\ phase' = [phase EXCEPT ![g] = "closing"]
    /\ UNCHANGED <<generation, slot, home, active, cancelled, queue, awaiting,
                   shutdown, silent, partner, forwarded, delivered>>

-----------------------------------------------------------------------------
\* Mutant: the peer stays connected and waits for the next one.
CancelNobody(g) == UNCHANGED cancelled

\* No reuse of a live socket for a new peer.
CancelPeer(g) ==
    cancelled' = IF Opposite(g) = NoLease THEN cancelled
                 ELSE [cancelled EXCEPT ![Opposite(g)] = TRUE]

\* Drop for Lease: only the occupant vacates the slot, and it takes the peer
\* in the opposite slot with it.  The task's queue and timers go as well:
\* nothing reads them any more.
DropLease(g) ==
    /\ phase[g] \in {"closing", "failed"}
    /\ phase' = [phase EXCEPT ![g] = IF @ = "failed" THEN "gone" ELSE "closed"]
    /\ IF SlotOf(g) = g
       THEN /\ slot' = [slot EXCEPT ![home[g]] = NoLease]
            /\ CancelPeer(g)
       ELSE UNCHANGED <<slot, cancelled>>
    /\ queue' = [queue EXCEPT ![g] = << >>]
    /\ awaiting' = [awaiting EXCEPT ![g] = FALSE]
    /\ UNCHANGED <<generation, home, active, shutdown, silent, partner,
                   forwarded, delivered>>

\* send.close ends (or times out) and run_socket returns: the permit is free.
ReleasePermit(g) ==
    /\ phase[g] = "closed"
    /\ phase' = [phase EXCEPT ![g] = "gone"]
    /\ UNCHANGED <<generation, slot, home, active, cancelled, queue, awaiting,
                   shutdown, silent, partner, forwarded, delivered>>

\* The environment: the operator stops the relay, or a client's network dies.
Shutdown ==
    /\ ~shutdown
    /\ shutdown' = TRUE
    /\ UNCHANGED <<generation, slot, home, phase, active, cancelled, queue,
                   awaiting, silent, partner, forwarded, delivered>>

GoSilent(g) ==
    /\ g \in Mortal
    /\ phase[g] = "running" /\ ~silent[g]
    /\ silent' = [silent EXCEPT ![g] = TRUE]
    /\ UNCHANGED <<generation, slot, home, phase, active, cancelled, queue,
                   awaiting, shutdown, partner, forwarded, delivered>>

Loop(g) ==
    \/ ShutdownSeen(g) \/ CancelSeen(g) \/ Deliver(g) \/ DeliverFails(g)
    \/ Heartbeat(g) \/ HeartbeatFails(g) \/ ReceivePong(g)
    \/ ReceiveBinary(g) \/ ReceiveBinaryFull(g) \/ ReceiveBreak(g)

Next ==
    \/ \E s \in Slots : Reserve(s)
    \/ \E g \in Leases :
          \/ Abandon(g) \/ Announce(g) \/ AnnounceRefused(g)
          \/ Loop(g)
          \/ DropLease(g) \/ ReleasePermit(g)
          \/ GoSilent(g)
    \/ Shutdown

Spec == Init /\ [][Next]_vars

(* What the tokio runtime owes every task: an upgrade ends one way or the   *)
(* other within the ten seconds of serve_ready, a ready cancellation branch *)
(* is eventually polled, the heartbeat ticks, and a finished task drops its *)
(* values.  Nothing is assumed of clients or of the operator.               *)
Fairness == \A g \in Leases :
    /\ WF_vars(Abandon(g) \/ Announce(g) \/ AnnounceRefused(g))
    /\ WF_vars(ShutdownSeen(g))
    /\ WF_vars(CancelSeen(g))
    /\ WF_vars(Heartbeat(g))
    /\ WF_vars(DropLease(g))
    /\ WF_vars(ReleasePermit(g))

FairSpec == Spec /\ Fairness

-----------------------------------------------------------------------------
(* Properties.                                                              *)

TypeOK ==
    /\ generation \in 0..MaxGeneration
    /\ slot \in [Slots -> 0..MaxGeneration]
    /\ home \in [Leases -> Slots]
    /\ phase \in [Leases -> Phase]
    /\ active \in [Leases -> BOOLEAN]
    /\ cancelled \in [Leases -> BOOLEAN]
    /\ queue \in [Leases -> Seq(Message)]
    /\ awaiting \in [Leases -> BOOLEAN]
    /\ shutdown \in BOOLEAN
    /\ silent \in [Leases -> BOOLEAN]
    /\ partner \in [Leases -> 0..MaxGeneration]
    /\ forwarded \in [Leases -> Nat]
    /\ delivered \in [Leases -> Nat]

(* Two leases that forward would let talk to each other (opposite slots,    *)
(* active, not cancelled) are exactly the two that were told "relay.paired" *)
(* with the same epoch, unless the task of one of them has already left     *)
(* run_socket because announce failed.  forward looks the peer up by slot,  *)
(* so this is what keeps a packet from reaching a client that never joined  *)
(* the link: a queue without a task is never written to a socket.           *)
LivePairIsLinked ==
    \A s \in Slots :
        LET a == slot[s]
            b == slot[Across(s)]
        IN (/\ a # NoLease /\ b # NoLease
            /\ active[a] /\ active[b]
            /\ ~cancelled[a] /\ ~cancelled[b]
            /\ phase[a] # "failed" /\ phase[b] # "failed")
           => partner[a] = b

(* Every packet waiting for a task came from the lease's partner, the       *)
(* packets are consecutive and end with the last one the partner sent, so   *)
(* none overtakes a notice or another packet (registry.rs, forward).  And a *)
(* client whose packets were accepted outside any link, for a peer whose    *)
(* announce failed (registry.rs:123), pays with its connection: it has      *)
(* left, it is cancelled, or that peer still holds its lease and cancels it *)
(* on the way out.                                                          *)
QueuedForLink ==
    \A g \in Leases : phase[g] # "failed" => \A i \in 1..Len(queue[g]) :
        queue[g][i].type = "data" =>
            /\ partner[g] # NoLease
            /\ queue[g][i].tag = partner[g]
            /\ queue[g][i].n = forwarded[partner[g]] - (Len(queue[g]) - i)

OutsideIsDoomed ==
    \A g \in Leases :
        (phase[g] \in Held /\ partner[g] = NoLease /\ forwarded[g] > 0) =>
            \/ cancelled[g]
            \/ Opposite(g) # NoLease /\ phase[Opposite(g)] = "failed"

QueueHoldsLink == QueuedForLink /\ OutsideIsDoomed

(* A queue never holds more than QUEUE_PACKETS messages, and a notice never *)
(* finds it full: announce fails for a cancelled lease, or because no epoch *)
(* could be drawn, when it has linked nobody and the peer it found is still *)
(* in the opposite slot, to be cancelled when the failed lease is dropped.  *)
QueueBounded ==
    \A g \in Leases :
        /\ Len(queue[g]) <= QueuePackets
        /\ phase[g] = "failed" =>
              \/ cancelled[g]
              \/ /\ partner[g] = NoLease
                 /\ Opposite(g) # NoLease /\ active[Opposite(g)]

(* A lease that left takes its partner with it: whoever was linked to it is *)
(* cancelled (or gone) and can never forward or be forwarded to again.      *)
DepartureCancelsPartner ==
    \A g \in Leases :
        (partner[g] # NoLease /\ phase[g] \notin Held) =>
            cancelled[partner[g]] \/ phase[partner[g]] \notin Held

(* What holds LivePairIsLinked, DepartureCancelsPartner and QueueBounded up. *)
(* A slot and the lease in it know each other; a lease that has not          *)
(* announced has no partner and nothing in its queue; partners are mutual,   *)
(* in opposite slots of one room and both announced; the peer a failed       *)
(* announce found has no partner either; and without a partner there is at   *)
(* most the one "waiting" notice for a task to read.                         *)
Owned ==
    /\ \A s \in Slots : slot[s] # NoLease =>
          phase[slot[s]] \in Held /\ home[slot[s]] = s
    /\ \A g \in Leases : phase[g] \in Held => slot[home[g]] = g
    /\ \A g \in Leases : g > generation => phase[g] = "none"

Fresh ==
    \A g \in Leases :
        /\ phase[g] \in {"none", "reserved"} => ~active[g]
        /\ phase[g] = "running" => active[g]
        /\ ~active[g] => partner[g] = NoLease /\ queue[g] = << >>

Mutual ==
    \A g \in Leases : partner[g] # NoLease =>
        /\ partner[partner[g]] = g
        /\ home[partner[g]] = Across(home[g])

Stranded ==
    \A g \in Leases : (phase[g] = "failed" /\ ~cancelled[g]) =>
        /\ partner[g] = NoLease
        /\ Opposite(g) # NoLease
        /\ active[Opposite(g)] /\ partner[Opposite(g)] = NoLease

Lonely ==
    \A g \in Leases : (partner[g] = NoLease /\ phase[g] # "failed") =>
        Len(queue[g]) <= 1

RelayInv ==
    /\ Owned /\ Fresh /\ Mutual /\ Stranded /\ Lonely
    /\ LivePairIsLinked /\ DepartureCancelsPartner /\ QueueBounded

(* What holds QueueHoldsLink and LinkSpec up: nothing is sent before the     *)
(* announcement or received outside a link, and the queue of a running task  *)
(* is some notices, then exactly the packets its partner sent and its client *)
(* has not received.                                                         *)
Unsent == \A g \in Leases : ~active[g] => forwarded[g] = 0

InOrder ==
    \A g \in Leases :
        /\ partner[g] = NoLease => delivered[g] = 0
        /\ (partner[g] # NoLease /\ phase[g] = "running") =>
              \E k \in 0..Len(queue[g]) :
                 /\ \A i \in 1..Len(queue[g]) : queue[g][i].type = "data" <=> i > k
                 /\ delivered[g] = forwarded[partner[g]] - (Len(queue[g]) - k)

(* The relay implements the link it promises to its two clients.  A packet   *)
(* taken from a client that has no link enters none.                         *)
Link == INSTANCE RelayLink WITH
    Ends <- Leases,
    status <- [g \in Leases |-> CASE phase[g] = "none" -> "new"
                                  [] phase[g] \in Held -> "open"
                                  [] OTHER -> "closed"],
    partner <- partner,
    sent <- [g \in Leases |-> IF partner[g] = NoLease THEN 0 ELSE forwarded[g]],
    got <- delivered

LinkSpec == Link!Spec

(* A lost partner ends the link on the other side as well.                  *)
PartnerLossCloses ==
    \A g \in Leases :
        (partner[g] # NoLease /\ phase[g] = "closed")
            ~> (\E h \in Leases : partner[g] = h /\ phase[h] = "gone")

(* A client that stopped answering cannot keep its slot: the second missed  *)
(* heartbeat frees it for the reconnecting client.                          *)
SilentPeerEvicted ==
    \A g \in Leases : silent[g] ~> (slot[home[g]] # g)

(* After shutdown every slot and every permit comes back.                   *)
ShutdownDrains == shutdown ~> \A g \in Leases : phase[g] \in {"none", "gone"}
=============================================================================
