------------------------ MODULE RelayRegistryProofs ------------------------
(***************************************************************************)
(* Proofs about the relay, for any number of rooms, leases, permits and    *)
(* packets.                                                                *)
(***************************************************************************)
EXTENDS RelayRegistry, TLAPS

(* The two slots of a room: each is across the other.                       *)
LEMMA AcrossFacts ==
    ASSUME NEW s \in Slots
    PROVE  /\ Across(s) \in Slots
           /\ Across(s) # s
           /\ Across(Across(s)) = s
  BY DEF Across, Slots, Peer, Role

(* Types are kept by every step.                                            *)
LEMMA TypeStep ==
    ASSUME TypeOK, [Next]_vars
    PROVE  TypeOK'
<1> USE RelayConstants DEF NoLease
<1>1. \A g \in Leases : g \in 1..MaxGeneration /\ g \in Nat
  BY DEF Leases
<1>2. CASE \E s \in Slots : Reserve(s)
  <2>1. PICK s \in Slots : Reserve(s)
    BY <1>2
  <2>2. generation + 1 \in Leases /\ generation' = generation + 1
    BY <2>1 DEF Reserve, Countable, TypeOK, Leases
  <2>3. generation + 1 \in 0..MaxGeneration
    BY <2>2 DEF Leases
  <2>4. slot' \in [Slots -> 0..MaxGeneration] /\ home' \in [Leases -> Slots]
    BY <2>1, <2>3 DEF Reserve, TypeOK
  <2>5. phase' \in [Leases -> Phase]
    BY <2>1 DEF Reserve, TypeOK, Phase
  <2>6. QED
    BY <2>1, <2>2, <2>3, <2>4, <2>5 DEF Reserve, TypeOK
<1>3. CASE \E g \in Leases : Abandon(g) \/ AnnounceRefused(g) \/ ReleasePermit(g)
  BY <1>3 DEF Abandon, AnnounceRefused, ReleasePermit, TypeOK, Phase
<1>4. CASE \E g \in Leases : Announce(g)
  <2>1. PICK g \in Leases : Announce(g)
    BY <1>4
  <2>2. /\ active' \in [Leases -> BOOLEAN]
        /\ UNCHANGED <<generation, slot, home, cancelled, awaiting, shutdown,
                       silent, forwarded, delivered>>
    BY <2>1 DEF Announce, TypeOK
  <2>3. Waiting \in Message /\ Paired(g) \in Message
    BY <1>1 DEF Waiting, Paired, Message
  <2>4. CASE AnnounceAlone(g)
    BY <2>2, <2>3, <2>4 DEF AnnounceAlone, TypeOK, Phase
  <2>5. CASE AnnouncePaired(g)
    <3>1. Opposite(g) \in Leases
      <4>1. Opposite(g) # NoLease
        BY <2>5 DEF AnnouncePaired, PairedBy
      <4>2. Across(home[g]) \in Slots
        BY AcrossFacts DEF TypeOK
      <4>3. QED
        BY <4>1, <4>2 DEF Opposite, TypeOK, Leases
    <3>2. phase' \in [Leases -> Phase]
      BY <2>5 DEF AnnouncePaired, TypeOK, Phase
    <3>3. partner' \in [Leases -> 0..MaxGeneration]
      <4>1. g \in 0..MaxGeneration /\ Opposite(g) \in 0..MaxGeneration
        BY <3>1 DEF Leases
      <4>2. partner' = [partner EXCEPT ![g] = Opposite(g), ![Opposite(g)] = g]
        BY <2>5 DEF AnnouncePaired
      <4>3. QED
        BY <4>1, <4>2 DEF TypeOK
    <3>4. queue' \in [Leases -> Seq(Message)]
      BY <2>5, <2>3 DEF AnnouncePaired, TypeOK
    <3>5. QED
      BY <2>2, <3>2, <3>3, <3>4 DEF TypeOK
  <2>6. CASE AnnounceUnsecured(g)
    BY <2>2, <2>6 DEF AnnounceUnsecured, TypeOK, Phase
  <2>7. QED
    BY <2>1, <2>4, <2>5, <2>6 DEF Announce
<1>5. CASE \E g \in Leases : Loop(g)
  <2>1. PICK g \in Leases : Loop(g)
    BY <1>5
  <2>2. CASE ShutdownSeen(g) \/ CancelSeen(g) \/ ReceiveBreak(g)
    BY <2>2 DEF ShutdownSeen, CancelSeen, ReceiveBreak, TypeOK, Phase
  <2>3. CASE Deliver(g) \/ DeliverFails(g)
    <3>1. Head(queue[g]) \in Message /\ Tail(queue[g]) \in Seq(Message)
      BY <2>3 DEF Deliver, DeliverFails, TypeOK
    <3>2. Head(queue[g]).n \in Nat
      BY <3>1 DEF Message
    <3>3. QED
      BY <2>3, <3>1, <3>2 DEF Deliver, DeliverFails, TypeOK, Phase
  <2>4. CASE Heartbeat(g) \/ HeartbeatFails(g) \/ ReceivePong(g)
    BY <2>4 DEF Heartbeat, HeartbeatFails, ReceivePong, TypeOK, Phase
  <2>5. CASE ReceiveBinary(g)
    <3>1. Data(g, forwarded[g] + 1) \in Message
      BY <1>1 DEF Data, Message, TypeOK
    <3>2. queue' \in [Leases -> Seq(Message)]
      <4>1. queue' = [queue EXCEPT ![Opposite(g)] =
                          Append(@, Data(g, forwarded[g] + 1))]
        BY <2>5 DEF ReceiveBinary
      <4>2. \A l \in Leases :
                Append(queue[l], Data(g, forwarded[g] + 1)) \in Seq(Message)
        BY <3>1 DEF TypeOK
      <4>3. QED
        BY <4>1, <4>2 DEF TypeOK
    <3>3. forwarded' \in [Leases -> Nat]
      BY <2>5 DEF ReceiveBinary, TypeOK
    <3>4. QED
      BY <2>5, <3>2, <3>3 DEF ReceiveBinary, TypeOK
  <2>6. CASE ReceiveBinaryFull(g)
    BY <2>6 DEF ReceiveBinaryFull, TypeOK, Phase
  <2>7. QED
    BY <2>1, <2>2, <2>3, <2>4, <2>5, <2>6 DEF Loop
<1>6. CASE \E g \in Leases : DropLease(g)
  <2>1. PICK g \in Leases : DropLease(g)
    BY <1>6
  <2>2. slot' \in [Slots -> 0..MaxGeneration]
    <3>1. slot' = slot \/ slot' = [slot EXCEPT ![home[g]] = NoLease]
      BY <2>1 DEF DropLease
    <3>2. NoLease \in 0..MaxGeneration
      OBVIOUS
    <3>3. QED
      BY <3>1, <3>2 DEF TypeOK
  <2>3. cancelled' \in [Leases -> BOOLEAN]
    <3>1. \/ cancelled' = cancelled
          \/ cancelled' = [cancelled EXCEPT ![Opposite(g)] = TRUE]
      BY <2>1 DEF DropLease, CancelPeer
    <3>2. QED
      BY <3>1 DEF TypeOK
  <2>4. queue' \in [Leases -> Seq(Message)]
    BY <2>1 DEF DropLease, TypeOK
  <2>5. phase' \in [Leases -> Phase] /\ awaiting' \in [Leases -> BOOLEAN]
    BY <2>1 DEF DropLease, TypeOK, Phase
  <2>6. QED
    BY <2>1, <2>2, <2>3, <2>4, <2>5 DEF DropLease, TypeOK
<1>7. CASE Shutdown \/ \E g \in Leases : GoSilent(g)
  BY <1>7 DEF Shutdown, GoSilent, TypeOK
<1>8. CASE UNCHANGED vars
  BY <1>8 DEF vars, TypeOK
<1>9. QED
  BY <1>2, <1>3, <1>4, <1>5, <1>6, <1>7, <1>8 DEF Next

LEMMA TypeInit ==
    ASSUME Init
    PROVE  TypeOK
<1>1. PICK r \in Rooms : TRUE
  BY RelayConstants
<1>2. <<r, "desktop">> \in Slots
  BY DEF Slots, Role
<1>3. (CHOOSE s \in Slots : TRUE) \in Slots
  BY <1>2
<1>4. queue \in [Leases -> Seq(Message)]
  BY DEF Init
<1>5. /\ generation \in 0..MaxGeneration
      /\ slot \in [Slots -> 0..MaxGeneration]
      /\ partner \in [Leases -> 0..MaxGeneration]
  BY RelayConstants DEF Init, NoLease
<1>6. home \in [Leases -> Slots] /\ phase \in [Leases -> Phase]
  BY <1>3 DEF Init, Phase
<1>7. QED
  BY <1>4, <1>5, <1>6 DEF Init, TypeOK

(* The registry and the socket tasks keep their types: in particular the    *)
(* generation never passes the point where checked_add gives up.            *)
THEOREM TypeCorrect == Spec => []TypeOK
  BY TypeInit, TypeStep, PTL DEF Spec

-----------------------------------------------------------------------------
(* Occupants of slots and partners are leases.                              *)
LEMMA LeaseFacts ==
    ASSUME TypeOK
    PROVE  /\ \A s \in Slots : slot[s] # NoLease => slot[s] \in Leases
           /\ \A g \in Leases : partner[g] # NoLease => partner[g] \in Leases
           /\ \A g \in Leases : home[g] \in Slots
  BY RelayConstants DEF TypeOK, Leases, NoLease

LEMMA InvInit ==
    ASSUME Init
    PROVE  RelayInv
<1>1. Owned /\ Fresh /\ Mutual /\ Stranded
  BY DEF Init, Owned, Fresh, Mutual, Stranded, Held
<1>2. Lonely /\ QueueBounded
  BY RelayConstants DEF Init, Lonely, QueueBounded
<1>3. LivePairIsLinked /\ DepartureCancelsPartner
  BY DEF Init, LivePairIsLinked, DepartureCancelsPartner
<1>4. QED
  BY <1>1, <1>2, <1>3 DEF RelayInv

(* A step that leaves the slots and the partners alone, cancels but never   *)
(* revives, shortens queues, and moves a task only towards its end without  *)
(* letting go of the lease.                                                 *)
LEMMA QuietStep ==
    ASSUME TypeOK, TypeOK', RelayInv,
           UNCHANGED <<generation, slot, home, active, partner>>,
           \A l \in Leases : cancelled[l] => cancelled'[l],
           \A l \in Leases : \/ queue'[l] = queue[l]
                             \/ Len(queue'[l]) < Len(queue[l]),
           \A l \in Leases :
               \/ phase'[l] = phase[l]
               \/ /\ phase[l] \in {"reserved", "running"}
                  /\ \/ phase'[l] = "closing"
                     \/ phase'[l] = "failed" /\ cancelled'[l]
               \/ phase[l] = "closed" /\ phase'[l] = "gone"
    PROVE  RelayInv'
<1>1. \A l \in Leases : phase'[l] \in Held <=> phase[l] \in Held
  BY DEF Held
<1>2. \A l \in Leases : Len(queue[l]) \in Nat /\ Len(queue'[l]) \in Nat
  BY DEF TypeOK
<1>3. Owned'
  <2>1. \A g \in Leases : g > generation' => phase'[g] = "none"
    BY DEF RelayInv, Owned
  <2>2. QED
    BY <1>1, <2>1, LeaseFacts DEF RelayInv, Owned
<1>4. Fresh'
  <2>1. \A g \in Leases : ~active[g] => queue'[g] = << >>
    BY <1>2 DEF RelayInv, Fresh
  <2>2. QED
    BY <2>1 DEF RelayInv, Fresh
<1>5. Mutual'
  BY DEF RelayInv, Mutual
<1>6. Lonely'
  BY <1>2 DEF RelayInv, Lonely
<1>7. LivePairIsLinked'
  BY LeaseFacts, AcrossFacts DEF RelayInv, LivePairIsLinked
<1>8. DepartureCancelsPartner'
  BY <1>1, LeaseFacts DEF RelayInv, DepartureCancelsPartner
<1>9. Stranded'
  BY DEF RelayInv, Stranded, Opposite
<1>10. QueueBounded'
  <2>1. \A g \in Leases : Len(queue'[g]) <= QueuePackets
    BY <1>2, RelayConstants DEF RelayInv, QueueBounded
  <2>2. QED
    BY <1>9, <2>1 DEF QueueBounded, Stranded
<1>11. QED
  BY <1>3, <1>4, <1>5, <1>6, <1>7, <1>8, <1>9, <1>10 DEF RelayInv

(* A new lease takes a vacant slot; nobody can have it for a partner yet.   *)
LEMMA ReserveStep ==
    ASSUME TypeOK, TypeOK', RelayInv, NEW s \in Slots, Reserve(s)
    PROVE  RelayInv'
<1> DEFINE g == generation + 1
<1>1. g \in Leases /\ phase[g] = "none" /\ g > generation /\ g # NoLease
  BY RelayConstants DEF Reserve, Countable, TypeOK, Leases, RelayInv, Owned,
                        NoLease
<1>2. /\ generation' = g
      /\ slot' = [slot EXCEPT ![s] = g]
      /\ home' = [home EXCEPT ![g] = s]
      /\ phase' = [phase EXCEPT ![g] = "reserved"]
      /\ slot[s] = NoLease
      /\ UNCHANGED <<active, cancelled, queue, partner>>
  BY DEF Reserve
<1>3. ~active[g] /\ partner[g] = NoLease /\ queue[g] = << >>
  BY <1>1 DEF RelayInv, Fresh
<1>4. /\ slot'[s] = g /\ home'[g] = s /\ phase'[g] = "reserved"
      /\ \A r \in Slots : r # s => slot'[r] = slot[r]
      /\ \A l \in Leases : l # g => home'[l] = home[l] /\ phase'[l] = phase[l]
  BY <1>1, <1>2 DEF TypeOK
<1> HIDE DEF g
<1>5. \A r \in Slots : slot[r] # g
  BY <1>1 DEF RelayInv, Owned, Held
<1>6. \A l \in Leases : partner[l] # g
  BY <1>1, <1>3 DEF RelayInv, Mutual, NoLease, Leases
<1>7. Owned'
  <2>1. \A r \in Slots : slot'[r] # NoLease =>
            phase'[slot'[r]] \in Held /\ home'[slot'[r]] = r
    BY <1>4, <1>5, LeaseFacts DEF RelayInv, Owned, Held
  <2>2. \A l \in Leases : phase'[l] \in Held => slot'[home'[l]] = l
    <3>1. \A l \in Leases : l # NoLease
      BY DEF Leases, NoLease
    <3>2. QED
      BY <1>2, <1>4, <3>1, LeaseFacts DEF RelayInv, Owned
  <2>3. \A l \in Leases : l > generation' => phase'[l] = "none"
    <3>1. \A l \in Leases : l > g => l # g /\ l > generation
      BY <1>1 DEF g, TypeOK, Leases
    <3>2. QED
      BY <1>2, <1>4, <3>1 DEF RelayInv, Owned
  <2>4. QED
    BY <2>1, <2>2, <2>3 DEF Owned
<1>8. Fresh'
  BY <1>2, <1>3, <1>4 DEF RelayInv, Fresh
<1>9. Mutual'
  BY <1>2, <1>3, <1>4, <1>6, LeaseFacts DEF RelayInv, Mutual
<1>10. Lonely'
  BY <1>2, <1>3, <1>4 DEF RelayInv, Lonely
<1>11. LivePairIsLinked'
  <2>1. \A r \in Slots : slot'[r] = slot[r] \/ slot'[r] = g
    BY <1>4
  <2>2. \A r \in Slots : slot'[r] # NoLease /\ active[slot'[r]] =>
            slot'[r] = slot[r] /\ phase'[slot[r]] = phase[slot[r]]
    BY <1>3, <1>4, <1>5, <2>1, LeaseFacts
  <2>3. QED
    BY <1>2, <2>2, AcrossFacts DEF RelayInv, LivePairIsLinked
<1>12. DepartureCancelsPartner'
  BY <1>2, <1>3, <1>4, <1>6, LeaseFacts DEF RelayInv, DepartureCancelsPartner
<1>13. Stranded'
  <2> SUFFICES ASSUME NEW l \in Leases, phase'[l] = "failed", ~cancelled[l]
               PROVE  /\ partner[l] = NoLease
                      /\ Opposite(l)' # NoLease
                      /\ active[Opposite(l)'] /\ partner[Opposite(l)'] = NoLease
    BY <1>2 DEF Stranded
  <2>1. l # g /\ phase[l] = "failed" /\ home'[l] = home[l]
    BY <1>4
  <2>2. /\ partner[l] = NoLease /\ Opposite(l) # NoLease
        /\ active[Opposite(l)] /\ partner[Opposite(l)] = NoLease
    BY <2>1 DEF RelayInv, Stranded
  <2>3. Across(home[l]) \in Slots
    BY LeaseFacts, AcrossFacts
  <2>4. Opposite(l)' = Opposite(l)
    BY <1>2, <1>4, <2>1, <2>2, <2>3 DEF Opposite
  <2>5. QED
    BY <2>2, <2>4
<1>14. QueueBounded'
  BY <1>2, <1>13 DEF RelayInv, QueueBounded, Stranded
<1>15. QED
  BY <1>7, <1>8, <1>9, <1>10, <1>11, <1>12, <1>13, <1>14 DEF RelayInv

(* forward finds the partner, or a lease whose announce failed.             *)
LEMMA BinaryStep ==
    ASSUME TypeOK, TypeOK', RelayInv, NEW g \in Leases, ReceiveBinary(g)
    PROVE  RelayInv'
<1> DEFINE o == Opposite(g)
<1>1. /\ phase[g] = "running" /\ ~cancelled[g] /\ o # NoLease
      /\ active[o] /\ ~cancelled[o] /\ Fits(o)
      /\ queue' = [queue EXCEPT ![o] = Append(@, Data(g, forwarded[g] + 1))]
      /\ UNCHANGED <<generation, slot, home, phase, active, cancelled, partner>>
  BY DEF ReceiveBinary, CanForward
<1>2. home[g] \in Slots /\ slot[home[g]] = g /\ o = slot[Across(home[g])]
  BY <1>1, LeaseFacts DEF RelayInv, Owned, Held, Opposite
<1>3. o \in Leases /\ active[g] /\ g # NoLease
  BY <1>1, <1>2, LeaseFacts, AcrossFacts
     DEF RelayInv, Fresh, Leases, NoLease
<1>4. phase[o] # "failed" => partner[g] = o /\ partner[o] = g
  BY <1>1, <1>2, <1>3 DEF RelayInv, LivePairIsLinked, Mutual
<1> HIDE DEF o
<1>5. Len(queue'[o]) <= QueuePackets
  BY <1>1, <1>3, RelayConstants DEF Fits, TypeOK
<1>6. \A l \in Leases : l # o => queue'[l] = queue[l]
  BY <1>1 DEF TypeOK
<1>7. Owned' /\ Mutual'
  BY <1>1 DEF RelayInv, Owned, Mutual
<1>8. LivePairIsLinked' /\ DepartureCancelsPartner'
  BY <1>1 DEF RelayInv, LivePairIsLinked, DepartureCancelsPartner
<1>9. Fresh'
  BY <1>1, <1>6 DEF RelayInv, Fresh
<1>10. Lonely'
  BY <1>1, <1>3, <1>4, <1>6 DEF RelayInv, Lonely
<1>11. Stranded'
  BY <1>1 DEF RelayInv, Stranded, Opposite
<1>12. QueueBounded'
  BY <1>1, <1>5, <1>6, <1>11 DEF RelayInv, QueueBounded, Stranded
<1>13. QED
  BY <1>7, <1>8, <1>9, <1>10, <1>11, <1>12 DEF RelayInv

(* The lease still holds its slot, so its partner, if it is still there, is *)
(* the occupant of the opposite one: exactly the lease that is cancelled.   *)
LEMMA DropStep ==
    ASSUME TypeOK, TypeOK', RelayInv, NEW g \in Leases, DropLease(g)
    PROVE  RelayInv'
<1>1. phase[g] \in Held /\ phase[g] # "none" /\ phase[g] # "reserved"
  BY DEF DropLease, Held
<1>2. home[g] \in Slots /\ slot[home[g]] = g
  BY <1>1, LeaseFacts DEF RelayInv, Owned
<1>3. /\ slot' = [slot EXCEPT ![home[g]] = NoLease]
      /\ CancelPeer(g)
      /\ UNCHANGED <<generation, home, active, partner>>
  BY <1>2 DEF DropLease, SlotOf
<1>4. /\ phase'[g] \in {"closed", "gone"}
      /\ \A l \in Leases : l # g => phase'[l] = phase[l]
  BY DEF DropLease, TypeOK
<1>5. queue'[g] = << >> /\ \A l \in Leases : l # g => queue'[l] = queue[l]
  BY DEF DropLease, TypeOK
<1>6. /\ slot'[home[g]] = NoLease
      /\ \A s \in Slots : s # home[g] => slot'[s] = slot[s]
  BY <1>2, <1>3 DEF TypeOK
<1>7. \A l \in Leases : cancelled[l] => cancelled'[l]
  BY <1>3 DEF CancelPeer, TypeOK
<1>8. Opposite(g) # NoLease => cancelled'[Opposite(g)]
  <2>1. Opposite(g) # NoLease => Opposite(g) \in Leases
    BY <1>2, LeaseFacts, AcrossFacts DEF Opposite
  <2>2. QED
    BY <1>3, <2>1 DEF CancelPeer, TypeOK
<1>9. Owned'
  <2>1. \A s \in Slots : slot'[s] # NoLease =>
            phase'[slot'[s]] \in Held /\ home'[slot'[s]] = s
    BY <1>2, <1>3, <1>4, <1>6, LeaseFacts DEF RelayInv, Owned
  <2>2. \A l \in Leases : phase'[l] \in Held => slot'[home'[l]] = l
    BY <1>2, <1>3, <1>4, <1>6, LeaseFacts DEF RelayInv, Owned, Held
  <2>3. \A l \in Leases : l > generation' => phase'[l] = "none"
    BY <1>1, <1>3, <1>4 DEF RelayInv, Owned
  <2>4. QED
    BY <2>1, <2>2, <2>3 DEF Owned
<1>10. Fresh'
  BY <1>3, <1>4, <1>5 DEF RelayInv, Fresh
<1>11. Mutual'
  BY <1>3 DEF RelayInv, Mutual
<1>12. Lonely'
  <2>1. Len(queue'[g]) = 0
    BY <1>5
  <2>2. QED
    BY <1>3, <1>4, <1>5, <2>1 DEF RelayInv, Lonely
<1>13. LivePairIsLinked'
  <2>1. \A s \in Slots : slot'[s] # NoLease =>
            slot'[s] = slot[s] /\ phase'[slot[s]] = phase[slot[s]]
    BY <1>2, <1>4, <1>6, LeaseFacts DEF RelayInv, Owned
  <2>2. QED
    BY <1>3, <1>7, <2>1, AcrossFacts, LeaseFacts DEF RelayInv, LivePairIsLinked
<1>14. DepartureCancelsPartner'
  <2> SUFFICES ASSUME NEW l \in Leases, partner[l] # NoLease,
                      phase'[l] \notin Held
               PROVE  cancelled'[partner[l]] \/ phase'[partner[l]] \notin Held
    BY <1>3 DEF DepartureCancelsPartner
  <2>1. partner[l] \in Leases
    BY LeaseFacts
  <2>2. CASE l = g
    <3>1. phase[partner[g]] \in Held => partner[g] = Opposite(g)
      BY <2>1, <2>2 DEF RelayInv, Owned, Mutual, Opposite
    <3>2. QED
      BY <1>4, <1>8, <2>1, <2>2, <3>1 DEF Held
  <2>3. CASE l # g
    BY <1>4, <1>7, <2>1, <2>3 DEF RelayInv, DepartureCancelsPartner, Held
  <2>4. QED
    BY <2>2, <2>3
<1>15. Stranded'
  <2> SUFFICES ASSUME NEW l \in Leases, phase'[l] = "failed", ~cancelled'[l]
               PROVE  /\ partner[l] = NoLease
                      /\ Opposite(l)' # NoLease
                      /\ active[Opposite(l)'] /\ partner[Opposite(l)'] = NoLease
    BY <1>3 DEF Stranded
  <2>1. l # g /\ phase[l] = "failed" /\ ~cancelled[l] /\ home[l] \in Slots
    BY <1>4, <1>7, LeaseFacts
  <2>2. /\ partner[l] = NoLease /\ Opposite(l) # NoLease
        /\ active[Opposite(l)] /\ partner[Opposite(l)] = NoLease
    BY <2>1 DEF RelayInv, Stranded
  <2>3. Across(home[l]) # home[g]
    <3> SUFFICES ASSUME Across(home[l]) = home[g] PROVE FALSE
      OBVIOUS
    <3>1. Across(home[g]) = home[l]
      BY <2>1, AcrossFacts
    <3>2. slot[home[l]] = l
      BY <2>1 DEF RelayInv, Owned, Held
    <3>3. Opposite(g) = l /\ l # NoLease
      BY <3>1, <3>2 DEF Opposite, Leases, NoLease
    <3>4. QED
      BY <1>8, <3>3
  <2>4. Opposite(l)' = Opposite(l)
    BY <1>3, <1>6, <2>1, <2>3, AcrossFacts DEF Opposite
  <2>5. QED
    BY <2>2, <2>4
<1>16. QueueBounded'
  <2>1. Len(queue'[g]) <= QueuePackets
    BY <1>5, RelayConstants
  <2>2. QED
    BY <1>5, <1>15, <2>1 DEF RelayInv, QueueBounded, Stranded
<1>17. QED
  BY <1>9, <1>10, <1>11, <1>12, <1>13, <1>14, <1>15, <1>16 DEF RelayInv

(* What holds when announce gets past its checks.                           *)
LEMMA AnnounceFacts ==
    ASSUME TypeOK, RelayInv, NEW g \in Leases, Announce(g)
    PROVE  /\ phase[g] = "reserved" /\ g # NoLease
           /\ home[g] \in Slots /\ slot[home[g]] = g
           /\ ~cancelled[g] /\ partner[g] = NoLease /\ queue[g] = << >>
           /\ Len(queue[g]) = 0 /\ Fits(g)
           /\ active'[g] /\ \A l \in Leases : l # g => active'[l] = active[l]
           /\ UNCHANGED <<generation, slot, home, cancelled>>
<1>1. phase[g] = "reserved" /\ ~active[g] /\ ~cancelled[g]
      /\ UNCHANGED <<generation, slot, home, cancelled>>
  BY DEF Announce
<1>2. partner[g] = NoLease /\ queue[g] = << >>
  BY <1>1 DEF RelayInv, Fresh
<1>3. Len(queue[g]) = 0 /\ Fits(g)
  BY <1>2, RelayConstants DEF Fits
<1>4. home[g] \in Slots /\ slot[home[g]] = g /\ g # NoLease
  BY <1>1, LeaseFacts DEF RelayInv, Owned, Held, Leases, NoLease
<1>5. active'[g] /\ \A l \in Leases : l # g => active'[l] = active[l]
  BY DEF Announce, TypeOK
<1>6. QED
  BY <1>1, <1>2, <1>3, <1>4, <1>5

LEMMA AloneStep ==
    ASSUME TypeOK, TypeOK', RelayInv, NEW g \in Leases, Announce(g),
           AnnounceAlone(g)
    PROVE  RelayInv'
<1>1. /\ phase'[g] = "running"
      /\ \A l \in Leases : l # g => phase'[l] = phase[l]
  BY AnnounceFacts DEF AnnounceAlone, TypeOK
<1>2. /\ Len(queue'[g]) <= 1 /\ Len(queue'[g]) <= QueuePackets
      /\ \A l \in Leases : l # g => queue'[l] = queue[l]
      /\ partner' = partner
  <2>1. queue' = [queue EXCEPT ![g] = Append(@, Waiting)] /\ partner' = partner
    BY AnnounceFacts DEF AnnounceAlone
  <2>2. Waiting \in Message /\ queue[g] \in Seq(Message)
    BY DEF Waiting, Message, TypeOK
  <2>3. Len(Append(queue[g], Waiting)) = 1
    BY <2>2, AnnounceFacts
  <2>4. QED
    BY <2>1, <2>3, RelayConstants DEF TypeOK
<1>3. \A l \in Leases : phase'[l] \in Held <=> phase[l] \in Held
  BY <1>1, AnnounceFacts DEF Held
<1>4. Owned'
  <2>1. \A l \in Leases : l > generation' => phase'[l] = "none"
    BY <1>1, AnnounceFacts DEF RelayInv, Owned
  <2>2. QED
    BY <1>3, <2>1, AnnounceFacts, LeaseFacts DEF RelayInv, Owned
<1>5. Fresh'
  BY <1>1, <1>2, AnnounceFacts DEF RelayInv, Fresh
<1>6. Mutual'
  BY <1>2, AnnounceFacts DEF RelayInv, Mutual
<1>7. Lonely'
  BY <1>1, <1>2 DEF RelayInv, Lonely
<1>8. LivePairIsLinked'
  <2> SUFFICES ASSUME NEW s \in Slots,
                      slot[s] # NoLease, slot[Across(s)] # NoLease,
                      active'[slot[s]], active'[slot[Across(s)]],
                      ~cancelled[slot[s]], ~cancelled[slot[Across(s)]],
                      phase'[slot[s]] # "failed", phase'[slot[Across(s)]] # "failed"
               PROVE  partner[slot[s]] = slot[Across(s)]
    BY <1>2, AnnounceFacts DEF LivePairIsLinked
  <2>1. /\ slot[s] \in Leases /\ slot[Across(s)] \in Leases
        /\ Across(s) \in Slots /\ Across(s) # s /\ Across(Across(s)) = s
    BY LeaseFacts, AcrossFacts
  <2>2. home[slot[s]] = s /\ home[slot[Across(s)]] = Across(s)
    BY <2>1 DEF RelayInv, Owned
  <2>3. slot[s] # g
    BY <2>1, <2>2, AnnounceFacts DEF AnnounceAlone, PairedBy, Opposite
  <2>4. slot[Across(s)] # g
    BY <2>1, <2>2, AnnounceFacts DEF AnnounceAlone, PairedBy, Opposite
  <2>5. QED
    BY <1>1, <2>1, <2>3, <2>4, AnnounceFacts DEF RelayInv, LivePairIsLinked
<1>9. DepartureCancelsPartner'
  BY <1>2, <1>3, AnnounceFacts, LeaseFacts DEF RelayInv, DepartureCancelsPartner
<1>10. Stranded'
  <2>1. \A l \in Leases : phase'[l] = "failed" => l # g /\ phase[l] = "failed"
    BY <1>1
  <2>2. \A l \in Leases : Opposite(l)' = Opposite(l)
    BY AnnounceFacts DEF Opposite
  <2>3. \A l \in Leases : Opposite(l) # NoLease => Opposite(l) \in Leases
    BY LeaseFacts, AcrossFacts DEF Opposite
  <2>4. QED
    BY <1>2, <2>1, <2>2, <2>3, AnnounceFacts DEF RelayInv, Stranded
<1>11. QueueBounded'
  BY <1>2, <1>10, AnnounceFacts DEF RelayInv, QueueBounded, Stranded
<1>12. QED
  BY <1>4, <1>5, <1>6, <1>7, <1>8, <1>9, <1>10, <1>11 DEF RelayInv

(* The peer that pairs with a newcomer has been waiting alone: had it been  *)
(* linked before, the departure of that partner would have cancelled it.    *)
LEMMA WaitingPeer ==
    ASSUME TypeOK, RelayInv, NEW g \in Leases, Announce(g), PairedBy(g)
    PROVE  LET h == Opposite(g) IN
           /\ h \in Leases /\ h # g /\ h # NoLease
           /\ home[h] = Across(home[g]) /\ phase[h] \in Held
           /\ active[h] /\ partner[h] = NoLease
           /\ ~cancelled[h] /\ phase[h] # "failed"
           /\ Len(queue[h]) \in Nat /\ Len(queue[h]) <= 1 /\ Fits(h)
<1> DEFINE h == Opposite(g)
<1>1. /\ h # NoLease /\ active[h] /\ ~cancelled[h]
      /\ h = slot[Across(home[g])]
  BY DEF PairedBy, Opposite
<1>2. /\ Across(home[g]) \in Slots /\ Across(home[g]) # home[g]
      /\ Across(Across(home[g])) = home[g]
  BY AnnounceFacts, AcrossFacts
<1>3. h \in Leases /\ home[h] = Across(home[g]) /\ phase[h] \in Held
  BY <1>1, <1>2, LeaseFacts DEF RelayInv, Owned
<1>4. h # g
  BY <1>2, <1>3
<1> HIDE DEF h
<1>5. partner[h] = NoLease
  <2> SUFFICES ASSUME partner[h] # NoLease PROVE FALSE
    OBVIOUS
  <2> DEFINE k == partner[h]
  <2>1. k \in Leases /\ partner[k] = h /\ home[k] = home[g]
    BY <1>2, <1>3, LeaseFacts DEF RelayInv, Mutual
  <2>2. k # g
    BY <1>1, <2>1, AnnounceFacts
  <2>3. phase[k] \notin Held
    BY <2>1, <2>2, AnnounceFacts DEF RelayInv, Owned
  <2>4. QED
    BY <1>1, <1>3, <2>1, <2>3 DEF RelayInv, DepartureCancelsPartner
<1>6. phase[h] # "failed"
  <2>1. Opposite(h) = g
    BY <1>2, <1>3, AnnounceFacts DEF Opposite
  <2>2. ~active[g]
    BY DEF Announce
  <2>3. QED
    BY <1>1, <1>3, <2>1, <2>2 DEF RelayInv, Stranded
<1>7. Len(queue[h]) \in Nat /\ Len(queue[h]) <= 1
  BY <1>3, <1>5, <1>6 DEF RelayInv, Lonely, TypeOK
<1>8. Fits(h)
  BY <1>7, RelayConstants DEF Fits
<1>9. QED
  BY <1>1, <1>3, <1>4, <1>5, <1>6, <1>7, <1>8 DEF h

LEMMA PairedStep ==
    ASSUME TypeOK, TypeOK', RelayInv, NEW g \in Leases, Announce(g),
           AnnouncePaired(g)
    PROVE  RelayInv'
<1> DEFINE h == Opposite(g)
<1>1. /\ h \in Leases /\ h # g /\ h # NoLease
      /\ home[h] = Across(home[g]) /\ phase[h] \in Held
      /\ active[h] /\ partner[h] = NoLease
      /\ Len(queue[h]) \in Nat /\ Len(queue[h]) <= 1 /\ Fits(h)
  BY WaitingPeer DEF AnnouncePaired
<1>2. h = slot[Across(home[g])]
  BY DEF Opposite
<1>3. Fits(g)
  BY AnnounceFacts
<1>4. /\ phase'[g] = "running"
      /\ \A l \in Leases : l # g => phase'[l] = phase[l]
  BY <1>1, <1>3 DEF AnnouncePaired, TypeOK
<1>5. partner' = [partner EXCEPT ![g] = h, ![h] = g]
  BY DEF AnnouncePaired
<1>6. queue' = [l \in Leases |-> IF l = g \/ l = h
                               THEN Append(queue[l], Paired(g)) ELSE queue[l]]
  BY <1>1, <1>3 DEF AnnouncePaired
<1> HIDE DEF h
<1>7. /\ partner'[g] = h /\ partner'[h] = g
      /\ \A l \in Leases : l # g /\ l # h => partner'[l] = partner[l]
  BY <1>1, <1>5 DEF TypeOK
<1>8. /\ Len(queue'[g]) <= QueuePackets /\ Len(queue'[h]) <= QueuePackets
      /\ \A l \in Leases : l # g /\ l # h => queue'[l] = queue[l]
  <2>1. Paired(g) \in Message
    BY DEF Paired, Message, Leases
  <2>2. \A l \in Leases : Len(Append(queue[l], Paired(g))) = Len(queue[l]) + 1
    BY <2>1 DEF TypeOK
  <2>3. /\ Len(Append(queue[g], Paired(g))) <= 2
        /\ Len(Append(queue[h], Paired(g))) <= 2
    BY <1>1, <2>2, AnnounceFacts
  <2>4. /\ queue'[g] = Append(queue[g], Paired(g))
        /\ queue'[h] = Append(queue[h], Paired(g))
    BY <1>1, <1>6
  <2>5. Len(queue'[g]) \in Int /\ Len(queue'[h]) \in Int
    BY <1>1, <2>2, <2>4 DEF TypeOK
  <2>6. QED
    BY <1>1, <1>6, <2>3, <2>4, <2>5, RelayConstants
<1>9. \A l \in Leases : partner[l] # g /\ partner[l] # h
  BY <1>1, AnnounceFacts DEF RelayInv, Mutual, NoLease, Leases
<1>10. \A l \in Leases : phase'[l] \in Held <=> phase[l] \in Held
  BY <1>4, AnnounceFacts DEF Held
<1>11. Owned'
  <2>1. \A l \in Leases : l > generation' => phase'[l] = "none"
    BY <1>4, AnnounceFacts DEF RelayInv, Owned
  <2>2. QED
    BY <1>10, <2>1, AnnounceFacts, LeaseFacts DEF RelayInv, Owned
<1>12. Fresh'
  BY <1>1, <1>4, <1>7, <1>8, AnnounceFacts DEF RelayInv, Fresh
<1>13. Mutual'
  <2>1. Across(home[h]) = home[g]
    BY <1>1, AnnounceFacts, AcrossFacts
  <2>2. QED
    BY <1>1, <1>7, <1>9, <2>1, AnnounceFacts, LeaseFacts DEF RelayInv, Mutual
<1>14. Lonely'
  BY <1>1, <1>4, <1>7, <1>8, AnnounceFacts DEF RelayInv, Lonely
<1>15. LivePairIsLinked'
  <2> SUFFICES ASSUME NEW s \in Slots,
                      slot[s] # NoLease, slot[Across(s)] # NoLease,
                      active'[slot[s]], active'[slot[Across(s)]],
                      ~cancelled[slot[s]], ~cancelled[slot[Across(s)]],
                      phase'[slot[s]] # "failed", phase'[slot[Across(s)]] # "failed"
               PROVE  partner'[slot[s]] = slot[Across(s)]
    BY AnnounceFacts DEF LivePairIsLinked
  <2>1. /\ slot[s] \in Leases /\ slot[Across(s)] \in Leases
        /\ Across(s) \in Slots /\ Across(s) # s /\ Across(Across(s)) = s
    BY LeaseFacts, AcrossFacts
  <2>2. home[slot[s]] = s /\ home[slot[Across(s)]] = Across(s)
    BY <2>1 DEF RelayInv, Owned
  <2>3. CASE slot[s] = g
    BY <1>2, <1>7, <2>2, <2>3
  <2>4. CASE slot[Across(s)] = g
    BY <1>2, <1>7, <2>1, <2>2, <2>4
  <2>5. CASE slot[s] # g /\ slot[Across(s)] # g
    <3>1. slot[s] # h
      BY <1>1, <2>1, <2>2, <2>5, AnnounceFacts, AcrossFacts
    <3>2. QED
      BY <1>4, <1>7, <2>1, <2>5, <3>1, AnnounceFacts DEF RelayInv, LivePairIsLinked
  <2>6. QED
    BY <2>3, <2>4, <2>5
<1>16. DepartureCancelsPartner'
  <2>1. phase'[g] \in Held /\ phase'[h] \in Held
    BY <1>1, <1>4, <1>10 DEF Held
  <2>2. QED
    BY <1>7, <1>10, <2>1, AnnounceFacts, LeaseFacts
       DEF RelayInv, DepartureCancelsPartner
<1>17. Stranded'
  <2> SUFFICES ASSUME NEW l \in Leases, phase'[l] = "failed", ~cancelled[l]
               PROVE  /\ partner'[l] = NoLease
                      /\ Opposite(l) # NoLease
                      /\ active'[Opposite(l)] /\ partner'[Opposite(l)] = NoLease
    BY AnnounceFacts DEF Stranded, Opposite
  <2>1. l # g /\ phase[l] = "failed" /\ home[l] \in Slots
    BY <1>4, LeaseFacts
  <2>2. /\ partner[l] = NoLease /\ Opposite(l) # NoLease
        /\ active[Opposite(l)] /\ partner[Opposite(l)] = NoLease
    BY <2>1 DEF RelayInv, Stranded
  <2>3. Opposite(l) \in Leases /\ home[Opposite(l)] = Across(home[l])
    BY <2>1, <2>2, LeaseFacts, AcrossFacts DEF RelayInv, Owned, Opposite
  <2>4. Opposite(l) # g
    BY <2>2 DEF Announce
  <2>5. Opposite(l) # h
    <3> SUFFICES ASSUME Opposite(l) = h PROVE FALSE
      OBVIOUS
    <3>1. home[l] = home[g]
      BY <1>1, <2>1, <2>3, AnnounceFacts, AcrossFacts
    <3>2. slot[home[l]] = l
      BY <2>1 DEF RelayInv, Owned, Held
    <3>3. QED
      BY <2>1, <3>1, <3>2, AnnounceFacts
  <2>6. l # h
    BY <2>1, WaitingPeer DEF h, AnnouncePaired
  <2>7. QED
    BY <1>7, <2>1, <2>2, <2>3, <2>4, <2>5, <2>6, AnnounceFacts
<1>18. QueueBounded'
  BY <1>8, <1>17, AnnounceFacts DEF RelayInv, QueueBounded, Stranded
<1>19. QED
  BY <1>11, <1>12, <1>13, <1>14, <1>15, <1>16, <1>17, <1>18 DEF RelayInv

(* Without an epoch nobody is told and nobody is linked: the peer found in  *)
(* the opposite slot stays as it was, waiting.                              *)
LEMMA UnsecuredStep ==
    ASSUME TypeOK, TypeOK', RelayInv, NEW g \in Leases, Announce(g),
           AnnounceUnsecured(g)
    PROVE  RelayInv'
<1> DEFINE h == Opposite(g)
<1>1. /\ h \in Leases /\ h # g /\ h # NoLease
      /\ active[h] /\ partner[h] = NoLease
  BY WaitingPeer DEF AnnounceUnsecured
<1>2. /\ phase'[g] = "failed"
      /\ \A l \in Leases : l # g => phase'[l] = phase[l]
      /\ UNCHANGED <<queue, partner>>
  BY DEF AnnounceUnsecured, TypeOK
<1>3. \A l \in Leases : phase'[l] \in Held <=> phase[l] \in Held
  BY <1>2, AnnounceFacts DEF Held
<1>4. \A l \in Leases : Opposite(l)' = Opposite(l)
  BY AnnounceFacts DEF Opposite
<1>5. Owned'
  <2>1. \A l \in Leases : l > generation' => phase'[l] = "none"
    BY <1>2, AnnounceFacts DEF RelayInv, Owned
  <2>2. QED
    BY <1>3, <2>1, AnnounceFacts, LeaseFacts DEF RelayInv, Owned
<1>6. Fresh' /\ Mutual' /\ Lonely'
  BY <1>2, AnnounceFacts DEF RelayInv, Fresh, Mutual, Lonely
<1>7. LivePairIsLinked'
  <2> SUFFICES ASSUME NEW s \in Slots,
                      slot[s] # NoLease, slot[Across(s)] # NoLease,
                      active'[slot[s]], active'[slot[Across(s)]],
                      ~cancelled[slot[s]], ~cancelled[slot[Across(s)]],
                      phase'[slot[s]] # "failed", phase'[slot[Across(s)]] # "failed"
               PROVE  partner[slot[s]] = slot[Across(s)]
    BY <1>2, AnnounceFacts DEF LivePairIsLinked
  <2>1. slot[s] \in Leases /\ slot[Across(s)] \in Leases
    BY LeaseFacts, AcrossFacts
  <2>2. slot[s] # g /\ slot[Across(s)] # g
    BY <1>2
  <2>3. QED
    BY <1>2, <2>1, <2>2, AnnounceFacts DEF RelayInv, LivePairIsLinked
<1>8. DepartureCancelsPartner'
  BY <1>2, <1>3, AnnounceFacts, LeaseFacts DEF RelayInv, DepartureCancelsPartner
<1>9. Stranded'
  <2> SUFFICES ASSUME NEW l \in Leases, phase'[l] = "failed", ~cancelled[l]
               PROVE  /\ partner[l] = NoLease
                      /\ Opposite(l) # NoLease
                      /\ active'[Opposite(l)] /\ partner[Opposite(l)] = NoLease
    BY <1>2, <1>4, AnnounceFacts DEF Stranded
  <2>1. CASE l = g
    BY <1>1, <2>1, AnnounceFacts
  <2>2. CASE l # g
    <3>1. /\ partner[l] = NoLease /\ Opposite(l) # NoLease
          /\ active[Opposite(l)] /\ partner[Opposite(l)] = NoLease
      BY <1>2, <2>2 DEF RelayInv, Stranded
    <3>2. Opposite(l) \in Leases
      BY <3>1, LeaseFacts, AcrossFacts DEF Opposite
    <3>3. QED
      BY <3>1, <3>2, AnnounceFacts
  <2>3. QED
    BY <2>1, <2>2
<1>10. QueueBounded'
  BY <1>2, <1>9, AnnounceFacts DEF RelayInv, QueueBounded, Stranded
<1>11. QED
  BY <1>5, <1>6, <1>7, <1>8, <1>9, <1>10 DEF RelayInv

LEMMA InvStep ==
    ASSUME TypeOK, TypeOK', RelayInv, [Next]_vars
    PROVE  RelayInv'
<1>1. CASE \E s \in Slots : Reserve(s)
  BY <1>1, ReserveStep
<1>2. CASE \E g \in Leases : Abandon(g)
  <2>1. PICK g \in Leases : Abandon(g)
    BY <1>2
  <2>2. QED
    BY <2>1, QuietStep DEF Abandon, TypeOK
<1>3. CASE \E g \in Leases : AnnounceRefused(g)
  <2>1. PICK g \in Leases : AnnounceRefused(g)
    BY <1>3
  <2>2. cancelled[g]
    BY <2>1 DEF AnnounceRefused, SlotOf, RelayInv, Owned, Fresh, Held
  <2>3. QED
    BY <2>1, <2>2, QuietStep DEF AnnounceRefused, TypeOK
<1>4. CASE \E g \in Leases : Announce(g)
  BY <1>4, AloneStep, PairedStep, UnsecuredStep DEF Announce
<1>5. CASE \E g \in Leases : ShutdownSeen(g) \/ CancelSeen(g) \/ ReceiveBreak(g)
  <2>1. PICK g \in Leases : ShutdownSeen(g) \/ CancelSeen(g) \/ ReceiveBreak(g)
    BY <1>5
  <2>2. /\ UNCHANGED <<generation, slot, home, active, partner, cancelled, queue>>
        /\ phase[g] = "running" /\ phase' = [phase EXCEPT ![g] = "closing"]
    BY <2>1 DEF ShutdownSeen, CancelSeen, ReceiveBreak
  <2>3. QED
    BY <2>2, QuietStep DEF TypeOK
<1>6. CASE \E g \in Leases : Deliver(g) \/ DeliverFails(g)
  <2>1. PICK g \in Leases : Deliver(g) \/ DeliverFails(g)
    BY <1>6
  <2>2. /\ UNCHANGED <<generation, slot, home, active, partner, cancelled>>
        /\ phase[g] = "running" /\ queue[g] # << >>
        /\ queue' = [queue EXCEPT ![g] = Tail(@)]
        /\ phase' = phase \/ phase' = [phase EXCEPT ![g] = "closing"]
    BY <2>1 DEF Deliver, DeliverFails
  <2>3. Len(Tail(queue[g])) < Len(queue[g])
    BY <2>2 DEF TypeOK
  <2>4. \A l \in Leases : queue'[l] = queue[l] \/ Len(queue'[l]) < Len(queue[l])
    BY <2>2, <2>3 DEF TypeOK
  <2>5. \A l \in Leases : \/ phase'[l] = phase[l]
                          \/ phase[l] = "running" /\ phase'[l] = "closing"
    BY <2>2 DEF TypeOK
  <2>6. QED
    BY <2>2, <2>4, <2>5, QuietStep
<1>7. CASE \E g \in Leases : Heartbeat(g) \/ HeartbeatFails(g) \/ ReceivePong(g)
  <2>1. PICK g \in Leases : Heartbeat(g) \/ HeartbeatFails(g) \/ ReceivePong(g)
    BY <1>7
  <2>2. /\ UNCHANGED <<generation, slot, home, active, partner, cancelled, queue>>
        /\ \A l \in Leases : \/ phase'[l] = phase[l]
                             \/ phase[l] = "running" /\ phase'[l] = "closing"
    BY <2>1 DEF Heartbeat, HeartbeatFails, ReceivePong, TypeOK
  <2>3. QED
    BY <2>2, QuietStep
<1>8. CASE \E g \in Leases : ReceiveBinary(g)
  BY <1>8, BinaryStep
<1>9. CASE \E g \in Leases : ReceiveBinaryFull(g)
  <2>1. PICK g \in Leases : ReceiveBinaryFull(g)
    BY <1>9
  <2>2. \A l \in Leases : cancelled[l] => cancelled'[l]
    BY <2>1 DEF ReceiveBinaryFull, TypeOK
  <2>3. \A l \in Leases : \/ phase'[l] = phase[l]
                          \/ phase[l] = "running" /\ phase'[l] = "closing"
    BY <2>1 DEF ReceiveBinaryFull, TypeOK
  <2>4. QED
    BY <2>1, <2>2, <2>3, QuietStep DEF ReceiveBinaryFull
<1>10. CASE \E g \in Leases : DropLease(g)
  BY <1>10, DropStep
<1>11. CASE \E g \in Leases : ReleasePermit(g)
  <2>1. PICK g \in Leases : ReleasePermit(g)
    BY <1>11
  <2>2. QED
    BY <2>1, QuietStep DEF ReleasePermit, TypeOK
<1>12. CASE Shutdown \/ (\E g \in Leases : GoSilent(g)) \/ UNCHANGED vars
  <2>1. UNCHANGED <<generation, slot, home, active, partner, cancelled, queue,
                    phase>>
    BY <1>12 DEF Shutdown, GoSilent, vars
  <2>2. QED
    BY <2>1, QuietStep
<1>13. QED
  BY <1>1, <1>2, <1>3, <1>4, <1>5, <1>6, <1>7, <1>8, <1>9, <1>10, <1>11, <1>12
     DEF Next, Loop

(* The relay's inductive invariant holds in every reachable state, for any  *)
(* number of rooms, leases, permits and packets.                            *)
THEOREM Invariance == Spec => [](TypeOK /\ RelayInv)
<1>1. Init => TypeOK /\ RelayInv
  BY TypeInit, InvInit
<1>2. TypeOK /\ RelayInv /\ [Next]_vars => (TypeOK /\ RelayInv)'
  BY TypeStep, InvStep
<1>3. QED
  BY <1>1, <1>2, PTL DEF Spec

(* Whoever forward would let talk to each other were told "relay.paired"    *)
(* together, or the task of one of them is already gone.                    *)
THEOREM LivePairs == Spec => []LivePairIsLinked
<1>1. RelayInv => LivePairIsLinked
  BY DEF RelayInv
<1>2. QED
  BY <1>1, Invariance, PTL

(* Dropping a lease cancels the partner it was paired with, so no side      *)
(* talks on to a peer that left.                                            *)
THEOREM Departures == Spec => []DepartureCancelsPartner
<1>1. RelayInv => DepartureCancelsPartner
  BY DEF RelayInv
<1>2. QED
  BY <1>1, Invariance, PTL

(* A queue never holds more than QUEUE_PACKETS messages, and a notice never *)
(* finds one full: announce fails for a cancelled lease, or for want of an  *)
(* epoch, and then the peer it found is unlinked and still in its slot.     *)
THEOREM Queues == Spec => []QueueBounded
<1>1. RelayInv => QueueBounded
  BY DEF RelayInv
<1>2. QED
  BY <1>1, Invariance, PTL
=============================================================================
