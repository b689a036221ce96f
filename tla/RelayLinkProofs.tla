--------------------------- MODULE RelayLinkProofs ---------------------------
(***************************************************************************)
(* The relay implements RelayLink: what two linked clients see is a pair   *)
(* of queues that lose, reorder and invent nothing while both are open.    *)
(* The argument rests on RelayInv (RelayRegistryProofs) and on InOrder,    *)
(* which ties a task's queue to the packets its partner handed over.       *)
(***************************************************************************)
EXTENDS RelayRegistryProofs

LinkInv == QueuedForLink /\ InOrder

OutsideInv == OutsideIsDoomed /\ Unsent

LEMMA LinkInit ==
    ASSUME Init
    PROVE  LinkInv /\ OutsideInv
  BY DEF Init, LinkInv, QueuedForLink, InOrder, OutsideInv, OutsideIsDoomed,
         Unsent, Held

(* A step that hands over and writes out no packet, and takes from a queue  *)
(* only when its task stops: what is left is a suffix of what was there.    *)
LEMMA LinkQuiet ==
    ASSUME TypeOK, TypeOK', LinkInv,
           UNCHANGED <<partner, forwarded, delivered>>,
           \A l \in Leases :
               \/ queue'[l] = queue[l]
               \/ /\ phase'[l] # "running"
                  /\ \/ queue'[l] = << >>
                     \/ queue[l] # << >> /\ queue'[l] = Tail(queue[l]),
           \A l \in Leases : phase'[l] = "running" => phase[l] = "running",
           \A l \in Leases : phase[l] = "failed" =>
               phase'[l] = "failed" \/ queue'[l] = << >>
    PROVE  LinkInv'
<1>1. QueuedForLink'
  <2> SUFFICES ASSUME NEW g \in Leases, NEW i \in 1..Len(queue'[g]),
                      phase'[g] # "failed", queue'[g][i].type = "data"
               PROVE  /\ partner[g] # NoLease
                      /\ queue'[g][i].tag = partner[g]
                      /\ queue'[g][i].n = forwarded[partner[g]] - (Len(queue'[g]) - i)
    BY DEF QueuedForLink
  <2>0. phase[g] # "failed" \/ queue'[g] = << >>
    OBVIOUS
  <2>1. CASE queue'[g] = queue[g]
    BY <2>0, <2>1 DEF LinkInv, QueuedForLink
  <2>2. CASE queue[g] # << >> /\ queue'[g] = Tail(queue[g])
    <3>1. queue[g] \in Seq(Message)
      BY DEF TypeOK
    <3>2. /\ i + 1 \in 1..Len(queue[g])
          /\ queue'[g][i] = queue[g][i + 1]
          /\ Len(queue'[g]) = Len(queue[g]) - 1
      BY <2>2, <3>1
    <3>3. /\ partner[g] # NoLease
          /\ queue[g][i + 1].tag = partner[g]
          /\ queue[g][i + 1].n = forwarded[partner[g]] - (Len(queue[g]) - (i + 1))
      BY <2>0, <3>2 DEF LinkInv, QueuedForLink
    <3>4. Len(queue[g]) - (i + 1) = Len(queue'[g]) - i
      BY <3>1, <3>2
    <3> QED
      BY <3>2, <3>3, <3>4
  <2>3. CASE queue'[g] = << >>
    BY <2>3
  <2> QED
    BY <2>1, <2>2, <2>3
<1>2. InOrder'
  BY DEF LinkInv, InOrder
<1> QED
  BY <1>1, <1>2 DEF LinkInv

(* Whom a forwarded packet reaches: the sender's partner, and nobody else   *)
(* has the sender for a partner; or a lease whose announce failed, and then *)
(* nobody has the sender for a partner.                                     *)
LEMMA BinaryFacts ==
    ASSUME TypeOK, RelayInv, NEW g \in Leases, ReceiveBinary(g)
    PROVE  LET o == Opposite(g) IN
           /\ o \in Leases /\ o # NoLease /\ o # g /\ active[g]
           /\ phase[g] \in Held /\ phase[o] \in Held
           /\ \A l \in Leases : partner[l] = g => l = o
           /\ phase[o] # "failed" => partner[g] = o /\ partner[o] = g
           /\ phase[o] = "failed" =>
                partner[g] = NoLease /\ \A l \in Leases : partner[l] # g
<1> DEFINE o == Opposite(g)
<1>1. /\ phase[g] = "running" /\ ~cancelled[g] /\ o # NoLease
      /\ active[o] /\ ~cancelled[o]
  BY DEF ReceiveBinary, CanForward
<1>2. home[g] \in Slots /\ slot[home[g]] = g /\ o = slot[Across(home[g])]
  BY <1>1, LeaseFacts DEF RelayInv, Owned, Held, Opposite
<1>3. /\ Across(home[g]) \in Slots /\ Across(home[g]) # home[g]
      /\ Across(Across(home[g])) = home[g]
  BY <1>2, AcrossFacts
<1>4. o \in Leases /\ active[g] /\ g # NoLease
  BY <1>1, <1>2, <1>3, LeaseFacts DEF RelayInv, Fresh, Leases, NoLease
<1>5. home[o] = Across(home[g]) /\ phase[o] \in Held
  BY <1>1, <1>2, <1>3, <1>4 DEF RelayInv, Owned
<1>6. o # g
  BY <1>3, <1>5
<1>7. phase[o] # "failed" => partner[g] = o /\ partner[o] = g
  BY <1>1, <1>2, <1>3, <1>4 DEF RelayInv, LivePairIsLinked
<1>8. phase[o] = "failed" => partner[g] = NoLease
  <2>1. Opposite(o) = g
    BY <1>2, <1>3, <1>5 DEF Opposite
  <2> QED
    BY <1>1, <1>4, <2>1 DEF RelayInv, Stranded
<1>9. \A l \in Leases : partner[l] = g => partner[g] = l
  BY <1>4 DEF RelayInv, Mutual
<1>10. \A l \in Leases : l # NoLease
  BY DEF Leases, NoLease
<1> QED
  BY <1>1, <1>4, <1>5, <1>6, <1>7, <1>8, <1>9, <1>10 DEF Held

(* A forwarded packet takes the next number, behind everything queued.      *)
LEMMA LinkBinary ==
    ASSUME TypeOK, TypeOK', RelayInv, LinkInv, NEW g \in Leases, ReceiveBinary(g)
    PROVE  LinkInv'
<1> DEFINE o == Opposite(g)
<1>1. /\ o \in Leases /\ o # NoLease /\ o # g /\ g # NoLease
      /\ \A l \in Leases : partner[l] = g => l = o
      /\ phase[o] # "failed" => partner[g] = o /\ partner[o] = g
      /\ phase[o] = "failed" => \A l \in Leases : partner[l] # g
  BY BinaryFacts DEF Leases, NoLease
<1> DEFINE m == Data(g, forwarded[g] + 1)
           q == queue[o]
<1>2. /\ queue' = [queue EXCEPT ![o] = Append(@, m)]
      /\ forwarded' = [forwarded EXCEPT ![g] = @ + 1]
      /\ UNCHANGED <<phase, partner, delivered>>
  BY DEF ReceiveBinary
<1>3. /\ \A l \in Leases : l # o => queue'[l] = queue[l]
      /\ queue'[o] = Append(q, m)
      /\ \A l \in Leases : l # g => forwarded'[l] = forwarded[l]
      /\ forwarded'[g] = forwarded[g] + 1 /\ forwarded[g] \in Nat
  BY <1>1, <1>2 DEF TypeOK
<1>4. /\ m \in Message /\ q \in Seq(Message)
      /\ m.type = "data" /\ m.tag = g /\ m.n = forwarded[g] + 1
  <2>1. g \in Nat
    BY RelayConstants DEF Leases
  <2>2. m.type = "data" /\ m.tag = g /\ m.n = forwarded[g] + 1 /\ m \in Message
    BY <2>1, <1>3 DEF Data, Message
  <2>3. q \in Seq(Message)
    BY <1>1 DEF TypeOK
  <2> QED
    BY <2>2, <2>3
<1>5. /\ Len(queue'[o]) = Len(q) + 1 /\ Len(q) \in Nat
      /\ \A i \in 1..Len(q) : queue'[o][i] = q[i]
      /\ queue'[o][Len(q) + 1] = m
  BY <1>3, <1>4
<1>6. \A l \in Leases : l # o /\ partner[l] # NoLease =>
          forwarded'[partner[l]] = forwarded[partner[l]]
  BY <1>1, <1>3, LeaseFacts
<1>7. QueuedForLink'
  <2> SUFFICES ASSUME NEW l \in Leases, NEW i \in 1..Len(queue'[l]),
                      phase'[l] # "failed", queue'[l][i].type = "data"
               PROVE  /\ partner[l] # NoLease
                      /\ queue'[l][i].tag = partner[l]
                      /\ queue'[l][i].n = forwarded'[partner[l]] - (Len(queue'[l]) - i)
    BY <1>2 DEF QueuedForLink
  <2>1. CASE l # o
    BY <2>1, <1>2, <1>3, <1>6 DEF LinkInv, QueuedForLink
  <2>2. CASE l = o /\ i \in 1..Len(q)
    <3>1. partner[o] = g
      BY <2>2, <1>1, <1>2
    <3>2. q[i].tag = g /\ q[i].n = forwarded[g] - (Len(q) - i)
      BY <2>2, <3>1, <1>1, <1>2, <1>5 DEF LinkInv, QueuedForLink
    <3>3. queue'[o][i] = q[i] /\ Len(queue'[o]) = Len(q) + 1
      BY <2>2, <1>5
    <3>4. ASSUME NEW f \in Nat, NEW n \in Nat, NEW j \in 1..n
          PROVE  f - (n - j) = (f + 1) - ((n + 1) - j)
      OBVIOUS
    <3>5. forwarded[g] \in Nat /\ Len(q) \in Nat
      BY <1>3, <1>5
    <3>6. forwarded[g] - (Len(q) - i) = (forwarded[g] + 1) - ((Len(q) + 1) - i)
      BY <2>2, <3>4, <3>5
    <3>7. forwarded[g] - (Len(q) - i) = forwarded'[g] - (Len(queue'[o]) - i)
      BY <3>3, <3>6, <1>3
    <3> QED
      BY <2>2, <3>1, <3>2, <3>3, <3>7, <1>1
  <2>3. CASE l = o /\ i = Len(q) + 1
    BY <2>3, <1>1, <1>2, <1>3, <1>4, <1>5
  <2> QED
    BY <2>1, <2>2, <2>3, <1>5
<1>8. InOrder'
  <2> SUFFICES ASSUME NEW l \in Leases
               PROVE  /\ partner[l] = NoLease => delivered[l] = 0
                      /\ (partner[l] # NoLease /\ phase[l] = "running") =>
                           \E k \in 0..Len(queue'[l]) :
                             /\ \A i \in 1..Len(queue'[l]) :
                                   queue'[l][i].type = "data" <=> i > k
                             /\ delivered[l] = forwarded'[partner[l]] - (Len(queue'[l]) - k)
    BY <1>2 DEF InOrder
  <2>1. partner[l] = NoLease => delivered[l] = 0
    BY DEF LinkInv, InOrder
  <2>2. CASE l # o
    <3>1. partner[l] # NoLease /\ phase[l] = "running" =>
            \E k \in 0..Len(queue[l]) :
              /\ \A i \in 1..Len(queue[l]) : queue[l][i].type = "data" <=> i > k
              /\ delivered[l] = forwarded[partner[l]] - (Len(queue[l]) - k)
      BY DEF LinkInv, InOrder
    <3>2. queue'[l] = queue[l]
      BY <2>2, <1>3
    <3>3. partner[l] # NoLease => forwarded'[partner[l]] = forwarded[partner[l]]
      BY <2>2, <1>6
    <3> QED
      BY <2>1, <3>1, <3>2, <3>3
  <2>3. CASE l = o /\ phase[o] = "running"
    <3>1. PICK k \in 0..Len(q) :
             /\ \A i \in 1..Len(q) : q[i].type = "data" <=> i > k
             /\ delivered[o] = forwarded[g] - (Len(q) - k)
      BY <2>3, <1>1 DEF LinkInv, InOrder
    <3>0. partner[o] = g
      BY <2>3, <1>1
    <3>2. k \in 0..Len(queue'[o])
      BY <1>5
    <3>3. \A i \in 1..Len(queue'[o]) : queue'[o][i].type = "data" <=> i > k
      <4> SUFFICES ASSUME NEW i \in 1..Len(queue'[o])
                   PROVE  queue'[o][i].type = "data" <=> i > k
        OBVIOUS
      <4>1. CASE i \in 1..Len(q)
        BY <4>1, <3>1, <1>5
      <4>2. CASE i = Len(q) + 1
        BY <4>2, <3>1, <1>4, <1>5
      <4> QED
        BY <4>1, <4>2, <1>5
    <3>4. delivered[o] = forwarded'[g] - (Len(queue'[o]) - k)
      BY <3>1, <1>3, <1>5
    <3> QED
      BY <2>1, <2>3, <3>0, <3>2, <3>3, <3>4, <1>1
  <2> QED
    BY <2>1, <2>2, <2>3
<1> QED
  BY <1>7, <1>8 DEF LinkInv

(* What Deliver writes out: a notice, or the packet after the last one its  *)
(* client received.                                                         *)
LEMMA DeliverFacts ==
    ASSUME TypeOK, RelayInv, LinkInv, NEW g \in Leases, Deliver(g),
           Head(queue[g]).type = "data"
    PROVE  /\ partner[g] # NoLease /\ partner[g] \in Leases
           /\ Head(queue[g]).n = delivered[g] + 1
           /\ delivered[g] < forwarded[partner[g]]
           /\ \A i \in 1..Len(queue[g]) : queue[g][i].type = "data"
           /\ delivered[g] = forwarded[partner[g]] - Len(queue[g])
<1>1. queue[g] # << >> /\ phase[g] = "running" /\ queue[g] \in Seq(Message)
  BY DEF Deliver, TypeOK
<1>2. /\ Head(queue[g]) = queue[g][1] /\ Len(queue[g]) \in Nat
      /\ 1 \in 1..Len(queue[g])
  BY <1>1
<1>3. /\ partner[g] # NoLease
      /\ queue[g][1].n = forwarded[partner[g]] - (Len(queue[g]) - 1)
  BY <1>1, <1>2 DEF LinkInv, QueuedForLink
<1>4. partner[g] \in Leases
  BY <1>3, LeaseFacts
<1>5. PICK k \in 0..Len(queue[g]) :
         /\ \A i \in 1..Len(queue[g]) : queue[g][i].type = "data" <=> i > k
         /\ delivered[g] = forwarded[partner[g]] - (Len(queue[g]) - k)
  BY <1>1, <1>3 DEF LinkInv, InOrder
<1>6. k = 0
  BY <1>2, <1>5
<1>7. delivered[g] \in Nat /\ forwarded[partner[g]] \in Nat
  BY <1>4 DEF TypeOK
<1> QED
  BY <1>2, <1>3, <1>4, <1>5, <1>6, <1>7

LEMMA LinkDeliver ==
    ASSUME TypeOK, TypeOK', RelayInv, LinkInv, NEW g \in Leases, Deliver(g)
    PROVE  LinkInv'
<1> DEFINE q == queue[g]
           t == Tail(q)
<1>1. /\ phase[g] = "running" /\ q # << >> /\ q \in Seq(Message)
      /\ queue' = [queue EXCEPT ![g] = Tail(@)]
  BY DEF Deliver, TypeOK
<1> UNCHANGED <<phase, partner, forwarded>>
  BY DEF Deliver
<1>2. /\ Head(q) = q[1] /\ Len(q) \in Nat /\ Len(q) > 0
      /\ Len(t) = Len(q) - 1
      /\ \A i \in 1..Len(t) : i + 1 \in 1..Len(q) /\ t[i] = q[i + 1]
  BY <1>1
<1>3. /\ queue'[g] = t
      /\ \A l \in Leases : l # g => queue'[l] = queue[l] /\ delivered'[l] = delivered[l]
      /\ delivered'[g] = IF Head(q).type = "data" THEN Head(q).n ELSE delivered[g]
  BY <1>1 DEF Deliver, TypeOK
<1>4. QueuedForLink'
  <2> SUFFICES ASSUME NEW l \in Leases, NEW i \in 1..Len(queue'[l]),
                      phase'[l] # "failed", queue'[l][i].type = "data"
               PROVE  /\ partner[l] # NoLease
                      /\ queue'[l][i].tag = partner[l]
                      /\ queue'[l][i].n = forwarded[partner[l]] - (Len(queue'[l]) - i)
    BY DEF QueuedForLink
  <2>1. CASE l # g
    BY <2>1, <1>3 DEF LinkInv, QueuedForLink
  <2>2. CASE l = g
    <3>1. i + 1 \in 1..Len(q) /\ t[i] = q[i + 1] /\ q[i + 1].type = "data"
      BY <2>2, <1>2, <1>3
    <3>2. /\ partner[g] # NoLease /\ q[i + 1].tag = partner[g]
          /\ q[i + 1].n = forwarded[partner[g]] - (Len(q) - (i + 1))
      BY <1>1, <3>1 DEF LinkInv, QueuedForLink
    <3>3. Len(q) - (i + 1) = Len(t) - i
      BY <2>2, <1>2, <1>3
    <3> QED
      BY <2>2, <3>1, <3>2, <3>3, <1>3
  <2> QED
    BY <2>1, <2>2
<1>5. InOrder'
  <2> SUFFICES ASSUME NEW l \in Leases
               PROVE  /\ partner[l] = NoLease => delivered'[l] = 0
                      /\ (partner[l] # NoLease /\ phase[l] = "running") =>
                           \E k \in 0..Len(queue'[l]) :
                             /\ \A i \in 1..Len(queue'[l]) :
                                   queue'[l][i].type = "data" <=> i > k
                             /\ delivered'[l] = forwarded[partner[l]] - (Len(queue'[l]) - k)
    BY DEF InOrder
  <2>1. CASE l # g
    <3>1. /\ partner[l] = NoLease => delivered[l] = 0
          /\ partner[l] # NoLease /\ phase[l] = "running" =>
               \E k \in 0..Len(queue[l]) :
                 /\ \A i \in 1..Len(queue[l]) : queue[l][i].type = "data" <=> i > k
                 /\ delivered[l] = forwarded[partner[l]] - (Len(queue[l]) - k)
      BY DEF LinkInv, InOrder
    <3>2. queue'[l] = queue[l] /\ delivered'[l] = delivered[l]
      BY <2>1, <1>3
    <3> QED
      BY <3>1, <3>2
  <2>2. CASE l = g /\ Head(q).type = "data"
    <3>1. /\ partner[g] # NoLease /\ partner[g] \in Leases
          /\ Head(q).n = delivered[g] + 1
          /\ \A i \in 1..Len(q) : q[i].type = "data"
          /\ delivered[g] = forwarded[partner[g]] - Len(q)
      BY <2>2, DeliverFacts
    <3>2. forwarded[partner[g]] \in Nat /\ delivered[g] \in Nat
      BY <3>1 DEF TypeOK
    <3>3. /\ \A i \in 1..Len(t) : t[i].type = "data" <=> i > 0
          /\ delivered'[g] = forwarded[partner[g]] - (Len(t) - 0)
          /\ 0 \in 0..Len(t)
      BY <2>2, <3>1, <3>2, <1>2, <1>3
    <3> QED
      BY <2>2, <3>1, <3>3, <1>3
  <2>3. CASE l = g /\ Head(q).type # "data" /\ partner[g] = NoLease
    BY <2>3, <1>3 DEF LinkInv, InOrder
  <2>4. CASE l = g /\ Head(q).type # "data" /\ partner[g] # NoLease
    <3>1. PICK k \in 0..Len(q) :
             /\ \A i \in 1..Len(q) : q[i].type = "data" <=> i > k
             /\ delivered[g] = forwarded[partner[g]] - (Len(q) - k)
      BY <2>4, <1>1 DEF LinkInv, InOrder
    <3>2. k - 1 \in 0..Len(t)
      BY <2>4, <3>1, <1>2
    <3>3. \A i \in 1..Len(t) : t[i].type = "data" <=> i > k - 1
      BY <3>1, <1>2
    <3>4. delivered'[g] = forwarded[partner[g]] - (Len(t) - (k - 1))
      BY <2>4, <3>1, <1>2, <1>3
    <3> QED
      BY <2>4, <3>2, <3>3, <3>4, <1>3
  <2> QED
    BY <2>1, <2>2, <2>3, <2>4
<1> QED
  BY <1>4, <1>5 DEF LinkInv

(* Where an announcement leaves a queue it writes to: notices and nothing   *)
(* else, and no packet was ever sent or received over that lease.           *)
LEMMA LinkAnnounce ==
    ASSUME TypeOK, TypeOK', RelayInv, LinkInv, OutsideInv, NEW g \in Leases,
           Announce(g)
    PROVE  LinkInv'
<1>1. /\ partner[g] = NoLease /\ queue[g] = << >>
      /\ Len(queue[g]) = 0 /\ Fits(g)
  BY AnnounceFacts
<1> UNCHANGED <<forwarded, delivered>>
  BY DEF Announce
<1>2. \A l \in Leases : l # g => phase'[l] = phase[l]
  BY DEF Announce, AnnounceAlone, AnnouncePaired, AnnounceUnsecured, TypeOK
<1>3. CASE AnnounceAlone(g)
  <2>1. queue' = [queue EXCEPT ![g] = Append(@, Waiting)] /\ partner' = partner
    BY <1>1, <1>3 DEF AnnounceAlone
  <2>2. /\ queue'[g] = Append(queue[g], Waiting)
        /\ \A l \in Leases : l # g => queue'[l] = queue[l]
    BY <2>1 DEF TypeOK
  <2>3. Waiting.type # "data" /\ Waiting \in Message
    BY DEF Waiting, Message
  <2>4. Len(queue'[g]) = 1 /\ queue'[g][1] = Waiting
    BY <2>2, <2>3, <1>1
  <2>5. QueuedForLink'
    BY <1>2, <2>1, <2>2, <2>3, <2>4 DEF LinkInv, QueuedForLink
  <2>6. InOrder'
    <3> SUFFICES ASSUME NEW l \in Leases
                 PROVE  /\ partner[l] = NoLease => delivered[l] = 0
                        /\ (partner[l] # NoLease /\ phase'[l] = "running") =>
                             \E k \in 0..Len(queue'[l]) :
                               /\ \A i \in 1..Len(queue'[l]) :
                                     queue'[l][i].type = "data" <=> i > k
                               /\ delivered[l] = forwarded[partner[l]] - (Len(queue'[l]) - k)
      BY <2>1 DEF InOrder
    <3>1. /\ partner[l] = NoLease => delivered[l] = 0
          /\ partner[l] # NoLease /\ phase[l] = "running" =>
               \E k \in 0..Len(queue[l]) :
                 /\ \A i \in 1..Len(queue[l]) : queue[l][i].type = "data" <=> i > k
                 /\ delivered[l] = forwarded[partner[l]] - (Len(queue[l]) - k)
      BY DEF LinkInv, InOrder
    <3>2. CASE l = g
      BY <3>1, <3>2, <1>1
    <3>3. CASE l # g
      <4>1. queue'[l] = queue[l] /\ phase'[l] = phase[l]
        BY <3>3, <2>2, <1>2
      <4> QED
        BY <3>1, <4>1
    <3> QED
      BY <3>2, <3>3
  <2> QED
    BY <2>5, <2>6 DEF LinkInv
<1>4. CASE AnnouncePaired(g)
  <2> DEFINE h == Opposite(g)
  <2>1. /\ h \in Leases /\ h # g /\ h # NoLease /\ partner[h] = NoLease
        /\ Len(queue[h]) \in Nat /\ Fits(h)
        /\ phase[h] \in Held /\ phase[h] # "failed" /\ ~cancelled[h]
        /\ home[h] = Across(home[g])
    BY <1>4, WaitingPeer DEF AnnouncePaired
  <2>2. /\ partner' = [partner EXCEPT ![g] = h, ![h] = g]
        /\ queue' = [l \in Leases |-> IF l = g \/ l = h
                        THEN Append(queue[l], Paired(g)) ELSE queue[l]]
    BY <1>1, <1>4, <2>1 DEF AnnouncePaired
  <2>3. /\ partner'[g] = h /\ partner'[h] = g
        /\ \A l \in Leases : l # g /\ l # h =>
              partner'[l] = partner[l] /\ queue'[l] = queue[l]
        /\ g # NoLease
    BY <2>1, <2>2 DEF TypeOK, Leases, NoLease
  <2>4. Paired(g) \in Message /\ Paired(g).type # "data"
    <3>1. g \in Nat
      BY RelayConstants DEF Leases
    <3> QED
      BY <3>1 DEF Paired, Message
  <2>5. /\ forwarded[g] = 0 /\ forwarded[h] = 0
        /\ delivered[g] = 0 /\ delivered[h] = 0
    <3>1. forwarded[g] = 0
      BY DEF Announce, OutsideInv, Unsent
    <3>2. Opposite(h) = g /\ phase[g] # "failed"
      BY <2>1, AnnounceFacts, AcrossFacts DEF Opposite
    <3>3. ~(forwarded[h] > 0)
      BY <2>1, <3>2 DEF OutsideInv, OutsideIsDoomed
    <3>4. forwarded[h] \in Nat
      BY <2>1 DEF TypeOK
    <3> QED
      BY <1>1, <2>1, <3>1, <3>3, <3>4 DEF LinkInv, InOrder
  <2>6. \A l \in {g, h} : \A i \in 1..Len(queue[l]) : queue[l][i].type # "data"
    BY <1>1, <2>1, AnnounceFacts DEF LinkInv, QueuedForLink
  <2>7. \A l \in {g, h} : \A i \in 1..Len(queue'[l]) : queue'[l][i].type # "data"
    <3> SUFFICES ASSUME NEW l \in {g, h}, NEW i \in 1..Len(queue'[l])
                 PROVE  queue'[l][i].type # "data"
      OBVIOUS
    <3>1. l \in Leases /\ queue[l] \in Seq(Message)
      BY <2>1 DEF TypeOK
    <3>2. queue'[l] = Append(queue[l], Paired(g))
      BY <3>1, <2>2
    <3>3. /\ i \in 1..Len(queue[l]) => queue'[l][i] = queue[l][i]
          /\ i = Len(queue[l]) + 1 => queue'[l][i] = Paired(g)
          /\ i \in 1..Len(queue[l]) \/ i = Len(queue[l]) + 1
      BY <3>1, <3>2, <2>4
    <3> QED
      BY <3>3, <2>4, <2>6
  <2>8. QueuedForLink'
    <3> SUFFICES ASSUME NEW l \in Leases, NEW i \in 1..Len(queue'[l]),
                        phase'[l] # "failed", queue'[l][i].type = "data"
                 PROVE  /\ partner'[l] # NoLease
                        /\ queue'[l][i].tag = partner'[l]
                        /\ queue'[l][i].n = forwarded[partner'[l]] - (Len(queue'[l]) - i)
      BY DEF QueuedForLink
    <3>1. l # g /\ l # h
      BY <2>7
    <3>2. partner'[l] = partner[l] /\ queue'[l] = queue[l]
      BY <3>1, <2>3
    <3> QED
      BY <1>2, <3>1, <3>2 DEF LinkInv, QueuedForLink
  <2>9. InOrder'
    <3> SUFFICES ASSUME NEW l \in Leases
                 PROVE  /\ partner'[l] = NoLease => delivered[l] = 0
                        /\ (partner'[l] # NoLease /\ phase'[l] = "running") =>
                             \E k \in 0..Len(queue'[l]) :
                               /\ \A i \in 1..Len(queue'[l]) :
                                     queue'[l][i].type = "data" <=> i > k
                               /\ delivered[l] = forwarded[partner'[l]] - (Len(queue'[l]) - k)
      BY DEF InOrder
    <3>1. CASE l \in {g, h}
      <4>1. queue'[l] \in Seq(Message)
        BY DEF TypeOK
      <4>2. Len(queue'[l]) \in 0..Len(queue'[l])
        BY <4>1
      <4>3. \A i \in 1..Len(queue'[l]) :
                queue'[l][i].type = "data" <=> i > Len(queue'[l])
        BY <3>1, <4>1, <2>7
      <4>4. delivered[l] = forwarded[partner'[l]] - (Len(queue'[l]) - Len(queue'[l]))
        BY <3>1, <4>1, <2>3, <2>5
      <4> QED
        BY <3>1, <4>2, <4>3, <4>4, <2>1, <2>3
    <3>2. CASE l # g /\ l # h
      <4>1. /\ partner[l] = NoLease => delivered[l] = 0
            /\ partner[l] # NoLease /\ phase[l] = "running" =>
                 \E k \in 0..Len(queue[l]) :
                   /\ \A i \in 1..Len(queue[l]) : queue[l][i].type = "data" <=> i > k
                   /\ delivered[l] = forwarded[partner[l]] - (Len(queue[l]) - k)
        BY DEF LinkInv, InOrder
      <4>2. queue'[l] = queue[l] /\ phase'[l] = phase[l] /\ partner'[l] = partner[l]
        BY <3>2, <2>3, <1>2
      <4> QED
        BY <4>1, <4>2
    <3> QED
      BY <3>1, <3>2
  <2> QED
    BY <2>8, <2>9 DEF LinkInv
<1>5. CASE AnnounceUnsecured(g)
  <2>1. /\ UNCHANGED <<queue, partner, forwarded, delivered>>
        /\ phase'[g] = "failed"
    BY <1>5 DEF AnnounceUnsecured, TypeOK
  <2>2. \A l \in Leases : phase'[l] = "running" => phase[l] = "running"
    BY <1>2, <2>1
  <2>3. \A l \in Leases : phase[l] = "failed" => phase'[l] = "failed"
    BY <1>2, <2>1
  <2> QED
    BY <2>1, <2>2, <2>3, LinkQuiet
<1> QED
  BY <1>3, <1>4, <1>5 DEF Announce

LEMMA LinkStep ==
    ASSUME TypeOK, TypeOK', RelayInv, LinkInv, OutsideInv, [Next]_vars
    PROVE  LinkInv'
<1>1. CASE \E s \in Slots : Reserve(s)
  <2>1. PICK s \in Slots : Reserve(s)
    BY <1>1
  <2>2. /\ \A l \in Leases : phase'[l] = "running" => phase[l] = "running"
        /\ \A l \in Leases : phase[l] = "failed" => phase'[l] = "failed"
    <3>1. generation + 1 \in Leases /\ phase[generation + 1] = "none"
      BY <2>1, RelayConstants
         DEF Reserve, Countable, TypeOK, Leases, RelayInv, Owned
    <3> QED
      BY <2>1, <3>1 DEF Reserve, TypeOK
  <2> QED
    BY <2>1, <2>2, LinkQuiet DEF Reserve
<1>2. CASE \E g \in Leases : Abandon(g) \/ AnnounceRefused(g) \/ ReleasePermit(g)
  <2>1. PICK g \in Leases : Abandon(g) \/ AnnounceRefused(g) \/ ReleasePermit(g)
    BY <1>2
  <2>2. /\ \A l \in Leases : phase'[l] = "running" => phase[l] = "running"
        /\ \A l \in Leases : phase[l] = "failed" => phase'[l] = "failed"
    BY <2>1 DEF Abandon, AnnounceRefused, ReleasePermit, TypeOK
  <2> QED
    BY <2>1, <2>2, LinkQuiet DEF Abandon, AnnounceRefused, ReleasePermit
<1>3. CASE \E g \in Leases : Announce(g)
  BY <1>3, LinkAnnounce
<1>4. CASE \E g \in Leases : ShutdownSeen(g) \/ CancelSeen(g) \/ ReceiveBreak(g)
                             \/ ReceiveBinaryFull(g)
  <2>1. PICK g \in Leases : ShutdownSeen(g) \/ CancelSeen(g) \/ ReceiveBreak(g)
                             \/ ReceiveBinaryFull(g)
    BY <1>4
  <2>2. /\ \A l \in Leases : phase'[l] = "running" => phase[l] = "running"
        /\ \A l \in Leases : phase[l] = "failed" => phase'[l] = "failed"
    BY <2>1 DEF ShutdownSeen, CancelSeen, ReceiveBreak, ReceiveBinaryFull, TypeOK
  <2> QED
    BY <2>1, <2>2, LinkQuiet DEF ShutdownSeen, CancelSeen, ReceiveBreak, ReceiveBinaryFull
<1>5. CASE \E g \in Leases : Deliver(g)
  BY <1>5, LinkDeliver
<1>6. CASE \E g \in Leases : DeliverFails(g) \/ DropLease(g)
  <2>1. PICK g \in Leases : DeliverFails(g) \/ DropLease(g)
    BY <1>6
  <2>2. /\ \A l \in Leases : phase'[l] = "running" => phase[l] = "running"
        /\ phase'[g] # "running"
        /\ \A l \in Leases : l # g => phase'[l] = phase[l]
        /\ phase[g] = "failed" => queue'[g] = << >>
    BY <2>1 DEF DeliverFails, DropLease, TypeOK
  <2>3. \/ queue'[g] = << >>
        \/ queue[g] # << >> /\ queue'[g] = Tail(queue[g])
    BY <2>1 DEF DeliverFails, DropLease, TypeOK
  <2>4. \A l \in Leases : l # g => queue'[l] = queue[l]
    BY <2>1 DEF DeliverFails, DropLease, TypeOK
  <2>5. UNCHANGED <<partner, forwarded, delivered>>
    BY <2>1 DEF DeliverFails, DropLease
  <2> QED
    BY <2>2, <2>3, <2>4, <2>5, LinkQuiet
<1>7. CASE \E g \in Leases : Heartbeat(g) \/ HeartbeatFails(g) \/ ReceivePong(g)
  <2>1. PICK g \in Leases : Heartbeat(g) \/ HeartbeatFails(g) \/ ReceivePong(g)
    BY <1>7
  <2>2. /\ \A l \in Leases : phase'[l] = "running" => phase[l] = "running"
        /\ \A l \in Leases : phase[l] = "failed" => phase'[l] = "failed"
    BY <2>1 DEF Heartbeat, HeartbeatFails, ReceivePong, TypeOK
  <2> QED
    BY <2>1, <2>2, LinkQuiet DEF Heartbeat, HeartbeatFails, ReceivePong
<1>8. CASE \E g \in Leases : ReceiveBinary(g)
  BY <1>8, LinkBinary
<1>9. CASE Shutdown \/ (\E g \in Leases : GoSilent(g)) \/ UNCHANGED vars
  <2>1. UNCHANGED <<queue, phase, partner, forwarded, delivered>>
    BY <1>9 DEF Shutdown, GoSilent, vars
  <2> QED
    BY <2>1, LinkQuiet
<1> QED
  BY <1>1, <1>2, <1>3, <1>4, <1>5, <1>6, <1>7, <1>8, <1>9 DEF Next, Loop

(* Nobody is freed from the fate of having sent outside a link: a step that *)
(* neither moves slots nor hands over packets.                              *)
LEMMA OutsideQuiet ==
    ASSUME TypeOK, TypeOK', RelayInv, OutsideInv,
           UNCHANGED <<slot, home, forwarded>>,
           \A l \in Leases : partner'[l] = NoLease => partner[l] = NoLease,
           \A l \in Leases : active[l] => active'[l],
           \A l \in Leases : cancelled[l] => cancelled'[l],
           \A l \in Leases : phase'[l] \in Held => phase[l] \in Held,
           \A l \in Leases : phase[l] = "failed" => phase'[l] = "failed"
    PROVE  OutsideInv'
<1>1. Unsent'
  BY DEF OutsideInv, Unsent
<1>2. OutsideIsDoomed'
  <2> SUFFICES ASSUME NEW l \in Leases, phase'[l] \in Held,
                      partner'[l] = NoLease, forwarded[l] > 0
               PROVE  \/ cancelled'[l]
                      \/ Opposite(l) # NoLease /\ phase'[Opposite(l)] = "failed"
    BY DEF OutsideIsDoomed, Opposite
  <2>1. \/ cancelled[l]
        \/ Opposite(l) # NoLease /\ phase[Opposite(l)] = "failed"
    BY DEF OutsideInv, OutsideIsDoomed
  <2>2. Opposite(l) # NoLease => Opposite(l) \in Leases
    BY LeaseFacts, AcrossFacts DEF Opposite
  <2> QED
    BY <2>1, <2>2
<1> QED
  BY <1>1, <1>2 DEF OutsideInv

(* A newcomer has sent nothing, and the slot it takes was vacant.           *)
LEMMA OutsideReserve ==
    ASSUME TypeOK, TypeOK', RelayInv, OutsideInv, NEW s \in Slots, Reserve(s)
    PROVE  OutsideInv'
<1> DEFINE g == generation + 1
<1>1. g \in Leases /\ phase[g] = "none" /\ ~active[g]
  BY RelayConstants
     DEF Reserve, Countable, TypeOK, Leases, RelayInv, Owned, Fresh
<1>2. /\ UNCHANGED <<active, cancelled, partner, forwarded>> /\ slot[s] = NoLease
      /\ \A r \in Slots : r # s => slot'[r] = slot[r]
      /\ \A l \in Leases : l # g => home'[l] = home[l] /\ phase'[l] = phase[l]
  BY <1>1 DEF Reserve, TypeOK
<1>3. forwarded[g] = 0
  BY <1>1 DEF OutsideInv, Unsent
<1> HIDE DEF g
<1>4. Unsent'
  BY <1>2 DEF OutsideInv, Unsent
<1>5. OutsideIsDoomed'
  <2> SUFFICES ASSUME NEW l \in Leases, phase'[l] \in Held,
                      partner[l] = NoLease, forwarded[l] > 0
               PROVE  \/ cancelled[l]
                      \/ Opposite(l)' # NoLease /\ phase'[Opposite(l)'] = "failed"
    BY <1>2 DEF OutsideIsDoomed
  <2>1. l # g /\ phase[l] \in Held /\ home'[l] = home[l]
    BY <1>2, <1>3
  <2>2. \/ cancelled[l]
        \/ Opposite(l) # NoLease /\ phase[Opposite(l)] = "failed"
    BY <2>1 DEF OutsideInv, OutsideIsDoomed
  <2>3. CASE cancelled[l]
    BY <2>3
  <2>4. CASE Opposite(l) # NoLease /\ phase[Opposite(l)] = "failed"
    <3>1. Across(home[l]) \in Slots /\ Opposite(l) \in Leases
      BY <2>4, LeaseFacts, AcrossFacts DEF Opposite
    <3>2. Opposite(l)' = Opposite(l)
      BY <1>2, <2>1, <2>4, <3>1 DEF Opposite
    <3>3. Opposite(l) # g
      BY <1>1, <2>4
    <3> QED
      BY <1>2, <2>4, <3>1, <3>2, <3>3
  <2> QED
    BY <2>2, <2>3, <2>4
<1> QED
  BY <1>4, <1>5 DEF OutsideInv

(* The failed lease cancels the sender when it goes.                        *)
LEMMA OutsideDrop ==
    ASSUME TypeOK, TypeOK', RelayInv, OutsideInv, NEW g \in Leases, DropLease(g)
    PROVE  OutsideInv'
<1>1. /\ UNCHANGED <<home, active, partner, forwarded>>
      /\ phase[g] \in Held /\ phase'[g] \notin Held
      /\ \A l \in Leases : l # g => phase'[l] = phase[l]
  BY DEF DropLease, TypeOK, Held
<1>2. home[g] \in Slots /\ slot[home[g]] = g
  BY <1>1, LeaseFacts DEF RelayInv, Owned
<1>3. /\ \A r \in Slots : r # home[g] => slot'[r] = slot[r]
      /\ CancelPeer(g)
  BY <1>2 DEF DropLease, SlotOf, TypeOK
<1>4. \A l \in Leases : cancelled[l] => cancelled'[l]
  BY <1>3 DEF CancelPeer, TypeOK
<1>5. Unsent'
  BY <1>1 DEF OutsideInv, Unsent
<1>6. OutsideIsDoomed'
  <2> SUFFICES ASSUME NEW l \in Leases, phase'[l] \in Held,
                      partner[l] = NoLease, forwarded[l] > 0
               PROVE  \/ cancelled'[l]
                      \/ Opposite(l)' # NoLease /\ phase'[Opposite(l)'] = "failed"
    BY <1>1 DEF OutsideIsDoomed
  <2>1. l # g /\ phase[l] \in Held /\ l # NoLease /\ home[l] \in Slots
    BY <1>1, LeaseFacts DEF Leases, NoLease
  <2>2. \/ cancelled[l]
        \/ Opposite(l) # NoLease /\ phase[Opposite(l)] = "failed"
    BY <2>1 DEF OutsideInv, OutsideIsDoomed
  <2>3. CASE Across(home[l]) = home[g]
    <3>1. Opposite(g) = l
      BY <2>1, <2>3, AcrossFacts DEF Opposite, RelayInv, Owned
    <3> QED
      BY <1>3, <2>1, <3>1 DEF CancelPeer, TypeOK
  <2>4. CASE Across(home[l]) # home[g]
    <3>1. Opposite(l)' = Opposite(l)
      BY <1>1, <1>3, <2>1, <2>4, AcrossFacts DEF Opposite
    <3>2. Opposite(l) # NoLease =>
             Opposite(l) \in Leases /\ home[Opposite(l)] = Across(home[l])
      BY <2>1, LeaseFacts, AcrossFacts DEF Opposite, RelayInv, Owned
    <3> QED
      BY <1>1, <1>4, <2>2, <2>4, <3>1, <3>2
  <2> QED
    BY <2>3, <2>4
<1> QED
  BY <1>5, <1>6 DEF OutsideInv

LEMMA OutsideStep ==
    ASSUME TypeOK, TypeOK', RelayInv, LinkInv, OutsideInv, [Next]_vars
    PROVE  OutsideInv'
<1>1. CASE \E s \in Slots : Reserve(s)
  BY <1>1, OutsideReserve
<1>2. CASE \E g \in Leases : DropLease(g)
  BY <1>2, OutsideDrop
<1>3. CASE \E g \in Leases : ReceiveBinary(g)
  <2>1. PICK g \in Leases : ReceiveBinary(g)
    BY <1>3
  <2>2. /\ UNCHANGED <<slot, home, phase, active, cancelled, partner>>
        /\ \A l \in Leases : l # g => forwarded'[l] = forwarded[l]
    BY <2>1 DEF ReceiveBinary, TypeOK
  <2>3. active[g] /\ Opposite(g) # NoLease
        /\ (partner[g] = NoLease => phase[Opposite(g)] = "failed")
    BY <2>1, BinaryFacts
  <2>4. Unsent'
    BY <2>2, <2>3 DEF OutsideInv, Unsent
  <2>5. OutsideIsDoomed'
    BY <2>2, <2>3 DEF OutsideInv, OutsideIsDoomed, Opposite
  <2> QED
    BY <2>4, <2>5 DEF OutsideInv
<1>4. CASE \E g \in Leases : Announce(g)
  <2>1. PICK g \in Leases : Announce(g)
    BY <1>4
  <2>2. /\ UNCHANGED <<slot, home, forwarded, cancelled>>
        /\ phase[g] = "reserved"
        /\ \A l \in Leases : active[l] => active'[l]
    BY <2>1 DEF Announce, TypeOK
  <2>3. \A l \in Leases : l # g => phase'[l] = phase[l]
    BY <2>1 DEF Announce, AnnounceAlone, AnnouncePaired, AnnounceUnsecured, TypeOK
  <2>4. \A l \in Leases : partner'[l] = NoLease => partner[l] = NoLease
    <3>1. CASE AnnouncePaired(g)
      <4>1. PICK h \in Leases : h = Opposite(g) /\ h # NoLease
                                /\ partner[h] = NoLease
        BY <2>1, <3>1, WaitingPeer DEF AnnouncePaired
      <4>2. partner' = [partner EXCEPT ![g] = h, ![h] = g]
        BY <3>1, <4>1 DEF AnnouncePaired
      <4>3. partner[g] = NoLease
        BY <2>1, AnnounceFacts
      <4> QED
        BY <4>1, <4>2, <4>3 DEF TypeOK
    <3>2. CASE AnnounceAlone(g) \/ AnnounceUnsecured(g)
      BY <3>2 DEF AnnounceAlone, AnnounceUnsecured
    <3> QED
      BY <2>1, <3>1, <3>2 DEF Announce
  <2>5. /\ \A l \in Leases : phase'[l] \in Held => phase[l] \in Held
        /\ \A l \in Leases : phase[l] = "failed" => phase'[l] = "failed"
    BY <2>2, <2>3 DEF Held
  <2> QED
    BY <2>2, <2>4, <2>5, OutsideQuiet
<1>5. CASE \E g \in Leases : \/ Abandon(g) \/ AnnounceRefused(g) \/ ReleasePermit(g)
                             \/ ShutdownSeen(g) \/ CancelSeen(g) \/ ReceiveBreak(g)
                             \/ ReceiveBinaryFull(g) \/ Deliver(g) \/ DeliverFails(g)
                             \/ Heartbeat(g) \/ HeartbeatFails(g) \/ ReceivePong(g)
  <2>1. PICK g \in Leases : \/ Abandon(g) \/ AnnounceRefused(g) \/ ReleasePermit(g)
                            \/ ShutdownSeen(g) \/ CancelSeen(g) \/ ReceiveBreak(g)
                            \/ ReceiveBinaryFull(g) \/ Deliver(g) \/ DeliverFails(g)
                            \/ Heartbeat(g) \/ HeartbeatFails(g) \/ ReceivePong(g)
    BY <1>5
  <2> USE DEF Abandon, AnnounceRefused, ReleasePermit, ShutdownSeen, CancelSeen,
              ReceiveBreak, ReceiveBinaryFull, Deliver, DeliverFails, Heartbeat,
              HeartbeatFails, ReceivePong
  <2>2. UNCHANGED <<slot, home, active, partner, forwarded>>
    BY <2>1
  <2>3. \A l \in Leases : cancelled[l] => cancelled'[l]
    BY <2>1 DEF TypeOK
  <2>4. /\ \A l \in Leases : phase'[l] \in Held => phase[l] \in Held
        /\ \A l \in Leases : phase[l] = "failed" => phase'[l] = "failed"
    BY <2>1 DEF TypeOK, Held
  <2> QED
    BY <2>2, <2>3, <2>4, OutsideQuiet
<1>6. CASE Shutdown \/ (\E g \in Leases : GoSilent(g)) \/ UNCHANGED vars
  <2>1. UNCHANGED <<slot, home, active, partner, cancelled, forwarded, phase>>
    BY <1>6 DEF Shutdown, GoSilent, vars
  <2> QED
    BY <2>1, OutsideQuiet
<1> QED
  BY <1>1, <1>2, <1>3, <1>4, <1>5, <1>6 DEF Next, Loop

(* Packets are queued for the right lease, consecutively, for any number of *)
(* rooms, leases and packets, and only a doomed client sends outside a link. *)
THEOREM LinkInvariance == Spec => [](TypeOK /\ RelayInv /\ LinkInv /\ OutsideInv)
<1>1. Init => LinkInv /\ OutsideInv
  BY LinkInit
<1>2. TypeOK /\ RelayInv /\ TypeOK' /\ LinkInv /\ OutsideInv /\ [Next]_vars =>
        LinkInv' /\ OutsideInv'
  BY LinkStep, OutsideStep
<1> QED
  BY <1>1, <1>2, Invariance, PTL DEF Spec

(* Every packet a task can read came from the lease's partner, none         *)
(* overtook another (registry.rs, forward), and a client that sent outside  *)
(* a link is cancelled or about to be.                                      *)
THEOREM QueuesHoldLinks == Spec => []QueueHoldsLink
<1>1. LinkInv /\ OutsideInv => QueueHoldsLink
  BY DEF LinkInv, OutsideInv, QueueHoldsLink
<1> QED
  BY <1>1, LinkInvariance, PTL

-----------------------------------------------------------------------------
(* The refinement.  Status(g) is what RelayLink sees of a lease's task.     *)

Status(g) == CASE phase[g] = "none" -> "new"
               [] phase[g] \in Held -> "open"
               [] OTHER -> "closed"

Statuses == [g \in Leases |-> Status(g)]

\* The packets a lease handed over inside its link.
Sent(g) == IF partner[g] = NoLease THEN 0 ELSE forwarded[g]
Sents == [g \in Leases |-> Sent(g)]

LEMMA StatusFacts ==
    ASSUME TypeOK
    PROVE  /\ \A g \in Leases : Statuses[g] = Status(g)
           /\ \A g \in Leases : phase[g] = "none" => Status(g) = "new"
           /\ \A g \in Leases : phase[g] \in Held => Status(g) = "open"
           /\ \A g \in Leases : phase[g] \in {"closed", "gone"} => Status(g) = "closed"
  BY DEF Status, Statuses, Held

(* What a step that moves tasks inside "open" or inside "closed" looks like *)
(* from the link: nothing.                                                  *)
LEMMA StatusStill ==
    ASSUME TypeOK, TypeOK',
           \A l \in Leases :
              \/ phase'[l] = phase[l]
              \/ phase[l] \in Held /\ phase'[l] \in Held
              \/ phase[l] = "closed" /\ phase'[l] = "gone"
    PROVE  Statuses' = Statuses
<1>1. \A l \in Leases : Status(l)' = Status(l)
  BY DEF Status, Held
<1> QED
  BY <1>1 DEF Statuses

(* One step of the relay is one step of the link, or none.                  *)
LEMMA LinkRefines ==
    ASSUME TypeOK, TypeOK', RelayInv, LinkInv, OutsideInv, [Next]_vars
    PROVE  Link!Next \/ UNCHANGED <<Statuses, partner, Sents, delivered>>
<1>0. ASSUME UNCHANGED <<partner, forwarded>> PROVE UNCHANGED Sents
  BY <1>0 DEF Sents, Sent
<1>1. CASE \E s \in Slots : Reserve(s)
  <2>1. PICK s \in Slots : Reserve(s)
    BY <1>1
  <2>2. PICK g \in Leases : g = generation + 1 /\ phase[g] = "none"
    BY <2>1, RelayConstants DEF Reserve, Countable, TypeOK, Leases, RelayInv, Owned
  <2>3. phase' = [phase EXCEPT ![g] = "reserved"]
    BY <2>1, <2>2 DEF Reserve
  <2>4. /\ phase'[g] = "reserved"
        /\ \A l \in Leases : l # g => phase'[l] = phase[l]
    BY <2>2, <2>3 DEF TypeOK
  <2>5. Statuses[g] = "new" /\ Statuses' = [Statuses EXCEPT ![g] = "open"]
    BY <2>2, <2>4 DEF Statuses, Status, Held
  <2>6. UNCHANGED <<partner, forwarded, delivered>>
    BY <2>1 DEF Reserve
  <2>7. Link!Open(g)
    BY <2>5, <2>6, <1>0 DEF Link!Open, Statuses, Status, Sents, Sent
  <2> QED
    BY <2>7 DEF Link!Next
<1>2. CASE \E g \in Leases : \/ Abandon(g) \/ AnnounceRefused(g) \/ ReleasePermit(g)
                             \/ ShutdownSeen(g) \/ CancelSeen(g) \/ ReceiveBreak(g)
                             \/ ReceiveBinaryFull(g) \/ DeliverFails(g)
                             \/ Heartbeat(g) \/ HeartbeatFails(g) \/ ReceivePong(g)
  <2>1. PICK g \in Leases : \/ Abandon(g) \/ AnnounceRefused(g) \/ ReleasePermit(g)
                            \/ ShutdownSeen(g) \/ CancelSeen(g) \/ ReceiveBreak(g)
                            \/ ReceiveBinaryFull(g) \/ DeliverFails(g)
                            \/ Heartbeat(g) \/ HeartbeatFails(g) \/ ReceivePong(g)
    BY <1>2
  <2> USE DEF Abandon, AnnounceRefused, ReleasePermit, ShutdownSeen, CancelSeen,
              ReceiveBreak, ReceiveBinaryFull, DeliverFails, Heartbeat,
              HeartbeatFails, ReceivePong
  <2>2. \A l \in Leases :
           \/ phase'[l] = phase[l]
           \/ phase[l] \in Held /\ phase'[l] \in Held
           \/ phase[l] = "closed" /\ phase'[l] = "gone"
    BY <2>1 DEF TypeOK, Held
  <2>3. UNCHANGED <<partner, forwarded, delivered>>
    BY <2>1
  <2> QED
    BY <2>2, <2>3, <1>0, StatusStill
<1>3. CASE \E g \in Leases : Announce(g)
  <2>1. PICK g \in Leases : Announce(g)
    BY <1>3
  <2>2. phase[g] = "reserved" /\ partner[g] = NoLease
    BY <2>1, AnnounceFacts
  <2>3. \A l \in Leases : \/ phase'[l] = phase[l]
                          \/ phase[l] \in Held /\ phase'[l] \in Held
    BY <2>1 DEF Announce, AnnounceAlone, AnnouncePaired, AnnounceUnsecured, TypeOK,
                Held
  <2>4. UNCHANGED <<Statuses, forwarded, delivered>>
    BY <2>1, <2>3, StatusStill DEF Announce
  <2>5. CASE AnnounceAlone(g) \/ AnnounceUnsecured(g)
    BY <1>0, <2>4, <2>5 DEF AnnounceAlone, AnnounceUnsecured
  <2>6. CASE AnnouncePaired(g)
    <3>1. PICK h \in Leases : h = Opposite(g) /\ h # g /\ phase[h] \in Held
                              /\ partner[h] = NoLease /\ forwarded[h] = 0
      <4>1. PICK h \in Leases : /\ h = Opposite(g) /\ h # g /\ phase[h] \in Held
                                /\ partner[h] = NoLease /\ ~cancelled[h]
                                /\ home[h] = Across(home[g])
        BY <2>1, <2>6, WaitingPeer DEF AnnouncePaired
      <4>2. Opposite(h) = g
        BY <2>1, <4>1, AnnounceFacts, AcrossFacts DEF Opposite
      <4>3. ~(forwarded[h] > 0) /\ forwarded[h] \in Nat
        BY <2>2, <4>1, <4>2 DEF OutsideInv, OutsideIsDoomed, TypeOK
      <4> QED
        BY <4>1, <4>3
    <3>5. forwarded[g] = 0
      BY <2>1 DEF Announce, OutsideInv, Unsent
    <3>2. partner' = [partner EXCEPT ![g] = h, ![h] = g]
      BY <2>6, <3>1 DEF AnnouncePaired
    <3>3. Statuses[g] = "open" /\ Statuses[h] = "open"
      BY <2>2, <3>1, StatusFacts DEF Held
    <3>6. UNCHANGED Sents
      <4>1. \A l \in Leases : Sent(l)' = Sent(l)
        BY <2>2, <2>4, <3>1, <3>2, <3>5 DEF Sent, TypeOK
      <4> QED
        BY <4>1 DEF Sents
    <3>4. Link!Join(g, h)
      BY <2>2, <2>4, <3>1, <3>2, <3>3, <3>6
         DEF Link!Join, Link!NoEnd, NoLease, Statuses, Status, Sents, Sent
    <3> QED
      BY <3>4 DEF Link!Next
  <2> QED
    BY <2>1, <2>5, <2>6 DEF Announce
<1>4. CASE \E g \in Leases : Deliver(g)
  <2>1. PICK g \in Leases : Deliver(g)
    BY <1>4
  <2>2. UNCHANGED <<phase, partner, forwarded>> /\ phase[g] = "running"
    BY <2>1 DEF Deliver
  <2>3. UNCHANGED Statuses
    BY <2>2 DEF Statuses, Status
  <2>4. CASE Head(queue[g]).type # "data"
    <3>1. delivered' = [delivered EXCEPT ![g] = @]
      BY <2>1, <2>4 DEF Deliver
    <3> QED
      BY <2>2, <2>3, <3>1, <1>0 DEF TypeOK
  <2>5. CASE Head(queue[g]).type = "data"
    <3>1. /\ partner[g] # NoLease
          /\ Head(queue[g]).n = delivered[g] + 1
          /\ delivered[g] < forwarded[partner[g]]
      BY <2>1, <2>5, DeliverFacts
    <3>2. delivered' = [delivered EXCEPT ![g] = @ + 1]
      BY <2>1, <2>5, <3>1 DEF Deliver
    <3>3. Statuses[g] = "open"
      BY <2>2, StatusFacts DEF Held
    <3>4. /\ Sents[partner[g]] = forwarded[partner[g]]
          /\ UNCHANGED Sents
      <4>1. partner[g] \in Leases /\ partner[partner[g]] = g /\ g # NoLease
        BY <3>1, LeaseFacts DEF RelayInv, Mutual, Leases, NoLease
      <4> QED
        BY <4>1, <2>2, <1>0 DEF Sents, Sent
    <3>5. Link!Receive(g)
      BY <2>2, <2>3, <3>1, <3>2, <3>3, <3>4
         DEF Link!Receive, Link!NoEnd, NoLease, Statuses, Status, Sents, Sent
    <3> QED
      BY <3>5 DEF Link!Next
  <2> QED
    BY <2>4, <2>5
<1>5. CASE \E g \in Leases : ReceiveBinary(g)
  <2>1. PICK g \in Leases : ReceiveBinary(g)
    BY <1>5
  <2>2. /\ forwarded' = [forwarded EXCEPT ![g] = @ + 1]
        /\ UNCHANGED <<phase, partner, delivered>>
    BY <2>1 DEF ReceiveBinary
  <2>3. UNCHANGED Statuses
    BY <2>2 DEF Statuses, Status
  <2>4. CASE partner[g] = NoLease
    <3>1. \A l \in Leases : Sent(l)' = Sent(l)
      BY <2>2, <2>4 DEF Sent, TypeOK
    <3> QED
      BY <2>2, <2>3, <3>1 DEF Sents
  <2>5. CASE partner[g] # NoLease
    <3>1. PICK h \in Leases : /\ h # NoLease /\ partner[g] = h
                              /\ phase[g] \in Held /\ phase[h] \in Held
      BY <2>1, <2>5, BinaryFacts
    <3>2. Statuses[g] = "open" /\ Statuses[h] = "open"
      BY <3>1, StatusFacts
    <3>3. Sents' = [Sents EXCEPT ![g] = @ + 1]
      BY <2>2, <2>5 DEF Sents, Sent, TypeOK
    <3>4. Link!Send(g)
      BY <2>2, <2>3, <3>1, <3>2, <3>3
         DEF Link!Send, Link!NoEnd, NoLease, Statuses, Status, Sents, Sent
    <3> QED
      BY <3>4 DEF Link!Next
  <2> QED
    BY <2>4, <2>5
<1>6. CASE \E g \in Leases : DropLease(g)
  <2>1. PICK g \in Leases : DropLease(g)
    BY <1>6
  <2>2. /\ phase[g] \in Held /\ phase'[g] \in {"closed", "gone"}
        /\ \A l \in Leases : l # g => phase'[l] = phase[l]
    BY <2>1 DEF DropLease, TypeOK, Held
  <2>3. Statuses[g] = "open" /\ Statuses' = [Statuses EXCEPT ![g] = "closed"]
    BY <2>2 DEF Statuses, Status, Held
  <2>4. UNCHANGED <<partner, forwarded, delivered>>
    BY <2>1 DEF DropLease
  <2>5. Link!Close(g)
    BY <2>3, <2>4, <1>0 DEF Link!Close, Statuses, Status, Sents, Sent
  <2> QED
    BY <2>5 DEF Link!Next
<1>7. CASE Shutdown \/ (\E g \in Leases : GoSilent(g)) \/ UNCHANGED vars
  BY <1>7 DEF Shutdown, GoSilent, vars, Statuses, Status, Sents, Sent
<1> QED
  BY <1>1, <1>2, <1>3, <1>4, <1>5, <1>6, <1>7 DEF Next, Loop

(* The relay implements the link: an end is linked to at most one other end *)
(* in its life, packets travel inside the link only, in order and once, and *)
(* nothing enters a link after either end has closed.                       *)
THEOREM Refinement == Spec => LinkSpec
<1>1. Init => Link!Init
  BY DEF Init, Link!Init, Link!NoEnd, NoLease, Held
<1>2. TypeOK /\ TypeOK' /\ RelayInv /\ LinkInv /\ OutsideInv /\ [Next]_vars =>
        [Link!Next]_<<Statuses, partner, Sents, delivered>>
  BY LinkRefines
<1>3. [Link!Next]_<<Statuses, partner, Sents, delivered>> =>
        [Link!Next]_<<[g \in Leases |-> CASE phase[g] = "none" -> "new"
                                          [] phase[g] \in Held -> "open"
                                          [] OTHER -> "closed"],
                      partner,
                      [g \in Leases |-> IF partner[g] = NoLease
                                          THEN 0 ELSE forwarded[g]],
                      delivered>>
  BY DEF Statuses, Status, Sents, Sent
<1> QED
  BY <1>1, <1>2, <1>3, LinkInvariance, PTL DEF Spec, LinkSpec, Link!Spec
=============================================================================
