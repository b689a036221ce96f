------------------------- MODULE HostPairingProofs -------------------------
(* Type correctness and safety of HostPairing for every number of handles,  *)
(* connections, invitations, devices and restarts.                          *)
EXTENDS HostPairing, FiniteSetTheorems, TLAPS

(* The phases of a connection task, kept folded in the proofs.              *)
LEMMA PhasesOfTask ==
    /\ "idle" \in PC /\ "hello" \in PC /\ "deciding" \in PC
    /\ "enrolling" \in PC /\ "detached" \in PC /\ "orphan" \in PC
    /\ "enrolled" \in PC /\ "answering" \in PC /\ "acking" \in PC
    /\ "online" \in PC /\ "unwinding" \in PC /\ "done" \in PC
  BY DEF PC

(* Every variable keeps its type.                                           *)
THEOREM TypeCorrect == Spec => []TypeOK
<1>1. Init => TypeOK
  BY HostConstants, PhasesOfTask DEF Init, TypeOK, Invitations, Devices, None
<1>2. TypeOK /\ [Next]_vars => TypeOK'
  <2> SUFFICES ASSUME TypeOK, [Next]_vars PROVE TypeOK'
    OBVIOUS
  <2> USE HostConstants, PhasesOfTask DEF TypeOK, Invitations, Devices, None, book, store, handles,
        approvals, sessions, tasks, history
  <2>1. ASSUME NEW h \in Handles, StartHandle(h) PROVE TypeOK'
    <3>1. CASE HasRoom({i \in pending : Timely(i)})
      <4>1. issued + 1 \in Invitations
        BY <2>1, <3>1 DEF StartHandle, Issue
      <4> DEFINE n == issued + 1
      <4>a. /\ issued' = n
            /\ pending' = {i \in pending : Timely(i)} \union {n}
            /\ issuedAt' = [issuedAt EXCEPT ![n] = now]
            /\ issuer' = [issuer EXCEPT ![n] = h]
            /\ slot' = [slot EXCEPT ![h] = n]
        BY <2>1, <3>1 DEF StartHandle, Issue
      <4>b. n \in Invitations /\ now \in Nat
        BY <4>1
      <4> HIDE DEF n
      <4>2. /\ issued' \in 0..MaxInvitations
            /\ pending' \subseteq Invitations
            /\ issuedAt' \in [Invitations -> Nat]
            /\ issuer' \in [Invitations -> Handles]
            /\ slot' \in [Handles -> Invitations \union {None}]
        <5>1. issued' \in 0..MaxInvitations
          BY <4>a, <4>b
        <5>2. pending' \subseteq Invitations
          BY <4>a, <4>b
        <5>3. issuedAt' \in [Invitations -> Nat]
          BY <4>a, <4>b
        <5>4. issuer' \in [Invitations -> Handles]
          BY <4>a, <4>b
        <5>5. slot' \in [Handles -> Invitations \union {None}]
          BY <4>a, <4>b
        <5> QED
          BY <5>1, <5>2, <5>3, <5>4, <5>5
      <4>3. up' \in [Handles -> {"new", "up", "down"}]
        BY <2>1 DEF StartHandle
      <4>4. UNCHANGED <<now, granted, devices, allow, store, approvals,
                        sessions, tasks, history, crashes>>
        BY <2>1 DEF StartHandle
      <4> QED
        BY <4>2, <4>3, <4>4
    <3>2. CASE ~HasRoom({i \in pending : Timely(i)})
      BY <2>1, <3>2 DEF StartHandle, Issue
    <3> QED
      BY <3>1, <3>2
  <2>2. ASSUME NEW h \in Handles, RefreshInvitation(h) PROVE TypeOK'
    <3> DEFINE live == {i \in pending \ {slot[h]} : Timely(i)}
    <3>1. request' \in [Connections -> {"none", "asked", "yes", "no"}]
      BY <2>2 DEF RefreshInvitation, Withdrawn
    <3>2. CASE HasRoom(live)
      <4>1. issued + 1 \in Invitations
        BY <2>2, <3>2 DEF RefreshInvitation, Issue
      <4> DEFINE n == issued + 1
      <4>a. /\ issued' = n
            /\ pending' = live \union {n}
            /\ issuedAt' = [issuedAt EXCEPT ![n] = now]
            /\ issuer' = [issuer EXCEPT ![n] = h]
            /\ slot' = [slot EXCEPT ![h] = n]
        BY <2>2, <3>2 DEF RefreshInvitation, Issue
      <4>b. n \in Invitations /\ now \in Nat
        BY <4>1
      <4> HIDE DEF n
      <4>2. /\ issued' \in 0..MaxInvitations
            /\ pending' \subseteq Invitations
            /\ issuedAt' \in [Invitations -> Nat]
            /\ issuer' \in [Invitations -> Handles]
            /\ slot' \in [Handles -> Invitations \union {None}]
        <5>1. issued' \in 0..MaxInvitations
          BY <4>a, <4>b
        <5>2. pending' \subseteq Invitations
          BY <4>a, <4>b
        <5>3. issuedAt' \in [Invitations -> Nat]
          BY <4>a, <4>b
        <5>4. issuer' \in [Invitations -> Handles]
          BY <4>a, <4>b
        <5>5. slot' \in [Handles -> Invitations \union {None}]
          BY <4>a, <4>b
        <5> QED
          BY <5>1, <5>2, <5>3, <5>4, <5>5
      <4>3. UNCHANGED <<now, granted, devices, allow, store, up, input,
                        expires, sessions, tasks, history, crashes>>
        BY <2>2 DEF RefreshInvitation
      <4> QED
        BY <3>1, <4>2, <4>3
    <3>3. CASE ~HasRoom(live)
      BY <2>2, <3>1, <3>3 DEF RefreshInvitation, Issue
    <3> QED
      BY <3>2, <3>3
  <2>3. ASSUME NEW h \in Handles, DropHandle(h) PROVE TypeOK'
    BY <2>3 DEF DropHandle, Withdrawn
  <2>4. ASSUME NEW c \in Connections, NEW i \in Invitations,
               HelloInvitation(c, i) PROVE TypeOK'
    BY <2>4 DEF HelloInvitation
  <2>5. ASSUME NEW c \in Connections, NEW d \in Devices, HelloDevice(c, d)
        PROVE TypeOK'
    BY <2>5 DEF HelloDevice
  <2>6. ASSUME NEW c \in Connections, RequestPairing(c) PROVE TypeOK'
    <3>1. CASE CanRequest(c)
      <4>1. now + DECISION_TTL \in Nat
        OBVIOUS
      <4>2. expires' \in [Connections -> Nat]
        BY <2>6, <3>1, <4>1 DEF RequestPairing
      <4>3. /\ pc' \in [Connections -> PC]
            /\ request' \in [Connections -> {"none", "asked", "yes", "no"}]
        <5>1. /\ pc' = [pc EXCEPT ![c] = "deciding"]
              /\ request' = [request EXCEPT ![c] = "asked"]
          BY <2>6, <3>1 DEF RequestPairing
        <5> QED
          BY <5>1
      <4>4. UNCHANGED <<now, book, store, handles, input, sessions, invite,
                        device, history, crashes>>
        BY <2>6 DEF RequestPairing
      <4> QED
        BY <4>2, <4>3, <4>4
    <3>2. CASE ~CanRequest(c)
      BY <2>6, <3>2 DEF RequestPairing
    <3> QED
      BY <3>1, <3>2
  <2>7. ASSUME NEW c \in Connections,
               SubmitEnroll(c) \/ Disconnect(c) \/ Fail(c) \/ Detach(c)
        PROVE TypeOK'
    <3>1. pc' \in [Connections -> PC]
      BY <2>7 DEF SubmitEnroll, Disconnect, Fail, Detach
    <3> QED
      BY <2>7, <3>1 DEF SubmitEnroll, Disconnect, Fail, Detach
  <2>8. ASSUME NEW c \in Connections, DecisionSeen(c) PROVE TypeOK'
    BY <2>8 DEF DecisionSeen
  <2>9. ASSUME NEW c \in Connections, SendResponse(c) PROVE TypeOK'
    BY <2>9 DEF SendResponse
  <2>10. ASSUME NEW c \in Connections, Acknowledge(c) PROVE TypeOK'
    BY <2>10 DEF Acknowledge
  <2>11. ASSUME NEW c \in Connections, DropGuard(c) \/ Unwind(c) PROVE TypeOK'
    <3>1. CASE DropGuard(c)
      BY <3>1 DEF DropGuard
    <3>2. CASE Unwind(c)
      BY <3>2 DEF Unwind, GuardDropped
    <3> QED
      BY <2>11, <3>1, <3>2
  <2>12. ASSUME NEW c \in Connections, ClearSlot(c) PROVE TypeOK'
    BY <2>12 DEF ClearSlot
  <2>13. ASSUME NEW c \in Connections, DecideExpired(c) \/ RejectUnheard(c)
         PROVE TypeOK'
    BY <2>13 DEF DecideExpired, RejectUnheard
  <2>14. ASSUME NEW c \in Connections, Reject(c) PROVE TypeOK'
    <3>1. request' \in [Connections -> {"none", "asked", "yes", "no"}]
      BY <2>14 DEF Reject, Withdrawn
    <3> QED
      BY <2>14, <3>1 DEF Reject
  <2>15. ASSUME NEW c \in Connections, NEW a \in BOOLEAN, Approve(c, a)
         PROVE TypeOK'
    BY <2>15 DEF Approve
  <2>16. ASSUME NEW c \in Connections, NEW ok \in BOOLEAN, After(c, ok)
         PROVE pc' \in [Connections -> PC]
    BY <2>16 DEF After
  <2>17. ASSUME NEW c \in Connections, EnrollUnapproved(c) PROVE TypeOK'
    <3>1. pc' \in [Connections -> PC]
      BY <2>16, <2>17 DEF EnrollUnapproved
    <3> QED
      BY <2>17, <3>1 DEF EnrollUnapproved
  <2>18. ASSUME NEW c \in Connections, EnrollStale(c) PROVE TypeOK'
    <3>1. pc' \in [Connections -> PC]
      BY <2>16, <2>18 DEF EnrollStale
    <3> QED
      BY <2>18, <3>1 DEF EnrollStale
  <2>19. ASSUME NEW c \in Connections, EnrollPersistFails(c) PROVE TypeOK'
    <3>1. pc' \in [Connections -> PC]
      BY <2>16, <2>19 DEF EnrollPersistFails
    <3>2. granted' \in 0..MaxGrants
      BY <2>19 DEF EnrollPersistFails
    <3> QED
      BY <2>19, <3>1, <3>2 DEF EnrollPersistFails, Spend
  <2>20. ASSUME NEW c \in Connections, NEW d \in Devices, NEW a \in BOOLEAN,
                Admit(c, d, a)
         PROVE /\ active' \in [Devices -> Connections \union {NoConnection}]
               /\ auth' \in [Connections -> {"none", "live", "cancelled"}]
               /\ authInput' \in [Connections -> BOOLEAN]
               /\ device' \in [Connections -> Devices \union {None}]
               /\ connected' = connected
    BY <2>20 DEF Admit
  <2>21. ASSUME NEW c \in Connections, EnrollInvitation(c) PROVE TypeOK'
    <3>1. pc' \in [Connections -> PC]
      BY <2>16, <2>21 DEF EnrollInvitation
    <3>2. granted + 1 \in Devices
      BY <2>21 DEF EnrollInvitation
    <3>3. Admit(c, granted + 1, input[c])
      BY <2>21 DEF EnrollInvitation
    <3>4. /\ active' \in [Devices -> Connections \union {NoConnection}]
          /\ auth' \in [Connections -> {"none", "live", "cancelled"}]
          /\ authInput' \in [Connections -> BOOLEAN]
          /\ device' \in [Connections -> Devices \union {None}]
          /\ connected' = connected
      BY <2>20, <3>2, <3>3
    <3>5. /\ granted' \in 0..MaxGrants
          /\ devices' \subseteq Devices /\ saved' \subseteq Devices
          /\ allow' \in [Devices -> BOOLEAN]
          /\ savedAllow' \in [Devices -> BOOLEAN]
      BY <2>21, <3>2 DEF EnrollInvitation, Persist
    <3> QED
      BY <2>21, <3>1, <3>4, <3>5 DEF EnrollInvitation, Spend
  <2>22. ASSUME NEW c \in Connections, EnrollDevice(c) PROVE TypeOK'
    <3>1. pc' \in [Connections -> PC]
      BY <2>16, <2>22 DEF EnrollDevice
    <3>2. CASE device[c] \in devices /\ ~LanWins(c, device[c])
      <4>1. Admit(c, device[c], allow[device[c]])
        BY <2>22, <3>2 DEF EnrollDevice
      <4>2. /\ active' \in [Devices -> Connections \union {NoConnection}]
            /\ auth' \in [Connections -> {"none", "live", "cancelled"}]
            /\ authInput' \in [Connections -> BOOLEAN]
            /\ device' \in [Connections -> Devices \union {None}]
            /\ connected' = connected
        BY <2>20, <3>2, <4>1
      <4> QED
        BY <2>22, <3>1, <4>2 DEF EnrollDevice
    <3>3. CASE ~(device[c] \in devices /\ ~LanWins(c, device[c]))
      BY <2>22, <3>1, <3>3 DEF EnrollDevice
    <3> QED
      BY <3>2, <3>3
  <2>23. ASSUME NEW d \in Devices, Revoke(d) PROVE TypeOK'
    BY <2>23 DEF Revoke, Persist
  <2>24. ASSUME NEW d \in Devices, NEW a \in BOOLEAN, SetInputPermission(d, a)
         PROVE TypeOK'
    BY <2>24 DEF SetInputPermission, Persist, PushInput
  <2>25. ASSUME NEW t \in 0..MaxNow, Clock(t) PROVE TypeOK'
    BY <2>25 DEF Clock
  <2>26. CASE Restart
    BY <2>26 DEF Restart
  <2>27. CASE UNCHANGED vars
    BY <2>27 DEF vars
  <2> QED
    BY <2>1, <2>2, <2>3, <2>4, <2>5, <2>6, <2>7, <2>8, <2>9, <2>10, <2>11,
       <2>12, <2>13, <2>14, <2>15, <2>17, <2>18, <2>19, <2>21, <2>22, <2>23,
       <2>24, <2>25, <2>26, <2>27
       DEF Next, Task, User, Phone
<1> QED
  BY <1>1, <1>2, PTL DEF Spec

-----------------------------------------------------------------------------
(* The steps that only move tasks along, shrink the set of invitations or   *)
(* cancel sessions keep SafetyInv.                                          *)
LEMMA QuietStep ==
    ASSUME TypeOK, TypeOK', SafetyInv,
           pending' \subseteq pending, issued' = issued, granted' >= granted,
           \A b \in Connections :
               /\ auth'[b] = "live" => auth[b] = "live"
               /\ pc'[b] = "idle" => pc[b] = "idle"
               /\ pc[b] \in Admitted => pc'[b] \in Admitted
               /\ pc'[b] \in {"enrolled", "answering"} => device[b] # None,
           UNCHANGED <<devices, revoked, told, invite, device, saved,
                       savedAllow, authInput, allow, active>>
    PROVE  SafetyInv'
<1>1. Numbered'
  <2>1. granted \in Nat /\ granted' \in Nat /\ issued \in Nat
    BY HostConstants DEF TypeOK
  <2>2. 1..granted \subseteq 1..granted'
    BY <2>1
  <2>3. devices' \union revoked' \union told' \subseteq 1..granted'
    BY <2>2 DEF SafetyInv, Numbered
  <2>4. ASSUME NEW c \in Connections
        PROVE invite'[c] <= issued' /\ device'[c] <= granted'
    <3>1. device[c] \in Nat /\ device[c] <= granted /\ invite[c] <= issued
      BY HostConstants DEF TypeOK, Devices, None, SafetyInv, Numbered
    <3> QED
      BY <2>1, <3>1
  <2>5. pending' \subseteq 1..issued'
    BY DEF SafetyInv, Numbered
  <2> QED
    BY <2>3, <2>4, <2>5 DEF Numbered
<1>2. Carried'
  BY DEF SafetyInv, Carried, TypeOK
<1>3. Occupied'
  BY DEF SafetyInv, Occupied, TypeOK
<1>4. SessionAuthorized' /\ PermissionAgrees'
  BY DEF SafetyInv, SessionAuthorized, PermissionAgrees
<1>5. GrantsDurable' /\ OneUse'
  BY DEF SafetyInv, GrantsDurable, OneUse
<1> QED
  BY <1>1, <1>2, <1>3, <1>4, <1>5 DEF SafetyInv

(* One step of the specification keeps SafetyInv.  The steps of QuietStep   *)
(* come first; each of the others has its own reason.                       *)
LEMMA SafetyStep ==
    ASSUME TypeOK, TypeOK', SafetyInv, [Next]_vars
    PROVE  SafetyInv'
<1> USE DEF book, store, handles, approvals, sessions, tasks, history
<1> DEFINE Still == UNCHANGED <<devices, revoked, told, invite, device, saved,
                                savedAllow, authInput, allow, active>>
<1>1. ASSUME NEW c \in Connections,
             \/ RequestPairing(c) \/ SubmitEnroll(c) \/ DecisionSeen(c)
             \/ EnrollUnapproved(c) \/ EnrollStale(c) \/ EnrollPersistFails(c)
             \/ ClearSlot(c) \/ Acknowledge(c) \/ Disconnect(c) \/ Fail(c)
             \/ Detach(c) \/ DropGuard(c) \/ Unwind(c) \/ Reject(c)
             \/ DecideExpired(c) \/ RejectUnheard(c)
      PROVE  SafetyInv'
  <2>1. Still /\ issued' = issued
    BY <1>1 DEF RequestPairing, SubmitEnroll, DecisionSeen, EnrollUnapproved,
       EnrollStale, EnrollPersistFails, ClearSlot, Acknowledge, Disconnect,
       Fail, Detach, DropGuard, Unwind, Reject, DecideExpired, RejectUnheard
  <2>2. pending' \subseteq pending
    BY <1>1 DEF RequestPairing, SubmitEnroll, DecisionSeen, EnrollUnapproved,
       EnrollStale, EnrollPersistFails, ClearSlot, Acknowledge, Disconnect,
       Fail, Detach, DropGuard, Unwind, Reject, DecideExpired, RejectUnheard,
       Spend
  <2>3. granted' >= granted
    <3>1. granted \in Nat
      BY HostConstants DEF TypeOK
    <3>2. granted' = granted \/ granted' = granted + 1
      BY <1>1 DEF RequestPairing, SubmitEnroll, DecisionSeen, EnrollUnapproved,
         EnrollStale, EnrollPersistFails, ClearSlot, Acknowledge, Disconnect,
         Fail, Detach, DropGuard, Unwind, Reject, DecideExpired, RejectUnheard
    <3> QED
      BY <3>1, <3>2
  <2>4. \A b \in Connections : auth'[b] = "live" => auth[b] = "live"
    BY <1>1 DEF RequestPairing, SubmitEnroll, DecisionSeen, EnrollUnapproved,
       EnrollStale, EnrollPersistFails, ClearSlot, Acknowledge, Disconnect,
       Fail, Detach, DropGuard, Unwind, Reject, DecideExpired, RejectUnheard,
       TypeOK
  <2>5. \/ pc' = pc
        \/ pc' = [pc EXCEPT ![c] = "deciding"] /\ pc[c] = "hello"
        \/ pc' = [pc EXCEPT ![c] = "enrolling"] /\ pc[c] \in {"hello", "deciding"}
        \/ pc' = [pc EXCEPT ![c] = "detached"] /\ pc[c] = "enrolling"
        \/ pc' = [pc EXCEPT ![c] = "orphan"] /\ pc[c] = "detached"
        \/ pc' = [pc EXCEPT ![c] = "answering"] /\ pc[c] = "enrolled"
        \/ pc' = [pc EXCEPT ![c] = "online"]
        \/ pc' = [pc EXCEPT ![c] = "unwinding"]
        \/ pc' = [pc EXCEPT ![c] = "done"]
    BY <1>1 DEF RequestPairing, SubmitEnroll, DecisionSeen, EnrollUnapproved,
       EnrollStale, EnrollPersistFails, ClearSlot, Acknowledge, Disconnect,
       Fail, Detach, DropGuard, Unwind, Reject, DecideExpired, RejectUnheard,
       After, Enrolling
  <2>6. \A b \in Connections :
            /\ pc'[b] = "idle" => pc[b] = "idle"
            /\ pc[b] \in Admitted => pc'[b] \in Admitted
            /\ pc'[b] \in {"enrolled", "answering"} => device[b] # None
    BY <2>5 DEF Admitted, SafetyInv, Carried, TypeOK
  <2> QED
    BY <2>1, <2>2, <2>3, <2>4, <2>6, QuietStep
<1>2. ASSUME \/ \E h \in Handles : DropHandle(h)
             \/ \E c \in Connections, a \in BOOLEAN : Approve(c, a)
             \/ \E t \in 0..MaxNow : Clock(t)
             \/ UNCHANGED vars
      PROVE  SafetyInv'
  <2>1. /\ Still
        /\ issued' = issued /\ granted' = granted
        /\ pending' \subseteq pending /\ auth' = auth /\ pc' = pc
    BY <1>2 DEF DropHandle, Approve, Clock, vars
  <2>2. granted \in Nat
    BY HostConstants DEF TypeOK
  <2>3. \A b \in Connections :
            pc[b] \in {"enrolled", "answering"} => device[b] # None
    BY DEF SafetyInv, Carried
  <2> QED
    BY <2>1, <2>2, <2>3, QuietStep
<1>3. ASSUME NEW h \in Handles, StartHandle(h) \/ RefreshInvitation(h)
      PROVE  SafetyInv'
  <2>1. /\ Still
        /\ granted' = granted /\ auth' = auth /\ pc' = pc
        /\ \/ issued' = issued /\ pending' \subseteq pending
           \/ /\ issued' = issued + 1
              /\ pending' \subseteq pending \union {issued + 1}
    BY <1>3 DEF StartHandle, RefreshInvitation, Issue
  <2>2. granted \in Nat /\ issued \in Nat
    BY HostConstants DEF TypeOK
  <2>3. CASE issued' = issued /\ pending' \subseteq pending
    <3>1. \A b \in Connections :
              pc[b] \in {"enrolled", "answering"} => device[b] # None
      BY DEF SafetyInv, Carried
    <3> QED
      BY <2>1, <2>2, <2>3, <3>1, QuietStep
  <2>4. CASE /\ issued' = issued + 1
             /\ pending' \subseteq pending \union {issued + 1}
    <3>1. \A c \in Connections :
              invite[c] \in Nat /\ invite[c] <= issued /\ device[c] <= granted
      BY HostConstants
      DEF TypeOK, Invitations, None, SafetyInv, Numbered
    <3>2. Numbered'
      <4>1. pending' \subseteq 1..issued'
        BY <2>2, <2>4 DEF SafetyInv, Numbered
      <4>2. \A c \in Connections : invite[c] <= issued'
        BY <2>2, <2>4, <3>1
      <4> QED
        BY <2>1, <3>1, <4>1, <4>2 DEF SafetyInv, Numbered
    <3>3. Carried'
      <4>1. \A c \in Connections : invite[c] # issued + 1
        BY <2>2, <3>1
      <4> QED
        BY <2>1, <2>4, <4>1 DEF SafetyInv, Carried
    <3>4. Occupied'
      BY <2>1 DEF SafetyInv, Occupied
    <3>5. SessionAuthorized' /\ PermissionAgrees' /\ GrantsDurable' /\ OneUse'
      BY <2>1 DEF SafetyInv, SessionAuthorized, PermissionAgrees,
         GrantsDurable, OneUse
    <3> QED
      BY <3>2, <3>3, <3>4, <3>5 DEF SafetyInv
  <2> QED
    BY <2>1, <2>3, <2>4
<1>4. ASSUME NEW c \in Connections, NEW i \in Invitations, HelloInvitation(c, i)
      PROVE  SafetyInv'
  <2>1. /\ pc' = [pc EXCEPT ![c] = "hello"] /\ pc[c] = "idle"
        /\ invite' = [invite EXCEPT ![c] = i] /\ i \in pending
        /\ UNCHANGED <<book, store, sessions, device, history>>
    BY <1>4 DEF HelloInvitation, InvitationValid
  <2>2. device[c] = None /\ i <= issued
    BY <2>1, HostConstants DEF SafetyInv, Carried, Numbered, TypeOK
  <2>3. Numbered'
    BY <2>1, <2>2 DEF SafetyInv, Numbered, TypeOK
  <2>4. Carried'
    BY <2>1, <2>2 DEF SafetyInv, Carried, TypeOK, Admitted
  <2>5. Occupied'
    BY <2>1 DEF SafetyInv, Occupied, TypeOK, Admitted
  <2>6. SessionAuthorized' /\ PermissionAgrees' /\ GrantsDurable'
    BY <2>1 DEF SafetyInv, SessionAuthorized, PermissionAgrees, GrantsDurable
  <2>7. OneUse'
    BY <2>1, <2>2 DEF SafetyInv, OneUse, TypeOK
  <2> QED
    BY <2>3, <2>4, <2>5, <2>6, <2>7 DEF SafetyInv
<1>5. ASSUME NEW c \in Connections, NEW d \in Devices, HelloDevice(c, d)
      PROVE  SafetyInv'
  <2>1. /\ pc' = [pc EXCEPT ![c] = "hello"] /\ pc[c] = "idle"
        /\ device' = [device EXCEPT ![c] = d] /\ d \in devices
        /\ UNCHANGED <<book, store, sessions, invite, history>>
    BY <1>5 DEF HelloDevice
  <2>2. invite[c] = None /\ d <= granted /\ d \in saved
    BY <2>1, HostConstants
    DEF SafetyInv, Carried, Numbered, PermissionAgrees, TypeOK
  <2>3. \A e \in Devices : active[e] # c
    BY <2>1, HostConstants DEF SafetyInv, Occupied, Admitted, TypeOK
  <2>4. auth[c] # "live"
    BY <2>1 DEF SafetyInv, Carried, Admitted
  <2>5. Numbered'
    BY <2>1, <2>2 DEF SafetyInv, Numbered, TypeOK
  <2>6. Carried'
    BY <2>1, <2>2, <2>4 DEF SafetyInv, Carried, TypeOK, Admitted
  <2>7. Occupied'
    BY <2>1, <2>3, HostConstants DEF SafetyInv, Occupied, TypeOK
  <2>8. SessionAuthorized' /\ PermissionAgrees' /\ GrantsDurable'
    BY <2>1, <2>4 DEF SafetyInv, SessionAuthorized, PermissionAgrees,
       GrantsDurable, TypeOK
  <2>9. OneUse'
    BY <2>1, <2>2 DEF SafetyInv, OneUse, TypeOK
  <2> QED
    BY <2>5, <2>6, <2>7, <2>8, <2>9 DEF SafetyInv
<1>6. ASSUME NEW c \in Connections, SendResponse(c) PROVE SafetyInv'
  <2>1. /\ pc' = [pc EXCEPT ![c] = "acking"] /\ pc[c] = "answering"
        /\ told' = told \union {device[c]}
        /\ UNCHANGED <<book, store, sessions, invite, device, revoked>>
    BY <1>6 DEF SendResponse
  <2>2. device[c] \in saved \union revoked
    BY <2>1 DEF SafetyInv, Carried
  <2>3. device[c] \in 1..granted
    BY <2>2 DEF SafetyInv, PermissionAgrees, Numbered
  <2>4. Numbered' /\ GrantsDurable'
    BY <2>1, <2>2, <2>3 DEF SafetyInv, Numbered, GrantsDurable
  <2>5. Carried'
    BY <2>1 DEF SafetyInv, Carried, TypeOK, Admitted
  <2>6. Occupied'
    BY <2>1, HostConstants DEF SafetyInv, Occupied, TypeOK, Admitted
  <2>7. SessionAuthorized' /\ PermissionAgrees' /\ OneUse'
    BY <2>1 DEF SafetyInv, SessionAuthorized, PermissionAgrees, OneUse
  <2> QED
    BY <2>4, <2>5, <2>6, <2>7 DEF SafetyInv
\* A connection in enroll has no session and is no device's session yet.
<1>7. ASSUME NEW c \in Connections, Enrolling(c)
      PROVE  /\ auth[c] # "live"
             /\ \A e \in Devices : active[e] # c
             /\ c # NoConnection
             /\ pc[c] # "idle"
  BY <1>7, HostConstants DEF Enrolling, SafetyInv, Carried, Occupied, Admitted, TypeOK
<1>8. ASSUME NEW c \in Connections, EnrollInvitation(c) PROVE SafetyInv'
  <2> DEFINE d == granted + 1
  <2>1. /\ granted' = d /\ devices' = devices \union {d}
        /\ allow' = [allow EXCEPT ![d] = input[c]]
        /\ saved' = devices' /\ savedAllow' = allow'
        /\ pending' = pending \ {invite[c]}
        /\ invite[c] # None /\ invite[c] \in pending
        /\ Enrolling(c)
        /\ UNCHANGED <<issued, invite, told, revoked>>
    BY <1>8 DEF EnrollInvitation, Persist, Spend, InvitationValid
  <2>2. /\ active' = [active EXCEPT ![d] = c]
        /\ auth' = [b \in Connections |->
              IF b = c THEN IF pc[c] = "enrolling" THEN "live" ELSE "cancelled"
              ELSE IF b = active[d] THEN "cancelled" ELSE auth[b]]
        /\ authInput' = [authInput EXCEPT ![c] = input[c]]
        /\ device' = [device EXCEPT ![c] = d]
    BY <1>8 DEF EnrollInvitation, Admit, Replaces
  <2>3. pc' = [pc EXCEPT ![c] = "enrolled"] \/ pc' = [pc EXCEPT ![c] = "unwinding"]
    BY <1>8 DEF EnrollInvitation, After
  <2>4. /\ d \in Devices /\ d # None /\ d \in Nat /\ granted \in Nat
        /\ granted < d
    BY <1>8, HostConstants DEF EnrollInvitation, TypeOK, Devices, None
  <2>5. /\ d \notin devices /\ d \notin revoked /\ d \notin saved
        /\ \A b \in Connections : device[b] # d
    <3>1. d \notin 1..granted
      BY <2>4
    <3>2. \A b \in Connections : device[b] \in Nat /\ device[b] <= granted
      BY HostConstants DEF SafetyInv, Numbered, TypeOK, Devices, None
    <3> QED
      BY <2>4, <3>1, <3>2 DEF SafetyInv, Numbered, PermissionAgrees
  <2> HIDE DEF d
  <2>6. Numbered'
    <3>1. 1..granted \subseteq 1..granted' /\ d \in 1..granted'
      BY <2>1, <2>4, HostConstants DEF Devices
    <3>2. \A b \in Connections : device'[b] <= granted'
      <4>1. \A b \in Connections : device[b] \in Nat /\ device[b] <= granted
        BY HostConstants DEF SafetyInv, Numbered, TypeOK, Devices, None
      <4> QED
        BY <2>1, <2>2, <2>4, <4>1 DEF TypeOK
    <3> QED
      BY <2>1, <3>1, <3>2 DEF SafetyInv, Numbered
  <2>7. Carried'
    <3>1. ASSUME NEW b \in Connections, b # c
          PROVE  /\ pc'[b] = pc[b] /\ device'[b] = device[b]
                 /\ auth'[b] = "live" => auth[b] = "live"
      BY <2>2, <2>3, <3>1 DEF TypeOK
    <3>2. /\ device'[c] = d /\ pc'[c] \in {"enrolled", "unwinding"}
      BY <2>2, <2>3 DEF TypeOK
    <3>3. saved \subseteq saved'
      BY <2>1 DEF SafetyInv, PermissionAgrees
    <3> QED
      BY <2>1, <2>4, <3>1, <3>2, <3>3 DEF SafetyInv, Carried, Admitted
  <2>8. Occupied'
    <3>1. ASSUME NEW e \in Devices, active'[e] # NoConnection
          PROVE  device'[active'[e]] = e /\ pc'[active'[e]] \in Admitted
      <4>1. CASE e = d
        BY <2>2, <2>3, <2>4, <4>1 DEF TypeOK, Admitted
      <4>2. CASE e # d
        <5>1. active'[e] = active[e]
          BY <2>2, <4>2 DEF TypeOK
        <5>2. active[e] \in Connections /\ active[e] # c
          BY <1>7, <2>1, <3>1, <5>1 DEF TypeOK
        <5>3. device[active[e]] = e /\ pc[active[e]] \in Admitted
          BY <3>1, <5>1 DEF SafetyInv, Occupied
        <5> QED
          BY <2>2, <2>3, <5>1, <5>2, <5>3 DEF TypeOK
      <4> QED
        BY <4>1, <4>2
    <3> QED
      BY <3>1 DEF Occupied
  <2>9. SessionAuthorized' /\ PermissionAgrees'
    <3>1. ASSUME NEW b \in Connections, auth'[b] = "live"
          PROVE  /\ device'[b] \in devices' /\ active'[device'[b]] = b
                 /\ authInput'[b] = allow'[device'[b]]
      <4>1. CASE b = c
        BY <2>1, <2>2, <2>4, <4>1 DEF TypeOK
      <4>2. CASE b # c
        <5>1. auth[b] = "live"
          BY <2>2, <3>1, <4>2
        <5>2. /\ device[b] \in devices /\ active[device[b]] = b
              /\ authInput[b] = allow[device[b]]
          BY <5>1 DEF SafetyInv, SessionAuthorized, PermissionAgrees
        <5>3. device[b] \in Devices /\ device[b] # d
          BY <2>5, <5>2 DEF TypeOK
        <5> QED
          BY <2>1, <2>2, <4>2, <5>2, <5>3 DEF TypeOK
      <4> QED
        BY <4>1, <4>2
    <3> QED
      BY <2>1, <3>1 DEF SessionAuthorized, PermissionAgrees
  <2>10. GrantsDurable'
    BY <2>1, <2>5 DEF SafetyInv, GrantsDurable, PermissionAgrees
  <2>11. OneUse'
    <3>1. ASSUME NEW b \in Connections, b # c, invite[b] = invite[c]
          PROVE  device'[b] = None
      <4>1. device[b] = None
        BY <2>1, <3>1 DEF SafetyInv, Carried
      <4> QED
        BY <2>2, <3>1, <4>1 DEF TypeOK
    <3>2. \A b \in Connections : b # c => device'[b] = device[b]
      BY <2>2 DEF TypeOK
    <3> QED
      BY <2>1, <3>1, <3>2 DEF SafetyInv, OneUse
  <2> QED
    BY <2>6, <2>7, <2>8, <2>9, <2>10, <2>11 DEF SafetyInv
<1>9. ASSUME NEW c \in Connections, EnrollDevice(c) PROVE SafetyInv'
  <2> DEFINE d == device[c]
  <2>1. /\ Enrolling(c) /\ invite[c] = None
        /\ pc' = [pc EXCEPT ![c] = "enrolled"] \/ pc' = [pc EXCEPT ![c] = "unwinding"]
        /\ UNCHANGED <<book, store, invite, history>>
    BY <1>9 DEF EnrollDevice, After
  <2>2. granted \in Nat
    BY HostConstants DEF TypeOK
  <2>3. CASE ~(d \in devices /\ ~LanWins(c, d))
    <3>1. pc' = [pc EXCEPT ![c] = "unwinding"] /\ UNCHANGED <<sessions, device>>
      BY <1>9, <2>3 DEF EnrollDevice, After
    <3>2. \A b \in Connections :
              /\ pc'[b] = "idle" => pc[b] = "idle"
              /\ pc[b] \in Admitted => pc'[b] \in Admitted
              /\ pc'[b] \in {"enrolled", "answering"} => device[b] # None
      BY <3>1 DEF SafetyInv, Carried, Admitted, TypeOK
    <3> QED
      BY <2>1, <2>2, <3>1, <3>2, QuietStep
  <2>4. CASE d \in devices /\ ~LanWins(c, d)
    <3>1. /\ active' = [active EXCEPT ![d] = c]
          /\ auth' = [b \in Connections |->
                IF b = c THEN IF pc[c] = "enrolling" THEN "live" ELSE "cancelled"
                ELSE IF b = active[d] THEN "cancelled" ELSE auth[b]]
          /\ authInput' = [authInput EXCEPT ![c] = allow[d]]
          /\ device' = [device EXCEPT ![c] = d]
      BY <1>9, <2>4 DEF EnrollDevice, Admit, Replaces
    <3>2. device' = device
      BY <3>1 DEF TypeOK
    <3>3. d \in Devices /\ d # None
      BY <2>4, HostConstants DEF TypeOK, Devices, None
    <3>4. Numbered' /\ GrantsDurable' /\ OneUse'
      BY <2>1, <3>2 DEF SafetyInv, Numbered, GrantsDurable, OneUse
    <3>5. Carried'
      <4>1. ASSUME NEW b \in Connections, b # c
            PROVE  pc'[b] = pc[b] /\ (auth'[b] = "live" => auth[b] = "live")
        BY <2>1, <3>1, <4>1 DEF TypeOK
      <4>2. pc'[c] \in {"enrolled", "unwinding"}
        BY <2>1 DEF TypeOK
      <4> QED
        BY <2>1, <3>2, <3>3, <4>1, <4>2 DEF SafetyInv, Carried, Admitted
    <3>6. Occupied'
      <4>1. ASSUME NEW e \in Devices, active'[e] # NoConnection
            PROVE  device'[active'[e]] = e /\ pc'[active'[e]] \in Admitted
        <5>1. CASE e = d
          BY <2>1, <3>1, <3>2, <3>3, <5>1 DEF TypeOK, Admitted
        <5>2. CASE e # d
          <6>1. active'[e] = active[e]
            BY <3>1, <5>2 DEF TypeOK
          <6>2. active[e] \in Connections /\ active[e] # c
            BY <1>7, <2>1, <4>1, <6>1 DEF TypeOK
          <6>3. device[active[e]] = e /\ pc[active[e]] \in Admitted
            BY <4>1, <6>1 DEF SafetyInv, Occupied
          <6> QED
            BY <2>1, <3>2, <6>1, <6>2, <6>3 DEF TypeOK
        <5> QED
          BY <5>1, <5>2
      <4> QED
        BY <4>1 DEF Occupied
    <3>7. SessionAuthorized' /\ PermissionAgrees'
      <4>1. ASSUME NEW b \in Connections, auth'[b] = "live"
            PROVE  /\ device[b] \in devices /\ active'[device[b]] = b
                   /\ authInput'[b] = allow[device[b]]
        <5>1. CASE b = c
          BY <2>4, <3>1, <3>3, <5>1 DEF TypeOK
        <5>2. CASE b # c
          <6>1. auth[b] = "live" /\ b # active[d]
            BY <3>1, <4>1, <5>2
          <6>2. /\ device[b] \in devices /\ active[device[b]] = b
                /\ authInput[b] = allow[device[b]]
            BY <6>1 DEF SafetyInv, SessionAuthorized, PermissionAgrees
          <6>3. device[b] \in Devices /\ device[b] # d
            BY <6>1, <6>2 DEF TypeOK
          <6> QED
            BY <3>1, <5>2, <6>2, <6>3 DEF TypeOK
        <5> QED
          BY <5>1, <5>2
      <4> QED
        BY <2>1, <3>2, <4>1 DEF SafetyInv, SessionAuthorized, PermissionAgrees
    <3> QED
      BY <3>4, <3>5, <3>6, <3>7 DEF SafetyInv
  <2> QED
    BY <2>3, <2>4
<1>10. ASSUME NEW d \in Devices, Revoke(d) PROVE SafetyInv'
  <2>1. /\ saved' = devices \ {d} /\ savedAllow' = allow
        /\ devices' = devices \ {d} /\ revoked' = revoked \union {d}
        /\ active' = [active EXCEPT ![d] = NoConnection]
        /\ auth' = [c \in Connections |->
                       IF c = active[d] THEN "cancelled" ELSE auth[c]]
        /\ d \in devices
        /\ UNCHANGED <<issued, granted, pending, allow, authInput, tasks, told>>
    BY <1>10 DEF Revoke, Persist
  <2>2. Numbered'
    BY <2>1 DEF SafetyInv, Numbered
  <2>3. Carried'
    BY <2>1 DEF SafetyInv, Carried, PermissionAgrees
  <2>4. Occupied'
    BY <2>1 DEF SafetyInv, Occupied, TypeOK
  <2>5. SessionAuthorized'
    BY <2>1 DEF SafetyInv, SessionAuthorized, TypeOK
  <2>6. PermissionAgrees'
    BY <2>1 DEF SafetyInv, PermissionAgrees
  <2>7. GrantsDurable' /\ OneUse'
    BY <2>1 DEF SafetyInv, GrantsDurable, OneUse, PermissionAgrees
  <2> QED
    BY <2>2, <2>3, <2>4, <2>5, <2>6, <2>7 DEF SafetyInv
<1>11. ASSUME NEW d \in Devices, NEW a \in BOOLEAN, SetInputPermission(d, a)
       PROVE  SafetyInv'
  <2>1. /\ saved' = devices /\ savedAllow' = allow'
        /\ allow' = [allow EXCEPT ![d] = a]
        /\ authInput' = [c \in Connections |->
                            IF c = active[d] THEN a ELSE authInput[c]]
        /\ UNCHANGED <<issued, granted, pending, devices, active, auth, tasks,
                       history>>
    BY <1>11 DEF SetInputPermission, Persist, PushInput
  <2>2. Numbered' /\ GrantsDurable' /\ OneUse' /\ Occupied' /\ SessionAuthorized'
    BY <2>1 DEF SafetyInv, Numbered, GrantsDurable, OneUse, Occupied,
       SessionAuthorized, PermissionAgrees
  <2>3. Carried'
    BY <2>1 DEF SafetyInv, Carried, PermissionAgrees
  <2>4. ASSUME NEW c \in Connections, auth[c] = "live"
        PROVE  authInput'[c] = allow'[device[c]]
    <3>1. device[c] \in Devices /\ active[device[c]] = c
          /\ authInput[c] = allow[device[c]]
      BY <2>4 DEF SafetyInv, SessionAuthorized, PermissionAgrees, TypeOK
    <3>2. CASE device[c] = d
      BY <2>1, <3>1, <3>2 DEF TypeOK
    <3>3. CASE device[c] # d
      <4>1. c # active[d]
        BY <3>3, HostConstants DEF SafetyInv, Occupied
      <4> QED
        BY <2>1, <3>1, <3>3, <4>1 DEF TypeOK
    <3> QED
      BY <3>2, <3>3
  <2>5. PermissionAgrees'
    BY <2>1, <2>4 DEF PermissionAgrees
  <2> QED
    BY <2>2, <2>3, <2>5 DEF SafetyInv
<1>12. ASSUME Restart PROVE SafetyInv'
  <2>1. /\ devices' = saved /\ allow' = savedAllow /\ pending' = {}
        /\ active' = [d \in Devices |-> NoConnection]
        /\ auth' = [c \in Connections |->
                       IF auth[c] = "live" THEN "cancelled" ELSE auth[c]]
        /\ pc' = [c \in Connections |->
                     IF pc[c] = "idle" THEN "idle" ELSE "done"]
        /\ UNCHANGED <<issued, granted, store, invite, device, history>>
    BY <1>12 DEF Restart
  <2>2. Numbered' /\ GrantsDurable' /\ OneUse'
    BY <2>1 DEF SafetyInv, Numbered, GrantsDurable, OneUse, PermissionAgrees
  <2>3. \A c \in Connections : auth'[c] # "live"
    BY <2>1
  <2>4. Carried'
    BY <2>1, <2>3 DEF SafetyInv, Carried
  <2>5. Occupied' /\ SessionAuthorized' /\ PermissionAgrees'
    BY <2>1, <2>3 DEF Occupied, SessionAuthorized, PermissionAgrees
  <2> QED
    BY <2>2, <2>4, <2>5 DEF SafetyInv
<1> QED
  BY <1>1, <1>2, <1>3, <1>4, <1>5, <1>6, <1>8, <1>9, <1>10, <1>11, <1>12
  DEF Next, Task, User, Phone

(* The inductive invariant of the host, its handles and its connection      *)
(* tasks holds in every reachable state, for any number of phones.          *)
THEOREM Invariance == Spec => [](TypeOK /\ SafetyInv)
<1>1. Init => SafetyInv
  <2> SUFFICES ASSUME Init PROVE SafetyInv
    OBVIOUS
  <2> USE HostConstants DEF Init, None
  <2>1. Numbered
    BY DEF Numbered
  <2>2. Carried /\ Occupied
    BY DEF Carried, Occupied
  <2>3. SessionAuthorized /\ PermissionAgrees /\ GrantsDurable /\ OneUse
    BY DEF SessionAuthorized, PermissionAgrees, GrantsDurable, OneUse
  <2> QED
    BY <2>1, <2>2, <2>3 DEF SafetyInv
<1>2. TypeOK /\ TypeOK' /\ SafetyInv /\ [Next]_vars => SafetyInv'
  BY SafetyStep
<1> QED
  BY <1>1, <1>2, TypeCorrect, PTL DEF Spec

(* A phone keeps a live session only while its device is enrolled and the   *)
(* session is the one HostState holds for it.                               *)
THEOREM SessionsAuthorized == Spec => []SessionAuthorized
<1>1. SafetyInv => SessionAuthorized
  BY DEF SafetyInv
<1> QED
  BY <1>1, Invariance, PTL

(* The permission a session enforces is the one in the book and in the      *)
(* store.                                                                   *)
THEOREM PermissionsAgree == Spec => []PermissionAgrees
<1>1. SafetyInv => PermissionAgrees
  BY DEF SafetyInv
<1> QED
  BY <1>1, Invariance, PTL

(* A secret that was sent to a phone is in the store until it is revoked.   *)
THEOREM GrantsAreDurable == Spec => []GrantsDurable
<1>1. SafetyInv => GrantsDurable
  BY DEF SafetyInv
<1> QED
  BY <1>1, Invariance, PTL

(* An invitation enrolls at most one phone.                                 *)
THEOREM InvitationsOneUse == Spec => []OneUse
<1>1. SafetyInv => OneUse
  BY DEF SafetyInv
<1> QED
  BY <1>1, Invariance, PTL

-----------------------------------------------------------------------------
(* The limits of the book and of the queue of approvals.                    *)

Asked == {c \in Connections : request[c] # "none"}

(* The book and the queue are finite and within their limits.               *)
BookInv == IsFiniteSet(Asked) /\ BookBounded

(* The sets whose sizes are compared are finite.                            *)
LEMMA BookFinite ==
    ASSUME TypeOK
    PROVE  IsFiniteSet(devices) /\ IsFiniteSet(pending)
<1>1. MaxGrants \in Int /\ MaxInvitations \in Int /\ 1 \in Int
  BY HostConstants
<1>2. IsFiniteSet(Devices) /\ IsFiniteSet(Invitations)
  BY <1>1, FS_Interval DEF Devices, Invitations
<1>3. devices \subseteq Devices /\ pending \subseteq Invitations
  BY DEF TypeOK
<1> QED
  BY <1>2, <1>3, FS_Subset

(* Sums of sizes: two sets shrink; one of them gains an element; an element *)
(* of the second gives its place to one of the first.                       *)
LEMMA SizesShrink ==
    ASSUME NEW S, NEW T, IsFiniteSet(S), IsFiniteSet(T), NEW U \in SUBSET S,
           NEW V \in SUBSET T
    PROVE  Cardinality(U) + Cardinality(V) <= Cardinality(S) + Cardinality(T)
<1>1. Cardinality(U) <= Cardinality(S) /\ Cardinality(V) <= Cardinality(T)
      /\ IsFiniteSet(U) /\ IsFiniteSet(V)
  BY FS_Subset
<1>2. /\ Cardinality(S) \in Nat /\ Cardinality(T) \in Nat
      /\ Cardinality(U) \in Nat /\ Cardinality(V) \in Nat
  BY <1>1, FS_CardinalityType
<1> QED
  BY <1>1, <1>2

LEMMA SizeGrows ==
    ASSUME NEW S, IsFiniteSet(S), NEW x, NEW m \in Nat, NEW k \in Nat,
           k + Cardinality(S) < m
    PROVE  k + Cardinality(S \union {x}) <= m
<1>1. Cardinality(S) \in Nat
  BY FS_CardinalityType
<1>2. Cardinality(S \union {x}) = Cardinality(S)
      \/ Cardinality(S \union {x}) = Cardinality(S) + 1
  BY FS_AddElement
<1> QED
  BY <1>1, <1>2

LEMMA SizeMoves ==
    ASSUME NEW S, NEW T, IsFiniteSet(S), IsFiniteSet(T), NEW x, NEW y \in T
    PROVE  Cardinality(S \union {x}) + Cardinality(T \ {y})
             <= Cardinality(S) + Cardinality(T)
<1>1. Cardinality(S) \in Nat /\ Cardinality(T) \in Nat
  BY FS_CardinalityType
<1>2. Cardinality(S \union {x}) = Cardinality(S)
      \/ Cardinality(S \union {x}) = Cardinality(S) + 1
  BY FS_AddElement
<1>3. Cardinality(T \ {y}) = Cardinality(T) - 1
  BY FS_RemoveElement
<1> QED
  BY <1>1, <1>2, <1>3

(* Requests are withdrawn.                                                  *)
LEMMA QueueShrinks ==
    ASSUME BookInv, Asked' \subseteq Asked
    PROVE  IsFiniteSet(Asked') /\ Cardinality(Asked') <= MAX_REQUESTS
<1>1. IsFiniteSet(Asked') /\ Cardinality(Asked') <= Cardinality(Asked)
  BY FS_Subset DEF BookInv
<1>2. Cardinality(Asked) \in Nat /\ Cardinality(Asked') \in Nat
  BY <1>1, FS_CardinalityType DEF BookInv
<1>3. Cardinality(Asked) <= MAX_REQUESTS
  BY DEF BookInv, BookBounded, Asked
<1> QED
  BY <1>1, <1>2, <1>3, HostConstants

(* Most steps take devices, invitations and requests away at most.          *)
LEMMA Shrinking ==
    ASSUME TypeOK, BookInv, devices' \subseteq devices, pending' \subseteq pending,
           Asked' \subseteq Asked
    PROVE  BookInv'
<1> DEFINE n == Cardinality(devices) + Cardinality(pending)
           m == Cardinality(devices') + Cardinality(pending')
<1>1. m <= n
  BY BookFinite, SizesShrink
<1>2. IsFiniteSet(Asked') /\ Cardinality(Asked') <= MAX_REQUESTS
  BY QueueShrinks
<1>3. /\ Cardinality(devices) \in Nat /\ Cardinality(pending) \in Nat
      /\ Cardinality(devices') \in Nat /\ Cardinality(pending') \in Nat
  <2>1. IsFiniteSet(devices) /\ IsFiniteSet(pending)
    BY BookFinite
  <2>2. IsFiniteSet(devices') /\ IsFiniteSet(pending')
    BY <2>1, FS_Subset
  <2> QED
    BY <2>1, <2>2, FS_CardinalityType
<1>4. n <= MAX_DEVICES
  BY DEF BookInv, BookBounded
<1>5. m <= MAX_DEVICES
  BY <1>1, <1>3, <1>4, HostConstants
<1> QED
  BY <1>2, <1>5 DEF BookInv, BookBounded, Asked

(* An invitation is issued into a book that has room for it.                *)
LEMMA IssueBounded ==
    ASSUME TypeOK, BookInv, NEW h \in Handles, NEW kept \in SUBSET pending,
           Issue(h, kept), devices' = devices, Asked' \subseteq Asked
    PROVE  BookInv'
<1> DEFINE live == {i \in kept : Timely(i)}
<1>0. live \subseteq pending
  OBVIOUS
<1>1. CASE HasRoom(live)
  <2>1. pending' = live \union {issued + 1}
    BY <1>1 DEF Issue
  <2>2. IsFiniteSet(live)
    BY <1>0, BookFinite, FS_Subset
  <2>3. Cardinality(devices) + Cardinality(live) < MAX_DEVICES
    BY <1>1 DEF HasRoom
  <2>4. Cardinality(devices) \in Nat
    BY BookFinite, FS_CardinalityType
  <2> DEFINE k == Cardinality(devices)
             x == issued + 1
  <2> HIDE DEF live, k, x
  <2>5. k + Cardinality(live \union {x}) <= MAX_DEVICES
    BY <2>2, <2>3, <2>4, HostConstants, SizeGrows DEF k
  <2>6. Cardinality(devices') + Cardinality(pending') <= MAX_DEVICES
    BY <2>1, <2>5 DEF k, x
  <2> QED
    BY <2>6, QueueShrinks DEF BookInv, BookBounded, Asked
<1>2. CASE ~HasRoom(live)
  <2>1. pending' = live
    BY <1>2 DEF Issue
  <2> QED
    BY <1>0, <2>1, Shrinking
<1> QED
  BY <1>1, <1>2

LEMMA BookStep ==
    ASSUME TypeOK, SafetyInv, BookInv, [Next]_vars
    PROVE  BookInv'
<1> USE DEF book, store, handles, approvals, sessions, tasks, history
<1>1. ASSUME NEW c \in Connections,
             \/ SubmitEnroll(c) \/ DecisionSeen(c) \/ EnrollUnapproved(c)
             \/ EnrollStale(c) \/ EnrollPersistFails(c) \/ EnrollDevice(c)
             \/ ClearSlot(c) \/ SendResponse(c) \/ Acknowledge(c) \/ Disconnect(c)
             \/ Fail(c) \/ Detach(c) \/ DropGuard(c) \/ Unwind(c) \/ Phone(c)
      PROVE  BookInv'
  <2>1. devices' = devices /\ pending' \subseteq pending
    BY <1>1 DEF SubmitEnroll, DecisionSeen, EnrollUnapproved, EnrollStale,
       EnrollPersistFails, EnrollDevice, ClearSlot, SendResponse, Acknowledge,
       Disconnect, Fail, Detach, DropGuard, Unwind, Phone, HelloInvitation,
       HelloDevice, Spend
  <2>2. request' = request \/ request' = [request EXCEPT ![c] = "none"]
    BY <1>1 DEF SubmitEnroll, DecisionSeen, EnrollUnapproved, EnrollStale,
       EnrollPersistFails, EnrollDevice, ClearSlot, SendResponse, Acknowledge,
       Disconnect, Fail, Detach, DropGuard, Unwind, Phone, HelloInvitation,
       HelloDevice, GuardDropped
  <2>3. Asked' \subseteq Asked
    BY <2>2 DEF Asked, TypeOK
  <2> QED
    BY <2>1, <2>3, Shrinking
<1>2. ASSUME NEW c \in Connections,
             \/ DecideExpired(c) \/ Reject(c) \/ RejectUnheard(c)
             \/ \E a \in BOOLEAN : Approve(c, a)
      PROVE  BookInv'
  <2>1. devices' = devices /\ pending' \subseteq pending
    BY <1>2 DEF DecideExpired, Reject, RejectUnheard, Approve
  <2>2. \A b \in Connections : request'[b] # "none" => request[b] # "none"
    BY <1>2 DEF DecideExpired, Reject, RejectUnheard, Approve, Withdrawn, TypeOK
  <2>3. Asked' \subseteq Asked
    BY <2>2 DEF Asked
  <2> QED
    BY <2>1, <2>3, Shrinking
<1>3. ASSUME NEW c \in Connections, RequestPairing(c) PROVE BookInv'
  <2>1. devices' = devices /\ pending' = pending
    BY <1>3 DEF RequestPairing
  <2>2. CASE CanRequest(c)
    <3>1. Asked' = Asked \union {c}
      BY <1>3, <2>2 DEF RequestPairing, Asked, TypeOK
    <3>2. Cardinality(Asked) < MAX_REQUESTS /\ IsFiniteSet(Asked)
      BY <2>2 DEF CanRequest, Asked, BookInv
    <3>3. IsFiniteSet(Asked') /\ Cardinality(Asked') <= MAX_REQUESTS
      <4>1. Cardinality(Asked) \in Nat
        BY <3>2, FS_CardinalityType
      <4>2. /\ IsFiniteSet(Asked \union {c})
            /\ \/ Cardinality(Asked \union {c}) = Cardinality(Asked)
               \/ Cardinality(Asked \union {c}) = Cardinality(Asked) + 1
        BY <3>2, FS_AddElement
      <4>3. Cardinality(Asked \union {c}) <= MAX_REQUESTS
        BY <3>2, <4>1, <4>2, HostConstants
      <4> QED
        BY <3>1, <4>2, <4>3
    <3> QED
      BY <2>1, <3>3 DEF BookInv, BookBounded, Asked
  <2>3. CASE ~CanRequest(c)
    <3>1. Asked' = Asked
      BY <1>3, <2>3 DEF RequestPairing, Asked
    <3> QED
      BY <2>1, <3>1, Shrinking
  <2> QED
    BY <2>2, <2>3
<1>4. ASSUME NEW c \in Connections, EnrollInvitation(c) PROVE BookInv'
  <2>1. /\ devices' = devices \union {granted + 1} /\ pending' = pending \ {invite[c]}
        /\ invite[c] \in pending /\ request' = [request EXCEPT ![c] = "none"]
    BY <1>4 DEF EnrollInvitation, Spend, InvitationValid
  <2>2. Asked' \subseteq Asked
    BY <2>1 DEF Asked, TypeOK
  <2> DEFINE d == granted + 1
             i == invite[c]
             n == Cardinality(devices) + Cardinality(pending)
             m == Cardinality(devices \union {d}) + Cardinality(pending \ {i})
  <2>3. m <= n
    <3>1. i \in pending
      BY <2>1
    <3> HIDE DEF d, i
    <3> QED
      BY <3>1, BookFinite, SizeMoves
  <2>4. m \in Nat /\ n \in Nat
    <3>1. IsFiniteSet(devices) /\ IsFiniteSet(pending)
      BY BookFinite
    <3>2. IsFiniteSet(devices \union {d}) /\ IsFiniteSet(pending \ {i})
      BY <3>1, FS_AddElement, FS_RemoveElement
    <3>3. /\ Cardinality(devices) \in Nat /\ Cardinality(pending) \in Nat
          /\ Cardinality(devices \union {d}) \in Nat /\ Cardinality(pending \ {i}) \in Nat
      BY <3>1, <3>2, FS_CardinalityType
    <3> QED
      BY <3>3
  <2>5. n <= MAX_DEVICES
    BY DEF BookInv, BookBounded
  <2>6. m <= MAX_DEVICES
    <3> HIDE DEF m, n
    <3> QED
      BY <2>3, <2>4, <2>5, HostConstants
  <2>7. Cardinality(devices') + Cardinality(pending') <= MAX_DEVICES
    BY <2>1, <2>6
  <2> QED
    BY <2>2, <2>7, QueueShrinks DEF BookInv, BookBounded, Asked
<1>5. ASSUME NEW h \in Handles, StartHandle(h) PROVE BookInv'
  <2>1. Issue(h, pending) /\ devices' = devices /\ request' = request
    BY <1>5 DEF StartHandle
  <2>2. Asked' \subseteq Asked
    BY <2>1 DEF Asked
  <2> QED
    BY <2>1, <2>2, IssueBounded
<1>6. ASSUME NEW h \in Handles, RefreshInvitation(h) PROVE BookInv'
  <2>1. Issue(h, pending \ {slot[h]}) /\ devices' = devices
    BY <1>6 DEF RefreshInvitation
  <2>2. Asked' \subseteq Asked
    BY <1>6 DEF RefreshInvitation, Asked, Withdrawn
  <2> DEFINE kept == pending \ {slot[h]}
  <2>3. kept \in SUBSET pending
    OBVIOUS
  <2> HIDE DEF kept
  <2>4. Issue(h, kept)
    BY <2>1 DEF kept
  <2> QED
    BY <2>1, <2>2, <2>3, <2>4, IssueBounded
<1>7. ASSUME NEW h \in Handles, DropHandle(h) PROVE BookInv'
  <2>1. devices' = devices /\ pending' \subseteq pending
    BY <1>7 DEF DropHandle
  <2>2. Asked' \subseteq Asked
    BY <1>7 DEF DropHandle, Asked, Withdrawn
  <2> QED
    BY <2>1, <2>2, Shrinking
<1>8. CASE \/ \E d \in Devices : Revoke(d) \/ \E a \in BOOLEAN : SetInputPermission(d, a)
           \/ \E t \in 0..MaxNow : Clock(t)
           \/ UNCHANGED vars
  <2>1. devices' \subseteq devices /\ pending' = pending /\ request' = request
    BY <1>8 DEF Revoke, SetInputPermission, Clock, vars
  <2>2. Asked' \subseteq Asked
    BY <2>1 DEF Asked
  <2> QED
    BY <2>1, <2>2, Shrinking
<1>9. CASE Restart
  <2>1. devices' = devices /\ pending' = {} /\ request' = [c \in Connections |-> "none"]
    BY <1>9 DEF Restart, SafetyInv, PermissionAgrees
  <2>2. Asked' \subseteq Asked
    BY <2>1 DEF Asked
  <2> QED
    BY <2>1, <2>2, Shrinking
<1> QED
  BY <1>1, <1>2, <1>3, <1>4, <1>5, <1>6, <1>7, <1>8, <1>9 DEF Next, Task, User

(* Devices and outstanding invitations fit the book and requests fit the    *)
(* queue, so that enroll always finds the place an invitation reserved      *)
(* (PairingBook::issue, Approvals::request): for every size of either.      *)
THEOREM BookIsBounded == Spec => []BookBounded
<1>1. Init => BookInv
  <2> SUFFICES ASSUME Init PROVE BookInv
    OBVIOUS
  <2>1. devices = {} /\ pending = {} /\ Asked = {}
    BY DEF Init, Asked
  <2>2. IsFiniteSet(Asked) /\ Cardinality(Asked) = 0 /\ Cardinality(devices) = 0
        /\ Cardinality(pending) = 0
    BY <2>1, FS_EmptySet
  <2>3. Cardinality(devices) + Cardinality(pending) <= MAX_DEVICES
        /\ Cardinality(Asked) <= MAX_REQUESTS
    BY <2>2, HostConstants
  <2> QED
    BY <2>2, <2>3 DEF BookInv, BookBounded, Asked
<1>2. (TypeOK /\ SafetyInv) /\ BookInv /\ [Next]_vars => BookInv'
  BY BookStep
<1>3. BookInv => BookBounded
  BY DEF BookInv
<1> QED
  BY <1>1, <1>2, <1>3, Invariance, PTL DEF Spec

-----------------------------------------------------------------------------
(* Which session a device has.                                              *)

(* enroll gives a device to a connection that may have it.                  *)
LEMMA TakeOver ==
    ASSUME TypeOK, SafetyInv, [Next]_vars, NEW d \in Devices,
           active[d] # NoConnection, active'[d] # NoConnection,
           active'[d] # active[d],
           Route(active[d]) = "lan", auth[active[d]] = "live", connected[active[d]]
    PROVE  Route(active'[d]) = "lan"
<1> USE DEF book, store, handles, approvals, sessions, tasks, history
<1>1. PICK c \in Connections : EnrollInvitation(c) \/ EnrollDevice(c)
  <2>1. active' # active
    OBVIOUS
  <2>2. ~Restart /\ \A e \in Devices : ~Revoke(e)
    BY DEF Restart, Revoke, TypeOK
  <2>3. ~UNCHANGED vars /\ \A t \in 0..MaxNow : ~Clock(t)
    BY <2>1 DEF vars, Clock
  <2>4. \A h \in Handles : ~StartHandle(h) /\ ~RefreshInvitation(h) /\ ~DropHandle(h)
    BY <2>1 DEF StartHandle, RefreshInvitation, DropHandle
  <2>5. \A e \in Devices, a \in BOOLEAN : ~SetInputPermission(e, a)
    BY <2>1 DEF SetInputPermission
  <2>6. \A c \in Connections :
          /\ ~DecideExpired(c) /\ ~Reject(c) /\ ~RejectUnheard(c) /\ ~Phone(c)
          /\ \A a \in BOOLEAN : ~Approve(c, a)
    BY <2>1 DEF DecideExpired, Reject, RejectUnheard, Approve, Phone,
       HelloInvitation, HelloDevice
  <2>7. \A c \in Connections :
          /\ ~RequestPairing(c) /\ ~SubmitEnroll(c) /\ ~DecisionSeen(c)
          /\ ~EnrollUnapproved(c) /\ ~EnrollStale(c) /\ ~EnrollPersistFails(c)
          /\ ~ClearSlot(c) /\ ~SendResponse(c) /\ ~Acknowledge(c) /\ ~Disconnect(c)
          /\ ~Fail(c) /\ ~Detach(c) /\ ~DropGuard(c) /\ ~Unwind(c)
    BY <2>1 DEF RequestPairing, SubmitEnroll, DecisionSeen, EnrollUnapproved,
       EnrollStale, EnrollPersistFails, ClearSlot, SendResponse, Acknowledge,
       Disconnect, Fail, Detach, DropGuard, Unwind
  <2> QED
    BY <2>2, <2>3, <2>4, <2>5, <2>6, <2>7 DEF Next, Task, User
<1>2. CASE EnrollInvitation(c)
  <2>1. active' = [active EXCEPT ![granted + 1] = c]
    BY <1>2 DEF EnrollInvitation, Admit
  <2>2. d = granted + 1
    BY <2>1 DEF TypeOK
  <2>3. device[active[d]] = d /\ active[d] \in Connections
    BY DEF SafetyInv, Occupied, TypeOK
  <2>4. device[active[d]] <= granted /\ granted \in Nat
    BY <2>3, HostConstants DEF SafetyInv, Numbered, TypeOK
  <2> QED
    BY <2>2, <2>3, <2>4
<1>3. CASE EnrollDevice(c)
  <2>1. /\ active' = [active EXCEPT ![device[c]] = c]
        /\ ~LanWins(c, device[c])
    BY <1>3 DEF EnrollDevice, Admit
  <2>2. d = device[c] /\ active'[d] = c
    BY <2>1 DEF TypeOK
  <2>3. Route(c) # "relay"
    BY <2>1, <2>2 DEF LanWins
  <2> QED
    BY <2>2, <2>3, HostConstants DEF Route
<1> QED
  BY <1>1, <1>2, <1>3

(* A relay connection never takes a device over from a live, connected LAN  *)
(* session (LanWins in enroll), however the two connections interleave.     *)
THEOREM LanIsKept == Spec => LanKeepsDevice
<1>1. (TypeOK /\ SafetyInv) /\ [Next]_vars =>
        [\A d \in Devices :
           LET b == active[d] c == active'[d] IN
           (/\ b # NoConnection /\ c # NoConnection /\ b # c
            /\ Route(b) = "lan" /\ auth[b] = "live" /\ connected[b])
           => Route(c) = "lan"]_vars
  BY TakeOver
<1> QED
  BY <1>1, Invariance, PTL DEF Spec, LanKeepsDevice
=============================================================================
