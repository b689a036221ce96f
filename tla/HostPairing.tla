---------------------------- MODULE HostPairing ----------------------------
(***************************************************************************)
(* Pairing and authorization on the desktop: HostState with its book of    *)
(* invitations and devices and its queue of approvals (endpoint/host.rs,   *)
(* pairing.rs, endpoint/approval.rs), the handles the settings page drives *)
(* and the connection tasks that authenticate phones                       *)
(* (endpoint/transport.rs).                                                *)
(*                                                                         *)
(* HostState sits behind one mutex, so each of its methods is one action.  *)
(* A connection task runs between those calls: pc says which await it is   *)
(* in.  Invitations and devices are numbered in the order they are made;   *)
(* their random ids and secrets are never repeated.  A request for         *)
(* approval belongs to one connection, so its ticket is the connection.    *)
(***************************************************************************)
EXTENDS Integers, FiniteSets

CONSTANTS
    Handles,          \* transport handles, each started at most once
    Connections,      \* sockets a phone opens
    NoConnection,     \* a device without a session
    RouteOf,          \* the route of a handle: "lan" or "relay"
    HandleOf,         \* the handle that accepted a connection
    MaxInvitations,   \* bound: invitations issued in one behaviour
    MaxGrants,        \* bound: device grants made in one behaviour
    MAX_DEVICES,      \* pairing.rs: devices plus outstanding invitations
    MAX_REQUESTS,     \* approval.rs: outstanding requests (8)
    INVITATION_TTL,   \* pairing.rs
    DECISION_TTL,     \* host.rs: the 120 seconds of request_pairing
    MaxNow,           \* bound of the wall clock
    MaxCrashes        \* bound on restarts of the desktop

ASSUME HostConstants ==
    /\ Handles # {}
    /\ NoConnection \notin Connections
    /\ RouteOf \in [Handles -> {"lan", "relay"}]
    /\ HandleOf \in [Connections -> Handles]
    /\ MaxInvitations \in Nat /\ MaxGrants \in Nat
    /\ MAX_DEVICES \in Nat /\ MAX_REQUESTS \in Nat
    /\ INVITATION_TTL \in Nat /\ DECISION_TTL \in Nat
    /\ MaxNow \in Nat /\ MaxCrashes \in Nat

Invitations == 1..MaxInvitations
Devices == 1..MaxGrants
None == 0

VARIABLES
    now,         \* the wall clock
    issued,      \* how many invitations were issued
    granted,     \* how many device grants were made
    pending,     \* PairingBook.pending
    issuedAt,    \* Pending.issued_at
    issuer,      \* the handle that issued an invitation
    devices,     \* PairingBook.devices
    allow,       \* DeviceGrant.allow_input
    saved,       \* the devices in the credential store
    savedAllow,  \* their permission in the credential store
    active,      \* HostState.active: the connection whose session a device has
    up,          \* state of a handle
    slot,        \* Handle.invitation
    pc,          \* where the connection task is
    invite,      \* the invitation in the connection's Hello, or None
    device,      \* the device of the connection, or None
    request,     \* the connection's entry in Approvals
    input,       \* Pending.allowed_input of that entry
    expires,     \* PairingRequest.expires_at of that entry
    auth,        \* the Authorization of the connection's session
    authInput,   \* Authorization.input
    connected,   \* the session's connected flag
    told,        \* history: devices whose secret was sent to the phone
    revoked,     \* history: devices the user removed
    crashes

book == <<issued, granted, pending, issuedAt, issuer, devices, allow>>
store == <<saved, savedAllow>>
handles == <<up, slot>>
approvals == <<request, input, expires>>
sessions == <<active, auth, authInput, connected>>
tasks == <<pc, invite, device>>
history == <<told, revoked>>
vars == <<now, book, store, handles, approvals, sessions, tasks, history,
          crashes>>

\* "hello":     the handshake ended, secure.connect was read.
\* "deciding":  waiting for the user's decision.
\* "enrolling": the blocking enroll is submitted.
\* "detached":  the task gave up while enroll runs; its ApprovalGuard is alive.
\* "orphan":    the same after the guard was dropped.
\* "enrolled":  enroll returned a session.
\* "answering": the invitation slot is dealt with.
\* "acking":    the response is sent, the acknowledgement is awaited.
\* "online":    exchange runs.
\* "unwinding": the task failed and has not dropped its guard and session yet.
PC == {"idle", "hello", "deciding", "enrolling", "detached", "orphan",
       "enrolled", "answering", "acking", "online", "unwinding", "done"}

Route(c) == RouteOf[HandleOf[c]]

Init ==
    /\ now = 0 /\ issued = 0 /\ granted = 0
    /\ pending = {}
    /\ issuedAt = [i \in Invitations |-> 0]
    /\ issuer = [i \in Invitations |-> CHOOSE h \in Handles : TRUE]
    /\ devices = {}
    /\ allow = [d \in Devices |-> FALSE]
    /\ saved = {}
    /\ savedAllow = [d \in Devices |-> FALSE]
    /\ active = [d \in Devices |-> NoConnection]
    /\ up = [h \in Handles |-> "new"]
    /\ slot = [h \in Handles |-> None]
    /\ pc = [c \in Connections |-> "idle"]
    /\ invite = [c \in Connections |-> None]
    /\ device = [c \in Connections |-> None]
    /\ request = [c \in Connections |-> "none"]
    /\ input = [c \in Connections |-> FALSE]
    /\ expires = [c \in Connections |-> 0]
    /\ auth = [c \in Connections |-> "none"]
    /\ authInput = [c \in Connections |-> FALSE]
    /\ connected = [c \in Connections |-> FALSE]
    /\ told = {} /\ revoked = {}
    /\ crashes = 0

-----------------------------------------------------------------------------
(* PairingBook.                                                             *)

\* invitation_secret: inside the window the clock must lie in.
Timely(i) == now >= issuedAt[i] /\ now < issuedAt[i] + INVITATION_TTL
InvitationValid(i) == i \in pending /\ Timely(i)

\* Mutant: the entries are marked instead of removed.
WithdrawnMarked(i) ==
    [c \in Connections |-> IF invite[c] = i THEN "withdrawn" ELSE request[c]]

\* cancel_invitation on the requests: every entry for the invitation goes.
Withdrawn(i) ==
    [c \in Connections |-> IF invite[c] = i THEN "none" ELSE request[c]]

\* Mutant: off by one.
HasRoomForOneMore(live) ==
    Cardinality(devices) + Cardinality(live) <= MAX_DEVICES

\* An invitation reserves the place of the device it will become.
HasRoom(live) == Cardinality(devices) + Cardinality(live) < MAX_DEVICES

\* Mutant: the invitation survives its use.
SpendNothing(i) == UNCHANGED pending

\* approve_authenticated takes the invitation out of the book.
Spend(i) == pending' = pending \ {i}

\* Mutant: the write is left for later.
PersistSkipped(ds, as) == UNCHANGED store

\* PersistHost replaces the credential entry with the encoded devices.
Persist(ds, as) == saved' = ds /\ savedAllow' = as

\* issue for handle h after `kept` invitations survive: expired ones are
\* purged, and the book refuses when devices and invitations fill it.
Issue(h, kept) ==
    LET live == {i \in kept : Timely(i)} IN
    IF HasRoom(live)
    THEN /\ issued < MaxInvitations
         /\ issued' = issued + 1
         /\ pending' = live \union {issued + 1}
         /\ issuedAt' = [issuedAt EXCEPT ![issued + 1] = now]
         /\ issuer' = [issuer EXCEPT ![issued + 1] = h]
         /\ slot' = [slot EXCEPT ![h] = issued + 1]
    ELSE /\ pending' = live
         /\ slot' = [slot EXCEPT ![h] = None]
         /\ UNCHANGED <<issued, issuedAt, issuer>>

(* Handles.                                                                 *)

\* Handle::new issues the first invitation; a refusal fails the start.
StartHandle(h) ==
    /\ up[h] = "new"
    /\ Issue(h, pending)
    /\ up' = [up EXCEPT ![h] = IF slot'[h] = None THEN "down" ELSE "up"]
    /\ UNCHANGED <<now, granted, devices, allow, store, approvals, sessions,
                   tasks, history, crashes>>

\* refresh_invitation holds the host lock and the slot lock throughout.
RefreshInvitation(h) ==
    /\ up[h] = "up"
    /\ Issue(h, pending \ {slot[h]})
    /\ request' = IF slot[h] = None THEN request ELSE Withdrawn(slot[h])
    /\ UNCHANGED <<now, granted, devices, allow, store, up, input, expires,
                   sessions, tasks, history, crashes>>

\* Drop for Handle: pause, or a new configuration.
DropHandle(h) ==
    /\ up[h] = "up"
    /\ up' = [up EXCEPT ![h] = "down"]
    /\ pending' = pending \ {slot[h]}
    /\ request' = IF slot[h] = None THEN request ELSE Withdrawn(slot[h])
    /\ slot' = [slot EXCEPT ![h] = None]
    /\ UNCHANGED <<now, issued, granted, issuedAt, issuer, devices, allow,
                   store, input, expires, sessions, tasks, history, crashes>>

-----------------------------------------------------------------------------
(* authenticate, up to the decision.                                        *)

\* The relay handle serves one socket at a time, the LAN handle many.
Vacant(c) ==
    Route(c) = "relay" =>
        \A b \in Connections \ {c} :
            HandleOf[b] = HandleOf[c] =>
                pc[b] \in {"idle", "detached", "orphan", "done"}

\* HostState::handshake with an invitation shown by this handle.
HelloInvitation(c, i) ==
    /\ pc[c] = "idle" /\ up[HandleOf[c]] = "up" /\ Vacant(c)
    /\ InvitationValid(i) /\ issuer[i] = HandleOf[c]
    /\ pc' = [pc EXCEPT ![c] = "hello"]
    /\ invite' = [invite EXCEPT ![c] = i]
    /\ UNCHANGED <<now, book, store, handles, approvals, sessions, device,
                   history, crashes>>

\* HostState::handshake with a device grant: the phone has been told of it.
HelloDevice(c, d) ==
    /\ pc[c] = "idle" /\ up[HandleOf[c]] = "up" /\ Vacant(c)
    /\ d \in devices /\ d \in told
    /\ pc' = [pc EXCEPT ![c] = "hello"]
    /\ device' = [device EXCEPT ![c] = d]
    /\ UNCHANGED <<now, book, store, handles, approvals, sessions, invite,
                   history, crashes>>

\* Approvals::request: bounded, and one request per invitation.
CanRequest(c) ==
    /\ InvitationValid(invite[c])
    /\ Cardinality({b \in Connections : request[b] # "none"}) < MAX_REQUESTS
    /\ \A b \in Connections : request[b] # "none" => invite[b] # invite[c]

RequestPairing(c) ==
    /\ pc[c] = "hello" /\ invite[c] # None
    /\ IF CanRequest(c)
       THEN /\ pc' = [pc EXCEPT ![c] = "deciding"]
            /\ request' = [request EXCEPT ![c] = "asked"]
            /\ expires' = [expires EXCEPT ![c] = now + DECISION_TTL]
       ELSE /\ pc' = [pc EXCEPT ![c] = "unwinding"]
            /\ UNCHANGED <<request, expires>>
    /\ UNCHANGED <<now, book, store, handles, input, sessions, invite, device,
                   history, crashes>>

\* A known device needs no approval.
SubmitEnroll(c) ==
    /\ pc[c] = "hello" /\ invite[c] = None
    /\ pc' = [pc EXCEPT ![c] = "enrolling"]
    /\ UNCHANGED <<now, book, store, handles, approvals, sessions, invite,
                   device, history, crashes>>

\* decide_pairing after the request expired: the entry goes, the caller errs.
DecideExpired(c) ==
    /\ request[c] # "none" /\ now >= expires[c]
    /\ request' = [request EXCEPT ![c] = "none"]
    /\ UNCHANGED <<now, book, store, handles, input, expires, sessions, tasks,
                   history, crashes>>

\* decide_pairing(Some(a)).  The decision is recorded even when the waiting
\* end has gone and the caller is given an error.
Approve(c, a) ==
    /\ request[c] = "asked" /\ now < expires[c]
    /\ request' = [request EXCEPT ![c] = "yes"]
    /\ input' = [input EXCEPT ![c] = a]
    /\ UNCHANGED <<now, book, store, handles, expires, sessions, tasks, history,
                   crashes>>

\* decide_pairing(None): the waiting end is told, and the invitation dies.
Reject(c) ==
    /\ request[c] = "asked" /\ now < expires[c]
    /\ pc[c] = "deciding"
    /\ pending' = pending \ {invite[c]}
    /\ request' = Withdrawn(invite[c])
    /\ pc' = [pc EXCEPT ![c] = "unwinding"]
    /\ UNCHANGED <<now, issued, granted, issuedAt, issuer, devices, allow,
                   store, handles, input, expires, sessions, invite, device,
                   history, crashes>>

\* decide_pairing(None) once the waiting end has gone: `?` returns before the
\* invitation is cancelled.
RejectUnheard(c) ==
    /\ request[c] = "asked" /\ now < expires[c]
    /\ pc[c] # "deciding"
    /\ request' = [request EXCEPT ![c] = "no"]
    /\ UNCHANGED <<now, book, store, handles, input, expires, sessions, tasks,
                   history, crashes>>

\* The decision arrives, or its sender was dropped with the entry.
DecisionSeen(c) ==
    /\ pc[c] = "deciding"
    /\ \/ /\ request[c] = "yes"
          /\ pc' = [pc EXCEPT ![c] = "enrolling"]
       \/ /\ request[c] = "none"
          /\ pc' = [pc EXCEPT ![c] = "unwinding"]
    /\ UNCHANGED <<now, book, store, handles, approvals, sessions, invite,
                   device, history, crashes>>

-----------------------------------------------------------------------------
(* enroll.                                                                  *)

\* Mutant: the newest connection wins, whatever its route.
LanNeverWins(c, d) == FALSE

\* The relay loses to a LAN session that is live and connected.
LanWins(c, d) ==
    LET b == active[d] IN
    /\ Route(c) = "relay"
    /\ b # NoConnection
    /\ Route(b) = "lan" /\ auth[b] = "live" /\ connected[b]

\* Mutant: HostState.active is not consulted.
ReplacesNobody(b, d) == FALSE

\* The session the insert into HostState.active throws out.
Replaces(b, d) == b = active[d]

\* The session enters HostState.active; the one it replaces is cancelled.
\* A detached task's session is dropped as soon as enroll returns it.
Admit(c, d, a) ==
    /\ active' = [active EXCEPT ![d] = c]
    /\ auth' = [b \in Connections |->
           IF b = c THEN IF pc[c] = "enrolling" THEN "live" ELSE "cancelled"
           ELSE IF Replaces(b, d) THEN "cancelled" ELSE auth[b]]
    /\ authInput' = [authInput EXCEPT ![c] = a]
    /\ device' = [device EXCEPT ![c] = d]
    /\ UNCHANGED connected

After(c, ok) ==
    pc' = [pc EXCEPT ![c] =
              IF @ # "enrolling" THEN "unwinding"
              ELSE IF ok THEN "enrolled" ELSE "unwinding"]

Enrolling(c) == pc[c] \in {"enrolling", "detached", "orphan"}

\* take_approved lets the connection through.
Approved(c) == request[c] = "yes" /\ now < expires[c]

\* take_approved refuses; the entry stays for the guard to remove.
EnrollUnapproved(c) ==
    /\ Enrolling(c) /\ invite[c] # None
    /\ ~Approved(c)
    /\ After(c, FALSE)
    /\ UNCHANGED <<now, book, store, handles, approvals, sessions, invite,
                   device, history, crashes>>

\* The approval is taken, but the invitation expired or was cancelled.
EnrollStale(c) ==
    /\ Enrolling(c) /\ invite[c] # None
    /\ Approved(c) /\ ~InvitationValid(invite[c])
    /\ request' = [request EXCEPT ![c] = "none"]
    /\ After(c, FALSE)
    /\ UNCHANGED <<now, book, store, handles, input, expires, sessions, invite,
                   device, history, crashes>>

\* The approval and the invitation are spent, and the store refuses the write.
EnrollPersistFails(c) ==
    /\ Enrolling(c) /\ invite[c] # None
    /\ Approved(c) /\ InvitationValid(invite[c])
    /\ granted < MaxGrants
    /\ granted' = granted + 1
    /\ request' = [request EXCEPT ![c] = "none"]
    /\ Spend(invite[c])
    /\ After(c, FALSE)
    /\ UNCHANGED <<now, issued, issuedAt, issuer, devices, allow, store,
                   handles, input, expires, sessions, invite, device, history,
                   crashes>>

EnrollInvitation(c) ==
    /\ Enrolling(c) /\ invite[c] # None
    /\ Approved(c) /\ InvitationValid(invite[c])
    /\ granted < MaxGrants
    /\ LET d == granted + 1 IN
       /\ granted' = d
       /\ devices' = devices \union {d}
       /\ allow' = [allow EXCEPT ![d] = input[c]]
       /\ Persist(devices \union {d}, [allow EXCEPT ![d] = input[c]])
       /\ Admit(c, d, input[c])
    /\ request' = [request EXCEPT ![c] = "none"]
    /\ Spend(invite[c])
    /\ After(c, TRUE)
    /\ UNCHANGED <<now, issued, issuedAt, issuer, handles, input, expires,
                   invite, history, crashes>>

\* A known device: refused when revoked since the handshake or beaten by LAN.
EnrollDevice(c) ==
    /\ Enrolling(c) /\ invite[c] = None
    /\ LET d == device[c] IN
       IF d \in devices /\ ~LanWins(c, d)
       THEN Admit(c, d, allow[d]) /\ After(c, TRUE)
       ELSE After(c, FALSE) /\ UNCHANGED <<sessions, device>>
    /\ UNCHANGED <<now, book, store, handles, approvals, invite, history, crashes>>

-----------------------------------------------------------------------------
(* authenticate, after enroll.                                              *)

\* `*invitation = None`: outside the host lock, whatever the slot now holds.
ClearSlot(c) ==
    /\ pc[c] = "enrolled"
    /\ slot' = IF invite[c] = None THEN slot
               ELSE [slot EXCEPT ![HandleOf[c]] = None]
    /\ pc' = [pc EXCEPT ![c] = "answering"]
    /\ UNCHANGED <<now, book, store, up, approvals, sessions, invite, device,
                   history, crashes>>

SendResponse(c) ==
    /\ pc[c] = "answering"
    /\ told' = told \union {device[c]}
    /\ pc' = [pc EXCEPT ![c] = "acking"]
    /\ UNCHANGED <<now, book, store, handles, approvals, sessions, invite,
                   device, revoked, crashes>>

\* The acknowledgement: authenticate returns, its guard is dropped, and the
\* session is marked connected, cancelled or not.
Acknowledge(c) ==
    /\ pc[c] = "acking"
    /\ pc' = [pc EXCEPT ![c] = "online"]
    /\ request' = [request EXCEPT ![c] = "none"]
    /\ connected' = [connected EXCEPT ![c] = TRUE]
    /\ UNCHANGED <<now, book, store, handles, input, expires, active, auth,
                   authInput, invite, device, history, crashes>>

\* Mutant: exchange does not watch the authorization.
EndedByHandle(c) == up[HandleOf[c]] # "up"

Ended(c) == auth[c] = "cancelled" \/ up[HandleOf[c]] # "up"

\* The session was cancelled (revoked, replaced), or its handle dropped.
Disconnect(c) ==
    /\ pc[c] = "online"
    /\ Ended(c)
    /\ pc' = [pc EXCEPT ![c] = "unwinding"]
    /\ UNCHANGED <<now, book, store, handles, approvals, sessions, invite,
                   device, history, crashes>>

\* A timeout, a lost socket, a protocol error or the handle's shutdown ends
\* the task at any await.
Fail(c) ==
    /\ pc[c] \in {"hello", "deciding", "enrolled", "answering", "acking",
                  "online"}
    /\ pc' = [pc EXCEPT ![c] = "unwinding"]
    /\ UNCHANGED <<now, book, store, handles, approvals, sessions, invite,
                   device, history, crashes>>

\* The same while the blocking enroll runs: nobody stops that one.
Detach(c) ==
    /\ pc[c] = "enrolling"
    /\ pc' = [pc EXCEPT ![c] = "detached"]
    /\ UNCHANGED <<now, book, store, handles, approvals, sessions, invite,
                   device, history, crashes>>

\* Drop for ApprovalGuard of a task that left enroll running.
DropGuard(c) ==
    /\ pc[c] = "detached"
    /\ request' = [request EXCEPT ![c] = "none"]
    /\ pc' = [pc EXCEPT ![c] = "orphan"]
    /\ UNCHANGED <<now, book, store, handles, input, expires, sessions, invite,
                   device, history, crashes>>

\* Mutant: no ApprovalGuard.
NoGuard(c) == request

\* cancel_pairing.
GuardDropped(c) == [request EXCEPT ![c] = "none"]

\* Drop for ApprovalGuard and for DeviceSession.
Unwind(c) ==
    /\ pc[c] = "unwinding"
    /\ pc' = [pc EXCEPT ![c] = "done"]
    /\ request' = GuardDropped(c)
    /\ auth' = [auth EXCEPT ![c] = IF @ = "live" THEN "cancelled" ELSE @]
    /\ UNCHANGED <<now, book, store, handles, input, expires, active,
                   authInput, connected, invite, device, history, crashes>>

-----------------------------------------------------------------------------
(* The settings page, the clock and the process.                            *)

\* The store is written first: when that fails nothing changes at all.
Revoke(d) ==
    /\ d \in devices
    /\ Persist(devices \ {d}, allow)
    /\ devices' = devices \ {d}
    /\ revoked' = revoked \union {d}
    /\ active' = [active EXCEPT ![d] = NoConnection]
    /\ auth' = [c \in Connections |->
                   IF c = active[d] THEN "cancelled" ELSE auth[c]]
    /\ UNCHANGED <<now, issued, granted, pending, issuedAt, issuer, allow,
                   handles, approvals, authInput, connected, tasks, told,
                   crashes>>

\* Mutant: the running session keeps its old permission.
PushNothing(d, a) == UNCHANGED authInput

\* Authorization::set_input on the session of the device.
PushInput(d, a) ==
    authInput' = [c \in Connections |->
                     IF c = active[d] THEN a ELSE authInput[c]]

\* The running session is told as well, through its watch channel.
SetInputPermission(d, a) ==
    /\ d \in devices /\ allow[d] # a
    /\ Persist(devices, [allow EXCEPT ![d] = a])
    /\ allow' = [allow EXCEPT ![d] = a]
    /\ PushInput(d, a)
    /\ UNCHANGED <<now, issued, granted, pending, issuedAt, issuer, devices,
                   handles, approvals, active, auth, connected, tasks, history,
                   crashes>>

\* The wall clock advances, or is set back.
Clock(t) ==
    /\ t # now
    /\ now' = t
    /\ UNCHANGED <<book, store, handles, approvals, sessions, tasks, history,
                   crashes>>

\* The process dies; restore brings back the saved devices and nothing else.
Restart ==
    /\ crashes < MaxCrashes
    /\ crashes' = crashes + 1
    /\ devices' = saved /\ allow' = savedAllow
    /\ pending' = {}
    /\ request' = [c \in Connections |-> "none"]
    /\ active' = [d \in Devices |-> NoConnection]
    /\ auth' = [c \in Connections |->
                   IF auth[c] = "live" THEN "cancelled" ELSE auth[c]]
    /\ up' = [h \in Handles |-> IF up[h] = "up" THEN "down" ELSE up[h]]
    /\ slot' = [h \in Handles |-> None]
    /\ pc' = [c \in Connections |-> IF pc[c] = "idle" THEN "idle" ELSE "done"]
    /\ UNCHANGED <<now, issued, granted, issuedAt, issuer, store, input,
                   expires, authInput, connected, invite, device, history>>

-----------------------------------------------------------------------------
Task(c) ==
    \/ RequestPairing(c) \/ SubmitEnroll(c) \/ DecisionSeen(c)
    \/ EnrollUnapproved(c) \/ EnrollStale(c) \/ EnrollPersistFails(c)
    \/ EnrollInvitation(c) \/ EnrollDevice(c)
    \/ ClearSlot(c) \/ SendResponse(c) \/ Acknowledge(c)
    \/ Disconnect(c) \/ Fail(c) \/ Detach(c) \/ DropGuard(c) \/ Unwind(c)

User ==
    \/ \E h \in Handles : StartHandle(h) \/ RefreshInvitation(h) \/ DropHandle(h)
    \/ \E c \in Connections :
          \/ DecideExpired(c) \/ Reject(c) \/ RejectUnheard(c)
          \/ \E a \in BOOLEAN : Approve(c, a)
    \/ \E d \in Devices :
          \/ Revoke(d)
          \/ \E a \in BOOLEAN : SetInputPermission(d, a)

Phone(c) ==
    \/ \E i \in Invitations : HelloInvitation(c, i)
    \/ \E d \in Devices : HelloDevice(c, d)

Next ==
    \/ \E c \in Connections : Task(c) \/ Phone(c)
    \/ User
    \/ \E t \in 0..MaxNow : Clock(t)
    \/ Restart

Spec == Init /\ [][Next]_vars

(* Every await of authenticate has a deadline (12, 120 and 150 seconds), a  *)
(* blocking enroll returns, a cancelled session and a stopped handle are    *)
(* seen by the select of the connection, and a finished task drops what it  *)
(* holds.  Neither the phone nor the user need ever do anything.            *)
Fairness == \A c \in Connections :
    /\ WF_vars(pc[c] # "online" /\ Fail(c))
    /\ WF_vars(EnrollUnapproved(c) \/ EnrollStale(c) \/ EnrollPersistFails(c)
               \/ EnrollInvitation(c) \/ EnrollDevice(c))
    /\ WF_vars(Disconnect(c))
    /\ WF_vars(DropGuard(c))
    /\ WF_vars(Unwind(c))

FairSpec == Spec /\ Fairness

-----------------------------------------------------------------------------
(* Properties.                                                              *)

TypeOK ==
    /\ now \in 0..MaxNow
    /\ issued \in 0..MaxInvitations /\ granted \in 0..MaxGrants
    /\ pending \subseteq Invitations
    /\ issuedAt \in [Invitations -> Nat]
    /\ issuer \in [Invitations -> Handles]
    /\ devices \subseteq Devices /\ saved \subseteq Devices
    /\ allow \in [Devices -> BOOLEAN] /\ savedAllow \in [Devices -> BOOLEAN]
    /\ active \in [Devices -> Connections \union {NoConnection}]
    /\ up \in [Handles -> {"new", "up", "down"}]
    /\ slot \in [Handles -> Invitations \union {None}]
    /\ pc \in [Connections -> PC]
    /\ invite \in [Connections -> Invitations \union {None}]
    /\ device \in [Connections -> Devices \union {None}]
    /\ request \in [Connections -> {"none", "asked", "yes", "no"}]
    /\ input \in [Connections -> BOOLEAN]
    /\ expires \in [Connections -> Nat]
    /\ auth \in [Connections -> {"none", "live", "cancelled"}]
    /\ authInput \in [Connections -> BOOLEAN]
    /\ connected \in [Connections -> BOOLEAN]
    /\ told \subseteq Devices \union {None} /\ revoked \subseteq Devices
    /\ crashes \in 0..MaxCrashes

(* A live session belongs to a device that is still enrolled, and is the    *)
(* one session HostState knows for it: a revoked or replaced phone cannot   *)
(* keep talking, whichever side of enroll the revocation fell on.           *)
SessionAuthorized ==
    \A c \in Connections : auth[c] = "live" =>
        device[c] \in devices /\ active[device[c]] = c

(* The three copies of a permission agree: what the live session enforces,  *)
(* what the book says and what a restart would restore.                     *)
PermissionAgrees ==
    /\ saved = devices
    /\ \A d \in devices : savedAllow[d] = allow[d]
    /\ \A c \in Connections : auth[c] = "live" =>
          authInput[c] = allow[device[c]]

(* A phone is told its secret only once the grant is in the store, so no    *)
(* crash loses it, and no crash brings a revoked grant back.                *)
GrantsDurable == told \subseteq saved \union revoked /\ saved \cap revoked = {}

(* An invitation enrolls one phone, however many connections race with it.  *)
OneUse ==
    \A b, c \in Connections :
        (/\ invite[b] = invite[c] /\ invite[b] # None
         /\ device[b] # None /\ device[c] # None) => b = c

(* Devices and outstanding invitations together never exceed MAX_DEVICES:   *)
(* an approved phone always finds the place its invitation reserved.        *)
BookBounded ==
    /\ Cardinality(devices) + Cardinality(pending) <= MAX_DEVICES
    /\ Cardinality({c \in Connections : request[c] # "none"}) <= MAX_REQUESTS

(* What holds SessionAuthorized, PermissionAgrees, GrantsDurable and OneUse *)
(* up.  Ids are handed out in order; a device's entry in HostState.active   *)
(* is a connection that passed enroll for that very device; a live session  *)
(* passed enroll; a spent invitation has left the book; and a device a      *)
(* connection carries is in the store unless the user removed it.           *)
Admitted == {"enrolled", "answering", "acking", "online", "unwinding", "done"}

Numbered ==
    /\ devices \union revoked \union told \subseteq 1..granted
    /\ pending \subseteq 1..issued
    /\ \A c \in Connections : invite[c] <= issued /\ device[c] <= granted

Carried ==
    \A c \in Connections :
        /\ pc[c] = "idle" => invite[c] = None /\ device[c] = None
        /\ pc[c] \in {"enrolled", "answering"} => device[c] # None
        /\ device[c] # None => device[c] \in saved \union revoked
        /\ invite[c] # None /\ device[c] # None => invite[c] \notin pending
        /\ auth[c] = "live" => pc[c] \in Admitted

Occupied ==
    \A d \in Devices : active[d] # NoConnection =>
        device[active[d]] = d /\ pc[active[d]] \in Admitted

SafetyInv ==
    /\ Numbered /\ Carried /\ Occupied
    /\ SessionAuthorized /\ PermissionAgrees /\ GrantsDurable /\ OneUse

(* A relay connection never takes a device over from a live, connected LAN  *)
(* session.                                                                 *)
LanKeepsDevice ==
    [][\A d \in Devices :
          LET b == active[d] c == active'[d] IN
          (/\ b # NoConnection /\ c # NoConnection /\ b # c
           /\ Route(b) = "lan" /\ auth[b] = "live" /\ connected[b])
          => Route(c) = "lan"]_vars

(* "Rejecting or replacing an invitation also cancels its outstanding       *)
(* approvals": a request refers to the newest invitation of its handle.     *)
ReplacedHasNoRequest ==
    \A c \in Connections : request[c] \in {"asked", "yes"} =>
        \A i \in 1..issued : issuer[i] = HandleOf[c] => i <= invite[c]

(* A request nobody decides frees its place in the bounded queue.           *)
RequestsDrain ==
    \A c \in Connections : (request[c] # "none") ~> (request[c] = "none")

(* A connection whose session was cancelled, or whose handle was dropped,   *)
(* comes to its end.                                                        *)
CancelledEnds ==
    \A c \in Connections :
        (auth[c] = "cancelled" \/ (up[HandleOf[c]] = "down" /\ pc[c] # "idle"))
            ~> (pc[c] = "done")
=============================================================================
