-------------------------- MODULE MobileConnection --------------------------
(***************************************************************************)
(* The process-owned phone service (nebula_app, mobile_connection.rs and   *)
(* its recovery.rs): settings transactions over two routes, the generation *)
(* that cancels them, and the thread that repairs the LAN listener.        *)
(*                                                                         *)
(* OPERATIONS serialises the transactions, so one record tx holds the      *)
(* locals of apply_locked; the settings pages, the network and the         *)
(* listeners move between any two of its steps.  A relay access file and a *)
(* LAN key are numbers; an interface address is a number too, and lower    *)
(* ones come first in the list the system reports.  Port 0 lets the system *)
(* choose one.                                                             *)
(***************************************************************************)
EXTENDS Integers, Sequences, FiniteSetsExt

CONSTANTS
    MaxAddress,      \* interfaces the computer may have
    MaxPort,         \* LAN ports the user may enter, beside none (0)
    MaxToken,        \* relay access files the user may enter
    Saved,           \* the configurations an earlier run may have left
    MaxGeneration,   \* bound: settings operations and cancellations
    Faults           \* what the environment may do: "start", "store", "status"

ASSUME ConnectionConstants ==
    /\ MaxAddress \in Nat \ {0}
    /\ MaxPort \in Nat
    /\ MaxToken \in Nat \ {0}
    /\ MaxGeneration \in Nat \ {0}
    /\ Faults \subseteq {"start", "store", "status"}

VARIABLES
    gen,       \* GENERATION
    stored,    \* the "configuration" credential
    conf,      \* Manager.configuration
    route,     \* Manager.lan and Manager.relay
    step,      \* where apply_locked is; "free" when nobody holds OPERATIONS
    tx,        \* its locals
    pending,   \* settings operations begun and not yet holding OPERATIONS
    resume,    \* startup: the requests the recovery thread has yet to apply
    avail,     \* the interface addresses that exist
    shown,     \* the preferences a settings page displays
    wish,      \* history: the newest operation reported as successful
    torn       \* history: the store refused the last rollback

vars == <<gen, stored, conf, route, step, tx, pending, resume, avail, shown,
          wish, torn>>

None == 0
Modes == {"lan", "relay"}
Addresses == 1..MaxAddress
Steps == {"free", "lan", "lan start", "relay", "relay start", "store",
          "commit", "undo", "restore lan", "restore relay", "failed"}

Preferences == [enabled : BOOLEAN, lan : BOOLEAN, relay : BOOLEAN,
                address : 0..MaxAddress, port : 0..MaxPort]
Configuration == [preferences : Preferences, relay : 0..MaxToken, lan : Nat]

\* Active: what it is bound to, the LAN key it presents, its Status (not
\* Failed or Stopped) and the flag that opens its Runtime scope.
Active == [identity : Nat \X Nat, key : Nat, ok : BOOLEAN, enabled : BOOLEAN]
NoRoute == [identity |-> <<None, None>>, key |-> None, ok |-> FALSE, enabled |-> FALSE]
Installed(m) == route[m] # NoRoute

RouteEnabled(p, m) ==
    p.enabled /\ (IF m = "lan" THEN p.lan ELSE p.relay)

\* What a route is bound to: the LAN address and port, or the relay's file.
Identity(c, m) == IF m = "lan" THEN <<c.preferences.address, c.preferences.port>>
                  ELSE <<c.relay, None>>

\* The locals of apply_locked: who called it, the generation it runs under,
\* the route it is limited to, the new and the previous configuration, the
\* LAN address it found, the routes it started and took down, whether the new
\* configuration is stored; and, as history, the routes there were before and
\* whether the rollback has failed nowhere.
Locals == [who : {"user", "recovery"}, g : Nat, only : Modes \union {"all"},
           conf : Configuration, previous : Configuration, up : BOOLEAN,
           candidates : [Modes -> Active], replaced : SUBSET Modes,
           written : BOOLEAN, before : SUBSET Modes, whole : BOOLEAN]

\* Idle values of the transaction's locals.
Initially(c) ==
    [who |-> "user", g |-> 0, only |-> "all", conf |-> c, previous |-> c,
     up |-> FALSE, candidates |-> [m \in Modes |-> NoRoute],
     replaced |-> {}, written |-> FALSE, before |-> {}, whole |-> TRUE]

\* The arguments of apply: complete preferences, a new relay file or None, and
\* the one route to rebuild (or "all").
Request(p, t, m) == [preferences |-> p, relay |-> t, only |-> m]
RequestSet == [preferences : Preferences, relay : 0..MaxToken,
               only : Modes \union {"all"}]

\* What apply_locked can have stored: enabled with a route only, the relay
\* with an access file only, and a LAN key with an address only.
Storable(c) ==
    /\ c \in Configuration
    /\ c.preferences.enabled => c.preferences.lan \/ c.preferences.relay
    /\ RouteEnabled(c.preferences, "relay") => c.relay # None
    /\ c.preferences.address = None => c.lan = None

\* start: what the recovery thread has to do for a route.
Resumed(m) == IF RouteEnabled(conf.preferences, m)
              THEN <<Request(conf.preferences, None, m)>> ELSE << >>

ASSUME SavedIsStorable == \A c \in Saved : Storable(c)

\* The process starts: begin gives the recovery thread the first generation.
Init ==
    /\ gen = 1
    /\ stored \in Saved
    /\ conf = stored
    /\ route = [m \in Modes |-> NoRoute]
    /\ step = "free"
    /\ tx = Initially(conf)
    /\ pending = {}
    /\ resume = Resumed("lan") \o Resumed("relay")
    /\ avail \in SUBSET Addresses
    /\ shown = conf.preferences
    /\ wish = [g |-> 1, preferences |-> conf.preferences, relay |-> conf.relay]
    /\ torn = FALSE

-----------------------------------------------------------------------------
(* The settings pages.                                                      *)

\* What a page asks for, derived from the preferences it shows.
Selected == {shown.address} \union avail

\* The port field, whether or not the LAN is on.
PortRequests == {Request([shown EXCEPT !.port = q], None, "lan") :
                    q \in (0..MaxPort) \ {shown.port}}

Requests ==
    \* the port, the address selector, the LAN switch
    PortRequests \union
    {Request([shown EXCEPT !.address = a], None, "lan") :
        a \in {b \in avail : shown.enabled /\ shown.lan}}
    \union {Request([shown EXCEPT !.lan = ~@], None, "lan")}
    \* enable and pause
    \union {Request([shown EXCEPT !.enabled = TRUE, !.address = a,
                        !.lan = @ \/ ~shown.relay], None, "all") : a \in Selected}
    \union {Request([shown EXCEPT !.enabled = FALSE], None, "all")}
    \* choosing a route to pair on
    \union {Request([shown EXCEPT !.enabled = TRUE, !.lan = TRUE,
                        !.address = a], None, "lan") : a \in Selected}
    \union {Request([shown EXCEPT !.enabled = TRUE, !.relay = TRUE], None, "relay")}
    \* the relay page: save, disable
    \union {Request([shown EXCEPT !.enabled = TRUE, !.relay = TRUE], t, "relay") :
               t \in 1..MaxToken}
    \union {Request([shown EXCEPT !.relay = FALSE], None, "relay")}

\* begin, and the apply it is for goes to a background thread.
Begin(r) ==
    /\ gen < MaxGeneration
    /\ gen' = gen + 1
    /\ pending' = pending \union {[request |-> r, g |-> gen + 1]}
    /\ UNCHANGED <<stored, conf, route, step, tx, resume, avail, shown,
                   wish, torn>>

\* cancel: the page was closed, or started something else.
Cancel ==
    /\ gen < MaxGeneration
    /\ \/ \E o \in pending : o.g = gen
       \/ step # "free" /\ tx.who = "user" /\ tx.g = gen
    /\ gen' = gen + 1
    /\ UNCHANGED <<stored, conf, route, step, tx, pending, resume, avail,
                   shown, wish, torn>>

\* The page's monitor takes a snapshot every second.
Monitor ==
    /\ shown # conf.preferences
    /\ shown' = conf.preferences
    /\ UNCHANGED <<gen, stored, conf, route, step, tx, pending, resume, avail,
                    wish, torn>>

-----------------------------------------------------------------------------
(* The transaction.                                                         *)

\* Mutant: a stale generation is never noticed.
CurrentAlways(g) == TRUE

\* current
Current(g) == gen = g

\* Mutant: the second in the list.
AvailableAddressNext(a) ==
    IF a # None THEN IF a \in avail THEN a ELSE None
    ELSE IF avail = {} THEN None ELSE Min(avail) + 1

\* A selected address is used or waited for; only a connection without one
\* takes the first in the list.
AvailableAddress(a) ==
    IF a # None THEN IF a \in avail THEN a ELSE None
    ELSE IF avail = {} THEN None ELSE Min(avail)

\* prepare_lan_address
Prepared(p) ==
    LET a == AvailableAddress(p.address) IN
    IF RouteEnabled(p, "lan") /\ a # None THEN [p EXCEPT !.address = a] ELSE p

Normal(p) == IF p.lan \/ p.relay THEN p ELSE [p EXCEPT !.enabled = FALSE]

\* apply_locked up to its closure: the early returns, then the copies.
Accepts(r, g) ==
    /\ Current(g)
    /\ RouteEnabled(r.preferences, "relay") => r.relay # None \/ conf.relay # None

Enter(who, r, g) ==
    LET p == Prepared(Normal(r.preferences))
        up == /\ RouteEnabled(p, "lan")
              /\ AvailableAddress(p.address) # None
    IN /\ step' = "lan"
       /\ tx' = [Initially(conf) EXCEPT
                    !.who = who, !.g = g, !.only = r.only, !.up = up,
                    !.conf = [conf EXCEPT !.preferences = p,
                                 !.relay = IF r.relay = None THEN @ ELSE r.relay],
                    !.before = {m \in Modes : Installed(m)}]

\* apply: OPERATIONS is free, and its lock is not a fair one.
Apply(o) ==
    /\ step = "free" /\ o \in pending
    /\ Accepts(o.request, o.g)
    /\ Enter("user", o.request, o.g)
    /\ pending' = pending \ {o}
    /\ UNCHANGED <<gen, stored, conf, route, resume, avail, shown, wish,
                   torn>>

\* Cancelled, or Invalid, or the interfaces cannot be listed.
ApplyRefused(o) ==
    /\ step = "free" /\ o \in pending
    /\ \/ ~Accepts(o.request, o.g)
       \/ "start" \in Faults /\ RouteEnabled(o.request.preferences, "lan")
    /\ pending' = pending \ {o}
    /\ UNCHANGED <<gen, stored, conf, route, step, tx, resume, avail, shown,
                    wish, torn>>

After(m) == IF m = "lan" THEN "relay" ELSE "store"
StartOf(m) == IF m = "lan" THEN "lan start" ELSE "relay start"

\* This transaction rebuilds the route if it has to.
Concerns(m) ==
    /\ tx.only \in {"all", m}
    /\ RouteEnabled(tx.conf.preferences, m)
    /\ m = "lan" => tx.up

\* Mutant: whatever it is bound to.
ReusableHealthy(m) == route[m].ok

Reusable(m) == route[m].ok /\ route[m].identity = Identity(tx.conf, m)

Keep(m) ==
    /\ step = m
    /\ ~Concerns(m) \/ (Installed(m) /\ Reusable(m))
    /\ step' = After(m)
    /\ UNCHANGED <<gen, stored, conf, route, tx, pending, resume, avail, shown,
                    wish, torn>>

\* Mutant: a healthy route, displaced for a new identity, is not counted.
ReplacedFailed(m) ==
    IF Installed(m) /\ ~route[m].ok THEN tx.replaced \union {m} ELSE tx.replaced

\* replaced.push
Replaced(m) == IF Installed(m) THEN tx.replaced \union {m} ELSE tx.replaced

\* active.take: the old handle is dropped before the new one is started.
Displace(m) ==
    /\ step = m
    /\ Concerns(m) /\ ~(Installed(m) /\ Reusable(m))
    /\ step' = StartOf(m)
    /\ route' = [route EXCEPT ![m] = NoRoute]
    /\ tx' = [tx EXCEPT !.replaced = Replaced(m)]
    /\ UNCHANGED <<gen, stored, conf, pending, resume, avail, shown,
                   wish, torn>>

\* A random key: none of those still kept anywhere.
FreshKey == Min((1..4) \ {stored.lan, conf.lan, route["lan"].key})

\* Mutant: an address change makes a new LAN key.
KeyForAddress(c) == FreshKey

\* LanCredentials: relocated when there are any, generated otherwise.
KeyFor(c) == IF c.lan = None THEN FreshKey ELSE c.lan

\* start_route for configuration c, when the system lets it.
CanStart(c, m) == m = "lan" => c.preferences.address \in avail
Started(c, m, on) ==
    [identity |-> Identity(c, m), ok |-> TRUE, enabled |-> on,
     key |-> IF m = "lan" THEN KeyFor(c) ELSE None]
StartedConf(c, m) == IF m = "lan" THEN [c EXCEPT !.lan = KeyFor(c)] ELSE c

StartRoute(m) ==
    /\ step = StartOf(m) /\ Current(tx.g)
    /\ CanStart(tx.conf, m)
    /\ step' = After(m)
    /\ tx' = [tx EXCEPT !.candidates[m] = Started(tx.conf, m, FALSE),
                        !.conf = StartedConf(tx.conf, m)]
    /\ UNCHANGED <<gen, stored, conf, route, pending, resume, avail, shown,
                   wish, torn>>

StartFails(m) ==
    /\ step = StartOf(m)
    /\ ~Current(tx.g) \/ ~CanStart(tx.conf, m) \/ "start" \in Faults
    /\ step' = "undo"
    /\ UNCHANGED <<gen, stored, conf, route, tx, pending, resume, avail, shown,
                    wish, torn>>

Store ==
    /\ step = "store" /\ Current(tx.g)
    /\ step' = "commit"
    /\ stored' = tx.conf
    /\ torn' = FALSE
    /\ tx' = [tx EXCEPT !.written = TRUE]
    /\ UNCHANGED <<gen, conf, route, pending, resume, avail, shown, wish>>

StoreFails ==
    /\ step = "store"
    /\ ~Current(tx.g) \/ "store" \in Faults
    /\ step' = "undo"
    /\ UNCHANGED <<gen, stored, conf, route, tx, pending, resume, avail, shown,
                    wish, torn>>

Return(c) == step' = "free" /\ tx' = Initially(c)

\* Routes that are not wanted are taken out whatever tx.only says.
Committed(m) ==
    IF ~RouteEnabled(tx.conf.preferences, m) \/ (m = "lan" /\ ~tx.up) THEN NoRoute
    ELSE IF tx.candidates[m] = NoRoute THEN route[m]
    ELSE [tx.candidates[m] EXCEPT !.enabled = TRUE]

Commit ==
    /\ step = "commit" /\ Current(tx.g)
    /\ route' = [m \in Modes |-> Committed(m)]
    /\ conf' = tx.conf
    /\ wish' = IF tx.who = "user" /\ tx.g >= wish.g
               THEN [g |-> tx.g, preferences |-> tx.conf.preferences,
                     relay |-> tx.conf.relay]
               ELSE wish
    /\ Return(tx.conf)
    /\ UNCHANGED <<gen, stored, pending, resume, avail, shown, torn>>

CommitCancelled ==
    /\ step = "commit" /\ ~Current(tx.g)
    /\ step' = "undo"
    /\ UNCHANGED <<gen, stored, conf, route, tx, pending, resume, avail, shown,
                    wish, torn>>

\* Mutant: the new configuration stays in the store.
WriteBackNothing == UNCHANGED stored

\* previous.store, when the new configuration had been written.
WriteBack == stored' = IF tx.written THEN tx.previous ELSE stored

Undo ==
    /\ step = "undo"
    /\ WriteBack
    /\ step' = "restore lan"
    /\ UNCHANGED <<gen, conf, route, tx, pending, resume, avail, shown,
                   wish, torn>>

\* `previous.store()?` returns, and nothing is restored.
UndoFails ==
    /\ step = "undo" /\ tx.written /\ "store" \in Faults
    /\ torn' = TRUE
    /\ Return(conf)
    /\ UNCHANGED <<gen, stored, conf, route, pending, resume, avail, shown,
                    wish>>

\* The route the rollback starts, enabled at once.
Restored(m) == Started(tx.previous, m, TRUE)

RestoreLan ==
    /\ step = "restore lan"
    /\ step' = "restore relay"
    /\ \/ /\ "lan" \notin tx.replaced
          /\ UNCHANGED <<route, tx>>
       \/ /\ "lan" \in tx.replaced /\ CanStart(tx.previous, "lan")
          /\ route' = [route EXCEPT !["lan"] = Restored("lan")]
          /\ tx' = [tx EXCEPT !.previous = StartedConf(@, "lan")]
       \/ /\ "lan" \in tx.replaced
          /\ "start" \in Faults \/ ~CanStart(tx.previous, "lan")
          /\ tx' = [tx EXCEPT !.whole = FALSE]
          /\ UNCHANGED route
    /\ UNCHANGED <<gen, stored, conf, pending, resume, avail, shown, wish,
                   torn>>

RestoreRelay ==
    /\ step = "restore relay"
    /\ step' = "failed"
    /\ \/ /\ "relay" \notin tx.replaced
          /\ UNCHANGED <<route, tx>>
       \/ /\ "relay" \in tx.replaced
          /\ route' = [route EXCEPT !["relay"] = Restored("relay")]
          /\ UNCHANGED tx
       \/ /\ "relay" \in tx.replaced /\ "start" \in Faults
          /\ tx' = [tx EXCEPT !.whole = FALSE]
          /\ UNCHANGED route
    /\ UNCHANGED <<gen, stored, conf, pending, resume, avail, shown,
                   wish, torn>>

\* The error is returned and OPERATIONS released.
Fail ==
    /\ step = "failed"
    /\ Return(conf)
    /\ UNCHANGED <<gen, stored, conf, route, pending, resume, avail, shown,
                    wish, torn>>

-----------------------------------------------------------------------------
(* The recovery thread.                                                     *)

\* start: one transaction per enabled route, with the preferences it read
\* first and the generation it began.
Resume ==
    /\ step = "free" /\ resume # << >>
    /\ resume' = Tail(resume)
    /\ IF Accepts(Head(resume), 1)
       THEN Enter("recovery", Head(resume), 1)
       ELSE UNCHANGED <<step, tx>>
    /\ UNCHANGED <<gen, stored, conf, route, pending, avail, shown, wish,
                   torn>>

LanHealthy == Installed("lan") /\ route["lan"].ok

\* Mutant: a listener that failed counts as one.
RepairIdleInstalled ==
    \/ ~RouteEnabled(conf.preferences, "lan")
    \/ /\ Installed("lan")
       /\ conf.preferences.address = AvailableAddress(conf.preferences.address)

\* repair_lan: nothing to do.
RepairIdle ==
    \/ ~RouteEnabled(conf.preferences, "lan")
    \/ /\ LanHealthy
       /\ conf.preferences.address = AvailableAddress(conf.preferences.address)

\* repair_lan with the selected interface gone: the listener goes too.
RepairDrop ==
    /\ step = "free" /\ resume = << >>
    /\ RouteEnabled(conf.preferences, "lan")
    /\ AvailableAddress(conf.preferences.address) = None
    /\ Installed("lan")
    /\ route' = [route EXCEPT !["lan"] = NoRoute]
    /\ UNCHANGED <<gen, stored, conf, step, tx, pending, resume, avail, shown,
                    wish, torn>>

\* repair_lan with a listener missing or failed.  The generation is the one
\* it finds, so it shares it with an operation that is still waiting.
Repair ==
    /\ step = "free" /\ resume = << >>
    /\ ~RepairIdle
    /\ LET a == AvailableAddress(conf.preferences.address)
           r == Request([conf.preferences EXCEPT !.address = a], None, "lan")
       IN a # None /\ Accepts(r, gen) /\ Enter("recovery", r, gen)
    /\ UNCHANGED <<gen, stored, conf, route, pending, resume, avail, shown,
                    wish, torn>>

(* The environment: interfaces come and go, and a route's task fails.       *)
Network(as) ==
    /\ as # avail
    /\ avail' = as
    /\ UNCHANGED <<gen, stored, conf, route, step, tx, pending, resume, shown,
                    wish, torn>>

RouteFails(m) ==
    /\ "status" \in Faults
    /\ Installed(m) /\ route[m].ok
    /\ route' = [route EXCEPT ![m].ok = FALSE]
    /\ UNCHANGED <<gen, stored, conf, step, tx, pending, resume, avail, shown,
                    wish, torn>>

Transaction ==
    \/ \E m \in Modes : Keep(m) \/ Displace(m) \/ StartRoute(m) \/ StartFails(m)
    \/ Store \/ StoreFails \/ Commit \/ CommitCancelled
    \/ Undo \/ UndoFails \/ RestoreLan \/ RestoreRelay \/ Fail

Next ==
    \/ \E r \in Requests : Begin(r)
    \/ Cancel \/ Monitor
    \/ \E o \in pending : Apply(o) \/ ApplyRefused(o)
    \/ Transaction
    \/ Resume \/ RepairDrop \/ Repair
    \/ \E as \in SUBSET Addresses : Network(as)
    \/ \E m \in Modes : RouteFails(m)

Spec == Init /\ [][Next]_vars

(* The thread that holds OPERATIONS runs on, and the recovery thread wakes  *)
(* every five seconds.  Users, interfaces and listeners owe nothing.        *)
Fairness == WF_vars(Transaction) /\ WF_vars(Resume) /\ WF_vars(Repair)

FairSpec == Spec /\ Fairness

-----------------------------------------------------------------------------
(* Properties.                                                              *)

TypeOK ==
    /\ gen \in 1..MaxGeneration
    /\ stored \in Configuration /\ conf \in Configuration
    /\ route \in [Modes -> Active]
    /\ step \in Steps
    /\ tx \in Locals
    /\ pending \subseteq [request : RequestSet, g : 2..gen]
    /\ resume \in Seq(RequestSet)
    /\ avail \subseteq Addresses
    /\ shown \in Preferences
    /\ wish \in [g : 1..gen, preferences : Preferences, relay : 0..MaxToken]
    /\ torn \in BOOLEAN

(* Between transactions the credential store holds the configuration in     *)
(* force, so a restart brings back what the user last saw; only a store     *)
(* that refuses the rollback can make them differ.                          *)
StoreAgrees == step = "free" /\ ~torn => stored = conf

(* "A cancelled settings operation must not replace a newer user choice":   *)
(* between transactions the switches, the port and the relay are those of   *)
(* the newest operation that was reported as successful, whichever thread   *)
(* got the lock first and whatever the recovery thread did meanwhile.       *)
NewestWins ==
    step = "free" =>
        /\ conf.preferences = [wish.preferences EXCEPT
                                  !.address = conf.preferences.address]
        /\ conf.relay = wish.relay

(* A failed transaction leaves no trace but the failures of its rollback:   *)
(* the routes that ran before it run again.                                 *)
RollbackRestores ==
    step = "failed" /\ tx.whole => {m \in Modes : Installed(m)} = tx.before

(* A phone reaches the Runtime over every installed route, the relay is the *)
(* configured one, and the LAN listener presents the key of the             *)
(* configuration, the one paired phones pin.  Whatever an operation on a    *)
(* route commits, a connection it kept included, is bound to the relay file *)
(* or the address and port it commits.  (An operation on the relay alone    *)
(* may commit another address and leaves the listener where it is.)         *)
RoutesServe ==
    \A m \in Modes :
        /\ Installed(m) =>
             /\ route[m].enabled
             /\ step = "free" => RouteEnabled(conf.preferences, m)
             /\ IF m = "lan" THEN route[m].key = conf.lan
                ELSE route[m].identity = Identity(conf, m)
        /\ step = "commit" /\ tx.only \in {"all", m} /\ Committed(m) # NoRoute
             => Committed(m).identity = Identity(tx.conf, m)

(* The LAN key, once in force, is never replaced: not by another interface, *)
(* not by a rollback, not by the recovery thread.                           *)
KeyKept == [][conf.lan # None => conf'.lan = conf.lan]_vars

-----------------------------------------------------------------------------
(* What the invariants above rest on: a transaction, wherever it is, as     *)
(* seen from the configuration it started from.                             *)

SameSwitches(p, q) ==
    p.enabled = q.enabled /\ p.lan = q.lan /\ p.relay = q.relay /\ p.port = q.port

\* The locals belong to the configuration in force.  The rollback never
\* invents a LAN key, and only an operation on the relay changes the relay.
LocalsFit ==
    /\ step = "free" => tx = Initially(conf)
    /\ tx.previous = conf
    /\ tx.g <= gen
    /\ step # "free" /\ tx.who = "user" => tx.g >= 2
    /\ conf.lan # None => tx.conf.lan = conf.lan
    /\ tx.only # "relay" => tx.conf.relay = conf.relay

\* Requests carry a relay file only for the relay, and the startup requests
\* ask for what is in force as long as no operation has begun.
RequestsFit ==
    /\ \A o \in pending : o.request.only # "relay" => o.request.relay = None
    /\ \A i \in DOMAIN resume :
         /\ RouteEnabled(resume[i].preferences, resume[i].only)
         /\ resume[i].relay = None
         /\ gen = 1 => SameSwitches(resume[i].preferences, conf.preferences)

\* The choice in force is the user's newest, and the recovery thread is not
\* about to change it.
ChoiceFits ==
    /\ SameSwitches(conf.preferences, wish.preferences)
    /\ conf.relay = wish.relay
    /\ tx.who = "recovery" =>
         /\ SameSwitches(tx.conf.preferences, conf.preferences)
         /\ tx.conf.relay = conf.relay

\* The store holds the new configuration from Store until the rollback.
NewIsStored == step \in {"commit", "undo"} /\ tx.written
StoreFits ==
    /\ step \in {"lan", "lan start", "relay", "relay start", "store"} => ~tx.written
    /\ step = "commit" => tx.written
    /\ NewIsStored => stored = tx.conf
    /\ ~NewIsStored /\ ~torn => stored = conf

\* A route serves the configuration in force, one that was taken down did, and
\* one that was started serves the new configuration.
RouteFits(m) ==
    /\ Installed(m) =>
         /\ route[m].enabled
         /\ IF m = "lan" THEN route[m].key = conf.lan
            ELSE route[m].identity = Identity(conf, m)
    /\ Installed(m) \/ m \in tx.replaced =>
         /\ RouteEnabled(conf.preferences, m)
         /\ m = "lan" => conf.lan # None
    /\ tx.candidates[m] # NoRoute =>
         /\ tx.candidates[m].identity = Identity(tx.conf, m)
         /\ m = "lan" => tx.candidates[m].key = tx.conf.lan /\ tx.conf.lan # None
RoutesFit == \A m \in Modes : RouteFits(m)

\* A connection the transaction keeps is the one it wants: the relay always,
\* the listener when the transaction is about the LAN.
Kept(m) == /\ Installed(m) /\ RouteEnabled(tx.conf.preferences, m)
           /\ tx.candidates[m] = NoRoute
KeptFits ==
    /\ step \in {"store", "commit"} /\ Kept("relay")
         => route["relay"].identity = Identity(tx.conf, "relay")
    /\ /\ step \in {"relay", "relay start", "store", "commit"}
       /\ tx.only # "relay" /\ tx.up /\ Kept("lan")
       => route["lan"].identity = Identity(tx.conf, "lan")

\* Until the rollback has passed a route, it runs or is known to be replaced;
\* after that it runs, unless the rollback was not whole.
RollbackFits ==
    step # "free" =>
        /\ tx.replaced \subseteq tx.before
        /\ \A m \in Modes :
             /\ Installed(m) => m \in tx.before
             /\ m \in tx.before => Installed(m) \/ m \in tx.replaced
             /\ /\ m \in tx.before /\ tx.whole
                /\ step = "failed" \/ (m = "lan" /\ step = "restore relay")
                => Installed(m)

ConnectionInv ==
    /\ LocalsFit /\ RequestsFit /\ ChoiceFits /\ StoreFits /\ RoutesFit
    /\ KeptFits /\ RollbackFits

-----------------------------------------------------------------------------
(* While the LAN is wanted, its interface exists and transactions stop      *)
(* failing, a listener comes back after every failure, without the settings *)
(* page (recovery.rs, repair_lan).                                          *)
LanWanted ==
    /\ RouteEnabled(conf.preferences, "lan")
    /\ AvailableAddress(conf.preferences.address) # None
LanRecovers == <>[](LanWanted /\ step # "undo") => []<>LanHealthy
=============================================================================
