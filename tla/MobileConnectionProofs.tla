----------------------- MODULE MobileConnectionProofs -----------------------
(***************************************************************************)
(* Proofs about the settings transactions of MobileConnection: whatever    *)
(* the settings pages, the recovery thread, the interfaces and the         *)
(* listeners do between the steps of a transaction, the store and the      *)
(* routes agree with the configuration in force, and that one with the     *)
(* user's newest choice.                                                   *)
(***************************************************************************)
EXTENDS MobileConnection, WellFoundedInduction, TLAPS

-----------------------------------------------------------------------------
(* The operators.                                                           *)

\* A set of numbers that is not empty has a smallest one, which Min chooses.
LEMMA Smallest ==
    ASSUME NEW S \in SUBSET Nat, S # {}
    PROVE  Min(S) \in S /\ \A y \in S : Min(S) =< y
<1>1. PICK x \in S : \A y \in S : ~(<<y, x>> \in OpToRel(<, Nat))
  BY NatLessThanWellFounded, WFMin, Zenon
<1>2. \A y \in S : x =< y
  <2> SUFFICES ASSUME NEW y \in S, y < x PROVE FALSE
    OBVIOUS
  <2> DEFINE ss == <<y, x>>
  <2>1. ss \in Nat \X Nat /\ ss[1] < ss[2]
    OBVIOUS
  <2>2. ss \in OpToRel(<, Nat)
    BY <2>1, Zenon DEF OpToRel
  <2> QED
    BY <1>1, <2>2, Zenon
<1> QED
  BY <1>2 DEF Min

\* available_address: a listed address or none.
LEMMA AddressFound ==
    ASSUME avail \subseteq Addresses, MaxAddress \in Nat, NEW a \in 0..MaxAddress
    PROVE  AvailableAddress(a) \in 0..MaxAddress
<1>1. avail # {} => Min(avail) \in avail
  BY Smallest DEF Addresses
<1> DEFINE n == Min(avail)
<1>2. avail # {} => n \in avail
  BY <1>1
<1> HIDE DEF n
<1>3. AvailableAddress(a) = (IF a # None THEN IF a \in avail THEN a ELSE None
                             ELSE IF avail = {} THEN None ELSE n)
  BY DEF AvailableAddress, n
<1>4. None \in 0..MaxAddress /\ \A b \in avail : b \in 0..MaxAddress
  BY DEF Addresses, None
<1> QED
  BY <1>2, <1>3, <1>4, Zenon

\* A new LAN key is a key.
LEMMA FreshKeyFound ==
    ASSUME stored.lan \in Nat, conf.lan \in Nat, route["lan"].key \in Nat
    PROVE  FreshKey \in Nat /\ FreshKey # None
<1> DEFINE S == (1..4) \ {stored.lan, conf.lan, route["lan"].key}
<1>1. S \in SUBSET Nat /\ S # {} /\ 0 \notin S
  <2>1. S \in SUBSET Nat /\ 0 \notin S
    OBVIOUS
  <2>2. S # {}
    <3> SUFFICES ASSUME S = {} PROVE FALSE
      OBVIOUS
    <3>1. 1 \notin S /\ 2 \notin S /\ 3 \notin S /\ 4 \notin S
      OBVIOUS
    <3>2. {1, 2, 3, 4} \subseteq {stored.lan, conf.lan, route["lan"].key}
      BY <3>1
    <3> QED
      BY <3>2
  <2> QED
    BY <2>1, <2>2
<1> HIDE DEF S
<1>2. Min(S) \in S
  BY <1>1, Smallest, Zenon
<1>3. FreshKey = Min(S)
  BY DEF FreshKey, S
<1> QED
  BY <1>1, <1>2, <1>3 DEF None

\* A page's switches are set and the address is chosen one at a time.
LEMMA PreferencesWith ==
    ASSUME NEW p \in Preferences
    PROVE  /\ p.enabled \in BOOLEAN /\ p.lan \in BOOLEAN /\ p.relay \in BOOLEAN
           /\ p.address \in 0..MaxAddress /\ p.port \in 0..MaxPort
           /\ \A q \in 0..MaxPort : [p EXCEPT !.port = q] \in Preferences
           /\ \A a \in 0..MaxAddress :
                /\ [p EXCEPT !.address = a] \in Preferences
                /\ SameSwitches([p EXCEPT !.address = a], p)
                /\ [p EXCEPT !.address = a].address = a
           /\ \A b \in BOOLEAN :
                /\ [p EXCEPT !.enabled = b] \in Preferences
                /\ [p EXCEPT !.lan = b] \in Preferences
                /\ [p EXCEPT !.relay = b] \in Preferences
BY DEF Preferences, SameSwitches

\* Preferences that differ in the address only.
LEMMA SwitchesOnly ==
    ASSUME NEW p \in Preferences, NEW q \in Preferences, SameSwitches(p, q)
    PROVE  /\ p = [q EXCEPT !.address = p.address]
           /\ \A m \in Modes : RouteEnabled(p, m) <=> RouteEnabled(q, m)
<1>1. p = [q EXCEPT !.address = p.address]
  BY DEF Preferences, SameSwitches
<1>2. \A m \in Modes : RouteEnabled(p, m) <=> RouteEnabled(q, m)
  BY Zenon DEF SameSwitches, RouteEnabled
<1> QED
  BY <1>1, <1>2

\* prepare_lan_address changes the address only, and normalising leaves
\* preferences with a route alone.
LEMMA PreparedPreferences ==
    ASSUME TypeOK, NEW p \in Preferences
    PROVE  /\ Normal(p) \in Preferences
           /\ p.lan \/ p.relay => Normal(p) = p
           /\ Prepared(p) \in Preferences
           /\ SameSwitches(Prepared(p), p)
<1>1. Normal(p) \in Preferences
  BY PreferencesWith, Zenon DEF Normal
<1>2. p.lan \/ p.relay => Normal(p) = p
  BY DEF Normal
<1>3. AvailableAddress(p.address) \in 0..MaxAddress
  BY AddressFound, PreferencesWith, ConnectionConstants DEF TypeOK
<1>4. SameSwitches(p, p)
  BY DEF SameSwitches
<1>5. Prepared(p) \in Preferences /\ SameSwitches(Prepared(p), p)
  BY <1>3, <1>4, PreferencesWith, Zenon DEF Prepared
<1> QED
  BY <1>1, <1>2, <1>5

\* What a page asks for: a relay file comes with the relay only.
LEMMA PageRequests ==
    ASSUME TypeOK, NEW r \in Requests
    PROVE  r \in RequestSet /\ (r.only # "relay" => r.relay = None)
<1> DEFINE Good(q) == q \in RequestSet /\ (q.only # "relay" => q.relay = None)
<1>1. ASSUME NEW p \in Preferences, NEW t \in 0..MaxToken,
             NEW m \in Modes \union {"all"}, m # "relay" => t = None
      PROVE  Good(Request(p, t, m))
  BY <1>1 DEF Request, RequestSet
<1>2. None \in 0..MaxToken /\ 1..MaxToken \subseteq 0..MaxToken
      /\ {"lan", "relay", "all"} \subseteq Modes \union {"all"}
  BY ConnectionConstants DEF None, Modes
<1>3. shown \in Preferences /\ avail \subseteq 0..MaxAddress
      /\ Selected \subseteq 0..MaxAddress
  <2>1. shown \in Preferences /\ avail \subseteq 0..MaxAddress
    BY ConnectionConstants DEF TypeOK, Addresses
  <2> QED
    BY <2>1, PreferencesWith, Zenon DEF Selected
<1>4. /\ \A a \in avail : [shown EXCEPT !.address = a] \in Preferences
      /\ [shown EXCEPT !.enabled = FALSE] \in Preferences
      /\ [shown EXCEPT !.relay = FALSE] \in Preferences
  BY <1>3, PreferencesWith, Zenon
<1> SUFFICES Good(r)
  OBVIOUS
<1> HIDE DEF Good
<1>5. CASE \E a \in {b \in avail : shown.enabled /\ shown.lan} :
             r = Request([shown EXCEPT !.address = a], None, "lan")
  BY <1>1, <1>2, <1>3, <1>4, <1>5, Zenon
<1>6. CASE r = Request([shown EXCEPT !.lan = ~@], None, "lan")
  <2>1. [shown EXCEPT !.lan = ~@] \in Preferences
    BY <1>3, PreferencesWith DEF Preferences
  <2> QED
    BY <1>1, <1>2, <1>6, <2>1, Zenon
<1>7. CASE \E a \in Selected : r = Request([shown EXCEPT !.enabled = TRUE,
             !.address = a, !.lan = @ \/ ~shown.relay], None, "all")
  <2> PICK a \in Selected : r = Request([shown EXCEPT !.enabled = TRUE,
             !.address = a, !.lan = @ \/ ~shown.relay], None, "all")
    BY <1>7
  <2>1. [shown EXCEPT !.enabled = TRUE, !.address = a,
             !.lan = @ \/ ~shown.relay] \in Preferences
    BY <1>3 DEF Preferences
  <2> QED
    BY <1>1, <1>2, <2>1
<1>8. CASE r = Request([shown EXCEPT !.enabled = FALSE], None, "all")
  BY <1>1, <1>2, <1>3, <1>4, <1>8, Zenon
<1>9. CASE \E a \in Selected : r = Request([shown EXCEPT !.enabled = TRUE,
             !.lan = TRUE, !.address = a], None, "lan")
  <2> PICK a \in Selected : r = Request([shown EXCEPT !.enabled = TRUE,
             !.lan = TRUE, !.address = a], None, "lan")
    BY <1>9
  <2>1. [shown EXCEPT !.enabled = TRUE, !.lan = TRUE, !.address = a]
          \in Preferences
    BY <1>3 DEF Preferences
  <2> QED
    BY <1>1, <1>2, <2>1
<1>10. CASE \/ r = Request([shown EXCEPT !.enabled = TRUE, !.relay = TRUE],
                           None, "relay")
            \/ \E t \in 1..MaxToken : r = Request([shown EXCEPT
                 !.enabled = TRUE, !.relay = TRUE], t, "relay")
  <2>1. [shown EXCEPT !.enabled = TRUE, !.relay = TRUE] \in Preferences
    BY <1>3 DEF Preferences
  <2> QED
    BY <1>1, <1>2, <1>10, <2>1, Zenon
<1>11. CASE r = Request([shown EXCEPT !.relay = FALSE], None, "relay")
  BY <1>1, <1>2, <1>3, <1>4, <1>11, Zenon
<1>12. CASE r \in PortRequests
  <2>1. \A q \in 0..MaxPort : Good(Request([shown EXCEPT !.port = q], None, "lan"))
    BY <1>1, <1>2, <1>3, PreferencesWith, Zenon
  <2> QED
    BY <1>12, <2>1, Zenon DEF PortRequests
<1> QED
  BY <1>5, <1>6, <1>7, <1>8, <1>9, <1>10, <1>11, <1>12, Zenon DEF Requests

\* A configuration with other preferences, another relay file or a key.
LEMMA ConfigurationWith ==
    ASSUME NEW c \in Configuration
    PROVE  /\ c.preferences \in Preferences /\ c.relay \in 0..MaxToken
           /\ c.lan \in Nat
           /\ \A k \in Nat :
                /\ [c EXCEPT !.lan = k] \in Configuration
                /\ [c EXCEPT !.lan = k].preferences = c.preferences
                /\ [c EXCEPT !.lan = k].relay = c.relay
                /\ [c EXCEPT !.lan = k].lan = k
           /\ [c EXCEPT !.lan = c.lan] = c
           /\ \A p \in Preferences : \A t \in 0..MaxToken :
                /\ [c EXCEPT !.preferences = p, !.relay = t] \in Configuration
                /\ [c EXCEPT !.preferences = p, !.relay = t].preferences = p
                /\ [c EXCEPT !.preferences = p, !.relay = t].relay = t
                /\ [c EXCEPT !.preferences = p, !.relay = t].lan = c.lan
BY DEF Configuration

\* LanCredentials: the key there is, or a new one.
LEMMA Keys ==
    ASSUME TypeOK, NEW c \in Configuration
    PROVE  /\ KeyFor(c) \in Nat /\ KeyFor(c) # None
           /\ c.lan # None => KeyFor(c) = c.lan
<1>1. stored.lan \in Nat /\ conf.lan \in Nat /\ route["lan"].key \in Nat
  BY DEF TypeOK, Configuration, Active, Modes
<1>2. FreshKey \in Nat /\ FreshKey # None
  BY <1>1, FreshKeyFound
<1> QED
  BY <1>2, ConfigurationWith DEF KeyFor

\* What start_route returns and what it does to the configuration.
LEMMA StartedRoute ==
    ASSUME TypeOK, NEW c \in Configuration, NEW m \in Modes, NEW on \in BOOLEAN
    PROVE  /\ Started(c, m, on) \in Active
           /\ Started(c, m, on) # NoRoute
           /\ Started(c, m, on).enabled = on
           /\ m = "lan" => Started(c, m, on).key = KeyFor(c)
           /\ Started(c, m, on).identity = Identity(c, m)
           /\ Identity(StartedConf(c, m), m) = Identity(c, m)
           /\ StartedConf(c, m) \in Configuration
           /\ StartedConf(c, m).preferences = c.preferences
           /\ StartedConf(c, m).relay = c.relay
           /\ c.lan # None => StartedConf(c, m) = c
           /\ m = "lan" => StartedConf(c, m).lan = KeyFor(c)
           /\ m = "relay" => StartedConf(c, m) = c
<1>1. Identity(c, m) \in Nat \X Nat
  <2>1. /\ c.preferences.address \in Nat /\ c.preferences.port \in Nat
        /\ c.relay \in Nat /\ None \in Nat
    BY ConnectionConstants DEF Configuration, Preferences, None
  <2> QED
    BY <2>1 DEF Identity
<1>2. KeyFor(c) \in Nat /\ (c.lan # None => KeyFor(c) = c.lan)
  BY Keys
<1>3. /\ Started(c, m, on) \in Active
      /\ Started(c, m, on) # NoRoute
      /\ Started(c, m, on).enabled = on
      /\ m = "lan" => Started(c, m, on).key = KeyFor(c)
      /\ Started(c, m, on).identity = Identity(c, m)
  <2> DEFINE k == IF m = "lan" THEN KeyFor(c) ELSE None
             s == [identity |-> Identity(c, m), ok |-> TRUE, enabled |-> on,
                   key |-> k]
  <2>1. k \in Nat
    BY <1>2 DEF None
  <2>2. Started(c, m, on) = s
    BY DEF Started
  <2> HIDE DEF k
  <2>3. s \in Active /\ s # NoRoute
    BY <1>1, <2>1 DEF Active, NoRoute
  <2> QED
    BY <2>2, <2>3 DEF k
<1>5. /\ StartedConf(c, m) \in Configuration
      /\ StartedConf(c, m).preferences = c.preferences
      /\ StartedConf(c, m).relay = c.relay
      /\ m = "lan" => StartedConf(c, m).lan = KeyFor(c)
      /\ m = "relay" => StartedConf(c, m) = c
      /\ c.lan # None => StartedConf(c, m) = c
  BY <1>2, ConfigurationWith, Zenon DEF StartedConf, Modes
<1>6. Identity(StartedConf(c, m), m) = Identity(c, m)
  BY <1>5 DEF Identity
<1> QED
  BY <1>3, <1>5, <1>6, Zenon

\* What a route is bound to depends on the preferences and the relay file.
LEMMA SameIdentity ==
    ASSUME NEW c, NEW d, NEW m \in Modes,
           IF m = "lan" THEN c.preferences = d.preferences ELSE c.relay = d.relay
    PROVE  Identity(c, m) = Identity(d, m)
BY DEF Identity

-----------------------------------------------------------------------------
(* The locals of a transaction.                                             *)

\* The locals with one of them assigned.
LEMMA LocalsWith ==
    ASSUME NEW t \in Locals
    PROVE  /\ \A s \in SUBSET Modes : [t EXCEPT !.replaced = s] \in Locals
           /\ [t EXCEPT !.written = TRUE] \in Locals
           /\ [t EXCEPT !.whole = FALSE] \in Locals
           /\ \A c \in Configuration : [t EXCEPT !.previous = c] \in Locals
           /\ \A c \in Configuration : \A m \in Modes : \A a \in Active :
                [t EXCEPT !.candidates[m] = a, !.conf = c] \in Locals
<1> USE DEF Locals
<1>1. \A s \in SUBSET Modes : [t EXCEPT !.replaced = s] \in Locals
  OBVIOUS
<1>2. [t EXCEPT !.written = TRUE] \in Locals
  OBVIOUS
<1>3. [t EXCEPT !.whole = FALSE] \in Locals
  OBVIOUS
<1>4. \A c \in Configuration : [t EXCEPT !.previous = c] \in Locals
  OBVIOUS
<1>5. ASSUME NEW c \in Configuration, NEW m \in Modes, NEW a \in Active
      PROVE  [t EXCEPT !.candidates[m] = a, !.conf = c] \in Locals
  OBVIOUS
<1> QED
  BY <1>1, <1>2, <1>3, <1>4, <1>5

\* Between transactions.
LEMMA IdleLocals ==
    ASSUME NEW c \in Configuration
    PROVE  Initially(c) \in Locals
<1>1. NoRoute \in Active
  BY DEF NoRoute, Active, None
<1> QED
  BY <1>1 DEF Initially, Locals

\* The locals apply_locked starts with.
LEMMA EnteredLocals ==
    ASSUME TypeOK, NEW who \in {"user", "recovery"}, NEW r \in RequestSet,
           NEW g \in Nat, Enter(who, r, g)
    PROVE  /\ step' = "lan" /\ tx' \in Locals
           /\ tx'.who = who /\ tx'.g = g /\ tx'.only = r.only
           /\ tx'.previous = conf /\ ~tx'.written /\ tx'.whole
           /\ tx'.replaced = {} /\ tx'.before = {m \in Modes : Installed(m)}
           /\ tx'.candidates = [m \in Modes |-> NoRoute]
           /\ tx'.conf.preferences = Prepared(Normal(r.preferences))
           /\ tx'.conf.relay = IF r.relay = None THEN conf.relay ELSE r.relay
           /\ tx'.conf.lan = conf.lan
<1> DEFINE p == Prepared(Normal(r.preferences))
           up == RouteEnabled(p, "lan") /\ AvailableAddress(p.address) # None
           t == IF r.relay = None THEN conf.relay ELSE r.relay
           c == [conf EXCEPT !.preferences = p, !.relay = t]
           b == {m \in Modes : Installed(m)}
           i == Initially(conf)
<1>1. p \in Preferences /\ conf \in Configuration
  BY PreparedPreferences, Zenon DEF TypeOK, RequestSet
<1>2. t \in 0..MaxToken
  BY <1>1, ConfigurationWith DEF RequestSet
<1>3. /\ c \in Configuration /\ c.preferences = p /\ c.relay = t
      /\ c.lan = conf.lan
  <2> HIDE DEF p, t
  <2> QED
    BY <1>1, <1>2 DEF Configuration
<1>4. up \in BOOLEAN /\ b \in SUBSET Modes /\ i \in Locals
  BY <1>1, IdleLocals
<1>5. step' = "lan" /\ tx' = [i EXCEPT !.who = who, !.g = g, !.only = r.only,
                                !.up = up, !.conf = c, !.before = b]
  BY DEF Enter
<1>6. /\ i.previous = conf /\ ~i.written /\ i.whole /\ i.replaced = {}
      /\ i.candidates = [m \in Modes |-> NoRoute]
  BY DEF Initially
<1> HIDE DEF up, c, b, i, p, t
<1>7. r.only \in Modes \union {"all"}
  BY DEF RequestSet
<1>8. tx' \in Locals
  BY <1>3, <1>4, <1>5, <1>7 DEF Locals
<1>9. /\ tx'.who = who /\ tx'.g = g /\ tx'.only = r.only /\ tx'.conf = c
      /\ tx'.previous = conf /\ ~tx'.written /\ tx'.whole
      /\ tx'.replaced = {} /\ tx'.before = b
      /\ tx'.candidates = [m \in Modes |-> NoRoute]
  BY <1>4, <1>5, <1>6 DEF Locals
<1> QED
  BY <1>3, <1>5, <1>8, <1>9 DEF p, t, b

-----------------------------------------------------------------------------
(* Types.                                                                   *)

LEMMA InitTyped == Init => TypeOK
<1> SUFFICES ASSUME Init PROVE TypeOK
  OBVIOUS
<1>1. stored \in Configuration /\ conf \in Configuration
  BY SavedIsStorable DEF Init, Storable
<1>2. NoRoute \in Active
  BY DEF NoRoute, Active, None
<1>3. gen \in 1..MaxGeneration /\ step \in Steps /\ torn \in BOOLEAN
  <2>1. gen = 1 /\ step = "free" /\ torn = FALSE
    BY DEF Init
  <2>2. gen \in 1..MaxGeneration
    BY <2>1, ConnectionConstants
  <2> QED
    BY <2>1, <2>2, Zenon DEF Steps
<1>4. route \in [Modes -> Active] /\ tx \in Locals
  BY <1>1, <1>2, IdleLocals DEF Init
<1>5. shown \in Preferences /\ avail \subseteq Addresses
  BY <1>1, ConfigurationWith DEF Init
<1>6. wish \in [g : 1..gen, preferences : Preferences, relay : 0..MaxToken]
  <2>1. conf.preferences \in Preferences /\ conf.relay \in 0..MaxToken
    BY <1>1, ConfigurationWith
  <2>2. gen = 1 /\ wish = [g |-> 1, preferences |-> conf.preferences,
                           relay |-> conf.relay]
    BY DEF Init
  <2>3. 1 \in 1..gen
    BY <2>2
  <2> QED
    BY <2>1, <2>2, <2>3
<1>7. \A m \in Modes : Resumed(m) \in Seq(RequestSet)
  <2> TAKE m \in Modes
  <2>1. Request(conf.preferences, None, m) \in RequestSet
    <3>1. conf.preferences \in Preferences
      BY <1>1, ConfigurationWith
    <3>2. 0 \in 0..MaxToken
      BY ConnectionConstants
    <3> QED
      BY <3>1, <3>2 DEF Request, RequestSet, None
  <2> QED
    BY <2>1 DEF Resumed
<1>8. resume \in Seq(RequestSet)
  BY <1>7 DEF Init, Modes
<1> QED
  BY <1>1, <1>3, <1>4, <1>5, <1>6, <1>8 DEF TypeOK, Init

\* The sets the generation bounds grow with it.
LEMMA GenerationGrows ==
    ASSUME TypeOK, gen < MaxGeneration
    PROVE  /\ gen + 1 \in 2..MaxGeneration
           /\ [request : RequestSet, g : 2..gen]
                \subseteq [request : RequestSet, g : 2..gen + 1]
           /\ wish \in [g : 1..gen + 1, preferences : Preferences,
                        relay : 0..MaxToken]
<1>1. gen \in Nat /\ gen >= 1 /\ MaxGeneration \in Nat
  BY ConnectionConstants DEF TypeOK
<1>2. 1..gen \subseteq 1..gen + 1 /\ 2..gen \subseteq 2..gen + 1
  BY <1>1
<1>3. gen + 1 \in 2..MaxGeneration
  BY <1>1
<1>4. wish \in [g : 1..gen, preferences : Preferences, relay : 0..MaxToken]
  BY DEF TypeOK
<1>5. wish \in [g : 1..gen + 1, preferences : Preferences, relay : 0..MaxToken]
  BY <1>2, <1>4
<1>6. [request : RequestSet, g : 2..gen]
        \subseteq [request : RequestSet, g : 2..gen + 1]
  BY <1>2
<1> QED
  BY <1>3, <1>5, <1>6

\* A settings page begins, cancels and refreshes.
LEMMA PageTyped ==
    ASSUME TypeOK, (\E r \in Requests : Begin(r)) \/ Cancel \/ Monitor
    PROVE  TypeOK'
<1>1. CASE \E r \in Requests : Begin(r)
  <2> PICK r \in Requests : Begin(r)
    BY <1>1
  <2>1. gen < MaxGeneration
    BY DEF Begin
  <2> DEFINE n == gen + 1
  <2>2. /\ gen' = n /\ pending' = pending \union {[request |-> r, g |-> n]}
        /\ UNCHANGED <<stored, conf, route, step, tx, resume, avail, shown,
                       wish, torn>>
    BY DEF Begin
  <2>3. n \in 2..MaxGeneration
    BY <2>1, GenerationGrows
  <2>4. pending \subseteq [request : RequestSet, g : 2..n]
    BY <2>1, GenerationGrows DEF TypeOK
  <2>5. wish' \in [g : 1..n, preferences : Preferences, relay : 0..MaxToken]
    BY <2>1, <2>2, GenerationGrows
  <2>6. n \in 2..n /\ n \in 1..MaxGeneration
    BY <2>3, ConnectionConstants
  <2> HIDE DEF n
  <2>7. pending' \subseteq [request : RequestSet, g : 2..n]
    BY <2>2, <2>4, <2>6, PageRequests
  <2> QED
    BY <2>2, <2>5, <2>6, <2>7 DEF TypeOK
<1>2. CASE Cancel
  <2>1. gen < MaxGeneration
    BY <1>2 DEF Cancel
  <2> DEFINE n == gen + 1
  <2>2. /\ gen' = n
        /\ UNCHANGED <<stored, conf, route, step, tx, pending, resume, avail,
                       shown, wish, torn>>
    BY <1>2 DEF Cancel
  <2>3. n \in 1..MaxGeneration
    BY <2>1, GenerationGrows, ConnectionConstants
  <2>4. pending' \subseteq [request : RequestSet, g : 2..n]
    BY <2>1, <2>2, GenerationGrows DEF TypeOK
  <2>5. wish' \in [g : 1..n, preferences : Preferences, relay : 0..MaxToken]
    BY <2>1, <2>2, GenerationGrows
  <2> HIDE DEF n
  <2> QED
    BY <2>2, <2>3, <2>4, <2>5 DEF TypeOK
<1>3. CASE Monitor
  <2>1. conf.preferences \in Preferences
    BY ConfigurationWith DEF TypeOK
  <2> QED
    BY <1>3, <2>1 DEF TypeOK, Monitor
<1> QED
  BY <1>1, <1>2, <1>3

\* A transaction is entered, by either thread, or an operation refused.
LEMMA EntryTyped ==
    ASSUME TypeOK, (\E o \in pending : Apply(o) \/ ApplyRefused(o)) \/ Resume \/ Repair
    PROVE  TypeOK'
<1> USE DEF TypeOK
<1>1. CASE \E o \in pending : Apply(o)
  <2> PICK o \in pending : Apply(o)
    BY <1>1
  <2>1. o.request \in RequestSet /\ o.g \in Nat
    OBVIOUS
  <2>2. step' = "lan" /\ tx' \in Locals
    BY <2>1, EnteredLocals DEF Apply
  <2> QED
    BY <2>2 DEF Apply, Steps
<1>2. CASE \E o \in pending : ApplyRefused(o)
  BY <1>2 DEF ApplyRefused
<1>3. CASE Resume
  <2>1. Head(resume) \in RequestSet /\ Tail(resume) \in Seq(RequestSet)
    BY <1>3 DEF Resume
  <2>2. step' \in Steps /\ tx' \in Locals
    <3>1. CASE Accepts(Head(resume), 1)
      BY <1>3, <2>1, <3>1, EnteredLocals DEF Resume, Steps
    <3>2. CASE ~Accepts(Head(resume), 1)
      BY <1>3, <3>2 DEF Resume
    <3> QED
      BY <3>1, <3>2
  <2> QED
    BY <1>3, <2>1, <2>2 DEF Resume
<1>4. CASE Repair
  <2> DEFINE a == AvailableAddress(conf.preferences.address)
             r == Request([conf.preferences EXCEPT !.address = a], None, "lan")
  <2>1. Enter("recovery", r, gen)
    BY <1>4 DEF Repair
  <2>2. conf.preferences \in Preferences
    BY ConfigurationWith
  <2>3. a \in 0..MaxAddress
    BY <2>2, PreferencesWith, AddressFound, ConnectionConstants
  <2>4. [conf.preferences EXCEPT !.address = a] \in Preferences
    BY <2>2, <2>3, PreferencesWith
  <2>5. r \in RequestSet
    BY <2>4, ConnectionConstants DEF Request, RequestSet, None, Modes
  <2>6. gen \in Nat
    OBVIOUS
  <2> HIDE DEF r
  <2>7. step' = "lan" /\ tx' \in Locals
    BY <2>1, <2>5, <2>6, EnteredLocals
  <2> QED
    BY <1>4, <2>7 DEF Repair, Steps
<1> QED
  BY <1>1, <1>2, <1>3, <1>4

\* The steps of a transaction.
LEMMA TransactionTyped ==
    ASSUME TypeOK, Transaction
    PROVE  TypeOK'
<1> USE DEF TypeOK
<1>0. NoRoute \in Active
  BY DEF NoRoute, Active, None
<1>1. CASE \E m \in Modes : Keep(m)
  BY <1>1 DEF Keep, After, Steps
<1>2. CASE \E m \in Modes : Displace(m)
  <2> PICK m \in Modes : Displace(m)
    BY <1>2
  <2>1. Replaced(m) \in SUBSET Modes
    BY DEF Replaced, Locals
  <2>2. tx' \in Locals
    BY <2>1, LocalsWith DEF Displace
  <2>3. route' \in [Modes -> Active] /\ step' \in Steps
    BY <1>0 DEF Displace, StartOf, Steps
  <2> QED
    BY <2>2, <2>3 DEF Displace
<1>3. CASE \E m \in Modes : StartRoute(m)
  <2> PICK m \in Modes : StartRoute(m)
    BY <1>3
  <2>1. tx.conf \in Configuration
    BY DEF Locals
  <2>2. Started(tx.conf, m, FALSE) \in Active
        /\ StartedConf(tx.conf, m) \in Configuration
    BY <2>1, StartedRoute
  <2>3. tx' \in Locals
    BY <2>2, LocalsWith DEF StartRoute
  <2> QED
    BY <2>3 DEF StartRoute, After, Steps
<1>4. CASE \E m \in Modes : StartFails(m)
  BY <1>4 DEF StartFails, Steps
<1>5. CASE Store
  <2>1. tx' \in Locals
    BY <1>5, LocalsWith DEF Store
  <2>2. tx.conf \in Configuration
    BY DEF Locals
  <2> QED
    BY <1>5, <2>1, <2>2 DEF Store, Steps
<1>6. CASE StoreFails
  BY <1>6 DEF StoreFails, Steps
<1>7. CASE Commit
  <2>1. tx.conf \in Configuration /\ tx.candidates \in [Modes -> Active]
    BY DEF Locals
  <2>2. tx' \in Locals
    BY <1>7, <2>1, IdleLocals DEF Commit, Return
  <2>3. ASSUME NEW m \in Modes PROVE Committed(m) \in Active
    <3>1. tx.candidates[m] \in Active /\ route[m] \in Active
      BY <2>1
    <3>2. [tx.candidates[m] EXCEPT !.enabled = TRUE] \in Active
      BY <3>1 DEF Active
    <3> QED
      BY <1>0, <3>1, <3>2 DEF Committed
  <2>4. route' \in [Modes -> Active]
    BY <1>7, <2>3 DEF Commit
  <2>5. wish' \in [g : 1..gen, preferences : Preferences, relay : 0..MaxToken]
    <3>1. tx.g = gen /\ gen \in 1..gen
      BY <1>7 DEF Commit, Current
    <3>2. tx.conf.preferences \in Preferences /\ tx.conf.relay \in 0..MaxToken
      BY <2>1, ConfigurationWith
    <3> QED
      BY <1>7, <3>1, <3>2 DEF Commit
  <2> QED
    BY <1>7, <2>1, <2>2, <2>4, <2>5 DEF Commit, Return, Steps
<1>8. CASE CommitCancelled
  BY <1>8 DEF CommitCancelled, Steps
<1>9. CASE Undo
  <2>1. stored' \in Configuration
    BY <1>9 DEF Undo, WriteBack, Locals
  <2> QED
    BY <1>9, <2>1 DEF Undo, Steps
<1>10. CASE UndoFails \/ Fail
  <2>1. tx' \in Locals
    BY <1>10, IdleLocals DEF UndoFails, Fail, Return
  <2> QED
    BY <1>10, <2>1 DEF UndoFails, Fail, Return, Steps
<1>11. CASE RestoreLan \/ RestoreRelay
  <2>1. tx.previous \in Configuration
    BY DEF Locals
  <2>2. \A m \in Modes : Restored(m) \in Active
    BY <2>1, StartedRoute DEF Restored
  <2>3. StartedConf(tx.previous, "lan") \in Configuration
    BY <2>1, StartedRoute DEF Modes
  <2>4. route' \in [Modes -> Active]
    BY <1>11, <2>2 DEF RestoreLan, RestoreRelay, Modes
  <2>5. tx' \in Locals
    <3>1. /\ [tx EXCEPT !.previous = StartedConf(@, "lan")] \in Locals
          /\ [tx EXCEPT !.whole = FALSE] \in Locals
      BY <2>3, LocalsWith
    <3> QED
      BY <1>11, <3>1, Zenon DEF RestoreLan, RestoreRelay
  <2> QED
    BY <1>11, <2>4, <2>5 DEF RestoreLan, RestoreRelay, Steps
<1> QED
  BY <1>1, <1>2, <1>3, <1>4, <1>5, <1>6, <1>7, <1>8, <1>9, <1>10, <1>11
  DEF Transaction

\* No step leaves the types.
LEMMA NextTyped ==
    ASSUME TypeOK, [Next]_vars
    PROVE  TypeOK'
<1>1. CASE RepairDrop \/ (\E m \in Modes : RouteFails(m))
  <2>1. NoRoute \in Active
    BY DEF NoRoute, Active, None
  <2>2. route' \in [Modes -> Active]
    <3>1. CASE RepairDrop
      BY <2>1, <3>1 DEF RepairDrop, TypeOK, Modes
    <3>2. CASE \E m \in Modes : RouteFails(m)
      <4> PICK m \in Modes : RouteFails(m)
        BY <3>2
      <4>0. ASSUME NEW S, NEW x \in [identity : S, key : Nat, ok : BOOLEAN, enabled : BOOLEAN]
            PROVE  [x EXCEPT !.ok = FALSE]
                     \in [identity : S, key : Nat, ok : BOOLEAN, enabled : BOOLEAN]
        OBVIOUS
      <4>1. [route[m] EXCEPT !.ok = FALSE] \in Active
        BY <4>0, Zenon DEF TypeOK, Active
      <4>2. route' = [route EXCEPT ![m] = [route[m] EXCEPT !.ok = FALSE]]
        BY DEF RouteFails, TypeOK
      <4> QED
        BY <4>1, <4>2 DEF TypeOK
    <3> QED
      BY <1>1, <3>1, <3>2
  <2> QED
    BY <1>1, <2>2 DEF RepairDrop, RouteFails, TypeOK
<1>2. CASE \E as \in SUBSET Addresses : Network(as)
  BY <1>2 DEF Network, TypeOK
<1>3. CASE UNCHANGED vars
  BY <1>3 DEF vars, TypeOK
<1> QED
  BY <1>1, <1>2, <1>3, PageTyped, EntryTyped, TransactionTyped DEF Next

\* The generation counts up to the operations there were, every configuration
\* is one that can be stored and every address one the interfaces list has.
THEOREM TypeCorrect == Spec => []TypeOK
BY InitTyped, NextTyped, PTL DEF Spec

-----------------------------------------------------------------------------
(* The invariants.                                                          *)

LEMMA InitFits == Init => ConnectionInv
<1> SUFFICES ASSUME Init PROVE ConnectionInv
  OBVIOUS
<1>0. /\ gen = 1 /\ conf = stored /\ route = [m \in Modes |-> NoRoute]
      /\ step = "free" /\ tx = Initially(conf) /\ pending = {}
      /\ resume = Resumed("lan") \o Resumed("relay")
      /\ wish.preferences = conf.preferences /\ wish.relay = conf.relay
  BY DEF Init
<1>1. /\ tx.who = "user" /\ tx.g = 0 /\ tx.conf = conf /\ tx.previous = conf
      /\ ~tx.written /\ tx.replaced = {}
      /\ tx.candidates = [m \in Modes |-> NoRoute]
  BY <1>0 DEF Initially
<1>2. LocalsFit
  BY <1>0, <1>1 DEF LocalsFit
<1>3. RequestsFit
  <2> DEFINE r(m) == Request(conf.preferences, None, m)
             Good(q) == /\ RouteEnabled(q.preferences, q.only)
                        /\ q.relay = None
                        /\ SameSwitches(q.preferences, conf.preferences)
  <2>1. \A m \in Modes : RouteEnabled(conf.preferences, m) => Good(r(m))
    BY DEF Request, SameSwitches
  <2>2. \A m \in Modes : \/ Resumed(m) = <<r(m)>> /\ Good(r(m))
                         \/ Resumed(m) = << >>
    BY <2>1, Zenon DEF Resumed
  <2> HIDE DEF r, Good
  <2>3. \A i \in DOMAIN resume : Good(resume[i])
    <3>1. \/ Resumed("lan") = <<r("lan")>> /\ Good(r("lan"))
          \/ Resumed("lan") = << >>
      BY <2>2 DEF Modes
    <3>2. \/ Resumed("relay") = <<r("relay")>> /\ Good(r("relay"))
          \/ Resumed("relay") = << >>
      BY <2>2 DEF Modes
    <3>3. CASE Resumed("lan") = << >>
      BY <1>0, <3>2, <3>3
    <3>4. CASE Resumed("lan") = <<r("lan")>> /\ Good(r("lan"))
      BY <1>0, <3>2, <3>4
    <3> QED
      BY <3>1, <3>3, <3>4
  <2> QED
    BY <1>0, <2>3, Zenon DEF RequestsFit, Good
<1>4. ChoiceFits
  BY <1>0, <1>1 DEF ChoiceFits, SameSwitches
<1>5. StoreFits
  BY <1>0, <1>1 DEF StoreFits, NewIsStored
<1>6. RoutesFit /\ KeptFits /\ RollbackFits
  BY <1>0, <1>1 DEF RoutesFit, RouteFits, KeptFits, RollbackFits, Installed
<1> QED
  BY <1>2, <1>3, <1>4, <1>5, <1>6 DEF ConnectionInv

\* SameSwitches is an equivalence.
LEMMA SwitchesCompose ==
    ASSUME NEW p, NEW q, NEW s
    PROVE  /\ SameSwitches(p, p)
           /\ SameSwitches(p, q) => SameSwitches(q, p)
           /\ SameSwitches(p, q) /\ SameSwitches(q, s) => SameSwitches(p, s)
BY DEF SameSwitches

\* Whoever leaves the transaction, the routes and the store alone.
LEMMA QuietFits ==
    ASSUME TypeOK, TypeOK', ConnectionInv, gen' = gen \/ gen' = gen + 1,
           UNCHANGED <<stored, conf, route, step, tx, wish, torn>>
    PROVE  /\ LocalsFit' /\ ChoiceFits' /\ StoreFits' /\ RoutesFit'
           /\ KeptFits' /\ RollbackFits'
<1> USE DEF ConnectionInv
<1>1. LocalsFit'
  <2>1. PICK n \in Nat : n = gen' /\ gen \in Nat /\ n >= gen
    BY DEF TypeOK
  <2>2. tx.g <= n
    BY <2>1 DEF LocalsFit, TypeOK, Locals
  <2> QED
    BY <2>1, <2>2 DEF LocalsFit, Initially
<1>2. ChoiceFits'
  BY DEF ChoiceFits, SameSwitches
<1>3. StoreFits'
  BY DEF StoreFits, NewIsStored
<1>4. RoutesFit'
  BY DEF RoutesFit, RouteFits, Installed, Identity
<1>5. KeptFits' /\ RollbackFits'
  BY DEF KeptFits, Kept, RollbackFits, Installed, Identity
<1> QED
  BY <1>1, <1>2, <1>3, <1>4, <1>5

\* The settings pages, the interfaces and the operations that are refused.
LEMMA OutsideFits ==
    ASSUME TypeOK, TypeOK', ConnectionInv,
           \/ (\E r \in Requests : Begin(r)) \/ Cancel \/ Monitor
           \/ (\E o \in pending : ApplyRefused(o))
           \/ (\E as \in SUBSET Addresses : Network(as))
           \/ UNCHANGED vars
    PROVE  ConnectionInv'
<1>1. /\ gen' = gen \/ gen' = gen + 1
      /\ UNCHANGED <<stored, conf, route, step, tx, wish, torn, resume>>
  BY DEF Begin, Cancel, Monitor, ApplyRefused, Network, vars
<1>2. RequestsFit'
  <2>1. \A o \in pending' : o.request.only # "relay" => o.request.relay = None
    <3>1. CASE \E r \in Requests : Begin(r)
      <4> PICK r \in Requests : Begin(r)
        BY <3>1
      <4>1. r.only # "relay" => r.relay = None
        BY PageRequests
      <4>2. pending' = pending \union {[request |-> r, g |-> gen + 1]}
        BY DEF Begin
      <4> QED
        BY <4>1, <4>2 DEF ConnectionInv, RequestsFit
    <3>2. CASE ~\E r \in Requests : Begin(r)
      <4>1. pending' \subseteq pending
        BY <3>2 DEF Cancel, Monitor, ApplyRefused, Network, vars
      <4> QED
        BY <4>1 DEF ConnectionInv, RequestsFit
    <3> QED
      BY <3>1, <3>2
  <2>2. gen' = 1 => gen = 1
    <3>1. gen \in Nat /\ gen >= 1
      BY DEF TypeOK
    <3> QED
      BY <1>1, <3>1
  <2>3. \A i \in DOMAIN resume :
         /\ RouteEnabled(resume[i].preferences, resume[i].only)
         /\ resume[i].relay = None
         /\ gen = 1 => SameSwitches(resume[i].preferences, conf.preferences)
    BY DEF ConnectionInv, RequestsFit
  <2> QED
    BY <1>1, <2>1, <2>2, <2>3, Zenon DEF RequestsFit, SameSwitches, RouteEnabled
<1> QED
  BY <1>1, <1>2, QuietFits DEF ConnectionInv

\* A transaction starts with a request of its caller.
LEMMA EntryFits ==
    ASSUME TypeOK, TypeOK', ConnectionInv, step = "free",
           NEW who \in {"user", "recovery"}, NEW r \in RequestSet, NEW g \in 1..gen,
           Enter(who, r, g),
           who = "user" => g >= 2 /\ (r.only # "relay" => r.relay = None),
           who = "recovery" => /\ r.preferences.lan \/ r.preferences.relay
                               /\ SameSwitches(r.preferences, conf.preferences)
                               /\ r.relay = None,
           UNCHANGED <<gen, stored, conf, route, wish, torn>>
    PROVE  /\ LocalsFit' /\ ChoiceFits' /\ StoreFits' /\ RoutesFit'
           /\ KeptFits' /\ RollbackFits'
<1> USE DEF ConnectionInv
<1>0. gen \in Nat /\ g \in Nat /\ g <= gen
  BY DEF TypeOK
<1>1. /\ step' = "lan"
      /\ tx'.who = who /\ tx'.g = g /\ tx'.only = r.only
      /\ tx'.previous = conf /\ ~tx'.written /\ tx'.whole
      /\ tx'.replaced = {} /\ tx'.before = {m \in Modes : Installed(m)}
      /\ tx'.candidates = [m \in Modes |-> NoRoute]
      /\ tx'.conf.preferences = Prepared(Normal(r.preferences))
      /\ tx'.conf.relay = IF r.relay = None THEN conf.relay ELSE r.relay
      /\ tx'.conf.lan = conf.lan
  BY <1>0, EnteredLocals
<1>2. LocalsFit'
  <2>1. r.only # "relay" => r.relay = None
    OBVIOUS
  <2> QED
    BY <1>0, <1>1, <2>1 DEF LocalsFit
<1>3. ChoiceFits'
  <2>1. SameSwitches(conf.preferences, wish.preferences) /\ conf.relay = wish.relay
    BY DEF ChoiceFits
  <2>2. ASSUME who = "recovery"
        PROVE  SameSwitches(tx'.conf.preferences, conf.preferences)
               /\ tx'.conf.relay = conf.relay
    <3>1. r.preferences \in Preferences
      BY DEF RequestSet
    <3>2. Normal(r.preferences) = r.preferences
      BY <2>2, <3>1, PreparedPreferences
    <3>3. SameSwitches(tx'.conf.preferences, r.preferences)
      BY <1>1, <3>1, <3>2, PreparedPreferences
    <3> QED
      BY <1>1, <2>2, <3>3, SwitchesCompose
  <2> QED
    BY <1>1, <2>1, <2>2 DEF ChoiceFits, SameSwitches
<1>4. StoreFits'
  <2>1. ~torn => stored = conf
    BY DEF StoreFits, NewIsStored
  <2> QED
    BY <1>1, <2>1 DEF StoreFits, NewIsStored
<1>5. RoutesFit'
  BY <1>1 DEF RoutesFit, RouteFits, Installed, Identity
<1>6. KeptFits' /\ RollbackFits'
  BY <1>1 DEF KeptFits, RollbackFits, Installed
<1> QED
  BY <1>2, <1>3, <1>4, <1>5, <1>6

\* Either thread enters, and the recovery thread drops what is stale.
LEMMA EntriesFit ==
    ASSUME TypeOK, TypeOK', ConnectionInv,
           (\E o \in pending : Apply(o)) \/ Resume \/ Repair
    PROVE  ConnectionInv'
<1> USE DEF ConnectionInv
<1>0. gen \in Nat /\ gen >= 1
  BY DEF TypeOK
<1>1. CASE \E o \in pending : Apply(o)
  <2> PICK o \in pending : Apply(o)
    BY <1>1
  <2>1. /\ o.request \in RequestSet /\ o.g \in Nat /\ o.g >= 2 /\ o.g <= gen
        /\ o.g \in 1..gen
    BY <1>0 DEF TypeOK
  <2>2. o.request.only # "relay" => o.request.relay = None
    BY DEF RequestsFit
  <2>3. /\ LocalsFit' /\ ChoiceFits' /\ StoreFits' /\ RoutesFit'
        /\ KeptFits' /\ RollbackFits'
    BY <2>1, <2>2, EntryFits DEF Apply
  <2>4. RequestsFit'
    BY DEF RequestsFit, Apply
  <2> QED
    BY <2>3, <2>4
<1>2. CASE Resume
  <2> DEFINE r == Head(resume)
  <2>1. r \in RequestSet /\ r = resume[1] /\ 1 \in DOMAIN resume
    BY <1>2 DEF Resume, TypeOK
  <2>2. /\ RouteEnabled(r.preferences, r.only) /\ r.relay = None
        /\ gen = 1 => SameSwitches(r.preferences, conf.preferences)
    BY <2>1 DEF RequestsFit
  <2>3. \A i \in DOMAIN resume' : i + 1 \in DOMAIN resume /\ resume'[i] = resume[i + 1]
    BY <1>2 DEF Resume, TypeOK
  <2>4. RequestsFit'
    <3>1. UNCHANGED <<gen, conf, pending>>
      BY <1>2 DEF Resume
    <3> DEFINE Good(q) == /\ RouteEnabled(q.preferences, q.only)
                          /\ q.relay = None
                          /\ gen = 1 => SameSwitches(q.preferences, conf.preferences)
    <3>2. \A i \in DOMAIN resume : Good(resume[i])
      BY DEF RequestsFit
    <3>3. \A i \in DOMAIN resume' : Good(resume'[i])
      <4> HIDE DEF Good
      <4> QED
        BY <2>3, <3>2
    <3> QED
      BY <3>1, <3>3, Zenon DEF RequestsFit, SameSwitches, RouteEnabled
  <2>5. CASE Accepts(r, 1)
    <3>1. gen = 1 /\ Enter("recovery", r, 1) /\ step = "free"
          /\ UNCHANGED <<gen, stored, conf, route, wish, torn>>
      BY <1>2, <2>5 DEF Resume, Accepts, Current
    <3>2. r.preferences.lan \/ r.preferences.relay
      BY <2>2 DEF RouteEnabled
    <3>3. 1 \in 1..gen
      BY <1>0
    <3> HIDE DEF r
    <3> QED
      BY <2>1, <2>2, <2>4, <3>1, <3>2, <3>3, EntryFits
  <2>6. CASE ~Accepts(r, 1)
    <3>1. UNCHANGED <<gen, stored, conf, route, step, tx, wish, torn>>
      BY <1>2, <2>6 DEF Resume
    <3> QED
      BY <2>4, <3>1, QuietFits
  <2> QED
    BY <2>5, <2>6
<1>3. CASE Repair
  <2> DEFINE a == AvailableAddress(conf.preferences.address)
             p == [conf.preferences EXCEPT !.address = a]
             r == Request(p, None, "lan")
  <2>1. /\ step = "free" /\ Enter("recovery", r, gen)
        /\ UNCHANGED <<gen, stored, conf, route, pending, resume, wish, torn>>
    BY <1>3 DEF Repair
  <2>2. conf.preferences.lan
    BY <1>3 DEF Repair, RepairIdle, RouteEnabled
  <2>3. conf.preferences \in Preferences
    BY ConfigurationWith DEF TypeOK
  <2>4. a \in 0..MaxAddress
    BY <2>3, PreferencesWith, AddressFound, ConnectionConstants DEF TypeOK
  <2>5. p \in Preferences /\ SameSwitches(p, conf.preferences)
    BY <2>3, <2>4, PreferencesWith
  <2>6. p.lan
    BY <2>2, <2>5 DEF SameSwitches
  <2> HIDE DEF p
  <2>7. /\ r \in RequestSet /\ r.preferences = p /\ r.relay = None
    BY <2>5, ConnectionConstants DEF Request, RequestSet, None, Modes
  <2>8. gen \in 1..gen
    BY <1>0
  <2> HIDE DEF r
  <2>9. /\ LocalsFit' /\ ChoiceFits' /\ StoreFits' /\ RoutesFit'
        /\ KeptFits' /\ RollbackFits'
    BY <2>1, <2>5, <2>6, <2>7, <2>8, EntryFits
  <2>10. RequestsFit'
    BY <2>1, Zenon DEF RequestsFit, SameSwitches, RouteEnabled
  <2> QED
    BY <2>9, <2>10
<1> QED
  BY <1>1, <1>2, <1>3

\* Steps that leave the requests and the configuration in force alone.
LEMMA RequestsStay ==
    ASSUME ConnectionInv, UNCHANGED <<gen, conf, pending, resume>>
    PROVE  RequestsFit'
BY Zenon DEF ConnectionInv, RequestsFit, SameSwitches, RouteEnabled

\* A transaction keeps a route, or takes it down to replace it.
LEMMA KeepFits ==
    ASSUME TypeOK, TypeOK', ConnectionInv, NEW m \in Modes, Keep(m)
    PROVE  ConnectionInv'
<1> USE DEF ConnectionInv
<1>0. /\ step = m /\ step' = After(m)
      /\ UNCHANGED <<gen, stored, conf, route, tx, pending, resume, wish, torn>>
  BY DEF Keep
<1>1. step \in {"lan", "relay"} /\ step' \in {"relay", "store"}
  BY <1>0 DEF Modes, After
<1>2. LocalsFit' /\ ChoiceFits'
  BY <1>0, <1>1 DEF LocalsFit, ChoiceFits, SameSwitches
<1>3. StoreFits'
  BY <1>0, <1>1 DEF StoreFits, NewIsStored
<1>4. RoutesFit' /\ RollbackFits'
  BY <1>0, <1>1 DEF RoutesFit, RouteFits, RollbackFits, Installed, Identity
<1>5. KeptFits'
  <2>0. route' = route /\ tx' = tx /\ (Kept("relay")' <=> Kept("relay"))
        /\ (Kept("lan")' <=> Kept("lan"))
    BY <1>0 DEF Kept, Installed, RouteEnabled
  <2>1. ASSUME step' = "store", Kept("relay")
        PROVE  route["relay"].identity = Identity(tx.conf, "relay")
    <3>1. m = "relay" /\ Installed("relay") /\ RouteEnabled(tx.conf.preferences, "relay")
      BY <1>0, <2>1 DEF After, Modes, Kept
    <3>2. CASE Reusable("relay")
      BY <3>2 DEF Reusable
    <3>3. CASE ~Concerns("relay")
      <4>1. tx.conf.relay = conf.relay
        BY <3>1, <3>3 DEF Concerns, LocalsFit
      <4>2. route["relay"].identity = Identity(conf, "relay")
        BY <3>1 DEF RoutesFit, RouteFits, Modes
      <4>3. Identity(tx.conf, "relay") = Identity(conf, "relay")
        BY <4>1, SameIdentity DEF Modes
      <4> QED
        BY <4>2, <4>3
    <3> QED
      BY <3>1, <3>2, <3>3 DEF Keep
  <2>2. ASSUME tx.only # "relay", tx.up, Kept("lan")
        PROVE  route["lan"].identity = Identity(tx.conf, "lan")
    <3>1. CASE m = "lan"
      <4>1. Concerns("lan")
        BY <2>2 DEF Concerns, Kept, TypeOK, Locals, Modes
      <4>2. Reusable("lan")
        BY <3>1, <4>1 DEF Keep
      <4> QED
        BY <4>2 DEF Reusable
    <3>2. CASE m = "relay"
      BY <1>0, <2>2, <3>2 DEF KeptFits
    <3> QED
      BY <3>1, <3>2 DEF Modes
  <2>3. Identity(tx.conf, "lan")' = Identity(tx.conf, "lan")
        /\ Identity(tx.conf, "relay")' = Identity(tx.conf, "relay")
    BY <2>0 DEF Identity
  <2> QED
    BY <1>1, <2>0, <2>1, <2>2, <2>3 DEF KeptFits
<1> QED
  BY <1>0, <1>2, <1>3, <1>4, <1>5, RequestsStay

LEMMA DisplaceFits ==
    ASSUME TypeOK, TypeOK', ConnectionInv, NEW m \in Modes, Displace(m)
    PROVE  ConnectionInv'
<1> USE DEF ConnectionInv
<1>0. /\ step = m /\ step' = StartOf(m)
      /\ route' = [route EXCEPT ![m] = NoRoute]
      /\ tx' = [tx EXCEPT !.replaced = Replaced(m)]
      /\ UNCHANGED <<gen, stored, conf, pending, resume, wish, torn>>
  BY DEF Displace
<1>1. step \in {"lan", "relay"} /\ step' \in {"lan start", "relay start"}
  BY <1>0 DEF Modes, StartOf
<1>2. /\ tx'.who = tx.who /\ tx'.g = tx.g /\ tx'.only = tx.only
      /\ tx'.conf = tx.conf /\ tx'.previous = tx.previous
      /\ tx'.written = tx.written /\ tx'.candidates = tx.candidates
      /\ tx'.before = tx.before /\ tx'.whole = tx.whole
      /\ tx'.replaced = Replaced(m)
  BY <1>0 DEF TypeOK, Locals
<1>3. LocalsFit' /\ ChoiceFits'
  BY <1>0, <1>1, <1>2 DEF LocalsFit, ChoiceFits, SameSwitches
<1>4. StoreFits'
  BY <1>0, <1>1, <1>2 DEF StoreFits, NewIsStored
<1>5. /\ route'[m] = NoRoute
      /\ \A n \in Modes : n # m => route'[n] = route[n]
  BY <1>0 DEF TypeOK
<1>6. tx'.replaced = IF Installed(m) THEN tx.replaced \union {m} ELSE tx.replaced
  BY <1>2 DEF Replaced
<1>7. RoutesFit'
  <2> SUFFICES ASSUME NEW n \in Modes PROVE RouteFits(n)'
    BY DEF RoutesFit
  <2>1. RouteFits(n) /\ RouteFits(m)
    BY DEF RoutesFit
  <2>2. CASE n = m
    BY <1>0, <1>2, <1>5, <1>6, <2>1, <2>2 DEF RouteFits, Installed, RouteEnabled, Identity
  <2>3. CASE n # m
    <3>1. n \in tx'.replaced => n \in tx.replaced
      BY <1>6, <2>3
    <3> QED
      BY <1>0, <1>2, <1>5, <2>1, <2>3, <3>1
      DEF RouteFits, Installed, RouteEnabled, Identity
  <2> QED
    BY <2>2, <2>3
<1>8. RollbackFits'
  <2>1. /\ tx.replaced \subseteq tx.before
        /\ \A n \in Modes : /\ Installed(n) => n \in tx.before
                            /\ n \in tx.before => Installed(n) \/ n \in tx.replaced
    BY <1>1 DEF RollbackFits
  <2> QED
    BY <1>1, <1>2, <1>5, <1>6, <2>1 DEF RollbackFits, Installed
<1>9. KeptFits'
  <2>1. Identity(tx.conf, "lan")' = Identity(tx.conf, "lan")
    BY <1>2 DEF Identity
  <2>2. CASE m = "lan"
    BY <1>0, <2>2 DEF KeptFits, StartOf
  <2>3. CASE m = "relay"
    <3>1. step = "relay" /\ step' = "relay start"
      BY <1>0, <2>3 DEF StartOf
    <3>2. route'["lan"] = route["lan"]
      BY <1>5, <2>3 DEF Modes
    <3>3. Kept("lan")' => Kept("lan")
      BY <1>2, <3>2 DEF Kept, Installed, RouteEnabled
    <3>4. tx'.up = tx.up
      BY <1>0 DEF TypeOK, Locals
    <3> QED
      BY <1>2, <2>1, <3>1, <3>2, <3>3, <3>4 DEF KeptFits
  <2> QED
    BY <2>2, <2>3 DEF Modes
<1> QED
  BY <1>0, <1>3, <1>4, <1>7, <1>8, <1>9, RequestsStay

\* start_route succeeds: the candidate serves the new configuration.
LEMMA StartRouteFits ==
    ASSUME TypeOK, TypeOK', ConnectionInv, NEW m \in Modes, StartRoute(m)
    PROVE  ConnectionInv'
<1> USE DEF ConnectionInv
<1> DEFINE a == Started(tx.conf, m, FALSE)
           c == StartedConf(tx.conf, m)
<1>0. /\ step = StartOf(m) /\ step' = After(m)
      /\ tx' = [tx EXCEPT !.candidates[m] = a, !.conf = c]
      /\ UNCHANGED <<gen, stored, conf, route, pending, resume, wish, torn>>
  BY DEF StartRoute
<1>1. tx.conf \in Configuration
  BY DEF TypeOK, Locals
<1>2. /\ a # NoRoute /\ c.preferences = tx.conf.preferences
      /\ c.relay = tx.conf.relay /\ (tx.conf.lan # None => c = tx.conf)
      /\ m = "lan" => a.key = c.lan /\ c.lan # None
      /\ a.identity = Identity(c, m)
      /\ m = "relay" => c = tx.conf
  <2>1. KeyFor(tx.conf) # None
    BY <1>1, Keys
  <2>2. /\ a # NoRoute /\ c.preferences = tx.conf.preferences
        /\ c.relay = tx.conf.relay /\ (tx.conf.lan # None => c = tx.conf)
        /\ m = "lan" => a.key = KeyFor(tx.conf) /\ c.lan = KeyFor(tx.conf)
        /\ a.identity = Identity(tx.conf, m) /\ Identity(c, m) = Identity(tx.conf, m)
        /\ m = "relay" => c = tx.conf
    BY <1>1, StartedRoute
  <2> HIDE DEF a, c
  <2> QED
    BY <2>1, <2>2
<1> HIDE DEF a, c
<1>3. step \in {"lan start", "relay start"} /\ step' \in {"relay", "store"}
      /\ (step' = "store" => m = "relay")
  BY <1>0 DEF Modes, StartOf, After
<1>4. /\ tx'.who = tx.who /\ tx'.g = tx.g /\ tx'.only = tx.only
      /\ tx'.conf = c /\ tx'.previous = tx.previous
      /\ tx'.written = tx.written /\ tx'.replaced = tx.replaced
      /\ tx'.before = tx.before /\ tx'.whole = tx.whole
      /\ tx'.candidates[m] = a
      /\ \A n \in Modes : n # m => tx'.candidates[n] = tx.candidates[n]
  BY <1>0 DEF TypeOK, Locals
<1>5. LocalsFit'
  BY <1>0, <1>2, <1>3, <1>4 DEF LocalsFit
<1>6. ChoiceFits'
  BY <1>0, <1>2, <1>4 DEF ChoiceFits, SameSwitches
<1>7. StoreFits'
  BY <1>0, <1>3, <1>4 DEF StoreFits, NewIsStored
<1>8. RoutesFit'
  <2> SUFFICES ASSUME NEW n \in Modes PROVE RouteFits(n)'
    BY DEF RoutesFit
  <2>1. RouteFits(n)
    BY DEF RoutesFit
  <2>2. /\ Installed(n)' <=> Installed(n)
        /\ route'[n] = route[n] /\ conf' = conf /\ tx'.replaced = tx.replaced
    BY <1>0, <1>4 DEF Installed
  <2>3. tx'.candidates[n] # NoRoute =>
          /\ tx'.candidates[n].identity = Identity(c, n)
          /\ n = "lan" => tx'.candidates[n].key = c.lan /\ c.lan # None
    <3>1. CASE n = m
      BY <1>2, <1>4, <3>1 DEF Modes
    <3>2. CASE n # m
      <4>1. Identity(c, n) = Identity(tx.conf, n)
        BY <1>2, SameIdentity
      <4> QED
        BY <1>2, <1>4, <2>1, <3>2, <4>1 DEF RouteFits, Modes
    <3> QED
      BY <3>1, <3>2
  <2>4. Identity(tx.conf, n)' = Identity(c, n) /\ Identity(conf, n)' = Identity(conf, n)
    BY <1>4, <2>2 DEF Identity
  <2> QED
    BY <1>4, <2>1, <2>2, <2>3, <2>4, Zenon DEF RouteFits, RouteEnabled
<1>9. KeptFits'
  <2>1. Identity(tx.conf, "lan")' = Identity(tx.conf, "lan")
    BY <1>2, <1>4 DEF Identity
  <2>2. CASE m = "lan"
    BY <1>2, <1>3, <1>4, <2>2 DEF KeptFits, Kept
  <2>3. CASE m = "relay"
    <3>1. step = "relay start" /\ route' = route
      BY <1>0, <2>3 DEF StartOf
    <3>2. Kept("lan")' => Kept("lan")
      BY <1>2, <1>4, <2>3, <3>1 DEF Kept, Installed, RouteEnabled, Modes
    <3>3. tx'.up = tx.up
      BY <1>0 DEF TypeOK, Locals
    <3>4. ~Kept("relay")'
      BY <1>2, <1>4, <2>3 DEF Kept
    <3> QED
      BY <1>4, <2>1, <3>1, <3>2, <3>3, <3>4 DEF KeptFits
  <2> QED
    BY <2>2, <2>3 DEF Modes
<1>10. RollbackFits'
  BY <1>0, <1>3, <1>4 DEF RollbackFits, Installed
<1> QED
  BY <1>0, <1>5, <1>6, <1>7, <1>8, <1>9, <1>10, RequestsStay

\* The new configuration is written.
LEMMA StoreStepFits ==
    ASSUME TypeOK, TypeOK', ConnectionInv, Store
    PROVE  ConnectionInv'
<1> USE DEF ConnectionInv
<1>0. /\ step = "store" /\ step' = "commit" /\ stored' = tx.conf /\ torn' = FALSE
      /\ tx' = [tx EXCEPT !.written = TRUE]
      /\ UNCHANGED <<gen, conf, route, pending, resume, wish>>
  BY DEF Store
<1>1. /\ tx'.who = tx.who /\ tx'.g = tx.g /\ tx'.only = tx.only
      /\ tx'.conf = tx.conf /\ tx'.previous = tx.previous
      /\ tx'.written /\ tx'.candidates = tx.candidates
      /\ tx'.before = tx.before /\ tx'.whole = tx.whole
      /\ tx'.replaced = tx.replaced
  BY <1>0 DEF TypeOK, Locals
<1>2. LocalsFit' /\ ChoiceFits'
  BY <1>0, <1>1 DEF LocalsFit, ChoiceFits, SameSwitches
<1>3. StoreFits'
  BY <1>0, <1>1 DEF StoreFits, NewIsStored
<1>4. RoutesFit' /\ RollbackFits'
  BY <1>0, <1>1 DEF RoutesFit, RouteFits, RollbackFits, Installed, Identity
<1>5. KeptFits'
  <2>1. tx'.up = tx.up
    BY <1>0 DEF TypeOK, Locals
  <2> QED
    BY <1>0, <1>1, <2>1 DEF KeptFits, Kept, Installed, RouteEnabled, Identity
<1> QED
  BY <1>0, <1>2, <1>3, <1>4, <1>5, RequestsStay

\* A step fails, or finds that it is cancelled.
LEMMA FailedStepFits ==
    ASSUME TypeOK, TypeOK', ConnectionInv,
           (\E m \in Modes : StartFails(m)) \/ StoreFails \/ CommitCancelled
    PROVE  ConnectionInv'
<1> USE DEF ConnectionInv
<1>0. /\ step \in {"lan start", "relay start", "store", "commit"}
      /\ step' = "undo"
      /\ UNCHANGED <<gen, stored, conf, route, tx, pending, resume, wish, torn>>
  BY DEF StartFails, StoreFails, CommitCancelled, StartOf
<1>1. LocalsFit' /\ ChoiceFits'
  BY <1>0 DEF LocalsFit, ChoiceFits, SameSwitches
<1>2. StoreFits'
  BY <1>0 DEF StoreFits, NewIsStored
<1>3. RoutesFit' /\ KeptFits' /\ RollbackFits'
  BY <1>0 DEF RoutesFit, RouteFits, KeptFits, RollbackFits, Installed, Identity
<1> QED
  BY <1>0, <1>1, <1>2, <1>3, RequestsStay

\* What the locals are when a transaction returns.
LEMMA ReturnFits ==
    ASSUME TypeOK', step' = "free", tx' = Initially(conf')
    PROVE  /\ LocalsFit' /\ KeptFits' /\ RollbackFits'
           /\ tx'.who = "user" /\ tx'.replaced = {} /\ ~tx'.written
           /\ tx'.candidates = [m \in Modes |-> NoRoute]
<1>1. /\ tx'.who = "user" /\ tx'.replaced = {} /\ ~tx'.written
      /\ tx'.candidates = [m \in Modes |-> NoRoute]
      /\ tx'.conf = conf' /\ tx'.previous = conf' /\ tx'.g = 0
  BY DEF Initially
<1>2. 0 <= gen'
  <2>1. PICK n \in Nat : n = gen'
    BY DEF TypeOK
  <2> QED
    BY <2>1
<1>3. tx'.g <= gen'
  BY <1>1, <1>2
<1>4. LocalsFit'
  BY <1>1, <1>3, Zenon DEF LocalsFit, Initially
<1>5. KeptFits' /\ RollbackFits'
  BY DEF KeptFits, RollbackFits
<1> QED
  BY <1>1, <1>4, <1>5

\* The new configuration comes into force, and the routes with it.
LEMMA CommitFits ==
    ASSUME TypeOK, TypeOK', ConnectionInv, Commit
    PROVE  ConnectionInv'
<1> USE DEF ConnectionInv
<1>0. /\ step = "commit" /\ gen = tx.g /\ step' = "free"
      /\ route' = [m \in Modes |-> Committed(m)]
      /\ conf' = tx.conf /\ tx' = Initially(tx.conf)
      /\ UNCHANGED <<gen, stored, pending, resume, torn>>
  BY DEF Commit, Current, Return
<1>1. /\ LocalsFit' /\ KeptFits' /\ RollbackFits'
      /\ tx'.who = "user" /\ tx'.replaced = {} /\ ~tx'.written
      /\ tx'.candidates = [m \in Modes |-> NoRoute]
  BY <1>0, ReturnFits
<1>2. \/ tx.who = "user" /\ gen >= 2
      \/ /\ tx.who = "recovery"
         /\ SameSwitches(tx.conf.preferences, conf.preferences)
         /\ tx.conf.relay = conf.relay
  BY <1>0 DEF LocalsFit, ChoiceFits, TypeOK, Locals
<1>3. RequestsFit'
  <2> DEFINE Good(q, n, c) ==
        /\ RouteEnabled(q.preferences, q.only)
        /\ q.relay = None
        /\ n = 1 => SameSwitches(q.preferences, c.preferences)
  <2>1. ASSUME NEW i \in DOMAIN resume PROVE Good(resume[i], gen, tx.conf)
    <3>1. Good(resume[i], gen, conf)
      BY DEF RequestsFit
    <3>2. gen = 1 => SameSwitches(tx.conf.preferences, conf.preferences)
      BY <1>2
    <3> QED
      BY <3>1, <3>2 DEF SameSwitches
  <2>2. \A o \in pending : o.request.only # "relay" => o.request.relay = None
    BY DEF RequestsFit
  <2> QED
    BY <1>0, <2>1, <2>2, Zenon DEF RequestsFit, SameSwitches, RouteEnabled
<1>4. ChoiceFits'
  <2>1. CASE tx.who = "user"
    <3>1. tx.g >= wish.g
      BY <1>0 DEF TypeOK
    <3>2. wish' = [g |-> tx.g, preferences |-> tx.conf.preferences,
                   relay |-> tx.conf.relay]
      BY <2>1, <3>1 DEF Commit
    <3> QED
      BY <1>0, <1>1, <3>2 DEF ChoiceFits, SameSwitches
  <2>2. CASE tx.who = "recovery"
    <3>1. wish' = wish
      BY <2>2 DEF Commit
    <3> QED
      BY <1>0, <1>1, <1>2, <2>2, <3>1 DEF ChoiceFits, SameSwitches
  <2> QED
    BY <1>2, <2>1, <2>2
<1>5. StoreFits'
  BY <1>0, <1>1 DEF StoreFits, NewIsStored
<1>6. RoutesFit'
  <2> SUFFICES ASSUME NEW m \in Modes PROVE RouteFits(m)'
    BY DEF RoutesFit
  <2> DEFINE d == tx.candidates[m]
             s == Committed(m)
             c == tx.conf
             Serves(a) == /\ a.enabled
                          /\ IF m = "lan" THEN a.key = c.lan /\ c.lan # None
                             ELSE a.identity = Identity(c, m)
  <2>1. RouteFits(m) /\ d \in Active
    BY DEF RoutesFit, TypeOK, Locals
  <2>2. s = NoRoute \/ (RouteEnabled(c.preferences, m) /\ Serves(s))
    <3> SUFFICES ASSUME s # NoRoute
                 PROVE  RouteEnabled(c.preferences, m) /\ Serves(s)
      OBVIOUS
    <3>1. RouteEnabled(c.preferences, m)
      BY DEF Committed
    <3>2. CASE d = NoRoute
      <4>1. s = route[m] /\ Installed(m)
        BY <3>1, <3>2 DEF Committed, Installed
      <4>2. m = "relay" => route[m].identity = Identity(c, m)
        BY <1>0, <3>1, <3>2, <4>1 DEF KeptFits, Kept
      <4>3. m = "lan" => route[m].key = c.lan /\ c.lan # None
        BY <2>1, <4>1 DEF RouteFits, LocalsFit
      <4>4. route[m].enabled
        BY <2>1, <4>1 DEF RouteFits
      <4> QED
        BY <3>1, <4>1, <4>2, <4>3, <4>4 DEF Modes
    <3>3. CASE d # NoRoute
      <4>1. s = [d EXCEPT !.enabled = TRUE]
        BY <3>3 DEF Committed
      <4>2. s.enabled /\ s.key = d.key /\ s.identity = d.identity
        BY <2>1, <4>1 DEF Active
      <4>3. IF m = "lan" THEN d.key = c.lan /\ c.lan # None
            ELSE d.identity = Identity(c, m)
        BY <2>1, <3>3 DEF RouteFits
      <4> QED
        BY <3>1, <4>2, <4>3
    <3> QED
      BY <3>2, <3>3
  <2>3. route'[m] = s
    BY <1>0
  <2>4. /\ tx'.candidates[m] = NoRoute /\ m \notin tx'.replaced /\ conf' = c
        /\ Identity(conf, m)' = Identity(c, m)
    BY <1>0, <1>1 DEF Identity
  <2> HIDE DEF s, c
  <2> QED
    BY <2>2, <2>3, <2>4 DEF RouteFits, Installed, RouteEnabled
<1> QED
  BY <1>1, <1>3, <1>4, <1>5, <1>6

\* The rollback writes the previous configuration back.
LEMMA UndoFits ==
    ASSUME TypeOK, TypeOK', ConnectionInv, Undo
    PROVE  ConnectionInv'
<1> USE DEF ConnectionInv
<1>0. /\ step = "undo" /\ step' = "restore lan"
      /\ stored' = IF tx.written THEN tx.previous ELSE stored
      /\ UNCHANGED <<gen, conf, route, tx, pending, resume, wish, torn>>
  BY DEF Undo, WriteBack
<1>1. LocalsFit' /\ ChoiceFits'
  BY <1>0 DEF LocalsFit, ChoiceFits, SameSwitches
<1>2. StoreFits'
  BY <1>0 DEF StoreFits, NewIsStored, LocalsFit
<1>3. RoutesFit' /\ KeptFits' /\ RollbackFits'
  BY <1>0 DEF RoutesFit, RouteFits, KeptFits, RollbackFits, Installed, Identity
<1> QED
  BY <1>0, <1>1, <1>2, <1>3, RequestsStay

\* The error is returned, after a rollback or without one.
LEMMA ErrorFits ==
    ASSUME TypeOK, TypeOK', ConnectionInv, UndoFails \/ Fail
    PROVE  ConnectionInv'
<1> USE DEF ConnectionInv
<1>0. /\ step' = "free" /\ tx' = Initially(conf)
      /\ UNCHANGED <<gen, stored, conf, route, pending, resume, wish>>
      /\ torn' \/ (step = "failed" /\ torn' = torn)
  BY DEF UndoFails, Fail, Return
<1>1. /\ LocalsFit' /\ KeptFits' /\ RollbackFits'
      /\ tx'.who = "user" /\ tx'.replaced = {} /\ ~tx'.written
      /\ tx'.candidates = [m \in Modes |-> NoRoute]
  BY <1>0, ReturnFits
<1>2. ChoiceFits'
  BY <1>0, <1>1 DEF ChoiceFits, SameSwitches
<1>3. StoreFits'
  BY <1>0, <1>1 DEF StoreFits, NewIsStored
<1>4. RoutesFit'
  BY <1>0, <1>1 DEF RoutesFit, RouteFits, Installed, Identity
<1> QED
  BY <1>0, <1>1, <1>2, <1>3, <1>4, RequestsStay

\* The rollback starts the routes that were replaced: with the key paired
\* phones pin, for one was installed and so the configuration has a key.
LEMMA RestoreFits ==
    ASSUME TypeOK, TypeOK', ConnectionInv, NEW m \in Modes,
           m = "lan" => step = "restore lan" /\ step' = "restore relay",
           m = "relay" => step = "restore relay" /\ step' = "failed",
           UNCHANGED <<gen, stored, conf, pending, resume, wish, torn>>,
           \/ m \notin tx.replaced /\ UNCHANGED <<route, tx>>
           \/ /\ m \in tx.replaced /\ tx' = tx
              /\ route' = [route EXCEPT ![m] = Restored(m)]
           \/ /\ m \in tx.replaced /\ tx' = [tx EXCEPT !.whole = FALSE]
              /\ UNCHANGED route
    PROVE  ConnectionInv'
<1> USE DEF ConnectionInv
<1>0. step \in {"restore lan", "restore relay"}
      /\ step' \in {"restore relay", "failed"}
  BY DEF Modes
<1>1. /\ tx'.who = tx.who /\ tx'.g = tx.g /\ tx'.only = tx.only
      /\ tx'.conf = tx.conf /\ tx'.previous = tx.previous
      /\ tx'.written = tx.written /\ tx'.candidates = tx.candidates
      /\ tx'.before = tx.before /\ tx'.replaced = tx.replaced
      /\ tx' = tx \/ (~tx'.whole /\ m \in tx.replaced)
  BY DEF TypeOK, Locals
<1>2. LocalsFit' /\ ChoiceFits'
  BY <1>0, <1>1 DEF LocalsFit, ChoiceFits, SameSwitches
<1>3. StoreFits'
  BY <1>0, <1>1 DEF StoreFits, NewIsStored
<1>4. KeptFits'
  BY <1>0 DEF KeptFits
<1>5. /\ \A n \in Modes : n # m => route'[n] = route[n]
      /\ route'[m] = route[m] \/ (route'[m] = Restored(m) /\ m \in tx.replaced)
  BY DEF TypeOK
<1>6. m \in tx.replaced =>
        /\ Restored(m) # NoRoute /\ Restored(m).enabled
        /\ IF m = "lan" THEN Restored(m).key = conf.lan
           ELSE Restored(m).identity = Identity(conf, m)
  <2> HAVE m \in tx.replaced
  <2>1. tx.previous = conf /\ conf \in Configuration
    BY DEF LocalsFit, TypeOK
  <2>2. m = "lan" => conf.lan # None
    BY DEF RoutesFit, RouteFits
  <2>3. m = "lan" => KeyFor(conf) = conf.lan
    BY <2>1, <2>2, Keys
  <2> QED
    BY <2>1, <2>3, StartedRoute DEF Restored, Modes
<1>7. RoutesFit'
  <2> SUFFICES ASSUME NEW n \in Modes PROVE RouteFits(n)'
    BY DEF RoutesFit
  <2>1. RouteFits(n) /\ Identity(conf, n)' = Identity(conf, n)
        /\ Identity(tx.conf, n)' = Identity(tx.conf, n)
    BY <1>1 DEF RoutesFit, Identity
  <2>2. CASE route'[n] = route[n]
    BY <1>1, <2>1, <2>2 DEF RouteFits, Installed, RouteEnabled
  <2>3. CASE n = m /\ route'[m] = Restored(m) /\ m \in tx.replaced
    BY <1>1, <1>6, <2>1, <2>3 DEF RouteFits, Installed, RouteEnabled
  <2> QED
    BY <1>5, <2>2, <2>3
<1>8. RollbackFits'
  <2>1. /\ tx.replaced \subseteq tx.before
        /\ \A n \in Modes : /\ Installed(n) => n \in tx.before
                            /\ n \in tx.before => Installed(n) \/ n \in tx.replaced
        /\ step = "restore relay" /\ "lan" \in tx.before /\ tx.whole
             => Installed("lan")
    BY <1>0 DEF RollbackFits, Modes
  <2>2. \A n \in Modes : Installed(n) => Installed(n)'
    BY <1>5, <1>6 DEF Installed
  <2>3. \A n \in Modes : Installed(n)' => n \in tx.before
    BY <1>5, <2>1 DEF Installed
  <2>4. ASSUME m \in tx.before, tx'.whole PROVE Installed(m)'
    <3>1. tx' = tx
      BY <1>1, <2>4
    <3>2. CASE m \notin tx.replaced
      BY <2>1, <2>2, <2>4, <3>2
    <3>3. CASE m \in tx.replaced /\ route' = [route EXCEPT ![m] = Restored(m)]
      BY <1>6, <3>3 DEF TypeOK, Installed
    <3>4. CASE m \in tx.replaced /\ tx' = [tx EXCEPT !.whole = FALSE]
      BY <2>4, <3>4 DEF TypeOK, Locals
    <3> QED
      BY <3>2, <3>3, <3>4
  <2>5. tx'.whole => tx.whole
    BY DEF TypeOK, Locals
  <2> QED
    BY <1>0, <1>1, <2>1, <2>2, <2>3, <2>4, <2>5 DEF RollbackFits, Modes
<1> QED
  BY <1>2, <1>3, <1>4, <1>7, <1>8, RequestsStay

\* A listener goes, or its task fails.
LEMMA ListenerFits ==
    ASSUME TypeOK, TypeOK', ConnectionInv,
           RepairDrop \/ \E m \in Modes : RouteFails(m)
    PROVE  ConnectionInv'
<1> USE DEF ConnectionInv
<1>0. UNCHANGED <<gen, stored, conf, step, tx, pending, resume, wish, torn>>
  BY DEF RepairDrop, RouteFails
<1>1. /\ LocalsFit' /\ ChoiceFits' /\ StoreFits'
  BY <1>0 DEF LocalsFit, ChoiceFits, StoreFits, NewIsStored, SameSwitches, Initially
<1>2. \A n \in Modes :
        /\ Installed(n)' => /\ Installed(n) /\ route'[n].enabled = route[n].enabled
                            /\ route'[n].key = route[n].key
                            /\ route'[n].identity = route[n].identity
        /\ Installed(n) /\ step # "free" => Installed(n)'
  <2>1. CASE RepairDrop
    BY <2>1 DEF RepairDrop, TypeOK, Installed, Modes
  <2>2. CASE \E m \in Modes : RouteFails(m)
    <3> PICK m \in Modes : RouteFails(m)
      BY <2>2
    <3>1. route[m].enabled /\ Installed(m)
      BY DEF RouteFails, RoutesFit, RouteFits
    <3>2. /\ route'[m] = [route[m] EXCEPT !.ok = FALSE]
          /\ \A n \in Modes : n # m => route'[n] = route[n]
      BY DEF RouteFails, TypeOK
    <3>3. /\ route'[m].enabled = route[m].enabled
          /\ route'[m].key = route[m].key
          /\ route'[m].identity = route[m].identity
      BY <3>2 DEF TypeOK, Active
    <3>4. Installed(m)'
      <4>1. route'[m].enabled
        BY <3>1, <3>3, Zenon
      <4>2. ~NoRoute.enabled
        BY DEF NoRoute
      <4> QED
        BY <4>1, <4>2, Zenon DEF Installed
    <3> QED
      BY <3>1, <3>2, <3>3, <3>4 DEF Installed
  <2> QED
    BY <2>1, <2>2
<1>3. RoutesFit'
  <2> SUFFICES ASSUME NEW n \in Modes PROVE RouteFits(n)'
    BY DEF RoutesFit
  <2>1. RouteFits(n) /\ Identity(conf, n)' = Identity(conf, n)
        /\ Identity(tx.conf, n)' = Identity(tx.conf, n)
    BY <1>0 DEF RoutesFit, Identity
  <2> QED
    BY <1>0, <1>2, <2>1 DEF RouteFits, RouteEnabled
<1>4. KeptFits'
  BY <1>0, <1>2 DEF KeptFits, Kept, RouteEnabled, Modes, Identity
<1>5. RollbackFits'
  BY <1>0, <1>2 DEF RollbackFits
<1> QED
  BY <1>0, <1>1, <1>3, <1>4, <1>5, RequestsStay

\* No step breaks the invariant.
LEMMA NextFits ==
    ASSUME TypeOK, ConnectionInv, [Next]_vars
    PROVE  ConnectionInv'
<1>0. TypeOK'
  BY NextTyped
<1>1. CASE RestoreLan
  <2>1. /\ step = "restore lan" /\ step' = "restore relay"
        /\ UNCHANGED <<gen, stored, conf, pending, resume, wish, torn>>
    BY <1>1 DEF RestoreLan
  <2>2. "lan" \in tx.replaced =>
          [tx EXCEPT !.previous = StartedConf(@, "lan")] = tx
    <3> HAVE "lan" \in tx.replaced
    <3>1. tx.previous = conf /\ conf.lan # None /\ conf \in Configuration
      BY DEF ConnectionInv, LocalsFit, RoutesFit, RouteFits, TypeOK, Modes
    <3>2. StartedConf(tx.previous, "lan") = tx.previous
      BY <3>1, StartedRoute DEF Modes
    <3> QED
      BY <3>2 DEF TypeOK, Locals
  <2>3. \/ "lan" \notin tx.replaced /\ UNCHANGED <<route, tx>>
        \/ /\ "lan" \in tx.replaced /\ tx' = tx
           /\ route' = [route EXCEPT !["lan"] = Restored("lan")]
        \/ /\ "lan" \in tx.replaced /\ tx' = [tx EXCEPT !.whole = FALSE]
           /\ UNCHANGED route
    BY <1>1, <2>2, Zenon DEF RestoreLan
  <2> QED
    BY <1>0, <2>1, <2>3, RestoreFits DEF Modes
<1>2. CASE RestoreRelay
  <2>1. /\ step = "restore relay" /\ step' = "failed"
        /\ UNCHANGED <<gen, stored, conf, pending, resume, wish, torn>>
    BY <1>2 DEF RestoreRelay
  <2>2. \/ "relay" \notin tx.replaced /\ UNCHANGED <<route, tx>>
        \/ /\ "relay" \in tx.replaced /\ tx' = tx
           /\ route' = [route EXCEPT !["relay"] = Restored("relay")]
        \/ /\ "relay" \in tx.replaced /\ tx' = [tx EXCEPT !.whole = FALSE]
           /\ UNCHANGED route
    BY <1>2, Zenon DEF RestoreRelay
  <2> QED
    BY <1>0, <2>1, <2>2, RestoreFits DEF Modes
<1>3. CASE Transaction
  BY <1>0, <1>1, <1>2, <1>3, KeepFits, DisplaceFits, StartRouteFits,
     StoreStepFits, FailedStepFits, CommitFits, UndoFits, ErrorFits, Zenon
  DEF Transaction
<1> QED
  BY <1>0, <1>3, OutsideFits, EntriesFit, ListenerFits, Zenon DEF Next

\* The inductive invariant: whatever moves between two steps of a transaction,
\* its locals, the store, the routes and the requests that wait fit the
\* configuration in force.
THEOREM Invariance == Spec => [](TypeOK /\ ConnectionInv)
<1>1. Init => TypeOK /\ ConnectionInv
  BY InitTyped, InitFits
<1>2. TypeOK /\ ConnectionInv /\ [Next]_vars => (TypeOK /\ ConnectionInv)'
  BY NextTyped, NextFits
<1> QED
  BY <1>1, <1>2, PTL DEF Spec

\* Between transactions the credential store holds the configuration in force,
\* unless the store itself refused the rollback (apply_locked).
THEOREM StoreAgreement == Spec => []StoreAgrees
<1>1. ConnectionInv => StoreAgrees
  BY DEF ConnectionInv, StoreFits, NewIsStored, StoreAgrees
<1> QED
  BY <1>1, Invariance, PTL

\* "A cancelled settings operation must not replace a newer user choice": the
\* switches, the port and the relay in force are those of the newest operation that was
\* reported as successful (begin, current and the commit of apply_locked).
THEOREM NewestChoiceWins == Spec => []NewestWins
<1>1. TypeOK /\ ConnectionInv => NewestWins
  <2> SUFFICES ASSUME TypeOK, ConnectionInv PROVE NewestWins
    OBVIOUS
  <2>1. SameSwitches(conf.preferences, wish.preferences) /\ conf.relay = wish.relay
    BY DEF ConnectionInv, ChoiceFits
  <2>2. conf.preferences \in Preferences /\ wish.preferences \in Preferences
    BY ConfigurationWith DEF TypeOK
  <2> QED
    BY <2>1, <2>2, SwitchesOnly DEF NewestWins
<1> QED
  BY <1>1, Invariance, PTL

\* A transaction whose rollback met no failure leaves the routes that ran
\* before it (the restore loop of apply_locked).
THEOREM RollbackIsComplete == Spec => []RollbackRestores
<1>1. TypeOK /\ ConnectionInv => RollbackRestores
  <2> SUFFICES ASSUME TypeOK, ConnectionInv, step = "failed", tx.whole
               PROVE  {m \in Modes : Installed(m)} = tx.before
    BY DEF RollbackRestores
  <2>1. \A m \in Modes : m \in tx.before <=> Installed(m)
    BY DEF ConnectionInv, RollbackFits
  <2> QED
    BY <2>1 DEF TypeOK, Locals
<1> QED
  BY <1>1, Invariance, PTL

\* Every installed route is open, wanted, and presents the configured relay or
\* the LAN key paired phones pin; what an operation on a route commits is bound
\* to the relay file, or the address and port, that it commits.
THEOREM RoutesServeConfiguration == Spec => []RoutesServe
<1>1. TypeOK /\ ConnectionInv => RoutesServe
  <2> SUFFICES ASSUME TypeOK, ConnectionInv, NEW m \in Modes
               PROVE  /\ Installed(m) =>
                           /\ route[m].enabled
                           /\ step = "free" => RouteEnabled(conf.preferences, m)
                           /\ IF m = "lan" THEN route[m].key = conf.lan
                              ELSE route[m].identity = Identity(conf, m)
                      /\ /\ step = "commit" /\ tx.only \in {"all", m}
                         /\ Committed(m) # NoRoute
                         => Committed(m).identity = Identity(tx.conf, m)
    BY DEF RoutesServe
  <2>1. RouteFits(m) /\ tx.candidates[m] \in Active
    BY DEF ConnectionInv, RoutesFit, TypeOK, Locals
  <2>2. Installed(m) => /\ route[m].enabled
                        /\ step = "free" => RouteEnabled(conf.preferences, m)
                        /\ IF m = "lan" THEN route[m].key = conf.lan
                           ELSE route[m].identity = Identity(conf, m)
    BY <2>1 DEF RouteFits
  <2>3. ASSUME step = "commit", tx.only \in {"all", m}, Committed(m) # NoRoute
        PROVE  Committed(m).identity = Identity(tx.conf, m)
    <3>1. RouteEnabled(tx.conf.preferences, m) /\ (m = "lan" => tx.up)
      BY <2>3 DEF Committed
    <3>2. CASE tx.candidates[m] = NoRoute
      <4>1. Committed(m) = route[m] /\ Kept(m)
        BY <2>3, <3>1, <3>2 DEF Committed, Kept, Installed
      <4> QED
        BY <2>3, <3>1, <4>1 DEF ConnectionInv, KeptFits, Modes
    <3>3. CASE tx.candidates[m] # NoRoute
      <4>1. Committed(m) = [tx.candidates[m] EXCEPT !.enabled = TRUE]
        BY <3>1, <3>3 DEF Committed
      <4>2. Committed(m).identity = tx.candidates[m].identity
        BY <2>1, <4>1 DEF Active
      <4> QED
        BY <2>1, <3>3, <4>2 DEF RouteFits
    <3> QED
      BY <3>2, <3>3
  <2> QED
    BY <2>2, <2>3
<1> QED
  BY <1>1, Invariance, PTL

\* The LAN key in force is never replaced: only a commit writes the
\* configuration, and the one it writes has the same key.
THEOREM KeyIsKept == Spec => KeyKept
<1>1. ConnectionInv /\ [Next]_vars => [conf.lan # None => conf'.lan = conf.lan]_vars
  <2> SUFFICES ASSUME ConnectionInv, Next, conf.lan # None
               PROVE  conf'.lan = conf.lan
    OBVIOUS
  <2>1. CASE Commit
    BY <2>1 DEF Commit, ConnectionInv, LocalsFit
  <2>2. CASE ~Commit
    BY <2>2 DEF Next, Transaction, Begin, Cancel, Monitor, Apply, ApplyRefused,
       Keep, Displace, StartRoute, StartFails, Store, StoreFails, CommitCancelled,
       Undo, UndoFails, RestoreLan, RestoreRelay, Fail, Resume, RepairDrop,
       Repair, Network, RouteFails
  <2> QED
    BY <2>1, <2>2
<1> QED
  BY <1>1, Invariance, PTL DEF Spec, KeyKept
=============================================================================
