# Pebrel, specified

Pebrel is a terminal: panes that run shells and coding agents, a remote file panel
over SFTP, and sessions a paired phone can watch and drive. This directory specifies
the parts of it where several parties act at once and a mistake shows up in nobody's
unit test: the relay that joins a desktop and a phone, the desktop's pairing and
authorization, the settings transaction that starts, moves and repairs the two routes,
the transactions by which transferred files become visible, the controller that starts
and cancels transfers, and the status a pane shows of the agent inside it.

    tlc -workers 2 -config MCRelay.cfg MCRelay      # one run
    tlapm RelayRegistryProofs.tla                   # one set of proofs

## The system

| part | state | operations | interacts with |
|---|---|---|---|
| relay registry, `mobile/link/src/relay/registry.rs` | rooms with two slots; per peer a generation, `active`, a cancellation token, a bounded queue | `reserve`, `announce`, `forward`, drop of a `Lease` | called by the socket tasks under one lock |
| relay server, `relay/server.rs` | permits, one task per socket, its heartbeat | upgrade, select loop, close | registry, clients, shutdown token |
| host, `endpoint/host.rs`, `pairing.rs` | invitations, device grants, sessions; a copy in the credential store | issue, enroll, decide, revoke, allow input, disconnect | handles, connection tasks, store |
| approvals, `endpoint/approval.rs` | up to eight requests with a deadline | request, decide, withdraw | host, settings page |
| transport, `endpoint/transport.rs`, `lan.rs`, `runtime.rs` | handles with an invitation slot; one task per connection; `Authorization` | start, refresh, cancel; authenticate, exchange | host, phones |
| settings, `nebula_app/src/mobile_connection.rs` with `preferences.rs`, `recovery.rs` | the configuration in force, its stored copy, the two routes, a generation | apply (a transaction with rollback), startup resume, monitor, `repair_lan` | settings page, transport, store, interfaces |
| file transactions, `nebula_app/src/ssh_sftp/transaction.rs`, `document.rs`, `ssh_sftp.rs` | the destination with its staging and backup names; the open document | save, upload, download: stage, verify, set aside, publish, roll back | SFTP server, other editors, local disk |
| transfer controller, `ssh_sftp.rs` | generation, control word, pending paths, debounce flag, the panel's snapshot | start, cancel, drop; begin_publish and its guard; finish | UI thread, debounce tasks, workers |
| hook gate, `ai_hook/ordering.rs` | up to 512 streams with their last number, event ids, prints and lifecycle | accept, reorder_batch | the event pump, every pane |
| agent status, `ai_hook/lifecycle.rs`, `gpui_shell/terminal/view/agent_activity.rs` | owner, status and its source, coverage, samples, the submission barrier | accept and apply a hook, command boundaries, screen samples, stalled turns | gate, shell marks, screen poll |
| settings page, `gpui_shell/settings_pane/mobile.rs` | the preferences shown, one pending operation | the requests it submits | settings |

The rest of the repository (terminal emulator, user interface, SSH sessions, completion,
runtime API, updates, backups, the Android application) is listed with its reasons in
`PROJECT.json` under `components`.

What is hard here: clients come, go and fall silent between any two lock sections
of the registry; a blocking `enroll` outlives the task that asked for it; a device
may be removed, replaced or reconnected over another route in the middle of its
handshake; the desktop may stop between a write and its acknowledgement; a settings
operation may be superseded, fail halfway, or fail while undoing itself. A remote call
may succeed without an answer while somebody else writes the same file; a cancel races
with a publication for one atomic word. An agent's events come from hook processes that
race, repeat and get lost, and what the screen shows is a frame old.
`PROJECT.json` lists each under `hazards`, at the line where it bites.

## The modules

| module | models | checked by |
|---|---|---|
| `RelayLink` | what the relay promises to two clients: a link is made once, between two open ends, carries packets in order and at most once, and takes nothing once either end has closed | as `LinkSpec` |
| `RelayRegistry` | registry and socket task | `MCRelay` |
| `RelayRegistryProofs` | its theorems | tlapm |
| `RelayLinkProofs` | the order of packets and the refinement of `RelayLink` | tlapm |
| `HostPairing` | host, book, approvals, handles, connection tasks | `MCHost` |
| `HostPairingProofs` | its theorems | tlapm |
| `MobileConnection` | the settings transaction and the recovery thread | `MCConnection` |
| `MobileConnectionProofs` | its theorems | tlapm |
| `SftpTransaction` | one file's transfer around one destination, in both directions | `MCSftp` |
| `SftpTransactionProofs` | its theorems | tlapm |
| `SftpController` | jobs, workers, cancellation, debounce, the panel's phase | `MCController` |
| `SftpControllerProofs` | its theorems | tlapm |
| `HookGate` | the gate's verdicts and tables, reorder_batch (pure operators) | `HookPump`, `AgentPane` |
| `HookPump` | senders racing into a channel that is read in batches | `MCPump` |
| `AgentActivity` | one pane's status as a function of hooks, samples and boundaries (pure operators) | `AgentPane` |
| `AgentPane` | the pane composed: shell, agents, lanes, gate, status, screen poll | `MCPane` |
| `AgentPaneProofs` | theorems about the pane and the gate | tlapm |
| `AgentStatusProofs` | that the pane shows what its agent does | tlapm |

`MC*` modules only give the constants their values and a symmetry set.

### RelayRegistry

A lease is its generation. `slot` is `room.peers`, `active`, `cancelled` and `queue`
the fields of `Peer`. `phase` is where `run_socket` stands. Each lock section
(`Reserve`, `Announce`, `ReceiveBinary`/`ReceiveBinaryFull`, `DropLease`) is one action;
the branches of the select loop are the others. `announce` that fails returns from
`run_socket` before the loop, where the permit goes before the lease: the phase `failed`.
It fails for a lease that is cancelled (`AnnounceRefused`), and for one that finds a peer
and no randomness for the epoch (`AnnounceUnsecured`, `registry.rs:123`): that one is marked
active, has told nobody, and until it is dropped its peer may still forward to a queue that
nobody reads.
`partner`, `forwarded` and `delivered` are history, read by no guard but the bound on
packets. Packets carry the sender and a number instead of ciphertext; the token
that admits a client is part of the environment's choice of a slot; the rate limit and
malformed frames are reasons of `ReceiveBreak`.

### HostPairing

`HostState` is behind a mutex, so each of its methods is one action. A connection task
moves between those calls; `pc` names the await it is in. `detached` and `orphan` are
a blocking `enroll` whose task is gone, before and after the `ApprovalGuard` was
dropped. The store is written inside the lock and may refuse: the action then leaves
the book as it was. A crash keeps `saved` and `savedAllow` and forgets the rest.
Ids and secrets are numbers given once; a phone presents an invitation it was shown or
a device whose secret it was sent, so proofs of possession always verify.

### MobileConnection

`apply` holds `OPERATIONS` from its first check to its return; `step` is where it is
(LAN route, relay route, store, commit, undo, restore). What it does not hold is the
network, the listeners, and the generation: `Network`, `RouteFails`, `Begin` and `Cancel`
run between any two steps. `conf` is the manager's configuration, `stored` the copy in the
credential store. An address is a number, and so is a port; the relay's room and token
are one number; the LAN certificate and secret are one key. What a route is bound to
(`Identity`, `route_identity`) is the address and the port, or the relay: the reuse guard
compares it. The notification switch and the default input permission are left out: no
guard of the transaction reads them. `torn`
records that the store refused both the write and its undo. `wish` is history: what the
newest operation reported as successful asked for.

### SftpTransaction

A version of the file is a number; size, times, mode and bytes are that number, so the
comparisons of `metadata_matches` and of the bytes are equality. One action is one
remote or local call, which may succeed, be refused, or (when the session drops) have
happened without an answer. The order of `upload_file_checked` is kept: compare, stage,
compare again, set aside, compare what was set aside, publish, drop the backup; and so is
that of the rollback. `result` is what the message says: nothing of a file, both files
("kept"), or, when a save's check and its restore both failed, only the staging file
("draft", `transaction.rs:313`). SFTP's rename refuses an existing target, the local one replaces it.
`Edit` and `Remove` are other people at the same file, between any two calls. `Restart`
is the end of the program at any step: files stay, the nonce starts again. `destroyed`,
`owed` and `past` are history: versions of which the program removed the last copy,
the places, with what is there, of files it had set aside or announced as kept, and names
earlier runs left in use.

### SftpController

A job is its generation. `start_job` is two lock sections, `Register` and `Spawn`, on the
UI thread or a debounce task's; `begin_publish` is the load, the compare-exchange and the
confirmation; `finish` checks the generation and writes the snapshot in two steps. What
a worker transfers is `SftpTransaction`'s concern. `quiet` (tokens cancelled while
nothing was publishing) and `overlap` (two threads were in `start_job` at once) are history.

### HookGate, AgentActivity and AgentPane

`HookGate` and `AgentActivity` are functions of the code's structures; their actions are
in `AgentPane` (and `HookPump`). A fingerprint is the tuple of what the code hashes. Time
is the two thresholds the code has: `ForgetPrints` passes the duplicate window, `Stall`
the stall threshold. The agents are the environment: `phase` is what an agent does, and
each change of it sends the event its bridge sends. Local events travel one hook process
each (`lane[c]`, any order where processes race); remote events and the shell's OSC 133
marks share the terminal's byte stream (`lane[0]`, in order). codex runs its notify program
beside the native hooks, which keep their order, and does not wait for it: the program's
report of an end may be lost or repeated independently of the native one, may overtake it,
and everything codex sends later may overtake the program (`Overtakes`). `HandleAiHook` is the whole handler for an
event it lets through: ownership, the gate, the status. The two checks that drop an event
in between, of the client's pid and of the conversation a restored pane awaits, depend on
the process tree and on the recovery file: `Refuse` lets them drop any event.
`FinishUnmarked` clears the activity when the prompt is back on the grid or the process
tree has lost the owner, before the shell's mark says so; evidence that is no longer
current is dropped by the code (`activity_probe_still_current`) and never applied here. A
`Setup` is one pane to look at: its providers, which CLIs are spawned by others, and what
may go wrong.

Left out: which identity a restored pane, a probe or an OSC program status chooses (the
screen may choose any, in the model), and the notify program of a remote codex
(`remote.rs` installs it too), whose reports would travel on lane 0.

## What the runs show

| run | instance | shows |
|---|---|---|
| `relay` | 1 room, 3 leases, 2 permits, queue of 2, one packet per lease, one client that may fall silent | who may talk was told so (`LivePairIsLinked`); queues hold the link's packets, in order, behind the notices, and who sent outside a link is cut off (`QueueHoldsLink`); no notice meets a full queue, and an announce that fails leaves nobody linked (`QueueBounded`); departure reaches the partner (`DepartureCancelsPartner`, `PartnerLossCloses`); refinement (`LinkSpec`); `SilentPeerEvicted`, `ShutdownDrains` |
| `host_sessions` | a LAN and a relay connection, a clock that moves both ways, a failing store, one crash | `SessionAuthorized`, `LanKeepsDevice`, `PermissionAgrees`, `GrantsDurable` |
| `host_live` | a book with room for one device, two phones, two invitations | `OneUse`, `BookBounded`, `RequestsDrain`, `CancelledEnds` |
| `host_replace` | one handle, three invitations | violated: see findings |
| `settings_race` | three generations, one interface, two ports and two relays, failing starts, stores and listeners | `StoreAgrees`, `NewestWins`, `RollbackRestores` |
| `settings_move` | two generations, two interfaces, two ports and two relays, failing starts, stores and listeners | `RoutesServe`, `KeyKept`, `LanRecovers` |
| `sftp_files` | two transfers in any mode, three edits by others after the first version, every fault and restarts | `SaveKeepsEdits`, `NoHalfFile`, `OwedKept`, `RolledBack` |
| `sftp_nonce` | two uploads with a restart | violated: see findings |
| `sftp_jobs` | the first listing, one job of the user, one dropped path, two files, two workers, one cancel | `CancelHonoured`, `PublishersCounted`, `PanelSettles` |
| `pane_local` | six panes: two commands with a spawned agent; a numbered bridge; codex with its notify program, and two such commands; the turns of a claude; the same behind ssh, nothing lost | `OneAgentSpeaks`, `SequenceAdvances`, `CompletionOnce`, `StatusAgrees` |
| `pane_remote` | a remote agent, up to four events, any of them lost | `Converges` |
| `hook_pump` | a sequenced and an unsequenced sender, batches of three | `BatchKeepsAll` |

The bounds. Three leases are a link, and a client that takes over a slot while either
old end is still closing. A queue of two is full after one notice and one packet, so
both overflow paths occur. Rooms share only the permits and the generation. For the
host, two connections race for everything that is used once, over the same handle in
`host_live` and over both routes of one device in `host_sessions`. For the settings, three
generations are an operation, the one that supersedes it, and the recovery thread's
request; two addresses, ports and relays are the one in force and another, so that a
healthy route is displaced because its identity changed. Two transfers are enough for
a second one to meet what the first left behind, and four nonces are the two names
each of them may take. Two files and two workers make two publications of one job
overlap, and three jobs are a publisher, the job that superseded it and the listing. Two
streams and two event ids in the gate's tables (512 and 64 in the code) are filled by the
third stream or turn. The events of an agent are bounded by pane: two where
three agents share one (a session and a prompt, or its end), three for the numbered bridge,
whose events race, four for codex (a session, a prompt, its end, and another session or
prompt before a late report), five for the turns of one claude, local or behind ssh: a
whole turn with a question, a tool or a compaction, and a reminder or the next prompt after
it. Deadlock is not checked: generations, invitations,
connections, events and clocks are bounded, and a relay without clients may rest.

Fairness. The relay: an upgrade ends within the ten seconds of `serve_ready`, a ready
cancellation branch is polled, the heartbeat ticks, a finished task drops its values.
The host: every await of `authenticate` has a deadline, a blocking `enroll` returns,
cancellation is selected on, guards are dropped. The settings: the thread holding
`OPERATIONS` runs on, and the recovery thread wakes every five seconds; `LanRecovers`
speaks of the behaviours in which transactions stop failing. The pane: the pump's timer
drains the channel, the poll of the screen runs every second (`workspace/agents.rs`), and time
passes. Nothing is assumed of clients, phones, agents, users, the network or the operator.
`PanelSettles` needs no fairness: it says that while the panel is busy, the newest job is
still going to report.

What the properties leave out, because the code does not keep it (each is a hazard of
`PROJECT.json`): the interface selected by the second startup transaction when the
interfaces change in between (`recovery.rs:75`), so `RoutesServe` compares the listener's
address with what an operation on the LAN commits and not with what is selected later;
the backup a save leaves when its check and its restore both fail, which the message does
not name (`transaction.rs:313`); a path dropped between the debounce
task's take and the clearing of its flag (`ssh_sftp.rs:247`); two threads in `start_job`
at once, after which the panel may stay busy (`ssh_sftp.rs:423`); the `SessionStart` of a
CLI whose command has ended (`lifecycle.rs:177`); an agent whose events were refused while
another one owned the pane, and whose compaction then claims the pane the other one ended,
with no status (`lifecycle.rs:310`); the submission barrier before any hook
was seen (`lifecycle.rs:380`).

Every property of a passing run has a mutant of the modelled code (the operators
commented "Mutant") under which TLC finds it violated.

### Findings

* `host_replace`. `authenticate` clears the handle's invitation slot after `enroll` has
  released the host lock (`transport.rs:440`). A refresh in between puts a new invitation
  into the slot; the clear forgets it, and the next refresh withdraws neither it nor the
  request it already has. The pairing note says replacing an invitation cancels its approvals.
* `sftp_nonce`. `TRANSFER_NONCE` starts at 1 in every run of the program
  (`ssh_sftp.rs:37`), and the names of staging and backup are built from it. After a
  restart a transfer to the same destination truncates the draft, or removes the backup,
  that the previous run told the user it kept (`transaction.rs:64` and `:313`).

## What is proved

For every value of the constants, from the assumptions named in the modules:
`RelayConstants` (a nonempty set of rooms, and a queue of at least two, which holds two
notices), `HostConstants` (connections belong to handles, handles to routes),
`SavedIsStorable` (a start finds in the store what `apply_locked` can have written),
and the types of the bounds. No bound has a value in a proof: any number of clients,
phones, invitations, transfers, edits, faults and restarts.

Most of the properties are not inductive. Each component's module ends with the invariant
that is, split into named parts; TLC checked each on the instances of the runs before it was proved.

* **Relay** (`RelayRegistryProofs`): `TypeCorrect`, `LivePairs`, `Departures`, `Queues`.
  `RelayInv` adds that a slot and the lease in it know each other (`Owned`), that a lease
  that has not announced has neither partner nor messages (`Fresh`), that partners are
  mutual and in opposite slots (`Mutual`), and that a lease without a partner has at most
  one message (`Lonely`). The heart is `WaitingPeer`: the peer a newcomer finds was never
  linked before, because the departure of its partner would have cancelled it; so its
  queue holds one notice at most and the pairing notice fits. A lease whose announce drew
  no epoch has linked nobody either, and the peer it found waits in the opposite slot until
  the drop of the lease cancels it (`Stranded`).
* **Link** (`RelayLinkProofs`): `QueuesHoldLinks`, and `Refinement`: `Spec => LinkSpec`. That
  a client heard outside any link is cut off (`OutsideIsDoomed`) needs that nobody is heard
  before its announce (`Unsent`). The
  refinement needs that what a queue holds for its lease is the rest of what its partner
  forwarded, in order and behind the notices (`InOrder`): without it a delivery could not
  be shown to be the link's next packet. Each action maps to one step of `RelayLink` or to a stutter.
* **Host** (`HostPairingProofs`): `TypeCorrect`, `SessionsAuthorized`, `PermissionsAgree`,
  `GrantsAreDurable`, `InvitationsOneUse` from `SafetyInv`, which adds which phases of a
  task go with a device, a session and an authorization, and that the book's devices are
  the store's. `BookIsBounded` counts: an enrollment takes an invitation out as it puts a
  device in, and the set of requests is finite although the set of phones need not be
  (`BookInv`). `LanIsKept` is the action property: only `enroll` moves a device from one
  session to another, and a fresh device has none.
* **Settings** (`MobileConnectionProofs`): `TypeCorrect`, `StoreAgreement`,
  `NewestChoiceWins`, `RollbackIsComplete`, `RoutesServeConfiguration`, `KeyIsKept`.
  `ConnectionInv` describes a transaction from the configuration it started from: what its
  locals may hold at each step (`LocalsFit`, `ChoiceFits`, `KeptRelayFits`), what the store
  holds once it was written or written back (`StoreFits`, `NewIsStored`), which routes run
  and which are owed to the rollback (`RoutesFit`, `RollbackFits`), and that a connection a
  transaction keeps is bound to what it will commit (`KeptFits`).
* **File transactions** (`SftpTransactionProofs`): `Invariance`, `NeverHalfWritten`,
  `RollbackLeavesNothing`, `PromisesKept`, `SavesKeepEdits`. `TransferInv` says which names
  are in use where a transfer is and what they hold: names are drawn from the counter before use
  (`NamesFit`), only staging files are half written (`StagingFits`), a backup name is free
  before and after (`BackupFits`), what a save publishes over was compared (`CheckedFits`),
  promises lie under names that are never drawn again (`OwedFits`). The attempt at `PromisesKept` changed
  the model: `owed` used to be a set of versions, and with three transfers a version that
  an unanswered restore had put back, and others then overwrote, counted as lost. It now
  names the places, which is what the message to the user names.
* **Transfer controller** (`SftpControllerProofs`): `TypeCorrect`, `CancelIsFinal`,
  `Publishers` from `ControllerInv`: each job holds the token of its own generation, and the word counts the
  workers between its compare-exchange and the drop of the guard. `PanelIsReported` from
  `SettlesInv`: a thread in `start_job` carries the newest generation (`NewestStarts`), so
  the job whose phase the panel shows is the one that is still to report.
* **Agent pane and gate** (`AgentPaneProofs`): `TypeCorrect` from `PaneInv`, which types the
  activity, the table of streams and every event on its way; that a full table makes room
  needs a least element of a finite set of numbers, proved from the well-foundedness of
  `<`. `OneSpeaker` from `Speaker`: the pane's owner is the process of the CLI whose events
  were applied. It is stated for `Uniform` panes, where the agents of one provider are all
  local or all remote: a remote event has no pid and a local one no remote process, and
  with two nameless agents, one of each kind, TLC shows the second one accepted.
  `NumbersInOrder` and `EndNotifiedOnce` from `History`: every agent's events lie on their
  lanes in the order they were sent (`Lanes`), a number already heard is one the stream of
  the event has passed (`Numbers`), and an end already notified is remembered by its number,
  its turn id or the status of the pane (`Ends`). They are stated for the panes where the
  gate can do this. `Numbered`: it can track every stream the agents can name, and a
  numbered agent has one stream (pi) or an ordered way in; with two pi bridges and a
  table of one stream TLC shows a repeated event applied. `Recognised`: nothing is repeated, or the
  copy carries a number, or the turn id of codex, on an ordered lane or beside the notify
  program; where codex's native hook processes race TLC shows a late start clear the ids of its
  stream, and the completion announced again. The notify program races with the native
  hooks, and for it `Endings` is needed as well: while a report of a notified end is on its
  way, its stream keeps its id and has taken only ids of near turns since, and the start of its
  conversation, which would clear the ids, is not behind it (`Doubles`); this holds under
  `Timely`, that a report is not more than `Reach` = `(MaxIds - 1) \div 2` turns late (31, for
  the 64 ids of the code), since the gate forgets the oldest id. The theorem is
  `Spec /\ []Timely => [](Recognised => CompletionOnce)`.
  `NumbersOnlyGrow` and `RepeatIsRefused` say what the gate does in any pane, and
  `ReorderSorts` what it is handed: a batch is permuted, each slot keeps its stream, and a
  numbered stream comes in the order of its numbers. That the ranks of a finite total order
  number it from 0 (`RankNumbers`) makes the choice in `SourceSlot` a permutation.
* **Agent status** (`AgentStatusProofs`): `StatusIsTrue`. What is on its way from the agent
  in the foreground is a path (`Leads`): each event continues from the phase and the
  conversation the one before it enters, and a copy of it continues from there as well. The
  pane is at the start of that path (`Mirrors`): its status and the gate's stream are those of the phase
  it has heard of last, so what the gate refuses as a copy would have changed nothing. An
  agent of which nothing was heard, or that has ended, does not own the pane, and events
  of other agents never take it from one that does. It is stated for `Direct` panes: local agents whose
  bridge reports the whole lifecycle in order, without numbers, times or codex modes (the
  panes of local claude CLIs in `pane_local` are such).

Only model-checked: every liveness property (`PartnerLossCloses`, `SilentPeerEvicted`,
`ShutdownDrains`, `RequestsDrain`, `CancelledEnds`, `LanRecovers`, `Converges`), as the
prover has no fairness; the pump (`BatchKeepsAll`), which folds the gate over a batch; and
`StatusAgrees` for numbered bridges, codex and remote agents (in the panes of `pane_local`
of which nothing is lost; `pane_remote`, which loses events, checks `Converges` alone), where
what the status rests on is another field for each (the number, the turn, the stall).

## Plan

1. Proofs: `StatusAgrees` for numbered bridges and codex.
2. Next modules: the runtime hub's delegations (`runtime_api.rs`: a callback is delivered
   once, to the agent that asked), the state file's locks (`atomic_file.rs`), the short
   pairing code, the relay client's reconnection and the status cell.
3. Composition: host and relay over `RelayLink`, so that a relay session of a device ends
   when its link does.

Not modelled, and why: cryptography (ideal), codecs and parsers (pure functions with
tests), drawing and input of the user interface, the terminal's grid, I/O against third
parties, directory walks and the segment arithmetic of parallel transfers. See
`components` in `PROJECT.json`.
