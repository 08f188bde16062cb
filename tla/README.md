# Verification of arcrelay-network

`arcrelay-network` is the peer-to-peer network layer of ArcRelay: one QUIC
endpoint per process, authenticated sessions between devices, pairing and
grants, discovery, and an input relay through a third device. This directory
holds TLA+ models of the parts where several tasks, two devices, a fault or a
boundary decide what happens, the TLC configurations that check them, and TLAPS
proofs of every safety property the passing runs check.

Source references are relative to the repository (`src/runtime.rs`); a
definition's exact lines are in `PROJECT.json` under `map`.

## The system

| Part | Code | Module |
|---|---|---|
| Session table: `register_session`, `active`, `disconnect`, `grant`, relay watcher | `src/runtime.rs`, `src/runtime/session.rs`, `src/runtime/relay.rs` | `SessionRegistry` |
| Two runtimes establishing sessions with each other | `src/runtime.rs`, `src/runtime/dial.rs`, `src/runtime/relay.rs` | `PeerPair` |
| Endpoint race, source-port recovery, shutdown | `src/runtime/dial.rs` | `DialRace` |
| Authentication exchange, probes, handshake permits | `src/runtime.rs`, `src/runtime/protocol.rs` | `Handshake` |
| Pairing, grants, forget, auto-connect preference | `src/runtime.rs`, `src/repository.rs` | `Trust` |
| Endpoint history and backoff, in memory and in SQLite | `src/endpoint.rs`, `src/repository.rs` | `EndpointHistory` |
| Discovery (mDNS and authenticated peers) | `src/discovery.rs` | `Discovery` |
| Visibility, metadata; the web gateway's record | `src/runtime.rs`, `src/discovery.rs` | `Visibility`, `WebGateway` |
| Feature stream acceptance | `src/runtime/session.rs` | `FeatureStreams` |
| Input relay tunnels | `src/runtime/relay.rs` | `RelayTunnel`; sessions over them in `SessionRegistry`, `PeerPair`, `Trust` |
| Device identity files | `src/identity.rs` | `IdentityStore` |
| Probe rate limit, LAN scan | `src/runtime.rs`, `src/runtime/scan.rs` | `ProbeRate`, `LanScan` |
| Diagnostics, error types, CI scripts | `src/runtime/diagnostics.rs`, `src/lib.rs`, `.github`, `ci` | not modelled: no protocol state |

A dial (`connect`) takes the dial lock of a (peer, kind) key, races the known
addresses of the peer (`DialRace`), which `connect_remembered` takes from the
history (`EndpointHistory`), authenticates on each connection (`Handshake`) and
registers the winner in the session table (`SessionRegistry`). The peer's accept
loop registers the same connection in its own table; the two tables arbitrate
independently (`PeerPair`). Whether a handshake is allowed at all, and what a
session may do, comes from the repository (`Trust`). Authenticated connections
and probes feed `Discovery`.

Where one model takes another's result as an input, it takes every possible
result: the answer of `register_session` in `DialRace` and `RelayTunnel`, the
rate limit in `Handshake`, the end of a probe in `LanScan`. `PeerPair` is a
composition: it runs the registry's decisions at two nodes, and its node 1 is
shown to implement `SessionRegistry`.

## Modules

### SessionRegistry

State: `table` is `sessions`; an entry has its connection and
`retired_peer_instances`. `gate` is `session_dials`. `open` are the connections
without a close reason, `handle` those whose `Arc<Session>` is still held
(so the entry's `Weak` upgrades), `streams` those a feature stream holds.
`stage`, `session` and `result` are the progress, the `Session` object and the
answer of `register_session` for the task that owns a connection.

Actions: `StartConnect` / `StartRelayConnect` (the two kinds of dial; only the
first takes the lock), `DialFails`, `AuthenticateOutbound` / `AuthenticateInbound`,
`RegisterSession`, `RememberDialed`, `Disconnect` (also the table part of forget
and revoke), `GrantInject`, `TransportCloses`, `RelayWatcher`, `OpenStream`,
and the environment: `DropHandle`, `DropStreams`, `Restart`. `Recycle` lets
TLC reuse a connection id that nothing refers to. An implicit close of a
connection nobody holds happens in the step that drops the last holder
(`CloseExcept`).

Abstractions: ranks are compared only between different initiators, so a rank
is its initiator id; instance ids are process numbers; a whole endpoint race is
one connection; the branch for registering the very same `Session` object twice,
which only a test reaches, is left out.

### PeerPair

Two instances of the `SessionRegistry` decisions, one per node, over shared
connections. Each end sends its `SessionAccepted`, reads the other's, and
registers; a close at one end reaches the other later. `Dial`, `SendAccepted`,
`Authenticate`, `HandshakeFails`, `HandshakeTimesOut`, `RegisterSession`,
`RememberDialed`, `PeerCloses`, `RelayWatcher`, `Disconnect`, `Restart`.
`Registry(n)` instantiates `SessionRegistry` with node n's part of the state, the
other node being the only peer. The run checks, and a theorem states,
`Node1ImplementsRegistry`: `SessionRegistry` is the abstract specification of a
node, so what is proved of it holds at a node of the pair.

### DialRace

One call of `race_endpoints`. A candidate sleeps, waits for capacity and for a
global permit, connects, verifies, takes the selection permit and confirms,
and finishes; it may fail in each phase. The loop joins results, cancels the
rest, registers the winner, or retries once on a recovery endpoint. `DropCall`
is a caller that drops the future. `Stop`, `CloseListener`, `CloseListed` are the
three steps of `shutdown`; `recoveryClosed` tells whether its last step found the
recovery endpoint of the second attempt in the list it closes. `PeerRegisters`
is the other end's table for these connections. The answer of `register_session` is
an input.

### Trust

The rows about one peer (`paired`, `grants`, `remembered`), the calls that
change them, and the sessions they govern. Each repository call and each lock
of the table is one step, so other calls interleave where the code awaits.
`snapshot` is the set of grants a session's features were negotiated with;
`Negotiate` reads them through `require`. `Crash` may come between any two
steps, and any repository call may fail (`StorageError`), besides the
foreign-key failures of `GrantSave` and `Record`, which are SQLite's: the in-memory
repository has no foreign keys.

### EndpointHistory

`memory` and `sqlite` are the rows of the two implementations of
`EndpointRepository`; both get the same calls, and `backend` is the one whose
answers are dialled. A call reads the clock in one step and changes the store in
a later one (`Apply`), so calls may be applied out of order. `ConnectRemembered`,
`ReadEndpoints`, `CandidateFails`, `CandidateWins` and `RaceFails` are a dial with
its two attempts, over the addresses of the history alone: addresses a caller adds
from discovery have a row only once they succeed; `InboundSession` stores the address the socket reports, which
is the IPv4-mapped form for the addresses in `Mapped` (`Canonical` is what a dial
makes of it). `NewestFirst` gives the stable sort by the rank of each row.
`ForgetPeer`, `ForgetEndpoints` and `Pair` are the repository's part of forget and
pairing. Ports, network scopes and certificate fingerprints
are left out; `last_seen` and `last_success` are always written together and are
one stamp.

### Handshake

Up to `MaxConns` connections between two nodes, each for a probe, a kind open to
strangers or a kind for paired devices. Both ends send `SessionHello`,
`SessionAuth` and `SessionAccepted`; reading one message, checking it and
sending the next is a step (`ReadHello`, `RejectHello`, `ReadAuth`,
`ReadAccepted`), `validate_hello` and `negotiate_protocol_minor` are operators
over the version ranges. `Accept`, `Refuse` and `Acquire` move the permits of
`handshake_gate`, `ReadHello` of a probe those of `probe_gate`; `TimesOut` is
`HANDSHAKE_TIMEOUT`, `ConnectionLost` the close of the other end, which discards
what was not read yet. `CloseFinished` is whatever closes a session after its
handshake: the short sleep after a probe, a duplicate in the table, no subscriber,
a dropped dial. The permit of an acceptor is given back when its handshake ends;
the code keeps it until the session is registered, which waits for nothing but
storage and the table's lock.

### Discovery

`mdns`, `auth` and `ids` are the three tables, `snapshot` the watch channel.
`Resolve` and `Remove` run in the browser task; `Observe`, `ForgetAuthenticated` and
`Refresh` in any task. `emit` is three steps, because it awaits each table.
`Follow` is an application that opens a session for each new snapshot, as the
comment on `same_discovery_route` assumes; it is observed at the address it dialled.

### Visibility and WebGateway

`set_discoverable` and `update_metadata` hold no lock across the flag, the
metadata, the daemon and `local_published`; each access is a step, and the
daemon may refuse. `WebGateway` has the same shape for `publish_web_gateway` and
`unpublish_web_gateway`: the latter holds the lock of `web_fullname` while it
unregisters, the former registers without it and stores the name afterwards.

### FeatureStreams

The streams of one session in the order the remote end opens them, the header
tasks in `pending_headers` (`Pending`), and callers that take the lock and select
between the close, a finished header task and a new stream (`Select`). A caller
may be dropped while it waits (`DropCaller`); `GiveUp` is the header timeout.

### RelayTunnel

Both ends of each relay. The record of an end says where its call is, whether
its private endpoint is open, whether its bridge runs, the state of the inner
connection, and who owns the `RelayTunnel` (table entry, handle). `Reserve`,
`Create`, `CreateFails` are `new_input_relay_tunnel`, whose lock of
`recovery_endpoints` is `lock`; `Register` and `Watcher` are
`register_input_relay`; the bridge ends with its streams, with its endpoint or by
an error; `Stop` and `CloseListed` are `shutdown`. Dropping the last owner happens
in the step that drops it (`Dropped`).

### IdentityStore

`visible` is the directory as programs see it, `durable` what a power loss falls
back to. `private_write` renames a complete, synced temporary file and then
syncs the directory, so a file is absent or holds one generation's value.
`End` is a crash, an I/O error or a normal end at any step; `PowerLoss` undoes any
subset of the renames not yet synced.

### ProbeRate and LanScan

`admit_discovery_probe` with its window and the pruning of the table; ages at
which entries are dropped anyway are alike, so time needs no bound. The history
`admitted` keeps the ages of a source's latest `2 * MAX_ATTEMPTS` admitted probes,
which is what the two claims about the rate look at. A scan
(`scan_local_ipv4`) with its cooldown, shared cancel flag and bounded set of
probe tasks; two scans may overlap when the first outlasts the cooldown.

## Runs

`tlc -config X.cfg M`; distinct states and time on two workers. All the
configurations turn off deadlock checking: a finite instance may legitimately
come to rest when its dials, restarts or calls are used up.

| Run | Instance | States | Shows |
|---|---|---|---|
| session_registry | "contended": 3 connections of one key; "restarts": 2 at a time of one key over 4 peer processes; "apart": 2 connections of 2 peers, 2 kinds; one process has no instance id; retired list of 1 | 968,982 / 156 s | types; entries admitted under their own key; retired list sound, also when it overflows; no stranded session; a retired process does not return; arbitration keeps a session |
| establishment | two nodes, "direct": 3 direct dials, "faults": 2 dials, relay at node 1, restart of node 2, 1 timeout, 1 disconnect; or one race: 3 candidates, capacity 2, both attempts | 380,873 / 122 s | the ends agree, opposing dials converge, everything settles, a same-initiator replacement is a later dial, node 1 implements `SessionRegistry`; no rival of the winner, nothing left open, clean recovery, shutdown, termination |
| peer_records | "sequential": all trust calls, one at a time; "concurrent": 2 tasks, all calls overlapping; "endpoints": 3 addresses, 2 dials and inbound sessions, limit of 2, 4 calls, both stores | 1,252,183 / 104 s | rows need a peer; forget and revoke close what they should; a revoked grant stays revoked; the two stores agree, a fresh address is offered, a failed one not redialled early |
| discovery | 1 peer, 2 full names, 2 addresses, 2 stamps, 3 outside events, 3 tasks | 1,189,152 / 90 s | the snapshot follows the tables; a consumer that dials what it sees does not keep itself awake |
| handshake | 2 connections, 1 or 2 permits, versions that agree, overlap and do not | 523,263 / 95 s | permits conserved; a session has the consent of both ends; no end keeps a session the other refused or lost; handshakes end also when both nodes are full |
| node_services | one service per behaviour: 4 starts; 2 callers and 4 calls; 2 gateway callers; 2 scans of 3 hosts; 2 sources, 2 attempts, table of 1; 3 streams, 2 slots, one impatient caller; 1 relay, capacity 1 | 87,666 / 65 s | root key and TLS pair survive faults; visibility settles; an announced gateway can be withdrawn; scans end and cancel; the rate is bounded and refuses for cause; streams are served; tunnels end, return their permit and do not outlive shutdown |

Why the bounds are enough. Three connections of one key give a current entry,
a challenger and a delayed third, which is what every branch of
`register_session` compares. A retired list of 1 overflows when a third process
registers in an entry that is still there ("restarts"), as one of 32 does at the
thirty-third retirement; the proofs cover every length.
Three candidates over two slots make one wait for capacity while two compete
for the permit. Two tasks of `Trust` are the pair of calls a race needs; the
"concurrent" scenario leaves out only the session kinds in `OtherKinds` and what
follows a forget that has failed halfway or a call that has acted on a stale
read, and the proofs leave out neither. Three
addresses overflow the limit of two; the cap of the backoff's exponent is passed by the
third failure. Three events of `Discovery` change a table twice while an emit is
between its reads. Two connections over one permit at each node are two nodes
full of dials to each other. Four starts let a power loss hit each of the three
files and be followed by a clean start. Three streams over two slots make one
wait for a slot. A single relay has two ends, each with a tunnel; the
permits of other tunnels come and go (`Elsewhere`), and two relays in one
instance (488,176 states, tunnels alone) have no error either.

`MCPeerRecords`, `MCNodeServices`, `MCSessionRegistry`, `MCPeerPair` and
`MCEstablishment` put several scenarios into one run; a behaviour stays in its
scenario. The parts joined in `MCNodeServices` share no variable in the code, and
`MCEstablishment` is either `MCPeerPair` or `MCDialRace`. `MCDialRace` and `MCDiscovery`
instantiate their component under a name (`Race`, `Disc`), so that one module of
proofs can treat it beside another component.

Every module states its type invariant, `TypeOK`. The session table's is one of
the run's properties and proved; the inductive invariants of the other proofs
carry the types they need. TLC finds `TypeOK` true on the instances above.

`IdentitySurvivesFaults`, `RateLimitHolds` and `RelayEndsCleanly` of `node_services` are
conjunctions of two properties of their modules: the root key and the TLS pair,
the bound and the fairness of the rate limit, the end of both bridges and the
return of the permit.

Each property of these runs also has a mutant in `PROJECT.json`: a plausible
mistake in one definition that makes TLC find the property violated.

### Where the repository's words and the code disagree

These runs are expected to find a counterexample. Each states what a comment
or a test says.

| Run | Says | Counterexample |
|---|---|---|
| delayed_handshake | `runtime.rs:1488` "a delayed old handshake cannot take the replacement session back" | the retired list disappears with its entry |
| relay_address_not_remembered | `relay.rs:4` "must never enter LAN discovery or remembered endpoint history" | a direct dial that loses to a relayed session remembers that session's loopback address |
| trust_forget_in_flight | `runtime.rs:746` "stale authority cannot survive in memory" | a handshake past `require_paired` registers after forget |
| trust_revoke_in_flight | `runtime.rs:957` "Tear down every peer session so a revoked grant cannot remain usable" | `accept_input_relay` has passed its check (`relay.rs:93`) when revoke deletes the grant and empties the table; its session is registered afterwards |
| trust_auto_connect | `runtime.rs:696` "only a pairing session can establish device trust" | `set_peer_auto_connect` writes back a peer that forget has deleted |
| failed_address_redialled | `repository.rs:595` after `record_failure` the address is not offered | an inbound session stores an IPv4 peer's mapped address; the dial fails under the plain address, which has no row, so the stored one is offered again at once |

### Limits of the passing properties

Each is stated for the cases in which the code keeps it. Outside them:

- **Overlapping trust calls.** `RevokedGrantIsClosed` excepts a call that acts on
  grants which changed after it read them (`staleRead`). There are two:
  `confirm_pairing_with_grants` replaces the stored grants by what it read earlier
  and what it was asked to add (`runtime.rs:711`), so it may drop a grant added in
  between, and `accept_input_relay` checks the grant several awaits before
  `revoke` could find its session (the run `trust_revoke_in_flight`).
  `RevokedStaysRevoked` excepts the same pairing: a grant it had read is back if it
  was revoked before the pairing wrote. `LoneForgetClosesSessions` is for calls that
  do not overlap; `trust_forget_in_flight` and `trust_auto_connect` show what overlap
  does.
- **A forget that fails halfway.** When `endpoints.forget` fails, `forget` returns
  before it closes the sessions (`runtime.rs:754`).
- **A confirmed candidate that fails.** `NoRivalOfTheWinner` leaves it out: it
  gives the permit back (`runtime.rs:1384`), a second candidate may win, and the
  peer may register the first one afterwards, over the winner.
- **`SameInitiatorIsReconnect`** is for direct sessions whose dialler still has its
  end. A relay dial takes no dial lock (`relay.rs:30`) and may overlap a direct
  one; and a dial that timed out after its `SessionAccepted`, or whose node has
  closed it since, may be registered by the peer over the next one, until the
  close arrives.
- **`OpposingDialsConverge`** is for direct dials without timeouts: with a relay the
  two nodes may close each other's choice, and with a timeout the peer may
  register a handshake its dialler has given up.
- **`HeldSessionIsInTable`** speaks of sessions whose `Arc<Session>` is held. A
  connection that only a feature stream keeps open loses its entry at the next
  `active()` (`runtime.rs:1050`), and `disconnect` and forget do not reach it.
- **`SnapshotFollowsTables`** is for emits that do not overlap. Overlapping ones may
  publish in reverse order, so a route just observed may be missing until the
  next emit.
- **`LoneCallsSettle`**: overlapping calls of `set_discoverable` and
  `update_metadata` may leave flag, announcement and metadata different.
- **`GatewayWithdrawable`** excepts a record the daemon refused to unregister; the
  result is ignored and the name is gone (`discovery.rs:148`).
- **`CancelStopsTheScan`** is about a cancel that finds the scan in its loop; one
  that comes before the flag is reset (`scan.rs:48`) is lost.
- **`RateLimitHolds`**: the window starts at an attempt, so a sliding window may hold
  up to `2 * MAX_ATTEMPTS - 1` admitted probes, not `MAX_ATTEMPTS`.
- **`NoOneSidedSession`** is about an end that keeps its connection. A finished end
  may close at once (a duplicate that `register_session` drops, no subscriber, a
  probe), and its close may overtake its last message, so the other end fails; and
  an end that timed out after its `SessionAccepted` leaves the other one finished
  until the close arrives.
- **`StoresAgree`** needs at most `Limit` rows and rows of this pairing only: the
  in-memory store drops the rest at once, SQLite when it answers, and the
  in-memory rows written after a forget outlive it. Only SQLite has an age limit.
- **`IdentitySurvivesFaults`** holds for the Unix build. Elsewhere `private_write` does
  not sync the directory (`identity.rs:208`), which is the mutant `SyncNothing`.

## Fairness

Weak fairness throughout means that tokio polls every task that is ready. No
environment action (a dial, a peer's message that need not come, a crash, a
dropped caller, shutdown) is fair.

- `PeerPair`: every task step of every connection, and the delivery of a close,
  which QUIC delivers or replaces by its idle timeout. A handshake whose
  connection is up needs no timeout to go on.
- `DialRace`: each candidate, each cancellation and the loop.
  `HANDSHAKE_TIMEOUT` wraps everything after a candidate's sleep, so a candidate
  can always fail.
- `Handshake`: each connection's progress, which is the delivery and handling of
  the next message, a refusal or a noticed close; timeouts are not fair, so
  `HandshakesEnd` does not rest on them.
- `Discovery`: each step of an emit, and the consumer.
- `LanScan`: each step of a scan, and the end of each probe, which has its own
  timeout.
- `FeatureStreams`: the header tasks (they have a timeout) and the selection of a
  caller that holds the lock. Patient callers call again, and get the lock under
  strong fairness: tokio's mutex is a queue.
- `RelayTunnel`: the call, the watcher and the bridge of each end.

`SessionRegistry`, `Trust`, `EndpointHistory`, `IdentityStore`, `Visibility`,
`WebGateway` and `ProbeRate` state safety only.

## Proofs

Each theorem is for every value of the constants under the named assumption.
The inductive invariants were also checked with TLC, on the instances of the runs.

**SessionProofs** (the session table), from `ConstantsOK` (ids are naturals, the local id is
not a peer's, the bounds are positive). `TypeCorrect`, `TableHoldsAdmitted`,
`RetiredListSound`, `NoStrandedSession` are the four invariants of the run,
`RetiredStaysOut` and `ArbitrationSafe` its action properties,
`OneLiveSessionPerKey` a consequence. `IInv` is the conjunction of the four, which
support one another: that a displaced session is closed rests on the entry
being admitted under its own key, and that the list stays free of repetitions
rests on the current instance not being in it, which the obsolete check keeps
up. `RegisterSessionIInv` carries the argument; `RetireOne` states what appending
and trimming does to a list.

**SessionProofs** (the endpoint race), from `RaceConstantsOK` (at most 16
candidates, as `race_endpoints_on` takes; a capacity; `None` is not a connection): `WinnerHasNoRival`,
`NothingLeftBehind`, `RecoveryIsClean`, `ShutdownEndsTheRace`. `RaceInv` says, per
candidate, which phases may have an open connection, a sent confirmation and
the selection permit (`CandidateOK`), that the winner holds the permit
(`WinnerOK`), and that a recovery endpoint made while shutdown runs is one that
shutdown closes (`HaltOK`). The permit is what excludes a rival.

**PeerPairProofs**, from `PairConstantsOK` (the bounds are naturals).
- `EndsAgree`, for all faults. `PairInv` ties the stages of an end to its table, its
  dial lock and what the other end has sent. An end whose registered connection
  is still up has it in its table, so at rest a connection that only one end uses
  would still have a close on its way.
- `DialsConverge`, for direct dials of any number. By `CalmInv` there is always a
  favourite, open at both ends: the one connection node 1 has dialled, or, while
  node 1 has dialled none, the one of node 2. No `register_session` closes it,
  because it outranks whatever it meets, and so neither node dials beside it;
  node 2 dials again only after node 1's connection has displaced its dial
  (`Outranked`, `Followed`).
- `SameInitiatorReconnects`, for all faults: the dial lock is held until the
  dialler's task ends and a node dials only while its table holds no live session,
  so at the moment of a direct dial the dialler has closed its ends of the earlier
  direct ones (`Redialed`, `SuccessionInv`). An earlier connection whose end the
  dialler still has therefore cannot meet a later one.

**PeerPairRefinementProofs**, from the same assumption and from `PairInv`.
- `NodeImplementsRegistry`: a node that does not restart implements `SessionRegistry`,
  step by step; `Node1Refines` is the statement the run checks. Each action of the
  pair is an action of the registry of the node it happens at and, at the other
  node, a stutter or an action of its environment (a close that arrives, a
  restart). `PairInv` is needed because the registry's session records exist only
  from a certain stage on.

**HandshakeProofs**, from `HandshakeConstantsOK` (the bounds are naturals).
`ConsentIsMutual`: `ConsentAt` says what each end knows at each stage from the
messages it has read, so consent at the last stage follows from what the other
end had to check before it could send. `PermitsNeverLeak`: `Balance` equates the
free permits and the holders; it is preserved because each step changes the set
of holders by the one end that it moves, which the cardinality lemmas express.
`HandshakeIsMutual`: by `SettledInv` an end that has sent its acceptance fails
without a timeout only because the other end is gone, so not while that end has
finished and keeps its connection.

**PeerRecordsProofs**, from `TrustConstantsOK` and `RecordConstantsOK` (finitely many
tasks).
- `NoOrphanRows`, `RevokedIsClosed` and `NoGrantReturnsByItself` for any number of
  calls, overlapping in any way, crashes and storage errors: the last two are about
  `TrustSpec`, which is `Trust` with three history variables and none of the run's
  restrictions. `GrantInv` says that a session with a grant that is gone has a call
  on its way to close it, unless a forget has failed halfway or a stale read has
  been used; and that what a pairing is about to write holds no grant of `gone`.
  `ScenariosAreTrust` carries both to the run.
- `LoneForgetCloses`: the property of the sequential scenario, storage errors
  included. Without a pairing no session of a guarded kind exists or is being made,
  unless a forget is about to close it.

**EndpointHistoryProofs**, from `HistoryConstantsOK` (finitely many addresses; a
mapped address is not its plain form; the cap in the SQL statement is above the
largest backoff).
- `StoresAlwaysAgree`, `FreshAlwaysOffered`, `BackoffRespected`: the endpoint history,
  for any addresses, limit, backoff and overlap of calls. `StoresInv`: an address has
  one row in each store and the same in both, and a row of the table that the
  in-memory list lacks was pushed out by a full list of rows no older, unless a
  late success has aged one since. `ReportInv`: a row's backoff is what the last
  reported call gave it. Under them, a table of at most `Limit` rows is the list
  itself; a fresh row missing from an answer would have `Limit` other addresses
  before it. `KeepsNewest` is the lemma about sorting and truncating: what is dropped
  is no newer than what is kept. It rests on `SortPermutes`, that the ranks of the
  rows are a permutation of the places.

**ReachProofs** (discovery), from `DiscoveryConstantsOK` (stamps are naturals; the browser
and the consumer are tasks of their own; `NoAd` is not an advertisement): `SnapshotFollows`. While
emits do not overlap, the one that runs carries what the tables hold so far
(`LoneEmit`): the authenticated routes after its first read, the merge of both
tables after its second, because every change of a table starts an emit and so
none happens between the reads. After an overlap nothing is claimed until an
emit has run alone.

**ReachProofs** (visibility), from no assumption: `CallsSettle`, of `VisibleSpec` in
`MCVisibility` (`Visibility` with its two history variables). `VisibleInv` says what
flag, metadata and announcement are at each step of a call that runs alone
(`LoneOK`), its failures included.

**ReachProofs** (relay tunnels), from `TunnelConstants` (finitely many relays, a natural
capacity): `CapacityNeverLeaks` by the same kind of balance as the handshake
permits, over the tunnels that are being made or have an owner;
`NoTunnelOutlivesShutdown` from `SweptOK`: once shutdown has swept the list, no call
holds the lock or can add an endpoint.

**NodeServicesProofs**, from `ServiceConstants` (natural bounds, finitely many
streams). Each service is proved alone, and `ServicesCorrect` carries the results
over to the specification of the run. `ReachTakesPart` says that a behaviour of the
run is one of `VisibleSpec` and of `RelayTunnel`, about which ReachProofs is.
- `IdentityForever` from `WritesInOrder`: a key on disk means that its certificate and
  the root key were synced before it, so a power loss cannot take them from under
  it; the property itself is not inductive, because the danger is in what is
  durable.
- `GatewayNeverLost`: an announced name is stored or about to be.
- `CancelIsPrompt`, because a scan past its check is in the one position from which it
  still spawns; `ScanStaysBounded`, because it waits for a slot before each spawn.
- `RateLimited`: `RateInv` says of a source with an entry that the first attempt
  counted in it is as old as its window, and that whatever was admitted
  `MAX_ATTEMPTS` probes before that is older than a `WINDOW` (`LogOK`). So the probes
  of the current window and those of the one before cannot all be younger than
  `WINDOW`. Pruning removes only entries whose window is over, because
  `Keep >= Window`: the code's 60 and 10 seconds.
- `NoStreamLost`, and `HeaderSlotsBounded`: a stream is accepted only when a slot is
  free, and dropping a caller frees or takes none.

Model-checked only is liveness, which is out of the prover's reach:
`Settles`, `HandshakesEnd`, `PublishingStops`, `ScansEnd`,
`CompleteStreamsServed`, `RelayEndsCleanly`. So are the six properties that the
code does not have.

## Not modelled

- The codecs: `decode_service` and `service_info` of a DNS-SD record, SQLite
  columns, message framing and its limits. They are pure functions of bytes,
  covered by unit tests; the models start from their accepted outputs.
- Cryptography: signatures, certificates, channel binding. A signature verifies,
  a device is its id.
- The wire messages of pairing (`begin_pairing`, and the exchange inside
  `complete_pairing`): `Trust` starts from the approved result.
- `discover_at` and `connect_paired_at`: host name resolution, address filters and
  a sequence of probes or one dial, without state of their own. The choice of
  the addresses to scan is one step of `LanScan`: its priority of interfaces has
  no effect, because a `BTreeSet` sorts the candidates again before two are taken
  (`scan.rs:55`).
- Datagrams inside a relay's bridge. `accept_input_relay` hands the registered
  winner to `incoming` also when its own session lost (`relay.rs:100`); consumers
  of that channel are outside the repository.
- Schema migration of the repository, diagnostics, error texts, CI scripts.
