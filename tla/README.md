# A verification project for the VOTV co-op mod (Multivoid)

Multivoid turns a single-player Unreal game into a host-authoritative co-op
session. A DLL inside every player's game keeps a `Session` (GameNetworkingSockets
underneath), mirrors the world, and moves each change over it. This directory
models the part everything else stands on: who is let into a session, who owns
a player slot, what two threads may do to that slot at once, and what becomes of
a message sent to it, reliable or not; and two protocols of the game that stand on
it: who is at a device that takes one player, and how a joiner comes to hold what
the host holds.

In what follows `coop/` is `src/src/votv-coop/src/coop/` and its headers are in
`src/src/votv-coop/include/coop/`. *GNS* is GameNetworkingSockets.

## 1. Inventory

Every process has three threads that matter. The **net thread**
(`Session::NetThread`) loops: dispatch GNS status callbacks, sweep the pending
band, drain received messages, send streams, drain send backlogs. The **game
thread** ticks `net_pump::Tick`, which conforms the roster ledger and dispatches
reliable messages. The **render thread** draws UI from published snapshots and
posts work to the game thread.

| Component | State | Operations | Correct when |
|---|---|---|---|
| Admission band (`net/session_status.cpp`, `session.cpp`, `peer_admission.cpp`) | `pendingConns_`, `pendingSinceMs_`, `g_host[]`, `provedGuidBySlot_` | park, evict, late-park, sweep, hello, proof, refuse, supersede, admit | a seat is spent on a proof only; every socket has one owner; a rejoin supersedes its ghost |
| Slot lifecycle (same files) | `peerConns_`, `peerGenBySlot_`, `peerLanesConfigured_`, `expectedEpoch_`, `reliableInbox_`, `state_` | admit, close callback, `Kick`, `KickWithToken`, `FatalCloseSlot`, receive | nothing of a departed peer reaches its successor; a teardown never hits a successor |
| Roster ledger (`player/roster_ledger.cpp`) | `g_rows` | `ReconcileFromSession`, `InstallRow`, `ClearRow`, `SetNick` | rows are the occupants' |
| Dispatch and handshake (`dispatch/event_feed.cpp`, `session/player_handshake*.cpp`) | `g_joinSent`, rows | drain, Join, version refusal | a Join finds its sender's row |
| Moderation (`moderation/`) | tokens, ban list | kick, ban | a stale token does nothing |
| Send backlog (`net/send_backlog.cpp`) | a queue per slot and lane, its handle stamp | `SendOrQueue`, `Drain`, `CheckFatal`, `FreeSlot` | FIFO and lossless for one connection, nothing for the next |
| World-ready gate and relay (`net/session_relay.cpp`, `session/join_seed.cpp`) | `slotWorldReady_`, `relayEligible_` | announce, relay, seed | a joiner receives each change once |
| Streams (`net/session_streams.cpp`, `_npc`, `_worldactor`, `_trashcarry`) | last sequence and snapshot per slot | store, read, fan out | newest wins over reorder and wrap |
| Save transfer (`save/save_transfer.cpp`, `net/blob_chunks.cpp`) | a stream per slot, an assembler | request, capture, chunk, cancel | whole or not at all, to the peer that asked |
| Elements (`element/`) | registry, deferred mirrors | register, mirror, defer, reveal, delete | one identity, one object; nothing stays hidden |
| Props and join sweep (`props/`) | claims, snapshot cursors | snapshot, claim, sweep | the sweep spares what the host has |
| Intent and occupancy (`element/intent_authority.cpp`, `interactables/device_occupancy.cpp`) | grants | request, grant, release | one holder; released when the holder leaves |
| Chat and nicknames (`comms/`, `player/nickname_arbiter.cpp`) | line numbers, names | post, replay, assign | unique names, ordered lines |
| Creatures, interactables, items, world state | a lane per feature | host-driven copies | converge to the host |
| UI, loader, hooks, engine wrapper, config, probes, lobby services | – | – | outside a protocol model |

Components interact through the `Session`: the net thread writes slots and the
inbox, the game thread reads generations and pops the inbox, and both may tear a
slot down. That sharing is the hard part: a slot is six words written one at a
time, slots are reused lowest-free with no pause between two occupants, and a
batch of messages carries routing data captured when it was received.

`PROJECT.json` lists these components with their status, and under `hazards`
each place where this code is hard to test.

## 2. Modules

**`LobbySeats`** is the abstract specification: seats 1..N, a player identity
sits in at most one, an arrival takes the lowest free seat and gives up any older
seat of its own in the same step, a seat is lost by leaving. It mentions neither
bands nor sockets nor proofs.

**`AdmissionBand`** is the host's net thread admitting joiners.

- State: `socket`, `connectedCb`, `tag` and `mail` are GNS (a handle's state, a
  queued Connected callback, the user data, unpulled messages); `pend`, `age`
  and `exch` are the band and its exchanges; `peerConns` and `provedGuid` the
  seats; `batch` the messages of one `ReceiveMessagesOnPollGroup`; `client` the
  remote end's progress; `phase` the position in a pass.
- Actions: one for each branch of `HandleConnStatusChanged` (`ConnectingEdge`,
  `RefuseConnecting`, `ConnectedEdge`, `LateParkEdge`, `RefuseLatePark`,
  `ClosedEdge`), `SweepPending`, `ReceiveBatch`, one for each outcome of
  `HandlePendingMessage` (`DropMessage`, `RefuseMessage`, `OpenExchange`,
  `AdmitProved`, `RefuseFull`), `EndPass`, the remote ends and the clock.
- Atomicity: all handlers run on one thread, so a handler is one step. Callbacks
  run only at the top of a pass and never between two messages of a batch, which
  is what `phase` says. Teardowns by the game thread are left to `SlotLifecycle`.
- Abstracted: signatures and nonces (a proof verifies iff the remote end holds
  the key, and only a socket that received this socket's challenge can answer
  it); every way a message is malformed is `"bad"`, every ignored one `"noise"`.

**`SlotLifecycle`** is one slot from admission to teardown under both threads.

- A step is one atomic store or one critical section, in program order; `pc`
  tells where each thread is and `back` where it returns after a teardown
  (`KickClaimed` has four callers). The teardown steps `TearLanes` ...
  `ClearInbox` are shared by the close callback and both threads' kicks, as
  their code is the same list of writes in the same order.
- Net thread: `ClosedEdge`/`Unregister`, `ReceiveBatch`, `HandleReliable`,
  `DropStaleEpoch`, `AppendReliable`, `HandleProof`, `MintGeneration` ...
  `PublishGuid` (`AdmitPending` word by word), `FatalCloseSlot`.
- Game thread: `ReconcileDeath`/`ReconcileBirth` for each slot, `PopReliable`,
  `PopJoin`, `HandleJoinMessage`, `RefuseJoin`, and the token-checked kick
  `CaptureToken`, `PostedKick`, `CheckGeneration`, `ClaimByHandle`.
- Abstracted: the exchange (a parked socket's proof is on the way), message
  payloads (a Join or another message, numbered in sending order), the send
  backlog, lanes as one flag. A handle is never reused, and a peer's senderEpoch
  is its handle, for a client session connects once.
- `genOf`, and the sender kept in an inbox entry, are history: no guard reads
  the former, and the latter stands only for what is inside the Join.

**`SendBacklog`** is the reliable send path of one slot; slots share nothing
there, each having its own mutex and queues.

- A critical section of the mutex is one step: `SendThrough`, `SendRefused` and
  `SendQueued` are the outcomes of `SendOrQueue`, `Drain`/`DrainForeign` and
  `CheckFatal` the net loop's pass, `FreeSlot` the teardown. Reading the slot's
  handle before (`LoadHandle`, `BeginPass`) is a step of its own, for that is
  where a thread's view goes stale. `Drain` may stand for up to `kDrainPassCap`
  sends: what GNS, the save pump or a dying link do between two of them has the
  same outcome before or after the pass.
- GNS is `link`, `pending` (it takes a message iff the buffer has room) and
  `Transmit`. `TrySendReliableToSlot` is the save pump, which does not queue.
- Abstracted: every message has one size, which the code's sizes allow because a
  chunk (56 KiB) and an event are both smaller than the reserve (64 KiB).
  `episodeOpen` is `total > 0`, and the clock counts only then.
- `stream`, `promised`, `moved` and the addressee in a message are history.

**`LaneChannel`** is the abstract specification of that path as one connection sees
it: lanes that are each first in first out, a flush that empties them by priority,
and a loss that takes what waits in all lanes at once, or nothing. It knows no
slot, handle, lock or buffer. `SendBacklog!PrivateChannels` says that the slot's one
recycled backlog implements such a channel for each connection that ever holds it;
what waits for a connection is the queue while the stamp is its own, and nothing
otherwise.

**`DeviceOccupancy`** is who is at which enterable device: the host's table, each
client's mirror of it, and the claims that travel between them.

- State: `table` and `mirror` are `g_busy` of the host and of each client;
  `screen`, `seen` and `claim` are a player's `activeInterface`, `g_localWidget`
  and `g_localKey`; `pinger` and `fsmHold` the desk's ping attribution; `ready`
  the world-ready gate; `up` and `down` a client's Normal lane, each way, in which
  claims, releases, ping edges and the announce share one order.
- Actions: `Enter` (the deny gate of `OnUseInputPre`), `Exit`, the two polls
  `ClientTick` and `HostTick`, the ping's `StartPing`/`EndPing` and
  `AssertFsmHold`/`DropFsmHold`, the host's handlers `OnClaim`, `OnRelease`,
  `OnPing`, `OnWorldReady` (gate and snapshot), the client's `OnVerdict`, and
  `Join`, `Announce`, `Leave`, `DisconnectSlot`, `DisconnectAll`. A forced exit is
  dispatched into the engine and may fail; the player then keeps the screen. A
  client without a local player forgets the claim instead (`ForgetClaim`).
- A leaver's roster row ends on every other client too (`Pulsed`, `OnRowEnd`), which
  then drops its entries from the mirror without a verdict. The row travels in the
  same lane behind the releases, so it should find none: `MirrorCatchesUp` says so.
- A client enters first and asks afterwards, so the interesting states are those
  in which two players are at one device and messages are on the way.
- Abstracted: slots are players; a joiner takes a slot only after the game thread
  has seen the predecessor out (`JoinSeed` models the race where it has not);
  `session.connected()` is "somebody is linked"; the queue for claims made before
  the client knows its slot is left out, as it knows it long before it has a world.

**`JoinSeed`** is how a joiner comes to hold the host's saved signals. It composes
the world-ready gate of the slot, the relay's gate, the save and the photograph
taken with it, the ready-edge seed, the lane's polls on both sides and the
reassembly of a row from its chunks.

- State, by owner: the host's lane (`store`, `fresh`, `gone`, `tombs`, `got`), its
  slot (`occ`, `eligible`, `inbox`, `known`, `ready`, `snap`, `blob`), the other
  peer (`has`, `peerNet`), the joiner (`stage`, `link`, `jStore`, `jPark`,
  `jTombs`, `primed`).
- Net thread: `NetReceivePeer` (inbox, then relay), `NetReceiveJoiner` (the receipt
  stamp), `Seat`, `Leave`. Game thread: `Reconcile`, `HostPoll`, `Pop`, `OnLine`,
  `OnRequest`, `OnReady` (gate and seed in one step). Joiner: `JRequest`, `JLoad`,
  `JAnnounce`, `JReceive`, `JDrain`, `JPoll`.
- Popping a message and dispatching it are two steps, for the net thread relays
  in between; an announce is dispatched only for a slot the ledger has seen,
  because a tick reconciles, drains, and streams saves in that order and an
  announce follows a whole save.
- A request is answered by a live capture, photographed if the array can be read, or
  by the stale canonical save, which is not photographed (`Captured`, `Fallback`); at
  the ready edge too the array may be unreadable. Without a seed the joiner's rows
  are its save's, and nothing brings them in line: `InStep` and `Converges` speak of
  seeded joiners, `WorldlessHearsNothing` of all.
- Abstracted: a row is its content hash; host and peer edit rows of their own;
  the host sends a row's chunks in one step, a peer's are relayed one at a time;
  the save arrives in one step, a fallback too (any of `Saves`; the probes of the
  canonical file are left out). Time-outs of tombstones and assemblies, the cap
  of the park, failing applies, a second announce after a change of worlds and
  the joiner's own edits are left out.

**`StreamSlots`** is the unreliable pose streams of one client slot: from the client
in it over the host's relay to another client, the *watcher*.

- State: `view` is, at each end, the slot's entry of each channel (`hasRemote_`,
  `lastRemoteSeq_`, the sample, the two stamps); `sent` is `sendSeq_` of the process
  in the slot before it wraps; `up` and `down` are datagrams; `conn` and `seated` say
  whose the slot is, `linked` and `ready` whether the relay serves the watcher.
  `heard`, `mixed` and `unread` are history.
- Actions: `Publish` and `Elsewhere` (a number goes to a sample or to another
  datagram), `HostStore`/`HostDrop` and `WatcherStore`/`WatcherDrop` (the branches of
  `StoreStreamPacket`, with the relay), `Read` (`TryGetRemote...`), `Leave` and
  `WatcherCut` (the resets of the two close paths), `Sit`, `WatcherLinks`,
  `WatcherReady`, and `WatcherStop` (`Stop` and `Start` leave the entries).
- A delivery does not take its datagram away: delivered again it is a duplicate,
  never delivered it is lost, and any order is possible. Numbers are compared after
  wrapping at `2 * Half`, which is 2^32 in the code.
- Environment: a datagram lives for less than `Life` numbers of its process, and no
  entry goes without a sample of its connection for `Half` numbers (`Number`). The
  code takes both for granted; half of 2^32 numbers is months of streaming.
- Abstracted: the five channels differ in whether `ResetPeerRemoteState` clears them
  (`Kept`: it passes over the desk cursor). Invalid samples are never sent. The rest
  of a batch whose slot is torn down meanwhile is `SlotLifecycle`'s (finding 1).

`MCAdmission` and `MCSlots` give the identities of the sockets, `MCDevices`,
`MCJoin`, `MCBacklog` and `MCStreams` the instances. The definitions that begin with "Variant" beside a definition are plausible mistakes in it; they
are used by no action and each shows that a property can fail.

## 3. Runs

| Run | Instance | Question | Result |
|---|---|---|---|
| `admission_safety` | 3 sockets (two of one player, one that misbehaves), band 2, 2 seats, deadline 1 tick, filter on | `TypeOK`, `SocketOwned`, `ExchangeDiesWithEntry`, `OneSeatPerIdentity`, `SeatedByProof`, `RejoinNeverRefused`, `LobbyRefinement` | holds, 1.05 M states |
| `admission_live` | the same sockets, well-behaved, band 1, 1 seat, no filter | `BandDrains` | holds, 28 k states |
| `slots_turnover` | 2 players, 2 slots, 2 messages each, no game-thread kick | `TypeOK`, `GenPublishedFirst`, `InboxIsOccupants`, `EpochIsOccupants`, `StateMatchesPeers`, `RowsConform` | holds, 0.5 M states |
| `slots_kick` | 3 links (a drop and its rejoin, refused for its version, and a third), 1 slot, 1 admin kick | `NoDeadSeat`, `TokenKicksItsTarget` | holds, 4.7 M states |
| `slots_epoch` | a drop and its rejoin, 1 slot | `EpochIsOccupants` | **violated** |
| `slots_generation` | 2 players, 1 slot, 1 admin kick | `GenPublishedFirst` | **violated** |
| `backlog_turnover` | 2 connections, 2 lanes, 4 messages, buffer of 3 with a reserve of 1, cap 2, one kick | `TypeOK`, `StreamInOrder`, `VerdictHasQueue`, `LostByStrangersOnly`, `CondemnedByItsOwn`, `PrivateChannels`, `SentOrClosed` | holds, 0.6 M states |
| `devices_occupancy` | a host and 2 clients, linked and announced or not, 2 devices one of which is the desk, 3 events | `TypeOK`, `ClaimIsAccounted`, `OneAtADevice`, `MirrorCatchesUp`, `HolderIsHere`, `ClaimIsDecided` | holds, 0.9 M states |
| `join_seed` | one row of the host's, one of a peer's in 2 chunks, 3 edits, 2 occupants of the slot | `TypeOK`, `InStep`, `WorldlessHearsNothing`, `Converges` | holds, 1.0 M states |
| `join_duplicate` | one row of the host's, 1 edit, 1 joiner | `NeverTwice` | **violated** |
| `streams_newest` | 2 clients in turn, a channel that is reset and one that is not, 5 numbers that wrap at 4, datagrams that live as long as half of them | `TypeOK`, `HostShowsNewest`, `WatcherShowsNewest`, `WatcherBehindHost`, `NewIffUnread`, `NewestWins` | holds, 2.8 M states |
| `streams_watcher` | 2 clients in turn, a pose | `NewcomerShownByWatcher` | **violated** |

Bounds. Band, seats and sockets are the smallest at which an eviction, a
recycled index, a full lobby and a supersession all happen: an eviction needs
one socket more than entries (the live run), a recycled index two sockets
through one entry, a supersession in a full lobby two seats and three sockets.
Time is a counter that stops at the deadline: with a deadline of one tick an
entry is young or expired, and no guard tells more. `MaxMail` bounds what a
misbehaving socket has in flight, `MaxMsgs` what a seated peer sends, `MaxKicks`
the admin's kicks; handles are finitely many because they are never reused. In
`SlotLifecycle` two links through one slot show every predecessor/successor
race, and the kick run adds a third for kicks between three occupants.
In `SendBacklog` the buffer holds three messages, so that the reserve gate, the
pass cap and a full buffer are three different limits, and four messages are
enough to exceed the cap of two behind one that went through, or to leave a
predecessor's queue in a successor's way; a tick is any time in which the loop
comes by, and `NoProgress` of one tick tells "progress since" from "none".
In `DeviceOccupancy` an event is a device entered, a ping started, a join or an
announce, and a run starts with any set of clients linked and announced: three
events are a race of all three players for a device, or a rejoin, or a ping that
outlives its player's seat while another sits down; what ends (exits, releases,
departures) is not bounded. Two devices are enough to let go of one on the way to
another, and two clients to be told of a third party. In `JoinSeed` three edits put
one line on each side of a gate or a deletion behind its row, two chunks make a
row straddle the announce, and two occupants make a predecessor's flag, stream
and announce meet a successor.
In `StreamSlots` five numbers of four wrap around with datagrams of both sides of
the wrap on the way; two connections, the second numbering from anywhere, put a
predecessor's samples against each of a successor's, a stale one of its own among
them. `MaxStores` is the samples an entry takes between two resets, the number of
`remoteStamp_`.
Deadlock is checked except in the runs of the backlog, the devices, the seed and the
streams: there everything stops once the last connection is closed, or the players
have done what the bound lets them.

What the violated runs show (details under `findings`):

1. *A muted successor.* `HandleMessage` latches an epoch for the slot in the
   message's user data without asking whether the slot still holds that
   connection. A proof that supersedes an older link in the middle of a batch
   leaves that link's later messages in the batch; the first of them latches the
   dead epoch again and every packet of the new link is dropped as stale. The
   ghost's messages also enter the inbox after the teardown's erase, under the
   successor's slot.
2. *A successor without a generation.* `KickClaimed` on the game thread frees the
   handle first and clears lanes, epoch, inbox, generation and guid afterwards by
   slot number. A joiner admitted in between loses them.
3. *A row sent twice.* A row the host's player adds between two polls of the lane
   is in the live array but not in the shadow. If a joiner's announce is
   dispatched before the next poll, the row is in its save or its seed, and the
   poll broadcasts it once more through the gate that has just opened; the
   receiver does not look for a row it holds. A row deleted between two such polls
   is deleted twice, and the second deletion waits as a tombstone for the next
   equal row.
4. *A puppet that stands still.* A client resets the entries of its own connections'
   slots, and its only connection is to the host. When another slot changes hands its
   entries keep the predecessor's number, the relay keeps the origin's, and the
   successor's samples of every channel are stale to the watchers that were there
   before; they go on showing the one that left.

Three more properties are stated beside the others and refuted, without a run of
their own; each falls in a few steps:

- *A Join before its row* (`SlotLifecycle!JoinFindsItsRow`, two players, one slot, no
  kick). Reconcile and drain are two steps of one tick; a slot filled between them
  has its Join dispatched first, and the name is lost.
- *A draining link closed as stalled* (`SendBacklog!DrainingLinkSpared`, one
  connection, one lane, one message, a buffer of 2 with a reserve of 1, a link that
  moves 3). The drain sends nothing while less than the reserve is free, and only its
  own sends count as progress. The save pump, or sends on a lane without a queue, may
  keep the buffer fuller than that for as long as they have something to send; a
  message queued when the buffer was full then waits for 30 s and the connection is
  closed, although the link moved all the time. `SentOrClosed` still holds: the
  close is the other outcome.
- *A cursor that stands still* (`StreamSlots!NewcomerShownByHost`, two clients in
  turn, `Channels` and `Kept` both the desk cursor). `ResetPeerRemoteState` passes over
  the desk cursor, so its newest number outlives the connection. The next client's
  process numbers from 0, and the host drops its cursor samples as stale, and relays
  none, until it has sent as much as its predecessor.

`InStep` says "exactly once" of every row but those the lane does lose count of,
and each exemption is needed (without it TLC finds a counterexample): the rows of
finding 3; deletions that wait as tombstones at the host when the announce is
dispatched (the joiner is seeded the row and never sent the deletion); a row of
which the relay let only the tail through, its first chunks having come before
the announce (the joiner never completes it, and the seed was taken before the
host had); and rows deleted twice before the joiner's lane is settled, for the
tombstones are a map by content and keep one for both. It also leaves out a joiner
that sat down before the game thread saw its predecessor out (`late`): the
predecessor's open gate and save stream then apply to it until the next
reconcile, and `WorldlessHearsNothing` fails for it (`session.h:332`: the gate is
stamped by slot).

`ClaimIsAccounted` leaves out claims made before the client announced its world
(`early`): the notice that such a claim lost is kept back by the gate, and the
snapshot that follows the announce corrects the mirror but not the claim unless
the device is busy by then. The model also shows a state no property forbids: a
client forced out by an older verdict while its newer claim for the same device
is on the way sends no release, as `ForceExitLocal` drops the claim first; the
host grants the claim when it comes, and the device is locked for everybody until
that client enters and leaves it again or disconnects, although
`device_occupancy.h:30` says that the release "covers EVERY exit cause". Two pings
at once overwrite the single attribution word; the code promises nothing for them
and no property is stated.

`slots_turnover` has neither a supersession nor a game-thread kick: a
supersession breaks `EpochIsOccupants` and `InboxIsOccupants` (finding 1), a
game-thread kick breaks these two, `GenPublishedFirst` and `StateMatchesPeers`
(finding 2). What the run shows is that the net thread's own teardown order is
right.

`LostByStrangersOnly` is weaker than the header's "never warn-and-drop", and has
to be: a sender that read the handle before the slot changed hands discards the
new connection's queue (`SendOrQueue` takes the older handle for the newer), and
a game-thread kick that reaches `FreeSlot` after the net thread has admitted a
successor frees the successor's queue. The property says that these are the only
ways to lose a message on a connection that lives.

`WatcherShowsNewest` leaves out the entries that hold, or held since their last
reset, a sample of an earlier connection (`mixed`), and `HostShowsNewest` the channels
that are not reset (`Kept`): those are finding 4 and the desk cursor. `NewestWins`
covers them too:
also there an entry does not go back while it shows one connection.

Fairness. `AdmissionBand!FairSpec` assumes that the net thread's loop goes on
(weak fairness of sweep, receive, handling a pulled message, ending the pass) and
that time passes: `NetThread` runs while the session does, and the sweep reads a
steady clock. It assumes nothing of GNS callbacks, of messages arriving, or of
remote ends. `SlotLifecycle!FairSpec` assumes that each thread keeps taking its
enabled steps; callbacks, peers, links and the admin need do nothing.
`SendBacklog!FairSpec` assumes that a thread finishes what it began, that the
net loop reaches its backlog pass however much it relays in between (strong
fairness of `BeginPass`: the loop's receive part is capped per pass), and that
time passes; the link need not move and the pump need not pause.
`DeviceOccupancy!Fairness` assumes that each client takes its verdicts and row ends and
the host takes a client's messages and sees its departure: both pumps run every frame and
reliable lanes deliver. `JoinSeed!Fairness` assumes the net thread, the game
thread's steps and the joiner's lane go on; in neither need a player play, join,
load, announce or leave. `ClaimIsDecided` and `Converges` rest on no more.
`RowsConform` is "eventually always", for handles are finite and so arrivals
stop: it says the ledger catches up with whatever was left, and it would not
hold of a ledger that misses a replacement.

## 4. Proofs

`AdmissionBand_proofs` proves for every number of sockets, keys, entries, seats
and faulty sockets, any deadline, with and without a filter, from the assumptions
`ConnsAssumption` (0 is no handle), `KeysAssumption` and `SizesAssumption`:

| Theorem | Property |
|---|---|
| `TypeCorrect` | `TypeOK` |
| `ExchangeOwned` | `ExchangeDiesWithEntry` |
| `SeatsAreProved` | `SeatedByProof` |
| `OneSeat` | `OneSeatPerIdentity` |
| `SocketsAreOwned` | `SocketOwned` |
| `RejoinIsAdmitted` | `RejoinNeverRefused` (action property) |
| `AdmissionImplementsLobby` | `LobbyRefinement` |

The inductive invariant grows in four layers, each proved from the ones before.

1. `TypeOK`.
2. `ExchangeInv`: an exchange belongs to its entry's socket, and that socket has
   a key (`ExchangeKeyed`; `AuthHello` refuses the others). The first conjunct is
   inductive only because every path that frees an entry forgets its exchange.
3. `ProofsAnswered`: a proof in the mail or in the batch was sent by an end that
   answered. `SeatedByProof` is not inductive without it: the step that seats
   must know that the proof it reads was an answer. `OneSeatPerIdentity` then
   follows because supersession clears the first ghost *and* there was only one,
   which is the invariant itself; the two are proved together as `SeatInv`.
4. `SocketInv`: `SocketOwned` needs that an idle handle is nowhere
   (`IdleUnowned`, or parking could duplicate it), that mail comes from open
   sockets, and that a batch exists only while it is drained and its live
   messages come from open sockets (`MailFromOpen`, `BatchInDrain`,
   `BatchFromOpen`): otherwise the drain could seat a closed one.

The refinement maps a seat to the key of its occupant. Initial states map to
initial states; `AdmitProved` maps to `Sit` (`AdmissionSits`), a close callback
of a seated socket to `Leave` (`CloseLeaves`), everything else to a stutter.

`SlotLifecycle_proofs` proves for every number of slots, handles, messages and
kicks, with refused Joins and supersessions, from `ConnsAssumption` (the handles
are finite, 0 is none of them), `KeysAssumption` and `BoundsAssumption`:

| Theorem | Property |
|---|---|
| `TypeCorrect` | `TypeOK` |
| `SeatsAreLive` | `NoDeadSeat` |
| `KickHitsItsTarget` | `TokenKicksItsTarget` (action property) |

1. `LifeInv` says where the threads can be and what their registers hold there
   (`NetPhases`, `GamePhases`), that a handle worked on has its generation
   (`Holding`), and that only a proof precedes the generation and only the rest
   follows it (`Wire`, `BatchOk`). `TypeOK` is not inductive without it: the
   generation counter stays in its type because a handle is minted a generation
   once (`Minted`), which holds because a proof is handled by nobody who has one.
2. `SeatInv`: a handle is in one seat at most, it is open there, and a thread at
   `tearLanes` has taken it out before. This is what the claim by exchange buys:
   whichever thread loses the race finds another word there and tears nothing.
   `NoDeadSeat` follows.
3. `TokenInv`: the generation of a taken slot is its occupant's or 0, never a
   stranger's, for only `MintGeneration` writes another value and it writes it for
   the next occupant. So the check before the claim pins the handle, and the claim
   by handle cannot hit the successor.

`SlotTurnover_proofs` adds the assumption `QuietGame` (no posted kick and no
refused Join: only the net thread tears slots down), and `OwnIdentity` (no player
has two links) where the table says so:

| Theorem | Property | Assumes |
|---|---|---|
| `GenerationIsOccupants` | `GenPublishedFirst` | `QuietGame` |
| `StateIsPeers` | `StateMatchesPeers` | `QuietGame` |
| `EpochOfOccupant` | `EpochIsOccupants` | `QuietGame`, `OwnIdentity` |
| `InboxOfOccupants` | `InboxIsOccupants` | `QuietGame`, `OwnIdentity` |

The assumptions are where findings 1 and 2 begin: the violated runs
`slots_generation` and `slots_epoch` drop one each. The first two theorems cover
supersessions, which `slots_turnover` leaves out. The argument for the last two:
without a supersession no teardown happens inside a batch (`NoGhosts`, from
`GuidInv`: an identity published in a slot belongs to a link that was minted), an
admitted connection that is open holds the seat it is tagged with (`LinkInv`,
`TagInv`), so what is pulled was sent by the occupant (`SenderInv`), and a leaver's
epoch and queued messages outlast its seat only until its own teardown clears them
(`EpochInv`, `InboxInv`), before its generation.

`DeviceOccupancy_proofs` proves for every number of clients and devices and any
number of events, from `PlayersAssumption` (the devices are finite, the host is
none of the clients, `None` is nobody and nothing, the desk is a device):

| Theorem | Property |
|---|---|
| `TypeCorrect` | `TypeOK` |
| `HoldersAreHere` | `HolderIsHere` |
| `ClaimsAreAccounted` | `ClaimIsAccounted` |
| `OnePlayerAtADevice` | `OneAtADevice` |
| `MirrorsCatchUp` | `MirrorCatchesUp` |

1. `TypeOK`; it needs that a snapshot is a sequence of verdicts, which rests on
   the devices being finite (`SnapshotType`, `ReleasesType`).
2. `LinkInv`: a slot whose departure is still to be seen has no occupant, a client
   without a link asks for nothing and is nowhere, and an announced client's
   announce is on the way until its gate opens. Without it a message of a leaver
   could put it back into the table.
3. `HolderInv`: `HolderIsHere` together with the same of the pinger, as a ping's
   hold writes the pinger into the table.
4. `ClaimInv`: `ClaimIsAccounted` is not inductive, for three reasons its
   definition names. The claim on the way must have no release behind it; the
   table's entry must not be a ping's, whose end erases it; and a claim that may
   lose must be read with the gate open, or the loss would not be told: either it
   is open or an announce precedes the claim in the lane.

`OneAtADevice` then follows: with nothing on the way a claim can only be the
table's entry, and an entry names one player.

The mirrors rest on it. The module proves what reading a lane does, as lemmas about
`Says` (what the mirror says after the first n messages) and `Good` (reading them all
brings the mirror to x, each release among them is its holder's, and each row end
finds no entry of its slot): two good sequences make one (`GoodChain`), the rest of a
good one is good (`GoodTail`), and so are a verdict alone, a snapshot, and a leaver's
releases, which list each device once (`SetToSeqMembers`), with the row end behind
them. The invariant `MirrorInv` then has a case per action: every broadcast is good
for the table it changes. `MirrorCatchesUp` alone is not inductive: a client the host
does not talk to must have an empty mirror, and nothing but row ends in its lane, or
the snapshot of its next announce, which lists busy devices only, would leave its old
entries standing; and an open gate must be of a slot that somebody is in or has just
left. `ClaimInv` is needed once more: the host releases its own device without looking
at the table.

`SendBacklog_proofs` proves for every number of connections, lanes and messages and
any sizes, from `SizesAssumption` (no size that the code divides its work by is
zero, the pass cap is below the byte cap, the reserve below the buffer):

| Theorem | Property |
|---|---|
| `TypeCorrect` | `TypeOK` |
| `StreamsAreInOrder` | `StreamInOrder` |
| `VerdictsHaveQueues` | `VerdictHasQueue` |
| `OwnVerdicts` | `CondemnedByItsOwn` (action property) |
| `StrangersAlone` | `LostByStrangersOnly` (action property) |
| `BacklogImplementsChannels` | `PrivateChannels` (refinement) |

1. Counting lemmas: the backlog's total, a pass's budget and the lanes' shares of
   it. `TypeInv` adds where each thread is and what handle it holds there
   (`Phases`), that only an admitted connection has been promised anything
   (`Admitted`), and the bound on messages (`SendBound`).
2. `OrderInv`: for each connection and lane the stream and, while the stamp is its
   own, the queue behind it hold that connection's messages alone in increasing
   number (`LanesInOrder`), and a queue with messages has a stamp (`QueueOwned`).
3. `VerdictInv`: a verdict is about a queue that is still there. It rests on the
   pass cap being below the byte cap: a pass cannot empty a backlog that deserves
   a verdict, so the drain before the check never removes what the check is about.
4. `StrangerInv`: what a sender with an older handle can leave in the slot between
   the loop's drain and its check is one message with a fresh clock, which no check
   condemns. Hence a verdict is on the handle's own backlog.
5. Losses: all that was promised to a connection and not yet lost is in its stream
   or its queue (`WholeLanes`), and each action but a stranger's keeps that.
6. The refinement, action by action: `SendThrough` is `Send`, `SendQueued` is
   `Queue`, `Drain` is `Flush` (heads only, and of a lane none while one before it
   waits), the discards and `FreeSlot` are `Lose` for the connection they hit; all
   of them stutter for every other connection.

`JoinSeed_proofs`, with the lemmas of `JoinLines_proofs`, proves for any finite sets
of rows, any saves and any number of chunks, edits and occupants, from
`RowsAssumption` (the rows are finite, host and peer have none in common, a save is a
set of rows, a row has at least one chunk):

| Theorem | Property |
|---|---|
| `TypeCorrect` | `TypeOK` |
| `WorldlessJoiners` | `WorldlessHearsNothing` |
| `JoinersInStep` | `InStep` |

1. `JoinLines_proofs` says what reading lines does, whatever the lines: `Runs(R, a,
   lines, b)` for a relation `R` of single reads. With it a row's copies are a sum
   (`Pending`), a row of the other peer's is a bit that its lines set and clear in
   turn (`Bits`), and an assembler is a counter that wants the parts of a row in turn
   (`Turns`). Queues are appended to, popped, and lose one sender's messages;
   a park and a tombstone count for what they will come to (`Net`, `Parked`).
2. `SafeInv` holds whoever sits in the slot. `TypeOK` is not inductive: a deletion of
   a row the host lacks, or a second copy of one it has, would leave the type, and
   what excludes both is that the host's copy, what is popped, what is queued and
   what the peer has on the wire toggle the row, line after line, to what the peer
   has (`PeerRowsInv`), with each row's parts in turn (`StreamInv`). For the host's
   own rows `fresh` and `gone` bound what a poll will send (`HostRowsInv`).
   `ControlInv` says whose messages are queued: after a teardown none of the
   leaver's, but for one that may be in the game thread's hands.
3. `JoinInv` follows the occupant by stage and by where its one outstanding message
   is: on the wire, in the inbox between lines of the other peer's, in the game
   thread's hands, or taken (`MailUp`, `MailIn`, `MailOut`, `NoMail`). Until the
   announce is received nothing was sent to it (`Closed`), which is
   `WorldlessHearsNothing`.
4. From the receipt on lines are relayed, and the balance is: what the joiner will
   have is the photograph, if there is one (`Holding`; a fallback is none), plus the
   lines *behind the announce* (`Behind`). Lines
   before it are the host's by the time it dispatches the announce; lines behind it
   are relayed. When the announce is dispatched the host holds all that came before
   it, and the seed is the difference between that and the photograph, so the balance
   becomes "what the host will have" (`Answered`), which is `InStep`. An announce that
   is answered by no seed leaves `seeded` false, and nothing is claimed. From then on
   each step adds the same to both sides (`JoinerNext`, `HostNext`).
   `Relayed` is needed for the chunks: the joiner gets the parts of every row in turn
   but of the one that straddled the receipt, which is why that row is exempt.

That the announce cuts the stream at one place, first in first out, is thus the
argument for the whole protocol. The proof uses `~late` where a seat is taken: only
if the game thread has seen the predecessor out are the flag and the snapshot of the
slot those of nobody.

`StreamSlots_proofs` proves for any channels, any of them kept, any width of the
number and any number of connections, from `StreamAssumption` (there are numbers, and
a datagram lives for at most half of them):

| Theorem | Property |
|---|---|
| `TypeCorrect` | `TypeOK` |
| `NewestWinsAlways` | `NewestWins` (action property) |
| `HostNewest` | `HostShowsNewest` |
| `WatcherNewest` | `WatcherShowsNewest` |
| `WatcherNeverAhead` | `WatcherBehindHost` |
| `NewSampleTold` | `NewIffUnread` |

1. Arithmetic of serial numbers, from division with remainder alone: a number is a
   multiple of the width and its wrapped value (`Divided`), two that are less than a
   width apart wrap to the same value only if equal (`Multiples`, `Wrapped`), so of
   two that are less than half of it apart the signed difference tells which is
   ahead (`Verdict`).
2. `StreamInv`: an entry's number is its sample's, wrapped; what is on the way and
   what is shown was sent, and of the present connection within `Life` and `Half`
   numbers. With it a sample of the connection an entry shows is stale exactly when
   it is not newer (`StaleMeansOlder`), and `NewestWins` follows.
3. `ShownInv`: `HostShowsNewest` and `WatcherShowsNewest` together. They are inductive
   only beside `StreamInv`: a delivered sample is compared with the newest heard, and
   the comparison is right because both were sent within half of the numbers. A
   reset forgets what was heard; an entry that is not `mixed` holds no earlier
   connection when a new one sits down.
4. `WatcherBehindHost` needs that what is on the way to the watcher the host has
   taken too: a datagram relayed is not ahead of the host's entry, which never goes
   back (`BehindInv`).
5. `NewIffUnread` needs that a reader's stamp is never ahead (`StampInv`), or a reset
   count could come to the value read before.

Model-checked only: `BandDrains`, `RowsConform`, `SentOrClosed`, `ClaimIsDecided`
and `Converges` (liveness is out of the proof system's reach). Every invariant and
every action property of the passing runs, and both refinements, are theorems; four
of `SlotLifecycle`'s under the assumptions of the table above, for without them they
are false.
The proofs say of the model what the runs say of its instances; that the
model is the code is a matter of reading (`map` in `PROJECT.json`).

## 5. Not modelled

Cryptography (a verifying proof is a fact of the environment), GNS itself beyond
the calls the source makes, addresses and the ban list (one nondeterministic
refusal), `Session::Start`/`Stop`, the client's side beyond hello, proof and the
lanes above, a seated peer that changes its protocol version (`HandleReliable` would
close the link and leave the teardown to its callback), a join whose canonical save
cannot be read after four attempts (no save is announced then; `{}` among `Saves` is
the closest), and the components
of the inventory that no module names. User interface, loader, hooks, engine
wrapper and developer probes hold no protocol state.

The batch streams (`session_npc.cpp`, `session_worldactor.cpp`,
`session_trashcarry.cpp`) and the host's single-value streams (clock, desk, dish,
reel) are not modelled. From reading, the former forget that they hold a batch when the game
thread has taken it, and the test for an older one asks for that flag: an older batch
that arrives after a newer one was taken is accepted, although the files say
"newest-wins".

## 6. Plan

In order of importance; each module with its own MC module, mutants and, where
it says so, theorems.

1. `SlotLifecycle` further: `InboxIsOccupants` and `EpochIsOccupants` with
   supersessions, once the batch is filtered by occupant (finding 1); session
   start and stop, relay stamps.
2. The streams a host originates, single values and batches, over the hosts that one
   process connects to in turn.
3. An abstract joiner that holds the host's rows from its announce on, and
   `JoinSeed` refining it: the lemmas of `JoinLines_proofs` are the bulk of it. Also
   the deletions that wait as tombstones at the ready edge, once their time-out is
   modelled.
4. `RosterLedger`: player numbers, rows on the client, the repair pulse.
5. `SaveTransfer` and `BlobChunks`: chunks, checksum, back-pressure and the
   probes of the canonical file against a receiver that leaves; assembly against a reference definition.
6. `WorldJoin`: snapshot, claims, the divergence sweep, and deferred mirrors.
7. `SessionStop`: stopping against a pass in flight; the client's exchange.
8. `NicknameArbiter`, chat line numbers, the sleep vote.
