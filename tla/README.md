# CraftIP: a verification project

CraftIP makes a Minecraft server behind a router reachable: a *CraftIP client*
next to the Minecraft server keeps a TCP connection (the *tunnel*) to a *CraftIP
server* on the internet, Minecraft clients (*players*) connect to the CraftIP
server under a hostname that belongs to the client's key, and the two sides
multiplex all players of that hostname over the one tunnel. The repository is a
Rust workspace (`src/craftip`) built on tokio.

This directory holds TLA+ models of its core, the TLC runs that check them and
TLAPS proofs about them.

## 1. Inventory

| Component | Source | State | Operations | Model |
|---|---|---|---|---|
| tunnel session on the server | `server/src/proxy_handler.rs` | `Distributor` (slot table behind a mutex), the channel `rx` of `ClientToProxy`, three tasks | packets of the client, messages of the players, abort and unregister | `Distributor`, `ServerSession` |
| Minecraft connections on the server | `server/src/client_handler.rs` | one oneshot, one channel and two tasks per player | `first_minecraft_packet`, lookup, `MCClient::new`, `client_reader`, `client_writer`, `handle` | first packet and lookup in `Socket`, the rest in `ServerSession`, the count in `Registration` |
| registration and handshake | `server/src/process_socket.rs`, `proxy_handler.rs`, `register.rs`, `main.rs` | `Register.servers`, `Register.client_count` behind RW locks | protocol detection, hello, authentication, `add_server`, `remove_server`, `add_client`, `remove_client`, `clean_up_hostname` | `Socket` (detection, time limit, hostname), `Registration`, `HostLock` |
| tunnel client | `crates/client/src/client.rs`, `connection_handler.rs` | `connections`, `connections_len`, two channels, one task per connection | `reader_handler`, `writer_handler`, `ClientConnection::handle_client` and its `Drop` | `ClientAgent`; connected again with its old table in `Lives` |
| connection between the two | `crates/protocol/src/socket_packet.rs`, `packet_codec.rs` | two byte streams | encode, decode | `Codec` and `Socket` (frames), `Wire` (whole packets), `Tunnel` |
| GUI controller | `client-gui/src/main.rs`, `backend.rs`, `gui_channel.rs`, `crates/client/src/client.rs` | `GuiState` behind a mutex, the channels of clicks and statistics, the handle of one connection task | click on connect, disconnect and edit; the controller's `select!`; `connection_loop` with connect, auth, handle and retry; abort | `GuiController` |
| updater | `crates/updater/src/*`, `client-gui/src/updater_gui.rs`, `util/update-tool` | the executable on disk, one thread per running program, its channel of `UpdateState` | publish, look up, download, verify, decompress, replace, restart | `Updater` |
| hello parsing and responses | `crates/protocol/src/minecraft.rs`, `cursor.rs`, `server/src/disconnect_client.rs` | the bytes read so far | parse the three formats of a hello, answer a player whose server is not online | `VarInt`, `MinecraftHello`, `Socket` |
| keys and signatures | `crates/protocol/src/crypto.rs` | none | challenge, sign, verify, hostname of a key | `Crypto`, used by `Registration` |
| statistics publisher, command line client, GUI widgets | `server/src/main.rs`, `crates/client/src/main.rs`, `client-gui/src/*` | none of its own | input and output | not modelled |

How they interact. A socket accepted by the server is either a CraftIP client or
a player. A CraftIP client says hello, signs a challenge and is put into the
register under its hostname, with the sender of its session's channel. A player
looks its hostname up, takes that sender, asks for a slot with
`AddMinecraftClient` and waits on a oneshot for the slot's number, the *id*. The
session's writer assigns the lowest free slot, answers the oneshot and sends
`ProxyJoin(id)` to the client, which opens a connection to the local Minecraft
server. From then on both sides exchange `ProxyData(id, bytes)` until one of
them sends `ProxyDisconnect(id)`. When a reader or writer on either side ends,
its sibling is aborted, channels are dropped, and dropping them is what tells
everybody else.

On the client's machine the window, a controller task and a connection task share
one `GuiState`. A click changes the panel and sends an event; the controller
starts or aborts the connection task; that task and its statistics write the
outcome back into "the active server", the first panel that is not
`Disconnected`. A thread beside them looks for a newer release, replaces the
executable and restarts the program.

What is hard here:

* four kinds of tasks touch one slot table, and ids are reused at once, without
  an acknowledgement, while packets with the old id are still queued;
* nothing but dropped channel ends carries the news of a tear-down: a player
  that waits for an id, a player that plays, the other half of the tunnel and
  the register all have to notice;
* `abort()` is asynchronous: the aborted task may finish the poll it is in;
* bytes arrive in pieces: the protocol, a hello and a frame are recognised in
  whatever is there, a peer may stop anywhere, and a player that pings waits for
  the server in the middle of it;
* the same hostname is registered by several connections, typically by a client
  that reconnects while its old connection is dead but has not timed out, and
  that client keeps the table, the count and the running connections of its
  earlier tunnel;
* GUI, controller and connection task find each other only through the states of
  the panels, which each of them changes while messages of the others are queued;
* an update can fail, or the program be closed, between any two of its steps, and
  two running programs update the same file;
* a local connect fails, a write fails, or the link breaks between any two steps.

`PROJECT.json` lists these hazards at their lines, with the properties that
would catch them going wrong, or a note on what the properties leave out.

## 2. Modules

```
Wire ── Distributor ── ServerSession ──┬── MCServerSession   (TLC)
  │                         │          └── ServerSessionProofs ── ChannelLemmas
  └── ClientAgent ── Tunnel ┘ ──┬── MCTunnel                 (TLC)
        (Tunnel implements Pipe,└── Lives                    (TLC)
         once per direction)          └── TunnelProofs
Sums ──┬── VarInt ── MinecraftHello ──┐
       └── Codec ──┬──────────────────┴── Socket ──┬── MCSocket   (TLC)
                   └── CodecProofs ────────────────┴── SocketProofs
Crypto ──┬── Registration ── RegistrationProofs
HostLock ┘
GuiController ──┬── MCGuiController                          (TLC)
                └── GuiControllerProofs ── ChannelLemmas
Updater ── UpdaterProofs
```

**Wire.** The tunnel connection: one FIFO sequence of packets per direction,
whether an end is closed, and whether the link has failed. `PacketCodec` hands
out whole packets only, so a packet is one element. A packet has the fields the
code reads (type, id) and two ghost fields no action tests: `who`, the player
whose bytes it carries, and `n`, their number. They exist so that properties can
say whose bytes arrive where and in which order.

**Distributor.** The methods of `struct Distributor` as operators on the table.
`remove_by_id_returns` is `TRUE` for every index in range, because the code
returns `true` whether or not the slot was taken.

**ServerSession.** `ProxyClient::handle` from `add_server` on, with
`handle_reader`, `handle_writer` and the players. One action per arm of the
reader's and the writer's `match`, per way of ending, and per step of a player:

| Action | Code |
|---|---|
| `ReaderDisconnect/Data/Ping/Unexpected/Closed/Fails` | arms of the `select!` of `handle_reader` |
| `WriterAdd/TooManyClients/Packet/Pong/Remove/Fails` | arms of the `match` of `handle_writer`, its feed and flush |
| `HandleSelect`, `HandleReturns` | `select(reader, writer)`, `into_disconnected` |
| `ReaderAborted`, `WriterAborted`, `PlayerAborted` | the aborted task stops at its next await |
| `PlayerConnect/Start/NoId` | `MCClient::new` up to, and after, the oneshot |
| `PlayerReads/Leaves` | `client_reader` |
| `PlayerWrites/WriteFails/ChannelClosed` | `client_writer` |
| `PlayerEnds` | `MCClient::handle` after its `select` |

What a drop does is part of the action: `WriterEnds` empties the channel, and
`McTxAlive` says whether a player's channel still has its only sender. The
module is open: `EnvNext` may send any packet with any id at any time. The
socket is `split` with a lock, so it is closed when the second half is dropped.
That `id_sender.send` fails (proxy_handler.rs:256) is not an action: nothing
cancels `MCClient::new` while it waits on the oneshot.

**ClientAgent.** `Client::handle` in the same style. `reader_handler` owns the
table and the count; its `select!` may take a packet or an id of `disconnect_rx`
first. A `ClientConnection` is named by the player whose join created it, which
the code does not know. `ConnEnds` includes its `Drop`, which sends
`RemoveMinecraftClient` unless `need_for_close` was cleared. The write half is
owned, so the client's stream ends as soon as its writer does.

**Tunnel.** Server and client over one `Wire`, the client in place of `EnvNext`;
the fairness and the end-to-end properties.

**Pipe.** What the tunnel promises a player in one direction: what comes out is a
beginning of what went in. `Tunnel` instantiates it twice, with what the player has
sent and what its Minecraft server got, and the other way round. It is abstract and
maps to no code.

**Lives.** A tunnel of a `Client` that `connection_loop` connects again after an
error. It starts with the table, the count and the connections, each in any of
its states, that an earlier `Client::handle` left behind, or with none: the first
life is one of the initial states. The count may be ahead of the table, by up to
`MaxAhead`, because `add_connection` counts again a slot that it overwrites. A
connection of the earlier tunnel is named by a player that is over for the server.
It holds a sender of a `writer_handler` that is gone, so its own end reaches
nobody; all that can end it from inside is that a join takes its slot and drops
its only sender.

**VarInt, MinecraftHello.** Varints byte by byte, with the sign in the fifth; the
test vectors of `crates/protocol/src/test.rs` are the assumption `TestVectors` of
`MCSocket`. (`Sums` is the sum both need, of bytes or of lengths.) A hello is a record of its fields, and a parser is asked what it makes
of the first n bytes: each parser is the sequence of its reads and checks, of which
`propagate!` returns the first that is not `Some`. A hostname is the sequence of
its labels with the marker of a mod behind it; `clean_up_hostname` works on that.

**Codec.** `encode_into` and `decode_from`: the u16 that holds type bit and length,
the client id cut to 16 bits, the subtraction that would overflow. Payloads and
what bincode produces are numbers of bytes.

**Socket.** One connection from the accept to the place where `Registration` or
`ServerSession` takes over: `peek` until the identifier can be told, the hello read
and parsed from the start each time more has arrived, the lookup, the answer to a
player whose server is not online with the ping that follows it, and for a CraftIP
client identifier, version and frames.

| Action | Code |
|---|---|
| `Peek`, `ReadIdentifier`, `ReadVersion` | `process_socket_connection` up to `ProxyClient::new` |
| `ReadHello` | the loop of `first_minecraft_packet` |
| `Lookup` | `clean_up_hostname` and `get_server` in `handle_minecraft_client` |
| `Answer`, `ReadPing`, `EndOfPing`, `Pong` | `handle_mc_disconnect` |
| `Decode`, `ReadFrames`, `EndOfFrames` | `Framed` over `PacketCodec` |
| `TimeOut`, `ReadFails` | `timeout` around each of these, errors of the socket |
| `Arrive`, `PeerCloses`, `RegisterChanges` | the peer and the other connections |

**Crypto.** Challenge, signature and hostname as terms. Assumed are what ed25519 and
chance promise: only the holder of a key signs with it, 64 random bytes are drawn
once, two keys do not share a hostname.

**Registration.** `process_socket_connection` for CraftIP clients: hello,
challenge, signature, registration, the response, the tunnel (which here only
serves until it ends), and the unregistration; for players the counter. A client
claims a key and a hostname, which need not belong together; `holds` is the key it
can really sign with. It may answer a challenge with its own signature or with any
signature that was made in another connection.

**HostLock.** What the register promises: one lock per hostname.

**GuiController.** The window, `Controller::update` and `connection_loop`. State:
`panels` (`GuiState::servers`: state, whether the address is being edited, the
local address), `gui` and `stats` (the two channels of the controller), `task`
(the connection tasks, with the await they are at), `connection_task` (the
handle the controller keeps), `poisoned` (a thread panicked with the mutex
locked, which ends the program), and the history variable `doubled`.

| Action | Code |
|---|---|
| `ClickConnect/ClickDisconnect/StartEdit/EndEdit` | a frame of `MyApp::update` with a click; other panels are disabled while one is active |
| `ControllerStats/Connect/Disconnect` | arms of the controller's `select!` |
| `Slept`, `Connect`, `Auth` | `connection_loop` up to the outcome of an attempt, `Client::connect`, `Client::auth` |
| `Report`, `ReportBroken` | the outcome written with `set_active_server(..)` |
| `Serve`, `HandleReturns` | `Client::handle`: its statistics and its end (its inside is `ClientAgent`) |
| `Cancelled` | an aborted task is dropped where it waits |

`abort()` marks a task; the task ends only in one of the states `Awaits`, so one
that has an outcome in hand writes it first, after the abort. `set_active_server`
followed by `unwrap` poisons the mutex when every panel is `Disconnected`; no
action follows. `doubled` records that Disconnect was sent behind another
Disconnect: a statistic can turn a `Disconnecting` panel into `Connected` again,
whose button is then enabled.

**Updater.** `updater_no_consent` with `Updater::new`, `update` and `restart`, for
several running programs that share the installed executable `exe`. A file is a
version and whether it is whole; `latest` is the newest release, and what the
server answers may mix releases. `get_bytes_for_signature` is modelled by what it
concatenates, a signature by the bytes that were signed. `Quit` may strike
anywhere. `decompress` drops its `BufWriter` without flushing it, which ignores
an error of the last write: that outcome is a disjunct of `Decompress`, and the
history variable `lost` records it. `Show` is the updater arm of the controller.

**Definitions called "Variant"** (with a suffix such as `WriterAdd_Unanswered`) are
deliberately wrong forms of the definition that follows them. No specification
uses them. Each is the change that shows a property is sensitive to the code:
with the variant in place of the definition, TLC violates the property named in
`PROJECT.json`.

**Granularity.** An action runs from one await that can really wait to the next.
A packet fed to a socket is in flight at once: time in the write buffer is time
in flight, and what an abort leaves unflushed is lost with the connection, as a
client that fails before it has read everything loses it.

## 3. What the runs check

| Run | Instance | Properties |
|---|---|---|
| `session` | 2 players, 1 slot, any client, link may break, 1 message per channel | `TypeOK`, `SlotOwnership`, `NoSlotLeak`, `WaiterServed`, `JoinBeforeData`, `NoTakeover` |
| `tunnel` | 2 players, 1 slot, 2 packets each | `NoOrphanConnection`, `CountCoversConnections`, `UpstreamInOrder` |
| `downstream` | 1 player, 1 packet up, 2 down, 1 ping, link may break | `TunnelTypeOK`, `DownstreamInOrder`, `ImplementsServerSession` |
| `lives` | 1 player, 1 connection of an earlier tunnel or none, 1 slot, link may break, fair | `TeardownReachesPlayers`, `JoinIsAnswered`, `BothSidesEnd`, `NothingForOldConnections`, `ReplacedConnectionEnds` |
| `leaving` | 2 players, 1 slot, fair | `LeavingFreesBothSides` |
| `register` | 2 connections, 2 keys, 1 visitor, fair | `TypeOK`, `RegisterMatchesTunnels`, `OnlyKeyHolderRegistered`, `CountBalanced`, `ImplementsHostLock`, `DeadTunnelFreesHost` |
| `socket` | 36 players and 2 CraftIP clients, one at a time; 2 hosts, 1 of them named like the end of the other, fair | `SocketTypeOK`, `HelloAsSent`, `FramesInOrder`, `RoutedToHost`, `PingAnswered`, `AgentHeard`, `SocketEnds` |
| `gui` | 2 panels, 2 tasks, 2 clicks and 1 statistic queued, fair | `TypeOK`, `OneActive`, `NoHiddenTunnel`, `PortShownIsUsed`, `DisconnectEndsTunnel` |
| `updater` | 2 programs, 3 releases, fair | `TypeOK`, `InstalledIsWhole`, `OnlyUpgrades`, `OutcomeShown` |
| `acks`, `isolation` | 2 players, 1 slot | violated, see *Findings* |
| `gui_panic` | 1 panel, 1 task | violated, see *Findings* |

**Bounds.** Two players over one slot is the smallest instance in which an id is
reused and in which the table overflows; several slots are left to the theorems
below, which hold for any number of them. Two data packets show an order, a gap
and a repetition: `UpstreamInOrder` and `DownstreamInOrder` say that the tunnel
implements `Pipe`. One connection of an earlier tunnel and one slot show the join
that takes its place. Two connections and two keys show one that is refused
while the other holds the name, both holding different names, and one answering
with a signature made in the other. Two panels show
the active one next to one that must be disabled; two tasks show a new one next
to one that was aborted and still runs; two queued clicks show every pair.
Three releases show a description that mixes a newer and an older one.

The peers of `socket` cover every format, next state and marker, versions whose
varint takes one, two and five bytes, names with none, one and two trailing dots
and with and without a "random-" label, a wrong length field, and frames from one
byte to the longest there can be. Their bytes are cut anywhere, but not inside a
very long name (`FineCuts`), and for a CraftIP client around the ends of all fields
and frames (`Cuts`). What arrives between two reads counts as one piece, and the
register changes only just before the lookup, the one place that sees it.

`SmallQueues` cuts off the endless queues an unrestricted client could fill; the
theorems have no such bound. `NothingLeft` explores one case of what is in flight
when the task that reads or writes it has ended. `ForeignData` fixes the ghost
field `who` of the data a player receives, which no action and no property of
`ServerSession` depends on. `WhileServing` stops `tunnel` at the end of the
session, after which no packet is delivered any more; `downstream` goes on.
`NotDoubled` stops `gui` at a second Disconnect, after which its properties
promise nothing but type and `OneActive`. Symmetry under permutation of players
is used in safety runs only.

Deadlock is checked where the system runs on: `Finished` and `AllOver` allow it to
stand still only when every player, or every connection, is over. Three systems may
really stop, and their runs do not check it: in `socket` the task of the
connection ends, in `gui` a panic ends the program, and in `updater` an executable that was damaged cannot be started again.

**Fairness** (`FairTunnel`, `FairLives`, `FairSpec`). A task that can make progress is
eventually polled (tokio's scheduler); the kernel eventually reports a closed
stream and the result of a connect; a broken link is noticed after
`TIMEOUT_IN_SEC`, which both readers arm before each packet; `timeout` ends
every handshake. No fairness is assumed of what players, Minecraft servers,
users, CraftIP clients or the network choose to do: sending, leaving, breaking,
answering, and errors on a link that is not broken. Inside one task the
alternatives share one weak fairness condition, since one `select!` or `match`
takes one of them. In `Socket` the task runs
when it can and its timer fires; the peer owes nothing, and
`PingAnswered` and `AgentHeard` are invariants: they speak of states in which
neither side can go on before it hears from the other (`Quiet`). `Waits` is the
server's half of that: what `~ ENABLED Handler` comes to on an open connection,
written out place by place because the provers do not deal with `ENABLED`. In
`GuiController` the controller handles a click that is
queued, an aborted task that waits is dropped, and a task writes the outcome it
has; nothing is assumed of clicks, timers or the network. In `Updater` only
`Show` is fair: the controller is polled when a status is there.

## 4. What is proved

For every set of players, every number of slots, every length of channels and
streams, every client, every peer and every number of panels, tasks and programs.
The assumptions are the named `ASSUME`s of the modules: the "none" values are none
of the real ones, there is at least one slot, bounds are natural numbers, visitors
are finitely many. Two say more. `HostsAssumption`: a hostname in the register does
not begin with a "random-" label nor end in a dot, as the server makes them of a
key. `PeersAssumption`: a player sends one of the hellos of `IsHello`, which
leaves out a length field of 2 (the parser would take such a packet for an old
login, and no hello is that short) and old clients with a mod (there are none); a
player that pings asked for the status with a hello of the new format, as the ping
is a packet of that format only; a CraftIP client sends packets whose length fits
into 15 bits.

* **ServerSessionProofs** — `TypeCorrect`, `SlotsOwned`, `SlotsFreed`,
  `WaitersServed`, `JoinsFirst`, `NeverTakenOver`. None of the invariants is
  inductive alone. `SlotOwnership` breaks at `WriterAdd` if the player it serves
  already has a slot, so one needs that a queued request comes from a player
  that waits and has no id (`AddsWait`) and is queued once (`AddsOnce`).
  `NoSlotLeak` and `WaiterServed` need what a player knows at each stage
  (`IdKnown`) and that the channel goes with its receiver (`ChannelDropped`).
  `JoinBeforeData` needs that queued data comes from players with an id
  (`QueuedOwned`), so that a join never follows the data of its player
  (`NoLateJoin`). `IInv` is their conjunction with `TypeOK`. Steps that touch
  nothing it speaks of are dealt with once (`Inert`), the others one by one.
  That the scan finds the lowest free slot rests on `NatSetHasMin`.
* **TunnelProofs**
  * `TunnelTypes`, `TunnelRefines` and `CountCovers`: a step of server or client is
    a step of `ServerSession` or leaves its variables alone, so the theorems above
    hold of the tunnel. The client's packets are packets `EnvPackets` allows because
    its connections have ids of joins (`ConnHasId`), which are slots by the server's
    own invariant (`JoinsNamed`); the two invariants are proved together
    (`TunnelInv`). `CountCovers` then only has to look at how joins, removals and the
    reader's return change the table and the count.
  * `NoneOrphaned`: a connection exists because of a join, so the argument has to
    begin while the join is still on the stream. `JoinInv` says that a player's
    connection is created once and with the player's id: joins on the stream are
    distinct and for players without a connection, and a player with an id has
    either its join under way or its connection. `JoinEnds` says that such a join
    is for a player that keeps its slot or has its removal queued (`Safe`), or is
    followed by a disconnect of the same id. When the join is taken, that is
    `NoOrphanConnection`. The step where the writer serves a removal is where
    `remove_by_id` must answer `TRUE` for an empty slot.
  * `UpOrdered` and `DownOrdered`: the tunnel implements `Pipe` in each direction. A
    byte passes three channels, two of them shared with other players. For each player
    the invariant takes the sets of numbers that wait in them: they come in order, one
    channel before the next, and nothing is missing between what has arrived and what
    is on the stream (`Flow`); while the first writer runs nothing at all is missing
    (`Full`). Once a slot is lost the rest of the stream no longer counts (`UpAlive`,
    `DownAlive`), and it must never count again, which is where `JoinInv` and,
    downwards, `RepliesOwned` (a reply carries the id of its own player) are used.
    That gives order; that nothing arrives which was not sent is a second invariant,
    over all channels and also for players that have lost their slot (`SentBefore`,
    `RepliedBefore`), and the two together make every step one of the pipe
    (`UpSimulation`, `DownSimulation`). What sending, receiving, skipping and dropping
    do to such sets is proved once, in `ChannelLemmas`, for channels of any kind.
  * `OldGetNothing`, about `Lives`: for a player of this tunnel that has an id, its
    join is still on the stream or its slot no longer holds a connection of an
    earlier tunnel (`Replaced`); data comes behind the join (`JoinBeforeData`, proved
    of the session), so it finds the slot replaced.
  * `LivesUpOrdered`, `LivesDownOrdered`, `LivesTornDown`, `LivesSession`: what holds of
    a first tunnel holds after a reconnect. The invariants above are stated so that
    both specifications keep them. A connection of an earlier tunnel belongs to a
    player that is over without ever having had an id (`Over`), and `JoinInv` speaks
    of the others; `Told` says for which players no such connection exists, all of
    them in a first tunnel, `Players \ OldPlayers` after a reconnect. The steps of
    `Lives` are those of the tunnel, in which an old connection sends nothing
    (`Silent`, which `RepliesOwned` needs: its `client_id` is from another tunnel),
    and the silent end of such a connection (`OldEndLife`). `NoOrphanConnection`
    itself does not hold of the old connections, and nobody promises that it does.
* **RegistrationProofs** — `TypeCorrect`, `RegisterExact`, `KeyHolders`,
  `CountExact`, `RefinesHostLock`. The inductive invariant adds `HostKnown`: a
  connection that has authenticated has a hostname, the one of the key it holds.
  That rests on challenges being different in different connections
  (`ChallengesDiffer`): a signature that verifies was then made for this connection,
  by the client at its other end (`SignedByHolder`).
  `CountExact` is an argument about cardinalities.
* **CodecProofs** — `RoundTrip`: for a data packet of every size up to `MaxPayload`,
  and every other packet below 2^15 bytes, `decode_from` asks for more until the
  whole frame is there and then gives back what `encode_into` was given. The
  argument is in the two header lemmas: below that size, length and type bit do not
  disturb each other, and no remainder modulo 2^15 or 2^16 loses anything.
  `VarintRoundTrip`: the same of `put_varint` and `get_varint`, for every i32. A
  number is the sum of its five groups, the sign with the fifth.
* **SocketProofs** — `TypeCorrect`, `FramesOrdered`, `HelloParsed`, `HelloRecognised`,
  `Routed`, `AgentsHeard`, `PingsAnswered`. For a CraftIP client the invariant
  (`Stream`) says that the head of the buffer is where the next frame begins, so that
  `RoundTrip` applies to it; frames begin at sums of sizes, which grow (`SumGrows`). For
  a player, `HelloParsed` follows the reads of each parser through any number of bytes,
  and the invariant (`Greeting`) says at each place of the handler what has been read,
  parsed and written. `Routed` needs that `clean_up_hostname` gives a host exactly for
  the names that spell it (`Cleaned`): dots go from the end only, one random label from
  the front. `AgentsHeard` and `PingsAnswered` need where a connection can have ended: a
  CraftIP client on an open connection is let go by the timer only, and a player that
  pings only after the pong (`Kept`). At every other place `Waits` leaves, more bytes of
  the peer are due, so the peer has not sent all it could.
* **GuiControllerProofs** — `TypeCorrect`, `ActiveIsOne`, `NoneHidden`, `PortIsUsed`.
  `OneActive` holds because a click activates a panel only when none is active, and
  tasks and statistics write into the active one or panic. The other two need what may be queued: without a doubled Disconnect the clicks that wait are
  at most a Connect of the active panel, with the address it shows, and a Disconnect
  behind it (`QueueShape`); a task that runs is the one of the handle and of the
  active panel, and then no Connect waits (`RunningKnown`); an active panel is not
  edited (`ActiveNotEdited`).
* **UpdaterProofs** — `TypeCorrect`, `ExecutableWhole`, `NeverOlder`, for any
  number of programs and releases. What is installed is what a thread carries, so
  the inductive invariant says what it carries at each step (`Carries`): a
  release newer than the program from `Check` on, exactly that release's archive
  after `Verify`, and a whole file from then on unless `lost`. The step from
  `Verify` is where both parts of the signed bytes, hash and version, are needed.

What a definition computes by recursion is proved where it is a sum: `SumTo` is a
recursive function, and `NatSetInduction` derives induction over a set of numbers
from well-foundedness. (The library's induction theorems that take an operator
cannot be instantiated by the installed provers.)

Only model-checked: everything under fairness (`TeardownReachesPlayers`,
`JoinIsAnswered`, `BothSidesEnd`, `LeavingFreesBothSides`,
`DeadTunnelFreesHost`, `ReplacedConnectionEnds`, `SocketEnds`,
`DisconnectEndsTunnel`, `OutcomeShown`), which is out of the prover's reach. Every
other property of a passing run is a theorem.

## 5. Findings

* `acks`: `remove_by_id` "Returns true if existed" (proxy_handler.rs:71), and the
  writer's comment relies on it to avoid "infinite acks", but it returns true
  for every index in range. A slot that is empty already is disconnected again.
  The tunnel depends on it: with the documented answer `NoOrphanConnection`
  fails.
* `isolation`: ids are reused while packets of the previous owner are queued, so
  its bytes can reach the next owner's connection. The packet type
  `ProxyDisconnectAck` exists and is never sent.
* `gui_panic`: every caller of `set_active_server` asserts that there is an active
  server (backend.rs:53, 59, 95, 139, 160). A connection task that has its outcome
  when Disconnect aborts it, and a statistic still queued then, find none: the
  `unwrap` panics with the mutex locked and the next frame of the window panics
  on the poisoned mutex.

Limits that are stated in the properties and assumptions themselves:

* `NoHiddenTunnel`, `PortShownIsUsed` and `DisconnectEndsTunnel` exempt a doubled
  Disconnect: its second half deactivates the panel of a Connect sent between the
  two, whose task then serves unseen.
* `InstalledIsWhole` says that the executable is not damaged. `Replace` takes the
  external `self_replace` as all or nothing, though on Windows it renames and copies
  and a crash may come in between; the platform of a release is not modelled, so
  nothing is said about whether a whole executable starts.
* `InstalledIsWhole` exempts the lost last buffer, and `OnlyUpgrades` compares with
  the running program: a slow one can put an older release over a newer one that
  another program installed.
* `HelloAsSent` promises a hello of the new format only below 128 bytes (`Proper`).
  `new_pkg` compares the position after the port, which counts the length field,
  with a length that counts the next state instead; the two agree while both take
  one byte. A longer one is read until the timeout, as an invalid one is.
* A payload above `MaxPayload` (32765 bytes) would spill into the type bit;
  `encode_into` does not check it. The relaying tasks read less at once, 2 KiB on
  the server (client_handler.rs:128) and 16 KiB on the client
  (connection_handler.rs:49).
* A data packet that crosses the disconnect of its own connection makes `send_to`
  return an error, which `reader_handler` hands on (client.rs:273): the tunnel of
  every player ends. `lives` reaches it, and shows that both sides and all players
  get to know of it.
* The id of a connection that ended may wait in `disconnect_rx` while the server, told
  on the stream, gives the slot to the next player. Where `select!` (client.rs:249)
  takes that join first, the pending id then removes the new player's connection
  (client.rs:291) and nobody tells the server. The model has both orders. No property
  forbids this one: `NoOrphanConnection` is about the opposite, a connection whose
  player is gone, and `CountCoversConnections` is a lower bound, which the slot that
  is counted twice respects.
* A connection of an earlier tunnel whose slot no join takes stays open until its
  Minecraft server speaks or closes, and is counted until then.

## 6. Not modelled

* The time a ping carries, cut to 16 bits on both ways (client.rs:281): it is only
  shown.
* The text of the status, of the disconnect message and of error packets: what is
  modelled is which of them is written, and when.
* How keys and signatures are encoded, and the key file of the command line client,
  which is sequential input and output around `Client`.
* Processor and memory: back-pressure, the read that spins at the end of the file in
  `first_minecraft_packet`, unbounded channels as such.
* `updater_background_thread`, which nothing calls; the error report of the updater.
* `stats_handler`, logging and the GUI's other widgets, which change no state the
  properties speak of.

## 7. Plan

Done in the order in which a failure would hurt: the session and its table, both
ends of the tunnel, the register, the GUI controller, the updater, a client that is
connected again, the first bytes of a connection and the frames; every safety
property of these is proved. Left is their composition: `Registration` with the end of
a `ServerSession` in place of `TunnelEnds`, and `Socket` in front of both.
