# Formal models of the Lattice mesh firmware

TLA+ modules for the firmware under `main/`: a mesh of ESP32 nodes that talk
ESP-NOW, one of them (or two) being a master that is connected to a server over
USB serial. The modules are translated from the C++ source; `PROJECT.json` maps
every definition to the lines it stands for.

## 1. The system

| Part | State | Operations | Talks to |
|---|---|---|---|
| Receive queue (`Mesh.cpp`, `Mesh.h`) | ring of 8 slots, head, tail | `onDataRecvCallback` (WiFi task), `drainRecvQueue` (main task) | radio driver, all message handlers |
| Replay protection (`Mesh.cpp`) | boot epoch, sequence number, cache of 16 identities | `init`, `buildMessage`, `isReplay` | persistent settings, receive queue |
| Master tracking (`Mesh.cpp`) | trusted master MACs, route, last beacon time, relay slot | `processMasterBeacon`, `checkMasterTimeout`, `processJoinAck`, relay dispatch in `loop` | persistent settings, radio |
| Data routing (`Mesh.cpp`) | peer table | `processAdapterData`, `relayDownlink`, `transmitCore` | route, peers, adapters |
| Enrollment (`Mesh.cpp`, `Serial_Adapter.cpp`, `main.ino`) | enrolled flag, pending request, peers | request, relay to the server, `enrollPeer`, JOIN_ACK | radio, server |
| Persistent settings (`EEPROM_Manager.cpp`) | RAM mirror, flash, dirty flag, flush time | save (deferred or immediate), flush, migration | everybody |
| Boot and main loop (`main.ino`, `ErrorCore.cpp`, `AdapterFactory.cpp`) | reset reason, role, adapter | `setup`, `loop`, buttons, restarts | all of the above |
| Serial adapter | frame parser | framing, opcode dispatch, data from the mesh, health reports | server, mesh |
| Encoding (`Serial_Adapter.cpp`, nanopb) | field iterator, stream | `encodeMeshMessage`, `decodeMeshMessage` | serial adapter |
| PIR adapter | interrupt flag, cooldown | interrupt, `loop` | mesh |
| Buttons and display (`main.ino`, `Button.cpp`, `SevenSegDisplay.cpp`) | hold times, armed reset | `loop`, `signalError` | settings, restarts |
| LEDs, GPIO, logger, `MacAddress` | - | output, formatting | - |

Two threads of control run on a node: the WiFi task, which only ever executes
the receive callback, and the Arduino main task, which does the rest. The PIR
adapter adds an interrupt. Between nodes there is the radio, which loses,
repeats (several relays) and reorders frames.

What is hard here: the unlocked ring between the two tasks; `millis()`, a
32-bit clock that wraps; 16-bit sequence numbers that wrap and restart with
every boot; settings that are in RAM for up to five seconds before they are in
flash; restarts of every kind (power, watchdog, fault, software, on purpose)
at any point; silent or competing masters. `PROJECT.json` lists these hazards
at their lines, with the properties that watch them.

What makes each part correct:

- receive queue: a frame the callback accepted is handled exactly once, whole
  and in order; frames are refused only when seven are waiting;
- replay protection: one transmission is handled once within the window of the
  cache; no fresh message is taken for an old one; an epoch belongs to one boot;
- master tracking: a trusted master that is heard keeps its role; the route,
  the trust and the last master heard agree; a node fails over; no beacon is
  relayed twice;
- settings and boot: identity and peer list survive a power loss anywhere; a
  clean mirror is a saved mirror; deferred settings reach flash at a bounded
  rate; a deliberate restart keeps what it was for;
- routing: beacons give every node a route (they do not, see `multi_hop`); an
  adapter gets no message twice while its node remembers it; relaying ends;
- enrollment: a node is enrolled only by an approval of the key it has; the
  master keeps the keys it answered for; whatever is lost, a node that fits gets
  in and finds its master;
- encoding: what is sent is protobuf by the book and fits its buffer, what is
  accepted means what was sent, and a message survives the line;
- buttons and display: a long hold does what it says (not always, see
  `role_button` and `reset_button`), whatever the reads and the clock; a node whose
  display is lost comes back with it;
- PIR adapter: each motion the interrupt accepts is reported once, reports are a
  cooldown apart, the sensor is always armed again;
- serial adapter: the parser stays in its buffer, and on a clean line the node
  does what the server's messages ask for, once and in order, whatever the mesh
  sends in between.

## 2. Modules

| Module | Models | Used by |
|---|---|---|
| `BoundedFifo` | abstract receive path: a FIFO of bounded capacity | refined by `RecvQueue` |
| `RecvQueue` | the ring, one action per shared access | `MCRecvQueue`, `RecvQueue_proofs` |
| `ReplayProtection` | sender epochs and numbers, network, receiver cache | `MCReplayProtection`, `ReplayProtection_proofs` |
| `MasterTracking` | whom a non-master node follows | `MCMasterTracking` (both builds), `MasterTracking_proofs` |
| `EepromManager` | the steps of the settings class | extended by `NodeLifecycle` |
| `NodeLifecycle` | reset to reset: `setup`, saving handlers, restarts | `MCNodeLifecycle`, `NodeLifecycle_proofs` |
| `PirAdapter` | interrupt and loop of the motion sensor | `MCSensorNode`, `PirAdapter_proofs` |
| `SerialAdapter` | frame parser, command handling, data from the mesh | `MCSerialLine`, `SerialAdapter_proofs` |
| `MeshCodec` | conversion of messages, nanopb's encoder and decoder | `MCSerialLine`, `SerialAdapter_proofs` |
| `MeshNetwork` | several nodes: routes, data up and down, relays | `MCMeshNetwork`, `MeshNetwork_proofs` |
| `Enrollment` | node, master and server until a node is in | `MCEnrollment`, `Enrollment_proofs` |
| `MainLoop` | buttons, gate, display, restarts | `MCSensorNode`, as it is in two runs, `PirAdapter_proofs` |

Definitions whose names end in an underscore and a reason (`IsFull_NoSpareSlot`,
`SinceBeacon_NoWrap`) are mutants: the definition with a plausible bug in it,
used to see that a property can fail. `PROJECT.json` says which property each
one breaks; no specification uses them.

**RecvQueue.** The callback's accesses to shared memory are steps of their own:
the test for a full ring, the two `memcpy`s, the store to `recvQueueHead`. The
drain loop is the loop test, the two lines that bind the reference and advance
the tail, and the return of the handler. The handler's work is one step that
reads the slot *at its end*, which is the moment a reused slot would show.
Stores are taken to become visible in program order (see the module's header).
`accepted`, `handled` and `dropped` are history.

**ReplayProtection.** `sent` is the set of all messages ever sent and the
network may deliver any member at any time, which covers loss, repetition and
reordering. Reading the epoch, committing the new one and sending are separate
steps, and a node may restart between them. Messages carry two history fields,
`boot` and `n`, that say which of them are truly the same. Enrollment and
JOIN_ACK messages leave version, epoch and number zero and so bypass the check.

**MasterTracking.** One non-master node. The branches of `processMasterBeacon`
(first master, known master, second master, hot swap, rejection, too far) are
actions with the code's conditions; what all accepted beacons do is
`AcceptBeacon`. One tick of `millis` is a beacon interval (3 s), so that the
stale threshold of 9 s is three ticks. `SinceBeacon` is the unsigned difference
of the code. `age` is the true time since the last accepted beacon, up to the
threshold. Beacons of living masters arrive in any order and repeatedly. Saving
a master MAC commits at once, so the trusted MACs stand for RAM and flash.
The warning about several masters blinks and logs and is left out.

**EepromManager and NodeLifecycle.** A setting is a field of the mirror. Saves
are deferred (write, mark dirty) or immediate (write, commit the whole mirror,
leave the flag). `savePeerList` is two steps, clear and write. `init()` is
three commits: erasure after a downgrade, migration with the version byte,
validation of the reboot tracking. `phase` follows `setup()`: the handling of
the reset reason, `ErrorCore::init`, dev mode, default peers, the adapter, mesh
key, keypair, boot epoch; then the handlers that save a setting. Every phase
may be cut short by a power loss or a fault, the running phases by the
watchdog. `PowerLoss`, `Fault` and `Tick` are the environment. The second call
of `EEPROM_Manager::init` in `setup()` returns at once and is left out.

**PirAdapter.** The interrupt handler runs whole, between any two steps of
`init()` or `loop()`; each statement that touches the interrupt, the enable flag
or the motion flag is a step. `now` is read once per pass while the clock goes
on. `passTicks` and `triggerAge` are the true ages of `now` and `_lastTrigger`,
`unreported` the balance of motions accepted and reported. Before enrollment
`main.ino` does not call the adapter's loop, and time is free to pass; after it,
the task watchdog bounds the time from one pass to the next (`MaxPassTicks`).

**SerialAdapter.** The parser works on a wire of bytes below `Base`. Base and
buffer size are equal, as on the device, so the longest frame is the one whose
length needs its second byte. Protobuf is external: a payload the server did not
send may decode to anything or fail. `handleCompleteFrame` is modelled by the
calls it makes, in order; CONFIG_SET restarts the node in the middle of the
stream, and an unknown number of bytes is gone at the next boot; sent over the
mesh it does so in the middle of a frame as well. `clean` says that no byte has
been lost in any of these ways. `OnMeshData` stands for `Adapter::onMeshData`
and `onMeshDataImpl` together: what `MeshNetwork` calls a delivery. A CONFIG_SET
for this node is acted on whatever adapter it comes from; of the rest only data of
type SERIAL passes the filter (`Adapter.cpp:135`), is acted on by its opcode
(`MeshOpcodeCalls`) and goes on to the server (`ForwardToServer`). Other data, the
motions of PIR nodes among it, ends here. `MeshDataAssumption` says that no
JOIN_ACK comes this way: the mesh gives those to `processJoinAck`
(`Mesh.cpp:588-599`), so that only the server's reach `handleCompleteFrame`.
`ActsOnlyAsAsked` pairs the approvals handled with the calls of `enrollPeer`, one
to one and in order.

**MeshCodec.** The other half of the serial line. The encoder takes a step per
field of `mesh_MeshMessage`, the decoder a step per tag. The varint algorithms
are those of nanopb (two 32-bit words when encoding, sign-extension checks when
decoding 32 bits) with the widths of the integers as parameters; the byte
layout is that of the device. Beside them stands protobuf by its definition
(`PlainVarint`, `BytesOf`, `Allowed`, `Meaning`), without an algorithm. Only the
branches a descriptor of `mesh.proto`'s field types reaches are there.

**MeshNetwork.** The composition of master tracking, replay protection, the peer
table and routing over several nodes: `air` is the set of frames in flight, each
of which is handled by its receiver or lost, in any order. The topology `Link`
and the peer lists are constants. `TakeFrame` is the head of `drainRecvQueue`
(replay check, peer freshness); the handlers are actions of their own. What the
single modules show is used here as an abstraction: frames are handled when they
are delivered (`RecvQueue`), an identity is a pair of origin and number
(`ReplayProtection`), the one master is trusted by all (`MasterTracking`).

**Enrollment.** Key pairs are numbered by a node's erasures. The commits of the
enrolled flag and of the master's MAC are two steps, power may fail in between,
and the master's list reaches flash later than the answer it gives. The server
approves what it was asked, in any order and as late as it likes. `settled` is
history: the nodes whose present key is the last that was approved and whose
entry was not lost unsaved. The default peers are in the list from the start; what
the code makes of them is not followed to the byte (`main.ino:186-192` gives
`savePeerList` MAC addresses of six bytes where it steps by whole records), and no
property depends on it.

**MainLoop.** One step is one pass of `loop()`: gate, config button, reset
button. A hold and its flag are one variable, and so are the armed reset and its
deadline; `wrapped` and `released` say what happened since. A disturbed read is one
of the three of `Button::isPressed`.
`DisplayPanics` is the recursion between `signalError`, `show`, `writeByte` and
`fail`.

## 3. Runs

Numbers are distinct states.

| Run | Bounds | What it shows |
|---|---|---|
| `recv_queue` (40 413) | 3 slots, 5 packets | all interleavings of both tasks over a ring that wraps, fills and refuses: `EntryIntact`, `HandledInOrder`, `ImplementsFifo` (every step is a step of `BoundedFifo` or a stutter), `EventuallyHandled` (which includes the fairness of `BoundedFifo`, so that both together are its whole specification) |
| `replay` (437 825) | 2 senders, 2 boots each, 5 messages, cache of 2, numbers mod 2 | `AtMostOncePerWindow`, `EpochNamesBoot`, `NoFalseReplay` while ring and numbers wrap |
| `master_tracking` (220 536) | default build: 2 masters of 2 boots, threshold 3, clock mod 8, one restart; dual-master build: 3 masters of 2 beacons, numbers mod 2, threshold 3, clock mod 5 | `LiveMasterKeepsRole`, `CoherentInBuild`, `NoBeaconRelayedTwice` and, of the default build, the liveness properties `FailsOver` and `SilentMasterForgotten` |
| `node_lifecycle` (357 864) | six flash images, 4 boots, 3 saved settings, flush interval 2, clock mod 5 | `CleanMeansSaved`, `RoleSurvivesRestart`, `IdentityKept`, `PeersNeverErased`, `DirtyIsFlushed` |
| `sensor_node` (168 386) | adapter: cooldown 2, health interval 4, clock mod 8, watchdog 2 ticks; rest of the loop: hold of 4, window of 3, clock mod 6, at most one tick per pass, production and dev mode, with and without a master in the mesh | `MotionReportedOnce`, `ReportsSpaced`, `ListensAgain`, `HealthKeepsComing`, with edges and ticks between all statements; `HoldChangesRole`, `LostDisplayStopsNode` |
| `serial_line` (632 503) | frames: 3 of 6 messages, bytes 0-2, buffer of 3, one byte lost anywhere, one message of type SERIAL or PIR from the mesh at any time; codec: field lengths and buffers of the device, integers of 18 and 29 bits for 32 and 64, one or two fields of 27 kinds from the server, a frame cut at every byte | `BufferBounds`, `HandledAsSent`, `ActsOnlyAsAsked`, `FrameHandled`; `EncodesByTheBook`, `NothingTooLong`, `DecodesByTheBook`, `MessageSurvives` |
| `mesh_routing` (1 018 932) | a master, a node it reaches, a node only that one reaches; 2 hops, cache of 1, ages of 1 tick, 2 messages of the master, 1 of the first node, 1 JOIN_ACK | `DeliveredOnce`, `FloodsEnd` |
| `enrollment` (152 768) | 2 nodes, one default peer, room for 2, one erasure, one power cut | `EnrolledByApproval`, `MasterKnowsApproved`, `EventuallyEnrolled`, `EnrolledFindsMaster` |
| `config_set` (fails, see below) | one flash image, 2 boots, 1 saved setting | `ConfigSetApplies` does not hold |
| `multi_hop` (fails) | the mesh of `mesh_routing`, beacons only, none lost | `EveryNodeGetsRoute` does not hold |
| `role_button` (fails) | hold of 5, window of 3, clock mod 8 | `HoldTogglesRole` does not hold |
| `reset_button` (fails) | hold of 5, window of 3, clock mod 16 | `SecondHoldWipes` does not hold |

Three runs have two parts, and a variable (`build`, `part`) that is chosen in the
first state and says which of them a behaviour is one of. The parts share no state
that both change, the other part's variables stand still, and each part has the
actions, the invariants and the fairness it has by itself; so the run is what two
runs would be. In `master_tracking` the dual-master build has no failing masters: a
beacon's effect depends on how long ago the last one was, and any master may be
silent for any time, so that a failure adds nothing to what `CoherentInBuild`,
`NoBeaconRelayedTwice` and `LiveMasterKeepsRole` speak of.

Why the bounds are enough: a ring of three slots has all the cases of a ring of
eight (empty, full, wrapped, one below full) and five packets take it around
more than once; a cache of two and numbers modulo two wrap within five
messages; the clocks wrap within a run, at every offset to the event they
measure; three masters are the smallest number for which both trusted slots are
taken and a stranger is left; four boots allow a migration that is cut short,
its repetition, a deliberate restart and one more failure; three frames put a
restart or a loss before, inside and after a frame, and the payloads contain
bytes that read as valid, as zero and as excessive lengths. An integer of 18
bits has two full groups of a varint and a straddling one, as one of 32 bits has
four and one, and the numbers sent lie on both sides of every group's end; two
fields are enough for an order, a repetition, a short value over a long one and a
known field after an unknown one. Three nodes in a row are the smallest mesh with
a node out of the master's range, and echoes, forgotten identities and stale
peers all occur in it; a cache of one forgets with the second message. Two nodes
and one free entry make one of them not fit, and the one erasure and the one
power cut fall between any two steps. Hold, window and clock keep the order of
5 s, 3 s and the wrap. The constants with names `Max...` are the bounds; the
proofs hold for every value of them.

The runs of `NodeLifecycle` do not check for deadlock: a node that has counted
five watchdog resets halts, and a behaviour ends when its boots are used up.
Neither does `serial_line`, since the server may stop sending and a codec ends with
its message, nor `enrollment`, where nothing is left to do when all nodes are in and the list is
saved.

### What the documents say and the code does not do

Four runs check such a statement each, and TLC finds a behaviour of the code that
contradicts it.

- `config_set`: CONFIG_SET writes the adapter type and the node comes back with the
  new adapter (`docs/server_requirements.md:82-83`). The save is deferred, and the
  restart does not flush it.
- `multi_hop`: "beacon propagation builds `currentMaster.nextHop` for every node"
  (`docs/superpowers/specs/2026-06-29-architecture-review.md:51`). A relayed beacon
  goes through `transmitCore` to the next hop *towards* the master, so it comes
  back to the master, and a node out of the master's range has no route. The run
  loses no frame and sends nothing but beacons, so that neither loss nor a full air
  can be the reason; were the relay sent to all peers, the property would hold
  there. That it is so in every topology is proved (`RoutesAreDirect`).
- `role_button`: "Hold 5 s → toggle master/node role" (`README.md:173`). A
  production node that was never enrolled leaves `loop()` before it reads its
  buttons, so that in a mesh without a master none can be made (proved,
  `FreshNodeStaysNode`). On a node that does read them the button works
  (`HoldChangesRole`).
- `reset_button`: "Hold 5 s → arm EEPROM wipe; hold again within 3 s → wipe +
  reboot" (`README.md:174`, `docs/adapter_development_guide.md:277`). The deadline
  is compared with the end of the second hold, which takes longer than the window:
  a hold that begins in time is lost, and the reset is confirmed only when the
  clock wraps in between (proved, `WipesOnlyAcrossWrap`).

In other places the models and the documents part as well, or the code does what
nobody wrote down; the models follow the code in each of them, and none has a run
of its own.

- *Data for the server.* `Serial_Adapter` "forwards ... mesh messages from nodes to
  server" (`docs/superpowers/plans/2026-06-25-open-source-hardening.md:809-810`). A
  motion has the type of the PIR adapter (`PIR_Adapter.cpp:103`), and the filter at
  `Adapter.cpp:135` drops it on a serial master (`MeshCalls`).
- *Order of beacons.* "Only relay if this beacon is newer" (`Mesh.cpp:900`): the
  16-bit number wraps after 65 536 messages of one boot, and from then on nothing
  is newer.
- *Two masters share one mark.* A test (`tests/unit/test_mesh_logic.cpp:167`)
  wants a beacon of the secondary master relayed; with the primary's larger
  epoch before it, it is not.
- *First boot.* Unset flash should give a PIR node
  (`docs/server_requirements.md:144`); the erased byte is read as an adapter type
  that does not exist, and the node restarts again and again. Erased flash is one
  of the images of `node_lifecycle`.
- *Watchdog loop.* The halt after five watchdog resets (`main.ino:105`) is not
  reached: `ErrorCore::init` restarts the node before the counter is committed,
  and the boot after that clears it.
- *Config button.* A button that stays down toggles again every five seconds. A
  dev-mode master that toggles itself to a node without being enrolled cannot
  toggle back before its next start.
- *Display.* `docs/error_codes.md` says that an error is shown and blinked before
  a safe reboot; the error of a display that does not acknowledge is shown on that
  display, and the node never gets on (`LostDisplayStopsNode`). Read, not
  modelled: the digit of a SENSOR error blinks as the generic one, sub-codes that
  agree modulo ten look alike, and zeros inside a code are blank.
- *Enrollment.* JOIN_ACKs have no stamp and are relayed without suppression until
  their hops run out (`FloodsEnd` says that they do run out); ENROLLMENT requests
  are not relayed at all; the approval of an earlier key that comes late replaces
  the newer one in the master's list; a master that loses power before it has
  flushed forgets a node that is enrolled (both are the exceptions that `settled`
  makes for `MasterKnowsApproved`, which would hold for no such node). A full peer
  list makes `enrollPeer` return without a word (`Mesh.cpp:1041`);
  `EventuallyEnrolled` asks nothing of a node for which there is no room.
- *Opcodes.* CONFIG_SET on the serial line looks at the target of the message, on
  the mesh at the target in its data; a master's own health report is broadcast
  to the mesh and not written to the server; the master hears echoes of its own
  broadcasts as data.
- *Dead code.* `setCallbackContext` has no caller, so that no blink is ever
  deferred; `addPeer`, `removePeer` and the settings functions behind them have
  none either.

### Fairness

- `RecvQueue`: weak fairness of each step of the drain loop (the main loop runs
  for ever) and of a callback that has begun. No packet is obliged to arrive.
- `MasterTracking` (in the default build; the other has no liveness property):
  time goes on; `checkMasterTimeout` is strongly fair because
  it is called in every pass of a loop that is far faster than the 49 days of
  the clock; a living master's beacons are received infinitely often when they
  can be accepted infinitely often, since masters send every 3 s without regard
  to this node's clock.
- `NodeLifecycle`: the main task runs on through `setup` and its handlers, and
  time goes on. `flushIfDirty` is strongly fair: it is called in every pass, and
  the condition comes true again and again. No event or failure is obliged to
  happen; `DirtyIsFlushed` allows the node to stop running first.

- `PirAdapter`: the main task goes through its passes and time goes on; no edge
  and no enrollment is obliged to happen.
- `SerialAdapter`: the main task reads what is available; neither the server nor
  the mesh is obliged to send.
- `MeshNetwork`: a frame on the air does not stay there; whether it arrives or is
  lost is open, and nothing has to be sent. Without more, `FloodsEnd` says that
  the relays a message sets off are finite.
- `Enrollment`: a node that is not enrolled asks every 10 s and some request of it
  arrives; the main loop of the master relays a request before the next one
  replaces it, at some time (strongly fair, because requests of others may
  intervene for a while); the server approves what it was asked; a JOIN_ACK that
  is sent again and again arrives at some time (strongly fair); beacons come every
  3 s. Losses, power cuts and erasures are not obliged to happen.
- `MainLoop`: the program runs and time passes; nobody has to press, enroll or
  repair anything.

## 4. Proofs

All checked by TLAPS, for every value of the constants that satisfies the
`ASSUME`s of the modules (queue of at least two slots, non-empty cache, clock
wider than the threshold by more than one tick, distinct special MACs, a
one-to-one encoding whose payloads fit the buffer, a clock wider than cooldown,
health interval and watchdog timeout, limits and ages above zero, default peers
that fit the list). What `MeshCodec` and `MainLoop` ask of their constants is assumed
where these get their values, in `MCSerialLine` and `MCSensorNode`, and by the theorems
that need it. Each invariant that is proved inductive contains the
module's `TypeOK`.

- `RecvQueue_proofs`: `RingInvariant`, and from it `TypeCorrect`,
  `EntryNeverOverwritten`, `FramesHandledInOrder` and `RingImplementsFifo`. The
  invariant numbers the published frames: frame *k* lives in slot *(k-1) mod QueueSize*, head and tail
  stand for the frames published and taken, they differ by at most
  *QueueSize - 1* and by less while the callback is copying. It is needed
  because the tail passes the slot before it is read: the one spare slot is
  what keeps the producer out of it, which `EntryIntact` alone does not say.
  The refinement reads the frames pending off the slots between the numbers taken
  and published: the store to `recvQueueHead` is the step that puts a frame in the
  FIFO, the advance of the tail the one that begins with it, the return of the
  handler the one that finishes; the other steps leave the pending frames, which the
  invariant keeps intact, as they are.
- `ReplayProtection_proofs`, for production mode (`DevMode = FALSE`):
  `ReplayInvariant`, `EpochIsBootCount`, `ReplayWindow`,
  `NoMessageMistakenForReplay`. The invariant says that the cache is exactly
  the window of the last `CacheSize` recorded identities, and that a node sends
  only under an epoch that is in flash already.
- `MasterTracking_proofs`: `TrackingInvariant`, `RouteIsCoherent`,
  `RelayAtMostOnce`, and the action property `TrustedMasterKeepsRole`. The
  invariant ties the wrapped difference to the true age below the threshold
  (`AgeTracksClock`) and puts everything relayed at or before the last-relayed
  mark (`ScheduledBehind`).
- `PirAdapter_proofs`: `PirInvariant`, `MotionsReportedOnce`, and the action
  property `ReportsKeepDistance`. The invariant says that the sensor is armed
  only when no motion waits and no cooldown runs (`ArmedMeansIdle`), which is
  why an edge cannot be swallowed by `clearMotion()`, and that `_lastTrigger`
  and `now` are the clock as it was `triggerAge` and `passTicks` ago
  (`ClockTracksAges`), which turns the wrapped difference into true time.
- `PirAdapter_proofs` also has `MainLoop`, which runs on the same clock: its types
  (`LoopTypeCorrect`), and how far the failures of `role_button` and `reset_button`
  go. `NoMasterWithoutMaster` (of `FreshNodeStaysNode`) is by `LetInByMaster`, which
  adds that the node is not enrolled either; and `ResetNeedsWrap` (of
  `WipesOnlyAcrossWrap`), where `ResetInv` remembers the time at which the reset was
  armed: the hold that confirms began after it, so that the deadline is over when the
  hold is long enough. It takes a hold no shorter than the window (`LoopConstants`; 5 s
  and 3 s in the code).
- `NodeLifecycle_proofs`: `SettingsInvariant`, and from it `NothingUnsavedWhenClean`,
  `ChosenRoleSurvives` and the action properties `IdentityIsKept` and
  `PeersAreNeverErased`, for every set of flash images the module admits. A commit
  writes the whole mirror, so that what must not change in flash must be right in
  the mirror before: `PeersMirrored` and the keypair in `LayoutIsCurrent`. That in
  turn needs that a boot migrates with a clean mirror (`StartsClean`) and does so
  once. A chosen role is in the mirror, dirty, until it is flushed, and then in
  flash under a layout that no later boot clears (`RoleOnItsWay`).
- `SerialAdapter_proofs`: `SerialInvariant`, and from it `ParserStaysInBuffer`,
  `FramesAreHandledAsSent` and `ApprovalsAreActedOn`. The bounds of the buffer hold
  for any bytes on the line and restarts anywhere. The other two rest on
  `StreamIntact`: on a clean line, what the parser has read of its frame and what is
  still on the wire are together the frames of the messages not handled yet, cut
  at the right places, and the messages handled are the first ones sent. It has to
  speak of every byte, because the buffer is never cleared. The enrollments asked
  for and done are paired among the messages *handled* (`EnrolledFor`), which is
  inductive even on a line that loses bytes; `StreamIntact` makes them those *sent*.
  The mesh is any set of adapter data, of the own type or another: what the filter
  and the opcodes make of it calls no `enrollPeer` (`MeshCallsContent`).
- `SerialAdapter_proofs` also has `EncodingFits` (of `MeshCodec`'s `NothingTooLong`),
  on the other half of the line: `pb_encode` never runs out of buffer. The invariant
  (`EncoderInv`) says that the room left in the buffer is at least the sum of the
  lengths of the fields not written yet, so that what has to be shown of a field is
  only how long it gets: a varint is as long as its number has groups of bits
  (`Varint32Len`), a string as long as its bytes and two more (`StringLen`). It takes
  typed messages whose `dataType` is not negative, as the enumerators of
  `adapter_types` are, fields of 1 to 127 bytes, whose length is one byte long, and
  buffers that hold what the constants add up to (`CodecConstants`, `CodecInputs`):
  160 of 256 bytes for a message from the mesh, and for an enrollment request all of
  its 128.
- `MeshNetwork_proofs`: `NetworkInvariant`, and from it
  `RoutesLeadStraightToMaster` and `NoSecondDelivery`, for any number of nodes,
  topology and peer lists. `RoutesAreDirect` is not inductive: it needs that every
  beacon on its way to a node other than the master comes from the master itself
  with hop count zero (`BeaconsComeDirectly`), which in turn needs the routes, as
  they decide where a relay goes, and that the master relays none of the echoes
  (`MasterRelaysNothing`). It is what stands behind the failure of `multi_hop`, and a
  mended relay would break it. `DeliveredOnce` needs that data is stamped and that
  everything delivered is in the cache or has left it (`DeliveredIsKnown`).
- `Enrollment_proofs`: `EnrollmentInvariant`, and from it `OnlyApprovedKeysEnroll`
  and `SettledNodesAreKnown`. Nobody can know a key that its node has not made
  (`NoKeyFromTheFuture`), so that after an erasure no JOIN_ACK on the air fits the
  new key; hence one that its node would accept was sent because that key was
  approved (`AcksAreApproved`).

The clocks and the ring count modulo a constant; the lemmas about remainders that
this takes (`ModOnce`, `ModDifference`, `ModStep` and others) precede the proofs
that use them.

Only model-checked: the liveness properties (`EventuallyHandled`, `FailsOver`,
`SilentMasterForgotten`, `DirtyIsFlushed`, `ListensAgain`, `HealthKeepsComing`,
`FrameHandled`, `FloodsEnd`, `EventuallyEnrolled`, `EnrolledFindsMaster`,
`HoldChangesRole`, `LostDisplayStopsNode`), because fairness and ENABLED are out of
the prover's reach; and `EncodesByTheBook`, `DecodesByTheBook` and
`MessageSurvives` of `MeshCodec`, which compare what the loops of nanopb compute with
a reference definition: the numbers are exponentials and the messages sequences of
any length, data that a proof would have to do induction over. (How *long* an encoding
gets needs no such induction and is proved, see `EncodingFits`.) `TypeOK` and the
inductive invariants are proved and not run again.

## 5. Not modelled, and the plan

Left out for good: LEDs, the segments of the display, GPIO, logging, the branches
of nanopb that `mesh.proto` does not reach (submessages, arrays, oneofs,
callbacks, extensions), cryptography (a keypair is a value), the contents of
messages no property looks at, hardware initialisation that fails, SIMULATE_MODE
builds, functions without a caller (`addPeer`, `removePeer`, `clearRange`). When a
serial adapter's health report is due is left out because `PirAdapter` has the same
timer; on a master the hop count, its other cause, never changes.

Planned: a second master in `MeshNetwork`, whose trust rules are so far in
`MasterTracking` only, with the routes proved for it.
