---------------------------- MODULE NodeLifecycle ----------------------------
(***************************************************************************)
(* The life of one node from reset to reset (setup() and loop() of         *)
(* main.ino, the persistent part of Mesh::init, and the handlers that save *)
(* a setting), on top of EepromManager.  Everything here runs in the one   *)
(* Arduino task, step after step; power may fail between any two steps,    *)
(* and the watchdog or a fault may reset the node while it runs.           *)
(*                                                                         *)
(* phase is the point the task has reached.  A node is delivered with one  *)
(* of the flash images Images.                                             *)
(***************************************************************************)
EXTENDS EepromManager

CONSTANTS
  Images,       \* flash contents a node may be delivered with
  DEV_MODE,     \* as in project_config.h
  MaxBoots,     \* bound on the boots in one behaviour
  MaxEvents     \* bound on the settings saved while the node runs

ASSUME ImagesAssumption == Images \subseteq [Field -> Nat]
ASSUME DevAssumption == DEV_MODE \in BOOLEAN
ASSUME LifeBoundAssumption == MaxBoots \in Nat /\ MaxEvents \in Nat

VARIABLES
  phase,
  resetReason,  \* esp_reset_reason() of this boot
  \* history
  boots, events,
  keysMade,     \* keypairs generated so far
  wantRole,     \* role the config button asked for before a deliberate restart, or Blank
  wantAdapter   \* adapter type a CONFIG_SET asked for before its restart, or Blank

lifeVars == <<phase, resetReason, boots, events, keysMade, wantRole, wantAdapter>>
vars == <<storeVars, lifeVars>>

\* adapter_types
UNKNOWN_ADAPTER == 0
SERIAL_ADAPTER == 1
PIR_ADAPTER == 2
LED_ADAPTER == 3
AdapterType == {SERIAL_ADAPTER, PIR_ADAPTER, LED_ADAPTER}

Watchdog == "wdt"
Expected == {"poweron", "sw"}      \* reasons ErrorCore::init accepts (an EXT reset as poweron)
Reason == Expected \union {Watchdog, "fault"}
WDT_LIMIT == 5

SetupPhase == {"init", "validate", "wdt", "errorCore", "mode", "peers", "writeDefaultPeers",
               "adapter", "meshKey", "keypair", "epoch"}
HandlerPhase == {"writePeers", "joinAck", "configSaved", "roleSaved", "roleFlushed"}
Phase == SetupPhase \union HandlerPhase \union {"run", "halt"}

\* The step moves the task on and leaves the rest of the bookkeeping alone.
Goto(p) ==
  /\ phase' = p
  /\ UNCHANGED <<resetReason, boots, events, keysMade, wantRole, wantAdapter>>

-----------------------------------------------------------------------------
(* Restarting *)

\* The chip starts again, RAM is lost.
Reboot(r) ==
  /\ boots < MaxBoots
  /\ boots' = boots + 1
  /\ phase' = "init"
  /\ resetReason' = r
  /\ UNCHANGED <<events, keysMade>>
  /\ Begin

\* A restart nobody asked for drops what the deliberate one was to achieve.
Unasked == wantRole' = Blank /\ wantAdapter' = Blank

PowerLoss == Reboot("poweron") /\ Unasked

\* The task watchdog is armed at the end of setup().
WatchdogReset == phase \in {"run"} \union HandlerPhase /\ Reboot(Watchdog) /\ Unasked

Fault == phase # "halt" /\ Reboot("fault") /\ Unasked

\* ESP.restart() of ErrorCore::restartDevice.
ErrorRestart == Reboot("sw") /\ UNCHANGED <<wantRole, wantAdapter>>

-----------------------------------------------------------------------------
(* setup() *)

InitEeprom ==
  /\ phase = "init"
  /\ \/ InitClearNewer /\ Goto("init")
     \/ InitMigrate /\ Goto("validate")

ValidateTracking == phase = "validate" /\ InitValidate /\ Goto("wdt")

\* Reason and counter are saved while isDevMode is still false.
CountWatchdog ==
  LET count == IF resetReason = Watchdog THEN ram["count"] + 1 ELSE 0 IN
  /\ phase = "wdt"
  /\ ram' = [ram EXCEPT !["reason"] = 1, !["count"] = count]
  /\ dirty' = TRUE
  /\ UNCHANGED <<flash, lastFlush, millis, isDevMode>>
  /\ Goto(IF count >= WDT_LIMIT THEN "halt" ELSE "errorCore")

\* ErrorCore::init signals a HARDWARE error on an unexpected reset: restart.
ErrorCoreAccepts ==
  /\ phase = "errorCore"
  /\ resetReason \in Expected
  /\ Goto("mode")
  /\ UNCHANGED storeVars

ErrorCoreRestarts ==
  /\ phase = "errorCore"
  /\ resetReason \notin Expected
  /\ ErrorRestart

SetDevMode ==
  /\ phase = "mode"
  /\ isDevMode' = (DEV_MODE \/ ram["dev"] = 1)
  /\ UNCHANGED <<ram, flash, dirty, lastFlush, millis>>
  /\ Goto("peers")

\* Default peers are written when there are none.
DefaultPeers ==
  /\ phase = "peers"
  /\ IF ~isDevMode /\ ram["peers"] = Blank
       THEN ClearPeers /\ Goto("writeDefaultPeers")
       ELSE UNCHANGED storeVars /\ Goto("adapter")

WriteDefaultPeers == phase = "writeDefaultPeers" /\ WritePeers(0) /\ Goto("adapter")

\* loadAdapterType maps an erased byte to 0; initializeDefaultsIfUnset asks for 0xFF
\* afterwards and so never saves a default.
LoadedAdapterType == IF ram["adapter"] = Blank THEN UNKNOWN_ADAPTER ELSE ram["adapter"]
CanCreate(type) == type \in {SERIAL_ADAPTER, PIR_ADAPTER}

CreateAdapter ==
  /\ phase = "adapter"
  /\ isDevMode \/ CanCreate(LoadedAdapterType)
  /\ UNCHANGED storeVars
  /\ Goto("meshKey")

\* err::fatal with a HARDWARE error restarts the node.
AdapterFatal ==
  /\ phase = "adapter"
  /\ ~isDevMode
  /\ ~CanCreate(LoadedAdapterType)
  /\ ErrorRestart

\* Mesh::init, loadPersistentState: default mesh key, keypair.
LoadMeshKey ==
  /\ phase = "meshKey"
  /\ IF ram["meshKey"] = Blank THEN SaveDeferred("meshKey", 0) ELSE UNCHANGED storeVars
  /\ Goto("keypair")

LoadKeypair ==
  /\ phase = "keypair"
  /\ ram["keypair"] # Blank
  /\ UNCHANGED storeVars
  /\ Goto("epoch")

GenerateKeypair ==
  /\ phase = "keypair"
  /\ ram["keypair"] = Blank
  /\ SaveImmediate("keypair", keysMade + 1)
  /\ keysMade' = keysMade + 1
  /\ phase' = "epoch"
  /\ UNCHANGED <<resetReason, boots, events, wantRole, wantAdapter>>

\* The deliberate restart is over: the node runs with what it has loaded.
BootEpoch ==
  /\ phase = "epoch"
  /\ SaveImmediate("epoch", (IF ram["epoch"] = Blank THEN 0 ELSE ram["epoch"]) + 1)
  /\ Goto("run")

-----------------------------------------------------------------------------
(* loop(): what the node saves while it runs *)

Handle(p) ==
  /\ phase = "run"
  /\ events < MaxEvents
  /\ events' = events + 1
  /\ phase' = p
  /\ UNCHANGED <<resetReason, boots, keysMade>>

NoWish == UNCHANGED <<wantRole, wantAdapter>>

\* An unenrolled node that is not a master returns from loop() before its adapter
\* and its buttons get their turn; in dev mode the node starts as a master.
PastGate == isDevMode \/ ram["enrolled"] = 1 \/ ram["master"] = 1

\* DEFAULT_ADAPTER, the adapter of dev mode, is the serial one.
RunsSerialAdapter == isDevMode \/ LoadedAdapterType = SERIAL_ADAPTER

\* processJoinAck: the flag is committed, then the master, two commits apart.
JoinAck == Handle("joinAck") /\ SaveImmediate("enrolled", 1) /\ NoWish

JoinAckLearn ==
  /\ phase = "joinAck"
  /\ IF ram["known"] = Blank THEN SaveImmediate("known", 1) ELSE UNCHANGED storeVars
  /\ Goto("run")

\* processMasterBeacon: first master, or a hot swap to another one; second master.
LearnMaster(m) == Handle("run") /\ m # ram["known"] /\ SaveImmediate("known", m) /\ NoWish
LearnSecondary == Handle("run") /\ ram["known2"] = Blank /\ SaveImmediate("known2", 2) /\ NoWish

\* enrollPeer, from the serial adapter: the list is saved (deferred) and the JOIN_ACK
\* is sent.
EnrollPeer ==
  /\ PastGate
  /\ RunsSerialAdapter
  /\ IF isDevMode
       THEN Handle("run") /\ UNCHANGED storeVars
       ELSE Handle("writePeers") /\ ClearPeers
  /\ NoWish

EnrollPeerWrite == phase = "writePeers" /\ WritePeers(1) /\ Goto("run")

\* OP_NODE_ID_SET and OP_TX_POWER_SET, over the mesh (before the gate) or serial.
NodeIdSet == Handle("run") /\ SaveDeferred("nodeId", 7) /\ NoWish
TxPowerSet == RunsSerialAdapter /\ Handle("run") /\ SaveImmediate("txPower", 1) /\ NoWish

\* OP_CONFIG_SET: the type is saved (deferred), then ESP.restart().
ConfigSet(type) ==
  /\ Handle("configSaved")
  /\ SaveDeferred("adapter", type)
  /\ wantAdapter' = type
  /\ UNCHANGED wantRole

ConfigSetRestart == phase = "configSaved" /\ Reboot("sw") /\ NoWish

\* Config button held for 5 s, in production: the flag is saved, 2 s later flushed,
\* then the node restarts.
ConfigButton ==
  LET role == IF ram["master"] = 1 THEN 0 ELSE 1 IN
  /\ ~isDevMode
  /\ PastGate
  /\ Handle("roleSaved")
  /\ SaveDeferred("master", role)
  /\ wantRole' = role
  /\ UNCHANGED wantAdapter

ConfigButtonFlush == phase = "roleSaved" /\ ForceFlush /\ Goto("roleFlushed")
ConfigButtonRestart == phase = "roleFlushed" /\ Reboot("sw") /\ NoWish

\* Mesh::loop calls flushIfDirty in every pass.
LoopFlush == phase = "run" /\ FlushIfDirty /\ Goto("run")

\* Time matters while the node runs and in the delay before the flush.
Tick == phase \in {"run", "roleSaved"} /\ StoreTick /\ UNCHANGED lifeVars

-----------------------------------------------------------------------------

Init ==
  /\ flash \in Images
  /\ ram = flash
  /\ dirty = FALSE
  /\ lastFlush = 0
  /\ millis = 0
  /\ isDevMode = FALSE
  /\ phase = "init"
  /\ resetReason = "poweron"
  /\ boots = 1
  /\ events = 0
  /\ keysMade = 0
  /\ wantRole = Blank
  /\ wantAdapter = Blank

Setup ==
  \/ InitEeprom \/ ValidateTracking \/ CountWatchdog \/ ErrorCoreAccepts \/ ErrorCoreRestarts
  \/ SetDevMode \/ DefaultPeers \/ WriteDefaultPeers \/ CreateAdapter \/ AdapterFatal
  \/ LoadMeshKey \/ LoadKeypair \/ GenerateKeypair \/ BootEpoch

Handlers ==
  \/ JoinAck \/ JoinAckLearn \/ LearnSecondary \/ (\E m \in 1 .. 2 : LearnMaster(m))
  \/ EnrollPeer \/ EnrollPeerWrite \/ NodeIdSet \/ TxPowerSet
  \/ (\E type \in AdapterType : ConfigSet(type)) \/ ConfigSetRestart
  \/ ConfigButton \/ ConfigButtonFlush \/ ConfigButtonRestart

Next ==
  \/ Setup
  \/ Handlers
  \/ LoopFlush
  \/ Tick
  \/ PowerLoss
  \/ WatchdogReset
  \/ Fault

Spec == Init /\ [][Next]_vars

\* The task runs on by itself; nothing forces an event or a failure.
Fairness ==
  /\ WF_vars(Setup)
  /\ WF_vars(JoinAckLearn \/ EnrollPeerWrite \/ ConfigSetRestart \/ ConfigButtonFlush
             \/ ConfigButtonRestart)
  /\ SF_vars(LoopFlush)
  /\ WF_vars(Tick)

FairSpec == Spec /\ Fairness

-----------------------------------------------------------------------------
(* Correctness *)

\* Every variable has its type.
TypeOK ==
  /\ ram \in [Field -> Nat]
  /\ flash \in [Field -> Nat]
  /\ dirty \in BOOLEAN
  /\ lastFlush \in 0 .. (ClockModulus - 1)
  /\ millis \in 0 .. (ClockModulus - 1)
  /\ isDevMode \in BOOLEAN
  /\ phase \in Phase
  /\ resetReason \in Reason
  /\ boots \in Nat /\ events \in Nat /\ keysMade \in Nat
  /\ wantRole \in {0, 1, Blank}
  /\ wantAdapter \in AdapterType \union {Blank}

\* A setting that is not in flash yet is never forgotten: whenever the dirty flag
\* is clear (and no save is half done) mirror and flash agree, so that flushIfDirty
\* and forceFlush may return early.
CleanMeansSaved ==
  (~dirty /\ phase \notin {"writePeers", "writeDefaultPeers"}) => ram = flash

\* The node keeps its identity: the keypair in flash, wherever the layout of the
\* time keeps it, is changed by nothing but the erasure of a downgrade: not by a
\* migration that loses power half way, nor by generating a key over one that is
\* there.
KeypairIn(img) == IF img["schema"] = 0 THEN img["oldKeypair"] ELSE img["keypair"]
IdentityKept ==
  [][(KeypairIn(flash) # Blank /\ KeypairIn(flash') # KeypairIn(flash)) => flash' = Erased]_vars

\* savePeerList: "Never commit between clear and write": once a current layout has
\* peers in flash, the list is never blank in flash again.
PeersNeverErased ==
  [][(flash["schema"] = CURRENT_SCHEMA_VERSION /\ flash["peers"] # Blank)
       => (flash'["peers"] # Blank \/ flash' = Erased)]_vars

\* A role chosen with the config button is the role the node runs with after its
\* restart, unless power failed or the node was reset in between.
RoleSurvivesRestart == (phase = "run" /\ wantRole # Blank) => ram["master"] = wantRole

\* The argument behind these four.  Until the watchdog counter is stored nothing waits
\* in the mirror: init() migrates what flash holds.
StartsClean == phase \in {"init", "validate", "wdt"} => ~dirty

\* After the version check mirror and flash have the current layout, and the keypair,
\* which is never saved deferred, is the same in both.
LayoutIsCurrent ==
  phase # "init" =>
    /\ ram["schema"] = CURRENT_SCHEMA_VERSION /\ flash["schema"] = CURRENT_SCHEMA_VERSION
    /\ ram["keypair"] = flash["keypair"]

\* Peers that are in flash are in the mirror, but for the moment in which savePeerList
\* replaces them; a commit cannot erase them.
PeersMirrored ==
  (phase # "writePeers" /\ flash["peers"] # Blank) => ram["peers"] # Blank

\* The chosen role waits in the mirror until the flush before the restart, and from
\* then on it is in flash, under a layout that no boot migrates or clears.
RoleOnItsWay ==
  /\ wantRole # Blank => /\ flash["schema"] = CURRENT_SCHEMA_VERSION
                         /\ ram["master"] = wantRole
                         /\ phase # "roleSaved" => flash["master"] = wantRole
  /\ phase = "roleSaved" => dirty

\* The inductive invariant of the life of a node.
IndInv ==
  TypeOK /\ CleanMeansSaved /\ StartsClean /\ LayoutIsCurrent /\ PeersMirrored /\ RoleOnItsWay

\* A deferred setting reaches flash, as long as the node goes on running.
DirtyIsFlushed == (dirty /\ phase = "run") ~> (~dirty \/ phase # "run")

-----------------------------------------------------------------------------
(* What the documents say *)

\* "The target node writes the adapter type to EEPROM. The target node reboots. On
\* boot, the new adapter is constructed" (server_requirements.md).
ConfigSetApplies == (phase = "run" /\ wantAdapter # Blank) => ram["adapter"] = wantAdapter
=============================================================================
