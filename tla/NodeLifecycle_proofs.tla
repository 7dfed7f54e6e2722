----------------------- MODULE NodeLifecycle_proofs -----------------------
(***************************************************************************)
(* What the settings of a node go through from reset to reset, for every   *)
(* flash image, clock width and flush interval, and any number of boots    *)
(* and events.                                                             *)
(***************************************************************************)
EXTENDS NodeLifecycle, TLAPS

\* The fields and values the steps name.
LEMMA Constants ==
  /\ "schema" \in Field /\ "keypair" \in Field /\ "peers" \in Field /\ "master" \in Field
  /\ "count" \in Field
  /\ \A f \in Deferred : f \in Field /\ f # "schema" /\ f # "keypair" /\ f # "peers"
  /\ \A f \in Immediate : f \in Field /\ f # "schema" /\ f # "peers" /\ f # "master"
  /\ Blank \in Nat /\ CURRENT_SCHEMA_VERSION \in Nat /\ CURRENT_SCHEMA_VERSION # Blank
  /\ ClockModulus \in Nat \ {0}
BY FlushAssumption, StoreClockAssumption DEF Field, Deferred, Immediate, Blank, CURRENT_SCHEMA_VERSION

-----------------------------------------------------------------------------
(* What the operations of EepromManager do to the settings.                *)

\* The mirror and the flash hold numbers.
Stored == ram \in [Field -> Nat] /\ flash \in [Field -> Nat]

\* A deferred save changes one field of the mirror, and no keypair, peer or layout; it
\* leaves the mirror marked unless it leaves it alone.
LEMMA SaveDeferredEffect ==
  ASSUME Stored, NEW f \in Deferred, NEW v \in Nat, SaveDeferred(f, v)
  PROVE  /\ Stored' /\ UNCHANGED <<flash, lastFlush, millis, isDevMode>>
         /\ \A g \in Field : g # f => ram'[g] = ram[g]
         /\ (ram' = ram /\ dirty' = dirty) \/ (ram'[f] = v /\ dirty' = TRUE)
         /\ ~isDevMode => ram'[f] = v /\ dirty' = TRUE
BY Constants DEF Stored, SaveDeferred

\* An immediate save changes one field of the mirror and commits all of it, or does
\* nothing (dev mode).
LEMMA SaveImmediateEffect ==
  ASSUME Stored, NEW f \in Immediate, NEW v \in Nat, SaveImmediate(f, v)
  PROVE  /\ Stored' /\ UNCHANGED <<dirty, lastFlush, millis, isDevMode>>
         /\ \A g \in Field : g # f => ram'[g] = ram[g]
         /\ (ram' = ram /\ flash' = flash) \/ flash' = ram'
BY Constants DEF Stored, SaveImmediate

\* A migration of whatever was in flash gives settings, of the current layout, with the
\* keypair where that layout has it.
LEMMA MigratedType == ASSUME NEW img \in [Field -> Nat] PROVE Migrated(img) \in [Field -> Nat]
BY DEF Migrated, MigrateV1, MigrateV2, ValidCount, Field, Blank, CURRENT_SCHEMA_VERSION

LEMMA MigratedKeeps ==
  ASSUME NEW img \in [Field -> Nat]
  PROVE  /\ Migrated(img)["schema"] = CURRENT_SCHEMA_VERSION
         /\ Migrated(img)["keypair"] = KeypairIn(img)
         /\ img["schema"] # 0 => Migrated(img)["peers"] = img["peers"]
         /\ Migrated(img)["master"] = img["master"]
BY Constants DEF Migrated, MigrateV1, MigrateV2, KeypairIn, CURRENT_SCHEMA_VERSION, Field

-----------------------------------------------------------------------------
(* Typing.                                                                 *)

\* The Boolean variables stay Boolean.
Flags == dirty \in BOOLEAN /\ isDevMode \in BOOLEAN

LEMMA StepFlags == Flags /\ [Next]_vars => Flags'
<1> SUFFICES ASSUME Flags, [Next]_vars PROVE Flags'
  OBVIOUS
<1>1. ASSUME NEW r, Reboot(r) PROVE Flags'
  BY <1>1, Zenon DEF Reboot, Begin, Flags
<1>2. CASE PowerLoss \/ WatchdogReset \/ Fault \/ ErrorCoreRestarts \/ AdapterFatal
             \/ ConfigSetRestart \/ ConfigButtonRestart
  BY <1>1, <1>2 DEF PowerLoss, WatchdogReset, Fault, ErrorCoreRestarts, AdapterFatal, ErrorRestart,
                    ConfigSetRestart, ConfigButtonRestart
<1>3. ASSUME NEW f, NEW v, SaveDeferred(f, v) \/ SaveImmediate(f, v) PROVE Flags'
  BY <1>3, Zenon DEF SaveDeferred, SaveImmediate, Flags
<1>4. CASE ClearPeers \/ FlushIfDirty \/ ForceFlush \/ (\E v : WritePeers(v)) \/ StoreTick
             \/ InitClearNewer \/ InitMigrate \/ InitValidate \/ UNCHANGED storeVars
  BY <1>4, Zenon DEF ClearPeers, FlushIfDirty, ForceFlush, Commit, WritePeers, StoreTick,
                     InitClearNewer, InitMigrate, InitValidate, storeVars, Flags
<1>5. CASE CountWatchdog \/ SetDevMode
  BY <1>5, Zenon DEF CountWatchdog, SetDevMode, Flags
<1>6. CASE Setup
  BY <1>2, <1>3, <1>4, <1>5, <1>6
  DEF Setup, InitEeprom, ValidateTracking, ErrorCoreAccepts, DefaultPeers, WriteDefaultPeers,
      CreateAdapter, LoadMeshKey, LoadKeypair, GenerateKeypair, BootEpoch
<1>7. CASE Handlers
  BY <1>2, <1>3, <1>4, <1>7
  DEF Handlers, JoinAck, JoinAckLearn, LearnSecondary, LearnMaster, EnrollPeer, EnrollPeerWrite,
      NodeIdSet, TxPowerSet, ConfigSet, ConfigButton, ConfigButtonFlush
<1>8. CASE LoopFlush \/ Tick \/ UNCHANGED vars
  BY <1>4, <1>8 DEF LoopFlush, Tick, vars
<1> QED BY <1>2, <1>6, <1>7, <1>8 DEF Next

\* The settings stay numbers, and the clock stays a clock.
Times == lastFlush \in 0 .. (ClockModulus - 1) /\ millis \in 0 .. (ClockModulus - 1)
Counts == boots \in Nat /\ events \in Nat /\ keysMade \in Nat

LEMMA StepStored == Stored /\ Times /\ Counts /\ [Next]_vars => Stored' /\ Times'
<1> SUFFICES ASSUME Stored, Times, Counts, [Next]_vars PROVE Stored' /\ Times'
  OBVIOUS
<1>1. ASSUME NEW r, Reboot(r) PROVE Stored' /\ Times'
  BY <1>1, Constants DEF Reboot, Begin, Stored, Times
<1>2. CASE PowerLoss \/ WatchdogReset \/ Fault \/ ErrorCoreRestarts \/ AdapterFatal
             \/ ConfigSetRestart \/ ConfigButtonRestart
  BY <1>1, <1>2 DEF PowerLoss, WatchdogReset, Fault, ErrorCoreRestarts, AdapterFatal, ErrorRestart,
                    ConfigSetRestart, ConfigButtonRestart
<1>3. ASSUME NEW f \in Deferred, NEW v \in Nat, SaveDeferred(f, v) PROVE Stored' /\ Times'
  BY <1>3, SaveDeferredEffect DEF Times
<1>4. ASSUME NEW f \in Immediate, NEW v \in Nat, SaveImmediate(f, v) PROVE Stored' /\ Times'
  BY <1>4, SaveImmediateEffect DEF Times
<1>5. CASE ClearPeers \/ (\E v \in Nat : WritePeers(v))
  BY <1>5, Constants DEF ClearPeers, WritePeers, Stored, Times
<1>6. CASE FlushIfDirty \/ ForceFlush \/ UNCHANGED storeVars
  BY <1>6 DEF FlushIfDirty, ForceFlush, Commit, storeVars, Stored, Times
<1>7. CASE StoreTick
  <2>1. (millis + 1) % ClockModulus \in 0 .. (ClockModulus - 1)
    BY Constants DEF Times
  <2> QED BY <1>7, <2>1 DEF StoreTick, Stored, Times
<1>8. CASE InitClearNewer \/ InitMigrate \/ InitValidate
  <2>1. Erased \in [Field -> Nat]
    BY Constants DEF Erased
  <2>2. Migrated(ram) \in [Field -> Nat]
    BY MigratedType DEF Stored
  <2>3. [ram EXCEPT !["count"] = ValidCount(@)] \in [Field -> Nat]
    BY Constants DEF Stored, ValidCount
  <2> QED BY <1>8, <2>1, <2>2, <2>3 DEF InitClearNewer, InitMigrate, InitValidate, Stored, Times
<1>9. CASE CountWatchdog
  <2>1. (IF resetReason = Watchdog THEN ram["count"] + 1 ELSE 0) \in Nat
    BY Constants DEF Stored
  <2>2. "reason" \in Field
    BY DEF Field
  <2> QED BY <1>9, <2>1, <2>2, Constants DEF CountWatchdog, Stored, Times
<1>10. CASE SetDevMode
  BY <1>10 DEF SetDevMode, Stored, Times
<1>11. CASE Setup
  <2>1. ASSUME LoadMeshKey PROVE Stored' /\ Times'
    BY <1>3, <1>6, <2>1 DEF LoadMeshKey, Deferred
  <2>2. ASSUME GenerateKeypair PROVE Stored' /\ Times'
    BY <1>4, <2>2 DEF GenerateKeypair, Immediate, Counts
  <2>3. ASSUME BootEpoch PROVE Stored' /\ Times'
    <3>1. (IF ram["epoch"] = Blank THEN 0 ELSE ram["epoch"]) + 1 \in Nat /\ "epoch" \in Immediate
      BY DEF Stored, Immediate, Field
    <3> QED BY <1>4, <2>3, <3>1 DEF BootEpoch
  <2>4. ASSUME InitEeprom \/ ValidateTracking PROVE Stored' /\ Times'
    BY <1>8, <2>4 DEF InitEeprom, ValidateTracking
  <2>5. ASSUME DefaultPeers \/ WriteDefaultPeers PROVE Stored' /\ Times'
    BY <1>5, <1>6, <2>5 DEF DefaultPeers, WriteDefaultPeers
  <2>6. ASSUME ErrorCoreAccepts \/ CreateAdapter \/ LoadKeypair PROVE Stored' /\ Times'
    BY <1>6, <2>6 DEF ErrorCoreAccepts, CreateAdapter, LoadKeypair
  <2> QED
    BY <1>2, <1>9, <1>10, <1>11, <2>1, <2>2, <2>3, <2>4, <2>5, <2>6 DEF Setup
<1>12. CASE Handlers
  <2>1. ASSUME JoinAck \/ JoinAckLearn \/ LearnSecondary \/ (\E m \in 1 .. 2 : LearnMaster(m))
               \/ TxPowerSet
        PROVE  Stored' /\ Times'
    BY <1>4, <1>6, <2>1 DEF JoinAck, JoinAckLearn, LearnSecondary, LearnMaster, TxPowerSet, Immediate
  <2>2. ASSUME EnrollPeer \/ EnrollPeerWrite PROVE Stored' /\ Times'
    BY <1>5, <1>6, <2>2 DEF EnrollPeer, EnrollPeerWrite
  <2>3. ASSUME NodeIdSet \/ (\E type \in AdapterType : ConfigSet(type)) \/ ConfigButton PROVE Stored' /\ Times'
    BY <1>3, <2>3 DEF NodeIdSet, ConfigSet, ConfigButton, Deferred, AdapterType, SERIAL_ADAPTER,
                      PIR_ADAPTER, LED_ADAPTER
  <2>4. ASSUME ConfigButtonFlush PROVE Stored' /\ Times'
    BY <1>6, <2>4 DEF ConfigButtonFlush
  <2> QED BY <1>2, <1>12, <2>1, <2>2, <2>3, <2>4 DEF Handlers
<1>13. CASE LoopFlush \/ Tick \/ UNCHANGED vars
  BY <1>6, <1>7, <1>13 DEF LoopFlush, Tick, vars
<1> QED BY <1>2, <1>11, <1>12, <1>13 DEF Next

\* The control of the task stays within its phases, reasons and counts.
Control ==
  /\ phase \in Phase /\ resetReason \in Reason
  /\ wantRole \in {0, 1, Blank} /\ wantAdapter \in AdapterType \union {Blank}

LEMMA StepControl == Control /\ Counts /\ [Next]_vars => Control' /\ Counts'
<1> SUFFICES ASSUME Control, Counts, [Next]_vars PROVE Control' /\ Counts'
  OBVIOUS
<1> USE DEF Control, Counts, Phase, SetupPhase, HandlerPhase, Reason, Expected, Watchdog
<1>1. CASE PowerLoss \/ WatchdogReset \/ Fault \/ ErrorCoreRestarts \/ AdapterFatal
             \/ ConfigSetRestart \/ ConfigButtonRestart
  BY <1>1 DEF PowerLoss, WatchdogReset, Fault, ErrorCoreRestarts, AdapterFatal, ErrorRestart,
              ConfigSetRestart, ConfigButtonRestart, Reboot, Unasked, NoWish
<1>2. CASE Setup /\ ~ErrorCoreRestarts /\ ~AdapterFatal
  BY <1>2
  DEF Setup, InitEeprom, ValidateTracking, CountWatchdog, ErrorCoreAccepts, SetDevMode, DefaultPeers,
      WriteDefaultPeers, CreateAdapter, LoadMeshKey, LoadKeypair, GenerateKeypair, BootEpoch, Goto
<1>3. CASE Handlers /\ ~ConfigSetRestart /\ ~ConfigButtonRestart
  BY <1>3
  DEF Handlers, JoinAck, JoinAckLearn, LearnSecondary, LearnMaster, EnrollPeer, EnrollPeerWrite,
      NodeIdSet, TxPowerSet, ConfigSet, ConfigButton, ConfigButtonFlush, Goto, Handle, NoWish
<1>4. CASE LoopFlush \/ Tick \/ UNCHANGED vars
  BY <1>4 DEF LoopFlush, Tick, vars, lifeVars, Goto
<1> QED BY <1>1, <1>2, <1>3, <1>4 DEF Next, Setup, Handlers

LEMMA TypeParts == TypeOK <=> Stored /\ Flags /\ Times /\ Counts /\ Control
BY Zenon DEF TypeOK, Stored, Flags, Times, Counts, Control

LEMMA StepTypeOK == TypeOK /\ [Next]_vars => TypeOK'
<1>1. TypeOK => Stored /\ Flags /\ Times /\ Counts /\ Control
  BY TypeParts
<1>2. Stored' /\ Flags' /\ Times' /\ Counts' /\ Control' => TypeOK'
  BY TypeParts, PTL
<1> QED BY <1>1, <1>2, StepFlags, StepStored, StepControl

-----------------------------------------------------------------------------
(* The inductive invariant.                                                *)

\* The part of the invariant that is not typing.
Coherent == CleanMeansSaved /\ StartsClean /\ LayoutIsCurrent /\ PeersMirrored /\ RoleOnItsWay

LEMMA InitIndInv == Init => IndInv
<1> SUFFICES ASSUME Init PROVE IndInv
  OBVIOUS
<1>1. Flags
  BY Zenon DEF Init, Flags
<1>2. Stored /\ Times
  BY ImagesAssumption, Constants DEF Init, Stored, Times
<1>3. Control /\ Counts
  BY DEF Init, Control, Counts, Phase, SetupPhase, Reason, Expected
<1>4. CleanMeansSaved /\ StartsClean /\ LayoutIsCurrent /\ PeersMirrored /\ RoleOnItsWay
  BY DEF Init, CleanMeansSaved, StartsClean, LayoutIsCurrent, PeersMirrored, RoleOnItsWay
<1> QED BY <1>1, <1>2, <1>3, <1>4, TypeParts DEF IndInv

\* A restart reads the mirror from flash; the role that was asked for, if it is still
\* wanted, is there by then.
LEMMA RebootKeeps ==
  ASSUME Coherent, NEW r, Reboot(r),
         \/ Unasked
         \/ NoWish /\ phase # "roleSaved"
  PROVE  Coherent'
<1>1. ram' = flash /\ flash' = flash /\ dirty' = FALSE /\ phase' = "init"
  BY DEF Reboot, Begin
<1>2. RoleOnItsWay'
  <2>1. CASE Unasked
    BY <1>1, <2>1 DEF Unasked, RoleOnItsWay
  <2>2. CASE NoWish /\ phase # "roleSaved"
    BY <1>1, <2>2 DEF NoWish, Coherent, RoleOnItsWay
  <2> QED BY <2>1, <2>2
<1>3. CleanMeansSaved' /\ StartsClean' /\ LayoutIsCurrent' /\ PeersMirrored'
  BY <1>1 DEF CleanMeansSaved, StartsClean, LayoutIsCurrent, PeersMirrored
<1> QED BY <1>2, <1>3 DEF Coherent

LEMMA RestartSteps ==
  ASSUME Coherent, \/ PowerLoss \/ WatchdogReset \/ Fault \/ ErrorCoreRestarts \/ AdapterFatal
                   \/ ConfigSetRestart \/ ConfigButtonRestart
  PROVE  Coherent'
<1>1. CASE PowerLoss \/ WatchdogReset \/ Fault
  BY <1>1, RebootKeeps DEF PowerLoss, WatchdogReset, Fault
<1>2. CASE ErrorCoreRestarts \/ AdapterFatal
  BY <1>2, RebootKeeps DEF ErrorCoreRestarts, AdapterFatal, ErrorRestart, NoWish
<1>3. CASE ConfigSetRestart \/ ConfigButtonRestart
  BY <1>3, RebootKeeps DEF ConfigSetRestart, ConfigButtonRestart
<1> QED BY <1>1, <1>2, <1>3

\* The version check, the migration and the validation of the counter: until then flash
\* and mirror are the same.
LEMMA InitSteps ==
  ASSUME Stored, Coherent, InitEeprom \/ ValidateTracking
  PROVE  Coherent'
<1> USE Constants DEF Coherent, CleanMeansSaved, StartsClean, LayoutIsCurrent, PeersMirrored,
                      RoleOnItsWay, Goto
<1>1. ram = flash /\ ~dirty /\ ram \in [Field -> Nat]
  BY DEF InitEeprom, ValidateTracking, Stored
<1>2. CASE InitClearNewer /\ phase = "init" /\ Goto("init")
  <2>1. \A f \in Field : Erased[f] = Blank
    BY DEF Erased
  <2> QED BY <1>1, <1>2, <2>1 DEF InitClearNewer
<1>3. CASE InitMigrate /\ phase = "init" /\ Goto("validate")
  BY <1>1, <1>3, MigratedKeeps DEF InitMigrate
<1>4. CASE ValidateTracking
  <2>1. flash' = ram' /\ \A f \in Field : f # "count" => ram'[f] = ram[f]
    BY <1>1, <1>4 DEF ValidateTracking, InitValidate, ValidCount
  <2> QED BY <1>1, <1>4, <2>1 DEF ValidateTracking, InitValidate
<1> QED BY <1>2, <1>3, <1>4 DEF InitEeprom

\* The rest of setup().
LEMMA SetupSteps ==
  ASSUME Stored, Counts, Coherent,
         \/ CountWatchdog \/ ErrorCoreAccepts \/ SetDevMode \/ DefaultPeers \/ WriteDefaultPeers
         \/ CreateAdapter \/ LoadMeshKey \/ LoadKeypair \/ GenerateKeypair \/ BootEpoch
  PROVE  Coherent'
<1> USE Constants DEF Coherent, CleanMeansSaved, StartsClean, LayoutIsCurrent, PeersMirrored,
                      RoleOnItsWay, Goto
<1>1. CASE CountWatchdog
  BY <1>1 DEF CountWatchdog, Stored
<1>2. CASE ErrorCoreAccepts \/ SetDevMode \/ CreateAdapter \/ LoadKeypair
  BY <1>2 DEF ErrorCoreAccepts, SetDevMode, CreateAdapter, LoadKeypair, storeVars
<1>3. CASE DefaultPeers
  BY <1>3 DEF DefaultPeers, ClearPeers, storeVars, Stored
<1>4. CASE WriteDefaultPeers
  BY <1>4 DEF WriteDefaultPeers, WritePeers, Stored, Blank
<1>5. CASE LoadMeshKey
  <2>1. CASE SaveDeferred("meshKey", 0)
    BY <1>5, <2>1, SaveDeferredEffect DEF LoadMeshKey, Deferred
  <2>2. CASE UNCHANGED storeVars
    BY <1>5, <2>2 DEF LoadMeshKey, storeVars
  <2> QED BY <1>5, <2>1, <2>2 DEF LoadMeshKey
<1>6. CASE GenerateKeypair
  BY <1>6, SaveImmediateEffect DEF GenerateKeypair, Immediate, Counts
<1>7. CASE BootEpoch
  <2>1. (IF ram["epoch"] = Blank THEN 0 ELSE ram["epoch"]) + 1 \in Nat /\ "epoch" \in Immediate
    BY DEF Stored, Immediate, Field
  <2> QED BY <1>7, <2>1, SaveImmediateEffect DEF BootEpoch
<1> QED BY <1>1, <1>2, <1>3, <1>4, <1>5, <1>6, <1>7

\* What the node saves while it runs.
LEMMA HandlerSteps ==
  ASSUME Stored, Coherent, Handlers, ~ConfigSetRestart, ~ConfigButtonRestart
  PROVE  Coherent'
<1> USE Constants DEF Coherent, CleanMeansSaved, StartsClean, LayoutIsCurrent, PeersMirrored,
                      RoleOnItsWay, Goto, Handle, NoWish
<1>1. CASE JoinAck
  BY <1>1, SaveImmediateEffect DEF JoinAck, Immediate
<1>2. CASE JoinAckLearn
  <2>1. CASE SaveImmediate("known", 1)
    BY <1>2, <2>1, SaveImmediateEffect DEF JoinAckLearn, Immediate
  <2>2. CASE UNCHANGED storeVars
    BY <1>2, <2>2 DEF JoinAckLearn, storeVars
  <2> QED BY <1>2, <2>1, <2>2 DEF JoinAckLearn
<1>3. CASE LearnSecondary \/ (\E m \in 1 .. 2 : LearnMaster(m)) \/ TxPowerSet
  BY <1>3, SaveImmediateEffect DEF LearnSecondary, LearnMaster, TxPowerSet, Immediate
<1>4. CASE EnrollPeer
  BY <1>4 DEF EnrollPeer, ClearPeers, storeVars, Stored
<1>5. CASE EnrollPeerWrite
  BY <1>5 DEF EnrollPeerWrite, WritePeers, Stored, Blank
<1>6. CASE NodeIdSet
  BY <1>6, SaveDeferredEffect DEF NodeIdSet, Deferred
<1>7. ASSUME NEW type \in AdapterType, ConfigSet(type) PROVE Coherent'
  <2>1. type \in Nat /\ "adapter" \in Deferred
    BY DEF AdapterType, SERIAL_ADAPTER, PIR_ADAPTER, LED_ADAPTER, Deferred
  <2> QED BY <1>7, <2>1, SaveDeferredEffect DEF ConfigSet
<1>8. CASE ConfigButton
  <2> DEFINE role == IF ram["master"] = 1 THEN 0 ELSE 1
  <2>1. SaveDeferred("master", role) /\ role \in Nat /\ "master" \in Deferred /\ ~isDevMode
    BY <1>8 DEF ConfigButton, Deferred
  <2>2. phase = "run" /\ phase' = "roleSaved" /\ wantRole' = role
    BY <1>8 DEF ConfigButton
  <2> HIDE DEF role
  <2>3. /\ flash' = flash /\ ram'["master"] = role /\ dirty' = TRUE
        /\ \A g \in Field : g # "master" => ram'[g] = ram[g]
    BY <2>1, SaveDeferredEffect
  <2> QED BY <2>2, <2>3
<1>9. CASE ConfigButtonFlush
  BY <1>9 DEF ConfigButtonFlush, ForceFlush, Commit
<1> QED BY <1>1, <1>2, <1>3, <1>4, <1>5, <1>6, <1>7, <1>8, <1>9 DEF Handlers

LEMMA StepIndInv == IndInv /\ [Next]_vars => IndInv'
<1> SUFFICES ASSUME IndInv, [Next]_vars PROVE IndInv'
  OBVIOUS
<1>1. Stored /\ Counts /\ Coherent
  BY TypeParts DEF IndInv, Coherent
<1>2. TypeOK'
  BY StepTypeOK DEF IndInv
<1>3. Coherent'
  <2>1. CASE Setup
    BY <1>1, <2>1, RestartSteps, InitSteps, SetupSteps DEF Setup
  <2>2. CASE Handlers
    BY <1>1, <2>2, RestartSteps, HandlerSteps
  <2>3. CASE PowerLoss \/ WatchdogReset \/ Fault
    BY <1>1, <2>3, RestartSteps
  <2>4. CASE LoopFlush
    BY <1>1, <2>4
    DEF LoopFlush, FlushIfDirty, Commit, Goto, Coherent, CleanMeansSaved, StartsClean,
        LayoutIsCurrent, PeersMirrored, RoleOnItsWay
  <2>5. CASE Tick \/ UNCHANGED vars
    BY <1>1, <2>5
    DEF Tick, StoreTick, vars, storeVars, lifeVars, Coherent, CleanMeansSaved, StartsClean,
        LayoutIsCurrent, PeersMirrored, RoleOnItsWay
  <2> QED BY <2>1, <2>2, <2>3, <2>4, <2>5 DEF Next
<1> QED BY <1>2, <1>3 DEF IndInv, Coherent

\* The inductive invariant of the settings: mirror, flash and dirty flag agree about what
\* is saved, through migrations, failures and restarts.
THEOREM SettingsInvariant == Spec => []IndInv
BY InitIndInv, StepIndInv, PTL DEF Spec

-----------------------------------------------------------------------------
(* What a step may do to the flash.                                        *)

\* A commit of settings that keeps what must not be lost.
CommitKeeps ==
  /\ flash["schema"] = CURRENT_SCHEMA_VERSION /\ flash'["schema"] = CURRENT_SCHEMA_VERSION
  /\ flash["keypair"] # Blank => flash'["keypair"] = flash["keypair"]
  /\ flash["peers"] # Blank => flash'["peers"] # Blank

FlashChange ==
  \/ flash' = flash
  \/ flash' = Erased
  \/ flash' = Migrated(flash)
  \/ CommitKeeps

\* An immediate save commits the whole mirror, whose keypair is that of the flash and
\* whose peers are there.
LEMMA SaveImmediateKeeps ==
  ASSUME Stored, Coherent, phase \notin {"init", "writePeers"},
         NEW f \in Immediate, NEW v \in Nat, SaveImmediate(f, v),
         f = "keypair" => ram["keypair"] = Blank
  PROVE  flash' = flash \/ CommitKeeps
BY SaveImmediateEffect, Constants DEF Coherent, LayoutIsCurrent, PeersMirrored, CommitKeeps

LEMMA FlashSteps == IndInv /\ [Next]_vars => FlashChange
<1> SUFFICES ASSUME IndInv, [Next]_vars PROVE FlashChange
  OBVIOUS
<1>1. Stored /\ Counts /\ Coherent
  BY TypeParts DEF IndInv, Coherent
<1>2. CASE PowerLoss \/ WatchdogReset \/ Fault \/ ErrorCoreRestarts \/ AdapterFatal
             \/ ConfigSetRestart \/ ConfigButtonRestart
  BY <1>2 DEF PowerLoss, WatchdogReset, Fault, ErrorCoreRestarts, AdapterFatal, ErrorRestart,
              ConfigSetRestart, ConfigButtonRestart, Reboot, Begin, FlashChange
<1>3. CASE InitEeprom
  <2>1. ram = flash
    BY <1>1, <1>3 DEF InitEeprom, Coherent, StartsClean, CleanMeansSaved
  <2> QED BY <1>3, <2>1 DEF InitEeprom, InitClearNewer, InitMigrate, FlashChange
<1>4. CASE ValidateTracking
  <2>1. flash' = ram' /\ \A f \in Field : f # "count" => ram'[f] = ram[f]
    BY <1>1, <1>4, Constants DEF ValidateTracking, InitValidate, ValidCount, Stored
  <2>2. phase \notin {"init", "writePeers"}
    BY <1>4 DEF ValidateTracking
  <2> QED
    BY <1>1, <2>1, <2>2, Constants
    DEF Coherent, LayoutIsCurrent, PeersMirrored, FlashChange, CommitKeeps
<1>5. CASE CountWatchdog \/ ErrorCoreAccepts \/ SetDevMode \/ DefaultPeers \/ WriteDefaultPeers
             \/ CreateAdapter \/ LoadMeshKey \/ LoadKeypair
  BY <1>5
  DEF CountWatchdog, ErrorCoreAccepts, SetDevMode, DefaultPeers, WriteDefaultPeers, CreateAdapter,
      LoadMeshKey, LoadKeypair, ClearPeers, WritePeers, SaveDeferred, storeVars, FlashChange
<1>6. CASE GenerateKeypair
  BY <1>1, <1>6, SaveImmediateKeeps DEF GenerateKeypair, Immediate, Counts, FlashChange
<1>7. CASE BootEpoch
  <2>1. (IF ram["epoch"] = Blank THEN 0 ELSE ram["epoch"]) + 1 \in Nat /\ "epoch" \in Immediate
    BY <1>1 DEF Stored, Immediate, Field
  <2> QED BY <1>1, <1>7, <2>1, SaveImmediateKeeps DEF BootEpoch, FlashChange
<1>8. CASE JoinAck \/ LearnSecondary \/ (\E m \in 1 .. 2 : LearnMaster(m)) \/ TxPowerSet
  BY <1>1, <1>8, SaveImmediateKeeps
  DEF JoinAck, LearnSecondary, LearnMaster, TxPowerSet, Handle, Immediate, FlashChange
<1>9. CASE JoinAckLearn
  <2>1. CASE SaveImmediate("known", 1)
    BY <1>1, <1>9, <2>1, SaveImmediateKeeps DEF JoinAckLearn, Immediate, FlashChange
  <2> QED BY <1>9, <2>1 DEF JoinAckLearn, storeVars, FlashChange
<1>10. CASE EnrollPeer \/ EnrollPeerWrite \/ NodeIdSet \/ (\E type \in AdapterType : ConfigSet(type))
              \/ ConfigButton
  BY <1>10 DEF EnrollPeer, EnrollPeerWrite, NodeIdSet, ConfigSet, ConfigButton, ClearPeers,
               WritePeers, SaveDeferred, storeVars, FlashChange
<1>11. CASE ConfigButtonFlush \/ LoopFlush
  <2>1. (flash' = flash \/ flash' = ram) /\ phase \notin {"init", "writePeers"}
    BY <1>11 DEF ConfigButtonFlush, LoopFlush, ForceFlush, FlushIfDirty, Commit
  <2> QED
    BY <1>1, <2>1, Constants
    DEF Coherent, LayoutIsCurrent, PeersMirrored, FlashChange, CommitKeeps
<1>12. CASE Tick \/ UNCHANGED vars
  BY <1>12 DEF Tick, StoreTick, vars, storeVars, FlashChange
<1> QED
  BY <1>2, <1>3, <1>4, <1>5, <1>6, <1>7, <1>8, <1>9, <1>10, <1>11, <1>12 DEF Next, Setup, Handlers

-----------------------------------------------------------------------------
(* The results.                                                            *)

\* Types, for every flash image a node may be delivered with.
THEOREM SettingsTypeCorrect == Spec => []TypeOK
<1>1. IndInv => TypeOK
  BY DEF IndInv
<1> QED BY SettingsInvariant, <1>1, PTL

\* flushIfDirty and forceFlush never return early with a setting unsaved: the dirty flag
\* is clear only when flash holds the mirror.
THEOREM NothingUnsavedWhenClean == Spec => []CleanMeansSaved
<1>1. IndInv => CleanMeansSaved
  BY DEF IndInv
<1> QED BY SettingsInvariant, <1>1, PTL

\* The role asked for with the config button survives the restart it causes, and every
\* later restart the node decides on.
THEOREM ChosenRoleSurvives == Spec => []RoleSurvivesRestart
<1>1. IndInv => RoleSurvivesRestart
  BY DEF IndInv, RoleOnItsWay, RoleSurvivesRestart
<1> QED BY SettingsInvariant, <1>1, PTL

\* No step but the erasure of a downgrade changes a keypair that is in flash: no migration,
\* whenever the power fails, no commit, and no second key.
THEOREM IdentityIsKept == Spec => IdentityKept
<1>1. IndInv /\ [Next]_vars =>
        [(KeypairIn(flash) # Blank /\ KeypairIn(flash') # KeypairIn(flash)) => flash' = Erased]_vars
  <2> SUFFICES ASSUME IndInv, [Next]_vars, KeypairIn(flash) # Blank, flash' # Erased
               PROVE  KeypairIn(flash') = KeypairIn(flash)
    OBVIOUS
  <2>1. flash \in [Field -> Nat] /\ CURRENT_SCHEMA_VERSION # 0
    BY DEF IndInv, TypeOK, CURRENT_SCHEMA_VERSION
  <2>2. CASE flash' = flash
    BY <2>2
  <2>3. CASE flash' = Migrated(flash)
    BY <2>1, <2>3, MigratedKeeps DEF KeypairIn
  <2>4. CASE CommitKeeps
    BY <2>1, <2>4 DEF CommitKeeps, KeypairIn
  <2> QED BY <2>2, <2>3, <2>4, FlashSteps DEF FlashChange
<1> QED BY SettingsInvariant, <1>1, PTL DEF Spec, IdentityKept

\* Nothing is committed between the two halves of savePeerList, and no commit of another
\* setting finds the list blank.
THEOREM PeersAreNeverErased == Spec => PeersNeverErased
<1>1. IndInv /\ [Next]_vars =>
        [(flash["schema"] = CURRENT_SCHEMA_VERSION /\ flash["peers"] # Blank)
           => (flash'["peers"] # Blank \/ flash' = Erased)]_vars
  <2> SUFFICES ASSUME IndInv, [Next]_vars, flash' # Erased,
                      flash["schema"] = CURRENT_SCHEMA_VERSION, flash["peers"] # Blank
               PROVE  flash'["peers"] # Blank
    OBVIOUS
  <2>1. flash \in [Field -> Nat] /\ CURRENT_SCHEMA_VERSION # 0
    BY DEF IndInv, TypeOK, CURRENT_SCHEMA_VERSION
  <2>2. CASE flash' = flash
    BY <2>2
  <2>3. CASE flash' = Migrated(flash)
    BY <2>1, <2>3, MigratedKeeps
  <2>4. CASE CommitKeeps
    BY <2>4 DEF CommitKeeps
  <2> QED BY <2>2, <2>3, <2>4, FlashSteps DEF FlashChange
<1> QED BY SettingsInvariant, <1>1, PTL DEF Spec, PeersNeverErased
=============================================================================
