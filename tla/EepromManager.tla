---------------------------- MODULE EepromManager ----------------------------
(***************************************************************************)
(* Persistent settings (EEPROM_Manager).  All reads and writes go to a     *)
(* mirror of the flash in RAM; EEPROM.commit() writes the whole mirror to  *)
(* flash in one step (the commit of a settings blob is atomic: external).  *)
(* Some settings are committed at once, others only mark the mirror dirty  *)
(* and wait for a periodic flush.  A setting is one field of the mirror,   *)
(* Blank when its bytes are erased; multi-byte fields are one value        *)
(* because nothing commits between the bytes of one save, except for the   *)
(* peer list, which is cleared first (see savePeerList).                   *)
(*                                                                         *)
(* The operators below are the steps of the class; NodeLifecycle says when *)
(* they are taken.                                                         *)
(***************************************************************************)
EXTENDS Naturals

CONSTANTS
  FLUSH_INTERVAL,  \* EEPROM_FLUSH_INTERVAL_MS in ticks
  ClockModulus     \* where millis() wraps, in ticks

ASSUME FlushAssumption == FLUSH_INTERVAL \in Nat \ {0}
ASSUME StoreClockAssumption == ClockModulus \in Nat /\ ClockModulus > FLUSH_INTERVAL

VARIABLES
  ram,        \* the mirror: Field -> Nat
  flash,      \* what survives a restart: Field -> Nat
  dirty,      \* _dirty
  lastFlush,  \* _lastFlushMs
  millis,
  isDevMode

storeVars == <<ram, flash, dirty, lastFlush, millis, isDevMode>>

Blank == 255
CURRENT_SCHEMA_VERSION == 3

Field == {"schema", "master", "dev", "meshKey", "peers", "adapter", "reason", "count", "keypair",
          "enrolled", "epoch", "known", "known2", "txPower", "nodeId",
          "oldKeypair", "oldEnrolled", "oldCount"}  \* where layout v1 had them: inside the peer list

Deferred == {"master", "dev", "meshKey", "adapter", "reason", "count", "nodeId"}
Immediate == {"keypair", "enrolled", "epoch", "known", "known2", "txPower"}

Erased == [f \in Field |-> Blank]

-----------------------------------------------------------------------------
(* Mutants: what the code would be with a plausible bug in it.             *)

\* the dirty flag is forgotten
SaveDeferred_NotMarked(f, v) ==
  /\ f \in Deferred
  /\ ram' = [ram EXCEPT ![f] = v]
  /\ UNCHANGED <<flash, dirty, lastFlush, millis, isDevMode>>

\* deadline arithmetic instead of a difference
FlushIfDirty_Deadline ==
  /\ dirty
  /\ millis >= lastFlush + FLUSH_INTERVAL
  /\ flash' = ram
  /\ dirty' = FALSE
  /\ lastFlush' = millis
  /\ UNCHANGED <<ram, millis, isDevMode>>

\* the flush only happens when its interval is over
ForceFlush_Deferred ==
  /\ IF dirty /\ (millis + ClockModulus - lastFlush) % ClockModulus >= FLUSH_INTERVAL
       THEN flash' = ram /\ dirty' = FALSE /\ lastFlush' = millis
       ELSE UNCHANGED <<flash, dirty, lastFlush>>
  /\ UNCHANGED <<ram, millis, isDevMode>>

\* the new list is cleared, committed and then written
ClearPeers_Committed ==
  /\ ram' = [ram EXCEPT !["peers"] = Blank]
  /\ flash' = ram'
  /\ UNCHANGED <<dirty, lastFlush, millis, isDevMode>>

\* the old addresses are wiped before their content is copied
MigrateV1_WipeFirst(img) ==
  [img EXCEPT !["oldKeypair"] = Blank, !["oldEnrolled"] = Blank, !["oldCount"] = Blank,
              !["peers"] = Blank, !["keypair"] = Blank, !["enrolled"] = Blank, !["count"] = 0]

-----------------------------------------------------------------------------
(* Saving *)

\* saveMasterFlag, saveDevFlag, saveMeshKey, saveAdapterType, saveRebootCount,
\* saveRebootReason, saveNodeId: write and mark; all but saveNodeId are skipped in
\* dev mode.
SaveDeferred(f, v) ==
  /\ f \in Deferred
  /\ IF isDevMode /\ f # "nodeId"
       THEN UNCHANGED <<ram, dirty>>
       ELSE ram' = [ram EXCEPT ![f] = v] /\ dirty' = TRUE
  /\ UNCHANGED <<flash, lastFlush, millis, isDevMode>>

\* saveKeypair, saveEnrolledFlag, saveBootEpoch, saveKnownMasterMac,
\* saveKnownMasterMacSecondary, saveTxPowerPreset: the commit takes everything else
\* that is waiting in the mirror along; the dirty flag stays as it is.
SaveImmediate(f, v) ==
  /\ f \in Immediate
  /\ IF isDevMode
       THEN UNCHANGED <<ram, flash>>
       ELSE ram' = [ram EXCEPT ![f] = v] /\ flash' = ram'
  /\ UNCHANGED <<dirty, lastFlush, millis, isDevMode>>

\* savePeerList: every slot is blanked, then the records are written and the list
\* is marked.  Skipped as a whole in dev mode.
ClearPeers ==
  /\ ram' = [ram EXCEPT !["peers"] = Blank]
  /\ UNCHANGED <<flash, dirty, lastFlush, millis, isDevMode>>

WritePeers(v) ==
  /\ ram' = [ram EXCEPT !["peers"] = v]
  /\ dirty' = TRUE
  /\ UNCHANGED <<flash, lastFlush, millis, isDevMode>>

-----------------------------------------------------------------------------
(* Flushing *)

Commit ==
  /\ flash' = ram
  /\ dirty' = FALSE
  /\ lastFlush' = millis

FlushIfDirty ==
  /\ dirty
  /\ (millis + ClockModulus - lastFlush) % ClockModulus >= FLUSH_INTERVAL
  /\ Commit
  /\ UNCHANGED <<ram, millis, isDevMode>>

ForceFlush ==
  /\ IF dirty THEN Commit ELSE UNCHANGED <<flash, dirty, lastFlush>>
  /\ UNCHANGED <<ram, millis, isDevMode>>

-----------------------------------------------------------------------------
(* init(): schema versions and migration *)

\* A reboot counter that makes no sense (erased flash included) counts as 0.
ValidCount(n) == IF n > 10 THEN 0 ELSE n

\* v1 to v2: keys, enrolled flag and reboot tracking move (the reset reason is
\* written anew on every boot and left out here); the old addresses and the peer
\* list that now covers them are wiped.
MigrateV1(img) ==
  [img EXCEPT !["keypair"] = img["oldKeypair"], !["enrolled"] = img["oldEnrolled"],
              !["count"] = ValidCount(img["oldCount"]),
              !["oldKeypair"] = Blank, !["oldEnrolled"] = Blank, !["oldCount"] = Blank,
              !["peers"] = Blank]

\* v2 to v3: the slot of the secondary master is new.
MigrateV2(img) == [img EXCEPT !["known2"] = Blank]

\* The mirror after the version check, committed once.
Migrated(img) ==
  LET v == img["schema"]
      v2 == IF v = 0 THEN MigrateV1(img) ELSE img
      v3 == IF v <= 2 THEN MigrateV2(v2) ELSE v2
  IN  [v3 EXCEPT !["schema"] = CURRENT_SCHEMA_VERSION]

\* Downgrade: clearAll() commits an erased flash before the version is written.
InitClearNewer ==
  /\ CURRENT_SCHEMA_VERSION < ram["schema"] /\ ram["schema"] < Blank
  /\ ram' = Erased
  /\ flash' = Erased
  /\ UNCHANGED <<dirty, lastFlush, millis, isDevMode>>

InitMigrate ==
  /\ ram["schema"] <= CURRENT_SCHEMA_VERSION \/ ram["schema"] = Blank
  /\ ram' = Migrated(ram)
  /\ flash' = ram'
  /\ UNCHANGED <<dirty, lastFlush, millis, isDevMode>>

InitValidate ==
  /\ ram' = [ram EXCEPT !["count"] = ValidCount(@)]
  /\ flash' = ram'
  /\ UNCHANGED <<dirty, lastFlush, millis, isDevMode>>

-----------------------------------------------------------------------------

\* EEPROM.begin reads the mirror from flash; the object starts from scratch.
Begin ==
  /\ ram' = flash
  /\ UNCHANGED flash
  /\ dirty' = FALSE
  /\ lastFlush' = 0
  /\ millis' = 0
  /\ isDevMode' = FALSE

StoreTick ==
  /\ millis' = (millis + 1) % ClockModulus
  /\ UNCHANGED <<ram, flash, dirty, lastFlush, isDevMode>>
=============================================================================
