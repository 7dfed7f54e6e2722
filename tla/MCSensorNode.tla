---------------------------- MODULE MCSensorNode ----------------------------
(* The main task of a node with a motion sensor: PirAdapter, which has the   *)
(* adapter's part of a pass and its interrupt, and beside it MainLoop, which *)
(* has the rest of the pass, on a shorter clock.  A behaviour is one of      *)
(* either: that of PirAdapter has no phase, and no step, of MainLoop.        *)
EXTENDS PirAdapter

CONSTANTS BUTTON_HOLD_TIME, CONFIRM_WINDOW, LoopModulus, DEFAULT_DEV_MASTER, MaxTicks

VARIABLES
  part,  \* which of the two the behaviour is one of
  phase, resetReason, configHold, resetHold, confirm, isMaster, masterFlag, enrolled, displayDue,
  isDevMode, meshHasMaster, configButton, resetButton, displayOk, ticks, wrapped, released

Main == INSTANCE MainLoop WITH ClockModulus <- LoopModulus

ASSUME LoopAssumption == Main!MainLoopAssumption

adapterVars == <<shared, pc, now, timer, lastHealthMillis, history>>
mainVars ==
  <<phase, resetReason, configHold, resetHold, confirm, isMaster, masterFlag, enrolled, displayDue,
    isDevMode, meshHasMaster, configButton, resetButton, displayOk, ticks, wrapped, released>>
nodeVars == <<part, adapterVars, mainVars, millis>>

NoMain ==
  /\ phase = "none" /\ resetReason = 0 /\ configHold = 0 /\ resetHold = 0 /\ confirm = 0
  /\ isMaster = 0 /\ masterFlag = 0 /\ enrolled = 0 /\ displayDue = 0
  /\ isDevMode = 0 /\ meshHasMaster = 0
  /\ configButton = FALSE /\ resetButton = FALSE /\ displayOk = TRUE
  /\ ticks = 0 /\ wrapped = 0 /\ released = 0

NodeInit ==
  /\ Init
  /\ \/ part = "adapter" /\ NoMain
     \/ part = "main" /\ Main!Init

Adapter == part = "adapter" /\ Next /\ UNCHANGED <<part, mainVars>>
RestOfPass == part = "main" /\ Main!Next /\ UNCHANGED <<part, adapterVars>>

\* The fairness of PirAdapter and of MainLoop, each where it runs.
NodeSpec ==
  /\ NodeInit /\ [][Adapter \/ RestOfPass]_nodeVars
  /\ WF_vars(Pass) /\ WF_vars(part = "adapter" /\ Tick)
  /\ WF_<<mainVars, millis>>(Main!Run) /\ WF_<<mainVars, millis>>(Main!Tick)

\* A config button that is held down changes the role on a node that gets to its
\* buttons (isPressed, loop); MainLoop states it in full.
HoldChangesRole == Main!HoldChangesRole

\* A display that stops answering takes the node with it (writeByte, signalError).
LostDisplayStopsNode == Main!LostDisplayStopsNode
=============================================================================
