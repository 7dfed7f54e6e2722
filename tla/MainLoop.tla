------------------------------ MODULE MainLoop ------------------------------
(***************************************************************************)
(* The part of loop() that people see (main.ino): the display, the gate    *)
(* for nodes that are not enrolled, the config button that changes the     *)
(* role and the reset button that wipes the settings, with the start of    *)
(* the node as far as they depend on it, and with what an error does       *)
(* (ErrorCore.cpp, SevenSegDisplay.cpp, Button.cpp).                       *)
(*                                                                         *)
(* One Loop step is one pass of loop(); the clock may tick MaxTicks times  *)
(* in a pass, for some of its work blocks.  millis() wraps.  The time at   *)
(* which a hold began means nothing while the button was not seen pressed, *)
(* so that flag and time are one variable, as are the armed reset and its  *)
(* deadline.  A restart follows the save that needs it without a gap here: *)
(* NodeLifecycle has the flash.  The display is compiled in, as it is by   *)
(* default.                                                                *)
(***************************************************************************)
EXTENDS Naturals, FiniteSets

CONSTANTS
  BUTTON_HOLD_TIME,  \* BUTTON_HOLD_TIME_MS in ticks
  CONFIRM_WINDOW,    \* the three seconds of the reset, in ticks
  ClockModulus,      \* where millis() wraps
  DEFAULT_DEV_MASTER,
  MaxTicks           \* bound on the ticks between two passes

\* What the constants have to be (assumed where they get their values).
MainLoopAssumption ==
  /\ BUTTON_HOLD_TIME \in Nat \ {0} /\ CONFIRM_WINDOW \in Nat \ {0}
  /\ ClockModulus \in Nat /\ ClockModulus > BUTTON_HOLD_TIME /\ ClockModulus > CONFIRM_WINDOW
  /\ DEFAULT_DEV_MASTER \in BOOLEAN
  /\ MaxTicks \in Nat \ {0}

Clock == 0 .. (ClockModulus - 1)
No == ClockModulus  \* not a time

VARIABLES
  \* The node.
  phase,         \* "boot" (setup) or "loop"
  resetReason,   \* esp_reset_reason, as ErrorCore looks at it: "expected" or "panic"
  millis,
  configHold,    \* holdStart, or No when ~buttonWasPressed
  resetHold,     \* resetHoldStart, or No when ~resetButtonWasPressed
  confirm,       \* resetConfirmDeadline, or No when ~resetConfirmPending
  isMaster,      \* the role the mesh has
  masterFlag,    \* the role in flash
  enrolled,      \* the enrolled flag in flash
  displayDue,    \* 500 ms have passed since the dashes changed
  \* Its surroundings.
  isDevMode,     \* does not change
  meshHasMaster, \* there is a master that a server can enroll the node through
  configButton, resetButton,  \* held down
  displayOk,     \* the display acknowledges
  \* History.
  ticks,         \* since the last pass
  wrapped,       \* the clock has wrapped since the reset was armed
  released       \* the reset button was seen released since then

buttons == <<configHold, resetHold, confirm>>
sinceArmed == <<wrapped, released>>
roles == <<isMaster, masterFlag, enrolled>>
surroundings == <<isDevMode, meshHasMaster, configButton, resetButton, displayOk>>
vars == <<phase, resetReason, millis, buttons, roles, displayDue, surroundings, ticks, sinceArmed>>

Since(time) == (millis + ClockModulus - time) % ClockModulus

-----------------------------------------------------------------------------
(* Mutants: what the code would be with a plausible bug in it.             *)

\* all three reads have to agree
IsPressed_AllHigh(reads) == \A i \in 1 .. 3 : reads[i]

\* a missing acknowledgement is logged, and no error
ReportsNoAck_LogOnly == FALSE

-----------------------------------------------------------------------------
(* Buttons: Button::isPressed *)

\* Three reads, one of which may be disturbed.
Reads(level) ==
  {r \in [1 .. 3 -> BOOLEAN] : Cardinality({i \in 1 .. 3 : r[i] # level}) <= 1}
IsPressed(reads) == Cardinality({i \in 1 .. 3 : reads[i]}) >= 2

HeldLong(hold) == hold # No /\ Since(hold) >= BUTTON_HOLD_TIME

\* What a pass that is not the last of a long hold makes of the flag and the time.
Held(hold, pressed) == IF ~pressed THEN No ELSE IF hold = No THEN millis ELSE hold

\* The flag is cleared before anything is done about the hold.
AfterHold(start) == No

-----------------------------------------------------------------------------
(* Errors *)

\* SevenSegDisplay::writeByte reports a missing acknowledgement as a HARDWARE error.
ReportsNoAck == TRUE

\* What setSegments ends in.  Once ErrorCore knows the display, signalError shows the
\* code of the error before it does anything else, on the display that does not
\* answer: signalError, show, writeByte and fail call each other until the stack is
\* full, and the node panics.
CanShow == displayOk \/ ~ReportsNoAck

\* A restart: all statics are new, and the role in dev mode with them.
Restart(reason) ==
  /\ phase' = "boot"
  /\ resetReason' = reason
  /\ configHold' = No /\ resetHold' = No /\ confirm' = No
  /\ wrapped' = FALSE /\ released' = FALSE

-----------------------------------------------------------------------------
(* setup *)

\* The display tests itself before ErrorCore is there: an error then is shown
\* nowhere, and a HARDWARE error restarts.  So does the unexpected reset that
\* ErrorCore::init finds, when the display is in order.
BootFails ==
  /\ phase = "boot"
  /\ ~CanShow \/ resetReason = "panic"
  /\ Restart("expected")
  /\ UNCHANGED <<millis, roles, displayDue, surroundings, ticks>>

Boot ==
  /\ phase = "boot"
  /\ CanShow /\ resetReason = "expected"
  /\ phase' = "loop"
  /\ isMaster' = IF isDevMode THEN DEFAULT_DEV_MASTER ELSE masterFlag
  /\ displayDue' = FALSE /\ ticks' = 0
  /\ UNCHANGED <<resetReason, millis, buttons, masterFlag, enrolled, surroundings, sinceArmed>>

-----------------------------------------------------------------------------
(* loop *)

\* The dashes of a node that is not enrolled change every 500 ms; the others show
\* their number in every pass.
Shows == enrolled \/ isMaster \/ displayDue

\* A node that is neither enrolled nor a master leaves loop() before the buttons.
ReachesButtons == enrolled \/ isMaster

DisplayPanics ==
  /\ phase = "loop" /\ Shows /\ ~CanShow
  /\ Restart("panic")
  /\ UNCHANGED <<millis, roles, displayDue, surroundings, ticks>>

InPass ==
  /\ phase = "loop"
  /\ Shows => CanShow
  /\ displayDue' = FALSE
  /\ ticks' = 0
  /\ UNCHANGED <<millis, surroundings>>

LoopGated ==
  /\ InPass /\ ~ReachesButtons
  /\ UNCHANGED <<phase, resetReason, buttons, roles, sinceArmed>>

\* The config button, held for long: in dev mode the role changes at once, and in
\* RAM only; else the new role is saved and the node restarts.
ToggleInDevMode(config) ==
  /\ config /\ HeldLong(configHold) /\ isDevMode
  /\ isMaster' = ~isMaster
  /\ configHold' = No
  /\ UNCHANGED <<masterFlag, enrolled>>

SaveRoleAndRestart(config) ==
  /\ InPass /\ ReachesButtons
  /\ config /\ HeldLong(configHold) /\ ~isDevMode
  /\ masterFlag' = ~masterFlag
  /\ Restart("expected")
  /\ UNCHANGED <<isMaster, enrolled>>

ConfigButton(config) ==
  \/ ToggleInDevMode(config)
  \/ /\ ~(config /\ HeldLong(configHold))
     /\ configHold' = Held(configHold, config)
     /\ UNCHANGED roles

\* The reset button.  The first long hold arms the reset; a second one that is not
\* in time does nothing; releasing the button after the deadline disarms it.
ResetButton(reset) ==
  \/ /\ reset /\ HeldLong(resetHold) /\ confirm = No
     /\ resetHold' = AfterHold(resetHold)
     /\ confirm' = (millis + CONFIRM_WINDOW) % ClockModulus
     /\ wrapped' = FALSE /\ released' = FALSE
  \/ /\ reset /\ HeldLong(resetHold) /\ confirm # No /\ millis >= confirm
     /\ resetHold' = AfterHold(resetHold)
     /\ UNCHANGED <<confirm, sinceArmed>>
  \/ /\ reset /\ ~HeldLong(resetHold)
     /\ resetHold' = Held(resetHold, reset)
     /\ UNCHANGED <<confirm, sinceArmed>>
  \/ /\ ~reset
     /\ resetHold' = No
     /\ confirm' = IF confirm # No /\ millis > confirm THEN No ELSE confirm
     /\ released' = (confirm' # No) /\ wrapped' = (wrapped /\ confirm' # No)

LoopWithButtons(config, reset) ==
  /\ InPass /\ ReachesButtons
  /\ ConfigButton(config)
  /\ ResetButton(reset)
  /\ UNCHANGED <<phase, resetReason>>

\* The second long hold in time: clearAll, and a restart.  A config button held for
\* as long comes first and in production does not come back.
Wipe(config, reset) ==
  /\ InPass /\ ReachesButtons
  /\ isDevMode \/ ~(config /\ HeldLong(configHold))
  /\ reset /\ HeldLong(resetHold) /\ confirm # No /\ millis < confirm
  /\ masterFlag' = FALSE /\ enrolled' = FALSE
  /\ Restart("expected")
  /\ UNCHANGED isMaster

Loop ==
  \/ LoopGated
  \/ \E c \in Reads(configButton), r \in Reads(resetButton) :
       \/ SaveRoleAndRestart(IsPressed(c))
       \/ LoopWithButtons(IsPressed(c), IsPressed(r))
       \/ Wipe(IsPressed(c), IsPressed(r))

-----------------------------------------------------------------------------
(* Time and surroundings *)

Tick ==
  /\ phase = "loop" /\ ticks < MaxTicks
  /\ ticks' = ticks + 1
  /\ millis' = (millis + 1) % ClockModulus
  /\ displayDue' = TRUE
  /\ wrapped' = (wrapped \/ (confirm # No /\ millis' = 0))
  /\ UNCHANGED <<phase, resetReason, buttons, roles, surroundings, released>>

\* processJoinAck: the server enrolls the node through a master.  Nothing is saved in
\* dev mode.
GetsEnrolled ==
  /\ phase = "loop" /\ meshHasMaster /\ ~isMaster /\ ~enrolled /\ ~isDevMode
  /\ enrolled' = TRUE
  /\ UNCHANGED <<phase, resetReason, millis, buttons, isMaster, masterFlag, displayDue, surroundings, ticks, sinceArmed>>

\* Somebody presses or releases a button; the display comes and goes.
UseButton ==
  /\ \/ configButton' = ~configButton /\ UNCHANGED resetButton
     \/ resetButton' = ~resetButton /\ UNCHANGED configButton
  /\ UNCHANGED <<phase, resetReason, millis, buttons, roles, displayDue, isDevMode, meshHasMaster, displayOk, ticks, sinceArmed>>

DisplayChanges ==
  /\ displayOk' = ~displayOk
  /\ UNCHANGED <<phase, resetReason, millis, buttons, roles, displayDue, isDevMode, meshHasMaster, configButton, resetButton, ticks, sinceArmed>>

-----------------------------------------------------------------------------

\* A node as it comes from the factory, in production or in dev mode.
Init ==
  /\ phase = "boot" /\ resetReason = "expected" /\ millis = 0
  /\ configHold = No /\ resetHold = No /\ confirm = No
  /\ isMaster = FALSE /\ masterFlag = FALSE /\ enrolled = FALSE
  /\ displayDue = FALSE
  /\ isDevMode \in BOOLEAN /\ meshHasMaster \in BOOLEAN
  /\ configButton = FALSE /\ resetButton = FALSE /\ displayOk = TRUE
  /\ ticks = 0 /\ wrapped = FALSE /\ released = FALSE

Run == BootFails \/ Boot \/ DisplayPanics \/ Loop

Next == Run \/ Tick \/ GetsEnrolled \/ UseButton \/ DisplayChanges

\* The program runs and time passes; nobody has to do anything.
Spec == Init /\ [][Next]_vars
FairSpec == Spec /\ WF_vars(Run) /\ WF_vars(Tick)

-----------------------------------------------------------------------------
(* Correctness *)

\* Every variable has its type.
TypeOK ==
  /\ phase \in {"boot", "loop"} /\ resetReason \in {"expected", "panic"}
  /\ millis \in Clock
  /\ configHold \in Clock \union {No} /\ resetHold \in Clock \union {No} /\ confirm \in Clock \union {No}
  /\ isMaster \in BOOLEAN /\ masterFlag \in BOOLEAN /\ enrolled \in BOOLEAN
  /\ displayDue \in BOOLEAN /\ isDevMode \in BOOLEAN /\ meshHasMaster \in BOOLEAN
  /\ configButton \in BOOLEAN /\ resetButton \in BOOLEAN /\ displayOk \in BOOLEAN
  /\ wrapped \in BOOLEAN /\ released \in BOOLEAN /\ ticks \in 0 .. MaxTicks

\* What the gate makes of the config button of a fresh node: without a master in the
\* mesh it never becomes one outside dev mode, whatever is done with its buttons.  The
\* only way to the role is the config button, the way to the buttons is enrollment,
\* and the way to enrollment is a master (loop).
FreshNodeStaysNode == (~isDevMode /\ ~meshHasMaster) => ~isMaster /\ ~masterFlag

\* What the order of the two tests makes of the reset button: the settings are only
\* wiped when the clock has wrapped since the reset was armed.  The second hold takes
\* longer than the window, so that the deadline has passed when it is complete (loop).
WipesOnlyAcrossWrap ==
  [][(phase = "loop" /\ phase' = "boot" /\ enrolled /\ ~enrolled') => wrapped]_vars

\* The same two as README.md has them (lines 173 and 174).  A config button held for
\* long toggles the role, whoever the node is; it does not, on a node that the gate
\* keeps from its buttons.
RoleChanges == isMaster' # isMaster \/ masterFlag' # masterFlag
HoldTogglesRole == <>[](configButton /\ displayOk) => []<><<RoleChanges>>_vars

\* After a first hold has armed the reset, a second one that begins within the window
\* wipes the settings and restarts the node when it is complete; it does not, because
\* the deadline is compared with the end of the hold and not with its beginning.
SecondHold == released /\ ~wrapped /\ resetHold < confirm /\ HeldLong(resetHold)
SecondHoldWipes ==
  [][(phase = "loop" /\ confirm # No /\ resetButton /\ SecondHold /\ resetHold' = No)
       => phase' = "boot"]_vars

\* A config button that is held down changes the role, disturbed reads or not, on a
\* node whose display works and that gets to its buttons (isPressed, loop); held on,
\* it changes the role again.
HoldChangesRole ==
  <>[](configButton /\ displayOk /\ (enrolled \/ isMaster)) => []<><<RoleChanges>>_vars

\* A display that stops answering takes the node with it: for good it neither runs
\* its main loop nor reaches it, until the display is back (writeByte, signalError).
LostDisplayStopsNode == <>[]~displayOk => <>[](phase = "boot")
=============================================================================
