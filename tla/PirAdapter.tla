----------------------------- MODULE PirAdapter -----------------------------
(***************************************************************************)
(* The motion sensor adapter (PIR_Adapter.cpp, Pir.cpp): an interrupt that *)
(* notes motion and disarms itself, and a loop that reports the motion and *)
(* re-arms the sensor after a cooldown.                                    *)
(*                                                                         *)
(* The interrupt runs on the core of the main task, whole, between any two *)
(* statements of init() and loop(); the statements that touch what they    *)
(* share (the pin's interrupt, _interruptEnabled, _motionDetected) are     *)
(* steps of their own.  millis() is a clock modulo ClockModulus that may   *)
(* tick between any two steps; `now` is read once per pass.  main.ino does *)
(* not call loop() before the node is enrolled, and its watchdog ends a    *)
(* node that does not get from one pass to the next within MaxPassTicks.   *)
(*                                                                         *)
(* AdapterFactory only builds the adapter on a pin that GpioInput accepts, *)
(* so _initialized holds and attachInterrupt succeeds; a reported motion   *)
(* is one that is handed to the mesh.                                      *)
(***************************************************************************)
EXTENDS Integers

CONSTANTS
  Cooldown,        \* _cooldownSeconds, in ticks
  HealthInterval,  \* HEALTH_REPORT_INTERVAL_MS, in ticks
  ClockModulus,    \* millis() wraps here: 2^32 ms
  MaxPassTicks     \* the task watchdog's timeout

ASSUME PirAssumption ==
  /\ Cooldown \in Nat /\ HealthInterval \in Nat \ {0}
  /\ ClockModulus \in Nat /\ MaxPassTicks \in Nat \ {0}
  /\ Cooldown + 1 + MaxPassTicks < ClockModulus
  /\ HealthInterval + MaxPassTicks < ClockModulus

Clock == 0 .. (ClockModulus - 1)

\* Ages beyond this are all the same to the cooldown.
OldAge == Cooldown + MaxPassTicks + 1

VARIABLES
  attached,          \* the pin's interrupt is attached
  interruptEnabled,  \* _interruptEnabled
  motionDetected,    \* Pir::_motionDetected
  millis,            \* the clock
  pc,                \* where the main task is in init() or loop()
  now,               \* the clock as read at the start of the pass
  lastTrigger,       \* _lastTrigger
  timerActive,       \* _timerActive
  motionSent,        \* _motionSent
  lastHealthMillis,  \* _lastHealthMillis
  \* History, not state of the program:
  passTicks,         \* ticks since `now` was read
  triggerAge,        \* ticks since the time in lastTrigger, up to OldAge
  unreported         \* motions the interrupt accepted minus motions reported

shared == <<attached, interruptEnabled, motionDetected>>
timer == <<lastTrigger, timerActive, motionSent>>
history == <<passTicks, triggerAge, unreported>>
vars == <<shared, millis, pc, now, timer, lastHealthMillis, history>>

-----------------------------------------------------------------------------
(* Mutants: what the code would be with a plausible bug in it.             *)

DetectMotion_DetachFirst ==
  /\ attached
  /\ attached' = FALSE
  /\ interruptEnabled' = FALSE
  /\ motionDetected' = (motionDetected \/ interruptEnabled)
  /\ unreported' = unreported + (IF interruptEnabled THEN 1 ELSE 0)
  /\ UNCHANGED <<millis, pc, now, timer, lastHealthMillis, passTicks, triggerAge>>

SinceTrigger_WideDifference ==
  IF now >= lastTrigger THEN now - lastTrigger ELSE ClockModulus

HealthDue_Deadline == now >= lastHealthMillis + HealthInterval

EndCooldown_TimerKept ==
  /\ motionSent' = FALSE
  /\ pc' = "attach"
  /\ UNCHANGED <<lastTrigger, timerActive>>

-----------------------------------------------------------------------------
(* The interrupt *)

\* A rising edge while the interrupt is attached runs detectMotion().  An edge
\* that finds _interruptEnabled false returns at once and changes nothing.
DetectMotion ==
  /\ attached /\ interruptEnabled
  /\ motionDetected' = TRUE
  /\ interruptEnabled' = FALSE
  /\ attached' = FALSE
  /\ unreported' = unreported + 1
  /\ UNCHANGED <<millis, pc, now, timer, lastHealthMillis, passTicks, triggerAge>>

-----------------------------------------------------------------------------
(* init(), and the wait for enrollment in main.ino *)

InitAttach ==
  /\ pc = "init"
  /\ attached' = TRUE
  /\ pc' = "initEnable"
  /\ UNCHANGED <<interruptEnabled, motionDetected, millis, now, timer, lastHealthMillis, history>>

InitEnable ==
  /\ pc = "initEnable"
  /\ interruptEnabled' = TRUE
  /\ pc' = "unenrolled"
  /\ UNCHANGED <<attached, motionDetected, millis, now, timer, lastHealthMillis, history>>

Enrolled ==
  /\ pc = "unenrolled"
  /\ passTicks' = 0
  /\ pc' = "idle"
  /\ UNCHANGED <<shared, millis, now, timer, lastHealthMillis, triggerAge, unreported>>

-----------------------------------------------------------------------------
(* loop() *)

ReadClock ==
  /\ pc = "idle"
  /\ now' = millis
  /\ passTicks' = 0
  /\ pc' = "detect"
  /\ UNCHANGED <<shared, millis, timer, lastHealthMillis, triggerAge, unreported>>

\* if (_pir.isMotionDetected()), without the trailing clearMotion().
StartTimer ==
  /\ pc = "detect" /\ motionDetected
  /\ lastTrigger' = now
  /\ timerActive' = TRUE
  /\ motionSent' = FALSE
  /\ triggerAge' = passTicks
  /\ pc' = "clear"
  /\ UNCHANGED <<shared, millis, now, lastHealthMillis, passTicks, unreported>>

NoMotion ==
  /\ pc = "detect" /\ ~motionDetected
  /\ pc' = "send"
  /\ UNCHANGED <<shared, millis, now, timer, lastHealthMillis, history>>

ClearMotion ==
  /\ pc = "clear"
  /\ motionDetected' = FALSE
  /\ pc' = "send"
  /\ UNCHANGED <<attached, interruptEnabled, millis, now, timer, lastHealthMillis, history>>

ReportDue == timerActive /\ ~motionSent

SendMotion ==
  /\ pc = "send"
  /\ motionSent' = (motionSent \/ ReportDue)
  /\ unreported' = unreported - (IF ReportDue THEN 1 ELSE 0)
  /\ pc' = "cooldown"
  /\ UNCHANGED <<shared, millis, now, lastTrigger, timerActive, lastHealthMillis, passTicks, triggerAge>>

\* The unsigned difference of two clock values.
SinceTrigger == ((now + ClockModulus) - lastTrigger) % ClockModulus

EndCooldown ==
  /\ timerActive' = FALSE
  /\ motionSent' = FALSE
  /\ pc' = "attach"
  /\ UNCHANGED lastTrigger

CheckCooldown ==
  /\ pc = "cooldown"
  /\ IF timerActive /\ SinceTrigger > Cooldown
       THEN EndCooldown
       ELSE pc' = "health" /\ UNCHANGED timer
  /\ UNCHANGED <<shared, millis, now, lastHealthMillis, history>>

\* The interrupt is attached again before it is enabled again.
Reattach ==
  /\ pc = "attach"
  /\ attached' = TRUE
  /\ pc' = "enable"
  /\ UNCHANGED <<interruptEnabled, motionDetected, millis, now, timer, lastHealthMillis, history>>

Reenable ==
  /\ pc = "enable"
  /\ interruptEnabled' = TRUE
  /\ pc' = "health"
  /\ UNCHANGED <<attached, motionDetected, millis, now, timer, lastHealthMillis, history>>

HealthDue == ((now + ClockModulus) - lastHealthMillis) % ClockModulus >= HealthInterval

\* sendNodeHealth() hands a report to the mesh and changes nothing here.
ReportHealth ==
  /\ pc = "health"
  /\ lastHealthMillis' = IF HealthDue THEN now ELSE lastHealthMillis
  /\ pc' = "idle"
  /\ UNCHANGED <<shared, millis, now, timer, history>>

-----------------------------------------------------------------------------

InPass == pc \notin {"init", "initEnable", "unenrolled"}

NextMillis == (millis + 1) % ClockModulus

Tick ==
  /\ InPass => passTicks < MaxPassTicks
  /\ millis' = NextMillis
  /\ passTicks' = IF InPass THEN passTicks + 1 ELSE 0
  /\ triggerAge' = IF triggerAge < OldAge THEN triggerAge + 1 ELSE OldAge
  /\ UNCHANGED <<shared, pc, now, timer, lastHealthMillis, unreported>>

\* The constructor.
Init ==
  /\ attached = FALSE
  /\ interruptEnabled = FALSE
  /\ motionDetected = FALSE
  /\ millis = 0
  /\ pc = "init"
  /\ now = 0
  /\ lastTrigger = 0
  /\ timerActive = FALSE
  /\ motionSent = FALSE
  /\ lastHealthMillis = 0
  /\ passTicks = 0
  /\ triggerAge = OldAge
  /\ unreported = 0

Pass ==
  \/ ReadClock \/ StartTimer \/ NoMotion \/ ClearMotion \/ SendMotion
  \/ CheckCooldown \/ Reattach \/ Reenable \/ ReportHealth

Next == DetectMotion \/ InitAttach \/ InitEnable \/ Enrolled \/ Pass \/ Tick

\* The main task runs on and time goes on.  Nobody has to move in front of the
\* sensor, and nothing obliges the server to enroll the node.
Spec == Init /\ [][Next]_vars
FairSpec == Spec /\ WF_vars(Pass) /\ WF_vars(Tick)

-----------------------------------------------------------------------------
(* Correctness *)

\* Every variable has its type.
TypeOK ==
  /\ attached \in BOOLEAN /\ interruptEnabled \in BOOLEAN /\ motionDetected \in BOOLEAN
  /\ timerActive \in BOOLEAN /\ motionSent \in BOOLEAN
  /\ millis \in Clock /\ now \in Clock /\ lastTrigger \in Clock /\ lastHealthMillis \in Clock
  /\ pc \in {"init", "initEnable", "unenrolled", "idle", "detect", "clear", "send",
             "cooldown", "attach", "enable", "health"}
  /\ passTicks \in 0 .. MaxPassTicks
  /\ triggerAge \in 0 .. OldAge
  /\ unreported \in Int

\* Each motion the interrupt accepts is reported once: at any time either nothing
\* is owed, or one report is, and then the flags of the loop still say so.  An
\* edge between the test of _motionDetected and clearMotion(), or between the
\* re-arming statements, neither swallows a report nor adds one.
MotionReportedOnce ==
  unreported = (IF motionDetected \/ ReportDue THEN 1 ELSE 0)

\* Two motions that are reported were seen in passes more than a cooldown apart
\* in real time, wherever the clock wraps in between.
ReportsSpaced ==
  [][pc = "detect" /\ pc' = "clear" => triggerAge - passTicks > Cooldown]_vars

\* An enrolled node never stays deaf: whatever edges come while the sensor is
\* disarmed or being re-armed, it gets armed again.
ListensAgain == pc = "idle" ~> (attached /\ interruptEnabled)

\* An enrolled node keeps reporting its health, motion or not, also across a
\* wrap of the clock.
HealthKeepsComing == pc = "idle" ~> (pc = "health" /\ HealthDue)

-----------------------------------------------------------------------------
(* The argument behind the safety properties *)

\* The sensor is armed, or about to be, only when no motion waits and no cooldown
\* runs; while one runs, a motion flag is one that is about to be cleared, and a
\* report that is due is sent before the cooldown is looked at.
Arming == pc \in {"init", "initEnable", "attach", "enable"}

ArmedMeansIdle ==
  /\ interruptEnabled \/ Arming => ~timerActive /\ ~motionDetected
  /\ Arming => ~interruptEnabled

Clearing == pc = "clear" => motionDetected /\ timerActive /\ ~motionSent

OneAtATime == timerActive /\ motionDetected => pc = "clear"

DueIsNext == ReportDue => pc \in {"clear", "send"}

\* lastTrigger and now are the clock as it was triggerAge and passTicks ago.
MidPass == pc \in {"detect", "clear", "send", "cooldown", "attach", "enable", "health"}

ClockTracksAges ==
  /\ triggerAge < OldAge =>
       millis \in {lastTrigger + triggerAge, (lastTrigger + triggerAge) - ClockModulus}
  /\ MidPass => millis \in {now + passTicks, (now + passTicks) - ClockModulus}

\* No cooldown runs only if the last one is over.
CooldownOver == ~timerActive => triggerAge - passTicks > Cooldown

StampInPast == triggerAge >= passTicks

\* The inductive invariant.
IndInv ==
  /\ TypeOK /\ MotionReportedOnce
  /\ ArmedMeansIdle /\ Clearing /\ OneAtATime /\ DueIsNext
  /\ ClockTracksAges /\ CooldownOver /\ StampInPast
=============================================================================
