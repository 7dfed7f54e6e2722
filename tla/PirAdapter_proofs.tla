-------------------------- MODULE PirAdapter_proofs --------------------------
(***************************************************************************)
(* Proofs about what loop() times with millis().                           *)
(*                                                                         *)
(* The motion sensor adapter, for every cooldown, clock width and watchdog *)
(* timeout that PirAssumption admits: no motion is lost or reported twice, *)
(* and reports keep their distance across a clock wrap.  Then the buttons  *)
(* of MainLoop, on the same clock and with the same lemmas about it: the   *)
(* gate keeps a node without a master from becoming one, the settings are  *)
(* only wiped across a wrap, and every variable of loop() keeps its type.  *)
(***************************************************************************)
EXTENDS PirAdapter, Integers, TLAPS

\* A number below 2n, without the modulus.
LEMMA ModOnce ==
  ASSUME NEW n \in Nat \ {0}, NEW a \in 0 .. (n + n - 1)
  PROVE  a % n = IF a < n THEN a ELSE a - n
<1> DEFINE q == a \div n
           r == a % n
           p == n * q
<1>0. a \in Nat
  OBVIOUS
<1>1. a = p + r /\ q \in Nat /\ r \in 0 .. (n - 1)
  BY <1>0
<1>2. (q = 0 => p = 0) /\ (q = 1 => p = n)
  OBVIOUS
<1>3. q >= 2 => p >= n + n /\ p \in Nat
  BY <1>1
<1> HIDE DEF p, q, r
<1>4. q = 0 \/ q = 1
  BY <1>1, <1>3
<1>5. (IF a < n THEN a ELSE a - n) = r
  BY <1>1, <1>2, <1>4
<1> QED BY <1>5 DEF r

\* The unsigned difference of two readings of a clock modulo n.
LEMMA ModDifference ==
  ASSUME NEW n \in Nat \ {0}, NEW t \in 0 .. (n - 1), NEW l \in 0 .. (n - 1)
  PROVE  ((t + n) - l) % n = IF t >= l THEN t - l ELSE (t + n) - l
<1>1. (t + n) - l \in 0 .. (n + n - 1)
  OBVIOUS
<1>2. ((t + n) - l) % n = IF (t + n) - l < n THEN (t + n) - l ELSE ((t + n) - l) - n
  BY <1>1, ModOnce
<1> QED BY <1>2

\* One tick of a clock modulo n.
LEMMA ModStep ==
  ASSUME NEW n \in Nat \ {0}, NEW t \in 0 .. (n - 1)
  PROVE  (t + 1) % n = IF t + 1 = n THEN 0 ELSE t + 1
<1>1. t + 1 \in 0 .. (n + n - 1)
  OBVIOUS
<1>2. (t + 1) % n = IF t + 1 < n THEN t + 1 ELSE (t + 1) - n
  BY <1>1, ModOnce
<1> QED BY <1>2

\* What the constants' assumption says of the clock.
LEMMA Constants ==
  /\ ClockModulus \in Nat \ {0} /\ Cooldown \in Nat /\ MaxPassTicks \in Nat \ {0}
  /\ OldAge \in Nat /\ OldAge = (Cooldown + MaxPassTicks) + 1 /\ OldAge < ClockModulus
BY PirAssumption DEF OldAge

\* The time the loop measures is the true time, up to the end of the cooldown.
LEMMA CooldownMeasured ==
  ASSUME TypeOK, ClockTracksAges, StampInPast, pc = "cooldown", SinceTrigger > Cooldown
  PROVE  triggerAge - passTicks > Cooldown
<1>1. SUFFICES ASSUME triggerAge - passTicks <= Cooldown PROVE FALSE
  BY Constants DEF TypeOK
<1>2. /\ now \in 0 .. (ClockModulus - 1) /\ lastTrigger \in 0 .. (ClockModulus - 1)
      /\ triggerAge \in Nat /\ passTicks \in 0 .. MaxPassTicks
  BY Constants DEF TypeOK, Clock
<1>3. triggerAge < OldAge
  BY <1>1, <1>2, Constants
<1>4. /\ millis \in {lastTrigger + triggerAge, (lastTrigger + triggerAge) - ClockModulus}
      /\ millis \in {now + passTicks, (now + passTicks) - ClockModulus}
  BY <1>3 DEF ClockTracksAges, MidPass
<1>5. SinceTrigger = IF now >= lastTrigger THEN now - lastTrigger
                                           ELSE (now + ClockModulus) - lastTrigger
  BY <1>2, Constants, ModDifference DEF SinceTrigger
<1>6. SinceTrigger = triggerAge - passTicks
  BY <1>2, <1>3, <1>4, <1>5, Constants DEF StampInPast
<1> QED BY <1>1, <1>2, <1>6, Constants

LEMMA InitIndInv == Init => IndInv
<1> SUFFICES ASSUME Init PROVE IndInv
  OBVIOUS
<1>1. TypeOK
  <2>1. /\ attached \in BOOLEAN /\ interruptEnabled \in BOOLEAN /\ motionDetected \in BOOLEAN
        /\ timerActive \in BOOLEAN /\ motionSent \in BOOLEAN
    BY Zenon DEF Init
  <2> QED BY <2>1, Constants DEF Init, TypeOK, Clock
<1>2. MotionReportedOnce /\ ArmedMeansIdle /\ Clearing /\ OneAtATime /\ DueIsNext
  BY DEF Init, MotionReportedOnce, ReportDue, Arming, ArmedMeansIdle, Clearing,
            OneAtATime, DueIsNext
<1>3. ClockTracksAges /\ CooldownOver /\ StampInPast
  BY Constants DEF Init, ClockTracksAges, MidPass, CooldownOver, StampInPast
<1> QED BY <1>1, <1>2, <1>3 DEF IndInv

\* The Boolean variables stay Boolean.
Flags ==
  /\ attached \in BOOLEAN /\ interruptEnabled \in BOOLEAN /\ motionDetected \in BOOLEAN
  /\ timerActive \in BOOLEAN /\ motionSent \in BOOLEAN

LEMMA StepFlags == Flags /\ [Next]_vars => Flags'
<1> SUFFICES ASSUME Flags, [Next]_vars PROVE Flags'
  OBVIOUS
<1>1. CASE DetectMotion
  BY <1>1, Zenon DEF DetectMotion, Flags, timer
<1>2. CASE InitAttach
  BY <1>2, Zenon DEF InitAttach, Flags, timer
<1>3. CASE InitEnable
  BY <1>3, Zenon DEF InitEnable, Flags, timer
<1>4. CASE Enrolled \/ ReadClock \/ NoMotion \/ ReportHealth \/ Tick
  BY <1>4 DEF Enrolled, ReadClock, NoMotion, ReportHealth, Tick, Flags, shared, timer
<1>5. CASE StartTimer
  BY <1>5, Zenon DEF StartTimer, Flags, shared
<1>6. CASE ClearMotion
  BY <1>6, Zenon DEF ClearMotion, Flags, timer
<1>7. CASE SendMotion
  BY <1>7 DEF SendMotion, Flags, shared
<1>8. CASE CheckCooldown
  BY <1>8 DEF CheckCooldown, EndCooldown, Flags, shared, timer
<1>9. CASE Reattach
  BY <1>9, Zenon DEF Reattach, Flags, timer
<1>10. CASE Reenable
  BY <1>10, Zenon DEF Reenable, Flags, timer
<1>11. CASE UNCHANGED vars
  BY <1>11 DEF vars, Flags, shared, timer
<1> QED
  BY <1>1, <1>2, <1>3, <1>4, <1>5, <1>6, <1>7, <1>8, <1>9, <1>10, <1>11 DEF Next, Pass

\* Types are preserved.
LEMMA StepTypeOK == TypeOK /\ [Next]_vars => TypeOK'
<1> SUFFICES ASSUME TypeOK, [Next]_vars PROVE TypeOK'
  OBVIOUS
<1>0. Flags'
  <2>1. Flags
    BY Zenon DEF TypeOK, Flags
  <2> QED BY <2>1, StepFlags
<1> USE Constants
<1>1. CASE DetectMotion
  BY <1>0, <1>1 DEF DetectMotion, TypeOK, Flags, timer
<1>2. CASE InitAttach \/ InitEnable \/ Enrolled
  BY <1>0, <1>2 DEF InitAttach, InitEnable, Enrolled, TypeOK, Flags, shared, timer, history
<1>3. CASE ReadClock \/ NoMotion \/ ClearMotion
  BY <1>0, <1>3 DEF ReadClock, NoMotion, ClearMotion, TypeOK, Flags, shared, timer, history
<1>4. CASE StartTimer
  BY <1>0, <1>4 DEF StartTimer, TypeOK, Flags, shared, OldAge
<1>5. CASE SendMotion
  BY <1>5 DEF SendMotion, TypeOK, shared
<1>6. CASE CheckCooldown
  BY <1>6 DEF CheckCooldown, EndCooldown, TypeOK, shared, timer, history
<1>7. CASE Reattach \/ Reenable
  BY <1>7 DEF Reattach, Reenable, TypeOK, shared, timer, history
<1>8. CASE ReportHealth
  BY <1>8 DEF ReportHealth, TypeOK, shared, timer, history
<1>9. CASE Tick
  <2>1. millis' \in Clock
    BY <1>9, ModStep DEF Tick, NextMillis, TypeOK, Clock
  <2>2. passTicks' \in 0 .. MaxPassTicks /\ triggerAge' \in 0 .. OldAge
    BY <1>9 DEF Tick, TypeOK
  <2> QED BY <1>9, <2>1, <2>2 DEF Tick, TypeOK, shared, timer
<1>10. CASE UNCHANGED vars
  BY <1>10 DEF vars, TypeOK, shared, timer, history
<1> QED BY <1>1, <1>2, <1>3, <1>4, <1>5, <1>6, <1>7, <1>8, <1>9, <1>10 DEF Next, Pass

\* The flags of the interrupt and of the loop stay coherent.
LEMMA StepFlagsCoherent ==
  ASSUME TypeOK, MotionReportedOnce, ArmedMeansIdle, Clearing, OneAtATime, DueIsNext,
         [Next]_vars
  PROVE  /\ MotionReportedOnce' /\ ArmedMeansIdle' /\ Clearing'
         /\ OneAtATime' /\ DueIsNext'
<1> USE DEF TypeOK, MotionReportedOnce, ReportDue, Arming, ArmedMeansIdle, Clearing,
            OneAtATime, DueIsNext
<1>1. CASE DetectMotion
  BY <1>1 DEF DetectMotion, timer
<1>2. CASE InitAttach
  BY <1>2 DEF InitAttach, timer, history
<1>3. CASE InitEnable
  BY <1>3 DEF InitEnable, timer, history
<1>4. CASE Enrolled
  BY <1>4 DEF Enrolled, shared, timer
<1>5. CASE ReadClock
  BY <1>5 DEF ReadClock, shared, timer
<1>6. CASE NoMotion
  BY <1>6 DEF NoMotion, shared, timer, history
<1>7. CASE StartTimer
  BY <1>7 DEF StartTimer, shared
<1>8. CASE ClearMotion
  BY <1>8 DEF ClearMotion, timer, history
<1>9. CASE SendMotion
  BY <1>9 DEF SendMotion, shared
<1>10. CASE CheckCooldown
  BY <1>10 DEF CheckCooldown, EndCooldown, shared, timer, history
<1>11. CASE Reattach
  BY <1>11 DEF Reattach, timer, history
<1>12. CASE Reenable
  BY <1>12 DEF Reenable, timer, history
<1>13. CASE ReportHealth
  BY <1>13 DEF ReportHealth, shared, timer, history
<1>14. CASE Tick
  BY <1>14 DEF Tick, shared, timer
<1>15. CASE UNCHANGED vars
  BY <1>15 DEF vars, shared, timer, history
<1> QED
  BY <1>1, <1>2, <1>3, <1>4, <1>5, <1>6, <1>7, <1>8, <1>9, <1>10, <1>11, <1>12, <1>13,
     <1>14, <1>15 DEF Next, Pass

\* Ages and clock stay in step, and a cooldown is over before the timer stops.
LEMMA StepAges ==
  ASSUME TypeOK, ClockTracksAges, CooldownOver, StampInPast, OneAtATime, [Next]_vars
  PROVE  ClockTracksAges' /\ CooldownOver' /\ StampInPast'
<1> USE Constants DEF TypeOK, Clock, ClockTracksAges, CooldownOver, StampInPast, MidPass
<1>1. CASE DetectMotion
  BY <1>1 DEF DetectMotion, timer
<1>2. CASE InitAttach \/ InitEnable
  BY <1>2 DEF InitAttach, InitEnable, timer, history
<1>3. CASE Enrolled
  BY <1>3 DEF Enrolled, timer
<1>4. CASE ReadClock
  BY <1>4 DEF ReadClock, timer
<1>5. CASE NoMotion \/ ClearMotion \/ Reattach \/ Reenable \/ ReportHealth
  BY <1>5 DEF NoMotion, ClearMotion, Reattach, Reenable, ReportHealth, timer, history
<1>6. CASE StartTimer
  BY <1>6 DEF StartTimer
<1>7. CASE SendMotion
  BY <1>7 DEF SendMotion
<1>8. CASE CheckCooldown
  <2>1. CASE timerActive /\ SinceTrigger > Cooldown
    <3>1. triggerAge - passTicks > Cooldown
      BY <1>8, <2>1, CooldownMeasured DEF CheckCooldown
    <3> QED BY <1>8, <2>1, <3>1 DEF CheckCooldown, EndCooldown, history
  <2>2. CASE ~(timerActive /\ SinceTrigger > Cooldown)
    BY <1>8, <2>2 DEF CheckCooldown, timer, history
  <2> QED BY <2>1, <2>2
<1>9. CASE Tick
  <2>1. millis' = IF millis + 1 = ClockModulus THEN 0 ELSE millis + 1
    BY <1>9, ModStep DEF Tick, NextMillis
  <2>2. triggerAge' < OldAge => triggerAge' = triggerAge + 1 /\ triggerAge < OldAge
    BY <1>9 DEF Tick
  <2>3. MidPass' => MidPass /\ passTicks' = passTicks + 1
    BY <1>9 DEF Tick, InPass
  <2>4. UNCHANGED <<lastTrigger, now, timerActive>>
    BY <1>9 DEF Tick, timer
  <2>5. ClockTracksAges'
    BY <2>1, <2>2, <2>3, <2>4
  <2>6. CooldownOver' /\ StampInPast'
    BY <1>9, <2>4 DEF Tick, InPass
  <2> QED BY <2>5, <2>6
<1>10. CASE UNCHANGED vars
  BY <1>10 DEF vars, timer, history
<1> QED
  BY <1>1, <1>2, <1>3, <1>4, <1>5, <1>6, <1>7, <1>8, <1>9, <1>10 DEF Next, Pass

\* The inductive invariant of the adapter: flags, clock and ages agree.
THEOREM PirInvariant == Spec => []IndInv
<1>1. IndInv /\ [Next]_vars => IndInv'
  BY StepTypeOK, StepFlagsCoherent, StepAges DEF IndInv
<1> QED BY InitIndInv, <1>1, PTL DEF Spec

\* Each motion that detectMotion() accepts is reported exactly once.
THEOREM MotionsReportedOnce == Spec => []MotionReportedOnce
<1>1. IndInv => MotionReportedOnce
  BY DEF IndInv
<1> QED BY PirInvariant, <1>1, PTL

\* Reports of motion are more than a cooldown apart, wherever millis() wraps.
THEOREM ReportsKeepDistance == Spec => ReportsSpaced
<1>1. IndInv /\ [Next]_vars =>
        [pc = "detect" /\ pc' = "clear" => triggerAge - passTicks > Cooldown]_vars
  <2> SUFFICES ASSUME IndInv, Next, pc = "detect", pc' = "clear"
               PROVE  triggerAge - passTicks > Cooldown
    OBVIOUS
  <2>1. StartTimer
    BY DEF Next, Pass, DetectMotion, InitAttach, InitEnable, Enrolled, ReadClock, NoMotion,
           ClearMotion, SendMotion, CheckCooldown, EndCooldown, Reattach, Reenable,
           ReportHealth, Tick, StartTimer
  <2>2. ~timerActive
    BY <2>1 DEF StartTimer, IndInv, OneAtATime
  <2> QED BY <2>2 DEF IndInv, CooldownOver
<1> QED BY PirInvariant, <1>1, PTL DEF Spec, ReportsSpaced

-----------------------------------------------------------------------------
(* The buttons, which loop() times with the same clock (MainLoop)          *)

CONSTANTS BUTTON_HOLD_TIME, CONFIRM_WINDOW, DEFAULT_DEV_MASTER, MaxTicks
VARIABLES
  phase, resetReason, configHold, resetHold, confirm, isMaster, masterFlag, enrolled,
  displayDue, isDevMode, meshHasMaster, configButton, resetButton, displayOk, ticks, wrapped,
  released

Main == INSTANCE MainLoop

\* Whoever gets to the buttons of a node outside dev mode was let in by a master.
LetInByMaster ==
  (~isDevMode /\ ~meshHasMaster) => ~isMaster /\ ~masterFlag /\ ~enrolled

LEMMA StepLetIn == LetInByMaster /\ [Main!Next]_(Main!vars) => LetInByMaster'
<1> SUFFICES ASSUME LetInByMaster, [Main!Next]_(Main!vars), ~isDevMode', ~meshHasMaster'
             PROVE  ~isMaster' /\ ~masterFlag' /\ ~enrolled'
  BY DEF LetInByMaster
<1>1. isDevMode' = isDevMode /\ meshHasMaster' = meshHasMaster
  BY DEF Main!Next, Main!Run, Main!BootFails, Main!Boot, Main!DisplayPanics, Main!Loop,
         Main!LoopGated, Main!SaveRoleAndRestart, Main!LoopWithButtons, Main!Wipe, Main!InPass,
         Main!Tick, Main!GetsEnrolled, Main!UseButton, Main!DisplayChanges, Main!vars,
         Main!surroundings
<1>2. ~isDevMode /\ ~meshHasMaster /\ ~isMaster /\ ~masterFlag /\ ~enrolled
  BY <1>1 DEF LetInByMaster
<1>3. CASE Main!Run
  <2>1. CASE Main!BootFails \/ Main!DisplayPanics
    BY <1>2, <2>1 DEF Main!BootFails, Main!DisplayPanics, Main!roles
  <2>2. CASE Main!Boot
    BY <1>2, <2>2 DEF Main!Boot
  <2>3. ~ Main!ReachesButtons
    BY <1>2 DEF Main!ReachesButtons
  <2>4. CASE Main!Loop
    <3>1. Main!LoopGated
      BY <2>3, <2>4 DEF Main!Loop, Main!SaveRoleAndRestart, Main!LoopWithButtons, Main!Wipe
    <3> QED BY <1>2, <3>1 DEF Main!LoopGated, Main!roles
  <2> QED BY <1>3, <2>1, <2>2, <2>4 DEF Main!Run
<1>4. CASE Main!GetsEnrolled
  BY <1>2, <1>4 DEF Main!GetsEnrolled
<1>5. CASE Main!Tick \/ Main!UseButton \/ Main!DisplayChanges \/ UNCHANGED Main!vars
  BY <1>2, <1>5 DEF Main!Tick, Main!UseButton, Main!DisplayChanges, Main!vars, Main!roles
<1> QED BY <1>3, <1>4, <1>5 DEF Main!Next

\* The gate of loop(): in a mesh without a master no node outside dev mode becomes one,
\* whatever is done with its buttons, its display and its power.
THEOREM NoMasterWithoutMaster == Main!Spec => []Main!FreshNodeStaysNode
<1>1. Main!Init => LetInByMaster
  BY DEF Main!Init, LetInByMaster
<1>2. LetInByMaster => Main!FreshNodeStaysNode
  BY DEF LetInByMaster, Main!FreshNodeStaysNode
<1> QED BY <1>1, <1>2, StepLetIn, PTL DEF Main!Spec

\* What the code's figures (5 s and 3 s) give: a hold is no shorter than the window.
LoopConstants == Main!MainLoopAssumption /\ CONFIRM_WINDOW <= BUTTON_HOLD_TIME

\* Since the reset was armed at a time t that the clock has not come round to, every
\* hold of the reset button began after t.
ArmedAt(t) ==
  /\ t <= millis /\ confirm = (t + CONFIRM_WINDOW) % ClockModulus
  /\ resetHold # Main!No => t <= resetHold /\ resetHold <= millis

ResetInv ==
  /\ millis \in Main!Clock /\ resetHold \in Main!Clock \union {Main!No}
  /\ confirm # Main!No /\ ~wrapped => \E t \in Main!Clock : ArmedAt(t)

LEMMA StepResetInv ==
  ASSUME LoopConstants PROVE ResetInv /\ [Main!Next]_(Main!vars) => ResetInv'
<1> SUFFICES ASSUME ResetInv, [Main!Next]_(Main!vars) PROVE ResetInv'
  OBVIOUS
<1>0. /\ ClockModulus \in Nat \ {0} /\ CONFIRM_WINDOW \in Nat /\ millis \in 0 .. (ClockModulus - 1)
      /\ millis \in Nat /\ Main!No = ClockModulus /\ Main!Clock = 0 .. (ClockModulus - 1)
      /\ Main!No \notin Main!Clock
  BY DEF LoopConstants, Main!MainLoopAssumption, ResetInv, Main!No, Main!Clock
<1>1. ASSUME NEW reason, Main!Restart(reason), millis' = millis PROVE ResetInv'
  <2>1. resetHold' = Main!No /\ confirm' = Main!No
    BY <1>1 DEF Main!Restart
  <2> QED BY <1>0, <1>1, <2>1 DEF ResetInv, Main!No, Main!Clock
<1>2. CASE UNCHANGED <<millis, resetHold, confirm, wrapped>>
  BY <1>2 DEF ResetInv, ArmedAt, Main!No, Main!Clock
<1>3. CASE Main!BootFails \/ Main!DisplayPanics
  BY <1>1, <1>3 DEF Main!BootFails, Main!DisplayPanics
<1>4. CASE Main!Boot \/ Main!LoopGated
  BY <1>2, <1>4 DEF Main!Boot, Main!LoopGated, Main!InPass, Main!buttons, Main!sinceArmed
<1>5. ASSUME NEW c, NEW r, Main!SaveRoleAndRestart(c) \/ Main!Wipe(c, r) PROVE ResetInv'
  BY <1>1, <1>5 DEF Main!SaveRoleAndRestart, Main!Wipe, Main!InPass
<1>6. ASSUME NEW c, NEW r, Main!LoopWithButtons(c, r) PROVE ResetInv'
  <2>1. millis' = millis /\ Main!ResetButton(r)
    BY <1>6 DEF Main!LoopWithButtons, Main!InPass
  <2>2. CASE /\ resetHold' = Main!AfterHold(resetHold) /\ wrapped' = FALSE
             /\ confirm' = (millis + CONFIRM_WINDOW) % ClockModulus
    <3>1. resetHold' = Main!No
      BY <2>2 DEF Main!AfterHold
    <3>2. ArmedAt(millis)'
      BY <1>0, <2>1, <2>2, <3>1 DEF ArmedAt, Main!No
    <3>3. \E t \in Main!Clock : ArmedAt(t)'
      BY <1>0, <2>1, <2>2, <3>1 DEF ArmedAt, Main!No
    <3> QED BY <1>0, <2>1, <3>1, <3>3 DEF ResetInv, Main!No, Main!Clock
  <2>3. CASE confirm' = confirm /\ (~wrapped' => ~wrapped) /\ resetHold' \in {Main!No, resetHold, millis}
             /\ (resetHold' = millis => resetHold \in {Main!No, millis})
    <3>1. ASSUME NEW t \in Main!Clock, ArmedAt(t) PROVE ArmedAt(t)'
      BY <1>0, <2>1, <2>3, <3>1 DEF ArmedAt, Main!No, Main!Clock
    <3> QED BY <1>0, <2>1, <2>3, <3>1 DEF ResetInv, Main!No, Main!Clock
  <2>4. CASE confirm' = Main!No /\ resetHold' = Main!No
    BY <1>0, <2>1, <2>4 DEF ResetInv, Main!No, Main!Clock
  <2>5. CASE UNCHANGED <<confirm, wrapped>> /\ resetHold' \in {Main!No, Main!Held(resetHold, TRUE)}
    <3>1. resetHold' \in {Main!No, resetHold, millis}
      BY <2>5 DEF Main!Held
    <3>2. resetHold' = millis => resetHold \in {Main!No, millis}
      BY <1>0, <2>5 DEF Main!Held
    <3> QED BY <2>3, <2>5, <3>1, <3>2
  <2>6. CASE resetHold' = Main!No /\ confirm' \in {Main!No, confirm}
             /\ (confirm' # Main!No => (~wrapped' => ~wrapped))
    <3>1. CASE confirm' = Main!No
      BY <2>4, <2>6, <3>1
    <3>2. CASE confirm' # Main!No
      <4>1. resetHold' = millis => resetHold \in {Main!No, millis}
        BY <1>0, <2>6
      <4> QED BY <2>3, <2>6, <3>2, <4>1
    <3> QED BY <3>1, <3>2
  <2>7. CASE ~r /\ resetHold' = Main!No /\ confirm' \in {Main!No, confirm}
             /\ wrapped' = (wrapped /\ confirm' # Main!No)
    BY <2>6, <2>7, Zenon
  <2> QED BY <2>1, <2>2, <2>5, <2>7 DEF Main!ResetButton, Main!AfterHold, Main!sinceArmed, Main!Held
<1>7. CASE Main!Tick
  <2>1. /\ millis' = (millis + 1) % ClockModulus /\ UNCHANGED <<resetHold, confirm>>
        /\ wrapped' = (wrapped \/ (confirm # Main!No /\ millis' = 0))
    BY <1>7 DEF Main!Tick, Main!buttons
  <2>2. millis' = IF millis + 1 = ClockModulus THEN 0 ELSE millis + 1
    BY <1>0, <2>1, ModStep
  <2>3. confirm # Main!No /\ ~wrapped' => ~wrapped /\ millis' = millis + 1
    BY <2>1, <2>2
  <2>4. ASSUME NEW t \in Main!Clock, ArmedAt(t), millis' = millis + 1 PROVE ArmedAt(t)'
    BY <1>0, <2>1, <2>4 DEF ArmedAt, Main!No, Main!Clock, ResetInv
  <2> QED BY <1>0, <2>1, <2>2, <2>3, <2>4 DEF ResetInv, Main!No, Main!Clock
<1>8. CASE Main!GetsEnrolled \/ Main!UseButton \/ Main!DisplayChanges \/ UNCHANGED Main!vars
  BY <1>2, <1>8 DEF Main!GetsEnrolled, Main!UseButton, Main!DisplayChanges, Main!vars, Main!buttons,
                    Main!sinceArmed
<1> QED BY <1>3, <1>4, <1>5, <1>6, <1>7, <1>8 DEF Main!Next, Main!Run, Main!Loop

\* Arming and confirming take two holds, the second of which is no shorter than the
\* window: the settings are only wiped when the clock wrapped in between.
THEOREM ResetNeedsWrap ==
  ASSUME LoopConstants PROVE Main!Spec => Main!WipesOnlyAcrossWrap
<1>1. Main!Init => ResetInv
  BY DEF Main!Init, ResetInv, LoopConstants, Main!MainLoopAssumption, Main!No, Main!Clock
<1>2. ASSUME ResetInv, Main!Next, enrolled, ~enrolled' PROVE wrapped
  <2>1. PICK c, r : Main!Wipe(c, r)
    BY <1>2 DEF Main!Next, Main!Run, Main!BootFails, Main!Boot, Main!DisplayPanics, Main!Loop,
                Main!LoopGated, Main!SaveRoleAndRestart, Main!LoopWithButtons, Main!ConfigButton,
                Main!ToggleInDevMode, Main!Tick, Main!GetsEnrolled, Main!UseButton,
                Main!DisplayChanges, Main!roles
  <2>2. Main!HeldLong(resetHold) /\ confirm # Main!No /\ millis < confirm
    BY <2>1 DEF Main!Wipe
  <2>3. SUFFICES ASSUME ~wrapped PROVE FALSE
    OBVIOUS
  <2>4. PICK t \in Main!Clock : ArmedAt(t)
    BY <1>2, <2>2, <2>3 DEF ResetInv
  <2>5. /\ ClockModulus \in Nat \ {0} /\ CONFIRM_WINDOW \in Nat /\ CONFIRM_WINDOW < ClockModulus
        /\ BUTTON_HOLD_TIME \in Nat /\ CONFIRM_WINDOW <= BUTTON_HOLD_TIME
        /\ t \in 0 .. (ClockModulus - 1) /\ millis \in 0 .. (ClockModulus - 1)
        /\ resetHold \in 0 .. (ClockModulus - 1)
    BY <1>2, <2>2 DEF LoopConstants, Main!MainLoopAssumption, ResetInv, Main!HeldLong,
                      Main!No, Main!Clock
  <2>6. t <= resetHold /\ resetHold <= millis /\ confirm = (t + CONFIRM_WINDOW) % ClockModulus
    BY <2>2, <2>4 DEF ArmedAt, Main!HeldLong
  <2>7. Main!Since(resetHold) = millis - resetHold
    BY <2>5, <2>6, ModDifference DEF Main!Since
  <2>8. t + CONFIRM_WINDOW <= millis
    BY <2>2, <2>5, <2>6, <2>7 DEF Main!HeldLong
  <2>9. confirm = t + CONFIRM_WINDOW
    <3>1. t + CONFIRM_WINDOW \in 0 .. (ClockModulus + ClockModulus - 1)
      BY <2>5
    <3>2. (t + CONFIRM_WINDOW) % ClockModulus =
            IF t + CONFIRM_WINDOW < ClockModulus THEN t + CONFIRM_WINDOW
            ELSE (t + CONFIRM_WINDOW) - ClockModulus
      BY <2>5, <3>1, ModOnce
    <3>3. t + CONFIRM_WINDOW < ClockModulus
      BY <2>5, <2>8
    <3> QED BY <2>6, <3>2, <3>3
  <2> QED BY <2>2, <2>5, <2>8, <2>9
<1>3. ResetInv /\ [Main!Next]_(Main!vars) =>
        [(phase = "loop" /\ phase' = "boot" /\ enrolled /\ ~enrolled') => wrapped]_(Main!vars)
  BY <1>2
<1> QED
  BY <1>1, <1>3, StepResetInv, PTL DEF Main!Spec, Main!WipesOnlyAcrossWrap

\* The Boolean variables of the main loop stay Boolean.
LoopFlags ==
  /\ isMaster \in BOOLEAN /\ masterFlag \in BOOLEAN /\ enrolled \in BOOLEAN
  /\ displayDue \in BOOLEAN /\ isDevMode \in BOOLEAN /\ meshHasMaster \in BOOLEAN
  /\ configButton \in BOOLEAN /\ resetButton \in BOOLEAN /\ displayOk \in BOOLEAN
  /\ wrapped \in BOOLEAN /\ released \in BOOLEAN

LEMMA StepLoopFlags ==
  ASSUME Main!MainLoopAssumption PROVE LoopFlags /\ [Main!Next]_(Main!vars) => LoopFlags'
<1> SUFFICES ASSUME LoopFlags, [Main!Next]_(Main!vars) PROVE LoopFlags'
  OBVIOUS
<1> USE DEF LoopFlags, Main!roles, Main!surroundings, Main!sinceArmed
<1>1. DEFAULT_DEV_MASTER \in BOOLEAN
  BY Zenon DEF Main!MainLoopAssumption
<1>2. CASE Main!BootFails \/ Main!DisplayPanics
  BY <1>2, Zenon DEF Main!BootFails, Main!DisplayPanics, Main!Restart
<1>3. CASE Main!Boot
  <2>1. isMaster' \in BOOLEAN
    BY <1>1, <1>3, Zenon DEF Main!Boot
  <2> QED BY <1>3, <2>1, Zenon DEF Main!Boot
<1>4. CASE Main!LoopGated
  BY <1>4, Zenon DEF Main!LoopGated, Main!InPass
<1>5. ASSUME NEW c, Main!SaveRoleAndRestart(c) PROVE LoopFlags'
  BY <1>5, Zenon DEF Main!SaveRoleAndRestart, Main!InPass, Main!Restart
<1>6. ASSUME NEW c, NEW r, Main!LoopWithButtons(c, r) PROVE LoopFlags'
  <2>1. isMaster' \in BOOLEAN /\ masterFlag' \in BOOLEAN /\ enrolled' \in BOOLEAN
    BY <1>6, Zenon DEF Main!LoopWithButtons, Main!ConfigButton, Main!ToggleInDevMode
  <2>2. wrapped' \in BOOLEAN /\ released' \in BOOLEAN
    BY <1>6, Zenon DEF Main!LoopWithButtons, Main!ResetButton
  <2> QED BY <1>6, <2>1, <2>2, Zenon DEF Main!LoopWithButtons, Main!InPass
<1>7. ASSUME NEW c, NEW r, Main!Wipe(c, r) PROVE LoopFlags'
  BY <1>7, Zenon DEF Main!Wipe, Main!InPass, Main!Restart
<1>8. CASE Main!Tick
  <2>1. wrapped' \in BOOLEAN
    BY <1>8, Zenon DEF Main!Tick
  <2> QED BY <1>8, <2>1, Zenon DEF Main!Tick
<1>9. CASE Main!GetsEnrolled
  BY <1>9, Zenon DEF Main!GetsEnrolled
<1>10. CASE Main!UseButton
  BY <1>10, Zenon DEF Main!UseButton
<1>11. CASE Main!DisplayChanges
  BY <1>11, Zenon DEF Main!DisplayChanges
<1>12. CASE UNCHANGED Main!vars
  BY <1>12 DEF Main!vars
<1> QED
  BY <1>2, <1>3, <1>4, <1>5, <1>6, <1>7, <1>8, <1>9, <1>10, <1>11, <1>12
  DEF Main!Next, Main!Run, Main!Loop

\* So do the types of the others.
LoopTimes ==
  /\ phase \in {"boot", "loop"} /\ resetReason \in {"expected", "panic"}
  /\ millis \in Main!Clock /\ configHold \in Main!Clock \union {Main!No}
  /\ resetHold \in Main!Clock \union {Main!No} /\ confirm \in Main!Clock \union {Main!No}
  /\ ticks \in 0 .. MaxTicks

LEMMA StepLoopTimes ==
  ASSUME Main!MainLoopAssumption PROVE LoopTimes /\ [Main!Next]_(Main!vars) => LoopTimes'
<1> SUFFICES ASSUME LoopTimes, [Main!Next]_(Main!vars) PROVE LoopTimes'
  OBVIOUS
<1>1. /\ ClockModulus \in Nat \ {0} /\ CONFIRM_WINDOW \in Nat /\ MaxTicks \in Nat \ {0}
      /\ Main!Clock = 0 .. (ClockModulus - 1) /\ millis \in Nat
  BY DEF Main!MainLoopAssumption, Main!Clock, LoopTimes
<1>2. /\ (millis + CONFIRM_WINDOW) % ClockModulus \in Main!Clock
      /\ (millis + 1) % ClockModulus \in Main!Clock
  <2>1. ASSUME NEW n \in Nat PROVE n % ClockModulus \in 0 .. (ClockModulus - 1)
    BY <1>1
  <2>2. millis + CONFIRM_WINDOW \in Nat /\ millis + 1 \in Nat
    BY <1>1
  <2> QED BY <1>1, <2>1, <2>2
<1>3. Main!No' = Main!No /\ Main!Clock' = Main!Clock /\ 0 \in 0 .. MaxTicks
  BY <1>1 DEF Main!No, Main!Clock
<1> USE DEF LoopTimes
<1>4. CASE Main!BootFails \/ Main!DisplayPanics
  BY <1>4 DEF Main!BootFails, Main!DisplayPanics, Main!Restart
<1>5. CASE Main!Boot \/ Main!LoopGated
  BY <1>3, <1>5 DEF Main!Boot, Main!LoopGated, Main!InPass, Main!buttons
<1>6. ASSUME NEW c, NEW r, Main!SaveRoleAndRestart(c) \/ Main!Wipe(c, r) PROVE LoopTimes'
  BY <1>3, <1>6 DEF Main!SaveRoleAndRestart, Main!Wipe, Main!InPass, Main!Restart
<1>7. ASSUME NEW c, NEW r, Main!LoopWithButtons(c, r) PROVE LoopTimes'
  <2>1. resetHold' \in Main!Clock \union {Main!No} /\ confirm' \in Main!Clock \union {Main!No}
    BY <1>2, <1>7 DEF Main!LoopWithButtons, Main!ResetButton, Main!AfterHold, Main!Held
  <2>2. configHold' \in Main!Clock \union {Main!No}
    BY <1>7 DEF Main!LoopWithButtons, Main!ConfigButton, Main!ToggleInDevMode, Main!Held
  <2> QED BY <1>3, <1>7, <2>1, <2>2 DEF Main!LoopWithButtons, Main!InPass
<1>8. CASE Main!Tick
  <2>1. ticks' \in 0 .. MaxTicks
    BY <1>1, <1>8 DEF Main!Tick
  <2> QED BY <1>2, <1>8, <2>1 DEF Main!Tick, Main!buttons
<1>9. CASE Main!GetsEnrolled \/ Main!UseButton \/ Main!DisplayChanges \/ UNCHANGED Main!vars
  BY <1>9 DEF Main!GetsEnrolled, Main!UseButton, Main!DisplayChanges, Main!vars, Main!buttons
<1> HIDE DEF LoopTimes
<1> QED BY <1>4, <1>5, <1>6, <1>7, <1>8, <1>9 DEF Main!Next, Main!Run, Main!Loop

\* Type correctness of the main loop: what it remembers of a hold, and the deadline of
\* the reset, are readings of millis(), or none.
THEOREM LoopTypeCorrect ==
  ASSUME Main!MainLoopAssumption PROVE Main!Spec => []Main!TypeOK
<1>1. Main!Init => LoopFlags /\ LoopTimes
  <2> SUFFICES ASSUME Main!Init PROVE LoopFlags /\ LoopTimes
    OBVIOUS
  <2>1. LoopFlags
    BY Zenon DEF Main!Init, LoopFlags
  <2>2. 0 \in Main!Clock /\ 0 \in 0 .. MaxTicks
    BY DEF Main!MainLoopAssumption, Main!Clock
  <2>3. LoopTimes
    BY <2>2 DEF Main!Init, LoopTimes
  <2> QED BY <2>1, <2>3
<1>2. LoopFlags /\ LoopTimes => Main!TypeOK
  BY Zenon DEF Main!TypeOK, LoopFlags, LoopTimes
<1> QED BY <1>1, <1>2, StepLoopFlags, StepLoopTimes, PTL DEF Main!Spec
==============================================================================
