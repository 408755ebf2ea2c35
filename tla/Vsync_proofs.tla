---------------------------- MODULE Vsync_proofs ----------------------------
(***************************************************************************)
(* The safety of the video wait, for every width of the vblank counter that*)
(* four divides.  The waiter's register can only move under it when a timer*)
(* thread runs, and that needs the timer clock: ClockInv says so.          *)
(***************************************************************************)
EXTENDS Vsync, TLAPS

(* A timer thread belongs to the timer clock, and is there once started. *)
TimerIsClock ==
    /\ started => clock = "timer" /\ tpc # "none"
    /\ tpc # "none" => started

(* Without it, the register is still what the wait latched. *)
LatchIsFresh == mpc = "latched" /\ ~started => latched = bit2

ClockInv ==
    /\ TypeOK
    /\ TimerIsClock
    /\ LatchIsFresh
    /\ StopMeetsNoWaiter

-----------------------------------------------------------------------------
(* What a counter of width w shows below its width and one turn above it. *)
LEMMA Wraps ==
    ASSUME NEW w \in Nat \ {0}, NEW a \in Nat
    PROVE  /\ a % w \in 0 .. w - 1
           /\ a < w => a % w = a
           /\ a - w \in 0 .. w - 1 => a % w = a - w
  <1>1. a % w \in 0 .. w - 1
    OBVIOUS
  <1>2. a < w => a % w = a
    OBVIOUS
  <1>3. a - w \in 0 .. w - 1 => a % w = a - w
    OBVIOUS
  <1>4. QED
    BY <1>1, <1>2, <1>3

LEMMA Bit2Type ==
    ASSUME NEW n \in Nat, NEW m \in 0 .. 1
    PROVE  Bit2(n, m) \in 0 .. 1
  BY DEF Bit2

(* The counter k vblanks on, for the k that matter. *)
LEMMA Steps ==
    ASSUME TypeOK
    PROVE  /\ \A k \in Nat : After(k) \in 0 .. FrameMod - 1
           /\ After(0) = framenum
           /\ After(1) = IF framenum + 1 = FrameMod THEN 0 ELSE framenum + 1
           /\ After(2) = IF framenum + 2 = FrameMod THEN 0
                         ELSE IF framenum + 1 = FrameMod THEN 1
                         ELSE framenum + 2
  <1>1. /\ FrameMod \in Nat \ {0} /\ FrameMod >= 4
        /\ framenum \in 0 .. FrameMod - 1
    BY FrameAssumption DEF TypeOK
  <1>2. \A k \in Nat : After(k) \in 0 .. FrameMod - 1
    BY <1>1, Wraps DEF After
  <1>3. After(0) = framenum
    BY <1>1, Wraps DEF After
  <1>4. After(1) = IF framenum + 1 = FrameMod THEN 0 ELSE framenum + 1
    <2> DEFINE a == framenum + 1
    <2>1. a \in Nat /\ (a < FrameMod \/ a = FrameMod)
      BY <1>1
    <2>2. /\ a < FrameMod => a % FrameMod = a
          /\ a - FrameMod \in 0 .. FrameMod - 1 => a % FrameMod = a - FrameMod
      BY <1>1, <2>1, Wraps
    <2> QED
      BY <1>1, <2>1, <2>2 DEF After
  <1>5. After(2) = IF framenum + 2 = FrameMod THEN 0
                   ELSE IF framenum + 1 = FrameMod THEN 1
                   ELSE framenum + 2
    <2> DEFINE a == framenum + 2
    <2>1. /\ a \in Nat
          /\ a < FrameMod \/ a = FrameMod \/ a = FrameMod + 1
      BY <1>1
    <2>2. /\ a < FrameMod => a % FrameMod = a
          /\ a - FrameMod \in 0 .. FrameMod - 1 => a % FrameMod = a - FrameMod
      BY <1>1, <2>1, Wraps
    <2> QED
      BY <1>1, <2>1, <2>2 DEF After
  <1>6. QED
    BY <1>2, <1>3, <1>4, <1>5

(* The bit differs after one vblank or after two, also where the counter    *)
(* wraps: that is what a width four divides is for.                         *)
LEMMA TwoVblanksToggle ==
    ASSUME TypeOK
    PROVE  \/ Bit2(After(1), mode) # bit2
           \/ Bit2(After(2), mode) # bit2
  <1>1. /\ FrameMod \in Nat /\ FrameMod >= 4 /\ FrameMod % 4 = 0
        /\ framenum \in 0 .. FrameMod - 1 /\ mode \in 0 .. 1
        /\ bit2 = Bit2(framenum, mode)
    BY FrameAssumption DEF TypeOK
  <1>2. CASE framenum + 1 = FrameMod
    <2>1. After(1) = 0 /\ framenum % 4 = 3
      BY <1>1, <1>2, Steps
    <2>2. QED
      BY <1>1, <2>1 DEF Bit2
  <1>3. CASE framenum + 2 = FrameMod
    <2>1. After(2) = 0 /\ After(1) = framenum + 1
      BY <1>1, <1>3, Steps
    <2>2. framenum % 4 = 2 /\ (framenum \div 2) % 2 = 1
      BY <1>1, <1>3
    <2>3. framenum % 2 = 0 /\ (framenum + 1) % 2 = 1
      BY <1>1, <2>2
    <2>4. CASE mode = 0
      BY <2>1, <2>2, <2>4, <1>1 DEF Bit2
    <2>5. CASE mode = 1
      BY <2>1, <2>3, <2>5, <1>1 DEF Bit2
    <2>6. QED
      BY <1>1, <2>4, <2>5
  <1>4. CASE framenum + 1 # FrameMod /\ framenum + 2 # FrameMod
    <2>1. After(1) = framenum + 1 /\ After(2) = framenum + 2
      BY <1>1, <1>4, Steps
    <2>2. QED
      BY <1>1, <2>1 DEF Bit2
  <1>5. QED
    BY <1>2, <1>3, <1>4

(* Vblanks keep the counter in its width and the bit in step with it. *)
LEMMA VblanksType ==
    ASSUME TypeOK, NEW n \in Nat, Vblanks(n), mode' = mode
    PROVE  /\ framenum' \in 0 .. FrameMod - 1
           /\ bit2' \in 0 .. 1
           /\ bit2' = Bit2(framenum', mode')
  <1>1. After(n) \in 0 .. FrameMod - 1 /\ FrameMod \in Nat /\ mode \in 0 .. 1
    BY Steps, FrameAssumption DEF TypeOK
  <1>2. Bit2(After(n), mode) \in 0 .. 1
    BY <1>1, Bit2Type
  <1>3. QED
    BY <1>1, <1>2 DEF Vblanks

-----------------------------------------------------------------------------
(* The invariant: every action of the waiter and of the timer keeps it. *)
THEOREM ClockInvariance == Spec => []ClockInv
  <1>1. Init => ClockInv
    <2>1. 0 \in 0 .. FrameMod - 1 /\ Bit2(0, 0) = 0
      BY FrameAssumption DEF Bit2
    <2>2. Init => TypeOK
      <3>1. Init => bit2 = Bit2(framenum, mode)
        BY <2>1, Zenon DEF Init
      <3>2. Init => /\ framenum \in 0 .. FrameMod - 1
                    /\ {bit2, mode, latched} \subseteq 0 .. 1
        BY <2>1 DEF Init
      <3>3. Init => {started, tstop, asleep, closed} \subseteq BOOLEAN
        BY DEF Init
      <3>4. QED
        BY <3>1, <3>2, <3>3 DEF Init, TypeOK
    <2>3. Init => TimerIsClock /\ LatchIsFresh /\ StopMeetsNoWaiter
      BY DEF Init, TimerIsClock, LatchIsFresh, StopMeetsNoWaiter
    <2>4. QED
      BY <2>2, <2>3 DEF ClockInv
  <1>2. ClockInv /\ [Next]_vars => ClockInv'
    <2> SUFFICES ASSUME ClockInv, [Next]_vars
                 PROVE  ClockInv'
      OBVIOUS
    <2> USE DEF ClockInv, TimerIsClock, LatchIsFresh, StopMeetsNoWaiter
    <2>0. TypeOK
      OBVIOUS
    <2>1. CASE UNCHANGED vars
      BY <2>1 DEF vars, TypeOK
    <2>2. CASE \E m \in 0 .. 1 : RenderModeWrite(m)
      <3>1. PICK m \in 0 .. 1 : RenderModeWrite(m)
        BY <2>2
      <3>2. framenum \in Nat
        BY FrameAssumption DEF TypeOK
      <3>3. Bit2(framenum, m) \in 0 .. 1
        BY <3>2, Bit2Type
      <3>4. QED
        BY <3>1, <3>3 DEF RenderModeWrite, TypeOK
    <2>3. CASE HwReset
      BY <2>3, FrameAssumption DEF HwReset, TypeOK, Bit2
    <2>4. CASE LatchBit2
      BY <2>4 DEF LatchBit2, TypeOK
    <2>5. CASE WaitOffline
      <3>1. PICK n \in 1 .. FrameMod : Vblanks(n)
        BY <2>5 DEF WaitOffline
      <3>2. n \in Nat /\ mode' = mode
        BY <2>5, FrameAssumption DEF WaitOffline
      <3>3. /\ framenum' \in 0 .. FrameMod - 1
            /\ bit2' \in 0 .. 1
            /\ bit2' = Bit2(framenum', mode')
        BY <2>0, <3>1, <3>2, VblanksType
      <3>4. QED
        BY <2>5, <3>3 DEF WaitOffline, TypeOK
    <2>6. CASE WaitSdl
      <3>1. CASE UNCHANGED <<framenum, bit2>>
        BY <2>6, <3>1 DEF WaitSdl, TypeOK
      <3>2. CASE Vblanks(IF Bit2(After(1), mode) # latched THEN 1 ELSE 2) /\ UNCHANGED closed
        <4>1. mode' = mode
          BY <2>6 DEF WaitSdl
        <4>2. /\ framenum' \in 0 .. FrameMod - 1
              /\ bit2' \in 0 .. 1
              /\ bit2' = Bit2(framenum', mode')
          BY <2>0, <3>2, <4>1, VblanksType
        <4>3. QED
          BY <2>6, <3>2, <4>2 DEF WaitSdl, TypeOK
      <3>3. QED
        BY <2>6, <3>1, <3>2 DEF WaitSdl
    <2>7. CASE EnsureTimer
      <3>1. TypeOK'
        <4>1. CASE started /\ UNCHANGED <<started, tstop, tpc>>
          BY <2>7, <4>1 DEF EnsureTimer, TypeOK
        <4>2. CASE ~started /\ tstop' = FALSE
          BY <2>7, <4>2 DEF EnsureTimer, TypeOK
        <4>3. QED
          BY <2>7, <4>1, <4>2 DEF EnsureTimer
      <3>2. TimerIsClock' /\ LatchIsFresh' /\ StopMeetsNoWaiter'
        BY <2>7 DEF EnsureTimer, TypeOK
      <3>3. QED
        BY <3>1, <3>2
    <2>8. CASE WaitReturn
      <3>1. Vblanks(IF Toggled THEN 0 ELSE 1) /\ mode' = mode
        BY <2>8 DEF WaitReturn
      <3>2. /\ framenum' \in 0 .. FrameMod - 1
            /\ bit2' \in 0 .. 1
            /\ bit2' = Bit2(framenum', mode')
        BY <2>0, <3>1, VblanksType
      <3>3. QED
        BY <2>8, <3>2 DEF WaitReturn, InLoop, TypeOK
    <2>9. CASE WaitSleep
      BY <2>9 DEF WaitSleep, InLoop, TypeOK
    <2>10. CASE SpuriousWake
      BY <2>10 DEF SpuriousWake, TypeOK
    <2>11. CASE TimerTick
      <3>1. Vblanks(1) /\ mode' = mode
        BY <2>11 DEF TimerTick
      <3>2. /\ framenum' \in 0 .. FrameMod - 1
            /\ bit2' \in 0 .. 1
            /\ bit2' = Bit2(framenum', mode')
        BY <2>0, <3>1, VblanksType
      <3>3. QED
        BY <2>11, <3>2 DEF TimerTick, TypeOK
    <2>12. CASE TimerExit
      BY <2>12 DEF TimerExit, TypeOK
    <2>13. CASE Shutdown
      BY <2>13 DEF Shutdown, TypeOK
    <2>14. CASE Join
      BY <2>14 DEF Join, TypeOK
    <2>15. QED
      BY <2>1, <2>2, <2>3, <2>4, <2>5, <2>6, <2>7, <2>8, <2>9, <2>10,
         <2>11, <2>12, <2>13, <2>14 DEF Next, Wait, Timer
  <1>3. QED
    BY <1>1, <1>2, PTL DEF Spec

(* The register is always what counter and render mode make it, and the wait *)
(* never meets a timer that is being stopped (model2_hw_vsync.c).            *)
THEOREM VsyncSafe == Spec => []VsyncInv
  <1>1. ClockInv => VsyncInv
    BY DEF ClockInv, VsyncInv
  <1>2. QED
    BY <1>1, ClockInvariance, PTL

(* geo_vsync_wait goes on only after a toggle, and without a timer after two *)
(* vblanks at most, whatever the width of the counter.                       *)
THEOREM WaitReturnsOnToggle == Spec => ReturnsOnToggle
  <1> DEFINE Counted == framenum' \in {framenum, After(1), After(2)}
             Seen    == bit2' # latched \/ closed'
  <1>1. ClockInv /\ [Next]_vars => [Returns => Seen /\ Counted]_vars
    <2> SUFFICES ASSUME ClockInv, Next, Returns
                 PROVE  Seen /\ Counted
      BY DEF Returns, vars
    <2>0. TypeOK
      BY DEF ClockInv
    <2>1. CASE WaitOffline
      <3>1. PICK n \in 1 .. FrameMod :
               /\ Bit2(After(n), mode) # latched
               /\ \A k \in 1 .. n - 1 : Bit2(After(k), mode) = latched
               /\ Vblanks(n)
        BY <2>1 DEF WaitOffline
      <3>2. latched = bit2
        BY <2>1 DEF WaitOffline, ClockInv, TimerIsClock, LatchIsFresh
      <3>3. n \in Nat /\ n > 0
        BY FrameAssumption
      <3>4. n <= 2
        <4>1. SUFFICES ASSUME n > 2 PROVE FALSE
          BY <3>3
        <4>2. 1 \in 1 .. n - 1 /\ 2 \in 1 .. n - 1
          BY <3>3, <4>1
        <4>3. Bit2(After(1), mode) = bit2 /\ Bit2(After(2), mode) = bit2
          BY <3>1, <3>2, <4>2
        <4>4. QED
          BY <2>0, <4>3, TwoVblanksToggle
      <3>5. n = 1 \/ n = 2
        BY <3>3, <3>4
      <3>6. QED
        BY <3>1, <3>5 DEF Vblanks
    <2>2. CASE WaitSdl
      <3>1. CASE closed' = TRUE /\ UNCHANGED <<framenum, bit2>>
        BY <3>1
      <3>2. CASE Vblanks(IF Bit2(After(1), mode) # latched THEN 1 ELSE 2)
        <4>1. latched = bit2
          BY <2>2 DEF WaitSdl, ClockInv, TimerIsClock, LatchIsFresh
        <4>2. QED
          BY <2>0, <3>2, <4>1, TwoVblanksToggle DEF Vblanks
      <3>3. QED
        BY <2>2, <3>1, <3>2 DEF WaitSdl
    <2>3. CASE WaitReturn
      <3>1. Toggled
        BY <2>3 DEF WaitReturn, InLoop, ClockInv, StopMeetsNoWaiter
      <3>2. framenum' = framenum /\ bit2' = bit2
        BY <2>0, <2>3, <3>1, Steps DEF WaitReturn, Vblanks, TypeOK
      <3>3. QED
        BY <3>1, <3>2 DEF Toggled
    <2>4. QED
      BY <2>1, <2>2, <2>3
         DEF Next, Wait, Timer, Returns, RenderModeWrite, HwReset, LatchBit2,
             EnsureTimer, WaitSleep, SpuriousWake, TimerTick, TimerExit,
             Shutdown, Join
  <1>2. QED
    BY <1>1, ClockInvariance, PTL DEF Spec, ReturnsOnToggle
=============================================================================
