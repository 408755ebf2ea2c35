-------------------------------- MODULE Vsync --------------------------------
(***************************************************************************)
(* The emulated video control register of lib/model2/hw/model2_hw_vsync.c  *)
(* and the wait of geo_vsync_wait on its bit 2.  Three clocks can drive it,*)
(* fixed for a process: "offline" the wait itself steps emulated vblanks,  *)
(* "sdl" one present per wait with one or two vblanks, "timer" a thread    *)
(* counts vblanks in real time and the wait sleeps on a condition variable.*)
(* Each action is one critical section of g_vsync_mtx.  The two low bits of*)
(* the register, which only its writer reads, are left out.                *)
(***************************************************************************)
EXTENDS Naturals

CONSTANT FrameMod  \* the width of g_framenum, 2^32

ASSUME FrameAssumption == FrameMod \in Nat \ {0} /\ FrameMod % 4 = 0

VARIABLES clock,     \* what model2_hw_vsync_realtime and display_wanted say
          framenum,  \* g_framenum
          bit2,      \* bit 2 of g_video_ctl
          mode,      \* g_render_mode
          started,   \* g_thread_started
          tstop,     \* g_thread_stop
          tpc,       \* the timer thread
          asleep,    \* the main thread is blocked in pthread_cond_wait
          mpc,       \* which of these calls the main thread is in
          latched,   \* latched_bit2 of geo_vsync_wait
          closed     \* the view was closed and a halt requested

vars == <<clock, framenum, bit2, mode, started, tstop, tpc, asleep, mpc, latched, closed>>

Init ==
    /\ clock \in {"offline", "sdl", "timer"}
    /\ framenum = 0
    /\ bit2 = 0
    /\ mode = 0
    /\ started = FALSE /\ tstop = FALSE
    /\ tpc = "none"
    /\ asleep = FALSE
    /\ mpc = "run"
    /\ latched = 0
    /\ closed = FALSE

-----------------------------------------------------------------------------

(* videoctl_compute: the bit follows every vblank, or every second one. *)
Bit2(n, m) == IF m = 0 THEN (n \div 2) % 2 ELSE n % 2

After(n) == (framenum + n) % FrameMod

(* Advance n vblanks and refresh the register. *)
Vblanks(n) ==
    /\ framenum' = After(n)
    /\ bit2' = Bit2(After(n), mode)

RenderModeWrite(m) ==
    /\ mpc = "run"
    /\ mode' = m
    /\ bit2' = Bit2(framenum, m)
    /\ UNCHANGED <<clock, framenum, started, tstop, tpc, asleep, mpc, latched, closed>>

HwReset ==
    /\ mpc = "run"
    /\ framenum' = 0 /\ bit2' = 0 /\ mode' = 0
    /\ UNCHANGED <<clock, started, tstop, tpc, asleep, mpc, latched, closed>>

(* geo_vsync_wait reads the register and keeps bit 2. *)
LatchBit2 ==
    /\ mpc = "run"
    /\ latched' = bit2
    /\ mpc' = "latched"
    /\ UNCHANGED <<clock, framenum, bit2, mode, started, tstop, tpc, asleep, closed>>

(* No clock: step until the bit differs. *)
WaitOffline ==
    /\ mpc = "latched" /\ clock = "offline"
    /\ \E n \in 1 .. FrameMod :
          /\ Bit2(After(n), mode) # latched
          /\ \A k \in 1 .. n - 1 : Bit2(After(k), mode) = latched
          /\ Vblanks(n)
    /\ mpc' = "run"
    /\ UNCHANGED <<clock, mode, started, tstop, tpc, asleep, latched, closed>>

(* Seeded fault: a single vblank per present. *)
WaitSdl_OneStep ==
    /\ mpc = "latched" /\ clock = "sdl"
    /\ Vblanks(1) /\ UNCHANGED closed
    /\ mpc' = "run"
    /\ UNCHANGED <<clock, mode, started, tstop, tpc, asleep, latched>>

(* One present; when the view was closed, no vblank and a halt. *)
WaitSdl ==
    /\ mpc = "latched" /\ clock = "sdl"
    /\ \/ closed' = TRUE /\ UNCHANGED <<framenum, bit2>>
       \/ /\ Vblanks(IF Bit2(After(1), mode) # latched THEN 1 ELSE 2)
          /\ UNCHANGED closed
    /\ mpc' = "run"
    /\ UNCHANGED <<clock, mode, started, tstop, tpc, asleep, latched>>

(* vsync_thread_ensure: the timer is there, or is created, or cannot be.    *)
EnsureTimer ==
    /\ mpc = "latched" /\ clock = "timer"
    /\ \/ started /\ UNCHANGED <<started, tstop, tpc>>
       \/ /\ ~started
          /\ tstop' = FALSE
          /\ \/ started' = TRUE /\ tpc' = "run"
             \/ UNCHANGED <<started, tpc>>
    /\ mpc' = "check"
    /\ UNCHANGED <<clock, framenum, bit2, mode, asleep, latched, closed>>

Toggled == bit2 # latched

(* The main thread holds the mutex in the wait loop: it has entered it, or  *)
(* pthread_cond_wait has returned.                                          *)
InLoop == mpc = "check" \/ (mpc = "asleep" /\ ~asleep)

(* The test of the wait loop: return, stepping the bit by hand when the     *)
(* timer is being stopped ...                                               *)
WaitReturn ==
    /\ InLoop
    /\ Toggled \/ tstop
    /\ Vblanks(IF Toggled THEN 0 ELSE 1)
    /\ mpc' = "run"
    /\ UNCHANGED <<clock, mode, started, tstop, tpc, asleep, latched, closed>>

(* ... or sleep. *)
WaitSleep ==
    /\ InLoop
    /\ ~Toggled /\ ~tstop
    /\ asleep' = TRUE
    /\ mpc' = "asleep"
    /\ UNCHANGED <<clock, framenum, bit2, mode, started, tstop, tpc, latched, closed>>

SpuriousWake ==
    /\ asleep
    /\ asleep' = FALSE
    /\ UNCHANGED <<clock, framenum, bit2, mode, started, tstop, tpc, mpc, latched, closed>>

(* Seeded fault: the tick does not wake the waiter. *)
TimerTick_Silent ==
    /\ tpc = "run" /\ ~tstop
    /\ Vblanks(1)
    /\ UNCHANGED <<clock, mode, started, tstop, tpc, asleep, mpc, latched, closed>>

(* One round of vsync_timer_thread. *)
TimerTick ==
    /\ tpc = "run" /\ ~tstop
    /\ Vblanks(1)
    /\ asleep' = FALSE
    /\ UNCHANGED <<clock, mode, started, tstop, tpc, mpc, latched, closed>>

TimerExit ==
    /\ tpc = "run" /\ tstop
    /\ tpc' = "exited"
    /\ UNCHANGED <<clock, framenum, bit2, mode, started, tstop, asleep, mpc, latched, closed>>

(* model2_hw_vsync_hw_shutdown up to pthread_join, and the return from it. *)
Shutdown ==
    /\ mpc = "run" /\ started
    /\ tstop' = TRUE
    /\ asleep' = FALSE
    /\ mpc' = "join"
    /\ UNCHANGED <<clock, framenum, bit2, mode, started, tpc, latched, closed>>

(* Seeded fault: the stop flag survives the shutdown. *)
Join_KeepsStop ==
    /\ mpc = "join" /\ tpc = "exited"
    /\ started' = FALSE
    /\ tpc' = "none"
    /\ mpc' = "run"
    /\ UNCHANGED <<clock, framenum, bit2, mode, tstop, asleep, latched, closed>>

Join ==
    /\ mpc = "join" /\ tpc = "exited"
    /\ started' = FALSE /\ tstop' = FALSE
    /\ tpc' = "none"
    /\ mpc' = "run"
    /\ UNCHANGED <<clock, framenum, bit2, mode, asleep, latched, closed>>

-----------------------------------------------------------------------------
Wait == WaitOffline \/ WaitSdl \/ EnsureTimer \/ WaitReturn \/ WaitSleep
Timer == TimerTick \/ TimerExit

Next ==
    \/ \E m \in 0 .. 1 : RenderModeWrite(m)
    \/ HwReset \/ LatchBit2 \/ Wait \/ SpuriousWake
    \/ Timer \/ Shutdown \/ Join

(* The timer thread ticks and the main thread goes on in a call.  That the  *)
(* waiter gets to see a toggle before the next tick undoes it is strong     *)
(* fairness: a tick is 17 ms, a wake-up far less.                           *)
Spec ==
    /\ Init /\ [][Next]_vars
    /\ WF_vars(Timer) /\ WF_vars(Wait) /\ SF_vars(WaitReturn) /\ WF_vars(Join)

-----------------------------------------------------------------------------
TypeOK ==
    /\ clock \in {"offline", "sdl", "timer"}
    /\ framenum \in 0 .. FrameMod - 1
    /\ {bit2, mode, latched} \subseteq 0 .. 1
    /\ {started, tstop, asleep, closed} \subseteq BOOLEAN
    /\ tpc \in {"none", "run", "exited"}
    /\ mpc \in {"run", "latched", "check", "asleep", "join"}
    /\ bit2 = Bit2(framenum, mode)

Returns == mpc \in {"latched", "check", "asleep"} /\ mpc' = "run"

(* geo_vsync_wait goes on only after bit 2 differs from what it latched,    *)
(* whichever clock drives it and however many ticks fell in between, unless *)
(* the view was closed.  Without the timer that takes two vblanks at most,  *)
(* also when the render mode changed since the last and across the wrap of  *)
(* the counter: game time cannot run ahead of the presented frames.         *)
ReturnsOnToggle ==
    [][Returns => /\ bit2' # latched \/ closed'
                  /\ framenum' \in {framenum, After(1), After(2)}]_vars

(* The wait never finds the timer being stopped: its escape for that case,  *)
(* which steps the bit once and may return without a toggle, is dead code   *)
(* as long as one thread waits and shuts down.                              *)
StopMeetsNoWaiter == tstop => mpc = "join"

(* The variables keep their types, bit 2 is what the counter and the render *)
(* mode make it (videoctl_compute), and the escape above stays dead.        *)
VsyncInv == TypeOK /\ StopMeetsNoWaiter

(* With a timer running, every wait returns; and so does the shutdown.      *)
CallsReturn ==
    /\ started /\ mpc \in {"check", "asleep"} ~> mpc = "run"
    /\ mpc = "join" ~> mpc = "run"
=============================================================================
