------------------------------- MODULE SoundPcm -------------------------------
(***************************************************************************)
(* The sound board thread of lib/model2/snd/model2_snd.c, the ring of PCM  *)
(* frames it fills, and the SDL callback of src/host/model2_snd_lift.c that*)
(* empties it.  The board renders a chunk, pushes it, and waits while the  *)
(* ring is ahead of the callback.  The main thread starts and stops the    *)
(* board and clears the ring: once under g_pcm_mu, and again without it, in*)
(* model2_snd_reset and before every start, when the callback may be in the*)
(* middle of a pull.                                                       *)
(*                                                                         *)
(* A frame is its serial number, modulo SerialMod.  A push is one critical *)
(* section; a pull is taken apart, the mutex held throughout, because the  *)
(* unlocked clears can fall into it.  What the board renders is left out.  *)
(***************************************************************************)
EXTENDS Naturals

CONSTANTS Ring,      \* PCM_RING, 8192 frames
          Target,    \* PCM_TARGET, 1024
          Chunk,     \* PCM_CHUNK, 256
          CountMod,  \* the width of g_pcm_n, 2^32
          Period,    \* frames per callback, 512
          SerialMod  \* bound: serial numbers, more than the ring holds

ASSUME PcmAssumption ==
    /\ {Ring, Target, Chunk, CountMod, Period, SerialMod} \subseteq Nat \ {0}
    /\ Target + Chunk <= Ring
    /\ Ring < CountMod
    /\ Ring < SerialMod

VARIABLES pcm,    \* g_pcm
          r, n,   \* g_pcm_r, g_pcm_n
          thrOn,  \* g_thr_on
          stop,   \* g_thr_stop
          bpc,    \* where board_thread is
          open,   \* g_dev: the audio device is open
          pull,   \* the callback: the frames it still has to fetch, and the
                  \* result of its test of g_pcm_n
          mpc,    \* which of these calls the main thread is in, and ...
          goal,   \* ... what it does after thread_stop
          hist    \* history: serials to be pushed and to be played next

ringVars == <<pcm, r, n>>
mainVars == <<thrOn, stop, mpc, goal>>
vars == <<pcm, r, n, thrOn, stop, bpc, open, pull, mpc, goal, hist>>

Idle == [left |-> 0, some |-> FALSE, tested |-> FALSE]

Init ==
    /\ pcm = [s \in 0 .. Ring - 1 |-> 0]
    /\ r = 0 /\ n = 0
    /\ thrOn = FALSE /\ stop = FALSE
    /\ bpc = "none"
    /\ open = FALSE
    /\ pull = Idle
    /\ mpc = "run" /\ goal = "stop"
    /\ hist = [push |-> 0, play |-> 0]

-----------------------------------------------------------------------------
(* The board thread. *)
MutexFree == pull.left = 0

BoardBoot ==
    /\ bpc = "boot"
    /\ bpc' = "top"
    /\ UNCHANGED <<ringVars, mainVars, open, pull, hist>>

BoardTop ==
    /\ bpc = "top"
    /\ bpc' = IF stop THEN "exited" ELSE "chunk"
    /\ UNCHANGED <<ringVars, mainVars, open, pull, hist>>

(* Seeded fault: the write position ignores where reading is. *)
PushSlot_FromZero(k) == (n + k) % Ring

PushSlot(k) == (r + n + k) % Ring

(* pcm_push of one chunk.  For each frame over Ring the oldest goes.  *)
BoardPush ==
    LET over == IF n + Chunk > Ring THEN n + Chunk - Ring ELSE 0 IN
    /\ bpc = "chunk" /\ MutexFree
    /\ pcm' = [s \in 0 .. Ring - 1 |->
                 IF \E k \in 0 .. Chunk - 1 : s = PushSlot(k)
                 THEN (hist.push + (CHOOSE k \in 0 .. Chunk - 1 : s = PushSlot(k))) % SerialMod
                 ELSE pcm[s]]
    /\ r' = (r + over) % Ring
    /\ n' = n + Chunk - over
    /\ hist' = [hist EXCEPT !.push = (@ + Chunk) % SerialMod]
    /\ bpc' = "pace"
    /\ UNCHANGED <<mainVars, open, pull>>

(* Seeded fault: the level is not looked at. *)
BoardPace_Free ==
    /\ bpc = "pace"
    /\ bpc' = IF stop THEN "exited" ELSE "top"
    /\ UNCHANGED <<ringVars, mainVars, open, pull, hist>>

(* Seeded fault: waiting for the ring to drain ignores the stop. *)
BoardPace_Deaf ==
    /\ bpc = "pace" /\ MutexFree /\ n <= Target
    /\ bpc' = IF stop THEN "exited" ELSE "top"
    /\ UNCHANGED <<ringVars, mainVars, open, pull, hist>>

(* The pacing loop: until stopped, go on only when the ring is not ahead.  *)
BoardPace ==
    /\ bpc = "pace"
    /\ \/ stop /\ bpc' = "exited"
       \/ ~stop /\ MutexFree /\ n <= Target /\ bpc' = "top"
    /\ UNCHANGED <<ringVars, mainVars, open, pull, hist>>

-----------------------------------------------------------------------------
(* The SDL callback: it takes the mutex for a period of frames, and for each*)
(* tests the count, then reads, advances and decrements.                    *)
PullBegin ==
    /\ open /\ pull.left = 0
    /\ pull' = [left |-> Period, some |-> FALSE, tested |-> FALSE]
    /\ UNCHANGED <<ringVars, mainVars, bpc, open, hist>>

PullTest ==
    /\ pull.left > 0 /\ ~pull.tested
    /\ pull' = [pull EXCEPT !.some = (n # 0), !.tested = TRUE]
    /\ UNCHANGED <<ringVars, mainVars, bpc, open, hist>>

PullFrame ==
    /\ pull.left > 0 /\ pull.tested
    /\ pull' = [pull EXCEPT !.left = @ - 1, !.tested = FALSE, !.some = FALSE]
    /\ \/ /\ pull.some
          /\ r' = (r + 1) % Ring
          /\ n' = (n + CountMod - 1) % CountMod
          /\ hist' = [hist EXCEPT !.play = (pcm[r] + 1) % SerialMod]
       \/ ~pull.some /\ UNCHANGED <<r, n, hist>>
    /\ UNCHANGED <<pcm, mainVars, bpc, open>>

-----------------------------------------------------------------------------
(* The main thread.  model2_snd_reset, model2_snd_load_roms and the exit    *)
(* handler all begin with thread_stop.                                      *)
Call(g) ==
    /\ mpc = "run"
    /\ goal' = g
    /\ \/ thrOn /\ stop' = TRUE /\ mpc' = "join"
       \/ ~thrOn /\ mpc' = "after" /\ UNCHANGED stop
    /\ UNCHANGED <<ringVars, thrOn, bpc, open, pull, hist>>

Join ==
    /\ mpc = "join" /\ bpc = "exited"
    /\ bpc' = "none"
    /\ thrOn' = FALSE /\ stop' = FALSE
    /\ mpc' = "clear"
    /\ UNCHANGED <<ringVars, goal, open, pull, hist>>

LockedClear ==
    /\ mpc = "clear" /\ MutexFree
    /\ r' = 0 /\ n' = 0
    /\ hist' = [hist EXCEPT !.play = hist.push]
    /\ mpc' = "after"
    /\ UNCHANGED <<pcm, thrOn, stop, goal, bpc, open, pull>>

(* g_pcm_r = g_pcm_n = 0 without the mutex, and thread_start. *)
UnlockedClear ==
    /\ mpc = "after" /\ goal # "stop"
    /\ r' = 0 /\ n' = 0
    /\ hist' = [hist EXCEPT !.play = hist.push]
    /\ \/ goal = "start" /\ thrOn' = TRUE /\ bpc' = "boot"
       \/ goal = "reset" /\ UNCHANGED <<thrOn, bpc>>
    /\ mpc' = "run"
    /\ UNCHANGED <<pcm, stop, goal, open, pull>>

Stopped ==
    /\ mpc = "after" /\ goal = "stop"
    /\ mpc' = "run"
    /\ UNCHANGED <<ringVars, thrOn, stop, goal, bpc, open, pull, hist>>

(* model2_snd_host_audio_open, when not muted; _close waits for a pull.     *)
AudioOpen ==
    /\ mpc = "run" /\ ~open
    /\ open' = TRUE
    /\ UNCHANGED <<ringVars, mainVars, bpc, pull, hist>>

AudioClose ==
    /\ mpc = "run" /\ open /\ pull.left = 0
    /\ open' = FALSE
    /\ UNCHANGED <<ringVars, mainVars, bpc, pull, hist>>

-----------------------------------------------------------------------------
Board == BoardBoot \/ BoardTop \/ BoardPush \/ BoardPace
Callback == PullBegin \/ PullTest \/ PullFrame
MainGoesOn == Join \/ LockedClear \/ UnlockedClear \/ Stopped

Next ==
    \/ Board \/ Callback \/ MainGoesOn
    \/ \E g \in {"stop", "reset", "start"} : Call(g)
    \/ AudioOpen \/ AudioClose

(* The board thread runs, a pull that began ends, the main thread finishes  *)
(* the call it is in.  No device need ever pull; and since the mutex is not *)
(* fair, the locked clear must get it between two pulls: strong fairness.   *)
Spec ==
    /\ Init /\ [][Next]_vars
    /\ WF_vars(Board) /\ WF_vars(PullTest \/ PullFrame)
    /\ WF_vars(MainGoesOn) /\ SF_vars(LockedClear) /\ SF_vars(BoardPush)

-----------------------------------------------------------------------------
TypeOK ==
    /\ pcm \in [0 .. Ring - 1 -> 0 .. SerialMod - 1]
    /\ r \in 0 .. Ring - 1 /\ n \in 0 .. CountMod - 1
    /\ {thrOn, stop, open} \subseteq BOOLEAN
    /\ bpc \in {"none", "boot", "top", "chunk", "pace", "exited"}
    /\ thrOn <=> bpc # "none"
    /\ pull \in [left : 0 .. Period, some : BOOLEAN, tested : BOOLEAN]
    /\ mpc \in {"run", "join", "clear", "after"}
    /\ goal \in {"stop", "reset", "start"}

(* The pacing keeps the ring at one chunk over the target at most, so that  *)
(* pcm_push never throws a frame away, and the unsigned count never wraps.  *)
NothingThrownAway == n <= Target + Chunk

(* The clears made without the mutex find nothing to clear, so that it does *)
(* not matter that a pull can be under way: thread_stop has emptied the     *)
(* ring under the mutex and the board that fills it is gone.                *)
ClearsFindEmpty == mpc = "after" => r = 0 /\ n = 0 /\ ~thrOn

(* The types and the two facts above.                                       *)
PcmInv == TypeOK /\ NothingThrownAway /\ ClearsFindEmpty

(* What waits in the ring is the run of frames that follows the last one    *)
(* played: nothing is played twice, out of order, or skipped.               *)
PlaysInOrder ==
    /\ \A i \in 0 .. Ring - 1 : i < n => pcm[(r + i) % Ring] = (hist.play + i) % SerialMod
    /\ hist.push = (hist.play + n) % SerialMod

(* thread_stop returns, also when no device pulls and the ring stays full.  *)
CallsReturn == mpc # "run" ~> mpc = "run"
=============================================================================
