------------------------------ MODULE GeoWorker ------------------------------
(***************************************************************************)
(* The decode worker of lib/model2/geo/model2_geo_render.c and its callers *)
(* on the main thread: one mutex, g_worker_mtx, and one condition variable *)
(* on which both the worker (for a kick) and model2_geo_render_decode_fifos*)
(* (for its answer) sleep.  Each action is a critical section, from taking *)
(* the mutex to releasing it or to the wait that releases it.  The decode  *)
(* runs unlocked and is here only the state "decoding"; GeoPipeline opens  *)
(* it.  The wait may return spuriously, and a signal wakes any one sleeper.*)
(***************************************************************************)
EXTENDS Naturals

CONSTANT GenMod  \* the width of g_worker_gen, 2^32

ASSUME GenAssumption == GenMod \in Nat \ {0}

VARIABLES stop,       \* g_worker_stop
          kick,       \* g_worker_kick
          gen,        \* g_worker_gen
          doneGen,    \* g_done_gen
          sleepers,   \* the threads blocked in pthread_cond_wait
          wpc,        \* where geo_worker_main is
          mpc,        \* which of these calls the main thread is in
          want        \* the local `want' of decode_fifos

workerVars == <<stop, kick, gen, doneGen, sleepers, wpc, mpc, want>>

Threads == {"main", "worker"}

(* The worker before model2_geo_render_init, and after it was joined. *)
WorkerInit ==
    /\ stop = FALSE /\ kick = FALSE
    /\ gen = 0 /\ doneGen = 0
    /\ sleepers = {}
    /\ wpc = "none"
    /\ mpc = "down"
    /\ want = 0

-----------------------------------------------------------------------------
(* Seeded fault: the counter does not wrap. *)
NextGen_NoWrap == gen + 1

(* g_worker_gen++ on an unsigned *)
NextGen == IF gen + 1 = GenMod THEN 0 ELSE gen + 1

(* Seeded fault: the signal is missing. *)
Signalled_Nobody(left) == left = sleepers

(* pthread_cond_signal wakes one sleeper if there is any; `left' is who is  *)
(* still asleep.                                                            *)
Signalled(left) ==
    \/ sleepers = {} /\ left = {}
    \/ \E t \in sleepers : left = sleepers \ {t}

(* geo_worker_main from the head of its outer loop: stop wins over a kick, *)
(* a kick is consumed, and otherwise the worker sleeps beside `others'.    *)
WorkerLoop(others) ==
    \/ /\ stop
       /\ wpc' = "exited"
       /\ sleepers' = others
       /\ UNCHANGED kick
    \/ /\ ~stop /\ kick
       /\ kick' = FALSE
       /\ wpc' = "decoding"
       /\ sleepers' = others
    \/ /\ ~stop /\ ~kick
       /\ wpc' = "asleep"
       /\ sleepers' = others \union {"worker"}
       /\ UNCHANGED kick

WorkerEnter ==
    /\ wpc = "created"
    /\ WorkerLoop(sleepers)
    /\ UNCHANGED <<stop, gen, doneGen, mpc, want>>

WorkerWake ==
    /\ wpc = "asleep" /\ "worker" \notin sleepers
    /\ WorkerLoop(sleepers)
    /\ UNCHANGED <<stop, gen, doneGen, mpc, want>>

(* Seeded fault: no broadcast when the decode is done. *)
WorkerFinish_NoBroadcast ==
    /\ wpc = "decoding"
    /\ doneGen' = gen
    /\ WorkerLoop(sleepers)
    /\ UNCHANGED <<stop, gen, mpc, want>>

(* Seeded fault: the kick is cleared after the decode instead of before. *)
WorkerFinish_ClearsKick ==
    /\ wpc = "decoding"
    /\ doneGen' = gen
    /\ kick' = FALSE
    /\ IF stop THEN wpc' = "exited" /\ sleepers' = {}
               ELSE wpc' = "asleep" /\ sleepers' = {"worker"}
    /\ UNCHANGED <<stop, gen, mpc, want>>

(* The end of a decode: everything asked for so far counts as answered, all *)
(* sleepers are woken, and the loop goes round without releasing the mutex. *)
WorkerFinish ==
    /\ wpc = "decoding"
    /\ doneGen' = gen
    /\ WorkerLoop({})
    /\ UNCHANGED <<stop, gen, mpc, want>>

-----------------------------------------------------------------------------
(* model2_geo_render_init with a thread that starts. *)
InitWorker ==
    /\ mpc = "down"
    /\ stop' = FALSE /\ kick' = FALSE
    /\ gen' = 0 /\ doneGen' = 0
    /\ wpc' = "created"
    /\ mpc' = "run"
    /\ UNCHANGED <<sleepers, want>>

(* model2_geo_render_kick: every write to a GEO or copro port, every latch. *)
Kick ==
    /\ mpc = "run"
    /\ gen' = NextGen
    /\ kick' = TRUE
    /\ Signalled(sleepers')
    /\ UNCHANGED <<stop, doneGen, wpc, mpc, want>>

(* Seeded fault: the caller waits without having raised the kick. *)
DecodeCall_NoKick ==
    /\ mpc = "run"
    /\ gen' = NextGen
    /\ want' = NextGen
    /\ doneGen < NextGen
    /\ sleepers' = sleepers \union {"main"}
    /\ mpc' = "wait"
    /\ UNCHANGED <<stop, kick, doneGen, wpc>>

(* model2_geo_render_decode_fifos up to its first wait.  When the counter   *)
(* has wrapped past the last answer the wait loop is not entered at all.    *)
DecodeCall ==
    /\ mpc = "run"
    /\ gen' = NextGen
    /\ want' = NextGen
    /\ kick' = TRUE
    /\ \E left \in SUBSET Threads :
          /\ Signalled(left)
          /\ \/ doneGen < NextGen /\ sleepers' = left \union {"main"} /\ mpc' = "wait"
             \/ doneGen >= NextGen /\ sleepers' = left /\ UNCHANGED mpc
    /\ UNCHANGED <<stop, doneGen, wpc>>

(* The condition of the wait loop in decode_fifos. *)
Unanswered == ~stop /\ doneGen < want

DecodeWake ==
    /\ mpc = "wait" /\ "main" \notin sleepers
    /\ \/ Unanswered /\ sleepers' = sleepers \union {"main"} /\ UNCHANGED mpc
       \/ ~Unanswered /\ mpc' = "run" /\ UNCHANGED sleepers
    /\ UNCHANGED <<stop, kick, gen, doneGen, wpc, want>>

(* Seeded fault: the worker is not woken to see the stop. *)
Shutdown_NoSignal ==
    /\ mpc = "run"
    /\ stop' = TRUE
    /\ kick' = TRUE
    /\ mpc' = "join"
    /\ UNCHANGED <<gen, doneGen, sleepers, wpc, want>>

(* model2_geo_render_shutdown up to pthread_join, and the return from it. *)
Shutdown ==
    /\ mpc = "run"
    /\ stop' = TRUE
    /\ kick' = TRUE
    /\ Signalled(sleepers')
    /\ mpc' = "join"
    /\ UNCHANGED <<gen, doneGen, wpc, want>>

(* Seeded fault: shutdown does not wait for the worker to exit. *)
Join_NoWait ==
    /\ mpc = "join"
    /\ mpc' = "down"
    /\ UNCHANGED <<stop, kick, gen, doneGen, sleepers, wpc, want>>

Join ==
    /\ mpc = "join" /\ wpc = "exited"
    /\ wpc' = "none"
    /\ mpc' = "down"
    /\ UNCHANGED <<stop, kick, gen, doneGen, sleepers, want>>

(* pthread_cond_wait may return without a signal. *)
SpuriousWake ==
    /\ \E t \in sleepers : sleepers' = sleepers \ {t}
    /\ UNCHANGED <<stop, kick, gen, doneGen, wpc, mpc, want>>

-----------------------------------------------------------------------------
WorkerStep == WorkerEnter \/ WorkerWake \/ WorkerFinish
MainStep == InitWorker \/ Kick \/ DecodeCall \/ DecodeWake \/ Shutdown \/ Join

WorkerNext == WorkerStep \/ MainStep \/ SpuriousWake

(* The worker is a running thread whose decode is a bounded loop; a call    *)
(* the main thread is in goes on once it can.  Nothing says that the main   *)
(* thread makes another call.                                               *)
WorkerFairness == WF_workerVars(WorkerStep) /\ WF_workerVars(DecodeWake \/ Join)

WorkerSafety == WorkerInit /\ [][WorkerNext]_workerVars

WorkerSpec == WorkerSafety /\ WorkerFairness

-----------------------------------------------------------------------------
WorkerTypeOK ==
    /\ stop \in BOOLEAN /\ kick \in BOOLEAN
    /\ {gen, doneGen, want} \subseteq 0 .. GenMod - 1
    /\ sleepers \subseteq Threads
    /\ wpc \in {"none", "created", "asleep", "decoding", "exited"}
    /\ mpc \in {"down", "run", "wait", "join"}

(* No wake-up is lost on the shared condition variable: the worker never    *)
(* sleeps through a kick or a stop, and the caller of decode_fifos never    *)
(* sleeps through its answer.                                               *)
NoLostWakeup ==
    /\ "worker" \in sleepers => ~kick /\ ~stop
    /\ "main" \in sleepers => Unanswered

(* The two threads never wait for each other: while a decode_fifos call is  *)
(* unanswered, the worker holds its request or is decoding.                 *)
RequestIsHeld ==
    mpc = "wait" /\ Unanswered => kick \/ wpc = "decoding"

(* Shutting down leaves no thread behind to touch the buffers it frees.     *)
DownMeansJoined == mpc = "down" => wpc = "none" /\ sleepers = {}

(* decode_fifos returns, and pthread_join in shutdown returns.              *)
DecodeReturns == mpc = "wait" ~> mpc = "run"
ShutdownReturns == mpc = "join" ~> mpc = "down"

(* A kick is followed by a decode that begins after it, unless the worker   *)
(* is being stopped: no burst of writes leaves the last one undecoded.      *)
KickIsServed == kick ~> (wpc = "decoding" /\ ~kick) \/ stop
=============================================================================
