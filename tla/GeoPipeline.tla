----------------------------- MODULE GeoPipeline ------------------------------
(***************************************************************************)
(* The path of a frame from the game to the screen: the main thread writes *)
(* display-list words into the PRG FIFO (PrgFifo), latches a frame at every*)
(* geo_vsync_wait and kicks the decode worker (GeoWorker) after each write *)
(* and each latch, outside the FIFO's mutex; the worker reads the counters,*)
(* the displayed range, the words and the matrices in critical sections of *)
(* their own, decodes into the collector g_mesh, and publishes that as the *)
(* drawn mesh.  A scene change clears the drawn mesh and the collector.  At *)
(* the end of a headless run i960_host_trace_summary asks for a decode when*)
(* no mesh is published.                                                   *)
(*                                                                         *)
(* The display-list interpreter is abstracted to whether it drew anything. *)
(* The copro word counter, which only makes the worker look at the FIFO    *)
(* once more, is left out.                                                 *)
(***************************************************************************)
EXTENDS PrgFifo, GeoWorker, FiniteSets

CONSTANTS MinWords,  \* a stream of at most this many words is not decoded (4)
          MaxKicks,  \* bound: kicks of the worker, below GenMod
          MaxUploads,\* bound: texture uploads
          MaxLosses  \* bound: scene clears and failed allocations

ASSUME PipelineAssumption ==
    /\ MinWords \in Nat
    /\ MaxKicks \in Nat /\ MaxKicks + 3 < GenMod
    /\ MaxUploads \in Nat
    /\ MaxLosses \in Nat

VARIABLES owed,   \* the main thread has left g_fifo_mtx and will call the notify
          phase,  \* how far i960_host_trace_summary is
          dpc,    \* where decode_fifos_locked is
          loc,    \* its locals
          last,   \* s_last_prg_total, s_last_display_gen, s_prg_dl_at_total
          coll,   \* g_mesh, the collector: its words and their frame
          mesh,   \* the published mesh: its words, and the last frame published
          losses  \* the scene clears and failed allocations so far

pipeVars == <<owed, phase, dpc, loc, last, coll, mesh, losses>>
vars == <<fifoVars, workerVars, pipeVars>>

NoMesh == [words |-> <<>>, of |-> 0]

NoLocals == [total |-> 0, gen |-> 0, start |-> 0, end |-> 0, slice |-> FALSE,
             words |-> <<>>, mtx |-> <<>>, of |-> 0, from |-> 0, lapped |-> FALSE]

Init ==
    /\ FifoInit
    /\ WorkerInit
    /\ owed = FALSE
    /\ phase = "game"
    /\ dpc = "idle"
    /\ loc = NoLocals
    /\ last = [total |-> 0, gen |-> 0, dlTotal |-> 0]
    /\ coll = NoMesh
    /\ mesh = NoMesh
    /\ losses = 0

-----------------------------------------------------------------------------
(* The main thread. *)
Start ==
    /\ phase = "game"
    /\ InitWorker
    /\ UNCHANGED <<fifoVars, pipeVars>>

Playing == mpc = "run" /\ ~owed /\ phase = "game" /\ gen < MaxKicks

(* model2_hw_mmio_write to the PRG ports: the word, then the notification,  *)
(* which is owed even when retention is off and the word was dropped.       *)
MmioWrite ==
    /\ Playing
    /\ PushWord
    /\ owed' = TRUE
    /\ UNCHANGED <<workerVars, phase, dpc, loc, last, coll, mesh, losses>>

(* geo_reg_texture_sync turns retention off before its uploads and on after.*)
TextureSync ==
    /\ Playing
    /\ Cardinality(hist.cuts) < MaxUploads
    /\ MeshEnable(~meshEnable)
    /\ UNCHANGED <<workerVars, pipeVars>>

(* Seeded fault: the latch does not tell the worker. *)
VsyncFrameDone_Silent ==
    /\ Playing
    /\ display.gen + 2 < MaxGen
    /\ LatchPrgFrame
    /\ UNCHANGED <<workerVars, pipeVars>>

(* The latch at the end of geo_vsync_wait; only a published frame notifies. *)
(* Two publications are left to the summary, within MaxGen.                 *)
VsyncFrameDone ==
    /\ Playing
    /\ display.gen + 2 < MaxGen
    /\ LatchPrgFrame
    /\ owed' = (display' # display)
    /\ UNCHANGED <<workerVars, phase, dpc, loc, last, coll, mesh, losses>>

Notify ==
    /\ owed
    /\ Kick
    /\ owed' = FALSE
    /\ UNCHANGED <<fifoVars, phase, dpc, loc, last, coll, mesh, losses>>

(* sys24_viewer_flip kicks the worker for every frame presented. *)
ViewerFlip ==
    /\ Playing
    /\ Kick
    /\ UNCHANGED <<fifoVars, pipeVars>>

(* model2_geo_clear, at a scene change or behind an opaque screen: the drawn*)
(* mesh goes under g_pub_mtx, then the collector under g_worker_mtx.  The   *)
(* worker fills and reads the collector holding neither, so a reset that    *)
(* falls into that leaves it with any piece of what it was handling.        *)
ClearDraw ==
    /\ Playing
    /\ losses < MaxLosses
    /\ mesh' = [mesh EXCEPT !.words = <<>>]
    /\ losses' = losses + 1
    /\ phase' = "clear"
    /\ UNCHANGED <<fifoVars, workerVars, owed, dpc, loc, last, coll>>

Pieces(words) == {SubSeq(words, i, j) : i, j \in 1 .. Len(words)} \ {<<>>}

ClearCollector ==
    /\ phase = "clear"
    /\ coll' = NoMesh
    /\ \/ dpc \notin {"append", "swap"} /\ UNCHANGED loc
       \/ /\ dpc \in {"append", "swap"}
          /\ \E piece \in Pieces(loc.words) : loc' = [loc EXCEPT !.words = piece]
    /\ phase' = "game"
    /\ UNCHANGED <<fifoVars, workerVars, owed, dpc, last, mesh, losses>>

(* i960_host_trace_summary once the game has returned: nothing more when a  *)
(* mesh is there, else latch, publish the densest frame, and decode.        *)
SummaryCheck ==
    /\ mpc = "run" /\ ~owed /\ phase = "game"
    /\ phase' = IF mesh.words = <<>> THEN "latch" ELSE "summarised"
    /\ UNCHANGED <<fifoVars, workerVars, owed, dpc, loc, last, coll, mesh, losses>>

SummaryLatch ==
    /\ mpc = "run" /\ ~owed /\ phase = "latch"
    /\ LatchPrgFrame
    /\ owed' = (display' # display)
    /\ phase' = "best"
    /\ UNCHANGED <<workerVars, dpc, loc, last, coll, mesh, losses>>

SummaryBest ==
    /\ mpc = "run" /\ ~owed /\ phase = "best"
    /\ \/ PublishBest /\ owed' = TRUE
       \/ ~BestDiffers /\ UNCHANGED <<fifoVars, owed>>
    /\ phase' = "decode"
    /\ UNCHANGED <<workerVars, dpc, loc, last, coll, mesh, losses>>

SummaryDecode ==
    /\ ~owed /\ phase = "decode"
    /\ DecodeCall
    /\ phase' = "decoding"
    /\ UNCHANGED <<fifoVars, owed, dpc, loc, last, coll, mesh, losses>>

SummaryWake ==
    /\ phase = "decoding"
    /\ DecodeWake
    /\ phase' = IF mpc' = "run" THEN "summarised" ELSE phase
    /\ UNCHANGED <<fifoVars, owed, dpc, loc, last, coll, mesh, losses>>

StopWorker ==
    /\ phase = "summarised"
    /\ Shutdown
    /\ UNCHANGED <<fifoVars, pipeVars>>

JoinWorker ==
    /\ Join
    /\ UNCHANGED <<fifoVars, pipeVars>>

(* The program has ended. *)
Ended == phase = "summarised" /\ mpc = "down" /\ UNCHANGED vars

-----------------------------------------------------------------------------
(* The worker: decode_fifos_locked, one action per critical section of the  *)
(* FIFO's mutex.                                                            *)
WorkerRuns ==
    /\ WorkerEnter \/ WorkerWake
    /\ dpc' = IF wpc' = "decoding" THEN "total" ELSE "idle"
    /\ UNCHANGED <<fifoVars, owed, phase, loc, last, coll, mesh, losses>>

DecodeStep(from, to) ==
    /\ dpc = from /\ dpc' = to
    /\ UNCHANGED <<fifoVars, workerVars, owed, phase, losses>>

ReadTotal ==
    /\ DecodeStep("total", "gen")
    /\ loc' = [loc EXCEPT !.total = total]
    /\ UNCHANGED <<last, coll, mesh>>

ReadGen ==
    /\ DecodeStep("gen", "range")
    /\ loc' = [loc EXCEPT !.gen = display.gen]
    /\ UNCHANGED <<last, coll, mesh>>

(* Nothing arrived since the last decode: the early return. *)
NothingNew == loc.total = last.total /\ loc.gen = last.gen

(* The displayed range, then the choice of what to copy: the latched frame, *)
(* before the first latch the whole ring, else nothing.                     *)
ReadRange ==
    /\ \/ NothingNew /\ DecodeStep("range", "finish") /\ loc' = NoLocals /\ UNCHANGED last
       \/ /\ ~NothingNew /\ display.end > display.start
          /\ DecodeStep("range", "words")
          /\ loc' = [loc EXCEPT !.start = display.start, !.end = display.end,
                                !.slice = TRUE, !.of = display.gen, !.from = hist.disp]
          /\ UNCHANGED last
       \/ /\ ~NothingNew /\ display.end <= display.start /\ loc.gen = 0
          /\ DecodeStep("range", "words")
          /\ UNCHANGED <<loc, last>>
       \/ /\ ~NothingNew /\ display.end <= display.start /\ loc.gen # 0
          /\ DecodeStep("range", "finish")
          /\ last' = [last EXCEPT !.total = loc.total, !.gen = loc.gen]
          /\ loc' = NoLocals
    /\ UNCHANGED <<coll, mesh>>

(* Seeded fault: the range is read again for each copy. *)
Copied_LiveRange(ring) ==
    IF loc.slice THEN CopyRange(ring, display.start, display.end) ELSE CopyAll(ring)

Copied(ring) == IF loc.slice THEN CopyRange(ring, loc.start, loc.end) ELSE CopyAll(ring)

CopyWords ==
    /\ DecodeStep("words", "mtx")
    /\ loc' = [loc EXCEPT !.words = Copied(prg)]
    /\ UNCHANGED <<last, coll, mesh>>

(* More matrices than words are cut off.  `lapped' records, for the         *)
(* properties, that the ring has overwritten words of the range by now.     *)
CopyMatrices ==
    LET n == Len(loc.words) IN
    /\ DecodeStep("mtx", "decode")
    /\ loc' = [loc EXCEPT
                 !.mtx = SubSeq(Copied(mtx), 1,
                                IF Len(Copied(mtx)) > n THEN n ELSE Len(Copied(mtx))),
                 !.lapped = hist.pushed > loc.from + Cap]
    /\ UNCHANGED <<last, coll, mesh>>

(* The condition for running the display-list interpreter. *)
WorthDecoding ==
    /\ Len(loc.words) > MinWords
    /\ IF loc.slice THEN loc.gen # last.gen ELSE loc.total # last.dlTotal

(* The interpreter draws something or nothing; the counters that were read  *)
(* become the last ones decoded.  That is put at the start of what follows: *)
(* no other thread reads them.                                              *)
Decode ==
    /\ \/ DecodeStep("decode", "finish") /\ loc' = NoLocals
       \/ WorthDecoding /\ DecodeStep("decode", "append") /\ UNCHANGED loc
    /\ last' = [total |-> loc.total, gen |-> loc.gen,
                dlTotal |-> IF WorthDecoding /\ ~loc.slice THEN loc.total ELSE last.dlTotal]
    /\ UNCHANGED <<coll, mesh>>

(* What was drawn replaces the collector, without a lock. *)
Collect ==
    /\ DecodeStep("append", "rebuild")
    /\ coll' = [words |-> loc.words, of |-> loc.of]
    /\ UNCHANGED <<loc, last, mesh>>

(* rebuild_gl_buffers: an empty collector drops the drawn mesh; another is  *)
(* turned into new buffers, without a lock, which then replace the drawn    *)
(* ones under g_pub_mtx.                                                    *)
Rebuild ==
    /\ \/ /\ coll.words = <<>>
          /\ DecodeStep("rebuild", "finish")
          /\ mesh' = [mesh EXCEPT !.words = <<>>]
          /\ loc' = NoLocals
       \/ /\ coll.words # <<>>
          /\ DecodeStep("rebuild", "swap")
          /\ loc' = [loc EXCEPT !.words = coll.words]
          /\ UNCHANGED mesh
    /\ UNCHANGED <<last, coll>>

(* There is no memory for the new buffers: what is drawn stays. *)
RebuildFails ==
    /\ dpc = "rebuild" /\ coll.words # <<>>
    /\ losses < MaxLosses
    /\ dpc' = "finish"
    /\ loc' = NoLocals
    /\ losses' = losses + 1
    /\ UNCHANGED <<fifoVars, workerVars, owed, phase, last, coll, mesh>>

Publish ==
    /\ DecodeStep("swap", "finish")
    /\ mesh' = [words |-> loc.words, of |-> loc.of]
    /\ loc' = NoLocals
    /\ UNCHANGED <<last, coll>>

FinishDecode ==
    /\ dpc = "finish"
    /\ WorkerFinish
    /\ dpc' = IF wpc' = "decoding" THEN "total" ELSE "idle"
    /\ UNCHANGED <<fifoVars, owed, phase, loc, last, coll, mesh, losses>>

-----------------------------------------------------------------------------
GameNext == Start \/ MmioWrite \/ TextureSync \/ VsyncFrameDone \/ ViewerFlip \/ ClearDraw
SummaryNext == SummaryLatch \/ SummaryBest \/ SummaryDecode \/ SummaryWake
CallNext == Notify \/ ClearCollector \/ SummaryNext \/ StopWorker \/ JoinWorker
DecodeNext == WorkerRuns \/ ReadTotal \/ ReadGen \/ ReadRange \/ CopyWords
              \/ CopyMatrices \/ Decode \/ Collect \/ Rebuild \/ RebuildFails \/ Publish
              \/ FinishDecode

Next == GameNext \/ SummaryCheck \/ CallNext \/ DecodeNext \/ Ended

(* The worker thread runs, and the main thread finishes the call it is in.  *)
Spec == Init /\ [][Next]_vars /\ WF_vars(DecodeNext) /\ WF_vars(CallNext)

-----------------------------------------------------------------------------
PipeTypeOK ==
    /\ FifoTypeOK /\ WorkerTypeOK
    /\ owed \in BOOLEAN
    /\ phase \in {"game", "clear", "latch", "best", "decode", "decoding", "summarised"}
    /\ dpc \in {"idle", "total", "gen", "range", "words", "mtx", "decode", "append",
                "rebuild", "swap", "finish"}
    /\ (dpc # "idle") <=> (wpc = "decoding")
    /\ last \in [total : Nat, gen : Nat, dlTotal : Nat]
    /\ Len(loc.words) <= Cap /\ (dpc = "decode" => Len(loc.mtx) <= Len(loc.words))

(* What the interpreter gets is one whole latched frame, in order, and each *)
(* word with the matrix that was current when it was written, although the  *)
(* range, the words and the matrices are read in three critical sections    *)
(* between which the game writes on and latches; unless the game has lapped *)
(* the ring since the frame began.                                          *)
DecodeInputIsOneFrame ==
    dpc = "decode" /\ ~loc.lapped =>
        /\ loc.words = [i \in 1 .. Len(loc.words) |-> loc.from + i - 1]
        /\ loc.mtx = loc.words
        /\ loc.slice => Len(loc.words) = loc.end - loc.start

(* The words come from both sides of some texture upload. *)
Mixes(words) ==
    \E c \in hist.cuts : \E i, j \in 1 .. Len(words) : words[i] < c /\ words[j] >= c

(* The mesh of a latched frame never mixes words from before and after a    *)
(* texture upload, however it was cleared and rebuilt.  Until the first     *)
(* latch the worker decodes the whole ring, uploads or not, and a mesh made *)
(* of that may mix them: only a decode that had read that no frame was      *)
(* latched makes one, and no frame is marked as drawn by it.                *)
MeshSpansNoUpload ==
    /\ Mixes(mesh.words) => mesh.of = 0
    /\ Mixes(loc.words) => loc.of = 0 /\ loc.gen = 0

(* The types of both parts and of the decoder's locals, and what is drawn.  *)
PipeInv == PipeTypeOK /\ MeshSpansNoUpload

(* When the worker is not decoding, and neither a kick nor a notification is*)
(* on its way to it, the last decode had seen every word and every frame:   *)
(* nothing stays in the FIFO undecoded until the next write, although the   *)
(* counters are read in critical sections of their own and the game tells   *)
(* the worker of a write only after it has released the FIFO's mutex.       *)
NothingLeftBehind ==
    wpc # "decoding" /\ ~kick /\ ~owed => last.total = total /\ last.gen = display.gen

(* The pair implements the mailbox: see FrameMailbox. *)
Mailbox == INSTANCE FrameMailbox
             WITH posted <- display.gen, taken <- last.gen, shown <- mesh.of,
                  visible <- (mesh.words # <<>>), closed <- stop
MailboxSpec == Mailbox!Spec

(* Once the summary has begun the process ends: the summary's own decode    *)
(* returns, and the worker is stopped and joined, whatever it was doing.    *)
SummaryEnds == phase \notin {"game", "clear"} ~> mpc = "down"

(* model2_geo.h says of model2_geo_decode: "Sync: drain FIFO into the       *)
(* published mesh (waits for worker catch-up)".  When it has returned, the  *)
(* worker has dealt with the frame that was latched before the call.        *)
DecodeIsCaughtUp == phase = "summarised" /\ mpc = "run" /\ mesh.words = <<>> => last.gen = display.gen
=============================================================================
