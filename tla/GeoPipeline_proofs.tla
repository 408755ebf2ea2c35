-------------------------- MODULE GeoPipeline_proofs --------------------------
(***************************************************************************)
(* The frame pipeline, first its two parts, each by itself, and then their *)
(* composition.                                                            *)
(*                                                                         *)
(* The decode worker's handshake, for every width of its request counter.  *)
(* One condition variable serves both threads and every request signals    *)
(* only one sleeper, so that all of it hangs on who can be asleep when:    *)
(* WorkerInv says that, and is inductive.                                  *)
(*                                                                         *)
(* The frame boundaries of the GEO PRG FIFO, for every capacity and every  *)
(* width of the word counter.  The published ranges are kept as 32-bit     *)
(* positions while the properties speak of the words themselves; what ties *)
(* the two together is Bookkeeping: a frame's range is never longer than   *)
(* the words pushed since its mark, and ends before the mark in force.     *)
(*                                                                         *)
(* The composition, for every size of ring, counter and bound.  Its worker *)
(* takes the steps of GeoWorker, so that what was proved of the handshake  *)
(* holds here.  Order says how old the frames are that the decoder's       *)
(* locals, its last result and the drawn mesh stand for; it is inductive   *)
(* and gives the mailbox's safety.  DataInv says what words they hold, as  *)
(* long as the word counter does not wrap.                                 *)
(***************************************************************************)
EXTENDS GeoPipeline, SequenceTheorems, TLAPS

-----------------------------------------------------------------------------
(* The decode worker. *)

(* The worker sleeps only with nothing to do. *)
WorkerAsleep == "worker" \in sleepers => wpc = "asleep" /\ ~kick /\ ~stop

(* The main thread sleeps only in a wait, so that a signal it sends itself  *)
(* cannot be its own and reaches the worker.                                *)
MainAsleep == "main" \in sleepers => mpc = "wait" /\ doneGen < want

(* A waiting caller asked last: its request is the newest there is. *)
WaitsForNewest == mpc = "wait" => want = gen

(* stop belongs to the shutdown. *)
StopOnlyInShutdown == stop => mpc \in {"join", "down"}

(* There is a worker unless the renderer is down. *)
WorkerExists == wpc = "none" <=> mpc = "down"

WorkerInv ==
    /\ WorkerTypeOK
    /\ WorkerAsleep
    /\ MainAsleep
    /\ WaitsForNewest
    /\ StopOnlyInShutdown
    /\ WorkerExists
    /\ RequestIsHeld

-----------------------------------------------------------------------------
(* The request counter stays within its width. *)
LEMMA NextGenType ==
    ASSUME WorkerTypeOK
    PROVE  NextGen \in 0 .. GenMod - 1
  BY GenAssumption DEF WorkerTypeOK, NextGen

(* A signal sent while the main thread is awake leaves nobody asleep. *)
LEMMA SignalReachesWorker ==
    ASSUME WorkerTypeOK, "main" \notin sleepers, NEW left, Signalled(left)
    PROVE  left = {}
  BY DEF WorkerTypeOK, Signalled, Threads

LEMMA WorkerInitInv == WorkerInit => WorkerInv
  <1>1. 0 \in 0 .. GenMod - 1
    BY GenAssumption
  <1>2. WorkerInit => WorkerTypeOK
    BY <1>1 DEF WorkerInit, WorkerTypeOK
  <1>3. QED
    BY <1>2 DEF WorkerInit, WorkerInv, WorkerAsleep, MainAsleep,
         WaitsForNewest, StopOnlyInShutdown, WorkerExists, RequestIsHeld

(* The worker's loop, entered by the thread that runs it with or without    *)
(* the others asleep, keeps the invariant: what it needs to know is that an *)
(* unanswered caller has its kick raised.                                   *)
LEMMA WorkerLoopInv ==
    ASSUME WorkerInv, wpc \in {"created", "asleep", "decoding"}, "worker" \notin sleepers,
           UNCHANGED <<stop, gen, mpc, want>>, doneGen' \in {doneGen, gen},
           NEW others \in SUBSET sleepers, WorkerLoop(others),
           "main" \in others => doneGen' = doneGen,
           mpc = "wait" /\ doneGen' < want => kick
    PROVE  WorkerInv'
  <1> USE DEF WorkerInv
  <1>1. WorkerTypeOK'
    BY DEF WorkerTypeOK, WorkerLoop, Threads
  <1>2. WorkerAsleep'
    BY DEF WorkerAsleep, WorkerLoop, WorkerTypeOK
  <1>3. MainAsleep'
    BY DEF MainAsleep, WorkerLoop, WorkerTypeOK
  <1>4. WaitsForNewest' /\ StopOnlyInShutdown'
    BY DEF WaitsForNewest, StopOnlyInShutdown
  <1>5. WorkerExists'
    BY DEF WorkerExists, WorkerLoop
  <1>6. RequestIsHeld'
    BY DEF RequestIsHeld, Unanswered, WorkerLoop
  <1>7. QED
    BY <1>1, <1>2, <1>3, <1>4, <1>5, <1>6

LEMMA WorkerStepInv ==
    ASSUME WorkerInv, WorkerStep
    PROVE  WorkerInv'
  <1>1. CASE WorkerEnter
    <2>1. "worker" \notin sleepers
      BY <1>1 DEF WorkerInv, WorkerAsleep, WorkerEnter
    <2>2. mpc = "wait" /\ doneGen' < want => kick
      BY <1>1 DEF WorkerInv, WorkerEnter, RequestIsHeld, StopOnlyInShutdown, Unanswered
    <2>3. QED
      BY <1>1, <2>1, <2>2, WorkerLoopInv DEF WorkerEnter
  <1>2. CASE WorkerWake
    <2>1. mpc = "wait" /\ doneGen' < want => kick
      BY <1>2 DEF WorkerInv, WorkerWake, RequestIsHeld, StopOnlyInShutdown, Unanswered
    <2>2. QED
      BY <1>2, <2>1, WorkerLoopInv DEF WorkerWake
  <1>3. CASE WorkerFinish
    <2>1. "worker" \notin sleepers
      BY <1>3 DEF WorkerInv, WorkerAsleep, WorkerFinish
    <2>2. mpc = "wait" => ~(doneGen' < want)
      BY <1>3 DEF WorkerInv, WorkerTypeOK, WorkerFinish, WaitsForNewest
    <2>3. QED
      BY <1>3, <2>1, <2>2, WorkerLoopInv DEF WorkerFinish
  <1>4. QED
    BY <1>1, <1>2, <1>3 DEF WorkerStep

LEMMA MainStepInv ==
    ASSUME WorkerInv, MainStep
    PROVE  WorkerInv'
  <1> USE DEF WorkerInv
  <1>1. CASE InitWorker
    <2>1. 0 \in 0 .. GenMod - 1
      BY GenAssumption
    <2>2. WorkerTypeOK'
      BY <1>1, <2>1 DEF InitWorker, WorkerTypeOK
    <2>3. sleepers' = {}
      BY <1>1 DEF InitWorker, WorkerTypeOK, WorkerAsleep, MainAsleep, WorkerExists, Threads
    <2>4. QED
      BY <1>1, <2>2, <2>3 DEF InitWorker, WorkerAsleep, MainAsleep,
           WaitsForNewest, StopOnlyInShutdown, WorkerExists, RequestIsHeld
  <1>2. CASE Kick
    <2>1. "main" \notin sleepers /\ sleepers' = {}
      BY <1>2, SignalReachesWorker DEF Kick, MainAsleep
    <2>2. WorkerTypeOK'
      BY <1>2, <2>1, NextGenType DEF Kick, WorkerTypeOK
    <2>3. QED
      BY <1>2, <2>1, <2>2 DEF Kick, WorkerAsleep, MainAsleep,
           WaitsForNewest, StopOnlyInShutdown, WorkerExists, RequestIsHeld
  <1>3. CASE DecodeCall
    <2>1. PICK left \in SUBSET Threads :
            /\ Signalled(left)
            /\ \/ doneGen < NextGen /\ sleepers' = left \union {"main"} /\ mpc' = "wait"
               \/ doneGen >= NextGen /\ sleepers' = left /\ UNCHANGED mpc
      BY <1>3 DEF DecodeCall
    <2>2. left = {}
      BY <1>3, <2>1, SignalReachesWorker DEF DecodeCall, MainAsleep
    <2>3. WorkerTypeOK'
      BY <1>3, <2>1, <2>2, NextGenType DEF DecodeCall, WorkerTypeOK, Threads
    <2>4. WorkerAsleep' /\ MainAsleep'
      BY <1>3, <2>1, <2>2 DEF DecodeCall, WorkerAsleep, MainAsleep
    <2>5. WaitsForNewest' /\ StopOnlyInShutdown' /\ WorkerExists' /\ RequestIsHeld'
      BY <1>3, <2>1 DEF DecodeCall, WaitsForNewest, StopOnlyInShutdown, WorkerExists,
           RequestIsHeld
    <2>6. QED
      BY <2>3, <2>4, <2>5
  <1>4. CASE DecodeWake
    BY <1>4 DEF DecodeWake, WorkerTypeOK, Threads, WorkerAsleep, MainAsleep, Unanswered,
         WaitsForNewest, StopOnlyInShutdown, WorkerExists, RequestIsHeld
  <1>5. CASE Shutdown
    <2>1. sleepers' = {}
      BY <1>5, SignalReachesWorker DEF Shutdown, MainAsleep
    <2>2. QED
      BY <1>5, <2>1 DEF Shutdown, WorkerTypeOK, WorkerAsleep, MainAsleep,
           WaitsForNewest, StopOnlyInShutdown, WorkerExists, RequestIsHeld
  <1>6. CASE Join
    BY <1>6 DEF Join, WorkerTypeOK, WorkerAsleep, MainAsleep,
         WaitsForNewest, StopOnlyInShutdown, WorkerExists, RequestIsHeld
  <1>7. QED
    BY <1>1, <1>2, <1>3, <1>4, <1>5, <1>6 DEF MainStep

LEMMA WorkerNextInv == WorkerInv /\ [WorkerNext]_workerVars => WorkerInv'
  <1> SUFFICES ASSUME WorkerInv, [WorkerNext]_workerVars PROVE WorkerInv'
    OBVIOUS
  <1>1. CASE SpuriousWake
    BY <1>1 DEF SpuriousWake, WorkerInv, WorkerTypeOK, WorkerAsleep, MainAsleep, Unanswered,
         WaitsForNewest, StopOnlyInShutdown, WorkerExists, RequestIsHeld
  <1>2. CASE UNCHANGED workerVars
    BY <1>2 DEF workerVars, WorkerInv, WorkerTypeOK, WorkerAsleep, MainAsleep, Unanswered,
         WaitsForNewest, StopOnlyInShutdown, WorkerExists, RequestIsHeld
  <1>3. QED
    BY <1>1, <1>2, WorkerStepInv, MainStepInv DEF WorkerNext

(* Every state the two threads can reach satisfies the invariant. *)
THEOREM Invariance == WorkerSafety => []WorkerInv
  BY WorkerInitInv, WorkerNextInv, PTL DEF WorkerSafety

-----------------------------------------------------------------------------
(* The variables have their types; the request counter keeps its width.     *)
THEOREM TypeCorrect == WorkerSafety => []WorkerTypeOK
  BY Invariance, PTL DEF WorkerInv

(* No wake-up is lost: neither thread ever sleeps through what it waits for.*)
THEOREM NoWakeupIsLost == WorkerSafety => []NoLostWakeup
  <1>1. WorkerInv => NoLostWakeup
    BY DEF WorkerInv, NoLostWakeup, WorkerAsleep, MainAsleep, StopOnlyInShutdown, Unanswered
  <1>2. QED
    BY <1>1, Invariance, PTL

(* An unanswered decode_fifos call has its request held or being decoded:   *)
(* the threads never wait for each other.                                   *)
THEOREM RequestsAreHeld == WorkerSafety => []RequestIsHeld
  BY Invariance, PTL DEF WorkerInv

(* Once model2_geo_render_shutdown has returned no thread is left that could*)
(* touch the buffers it freed.                                              *)
THEOREM NobodyAfterShutdown == WorkerSafety => []DownMeansJoined
  <1>1. WorkerInv => DownMeansJoined
    BY DEF WorkerInv, DownMeansJoined, WorkerExists, WorkerAsleep, MainAsleep, WorkerTypeOK,
         Threads
  <1>2. QED
    BY <1>1, Invariance, PTL
-----------------------------------------------------------------------------
(* The GEO PRG FIFO. *)

(* The frame in progress, as its counter and its mark measure it, has no    *)
(* more words than were pushed since the mark (fewer when they wrapped).    *)
ProgressBounded ==
    /\ hist.mark <= hist.pushed
    /\ mark <= total => total - mark <= hist.pushed - hist.mark

RangesOrdered == display.start <= display.end /\ best.start <= best.end

(* Retention was last re-enabled at or before the mark. *)
CutsBeforeMark == \A c \in hist.cuts : c <= hist.mark

Bookkeeping ==
    /\ FifoTypeOK
    /\ ProgressBounded
    /\ RangesOrdered
    /\ CutsBeforeMark
    /\ FramesAreDisjoint
    /\ NoFrameSpansUpload

-----------------------------------------------------------------------------
LEMMA ConstantTypes ==
    /\ Cap \in Nat /\ Cap > 0
    /\ TotalMod \in Nat /\ TotalMod > 0
    /\ MaxWords \in Nat /\ MaxGen \in Nat /\ MaxFrame \in Nat
  BY FifoAssumption

(* The slot a counter addresses is one of the ring's. *)
LEMMA SlotType ==
    ASSUME NEW n \in Nat
    PROVE  n % Cap \in 0 .. Cap - 1
  BY ConstantTypes

-----------------------------------------------------------------------------
LEMMA InitBookkeeping == FifoInit => Bookkeeping
  <1> SUFFICES ASSUME FifoInit PROVE Bookkeeping
    OBVIOUS
  <1> USE DEF FifoInit
  <1>1. 0 \in PositionType
    BY ConstantTypes DEF PositionType
  <1>2. FifoTypeOK
    <2>1. Empty \in Nat
      BY ConstantTypes DEF Empty
    <2>2. QED
      BY <1>1, <2>1 DEF FifoTypeOK
  <1>3. QED
    BY <1>2 DEF Bookkeeping, ProgressBounded, RangesOrdered, CutsBeforeMark,
         FramesAreDisjoint, NoFrameSpansUpload, DispTo, BestTo

(* Pushing a word moves only the counter, by one or back to zero. *)
LEMMA PushWordBookkeeping ==
    ASSUME Bookkeeping, PushWord
    PROVE  Bookkeeping'
  <1> USE DEF Bookkeeping
  <1>1. CASE meshEnable
    <2>1. /\ prg' = [prg EXCEPT ![total % Cap] = hist.pushed]
          /\ mtx' = [mtx EXCEPT ![total % Cap] = hist.pushed]
          /\ total' = IF total + 1 = TotalMod THEN 0 ELSE total + 1
          /\ hist' = [hist EXCEPT !.pushed = @ + 1]
          /\ UNCHANGED <<mark, display, best, meshEnable>>
      BY <1>1 DEF PushWord
    <2>2. FifoTypeOK'
      <3>1. prg' \in [0 .. Cap - 1 -> Nat] /\ mtx' \in [0 .. Cap - 1 -> Nat]
        BY <2>1 DEF FifoTypeOK
      <3>2. total' \in PositionType
        <4>1. total \in 0 .. TotalMod - 1
          BY DEF FifoTypeOK, PositionType
        <4>2. total' = IF total + 1 = TotalMod THEN 0 ELSE total + 1
          BY <2>1
        <4>3. QED
          BY <4>1, <4>2, ConstantTypes DEF PositionType
      <3>3. hist' \in [pushed : Nat, mark : Nat, disp : Nat, best : Nat, cuts : SUBSET Nat]
        BY <2>1 DEF FifoTypeOK
      <3>4. QED
        BY <2>1, <3>1, <3>2, <3>3 DEF FifoTypeOK
    <2>3. /\ hist'.pushed = hist.pushed + 1
          /\ hist'.mark = hist.mark /\ hist'.disp = hist.disp
          /\ hist'.best = hist.best /\ hist'.cuts = hist.cuts
      BY <2>1 DEF FifoTypeOK
    <2>4. ProgressBounded'
      <3>1. total' \in {0, total + 1} /\ mark' = mark
        BY <2>1
      <3>2. /\ total \in Nat /\ mark \in Nat
            /\ hist.pushed \in Nat /\ hist.mark \in Nat
        BY DEF FifoTypeOK, PositionType
      <3>3. QED
        BY <2>3, <3>1, <3>2 DEF ProgressBounded
    <2>5. RangesOrdered' /\ CutsBeforeMark' /\ FramesAreDisjoint' /\ NoFrameSpansUpload'
      BY <2>1, <2>3 DEF RangesOrdered, CutsBeforeMark, FramesAreDisjoint,
           NoFrameSpansUpload, DispTo, BestTo
    <2>6. QED
      BY <2>2, <2>4, <2>5
  <1>2. CASE ~meshEnable
    BY <1>2 DEF PushWord, FifoTypeOK, ProgressBounded, RangesOrdered, CutsBeforeMark,
         FramesAreDisjoint, NoFrameSpansUpload, DispTo, BestTo
  <1>3. QED
    BY <1>1, <1>2 DEF FifoTypeOK

(* A cut made at an upload lies at the last word pushed: past every frame. *)
LEMMA MeshEnableBookkeeping ==
    ASSUME Bookkeeping, NEW on \in BOOLEAN, MeshEnable(on)
    PROVE  Bookkeeping'
  <1> USE DEF Bookkeeping
  <1>1. CASE on
    <2>1. /\ mark' = total
          /\ hist' = [hist EXCEPT !.mark = hist.pushed, !.cuts = @ \union {hist.pushed}]
          /\ meshEnable' = on
          /\ UNCHANGED <<prg, mtx, total, display, best>>
      BY <1>1 DEF MeshEnable
    <2>2. /\ hist'.pushed = hist.pushed /\ hist'.mark = hist.pushed
          /\ hist'.disp = hist.disp /\ hist'.best = hist.best
          /\ hist'.cuts = hist.cuts \union {hist.pushed}
      BY <2>1 DEF FifoTypeOK
    <2>3. FifoTypeOK'
      BY <2>1 DEF FifoTypeOK
    <2>4. ProgressBounded' /\ RangesOrdered'
      BY <2>1, <2>2 DEF ProgressBounded, RangesOrdered, FifoTypeOK, PositionType
    <2>5. CutsBeforeMark'
      BY <2>2 DEF CutsBeforeMark, ProgressBounded, FifoTypeOK
    <2>6. DispTo' = DispTo /\ BestTo' = BestTo /\ DispTo <= hist.pushed /\ BestTo <= hist.pushed
      BY <2>1, <2>2 DEF DispTo, BestTo, FramesAreDisjoint, ProgressBounded, FifoTypeOK, PositionType
    <2>7. FramesAreDisjoint'
      BY <2>2, <2>6 DEF FramesAreDisjoint
    <2>8. NoFrameSpansUpload'
      BY <2>2, <2>6 DEF NoFrameSpansUpload, DispTo, BestTo, FifoTypeOK, PositionType
    <2>9. QED
      BY <2>3, <2>4, <2>5, <2>7, <2>8
  <1>2. CASE ~on
    BY <1>2 DEF MeshEnable, FifoTypeOK, ProgressBounded, RangesOrdered, CutsBeforeMark,
         FramesAreDisjoint, NoFrameSpansUpload, DispTo, BestTo
  <1>3. QED
    BY <1>1, <1>2

-----------------------------------------------------------------------------
(* A published frame begins at the mark, so past every cut, and ends no     *)
(* later than the last word pushed, which is the new mark.                  *)
LEMMA LatchBookkeeping ==
    ASSUME Bookkeeping, LatchPrgFrame
    PROVE  Bookkeeping'
  <1> USE DEF Bookkeeping
  <1> DEFINE words == total - mark
             frame == [start |-> mark, end |-> total, gen |-> display.gen + 1]
             densest == IF words > best.words
                        THEN [start |-> mark, end |-> total, words |-> words] ELSE best
  <1>1. CASE FrameHasWords
    <2>1. /\ mark' = total /\ display' = frame /\ best' = densest
          /\ hist' = [hist EXCEPT !.mark = hist.pushed, !.disp = hist.mark,
                                  !.best = IF words > best.words THEN hist.mark ELSE @]
          /\ UNCHANGED <<prg, mtx, total, meshEnable>>
      BY <1>1 DEF LatchPrgFrame
    <2>2. /\ hist'.pushed = hist.pushed /\ hist'.mark = hist.pushed
          /\ hist'.disp = hist.mark /\ hist'.cuts = hist.cuts
          /\ hist'.best = IF words > best.words THEN hist.mark ELSE hist.best
      BY <2>1 DEF FifoTypeOK
    <2>3. words \in Nat /\ mark < total /\ hist.mark + words <= hist.pushed
      BY <1>1 DEF FrameHasWords, ProgressBounded, FifoTypeOK, PositionType
    <2>4. FifoTypeOK'
      <3>1. display' \in [start : PositionType, end : PositionType, gen : Nat]
        BY <2>1 DEF FifoTypeOK
      <3>2. best' \in [start : PositionType, end : PositionType, words : Nat]
        BY <2>1, <2>3 DEF FifoTypeOK
      <3>3. hist' \in [pushed : Nat, mark : Nat, disp : Nat, best : Nat, cuts : SUBSET Nat]
        BY <2>1 DEF FifoTypeOK
      <3>4. QED
        BY <2>1, <3>1, <3>2, <3>3 DEF FifoTypeOK
    <2>5. ProgressBounded' /\ CutsBeforeMark'
      BY <2>1, <2>2 DEF ProgressBounded, CutsBeforeMark, FifoTypeOK, PositionType
    <2>6. RangesOrdered'
      BY <2>1, <2>3 DEF RangesOrdered, FifoTypeOK, PositionType
    <2>7. DispTo' = hist.mark + words
      BY <2>1, <2>2 DEF DispTo
    <2>8. BestTo' = IF words > best.words THEN hist.mark + words ELSE BestTo
      BY <2>1, <2>2 DEF BestTo
    <2>9. BestTo <= hist.pushed /\ BestTo \in Nat
      BY DEF FramesAreDisjoint, ProgressBounded, BestTo, RangesOrdered, FifoTypeOK, PositionType
    <2>10. FramesAreDisjoint'
      BY <2>2, <2>3, <2>7, <2>8, <2>9 DEF FramesAreDisjoint
    <2>11. NoFrameSpansUpload'
      BY <2>2, <2>7, <2>8 DEF NoFrameSpansUpload, CutsBeforeMark, FifoTypeOK
    <2>12. QED
      BY <2>4, <2>5, <2>6, <2>10, <2>11
  <1>2. CASE ~FrameHasWords
    <2>1. /\ mark' = total /\ hist' = [hist EXCEPT !.mark = hist.pushed]
          /\ UNCHANGED <<prg, mtx, total, display, best, meshEnable>>
      BY <1>2 DEF LatchPrgFrame
    <2>2. /\ hist'.pushed = hist.pushed /\ hist'.mark = hist.pushed
          /\ hist'.disp = hist.disp /\ hist'.best = hist.best /\ hist'.cuts = hist.cuts
      BY <2>1 DEF FifoTypeOK
    <2>3. FifoTypeOK'
      BY <2>1 DEF FifoTypeOK
    <2>4. ProgressBounded' /\ RangesOrdered' /\ CutsBeforeMark'
      BY <2>1, <2>2 DEF ProgressBounded, RangesOrdered, CutsBeforeMark, FifoTypeOK, PositionType
    <2>5. FramesAreDisjoint' /\ NoFrameSpansUpload'
      BY <2>1, <2>2 DEF FramesAreDisjoint, NoFrameSpansUpload, DispTo, BestTo,
           ProgressBounded, FifoTypeOK, PositionType
    <2>6. QED
      BY <2>3, <2>4, <2>5
  <1>3. QED
    BY <1>1, <1>2

LEMMA PublishBestBookkeeping ==
    ASSUME Bookkeeping, PublishBest
    PROVE  Bookkeeping'
  <1> USE DEF Bookkeeping
  <1>1. /\ display' = [start |-> best.start, end |-> best.end, gen |-> display.gen + 1]
        /\ hist' = [hist EXCEPT !.disp = hist.best]
        /\ UNCHANGED <<prg, mtx, total, mark, best, meshEnable>>
    BY DEF PublishBest
  <1>2. /\ hist'.pushed = hist.pushed /\ hist'.mark = hist.mark
        /\ hist'.disp = hist.best /\ hist'.best = hist.best /\ hist'.cuts = hist.cuts
    BY <1>1 DEF FifoTypeOK
  <1>3. FifoTypeOK'
    BY <1>1 DEF FifoTypeOK
  <1>4. DispTo' = BestTo /\ BestTo' = BestTo
    BY <1>1, <1>2 DEF DispTo, BestTo
  <1>5. ProgressBounded' /\ RangesOrdered' /\ CutsBeforeMark'
    BY <1>1, <1>2 DEF ProgressBounded, RangesOrdered, CutsBeforeMark
  <1>6. FramesAreDisjoint' /\ NoFrameSpansUpload'
    BY <1>2, <1>4 DEF FramesAreDisjoint, NoFrameSpansUpload
  <1>7. QED
    BY <1>3, <1>5, <1>6

LEMMA ResetCountsBookkeeping ==
    ASSUME Bookkeeping, ResetCounts
    PROVE  Bookkeeping'
  <1> USE DEF Bookkeeping
  <1>1. 0 \in PositionType
    BY ConstantTypes DEF PositionType
  <1>2. FifoTypeOK'
    BY <1>1 DEF ResetCounts, FifoTypeOK
  <1>3. QED
    BY <1>2 DEF ResetCounts, ProgressBounded, RangesOrdered, CutsBeforeMark,
         FramesAreDisjoint, NoFrameSpansUpload, DispTo, BestTo

LEMMA NextBookkeeping == Bookkeeping /\ [FifoNext]_fifoVars => Bookkeeping'
  <1> SUFFICES ASSUME Bookkeeping, [FifoNext]_fifoVars PROVE Bookkeeping'
    OBVIOUS
  <1>1. CASE UNCHANGED fifoVars
    BY <1>1 DEF fifoVars, Bookkeeping, FifoTypeOK, ProgressBounded, RangesOrdered,
         CutsBeforeMark, FramesAreDisjoint, NoFrameSpansUpload, DispTo, BestTo
  <1>2. QED
    BY <1>1, PushWordBookkeeping, MeshEnableBookkeeping, LatchBookkeeping,
       PublishBestBookkeeping, ResetCountsBookkeeping DEF FifoNext

(* Every reachable state of the FIFO satisfies Bookkeeping. *)
THEOREM FifoInvariance == FifoSpec => []Bookkeeping
  BY InitBookkeeping, NextBookkeeping, PTL DEF FifoSpec

-----------------------------------------------------------------------------
(* The counter, the marks and the ranges keep the width of the code's types.*)
THEOREM FifoTypeCorrect == FifoSpec => []FifoTypeOK
  BY FifoInvariance, PTL DEF Bookkeeping

(* No word of the ring is in two published frames: the frame in progress    *)
(* begins where every published one has ended.                              *)
THEOREM PublishedFramesDisjoint == FifoSpec => []FramesAreDisjoint
  BY FifoInvariance, PTL DEF Bookkeeping

(* No published frame holds words from before and after a texture upload.   *)
THEOREM UploadsSplitFrames == FifoSpec => []NoFrameSpansUpload
  BY FifoInvariance, PTL DEF Bookkeeping

-----------------------------------------------------------------------------
LEMMA WidthTypes ==
    /\ Cap \in Nat \ {0} /\ TotalMod \in Nat \ {0} /\ TotalMod % Cap = 0
    /\ MaxFrame \in Nat /\ MaxFrame < TotalMod
  BY FifoAssumption

(* Arithmetic of counters that wrap: a width w, and a width m that w divides.*)
LEMMA Division ==
    ASSUME NEW m \in Nat \ {0}, NEW a \in Nat
    PROVE  a = m * (a \div m) + (a % m) /\ a \div m \in Nat /\ a % m \in 0 .. m - 1
  BY Z3

LEMMA DivisionUnique ==
    ASSUME NEW m \in Nat \ {0}, NEW q \in Nat, NEW r \in 0 .. m - 1
    PROVE  (m * q + r) % m = r /\ (m * q + r) \div m = q
  BY Z3

LEMMA NextRemainder ==
    ASSUME NEW m \in Nat \ {0}, NEW a \in Nat
    PROVE  (a + 1) % m = IF (a % m) + 1 = m THEN 0 ELSE (a % m) + 1
  <1> DEFINE q == a \div m
             r == a % m
  <1>1. a = m * q + r /\ q \in Nat /\ r \in 0 .. m - 1
    BY Division
  <1> HIDE DEF q, r
  <1>2. CASE r + 1 = m
    <2>1. a + 1 = m * (q + 1) + 0
      BY <1>1, <1>2
    <2>2. (a + 1) % m = 0
      BY <2>1, <1>1, DivisionUnique
    <2>3. QED
      BY <2>2, <1>2 DEF r
  <1>3. CASE r + 1 # m
    <2>1. a + 1 = m * q + (r + 1) /\ r + 1 \in 0 .. m - 1
      BY <1>1, <1>3
    <2>2. (a + 1) % m = r + 1
      BY <2>1, <1>1, DivisionUnique
    <2>3. QED
      BY <2>2, <1>3 DEF r
  <1>4. QED
    BY <1>2, <1>3

(* Whole turns do not matter. *)
LEMMA WholeTurns ==
    ASSUME NEW w \in Nat \ {0}, NEW q \in Nat, NEW x \in Nat
    PROVE  (w * q + x) % w = x % w
  <1> DEFINE s == x \div w
             t == x % w
  <1>1. x = w * s + t /\ s \in Nat /\ t \in 0 .. w - 1
    BY Division
  <1> HIDE DEF s, t
  <1>2. w * q + x = w * (q + s) + t /\ q + s \in Nat
    BY <1>1
  <1>3. (w * q + x) % w = t
    BY <1>1, <1>2, DivisionUnique
  <1>4. QED
    BY <1>3 DEF t

(* A counter wrapped at m addresses the slots that the whole count would. *)
LEMMA RingSlot ==
    ASSUME NEW a \in Nat, NEW j \in Nat
    PROVE  ((a % TotalMod) + j) % Cap = (a + j) % Cap
  <1> DEFINE m == TotalMod
             w == Cap
             q == a \div m
             r == a % m
             k == m \div w
  <1>0. m \in Nat \ {0} /\ w \in Nat \ {0} /\ m % w = 0
    BY WidthTypes
  <1>1. a = m * q + r /\ q \in Nat /\ r \in 0 .. m - 1
    BY <1>0, Division
  <1>2. m = w * k /\ k \in Nat
    BY <1>0, Division
  <1> HIDE DEF m, w, q, r, k
  <1>3. a + j = w * (k * q) + (r + j) /\ k * q \in Nat /\ r + j \in Nat
    <2>1. m * q = w * (k * q) /\ k * q \in Nat
      BY <1>0, <1>1, <1>2
    <2>2. r + j \in Nat
      BY <1>0, <1>1
    <2>3. QED
      BY <1>0, <1>1, <2>1, <2>2
  <1>4. (a + j) % w = (r + j) % w
    <2> DEFINE h == k * q
               x == r + j
    <2>1. h \in Nat /\ x \in Nat
      BY <1>3
    <2> HIDE DEF h, x
    <2>2. (w * h + x) % w = x % w
      BY <1>0, <2>1, WholeTurns
    <2>3. QED
      BY <1>3, <2>2 DEF h, x
  <1>5. QED
    BY <1>4 DEF m, w, r

(* Counts less than a turn apart have wrapped at most once between them. *)
LEMMA Gap ==
    ASSUME NEW m \in Nat \ {0}, NEW a \in Nat, NEW b \in Nat, a <= b, b - a < m
    PROVE  /\ (a % m) <= (b % m) => (b % m) - (a % m) = b - a
           /\ (b % m) % m = b % m
           /\ a # b => (a % m) # (b % m)
           /\ a \div m = b \div m => (a % m) <= (b % m)
  <1> DEFINE qa == a \div m
             ra == a % m
             qb == b \div m
             rb == b % m
  <1>1. /\ a = m * qa + ra /\ qa \in Nat /\ ra \in 0 .. m - 1
        /\ b = m * qb + rb /\ qb \in Nat /\ rb \in 0 .. m - 1
    BY Division
  <1>2. rb % m = rb
    <2>1. rb = m * 0 + rb
      BY <1>1
    <2> HIDE DEF rb
    <2>2. QED
      BY <1>1, <2>1, DivisionUnique
  <1> HIDE DEF qa, ra, qb, rb
  <1>3. qb = qa \/ qb = qa + 1
    <2>1. m * qb <= m * qa + 2 * m - 1 - rb
      BY <1>1
    <2>2. ~(qb < qa)
      <3>1. SUFFICES ASSUME qb <= qa - 1 PROVE FALSE
        BY <1>1
      <3>2. m * qb <= m * (qa - 1)
        BY <1>1, <3>1, Z3
      <3>3. m * (qa - 1) = m * qa - m
        BY <1>1
      <3>4. QED
        BY <1>1, <3>2, <3>3
    <2>3. ~(qb > qa + 1)
      <3>1. SUFFICES ASSUME qb >= qa + 2 PROVE FALSE
        BY <1>1
      <3>2. m * qb >= m * (qa + 2)
        BY <1>1, <3>1, Z3
      <3>3. m * (qa + 2) = m * qa + 2 * m
        BY <1>1
      <3>4. QED
        BY <1>1, <2>1, <3>2, <3>3
    <2>4. QED
      BY <1>1, <2>2, <2>3
  <1>4. CASE qb = qa
    <2>1. rb - ra = b - a
      BY <1>1, <1>4
    <2>2. ra <= rb /\ (a # b => ra # rb)
      BY <1>1, <2>1
    <2>3. QED
      BY <1>2, <2>1, <2>2 DEF ra, rb
  <1>5. CASE qb = qa + 1
    <2>1. m * (qa + 1) = m * qa + m
      BY <1>1
    <2>2. rb - ra = (b - a) - m
      BY <1>1, <1>5, <2>1
    <2>3. rb < ra /\ qa # qb
      BY <1>1, <1>5, <2>2
    <2>4. ~(ra <= rb) /\ ra # rb
      BY <1>1, <2>3
    <2>5. QED
      BY <1>2, <2>3, <2>4 DEF qa, ra, qb, rb
  <1>6. QED
    BY <1>3, <1>4, <1>5

-----------------------------------------------------------------------------
(* Where the counts stand: each position is its serial number, wrapped.     *)
Wrapped ==
    /\ total = hist.pushed % TotalMod
    /\ mark = hist.mark % TotalMod
    /\ display.start = hist.disp % TotalMod
    /\ best.start = hist.best % TotalMod

(* The frame in progress is shorter than the counter is wide. *)
FrameFits == hist.pushed - hist.mark <= MaxFrame

(* The last Cap words pushed are in the ring, each in its slot. *)
Content ==
    \A n \in Nat : n < hist.pushed /\ n + Cap >= hist.pushed => prg[n % Cap] = n

Placement ==
    /\ Bookkeeping
    /\ Wrapped
    /\ FrameFits
    /\ Content

(* The same for the widths at hand. *)
LEMMA TotalGap ==
    ASSUME NEW a \in Nat, NEW b \in Nat, a <= b, b - a < TotalMod
    PROVE  /\ (a % TotalMod) <= (b % TotalMod) => (b % TotalMod) - (a % TotalMod) = b - a
           /\ a \div TotalMod = b \div TotalMod => (a % TotalMod) <= (b % TotalMod)
  <1>1. TotalMod \in Nat \ {0}
    BY WidthTypes
  <1>2. QED
    BY <1>1, Gap

LEMMA OtherSlot ==
    ASSUME NEW a \in Nat, NEW b \in Nat, a < b, b < a + Cap
    PROVE  a % Cap # b % Cap
  <1>1. Cap \in Nat \ {0} /\ a <= b /\ b - a < Cap /\ a # b
    BY WidthTypes
  <1>2. QED
    BY <1>1, Gap

LEMMA HistTypes ==
    ASSUME Placement
    PROVE  /\ hist.pushed \in Nat /\ hist.mark \in Nat /\ hist.disp \in Nat
           /\ hist.best \in Nat /\ hist.mark <= hist.pushed
           /\ total \in Nat /\ mark \in Nat
           /\ display.start \in Nat /\ display.end \in Nat
           /\ display.start <= display.end
  BY DEF Placement, Bookkeeping, FifoTypeOK, PositionType, ProgressBounded, RangesOrdered

LEMMA InitPlacement == FifoInit => Wrapped /\ FrameFits /\ Content
  <1>1. 0 % TotalMod = 0
    <2>1. TotalMod * 0 + 0 = 0 /\ 0 \in 0 .. TotalMod - 1
      BY WidthTypes
    <2>2. QED
      BY <2>1, WidthTypes, DivisionUnique
  <1>2. QED
    BY <1>1, WidthTypes DEF FifoInit, Wrapped, FrameFits, Content

(* A word goes to the slot of its serial number, which is nobody else's. *)
LEMMA PushWordPlacement ==
    ASSUME Placement, PushWord
    PROVE  Wrapped' /\ FrameFits' /\ Content'
  <1> USE HistTypes, WidthTypes
  <1>1. CASE meshEnable
    <2>1. /\ prg' = [prg EXCEPT ![total % Cap] = hist.pushed]
          /\ total' = IF total + 1 = TotalMod THEN 0 ELSE total + 1
          /\ hist' = [hist EXCEPT !.pushed = @ + 1]
          /\ UNCHANGED <<mark, display, best>>
          /\ hist.pushed - hist.mark < MaxFrame
      BY <1>1 DEF PushWord
    <2>2. /\ hist'.pushed = hist.pushed + 1
          /\ hist'.mark = hist.mark /\ hist'.disp = hist.disp /\ hist'.best = hist.best
      BY <2>1 DEF Placement, Bookkeeping, FifoTypeOK
    <2>3. Wrapped'
      <3>1. (hist.pushed + 1) % TotalMod =
              IF (hist.pushed % TotalMod) + 1 = TotalMod THEN 0 ELSE (hist.pushed % TotalMod) + 1
        BY NextRemainder
      <3>2. QED
        BY <2>1, <2>2, <3>1 DEF Placement, Wrapped
    <2>4. FrameFits'
      BY <2>1, <2>2 DEF FrameFits
    <2>5. total % Cap = hist.pushed % Cap
      <3>1. ((hist.pushed % TotalMod) + 0) % Cap = (hist.pushed + 0) % Cap
        BY RingSlot
      <3>2. total + 0 = total /\ hist.pushed + 0 = hist.pushed
        OBVIOUS
      <3>3. QED
        BY <3>1, <3>2 DEF Placement, Wrapped
    <2>6. ASSUME NEW n \in Nat, n < hist.pushed + 1, n + Cap >= hist.pushed + 1
          PROVE  prg'[n % Cap] = n
      <3>1. prg \in [0 .. Cap - 1 -> Nat] /\ total % Cap \in 0 .. Cap - 1 /\ n % Cap \in 0 .. Cap - 1
        BY SlotType DEF Placement, Bookkeeping, FifoTypeOK
      <3>2. CASE n = hist.pushed
        BY <2>1, <2>5, <3>1, <3>2
      <3>3. CASE n < hist.pushed
        <4>1. n % Cap # hist.pushed % Cap
          <5>1. n < hist.pushed /\ hist.pushed < n + Cap
            BY <2>6, <3>3
          <5> DEFINE b == hist.pushed
          <5>2. b \in Nat
            OBVIOUS
          <5> HIDE DEF b
          <5>3. n < b /\ b < n + Cap => n % Cap # b % Cap
            BY <5>2, OtherSlot
          <5>4. QED
            BY <5>1, <5>3 DEF b
        <4>2. prg[n % Cap] = n
          BY <2>6, <3>3 DEF Placement, Content
        <4>3. QED
          BY <2>1, <2>5, <3>1, <4>1, <4>2
      <3>4. QED
        BY <2>6, <3>2, <3>3
    <2>7. Content'
      BY <2>2, <2>6 DEF Content
    <2>8. QED
      BY <2>3, <2>4, <2>7
  <1>2. CASE ~meshEnable
    BY <1>2 DEF PushWord, Placement, Wrapped, FrameFits, Content
  <1>3. QED
    BY <1>1, <1>2

(* The other operations move no word and copy positions with their numbers. *)
LEMMA MovePlacement ==
    ASSUME Placement,
           \/ \E on \in BOOLEAN : MeshEnable(on)
           \/ LatchPrgFrame \/ PublishBest \/ UNCHANGED fifoVars
    PROVE  Wrapped' /\ FrameFits' /\ Content'
  <1> USE HistTypes, WidthTypes
  <1>1. /\ prg' = prg /\ total' = total /\ hist'.pushed = hist.pushed
        /\ \/ mark' = mark /\ hist'.mark = hist.mark
           \/ mark' = total /\ hist'.mark = hist.pushed
        /\ \/ display'.start = display.start /\ hist'.disp = hist.disp
           \/ display'.start = mark /\ hist'.disp = hist.mark
           \/ display'.start = best.start /\ hist'.disp = hist.best
        /\ \/ best'.start = best.start /\ hist'.best = hist.best
           \/ best'.start = mark /\ hist'.best = hist.mark
    <2> USE DEF Placement, Bookkeeping, FifoTypeOK
    <2>1. CASE \E on \in BOOLEAN : MeshEnable(on)
      BY <2>1 DEF MeshEnable
    <2>2. CASE LatchPrgFrame
      <3>1. CASE FrameHasWords
        <4>1. /\ mark' = total
              /\ display' = [start |-> mark, end |-> total, gen |-> display.gen + 1]
              /\ best' = IF total - mark > best.words
                         THEN [start |-> mark, end |-> total, words |-> total - mark]
                         ELSE best
              /\ hist' = [hist EXCEPT !.mark = hist.pushed, !.disp = hist.mark,
                            !.best = IF total - mark > best.words THEN hist.mark ELSE @]
              /\ UNCHANGED <<prg, total>>
          BY <2>2, <3>1 DEF LatchPrgFrame
        <4>2. CASE total - mark > best.words
          BY <4>1, <4>2
        <4>3. CASE ~(total - mark > best.words)
          BY <4>1, <4>3
        <4>4. QED
          BY <4>2, <4>3
      <3>2. CASE ~FrameHasWords
        BY <2>2, <3>2 DEF LatchPrgFrame
      <3>3. QED
        BY <3>1, <3>2
    <2>3. CASE PublishBest
      BY <2>3 DEF PublishBest
    <2>4. CASE UNCHANGED fifoVars
      BY <2>4 DEF fifoVars
    <2>5. QED
      BY <2>1, <2>2, <2>3, <2>4
  <1>2. Wrapped'
    BY <1>1 DEF Placement, Wrapped
  <1>3. FrameFits'
    BY <1>1 DEF Placement, FrameFits
  <1>4. Content'
    BY <1>1 DEF Placement, Content
  <1>5. QED
    BY <1>2, <1>3, <1>4

LEMMA ResetPlacement ==
    ASSUME ResetCounts
    PROVE  Wrapped' /\ FrameFits' /\ Content'
  <1>1. 0 % TotalMod = 0
    <2>1. TotalMod * 0 + 0 = 0 /\ 0 \in 0 .. TotalMod - 1
      BY WidthTypes
    <2>2. QED
      BY <2>1, WidthTypes, DivisionUnique
  <1>2. QED
    BY <1>1, WidthTypes DEF ResetCounts, Wrapped, FrameFits, Content

(* Positions, serial numbers and the ring's words agree in every state. *)
THEOREM PlacementInvariance == FifoSpec => []Placement
  <1>1. Placement /\ [FifoNext]_fifoVars => Wrapped' /\ FrameFits' /\ Content'
    BY PushWordPlacement, MovePlacement, ResetPlacement DEF FifoNext
  <1>2. QED
    BY <1>1, InitPlacement, FifoInvariance, PTL DEF FifoSpec, Placement

-----------------------------------------------------------------------------
(* What a copy of the displayed frame returns: from the serial number `base' *)
(* of its first retained word, the consecutive words up to the frame's end.  *)
LEMMA SliceWords ==
    ASSUME Placement, hist.pushed - hist.disp < TotalMod, total >= display.start
    PROVE  LET lo   == IF display.start < Oldest THEN Oldest ELSE display.start
               n    == IF display.end > lo THEN display.end - lo ELSE 0
               base == hist.disp + (lo - display.start)
           IN  /\ CopyRange(prg, display.start, display.end) = [i \in 1 .. n |-> base + i - 1]
               /\ display.end <= total
               /\ n \in Nat /\ base \in Nat
               /\ n > 0 => base + n = DispTo
               /\ n = 0 => base >= DispTo
               /\ base >= hist.disp
               /\ base + Cap >= hist.pushed
               /\ base > hist.disp => base + Cap = hist.pushed
  <1> DEFINE s == display.start
             e == display.end
             lo == IF s < Oldest THEN Oldest ELSE s
             n == IF e > lo THEN e - lo ELSE 0
             base == hist.disp + (lo - s)
  <1> USE HistTypes, WidthTypes
  <1>1. hist.disp <= hist.pushed /\ DispTo <= hist.pushed /\ DispTo = hist.disp + (e - s)
    BY DEF Placement, Bookkeeping, FramesAreDisjoint, DispTo
  <1>2. total - s = hist.pushed - hist.disp
    <2>1. s = hist.disp % TotalMod /\ total = hist.pushed % TotalMod
      BY DEF Placement, Wrapped
    <2>2. (hist.disp % TotalMod) <= (hist.pushed % TotalMod) =>
             (hist.pushed % TotalMod) - (hist.disp % TotalMod) = hist.pushed - hist.disp
      <3> DEFINE a == hist.disp
                 b == hist.pushed
      <3>1. a \in Nat /\ b \in Nat /\ a <= b /\ b - a < TotalMod
        BY <1>1
      <3> HIDE DEF a, b
      <3>2. (a % TotalMod) <= (b % TotalMod) => (b % TotalMod) - (a % TotalMod) = b - a
        BY <3>1, TotalGap
      <3>3. QED
        BY <3>2 DEF a, b
    <2>3. QED
      BY <2>1, <2>2
  <1>3. e <= total
    BY <1>1, <1>2
  <1>4. lo \in Nat /\ lo >= s /\ lo >= total - Cap /\ (lo > s => lo = total - Cap)
    BY DEF Oldest
  <1>5. n \in Nat /\ base \in Nat /\ base >= hist.disp
    BY <1>4
  <1>6. /\ n > 0 => base + n = DispTo
        /\ n = 0 => base >= DispTo
        /\ base + Cap >= hist.pushed
        /\ base > hist.disp => base + Cap = hist.pushed
    BY <1>1, <1>2, <1>4
  <1>7. ASSUME NEW i \in 1 .. n
        PROVE  prg[(lo + i - 1) % Cap] = base + i - 1
    <2> DEFINE j == lo - s + i - 1
    <2>1. j \in Nat /\ lo + i - 1 = s + j /\ base + i - 1 = hist.disp + j
      BY <1>4, <1>5
    <2>2. (s + j) % Cap = (hist.disp + j) % Cap
      <3>1. ((hist.disp % TotalMod) + j) % Cap = (hist.disp + j) % Cap
        <4> DEFINE a == hist.disp
        <4>1. a \in Nat /\ j \in Nat
          BY <2>1
        <4> HIDE DEF a, j
        <4>2. ((a % TotalMod) + j) % Cap = (a + j) % Cap
          BY <4>1, RingSlot
        <4>3. QED
          BY <4>2 DEF a
      <3>2. QED
        BY <3>1 DEF Placement, Wrapped
    <2>3. /\ base + i - 1 \in Nat
          /\ base + i - 1 < hist.pushed
          /\ (base + i - 1) + Cap >= hist.pushed
      BY <1>1, <1>5, <1>6
    <2>4. prg[(base + i - 1) % Cap] = base + i - 1
      BY <2>3 DEF Placement, Content
    <2>5. QED
      BY <2>1, <2>2, <2>4
  <1>8. CopyRange(prg, s, e) = [i \in 1 .. n |-> prg[(lo + i - 1) % Cap]]
    BY <1>3 DEF CopyRange
  <1>9. CopyRange(prg, s, e) = [i \in 1 .. n |-> base + i - 1]
    BY <1>7, <1>8
  <1>10. QED
    BY <1>3, <1>5, <1>6, <1>9

LEMMA PlacementSlices == Placement => DisplaySliceIsFrame
  <1> SUFFICES ASSUME Placement, hist.pushed - hist.disp < TotalMod
               PROVE  LET slice == CopyRange(prg, display.start, display.end)
                          kept  == {m \in hist.disp .. DispTo - 1 : m + Cap >= hist.pushed}
                      IN  /\ slice = LastWords(Len(slice), DispTo)
                          /\ Len(slice) <= DispTo - hist.disp
                          /\ total >= display.end => {slice[i] : i \in 1 .. Len(slice)} = kept
    BY DEF DisplaySliceIsFrame
  <1> DEFINE slice == CopyRange(prg, display.start, display.end)
             kept  == {m \in hist.disp .. DispTo - 1 : m + Cap >= hist.pushed}
             lo    == IF display.start < Oldest THEN Oldest ELSE display.start
             n     == IF display.end > lo THEN display.end - lo ELSE 0
             base  == hist.disp + (lo - display.start)
  <1>0. /\ hist.pushed \in Nat /\ hist.disp \in Nat /\ total \in Nat
        /\ display.start \in Nat /\ display.end \in Nat /\ display.start <= display.end
        /\ Cap \in Nat
    BY HistTypes, WidthTypes
  <1>1. DispTo \in Nat /\ DispTo >= hist.disp /\ DispTo - hist.disp = display.end - display.start
    BY <1>0 DEF DispTo
  <1>2. CASE total >= display.start
    <2>1. /\ slice = [i \in 1 .. n |-> base + i - 1]
          /\ n \in Nat /\ base \in Nat
          /\ n > 0 => base + n = DispTo
          /\ n = 0 => base >= DispTo
          /\ base >= hist.disp
          /\ base + Cap >= hist.pushed
          /\ base > hist.disp => base + Cap = hist.pushed
      BY <1>0, <1>2, SliceWords
    <2> HIDE DEF slice, n, base
    <2>2. Len(slice) = n
      BY <1>0, <2>1
    <2>3. slice = LastWords(Len(slice), DispTo)
      <3>1. \A i \in 1 .. n : base + i - 1 = DispTo - n + i - 1
        BY <1>0, <1>1, <2>1
      <3>2. [i \in 1 .. n |-> base + i - 1] = [i \in 1 .. n |-> DispTo - n + i - 1]
        BY <1>0, <3>1
      <3>3. QED
        BY <1>0, <2>1, <2>2, <3>2 DEF LastWords
    <2>4. n <= DispTo - hist.disp
      BY <1>0, <1>1, <2>1
    <2>5. {slice[i] : i \in 1 .. n} = kept
      <3>1. ASSUME NEW i \in 1 .. n PROVE slice[i] \in kept
        <4>1. slice[i] = base + i - 1 /\ base + n = DispTo
          BY <1>0, <2>1
        <4>2. /\ base + i - 1 \in hist.disp .. DispTo - 1
              /\ (base + i - 1) + Cap >= hist.pushed
          <5>1. base + i - 1 \in Nat /\ base + i - 1 >= base /\ base + i - 1 < DispTo
            BY <2>1, <4>1
          <5>2. QED
            BY <1>0, <1>1, <2>1, <5>1
        <4>3. QED
          BY <4>1, <4>2
      <3>2. ASSUME NEW m \in kept PROVE \E i \in 1 .. n : slice[i] = m
        <4>1. m \in Nat /\ m >= hist.disp /\ m < DispTo /\ m + Cap >= hist.pushed
          BY <1>0, <1>1
        <4>2. m >= base
          BY <1>0, <2>1, <4>1
        <4>3. n > 0 /\ m - base + 1 \in 1 .. n
          <5>1. n # 0
            BY <1>0, <1>1, <2>1, <4>1, <4>2
          <5>2. base + n = DispTo
            BY <1>0, <2>1, <5>1
          <5>3. QED
            BY <1>0, <2>1, <4>1, <4>2, <5>1, <5>2
        <4>4. slice[m - base + 1] = m
          BY <1>0, <2>1, <4>1, <4>3
        <4>5. QED
          BY <4>3, <4>4
      <3>3. QED
        BY <3>1, <3>2
    <2>6. QED
      BY <2>2, <2>3, <2>4, <2>5 DEF slice
  <1>3. CASE total < display.start
    <2>1. slice = [i \in 1 .. 0 |-> prg[(lo + i - 1) % Cap]]
      <3>1. /\ lo \in Nat /\ lo >= display.start
            /\ (IF display.end > total THEN total ELSE display.end) = total
        BY <1>0, <1>3 DEF Oldest
      <3>2. ~(total > lo)
        BY <1>0, <1>3, <3>1
      <3> HIDE DEF lo
      <3>3. QED
        BY <1>0, <3>1, <3>2 DEF CopyRange, lo
    <2>2. slice = <<>>
      BY <2>1
    <2>3. LastWords(0, DispTo) = <<>>
      BY DEF LastWords
    <2>4. Len(slice) = 0
      BY <2>2
    <2>5. ~(total >= display.end)
      BY <1>0, <1>3
    <2>6. QED
      BY <1>0, <1>1, <2>2, <2>3, <2>4, <2>5
  <1>4. QED
    BY <1>0, <1>2, <1>3

(* A copy of the displayed frame holds that frame's words and no others, for *)
(* every ring size and counter width (model2_hw_prg_copy_range).             *)
THEOREM DisplayedSliceIsFrame == FifoSpec => []DisplaySliceIsFrame
  BY PlacementSlices, PlacementInvariance, PTL

(* A latch loses only a frame within which the counter wrapped, and publishes*)
(* exactly the words since the mark otherwise (model2_hw_latch_prg_frame).   *)
THEOREM LatchKeepsFrames == FifoSpec => LatchLosesOnlyWrappedFrame
  <1>1. ASSUME Placement, LatchPrgFrame, hist.pushed > hist.mark,
               hist.pushed \div TotalMod = hist.mark \div TotalMod
        PROVE  hist.disp' = hist.mark /\ DispTo' = hist.pushed
                 /\ display'.gen = display.gen + 1
    <2> USE <1>1, HistTypes, WidthTypes
    <2>1. hist.pushed - hist.mark < TotalMod
      BY DEF Placement, FrameFits
    <2>2. /\ (hist.mark % TotalMod) <= (hist.pushed % TotalMod)
          /\ (hist.mark % TotalMod) <= (hist.pushed % TotalMod) =>
               (hist.pushed % TotalMod) - (hist.mark % TotalMod) = hist.pushed - hist.mark
      <3> DEFINE a == hist.mark
                 b == hist.pushed
      <3>1. /\ a \in Nat /\ b \in Nat /\ a <= b /\ b - a < TotalMod
            /\ a \div TotalMod = b \div TotalMod
        BY <2>1
      <3> HIDE DEF a, b
      <3>2. /\ (a % TotalMod) <= (b % TotalMod)
            /\ (a % TotalMod) <= (b % TotalMod) => (b % TotalMod) - (a % TotalMod) = b - a
        BY <3>1, TotalGap
      <3>3. QED
        BY <3>2 DEF a, b
    <2>3. total - mark = hist.pushed - hist.mark
      BY <2>2 DEF Placement, Wrapped
    <2>4. FrameHasWords
      BY <2>3 DEF FrameHasWords
    <2>5. /\ display' = [start |-> mark, end |-> total, gen |-> display.gen + 1]
          /\ hist'.disp = hist.mark
      BY <2>4 DEF LatchPrgFrame, Placement, Bookkeeping, FifoTypeOK
    <2>6. DispTo' = hist.mark + (total - mark)
      BY <2>5 DEF DispTo
    <2>7. QED
      BY <2>3, <2>5, <2>6
  <1>2. Placement /\ [FifoNext]_fifoVars =>
          [(LatchPrgFrame /\ hist.pushed > hist.mark) =>
              \/ hist.disp' = hist.mark /\ DispTo' = hist.pushed
                   /\ display'.gen = display.gen + 1
              \/ hist.pushed \div TotalMod # hist.mark \div TotalMod]_fifoVars
    BY <1>1
  <1>3. QED
    BY <1>2, PlacementInvariance, PTL DEF FifoSpec, LatchLosesOnlyWrappedFrame

-----------------------------------------------------------------------------
(* Both together. *)


(* Every step of the composition is one of the handshake, or none. *)
LEMMA HandshakeStep == [Next]_vars => [WorkerNext]_workerVars
  <1> SUFFICES ASSUME [Next]_vars PROVE [WorkerNext]_workerVars
    OBVIOUS
  <1>1. CASE GameNext
    BY <1>1 DEF GameNext, Start, MmioWrite, TextureSync, VsyncFrameDone, ViewerFlip, ClearDraw,
         WorkerNext, MainStep, workerVars
  <1>2. CASE SummaryCheck
    BY <1>2 DEF SummaryCheck, workerVars
  <1>3. CASE CallNext
    BY <1>3 DEF CallNext, SummaryNext, Notify, ClearCollector, SummaryLatch, SummaryBest,
         SummaryDecode, SummaryWake, StopWorker, JoinWorker, WorkerNext, MainStep, workerVars
  <1>4. CASE DecodeNext
    BY <1>4 DEF DecodeNext, WorkerRuns, ReadTotal, ReadGen, ReadRange, CopyWords, CopyMatrices,
         Decode, Collect, Rebuild, RebuildFails, Publish, FinishDecode, DecodeStep, WorkerNext, WorkerStep,
         workerVars
  <1>5. CASE Ended \/ UNCHANGED vars
    BY <1>5 DEF Ended, vars, workerVars
  <1>6. QED
    BY <1>1, <1>2, <1>3, <1>4, <1>5 DEF Next

(* The kicks, decode calls and shutdown of the composition keep to the      *)
(* handshake of geo_worker_main, so that every theorem of it carries over.  *)
THEOREM HandshakeIsKept == Spec => WorkerSafety
  <1>1. Init => WorkerInit
    BY DEF Init
  <1>2. QED
    BY <1>1, HandshakeStep, PTL DEF Spec, WorkerSafety

-----------------------------------------------------------------------------
(* What the frame numbers are, and the fields the decoder assigns to. *)
NumbersType ==
    /\ {display.gen, last.gen, mesh.of, loc.gen, loc.of} \subseteq Nat
    /\ DOMAIN loc = DOMAIN NoLocals
    /\ DOMAIN last = {"total", "gen", "dlTotal"}
    /\ DOMAIN mesh = {"words", "of"}

(* The worker decodes exactly while it is somewhere in decode_fifos_locked. *)
InDecode ==
    /\ (dpc # "idle") <=> (wpc = "decoding")
    /\ dpc \in {"idle", "total", "gen", "range", "words", "mtx", "decode", "append",
                "rebuild", "swap", "finish"}

(* The generation the decoder has read is no older than its last result. *)
GenInOrder ==
    /\ last.gen <= display.gen
    /\ dpc \in {"range", "words", "mtx", "decode"} =>
           last.gen <= loc.gen /\ loc.gen <= display.gen

(* What it decodes is no older than what is drawn. *)
FrameInOrder ==
    /\ mesh.of <= display.gen
    /\ dpc = "range" => mesh.of <= loc.gen
    /\ dpc \in {"idle", "total", "gen", "range", "finish"} => loc.of = 0
    /\ dpc \in {"words", "mtx", "decode", "append", "rebuild", "swap"} =>
           mesh.of <= loc.of /\ loc.of <= display.gen

(* Only words replace the drawn buffers. *)
SwapHasWords == dpc = "swap" => loc.words # <<>>

(* The worker is told to stop at the end only. *)
StopAtEnd == stop => phase = "summarised"

Order == /\ NumbersType
         /\ InDecode
         /\ GenInOrder
         /\ FrameInOrder
         /\ SwapHasWords
         /\ StopAtEnd

LEMMA InitOrder == Init => Order
  BY DEF Init, FifoInit, WorkerInit, NoMesh, NoLocals, Order, NumbersType, InDecode, GenInOrder,
       FrameInOrder, SwapHasWords, StopAtEnd

(* A publication, of a latched or of the densest frame, only adds to the    *)
(* number of frames.                                                        *)
LEMMA Publication ==
    ASSUME NumbersType, LatchPrgFrame \/ PublishBest
    PROVE  display'.gen \in {display.gen, display.gen + 1}
  BY DEF LatchPrgFrame, PublishBest

(* The steps of the main thread keep the order. *)
LEMMA MainOrder ==
    ASSUME Order, WorkerInv, GameNext \/ SummaryCheck \/ CallNext
    PROVE  Order'
  <1> USE DEF Order, NumbersType
  <1> DEFINE Rest == UNCHANGED <<dpc, loc, last>> /\ mesh'.of = mesh.of
                       /\ DOMAIN mesh' = DOMAIN mesh
  <1>1. ASSUME Rest, display'.gen \in {display.gen, display.gen + 1},
               wpc' = "decoding" <=> wpc = "decoding", StopAtEnd'
        PROVE  Order'
    <2>1. /\ display'.gen \in Nat /\ display.gen <= display'.gen
          /\ dpc' = dpc /\ loc' = loc /\ last' = last
      BY <1>1
    <2>2. NumbersType' /\ InDecode' /\ SwapHasWords'
      BY <1>1, <2>1 DEF InDecode, SwapHasWords
    <2>3. GenInOrder' /\ FrameInOrder'
      BY <1>1, <2>1 DEF GenInOrder, FrameInOrder
    <2>4. QED
      BY <1>1, <2>2, <2>3
  <1>2. CASE Start
    BY <1>1, <1>2 DEF Start, InitWorker, fifoVars, pipeVars, WorkerInv, WorkerExists, StopAtEnd
  <1>3. CASE MmioWrite \/ TextureSync
    BY <1>1, <1>3 DEF MmioWrite, TextureSync, PushWord, MeshEnable, workerVars, pipeVars, StopAtEnd
  <1>4. CASE VsyncFrameDone
    <2>1. display'.gen \in {display.gen, display.gen + 1}
      BY <1>4, Publication DEF VsyncFrameDone
    <2>2. QED
      BY <1>1, <1>4, <2>1 DEF VsyncFrameDone, workerVars, StopAtEnd
  <1>5. CASE ViewerFlip \/ Notify
    BY <1>1, <1>5 DEF ViewerFlip, Notify, Kick, fifoVars, pipeVars, StopAtEnd
  <1>6. CASE ClearDraw
    BY <1>1, <1>6 DEF ClearDraw, Playing, fifoVars, workerVars, StopAtEnd
  <1>7. CASE ClearCollector
    <2>1. /\ loc'.gen = loc.gen /\ loc'.of = loc.of /\ DOMAIN loc' = DOMAIN loc
          /\ dpc' = dpc
          /\ dpc = "swap" => loc'.words # <<>>
      BY <1>7 DEF ClearCollector, Pieces, NoLocals
    <2>2. ~stop /\ ~stop' /\ UNCHANGED <<display, last, mesh, wpc>>
      BY <1>7 DEF ClearCollector, StopAtEnd, fifoVars, workerVars
    <2>3. QED
      BY <2>1, <2>2 DEF InDecode, GenInOrder, FrameInOrder, SwapHasWords, StopAtEnd
  <1>8. CASE SummaryCheck
    BY <1>1, <1>8 DEF SummaryCheck, fifoVars, workerVars, StopAtEnd
  <1>9. CASE SummaryLatch \/ SummaryBest
    <2>1. display'.gen \in {display.gen, display.gen + 1}
      BY <1>9, Publication DEF SummaryLatch, SummaryBest, fifoVars
    <2>2. QED
      BY <1>1, <1>9, <2>1 DEF SummaryLatch, SummaryBest, workerVars, StopAtEnd
  <1>10. CASE SummaryDecode \/ SummaryWake
    BY <1>1, <1>10 DEF SummaryDecode, SummaryWake, DecodeCall, DecodeWake, fifoVars, StopAtEnd
  <1>11. CASE StopWorker
    BY <1>1, <1>11 DEF StopWorker, Shutdown, fifoVars, pipeVars, StopAtEnd
  <1>12. CASE JoinWorker
    BY <1>1, <1>12 DEF JoinWorker, Join, fifoVars, pipeVars, StopAtEnd
  <1>13. QED
    BY <1>2, <1>3, <1>4, <1>5, <1>6, <1>7, <1>8, <1>9, <1>10, <1>11, <1>12
       DEF GameNext, CallNext, SummaryNext

(* The steps of the worker keep it. *)
LEMMA WorkerOrder ==
    ASSUME Order, DecodeNext
    PROVE  Order'
  <1> USE DEF Order, NumbersType
  <1>1. UNCHANGED <<display, stop, phase>>
    BY DEF DecodeNext, WorkerRuns, WorkerEnter, WorkerWake, ReadTotal, ReadGen, ReadRange, CopyWords,
         CopyMatrices, Decode, Collect, Rebuild, RebuildFails, Publish, FinishDecode, WorkerFinish, DecodeStep,
         fifoVars, workerVars
  <1>2. StopAtEnd'
    BY <1>1 DEF StopAtEnd
  <1>3. CASE WorkerRuns \/ FinishDecode
    <2>1. /\ UNCHANGED <<loc, last, mesh>>
          /\ dpc \in {"idle", "finish"} /\ dpc' \in {"idle", "total"}
          /\ (dpc' # "idle") <=> (wpc' = "decoding")
      BY <1>3 DEF WorkerRuns, WorkerEnter, WorkerWake, FinishDecode, InDecode
    <2>2. QED
      BY <1>1, <1>2, <2>1 DEF InDecode, GenInOrder, FrameInOrder, SwapHasWords
  <1>4. CASE ReadTotal \/ ReadGen
    <2>1. /\ UNCHANGED <<last, mesh, wpc>>
          /\ DOMAIN loc' = DOMAIN loc /\ loc'.of = loc.of
          /\ \/ dpc = "total" /\ dpc' = "gen" /\ loc'.gen = loc.gen
             \/ dpc = "gen" /\ dpc' = "range" /\ loc'.gen = display.gen
      BY <1>4 DEF ReadTotal, ReadGen, DecodeStep, NoLocals, workerVars
    <2>2. QED
      BY <1>1, <1>2, <2>1 DEF InDecode, GenInOrder, FrameInOrder, SwapHasWords
  <1>5. CASE ReadRange
    <2>1. mesh' = mesh /\ wpc' = wpc /\ dpc = "range" /\ dpc' \in {"finish", "words"}
      BY <1>5 DEF ReadRange, DecodeStep, workerVars
    <2>2. CASE dpc' = "finish"
      <3>1. /\ loc' = NoLocals
            /\ last' = last \/ last' = [last EXCEPT !.total = loc.total, !.gen = loc.gen]
        BY <1>5, <2>2 DEF ReadRange, DecodeStep
      <3>2. last'.gen \in {last.gen, loc.gen} /\ DOMAIN last' = DOMAIN last
        BY <3>1
      <3>3. NumbersType'
        BY <1>1, <2>1, <3>1, <3>2 DEF NoLocals
      <3>4. QED
        BY <1>1, <1>2, <2>1, <2>2, <3>1, <3>2, <3>3
           DEF InDecode, GenInOrder, FrameInOrder, SwapHasWords, NoLocals
    <2>3. CASE dpc' = "words"
      <3>1. /\ last' = last /\ loc'.gen = loc.gen /\ DOMAIN loc' = DOMAIN loc
            /\ \/ loc'.of = display.gen
               \/ loc'.of = loc.of /\ loc.gen = 0
        BY <1>5, <2>3 DEF ReadRange, DecodeStep, NoLocals
      <3>2. QED
        BY <1>1, <1>2, <2>1, <2>3, <3>1 DEF InDecode, GenInOrder, FrameInOrder, SwapHasWords
    <2>4. QED
      BY <2>1, <2>2, <2>3
  <1>6. CASE CopyWords \/ CopyMatrices
    <2>1. /\ UNCHANGED <<last, mesh, wpc>>
          /\ DOMAIN loc' = DOMAIN loc /\ loc'.of = loc.of /\ loc'.gen = loc.gen
          /\ dpc \in {"words", "mtx"} /\ dpc' \in {"mtx", "decode"}
      BY <1>6 DEF CopyWords, CopyMatrices, DecodeStep, NoLocals, workerVars
    <2>2. QED
      BY <1>1, <1>2, <2>1 DEF InDecode, GenInOrder, FrameInOrder, SwapHasWords
  <1>7. CASE Decode
    <2>1. /\ UNCHANGED <<mesh, wpc>>
          /\ dpc = "decode"
          /\ last'.gen = loc.gen /\ DOMAIN last' = {"total", "gen", "dlTotal"}
          /\ \/ dpc' = "finish" /\ loc' = NoLocals
             \/ dpc' = "append" /\ loc' = loc
      BY <1>7 DEF Decode, DecodeStep, workerVars
    <2>2. QED
      BY <1>1, <1>2, <2>1 DEF InDecode, GenInOrder, FrameInOrder, SwapHasWords, NoLocals
  <1>8. CASE Collect
    BY <1>1, <1>2, <1>8 DEF Collect, DecodeStep, workerVars, InDecode, GenInOrder, FrameInOrder,
         SwapHasWords
  <1>9. CASE Rebuild \/ RebuildFails
    <2>1. /\ UNCHANGED <<last, wpc>>
          /\ dpc = "rebuild"
          /\ mesh'.of = mesh.of /\ DOMAIN mesh' = DOMAIN mesh
          /\ \/ dpc' = "finish" /\ loc' = NoLocals
             \/ /\ dpc' = "swap" /\ loc'.words # <<>>
                /\ DOMAIN loc' = DOMAIN loc /\ loc'.of = loc.of /\ loc'.gen = loc.gen
      BY <1>9 DEF Rebuild, RebuildFails, DecodeStep, NoLocals, workerVars
    <2>2. QED
      BY <1>1, <1>2, <2>1 DEF InDecode, GenInOrder, FrameInOrder, SwapHasWords, NoLocals
  <1>10. CASE Publish
    BY <1>1, <1>2, <1>10 DEF Publish, DecodeStep, workerVars, InDecode, GenInOrder, FrameInOrder,
         SwapHasWords, NoLocals
  <1>11. QED
    BY <1>3, <1>4, <1>5, <1>6, <1>7, <1>8, <1>9, <1>10 DEF DecodeNext

THEOREM OrderInvariance == Spec => []Order
  <1>1. Order /\ UNCHANGED vars => Order'
    BY DEF vars, fifoVars, workerVars, pipeVars, Order, NumbersType, InDecode, GenInOrder,
         FrameInOrder, SwapHasWords, StopAtEnd
  <1>2. Order /\ WorkerInv /\ [Next]_vars => Order'
    BY <1>1, MainOrder, WorkerOrder DEF Next, Ended
  <1>3. QED
    BY <1>2, InitOrder, HandshakeIsKept, Invariance, PTL DEF Spec

-----------------------------------------------------------------------------
(* Each step of the composition is one of the mailbox, or changes none of   *)
(* its state.                                                               *)
LEMMA MailStep ==
    ASSUME Order, WorkerInv, [Next]_vars
    PROVE  [Mailbox!Next]_(Mailbox!mailVars)
  <1> USE DEF Order, NumbersType
  <1>1. ASSUME UNCHANGED <<last, mesh, stop>>,
               display'.gen \in {display.gen, display.gen + 1}
        PROVE  [Mailbox!Next]_(Mailbox!mailVars)
    BY <1>1 DEF Mailbox!Next, Mailbox!Post, Mailbox!mailVars
  <1>2. CASE Start
    <2>1. stop = FALSE
      BY <1>2 DEF Start, StopAtEnd, WorkerInv, WorkerTypeOK
    <2>2. QED
      BY <1>1, <1>2, <2>1 DEF Start, InitWorker, fifoVars, pipeVars
  <1>3. CASE MmioWrite \/ TextureSync
    BY <1>1, <1>3 DEF MmioWrite, TextureSync, PushWord, MeshEnable, workerVars, pipeVars
  <1>4. CASE VsyncFrameDone \/ SummaryLatch \/ SummaryBest
    <2>1. display'.gen \in {display.gen, display.gen + 1}
      BY <1>4, Publication DEF VsyncFrameDone, SummaryLatch, SummaryBest, fifoVars
    <2>2. QED
      BY <1>1, <1>4, <2>1 DEF VsyncFrameDone, SummaryLatch, SummaryBest, workerVars
  <1>5. CASE ViewerFlip \/ Notify \/ SummaryDecode \/ SummaryWake \/ JoinWorker
    BY <1>1, <1>5 DEF ViewerFlip, Notify, Kick, SummaryDecode, SummaryWake, DecodeCall, DecodeWake,
         JoinWorker, Join, fifoVars, pipeVars
  <1>6. CASE ClearCollector \/ SummaryCheck
    BY <1>1, <1>6 DEF ClearCollector, SummaryCheck, fifoVars, workerVars
  <1>7. CASE ClearDraw
    <2>1. Mailbox!Drop
      BY <1>7 DEF ClearDraw, fifoVars, workerVars, Mailbox!Drop
    <2>2. QED
      BY <2>1 DEF Mailbox!Next
  <1>8. CASE StopWorker
    <2>1. Mailbox!Close
      BY <1>8 DEF StopWorker, Shutdown, fifoVars, pipeVars, WorkerInv, StopOnlyInShutdown,
           WorkerTypeOK, Mailbox!Close
    <2>2. QED
      BY <2>1 DEF Mailbox!Next
  <1>9. CASE WorkerRuns \/ FinishDecode
    BY <1>1, <1>9 DEF WorkerRuns, WorkerEnter, WorkerWake, FinishDecode, WorkerFinish, fifoVars
  <1>10. CASE ReadTotal \/ ReadGen \/ CopyWords \/ CopyMatrices \/ Collect \/ RebuildFails
    BY <1>1, <1>10 DEF ReadTotal, ReadGen, CopyWords, CopyMatrices, Collect, RebuildFails,
         DecodeStep, fifoVars, workerVars
  <1>11. CASE ReadRange \/ Decode
    <2>1. UNCHANGED <<display, mesh, stop>> /\ dpc \in {"range", "decode"}
      BY <1>11 DEF ReadRange, Decode, DecodeStep, fifoVars, workerVars
    <2>2. last.gen <= loc.gen /\ loc.gen <= display.gen
      BY <2>1 DEF GenInOrder
    <2>3. \/ last' = last
          \/ last' = [last EXCEPT !.total = loc.total, !.gen = loc.gen]
          \/ last'.gen = loc.gen
      BY <1>11 DEF ReadRange, Decode
    <2>4. last'.gen \in {last.gen, loc.gen}
      BY <2>3
    <2>5. CASE last'.gen = last.gen
      BY <2>1, <2>5 DEF Mailbox!mailVars
    <2>6. CASE last'.gen # last.gen
      <3>1. Mailbox!Take
        BY <2>1, <2>2, <2>4, <2>6 DEF Mailbox!Take
      <3>2. QED
        BY <3>1 DEF Mailbox!Next
    <2>7. QED
      BY <2>5, <2>6
  <1>12. CASE Rebuild
    <2>1. CASE mesh' = mesh
      BY <1>1, <1>12, <2>1 DEF Rebuild, DecodeStep, fifoVars, workerVars
    <2>2. CASE mesh' = [mesh EXCEPT !.words = <<>>]
      <3>1. Mailbox!Drop
        BY <1>12, <2>2 DEF Rebuild, DecodeStep, fifoVars, workerVars, Mailbox!Drop
      <3>2. QED
        BY <3>1 DEF Mailbox!Next
    <2>3. QED
      BY <1>12, <2>1, <2>2 DEF Rebuild
  <1>13. CASE Publish
    <2>1. Mailbox!Show
      BY <1>13 DEF Publish, DecodeStep, fifoVars, workerVars, FrameInOrder, SwapHasWords,
           Mailbox!Show
    <2>2. QED
      BY <2>1 DEF Mailbox!Next
  <1>14. CASE Ended \/ UNCHANGED vars
    BY <1>1, <1>14 DEF Ended, vars, fifoVars, workerVars, pipeVars
  <1>15. QED
    BY <1>2, <1>3, <1>4, <1>5, <1>6, <1>7, <1>8, <1>9, <1>10, <1>11, <1>12, <1>13, <1>14
       DEF Next, GameNext, CallNext, SummaryNext, DecodeNext

(* FIFO and worker are a one-place mailbox of frames: the worker takes them *)
(* in order and at most once, and what is drawn is a frame that was posted  *)
(* and never goes back to an older one, clears and the summary included.    *)
(* This is the safety part of MailboxSpec.                                  *)
THEOREM PipelineImplementsMailbox ==
    Spec => Mailbox!Init /\ [][Mailbox!Next]_(Mailbox!mailVars)
  <1>1. Init => Mailbox!Init
    BY DEF Init, FifoInit, WorkerInit, NoMesh, Mailbox!Init
  <1>2. Order /\ WorkerInv /\ [Next]_vars => [Mailbox!Next]_(Mailbox!mailVars)
    BY MailStep
  <1>3. QED
    BY <1>1, <1>2, OrderInvariance, HandshakeIsKept, Invariance, PTL DEF Spec

-----------------------------------------------------------------------------
(* Every step of the composition is one of the FIFO, or none. *)
LEMMA FifoStep == [Next]_vars => [FifoNext]_fifoVars
  <1> SUFFICES ASSUME [Next]_vars PROVE [FifoNext]_fifoVars
    OBVIOUS
  <1>1. CASE GameNext
    BY <1>1 DEF GameNext, Start, MmioWrite, TextureSync, VsyncFrameDone, ViewerFlip, ClearDraw,
         FifoNext, fifoVars
  <1>2. CASE SummaryCheck
    BY <1>2 DEF SummaryCheck, fifoVars
  <1>3. CASE CallNext
    BY <1>3 DEF CallNext, SummaryNext, Notify, ClearCollector, SummaryLatch, SummaryBest,
         SummaryDecode, SummaryWake, StopWorker, JoinWorker, FifoNext, fifoVars
  <1>4. CASE DecodeNext
    BY <1>4 DEF DecodeNext, WorkerRuns, ReadTotal, ReadGen, ReadRange, CopyWords, CopyMatrices,
         Decode, Collect, Rebuild, RebuildFails, Publish, FinishDecode, DecodeStep, fifoVars
  <1>5. CASE Ended \/ UNCHANGED vars
    BY <1>5 DEF Ended, vars, fifoVars
  <1>6. QED
    BY <1>1, <1>2, <1>3, <1>4, <1>5 DEF Next

LEMMA FifoIsKept == Spec => FifoSpec
  <1>1. Init => FifoInit
    BY DEF Init
  <1>2. QED
    BY <1>1, FifoStep, PTL DEF Spec, FifoSpec

-----------------------------------------------------------------------------
(* Until the counter has wrapped the positions are the serial numbers, and  *)
(* the two rings hold the same.                                             *)
Unwrapped ==
    /\ total = hist.pushed /\ mark = hist.mark
    /\ display.start = hist.disp /\ best.start = hist.best
    /\ hist.pushed <= MaxWords
    /\ mtx = prg

LEMMA UnwrappedStep ==
    ASSUME MaxWords < TotalMod, Placement, Unwrapped, [FifoNext]_fifoVars
    PROVE  Unwrapped'
  <1> USE HistTypes, WidthTypes, ConstantTypes DEF Unwrapped
  <1>1. hist \in [pushed : Nat, mark : Nat, disp : Nat, best : Nat, cuts : SUBSET Nat]
    BY DEF Placement, Bookkeeping, FifoTypeOK
  <1>2. CASE PushWord
    BY <1>1, <1>2 DEF PushWord
  <1>3. CASE \E on \in BOOLEAN : MeshEnable(on)
    BY <1>1, <1>3 DEF MeshEnable
  <1>4. CASE LatchPrgFrame
    <2>1. CASE FrameHasWords
      <3>1. /\ mark' = total
            /\ display' = [start |-> mark, end |-> total, gen |-> display.gen + 1]
            /\ best' = IF total - mark > best.words
                       THEN [start |-> mark, end |-> total, words |-> total - mark]
                       ELSE best
            /\ hist' = [hist EXCEPT !.mark = hist.pushed, !.disp = hist.mark,
                          !.best = IF total - mark > best.words THEN hist.mark ELSE @]
            /\ UNCHANGED <<prg, mtx, total>>
        BY <1>4, <2>1 DEF LatchPrgFrame
      <3>2. CASE total - mark > best.words
        BY <1>1, <3>1, <3>2
      <3>3. CASE ~(total - mark > best.words)
        BY <1>1, <3>1, <3>3
      <3>4. QED
        BY <3>2, <3>3
    <2>2. CASE ~FrameHasWords
      BY <1>1, <1>4, <2>2 DEF LatchPrgFrame
    <2>3. QED
      BY <2>1, <2>2
  <1>5. CASE PublishBest
    BY <1>1, <1>5 DEF PublishBest
  <1>6. CASE ResetCounts
    BY <1>6 DEF ResetCounts
  <1>7. CASE UNCHANGED fifoVars
    BY <1>7 DEF fifoVars
  <1>8. QED
    BY <1>2, <1>3, <1>4, <1>5, <1>6, <1>7 DEF FifoNext

(* A copy of any finished range is its last words that the ring still holds,*)
(* and all of it while the ring has not lapped it.                          *)
LEMMA CopyIsRange ==
    ASSUME Placement, Unwrapped, NEW s \in Nat, NEW e \in Nat, s <= e, e <= hist.pushed
    PROVE  \E lo \in Nat, n \in Nat :
              /\ CopyRange(prg, s, e) = [i \in 1 .. n |-> lo + i - 1]
              /\ n <= Cap /\ lo >= s
              /\ n > 0 => lo + n = e
              /\ hist.pushed <= s + Cap => lo = s /\ n = e - s
  <1> DEFINE lo == IF s < Oldest THEN Oldest ELSE s
             n  == IF e > lo THEN e - lo ELSE 0
  <1> USE HistTypes, WidthTypes
  <1>1. total = hist.pushed
    BY DEF Unwrapped
  <1>2. lo \in Nat /\ lo >= s /\ lo + Cap >= total /\ (total <= s + Cap => lo = s)
    BY DEF Oldest
  <1> HIDE DEF lo
  <1>3. /\ n \in Nat /\ n <= Cap
        /\ n > 0 => lo + n = e
        /\ total <= s + Cap => n = e - s
    BY <1>1, <1>2
  <1>4. CopyRange(prg, s, e) = [i \in 1 .. n |-> prg[(lo + i - 1) % Cap]]
    <2>1. ~(e > total)
      BY <1>1
    <2>2. QED
      BY <2>1 DEF CopyRange, lo
  <1>5. ASSUME NEW i \in 1 .. n PROVE prg[(lo + i - 1) % Cap] = lo + i - 1
    <2>1. lo + i - 1 \in Nat /\ lo + i - 1 < hist.pushed /\ (lo + i - 1) + Cap >= hist.pushed
      BY <1>1, <1>2, <1>3
    <2>2. QED
      BY <2>1 DEF Placement, Content
  <1> HIDE DEF n
  <1>6. CopyRange(prg, s, e) = [i \in 1 .. n |-> lo + i - 1]
    BY <1>4, <1>5
  <1>7. QED
    BY <1>1, <1>2, <1>3, <1>6

-----------------------------------------------------------------------------
Piece == [words : Seq(Nat), of : Nat]

LocType == [total : Nat, gen : Nat, start : Nat, end : Nat, slice : BOOLEAN,
            words : Seq(Nat), mtx : Seq(Nat), of : Nat, from : Nat, lapped : BOOLEAN]

DataType ==
    /\ loc \in LocType
    /\ last \in [total : Nat, gen : Nat, dlTotal : Nat]
    /\ coll \in Piece /\ mesh \in Piece
    /\ owed \in BOOLEAN
    /\ phase \in {"game", "clear", "latch", "best", "decode", "decoding", "summarised"}

Copying == {"words", "mtx", "decode", "append", "rebuild", "swap"}

(* The range the decoder has read is a whole frame, finished and not split  *)
(* by an upload; without one it copies the ring from its start.             *)
RangeIsFrame ==
    /\ dpc \notin Copying => ~loc.slice /\ loc.from = 0 /\ loc.words = <<>>
    /\ ~loc.slice => loc.of = 0 /\ loc.from = 0 /\ (dpc \in Copying => loc.gen = 0)
    /\ loc.slice => /\ loc.from = loc.start /\ loc.start <= loc.end
                    /\ loc.end <= hist.mark
                    /\ \A c \in hist.cuts : ~(loc.start < c /\ c < loc.end)

(* Words that belong to the frame being decoded. *)
OfFrame(words) == \A i \in 1 .. Len(words) : loc.start <= words[i] /\ words[i] < loc.end

(* The words copied are that frame's, also when a scene clear cuts them off.*)
WordsAreFrames ==
    /\ Len(loc.words) <= Cap /\ Len(coll.words) <= Cap
    /\ dpc \in Copying /\ loc.slice => OfFrame(loc.words)
    /\ dpc = "rebuild" /\ loc.slice => OfFrame(coll.words)

InOrder(words) == words = [i \in 1 .. Len(words) |-> loc.from + i - 1]

(* While the ring has not lapped the frame they are all of it, in order.    *)
WordsInOrder ==
    /\ dpc = "mtx" /\ hist.pushed <= loc.from + Cap =>
         /\ InOrder(loc.words)
         /\ Len(loc.words) <= hist.pushed
         /\ loc.slice => Len(loc.words) = loc.end - loc.start
    /\ dpc = "decode" => Len(loc.mtx) <= Len(loc.words)
    /\ DecodeInputIsOneFrame

(* What is drawn was pushed, and no upload splits it. *)
MeshUncut ==
    mesh.of > 0 =>
        \A c \in hist.cuts :
            ~ \E i, j \in 1 .. Len(mesh.words) : mesh.words[i] < c /\ mesh.words[j] >= c

MeshPushed == mesh.of > 0 => \A i \in 1 .. Len(mesh.words) : mesh.words[i] < hist.pushed

DataInv ==
    /\ DataType
    /\ RangeIsFrame
    /\ WordsAreFrames
    /\ WordsInOrder
    /\ MeshPushed
    /\ MeshUncut

Known == Order /\ WorkerInv /\ Placement /\ Unwrapped

LEMMA NoWordsLeft == <<>> \in Seq(Nat) /\ Len(<<>>) = 0
  OBVIOUS

(* A piece of a sequence holds nothing else than its elements. *)
LEMMA PieceOf ==
    ASSUME NEW s \in Seq(Nat), NEW i \in 1 .. Len(s), NEW j \in 1 .. Len(s)
    PROVE  /\ SubSeq(s, i, j) \in Seq(Nat)
           /\ Len(SubSeq(s, i, j)) <= Len(s)
           /\ \A k \in 1 .. Len(SubSeq(s, i, j)) :
                \E m \in 1 .. Len(s) : SubSeq(s, i, j)[k] = s[m]
  <1>1. Len(s) \in Nat /\ i \in Nat /\ j \in Nat /\ \A m \in 1 .. Len(s) : s[m] \in Nat
    OBVIOUS
  <1>2. \A m \in i .. j : s[m] \in Nat
    BY <1>1
  <1>3. /\ SubSeq(s, i, j) \in Seq(Nat)
        /\ Len(SubSeq(s, i, j)) = IF i <= j THEN j - i + 1 ELSE 0
        /\ \A k \in 1 .. j - i + 1 : SubSeq(s, i, j)[k] = s[i + k - 1]
    BY <1>1, <1>2, SubSeqProperties
  <1>4. \A k \in 1 .. j - i + 1 : i + k - 1 \in 1 .. Len(s)
    BY <1>1
  <1>5. Len(SubSeq(s, i, j)) <= Len(s)
    BY <1>1, <1>3
  <1>6. ASSUME NEW k \in 1 .. Len(SubSeq(s, i, j))
        PROVE  \E m \in 1 .. Len(s) : SubSeq(s, i, j)[k] = s[m]
    <2>1. k \in 1 .. j - i + 1
      BY <1>1, <1>3
    <2>2. QED
      BY <1>3, <1>4, <2>1
  <1>7. QED
    BY <1>3, <1>5, <1>6

(* The fields of the records, one by one. *)
LEMMA LocFields ==
    ASSUME DataType
    PROVE  /\ {loc.total, loc.gen, loc.start, loc.end, loc.of, loc.from} \subseteq Nat
           /\ loc.slice \in BOOLEAN /\ loc.lapped \in BOOLEAN
           /\ loc.words \in Seq(Nat) /\ loc.mtx \in Seq(Nat)
           /\ Len(loc.words) \in Nat
           /\ \A i \in 1 .. Len(loc.words) : loc.words[i] \in Nat
  BY DEF DataType, LocType

LEMMA MeshFields ==
    ASSUME DataType
    PROVE  /\ mesh.words \in Seq(Nat) /\ Len(mesh.words) \in Nat /\ mesh.of \in Nat
           /\ \A i \in 1 .. Len(mesh.words) : mesh.words[i] \in Nat
           /\ coll.words \in Seq(Nat) /\ coll.of \in Nat
  <1>1. mesh.words \in Seq(Nat) /\ mesh.of \in Nat /\ coll.words \in Seq(Nat) /\ coll.of \in Nat
    BY DEF DataType, Piece
  <1>2. QED
    BY <1>1

LEMMA ClearedMesh ==
    ASSUME DataType
    PROVE  /\ [mesh EXCEPT !.words = <<>>] \in Piece
           /\ [mesh EXCEPT !.words = <<>>].words = <<>>
           /\ [mesh EXCEPT !.words = <<>>].of = mesh.of
  <1>1. mesh \in [words : Seq(Nat), of : Nat]
    BY DEF DataType, Piece
  <1>2. [mesh EXCEPT !.words = <<>>].words = <<>> /\ [mesh EXCEPT !.words = <<>>].of = mesh.of
    BY <1>1
  <1>3. [mesh EXCEPT !.words = <<>>] \in Piece
    BY <1>1, NoWordsLeft DEF Piece
  <1>4. QED
    BY <1>2, <1>3

LEMMA EmptyRecords == NoLocals \in LocType /\ NoMesh \in Piece
  <1>1. <<>> \in Seq(Nat)
    OBVIOUS
  <1>2. QED
    BY <1>1 DEF NoLocals, NoMesh, LocType, Piece

LEMMA KnownTypes ==
    ASSUME Known
    PROVE  /\ hist.pushed \in Nat /\ hist.mark \in Nat /\ hist.mark <= hist.pushed
           /\ hist.cuts \subseteq Nat
           /\ total \in Nat /\ display.gen \in Nat
  BY HistTypes DEF Known, Order, NumbersType, Placement, Bookkeeping, FifoTypeOK

LEMMA InitData == Init => DataInv
  <1> SUFFICES ASSUME Init PROVE DataInv
    OBVIOUS
  <1> USE ConstantTypes DEF Init, FifoInit, NoMesh, NoLocals
  <1>1. DataType
    <2>1. loc = NoLocals /\ coll = NoMesh /\ mesh = NoMesh
      OBVIOUS
    <2>2. last \in [total : Nat, gen : Nat, dlTotal : Nat]
      OBVIOUS
    <2>3. QED
      BY <2>1, <2>2, EmptyRecords DEF DataType
  <1>2. RangeIsFrame /\ WordsAreFrames /\ WordsInOrder
    BY DEF RangeIsFrame, Copying, WordsAreFrames, WordsInOrder, DecodeInputIsOneFrame
  <1>3. MeshPushed /\ MeshUncut
    BY DEF MeshPushed, MeshUncut
  <1>4. QED
    BY <1>1, <1>2, <1>3 DEF DataInv

(* What the main thread does to the FIFO: it pushes, marks and cuts at the  *)
(* end of what was pushed.                                                  *)
Grows ==
    /\ hist'.pushed \in Nat /\ hist.pushed <= hist'.pushed
    /\ hist'.mark \in Nat /\ hist.mark <= hist'.mark
    /\ hist'.cuts \subseteq hist.cuts \union {hist.pushed}

LEMMA FifoGrows ==
    ASSUME Placement,
           \/ PushWord \/ (\E on \in BOOLEAN : MeshEnable(on))
           \/ LatchPrgFrame \/ PublishBest \/ UNCHANGED fifoVars
    PROVE  Grows
  <1> USE HistTypes
  <1>1. hist \in [pushed : Nat, mark : Nat, disp : Nat, best : Nat, cuts : SUBSET Nat]
    BY DEF Placement, Bookkeeping, FifoTypeOK
  <1>2. CASE PushWord
    BY <1>1, <1>2 DEF PushWord, Grows
  <1>3. CASE \E on \in BOOLEAN : MeshEnable(on)
    <2>1. \/ hist' = [hist EXCEPT !.mark = hist.pushed, !.cuts = @ \union {hist.pushed}]
          \/ hist' = hist
      BY <1>3 DEF MeshEnable
    <2>2. /\ hist'.pushed = hist.pushed /\ hist'.mark \in {hist.mark, hist.pushed}
          /\ hist'.cuts \subseteq hist.cuts \union {hist.pushed}
      BY <1>1, <2>1
    <2>3. QED
      BY <2>2 DEF Grows
  <1>4. CASE LatchPrgFrame
    <2>1. \/ \E b : hist' = [hist EXCEPT !.mark = hist.pushed, !.disp = hist.mark, !.best = b]
          \/ hist' = [hist EXCEPT !.mark = hist.pushed]
      BY <1>4 DEF LatchPrgFrame
    <2>2. hist'.pushed = hist.pushed /\ hist'.mark = hist.pushed /\ hist'.cuts = hist.cuts
      BY <1>1, <2>1
    <2>3. QED
      BY <2>2 DEF Grows
  <1>5. CASE PublishBest
    BY <1>1, <1>5 DEF PublishBest, Grows
  <1>6. CASE UNCHANGED fifoVars
    BY <1>1, <1>6 DEF fifoVars, Grows
  <1>7. QED
    BY <1>2, <1>3, <1>4, <1>5, <1>6

(* The steps of the main thread. *)
LEMMA MainData ==
    ASSUME Known, DataInv, GameNext \/ SummaryCheck \/ CallNext
    PROVE  DataInv'
  <1> USE KnownTypes DEF DataInv
  <1>1. Grows
    <2>1. \/ PushWord \/ (\E on \in BOOLEAN : MeshEnable(on))
          \/ LatchPrgFrame \/ PublishBest \/ UNCHANGED fifoVars
      BY DEF GameNext, Start, MmioWrite, TextureSync, VsyncFrameDone, ViewerFlip, ClearDraw,
           SummaryCheck, CallNext, SummaryNext, Notify, ClearCollector, SummaryLatch, SummaryBest,
           SummaryDecode, SummaryWake, StopWorker, JoinWorker
    <2>2. QED
      BY <2>1, FifoGrows DEF Known
  <1>2. DataType'
    <2>1. owed' \in BOOLEAN
      BY DEF DataType,
           GameNext, Start, MmioWrite, TextureSync, VsyncFrameDone, ViewerFlip, ClearDraw,
           SummaryCheck, CallNext, SummaryNext, Notify, ClearCollector, SummaryLatch, SummaryBest,
           SummaryDecode, SummaryWake, StopWorker, JoinWorker, pipeVars
    <2>2. phase' \in {"game", "clear", "latch", "best", "decode", "decoding", "summarised"}
      BY DEF DataType,
           GameNext, Start, MmioWrite, TextureSync, VsyncFrameDone, ViewerFlip, ClearDraw,
           SummaryCheck, CallNext, SummaryNext, Notify, ClearCollector, SummaryLatch, SummaryBest,
           SummaryDecode, SummaryWake, StopWorker, JoinWorker, pipeVars
    <2>3. /\ last' = last
          /\ coll' = coll \/ coll' = NoMesh
          /\ mesh' = mesh \/ mesh' = [mesh EXCEPT !.words = <<>>]
          /\ \/ loc' = loc
             \/ \E piece \in Pieces(loc.words) : loc' = [loc EXCEPT !.words = piece]
      BY DEF GameNext, Start, MmioWrite, TextureSync, VsyncFrameDone, ViewerFlip, ClearDraw,
           SummaryCheck, CallNext, SummaryNext, Notify, ClearCollector, SummaryLatch, SummaryBest,
           SummaryDecode, SummaryWake, StopWorker, JoinWorker, pipeVars
    <2>4. coll' \in Piece /\ mesh' \in Piece
      BY <2>3, EmptyRecords, ClearedMesh DEF DataType
    <2>5. loc' \in LocType
      <3>1. Pieces(loc.words) \subseteq Seq(Nat)
        <4>1. SUFFICES ASSUME NEW piece \in Pieces(loc.words) PROVE piece \in Seq(Nat)
          OBVIOUS
        <4>2. PICK i \in 1 .. Len(loc.words), j \in 1 .. Len(loc.words) :
                piece = SubSeq(loc.words, i, j)
          BY <4>1 DEF Pieces
        <4>3. QED
          BY <4>2, LocFields, PieceOf
      <3>2. QED
        BY <2>3, <3>1 DEF DataType, LocType
    <2>6. QED
      BY <2>1, <2>2, <2>3, <2>4, <2>5 DEF DataType
  <1>3. /\ mesh' = mesh \/ mesh' = [mesh EXCEPT !.words = <<>>]
        /\ dpc' = dpc
    BY DEF GameNext, Start, MmioWrite, TextureSync, VsyncFrameDone, ViewerFlip, ClearDraw,
         SummaryCheck, CallNext, SummaryNext, Notify, ClearCollector, SummaryLatch, SummaryBest,
         SummaryDecode, SummaryWake, StopWorker, JoinWorker, pipeVars
  <1>4. MeshPushed' /\ MeshUncut'
    <2>1. CASE mesh' = mesh
      <3>1. MeshPushed'
        <4>1. hist.pushed \in Nat /\ hist'.pushed \in Nat /\ hist.pushed <= hist'.pushed
          BY <1>1 DEF Grows
        <4>2. ASSUME mesh.of > 0, NEW i \in 1 .. Len(mesh.words)
              PROVE  mesh.words[i] < hist'.pushed
          <5>1. mesh.words[i] \in Nat /\ mesh.words[i] < hist.pushed
            BY <4>2, MeshFields DEF MeshPushed
          <5>2. QED
            BY <4>1, <5>1
        <4>3. QED
          BY <2>1, <4>2 DEF MeshPushed
      <3>2. ASSUME NEW c \in hist'.cuts, mesh.of > 0,
                   NEW i \in 1 .. Len(mesh.words), NEW j \in 1 .. Len(mesh.words),
                   mesh.words[i] < c, mesh.words[j] >= c
            PROVE  FALSE
        <4>1. CASE c \in hist.cuts
          BY <3>2, <4>1 DEF MeshUncut
        <4>2. CASE c = hist.pushed
          <5>1. mesh.words[j] \in Nat /\ mesh.words[j] < hist.pushed
            BY <3>2, MeshFields DEF MeshPushed
          <5>2. hist.pushed \in Nat
            OBVIOUS
          <5>3. QED
            BY <3>2, <4>2, <5>1, <5>2
        <4>3. QED
          BY <1>1, <4>1, <4>2 DEF Grows
      <3>3. QED
        BY <2>1, <3>1, <3>2 DEF MeshUncut
    <2>2. CASE mesh' = [mesh EXCEPT !.words = <<>>]
      BY <2>2, ClearedMesh, NoWordsLeft DEF MeshPushed, MeshUncut
    <2>3. QED
      BY <1>3, <2>1, <2>2
  <1>5. ASSUME UNCHANGED <<loc, coll>>
        PROVE  RangeIsFrame' /\ WordsAreFrames' /\ WordsInOrder'
    <2>1. RangeIsFrame'
      <3>1. ASSUME loc.slice, NEW c \in hist'.cuts, loc.start < c, c < loc.end
            PROVE  FALSE
        <4>1. c # hist.pushed
          BY <3>1, LocFields DEF RangeIsFrame
        <4>2. QED
          BY <1>1, <3>1, <4>1 DEF Grows, RangeIsFrame
      <3>2. loc.slice => loc.end <= hist'.mark
        BY <1>1, LocFields DEF Grows, RangeIsFrame
      <3>3. QED
        BY <1>3, <1>5, <3>1, <3>2 DEF RangeIsFrame
    <2>2. WordsAreFrames'
      BY <1>3, <1>5 DEF WordsAreFrames, OfFrame
    <2>3. WordsInOrder'
      <3>1. hist'.pushed <= loc.from + Cap => hist.pushed <= loc.from + Cap
        BY <1>1, ConstantTypes, LocFields DEF Grows
      <3>2. Len(loc.words) <= hist.pushed => Len(loc.words) <= hist'.pushed
        BY <1>1, LocFields DEF Grows
      <3>3. QED
        BY <1>3, <1>5, <3>1, <3>2 DEF WordsInOrder, InOrder, DecodeInputIsOneFrame
    <2>4. QED
      BY <2>1, <2>2, <2>3
  <1>6. CASE ClearCollector
    <2>1. /\ coll' = NoMesh /\ hist' = hist /\ dpc' = dpc
          /\ \/ dpc \notin {"append", "swap"} /\ loc' = loc
             \/ /\ dpc \in {"append", "swap"}
                /\ \E piece \in Pieces(loc.words) : loc' = [loc EXCEPT !.words = piece]
      BY <1>6 DEF ClearCollector, fifoVars
    <2>2. coll'.words = <<>> /\ Len(coll'.words) = 0
      BY <2>1 DEF NoMesh
    <2>3. CASE loc' = loc
      <3>1. RangeIsFrame' /\ WordsInOrder'
        BY <2>1, <2>3 DEF RangeIsFrame, WordsInOrder, InOrder, DecodeInputIsOneFrame
      <3>2. WordsAreFrames'
        BY <2>1, <2>2, <2>3, ConstantTypes DEF WordsAreFrames, OfFrame
      <3>3. QED
        BY <1>2, <1>4, <3>1, <3>2
    <2>4. CASE dpc \in {"append", "swap"}
      <3>1. PICK piece \in Pieces(loc.words) : loc' = [loc EXCEPT !.words = piece]
        BY <2>1, <2>4
      <3>2. PICK i \in 1 .. Len(loc.words), j \in 1 .. Len(loc.words) :
              piece = SubSeq(loc.words, i, j)
        BY DEF Pieces
      <3>3. /\ piece \in Seq(Nat) /\ Len(piece) <= Len(loc.words)
            /\ \A k \in 1 .. Len(piece) : \E m \in 1 .. Len(loc.words) : piece[k] = loc.words[m]
        BY <3>2, LocFields, PieceOf
      <3>4. /\ loc'.words = piece /\ loc'.slice = loc.slice
            /\ loc'.start = loc.start /\ loc'.end = loc.end
        BY <3>1 DEF DataType, LocType
      <3>5. WordsAreFrames'
        <4>1. Len(piece) <= Cap
          BY <3>3, LocFields, ConstantTypes DEF WordsAreFrames
        <4>2. loc.slice => OfFrame(loc.words)
          BY <2>4 DEF WordsAreFrames, Copying
        <4>3. loc.slice => \A k \in 1 .. Len(piece) : loc.start <= piece[k] /\ piece[k] < loc.end
          BY <3>3, <4>2 DEF OfFrame
        <4>4. QED
          BY <2>1, <2>2, <2>4, <3>4, <4>1, <4>3, ConstantTypes DEF WordsAreFrames, OfFrame
      <3>6. RangeIsFrame' /\ WordsInOrder'
        BY <2>1, <2>4, <3>1
           DEF RangeIsFrame, Copying, WordsInOrder, DecodeInputIsOneFrame, DataType, LocType
      <3>7. QED
        BY <1>2, <1>4, <3>5, <3>6
    <2>5. QED
      BY <2>1, <2>3, <2>4
  <1>7. CASE ~ClearCollector
    <2>1. UNCHANGED <<loc, coll>>
      BY <1>7 DEF GameNext, Start, MmioWrite, TextureSync, VsyncFrameDone, ViewerFlip, ClearDraw,
           SummaryCheck, CallNext, SummaryNext, Notify, SummaryLatch, SummaryBest,
           SummaryDecode, SummaryWake, StopWorker, JoinWorker, pipeVars
    <2>2. QED
      BY <1>2, <1>4, <1>5, <2>1
  <1>8. QED
    BY <1>6, <1>7

-----------------------------------------------------------------------------
(* What a copy of the range gives, of words and of matrices alike. *)
LEMMA CopiedWords ==
    ASSUME Known, DataType, RangeIsFrame
    PROVE  /\ Copied(mtx) = Copied(prg)
           /\ Copied(prg) \in Seq(Nat)
           /\ Len(Copied(prg)) <= Cap
           /\ loc.slice => OfFrame(Copied(prg))
           /\ hist.pushed <= loc.from + Cap =>
                /\ InOrder(Copied(prg))
                /\ Len(Copied(prg)) =
                     IF loc.slice THEN loc.end - loc.start ELSE hist.pushed
  <1> USE HistTypes, ConstantTypes DEF Known
  <1> DEFINE s == IF loc.slice THEN loc.start ELSE 0
             e == IF loc.slice THEN loc.end ELSE total
  <1>1. /\ s \in Nat /\ e \in Nat /\ s <= e /\ e <= hist.pushed /\ loc.from = s
    <2>1. /\ hist.pushed \in Nat /\ hist.mark \in Nat /\ hist.mark <= hist.pushed
          /\ total = hist.pushed
      BY DEF Unwrapped
    <2>2. loc.start \in Nat /\ loc.end \in Nat /\ loc.slice \in BOOLEAN
      BY LocFields
    <2>3. CASE loc.slice
      <3>1. loc.from = loc.start /\ loc.start <= loc.end /\ loc.end <= hist.mark
        BY <2>3 DEF RangeIsFrame
      <3>2. QED
        BY <2>1, <2>2, <2>3, <3>1
    <2>4. CASE ~loc.slice
      <3>1. loc.from = 0
        BY <2>4 DEF RangeIsFrame
      <3>2. QED
        BY <2>1, <2>4, <3>1
    <2>5. QED
      BY <2>3, <2>4
  <1>2. Copied(prg) = CopyRange(prg, s, e) /\ Copied(mtx) = Copied(prg)
    BY DEF Copied, CopyAll, Unwrapped
  <1> DEFINE w == CopyRange(prg, s, e)
  <1> HIDE DEF s, e
  <1>3. PICK lo \in Nat, n \in Nat :
          /\ w = [i \in 1 .. n |-> lo + i - 1]
          /\ n <= Cap /\ lo >= s
          /\ n > 0 => lo + n = e
          /\ hist.pushed <= s + Cap => lo = s /\ n = e - s
    BY <1>1, CopyIsRange
  <1> HIDE DEF w
  <1>4. w \in Seq(Nat) /\ Len(w) = n
    <2>1. \A i \in 1 .. n : lo + i - 1 \in Nat
      OBVIOUS
    <2>2. QED
      BY <1>3, <2>1
  <1>5. \A i \in 1 .. n : s <= w[i] /\ w[i] < e
    BY <1>1, <1>3
  <1>6. loc.slice => OfFrame(w)
    BY <1>4, <1>5 DEF OfFrame, s, e
  <1>7. hist.pushed <= loc.from + Cap => InOrder(w) /\ Len(w) = e - s
    BY <1>1, <1>3, <1>4 DEF InOrder
  <1>8. e - s = IF loc.slice THEN loc.end - loc.start ELSE hist.pushed
    BY DEF s, e, Unwrapped
  <1>9. QED
    BY <1>2, <1>3, <1>4, <1>6, <1>7, <1>8 DEF w

(* The steps of the worker, which change nothing of the FIFO. *)
LEMMA WorkerData ==
    ASSUME Known, DataInv, DecodeNext
    PROVE  DataInv'
  <1> USE KnownTypes, ConstantTypes DEF DataInv
  <1> DEFINE Drawn == MeshPushed' /\ MeshUncut'
  <1>1. UNCHANGED <<fifoVars, owed, phase>>
    BY DEF DecodeNext, WorkerRuns, ReadTotal, ReadGen, ReadRange, CopyWords, CopyMatrices,
         Decode, Collect, Rebuild, RebuildFails, Publish, FinishDecode, DecodeStep
  <1>2. UNCHANGED <<hist, total, mark, display, prg, mtx>>
    BY <1>1 DEF fifoVars
  <1>3. mesh' = mesh => Drawn
    BY <1>2 DEF MeshPushed, MeshUncut
  <1>4. NoLocals \in LocType
    BY EmptyRecords
  <1>5. ASSUME loc' = NoLocals, dpc' \notin Copying, UNCHANGED coll
        PROVE  RangeIsFrame' /\ WordsAreFrames' /\ WordsInOrder'
    BY <1>5 DEF NoLocals, RangeIsFrame, WordsAreFrames, WordsInOrder, DecodeInputIsOneFrame, Copying
  <1>6. CASE WorkerRuns \/ FinishDecode
    <2>1. UNCHANGED <<loc, last, coll, mesh>> /\ {dpc, dpc'} \subseteq {"idle", "finish", "total"}
      BY <1>6 DEF Known, Order, InDecode, WorkerRuns, WorkerEnter, WorkerWake, FinishDecode
    <2>2. QED
      BY <1>1, <1>2, <1>3, <2>1 DEF DataType, RangeIsFrame, WordsAreFrames, WordsInOrder,
           DecodeInputIsOneFrame, Copying
  <1>7. CASE ReadTotal \/ ReadGen
    <2>1. /\ UNCHANGED <<last, coll, mesh>>
          /\ {dpc, dpc'} \subseteq {"total", "gen", "range"}
          /\ \/ loc' = [loc EXCEPT !.total = total]
             \/ loc' = [loc EXCEPT !.gen = display.gen]
      BY <1>7 DEF ReadTotal, ReadGen, DecodeStep
    <2>2. total \in Nat /\ display.gen \in Nat
      OBVIOUS
    <2>3. DataType'
      BY <1>1, <2>1, <2>2 DEF DataType, LocType
    <2>4. loc'.slice = loc.slice /\ loc'.from = loc.from /\ loc'.words = loc.words
          /\ loc'.of = loc.of
      BY <2>1 DEF DataType, LocType
    <2>5. RangeIsFrame' /\ WordsAreFrames' /\ WordsInOrder'
      BY <2>1, <2>4 DEF RangeIsFrame, WordsAreFrames, WordsInOrder, DecodeInputIsOneFrame, Copying
    <2>6. QED
      BY <1>3, <2>1, <2>3, <2>5
  <1>8. CASE ReadRange
    <2>1. mesh' = mesh /\ coll' = coll /\ dpc = "range"
      BY <1>8 DEF ReadRange, DecodeStep
    <2>2. last' = last \/ last' = [last EXCEPT !.total = loc.total, !.gen = loc.gen]
      BY <1>8 DEF ReadRange
    <2>3. CASE loc' = NoLocals /\ dpc' = "finish"
      BY <1>1, <1>3, <1>4, <1>5, <2>1, <2>2, <2>3 DEF DataType, Copying, LocType
    <2>4. CASE loc' = loc /\ dpc' = "words" /\ loc.gen = 0
      <3>1. loc.slice = FALSE /\ loc.from = 0 /\ loc.of = 0 /\ loc.words = <<>>
        BY <2>1 DEF RangeIsFrame, Copying, DataType, LocType
      <3>2. QED
        BY <1>1, <1>3, <2>1, <2>2, <2>4, <3>1 DEF DataType, LocType, RangeIsFrame, WordsAreFrames,
             WordsInOrder, DecodeInputIsOneFrame, Copying
    <2>5. CASE /\ dpc' = "words" /\ display.end > display.start
               /\ loc' = [loc EXCEPT !.start = display.start, !.end = display.end,
                                     !.slice = TRUE, !.of = display.gen, !.from = hist.disp]
      <3>1. /\ display.start \in Nat /\ display.end \in Nat /\ display.gen \in Nat
            /\ hist.disp = display.start /\ display.end <= hist.mark
            /\ \A c \in hist.cuts : ~(display.start < c /\ c < display.end)
        BY DEF Known, Placement, Bookkeeping, FramesAreDisjoint, NoFrameSpansUpload, DispTo,
             Unwrapped, FifoTypeOK, PositionType
      <3>2. DataType'
        BY <1>1, <2>1, <2>2, <2>5, <3>1 DEF DataType, LocType
      <3>3. /\ loc'.slice = TRUE /\ loc'.from = display.start /\ loc'.start = display.start
            /\ loc'.end = display.end /\ loc'.words = loc.words
        BY <2>5, <3>1 DEF DataType, LocType
      <3>4. RangeIsFrame'
        BY <1>2, <2>5, <3>1, <3>3 DEF RangeIsFrame, Copying
      <3>5. WordsAreFrames' /\ WordsInOrder'
        BY <2>1, <2>5, <3>3 DEF RangeIsFrame, WordsAreFrames, OfFrame, WordsInOrder,
             DecodeInputIsOneFrame, Copying
      <3>6. QED
        BY <1>3, <2>1, <3>2, <3>4, <3>5
    <2>6. QED
      BY <1>8, <2>3, <2>4, <2>5 DEF ReadRange, DecodeStep
  <1>9. CASE CopyWords
    <2>1. /\ UNCHANGED <<last, coll, mesh>> /\ dpc = "words" /\ dpc' = "mtx"
          /\ loc' = [loc EXCEPT !.words = Copied(prg)]
      BY <1>9 DEF CopyWords, DecodeStep
    <2>2. DataType'
      BY <1>1, <2>1, CopiedWords DEF DataType, LocType
    <2>3. /\ loc'.words = Copied(prg)
          /\ loc'.slice = loc.slice /\ loc'.from = loc.from /\ loc'.of = loc.of
          /\ loc'.start = loc.start /\ loc'.end = loc.end /\ loc'.gen = loc.gen
      BY <2>1 DEF DataType, LocType
    <2>4. RangeIsFrame'
      BY <1>2, <2>1, <2>3 DEF RangeIsFrame, Copying
    <2>5. WordsAreFrames'
      BY <2>1, <2>3, CopiedWords DEF WordsAreFrames, OfFrame, Copying
    <2>6. WordsInOrder'
      <3>1. loc.slice => loc.end - loc.start <= hist.pushed
        BY LocFields DEF RangeIsFrame
      <3>2. QED
        BY <1>2, <2>1, <2>3, <3>1, CopiedWords DEF WordsInOrder, InOrder, DecodeInputIsOneFrame
    <2>7. QED
      BY <1>3, <2>1, <2>2, <2>4, <2>5, <2>6
  <1>10. CASE CopyMatrices
    <2> DEFINE m == Copied(mtx)
               n == Len(loc.words)
               k == IF Len(m) > n THEN n ELSE Len(m)
    <2>1. /\ UNCHANGED <<last, coll, mesh>> /\ dpc = "mtx" /\ dpc' = "decode"
          /\ loc' = [loc EXCEPT !.mtx = SubSeq(m, 1, k), !.lapped = hist.pushed > loc.from + Cap]
      BY <1>10 DEF CopyMatrices, DecodeStep
    <2>2. m \in Seq(Nat) /\ n \in Nat /\ k \in Nat /\ k <= n /\ k <= Len(m)
      <3>1. m \in Seq(Nat) /\ n \in Nat
        BY CopiedWords, LocFields
      <3>2. QED
        BY <3>1
    <2>3. hist.pushed <= loc.from + Cap => InOrder(m) /\ k = n
      <3>1. hist.pushed <= loc.from + Cap =>
               /\ InOrder(m)
               /\ Len(m) = IF loc.slice THEN loc.end - loc.start ELSE hist.pushed
               /\ n <= hist.pushed
               /\ loc.slice => n = loc.end - loc.start
        BY <2>1, CopiedWords DEF WordsInOrder, InOrder
      <3>2. QED
        BY <2>2, <3>1
    <2> HIDE DEF m, k
    <2>4. SubSeq(m, 1, k) \in Seq(Nat) /\ Len(SubSeq(m, 1, k)) = k
          /\ SubSeq(m, 1, k) = [i \in 1 .. k |-> m[i]]
      BY <2>2
    <2>5. DataType'
      <3>1. (hist.pushed > loc.from + Cap) \in BOOLEAN
        OBVIOUS
      <3>2. loc' \in LocType
        BY <2>1, <2>4, <3>1 DEF DataType, LocType
      <3>3. QED
        BY <1>1, <2>1, <3>2 DEF DataType
    <2>6. /\ loc'.words = loc.words /\ loc'.mtx = SubSeq(m, 1, k)
          /\ loc'.lapped = (hist.pushed > loc.from + Cap)
          /\ loc'.slice = loc.slice /\ loc'.from = loc.from /\ loc'.of = loc.of
          /\ loc'.start = loc.start /\ loc'.end = loc.end /\ loc'.gen = loc.gen
      BY <2>1 DEF DataType, LocType
    <2>7. RangeIsFrame' /\ WordsAreFrames'
      BY <1>2, <2>1, <2>6 DEF RangeIsFrame, WordsAreFrames, OfFrame, Copying
    <2>8. WordsInOrder'
      <3>1. Len(loc'.mtx) <= Len(loc'.words)
        BY <2>2, <2>4, <2>6
      <3>2. ASSUME ~loc'.lapped
            PROVE  /\ loc'.words = [i \in 1 .. n |-> loc.from + i - 1]
                   /\ loc'.mtx = loc'.words
                   /\ loc.slice => n = loc.end - loc.start
        <4>1. hist.pushed <= loc.from + Cap
          <5>1. ~(hist.pushed > loc.from + Cap)
            BY <2>6, <3>2, Zenon
          <5>2. hist.pushed \in Nat /\ loc.from \in Nat /\ Cap \in Nat
            BY LocFields
          <5>3. QED
            BY <5>1, <5>2
        <4>2. loc.words = [i \in 1 .. n |-> loc.from + i - 1]
              /\ (loc.slice => n = loc.end - loc.start)
          BY <2>1, <4>1 DEF WordsInOrder, InOrder
        <4>3. m = [i \in 1 .. Len(m) |-> loc.from + i - 1] /\ k = n
          BY <2>3, <4>1 DEF InOrder
        <4>4. \A i \in 1 .. k : m[i] = loc.from + i - 1
          BY <2>2, <4>3
        <4>5. SubSeq(m, 1, k) = [i \in 1 .. n |-> loc.from + i - 1]
          BY <2>4, <4>3, <4>4
        <4>6. QED
          BY <2>6, <4>2, <4>5
      <3>3. QED
        BY <2>1, <2>6, <3>1, <3>2 DEF WordsInOrder, DecodeInputIsOneFrame
    <2>9. QED
      BY <1>3, <2>1, <2>5, <2>7, <2>8
  <1>11. CASE Decode
    <2>1. /\ UNCHANGED <<coll, mesh>> /\ dpc = "decode"
          /\ \/ dpc' = "finish" /\ loc' = NoLocals
             \/ dpc' = "append" /\ loc' = loc
          /\ last' = [total |-> loc.total, gen |-> loc.gen,
                      dlTotal |-> IF WorthDecoding /\ ~loc.slice THEN loc.total ELSE last.dlTotal]
      BY <1>11 DEF Decode, DecodeStep
    <2>2. DataType'
      BY <1>1, <1>4, <2>1 DEF DataType, LocType
    <2>3. CASE dpc' = "finish" /\ loc' = NoLocals
      BY <1>3, <1>5, <2>1, <2>2, <2>3 DEF Copying
    <2>4. CASE dpc' = "append" /\ loc' = loc
      BY <1>2, <1>3, <2>1, <2>2, <2>4 DEF RangeIsFrame, WordsAreFrames, OfFrame, WordsInOrder,
           DecodeInputIsOneFrame, Copying
    <2>5. QED
      BY <2>1, <2>3, <2>4
  <1>12. CASE Collect
    <2>1. /\ UNCHANGED <<loc, last, mesh>> /\ dpc = "append" /\ dpc' = "rebuild"
          /\ coll' = [words |-> loc.words, of |-> loc.of]
      BY <1>12 DEF Collect, DecodeStep
    <2>2. DataType'
      BY <1>1, <2>1 DEF DataType, LocType, Piece
    <2>3. RangeIsFrame' /\ WordsAreFrames' /\ WordsInOrder'
      BY <1>2, <2>1 DEF RangeIsFrame, WordsAreFrames, OfFrame, WordsInOrder, DecodeInputIsOneFrame,
           Copying
    <2>4. QED
      BY <1>3, <2>1, <2>2, <2>3
  <1>13. CASE Rebuild
    <2>1. UNCHANGED <<last, coll>> /\ dpc = "rebuild"
      BY <1>13 DEF Rebuild, DecodeStep
    <2>2. CASE dpc' = "finish" /\ loc' = NoLocals /\ mesh' = [mesh EXCEPT !.words = <<>>]
      <3>1. DataType'
        BY <1>1, <1>4, <2>1, <2>2, ClearedMesh DEF DataType
      <3>2. Drawn
        BY <2>2, ClearedMesh, NoWordsLeft DEF MeshPushed, MeshUncut
      <3>3. QED
        BY <1>5, <2>1, <2>2, <3>1, <3>2 DEF Copying
    <2>3. CASE dpc' = "swap" /\ loc' = [loc EXCEPT !.words = coll.words] /\ mesh' = mesh
      <3>1. DataType'
        BY <1>1, <2>1, <2>3 DEF DataType, LocType, Piece
      <3>2. /\ loc'.words = coll.words
            /\ loc'.slice = loc.slice /\ loc'.from = loc.from /\ loc'.of = loc.of
            /\ loc'.start = loc.start /\ loc'.end = loc.end /\ loc'.gen = loc.gen
        BY <2>3 DEF DataType, LocType
      <3>3. RangeIsFrame' /\ WordsAreFrames' /\ WordsInOrder'
        BY <1>2, <2>1, <2>3, <3>2 DEF RangeIsFrame, WordsAreFrames, OfFrame, WordsInOrder,
             DecodeInputIsOneFrame, Copying
      <3>4. QED
        BY <1>3, <2>3, <3>1, <3>3
    <2>4. QED
      BY <1>13, <2>2, <2>3 DEF Rebuild, DecodeStep
  <1>14. CASE Publish
    <2>1. /\ UNCHANGED <<last, coll>> /\ dpc = "swap" /\ dpc' = "finish" /\ loc' = NoLocals
          /\ mesh' = [words |-> loc.words, of |-> loc.of]
      BY <1>14 DEF Publish, DecodeStep
    <2>2. DataType'
      BY <1>1, <1>4, <2>1 DEF DataType, LocType, Piece
    <2>3. loc.of > 0 => /\ OfFrame(loc.words) /\ loc.end <= hist.pushed
                        /\ \A c \in hist.cuts : ~(loc.start < c /\ c < loc.end)
      <3>1. loc.of > 0 => loc.slice
        BY LocFields DEF RangeIsFrame
      <3>2. loc.slice => OfFrame(loc.words)
        BY <2>1 DEF WordsAreFrames, Copying
      <3>3. loc.slice => loc.end <= hist.pushed
        BY LocFields DEF RangeIsFrame
      <3>4. QED
        BY <3>1, <3>2, <3>3 DEF RangeIsFrame
    <2>4. Drawn
      <3>1. MeshPushed'
        <4>1. ASSUME loc.of > 0, NEW i \in 1 .. Len(loc.words)
              PROVE  loc.words[i] < hist.pushed
          <5>1. loc.words[i] < loc.end /\ loc.end <= hist.pushed
            BY <2>3, <4>1 DEF OfFrame
          <5>2. loc.words[i] \in Nat /\ loc.end \in Nat /\ hist.pushed \in Nat
            BY <4>1, LocFields
          <5>3. QED
            BY <5>1, <5>2
        <4>2. mesh'.words = loc.words /\ mesh'.of = loc.of /\ hist' = hist
          BY <1>2, <2>1
        <4>3. QED
          BY <4>1, <4>2 DEF MeshPushed
      <3>2. ASSUME NEW c \in hist.cuts, loc.of > 0,
                   NEW i \in 1 .. Len(loc.words), NEW j \in 1 .. Len(loc.words),
                   loc.words[i] < c, loc.words[j] >= c
            PROVE  FALSE
        <4>1. /\ loc.start <= loc.words[i] /\ loc.words[j] < loc.end
              /\ ~(loc.start < c /\ c < loc.end)
          BY <2>3, <3>2 DEF OfFrame
        <4>2. /\ c \in Nat /\ loc.start \in Nat /\ loc.end \in Nat
              /\ loc.words[i] \in Nat /\ loc.words[j] \in Nat
          BY LocFields
        <4>3. QED
          BY <3>2, <4>1, <4>2
      <3>3. QED
        BY <1>2, <2>1, <3>1, <3>2 DEF MeshUncut
    <2>5. QED
      BY <1>5, <2>1, <2>2, <2>4 DEF Copying
  <1>15. CASE RebuildFails
    <2>1. /\ UNCHANGED <<last, coll, mesh>> /\ dpc' = "finish" /\ loc' = NoLocals
      BY <1>15 DEF RebuildFails
    <2>2. DataType'
      BY <1>1, <1>4, <2>1 DEF DataType
    <2>3. QED
      BY <1>3, <1>5, <2>1, <2>2 DEF Copying
  <1>16. QED
    BY <1>6, <1>7, <1>8, <1>9, <1>10, <1>11, <1>12, <1>13, <1>14, <1>15 DEF DecodeNext

(* What is decoded and drawn, while fewer than 2^32 words were written.     *)
THEOREM DataInvariance ==
    ASSUME MaxWords < TotalMod
    PROVE  Spec => [](Known /\ DataInv)
  <1>1. Spec => [](Order /\ WorkerInv /\ Placement)
    BY OrderInvariance, HandshakeIsKept, Invariance, FifoIsKept, PlacementInvariance, PTL
  <1>2. Init => Unwrapped /\ DataInv
    <2>1. Init => Unwrapped
      BY ConstantTypes DEF Init, FifoInit, Unwrapped
    <2>2. QED
      BY <2>1, InitData
  <1>3. Placement /\ Unwrapped /\ [Next]_vars => Unwrapped'
    BY FifoStep, UnwrappedStep
  <1>4. Known /\ DataInv /\ [Next]_vars => DataInv'
    <2>1. DataInv /\ UNCHANGED vars => DataInv'
      BY DEF DataInv, DataType, RangeIsFrame, WordsAreFrames, OfFrame, WordsInOrder, InOrder,
           DecodeInputIsOneFrame, MeshPushed, MeshUncut, vars, fifoVars, pipeVars
    <2>2. QED
      BY <2>1, MainData, WorkerData DEF Next, Ended
  <1>5. Known <=> Order /\ WorkerInv /\ Placement /\ Unwrapped
    BY DEF Known
  <1>6. QED
    BY <1>1, <1>2, <1>3, <1>4, <1>5, PTL DEF Spec

(* The interpreter gets one whole latched frame in order, each word with its*)
(* own matrix, for every ring and every number of words, although           *)
(* decode_fifos_locked reads the FIFO in critical sections of their own.    *)
THEOREM OneFrameIsDecoded ==
    ASSUME MaxWords < TotalMod
    PROVE  Spec => []DecodeInputIsOneFrame
  <1>1. DataInv => DecodeInputIsOneFrame
    BY DEF DataInv, WordsInOrder
  <1>2. QED
    BY <1>1, DataInvariance, PTL

(* What the decoder holds of a latched frame lies within it, so no upload   *)
(* splits that either.                                                      *)
LEMMA NothingMixed ==
    ASSUME Known, DataInv
    PROVE  MeshSpansNoUpload
  <1>1. Mixes(mesh.words) => mesh.of = 0
    BY MeshFields DEF DataInv, MeshUncut, Mixes
  <1>2. ASSUME loc.slice PROVE ~Mixes(loc.words)
    <2>1. OfFrame(loc.words)
      BY <1>2 DEF DataInv, RangeIsFrame, WordsAreFrames
    <2>2. \A c \in hist.cuts : ~(loc.start < c /\ c < loc.end)
      BY <1>2 DEF DataInv, RangeIsFrame
    <2>3. ASSUME NEW c \in hist.cuts,
                 NEW i \in 1 .. Len(loc.words), NEW j \in 1 .. Len(loc.words),
                 loc.words[i] < c, loc.words[j] >= c
          PROVE  FALSE
      <3>1. /\ loc.start <= loc.words[i] /\ loc.words[j] < loc.end
            /\ ~(loc.start < c /\ c < loc.end)
        BY <2>1, <2>2 DEF OfFrame
      <3>2. /\ c \in Nat /\ loc.start \in Nat /\ loc.end \in Nat
            /\ loc.words[i] \in Nat /\ loc.words[j] \in Nat
        BY KnownTypes, LocFields DEF DataInv
      <3>3. QED
        BY <2>3, <3>1, <3>2
    <2>4. QED
      BY <2>3 DEF Mixes
  <1>3. ASSUME ~loc.slice PROVE Mixes(loc.words) => loc.of = 0 /\ loc.gen = 0
    <2>1. CASE dpc \in Copying
      BY <1>3, <2>1 DEF DataInv, RangeIsFrame
    <2>2. CASE dpc \notin Copying
      BY <2>2 DEF DataInv, RangeIsFrame, Mixes
    <2>3. QED
      BY <2>1, <2>2
  <1>4. QED
    BY <1>1, <1>2, <1>3, LocFields DEF DataInv, MeshSpansNoUpload

(* The types of both parts, and that the mesh of a latched frame never mixes*)
(* words from before and after a texture upload, however it was cleared and *)
(* rebuilt: only a decode that had read that nothing was latched yet, and so*)
(* took the whole ring, makes such a mesh.                                  *)
THEOREM PipelineSafe ==
    ASSUME MaxWords < TotalMod
    PROVE  Spec => []PipeInv
  <1>1. Known /\ DataInv => MeshSpansNoUpload
    BY NothingMixed
  <1>2. Known /\ DataInv => PipeTypeOK
    BY DEF Known, Order, InDecode, WorkerInv, Placement, Bookkeeping, DataInv, DataType, LocType,
         WordsAreFrames, WordsInOrder, PipeTypeOK
  <1>3. QED
    BY <1>1, <1>2, DataInvariance, PTL DEF PipeInv

-----------------------------------------------------------------------------
(* What the worker has read, while nothing new is on its way to it.         *)
Seen ==
    /\ dpc = "idle" => last.total = total /\ last.gen = display.gen
    /\ dpc \in {"gen", "range", "words", "mtx", "decode"} => loc.total = total
    /\ dpc \in {"range", "words", "mtx", "decode"} => loc.gen = display.gen
    /\ dpc \in {"append", "rebuild", "swap", "finish"} =>
          last.total = total /\ last.gen = display.gen

(* Where the main thread is when there is no worker to tell. *)
Places ==
    /\ mpc = "join" => phase = "summarised"
    /\ mpc = "down" => \/ phase = "summarised"
                       \/ phase = "game" /\ dpc = "idle" /\ ~kick /\ ~owed

CaughtUp == Places /\ (~kick /\ ~owed => Seen)

LEMMA InitCaughtUp == Init => CaughtUp
  BY DEF Init, FifoInit, WorkerInit, CaughtUp, Places, Seen

(* The main thread raises a kick, or owes one, whenever it adds to the FIFO.*)
LEMMA MainCaughtUp ==
    ASSUME Order, WorkerInv, CaughtUp, GameNext \/ SummaryCheck \/ CallNext
    PROVE  CaughtUp'
  <1> USE DEF CaughtUp, Places
  <1>1. ASSUME Places', UNCHANGED <<dpc, last, total, display>>,
               loc'.total = loc.total, loc'.gen = loc.gen,
               ~kick' /\ ~owed' => ~kick /\ ~owed
        PROVE  CaughtUp'
    BY <1>1 DEF Seen
  <1>2. CASE Start
    BY <1>1, <1>2 DEF Start, InitWorker, fifoVars, pipeVars
  <1>3. CASE MmioWrite
    BY <1>3 DEF MmioWrite, Playing, workerVars
  <1>4. CASE TextureSync
    BY <1>1, <1>4 DEF TextureSync, Playing, MeshEnable, workerVars, pipeVars
  <1>5. CASE VsyncFrameDone \/ SummaryLatch
    <2>1. /\ mpc' = "run" /\ ~owed /\ total' = total
          /\ owed' = (display' # display)
          /\ UNCHANGED <<dpc, loc, last, kick>>
      BY <1>5 DEF VsyncFrameDone, SummaryLatch, Playing, LatchPrgFrame, workerVars
    <2>2. CASE display' = display
      BY <1>1, <2>1, <2>2
    <2>3. CASE display' # display
      BY <2>1, <2>3
    <2>4. QED
      BY <2>2, <2>3
  <1>6. CASE Notify \/ ViewerFlip
    BY <1>6 DEF Notify, ViewerFlip, Kick
  <1>7. CASE ClearDraw
    BY <1>1, <1>7 DEF ClearDraw, Playing, fifoVars, workerVars
  <1>8. CASE ClearCollector
    <2>1. loc'.total = loc.total /\ loc'.gen = loc.gen
      BY <1>8 DEF ClearCollector, Order, NumbersType, NoLocals
    <2>2. UNCHANGED <<dpc, last, total, display, kick, owed, mpc>> /\ phase = "clear"
      BY <1>8 DEF ClearCollector, fifoVars, workerVars
    <2>3. QED
      BY <1>1, <2>1, <2>2
  <1>9. CASE SummaryCheck
    BY <1>1, <1>9 DEF SummaryCheck, fifoVars, workerVars
  <1>10. CASE SummaryBest
    <2>1. CASE owed'
      BY <1>10, <2>1 DEF SummaryBest, workerVars
    <2>2. CASE ~owed'
      BY <1>1, <1>10, <2>2 DEF SummaryBest, fifoVars, workerVars
    <2>3. QED
      BY <2>1, <2>2
  <1>11. CASE SummaryDecode
    BY <1>11 DEF SummaryDecode, DecodeCall
  <1>12. CASE SummaryWake
    BY <1>1, <1>12 DEF SummaryWake, DecodeWake, fifoVars
  <1>13. CASE StopWorker
    BY <1>13 DEF StopWorker, Shutdown, pipeVars
  <1>14. CASE JoinWorker
    BY <1>1, <1>14 DEF JoinWorker, Join, fifoVars, pipeVars
  <1>15. QED
    BY <1>2, <1>3, <1>4, <1>5, <1>6, <1>7, <1>8, <1>9, <1>10, <1>11, <1>12, <1>13, <1>14
       DEF GameNext, CallNext, SummaryNext

(* A decode takes what it has read as its last, and a kick that came in the *)
(* meantime starts another.                                                 *)
LEMMA WorkerCaughtUp ==
    ASSUME Order, WorkerInv, CaughtUp, DecodeNext
    PROVE  CaughtUp'
  <1> USE DEF CaughtUp
  <1>1. UNCHANGED <<total, display, owed, phase, mpc>>
    BY DEF DecodeNext, WorkerRuns, WorkerEnter, WorkerWake, ReadTotal, ReadGen, ReadRange, CopyWords,
         CopyMatrices, Decode, Collect, Rebuild, RebuildFails, Publish, FinishDecode, WorkerFinish,
         DecodeStep, fifoVars, workerVars
  <1>2. Places'
    <2>1. mpc # "down"
      BY DEF Order, InDecode, WorkerInv, WorkerExists, DecodeNext, WorkerRuns, WorkerEnter,
           WorkerWake, ReadTotal, ReadGen, ReadRange, CopyWords, CopyMatrices, Decode, Collect,
           Rebuild, RebuildFails, Publish, FinishDecode, WorkerFinish, DecodeStep
    <2>2. QED
      BY <1>1, <2>1 DEF Places
  <1>3. CASE WorkerRuns \/ FinishDecode
    <2>1. /\ last' = last /\ dpc \in {"idle", "finish"}
          /\ \/ dpc' = "total"
             \/ dpc' = "idle" /\ kick' = kick
      BY <1>3 DEF WorkerRuns, WorkerEnter, WorkerWake, FinishDecode, WorkerFinish, WorkerLoop,
           Order, InDecode
    <2>2. QED
      BY <1>1, <1>2, <2>1 DEF Seen
  <1>4. CASE ReadTotal \/ ReadGen
    <2>1. /\ UNCHANGED <<last, kick>>
          /\ \/ dpc = "total" /\ dpc' = "gen" /\ loc'.total = total
             \/ dpc = "gen" /\ dpc' = "range" /\ loc'.gen = display.gen /\ loc'.total = loc.total
      BY <1>4 DEF ReadTotal, ReadGen, DecodeStep, workerVars, Order, NumbersType, NoLocals
    <2>2. QED
      BY <1>1, <1>2, <2>1 DEF Seen
  <1>5. CASE ReadRange
    <2>1. /\ kick' = kick /\ dpc = "range"
          /\ \/ dpc' = "words" /\ loc'.total = loc.total /\ loc'.gen = loc.gen
             \/ dpc' = "finish" /\ last'.total = loc.total /\ last'.gen = loc.gen
      BY <1>5 DEF ReadRange, NothingNew, DecodeStep, workerVars, Order, NumbersType, NoLocals
    <2>2. QED
      BY <1>1, <1>2, <2>1 DEF Seen
  <1>6. CASE CopyWords \/ CopyMatrices
    <2>1. /\ kick' = kick /\ dpc \in {"words", "mtx"} /\ dpc' \in {"mtx", "decode"}
          /\ loc'.total = loc.total /\ loc'.gen = loc.gen
      BY <1>6 DEF CopyWords, CopyMatrices, DecodeStep, workerVars, Order, NumbersType, NoLocals
    <2>2. QED
      BY <1>1, <1>2, <2>1 DEF Seen
  <1>7. CASE Decode
    <2>1. /\ kick' = kick /\ dpc = "decode" /\ dpc' \in {"finish", "append"}
          /\ last'.total = loc.total /\ last'.gen = loc.gen
      BY <1>7 DEF Decode, DecodeStep, workerVars
    <2>2. QED
      BY <1>1, <1>2, <2>1 DEF Seen
  <1>8. CASE Collect \/ Rebuild \/ RebuildFails \/ Publish
    <2>1. /\ UNCHANGED <<last, kick>> /\ dpc \in {"append", "rebuild", "swap"}
          /\ dpc' \in {"rebuild", "swap", "finish"}
      BY <1>8 DEF Collect, Rebuild, RebuildFails, Publish, DecodeStep, workerVars
    <2>2. QED
      BY <1>1, <1>2, <2>1 DEF Seen
  <1>9. QED
    BY <1>3, <1>4, <1>5, <1>6, <1>7, <1>8 DEF DecodeNext

(* Nothing is left undecoded while the worker rests and nobody is about to  *)
(* tell it, for any number of words, frames and kicks: the flag that a kick *)
(* raises is cleared before the decode, and the counters are read after.    *)
THEOREM NothingIsLeftBehind == Spec => []NothingLeftBehind
  <1>1. CaughtUp /\ UNCHANGED vars => CaughtUp'
    BY DEF CaughtUp, Places, Seen, vars, fifoVars, workerVars, pipeVars
  <1>2. Order /\ WorkerInv /\ CaughtUp /\ [Next]_vars => CaughtUp'
    BY <1>1, MainCaughtUp, WorkerCaughtUp DEF Next, Ended
  <1>3. Order /\ CaughtUp => NothingLeftBehind
    BY DEF Order, InDecode, CaughtUp, Seen, NothingLeftBehind
  <1>4. QED
    BY <1>2, <1>3, InitCaughtUp, OrderInvariance, HandshakeIsKept, Invariance, PTL DEF Spec
=============================================================================
