------------------------------- MODULE PrgFifo -------------------------------
(***************************************************************************)
(* The GEO PRG FIFO of lib/model2/hw/model2_hw_fifo.c: a ring of Cap words *)
(* with a ring of TGP matrices beside it, addressed by a 32-bit counter of *)
(* all words ever written; the mark where the frame in progress began; the *)
(* range of the last completed frame, which the decode worker reads; and   *)
(* the range of the densest frame, which the offline summary reads.  Every *)
(* operation here is one critical section of g_fifo_mtx, hence one action. *)
(*                                                                         *)
(* A word, and the matrix stored with it, is abstracted to its serial      *)
(* number: how many words had been retained before it.  The counter total  *)
(* wraps at TotalMod (2^32 in the code); `hist' keeps the same positions   *)
(* as unwrapped serial numbers, so that what a copy returns can be compared*)
(* with what was written.  hist is never read by an action's guard, except *)
(* for the named bounds MaxWords and MaxFrame.                             *)
(***************************************************************************)
EXTENDS Naturals, Sequences

CONSTANTS Cap,       \* GEO_PRG_CAP, 262144 words
          TotalMod,  \* the width of g_geo_prg_total, 2^32
          MaxWords,  \* bound: words retained in a behaviour
          MaxFrame,  \* bound: words between two latches, below TotalMod
          MaxGen     \* bound: publications since a reset

ASSUME FifoAssumption ==
    /\ Cap \in Nat \ {0}
    /\ TotalMod \in Nat \ {0}
    /\ TotalMod % Cap = 0
    /\ MaxWords \in Nat
    /\ MaxFrame \in Nat /\ MaxFrame < TotalMod
    /\ MaxGen \in Nat

VARIABLES prg,         \* g_geo_prg: slot -> word
          mtx,         \* g_prg_mtx: slot -> matrix current at that write
          total,       \* g_geo_prg_total
          mark,        \* g_prg_frame_mark
          display,     \* g_prg_display_{start,end,gen}
          best,        \* g_prg_best_{start,end,words}
          meshEnable,  \* g_prg_mesh_enable
          hist         \* history: the positions above, unwrapped

fifoVars == <<prg, mtx, total, mark, display, best, meshEnable, hist>>

Empty == Cap + MaxWords  \* content of a slot never written

FifoInit ==
    /\ prg = [s \in 0 .. Cap - 1 |-> Empty]
    /\ mtx = [s \in 0 .. Cap - 1 |-> Empty]
    /\ total = 0
    /\ mark = 0
    /\ display = [start |-> 0, end |-> 0, gen |-> 0]
    /\ best = [start |-> 0, end |-> 0, words |-> 0]
    /\ meshEnable = TRUE
    /\ hist = [pushed |-> 0, mark |-> 0, disp |-> 0, best |-> 0, cuts |-> {}]

-----------------------------------------------------------------------------
(* Seeded fault: the counter is wider than the code's and does not wrap.    *)
PushWord_NoWrap ==
    /\ hist.pushed < MaxWords
    /\ meshEnable
    /\ prg' = [prg EXCEPT ![total % Cap] = hist.pushed]
    /\ mtx' = [mtx EXCEPT ![total % Cap] = hist.pushed]
    /\ total' = total + 1
    /\ hist' = [hist EXCEPT !.pushed = @ + 1]
    /\ UNCHANGED <<mark, display, best, meshEnable>>

(* prg_push_locked: a word written while mesh retention is off is dropped. *)
PushWord ==
    /\ hist.pushed < MaxWords
    /\ hist.pushed - hist.mark < MaxFrame
    /\ \/ /\ meshEnable
          /\ prg' = [prg EXCEPT ![total % Cap] = hist.pushed]
          /\ mtx' = [mtx EXCEPT ![total % Cap] = hist.pushed]
          /\ total' = IF total + 1 = TotalMod THEN 0 ELSE total + 1
          /\ hist' = [hist EXCEPT !.pushed = @ + 1]
       \/ /\ ~meshEnable
          /\ UNCHANGED <<prg, mtx, total, hist>>
    /\ UNCHANGED <<mark, display, best, meshEnable>>

(* Seeded fault: re-enabling keeps the partial frame. *)
MeshEnable_KeepsFrame(on) ==
    /\ meshEnable' = on
    /\ hist' = IF on THEN [hist EXCEPT !.cuts = @ \union {hist.pushed}] ELSE hist
    /\ UNCHANGED <<prg, mtx, total, mark, display, best>>

(* model2_hw_prg_mesh_enable, called around the texture upload. *)
MeshEnable(on) ==
    /\ meshEnable' = on
    /\ \/ /\ on
          /\ mark' = total
          /\ hist' = [hist EXCEPT !.mark = hist.pushed,
                                  !.cuts = @ \union {hist.pushed}]
       \/ ~on /\ UNCHANGED <<mark, hist>>
    /\ UNCHANGED <<prg, mtx, total, display, best>>

(* Seeded fault: off by one in the test for an empty frame. *)
FrameHasWords_OffByOne == total > mark + 1

(* The condition under which a latch publishes: the frame pushed words. *)
FrameHasWords == total > mark

(* Seeded fault: the mark stays where the published frame began. *)
LatchPrgFrame_KeepsMark ==
    /\ display.gen < MaxGen
    /\ FrameHasWords
    /\ display' = [start |-> mark, end |-> total, gen |-> display.gen + 1]
    /\ hist' = [hist EXCEPT !.disp = hist.mark]
    /\ UNCHANGED <<prg, mtx, total, mark, best, meshEnable>>

(* model2_hw_latch_prg_frame, the end of every geo_vsync_wait. *)
LatchPrgFrame ==
    LET words == total - mark IN
    /\ display.gen < MaxGen
    /\ mark' = total
    /\ \/ /\ FrameHasWords
          /\ display' = [start |-> mark, end |-> total, gen |-> display.gen + 1]
          /\ best' = IF words > best.words
                     THEN [start |-> mark, end |-> total, words |-> words]
                     ELSE best
          /\ hist' = [hist EXCEPT
                        !.mark = hist.pushed, !.disp = hist.mark,
                        !.best = IF words > best.words THEN hist.mark ELSE @]
       \/ /\ ~FrameHasWords
          /\ hist' = [hist EXCEPT !.mark = hist.pushed]
          /\ UNCHANGED <<display, best>>
    /\ UNCHANGED <<prg, mtx, total, meshEnable>>

(* The condition under which model2_hw_prg_publish_best changes anything. *)
BestDiffers ==
    /\ best.words > 0
    /\ <<display.start, display.end>> # <<best.start, best.end>>

PublishBest ==
    /\ display.gen < MaxGen
    /\ BestDiffers
    /\ display' = [start |-> best.start, end |-> best.end, gen |-> display.gen + 1]
    /\ hist' = [hist EXCEPT !.disp = hist.best]
    /\ UNCHANGED <<prg, mtx, total, mark, best, meshEnable>>

(* model2_hw_fifo_reset_counts, and the same assignments of model2_hw_reset:
   the rings keep their words and retention keeps its setting. *)
ResetCounts ==
    /\ total' = 0
    /\ mark' = 0
    /\ display' = [start |-> 0, end |-> 0, gen |-> 0]
    /\ best' = [start |-> 0, end |-> 0, words |-> 0]
    /\ hist' = [pushed |-> 0, mark |-> 0, disp |-> 0, best |-> 0, cuts |-> {}]
    /\ UNCHANGED <<prg, mtx, meshEnable>>

FifoNext ==
    \/ PushWord
    \/ \E on \in BOOLEAN : MeshEnable(on)
    \/ LatchPrgFrame
    \/ PublishBest
    \/ ResetCounts

FifoSpec == FifoInit /\ [][FifoNext]_fifoVars

-----------------------------------------------------------------------------
(* model2_hw_prg_copy_range and model2_hw_prg_matrix_copy_range: the range  *)
(* clamped to what the ring still holds.                                    *)
Oldest == IF total > Cap THEN total - Cap ELSE 0

(* Seeded fault: overwritten words are not clamped away. *)
CopyRange_NoClamp(ring, start, end) ==
    LET hi == IF end > total THEN total ELSE end
    IN  [i \in 1 .. (IF hi > start THEN hi - start ELSE 0) |-> ring[(start + i - 1) % Cap]]

CopyRange(ring, start, end) ==
    LET lo == IF start < Oldest THEN Oldest ELSE start
        hi == IF end > total THEN total ELSE end
    IN  [i \in 1 .. (IF hi > lo THEN hi - lo ELSE 0) |-> ring[(lo + i - 1) % Cap]]

(* model2_hw_prg_copy and model2_hw_prg_matrix_copy: everything retained. *)
CopyAll(ring) == CopyRange(ring, 0, total)

-----------------------------------------------------------------------------
(* The serial number just past the displayed, and the densest, frame. *)
DispTo == hist.disp + (display.end - display.start)
BestTo == hist.best + (best.end - best.start)

(* The consecutive words that end just before serial number `to'. *)
LastWords(n, to) == [i \in 1 .. n |-> to - n + i - 1]

PositionType == 0 .. TotalMod - 1

FifoTypeOK ==
    /\ prg \in [0 .. Cap - 1 -> Nat]
    /\ mtx \in [0 .. Cap - 1 -> Nat]
    /\ total \in PositionType /\ mark \in PositionType
    /\ display \in [start : PositionType, end : PositionType, gen : Nat]
    /\ best \in [start : PositionType, end : PositionType, words : Nat]
    /\ meshEnable \in BOOLEAN
    /\ hist \in [pushed : Nat, mark : Nat, disp : Nat, best : Nat, cuts : SUBSET Nat]

(* Copying the displayed frame never returns a word of another frame: the   *)
(* result is the frame's last words, whatever the ring has overwritten and  *)
(* however the 32-bit counter has wrapped, as long as fewer than 2^32 words *)
(* followed the frame's first; and without a wrap since then it is every    *)
(* word of the frame that the ring can still hold.                          *)
DisplaySliceIsFrame ==
    LET slice == CopyRange(prg, display.start, display.end)
        kept  == {n \in hist.disp .. DispTo - 1 : n + Cap >= hist.pushed}
    IN  hist.pushed - hist.disp < TotalMod =>
          /\ slice = LastWords(Len(slice), DispTo)
          /\ Len(slice) <= DispTo - hist.disp
          /\ total >= display.end => {slice[i] : i \in 1 .. Len(slice)} = kept

(* No frame that was published, and not the densest either, holds words from*)
(* both sides of a texture upload: re-enabling retention starts a new frame.*)
NoFrameSpansUpload ==
    \A c \in hist.cuts :
        /\ ~(hist.disp < c /\ c < DispTo)
        /\ ~(hist.best < c /\ c < BestTo)

(* The mark is past every published word, so no word is in two frames.      *)
FramesAreDisjoint == DispTo <= hist.mark /\ BestTo <= hist.mark

(* A latch loses a frame that pushed words only when the counter wrapped    *)
(* within that frame; otherwise exactly that frame becomes the display.     *)
LatchLosesOnlyWrappedFrame ==
    [][ (LatchPrgFrame /\ hist.pushed > hist.mark) =>
            \/ hist.disp' = hist.mark /\ DispTo' = hist.pushed
                 /\ display'.gen = display.gen + 1
            \/ hist.pushed \div TotalMod # hist.mark \div TotalMod ]_fifoVars
=============================================================================
