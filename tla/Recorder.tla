------------------------------- MODULE Recorder -------------------------------
(***************************************************************************)
(* The screen recorder of src/host/sys24_viewer_record.c.  The main thread *)
(* copies a presented frame into the one pending slot or counts it as      *)
(* dropped; a writer thread moves it to its own scratch buffer under the   *)
(* mutex and writes that to the encoder's pipe without it.  A write that   *)
(* falls short ends the writer while the recording stays active.           *)
(*                                                                         *)
(* Each action is one critical section of g_mu, or the unlocked write.  A  *)
(* frame is its serial number in the recording.                            *)
(***************************************************************************)
EXTENDS Naturals, Sequences

CONSTANT MaxFrames  \* bound: frames submitted in one recording

ASSUME MaxFramesAssumption == MaxFrames \in Nat

VARIABLES active,    \* g_active
          running,   \* g_running
          haveFrame, \* g_have_frame
          pending,   \* g_pending
          scratch,   \* g_scratch
          wrote,     \* g_frames_written
          dropped,   \* g_frames_dropped
          wpc,       \* where record_writer is
          asleep,    \* it is blocked in pthread_cond_wait
          joining,   \* the main thread is in record_stop
          hist       \* history: frames submitted, those written, a short write

vars == <<active, running, haveFrame, pending, scratch, wrote, dropped,
          wpc, asleep, joining, hist>>

NewHist == [submitted |-> 0, out |-> <<>>, broken |-> FALSE]

Init ==
    /\ active = FALSE /\ running = FALSE /\ haveFrame = FALSE
    /\ pending = 0 /\ scratch = 0
    /\ wrote = 0 /\ dropped = 0
    /\ wpc = "none" /\ asleep = FALSE /\ joining = FALSE
    /\ hist = NewHist

-----------------------------------------------------------------------------
(* record_start when no recording is active (when one is, it is stopped     *)
(* first): the buffers, the pipe or the thread cannot be had, or all can.   *)
Start ==
    /\ ~active
    /\ haveFrame' = FALSE /\ wrote' = 0 /\ dropped' = 0
    /\ pending' = 0 /\ scratch' = 0
    /\ hist' = NewHist
    /\ \/ active' = TRUE /\ running' = TRUE /\ wpc' = "loop"
       \/ running' = FALSE /\ UNCHANGED <<active, wpc>>
    /\ UNCHANGED <<asleep, joining>>

Submitting == active /\ ~joining /\ hist.submitted < MaxFrames

(* Seeded fault: a frame overwrites the one still pending. *)
Submit_Overwrites ==
    /\ Submitting
    /\ hist' = [hist EXCEPT !.submitted = @ + 1]
    /\ pending' = hist.submitted + 1
    /\ haveFrame' = TRUE
    /\ asleep' = FALSE
    /\ UNCHANGED <<active, running, scratch, wrote, dropped, wpc, joining>>

(* Seeded fault: the writer is not told. *)
Submit_Silent ==
    /\ Submitting /\ ~haveFrame
    /\ hist' = [hist EXCEPT !.submitted = @ + 1]
    /\ pending' = hist.submitted + 1
    /\ haveFrame' = TRUE
    /\ UNCHANGED <<active, running, scratch, wrote, dropped, wpc, asleep, joining>>

(* record_submit_bgra: drop while the slot is taken, else fill it, signal. *)
Submit ==
    /\ Submitting
    /\ hist' = [hist EXCEPT !.submitted = @ + 1]
    /\ \/ haveFrame /\ dropped' = dropped + 1 /\ UNCHANGED <<haveFrame, pending, asleep>>
       \/ /\ ~haveFrame
          /\ haveFrame' = TRUE
          /\ pending' = hist.submitted + 1
          /\ asleep' = FALSE
          /\ UNCHANGED dropped
    /\ UNCHANGED <<active, running, scratch, wrote, wpc, joining>>

(* record_stop up to pthread_join. *)
Stop ==
    /\ active /\ ~joining
    /\ running' = FALSE
    /\ asleep' = FALSE
    /\ joining' = TRUE
    /\ UNCHANGED <<active, haveFrame, pending, scratch, wrote, dropped, wpc, hist>>

Join ==
    /\ joining /\ wpc = "exited"
    /\ wpc' = "none"
    /\ active' = FALSE /\ haveFrame' = FALSE /\ joining' = FALSE
    /\ pending' = 0 /\ scratch' = 0
    /\ UNCHANGED <<running, wrote, dropped, asleep, hist>>

(* The writer holds the mutex in its wait loop. *)
InLoop == wpc = "loop" \/ (wpc = "asleep" /\ ~asleep)

WriterSleep ==
    /\ InLoop /\ running /\ ~haveFrame
    /\ wpc' = "asleep" /\ asleep' = TRUE
    /\ UNCHANGED <<active, running, haveFrame, pending, scratch, wrote, dropped, joining, hist>>

(* Stopped, and the last pending frame is out. *)
WriterExit ==
    /\ InLoop /\ ~running /\ ~haveFrame
    /\ wpc' = "exited"
    /\ UNCHANGED <<active, running, haveFrame, pending, scratch, wrote, dropped,
                   asleep, joining, hist>>

WriterTake ==
    /\ InLoop /\ haveFrame
    /\ scratch' = pending
    /\ haveFrame' = FALSE
    /\ wpc' = "writing"
    /\ UNCHANGED <<active, running, pending, wrote, dropped, asleep, joining, hist>>

(* Seeded fault: the buffer the main thread fills is written out. *)
Written_Pending == pending

(* What fwrite is given, without the mutex: the writer's own copy. *)
Written == scratch

(* fwrite: the whole frame, or less of it, which ends the thread. *)
WriterWrite ==
    /\ wpc = "writing"
    /\ \/ /\ wrote' = wrote + 1
          /\ hist' = [hist EXCEPT !.out = Append(@, Written)]
          /\ wpc' = "loop"
       \/ /\ hist' = [hist EXCEPT !.broken = TRUE]
          /\ wpc' = "exited"
          /\ UNCHANGED wrote
    /\ UNCHANGED <<active, running, haveFrame, pending, scratch, dropped, asleep, joining>>

SpuriousWake ==
    /\ asleep /\ asleep' = FALSE
    /\ UNCHANGED <<active, running, haveFrame, pending, scratch, wrote, dropped,
                   wpc, joining, hist>>

-----------------------------------------------------------------------------
Writer == WriterSleep \/ WriterExit \/ WriterTake \/ WriterWrite

Next == Start \/ Submit \/ Stop \/ Join \/ Writer \/ SpuriousWake

(* The writer thread runs, every fwrite returns, and a join that can return *)
(* does.  Nothing says that frames are submitted or the recording stopped.  *)
Spec == Init /\ [][Next]_vars /\ WF_vars(Writer) /\ WF_vars(Join)

-----------------------------------------------------------------------------
TypeOK ==
    /\ {active, running, haveFrame, asleep, joining} \subseteq BOOLEAN
    /\ {pending, scratch, wrote, dropped} \subseteq 0 .. MaxFrames
    /\ wpc \in {"none", "loop", "asleep", "writing", "exited"}
    /\ active <=> wpc # "none"
    /\ asleep => wpc = "asleep"

(* The writer never sleeps while a frame waits or the recording is stopped. *)
WriterAwake == asleep => running /\ ~haveFrame

(* The types, that a recording is active exactly while there is a writer    *)
(* thread to feed and join, and that this thread is awake when needed.      *)
RecorderInv == TypeOK /\ WriterAwake

(* The numbers printed at a stop add up to the frames submitted; when a     *)
(* write fell short they miss that frame and at most one that was still     *)
(* accepted, however long the broken recording went on.                     *)
ReportAddsUp ==
    [][ Join => LET missing == hist.submitted - (wrote + dropped)
                IN  IF hist.broken THEN missing \in 1 .. 2 ELSE missing = 0 ]_vars

(* The recorder implements FrameSink: the frame being written and the one   *)
(* pending are its queue.                                                   *)
Queue == (IF wpc = "writing" THEN <<scratch>> ELSE <<>>)
             \o (IF haveFrame THEN <<pending>> ELSE <<>>)
Sink == INSTANCE FrameSink
          WITH open <- active, closing <- joining, queue <- Queue,
               out <- hist.out, broken <- hist.broken
SinkSpec == Sink!Spec
=============================================================================
