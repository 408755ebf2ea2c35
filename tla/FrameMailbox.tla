----------------------------- MODULE FrameMailbox -----------------------------
(***************************************************************************)
(* What the GEO FIFO and its decode worker promise the game together: a    *)
(* one-place mailbox of frames.  The game posts completed frames and never *)
(* waits; the worker takes the newest one when it can, so frames may be    *)
(* skipped but not repeated or reordered; what is drawn is a frame that was*)
(* posted, may be dropped, and never goes back to an older frame; and until*)
(* the mailbox is closed every posted frame is eventually taken or overtaken.*)
(***************************************************************************)
EXTENDS Naturals

VARIABLES posted,  \* number of frames posted
          taken,   \* the newest frame the worker has dealt with
          shown,   \* the frame whose mesh was published last, 0 for none
          visible, \* a mesh is published
          closed   \* the worker was told to stop

mailVars == <<posted, taken, shown, visible, closed>>

Init == posted = 0 /\ taken = 0 /\ shown = 0 /\ visible = FALSE /\ closed = FALSE

Post == posted' = posted + 1 /\ UNCHANGED <<taken, shown, visible, closed>>

Take == taken' \in taken + 1 .. posted /\ UNCHANGED <<posted, shown, visible, closed>>

Show == shown' \in shown .. posted /\ visible' = TRUE /\ UNCHANGED <<posted, taken, closed>>

Drop == visible' = FALSE /\ UNCHANGED <<posted, taken, shown, closed>>

Close == ~closed /\ closed' = TRUE /\ UNCHANGED <<posted, taken, shown, visible>>

Next == Post \/ Take \/ Show \/ Drop \/ Close

Spec == Init /\ [][Next]_mailVars /\ WF_mailVars(~closed /\ Take)
=============================================================================
