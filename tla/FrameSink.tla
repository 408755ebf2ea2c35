------------------------------ MODULE FrameSink ------------------------------
(***************************************************************************)
(* What the screen recorder promises its caller: a lossy, bounded channel  *)
(* from the presented frames to the encoder's pipe.  A frame is kept only  *)
(* when fewer than two wait, frames are written in the order they were     *)
(* presented and at most once, and a close writes every kept frame first   *)
(* unless the pipe broke.  A close that was asked for is carried out.      *)
(***************************************************************************)
EXTENDS Naturals, Sequences, SequencesExt

VARIABLES open,     \* a recording is under way
          closing,  \* its end was asked for
          queue,    \* the kept frames not yet written
          out,      \* the frames written to the pipe
          broken    \* the pipe took a frame only in part

sinkVars == <<open, closing, queue, out, broken>>

Init == open = FALSE /\ closing = FALSE /\ queue = <<>> /\ out = <<>> /\ broken = FALSE

Open ==
    /\ ~open
    /\ queue' = <<>> /\ out' = <<>> /\ broken' = FALSE
    /\ open' \in BOOLEAN
    /\ UNCHANGED closing

Newer(f) == \A g \in ToSet(queue \o out) : g < f

Keep ==
    /\ open /\ ~closing /\ Len(queue) < 2
    /\ Len(queue') = Len(queue) + 1
    /\ Front(queue') = queue /\ Newer(Last(queue'))
    /\ UNCHANGED <<open, closing, out, broken>>

Write ==
    /\ open /\ ~broken /\ queue # <<>>
    /\ out' = Append(out, Head(queue)) /\ queue' = Tail(queue)
    /\ UNCHANGED <<open, closing, broken>>

Break ==
    /\ open /\ ~broken /\ queue # <<>>
    /\ broken' = TRUE /\ queue' = Tail(queue)
    /\ UNCHANGED <<open, closing, out>>

AskClose == open /\ ~closing /\ closing' = TRUE /\ UNCHANGED <<open, queue, out, broken>>

Close ==
    /\ closing
    /\ queue = <<>> \/ broken
    /\ open' = FALSE /\ closing' = FALSE /\ queue' = <<>>
    /\ UNCHANGED <<out, broken>>

Next == Open \/ Keep \/ Write \/ Break \/ AskClose \/ Close

Spec == Init /\ [][Next]_sinkVars /\ WF_sinkVars(closing /\ (Write \/ Break \/ Close))
=============================================================================
