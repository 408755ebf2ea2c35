--------------------------- MODULE Recorder_proofs ---------------------------
(***************************************************************************)
(* The safety of the screen recorder, for recordings of any length.  Every *)
(* submitted frame is written, dropped, pending or being written, until a  *)
(* write falls short: Accounts says so, and is what the printed numbers    *)
(* rest on.                                                                *)
(***************************************************************************)
EXTENDS Recorder, TLAPS

HistType == hist \in [submitted : 0 .. MaxFrames, out : Seq(Nat), broken : BOOLEAN]

Pending == IF haveFrame THEN 1 ELSE 0
Writing == IF wpc = "writing" THEN 1 ELSE 0

(* Frames that were kept, in the slot or in the writer's hands. *)
Accounts ==
    /\ wrote \in Nat /\ dropped \in Nat
    /\ wrote + dropped <= hist.submitted
    /\ ~hist.broken => hist.submitted = wrote + dropped + Pending + Writing
    /\ hist.broken /\ active => hist.submitted = wrote + dropped + Pending + 1

(* Nothing waits outside a recording, and the writer of one that is not     *)
(* being stopped is told to run.                                            *)
Lifecycle ==
    /\ ~active => ~running /\ ~joining /\ ~haveFrame
    /\ active /\ ~joining => running
    /\ joining => ~running

(* A writer that has ended left a frame behind only when the pipe broke. *)
LeavesNothing ==
    /\ wpc = "exited" /\ ~hist.broken => ~running /\ ~haveFrame
    /\ hist.broken => wpc \in {"exited", "none"}

SlotInv ==
    /\ TypeOK
    /\ HistType
    /\ Accounts
    /\ Lifecycle
    /\ LeavesNothing
    /\ WriterAwake

-----------------------------------------------------------------------------
(* The parts of the invariant after each step, the types first. *)
LEMMA InitSlot == Init => SlotInv
  <1> SUFFICES ASSUME Init PROVE SlotInv
    OBVIOUS
  <1>1. MaxFrames \in Nat
    BY MaxFramesAssumption
  <1>2. TypeOK
    <2>1. {active, running, haveFrame, asleep, joining} \subseteq BOOLEAN
      BY <1>1 DEF Init
    <2>2. {pending, scratch, wrote, dropped} \subseteq 0 .. MaxFrames
      BY <1>1 DEF Init
    <2>3. (active <=> wpc # "none") /\ (asleep => wpc = "asleep")
      BY <1>1 DEF Init
    <2>4. QED
      BY <1>1, <2>1, <2>2, <2>3 DEF Init, TypeOK
  <1>3. HistType
    BY <1>1 DEF Init, NewHist, HistType
  <1>4. Accounts
    BY DEF Init, NewHist, Accounts, Pending, Writing
  <1>5. Lifecycle /\ LeavesNothing /\ WriterAwake
    BY DEF Init, NewHist, Lifecycle, LeavesNothing, WriterAwake
  <1>6. QED
    BY <1>2, <1>3, <1>4, <1>5 DEF SlotInv

LEMMA StartSlot ==
    ASSUME SlotInv, Start
    PROVE  SlotInv'
  <1> USE DEF SlotInv
  <1>1. MaxFrames \in Nat
    BY MaxFramesAssumption
  <1>2. ~active /\ ~running /\ ~joining /\ wpc = "none" /\ ~asleep
    BY DEF Start, Lifecycle, TypeOK
  <1>3. CASE active' = TRUE /\ running' = TRUE /\ wpc' = "loop"
    <2>1. TypeOK'
      <3>1. {active, running, haveFrame, asleep, joining}' \subseteq BOOLEAN
        BY <1>1, <1>2, <1>3 DEF Start, TypeOK
      <3>2. {pending, scratch, wrote, dropped}' \subseteq 0 .. MaxFrames
        BY <1>1, <1>2, <1>3 DEF Start, TypeOK
      <3>3. (active <=> wpc # "none")' /\ (asleep => wpc = "asleep")'
        BY <1>1, <1>2, <1>3 DEF Start, TypeOK
      <3>4. QED
        BY <1>1, <1>2, <1>3, <3>1, <3>2, <3>3 DEF Start, TypeOK
    <2>2. HistType'
      BY <1>1 DEF Start, NewHist, HistType
    <2>3. Accounts'
      BY <1>3 DEF Start, NewHist, Accounts, Pending, Writing
    <2>4. Lifecycle' /\ LeavesNothing' /\ WriterAwake'
      BY <1>2, <1>3 DEF Start, NewHist, Lifecycle, LeavesNothing, WriterAwake
    <2>5. QED
      BY <2>1, <2>2, <2>3, <2>4
  <1>4. CASE running' = FALSE /\ UNCHANGED <<active, wpc>>
    <2>1. TypeOK'
      <3>1. {active, running, haveFrame, asleep, joining}' \subseteq BOOLEAN
        BY <1>1, <1>2, <1>4 DEF Start, TypeOK
      <3>2. {pending, scratch, wrote, dropped}' \subseteq 0 .. MaxFrames
        BY <1>1, <1>2, <1>4 DEF Start, TypeOK
      <3>3. (active <=> wpc # "none")' /\ (asleep => wpc = "asleep")'
        BY <1>1, <1>2, <1>4 DEF Start, TypeOK
      <3>4. QED
        BY <1>1, <1>2, <1>4, <3>1, <3>2, <3>3 DEF Start, TypeOK
    <2>2. HistType'
      BY <1>1 DEF Start, NewHist, HistType
    <2>3. Accounts'
      BY <1>2, <1>4 DEF Start, NewHist, Accounts, Pending, Writing
    <2>4. Lifecycle' /\ LeavesNothing' /\ WriterAwake'
      BY <1>2, <1>4 DEF Start, NewHist, Lifecycle, LeavesNothing, WriterAwake
    <2>5. QED
      BY <2>1, <2>2, <2>3, <2>4
  <1>5. QED
    BY <1>3, <1>4 DEF Start

LEMMA SubmitSlot ==
    ASSUME SlotInv, Submit
    PROVE  SlotInv'
  <1> USE DEF SlotInv
  <1>1. /\ MaxFrames \in Nat
        /\ active /\ ~joining /\ running
        /\ hist.submitted \in 0 .. MaxFrames - 1
    BY MaxFramesAssumption DEF Submit, Submitting, Lifecycle, HistType
  <1>2. /\ HistType'
        /\ hist'.submitted = hist.submitted + 1
        /\ hist'.broken = hist.broken
    BY <1>1 DEF Submit, HistType
  <1>3. /\ active' = active /\ running' = running /\ joining' = joining
        /\ wpc' = wpc /\ wrote' = wrote /\ scratch' = scratch
    BY DEF Submit
  <1>4. CASE haveFrame /\ dropped' = dropped + 1 /\ UNCHANGED <<haveFrame, pending, asleep>>
    <2>1. Accounts'
      <3>1. /\ Pending = 1 /\ Pending' = 1 /\ Writing' = Writing /\ Writing \in {0, 1}
            /\ hist.submitted \in Nat
        BY <1>1, <1>3, <1>4 DEF Pending, Writing
      <3>2. /\ wrote' \in Nat /\ dropped' \in Nat
            /\ wrote' + dropped' <= hist'.submitted
        BY <1>2, <1>3, <1>4, <3>1 DEF Accounts
      <3>3. ~hist'.broken => hist'.submitted = wrote' + dropped' + Pending' + Writing'
        BY <1>2, <1>3, <1>4, <3>1 DEF Accounts
      <3>4. hist'.broken /\ active' => hist'.submitted = wrote' + dropped' + Pending' + 1
        BY <1>2, <1>3, <1>4, <3>1 DEF Accounts
      <3>5. QED
        BY <3>2, <3>3, <3>4 DEF Accounts
    <2>2. dropped' \in 0 .. MaxFrames
      BY <1>1, <1>2, <2>1 DEF Accounts, HistType
    <2>3. TypeOK'
      BY <1>3, <1>4, <2>2 DEF TypeOK
    <2>4. Lifecycle' /\ LeavesNothing' /\ WriterAwake'
      BY <1>1, <1>2, <1>3, <1>4 DEF Lifecycle, LeavesNothing, WriterAwake
    <2>5. QED
      BY <1>2, <2>1, <2>3, <2>4
  <1>5. CASE /\ ~haveFrame /\ haveFrame' = TRUE
             /\ pending' = hist.submitted + 1
             /\ asleep' = FALSE /\ UNCHANGED dropped
    <2>1. Accounts'
      <3>1. /\ Pending = 0 /\ Pending' = 1 /\ Writing' = Writing /\ Writing \in {0, 1}
            /\ hist.submitted \in Nat
        BY <1>1, <1>3, <1>5 DEF Pending, Writing
      <3>2. QED
        BY <1>2, <1>3, <1>5, <3>1 DEF Accounts
    <2>2. pending' \in 0 .. MaxFrames
      BY <1>1, <1>5
    <2>3. TypeOK'
      BY <1>3, <1>5, <2>2 DEF TypeOK
    <2>4. Lifecycle' /\ LeavesNothing' /\ WriterAwake'
      BY <1>1, <1>2, <1>3, <1>5 DEF Lifecycle, LeavesNothing, WriterAwake
    <2>5. QED
      BY <1>2, <2>1, <2>3, <2>4
  <1>6. QED
    BY <1>4, <1>5 DEF Submit

LEMMA StopSlot ==
    ASSUME SlotInv, Stop \/ Join
    PROVE  SlotInv'
  <1> USE DEF SlotInv
  <1>1. CASE Stop
    <2>1. TypeOK' /\ HistType'
      BY <1>1 DEF Stop, TypeOK, HistType
    <2>2. Accounts'
      BY <1>1 DEF Stop, Accounts, Pending, Writing
    <2>3. Lifecycle' /\ LeavesNothing' /\ WriterAwake'
      BY <1>1 DEF Stop, Lifecycle, LeavesNothing, WriterAwake
    <2>4. QED
      BY <2>1, <2>2, <2>3
  <1>2. CASE Join
    <2>1. TypeOK' /\ HistType'
      <3>1. HistType' /\ {pending, scratch, wrote, dropped}' \subseteq 0 .. MaxFrames
        BY <1>2, MaxFramesAssumption DEF Join, TypeOK, HistType
      <3>2. {active, running, haveFrame, asleep, joining}' \subseteq BOOLEAN
        BY <1>2 DEF Join, TypeOK
      <3>3. (active <=> wpc # "none")' /\ (asleep => wpc = "asleep")'
        BY <1>2 DEF Join, TypeOK
      <3>4. QED
        BY <1>2, <3>1, <3>2, <3>3 DEF Join, TypeOK
    <2>2. Accounts'
      BY <1>2 DEF Join, Accounts, Pending, Writing, LeavesNothing
    <2>3. Lifecycle' /\ LeavesNothing' /\ WriterAwake'
      BY <1>2 DEF Join, Lifecycle, LeavesNothing, WriterAwake, TypeOK
    <2>4. QED
      BY <2>1, <2>2, <2>3
  <1>3. QED
    BY <1>1, <1>2

LEMMA WriterSlot ==
    ASSUME SlotInv, Writer \/ SpuriousWake
    PROVE  SlotInv'
  <1> USE DEF SlotInv
  <1>1. CASE WriterSleep
    <2>1. TypeOK' /\ HistType'
      BY <1>1 DEF WriterSleep, InLoop, TypeOK, HistType
    <2>2. Accounts'
      BY <1>1 DEF WriterSleep, InLoop, Accounts, Pending, Writing
    <2>3. Lifecycle' /\ LeavesNothing' /\ WriterAwake'
      BY <1>1 DEF WriterSleep, InLoop, Lifecycle, LeavesNothing, WriterAwake
    <2>4. QED
      BY <2>1, <2>2, <2>3
  <1>2. CASE WriterExit
    <2>1. TypeOK' /\ HistType'
      BY <1>2 DEF WriterExit, InLoop, TypeOK, HistType
    <2>2. Accounts'
      BY <1>2 DEF WriterExit, InLoop, Accounts, Pending, Writing
    <2>3. Lifecycle' /\ LeavesNothing' /\ WriterAwake'
      BY <1>2 DEF WriterExit, InLoop, Lifecycle, LeavesNothing, WriterAwake
    <2>4. QED
      BY <2>1, <2>2, <2>3
  <1>3. CASE WriterTake
    <2>1. TypeOK' /\ HistType'
      BY <1>3 DEF WriterTake, InLoop, TypeOK, HistType
    <2>2. Accounts'
      BY <1>3 DEF WriterTake, InLoop, Accounts, Pending, Writing, LeavesNothing, HistType
    <2>3. Lifecycle' /\ LeavesNothing' /\ WriterAwake'
      BY <1>3 DEF WriterTake, InLoop, Lifecycle, LeavesNothing, WriterAwake, TypeOK
    <2>4. QED
      BY <2>1, <2>2, <2>3
  <1>4. CASE WriterWrite
    <2>1. /\ wpc = "writing" /\ ~hist.broken /\ active /\ ~asleep
          /\ wpc' # "none" /\ scratch \in Nat
      BY <1>4, MaxFramesAssumption DEF WriterWrite, LeavesNothing, TypeOK
    <2>2. CASE wrote' = wrote + 1 /\ hist' = [hist EXCEPT !.out = Append(@, Written)]
                 /\ wpc' = "loop"
      <3>1. /\ HistType'
            /\ hist'.submitted = hist.submitted /\ hist'.broken = hist.broken
        <4>1. Append(hist.out, scratch) \in Seq(Nat)
          BY <2>1 DEF HistType
        <4>2. QED
          BY <2>2, <4>1 DEF HistType, Written
      <3>2. Accounts'
        <4>1. /\ Writing = 1 /\ Writing' = 0 /\ Pending' = Pending /\ Pending \in {0, 1}
              /\ dropped' = dropped /\ hist.submitted \in Nat
          BY <1>4, <2>1, <2>2 DEF WriterWrite, Pending, Writing, HistType
        <4>2. QED
          BY <2>1, <2>2, <3>1, <4>1 DEF Accounts
      <3>3. wrote' \in 0 .. MaxFrames
        BY <3>1, <3>2, MaxFramesAssumption DEF Accounts, HistType
      <3>4. TypeOK'
        BY <1>4, <2>1, <2>2, <3>3 DEF WriterWrite, TypeOK
      <3>5. Lifecycle' /\ LeavesNothing' /\ WriterAwake'
        BY <1>4, <2>1, <2>2, <3>1 DEF WriterWrite, Lifecycle, LeavesNothing, WriterAwake
      <3>6. QED
        BY <3>1, <3>2, <3>4, <3>5
    <2>3. CASE hist' = [hist EXCEPT !.broken = TRUE] /\ wpc' = "exited" /\ UNCHANGED wrote
      <3>1. HistType' /\ hist'.submitted = hist.submitted /\ hist'.broken
        BY <2>3 DEF HistType
      <3>2. Accounts'
        BY <1>4, <2>1, <2>3, <3>1 DEF WriterWrite, Accounts, Pending, Writing, HistType
      <3>3. TypeOK'
        BY <1>4, <2>1, <2>3 DEF WriterWrite, TypeOK
      <3>4. Lifecycle' /\ LeavesNothing' /\ WriterAwake'
        BY <1>4, <2>1, <2>3, <3>1 DEF WriterWrite, Lifecycle, LeavesNothing, WriterAwake
      <3>5. QED
        BY <3>1, <3>2, <3>3, <3>4
    <2>4. QED
      BY <1>4, <2>2, <2>3 DEF WriterWrite
  <1>5. CASE SpuriousWake
    <2>1. TypeOK' /\ HistType'
      BY <1>5 DEF SpuriousWake, TypeOK, HistType
    <2>2. Accounts'
      BY <1>5 DEF SpuriousWake, Accounts, Pending, Writing
    <2>3. Lifecycle' /\ LeavesNothing' /\ WriterAwake'
      BY <1>5 DEF SpuriousWake, Lifecycle, LeavesNothing, WriterAwake
    <2>4. QED
      BY <2>1, <2>2, <2>3
  <1>6. QED
    BY <1>1, <1>2, <1>3, <1>4, <1>5 DEF Writer

LEMMA StutterSlot ==
    ASSUME SlotInv, UNCHANGED vars
    PROVE  SlotInv'
  BY DEF vars, SlotInv, TypeOK, HistType, Accounts, Pending, Writing,
         Lifecycle, LeavesNothing, WriterAwake

(* The accounts hold in every recording (record_submit_bgra, record_writer). *)
THEOREM SlotInvariance == Spec => []SlotInv
  <1>1. SlotInv /\ [Next]_vars => SlotInv'
    BY StartSlot, SubmitSlot, StopSlot, WriterSlot, StutterSlot DEF Next
  <1>2. QED
    BY <1>1, InitSlot, PTL DEF Spec

(* The types, and that the writer is never asleep while a frame waits or the *)
(* recording is being stopped.                                               *)
THEOREM RecorderSafe == Spec => []RecorderInv
  <1>1. SlotInv => RecorderInv
    BY DEF SlotInv, RecorderInv
  <1>2. QED
    BY <1>1, SlotInvariance, PTL

(* The numbers record_stop prints add up to the frames submitted, or miss    *)
(* one or two of them after a short write.                                   *)
THEOREM ReportsAddUp == Spec => ReportAddsUp
  <1> DEFINE missing == hist.submitted - (wrote + dropped)
  <1>1. ASSUME SlotInv, Join
        PROVE  IF hist.broken THEN missing \in 1 .. 2 ELSE missing = 0
    <2>1. /\ wpc = "exited" /\ active
          /\ hist.submitted \in Nat /\ wrote \in Nat /\ dropped \in Nat
      BY <1>1, MaxFramesAssumption DEF SlotInv, Join, TypeOK, HistType, Accounts
    <2>2. CASE hist.broken
      BY <1>1, <2>1, <2>2 DEF SlotInv, Accounts, Pending
    <2>3. CASE ~hist.broken
      BY <1>1, <2>1, <2>3 DEF SlotInv, Accounts, LeavesNothing, Pending, Writing
    <2>4. QED
      BY <2>2, <2>3
  <1>2. SlotInv /\ [Next]_vars =>
          [Join => IF hist.broken THEN missing \in 1 .. 2 ELSE missing = 0]_vars
    BY <1>1
  <1>3. QED
    BY <1>2, SlotInvariance, PTL DEF Spec, ReportAddsUp

-----------------------------------------------------------------------------
(* Frames under way are older than the next one submitted. *)
Ages ==
    /\ haveFrame => pending \in 0 .. hist.submitted
    /\ wpc = "writing" => scratch \in 0 .. hist.submitted
    /\ \A i \in DOMAIN hist.out : hist.out[i] \in 0 .. hist.submitted

SinkInv == SlotInv /\ Ages

(* What the two parts of the queue can be together. *)
LEMMA Joined ==
    ASSUME NEW a \in Nat, NEW b \in Nat
    PROVE  /\ <<>> \o <<>> = <<>>
           /\ <<>> \o <<a>> = <<a>>
           /\ <<a>> \o <<>> = <<a>>
           /\ <<a>> \o <<b>> = <<a, b>>
  <1>1. <<>> \o <<>> = <<>>
    OBVIOUS
  <1>2. <<>> \o <<a>> = <<a>> /\ <<a>> \o <<>> = <<a>>
    OBVIOUS
  <1>3. <<a>> \o <<b>> = <<a, b>>
    <2> DEFINE s == <<a>> \o <<b>>
               t == <<a, b>>
    <2>1. <<a>> \in Seq(Nat) /\ <<b>> \in Seq(Nat) /\ t \in Seq(Nat) /\ s \in Seq(Nat)
      OBVIOUS
    <2>2. Len(s) = 2 /\ Len(t) = 2
      BY <2>1
    <2>3. s[1] = a /\ s[2] = b
      BY <2>1
    <2>4. t[1] = a /\ t[2] = b
      OBVIOUS
    <2> HIDE DEF s, t
    <2>5. \A i \in 1 .. 2 : s[i] = t[i]
      BY <2>3, <2>4
    <2>6. s = t
      BY <2>1, <2>2, <2>5
    <2> QED
      BY <2>6 DEF s, t
  <1>4. QED
    BY <1>1, <1>2, <1>3

LEMMA QueueCases ==
    ASSUME TypeOK
    PROVE
    /\ wpc # "writing" /\ ~haveFrame => Queue = <<>>
    /\ wpc # "writing" /\ haveFrame => Queue = <<pending>>
    /\ wpc = "writing" /\ ~haveFrame => Queue = <<scratch>>
    /\ wpc = "writing" /\ haveFrame => Queue = <<scratch, pending>>
  <1>1. pending \in Nat /\ scratch \in Nat
    BY MaxFramesAssumption DEF TypeOK
  <1>2. QED
    BY <1>1, Joined DEF Queue

LEMMA AgesStep ==
    ASSUME SinkInv, [Next]_vars
    PROVE  Ages'
  <1> USE DEF SinkInv, SlotInv
  <1>1. CASE Start
    BY <1>1 DEF Start, NewHist, Ages, Lifecycle, TypeOK
  <1>2. CASE Submit
    <2>1. /\ hist'.submitted = hist.submitted + 1 /\ hist'.out = hist.out
          /\ hist.submitted \in Nat
      BY <1>2, MaxFramesAssumption DEF Submit, HistType
    <2>2. /\ wpc' = wpc /\ scratch' = scratch
          /\ (haveFrame /\ pending' = pending) \/ pending' = hist.submitted + 1
      BY <1>2 DEF Submit
    <2>3. QED
      BY <2>1, <2>2 DEF Ages
  <1>3. CASE Stop \/ WriterSleep \/ WriterExit \/ SpuriousWake \/ UNCHANGED vars
    BY <1>3 DEF Stop, WriterSleep, WriterExit, SpuriousWake, vars, Ages
  <1>4. CASE Join
    BY <1>4 DEF Join, Ages
  <1>5. CASE WriterTake
    BY <1>5 DEF WriterTake, Ages
  <1>6. CASE WriterWrite
    <2>1. /\ hist.out \in Seq(Nat) /\ wpc = "writing"
          /\ haveFrame' = haveFrame /\ pending' = pending /\ wpc' # "writing"
      BY <1>6 DEF WriterWrite, HistType
    <2>2. /\ hist'.submitted = hist.submitted
          /\ hist'.out = Append(hist.out, scratch) \/ hist'.out = hist.out
      BY <1>6 DEF WriterWrite, Written, HistType
    <2>3. \A i \in DOMAIN hist'.out : hist'.out[i] \in 0 .. hist.submitted
      <3>1. scratch \in 0 .. hist.submitted /\ scratch \in Nat
        BY <2>1, MaxFramesAssumption DEF Ages, TypeOK
      <3>2. CASE hist'.out = Append(hist.out, scratch)
        <4>1. SUFFICES ASSUME NEW i \in DOMAIN Append(hist.out, scratch)
                       PROVE  Append(hist.out, scratch)[i] \in 0 .. hist.submitted
          BY <3>2
        <4>2. CASE i \in DOMAIN hist.out
          BY <2>1, <3>1, <4>2 DEF Ages
        <4>3. CASE i = Len(hist.out) + 1
          BY <2>1, <3>1, <4>3
        <4>4. QED
          BY <2>1, <3>1, <4>2, <4>3
      <3>3. CASE hist'.out = hist.out
        BY <3>3 DEF Ages
      <3>4. QED
        BY <2>2, <3>2, <3>3
    <2>4. QED
      BY <2>1, <2>2, <2>3 DEF Ages
  <1>7. QED
    BY <1>1, <1>2, <1>3, <1>4, <1>5, <1>6 DEF Next, Writer

THEOREM SinkInvariance == Spec => []SinkInv
  <1>1. Init => Ages
    BY DEF Init, NewHist, Ages
  <1>2. Ages /\ SlotInv /\ [Next]_vars => Ages'
    BY AgesStep DEF SinkInv
  <1>3. QED
    BY <1>1, <1>2, SlotInvariance, PTL DEF Spec, SinkInv

(* Every frame in the sink is older than the next. *)
LEMMA NextIsNewer ==
    ASSUME SinkInv
    PROVE  Sink!Newer(hist.submitted + 1)
  <1>1. SUFFICES ASSUME NEW g \in Sink!ToSet(Queue \o hist.out)
                 PROVE  g < hist.submitted + 1
    BY DEF Sink!Newer
  <1>2. hist.submitted \in Nat /\ hist.out \in Seq(Nat)
    BY MaxFramesAssumption DEF SinkInv, SlotInv, HistType
  <1>3. PICK i \in DOMAIN (Queue \o hist.out) : g = (Queue \o hist.out)[i]
    BY DEF Sink!ToSet
  <1>4. /\ Queue \in Seq(Nat)
        /\ \A k \in DOMAIN Queue : Queue[k] \in 0 .. hist.submitted
    <2>1. pending \in Nat /\ scratch \in Nat
      BY MaxFramesAssumption DEF SinkInv, SlotInv, TypeOK
    <2>2. CASE wpc # "writing" /\ ~haveFrame
      BY <2>2, QueueCases DEF SinkInv, SlotInv
    <2>3. CASE wpc # "writing" /\ haveFrame
      <3>1. pending \in 0 .. hist.submitted
        BY <2>3 DEF SinkInv, Ages
      <3>2. Queue = <<pending>>
        BY <2>3, QueueCases DEF SinkInv, SlotInv
      <3>3. QED
        BY <2>1, <3>1, <3>2
    <2>4. CASE wpc = "writing" /\ ~haveFrame
      BY <2>1, <2>4, QueueCases DEF SinkInv, SlotInv, Ages
    <2>5. CASE wpc = "writing" /\ haveFrame
      <3>1. pending \in 0 .. hist.submitted /\ scratch \in 0 .. hist.submitted
        BY <2>5 DEF SinkInv, Ages
      <3>2. Queue = <<scratch, pending>>
        BY <2>5, QueueCases DEF SinkInv, SlotInv
      <3>3. QED
        BY <2>1, <3>1, <3>2
    <2>6. QED
      BY <2>2, <2>3, <2>4, <2>5
  <1>5. CASE i <= Len(Queue)
    <2>1. i \in DOMAIN Queue /\ g = Queue[i]
      BY <1>2, <1>3, <1>4, <1>5
    <2>2. QED
      BY <1>2, <1>4, <2>1
  <1>6. CASE i > Len(Queue)
    <2>1. i - Len(Queue) \in DOMAIN hist.out /\ g = hist.out[i - Len(Queue)]
      BY <1>2, <1>3, <1>4, <1>6
    <2>2. QED
      BY <1>2, <2>1 DEF SinkInv, Ages
  <1>7. QED
    BY <1>2, <1>3, <1>4, <1>5, <1>6

(* Each step of the recorder is one of the sink, or changes none of its state. *)
LEMMA SinkStep ==
    ASSUME SinkInv, [Next]_vars
    PROVE  [Sink!Next]_(Sink!sinkVars)
  <1> USE DEF SinkInv, SlotInv
  <1>1. CASE Start
    <2>1. Queue' = <<>>
      BY <1>1, QueueCases DEF Start, TypeOK, Queue
    <2>2. active' \in BOOLEAN /\ ~active /\ hist'.out = <<>> /\ hist'.broken = FALSE
          /\ joining' = joining
      BY <1>1 DEF Start, NewHist, TypeOK
    <2>3. Sink!Open
      BY <2>1, <2>2 DEF Sink!Open
    <2>4. QED
      BY <2>3 DEF Sink!Next
  <1>2. CASE Submit
    <2>1. /\ hist'.out = hist.out /\ hist'.broken = hist.broken
          /\ active' = active /\ joining' = joining /\ wpc' = wpc /\ scratch' = scratch
          /\ active /\ ~joining
      BY <1>2 DEF Submit, Submitting, HistType
    <2>2. CASE UNCHANGED <<haveFrame, pending>>
      BY <2>1, <2>2 DEF Queue, Sink!sinkVars
    <2>3. CASE ~haveFrame /\ haveFrame' = TRUE /\ pending' = hist.submitted + 1
      <3>1. /\ Len(Queue) < 2 /\ Len(Queue') = Len(Queue) + 1
            /\ Sink!Front(Queue') = Queue /\ Sink!Last(Queue') = hist.submitted + 1
        BY <2>1, <2>3, QueueCases DEF Queue, Sink!Front, Sink!Last
      <3>2. Sink!Keep
        BY <2>1, <3>1, NextIsNewer DEF Sink!Keep
      <3>3. QED
        BY <3>2 DEF Sink!Next
    <2>4. QED
      BY <1>2, <2>2, <2>3 DEF Submit
  <1>3. CASE Stop
    <2>1. Sink!AskClose
      BY <1>3 DEF Stop, Queue, Sink!AskClose
    <2>2. QED
      BY <2>1 DEF Sink!Next
  <1>4. CASE Join
    <2>1. Queue = <<>> \/ hist.broken
      BY <1>4, QueueCases DEF Join, LeavesNothing
    <2>2. Queue' = <<>>
      BY <1>4 DEF Join, Queue
    <2>3. Sink!Close
      BY <1>4, <2>1, <2>2 DEF Join, Sink!Close
    <2>4. QED
      BY <2>3 DEF Sink!Next
  <1>5. CASE WriterSleep \/ WriterExit \/ SpuriousWake \/ UNCHANGED vars
    BY <1>5 DEF WriterSleep, WriterExit, SpuriousWake, vars, InLoop, Queue, Sink!sinkVars
  <1>6. CASE WriterTake
    <2>1. Queue = <<pending>> /\ Queue' = <<pending>>
      BY <1>6, QueueCases DEF WriterTake, InLoop, Queue
    <2>2. QED
      BY <1>6, <2>1 DEF WriterTake, Sink!sinkVars
  <1>7. CASE WriterWrite
    <2>1. /\ Queue # <<>> /\ Head(Queue) = scratch /\ Queue' = Tail(Queue)
          /\ active /\ ~hist.broken
          /\ active' = active /\ joining' = joining
      BY <1>7, QueueCases DEF WriterWrite, Queue, TypeOK, LeavesNothing
    <2>2. CASE hist' = [hist EXCEPT !.out = Append(@, Written)]
      <3>1. hist'.out = Append(hist.out, Head(Queue)) /\ hist'.broken = hist.broken
        BY <2>1, <2>2 DEF HistType, Written
      <3>2. Sink!Write
        BY <2>1, <3>1 DEF Sink!Write
      <3>3. QED
        BY <3>2 DEF Sink!Next
    <2>3. CASE hist' = [hist EXCEPT !.broken = TRUE]
      <3>1. hist'.out = hist.out /\ hist'.broken = TRUE
        BY <2>3 DEF HistType
      <3>2. Sink!Break
        BY <2>1, <3>1 DEF Sink!Break
      <3>3. QED
        BY <3>2 DEF Sink!Next
    <2>4. QED
      BY <1>7, <2>2, <2>3 DEF WriterWrite
  <1>8. QED
    BY <1>1, <1>2, <1>3, <1>4, <1>5, <1>6, <1>7 DEF Next, Writer

(* The recorder is a lossy bounded channel: the safety part of SinkSpec. *)
THEOREM RecorderImplementsSink ==
    Spec => Sink!Init /\ [][Sink!Next]_(Sink!sinkVars)
  <1>1. Init => Sink!Init
    BY DEF Init, NewHist, Queue, Sink!Init
  <1>2. SinkInv /\ [Next]_vars => [Sink!Next]_(Sink!sinkVars)
    BY SinkStep
  <1>3. QED
    BY <1>1, <1>2, SinkInvariance, PTL DEF Spec
=============================================================================
