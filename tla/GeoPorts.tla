------------------------------- MODULE GeoPorts -------------------------------
(***************************************************************************)
(* The two parsers behind the GEO ports of lib/model2/hw/model2_hw_fifo.c. *)
(* A write to a command port names a function; the words written to the    *)
(* data port after it are its payload.  One parser captures the settings   *)
(* that outlive a frame (projection, mode, light, texture parameters), the *)
(* other collects uploads of texture and polygon RAM; both are fed every   *)
(* word.  A word that does not come, or one too many, must not shift what  *)
(* later words mean: the parsers are compared with a reading of the whole  *)
(* log of writes at once.                                                  *)
(*                                                                         *)
(* Only the main thread writes, so a write, with the flush that hands a    *)
(* finished upload to the renderer, is one action.  That the words also go *)
(* to the PRG ring is PrgFifo's PushWord.  The scaling of the focus by the *)
(* aspect ratio keeps its sign and is left out, as are a command's argument *)
(* bits, which go to the ring only, and counts whose double wraps.         *)
(***************************************************************************)
EXTENDS Naturals, Sequences, FiniteSets, FiniteSetsExt

CONSTANTS Ports,      \* the functions the game writes
          Values,     \* the values of a data word
          WindowLen,  \* words of function 03, 6
          LightLen,   \* words of function 0A, 3
          TexSlots,   \* entries of g_geo_tex_param, 32
          MaxLog      \* bound: writes

FixedPorts == {"window", "focus", "mode", "light"}  \* 03, 09, 07, 0A
UploadPorts == {"texture", "polygon"}               \* 04; 05 and 15
AllPorts == FixedPorts \union UploadPorts \union {"tex", "other"}

ASSUME PortsAssumption ==
    /\ Ports \subseteq AllPorts
    /\ Values \subseteq Nat
    /\ WindowLen \in Nat /\ WindowLen >= 2
    /\ {LightLen, TexSlots} \subseteq Nat \ {0}
    /\ MaxLog \in Nat

VARIABLES capture,   \* g_geo_capture_{cmd,payload}, g_geo_tex_{phase,index,count,seen}
          settings,  \* what was captured, and g_geo_projection_valid
          upload,    \* g_upload_{cmd,addr,count,buf}
          bufCap,    \* g_upload_cap
          delivered, \* the uploads handed to the renderer
          writes,    \* history: the writes
          failed     \* history: those at which an allocation failed

vars == <<capture, settings, upload, bufCap, delivered, writes, failed>>

Here == Len(writes) + 1

(* A word is its place in the log and its value. *)
Word(at, val) == [at |-> at, val |-> val]

NoCapture == [cmd |-> "none", got |-> <<>>, index |-> 0, seen |-> 0]
NoUpload == [cmd |-> "none", head |-> <<>>, body |-> <<>>]

(* Words of a setting of fixed length, and what it is before it is written. *)
Need(f) ==
    CASE f = "window" -> WindowLen
      [] f = "focus"  -> 2
      [] f = "mode"   -> 1
      [] f = "light"  -> LightLen

Default(f, i) == IF f = "focus" \/ (f = "light" /\ i = LightLen) THEN 1 ELSE 0

DefaultFixed ==
    [f \in FixedPorts |-> [i \in 1 .. Need(f) |-> Word(0, Default(f, i))]]

NoTex == [s \in 0 .. TexSlots - 1 |-> 0]

Init ==
    /\ capture = NoCapture
    /\ settings = [fixed |-> DefaultFixed, param |-> NoTex, coef |-> NoTex,
                   projection |-> FALSE]
    /\ upload = NoUpload
    /\ bufCap = 0
    /\ delivered = <<>>
    /\ writes = <<>>
    /\ failed = {}

-----------------------------------------------------------------------------

(* Every aligned command ends the capture of the one before. *)
CaptureStart(f) ==
    IF f \in FixedPorts \union {"tex"} THEN [NoCapture EXCEPT !.cmd = f] ELSE NoCapture

(* Seeded fault: the upload before is not abandoned altogether. *)
UploadStart_KeepsHead(f) == IF f \in UploadPorts THEN [upload EXCEPT !.cmd = f] ELSE upload

(* Only an upload abandons an upload. *)
UploadStart(f) == IF f \in UploadPorts THEN [NoUpload EXCEPT !.cmd = f] ELSE upload

(* geo_w_command_port with an aligned address. *)
CommandPort(f) ==
    /\ Here <= MaxLog
    /\ capture' = CaptureStart(f)
    /\ upload' = UploadStart(f)
    /\ writes' = Append(writes, [port |-> f, val |-> 0])
    /\ UNCHANGED <<settings, bufCap, delivered, failed>>

(* The same with the top bit of the word set: it goes to the ring only. *)
ObjectPort ==
    /\ Here <= MaxLog
    /\ writes' = Append(writes, [port |-> "object", val |-> 0])
    /\ UNCHANGED <<capture, settings, upload, bufCap, delivered, failed>>

-----------------------------------------------------------------------------
(* geo_capture_payload_locked. *)
(* The projection can be used when both foci are positive and the window    *)
(* has a corner.                                                            *)
Usable(fixed) ==
    /\ \A i \in 1 .. 2 : fixed["focus"][i].val > 0
    /\ \E i \in 1 .. 2 : fixed["window"][i].val # 0

CaptureNothing == capture.cmd = "none" /\ UNCHANGED <<capture, settings>>

(* A setting of fixed length takes effect with its last word. *)
CaptureFixed(w) ==
    LET got == Append(capture.got, w)
        fixed == [settings.fixed EXCEPT ![capture.cmd] = got]
    IN  /\ capture.cmd \in FixedPorts
        /\ \/ /\ Len(got) # Need(capture.cmd)
              /\ capture' = [capture EXCEPT !.got = got]
              /\ UNCHANGED settings
           \/ /\ Len(got) = Need(capture.cmd)
              /\ capture' = NoCapture
              /\ settings' = [settings EXCEPT
                                !.fixed = fixed,
                                !.projection = IF capture.cmd \in {"window", "focus"}
                                               THEN Usable(fixed) ELSE @]

(* Texture parameters begin with a byte offset and a count of pairs ... *)
CaptureTexHead(w) ==
    /\ capture.cmd = "tex" /\ Len(capture.got) < 2
    /\ capture' = IF Len(capture.got) = 1 /\ w.val = 0 THEN NoCapture
                  ELSE [capture EXCEPT
                          !.got = Append(@, w),
                          !.index = IF capture.got = <<>> THEN w.val \div 4 ELSE @]
    /\ UNCHANGED settings

(* Seeded fault: the next pair goes where this one went. *)
NextIndex_Same(odd) == capture.index

NextIndex(odd) == IF odd THEN (capture.index + 1) % TexSlots ELSE capture.index

(* ... and go on with the pairs, a parameter and a coefficient, each of     *)
(* which takes effect as it comes.                                          *)
CaptureTexPair(w) ==
    LET slot == capture.index % TexSlots
        odd  == capture.seen % 2 = 1
    IN  /\ capture.cmd = "tex" /\ Len(capture.got) = 2
        /\ settings' = IF odd THEN [settings EXCEPT !.coef[slot] = w.at]
                              ELSE [settings EXCEPT !.param[slot] = w.at]
        /\ capture' = IF capture.seen + 1 >= 2 * capture.got[2].val THEN NoCapture
                      ELSE [capture EXCEPT !.seen = @ + 1, !.index = NextIndex(odd)]

Capture(w) == CaptureNothing \/ CaptureFixed(w) \/ CaptureTexHead(w) \/ CaptureTexPair(w)

-----------------------------------------------------------------------------
(* upload_feed_locked, and upload_flush_pending after it. *)
Deliver(body) ==
    /\ upload' = NoUpload
    /\ delivered' = Append(delivered,
                           [cmd |-> upload.cmd, to |-> upload.head[1].at, body |-> body])

Fail(yes) == failed' = IF yes THEN failed \union {Here} ELSE failed

FeedNothing ==
    /\ upload.cmd = "none"
    /\ UNCHANGED <<upload, bufCap, delivered, failed>>

FeedAddress(w) ==
    /\ upload.cmd # "none" /\ upload.head = <<>>
    /\ upload' = [upload EXCEPT !.head = <<w>>]
    /\ UNCHANGED <<bufCap, delivered, failed>>

(* The count: an empty upload is complete, one longer than any before needs *)
(* a larger buffer, without which it is abandoned.                          *)
FeedCount(w) ==
    /\ Len(upload.head) = 1
    /\ \/ w.val = 0 /\ Deliver(<<>>) /\ UNCHANGED <<bufCap, failed>>
       \/ /\ w.val > 0
          /\ upload' = [upload EXCEPT !.head = Append(@, w)]
          /\ bufCap' = Max({w.val, bufCap})
          /\ UNCHANGED <<delivered, failed>>
       \/ /\ w.val > bufCap
          /\ upload' = NoUpload
          /\ Fail(TRUE)
          /\ UNCHANGED <<bufCap, delivered>>

(* The last word completes the upload; without memory for the copy it is    *)
(* delivered empty.                                                         *)
FeedBody(w) ==
    LET body == Append(upload.body, w.at) IN
    /\ Len(upload.head) = 2
    /\ \/ /\ Len(body) < upload.head[2].val
          /\ upload' = [upload EXCEPT !.body = body]
          /\ UNCHANGED <<delivered, failed>>
       \/ /\ Len(body) >= upload.head[2].val
          /\ \E lost \in BOOLEAN : Fail(lost) /\ Deliver(IF lost THEN <<>> ELSE body)
    /\ UNCHANGED bufCap

Feed(w) == FeedNothing \/ FeedAddress(w) \/ FeedCount(w) \/ FeedBody(w)

(* A write to the data port. *)
DataPort(val) ==
    /\ Here <= MaxLog
    /\ Capture(Word(Here, val))
    /\ Feed(Word(Here, val))
    /\ writes' = Append(writes, [port |-> "data", val |-> val])

Next == (\E f \in Ports : CommandPort(f)) \/ ObjectPort \/ (\E v \in Values : DataPort(v))

Spec == Init /\ [][Next]_vars

-----------------------------------------------------------------------------
(* A log of writes, read at once. *)
Data(log)     == {i \in DOMAIN log : log[i].port = "data"}
Commands(log) == {i \in DOMAIN log : log[i].port \in AllPorts}
Starts(log)   == {i \in DOMAIN log : log[i].port \in UploadPorts}

(* The members of a set of numbers, from the least on. *)
InOrder(S) ==
    [k \in 1 .. Cardinality(S) |->
        Min({j \in S : Cardinality({x \in S : x <= j}) >= k})]

(* The data words that belong to command i: those before `others' next. *)
Payload(log, i, others) ==
    InOrder({j \in Data(log) : i < j /\ \A c \in others : ~(i < c /\ c < j)})

Words(log, i)       == Payload(log, i, Commands(log))
UploadWords(log, i) == Payload(log, i, Starts(log))

(* The words of the last complete command f. *)
Full(log, f) ==
    {i \in Commands(log) : log[i].port = f /\ Len(Words(log, i)) >= Need(f)}

LastFixed(log, f) ==
    LET last == Words(log, Max(Full(log, f)))
    IN  IF Full(log, f) = {} THEN DefaultFixed[f]
        ELSE [k \in 1 .. Need(f) |-> Word(last[k], log[last[k]].val)]

(* The words that texture command i has put at a slot, and the last of all. *)
Put(log, i, slot, odd) ==
    LET p == Words(log, i)
    IN  {p[k] : k \in {k \in 3 .. Len(p) :
            /\ k - 3 < 2 * log[p[2]].val
            /\ (k - 3) % 2 = odd
            /\ (log[p[1]].val \div 4 + (k - 3) \div 2) % TexSlots = slot}}

LastTex(log, slot, odd) ==
    LET texes == {i \in Commands(log) : log[i].port = "tex"}
    IN  Max({0} \union UNION {Put(log, i, slot, odd) : i \in texes})

(* The uploads that are complete, in order. *)
Complete(log, bad) ==
    {i \in Starts(log) :
        LET p == UploadWords(log, i)
        IN  /\ Len(p) >= 2 /\ p[2] \notin bad
            /\ Len(p) >= 2 + log[p[2]].val}

Delivery(log, bad, i) ==
    LET p == UploadWords(log, i)
        n == log[p[2]].val
    IN  [cmd |-> log[i].port, to |-> p[1],
         body |-> IF n > 0 /\ p[2 + n] \in bad THEN <<>> ELSE SubSeq(p, 3, 2 + n)]

Uploads(log, bad) ==
    LET order == InOrder(Complete(log, bad))
    IN  [k \in 1 .. Len(order) |-> Delivery(log, bad, order[k])]

-----------------------------------------------------------------------------
(* What was captured is what the last complete command of each kind said,   *)
(* however many commands were cut short, had words to spare, or were mixed  *)
(* with uploads; texture parameters up to the last word written.            *)
SettingsAsWritten ==
    /\ \A f \in FixedPorts : settings.fixed[f] = LastFixed(writes, f)
    /\ \A s \in 0 .. TexSlots - 1 :
          /\ settings.param[s] = LastTex(writes, s, 0)
          /\ settings.coef[s] = LastTex(writes, s, 1)
    /\ settings.projection = Usable(settings.fixed)

(* The renderer gets every upload that was written whole, once, in order,   *)
(* with the words that followed it, and none of one that was cut short or   *)
(* could not be stored: what is left of that is not read as another.        *)
UploadsAsWritten == delivered = Uploads(writes, failed)
=============================================================================
