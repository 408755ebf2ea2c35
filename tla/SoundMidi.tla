------------------------------ MODULE SoundMidi ------------------------------
(***************************************************************************)
(* The way of a sound command's bytes from the game to the sound CPU: the  *)
(* software TX ring at 0x20B100 (src/game/comm_draw_setup.c), emptied once *)
(* per vblank by irq_timer0_drain_pending (src/irq/irq_timer0_latch.c) into*)
(* the UART queue of lib/model2/snd/model2_snd.c, which the board thread   *)
(* drains at the start of each chunk into the SCSP's MIDI FIFO             *)
(* (model2_snd_scsp.c), from which the 68000 pops.  Three bounded buffers: *)
(* the first refuses whole commands, the others drop single bytes.         *)
(*                                                                         *)
(* A byte is its serial number.  Pops and how long the board waits between *)
(* two chunks are left open: the sound program and the audio device decide.*)
(***************************************************************************)
EXTENDS Naturals, Sequences, SequencesExt

CONSTANTS TxCap,    \* the TX ring, 0x80 bytes
          UartCap,  \* UART_Q, 1024
          FifoCap,  \* MIDI_FIFO, 64
          DrainMax, \* bytes[64] of board_chunk
          MaxBytes  \* bound: bytes enqueued

Packet == 3  \* bytes of a command

ASSUME MidiAssumption ==
    /\ TxCap \in Nat /\ TxCap >= Packet
    /\ {UartCap, FifoCap, DrainMax} \subseteq Nat \ {0}
    /\ DrainMax <= FifoCap
    /\ MaxBytes \in Nat

VARIABLES tx,       \* the ring at 0x20b100
          cursor,   \* 0x20b184
          pending,  \* 0x20b180
          draining, \* the main thread is in irq_timer0_drain_pending
          uart,     \* g_uart, between g_uart_r and g_uart_w
          bytes,    \* the local of board_chunk, between uart_drain and midi_in
          fifo,     \* g_midi of the SCSP
          bpc,      \* where board_chunk is
          hist      \* history: serials used, bytes the 68000 got, and
                    \* whether it ever left bytes in the FIFO at a drain

boardVars == <<bytes, fifo, bpc>>
vars == <<tx, cursor, pending, draining, uart, bytes, fifo, bpc, hist>>

Init ==
    /\ tx = [s \in 0 .. TxCap - 1 |-> 0]
    /\ cursor = 0 /\ pending = 0
    /\ draining = FALSE
    /\ uart = <<>> /\ bytes = <<>> /\ fifo = <<>>
    /\ bpc = "drain"
    /\ hist = [sent |-> 0, heard |-> <<>>, behind |-> FALSE, dropped |-> {}]

-----------------------------------------------------------------------------

TxHasRoom == pending + Packet <= TxCap

(* comm_palette_staging_upload: the whole command, or nothing of it.        *)
Enqueue ==
    /\ ~draining /\ hist.sent + Packet <= MaxBytes
    /\ TxHasRoom
    /\ tx' = [s \in 0 .. TxCap - 1 |->
                IF \E k \in 0 .. Packet - 1 : s = (cursor + k) % TxCap
                THEN hist.sent + ((s + TxCap - cursor) % TxCap) ELSE tx[s]]
    /\ cursor' = (cursor + Packet) % TxCap
    /\ pending' = pending + Packet
    /\ hist' = [hist EXCEPT !.sent = @ + Packet]
    /\ UNCHANGED <<draining, uart, boardVars>>

DrainPending ==
    /\ ~draining /\ pending > 0
    /\ draining' = TRUE
    /\ UNCHANGED <<tx, cursor, pending, uart, boardVars, hist>>

(* Seeded fault: the byte under the cursor is sent. *)
NextByte_AtCursor == tx[cursor]

NextByte == tx[(cursor + TxCap - pending) % TxCap]

(* irq_timer0_latch and model2_snd_midi_in: transmission is always ready,   *)
(* and a byte that finds the queue full is gone.  The loop ends when the    *)
(* ring is empty; its guard of 0x80 rounds covers the largest ring.         *)
LatchByte ==
    /\ draining
    /\ pending' = pending - 1
    /\ draining' = (pending' # 0)
    /\ IF Len(uart) < UartCap
       THEN uart' = Append(uart, NextByte) /\ UNCHANGED hist
       ELSE hist' = [hist EXCEPT !.dropped = @ \union {NextByte}] /\ UNCHANGED uart
    /\ UNCHANGED <<tx, cursor, boardVars>>

-----------------------------------------------------------------------------
Lesser(a, b) == IF a < b THEN a ELSE b

(* Seeded fault: one byte more than the FIFO behind it can take. *)
DrainCount_OneMore == Lesser(Len(uart), DrainMax + 1)

(* Seeded fault: the last byte waits for another to follow it. *)
DrainCount_LeavesLast == IF Len(uart) > 1 THEN Lesser(Len(uart) - 1, DrainMax) ELSE 0

DrainCount == Lesser(Len(uart), DrainMax)

(* uart_drain at the start of a chunk. *)
BoardDrain ==
    /\ bpc = "drain"
    /\ bytes' = SubSeq(uart, 1, DrainCount)
    /\ uart' = SubSeq(uart, DrainCount + 1, Len(uart))
    /\ hist' = [hist EXCEPT !.behind = @ \/ (fifo # <<>> /\ DrainCount > 0)]
    /\ bpc' = "feed"
    /\ UNCHANGED <<tx, cursor, pending, draining, fifo>>

(* model2_snd_scsp_midi_in for each byte: a full FIFO drops it. *)
Fed == LET s == fifo \o bytes IN SubSeq(s, 1, Lesser(Len(s), FifoCap))

BoardFeed ==
    /\ bpc = "feed"
    /\ fifo' = Fed
    /\ hist' = [hist EXCEPT !.dropped = @ \union (ToSet(bytes) \ ToSet(Fed))]
    /\ bytes' = <<>>
    /\ bpc' = "render"
    /\ UNCHANGED <<tx, cursor, pending, draining, uart>>

(* The 68000 reads the FIFO while the chunk is rendered. *)
MidiPop ==
    /\ bpc = "render" /\ fifo # <<>>
    /\ fifo' = Tail(fifo)
    /\ hist' = [hist EXCEPT !.heard = Append(@, Head(fifo))]
    /\ UNCHANGED <<tx, cursor, pending, draining, uart, bytes, bpc>>

(* The chunk is pushed, the ring has drained, the next one begins. *)
NextChunk ==
    /\ bpc = "render"
    /\ bpc' = "drain"
    /\ UNCHANGED <<tx, cursor, pending, draining, uart, bytes, fifo, hist>>

-----------------------------------------------------------------------------
Board == BoardDrain \/ BoardFeed \/ MidiPop \/ NextChunk
Next == Enqueue \/ DrainPending \/ LatchByte \/ Board

(* The main thread ends a drain it began; the board goes on from chunk to   *)
(* chunk (an audio device pulls); the sound program reads its FIFO.         *)
Fairness ==
    /\ WF_vars(LatchByte)
    /\ WF_vars(BoardDrain) /\ WF_vars(BoardFeed) /\ WF_vars(NextChunk)
    /\ SF_vars(MidiPop)

Spec == Init /\ [][Next]_vars /\ Fairness

-----------------------------------------------------------------------------
TypeOK ==
    /\ cursor \in 0 .. TxCap - 1 /\ pending \in 0 .. TxCap
    /\ draining \in BOOLEAN /\ (draining => pending > 0)
    /\ Len(uart) <= UartCap /\ Len(bytes) <= DrainMax /\ Len(fifo) <= FifoCap
    /\ bpc \in {"drain", "feed", "render"}

(* What of the TX ring is not yet sent, in the order it will be. *)
Unsent == [i \in 1 .. pending |-> tx[(cursor + TxCap - pending + i - 1) % TxCap]]

Rising(s) == \A i \in 1 .. Len(s) - 1 : s[i] < s[i + 1]

(* Through the three buffers and two threads no byte is reordered, repeated *)
(* or made up, and each is heard, under way, or was dropped at a full queue *)
(* that the model knows of: the TX ring overwrites nothing unsent.          *)
BytesInOrder ==
    LET path == hist.heard \o fifo \o bytes \o uart \o Unsent
    IN  /\ Rising(path)
        /\ ToSet(path) \union hist.dropped = 0 .. hist.sent - 1
        /\ ToSet(path) \intersect hist.dropped = {}

(* The buffers keep their sizes, and the bytes in them their order.         *)
MidiInv == TypeOK /\ BytesInOrder

(* A 64-byte drain into the 64-byte FIFO loses nothing as long as the sound *)
(* program had emptied the FIFO before every drain: the two sizes agree.    *)
LosslessWhenKeptUp ==
    [][ BoardFeed /\ ~hist.behind => hist'.dropped = hist.dropped ]_vars

(* Every byte of the UART queue is heard by the 68000 or dropped at a full  *)
(* FIFO: none is left over in the queue for the next command to push out.   *)
BytesMoveOn ==
    \A b \in 0 .. MaxBytes - 1 :
        b \in ToSet(uart) ~> b \in ToSet(hist.heard) \union hist.dropped
=============================================================================
