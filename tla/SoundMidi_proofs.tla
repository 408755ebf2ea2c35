--------------------------- MODULE SoundMidi_proofs ---------------------------
(***************************************************************************)
(* The bytes of the sound commands, for all sizes with DrainMax <= FifoCap *)
(* and whatever the sound program reads.  First the drain of the UART      *)
(* queue and the MIDI FIFO: a drain into a FIFO it had emptied loses       *)
(* nothing.  Then the order of the bytes, from the slots of the TX ring,   *)
(* which count modulo its size, to what the 68000 has heard.               *)
(***************************************************************************)
EXTENDS SoundMidi, SequenceTheorems, TLAPS

HistType ==
    [sent : Nat, heard : Seq(Nat), behind : BOOLEAN, dropped : SUBSET Nat]

BufferTypes ==
    /\ uart \in Seq(Nat) /\ bytes \in Seq(Nat) /\ fifo \in Seq(Nat)
    /\ tx \in [0 .. TxCap - 1 -> Nat]
    /\ cursor \in 0 .. TxCap - 1
    /\ pending \in 0 .. TxCap
    /\ draining \in BOOLEAN /\ (draining => pending > 0)
    /\ hist \in HistType
    /\ bpc \in {"drain", "feed", "render"}

(* What the board carries fits the FIFO, unless it found bytes left there. *)
FedFits ==
    /\ Len(bytes) <= DrainMax
    /\ bpc = "feed" /\ ~hist.behind => fifo = <<>> \/ bytes = <<>>
    /\ Len(fifo) <= FifoCap

FeedInv == BufferTypes /\ FedFits

-----------------------------------------------------------------------------
LEMMA SizeTypes ==
    /\ TxCap \in Nat \ {0} /\ UartCap \in Nat \ {0}
    /\ FifoCap \in Nat \ {0} /\ DrainMax \in Nat \ {0} /\ DrainMax <= FifoCap
  BY MidiAssumption DEF Packet

LEMMA Remainder ==
    ASSUME NEW w \in Nat \ {0}, NEW a \in Nat
    PROVE  /\ a % w \in 0 .. w - 1
           /\ a - w \in 0 .. w - 1 => a % w = a - w
  <1>1. a % w \in 0 .. w - 1
    OBVIOUS
  <1>2. a - w \in 0 .. w - 1 => a % w = a - w
    OBVIOUS
  <1>3. QED
    BY <1>1, <1>2

(* The shorter of two prefixes of a sequence keeps its elements' type. *)
LEMMA Prefix ==
    ASSUME NEW s \in Seq(Nat), NEW k \in 0 .. Len(s)
    PROVE  /\ SubSeq(s, 1, k) \in Seq(Nat)
           /\ Len(SubSeq(s, 1, k)) = k
           /\ SubSeq(s, k + 1, Len(s)) \in Seq(Nat)
  OBVIOUS

LEMMA NextByteType ==
    ASSUME BufferTypes
    PROVE  NextByte \in Nat
  <1>1. cursor + TxCap - pending \in Nat
    BY SizeTypes DEF BufferTypes
  <1>2. (cursor + TxCap - pending) % TxCap \in 0 .. TxCap - 1
    BY <1>1, SizeTypes, Remainder
  <1>3. QED
    BY <1>2 DEF NextByte, BufferTypes

(* The board takes no more than the FIFO can hold. *)
LEMMA DrainFits ==
    ASSUME BufferTypes
    PROVE  /\ DrainCount \in 0 .. Len(uart)
           /\ DrainCount <= DrainMax
  BY SizeTypes DEF DrainCount, Lesser, BufferTypes

(* A feed that fits is a plain append. *)
LEMMA FedWhole ==
    ASSUME FeedInv, bpc = "feed", ~hist.behind
    PROVE  Fed = fifo \o bytes
  <1>1. /\ fifo \in Seq(Nat) /\ bytes \in Seq(Nat)
        /\ Len(fifo \o bytes) <= FifoCap
    BY SizeTypes DEF FeedInv, BufferTypes, FedFits
  <1>2. Lesser(Len(fifo \o bytes), FifoCap) = Len(fifo \o bytes)
    BY <1>1, SizeTypes DEF Lesser
  <1>3. QED
    BY <1>1, <1>2 DEF Fed

LEMMA InitFeed == Init => FeedInv
  BY SizeTypes DEF Init, FeedInv, BufferTypes, HistType, FedFits

(* The main thread's side leaves what the board holds alone. *)
LEMMA MainFeed ==
    ASSUME FeedInv, Enqueue \/ DrainPending \/ LatchByte
    PROVE  FeedInv'
  <1>1. CASE Enqueue
    <2>1. /\ cursor \in Nat /\ hist.sent \in Nat /\ pending \in Nat
          /\ cursor < TxCap /\ pending + Packet <= TxCap
      BY <1>1, SizeTypes DEF FeedInv, BufferTypes, HistType, Enqueue, TxHasRoom
    <2>2. tx' \in [0 .. TxCap - 1 -> Nat]
      <3>1. ASSUME NEW s \in 0 .. TxCap - 1
            PROVE  hist.sent + ((s + TxCap - cursor) % TxCap) \in Nat
        <4>1. s + TxCap - cursor \in Nat
          BY <2>1, SizeTypes
        <4>2. (s + TxCap - cursor) % TxCap \in 0 .. TxCap - 1
          BY <4>1, SizeTypes, Remainder
        <4>3. QED
          BY <2>1, <4>2
      <3>2. QED
        BY <1>1, <3>1 DEF Enqueue, FeedInv, BufferTypes
    <2>3. cursor' \in 0 .. TxCap - 1
      <3>1. cursor + Packet \in Nat
        BY <2>1 DEF Packet
      <3>2. (cursor + Packet) % TxCap \in 0 .. TxCap - 1
        BY <3>1, SizeTypes, Remainder
      <3>3. QED
        BY <1>1, <3>2 DEF Enqueue
    <2>4. pending' \in 0 .. TxCap /\ pending' > 0
      BY <1>1, <2>1, SizeTypes DEF Enqueue, Packet
    <2>5. /\ hist' \in HistType
          /\ hist'.behind = hist.behind
      <3>1. /\ hist \in HistType /\ hist.sent + Packet \in Nat
            /\ hist' = [hist EXCEPT !.sent = @ + Packet]
        BY <1>1, <2>1 DEF Enqueue, FeedInv, BufferTypes, Packet
      <3>2. QED
        BY <3>1 DEF HistType
    <2>6. BufferTypes'
      BY <1>1, <2>2, <2>3, <2>4, <2>5 DEF Enqueue, boardVars, FeedInv, BufferTypes
    <2>7. FedFits'
      BY <1>1, <2>5 DEF Enqueue, boardVars, FeedInv, FedFits
    <2>8. QED
      BY <2>6, <2>7 DEF FeedInv
  <1>2. CASE DrainPending
    BY <1>2 DEF DrainPending, boardVars, FeedInv, BufferTypes, FedFits
  <1>3. CASE LatchByte
    <2>1. NextByte \in Nat
      BY NextByteType DEF FeedInv
    <2>2. /\ pending' \in 0 .. TxCap
          /\ draining' \in BOOLEAN /\ (draining' => pending' > 0)
      <3>1. pending \in 0 .. TxCap /\ pending > 0 /\ pending' = pending - 1
        BY <1>3 DEF LatchByte, FeedInv, BufferTypes
      <3>2. pending' \in 0 .. TxCap
        BY <3>1, SizeTypes
      <3>3. draining' \in BOOLEAN /\ (draining' => pending' # 0)
        BY <1>3, Zenon DEF LatchByte
      <3>4. QED
        BY <3>2, <3>3
    <2>3. UNCHANGED <<tx, cursor, bytes, fifo, bpc>>
      BY <1>3 DEF LatchByte, boardVars
    <2>4. CASE uart' = Append(uart, NextByte) /\ UNCHANGED hist
      <3>1. uart' \in Seq(Nat)
        BY <2>1, <2>4 DEF FeedInv, BufferTypes
      <3>2. QED
        BY <2>2, <2>3, <2>4, <3>1 DEF FeedInv, BufferTypes, FedFits
    <2>5. CASE hist' = [hist EXCEPT !.dropped = @ \union {NextByte}] /\ UNCHANGED uart
      <3>1. /\ hist' \in HistType
            /\ hist'.behind = hist.behind
        BY <2>1, <2>5 DEF FeedInv, BufferTypes, HistType
      <3>2. QED
        BY <2>2, <2>3, <2>5, <3>1 DEF FeedInv, BufferTypes, FedFits
    <2>6. QED
      BY <1>3, <2>4, <2>5 DEF LatchByte
  <1>4. QED
    BY <1>1, <1>2, <1>3

(* The board's side. *)
LEMMA BoardFeedInv ==
    ASSUME FeedInv, Board
    PROVE  FeedInv'
  <1>1. CASE BoardDrain
    <2>1. /\ DrainCount \in 0 .. Len(uart) /\ DrainCount <= DrainMax /\ uart \in Seq(Nat)
      BY DrainFits DEF FeedInv, BufferTypes
    <2>2. bytes' \in Seq(Nat) /\ Len(bytes') = DrainCount /\ uart' \in Seq(Nat)
      BY <1>1, <2>1, Prefix DEF BoardDrain
    <2>3. /\ hist' \in HistType
          /\ ~hist'.behind => fifo = <<>> \/ DrainCount = 0
      <3>1. /\ hist \in HistType
            /\ hist' = [hist EXCEPT !.behind = @ \/ (fifo # <<>> /\ DrainCount > 0)]
        BY <1>1 DEF BoardDrain, FeedInv, BufferTypes
      <3>2. hist.behind \in BOOLEAN
        BY <3>1 DEF HistType
      <3>3. (hist.behind \/ (fifo # <<>> /\ DrainCount > 0)) \in BOOLEAN
        OBVIOUS
      <3>4. /\ hist' \in HistType
            /\ hist'.behind = (hist.behind \/ (fifo # <<>> /\ DrainCount > 0))
        BY <3>1, <3>3 DEF HistType
      <3>5. ~hist'.behind => ~(fifo # <<>> /\ DrainCount > 0)
        BY <3>4, Zenon
      <3>6. DrainCount > 0 \/ DrainCount = 0
        BY <2>1
      <3>7. QED
        BY <3>4, <3>5, <3>6, Zenon
    <2>4. BufferTypes'
      BY <1>1, <2>2, <2>3 DEF BoardDrain, FeedInv, BufferTypes
    <2>5. ~hist'.behind => fifo' = <<>> \/ bytes' = <<>>
      BY <1>1, <2>2, <2>3 DEF BoardDrain
    <2>6. QED
      BY <1>1, <2>1, <2>2, <2>4, <2>5 DEF BoardDrain, FeedInv, FedFits
  <1>2. CASE BoardFeed
    <2>1. /\ fifo \o bytes \in Seq(Nat)
          /\ Lesser(Len(fifo \o bytes), FifoCap) \in 0 .. Len(fifo \o bytes)
          /\ Lesser(Len(fifo \o bytes), FifoCap) <= FifoCap
      BY SizeTypes DEF FeedInv, BufferTypes, Lesser
    <2>2. fifo' \in Seq(Nat) /\ Len(fifo') <= FifoCap
      BY <1>2, <2>1, Prefix DEF BoardFeed, Fed
    <2>3. bytes' = <<>> /\ bytes' \in Seq(Nat) /\ Len(bytes') = 0 /\ bpc' = "render"
      BY <1>2 DEF BoardFeed
    <2>4. ToSet(bytes) \subseteq Nat
      BY DEF FeedInv, BufferTypes, ToSet
    <2>5. hist' \in HistType
      BY <1>2, <2>4 DEF BoardFeed, FeedInv, BufferTypes, HistType
    <2>6. QED
      BY <1>2, <2>2, <2>3, <2>5, SizeTypes DEF BoardFeed, FeedInv, BufferTypes, FedFits
  <1>3. CASE MidiPop
    <2>1. fifo' \in Seq(Nat) /\ Len(fifo') <= FifoCap /\ Head(fifo) \in Nat
      <3>1. fifo \in Seq(Nat) /\ fifo # <<>> /\ fifo' = Tail(fifo) /\ Len(fifo) <= FifoCap
        BY <1>3 DEF MidiPop, FeedInv, BufferTypes, FedFits
      <3>2. Tail(fifo) \in Seq(Nat) /\ Len(Tail(fifo)) = Len(fifo) - 1 /\ Head(fifo) \in Nat
        BY <3>1
      <3>3. Len(fifo) - 1 <= FifoCap
        BY <3>1, SizeTypes
      <3>4. QED
        BY <3>1, <3>2, <3>3
    <2>2. Append(hist.heard, Head(fifo)) \in Seq(Nat)
      BY <2>1 DEF FeedInv, BufferTypes, HistType
    <2>3. hist' \in HistType
      BY <1>3, <2>2 DEF MidiPop, FeedInv, BufferTypes, HistType
    <2>4. QED
      BY <1>3, <2>1, <2>3 DEF MidiPop, FeedInv, BufferTypes, FedFits
  <1>4. CASE NextChunk
    BY <1>4 DEF NextChunk, FeedInv, BufferTypes, FedFits
  <1>5. QED
    BY <1>1, <1>2, <1>3, <1>4 DEF Board

(* The sizes of what is under way, in every state (model2_snd.c, board_chunk). *)
THEOREM FeedInvariance == Spec => []FeedInv
  <1>1. FeedInv /\ UNCHANGED vars => FeedInv'
    BY DEF vars, boardVars, FeedInv, BufferTypes, FedFits
  <1>2. FeedInv /\ [Next]_vars => FeedInv'
    BY <1>1, MainFeed, BoardFeedInv DEF Next
  <1>3. QED
    BY <1>2, InitFeed, PTL DEF Spec

(* A drain into the FIFO the sound program had emptied loses no byte, for    *)
(* every size of the two that satisfies the assumption.                      *)
THEOREM NothingLostWhenKeptUp == Spec => LosslessWhenKeptUp
  <1>1. ASSUME FeedInv, BoardFeed, ~hist.behind
        PROVE  hist'.dropped = hist.dropped
    <2>1. Fed = fifo \o bytes
      BY <1>1, FedWhole DEF BoardFeed
    <2>2. ToSet(bytes) \subseteq ToSet(Fed)
      <3>1. SUFFICES ASSUME NEW i \in DOMAIN bytes
                     PROVE  bytes[i] \in ToSet(fifo \o bytes)
        BY <2>1 DEF ToSet
      <3>2. fifo \in Seq(Nat) /\ bytes \in Seq(Nat)
        BY <1>1 DEF FeedInv, BufferTypes
      <3>3. /\ Len(fifo) + i \in DOMAIN (fifo \o bytes)
            /\ (fifo \o bytes)[Len(fifo) + i] = bytes[i]
        BY <3>2
      <3>4. QED
        BY <3>3 DEF ToSet
    <2>3. hist' = [hist EXCEPT !.dropped = @]
      BY <1>1, <2>2 DEF BoardFeed
    <2>4. QED
      BY <1>1, <2>3 DEF FeedInv, BufferTypes, HistType
  <1>2. FeedInv /\ [Next]_vars =>
          [BoardFeed /\ ~hist.behind => hist'.dropped = hist.dropped]_vars
    BY <1>1
  <1>3. QED
    BY <1>2, FeedInvariance, PTL DEF Spec, LosslessWhenKeptUp

-----------------------------------------------------------------------------
(***************************************************************************)
(* The order of the bytes.  Rising compares neighbours; what is inductive  *)
(* compares any two (Ordered), because a byte dropped at a full queue makes*)
(* neighbours of others.                                                   *)
(***************************************************************************)
Ordered(s) == \A i, j \in 1 .. Len(s) : i < j => s[i] < s[j]

(* The way of the bytes up to the UART queue, and all of it. *)
Heard == (hist.heard \o fifo) \o bytes
Path  == (Heard \o uart) \o Unsent

(* Every byte sent is on its way or dropped, and those are in order. *)
Accounted(path, dropped, sent) ==
    /\ Ordered(path)
    /\ ToSet(path) \union dropped = 0 .. sent - 1
    /\ ToSet(path) \intersect dropped = {}

PathInv ==
    /\ Accounted(Path, hist.dropped, hist.sent)
    /\ bpc # "feed" => bytes = <<>>
    /\ Len(uart) <= UartCap

OrderInv == FeedInv /\ PathInv

-----------------------------------------------------------------------------
LEMMA OneTurn ==
    ASSUME NEW w \in Nat \ {0}, NEW a \in Nat
    PROVE  /\ a < w => a % w = a
           /\ w <= a /\ a < w + w => a % w = a - w
  <1>1. a < w => a % w = a
    OBVIOUS
  <1>2. w <= a /\ a < w + w => a - w \in 0 .. w - 1
    OBVIOUS
  <1>3. QED
    BY <1>1, <1>2, Remainder

LEMMA Members ==
    ASSUME NEW s \in Seq(Nat), NEW b
    PROVE  b \in ToSet(s) <=> \E i \in 1 .. Len(s) : b = s[i]
  <1>1. DOMAIN s = 1 .. Len(s)
    OBVIOUS
  <1>2. QED
    BY <1>1 DEF ToSet

LEMMA Wrap ==
    ASSUME NEW w \in Nat \ {0}, NEW a \in Nat, a < w + w
    PROVE  a % w = IF a < w THEN a ELSE a - w
  <1>1. CASE a < w
    BY <1>1, OneTurn
  <1>2. CASE w <= a
    <2>1. a % w = a - w
      BY <1>2, OneTurn
    <2>2. ~(a < w)
      BY <1>2
    <2>3. QED
      BY <2>1, <2>2, Zenon
  <1>3. QED
    BY <1>1, <1>2

LEMMA Assoc ==
    ASSUME NEW s \in Seq(Nat), NEW t \in Seq(Nat), NEW u \in Seq(Nat)
    PROVE  (s \o t) \o u = s \o (t \o u)
  BY ConcatAssociative

(* The elements of a concatenation, and where they stand. *)
LEMMA Joined ==
    ASSUME NEW s \in Seq(Nat), NEW t \in Seq(Nat)
    PROVE  /\ s \o t \in Seq(Nat)
           /\ Len(s \o t) = Len(s) + Len(t)
           /\ \A i \in 1 .. Len(s) : (s \o t)[i] = s[i]
           /\ \A i \in 1 .. Len(t) : (s \o t)[Len(s) + i] = t[i]
           /\ \A i \in Len(s) + 1 .. Len(s) + Len(t) : (s \o t)[i] = t[i - Len(s)]
           /\ ToSet(s \o t) = ToSet(s) \union ToSet(t)
  <1>1. /\ s \o t \in Seq(Nat)
        /\ Len(s \o t) = Len(s) + Len(t)
        /\ \A i \in 1 .. Len(s) + Len(t) :
              (s \o t)[i] = IF i <= Len(s) THEN s[i] ELSE t[i - Len(s)]
    BY ConcatProperties
  <1>2. /\ \A i \in 1 .. Len(s) : (s \o t)[i] = s[i]
        /\ \A i \in 1 .. Len(t) : (s \o t)[Len(s) + i] = t[i]
        /\ \A i \in Len(s) + 1 .. Len(s) + Len(t) : (s \o t)[i] = t[i - Len(s)]
    BY <1>1
  <1>3. ToSet(s \o t) \subseteq ToSet(s) \union ToSet(t)
    <2>1. SUFFICES ASSUME NEW i \in 1 .. Len(s) + Len(t)
                   PROVE  (s \o t)[i] \in ToSet(s) \union ToSet(t)
      <3>1. \A b \in ToSet(s \o t) : \E i \in 1 .. Len(s) + Len(t) : b = (s \o t)[i]
        <4>1. s \o t \in Seq(Nat) /\ Len(s \o t) = Len(s) + Len(t)
          BY <1>1
        <4>2. QED
          BY <4>1, Members
      <3>2. QED
        BY <3>1
    <2>2. CASE i <= Len(s)
      BY <1>1, <2>2, Members
    <2>3. CASE ~(i <= Len(s))
      <3>1. i - Len(s) \in 1 .. Len(t)
        BY <2>3
      <3>2. QED
        BY <1>1, <2>3, <3>1, Members
    <2>4. QED
      BY <2>2, <2>3
  <1>4. ToSet(s) \union ToSet(t) \subseteq ToSet(s \o t)
    <2>1. ASSUME NEW i \in 1 .. Len(s) PROVE s[i] \in ToSet(s \o t)
      <3>1. i \in 1 .. Len(s) + Len(t)
        OBVIOUS
      <3>2. (s \o t)[i] = s[i]
        BY <1>2
      <3>3. QED
        BY <1>1, <3>1, <3>2, Members
    <2>2. ASSUME NEW i \in 1 .. Len(t) PROVE t[i] \in ToSet(s \o t)
      <3>1. Len(s) + i \in 1 .. Len(s) + Len(t)
        OBVIOUS
      <3>2. (s \o t)[Len(s) + i] = t[i]
        BY <1>2
      <3>3. QED
        BY <1>1, <3>1, <3>2, Members
    <2>3. /\ \A b \in ToSet(s) : \E i \in 1 .. Len(s) : b = s[i]
          /\ \A b \in ToSet(t) : \E i \in 1 .. Len(t) : b = t[i]
      BY Members
    <2>4. QED
      BY <2>1, <2>2, <2>3
  <1>5. QED
    BY <1>1, <1>2, <1>3, <1>4

(* What is ordered whole is ordered in both parts, the first before the     *)
(* second; and the other way round.                                         *)
LEMMA OrderedParts ==
    ASSUME NEW s \in Seq(Nat), NEW t \in Seq(Nat)
    PROVE  Ordered(s \o t) <=>
             /\ Ordered(s) /\ Ordered(t)
             /\ \A i \in 1 .. Len(s), j \in 1 .. Len(t) : s[i] < t[j]
  <1> DEFINE u == s \o t
  <1>1. /\ u \in Seq(Nat) /\ Len(u) = Len(s) + Len(t)
        /\ \A i \in 1 .. Len(s) : u[i] = s[i]
        /\ \A i \in 1 .. Len(t) : u[Len(s) + i] = t[i]
        /\ \A i \in Len(s) + 1 .. Len(s) + Len(t) : u[i] = t[i - Len(s)]
    BY Joined
  <1> HIDE DEF u
  <1>2. ASSUME Ordered(u)
        PROVE  /\ Ordered(s) /\ Ordered(t)
               /\ \A i \in 1 .. Len(s), j \in 1 .. Len(t) : s[i] < t[j]
    <2>1. Ordered(s)
      BY <1>1, <1>2 DEF Ordered
    <2>2. Ordered(t)
      <3>1. SUFFICES ASSUME NEW i \in 1 .. Len(t), NEW j \in 1 .. Len(t), i < j
                     PROVE  t[i] < t[j]
        BY DEF Ordered
      <3>2. /\ Len(s) + i \in 1 .. Len(u) /\ Len(s) + j \in 1 .. Len(u)
            /\ Len(s) + i < Len(s) + j
        BY <1>1, <3>1
      <3>3. QED
        BY <1>1, <1>2, <3>2 DEF Ordered
    <2>3. ASSUME NEW i \in 1 .. Len(s), NEW j \in 1 .. Len(t) PROVE s[i] < t[j]
      <3> Len(s) \in Nat /\ Len(t) \in Nat /\ Len(u) = Len(s) + Len(t)
        BY <1>1
      <3>1. i \in 1 .. Len(u) /\ Len(s) + j \in 1 .. Len(u) /\ i < Len(s) + j
        OBVIOUS
      <3>2. QED
        BY <1>1, <1>2, <3>1 DEF Ordered
    <2>4. QED
      BY <2>1, <2>2, <2>3
  <1>3. ASSUME Ordered(s), Ordered(t),
               \A i \in 1 .. Len(s), j \in 1 .. Len(t) : s[i] < t[j]
        PROVE  Ordered(u)
    <2>1. SUFFICES ASSUME NEW i \in 1 .. Len(u), NEW j \in 1 .. Len(u), i < j
                   PROVE  u[i] < u[j]
      BY DEF Ordered
    <2>2. CASE j <= Len(s)
      <3>1. i \in 1 .. Len(s) /\ j \in 1 .. Len(s)
        BY <2>1, <2>2
      <3>2. QED
        BY <1>1, <1>3, <2>1, <3>1 DEF Ordered
    <2>3. CASE i <= Len(s) /\ Len(s) < j
      <3>1. /\ j - Len(s) \in 1 .. Len(t) /\ j \in Len(s) + 1 .. Len(s) + Len(t)
            /\ i \in 1 .. Len(s)
        BY <1>1, <2>3
      <3>2. u[i] = s[i] /\ u[j] = t[j - Len(s)]
        BY <1>1, <3>1
      <3>3. s[i] < t[j - Len(s)]
        BY <1>3, <3>1
      <3>4. QED
        BY <3>2, <3>3
    <2>4. CASE Len(s) < i
      <3>1. /\ j - Len(s) \in 1 .. Len(t) /\ j \in Len(s) + 1 .. Len(s) + Len(t)
            /\ i - Len(s) \in 1 .. Len(t) /\ i \in Len(s) + 1 .. Len(s) + Len(t)
            /\ i - Len(s) < j - Len(s)
        BY <1>1, <2>1, <2>4
      <3>2. u[i] = t[i - Len(s)] /\ u[j] = t[j - Len(s)]
        BY <1>1, <3>1
      <3>3. t[i - Len(s)] < t[j - Len(s)]
        BY <1>3, <3>1 DEF Ordered
      <3>4. QED
        BY <3>2, <3>3
    <2>5. QED
      BY <1>1, <2>2, <2>3, <2>4
  <1>4. QED
    BY <1>2, <1>3 DEF u

(* A stretch taken out of an ordered sequence leaves it ordered, and none of *)
(* it behind.                                                               *)
LEMMA TakenOut ==
    ASSUME NEW s \in Seq(Nat), NEW m \in Seq(Nat), NEW t \in Seq(Nat),
           Ordered((s \o m) \o t)
    PROVE  /\ Ordered(s \o t)
           /\ ToSet((s \o m) \o t) = ToSet(s \o t) \union ToSet(m)
           /\ ToSet(m) \intersect ToSet(s \o t) = {}
  <1>1. s \o m \in Seq(Nat) /\ s \o t \in Seq(Nat)
    BY Joined
  <1>2. /\ Ordered(s \o m) /\ Ordered(t)
        /\ \A i \in 1 .. Len(s \o m), j \in 1 .. Len(t) : (s \o m)[i] < t[j]
    BY <1>1, OrderedParts
  <1>3. /\ Ordered(s) /\ Ordered(m)
        /\ \A i \in 1 .. Len(s), j \in 1 .. Len(m) : s[i] < m[j]
    BY <1>2, OrderedParts
  <1>4. /\ \A i \in 1 .. Len(s), j \in 1 .. Len(t) : s[i] < t[j]
        /\ \A i \in 1 .. Len(m), j \in 1 .. Len(t) : m[i] < t[j]
    <2>1. ASSUME NEW i \in 1 .. Len(s), NEW j \in 1 .. Len(t) PROVE s[i] < t[j]
      <3>1. i \in 1 .. Len(s \o m) /\ (s \o m)[i] = s[i]
        BY Joined
      <3>2. QED
        BY <1>2, <3>1
    <2>2. ASSUME NEW i \in 1 .. Len(m), NEW j \in 1 .. Len(t) PROVE m[i] < t[j]
      <3>1. Len(s) + i \in 1 .. Len(s \o m) /\ (s \o m)[Len(s) + i] = m[i]
        BY Joined
      <3>2. QED
        BY <1>2, <3>1
    <2>3. QED
      BY <2>1, <2>2
  <1>5. Ordered(s \o t)
    BY <1>2, <1>3, <1>4, OrderedParts
  <1>6. /\ ToSet((s \o m) \o t) = (ToSet(s) \union ToSet(m)) \union ToSet(t)
        /\ ToSet(s \o t) = ToSet(s) \union ToSet(t)
    <2>1. ToSet((s \o m) \o t) = ToSet(s \o m) \union ToSet(t)
      BY <1>1, Joined
    <2>2. ToSet(s \o m) = ToSet(s) \union ToSet(m) /\ ToSet(s \o t) = ToSet(s) \union ToSet(t)
      BY Joined
    <2>3. QED
      BY <2>1, <2>2
  <1>7. ASSUME NEW b \in ToSet(m), b \in ToSet(s) \union ToSet(t) PROVE FALSE
    <2>1. PICK j \in 1 .. Len(m) : b = m[j]
      BY <1>7, Members
    <2>2. b \in Nat
      BY <2>1
    <2>3. CASE b \in ToSet(s)
      <3>1. PICK i \in 1 .. Len(s) : b = s[i]
        BY <2>3, Members
      <3>2. s[i] < m[j]
        BY <1>3
      <3>3. b < b
        BY <2>1, <3>1, <3>2
      <3>4. QED
        BY <2>2, <3>3
    <2>4. CASE b \in ToSet(t)
      <3>1. PICK i \in 1 .. Len(t) : b = t[i]
        BY <2>4, Members
      <3>2. m[j] < t[i]
        BY <1>4
      <3>3. b < b
        BY <2>1, <3>1, <3>2
      <3>4. QED
        BY <2>2, <3>3
    <2>5. QED
      BY <1>7, <2>3, <2>4
  <1>8. QED
    BY <1>5, <1>6, <1>7

-----------------------------------------------------------------------------
LEMMA FunIsSeq ==
    ASSUME NEW n \in Nat, NEW s \in [1 .. n -> Nat]
    PROVE  s \in Seq(Nat) /\ Len(s) = n
  OBVIOUS

(* A ring read from its tail, p slots behind its cursor. *)
TailOf(ring, c, p) == [i \in 1 .. p |-> ring[(c + TxCap - p + i - 1) % TxCap]]

LEMMA TailOfRing ==
    ASSUME NEW ring \in [0 .. TxCap - 1 -> Nat], NEW c \in 0 .. TxCap - 1,
           NEW p \in 0 .. TxCap
    PROVE  /\ TailOf(ring, c, p) \in Seq(Nat)
           /\ Len(TailOf(ring, c, p)) = p
           /\ \A i \in 1 .. p :
                 TailOf(ring, c, p)[i] = ring[(c + TxCap - p + i - 1) % TxCap]
  <1> DEFINE s == TailOf(ring, c, p)
  <1>1. ASSUME NEW i \in 1 .. p
        PROVE  ring[(c + TxCap - p + i - 1) % TxCap] \in Nat
    <2>1. c + TxCap - p + i - 1 \in Nat
      BY SizeTypes
    <2>2. (c + TxCap - p + i - 1) % TxCap \in 0 .. TxCap - 1
      BY <2>1, SizeTypes, Remainder
    <2>3. QED
      BY <2>2
  <1>2. s \in [1 .. p -> Nat]
    BY <1>1 DEF TailOf
  <1>3. p \in Nat
    BY SizeTypes
  <1>4. s \in Seq(Nat) /\ Len(s) = p
    BY <1>2, <1>3, IsASeq
  <1>5. QED
    BY <1>4 DEF TailOf

(* The byte sent is the oldest. *)
LEMMA OldestFirst ==
    ASSUME BufferTypes, pending > 0, pending' = pending - 1, UNCHANGED <<tx, cursor>>,
           BufferTypes'
    PROVE  Unsent = <<NextByte>> \o Unsent'
  <1> DEFINE one == <<NextByte>>
  <1>1. NextByte \in Nat /\ one \in Seq(Nat) /\ Len(one) = 1 /\ one[1] = NextByte
    BY NextByteType
  <1>2. /\ Unsent \in Seq(Nat) /\ Len(Unsent) = pending
        /\ \A i \in 1 .. pending :
              Unsent[i] = tx[(cursor + TxCap - pending + i - 1) % TxCap]
    <2>1. Unsent = TailOf(tx, cursor, pending)
      BY DEF Unsent, TailOf
    <2>2. QED
      BY <2>1, TailOfRing DEF BufferTypes
  <1>3. /\ Unsent' \in Seq(Nat) /\ Len(Unsent') = pending - 1
        /\ \A i \in 1 .. pending - 1 :
              Unsent'[i] = tx[(cursor + TxCap - (pending - 1) + i - 1) % TxCap]
    <2>1. /\ Unsent' \in Seq(Nat) /\ Len(Unsent') = pending'
          /\ \A i \in 1 .. pending' :
                Unsent'[i] = tx'[(cursor' + TxCap - pending' + i - 1) % TxCap]
      <3>1. Unsent' = TailOf(tx', cursor', pending')
        BY DEF Unsent, TailOf
      <3>2. QED
        BY <3>1, TailOfRing DEF BufferTypes
    <2>2. QED
      BY <2>1
  <1>4. cursor \in Nat /\ pending \in Nat /\ TxCap \in Nat
    BY SizeTypes DEF BufferTypes
  <1> HIDE DEF one
  <1>5. /\ one \o Unsent' \in Seq(Nat) /\ Len(one \o Unsent') = pending
        /\ (one \o Unsent')[1] = NextByte
        /\ \A i \in 2 .. pending : (one \o Unsent')[i] = Unsent'[i - 1]
    <2> DEFINE rest == Unsent'
    <2>1. /\ rest \in Seq(Nat) /\ Len(rest) = pending - 1
      BY <1>3
    <2> HIDE DEF rest
    <2>2. /\ one \o rest \in Seq(Nat) /\ Len(one \o rest) = Len(one) + Len(rest)
          /\ \A i \in 1 .. Len(one) : (one \o rest)[i] = one[i]
          /\ \A i \in Len(one) + 1 .. Len(one) + Len(rest) : (one \o rest)[i] = rest[i - Len(one)]
      BY <1>1, <2>1, Joined
    <2>3. /\ 1 \in 1 .. Len(one) /\ Len(one) + Len(rest) = pending
          /\ Len(one) + 1 = 2
      BY <1>1, <1>4, <2>1
    <2>4. QED
      BY <1>1, <2>2, <2>3 DEF rest
  <1>6. ASSUME NEW i \in 1 .. pending PROVE Unsent[i] = (one \o Unsent')[i]
    <2>1. CASE i = 1
      <3>1. cursor + TxCap - pending + 1 - 1 = cursor + TxCap - pending
        BY <1>4
      <3>2. Unsent[1] = tx[(cursor + TxCap - pending + 1 - 1) % TxCap]
        BY <1>2, <2>1
      <3>3. QED
        BY <1>5, <2>1, <3>1, <3>2 DEF NextByte
    <2>2. CASE i # 1
      <3>1. /\ i - 1 \in 1 .. pending - 1 /\ i \in 2 .. pending
            /\ cursor + TxCap - (pending - 1) + (i - 1) - 1 = cursor + TxCap - pending + i - 1
        BY <1>4, <2>2
      <3>2. Unsent'[i - 1] = tx[(cursor + TxCap - (pending - 1) + (i - 1) - 1) % TxCap]
        BY <1>3, <3>1
      <3>3. QED
        BY <1>2, <1>5, <3>1, <3>2
    <2>3. QED
      BY <2>1, <2>2
  <1>7. Unsent = one \o Unsent'
    BY <1>2, <1>5, <1>6, SeqEqual
  <1>8. QED
    BY <1>7 DEF one

(* A command enters behind what was unsent, and overwrites none of it. *)
LEMMA NewestLast ==
    ASSUME BufferTypes, BufferTypes', Enqueue
    PROVE  /\ Len(Unsent') = pending + Packet
           /\ \A i \in 1 .. pending : Unsent'[i] = Unsent[i]
           /\ \A i \in pending + 1 .. pending + Packet :
                 Unsent'[i] = hist.sent + (i - pending - 1)
  <1> DEFINE c == cursor
             p == pending
             T == TxCap
  <1>1. /\ c \in 0 .. T - 1 /\ p \in 0 .. T /\ T \in Nat /\ T >= 3 /\ p + 3 <= T
        /\ cursor' = (c + 3) % T /\ pending' = p + 3 /\ hist.sent \in Nat
    BY MidiAssumption DEF BufferTypes, HistType, Enqueue, TxHasRoom, Packet
  <1>2. \A s \in 0 .. T - 1 :
           tx'[s] = IF \E k \in 0 .. 2 : s = (c + k) % T
                    THEN hist.sent + ((s + T - c) % T) ELSE tx[s]
    BY DEF Enqueue, Packet
  <1>3. /\ Len(Unsent) = p
        /\ \A i \in 1 .. p : Unsent[i] = tx[(c + T - p + i - 1) % T]
    <2>1. Unsent = TailOf(tx, cursor, pending)
      BY DEF Unsent, TailOf
    <2>2. QED
      BY <2>1, TailOfRing DEF BufferTypes
  <1>4. /\ Len(Unsent') = p + 3
        /\ \A i \in 1 .. p + 3 : Unsent'[i] = tx'[(cursor' + T - (p + 3) + i - 1) % T]
    <2>1. /\ Len(Unsent') = pending'
          /\ \A i \in 1 .. pending' : Unsent'[i] = tx'[(cursor' + T - pending' + i - 1) % T]
      <3>1. Unsent' = TailOf(tx', cursor', pending')
        BY DEF Unsent, TailOf
      <3>2. QED
        BY <3>1, TailOfRing DEF BufferTypes
    <2>2. QED
      BY <1>1, <2>1
  <1> HIDE DEF c, p, T
  <1>5. cursor' = IF c + 3 < T THEN c + 3 ELSE c + 3 - T
    <2> DEFINE a == c + 3
    <2>1. T \in Nat \ {0} /\ a \in Nat /\ a < T + T
      BY <1>1
    <2>2. a % T = IF a < T THEN a ELSE a - T
      <3> HIDE DEF a
      <3>1. QED
        BY <2>1, Wrap
    <2>3. QED
      BY <1>1, <2>2
  (* The slot of the i-th unsent byte, counted from the old cursor. *)
  <1> DEFINE at(i) == IF c + T - p + i - 1 < T THEN c + T - p + i - 1
                      ELSE IF c + T - p + i - 1 < T + T THEN c - p + i - 1
                      ELSE c - T - p + i - 1
  <1>6. ASSUME NEW i \in 1 .. p + 3
        PROVE  (cursor' + T - (p + 3) + i - 1) % T = at(i) /\ at(i) \in 0 .. T - 1
    <2> DEFINE a == cursor' + T - (p + 3) + i - 1
    <2>1. a \in Nat /\ a < T + T /\ T \in Nat \ {0}
      BY <1>1, <1>5
    <2>2. a % T = IF a < T THEN a ELSE a - T
      <3> HIDE DEF a
      <3>1. QED
        BY <2>1, Wrap
    <2>3. (IF a < T THEN a ELSE a - T) = at(i) /\ at(i) \in 0 .. T - 1
      BY <1>1, <1>5, <2>1
    <2>4. QED
      BY <2>2, <2>3
  <1>7. ASSUME NEW i \in 1 .. p
        PROVE  (c + T - p + i - 1) % T = at(i)
    <2> DEFINE a == c + T - p + i - 1
    <2>1. a \in Nat /\ a < T + T /\ T \in Nat \ {0}
      BY <1>1
    <2>2. a % T = IF a < T THEN a ELSE a - T
      <3> HIDE DEF a
      <3>1. QED
        BY <2>1, Wrap
    <2>3. (IF a < T THEN a ELSE a - T) = at(i)
      BY <1>1, <2>1
    <2>4. QED
      BY <2>2, <2>3
  <1>8. ASSUME NEW k \in 0 .. 2
        PROVE  /\ c + k < T => (c + k) % T = c + k
               /\ T <= c + k => (c + k) % T = c + k - T
    <2> DEFINE a == c + k
    <2>1. T \in Nat \ {0} /\ a \in Nat /\ a < T + T
      BY <1>1
    <2>2. /\ a < T => a % T = a
          /\ T <= a => a % T = a - T
      <3> HIDE DEF a
      <3>1. QED
        BY <2>1, OneTurn
    <2>3. QED
      BY <1>1, <2>1, <2>2
  <1>9. ASSUME NEW i \in 1 .. p PROVE Unsent'[i] = Unsent[i]
    <2>1. i \in 1 .. p + 3
      BY <1>1
    <2>2. Unsent'[i] = tx'[at(i)] /\ at(i) \in 0 .. T - 1
      BY <1>4, <1>6, <2>1
    <2>3. ~ \E k \in 0 .. 2 : at(i) = (c + k) % T
      BY <1>1, <1>8
    <2>4. tx'[at(i)] = tx[at(i)]
      BY <1>2, <2>2, <2>3
    <2>5. QED
      BY <1>3, <1>7, <2>2, <2>4
  <1>10. ASSUME NEW i \in p + 1 .. p + 3 PROVE Unsent'[i] = hist.sent + (i - p - 1)
    <2> DEFINE k == i - p - 1
    <2>1. i \in 1 .. p + 3 /\ k \in 0 .. 2
      BY <1>1
    <2>2. Unsent'[i] = tx'[at(i)] /\ at(i) \in 0 .. T - 1
      BY <1>4, <1>6, <2>1
    <2>3. at(i) = (c + k) % T
      BY <1>1, <1>8, <2>1
    <2>4. (at(i) + T - c) % T = k
      <3> DEFINE a == at(i) + T - c
      <3>1. a \in Nat /\ a < T + T /\ T \in Nat \ {0}
        BY <1>1, <2>1
      <3>2. a % T = IF a < T THEN a ELSE a - T
        <4> HIDE DEF a
        <4>1. QED
          BY <3>1, Wrap
      <3>3. (IF a < T THEN a ELSE a - T) = k
        BY <1>1, <2>1
      <3>4. QED
        BY <3>2, <3>3
    <2>5. tx'[at(i)] = hist.sent + ((at(i) + T - c) % T)
      BY <1>2, <2>1, <2>2, <2>3
    <2>6. QED
      BY <2>2, <2>4, <2>5
  <1>11. QED
    BY <1>4, <1>9, <1>10 DEF c, p, T, Packet

-----------------------------------------------------------------------------
(* What the parts of the path are. *)
LEMMA PathTypes ==
    ASSUME BufferTypes
    PROVE  /\ hist.heard \in Seq(Nat) /\ fifo \in Seq(Nat) /\ bytes \in Seq(Nat)
           /\ uart \in Seq(Nat) /\ Unsent \in Seq(Nat) /\ Heard \in Seq(Nat)
           /\ hist.dropped \in SUBSET Nat /\ hist.sent \in Nat
  <1>1. Unsent = TailOf(tx, cursor, pending)
    BY DEF Unsent, TailOf
  <1>2. Unsent \in Seq(Nat)
    BY <1>1, TailOfRing DEF BufferTypes
  <1>3. hist.heard \in Seq(Nat) /\ fifo \in Seq(Nat) /\ bytes \in Seq(Nat) /\ uart \in Seq(Nat)
    BY DEF BufferTypes, HistType
  <1>4. Heard \in Seq(Nat)
    BY <1>3, Joined DEF Heard
  <1>5. QED
    BY <1>2, <1>3, <1>4 DEF BufferTypes, HistType

LEMMA NextPathTypes ==
    ASSUME BufferTypes'
    PROVE  /\ hist'.heard \in Seq(Nat) /\ fifo' \in Seq(Nat) /\ bytes' \in Seq(Nat)
           /\ uart' \in Seq(Nat) /\ Unsent' \in Seq(Nat) /\ Heard' \in Seq(Nat)
  <1>1. Unsent' = TailOf(tx', cursor', pending')
    BY DEF Unsent, TailOf
  <1>2. Unsent' \in Seq(Nat)
    BY <1>1, TailOfRing DEF BufferTypes
  <1>3. hist'.heard \in Seq(Nat) /\ fifo' \in Seq(Nat) /\ bytes' \in Seq(Nat) /\ uart' \in Seq(Nat)
    BY DEF BufferTypes, HistType
  <1>4. (hist'.heard \o fifo') \o bytes' \in Seq(Nat)
    BY <1>3, Joined
  <1>5. QED
    BY <1>2, <1>3, <1>4 DEF Heard

LEMMA InitOrder == Init => OrderInv
  <1> SUFFICES ASSUME Init PROVE OrderInv
    OBVIOUS
  <1>1. FeedInv
    BY InitFeed
  <1>2. Unsent = <<>>
    BY DEF Init, Unsent
  <1>3. Path = <<>>
    BY <1>2 DEF Init, Path, Heard
  <1>4. Len(<<>>) = 0 /\ ToSet(<<>>) = {}
    BY DEF ToSet
  <1>5. Accounted(Path, hist.dropped, hist.sent)
    BY <1>3, <1>4 DEF Accounted, Ordered, Init
  <1>6. QED
    BY <1>1, <1>5, SizeTypes DEF Init, OrderInv, PathInv

LEMMA EnqueueOrder ==
    ASSUME OrderInv, FeedInv', Enqueue
    PROVE  PathInv'
  <1> DEFINE m == [i \in 1 .. Packet |-> hist.sent + (i - 1)]
             u == Heard \o uart
  <1>1. BufferTypes /\ BufferTypes' /\ PathInv
    BY DEF OrderInv, FeedInv
  <1>2. /\ u \in Seq(Nat) /\ Unsent \in Seq(Nat) /\ Unsent' \in Seq(Nat)
        /\ hist.sent \in Nat /\ hist.dropped \in SUBSET Nat
    BY <1>1, PathTypes, NextPathTypes, Joined
  <1>3. m \in Seq(Nat) /\ Len(m) = 3 /\ \A i \in 1 .. 3 : m[i] = hist.sent + (i - 1)
    <2>1. m \in [1 .. 3 -> Nat]
      BY <1>2 DEF Packet
    <2>2. m \in Seq(Nat) /\ Len(m) = 3
      <3> HIDE DEF m
      <3>1. QED
        BY <2>1, FunIsSeq
    <2>3. QED
      BY <2>2 DEF Packet
  <1> HIDE DEF m
  <1>4. Unsent' = Unsent \o m
    <2> DEFINE p == pending
               n == Unsent'
               o == Unsent
    <2>1. /\ Len(n) = p + 3 /\ Len(o) = p /\ p \in Nat
          /\ \A i \in 1 .. p : n[i] = o[i]
          /\ \A i \in p + 1 .. p + 3 : n[i] = hist.sent + (i - p - 1)
      <3>1. Len(Unsent) = pending /\ pending \in Nat
        <4>1. Unsent = TailOf(tx, cursor, pending)
          BY DEF Unsent, TailOf
        <4>2. /\ tx \in [0 .. TxCap - 1 -> Nat] /\ cursor \in 0 .. TxCap - 1
              /\ pending \in 0 .. TxCap
          BY <1>1 DEF BufferTypes
        <4>3. Len(TailOf(tx, cursor, pending)) = pending
          BY <4>2, TailOfRing
        <4>4. QED
          BY <4>1, <4>2, <4>3, SizeTypes
      <3>2. QED
        BY <1>1, <3>1, NewestLast DEF Packet
    <2>2. n \in Seq(Nat) /\ o \in Seq(Nat)
      BY <1>2
    <2> HIDE DEF p, n, o
    <2>3. /\ o \o m \in Seq(Nat) /\ Len(o \o m) = p + 3
          /\ \A i \in 1 .. p : (o \o m)[i] = o[i]
          /\ \A i \in p + 1 .. p + 3 : (o \o m)[i] = m[i - p]
      <3>1. Len(m) = 3 /\ Len(o) = p /\ o \in Seq(Nat) /\ m \in Seq(Nat)
        BY <1>3, <2>1, <2>2
      <3>2. /\ o \o m \in Seq(Nat) /\ Len(o \o m) = Len(o) + Len(m)
            /\ \A i \in 1 .. Len(o) : (o \o m)[i] = o[i]
            /\ \A i \in Len(o) + 1 .. Len(o) + Len(m) : (o \o m)[i] = m[i - Len(o)]
        BY <3>1, Joined
      <3>3. QED
        BY <3>1, <3>2
    <2>4. ASSUME NEW i \in 1 .. p + 3 PROVE n[i] = (o \o m)[i]
      <3>1. CASE i \in 1 .. p
        BY <2>1, <2>3, <3>1
      <3>2. CASE i \in p + 1 .. p + 3
        <4>1. i - p \in 1 .. 3 /\ i - p - 1 = (i - p) - 1
          BY <2>1, <3>2
        <4>2. QED
          BY <1>3, <2>1, <2>3, <3>2, <4>1
      <3>3. i \in 1 .. p \/ i \in p + 1 .. p + 3
        <4>1. p \in Nat
          BY <2>1
        <4>2. QED
          BY <4>1
      <3>4. QED
        BY <3>1, <3>2, <3>3
    <2>5. n = o \o m
      BY <2>1, <2>2, <2>3, <2>4, SeqEqual
    <2>6. QED
      BY <2>5 DEF n, o
  <1>5. UNCHANGED <<uart, bytes, fifo, bpc>> /\ hist' = [hist EXCEPT !.sent = @ + 3]
    BY DEF Enqueue, boardVars, Packet
  <1>6. /\ hist'.heard = hist.heard /\ hist'.dropped = hist.dropped
        /\ hist'.sent = hist.sent + 3
    BY <1>1, <1>5 DEF BufferTypes, HistType
  <1>7. Path' = Path \o m
    <2>1. Path' = u \o (Unsent \o m)
      BY <1>4, <1>5, <1>6 DEF Path, Heard
    <2> HIDE DEF u
    <2>2. u \o (Unsent \o m) = (u \o Unsent) \o m
      <3>1. u \in Seq(Nat) /\ Unsent \in Seq(Nat) /\ m \in Seq(Nat)
        BY <1>2, <1>3
      <3>2. QED
        BY <3>1, ConcatAssociative
    <2>3. QED
      BY <2>1, <2>2 DEF Path, u
  <1>8. Path \in Seq(Nat)
    BY <1>2, Joined DEF Path
  <1>9. Accounted(Path, hist.dropped, hist.sent)
    BY <1>1 DEF PathInv
  <1>10. Ordered(Path \o m)
    <2>1. Ordered(m)
      BY <1>2, <1>3 DEF Ordered
    <2>2. ASSUME NEW i \in 1 .. Len(Path), NEW j \in 1 .. Len(m) PROVE Path[i] < m[j]
      <3>1. Path[i] \in ToSet(Path)
        BY <1>8, Members
      <3>2. Path[i] \in 0 .. hist.sent - 1
        BY <1>9, <3>1 DEF Accounted
      <3>3. m[j] = hist.sent + (j - 1) /\ j \in 1 .. 3
        BY <1>3
      <3>4. QED
        BY <1>2, <3>2, <3>3
    <2>3. QED
      BY <1>3, <1>8, <1>9, <2>1, <2>2, OrderedParts DEF Accounted
  <1>11. ToSet(m) = hist.sent .. hist.sent + 2
    <2>1. ASSUME NEW b PROVE b \in ToSet(m) <=> \E i \in 1 .. 3 : b = hist.sent + (i - 1)
      BY <1>3, Members
    <2> DEFINE h == hist.sent
    <2>2. h \in Nat
      BY <1>2
    <2> HIDE DEF h
    <2>3. ASSUME NEW b PROVE (\E i \in 1 .. 3 : b = h + (i - 1)) <=> b \in h .. h + 2
      <3>1. ASSUME NEW i \in 1 .. 3, b = h + (i - 1) PROVE b \in h .. h + 2
        BY <2>2, <3>1
      <3>2. ASSUME b \in h .. h + 2 PROVE b = h + (1 - 1) \/ b = h + (2 - 1) \/ b = h + (3 - 1)
        BY <2>2, <3>2
      <3>3. QED
        BY <3>1, <3>2
    <2>4. ASSUME NEW b PROVE b \in ToSet(m) <=> b \in h .. h + 2
      BY <2>1, <2>3 DEF h
    <2>5. ToSet(m) = h .. h + 2
      BY <2>4
    <2>6. QED
      BY <2>5 DEF h
  <1>12. ToSet(Path \o m) = ToSet(Path) \union ToSet(m)
    BY <1>3, <1>8, Joined
  <1>13. Accounted(Path \o m, hist.dropped, hist.sent + 3)
    <2>1. /\ ToSet(Path) \union hist.dropped = 0 .. hist.sent - 1
          /\ ToSet(Path) \intersect hist.dropped = {}
      BY <1>9 DEF Accounted
    <2>2. (ToSet(Path) \union ToSet(m)) \union hist.dropped = 0 .. (hist.sent + 3) - 1
      BY <1>2, <1>11, <2>1
    <2>3. (ToSet(Path) \union ToSet(m)) \intersect hist.dropped = {}
      BY <1>2, <1>11, <2>1
    <2>4. QED
      BY <1>10, <1>12, <2>2, <2>3 DEF Accounted
  <1>14. QED
    BY <1>1, <1>5, <1>6, <1>7, <1>13 DEF PathInv

(* The byte sent goes from the front of the ring to the end of the queue, or *)
(* out of the path.                                                         *)
LEMMA LatchOrder ==
    ASSUME OrderInv, FeedInv', LatchByte
    PROVE  PathInv'
  <1> DEFINE u == Heard \o uart
             one == <<NextByte>>
             rest == Unsent'
  <1>1. BufferTypes /\ BufferTypes' /\ PathInv
    BY DEF OrderInv, FeedInv
  <1>2. pending > 0 /\ pending' = pending - 1 /\ UNCHANGED <<tx, cursor, bytes, fifo, bpc>>
    BY <1>1 DEF LatchByte, BufferTypes, boardVars
  <1>3. Unsent = one \o rest
    BY <1>1, <1>2, OldestFirst
  <1>4. one \in Seq(Nat) /\ NextByte \in Nat /\ Heard \in Seq(Nat) /\ uart \in Seq(Nat)
        /\ rest \in Seq(Nat) /\ ToSet(one) = {NextByte}
    <2>1. NextByte \in Nat
      BY <1>1, NextByteType
    <2>2. one \in Seq(Nat) /\ ToSet(one) = {NextByte}
      BY <2>1 DEF ToSet
    <2>3. QED
      BY <1>1, <2>1, <2>2, PathTypes, NextPathTypes
  <1>5. u \in Seq(Nat)
    BY <1>4, Joined
  <1>6. Path = (u \o one) \o rest
    <2>1. Path = u \o (one \o rest)
      BY <1>3 DEF Path
    <2> HIDE DEF u, one, rest
    <2>2. QED
      BY <1>4, <1>5, <2>1, Assoc
  <1>7. Accounted((u \o one) \o rest, hist.dropped, hist.sent)
    BY <1>1, <1>6 DEF PathInv
  <1>8. Len(uart) < UartCap \/ uart' = uart
    BY DEF LatchByte
  <1>9. CASE uart' = Append(uart, NextByte) /\ Len(uart) < UartCap /\ UNCHANGED hist
    <2>1. uart' = uart \o one /\ Len(uart') <= UartCap
      BY <1>4, <1>9, SizeTypes
    <2>2. Heard' = Heard
      BY <1>2, <1>9 DEF Heard
    <2>3. Path' = (Heard \o (uart \o one)) \o rest
      BY <2>1, <2>2 DEF Path
    <2>4. u \o one = Heard \o (uart \o one)
      BY <1>4, Assoc
    <2>5. Path' = (u \o one) \o rest
      BY <2>3, <2>4
    <2>6. QED
      BY <1>1, <1>2, <1>7, <1>9, <2>1, <2>5 DEF PathInv
  <1>10. CASE hist' = [hist EXCEPT !.dropped = @ \union {NextByte}] /\ uart' = uart
    <2>1. /\ hist'.dropped = hist.dropped \union {NextByte} /\ hist'.sent = hist.sent
          /\ hist'.heard = hist.heard
      BY <1>1, <1>10 DEF BufferTypes, HistType
    <2>2. Path' = u \o rest
      BY <1>2, <1>10, <2>1 DEF Path, Heard
    <2>3. /\ Ordered(u \o rest)
          /\ ToSet((u \o one) \o rest) = ToSet(u \o rest) \union ToSet(one)
          /\ ToSet(one) \intersect ToSet(u \o rest) = {}
      <3>1. Ordered((u \o one) \o rest)
        BY <1>7 DEF Accounted
      <3> HIDE DEF u, one, rest
      <3>2. QED
        BY <1>4, <1>5, <3>1, TakenOut
    <2>4. Accounted(u \o rest, hist.dropped \union {NextByte}, hist.sent)
      <3> HIDE DEF u, one, rest
      <3>1. QED
        BY <1>4, <1>7, <2>3 DEF Accounted
    <2>5. QED
      BY <1>1, <1>2, <1>10, <2>1, <2>2, <2>4 DEF PathInv
  <1>11. QED
    BY <1>9, <1>10 DEF LatchByte

(* A drain moves the front of the queue to the board. *)
LEMMA DrainOrder ==
    ASSUME OrderInv, FeedInv', BoardDrain
    PROVE  PathInv'
  <1> DEFINE h == hist.heard \o fifo
             b == bytes'
             u == uart'
  <1>1. BufferTypes /\ BufferTypes' /\ PathInv
    BY DEF OrderInv, FeedInv
  <1>2. bytes = <<>> /\ UNCHANGED <<tx, cursor, pending, fifo>> /\ bpc' = "feed"
    BY <1>1 DEF BoardDrain, PathInv
  <1>3. /\ hist'.heard = hist.heard /\ hist'.dropped = hist.dropped
        /\ hist'.sent = hist.sent
    BY <1>1 DEF BoardDrain, BufferTypes, HistType
  <1>4. /\ h \in Seq(Nat) /\ b \in Seq(Nat) /\ u \in Seq(Nat) /\ uart \in Seq(Nat)
        /\ Unsent \in Seq(Nat)
    BY <1>1, PathTypes, NextPathTypes, Joined
  <1>5. uart = b \o u /\ Len(u) <= Len(uart)
    <2>1. DrainCount \in 0 .. Len(uart)
      BY <1>1, DrainFits
    <2>2. SubSeq(uart, 1, DrainCount) \o SubSeq(uart, DrainCount + 1, Len(uart))
            = SubSeq(uart, 1, Len(uart))
      <3>1. /\ 1 \in 1 .. Len(uart) + 1 /\ DrainCount \in 1 - 1 .. Len(uart)
            /\ Len(uart) \in DrainCount .. Len(uart)
        BY <1>4, <2>1
      <3>2. QED
        BY <1>4, <3>1, ConcatAdjacentSubSeq
    <2>3. SubSeq(uart, 1, Len(uart)) = uart
      BY <1>4, SubSeqFull
    <2>4. uart = b \o u
      BY <2>2, <2>3 DEF BoardDrain
    <2>5. Len(b \o u) = Len(b) + Len(u)
      BY <1>4, Joined
    <2>6. QED
      BY <1>4, <2>4, <2>5
  <1>6. Unsent' = Unsent
    BY <1>2 DEF Unsent
  <1>7. Heard = h
    <2>1. h \o <<>> = h
      BY <1>4, ConcatEmptySeq
    <2>2. QED
      BY <1>2, <2>1 DEF Heard
  <1>8. Path' = ((h \o b) \o u) \o Unsent
    BY <1>2, <1>3, <1>6 DEF Path, Heard
  <1>9. Path = (h \o (b \o u)) \o Unsent
    BY <1>5, <1>7 DEF Path
  <1>10. (h \o b) \o u = h \o (b \o u)
    <2> HIDE DEF h, b, u
    <2>1. QED
      BY <1>4, Assoc
  <1>11. Path' = Path
    BY <1>8, <1>9, <1>10
  <1>12. Len(uart') <= UartCap
    <2>1. Len(uart') \in Nat /\ Len(uart) \in Nat /\ Len(uart) <= UartCap
      BY <1>1, <1>4 DEF PathInv
    <2>2. QED
      BY <1>5, <2>1, SizeTypes
  <1>13. QED
    BY <1>1, <1>2, <1>3, <1>11, <1>12 DEF PathInv

(* A feed moves the bytes to the FIFO, or out of the path. *)
LEMMA FeedOrder ==
    ASSUME OrderInv, FeedInv', BoardFeed
    PROVE  PathInv'
  <1> DEFINE s == fifo \o bytes
             k == Lesser(Len(s), FifoCap)
             f == SubSeq(s, 1, k)
             m == SubSeq(s, k + 1, Len(s))
             h == hist.heard
             t == uart \o Unsent
  <1>1. BufferTypes /\ BufferTypes' /\ PathInv
    BY DEF OrderInv, FeedInv
  <1>2. fifo' = f /\ bytes' = <<>> /\ bpc' = "render" /\ UNCHANGED <<tx, cursor, pending, uart>>
    BY DEF BoardFeed, Fed
  <1>3. /\ hist'.heard = h /\ hist'.sent = hist.sent
        /\ hist'.dropped = hist.dropped \union (ToSet(bytes) \ ToSet(f))
    BY <1>1 DEF BoardFeed, Fed, BufferTypes, HistType
  <1>4. /\ h \in Seq(Nat) /\ fifo \in Seq(Nat) /\ bytes \in Seq(Nat)
        /\ uart \in Seq(Nat) /\ Unsent \in Seq(Nat) /\ s \in Seq(Nat) /\ t \in Seq(Nat)
    BY <1>1, PathTypes, Joined
  <1>5. /\ Len(s) = Len(fifo) + Len(bytes) /\ k \in 0 .. Len(s) /\ Len(fifo) <= k
    <2>1. Len(s) = Len(fifo) + Len(bytes)
      BY <1>4, Joined
    <2>2. Len(fifo) \in Nat /\ Len(bytes) \in Nat /\ Len(fifo) <= FifoCap
      BY <1>4 DEF OrderInv, FeedInv, FedFits
    <2>3. QED
      BY <2>1, <2>2, SizeTypes DEF Lesser
  <1>6. f \in Seq(Nat) /\ m \in Seq(Nat) /\ s = f \o m
    <2> HIDE DEF s, k
    <2>1. f \in Seq(Nat) /\ m \in Seq(Nat)
      BY <1>4, <1>5, Prefix
    <2>2. f \o m = SubSeq(s, 1, Len(s))
      <3>1. /\ 1 \in 1 .. Len(s) + 1 /\ k \in 1 - 1 .. Len(s) /\ Len(s) \in k .. Len(s)
        BY <1>4, <1>5
      <3>2. QED
        BY <1>4, <3>1, ConcatAdjacentSubSeq
    <2>3. SubSeq(s, 1, Len(s)) = s
      BY <1>4, SubSeqFull
    <2>4. QED
      BY <2>1, <2>2, <2>3
  <1>7. ToSet(m) \subseteq ToSet(bytes)
    <2>1. SUFFICES ASSUME NEW x \in ToSet(m) PROVE x \in ToSet(bytes)
      OBVIOUS
    <2>2. PICK i \in 1 .. Len(m) : x = m[i]
      BY <1>6, Members
    <2> DEFINE j == k + i
    <2>3. Len(m) = Len(s) - k /\ m[i] = s[j]
      <3> HIDE DEF s, k
      <3>1. QED
        BY <1>4, <1>5
    <2>4. /\ j \in Len(fifo) + 1 .. Len(fifo) + Len(bytes)
          /\ j - Len(fifo) \in 1 .. Len(bytes)
      <3> HIDE DEF s, k, m
      <3>1. /\ Len(fifo) \in Nat /\ Len(bytes) \in Nat
            /\ Len(s) = Len(fifo) + Len(bytes) /\ k \in Nat /\ Len(fifo) <= k
            /\ Len(m) = Len(s) - k
        BY <1>4, <1>5, <2>3
      <3>2. QED
        BY <3>1
    <2>5. s[j] = bytes[j - Len(fifo)]
      <3>1. \A x1 \in Len(fifo) + 1 .. Len(fifo) + Len(bytes) : s[x1] = bytes[x1 - Len(fifo)]
        BY <1>4, Joined
      <3> HIDE DEF k, m, s, j
      <3>2. QED
        BY <2>4, <3>1
    <2> HIDE DEF j, m, s
    <2>6. QED
      BY <1>4, <2>2, <2>3, <2>4, <2>5, Members
  <1> HIDE DEF f, m, k
  <1>8. Path = ((h \o f) \o m) \o t
    <2>1. (h \o fifo) \o bytes = h \o (fifo \o bytes)
      <3>1. h \in Seq(Nat) /\ fifo \in Seq(Nat) /\ bytes \in Seq(Nat)
        BY <1>4
      <3> HIDE DEF h, s, t
      <3>2. QED
        BY <3>1, Assoc
    <2>2. Heard = h \o s
      BY <2>1 DEF Heard
    <2> HIDE DEF s, h
    <2>3. (h \o f) \o m = h \o (f \o m)
      <3>1. h \in Seq(Nat) /\ f \in Seq(Nat) /\ m \in Seq(Nat)
        BY <1>4, <1>6
      <3>2. QED
        BY <3>1, Assoc
    <2>4. Heard = (h \o f) \o m
      BY <1>6, <2>2, <2>3
    <2>5. Heard \in Seq(Nat)
      BY <1>1, PathTypes
    <2>6. Path = Heard \o t
      BY <1>4, <2>5, Assoc DEF Path
    <2>7. QED
      BY <2>4, <2>6
  <1>9. h \o f \in Seq(Nat)
    BY <1>4, <1>6, Joined
  <1>10. Path' = (h \o f) \o t
    <2>1. Unsent' = Unsent
      BY <1>2 DEF Unsent
    <2>2. Heard' = (h \o f) \o <<>>
      BY <1>2, <1>3 DEF Heard
    <2>3. (h \o f) \o <<>> = h \o f
      BY <1>9, ConcatEmptySeq
    <2>4. Path' = ((h \o f) \o uart) \o Unsent
      BY <1>2, <2>1, <2>2, <2>3 DEF Path
    <2> HIDE DEF h
    <2>5. QED
      BY <1>4, <1>9, <2>4, Assoc
  <1>11. Accounted(((h \o f) \o m) \o t, hist.dropped, hist.sent)
    BY <1>1, <1>8 DEF PathInv
  <1>12. /\ Ordered((h \o f) \o t)
         /\ ToSet(((h \o f) \o m) \o t) = ToSet((h \o f) \o t) \union ToSet(m)
         /\ ToSet(m) \intersect ToSet((h \o f) \o t) = {}
    <2> HIDE DEF h, t
    <2>1. QED
      BY <1>4, <1>6, <1>9, <1>11, TakenOut DEF Accounted
  <1>13. ToSet(bytes) \ ToSet(f) = ToSet(m)
    <2>1. ToSet(f) \subseteq ToSet((h \o f) \o t)
      <3> HIDE DEF h, t
      <3>1. /\ ToSet(h \o f) = ToSet(h) \union ToSet(f)
            /\ ToSet((h \o f) \o t) = ToSet(h \o f) \union ToSet(t)
        BY <1>4, <1>6, <1>9, Joined
      <3>2. QED
        BY <3>1
    <2>2. ToSet(bytes) \subseteq ToSet(f) \union ToSet(m)
      <3>1. ToSet(s) = ToSet(fifo) \union ToSet(bytes)
        BY <1>4, Joined
      <3> HIDE DEF s
      <3>2. ToSet(s) = ToSet(f) \union ToSet(m)
        BY <1>6, Joined
      <3>3. QED
        BY <3>1, <3>2
    <2>3. QED
      BY <1>7, <1>12, <2>1, <2>2
  <1>14. Accounted((h \o f) \o t, hist.dropped \union ToSet(m), hist.sent)
    <2> HIDE DEF h, t
    <2>1. QED
      BY <1>11, <1>12 DEF Accounted
  <1>15. QED
    BY <1>1, <1>2, <1>3, <1>10, <1>13, <1>14 DEF PathInv

(* A byte popped is heard. *)
LEMMA PopOrder ==
    ASSUME OrderInv, FeedInv', MidiPop
    PROVE  PathInv'
  <1> DEFINE h == hist.heard
             one == <<Head(fifo)>>
             rest == Tail(fifo)
  <1>1. BufferTypes /\ BufferTypes' /\ PathInv
    BY DEF OrderInv, FeedInv
  <1>2. /\ fifo # <<>> /\ fifo' = rest
        /\ UNCHANGED <<tx, cursor, pending, uart, bytes, bpc>>
    BY DEF MidiPop
  <1>3. h \in Seq(Nat) /\ fifo \in Seq(Nat) /\ Head(fifo) \in Nat /\ rest \in Seq(Nat)
    BY <1>1, <1>2, PathTypes, HeadTailProperties
  <1>4. one \in Seq(Nat)
    BY <1>3
  <1>5. /\ hist'.heard = Append(h, Head(fifo)) /\ hist'.dropped = hist.dropped
        /\ hist'.sent = hist.sent
    BY <1>1 DEF MidiPop, BufferTypes, HistType
  <1>6. Append(h, Head(fifo)) = h \o one
    BY <1>3, AppendIsConcat
  <1>7. fifo = one \o rest
    <2>1. Len(fifo) \in Nat /\ Len(fifo) > 0
      BY <1>2, <1>3
    <2>2. 1 \in 1 .. Len(fifo) /\ Len(fifo) \in 1 .. Len(fifo)
      BY <2>1
    <2>3. SubSeq(fifo, 1, Len(fifo)) = <<fifo[1]>> \o SubSeq(fifo, 1 + 1, Len(fifo))
      BY <1>3, <2>2, SubSeqRecursiveFirst
    <2>4. rest = SubSeq(fifo, 2, Len(fifo)) /\ Head(fifo) = fifo[1]
      BY <1>2, <1>3, TailIsSubSeq
    <2>5. QED
      BY <1>3, <2>3, <2>4, SubSeqFull
  <1>8. Heard' = Heard
    <2> HIDE DEF h, one, rest
    <2>1. (h \o one) \o rest = h \o (one \o rest)
      BY <1>3, <1>4, Assoc
    <2>2. Heard' = ((h \o one) \o rest) \o bytes
      BY <1>2, <1>5, <1>6 DEF Heard
    <2>3. Heard = (h \o (one \o rest)) \o bytes
      BY <1>7 DEF Heard, h
    <2>4. QED
      BY <2>1, <2>2, <2>3
  <1>9. Path' = Path
    BY <1>2, <1>8 DEF Path, Unsent
  <1>10. QED
    BY <1>1, <1>2, <1>5, <1>9 DEF PathInv

LEMMA OtherOrder ==
    ASSUME OrderInv, UNCHANGED <<tx, cursor, pending, uart, bytes, fifo, hist>>,
           bpc' # "feed" => bytes' = <<>>
    PROVE  PathInv'
  <1>1. Path' = Path
    BY DEF Path, Heard, Unsent
  <1>2. QED
    BY <1>1 DEF OrderInv, PathInv

(* The inductive invariant: the sizes, and that what was sent is, in order, *)
(* on its way or dropped.                                                   *)
THEOREM PathInvariance == Spec => []OrderInv
  <1>1. OrderInv /\ FeedInv' /\ [Next]_vars => OrderInv'
    <2> SUFFICES ASSUME OrderInv, FeedInv', [Next]_vars PROVE PathInv'
      BY DEF OrderInv
    <2>1. CASE Enqueue
      BY <2>1, EnqueueOrder
    <2>2. CASE LatchByte
      BY <2>2, LatchOrder
    <2>3. CASE BoardDrain
      BY <2>3, DrainOrder
    <2>4. CASE BoardFeed
      BY <2>4, FeedOrder
    <2>5. CASE MidiPop
      BY <2>5, PopOrder
    <2>6. CASE DrainPending \/ NextChunk \/ UNCHANGED vars
      <3>1. /\ UNCHANGED <<tx, cursor, pending, uart, bytes, fifo, hist>>
            /\ bpc' = bpc \/ (bpc' = "drain" /\ bpc = "render")
        BY <2>6 DEF DrainPending, NextChunk, vars, boardVars
      <3>2. bpc # "feed" => bytes = <<>>
        BY DEF OrderInv, PathInv
      <3>3. QED
        BY <3>1, <3>2, OtherOrder
    <2>7. QED
      BY <2>1, <2>2, <2>3, <2>4, <2>5, <2>6 DEF Next, Board
  <1>2. QED
    BY <1>1, InitOrder, FeedInvariance, PTL DEF Spec

(* No byte is reordered, repeated or made up on its way through the three    *)
(* buffers, and each one not heard is under way or was dropped at a full     *)
(* queue: for every size of the buffers.                                     *)
THEOREM BytesStayInOrder == Spec => []MidiInv
  <1>1. ASSUME OrderInv PROVE MidiInv
    <2>1. TypeOK
      BY <1>1 DEF OrderInv, FeedInv, BufferTypes, FedFits, PathInv, TypeOK
    <2>2. BytesInOrder
      <3>1. (((hist.heard \o fifo) \o bytes) \o uart) \o Unsent = Path
        BY DEF Path, Heard
      <3>2. Path \in Seq(Nat)
        <4>1. Heard \in Seq(Nat) /\ uart \in Seq(Nat) /\ Unsent \in Seq(Nat)
          BY <1>1, PathTypes DEF OrderInv, FeedInv
        <4>2. QED
          BY <4>1, Joined DEF Path
      <3>3. Accounted(Path, hist.dropped, hist.sent)
        BY <1>1 DEF OrderInv, PathInv
      <3>4. Rising(Path)
        BY <3>2, <3>3 DEF Accounted, Ordered, Rising
      <3>5. QED
        BY <3>1, <3>3, <3>4 DEF Accounted, BytesInOrder
    <2>3. QED
      BY <2>1, <2>2 DEF MidiInv
  <1>2. QED
    BY <1>1, PathInvariance, PTL
=============================================================================
