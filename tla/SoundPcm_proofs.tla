--------------------------- MODULE SoundPcm_proofs ---------------------------
(***************************************************************************)
(* The level of the PCM ring, for every ring, target, chunk and period     *)
(* the assumption allows.  Nothing is thrown away because the board pushes *)
(* only after it found the ring at the target (Paced), and the clears made *)
(* without the mutex are harmless because a ring nobody fills is empty     *)
(* (Quiet) and a callback that saw a frame keeps it (SawAFrame).  Then the *)
(* order of the frames, by arithmetic modulo the ring and the serials.     *)
(***************************************************************************)
EXTENDS SoundPcm, TLAPS

HistType == hist \in [push : Nat, play : Nat]

(* A board that may push next has found the ring at its target. *)
Paced == bpc \in {"boot", "top", "chunk"} => n <= Target

(* Without a board the ring is empty, but for the clear that makes it so. *)
Quiet == ~thrOn /\ mpc # "clear" => r = 0 /\ n = 0

(* Where thread_stop is, against whether there is a board. *)
Stopping ==
    /\ mpc = "join" => thrOn
    /\ mpc \in {"clear", "after"} => ~thrOn

(* The frame the callback saw is still there when it fetches it. *)
SawAFrame == pull.some => n # 0 /\ pull.left > 0

LevelInv ==
    /\ TypeOK
    /\ HistType
    /\ NothingThrownAway
    /\ Paced
    /\ Quiet
    /\ Stopping
    /\ SawAFrame

-----------------------------------------------------------------------------
LEMMA ConstantTypes ==
    /\ Ring \in Nat \ {0} /\ Target \in Nat \ {0} /\ Chunk \in Nat \ {0}
    /\ CountMod \in Nat \ {0} /\ Period \in Nat \ {0} /\ SerialMod \in Nat \ {0}
    /\ Target + Chunk <= Ring /\ Ring < CountMod
  BY PcmAssumption

(* Remainders, of what is below the width and of one turn above it. *)
LEMMA Remainder ==
    ASSUME NEW w \in Nat \ {0}, NEW a \in Nat
    PROVE  /\ a % w \in 0 .. w - 1
           /\ a - w \in 0 .. w - 1 => a % w = a - w
  <1>1. a % w \in 0 .. w - 1
    OBVIOUS
  <1>2. a - w \in 0 .. w - 1 => a % w = a - w
    OBVIOUS
  <1>3. QED
    BY <1>1, <1>2

LEMMA InitLevel == Init => LevelInv
  <1> SUFFICES ASSUME Init PROVE LevelInv
    OBVIOUS
  <1> USE ConstantTypes
  <1>1. pcm \in [0 .. Ring - 1 -> 0 .. SerialMod - 1]
    BY DEF Init
  <1>2. pull \in [left : 0 .. Period, some : BOOLEAN, tested : BOOLEAN]
    BY DEF Init, Idle
  <1>3. {thrOn, stop, open} \subseteq BOOLEAN /\ (thrOn <=> bpc # "none")
    BY DEF Init
  <1>4. TypeOK
    BY <1>1, <1>2, <1>3 DEF Init, TypeOK
  <1>5. HistType
    BY DEF Init, HistType
  <1>6. NothingThrownAway /\ Paced /\ Quiet /\ Stopping /\ SawAFrame
    BY DEF Init, Idle, NothingThrownAway, Paced, Quiet, Stopping, SawAFrame
  <1>7. QED
    BY <1>4, <1>5, <1>6 DEF LevelInv

(* Pushing a chunk on a ring at its target drops nothing. *)
LEMMA PushLevel ==
    ASSUME LevelInv, BoardPush
    PROVE  LevelInv'
  <1> USE ConstantTypes
  <1>1. /\ n \in Nat /\ n <= Target /\ r \in 0 .. Ring - 1 /\ n + Chunk <= Ring
        /\ pull.left = 0 /\ ~pull.some /\ thrOn
        /\ pull.left \in Nat /\ hist.push \in Nat
    BY DEF LevelInv, BoardPush, MutexFree, Paced, TypeOK, HistType, SawAFrame
  <1>2. n' = n + Chunk /\ r' = r
    <2>1. n' = n + Chunk - 0 /\ r' = (r + 0) % Ring
      BY <1>1 DEF BoardPush
    <2>2. QED
      BY <1>1, <2>1
  <1>3. pcm' \in [0 .. Ring - 1 -> 0 .. SerialMod - 1]
    <2>1. ASSUME NEW s \in 0 .. Ring - 1
          PROVE  (hist.push + (CHOOSE k \in 0 .. Chunk - 1 : s = PushSlot(k))) % SerialMod
                    \in 0 .. SerialMod - 1
                 \/ ~ \E k \in 0 .. Chunk - 1 : s = PushSlot(k)
      <3>1. CASE \E k \in 0 .. Chunk - 1 : s = PushSlot(k)
        <4>1. (CHOOSE k \in 0 .. Chunk - 1 : s = PushSlot(k)) \in 0 .. Chunk - 1
          BY <3>1
        <4>2. hist.push + (CHOOSE k \in 0 .. Chunk - 1 : s = PushSlot(k)) \in Nat
          BY <1>1, <4>1
        <4>3. QED
          BY <4>2, Remainder
      <3>2. QED
        BY <3>1
    <2>2. QED
      BY <2>1 DEF BoardPush, LevelInv, TypeOK
  <1>4. HistType'
    <2>1. hist.push + Chunk \in Nat
      BY <1>1
    <2>2. (hist.push + Chunk) % SerialMod \in Nat
      BY <2>1, Remainder
    <2>3. QED
      BY <2>2 DEF BoardPush, LevelInv, HistType
  <1>5. TypeOK'
    <2>1. n' \in 0 .. CountMod - 1 /\ r' \in 0 .. Ring - 1
      BY <1>1, <1>2
    <2>2. /\ UNCHANGED <<thrOn, stop, mpc, goal, open, pull>>
          /\ bpc' = "pace"
      BY DEF BoardPush, mainVars
    <2>3. (thrOn <=> bpc # "none")'
      BY <1>1, <2>2
    <2>4. QED
      BY <1>3, <2>1, <2>2, <2>3 DEF LevelInv, TypeOK
  <1>6. /\ NothingThrownAway' /\ Paced' /\ Quiet' /\ Stopping' /\ SawAFrame'
    BY <1>1, <1>2 DEF BoardPush, LevelInv, NothingThrownAway, Paced, Quiet,
                      Stopping, SawAFrame, mainVars
  <1>7. QED
    BY <1>4, <1>5, <1>6 DEF LevelInv

LEMMA BoardLevel ==
    ASSUME LevelInv, BoardBoot \/ BoardTop \/ BoardPace
    PROVE  LevelInv'
  <1>1. /\ UNCHANGED <<pcm, r, n, thrOn, stop, mpc, goal, open, pull, hist>>
        /\ thrOn
        /\ bpc' \in {"top", "chunk", "pace", "exited"}
        /\ bpc' \in {"top", "chunk"} => n <= Target
    BY DEF LevelInv, BoardBoot, BoardTop, BoardPace, Paced, TypeOK, ringVars, mainVars
  <1>2. TypeOK'
    BY <1>1 DEF LevelInv, TypeOK
  <1>3. QED
    BY <1>1, <1>2 DEF LevelInv, HistType, NothingThrownAway, Paced, Quiet,
                      Stopping, SawAFrame

(* The callback takes only a frame that is there. *)
LEMMA PullLevel ==
    ASSUME LevelInv, Callback
    PROVE  LevelInv'
  <1> USE ConstantTypes
  <1>1. CASE PullBegin
    <2>1. TypeOK'
      BY <1>1 DEF PullBegin, LevelInv, TypeOK, ringVars, mainVars
    <2>2. SawAFrame'
      BY <1>1 DEF PullBegin, SawAFrame
    <2>3. QED
      BY <1>1, <2>1, <2>2 DEF PullBegin, LevelInv, HistType, NothingThrownAway,
           Paced, Quiet, Stopping, ringVars, mainVars
  <1>2. CASE PullTest
    <2>1. /\ pull' \in [left : 0 .. Period, some : BOOLEAN, tested : BOOLEAN]
          /\ pull'.left = pull.left /\ (pull'.some => n # 0)
      BY <1>2 DEF PullTest, LevelInv, TypeOK
    <2>2. TypeOK'
      BY <1>2, <2>1 DEF PullTest, LevelInv, TypeOK, ringVars, mainVars
    <2>3. SawAFrame'
      BY <1>2, <2>1 DEF PullTest, SawAFrame, ringVars
    <2>4. QED
      BY <1>2, <2>2, <2>3 DEF PullTest, LevelInv, HistType, NothingThrownAway,
           Paced, Quiet, Stopping, ringVars, mainVars
  <1>3. CASE PullFrame
    <2>1. /\ pull' \in [left : 0 .. Period, some : BOOLEAN, tested : BOOLEAN]
          /\ pull'.some = FALSE
      <3>1. /\ pull \in [left : 0 .. Period, some : BOOLEAN, tested : BOOLEAN]
            /\ pull.left > 0
            /\ pull' = [pull EXCEPT !.left = @ - 1, !.tested = FALSE, !.some = FALSE]
        BY <1>3 DEF PullFrame, LevelInv, TypeOK
      <3>2. pull.left - 1 \in 0 .. Period
        BY <3>1
      <3>3. QED
        BY <3>1, <3>2
    <2>2. CASE /\ pull.some
               /\ r' = (r + 1) % Ring
               /\ n' = (n + CountMod - 1) % CountMod
               /\ hist' = [hist EXCEPT !.play = (pcm[r] + 1) % SerialMod]
      <3>1. /\ n \in 0 .. CountMod - 1 /\ n # 0 /\ r \in 0 .. Ring - 1
            /\ pcm[r] \in Nat /\ n <= Target + Chunk
        BY <2>2 DEF LevelInv, SawAFrame, TypeOK, NothingThrownAway
      <3>2. n' = n - 1
        <4>1. n + CountMod - 1 \in Nat /\ (n + CountMod - 1) - CountMod \in 0 .. CountMod - 1
          BY <3>1
        <4>2. (n + CountMod - 1) % CountMod = (n + CountMod - 1) - CountMod
          BY <4>1, Remainder
        <4>3. QED
          BY <2>2, <3>1, <4>2
      <3>3. r' \in 0 .. Ring - 1 /\ (pcm[r] + 1) % SerialMod \in Nat
        <4>1. r + 1 \in Nat /\ pcm[r] + 1 \in Nat
          BY <3>1
        <4>2. (r + 1) % Ring \in 0 .. Ring - 1 /\ (pcm[r] + 1) % SerialMod \in 0 .. SerialMod - 1
          BY <4>1, Remainder
        <4>3. QED
          BY <2>2, <4>2
      <3>4. TypeOK'
        <4>1. n' \in 0 .. CountMod - 1
          BY <3>1, <3>2
        <4>2. UNCHANGED <<pcm, thrOn, stop, mpc, goal, bpc, open>>
          BY <1>3 DEF PullFrame, mainVars
        <4>3. QED
          BY <2>1, <3>3, <4>1, <4>2 DEF LevelInv, TypeOK
      <3>5. HistType'
        BY <2>2, <3>3 DEF LevelInv, HistType
      <3>6. thrOn \/ mpc = "clear"
        BY <3>1 DEF LevelInv, Quiet
      <3>7. NothingThrownAway' /\ Paced' /\ Quiet' /\ Stopping' /\ SawAFrame'
        BY <1>3, <2>1, <3>1, <3>2, <3>6 DEF PullFrame, LevelInv, NothingThrownAway,
             Paced, Quiet, Stopping, SawAFrame, mainVars
      <3>8. QED
        BY <3>4, <3>5, <3>7 DEF LevelInv
    <2>3. CASE ~pull.some /\ UNCHANGED <<r, n, hist>>
      <3>1. TypeOK'
        BY <1>3, <2>1, <2>3 DEF PullFrame, LevelInv, TypeOK, mainVars
      <3>2. QED
        BY <1>3, <2>1, <2>3, <3>1 DEF PullFrame, LevelInv, HistType,
             NothingThrownAway, Paced, Quiet, Stopping, SawAFrame, mainVars
    <2>4. QED
      BY <1>3, <2>2, <2>3 DEF PullFrame
  <1>4. QED
    BY <1>1, <1>2, <1>3 DEF Callback

(* The main thread: a stop ends with an empty ring and no board. *)
LEMMA MainLevel ==
    ASSUME LevelInv, MainGoesOn \/ \E g \in {"stop", "reset", "start"} : Call(g)
    PROVE  LevelInv'
  <1> USE ConstantTypes
  <1>1. CASE Join
    <2>1. TypeOK'
      BY <1>1 DEF Join, LevelInv, TypeOK, ringVars
    <2>2. QED
      BY <1>1, <2>1 DEF Join, LevelInv, HistType, NothingThrownAway, Paced,
           Quiet, Stopping, SawAFrame, ringVars
  <1>2. CASE LockedClear
    <2>1. ~pull.some /\ ~thrOn /\ bpc = "none"
      BY <1>2 DEF LockedClear, MutexFree, LevelInv, SawAFrame, Stopping, TypeOK
    <2>2. TypeOK' /\ HistType'
      <3>1. HistType'
        BY <1>2 DEF LockedClear, LevelInv, HistType
      <3>2. r' \in 0 .. Ring - 1 /\ n' \in 0 .. CountMod - 1
        BY <1>2 DEF LockedClear
      <3>3. UNCHANGED <<pcm, thrOn, stop, goal, bpc, open, pull>> /\ mpc' = "after"
        BY <1>2 DEF LockedClear
      <3>4. TypeOK'
        BY <3>2, <3>3 DEF LevelInv, TypeOK
      <3>5. QED
        BY <3>1, <3>4
    <2>3. QED
      BY <1>2, <2>1, <2>2 DEF LockedClear, LevelInv, NothingThrownAway, Paced,
           Quiet, Stopping, SawAFrame
  <1>3. CASE UnlockedClear
    <2>1. ~thrOn /\ n = 0 /\ ~pull.some /\ bpc = "none"
      BY <1>3 DEF UnlockedClear, LevelInv, Quiet, Stopping, SawAFrame, TypeOK
    <2>2. HistType'
      BY <1>3 DEF UnlockedClear, LevelInv, HistType
    <2>3. CASE thrOn' = TRUE /\ bpc' = "boot"
      <3>1. TypeOK'
        BY <1>3, <2>3 DEF UnlockedClear, LevelInv, TypeOK
      <3>2. QED
        BY <1>3, <2>1, <2>2, <2>3, <3>1 DEF UnlockedClear, LevelInv,
             NothingThrownAway, Paced, Quiet, Stopping, SawAFrame
    <2>4. CASE UNCHANGED <<thrOn, bpc>>
      <3>1. TypeOK'
        BY <1>3, <2>4 DEF UnlockedClear, LevelInv, TypeOK
      <3>2. QED
        BY <1>3, <2>1, <2>2, <2>4, <3>1 DEF UnlockedClear, LevelInv,
             NothingThrownAway, Paced, Quiet, Stopping, SawAFrame
    <2>5. QED
      BY <1>3, <2>3, <2>4 DEF UnlockedClear
  <1>4. CASE Stopped
    <2>1. TypeOK'
      BY <1>4 DEF Stopped, LevelInv, TypeOK, ringVars
    <2>2. QED
      BY <1>4, <2>1 DEF Stopped, LevelInv, HistType, NothingThrownAway, Paced,
           Quiet, Stopping, SawAFrame, ringVars
  <1>5. CASE \E g \in {"stop", "reset", "start"} : Call(g)
    <2>1. PICK g \in {"stop", "reset", "start"} : Call(g)
      BY <1>5
    <2>2. TypeOK'
      BY <2>1 DEF Call, LevelInv, TypeOK, ringVars
    <2>3. QED
      BY <2>1, <2>2 DEF Call, LevelInv, HistType, NothingThrownAway, Paced,
           Quiet, Stopping, SawAFrame, ringVars
  <1>6. QED
    BY <1>1, <1>2, <1>3, <1>4, <1>5 DEF MainGoesOn

LEMMA DeviceLevel ==
    ASSUME LevelInv, AudioOpen \/ AudioClose \/ UNCHANGED vars
    PROVE  LevelInv'
  <1>1. /\ UNCHANGED <<pcm, r, n, thrOn, stop, bpc, pull, mpc, goal, hist>>
        /\ open' \in BOOLEAN
    BY DEF AudioOpen, AudioClose, vars, ringVars, mainVars, LevelInv, TypeOK
  <1>2. TypeOK'
    BY <1>1 DEF LevelInv, TypeOK
  <1>3. QED
    BY <1>1, <1>2 DEF LevelInv, HistType, NothingThrownAway, Paced, Quiet,
         Stopping, SawAFrame

(* The ring's level and who may fill it, in every state (model2_snd.c). *)
THEOREM LevelInvariance == Spec => []LevelInv
  <1>1. LevelInv /\ [Next]_vars => LevelInv'
    BY PushLevel, BoardLevel, PullLevel, MainLevel, DeviceLevel DEF Next, Board
  <1>2. QED
    BY <1>1, InitLevel, PTL DEF Spec

(* pcm_push never throws a frame away, the count never wraps, and the        *)
(* unlocked clears of model2_snd_reset and thread_start find nothing.        *)
THEOREM PcmSafe == Spec => []PcmInv
  <1>1. LevelInv => PcmInv
    BY DEF LevelInv, PcmInv, ClearsFindEmpty, Quiet, Stopping
  <1>2. QED
    BY <1>1, LevelInvariance, PTL

-----------------------------------------------------------------------------
(* The order of the frames: slots and serial numbers both count modulo      *)
(* their width, and never get more than one turn ahead.                     *)
LEMMA OneTurn ==
    ASSUME NEW w \in Nat \ {0}, NEW a \in Nat
    PROVE  /\ a < w => a % w = a
           /\ w <= a /\ a < w + w => a % w = a - w
  <1>1. a < w => a % w = a
    OBVIOUS
  <1>2. w <= a /\ a < w + w => a - w \in 0 .. w - 1
    OBVIOUS
  <1>3. QED
    BY <1>1, <1>2, Remainder

LEMMA Sums ==
    ASSUME NEW w \in Nat \ {0}, NEW a \in 0 .. w - 1, NEW b \in Nat, NEW k \in Nat, b + k < w
    PROVE  (((a + b) % w) + k) % w = (a + (b + k)) % w
  <1> DEFINE c == a + b
             d == a + (b + k)
  <1>1. c \in Nat /\ d \in Nat /\ d = c + k /\ d < w + w /\ c < w + w
    OBVIOUS
  <1> HIDE DEF c, d
  <1>2. CASE c < w
    BY <1>1, <1>2, OneTurn DEF c, d
  <1>3. CASE w <= c
    <2>1. c % w = c - w
      BY <1>1, <1>3, OneTurn
    <2>2. d % w = d - w
      <3>1. d \in Nat /\ w <= d /\ d < w + w
        BY <1>1, <1>3
      <3>2. QED
        BY <3>1, OneTurn
    <2>3. d - w \in Nat /\ d - w < w /\ c - w + k = d - w
      BY <1>1, <1>3
    <2>4. (d - w) % w = d - w
      BY <2>3, OneTurn
    <2>5. ((c % w) + k) % w = d % w
      BY <2>1, <2>2, <2>3, <2>4
    <2>6. QED
      BY <2>5 DEF c, d
  <1>4. QED
    BY <1>1, <1>2, <1>3

LEMMA SlotsDiffer ==
    ASSUME NEW a \in 0 .. Ring - 1, NEW i \in 0 .. Ring - 1, NEW j \in 0 .. Ring - 1,
           (a + i) % Ring = (a + j) % Ring
    PROVE  i = j
  <1> USE ConstantTypes
  <1> DEFINE c == a + i
             d == a + j
  <1>1. c \in Nat /\ d \in Nat /\ c < Ring + Ring /\ d < Ring + Ring /\ c % Ring = d % Ring
    OBVIOUS
  <1>2. c - d = i - j /\ c - d < Ring /\ d - c < Ring
    OBVIOUS
  <1> HIDE DEF c, d
  <1>3. c % Ring = c \/ (Ring <= c /\ c % Ring = c - Ring)
    <2>1. CASE c < Ring
      BY <1>1, <2>1, OneTurn
    <2>2. CASE Ring <= c
      BY <1>1, <2>2, OneTurn
    <2>3. QED
      BY <1>1, <2>1, <2>2
  <1>4. d % Ring = d \/ (Ring <= d /\ d % Ring = d - Ring)
    <2>1. CASE d < Ring
      BY <1>1, <2>1, OneTurn
    <2>2. CASE Ring <= d
      BY <1>1, <2>2, OneTurn
    <2>3. QED
      BY <1>1, <2>1, <2>2
  <1>5. c = d
    BY <1>1, <1>2, <1>3, <1>4
  <1>6. QED
    BY <1>2, <1>5

Serials == hist.push \in 0 .. SerialMod - 1 /\ hist.play \in 0 .. SerialMod - 1

OrderInv == LevelInv /\ Serials /\ PlaysInOrder

LEMMA PushOrder ==
    ASSUME OrderInv, BoardPush
    PROVE  Serials' /\ PlaysInOrder'
  <1> USE ConstantTypes, PcmAssumption
  <1>1. /\ n \in Nat /\ n <= Target /\ r \in 0 .. Ring - 1 /\ n + Chunk <= Ring
        /\ hist.push \in 0 .. SerialMod - 1 /\ hist.play \in 0 .. SerialMod - 1
        /\ hist.push = (hist.play + n) % SerialMod
    BY DEF OrderInv, Serials, PlaysInOrder, LevelInv, BoardPush, Paced, TypeOK
  <1>2. n' = n + Chunk /\ r' = r
    <2>1. n' = n + Chunk - 0 /\ r' = (r + 0) % Ring
      BY <1>1 DEF BoardPush
    <2>2. QED
      BY <1>1, <2>1
  <1>3. hist'.push = (hist.push + Chunk) % SerialMod /\ hist'.play = hist.play
    BY DEF BoardPush, OrderInv, LevelInv, HistType
  <1>4. hist'.push \in 0 .. SerialMod - 1
    <2>1. hist.push + Chunk \in Nat
      BY <1>1
    <2>2. QED
      BY <1>3, <2>1, Remainder
  <1>5. hist'.push = (hist'.play + n') % SerialMod
    <2>1. n + Chunk < SerialMod
      BY <1>1
    <2>2. (((hist.play + n) % SerialMod) + Chunk) % SerialMod = (hist.play + (n + Chunk)) % SerialMod
      BY <1>1, <2>1, Sums
    <2>3. QED
      BY <1>1, <1>2, <1>3, <2>2
  <1>6. ASSUME NEW i \in 0 .. Ring - 1, i < n'
        PROVE  pcm'[(r' + i) % Ring] = (hist'.play + i) % SerialMod
    <2> DEFINE s == (r + i) % Ring
               pushed == \E k \in 0 .. Chunk - 1 : s = PushSlot(k)
    <2>1. s \in 0 .. Ring - 1
      <3>1. r + i \in Nat
        BY <1>1
      <3>2. QED
        BY <3>1, Remainder
    <2>2. pcm'[s] = IF pushed
                    THEN (hist.push + (CHOOSE k \in 0 .. Chunk - 1 : s = PushSlot(k))) % SerialMod
                    ELSE pcm[s]
      BY <2>1 DEF BoardPush
    <2>3. ASSUME NEW k \in 0 .. Chunk - 1, s = PushSlot(k)
          PROVE  i = n + k
      <3>1. n + k \in 0 .. Ring - 1 /\ r + n + k = r + (n + k)
        BY <1>1
      <3>2. (r + i) % Ring = (r + (n + k)) % Ring
        BY <2>3, <3>1 DEF PushSlot
      <3>3. QED
        BY <1>1, <3>1, <3>2, SlotsDiffer
    <2>4. CASE i < n
      <3>1. ~pushed
        BY <1>1, <2>3, <2>4
      <3>2. pcm[s] = (hist.play + i) % SerialMod
        BY <2>4 DEF OrderInv, PlaysInOrder
      <3>3. QED
        BY <1>2, <1>3, <2>2, <3>1, <3>2
    <2>5. CASE ~(i < n)
      <3>1. i - n \in 0 .. Chunk - 1 /\ r + n + (i - n) = r + i /\ n + (i - n) = i
        BY <1>1, <1>2, <1>6, <2>5
      <3>2. s = PushSlot(i - n)
        BY <3>1 DEF PushSlot
      <3>3. (CHOOSE k \in 0 .. Chunk - 1 : s = PushSlot(k)) = i - n
        <4> DEFINE c == CHOOSE k \in 0 .. Chunk - 1 : s = PushSlot(k)
        <4>1. c \in 0 .. Chunk - 1 /\ s = PushSlot(c)
          BY <3>1, <3>2
        <4> HIDE DEF c
        <4>2. i = n + c
          BY <2>3, <4>1
        <4>3. c = i - n
          BY <1>1, <4>1, <4>2
        <4>4. QED
          BY <4>3 DEF c
      <3>4. pcm'[s] = (hist.push + (i - n)) % SerialMod
        BY <2>2, <3>1, <3>2, <3>3
      <3>5. (((hist.play + n) % SerialMod) + (i - n)) % SerialMod = (hist.play + i) % SerialMod
        <4>1. PICK k \in Nat : k = i - n /\ n + k < SerialMod /\ n + k = i
          BY <1>1, <3>1
        <4>2. \A u \in Nat : u + k < SerialMod =>
                  (((hist.play + u) % SerialMod) + k) % SerialMod = (hist.play + (u + k)) % SerialMod
          <5>1. hist.play \in 0 .. SerialMod - 1 /\ k \in Nat
            BY <1>1
          <5>2. QED
            BY <5>1, Sums
        <4>3. (((hist.play + n) % SerialMod) + k) % SerialMod = (hist.play + (n + k)) % SerialMod
          BY <1>1, <4>1, <4>2
        <4>4. QED
          BY <4>1, <4>3
      <3>6. QED
        BY <1>1, <1>2, <1>3, <3>1, <3>4, <3>5
    <2>6. QED
      BY <2>4, <2>5
  <1>7. QED
    BY <1>1, <1>3, <1>4, <1>5, <1>6 DEF Serials, PlaysInOrder

LEMMA PullOrder ==
    ASSUME OrderInv, PullFrame, pull.some
    PROVE  Serials' /\ PlaysInOrder'
  <1> USE ConstantTypes, PcmAssumption
  <1>1. /\ n \in 0 .. CountMod - 1 /\ n # 0 /\ r \in 0 .. Ring - 1 /\ n <= Ring
        /\ hist.push \in 0 .. SerialMod - 1 /\ hist.play \in 0 .. SerialMod - 1
        /\ hist.push = (hist.play + n) % SerialMod
    BY DEF OrderInv, Serials, PlaysInOrder, LevelInv, SawAFrame, TypeOK, NothingThrownAway
  <1>2. /\ r' = (r + 1) % Ring /\ n' = (n + CountMod - 1) % CountMod /\ pcm' = pcm
        /\ hist'.play = (pcm[r] + 1) % SerialMod /\ hist'.push = hist.push
    BY DEF PullFrame, OrderInv, LevelInv, HistType
  <1>3. n' = n - 1
    <2>1. n + CountMod - 1 \in Nat /\ (n + CountMod - 1) - CountMod \in 0 .. CountMod - 1
      BY <1>1
    <2>2. (n + CountMod - 1) % CountMod = (n + CountMod - 1) - CountMod
      BY <2>1, Remainder
    <2>3. QED
      BY <1>1, <1>2, <2>2
  <1>4. pcm[r] = hist.play
    <2>1. pcm[(r + 0) % Ring] = (hist.play + 0) % SerialMod
      BY <1>1 DEF OrderInv, PlaysInOrder
    <2>2. (r + 0) % Ring = r /\ (hist.play + 0) % SerialMod = hist.play
      BY <1>1
    <2>3. QED
      BY <2>1, <2>2
  <1>5. hist'.play = (hist.play + 1) % SerialMod /\ hist'.play \in 0 .. SerialMod - 1
    <2>1. hist.play + 1 \in Nat
      BY <1>1
    <2>2. QED
      BY <1>2, <1>4, <2>1, Remainder
  <1>6. ASSUME NEW i \in Nat, i + 1 <= n
        PROVE  (hist'.play + i) % SerialMod = (hist.play + (i + 1)) % SerialMod
    <2>1. 1 + i < SerialMod /\ 1 + i = i + 1
      BY <1>1, <1>6
    <2>2. \A u \in Nat : u + i < SerialMod =>
              (((hist.play + u) % SerialMod) + i) % SerialMod = (hist.play + (u + i)) % SerialMod
      BY <1>1, Sums
    <2>3. (((hist.play + 1) % SerialMod) + i) % SerialMod = (hist.play + (1 + i)) % SerialMod
      BY <2>1, <2>2
    <2>4. QED
      BY <1>5, <2>1, <2>3
  <1>7. hist'.push = (hist'.play + n') % SerialMod
    <2>1. n - 1 \in Nat /\ (n - 1) + 1 <= n /\ (n - 1) + 1 = n
      BY <1>1
    <2>2. QED
      BY <1>1, <1>2, <1>3, <1>6, <2>1
  <1>8. ASSUME NEW i \in 0 .. Ring - 1, i < n'
        PROVE  pcm'[(r' + i) % Ring] = (hist'.play + i) % SerialMod
    <2>1. i \in Nat /\ i + 1 <= n /\ i + 1 \in 0 .. Ring - 1 /\ i + 1 < n /\ 1 + i < Ring /\ 1 + i = i + 1
      BY <1>1, <1>3, <1>8
    <2>2. (r' + i) % Ring = (r + (i + 1)) % Ring
      <3>1. \A u \in Nat : u + i < Ring => (((r + u) % Ring) + i) % Ring = (r + (u + i)) % Ring
        <4>1. r \in 0 .. Ring - 1 /\ i \in Nat
          BY <1>1, <2>1
        <4>2. QED
          BY <4>1, Sums
      <3>2. (((r + 1) % Ring) + i) % Ring = (r + (1 + i)) % Ring
        BY <2>1, <3>1
      <3>3. QED
        BY <1>2, <2>1, <3>2
    <2>3. pcm[(r + (i + 1)) % Ring] = (hist.play + (i + 1)) % SerialMod
      <3>1. \A j \in 0 .. Ring - 1 : j < n => pcm[(r + j) % Ring] = (hist.play + j) % SerialMod
        BY DEF OrderInv, PlaysInOrder
      <3>2. PICK j \in 0 .. Ring - 1 : j = i + 1 /\ j < n
        BY <2>1
      <3>3. pcm[(r + j) % Ring] = (hist.play + j) % SerialMod
        BY <3>1, <3>2
      <3>4. QED
        BY <3>2, <3>3
    <2>4. QED
      BY <1>2, <1>6, <2>1, <2>2, <2>3
  <1>9. QED
    BY <1>1, <1>2, <1>5, <1>7, <1>8 DEF Serials, PlaysInOrder

(* A clear empties the ring and goes on with what is pushed next. *)
LEMMA ClearOrder ==
    ASSUME OrderInv, LockedClear \/ UnlockedClear
    PROVE  Serials' /\ PlaysInOrder'
  <1> USE ConstantTypes
  <1>1. n' = 0 /\ hist'.play = hist.push /\ hist'.push = hist.push
    BY DEF LockedClear, UnlockedClear, OrderInv, LevelInv, HistType
  <1>2. hist.push \in 0 .. SerialMod - 1 /\ (hist.push + 0) % SerialMod = hist.push
    BY DEF OrderInv, Serials
  <1>3. QED
    BY <1>1, <1>2 DEF Serials, PlaysInOrder

LEMMA OtherOrder ==
    ASSUME OrderInv, UNCHANGED <<pcm, r, n, hist>>
    PROVE  Serials' /\ PlaysInOrder'
  BY DEF OrderInv, Serials, PlaysInOrder

(* The frames in the ring are the run that follows the last one played: for *)
(* every ring, across stops and resets, nothing is repeated or reordered.   *)
THEOREM FramesPlayInOrder == Spec => []PlaysInOrder
  <1>1. Init => Serials /\ PlaysInOrder
    BY ConstantTypes DEF Init, Serials, PlaysInOrder
  <1>2. LevelInv /\ Serials /\ PlaysInOrder /\ [Next]_vars => Serials' /\ PlaysInOrder'
    <2> SUFFICES ASSUME OrderInv, [Next]_vars PROVE Serials' /\ PlaysInOrder'
      BY DEF OrderInv
    <2>1. CASE BoardPush
      BY <2>1, PushOrder
    <2>2. CASE LockedClear \/ UnlockedClear
      BY <2>2, ClearOrder
    <2>3. CASE PullFrame
      <3>1. CASE pull.some
        BY <2>3, <3>1, PullOrder
      <3>2. CASE ~pull.some
        BY <2>3, <3>2, OtherOrder DEF PullFrame
      <3>3. QED
        BY <3>1, <3>2
    <2>4. CASE BoardBoot \/ BoardTop \/ BoardPace \/ PullBegin \/ PullTest \/ Join \/ Stopped
               \/ (\E g \in {"stop", "reset", "start"} : Call(g))
               \/ AudioOpen \/ AudioClose \/ UNCHANGED vars
      <3>1. UNCHANGED <<pcm, r, n, hist>>
        BY <2>4 DEF BoardBoot, BoardTop, BoardPace, PullBegin, PullTest, Join, Stopped, Call,
             AudioOpen, AudioClose, ringVars, vars
      <3>2. QED
        BY <3>1, OtherOrder
    <2>5. QED
      BY <2>1, <2>2, <2>3, <2>4 DEF Next, Board, Callback, MainGoesOn
  <1>3. QED
    BY <1>1, <1>2, LevelInvariance, PTL DEF Spec
=============================================================================
