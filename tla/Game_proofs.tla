----------------------------- MODULE Game_proofs -----------------------------
(***************************************************************************)
(* The game, for every course, script, hold and duration that the          *)
(* assumptions of Race and Game admit.  TEST leaves the cells as they are, *)
(* in any frame, so that nothing can be said of a cell at large: each part *)
(* of GameIInv speaks of a cell in the scenes where the program has set it.*)
(***************************************************************************)
EXTENDS Game, WellFoundedInduction, TLAPS

RaceSplashes == {<<5, 2>>, <<7, 4>>}
Advances     == {<<5, 4>>}

HistType == [carried : Nat, ticks : Nat, finished : BOOLEAN, counted : Nat]

(* The records keep their fields, and the history its types. *)
IsAttract(a) == a = [wait |-> a.wait, beat |-> a.beat, warmup |-> a.warmup,
                     script |-> a.script, row |-> a.row, link |-> a.link]

Shapes ==
    /\ IsAttract(attract)
    /\ menu = [item |-> menu.item, timer |-> menu.timer]
    /\ hist \in HistType

(* History is empty until a game has been entered. *)
Playing   == mode = 3 /\ inner \in {5, 7}
NoGameYet == ~Playing => hist = NewGame

(* An upload under way has pieces left, and one that is over sent them all.*)
Uploading(r) == r.busy => r.pumped < Pumps
Ready(r)     == ~r.busy /\ r.pumped = Pumps /\ r.bank = r.course

(* While a race's splash stands, its hold and the upload go down together. *)
SplashFits(i, r) ==
    <<i, r.scene>> \in RaceSplashes /\ r.prev = r.scene =>
        /\ r.bank = r.course
        /\ r.hold >= 0
        /\ IF r.busy THEN r.hold + r.pumped = Splash + 1 ELSE r.pumped = Pumps

(* The same of a splash of the attract loop, which counts up to zero.      *)
BeatFits(i, a, r) ==
    i \in Splashes /\ i = a.wait =>
        /\ r.bank = r.course
        /\ IF r.busy THEN a.beat = r.pumped - Holds[i] ELSE r.pumped = Pumps

AttractFits ==
    mode = 2 => /\ BeatFits(inner, attract, g)
                /\ inner \in {3, 5, 7} => Ready(g)

(* The handlers of a race that is not over do not move the scene on, and   *)
(* those of the fanfares begin to count when they are installed.           *)
HandlerFits(r) ==
    /\ r.sub # 1
    /\ r.sub <= 3 => r.prg = "hud"
    /\ r.sub \notin {9, 11} => r.prg \in {"hud", "lights"}
    /\ r.sub \in {9, 11} => r.phase \in {1, 2}
    /\ r.sub \in {9, 11} /\ r.phase = 1 => r.prg = "blank"
    /\ r.sub = 9 /\ r.phase = 1 => r.count = 0

(* Who is done has finished, and keeps what the clock had left. *)
Earned(r, h) == r.done => h.finished /\ r.carry = h.carried

DoneFits(r, h) ==
    /\ r.sub \in 2 .. 7 => ~r.done
    /\ r.sub >= 8 => Earned(r, h)

(* Until the race begins the clock has the first entry's time; the ramp    *)
(* brings what is carried over.                                            *)
ClockFits(r, h) ==
    /\ r.sub <= 3 => r.carry = h.carried
    /\ r.sub \in 2 .. 5 => r.next = 1 /\ h.ticks = 0
    /\ r.sub = 2 => r.clock = Split(r, 0).time
    /\ r.sub = 3 => /\ r.snap = Split(r, 0).time
                    /\ r.count > Ramp => r.clock = r.snap + r.carry
    /\ r.sub \in {4, 5} => r.clock = Split(r, 0).time + h.carried
    /\ r.sub \in {6, 7} =>
         r.clock + h.ticks = h.carried + SumOf(Times(r))[r.next]

RaceFits(r, h) == HandlerFits(r) /\ DoneFits(r, h) /\ ClockFits(r, h)

(* The place <<i, s>> a game is in.  The farewell's count is full from the *)
(* splash to the farewell, and its first frame counts the game.            *)
BeforeRace(i, s) == (i = 5 /\ s < 3) \/ (i = 7 /\ s < 5)

PlaceFits(i, r, h) ==
    LET place == <<i, r.scene>>
    IN  /\ place \in Races => Ready(r) /\ RaceFits(r, h)
        /\ place \in Races \cup Advances => r.left = Farewell
        /\ place \in Advances => Earned(r, h)
        /\ place \in Farewells =>
             r.left >= 0 /\ h.counted = IF r.left < Farewell THEN 1 ELSE 0
        /\ place \notin Farewells => h.counted = 0
        /\ BeforeRace(i, r.scene) => r.carry = h.carried

GameFits == Playing => SplashFits(inner, g) /\ PlaceFits(inner, g, hist)

GameIInv ==
    /\ GameTypeOK /\ Shapes /\ NoGameYet
    /\ Uploading(g) /\ AttractFits /\ GameFits

-----------------------------------------------------------------------------
(* Induction over the naturals, from the least counterexample. *)
Below == {p \in Nat \X Nat : p[1] < p[2]}

LEMMA LeastOf ==
    ASSUME NEW T \in SUBSET Nat, T # {}
    PROVE  \E x \in T : \A y \in T : x <= y
  <1>1. OpToRel(<, Nat) = Below
    BY Zenon DEF OpToRel, Below
  <1>2. IsWellFoundedOn(Below, Nat)
    BY <1>1, NatLessThanWellFounded
  <1>3. \E x \in T : \A y \in T : ~ (<<y, x>> \in Below)
    BY <1>2, WFMin, Zenon
  <1>4. PICK x \in T : \A y \in T : ~ (<<y, x>> \in Below)
    BY <1>3
  <1>5. ASSUME NEW y \in T PROVE x <= y
    <2>1. <<y, x>> \in Nat \X Nat /\ ~ (<<y, x>> \in Below)
      BY <1>4
    <2>2. ~ (y < x)
      BY <2>1, Zenon DEF Below
    <2>3. QED
      BY <2>2
  <1>6. QED
    BY <1>5

(* p holds the sums of the first 0 .. n entries of t. *)
Sums(p, t, n) ==
    /\ p \in [0 .. n -> Int]
    /\ \A k \in 0 .. n : p[k] = IF k = 0 THEN 0 ELSE p[k - 1] + t[k - 1]

LEMMA SumsExist ==
    ASSUME NEW t \in [Nat -> Int], NEW n \in Nat
    PROVE  \E p : Sums(p, t, n)
  <1> DEFINE T == {k \in Nat : ~ \E p : Sums(p, t, k)}
  <1>1. SUFFICES ASSUME T # {} PROVE FALSE
    OBVIOUS
  <1>2. PICK m \in T : \A y \in T : m <= y
    <2>1. T \in SUBSET Nat
      OBVIOUS
    <2> HIDE DEF T
    <2>2. QED
      BY <1>1, <2>1, LeastOf
  <1>3. m # 0
    <2>1. Sums([k \in 0 .. 0 |-> 0], t, 0)
      BY DEF Sums
    <2>2. QED
      BY <2>1
  <1>4. m \in Nat /\ m - 1 \in Nat /\ m - 1 \notin T
    BY <1>2, <1>3
  <1>5. PICK p : Sums(p, t, m - 1)
    BY <1>4
  <1> DEFINE q == [k \in 0 .. m |-> IF k = m THEN p[m - 1] + t[m - 1] ELSE p[k]]
  <1>6. Sums(q, t, m)
    <2>1. p[m - 1] + t[m - 1] \in Int
      BY <1>4, <1>5 DEF Sums
    <2>2. q \in [0 .. m -> Int]
      BY <1>4, <1>5, <2>1 DEF Sums
    <2>3. ASSUME NEW k \in 0 .. m PROVE q[k] = IF k = 0 THEN 0 ELSE q[k - 1] + t[k - 1]
      <3>1. CASE k = m
        BY <1>3, <1>4, <3>1
      <3>2. CASE k # m
        <4>1. k \in 0 .. m - 1 /\ q[k] = p[k]
          BY <1>4, <3>2
        <4>2. k # 0 => q[k - 1] = p[k - 1]
          BY <1>4, <4>1
        <4>3. QED
          BY <1>5, <4>1, <4>2 DEF Sums
      <3>3. QED
        BY <3>1, <3>2
    <2>4. QED
      BY <2>2, <2>3 DEF Sums
  <1>7. QED
    BY <1>6

LEMMA SumsAgree ==
    ASSUME NEW t \in [Nat -> Int], NEW n \in Nat, NEW m \in n .. n + 1,
           NEW p, Sums(p, t, n), NEW q, Sums(q, t, m)
    PROVE  \A k \in 0 .. n : p[k] = q[k]
  <1> DEFINE T == {k \in 0 .. n : p[k] # q[k]}
  <1>1. SUFFICES ASSUME T # {} PROVE FALSE
    OBVIOUS
  <1>2. PICK k \in T : \A y \in T : k <= y
    <2>1. T \in SUBSET Nat
      OBVIOUS
    <2> HIDE DEF T
    <2>2. QED
      BY <1>1, <2>1, LeastOf
  <1>3. CASE k = 0
    BY <1>2, <1>3 DEF Sums
  <1>4. CASE k # 0
    <2>1. k - 1 \in 0 .. n /\ k - 1 \notin T
      BY <1>2, <1>4
    <2>2. QED
      BY <1>2, <1>4, <2>1 DEF Sums
  <1>5. QED
    BY <1>3, <1>4

LEMMA SumUnfolds ==
    ASSUME NEW t \in [Nat -> Int]
    PROVE  /\ SumOf(t)[0] = 0
           /\ \A n \in Nat : /\ SumOf(t)[n] \in Int
                             /\ SumOf(t)[n + 1] = SumOf(t)[n] + t[n]
  <1> DEFINE part == [n \in Nat |-> CHOOSE p : Sums(p, t, n)]
  <1>1. \A n \in Nat : Sums(part[n], t, n)
    BY SumsExist
  <1> HIDE DEF part
  <1> DEFINE f == [n \in Nat |-> part[n][n]]
  <1>2. f[0] = 0
    <2>1. Sums(part[0], t, 0)
      BY <1>1
    <2>2. QED
      BY <2>1 DEF Sums
  <1>3. ASSUME NEW n \in Nat PROVE f[n + 1] = f[n] + t[n]
    <2>1. Sums(part[n], t, n) /\ Sums(part[n + 1], t, n + 1)
      BY <1>1
    <2>2. part[n][n] = part[n + 1][n]
      <3>1. n + 1 \in n .. n + 1 /\ n \in 0 .. n
        OBVIOUS
      <3>2. QED
        BY <2>1, <3>1, SumsAgree
    <2>3. part[n + 1][n + 1] = part[n + 1][n] + t[n]
      BY <2>1 DEF Sums
    <2>4. QED
      BY <2>2, <2>3
  <1>4. SumOf(t) = [n \in Nat |-> IF n = 0 THEN 0 ELSE SumOf(t)[n - 1] + t[n - 1]]
    <2>1. f = [n \in Nat |-> IF n = 0 THEN 0 ELSE f[n - 1] + t[n - 1]]
      <3>1. ASSUME NEW n \in Nat, n # 0 PROVE f[n] = f[n - 1] + t[n - 1]
        <4>1. n - 1 \in Nat /\ (n - 1) + 1 = n
          BY <3>1
        <4> HIDE DEF f
        <4>2. QED
          BY <1>3, <4>1
      <3>2. f = [n \in Nat |-> f[n]]
        OBVIOUS
      <3> HIDE DEF f
      <3>3. QED
        BY <1>2, <3>1, <3>2
    <2> HIDE DEF f
    <2>2. QED
      BY <2>1, Zenon DEF SumOf
  <1> DEFINE h == SumOf(t)
  <1>5. h = [n \in Nat |-> IF n = 0 THEN 0 ELSE h[n - 1] + t[n - 1]]
    BY <1>4
  <1> HIDE DEF h
  <1>6. h[0] = 0 /\ \A n \in Nat : h[n + 1] = h[n] + t[n]
    BY <1>5
  <1>7. \A n \in Nat : h[n] \in Int
    <2> DEFINE T == {n \in Nat : h[n] \notin Int}
    <2>1. SUFFICES ASSUME T # {} PROVE FALSE
      OBVIOUS
    <2>2. PICK m \in T : \A y \in T : m <= y
      <3>1. T \in SUBSET Nat
        OBVIOUS
      <3> HIDE DEF T
      <3>2. QED
        BY <2>1, <3>1, LeastOf
    <2>3. m # 0
      BY <1>6
    <2>4. m - 1 \in Nat /\ m - 1 \notin T
      BY <2>2, <2>3
    <2>5. (m - 1) + 1 = m
      BY <2>4
    <2>6. QED
      BY <1>6, <2>4, <2>5
  <1>8. QED
    BY <1>6, <1>7 DEF h

-----------------------------------------------------------------------------
(* The constants, one by one. *)
LEMMA RaceConstants ==
    /\ RampEnd \in Nat /\ Intro \in Nat /\ LightsEnd \in Nat /\ Gift \in Nat
    /\ Mid \in Nat /\ Short \in Nat /\ Long \in Nat
    /\ Splash \in Nat /\ Splash > 0 /\ Pumps \in Nat /\ Pumps > 0
    /\ Ramp \in Nat /\ Ramp > 0 /\ Digit \in Nat /\ Digit > 0
    /\ Coast \in Nat /\ Coast > 0 /\ Farewell \in Nat /\ Farewell >= 2
    /\ Pumps <= Splash /\ Ramp <= RampEnd
  BY RaceAssumption DEF RacePositive

LEMMA ProductPositive ==
    ASSUME NEW a \in Nat, NEW b \in Nat, a # 0, b # 0
    PROVE  a * b # 0
  OBVIOUS

LEMMA ShareOfCarry ==
    ASSUME NEW c \in Nat, NEW n \in Nat
    PROVE  /\ (c * n) \div Ramp \in Nat
           /\ (c * Ramp) \div Ramp = c
  BY RaceConstants

LEMMA ZeroMod == ASSUME NEW n \in Nat, n > 0 PROVE 0 % n = 0
  OBVIOUS

(* An entry's time is natural unless it is the finish, and the start is    *)
(* not the finish.                                                         *)
LEMMA SplitType ==
    ASSUME NEW r \in Cells, NEW k \in Nat
    PROVE  Split(r, k).time \in Int /\ Split(r, k).time >= -1
  <1> DEFINE lap == Len(Ids[r.course])
             i == (k % lap) + 1
             p == <<r.choice, r.course>>
  <1>1. r.course \in Courses /\ r.choice \in Kinds
    BY DEF Cells
  <1>2. p \in Kinds \X Courses /\ p[2] = r.course
    BY <1>1
  <1>3. Ids[r.course] \in Seq(Nat) /\ Ids[r.course] # <<>>
    BY <1>1, RaceAssumption
  <1>4. lap \in Nat /\ lap > 0
    BY <1>3
  <1>5. i \in 1 .. lap
    <2> HIDE DEF lap
    <2>1. QED
      BY <1>4
  <1>6. /\ Opening[p] \in Seq(Nat) /\ Len(Opening[p]) = lap
        /\ Laps[p] \in Seq(Nat) /\ Len(Laps[p]) = lap
    <2> HIDE DEF p
    <2>1. QED
      BY <1>2, RaceAssumption
  <1>7. Opening[p][i] \in Nat /\ Laps[p][i] \in Nat
    <2> HIDE DEF lap, i, p
    <2>1. QED
      BY <1>5, <1>6
  <1>8. \/ Split(r, k) = [id |-> 0, time |-> -1]
        \/ Split(r, k) = [id |-> Ids[r.course][i], time |-> Opening[p][i]]
        \/ Split(r, k) = [id |-> Ids[r.course][i], time |-> Laps[p][i]]
    BY Zenon DEF Split
  <1>9. QED
    <2> HIDE DEF lap, i, p
    <2>1. QED
      BY <1>7, <1>8

LEMMA StartSplit ==
    ASSUME NEW r \in Cells
    PROVE  Split(r, 0).time \in Nat
  <1> DEFINE lap == Len(Ids[r.course])
             p == <<r.choice, r.course>>
  <1>1. r.course \in Courses /\ r.choice \in Kinds
    BY DEF Cells
  <1>2. p \in Kinds \X Courses /\ p[2] = r.course
    BY <1>1
  <1>3. Ids[r.course] \in Seq(Nat) /\ Ids[r.course] # <<>>
    BY <1>1, RaceAssumption
  <1>4. lap \in Nat /\ lap > 0 /\ 0 % lap = 0
    <2>1. lap \in Nat /\ lap > 0
      BY <1>3
    <2> HIDE DEF lap
    <2>2. QED
      BY <2>1, ZeroMod
  <1>5. Opening[p] \in Seq(Nat) /\ Len(Opening[p]) = lap
    <2> HIDE DEF p
    <2>1. QED
      BY <1>2, RaceAssumption
  <1>6. Opening[p][1] \in Nat
    <2> HIDE DEF lap, p
    <2>1. QED
      BY <1>4, <1>5
  <1>7. LastSplit(r) # 0
    <2>1. Rows[p] \in Nat /\ Rows[p] # 0
      <3> HIDE DEF p
      <3>1. QED
        BY <1>2, RaceAssumption
    <2>2. LastSplit(r) = Rows[p] * lap
      BY DEF LastSplit
    <2>3. QED
      <3> HIDE DEF p, lap
      <3>1. QED
        BY <1>4, <2>1, <2>2, ProductPositive
  <1>8. Split(r, 0).time = Opening[p][1]
    <2>1. (0 % lap) + 1 = 1 /\ 0 < lap
      <3> HIDE DEF lap
      <3>1. QED
        BY <1>4
    <2>2. QED
      BY <1>7, <2>1 DEF Split
  <1>9. QED
    BY <1>6, <1>8

(* The entries depend on what is raced only. *)
LEMMA SameRace ==
    ASSUME NEW r, NEW s, r.choice = s.choice, r.course = s.course
    PROVE  Times(r) = Times(s) /\ \A k : Split(r, k) = Split(s, k)
  BY DEF Times, Split, LastSplit

LEMMA TimesType ==
    ASSUME NEW r \in Cells
    PROVE  Times(r) \in [Nat -> Int]
  BY SplitType DEF Times

(* What the entries give adds up entry by entry. *)
LEMMA TimesAddUp ==
    ASSUME NEW r \in Cells, NEW k \in Nat
    PROVE  /\ SumOf(Times(r))[k] \in Int
           /\ SumOf(Times(r))[1] = Split(r, 0).time
           /\ SumOf(Times(r))[k + 1] = SumOf(Times(r))[k] + Split(r, k).time
  <1> DEFINE t == Times(r)
  <1>1. t \in [Nat -> Int]
    BY TimesType
  <1>2. t[0] = Split(r, 0).time /\ t[k] = Split(r, k).time
    BY DEF Times
  <1> HIDE DEF t
  <1>3. /\ SumOf(t)[0] = 0
        /\ \A n \in Nat : /\ SumOf(t)[n] \in Int
                          /\ SumOf(t)[n + 1] = SumOf(t)[n] + t[n]
    BY <1>1, SumUnfolds
  <1>4. SumOf(t)[0 + 1] = SumOf(t)[0] + t[0] /\ t[0] \in Int
    BY <1>1, <1>3
  <1>5. QED
    BY <1>2, <1>3, <1>4 DEF t

-----------------------------------------------------------------------------
(* A piece of a bank, sent at the end of every frame. *)
LEMMA PumpOne ==
    ASSUME NEW r \in Cells, Uploading(r)
    PROVE  /\ Pump(r) \in Cells
           /\ Uploading(Pump(r))
           /\ ~r.busy => Pump(r) = r
           /\ r.busy => /\ Pump(r).pumped = r.pumped + 1
                        /\ Pump(r).busy \/ Pump(r).pumped = Pumps
  <1>1. CASE ~r.busy
    BY <1>1 DEF Pump, Uploading
  <1>2. CASE r.busy
    <2> DEFINE n == r.pumped + 1
               b == n < Pumps
    <2>1. n \in 0 .. Pumps /\ (b => n < Pumps) /\ (b \/ n = Pumps)
      BY <1>2, RaceConstants DEF Cells, Uploading
    <2>2. Pump(r) = [r EXCEPT !.pumped = n, !.busy = b]
      BY <1>2, Zenon DEF Pump
    <2>3. b \in BOOLEAN
      OBVIOUS
    <2> HIDE DEF n, b
    <2>4. [r EXCEPT !.pumped = n, !.busy = b] \in Cells
      BY <2>1, <2>3 DEF Cells
    <2>5. Pump(r).busy = b /\ Pump(r).pumped = n
      BY <2>2 DEF Cells
    <2>6. QED
      BY <1>2, <2>1, <2>2, <2>4, <2>5 DEF Uploading, n
  <1>3. QED
    BY <1>1, <1>2

LEMMA PumpKeeps ==
    ASSUME NEW r \in Cells
    PROVE  /\ Pump(r).choice = r.choice /\ Pump(r).course = r.course
           /\ Pump(r).scene = r.scene   /\ Pump(r).prev = r.prev
           /\ Pump(r).hold = r.hold     /\ Pump(r).bank = r.bank
           /\ Pump(r).sub = r.sub       /\ Pump(r).phase = r.phase
           /\ Pump(r).clock = r.clock   /\ Pump(r).count = r.count
           /\ Pump(r).snap = r.snap     /\ Pump(r).carry = r.carry
           /\ Pump(r).done = r.done     /\ Pump(r).next = r.next
           /\ Pump(r).coast = r.coast   /\ Pump(r).prg = r.prg
           /\ Pump(r).left = r.left
  BY DEF Pump, Cells

-----------------------------------------------------------------------------
(* What a frame of a race leaves alone. *)
Apart(r, q) ==
    /\ q.choice = r.choice /\ q.course = r.course /\ q.prev = r.prev
    /\ q.hold = r.hold     /\ q.busy = r.busy     /\ q.pumped = r.pumped
    /\ q.bank = r.bank     /\ q.left = r.left

(* The history of a frame of a race. *)
RaceHist(r, h, seg, past) ==
    LET t == Tick(r)
        won == r.sub \in {6, 7} /\ Finishes(t, seg, past)
    IN  [h EXCEPT !.ticks = IF r.sub < 2 THEN 0
                            ELSE IF r.sub \in {6, 7} /\ r.clock > 0
                                 THEN @ + 1 ELSE @,
                  !.finished = @ \/ won,
                  !.carried = IF won THEN t.clock + Gift ELSE @]

(* What a sub-slot leaves to the handler that runs after it. *)
SlotLeaves(r, m, h) ==
    /\ m \in Cells
    /\ Apart(r, m) /\ m.scene = r.scene
    /\ RaceFits(m, h)
    /\ m.sub \in {9, 11} => \/ r.sub = m.sub /\ r.phase = 2 /\ m.phase = 2
                            \/ m.count = 0 \/ m.prg = "blank"

(* Outside the race its history stands still. *)
LEMMA HistStands ==
    ASSUME NEW r \in Cells, NEW h \in HistType, NEW seg, NEW past,
           r.sub \notin {6, 7}
    PROVE  /\ RaceHist(r, h, seg, past) \in HistType
           /\ RaceHist(r, h, seg, past).carried = h.carried
           /\ RaceHist(r, h, seg, past).finished = h.finished
           /\ RaceHist(r, h, seg, past).ticks = IF r.sub < 2 THEN 0 ELSE h.ticks
           /\ RaceHist(r, h, seg, past).counted = h.counted
  <1> DEFINE n == IF r.sub < 2 THEN 0 ELSE h.ticks
             f == RaceHist(r, h, seg, past).finished
  <1>1. n \in Nat /\ h.finished \in BOOLEAN /\ h.carried \in Nat
    BY DEF HistType
  <1>2. RaceHist(r, h, seg, past) =
          [h EXCEPT !.ticks = n, !.finished = h.finished \/ FALSE,
                    !.carried = h.carried]
    BY Zenon DEF RaceHist
  <1>3. (h.finished \/ FALSE) = h.finished
    BY <1>1, Zenon
  <1>4. RaceHist(r, h, seg, past) =
          [h EXCEPT !.ticks = n, !.finished = h.finished, !.carried = h.carried]
    BY <1>2, <1>3, Zenon
  <1> HIDE DEF n
  <1>5. QED
    BY <1>1, <1>4 DEF HistType, n

LEMMA Slot0Does ==
    ASSUME NEW r \in Cells, NEW h \in HistType, NEW seg, NEW past,
           r.sub \in {0, 1}, RaceFits(r, h)
    PROVE  SlotLeaves(r, Slot0(r), RaceHist(r, h, seg, past))
  <1> DEFINE c == Split(r, 0).time
             u == r.sub + 2
             m == [r EXCEPT !.done = FALSE, !.next = 1, !.coast = 0, !.clock = c, !.sub = u]
             k == RaceHist(r, h, seg, past)
  <1>1. r.sub = 0 /\ u = 2 /\ c \in Nat
    BY StartSplit DEF RaceFits, HandlerFits
  <1>2. Slot0(r) = m
    BY Zenon DEF Slot0
  <1> HIDE DEF c, u
  <1>3. m \in Cells
    <2>1. ASSUME NEW d \in BOOLEAN, NEW n \in Nat, NEW o \in 0 .. Coast,
                 NEW t \in Nat, NEW v \in 0 .. 11
          PROVE  [r EXCEPT !.done = d, !.next = n, !.coast = o, !.clock = t,
                           !.sub = v] \in Cells
      BY Zenon DEF Cells
    <2>2. u \in 0 .. 11 /\ 0 \in 0 .. Coast
      BY <1>1, RaceConstants
    <2>3. QED
      BY <1>1, <2>1, <2>2
  <1>4. /\ m.sub = 2 /\ m.clock = c /\ m.next = 1 /\ ~m.done /\ m.prg = r.prg
        /\ m.carry = r.carry /\ m.scene = r.scene
        /\ Apart(r, m)
    BY <1>1 DEF Cells, Apart
  <1> HIDE DEF m
  <1>5. k.ticks = 0 /\ k.carried = h.carried
    BY <1>1, HistStands
  <1>6. c = Split(m, 0).time
    BY <1>4, SameRace DEF Apart, c
  <1>7. RaceFits(m, k)
    <2>1. HandlerFits(m)
      BY <1>1, <1>4 DEF RaceFits, HandlerFits
    <2>2. DoneFits(m, k)
      BY <1>4 DEF DoneFits
    <2>3. ClockFits(m, k)
      <3>1. m.carry = k.carried
        BY <1>1, <1>4, <1>5 DEF RaceFits, ClockFits
      <3> HIDE DEF k
      <3>2. QED
        BY <1>4, <1>5, <1>6, <3>1 DEF ClockFits
    <2>4. QED
      BY <2>1, <2>2, <2>3 DEF RaceFits
  <1>8. QED
    BY <1>2, <1>3, <1>4, <1>7 DEF SlotLeaves

LEMMA RampBegins ==
    ASSUME NEW r \in Cells, NEW h \in HistType, NEW seg, NEW past,
           r.sub = 2, RaceFits(r, h)
    PROVE  SlotLeaves(r, Slot1(r), RaceHist(r, h, seg, past))
  <1> DEFINE u == r.sub + 1
             m == [r EXCEPT !.count = 0, !.snap = r.clock, !.sub = u]
             k == RaceHist(r, h, seg, past)
  <1>1. u = 3 /\ Even(r)
    BY DEF Even
  <1>2. Slot1(r) = m
    BY <1>1, Zenon DEF Slot1
  <1> HIDE DEF u
  <1>3. m \in Cells
    <2>1. ASSUME NEW n \in Nat, NEW s \in Nat, NEW v \in 0 .. 11
          PROVE  [r EXCEPT !.count = n, !.snap = s, !.sub = v] \in Cells
      BY Zenon DEF Cells
    <2>2. u \in 0 .. 11 /\ r.clock \in Nat
      BY <1>1 DEF Cells
    <2>3. QED
      BY <2>1, <2>2
  <1>4. /\ m.sub = 3 /\ m.count = 0 /\ m.snap = r.clock /\ m.next = r.next
        /\ m.prg = r.prg /\ m.done = r.done /\ m.carry = r.carry
        /\ m.scene = r.scene
        /\ Apart(r, m)
    BY <1>1 DEF Cells, Apart
  <1> HIDE DEF m
  <1>5. k.ticks = h.ticks /\ k.carried = h.carried
    BY HistStands
  <1> HIDE DEF k
  <1>6. Split(r, 0) = Split(m, 0)
    BY <1>4, SameRace DEF Apart
  <1>7. RaceFits(m, k)
    <2>1. HandlerFits(m)
      BY <1>4 DEF RaceFits, HandlerFits
    <2>2. DoneFits(m, k)
      BY <1>4 DEF RaceFits, DoneFits
    <2>3. ClockFits(m, k)
      BY <1>4, <1>5, <1>6, RaceConstants DEF RaceFits, ClockFits
    <2>4. QED
      BY <2>1, <2>2, <2>3 DEF RaceFits
  <1>8. QED
    BY <1>2, <1>3, <1>4, <1>7 DEF SlotLeaves, k

(* The ramp ends with the whole of the time carried over on the clock. *)
LEMMA RampRuns ==
    ASSUME NEW r \in Cells, NEW h \in HistType, NEW seg, NEW past,
           r.sub = 3, RaceFits(r, h)
    PROVE  SlotLeaves(r, Slot1(r), RaceHist(r, h, seg, past))
  <1> DEFINE over == r.count > RampEnd
             c == IF over THEN 0 ELSE r.carry
             u == IF over THEN r.sub + 1 ELSE r.sub
             t == IF r.count <= Ramp
                  THEN r.snap + (r.carry * r.count) \div Ramp ELSE r.clock
             n == r.count + 1
             m == [r EXCEPT !.carry = c, !.sub = u, !.clock = t, !.count = n]
             k == RaceHist(r, h, seg, past)
  <1>1. ~Even(r)
    BY DEF Even
  <1>2. Slot1(r) = m
    BY <1>1, Zenon DEF Slot1
  <1>3. /\ r.count \in Nat /\ r.carry \in Nat /\ r.snap \in Nat
        /\ r.clock \in Nat
    BY DEF Cells
  <1>4. /\ c \in Nat /\ u \in {3, 4} /\ n \in Nat /\ n = r.count + 1
        /\ u = 4 => over
        /\ u = 3 => c = r.carry
    BY <1>3
  <1>5. /\ t \in Nat
        /\ r.count = Ramp => t = r.snap + r.carry
        /\ r.count > Ramp => t = r.clock
    <2> DEFINE q == (r.carry * r.count) \div Ramp
    <2>1. q \in Nat /\ (r.count = Ramp => q = r.carry)
      BY <1>3, ShareOfCarry
    <2>2. t = IF r.count <= Ramp THEN r.snap + q ELSE r.clock
      OBVIOUS
    <2> HIDE DEF q, t
    <2>3. QED
      BY <1>3, <2>1, <2>2, RaceConstants
  <1> HIDE DEF c, u, t, n
  <1>6. m \in Cells
    <2>1. ASSUME NEW a \in Nat, NEW v \in 0 .. 11, NEW b \in Nat, NEW d \in Nat
          PROVE  [r EXCEPT !.carry = a, !.sub = v, !.clock = b, !.count = d] \in Cells
      BY Zenon DEF Cells
    <2>2. u \in 0 .. 11
      BY <1>4
    <2>3. QED
      BY <1>4, <1>5, <2>1, <2>2
  <1>7. /\ m.sub = u /\ m.count = n /\ m.snap = r.snap /\ m.next = r.next
        /\ m.prg = r.prg /\ m.done = r.done /\ m.carry = c /\ m.clock = t
        /\ m.scene = r.scene
        /\ Apart(r, m)
    BY DEF Cells, Apart
  <1> HIDE DEF m
  <1>8. k.ticks = h.ticks /\ k.carried = h.carried
    BY HistStands
  <1> HIDE DEF k
  <1>9. Split(r, 0) = Split(m, 0)
    BY <1>7, SameRace DEF Apart
  <1>10. /\ r.carry = h.carried /\ r.next = 1 /\ h.ticks = 0
         /\ r.snap = Split(r, 0).time
         /\ r.count > Ramp => r.clock = r.snap + r.carry
    BY DEF RaceFits, ClockFits
  <1>11. RaceFits(m, k)
    <2>1. HandlerFits(m)
      BY <1>4, <1>7 DEF RaceFits, HandlerFits
    <2>2. DoneFits(m, k)
      BY <1>4, <1>7 DEF RaceFits, DoneFits
    <2>3. ClockFits(m, k)
      <3>1. CASE u = 3
        <4>1. n > Ramp => t = r.snap + r.carry
          BY <1>3, <1>4, <1>5, <1>10, RaceConstants
        <4>2. QED
          BY <1>4, <1>7, <1>8, <1>9, <1>10, <3>1, <4>1 DEF ClockFits
      <3>2. CASE u = 4
        <4>1. t = r.snap + r.carry
          BY <1>3, <1>4, <1>5, <1>10, <3>2, RaceConstants
        <4>2. QED
          BY <1>4, <1>7, <1>8, <1>9, <1>10, <3>2, <4>1 DEF ClockFits
      <3>3. QED
        BY <1>4, <3>1, <3>2
    <2>4. QED
      BY <2>1, <2>2, <2>3 DEF RaceFits
  <1>12. QED
    BY <1>2, <1>4, <1>6, <1>7, <1>11 DEF SlotLeaves, k

(* The lights leave the clock alone. *)
LightsLeave(r, m) ==
    /\ m \in Cells
    /\ m.sub \in {5, 6} /\ m.prg \in {"hud", "lights"}
    /\ m.clock = r.clock /\ m.next = r.next /\ m.done = r.done
    /\ m.carry = r.carry /\ m.scene = r.scene
    /\ Apart(r, m)

LEMMA LightsDo ==
    ASSUME NEW r \in Cells, r.sub = 5, r.prg \in {"hud", "lights"}
    PROVE  LightsLeave(r, LightsStep(r))
  <1> USE DEF LightsLeave, Apart
  <1>1. r.count + 1 \in Nat /\ r.phase \in 0 .. 6
    BY DEF Cells
  <1>2. {"hud", "lights"} \subseteq Handlers
    BY DEF Handlers
  <1>3. LightsLeave(r, r)
    OBVIOUS
  <1>4. ASSUME NEW p \in {"hud", "lights"}, NEW v \in 0 .. 6
        PROVE  LightsLeave(r, [r EXCEPT !.prg = p, !.phase = v])
    <2>1. ASSUME NEW b \in Handlers
          PROVE  [r EXCEPT !.prg = b, !.phase = v] \in Cells
      BY Zenon DEF Cells
    <2>2. [r EXCEPT !.prg = p, !.phase = v] \in Cells
      BY <1>2, <2>1
    <2>3. QED
      BY <2>2 DEF Cells
  <1>5. ASSUME NEW n \in Nat, NEW v \in 0 .. 6
        PROVE  LightsLeave(r, [r EXCEPT !.count = n, !.phase = v])
    <2>1. [r EXCEPT !.count = n, !.phase = v] \in Cells
      BY Zenon DEF Cells
    <2>2. QED
      BY <2>1 DEF Cells
  <1>6. ASSUME NEW n \in Nat
        PROVE  LightsLeave(r, [r EXCEPT !.count = n])
    <2>1. [r EXCEPT !.count = n] \in Cells
      BY Zenon DEF Cells
    <2>2. QED
      BY <2>1 DEF Cells
  <1>7. ASSUME NEW n \in Nat, NEW p \in {"hud", "lights"}, NEW v \in 0 .. 6
        PROVE  LightsLeave(r, [r EXCEPT !.count = n, !.prg = p, !.phase = v])
    <2>1. ASSUME NEW b \in Handlers
          PROVE  [r EXCEPT !.count = n, !.prg = b, !.phase = v] \in Cells
      BY Zenon DEF Cells
    <2>2. [r EXCEPT !.count = n, !.prg = p, !.phase = v] \in Cells
      BY <1>2, <2>1
    <2>3. QED
      BY <2>2 DEF Cells
  <1>8. ASSUME NEW v \in 0 .. 6, NEW u \in {5, 6}
        PROVE  LightsLeave(r, [r EXCEPT !.phase = v, !.sub = u])
    <2>1. ASSUME NEW d \in 0 .. 11
          PROVE  [r EXCEPT !.phase = v, !.sub = d] \in Cells
      BY Zenon DEF Cells
    <2>2. u \in 0 .. 11
      OBVIOUS
    <2>3. [r EXCEPT !.phase = v, !.sub = u] \in Cells
      BY <2>1, <2>2, Zenon
    <2>4. QED
      BY <2>3 DEF Cells
  <1> HIDE DEF LightsLeave
  <1>9. CASE r.phase = 0
    <2>1. LightsStep(r) = [r EXCEPT !.prg = "hud", !.phase = 1]
      BY <1>9 DEF LightsStep
    <2>2. QED
      BY <1>4, <2>1
  <1>10. CASE r.phase = 1
    <2>1. LightsStep(r) = [r EXCEPT !.count = 0, !.phase = 2]
      BY <1>10 DEF LightsStep
    <2>2. 0 \in Nat /\ 2 \in 0 .. 6
      OBVIOUS
    <2>3. QED
      BY <1>5, <2>1, <2>2, Zenon
  <1>11. CASE r.phase = 2
    <2>1. \/ LightsStep(r) = [r EXCEPT !.count = r.count + 1]
          \/ LightsStep(r) = [r EXCEPT !.count = 0, !.prg = "lights", !.phase = 3]
      BY <1>11 DEF LightsStep
    <2>2. 0 \in Nat /\ 3 \in 0 .. 6 /\ "lights" \in {"hud", "lights"}
      OBVIOUS
    <2>3. QED
      BY <1>1, <1>6, <1>7, <2>1, <2>2, Zenon
  <1>12. CASE r.phase \in 3 .. 5
    <2> DEFINE u == IF r.phase = 5 THEN r.sub + 1 ELSE r.sub
               v == r.phase + 1
    <2>1. \/ LightsStep(r) = r
          \/ LightsStep(r) = [r EXCEPT !.phase = v, !.sub = u]
      BY <1>12 DEF LightsStep
    <2>2. u \in {5, 6} /\ v \in 0 .. 6
      BY <1>12
    <2> HIDE DEF u, v
    <2>3. QED
      BY <1>3, <1>8, <2>1, <2>2
  <1>13. CASE r.phase = 6
    <2>1. LightsStep(r) = r
      BY <1>13 DEF LightsStep
    <2>2. QED
      BY <1>3, <2>1
  <1>14. QED
    BY <1>1, <1>9, <1>10, <1>11, <1>12, <1>13

LEMMA Slot2Does ==
    ASSUME NEW r \in Cells, NEW h \in HistType, NEW seg, NEW past,
           r.sub \in {4, 5}, RaceFits(r, h)
    PROVE  SlotLeaves(r, Slot2(r), RaceHist(r, h, seg, past))
  <1> DEFINE b == IF Even(r) THEN [r EXCEPT !.phase = 0, !.sub = 5] ELSE r
             m == Slot2(r)
             k == RaceHist(r, h, seg, past)
  <1>1. /\ b \in Cells
        /\ b.sub = 5 /\ b.prg = r.prg /\ b.clock = r.clock /\ b.next = r.next
        /\ b.done = r.done /\ b.carry = r.carry /\ b.scene = r.scene
        /\ Apart(r, b)
        /\ m = LightsStep(b)
    <2>1. CASE r.sub = 4
      <3>1. Even(r) /\ r.sub + 1 = 5
        BY <2>1 DEF Even
      <3>2. b = [r EXCEPT !.phase = 0, !.sub = 5] /\ m = LightsStep(b)
        <4>1. m = LightsStep([r EXCEPT !.phase = 0, !.sub = r.sub + 1])
          BY <3>1, Zenon DEF Slot2
        <4>2. QED
          BY <3>1, <4>1, Zenon
      <3>3. b \in Cells
        <4>1. ASSUME NEW c \in 0 .. 6, NEW d \in 0 .. 11
              PROVE  [r EXCEPT !.phase = c, !.sub = d] \in Cells
          BY Zenon DEF Cells
        <4>2. 0 \in 0 .. 6 /\ 5 \in 0 .. 11
          OBVIOUS
        <4>3. QED
          BY <3>2, <4>1, <4>2, Zenon
      <3> HIDE DEF b, m
      <3>4. QED
        BY <3>2, <3>3 DEF Cells, Apart
    <2>2. CASE r.sub = 5
      <3>1. ~Even(r)
        BY <2>2 DEF Even
      <3>2. b = r /\ m = LightsStep(r)
        BY <3>1, Zenon DEF Slot2
      <3>3. QED
        BY <2>2, <3>2 DEF Apart
    <2>3. QED
      BY <2>1, <2>2
  <1> HIDE DEF b, m
  <1>2. r.prg \in {"hud", "lights"}
    BY DEF RaceFits, HandlerFits
  <1>3. LightsLeave(b, m)
    BY <1>1, <1>2, LightsDo
  <1>4. /\ m \in Cells
        /\ m.sub \in {5, 6} /\ m.prg \in {"hud", "lights"}
        /\ m.clock = r.clock /\ m.next = r.next /\ m.done = r.done
        /\ m.carry = r.carry /\ m.scene = r.scene
        /\ Apart(r, m)
    BY <1>1, <1>3 DEF LightsLeave, Apart
  <1>5. k.ticks = h.ticks /\ k.carried = h.carried
    BY HistStands
  <1> HIDE DEF k
  <1>6. Split(r, 0) = Split(m, 0)
    BY <1>4, SameRace DEF Apart
  <1>7. r.next = 1 /\ h.ticks = 0 /\ r.clock = Split(r, 0).time + h.carried
    BY DEF RaceFits, ClockFits
  <1>8. RaceFits(m, k)
    <2>1. HandlerFits(m)
      BY <1>4 DEF HandlerFits
    <2>2. DoneFits(m, k)
      BY <1>4 DEF RaceFits, DoneFits
    <2>3. ClockFits(m, k)
      <3>1. SumOf(Times(m))[1] = Split(m, 0).time /\ Split(m, 0).time \in Int
        BY <1>4, TimesAddUp, SplitType
      <3>2. h.carried \in Nat
        BY DEF HistType
      <3>3. QED
        BY <1>4, <1>5, <1>6, <1>7, <3>1, <3>2 DEF ClockFits
    <2>4. QED
      BY <2>1, <2>2, <2>3 DEF RaceFits
  <1>9. QED
    BY <1>4, <1>8 DEF SlotLeaves, m, k

(* A frame of the clock: what it loses is what the history counts. *)
LEMMA TickDoes ==
    ASSUME NEW r \in Cells, r.sub \in {6, 7}
    PROVE  LET t == Tick(r)
           IN  /\ t \in Cells
               /\ t.sub = 7
               /\ t.clock = IF r.clock > 0 THEN r.clock - 1 ELSE 0
               /\ t.prg = r.prg /\ t.next = r.next /\ t.done = r.done
               /\ t.carry = r.carry /\ t.scene = r.scene /\ t.coast = r.coast
               /\ Apart(r, t)
  <1> DEFINE u == IF Even(r) THEN r.sub + 1 ELSE r.sub
             c == IF r.clock > 0 THEN r.clock - 1 ELSE 0
             t == [r EXCEPT !.sub = u, !.clock = c]
  <1>1. Tick(r) = t
    BY Zenon DEF Tick
  <1>2. u = 7 /\ c \in Nat
    BY DEF Cells, Even
  <1>3. c = IF r.clock > 0 THEN r.clock - 1 ELSE 0
    OBVIOUS
  <1> HIDE DEF u, c
  <1>4. t \in Cells
    <2>1. ASSUME NEW n \in Nat, NEW v \in 0 .. 11
          PROVE  [r EXCEPT !.sub = v, !.clock = n] \in Cells
      BY Zenon DEF Cells
    <2>2. u \in 0 .. 11
      BY <1>2
    <2>3. QED
      BY <1>2, <2>1, <2>2, Zenon
  <1>5. /\ t.sub = u /\ t.clock = c
        /\ t.prg = r.prg /\ t.next = r.next /\ t.done = r.done
        /\ t.carry = r.carry /\ t.scene = r.scene /\ t.coast = r.coast
        /\ Apart(r, t)
    BY DEF Cells, Apart
  <1> HIDE DEF t
  <1>6. QED
    BY <1>1, <1>2, <1>3, <1>4, <1>5

(* The end of the frame, with the clock out, decides between coasting and  *)
(* the fanfare of the losers.                                              *)
LEMMA TimeUpDoes ==
    ASSUME NEW r \in Cells, NEW slow \in BOOLEAN, r.sub \in {7, 8}
    PROVE  LET m == TimeUp(r, slow)
           IN  /\ m \in Cells
               /\ m.sub \in {r.sub, 10}
               /\ m.clock = r.clock
               /\ m.prg = r.prg /\ m.next = r.next /\ m.done = r.done
               /\ m.carry = r.carry /\ m.scene = r.scene
               /\ Apart(r, m)
  <1>1. CASE r.clock > 0
    <2>1. TimeUp(r, slow) = r
      BY <1>1, Zenon DEF TimeUp
    <2>2. QED
      BY <2>1 DEF Apart
  <1>2. CASE ~(r.clock > 0)
    <2> DEFINE left == (IF r.coast = 0 THEN Coast ELSE r.coast) - 1
               u == IF left = 0 \/ slow THEN 10 ELSE r.sub
               m == [r EXCEPT !.coast = left, !.sub = u]
    <2>1. TimeUp(r, slow) = m
      BY <1>2, Zenon DEF TimeUp
    <2>2. left \in 0 .. Coast /\ u \in {r.sub, 10}
      BY RaceConstants DEF Cells
    <2> HIDE DEF left, u
    <2>3. m \in Cells
      <3>1. ASSUME NEW n \in 0 .. Coast, NEW v \in 0 .. 11
            PROVE  [r EXCEPT !.coast = n, !.sub = v] \in Cells
        BY Zenon DEF Cells
      <3>2. u \in 0 .. 11
        BY <2>2
      <3>3. QED
        BY <2>2, <3>1, <3>2, Zenon
    <2>4. /\ m.sub = u /\ m.clock = r.clock
          /\ m.prg = r.prg /\ m.next = r.next /\ m.done = r.done
          /\ m.carry = r.carry /\ m.scene = r.scene
          /\ Apart(r, m)
      BY DEF Cells, Apart
    <2> HIDE DEF m
    <2>5. QED
      BY <2>1, <2>2, <2>3, <2>4
  <1>3. QED
    BY <1>1, <1>2

(* A checkpoint gives its time, the finish ends the race. *)
LEMMA GateDoes ==
    ASSUME NEW r \in Cells, NEW seg, NEW past \in BOOLEAN, r.sub = 7
    PROVE  LET m == Gate(r, seg, past)
           IN  /\ m \in Cells
               /\ m.prg = r.prg /\ m.scene = r.scene
               /\ Apart(r, m)
               /\ Finishes(r, seg, past) =>
                    m.sub = 8 /\ m.done /\ m.carry = r.clock + Gift
               /\ ~Finishes(r, seg, past) =>
                    /\ m.sub = 7 /\ m.done = r.done /\ m.carry = r.carry
                    /\ \/ m.next = r.next /\ m.clock = r.clock
                       \/ /\ m.next = r.next + 1
                          /\ m.clock = r.clock + Split(r, r.next).time
  <1> DEFINE m == Gate(r, seg, past)
  <1>1. r.clock \in Nat /\ r.next \in Nat
    BY DEF Cells
  <1>2. CASE ~Reached(r, seg, past)
    <2>1. m = r /\ ~Finishes(r, seg, past)
      BY <1>2, Zenon DEF Gate, Finishes
    <2>2. QED
      BY <2>1 DEF Apart
  <1>3. CASE Finishes(r, seg, past)
    <2> DEFINE c == r.clock + Gift
    <2>1. Reached(r, seg, past)
      BY <1>3, Zenon DEF Finishes
    <2>2. m = [r EXCEPT !.sub = 8, !.done = TRUE, !.carry = c]
      BY <1>3, <2>1, Zenon DEF Gate
    <2>3. c \in Nat
      BY <1>1, RaceConstants
    <2> HIDE DEF m, c
    <2>4. m \in Cells
      <3>1. ASSUME NEW v \in 0 .. 11, NEW d \in BOOLEAN
            PROVE  [r EXCEPT !.sub = v, !.done = d, !.carry = c] \in Cells
        BY <2>3, Zenon DEF Cells
      <3>2. 8 \in 0 .. 11 /\ TRUE \in BOOLEAN
        OBVIOUS
      <3>3. QED
        BY <2>2, <3>1, <3>2, Zenon
    <2>5. m.sub = 8 /\ m.done /\ m.carry = c /\ m.prg = r.prg
          /\ m.scene = r.scene /\ Apart(r, m)
      BY <2>2 DEF Cells, Apart
    <2>6. QED
      BY <1>3, <2>4, <2>5 DEF m, c
  <1>4. CASE Reached(r, seg, past) /\ ~Finishes(r, seg, past)
    <2> DEFINE n == r.next + 1
               c == r.clock + Split(r, r.next).time
    <2>1. m = [r EXCEPT !.next = n, !.clock = c]
      BY <1>4, Zenon DEF Gate
    <2>2. n \in Nat /\ c \in Nat
      <3>1. ~(Split(r, r.next).time < 0)
        BY <1>4, Zenon DEF Finishes
      <3>2. Split(r, r.next).time \in Int
        BY <1>1, SplitType
      <3>3. QED
        BY <1>1, <3>1, <3>2
    <2> HIDE DEF m, n, c
    <2>3. m \in Cells
      <3>1. [r EXCEPT !.next = n, !.clock = c] \in Cells
        BY <2>2, Zenon DEF Cells
      <3>2. QED
        BY <2>1, <3>1
    <2>4. m.sub = 7 /\ m.done = r.done /\ m.carry = r.carry /\ m.prg = r.prg
          /\ m.scene = r.scene /\ m.next = n /\ m.clock = c /\ Apart(r, m)
      BY <2>1 DEF Cells, Apart
    <2>5. QED
      BY <1>4, <2>3, <2>4 DEF m, n, c
  <1>5. QED
    BY <1>2, <1>3, <1>4

(* The history of a frame against the clock. *)
LEMMA HistTicks ==
    ASSUME NEW r \in Cells, NEW h \in HistType, NEW seg, NEW past \in BOOLEAN,
           r.sub \in {6, 7}
    PROVE  LET k == RaceHist(r, h, seg, past)
               won == Finishes(Tick(r), seg, past)
           IN  /\ k \in HistType
               /\ k.ticks = IF r.clock > 0 THEN h.ticks + 1 ELSE h.ticks
               /\ k.counted = h.counted
               /\ won => k.finished /\ k.carried = Tick(r).clock + Gift
               /\ ~won => k.finished = h.finished /\ k.carried = h.carried
  <1> DEFINE k == RaceHist(r, h, seg, past)
             won == Finishes(Tick(r), seg, past)
             n == IF r.clock > 0 THEN h.ticks + 1 ELSE h.ticks
             c == IF won THEN Tick(r).clock + Gift ELSE h.carried
             f == IF won THEN TRUE ELSE h.finished
  <1>1. h.ticks \in Nat /\ h.finished \in BOOLEAN /\ h.carried \in Nat
    BY DEF HistType
  <1>2. Tick(r) \in Cells
    BY TickDoes
  <1>3. n \in Nat /\ c \in Nat
    <2>1. Tick(r).clock + Gift \in Nat
      BY <1>2, RaceConstants DEF Cells
    <2>2. n \in Nat
      BY <1>1
    <2>3. QED
      BY <1>1, <2>1, <2>2, Zenon
  <1>4. f \in BOOLEAN
    BY <1>1, Zenon
  <1>5. k = [h EXCEPT !.ticks = n, !.finished = f, !.carried = c]
    <2>1. ~(r.sub < 2) /\ r.sub \in {6, 7}
      BY DEF Cells
    <2>2. k = [h EXCEPT
                 !.ticks = IF r.sub < 2 THEN 0
                           ELSE IF r.sub \in {6, 7} /\ r.clock > 0
                                THEN h.ticks + 1 ELSE h.ticks,
                 !.finished = h.finished \/ (r.sub \in {6, 7} /\ won),
                 !.carried = IF r.sub \in {6, 7} /\ won THEN Tick(r).clock + Gift
                             ELSE h.carried]
      BY Zenon DEF RaceHist
    <2>3. /\ (IF r.sub < 2 THEN 0
              ELSE IF r.sub \in {6, 7} /\ r.clock > 0 THEN h.ticks + 1
              ELSE h.ticks) = n
          /\ (IF r.sub \in {6, 7} /\ won THEN Tick(r).clock + Gift
              ELSE h.carried) = c
      BY <2>1, Zenon
    <2>4. (h.finished \/ (r.sub \in {6, 7} /\ won)) = f
      BY <1>1, <2>1, Zenon
    <2>5. QED
      BY <2>2, <2>3, <2>4, Zenon
  <1>6. /\ n = IF r.clock > 0 THEN h.ticks + 1 ELSE h.ticks
        /\ won => c = Tick(r).clock + Gift /\ f
        /\ ~won => c = h.carried /\ f = h.finished
    BY Zenon
  <1> HIDE DEF k, n, c, f, won
  <1>7. k \in HistType
    <2>1. [h EXCEPT !.ticks = n, !.finished = f, !.carried = c] \in HistType
      BY <1>3, <1>4, Zenon DEF HistType
    <2>2. QED
      BY <1>5, <2>1
  <1>8. k.ticks = n /\ k.finished = f /\ k.carried = c /\ k.counted = h.counted
    BY <1>5 DEF HistType
  <1>9. QED
    BY <1>6, <1>7, <1>8 DEF k, won

LEMMA Slot3Does ==
    ASSUME NEW r \in Cells, NEW h \in HistType, NEW seg, NEW past \in BOOLEAN,
           NEW slow \in BOOLEAN, r.sub \in {6, 7}, RaceFits(r, h)
    PROVE  SlotLeaves(r, Slot3(r, seg, past, slow), RaceHist(r, h, seg, past))
  <1> DEFINE t == Tick(r)
             q == Gate(t, seg, past)
             m == TimeUp(q, slow)
             k == RaceHist(r, h, seg, past)
             won == Finishes(t, seg, past)
  <1>1. Slot3(r, seg, past, slow) = m
    BY Zenon DEF Slot3
  <1>2. /\ t \in Cells
        /\ t.sub = 7
        /\ t.clock = IF r.clock > 0 THEN r.clock - 1 ELSE 0
        /\ t.prg = r.prg /\ t.next = r.next /\ t.done = r.done
        /\ t.carry = r.carry /\ t.scene = r.scene
        /\ Apart(r, t)
    BY TickDoes
  <1>3. /\ k.ticks = IF r.clock > 0 THEN h.ticks + 1 ELSE h.ticks
        /\ won => k.finished /\ k.carried = t.clock + Gift
        /\ ~won => k.finished = h.finished /\ k.carried = h.carried
    BY HistTicks
  <1> HIDE DEF t, k
  <1>4. /\ q \in Cells
        /\ q.prg = t.prg /\ q.scene = t.scene
        /\ Apart(t, q)
        /\ won => q.sub = 8 /\ q.done /\ q.carry = t.clock + Gift
        /\ ~won => /\ q.sub = 7 /\ q.done = t.done /\ q.carry = t.carry
                   /\ \/ q.next = t.next /\ q.clock = t.clock
                      \/ /\ q.next = t.next + 1
                         /\ q.clock = t.clock + Split(t, t.next).time
    BY <1>2, GateDoes
  <1> HIDE DEF q, won
  <1>5. q.sub \in {7, 8}
    BY <1>4
  <1>6. /\ m \in Cells
        /\ m.sub \in {q.sub, 10}
        /\ m.clock = q.clock
        /\ m.prg = q.prg /\ m.next = q.next /\ m.done = q.done
        /\ m.carry = q.carry /\ m.scene = q.scene
        /\ Apart(q, m)
    BY <1>4, <1>5, TimeUpDoes
  <1> HIDE DEF m
  <1>7. Apart(r, m) /\ m.scene = r.scene
    BY <1>2, <1>4, <1>6 DEF Apart
  <1>8. r.prg \in {"hud", "lights"}
    BY DEF RaceFits, HandlerFits
  <1>9. HandlerFits(m)
    BY <1>2, <1>4, <1>5, <1>6, <1>8 DEF HandlerFits
  <1>10. CASE won
    <2>1. m.sub \in {8, 10} /\ m.done /\ m.carry = k.carried /\ k.finished
      BY <1>3, <1>4, <1>6, <1>10
    <2>2. DoneFits(m, k)
      BY <2>1 DEF DoneFits, Earned
    <2>3. ClockFits(m, k)
      BY <2>1 DEF ClockFits
    <2>4. QED
      BY <1>1, <1>6, <1>7, <1>9, <2>1, <2>2, <2>3 DEF SlotLeaves, RaceFits, k
  <1>11. CASE ~won
    <2>1. ~r.done
      BY DEF RaceFits, DoneFits
    <2>2. m.sub \in {7, 10} /\ ~m.done
      BY <1>2, <1>4, <1>6, <1>11, <2>1
    <2>3. DoneFits(m, k)
      BY <2>2 DEF DoneFits, Earned
    <2>4. m.clock + k.ticks = k.carried + SumOf(Times(m))[m.next]
      <3> DEFINE sum == SumOf(Times(r))
      <3>1. Times(m) = Times(r) /\ Split(t, t.next) = Split(r, r.next)
        BY <1>2, <1>7, SameRace DEF Apart
      <3>2. /\ r.next \in Nat /\ r.clock \in Nat
            /\ h.ticks \in Nat /\ h.carried \in Nat
        BY DEF Cells, HistType
      <3>3. /\ sum[r.next] \in Int /\ Split(r, r.next).time \in Int
            /\ sum[r.next + 1] = sum[r.next] + Split(r, r.next).time
        BY <3>2, TimesAddUp, SplitType
      <3>4. r.clock + h.ticks = h.carried + sum[r.next]
        BY DEF RaceFits, ClockFits
      <3> HIDE DEF sum
      <3>5. t.clock + k.ticks = h.carried + sum[r.next] /\ t.clock \in Nat /\ k.ticks \in Nat
        BY <1>2, <1>3, <3>2, <3>4
      <3>6. m.clock + k.ticks = h.carried + sum[m.next]
        <4>1. CASE m.next = r.next /\ m.clock = t.clock
          BY <3>5, <4>1
        <4>2. CASE /\ m.next = r.next + 1
                   /\ m.clock = t.clock + Split(r, r.next).time
          BY <3>2, <3>3, <3>5, <4>2
        <4>3. QED
          BY <1>2, <1>4, <1>6, <1>11, <3>1, <4>1, <4>2
      <3>7. QED
        BY <1>3, <1>11, <3>1, <3>6 DEF sum
    <2>5. ClockFits(m, k)
      BY <2>2, <2>4 DEF ClockFits
    <2>6. QED
      BY <1>1, <1>6, <1>7, <1>9, <2>2, <2>3, <2>5 DEF SlotLeaves, RaceFits, k
  <1>12. QED
    BY <1>10, <1>11

(* The clock is settled once the race is over. *)
LEMMA OverFits ==
    ASSUME NEW r \in Cells, NEW h \in HistType, NEW seg, NEW past, NEW m,
           r.sub \in 8 .. 11, RaceFits(r, h),
           m.sub \in 8 .. 11, m.done = r.done, m.carry = r.carry
    PROVE  LET k == RaceHist(r, h, seg, past)
           IN  DoneFits(m, k) /\ ClockFits(m, k)
  <1> DEFINE k == RaceHist(r, h, seg, past)
  <1>1. k.finished = h.finished /\ k.carried = h.carried
    BY HistStands
  <1> HIDE DEF k
  <1>2. Earned(r, h)
    BY DEF RaceFits, DoneFits
  <1>3. DoneFits(m, k)
    BY <1>1, <1>2 DEF DoneFits, Earned
  <1>4. ClockFits(m, k)
    BY DEF ClockFits
  <1>5. QED
    BY <1>3, <1>4 DEF k

LEMMA Slot4Does ==
    ASSUME NEW r \in Cells, NEW h \in HistType, NEW seg, NEW past,
           r.sub \in {8, 9}, RaceFits(r, h)
    PROVE  SlotLeaves(r, Slot4(r), RaceHist(r, h, seg, past))
  <1> DEFINE m == Slot4(r)
             k == RaceHist(r, h, seg, past)
  <1>1. SUFFICES /\ m \in Cells /\ Apart(r, m) /\ m.scene = r.scene
                 /\ HandlerFits(m)
                 /\ m.sub = 9 /\ m.done = r.done /\ m.carry = r.carry
                 /\ \/ r.sub = m.sub /\ r.phase = 2 /\ m.phase = 2
                    \/ m.count = 0 \/ m.prg = "blank"
    <2> HIDE DEF m
    <2>1. DoneFits(m, k) /\ ClockFits(m, k)
      BY <1>1, OverFits
    <2>2. QED
      BY <1>1, <2>1 DEF SlotLeaves, RaceFits, m
  <1>2. CASE r.sub = 8
    <2> DEFINE u == r.sub + 1
    <2>1. Even(r) /\ u = 9
      BY <1>2 DEF Even
    <2>2. m = [r EXCEPT !.count = 0, !.prg = "blank", !.phase = 1, !.sub = u]
      BY <2>1 DEF Slot4
    <2> HIDE DEF m, u
    <2>3. m \in Cells
      <3>1. ASSUME NEW n \in Nat, NEW p \in Handlers, NEW v \in 0 .. 6, NEW w \in 0 .. 11
            PROVE  [r EXCEPT !.count = n, !.prg = p, !.phase = v, !.sub = w] \in Cells
        BY Zenon DEF Cells
      <3>2. 0 \in Nat /\ "blank" \in Handlers /\ 1 \in 0 .. 6 /\ u \in 0 .. 11
        BY <2>1 DEF Handlers
      <3>3. QED
        BY <2>2, <3>1, <3>2, Zenon
    <2>4. /\ m.count = 0 /\ m.prg = "blank" /\ m.phase = 1 /\ m.sub = 9
          /\ m.done = r.done /\ m.carry = r.carry /\ m.scene = r.scene
          /\ Apart(r, m)
      BY <2>1, <2>2 DEF Cells, Apart
    <2>5. HandlerFits(m)
      BY <2>4 DEF HandlerFits
    <2>6. QED
      BY <2>3, <2>4, <2>5 DEF m
  <1>3. CASE r.sub = 9 /\ r.phase = 1
    <2>1. ~Even(r)
      BY <1>3 DEF Even
    <2>2. m = [r EXCEPT !.prg = WinHandler(r), !.phase = 2]
      BY <1>3, <2>1 DEF Slot4
    <2> HIDE DEF m
    <2>3. m \in Cells
      <3>1. ASSUME NEW p \in Handlers, NEW v \in 0 .. 6
            PROVE  [r EXCEPT !.prg = p, !.phase = v] \in Cells
        BY Zenon DEF Cells
      <3>2. WinHandler(r) \in Handlers /\ 2 \in 0 .. 6
        BY DEF WinHandler, Handlers
      <3>3. QED
        BY <2>2, <3>1, <3>2, Zenon
    <2>4. /\ m.count = r.count /\ m.phase = 2 /\ m.sub = 9
          /\ m.done = r.done /\ m.carry = r.carry /\ m.scene = r.scene
          /\ Apart(r, m)
      BY <1>3, <2>2 DEF Cells, Apart
    <2>5. HandlerFits(m)
      BY <2>4 DEF HandlerFits
    <2>6. m.count = 0
      BY <1>3, <2>4 DEF RaceFits, HandlerFits
    <2>7. QED
      BY <2>3, <2>4, <2>5, <2>6 DEF m
  <1>4. CASE r.sub = 9 /\ r.phase = 2
    <2>1. ~Even(r)
      BY <1>4 DEF Even
    <2>2. m = [r EXCEPT !.phase = 2]
      BY <1>4, <2>1 DEF Slot4
    <2>3. [r EXCEPT !.phase = 2] = r
      BY <1>4 DEF Cells
    <2>4. m = r
      BY <2>2, <2>3
    <2>5. HandlerFits(r)
      BY DEF RaceFits
    <2>6. QED
      BY <1>4, <2>4, <2>5 DEF Apart
  <1>5. r.phase \in {1, 2} \/ r.sub = 8
    BY DEF RaceFits, HandlerFits
  <1>6. QED
    BY <1>2, <1>3, <1>4, <1>5

LEMMA Slot5Does ==
    ASSUME NEW r \in Cells, NEW h \in HistType, NEW seg, NEW past,
           r.sub \in {10, 11}, RaceFits(r, h)
    PROVE  SlotLeaves(r, Slot5(r), RaceHist(r, h, seg, past))
  <1> DEFINE m == Slot5(r)
             k == RaceHist(r, h, seg, past)
  <1>1. SUFFICES /\ m \in Cells /\ Apart(r, m) /\ m.scene = r.scene
                 /\ HandlerFits(m)
                 /\ m.sub = 11 /\ m.done = r.done /\ m.carry = r.carry
                 /\ \/ r.sub = m.sub /\ r.phase = 2 /\ m.phase = 2
                    \/ m.count = 0 \/ m.prg = "blank"
    <2> HIDE DEF m
    <2>1. DoneFits(m, k) /\ ClockFits(m, k)
      BY <1>1, OverFits
    <2>2. QED
      BY <1>1, <2>1 DEF SlotLeaves, RaceFits, m
  <1>2. CASE r.sub = 10
    <2> DEFINE u == r.sub + 1
    <2>1. Even(r) /\ u = 11
      BY <1>2 DEF Even
    <2>2. m = [r EXCEPT !.prg = "blank", !.phase = 1, !.sub = u]
      BY <2>1 DEF Slot5
    <2> HIDE DEF m, u
    <2>3. m \in Cells
      <3>1. ASSUME NEW p \in Handlers, NEW v \in 0 .. 6, NEW w \in 0 .. 11
            PROVE  [r EXCEPT !.prg = p, !.phase = v, !.sub = w] \in Cells
        BY Zenon DEF Cells
      <3>2. "blank" \in Handlers /\ 1 \in 0 .. 6 /\ u \in 0 .. 11
        BY <2>1 DEF Handlers
      <3>3. QED
        BY <2>2, <3>1, <3>2, Zenon
    <2>4. /\ m.prg = "blank" /\ m.phase = 1 /\ m.sub = 11
          /\ m.done = r.done /\ m.carry = r.carry /\ m.scene = r.scene
          /\ Apart(r, m)
      BY <2>1, <2>2 DEF Cells, Apart
    <2>5. HandlerFits(m)
      BY <2>4 DEF HandlerFits
    <2>6. QED
      BY <2>3, <2>4, <2>5 DEF m
  <1>3. CASE r.sub = 11 /\ r.phase = 1
    <2> DEFINE p == IF r.choice = Practice THEN "practice_dnf" ELSE "dnf"
    <2>1. ~Even(r)
      BY <1>3 DEF Even
    <2>2. m = [r EXCEPT !.count = 0, !.phase = 2, !.prg = p]
      BY <1>3, <2>1 DEF Slot5
    <2>3. p \in Handlers
      BY DEF Handlers
    <2> HIDE DEF m, p
    <2>4. m \in Cells
      <3>1. ASSUME NEW n \in Nat, NEW v \in 0 .. 6
            PROVE  [r EXCEPT !.count = n, !.phase = v, !.prg = p] \in Cells
        BY <2>3, Zenon DEF Cells
      <3>2. 0 \in Nat /\ 2 \in 0 .. 6
        OBVIOUS
      <3>3. QED
        BY <2>2, <3>1, <3>2, Zenon
    <2>5. /\ m.count = 0 /\ m.phase = 2 /\ m.sub = 11
          /\ m.done = r.done /\ m.carry = r.carry /\ m.scene = r.scene
          /\ Apart(r, m)
      BY <1>3, <2>2 DEF Cells, Apart
    <2>6. HandlerFits(m)
      BY <2>5 DEF HandlerFits
    <2>7. QED
      BY <2>4, <2>5, <2>6 DEF m
  <1>4. CASE r.sub = 11 /\ r.phase = 2
    <2>1. ~Even(r)
      BY <1>4 DEF Even
    <2>2. m = r
      BY <1>4, <2>1 DEF Slot5
    <2>3. HandlerFits(r)
      BY DEF RaceFits
    <2>4. QED
      BY <1>4, <2>2, <2>3 DEF Apart
  <1>5. r.phase \in {1, 2} \/ r.sub = 10
    BY DEF RaceFits, HandlerFits
  <1>6. QED
    BY <1>2, <1>3, <1>4, <1>5

LEMMA SubSlotDoes ==
    ASSUME NEW r \in Cells, NEW h \in HistType, NEW seg, NEW past \in BOOLEAN,
           NEW slow \in BOOLEAN, RaceFits(r, h)
    PROVE  SlotLeaves(r, SubSlot(r, seg, past, slow), RaceHist(r, h, seg, past))
  <1>1. CASE r.sub \in {0, 1}
    BY <1>1, Slot0Does DEF SubSlot
  <1>2. CASE r.sub \in {2, 3}
    BY <1>2, RampBegins, RampRuns DEF SubSlot
  <1>3. CASE r.sub \in {4, 5}
    BY <1>3, Slot2Does DEF SubSlot
  <1>4. CASE r.sub \in {6, 7}
    BY <1>4, Slot3Does DEF SubSlot
  <1>5. CASE r.sub \in {8, 9}
    BY <1>5, Slot4Does DEF SubSlot
  <1>6. CASE r.sub \in {10, 11}
    BY <1>6, Slot5Does DEF SubSlot
  <1>7. r.sub \in 0 .. 11
    BY DEF Cells
  <1>8. QED
    BY <1>1, <1>2, <1>3, <1>4, <1>5, <1>6, <1>7

(* The handler touches its count, itself and, at the end, the scene. *)
HandlerLeaves(m, q) ==
    /\ q \in Cells
    /\ Apart(m, q)
    /\ q.sub = m.sub /\ q.phase = m.phase /\ q.clock = m.clock
    /\ q.snap = m.snap /\ q.carry = m.carry /\ q.done = m.done /\ q.next = m.next
    /\ q.scene \in {m.scene, m.scene + 1, m.scene + 7}
    /\ m.count = 0 => q.scene = m.scene
    /\ m.prg \in {"hud", "blank"} => q = m
    /\ m.prg = "lights" => q.prg \in {"hud", "lights"} /\ q.scene = m.scene

LEMMA FanfareDoes ==
    ASSUME NEW m \in Cells, m.scene \in {3, 5}, NEW end \in Nat, NEW n \in {1, 7},
           m.prg \notin {"hud", "blank", "lights"}
    PROVE  HandlerLeaves(m, Fanfare(m, end, n))
  <1> DEFINE c == m.count + 1
             s == IF m.count > end THEN m.scene + n ELSE m.scene
             q == [m EXCEPT !.count = c, !.scene = s]
  <1>1. Fanfare(m, end, n) = q
    BY Zenon DEF Fanfare
  <1>2. /\ c \in Nat /\ s \in 0 .. 12
        /\ s \in {m.scene, m.scene + 1, m.scene + 7}
        /\ m.count = 0 => s = m.scene
    BY DEF Cells
  <1> HIDE DEF c, s
  <1>3. q \in Cells
    BY <1>2, Zenon DEF Cells
  <1>4. /\ q.scene = s /\ q.sub = m.sub /\ q.phase = m.phase /\ q.clock = m.clock
        /\ q.snap = m.snap /\ q.carry = m.carry /\ q.done = m.done
        /\ q.next = m.next /\ Apart(m, q)
    BY DEF Cells, Apart
  <1> HIDE DEF q
  <1>5. QED
    BY <1>1, <1>2, <1>3, <1>4 DEF HandlerLeaves

LEMMA RunHandlerDoes ==
    ASSUME NEW m \in Cells, m.scene \in {3, 5}
    PROVE  HandlerLeaves(m, RunHandler(m))
  <1>1. CASE m.prg \in {"cont", "dnf", "practice_win"}
    <2>1. RunHandler(m) = Fanfare(m, Long, 1)
      BY <1>1 DEF RunHandler
    <2>2. QED
      BY <1>1, <2>1, FanfareDoes, RaceConstants
  <1>2. CASE m.prg = "practice_dnf"
    <2>1. RunHandler(m) = Fanfare(m, Long, 7)
      BY <1>2 DEF RunHandler
    <2>2. QED
      BY <1>2, <2>1, FanfareDoes, RaceConstants
  <1>3. CASE m.prg = "win3"
    <2>1. RunHandler(m) = Fanfare(m, Short, 1)
      BY <1>3 DEF RunHandler
    <2>2. QED
      BY <1>3, <2>1, FanfareDoes, RaceConstants
  <1>4. CASE m.prg \in {"lights", "win"}
    <2> DEFINE c == m.count + 1
               p == IF m.prg = "lights"
                    THEN IF c > LightsEnd THEN "hud" ELSE "lights"
                    ELSE IF m.count = Mid THEN "cont" ELSE "win"
               q == [m EXCEPT !.count = c, !.prg = p]
    <2>1. RunHandler(m) = q
      BY <1>4 DEF RunHandler
    <2>2. c \in Nat /\ p \in Handlers
      BY DEF Cells, Handlers
    <2>3. m.prg = "lights" => p \in {"hud", "lights"}
      OBVIOUS
    <2> HIDE DEF c, p
    <2>4. q \in Cells
      BY <2>2, Zenon DEF Cells
    <2>5. /\ q.scene = m.scene /\ q.sub = m.sub /\ q.phase = m.phase
          /\ q.clock = m.clock /\ q.snap = m.snap /\ q.carry = m.carry
          /\ q.done = m.done /\ q.next = m.next /\ q.prg = p /\ Apart(m, q)
      BY DEF Cells, Apart
    <2> HIDE DEF q
    <2>6. QED
      BY <1>4, <2>1, <2>3, <2>4, <2>5 DEF HandlerLeaves
  <1>5. CASE m.prg \in {"none", "hud", "blank"}
    <2>1. RunHandler(m) = m
      BY <1>5 DEF RunHandler
    <2>2. QED
      BY <1>5, <2>1 DEF HandlerLeaves, Apart
  <1>6. m.prg \in Handlers
    BY DEF Cells
  <1>7. QED
    BY <1>1, <1>2, <1>3, <1>4, <1>5, <1>6 DEF Handlers

(* A whole frame of a race. *)
LEMMA RaceFrameDoes ==
    ASSUME NEW r \in Cells, NEW h \in HistType, NEW seg, NEW past \in BOOLEAN,
           NEW slow \in BOOLEAN, RaceFits(r, h), r.scene \in {3, 5}
    PROVE  LET q == RaceFrame(r, seg, past, slow)
           IN  /\ q \in Cells
               /\ Apart(r, q)
               /\ RaceFits(q, RaceHist(r, h, seg, past))
               /\ q.scene \in {r.scene, r.scene + 1, r.scene + 7}
               /\ q.scene # r.scene =>
                    r.sub \in {9, 11} /\ r.phase = 2 /\ q.sub >= 8
  <1> DEFINE m == SubSlot(r, seg, past, slow)
             q == RunHandler(m)
             k == RaceHist(r, h, seg, past)
  <1>1. RaceFrame(r, seg, past, slow) = q
    BY Zenon DEF RaceFrame
  <1>2. SlotLeaves(r, m, k)
    BY SubSlotDoes
  <1> HIDE DEF m, k
  <1>3. m \in Cells /\ Apart(r, m) /\ m.scene = r.scene /\ RaceFits(m, k)
    BY <1>2 DEF SlotLeaves
  <1>4. HandlerLeaves(m, q)
    BY <1>3, RunHandlerDoes
  <1> HIDE DEF q
  <1>5. q \in Cells /\ Apart(r, q)
    BY <1>3, <1>4 DEF HandlerLeaves, Apart
  <1>6. m.sub \in 0 .. 11
    BY <1>3 DEF Cells
  <1>7. RaceFits(q, k)
    <2>1. CASE q = m
      BY <1>3, <2>1
    <2>2. CASE m.prg \notin {"hud", "blank"}
      <3>1. m.sub > 3 /\ (m.sub \in {9, 11} => m.phase = 2)
        BY <1>3, <1>6, <2>2 DEF RaceFits, HandlerFits
      <3>2. HandlerFits(q)
        BY <1>3, <1>4, <3>1 DEF RaceFits, HandlerFits, HandlerLeaves
      <3>3. DoneFits(q, k)
        BY <1>3, <1>4 DEF RaceFits, DoneFits, Earned, HandlerLeaves
      <3>4. ClockFits(q, k)
        <4>1. Times(q) = Times(m) /\ Split(q, 0) = Split(m, 0)
          BY <1>4, SameRace DEF HandlerLeaves, Apart
        <4>2. /\ q.sub = m.sub /\ q.clock = m.clock /\ q.next = m.next
          BY <1>4 DEF HandlerLeaves
        <4>3. m.sub \in 4 .. 11
          BY <1>6, <3>1
        <4>4. ClockFits(m, k)
          BY <1>3 DEF RaceFits
        <4>5. QED
          BY <4>1, <4>2, <4>3, <4>4 DEF ClockFits
      <3>5. QED
        BY <3>2, <3>3, <3>4 DEF RaceFits
    <2>3. QED
      BY <1>4, <2>1, <2>2 DEF HandlerLeaves
  <1>8. q.scene \in {r.scene, r.scene + 1, r.scene + 7}
    BY <1>3, <1>4 DEF HandlerLeaves
  <1>9. ASSUME q.scene # r.scene
        PROVE  r.sub \in {9, 11} /\ r.phase = 2 /\ q.sub >= 8
    <2>1. m.prg \notin {"hud", "lights", "blank"} /\ m.count # 0
      BY <1>3, <1>4, <1>9 DEF HandlerLeaves
    <2>2. m.sub \in {9, 11}
      BY <1>3, <2>1 DEF RaceFits, HandlerFits
    <2>3. r.sub = m.sub /\ r.phase = 2
      BY <1>2, <2>1, <2>2 DEF SlotLeaves
    <2>4. QED
      BY <1>4, <2>2, <2>3 DEF HandlerLeaves
  <1>10. QED
    BY <1>1, <1>5, <1>7, <1>8, <1>9 DEF k

-----------------------------------------------------------------------------
(* The end of a frame, from the cells its handler leaves. *)
LEMMA Sends ==
    ASSUME NEW r \in Cells, Uploading(r), Leaves(r)
    PROVE  /\ g' \in Cells
           /\ Uploading(g')
           /\ ~r.busy => g' = r
           /\ r.busy => /\ g'.pumped = r.pumped + 1
                        /\ g'.busy \/ g'.pumped = Pumps
           /\ g'.scene = r.scene /\ g'.prev = r.prev /\ g'.hold = r.hold
           /\ g'.bank = r.bank /\ g'.course = r.course /\ g'.left = r.left
           /\ g'.carry = r.carry /\ g'.done = r.done
  <1>1. g' = Pump(r)
    BY DEF Leaves
  <1>2. QED
    BY <1>1, PumpOne, PumpKeeps

(* What the machine is when no game and no scene of the attract loop runs. *)
LEMMA Quiet ==
    ASSUME hist' = NewGame, ~Playing', ~(mode' = 2 /\ inner' \in 2 .. 7)
    PROVE  NoGameYet' /\ AttractFits' /\ GameFits' /\ hist' \in HistType
  <1>1. AttractFits'
    BY DEF AttractFits, BeatFits, Splashes
  <1>2. NoGameYet' /\ GameFits'
    BY DEF NoGameYet, GameFits
  <1>3. NewGame \in HistType
    BY DEF NewGame, HistType
  <1>4. QED
    BY <1>1, <1>2, <1>3

LEMMA GameConstants ==
    /\ BootHold \in Nat /\ CopyHold \in Nat /\ Warmup \in Nat
    /\ Armed \in Nat /\ Armed > 0 /\ SelectTime \in Nat /\ Armed < SelectTime
    /\ ExitItem \in Nat /\ ExitItem > 0 /\ ExitHold \in Nat /\ ExitHold > 0
    /\ MaxPlays \in Nat
    /\ \A i \in {2, 4, 6} : Holds[i] \in Nat /\ Pumps <= Holds[i]
  BY GameAssumption DEF Splashes

(* The attract record, field by field. *)
LEMMA AttractBeat ==
    ASSUME NEW a, IsAttract(a), NEW v
    PROVE  LET b == [a EXCEPT !.beat = v]
           IN  IsAttract(b) /\ b.beat = v /\ b.wait = a.wait
  BY DEF IsAttract

LEMMA AttractWait ==
    ASSUME NEW a, IsAttract(a), NEW v
    PROVE  LET b == [a EXCEPT !.wait = v]
           IN  IsAttract(b) /\ b.wait = v /\ b.beat = a.beat
  BY DEF IsAttract

LEMMA AttractWarms ==
    ASSUME NEW a, IsAttract(a), NEW v
    PROVE  LET b == [a EXCEPT !.warmup = v]
           IN  IsAttract(b) /\ b.wait = a.wait /\ b.beat = a.beat
  BY DEF IsAttract

LEMMA AttractStarts ==
    ASSUME NEW a, IsAttract(a), NEW s, NEW l
    PROVE  LET b == [a EXCEPT !.beat = 0, !.script = s, !.row = 1, !.link = l]
           IN  IsAttract(b) /\ b.wait = a.wait /\ b.beat = 0
  <1> DEFINE c == [a EXCEPT !.beat = 0]
             d == [c EXCEPT !.script = s]
             e == [d EXCEPT !.row = 1]
             b == [e EXCEPT !.link = l]
  <1>1. IsAttract(c) /\ c.wait = a.wait /\ c.beat = 0
    BY DEF IsAttract
  <1> HIDE DEF c
  <1>2. IsAttract(d) /\ d.wait = a.wait /\ d.beat = 0
    BY <1>1 DEF IsAttract
  <1> HIDE DEF d
  <1>3. IsAttract(e) /\ e.wait = a.wait /\ e.beat = 0
    BY <1>2 DEF IsAttract
  <1> HIDE DEF e
  <1>4. IsAttract(b) /\ b.wait = a.wait /\ b.beat = 0
    BY <1>3 DEF IsAttract
  <1>5. b = [a EXCEPT !.beat = 0, !.script = s, !.row = 1, !.link = l]
    BY Zenon DEF c, d, e
  <1>6. QED
    BY <1>4, <1>5, Zenon

LEMMA CarouselKeeps ==
    ASSUME NEW a, IsAttract(a)
    PROVE  LET b == Carousel(a)
           IN  IsAttract(b) /\ b.wait = a.wait /\ b.beat = a.beat
  BY DEF IsAttract, Carousel

(* A frame of the attract loop, from what its handler leaves. *)
LEMMA AttractStep ==
    ASSUME GameIInv,
           NEW n \in 0 .. 8, NEW a, IsAttract(a), a.wait \in 0 .. 8, a.beat \in Int,
           NEW r \in Cells, Uploading(r),
           Attract(n, a), Leaves(r),
           BeatFits(n, a, r), n \in {3, 5, 7} => Ready(r)
    PROVE  GameIInv'
  <1> DEFINE beat == IF a.beat < 1 THEN a.beat + 1 ELSE 1
  <1>1. attract' = [a EXCEPT !.beat = beat]
    BY Zenon DEF Attract
  <1>2. beat \in Int /\ beat <= 1
    OBVIOUS
  <1>3. a.beat < 1 => beat = a.beat + 1
    OBVIOUS
  <1> HIDE DEF beat
  <1>4. IsAttract(attract') /\ attract'.beat = beat /\ attract'.wait = a.wait
    BY <1>1, AttractBeat
  <1>5. /\ mode' \in {2, 3} /\ (mode' = 3 => inner' = 0)
        /\ (mode' = 2 => inner' = n)
        /\ hist' = hist
        /\ boot' = boot /\ pick' = pick /\ menu' = menu
    BY DEF Attract
  <1>6. hist' = NewGame
    BY <1>5 DEF GameIInv, NoGameYet, Playing, Attract
  <1>7. /\ g' \in Cells /\ Uploading(g')
        /\ ~r.busy => g' = r
        /\ r.busy => /\ g'.pumped = r.pumped + 1
                     /\ g'.busy \/ g'.pumped = Pumps
        /\ g'.bank = r.bank /\ g'.course = r.course
    BY Sends
  <1>8. ~Playing'
    BY <1>5 DEF Playing
  <1>9. NoGameYet' /\ GameFits' /\ hist' \in HistType
    <2>1. NewGame \in HistType
      BY DEF NewGame, HistType
    <2>2. QED
      BY <1>6, <1>8, <2>1 DEF NoGameYet, GameFits
  <1>10. AttractFits'
    <2>1. SUFFICES ASSUME mode' = 2
                   PROVE  /\ BeatFits(n, attract', g')
                          /\ n \in {3, 5, 7} => Ready(g')
      BY <1>5, <2>1 DEF AttractFits
    <2>2. ASSUME n \in {3, 5, 7} PROVE Ready(g')
      BY <1>7, <2>2 DEF Ready
    <2>3. ASSUME n \in {2, 4, 6}, n = a.wait
          PROVE  /\ g'.bank = g'.course
                 /\ IF g'.busy THEN beat = g'.pumped - Holds[n]
                    ELSE g'.pumped = Pumps
      <3>1. /\ r.bank = r.course
            /\ IF r.busy THEN a.beat = r.pumped - Holds[n] ELSE r.pumped = Pumps
        BY <2>3 DEF BeatFits, Splashes
      <3>2. CASE ~r.busy
        BY <1>7, <3>1, <3>2
      <3>3. CASE r.busy
        <4>1. Holds[n] \in Nat /\ Pumps <= Holds[n]
          BY <2>3, GameConstants
        <4>2. r.pumped \in Int /\ r.pumped < Pumps
          BY <3>3 DEF Uploading, Cells
        <4>3. a.beat < 1
          BY <3>1, <3>3, <4>1, <4>2, RaceConstants
        <4>4. beat = r.pumped + 1 - Holds[n]
          BY <1>3, <3>1, <3>3, <4>1, <4>2, <4>3
        <4>5. /\ g'.pumped = r.pumped + 1 /\ g'.bank = g'.course
              /\ g'.busy \/ g'.pumped = Pumps
          BY <1>7, <3>1, <3>3
        <4>6. beat = g'.pumped - Holds[n]
          BY <4>1, <4>2, <4>4, <4>5
        <4>7. QED
          BY <4>5, <4>6, Zenon
      <3>4. r.busy \in BOOLEAN
        BY DEF Cells
      <3>5. QED
        BY <3>2, <3>3
    <2>4. BeatFits(n, attract', g')
      BY <1>4, <2>3 DEF BeatFits, Splashes
    <2>5. QED
      BY <2>2, <2>4
  <1>11. GameTypeOK'
    <2>1. /\ boot \in [sub : 0 .. 3, wanted : BOOLEAN] /\ pick \in 0 .. SelectTime
          /\ menu.item \in 0 .. ExitItem /\ menu.timer \in -1 .. ExitHold
      BY DEF GameIInv, GameTypeOK
    <2>2. mode' \in 0 .. 4 /\ inner' \in 0 .. 8
      BY <1>5
    <2>3. QED
      BY <1>2, <1>4, <1>5, <1>7, <2>1, <2>2 DEF GameTypeOK
  <1>12. Shapes'
    BY <1>4, <1>5, <1>9 DEF GameIInv, Shapes
  <1>13. QED
    BY <1>7, <1>9, <1>10, <1>11, <1>12 DEF GameIInv

(* A frame of a scene of a game, from what its handler leaves. *)
LEMMA SceneStep ==
    ASSUME GameIInv,
           NEW i \in {5, 7}, mode' = 3, inner' = i,
           UNCHANGED <<boot, attract, menu>>, pick' \in 0 .. SelectTime,
           hist' \in HistType,
           NEW r \in Cells, Uploading(r), Leaves(r),
           SplashFits(i, g'), PlaceFits(i, r, hist')
    PROVE  GameIInv'
  <1>1. /\ g' \in Cells /\ Uploading(g')
        /\ ~r.busy => g' = r
        /\ g'.scene = r.scene /\ g'.left = r.left
        /\ g'.carry = r.carry /\ g'.done = r.done
    BY Sends
  <1>2. PlaceFits(i, g', hist')
    <2>1. CASE ~r.busy
      BY <1>1, <2>1
    <2>2. CASE r.busy
      <3>1. <<i, r.scene>> \notin Races
        BY <2>2 DEF PlaceFits, Ready
      <3>2. Earned(r, hist') => Earned(g', hist')
        BY <1>1 DEF Earned
      <3>3. QED
        BY <1>1, <3>1, <3>2 DEF PlaceFits
    <2>3. QED
      BY <2>1, <2>2
  <1>3. GameFits' /\ NoGameYet' /\ AttractFits'
    BY <1>2 DEF GameFits, NoGameYet, AttractFits, Playing
  <1>4. GameTypeOK'
    <2>1. /\ boot \in [sub : 0 .. 3, wanted : BOOLEAN]
          /\ attract.wait \in 0 .. 8 /\ attract.beat \in Int /\ attract.beat <= 1
          /\ menu.item \in 0 .. ExitItem /\ menu.timer \in -1 .. ExitHold
      BY DEF GameIInv, GameTypeOK
    <2>2. QED
      BY <1>1, <2>1 DEF GameTypeOK
  <1>5. Shapes'
    BY DEF GameIInv, Shapes
  <1>6. QED
    BY <1>1, <1>3, <1>4, <1>5 DEF GameIInv

(* A frame that leaves the game, the attract scenes and the races alone. *)
LEMMA QuietStep ==
    ASSUME GameIInv,
           NEW r \in Cells, Uploading(r), Leaves(r),
           hist' = NewGame, ~Playing', ~(mode' = 2 /\ inner' \in 2 .. 7),
           mode' \in 0 .. 4, inner' \in 0 .. 8,
           boot' \in [sub : 0 .. 3, wanted : BOOLEAN], attract' = attract,
           pick' \in 0 .. SelectTime,
           menu' \in [item : 0 .. ExitItem, timer : -1 .. ExitHold]
    PROVE  GameIInv'
  <1>1. g' \in Cells /\ Uploading(g')
    BY Sends
  <1>2. NoGameYet' /\ AttractFits' /\ GameFits' /\ hist' \in HistType
    BY Quiet
  <1>3. GameTypeOK'
    BY <1>1 DEF GameIInv, GameTypeOK
  <1>4. Shapes'
    <2>1. menu' = [item |-> menu'.item, timer |-> menu'.timer]
      OBVIOUS
    <2>2. IsAttract(attract)'
      BY DEF GameIInv, Shapes, IsAttract
    <2>3. QED
      BY <1>2, <2>1, <2>2 DEF Shapes
  <1>5. QED
    BY <1>1, <1>2, <1>3, <1>4 DEF GameIInv

LEMMA MenuRecord ==
    ASSUME GameIInv
    PROVE  menu \in [item : 0 .. ExitItem, timer : -1 .. ExitHold]
  BY DEF GameIInv, Shapes, GameTypeOK

(* The counts of the boot. *)
LEMMA BootStep ==
    ASSUME GameIInv, Boot
    PROVE  GameIInv'
  <1> DEFINE sub == BootSub
             n == CASE sub = 0 -> BootHold
                    [] sub = 1 -> IF g.count = 0 THEN CopyHold ELSE g.count - 1
                    [] sub = 2 -> IF g.count = 0 THEN 0 ELSE g.count - 1
                    [] OTHER -> g.count
             c == IF inner = 0 /\ boot.sub < 3 THEN 0 ELSE g.course
             q == [g EXCEPT !.count = n]
             r == [q EXCEPT !.course = c]
             up == IF sub = 0 \/ (sub < 3 /\ g.count = 0) THEN sub + 1 ELSE sub
             b == [sub |-> up, wanted |-> boot.wanted /\ inner # 0]
  <1>1. g \in Cells /\ Uploading(g) /\ boot.sub \in 0 .. 3 /\ mode = 0
        /\ inner \in 0 .. 8 /\ pick \in 0 .. SelectTime
    BY DEF GameIInv, GameTypeOK, Boot
  <1>2. sub \in 0 .. 3
    BY <1>1 DEF BootSub
  <1>3. BootCount = q
    <2>1. [g EXCEPT !.count = g.count] = g
      BY <1>1 DEF Cells
    <2>2. CASE sub = 0
      BY <2>2 DEF BootCount
    <2>3. CASE sub = 1
      BY <2>3 DEF BootCount
    <2>4. CASE sub = 2
      BY <2>4 DEF BootCount
    <2>5. CASE sub = 3
      BY <2>1, <2>5 DEF BootCount
    <2>6. QED
      BY <1>2, <2>2, <2>3, <2>4, <2>5
  <1>4. boot' = b
    BY DEF Boot
  <1>5. Leaves(r)
    <2>1. Leaves([BootCount EXCEPT !.course =
                    IF inner = 0 /\ boot.sub < 3 THEN 0 ELSE @])
      BY Zenon DEF Boot
    <2>2. BootCount.course = g.course
      BY <1>1, <1>3 DEF Cells
    <2> HIDE DEF q, b, sub
    <2>3. [BootCount EXCEPT !.course =
             IF inner = 0 /\ boot.sub < 3 THEN 0 ELSE @] = r
      BY <1>3, <2>2
    <2>4. QED
      BY <2>1, <2>3
  <1>6. n \in Nat /\ c \in Courses /\ up \in 0 .. 3
    <2> HIDE DEF sub
    <2>1. g.count \in Nat /\ g.course \in Courses
      BY <1>1 DEF Cells
    <2>2. QED
      BY <1>2, <2>1, GameConstants DEF Courses
  <1> HIDE DEF n, c, sub, up
  <1>7. r \in Cells /\ Uploading(r)
    <2>1. ASSUME NEW x \in Nat, NEW y \in Courses
          PROVE  [[g EXCEPT !.count = x] EXCEPT !.course = y] \in Cells
      BY <1>1, Zenon DEF Cells
    <2>2. r \in Cells
      BY <1>6, <2>1, Zenon
    <2>3. r.busy = g.busy /\ r.pumped = g.pumped
      BY <1>1 DEF Cells
    <2>4. QED
      BY <1>1, <2>2, <2>3 DEF Uploading
  <1>8. (boot.wanted /\ inner # 0) \in BOOLEAN
    BY DEF GameIInv, GameTypeOK
  <1>9. boot' \in [sub : 0 .. 3, wanted : BOOLEAN]
    BY <1>4, <1>6, <1>8, Zenon
  <1>10. mode' \in {0, 1} /\ inner' \in 0 .. 8
         /\ attract' = attract /\ pick' = pick /\ menu' = menu /\ hist' = NewGame
    <2>1. ~Playing /\ NoGameYet
      BY <1>1 DEF Playing, GameIInv
    <2>2. QED
      BY <1>1, <2>1 DEF Boot, NoGameYet
  <1> HIDE DEF r
  <1>11. QED
    BY <1>1, <1>5, <1>7, <1>9, <1>10, MenuRecord, QuietStep DEF Playing

(* Steps that set no cell but those named. *)
LEMMA CellsSet ==
    ASSUME NEW r \in Cells, Uploading(r), NEW s \in 0 .. 12, NEW c \in Kinds
    PROVE  /\ [r EXCEPT !.busy = FALSE] \in Cells
           /\ Uploading([r EXCEPT !.busy = FALSE])
           /\ [r EXCEPT !.choice = c] \in Cells
           /\ Uploading([r EXCEPT !.choice = c])
           /\ [r EXCEPT !.prev = s] \in Cells
           /\ Uploading([r EXCEPT !.prev = s])
           /\ [r EXCEPT !.scene = s] \in Cells
           /\ Uploading([r EXCEPT !.scene = s])
  <1>1. /\ [r EXCEPT !.choice = c] \in Cells
        /\ [r EXCEPT !.prev = s] \in Cells
        /\ [r EXCEPT !.scene = s] \in Cells
    BY Zenon DEF Cells
  <1>2. [r EXCEPT !.busy = FALSE] \in Cells
    <2>1. ASSUME NEW b \in BOOLEAN PROVE [r EXCEPT !.busy = b] \in Cells
      BY Zenon DEF Cells
    <2>2. FALSE \in BOOLEAN
      OBVIOUS
    <2>3. QED
      BY <2>1, <2>2
  <1>3. /\ Uploading([r EXCEPT !.busy = FALSE])
        /\ Uploading([r EXCEPT !.choice = c])
        /\ Uploading([r EXCEPT !.prev = s])
        /\ Uploading([r EXCEPT !.scene = s])
    BY DEF Uploading, Cells
  <1>4. QED
    BY <1>1, <1>2, <1>3

LEMMA BusyCleared ==
    ASSUME NEW r \in Cells, Uploading(r)
    PROVE  /\ [r EXCEPT !.busy = FALSE] \in Cells
           /\ Uploading([r EXCEPT !.busy = FALSE])
  BY 0 \in 0 .. 12, 0 \in Kinds, CellsSet DEF Kinds, Championship

LEMMA CommCheckStep ==
    ASSUME GameIInv, CommCheck
    PROVE  GameIInv'
  <1> DEFINE r == [g EXCEPT !.busy = FALSE]
  <1>1. g \in Cells /\ Uploading(g) /\ pick \in 0 .. SelectTime
        /\ boot \in [sub : 0 .. 3, wanted : BOOLEAN]
    BY DEF GameIInv, GameTypeOK
  <1>2. r \in Cells /\ Uploading(r)
    BY <1>1, BusyCleared
  <1>3. Leaves(r) /\ mode = 1 /\ mode' = 2 /\ inner' = 0
        /\ boot' = boot /\ attract' = attract /\ pick' = pick /\ menu' = menu
        /\ hist' = hist
    BY DEF CommCheck
  <1>4. hist' = NewGame /\ ~Playing'
    BY <1>3 DEF Playing, GameIInv, NoGameYet
  <1> HIDE DEF r
  <1>5. QED
    BY <1>1, <1>2, <1>3, <1>4, MenuRecord, QuietStep

-----------------------------------------------------------------------------
(* The attract loop, handler by handler. *)
LEMMA WaitedIs ==
    ASSUME GameIInv, inner \in 0 .. 8
    PROVE  /\ IsAttract(Waited) /\ Waited.wait = inner
           /\ Waited.beat = attract.beat /\ attract.beat \in Int
  BY AttractWait DEF Waited, GameIInv, Shapes, GameTypeOK

LEMMA AttractNow ==
    ASSUME GameIInv
    PROVE  g \in Cells /\ Uploading(g) /\ inner \in 0 .. 8
  BY DEF GameIInv, GameTypeOK

LEMMA AttractOpenStep ==
    ASSUME GameIInv, AttractOpen
    PROVE  GameIInv'
  <1> DEFINE a == [Waited EXCEPT !.warmup = Warmup]
  <1>1. IsAttract(a) /\ a.wait = 0 /\ a.beat \in Int
    BY AttractNow, WaitedIs, AttractWarms DEF AttractOpen
  <1>2. Attract(1, a) /\ Leaves(g)
    BY DEF AttractOpen
  <1> HIDE DEF a
  <1>3. BeatFits(1, a, g)
    BY DEF BeatFits, Splashes
  <1>4. QED
    BY <1>1, <1>2, <1>3, AttractNow, AttractStep

LEMMA AttractCloseStep ==
    ASSUME GameIInv, AttractClose
    PROVE  GameIInv'
  <1>1. IsAttract(Waited) /\ Waited.wait = 8 /\ Waited.beat \in Int
    BY AttractNow, WaitedIs DEF AttractClose
  <1>2. Attract(0, Waited) /\ Leaves(g)
    BY DEF AttractClose
  <1>3. BeatFits(0, Waited, g)
    BY DEF BeatFits, Splashes
  <1>4. QED
    BY <1>1, <1>2, <1>3, AttractNow, AttractStep

LEMMA AttractWarmupStep ==
    ASSUME GameIInv, AttractWarmup
    PROVE  GameIInv'
  <1> DEFINE over == attract.warmup <= 1
             n == IF over THEN 2 ELSE 1
             v == Waited.warmup - 1
             w == IF over THEN 0 ELSE 1
             c == IF over THEN 1 ELSE g.course
             b == [Waited EXCEPT !.warmup = v]
             a == [b EXCEPT !.wait = w]
             r == [g EXCEPT !.course = c]
  <1>1. inner = 1
    BY DEF AttractWarmup
  <1>2. IsAttract(Waited) /\ Waited.wait = 1 /\ Waited.beat \in Int
    BY <1>1, WaitedIs
  <1>3. /\ Attract(n, [Waited EXCEPT !.warmup = @ - 1,
                                     !.wait = IF over THEN 0 ELSE @])
        /\ Leaves([g EXCEPT !.course = IF over THEN 1 ELSE @])
    BY Zenon DEF AttractWarmup
  <1>4. [Waited EXCEPT !.warmup = @ - 1, !.wait = IF over THEN 0 ELSE @] = a
    BY <1>2, Zenon
  <1>5. /\ n \in {1, 2} /\ w \in {0, 1} /\ (n = 2 => w = 0)
        /\ c \in Courses
    BY AttractNow DEF Cells, Courses
  <1>6. Attract(n, a) /\ Leaves(r)
    BY <1>3, <1>4, Zenon
  <1> HIDE DEF over, v, w, c, n
  <1>7. IsAttract(b) /\ b.beat = Waited.beat
    BY <1>2, AttractWarms
  <1> HIDE DEF b
  <1>8. IsAttract(a) /\ a.wait = w /\ a.beat = Waited.beat
    BY <1>7, AttractWait
  <1>9. r \in Cells
    BY <1>5, AttractNow, Zenon DEF Cells
  <1>10. Uploading(r)
    BY AttractNow DEF Uploading, Cells
  <1> HIDE DEF a, r
  <1>11. BeatFits(n, a, r) /\ n \in 0 .. 8 /\ n \notin {3, 5, 7}
         /\ a.wait \in 0 .. 8 /\ a.beat \in Int
    BY <1>2, <1>5, <1>8 DEF BeatFits, Splashes
  <1>12. QED
    BY <1>6, <1>8, <1>9, <1>10, <1>11, AttractStep

(* A bank is selected. *)
LEMMA BankSelected ==
    ASSUME NEW r \in Cells, NEW c \in Courses
    PROVE  LET q == SelectBank(r, c)
           IN  /\ q \in Cells /\ Uploading(q)
               /\ q.busy /\ q.pumped = 0 /\ q.bank = c /\ q.course = r.course
               /\ q.scene = r.scene /\ q.prev = r.prev /\ q.left = r.left
               /\ q.carry = r.carry
  <1> DEFINE q == SelectBank(r, c)
  <1>1. q \in Cells
    <2>1. ASSUME NEW n \in 0 .. Pumps, NEW b \in BOOLEAN
          PROVE  [r EXCEPT !.busy = b, !.pumped = n, !.bank = c] \in Cells
      BY Zenon DEF Cells
    <2>2. 0 \in 0 .. Pumps /\ TRUE \in BOOLEAN
      BY RaceConstants
    <2>3. q = [r EXCEPT !.busy = TRUE, !.pumped = 0, !.bank = c]
      BY Zenon DEF SelectBank
    <2>4. QED
      BY <2>1, <2>2, <2>3, Zenon
  <1>2. /\ q.busy /\ q.pumped = 0 /\ q.bank = c /\ q.course = r.course
        /\ q.scene = r.scene /\ q.prev = r.prev /\ q.left = r.left
        /\ q.carry = r.carry
    BY DEF SelectBank, Cells
  <1>3. QED
    BY <1>1, <1>2, RaceConstants DEF Uploading

LEMMA AttractSplashStep ==
    ASSUME GameIInv, AttractSplash
    PROVE  GameIInv'
  <1> DEFINE course == inner \div 2 - 1
             q == SelectBank(g, course)
             r == [q EXCEPT !.course = course]
             v == -Holds[inner]
             a == [Waited EXCEPT !.beat = v]
  <1>1. inner \in {2, 4, 6}
    BY DEF AttractSplash, Splashes
  <1>2. Attract(inner, a) /\ Leaves(r)
    BY Zenon DEF AttractSplash
  <1>3. Holds[inner] \in Nat /\ v \in Int /\ v = 0 - Holds[inner]
    BY <1>1, GameConstants
  <1>4. course \in Courses
    BY <1>1 DEF Courses
  <1> HIDE DEF course, v
  <1>5. IsAttract(a) /\ a.wait = inner /\ a.beat = v
    BY <1>1, WaitedIs, AttractBeat
  <1>6. q \in Cells /\ q.busy /\ q.pumped = 0 /\ q.bank = course
    BY <1>4, AttractNow, BankSelected
  <1> HIDE DEF q
  <1>7. r \in Cells
    <2>1. q \in Cells
      BY <1>6
    <2>2. QED
      BY <1>4, <2>1, Zenon DEF Cells
  <1>8. r.busy /\ r.pumped = 0 /\ r.bank = course /\ r.course = course
    BY <1>6 DEF Cells
  <1> HIDE DEF a, r
  <1>9. Uploading(r)
    BY <1>8, RaceConstants DEF Uploading
  <1>10. BeatFits(inner, a, r)
    BY <1>3, <1>5, <1>8 DEF BeatFits
  <1>11. inner \in 0 .. 8 /\ inner \notin {3, 5, 7} /\ a.wait \in 0 .. 8
         /\ a.beat \in Int
    BY <1>1, <1>3, <1>5
  <1>12. QED
    BY <1>2, <1>5, <1>7, <1>9, <1>10, <1>11, AttractStep

LEMMA AttractHoldStep ==
    ASSUME GameIInv, AttractHold
    PROVE  GameIInv'
  <1>1. inner \in {2, 4, 6} /\ inner = attract.wait /\ Leaves(g)
    BY DEF AttractHold, Splashes
  <1>2. IsAttract(Waited) /\ Waited.wait = inner /\ Waited.beat = attract.beat
        /\ attract.beat \in Int
    BY <1>1, WaitedIs
  <1>3. mode = 2
    BY DEF AttractHold, Attract
  <1>4. /\ g.bank = g.course
        /\ IF g.busy THEN attract.beat = g.pumped - Holds[inner]
           ELSE g.pumped = Pumps
    BY <1>1, <1>3 DEF GameIInv, AttractFits, BeatFits, Splashes
  <1>5. CASE attract.beat # 0
    <2>1. Attract(inner, Waited)
      BY <1>5 DEF AttractHold
    <2>2. BeatFits(inner, Waited, g)
      BY <1>2, <1>4 DEF BeatFits
    <2>3. inner \in 0 .. 8 /\ inner \notin {3, 5, 7} /\ Waited.wait \in 0 .. 8
          /\ Waited.beat \in Int
      BY <1>1, <1>2
    <2>4. QED
      BY <1>1, <1>2, <2>1, <2>2, <2>3, AttractNow, AttractStep
  <1>6. CASE attract.beat = 0
    <2>1. PICK s \in Scripts :
            Attract(inner + 1, [Waited EXCEPT !.beat = 0, !.script = s, !.row = 1,
                                              !.link = s[1].start])
      BY <1>6 DEF AttractHold
    <2> DEFINE l == s[1].start
               a == [Waited EXCEPT !.beat = 0, !.script = s, !.row = 1,
                                   !.link = l]
    <2>2. Attract(inner + 1, a)
      BY <2>1
    <2> HIDE DEF l
    <2>3. IsAttract(a) /\ a.wait = inner /\ a.beat = 0
      <3>1. IsAttract(a) /\ a.wait = Waited.wait /\ a.beat = 0
        <4>1. IsAttract(Waited)
          BY <1>2
        <4>2. QED
          BY <4>1, AttractStarts, Zenon
      <3>2. QED
        BY <1>2, <3>1
    <2> HIDE DEF a
    <2>4. Ready(g)
      <3>1. Holds[inner] \in Nat /\ Pumps <= Holds[inner]
        BY <1>1, GameConstants
      <3>2. g.busy => g.pumped \in Nat /\ g.pumped < Pumps
        BY AttractNow DEF Uploading, Cells
      <3>3. ~g.busy
        BY <1>4, <1>6, <3>1, <3>2, RaceConstants
      <3>4. QED
        BY <1>4, <3>3 DEF Ready
    <2>5. BeatFits(inner + 1, a, g)
      BY <1>1, <2>3 DEF BeatFits
    <2>6. inner + 1 \in 0 .. 8 /\ a.wait \in 0 .. 8 /\ a.beat \in Int
      BY <1>1, <2>3
    <2>7. QED
      BY <1>1, <2>2, <2>3, <2>4, <2>5, <2>6, AttractNow, AttractStep
  <1>7. QED
    BY <1>5, <1>6

LEMMA AttractSceneStep ==
    ASSUME GameIInv, AttractScene
    PROVE  GameIInv'
  <1> DEFINE a == Carousel(Waited)
             n == IF a.link < 0 THEN inner + 1 ELSE inner
  <1>1. inner \in {3, 5, 7} /\ Leaves(g) /\ Attract(n, a)
    BY DEF AttractScene
  <1>2. mode = 2
    BY <1>1 DEF Attract
  <1>3. Ready(g)
    BY <1>1, <1>2 DEF GameIInv, AttractFits
  <1>4. IsAttract(a) /\ a.wait = inner /\ a.beat \in Int
    BY <1>1, WaitedIs, CarouselKeeps
  <1>5. n \in {inner, inner + 1}
    OBVIOUS
  <1> HIDE DEF n, a
  <1>6. BeatFits(n, a, g) /\ n \in 0 .. 8 /\ a.wait \in 0 .. 8
    BY <1>1, <1>4, <1>5 DEF BeatFits, Splashes
  <1>7. QED
    BY <1>1, <1>3, <1>4, <1>6, AttractNow, AttractStep

-----------------------------------------------------------------------------
(* The way into a game. *)
LEMMA OutsideGame ==
    ASSUME GameIInv, inner \notin {5, 7}
    PROVE  hist = NewGame
  BY DEF GameIInv, NoGameYet, Playing

LEMMA ShellTypes ==
    ASSUME GameIInv
    PROVE  /\ boot \in [sub : 0 .. 3, wanted : BOOLEAN]
           /\ pick \in 0 .. SelectTime
           /\ g \in Cells /\ Uploading(g)
           /\ hist \in HistType
  BY DEF GameIInv, GameTypeOK, Shapes

LEMMA GamePhase0Step ==
    ASSUME GameIInv, GamePhase0
    PROVE  GameIInv'
  <1> DEFINE r == [g EXCEPT !.busy = FALSE]
  <1>1. r \in Cells /\ Uploading(r)
    BY ShellTypes, BusyCleared
  <1>2. Leaves(r) /\ mode' = 3 /\ inner = 0 /\ inner' = 2
        /\ boot' = boot /\ attract' = attract /\ pick' = pick /\ menu' = menu
        /\ hist' = hist
    BY DEF GamePhase0
  <1>3. hist' = NewGame /\ ~Playing'
    BY <1>2, OutsideGame DEF Playing
  <1> HIDE DEF r
  <1>4. QED
    BY <1>1, <1>2, <1>3, ShellTypes, MenuRecord, QuietStep

LEMMA DisplaySetupStep ==
    ASSUME GameIInv, DisplaySetup
    PROVE  GameIInv'
  <1>1. PICK c \in Kinds : Leaves([g EXCEPT !.choice = c])
    BY DEF DisplaySetup
  <1> DEFINE r == [g EXCEPT !.choice = c]
  <1>2. r \in Cells /\ Uploading(r)
    BY 0 \in 0 .. 12, ShellTypes, CellsSet
  <1>3. Leaves(r) /\ mode' = 3 /\ inner = 2 /\ inner' = 3
        /\ boot' = boot /\ attract' = attract /\ pick' = SelectTime /\ menu' = menu
        /\ hist' = hist
    BY <1>1 DEF DisplaySetup
  <1>4. hist' = NewGame /\ ~Playing' /\ SelectTime \in 0 .. SelectTime
    BY <1>3, OutsideGame, GameConstants DEF Playing
  <1> HIDE DEF r
  <1>5. QED
    BY <1>2, <1>3, <1>4, ShellTypes, MenuRecord, QuietStep

LEMMA SelectTypes ==
    ASSUME GameIInv, SelectFrame
    PROVE  pick' \in 0 .. SelectTime
  <1>1. PICK confirmed \in BOOLEAN :
          LET left == IF confirmed THEN Armed ELSE pick
          IN  pick' = IF left = 0 THEN 0 ELSE left - 1
    BY DEF SelectFrame
  <1>2. QED
    BY <1>1, ShellTypes, GameConstants

LEMMA ModeSelectStep ==
    ASSUME GameIInv, ModeSelect
    PROVE  GameIInv'
  <1>1. PICK c \in IF Choosing THEN Kinds ELSE {g.choice} :
          /\ Leaves([g EXCEPT !.choice = c, !.course = IF Over THEN 0 ELSE @])
          /\ inner' = IF ~Over THEN 3 ELSE IF c = Championship THEN 4 ELSE 6
    BY DEF ModeSelect
  <1> DEFINE v == IF Over THEN 0 ELSE g.course
             r == [g EXCEPT !.choice = c, !.course = v]
  <1>2. c \in Kinds /\ v \in Courses
    BY ShellTypes DEF Cells, Courses
  <1>3. Leaves(r)
    <2>1. r = [g EXCEPT !.choice = c, !.course = IF Over THEN 0 ELSE @]
      BY ShellTypes, Zenon
    <2>2. QED
      BY <1>1, <2>1
  <1> HIDE DEF v
  <1>4. r \in Cells
    BY <1>2, ShellTypes, Zenon DEF Cells
  <1>5. Uploading(r)
    BY ShellTypes DEF Uploading, Cells
  <1>6. mode' = 3 /\ inner = 3 /\ inner' \in {3, 4, 6}
        /\ boot' = boot /\ attract' = attract /\ menu' = menu /\ hist' = hist
    BY <1>1 DEF ModeSelect
  <1>7. pick' \in 0 .. SelectTime
    BY SelectTypes DEF ModeSelect
  <1>8. hist' = NewGame /\ ~Playing' /\ mode' \in 0 .. 4 /\ inner' \in 0 .. 8
    BY <1>6, OutsideGame DEF Playing
  <1> HIDE DEF r
  <1>9. QED
    BY <1>3, <1>4, <1>5, <1>6, <1>7, <1>8, ShellTypes, MenuRecord, QuietStep

LEMMA GameEnterStep ==
    ASSUME GameIInv, GameEnter
    PROVE  GameIInv'
  <1> DEFINE c == IF inner = 4 THEN Championship ELSE Practice
             r == [g EXCEPT !.choice = c, !.scene = 0, !.prev = 0, !.carry = 0]
             i == inner + 1
  <1>1. inner \in {4, 6}
    BY DEF GameEnter
  <1>2. Leaves(r) /\ mode' = 3 /\ inner' = i
        /\ UNCHANGED <<boot, attract, menu>> /\ pick' = pick /\ hist' = hist
    BY DEF GameEnter, EnterCells
  <1>3. c \in Kinds /\ i \in {5, 7}
    BY <1>1 DEF Kinds
  <1> HIDE DEF c, i
  <1>4. r \in Cells
    <2>1. ASSUME NEW s \in 0 .. 12, NEW n \in Nat
          PROVE  [g EXCEPT !.choice = c, !.scene = s, !.prev = s, !.carry = n] \in Cells
      BY <1>3, ShellTypes, Zenon DEF Cells
    <2>2. 0 \in 0 .. 12 /\ 0 \in Nat
      OBVIOUS
    <2>3. QED
      BY <2>1, <2>2, Zenon
  <1>5. /\ r.scene = 0 /\ r.carry = 0 /\ r.busy = g.busy /\ r.pumped = g.pumped
    BY ShellTypes DEF Cells
  <1> HIDE DEF r
  <1>6. Uploading(r)
    BY <1>5, ShellTypes DEF Uploading
  <1>7. hist' = NewGame
    BY <1>1, <1>2, OutsideGame
  <1>8. PlaceFits(i, r, hist')
    BY <1>5, <1>7 DEF PlaceFits, NewGame, Races, Advances, Farewells
  <1>9. SplashFits(i, g')
    <2>1. g'.scene = 0
      BY <1>2, <1>4, <1>5, <1>6, Sends
    <2>2. QED
      BY <2>1 DEF SplashFits, RaceSplashes
  <1>10. hist' \in HistType /\ pick' \in 0 .. SelectTime
    BY <1>2, ShellTypes
  <1>11. QED
    BY <1>2, <1>3, <1>4, <1>6, <1>8, <1>9, <1>10, SceneStep

-----------------------------------------------------------------------------
(* In a scene of a game the cells are first noted as seen. *)
LEMMA InScene ==
    ASSUME GameIInv, NEW i \in {5, 7}, NEW s \in 0 .. 12, Scene(i, s)
    PROVE  /\ SplashFits(i, g) /\ PlaceFits(i, g, hist)
           /\ g.scene = s
           /\ Seen \in Cells /\ Uploading(Seen)
           /\ Seen.prev = s /\ Seen.scene = s
           /\ Seen.choice = g.choice /\ Seen.course = g.course
           /\ Seen.hold = g.hold     /\ Seen.busy = g.busy
           /\ Seen.pumped = g.pumped /\ Seen.bank = g.bank
           /\ Seen.sub = g.sub       /\ Seen.phase = g.phase
           /\ Seen.clock = g.clock   /\ Seen.count = g.count
           /\ Seen.snap = g.snap     /\ Seen.carry = g.carry
           /\ Seen.done = g.done     /\ Seen.next = g.next
           /\ Seen.coast = g.coast   /\ Seen.prg = g.prg
           /\ Seen.left = g.left
           /\ UNCHANGED <<boot, attract, menu>>
           /\ mode = 3 /\ inner = i
  <1>1. g.scene = s /\ mode = 3 /\ inner = i /\ UNCHANGED <<boot, attract, menu>>
    BY DEF Scene
  <1>2. SplashFits(i, g) /\ PlaceFits(i, g, hist)
    BY <1>1 DEF GameIInv, GameFits, Playing
  <1>3. Seen = [g EXCEPT !.prev = s]
    BY <1>1 DEF Seen
  <1>4. [g EXCEPT !.prev = s] \in Cells /\ Uploading([g EXCEPT !.prev = s])
    BY 0 \in Kinds, ShellTypes, CellsSet DEF Kinds, Championship
  <1>5. Seen \in Cells /\ Uploading(Seen)
    BY <1>3, <1>4
  <1>6. /\ Seen.prev = s /\ Seen.scene = s
        /\ Seen.choice = g.choice /\ Seen.course = g.course
        /\ Seen.hold = g.hold     /\ Seen.busy = g.busy
        /\ Seen.pumped = g.pumped /\ Seen.bank = g.bank
        /\ Seen.sub = g.sub       /\ Seen.phase = g.phase
        /\ Seen.clock = g.clock   /\ Seen.count = g.count
        /\ Seen.snap = g.snap     /\ Seen.carry = g.carry
        /\ Seen.done = g.done     /\ Seen.next = g.next
        /\ Seen.coast = g.coast   /\ Seen.prg = g.prg
        /\ Seen.left = g.left
    BY <1>1, <1>3, ShellTypes DEF Cells
  <1>7. QED
    BY <1>1, <1>2, <1>5, <1>6

(* A scene without a race, a splash or a farewell. *)
LEMMA PassiveStep ==
    ASSUME GameIInv, NEW i \in {5, 7}, NEW s \in 0 .. 12, Scene(i, s), Stays,
           pick' \in 0 .. SelectTime, hist' = hist,
           NEW r \in Cells, Uploading(r), Leaves(r),
           r.prev = s, r.carry = g.carry,
           <<i, s>> \notin Farewells,
           <<i, r.scene>> \notin Races \cup Advances \cup Farewells,
           <<i, r.scene>> \in RaceSplashes => r.scene # s,
           BeforeRace(i, r.scene) => BeforeRace(i, s)
    PROVE  GameIInv' /\ g'.course = r.course
  <1>1. PlaceFits(i, g, hist) /\ g.scene = s /\ mode = 3 /\ inner = i
        /\ UNCHANGED <<boot, attract, menu>>
    BY InScene
  <1>2. hist.counted = 0 /\ (BeforeRace(i, s) => g.carry = hist.carried)
    BY <1>1 DEF PlaceFits
  <1>3. PlaceFits(i, r, hist')
    BY <1>2 DEF PlaceFits
  <1>4. SplashFits(i, g')
    BY Sends DEF SplashFits
  <1>5. mode' = 3 /\ inner' = i
    BY <1>1 DEF Stays
  <1>6. hist' \in HistType
    BY ShellTypes
  <1>7. GameIInv'
    BY <1>1, <1>3, <1>4, <1>5, <1>6, SceneStep
  <1>8. QED
    BY <1>7, Sends

LEMMA SceneSet ==
    ASSUME NEW r \in Cells, Uploading(r), NEW t \in 0 .. 12
    PROVE  LET q == [r EXCEPT !.scene = t]
           IN  /\ q \in Cells /\ Uploading(q)
               /\ q.scene = t /\ q.prev = r.prev /\ q.carry = r.carry
               /\ q.course = r.course
  <1>1. [r EXCEPT !.scene = t] \in Cells /\ Uploading([r EXCEPT !.scene = t])
    BY 0 \in Kinds, CellsSet DEF Kinds, Championship
  <1>2. QED
    BY <1>1 DEF Cells

LEMMA DisplayStep ==
    ASSUME GameIInv, NEW i \in {5, 7}, NEW s \in {0, 2}, i = 5 => s = 0,
           Display(i, s)
    PROVE  GameIInv' /\ g'.course = g.course
  <1> DEFINE t == s + 1
             r == [Seen EXCEPT !.scene = t]
  <1>1. s \in 0 .. 12 /\ t \in 0 .. 12 /\ t \in {1, 3} /\ (i = 5 => t = 1)
        /\ (t = 3 => s = 2)
    OBVIOUS
  <1>2. Leaves(r) /\ Stays /\ Scene(i, s) /\ hist' = hist /\ pick' = SelectTime
    BY DEF Display
  <1>3. Seen \in Cells /\ Uploading(Seen) /\ Seen.prev = s /\ Seen.carry = g.carry
        /\ Seen.course = g.course
    BY <1>1, <1>2, InScene
  <1> HIDE DEF t
  <1>4. r \in Cells /\ Uploading(r) /\ r.scene = t /\ r.prev = s
        /\ r.carry = g.carry /\ r.course = g.course
    BY <1>1, <1>3, SceneSet
  <1> HIDE DEF r
  <1>5. /\ <<i, s>> \notin Farewells
        /\ <<i, r.scene>> \notin Races \cup Advances \cup Farewells
        /\ <<i, r.scene>> \notin RaceSplashes
        /\ BeforeRace(i, r.scene) => BeforeRace(i, s)
    BY <1>1, <1>4 DEF Races, Advances, Farewells, RaceSplashes, BeforeRace
  <1>6. SelectTime \in 0 .. SelectTime
    BY GameConstants
  <1>7. QED
    BY <1>1, <1>2, <1>4, <1>5, <1>6, PassiveStep

LEMMA CourseSelectStep ==
    ASSUME GameIInv, NEW i \in {5, 7}, CourseSelect(i)
    PROVE  GameIInv' /\ g'.course = g.course
  <1> DEFINE t == IF Over THEN 2 ELSE 1
             r == [Seen EXCEPT !.scene = t]
  <1>1. 1 \in 0 .. 12 /\ t \in 0 .. 12 /\ t \in {1, 2}
    OBVIOUS
  <1>2. Leaves(r) /\ Stays /\ Scene(i, 1) /\ hist' = hist
    BY DEF CourseSelect
  <1>3. Seen \in Cells /\ Uploading(Seen) /\ Seen.prev = 1 /\ Seen.carry = g.carry
        /\ Seen.course = g.course
    BY <1>1, <1>2, InScene
  <1> HIDE DEF t
  <1>4. r \in Cells /\ Uploading(r) /\ r.scene = t /\ r.prev = 1
        /\ r.carry = g.carry /\ r.course = g.course
    BY <1>1, <1>3, SceneSet
  <1> HIDE DEF r
  <1>5. /\ <<i, 1>> \notin Farewells
        /\ <<i, r.scene>> \notin Races \cup Advances \cup Farewells
        /\ <<i, r.scene>> \in RaceSplashes => r.scene # 1
        /\ BeforeRace(i, r.scene) => BeforeRace(i, 1)
    BY <1>1, <1>4 DEF Races, Advances, Farewells, RaceSplashes, BeforeRace
  <1>6. pick' \in 0 .. SelectTime
    BY SelectTypes DEF CourseSelect
  <1>7. QED
    BY <1>1, <1>2, <1>4, <1>5, <1>6, PassiveStep

LEMMA CarSelectStep ==
    ASSUME GameIInv, CarSelect
    PROVE  GameIInv'
  <1>1. Stays /\ Scene(7, 3) /\ hist' = hist /\ 7 \in {5, 7} /\ 3 \in 0 .. 12
    BY DEF CarSelect
  <1>2. PICK c \in IF Choosing THEN 0 .. 2 ELSE {g.course}, secret \in BOOLEAN :
          Leaves([Seen EXCEPT !.scene = IF Over THEN 4 ELSE 3,
                              !.course = IF Over /\ c = 2 /\ secret THEN 3 ELSE c])
    BY DEF CarSelect
  <1> DEFINE t == IF Over THEN 4 ELSE 3
             v == IF Over /\ c = 2 /\ secret THEN 3 ELSE c
             r == [Seen EXCEPT !.scene = t, !.course = v]
  <1>3. /\ Seen \in Cells /\ Uploading(Seen) /\ Seen.prev = 3
        /\ Seen.carry = g.carry
    BY <1>1, InScene
  <1>4. t \in 0 .. 12 /\ t \in {3, 4} /\ v \in Courses
    BY ShellTypes DEF Cells, Courses
  <1>5. Leaves(r)
    BY <1>2
  <1> HIDE DEF t, v
  <1>6. r \in Cells
    <2>1. Seen \in Cells
      BY <1>3
    <2>2. ASSUME NEW x \in Cells PROVE [x EXCEPT !.scene = t, !.course = v] \in Cells
      BY <1>4, Zenon DEF Cells
    <2>3. QED
      BY <2>1, <2>2
  <1>7. /\ r.scene = t /\ r.prev = 3 /\ r.carry = g.carry
        /\ r.busy = Seen.busy /\ r.pumped = Seen.pumped
    BY <1>3 DEF Cells
  <1>8. Uploading(r)
    BY <1>3, <1>7 DEF Uploading
  <1> HIDE DEF r
  <1>9. /\ <<7, 3>> \notin Farewells
        /\ <<7, r.scene>> \notin Races \cup Advances \cup Farewells
        /\ <<7, r.scene>> \in RaceSplashes => r.scene # 3
        /\ BeforeRace(7, r.scene) => BeforeRace(7, 3)
    BY <1>4, <1>7 DEF Races, Advances, Farewells, RaceSplashes, BeforeRace
  <1>10. pick' \in 0 .. SelectTime
    BY SelectTypes DEF CarSelect
  <1>11. QED
    BY <1>1, <1>5, <1>6, <1>7, <1>8, <1>9, <1>10, PassiveStep

(* A game that ends leaves no history. *)
LEMMA EndStep ==
    ASSUME GameIInv, NEW i \in {5, 7}, NEW s \in 0 .. 12, Scene(i, s),
           mode' = 2, inner' = 0, hist' = NewGame, pick' = pick,
           NEW r \in Cells, Uploading(r), Leaves(r)
    PROVE  GameIInv'
  <1>1. UNCHANGED <<boot, attract, menu>>
    BY InScene
  <1>2. ~Playing' /\ mode' \in 0 .. 4 /\ inner' \in 0 .. 8
        /\ ~(mode' = 2 /\ inner' \in 2 .. 7)
    BY DEF Playing
  <1>3. QED
    BY <1>1, <1>2, ShellTypes, MenuRecord, QuietStep

LEMMA RomSceneStep ==
    ASSUME GameIInv, NEW p \in RomScenes, RomScene(p[1], p[2])
    PROVE  GameIInv'
  <1> DEFINE i == p[1]
             s == p[2]
  <1>1. i \in {5, 7} /\ s \in 0 .. 12 /\ <<i, s>> \in RomScenes
    BY DEF RomScenes
  <1>2. Leaves(Seen) /\ Scene(i, s) /\ pick' = pick
        /\ \/ Stays /\ hist' = hist
           \/ mode' = 2 /\ inner' = 0 /\ hist' = NewGame
    BY DEF RomScene
  <1> HIDE DEF i, s
  <1>3. /\ Seen \in Cells /\ Uploading(Seen) /\ Seen.prev = s /\ Seen.scene = s
        /\ Seen.carry = g.carry
        /\ Seen.course = g.course
    BY <1>1, <1>2, InScene
  <1>4. /\ <<i, s>> \notin Farewells
        /\ <<i, s>> \notin Races \cup Advances \cup Farewells
        /\ <<i, s>> \notin RaceSplashes
    BY <1>1 DEF RomScenes, Races, Advances, Farewells, RaceSplashes
  <1>5. pick' \in 0 .. SelectTime
    BY <1>2, ShellTypes
  <1>6. QED
    BY <1>1, <1>2, <1>3, <1>4, <1>5, PassiveStep, EndStep

(* The splash goes up, stands, and gives way to the race. *)
LEMMA RaceSplashStep ==
    ASSUME GameIInv, NEW i \in {5, 7}, NEW s \in {2, 4}, <<i, s>> \in RaceSplashes,
           RaceSplash(i, s)
    PROVE  GameIInv' /\ g'.course = g.course
  <1>1. s \in 0 .. 12 /\ Scene(i, s) /\ Stays /\ pick' = pick
        /\ Leaves(HudSetup(Seen, Changed))
        /\ hist' = IF g'.scene # s THEN [hist EXCEPT !.finished = FALSE] ELSE hist
    BY DEF RaceSplash
  <1>2. /\ SplashFits(i, g) /\ PlaceFits(i, g, hist) /\ g.scene = s
        /\ mode = 3 /\ inner = i /\ UNCHANGED <<boot, attract, menu>>
        /\ Seen \in Cells /\ Uploading(Seen)
    BY <1>1, InScene
  <1>3. /\ Seen.prev = s /\ Seen.scene = s /\ Seen.course = g.course
        /\ Seen.hold = g.hold /\ Seen.busy = g.busy /\ Seen.pumped = g.pumped
        /\ Seen.bank = g.bank /\ Seen.carry = g.carry
    BY <1>1, InScene
  <1>4. hist \in HistType /\ pick \in 0 .. SelectTime /\ g \in Cells
    BY ShellTypes
  <1>5. /\ <<i, s>> \notin Races \cup Advances \cup Farewells
        /\ <<i, s + 1>> \notin Advances \cup Farewells \cup RaceSplashes
        /\ BeforeRace(i, s)
    BY DEF RaceSplashes, Races, Advances, Farewells, BeforeRace
  <1>6. hist.counted = 0 /\ g.carry = hist.carried
    BY <1>2, <1>5 DEF PlaceFits
  <1>7. mode' = 3 /\ inner' = i
    BY <1>1, <1>2 DEF Stays
  <1>8. CASE Changed
    <2> DEFINE q == SelectBank(Seen, Seen.course)
               r == [q EXCEPT !.hold = Splash]
    <2>1. Leaves(r)
      BY <1>1, <1>8, Zenon DEF HudSetup, ShowSplash
    <2>2. Seen.course \in Courses
      BY <1>2 DEF Cells
    <2>3. /\ q \in Cells /\ q.busy /\ q.pumped = 0 /\ q.bank = Seen.course
          /\ q.course = Seen.course /\ q.scene = Seen.scene /\ q.prev = Seen.prev
          /\ q.carry = Seen.carry
      BY <1>2, <2>2, BankSelected
    <2> HIDE DEF q
    <2>4. r \in Cells
      <3>1. q \in Cells
        BY <2>3
      <3>2. Splash \in -1 .. Splash
        BY RaceConstants
      <3>3. QED
        BY <3>1, <3>2, Zenon DEF Cells
    <2>5. /\ r.busy /\ r.pumped = 0 /\ r.bank = g.course /\ r.course = g.course
          /\ r.scene = s /\ r.carry = g.carry /\ r.hold = Splash
      BY <1>3, <2>3 DEF Cells
    <2> HIDE DEF r
    <2>6. Uploading(r)
      BY <2>5, RaceConstants DEF Uploading
    <2>7. /\ g'.pumped = 1 /\ (g'.busy \/ g'.pumped = Pumps)
          /\ g'.bank = g'.course /\ g'.hold = Splash /\ g'.scene = s
          /\ g'.course = g.course
      BY <2>1, <2>4, <2>5, <2>6, Sends
    <2>8. hist' = hist
      BY <1>1, <2>7
    <2>9. SplashFits(i, g')
      BY <2>7, RaceConstants DEF SplashFits
    <2>10. PlaceFits(i, r, hist')
      BY <1>5, <1>6, <2>5, <2>8 DEF PlaceFits
    <2>11. QED
      BY <1>2, <1>4, <1>1, <1>7, <2>1, <2>4, <2>6, <2>7, <2>8, <2>9, <2>10, SceneStep
  <1>9. CASE ~Changed
    <2>1. g.prev = g.scene
      BY <1>9 DEF Changed
    <2>2. /\ g.bank = g.course /\ g.hold >= 0
          /\ IF g.busy THEN g.hold + g.pumped = Splash + 1 ELSE g.pumped = Pumps
      BY <1>2, <2>1 DEF SplashFits
    <2>3. g.hold \in -1 .. Splash /\ g.pumped \in 0 .. Pumps /\ g.busy \in BOOLEAN
          /\ g.scene \in 0 .. 12
      BY <1>4 DEF Cells
    <2>4. Leaves(HoldSplash(Seen))
      BY <1>1, <1>9 DEF HudSetup
    <2> DEFINE v == Seen.hold - 1
               t == Seen.scene + 1
    <2>5. CASE g.busy
      <3> DEFINE r == [Seen EXCEPT !.hold = v]
      <3>1. g.pumped < Pumps
        BY <2>5, ShellTypes DEF Uploading
      <3>2. g.hold > 1 /\ g.hold + g.pumped = Splash + 1
        BY <2>2, <2>3, <2>5, <3>1, RaceConstants
      <3>3. Seen.hold > 0 /\ Seen.busy
        BY <1>3, <2>3, <2>5, <3>2
      <3>4. HoldSplash(Seen) = r
        BY <3>3, Zenon DEF HoldSplash
      <3>5. v \in -1 .. Splash /\ v = g.hold - 1
        <4>1. v = g.hold - 1
          BY <1>3
        <4>2. g.hold - 1 \in -1 .. Splash
          BY <2>3, <3>2, RaceConstants
        <4>3. QED
          BY <4>1, <4>2
      <3> HIDE DEF v
      <3>6. r \in Cells
        <4>1. Seen \in Cells
          BY <1>2
        <4>2. QED
          BY <3>5, <4>1, Zenon DEF Cells
      <3>7. /\ r.busy /\ r.pumped = g.pumped /\ r.bank = g.course
            /\ r.course = g.course /\ r.scene = s /\ r.carry = g.carry
            /\ r.hold = v
        BY <1>2, <1>3, <2>2, <3>3 DEF Cells
      <3> HIDE DEF r
      <3>8. Uploading(r) /\ Leaves(r)
        BY <2>4, <3>1, <3>4, <3>7 DEF Uploading
      <3>9. /\ g'.pumped = r.pumped + 1 /\ (g'.busy \/ g'.pumped = Pumps)
            /\ g'.bank = r.bank /\ g'.course = r.course
            /\ g'.hold = r.hold /\ g'.scene = r.scene
        BY <3>6, <3>7, <3>8, Sends
      <3>10. hist' = hist
        BY <1>1, <3>7, <3>9
      <3>11. g'.hold + g'.pumped = Splash + 1 /\ g'.hold >= 0
        BY <2>3, <3>2, <3>5, <3>7, <3>9, RaceConstants
      <3>12. SplashFits(i, g')
        BY <3>7, <3>9, <3>11 DEF SplashFits
      <3>13. PlaceFits(i, r, hist')
        BY <1>5, <1>6, <3>7, <3>10 DEF PlaceFits
      <3>14. QED
        BY <1>1, <1>2, <1>4, <1>7, <3>6, <3>7, <3>8, <3>9, <3>10, <3>12, <3>13,
           SceneStep
    <2>6. CASE ~g.busy
      <3> DEFINE r == [Seen EXCEPT !.hold = v, !.sub = 0, !.prg = "hud",
                                   !.left = Farewell, !.scene = t]
                 h == [hist EXCEPT !.finished = FALSE]
      <3>1. ~Seen.busy
        BY <1>3, <2>6
      <3>2. HoldSplash(Seen) = r
        BY <3>1, Zenon DEF HoldSplash
      <3>3. v \in -1 .. Splash /\ t \in 0 .. 12 /\ t = s + 1
        <4>1. v = g.hold - 1 /\ t = s + 1
          BY <1>3
        <4>2. g.hold - 1 \in -1 .. Splash
          BY <2>2, <2>3, RaceConstants
        <4>3. s + 1 \in 0 .. 12
          OBVIOUS
        <4>4. QED
          BY <4>1, <4>2, <4>3
      <3> HIDE DEF v, t
      <3>4. r \in Cells
        <4>1. ASSUME NEW x \in Cells, NEW w \in 0 .. 11, NEW p \in Handlers,
                     NEW l \in -1 .. Farewell
              PROVE  [x EXCEPT !.hold = v, !.sub = w, !.prg = p,
                               !.left = l, !.scene = t] \in Cells
          BY <3>3, Zenon DEF Cells
        <4>2. /\ 0 \in 0 .. 11 /\ "hud" \in Handlers /\ Farewell \in -1 .. Farewell
              /\ Seen \in Cells
          BY <1>2, RaceConstants DEF Handlers
        <4>3. QED
          BY <4>1, <4>2, Zenon
      <3>5. /\ ~r.busy /\ r.pumped = Pumps /\ r.bank = g.course
            /\ r.course = g.course /\ r.scene = t /\ r.carry = g.carry
            /\ r.sub = 0 /\ r.prg = "hud" /\ r.left = Farewell
        BY <1>2, <1>3, <2>2, <2>6 DEF Cells
      <3> HIDE DEF r
      <3>6. Uploading(r) /\ Leaves(r)
        BY <2>4, <3>2, <3>5 DEF Uploading
      <3>7. g' = r
        BY <3>4, <3>5, <3>6, Sends
      <3>8. hist' = h
        BY <1>1, <3>3, <3>5, <3>7
      <3>9. h \in HistType /\ h.counted = 0 /\ h.carried = g.carry
        BY <1>4, <1>6 DEF HistType
      <3> HIDE DEF h
      <3>10. SplashFits(i, g')
        BY <1>5, <3>3, <3>5, <3>7 DEF SplashFits
      <3>11. RaceFits(r, h)
        BY <3>5, <3>9 DEF RaceFits, HandlerFits, DoneFits, ClockFits
      <3>12. PlaceFits(i, r, h)
        BY <1>5, <3>3, <3>5, <3>9, <3>11 DEF PlaceFits, Ready
      <3>13. QED
        BY <1>1, <1>2, <1>4, <1>7, <3>4, <3>5, <3>6, <3>7, <3>8, <3>9, <3>10,
           <3>12, SceneStep
    <2>7. QED
      BY <2>5, <2>6
  <1>10. QED
    BY <1>8, <1>9

(* A race does not look at the scene seen last. *)
LEMMA SeenHist ==
    ASSUME GameIInv, NEW i \in {5, 7}, NEW s \in 0 .. 12, Scene(i, s),
           NEW seg, NEW past
    PROVE  /\ RaceHist(Seen, hist, seg, past) = RaceHist(g, hist, seg, past)
           /\ RaceFits(g, hist) => RaceFits(Seen, hist)
  <1>1. /\ Seen.choice = g.choice /\ Seen.course = g.course
        /\ Seen.sub = g.sub       /\ Seen.phase = g.phase
        /\ Seen.clock = g.clock   /\ Seen.count = g.count
        /\ Seen.snap = g.snap     /\ Seen.carry = g.carry
        /\ Seen.done = g.done     /\ Seen.next = g.next
        /\ Seen.prg = g.prg       /\ Seen \in Cells /\ g \in Cells
    BY InScene, ShellTypes
  <1> HIDE DEF Seen
  <1>2. Times(Seen) = Times(g) /\ \A k : Split(Seen, k) = Split(g, k)
    BY <1>1, SameRace
  <1>3. RaceFits(g, hist) => RaceFits(Seen, hist)
    BY <1>1, <1>2 DEF RaceFits, HandlerFits, DoneFits, Earned, ClockFits
  <1>4. /\ Tick(Seen).clock = Tick(g).clock
        /\ Tick(Seen).next = Tick(g).next
        /\ \A k : Split(Tick(Seen), k) = Split(Tick(g), k)
    <2>1. /\ Tick(Seen).clock = Tick(g).clock /\ Tick(Seen).next = Tick(g).next
          /\ Tick(Seen).choice = Tick(g).choice
          /\ Tick(Seen).course = Tick(g).course
      BY <1>1 DEF Tick, Cells
    <2>2. QED
      BY <2>1, SameRace
  <1>5. Finishes(Tick(Seen), seg, past) = Finishes(Tick(g), seg, past)
    BY <1>4, Zenon DEF Finishes, Reached
  <1>6. RaceHist(Seen, hist, seg, past) = RaceHist(g, hist, seg, past)
    BY <1>1, <1>4, <1>5, Zenon DEF RaceHist
  <1>7. QED
    BY <1>3, <1>6

(* What a race does to history keeps its type and its count. *)
LEMMA HistKept ==
    ASSUME NEW r \in Cells, NEW h \in HistType, NEW seg, NEW past \in BOOLEAN
    PROVE  /\ RaceHist(r, h, seg, past) \in HistType
           /\ RaceHist(r, h, seg, past).counted = h.counted
  <1>1. CASE r.sub \in {6, 7}
    <2>1. RaceHist(r, h, seg, past) \in HistType
      BY <1>1, HistTicks
    <2> DEFINE won == r.sub \in {6, 7} /\ Finishes(Tick(r), seg, past)
               n == IF r.sub < 2 THEN 0
                    ELSE IF r.sub \in {6, 7} /\ r.clock > 0
                         THEN h.ticks + 1 ELSE h.ticks
               f == h.finished \/ won
               c == IF won THEN Tick(r).clock + Gift ELSE h.carried
    <2>2. RaceHist(r, h, seg, past)
            = [h EXCEPT !.ticks = n, !.finished = f, !.carried = c]
      BY Zenon DEF RaceHist
    <2> HIDE DEF n, f, c
    <2>3. RaceHist(r, h, seg, past).counted = h.counted
      BY <2>2 DEF HistType
    <2>4. QED
      BY <2>1, <2>3
  <1>2. CASE r.sub \notin {6, 7}
    BY <1>2, HistStands
  <1>3. QED
    BY <1>1, <1>2

LEMMA RaceSceneStep ==
    ASSUME GameIInv, NEW i \in {5, 7}, NEW s \in {3, 5}, <<i, s>> \in Races,
           RaceScene(i, s)
    PROVE  /\ GameIInv'
           /\ g'.course = g.course
           /\ g'.scene # g.scene => g.sub \in {9, 11} /\ g.phase = 2
  <1>1. s \in 0 .. 12 /\ Scene(i, s) /\ Stays /\ pick' = pick
    BY DEF RaceScene
  <1>2. PICK seg \in Segments, past \in BOOLEAN, slow \in BOOLEAN :
          /\ Leaves(RaceFrame(Seen, seg, past, slow))
          /\ hist' = RaceHist(g, hist, seg, past)
    BY Zenon DEF RaceScene, RaceHist
  <1> DEFINE q == RaceFrame(Seen, seg, past, slow)
             k == RaceHist(Seen, hist, seg, past)
  <1>3. /\ PlaceFits(i, g, hist) /\ g.scene = s /\ mode = 3 /\ inner = i
        /\ UNCHANGED <<boot, attract, menu>> /\ Seen \in Cells
    BY <1>1, InScene
  <1>4. /\ Seen.scene = s /\ Seen.course = g.course /\ Seen.left = g.left
        /\ Seen.busy = g.busy /\ Seen.pumped = g.pumped /\ Seen.bank = g.bank
        /\ Seen.sub = g.sub /\ Seen.phase = g.phase
    BY <1>1, InScene
  <1>5. Ready(g) /\ RaceFits(g, hist) /\ g.left = Farewell
    BY <1>3 DEF PlaceFits
  <1>6. <<i, s>> \notin Farewells
    BY DEF Races, Farewells
  <1>7. hist.counted = 0 /\ hist \in HistType /\ pick \in 0 .. SelectTime
    BY <1>3, <1>6, ShellTypes DEF PlaceFits
  <1>8. hist' = k /\ RaceFits(Seen, hist)
    BY <1>1, <1>2, <1>5, SeenHist
  <1>9. k \in HistType /\ k.counted = 0
    BY <1>3, <1>7, HistKept
  <1>10. /\ q \in Cells /\ Apart(Seen, q) /\ RaceFits(q, k)
         /\ q.scene \in {s, s + 1, s + 7}
         /\ q.scene # s => Seen.sub \in {9, 11} /\ Seen.phase = 2 /\ q.sub >= 8
    BY <1>3, <1>4, <1>7, <1>8, RaceFrameDoes
  <1> HIDE DEF q, k
  <1>11. Ready(q) /\ q.left = Farewell /\ q.course = g.course
    BY <1>4, <1>5, <1>10 DEF Ready, Apart
  <1>12. Leaves(q) /\ Uploading(q)
    BY <1>2, <1>11 DEF q, Ready, Uploading
  <1>13. g' = q
    BY <1>10, <1>11, <1>12, Sends DEF Ready
  <1>14. /\ <<i, q.scene>> \notin RaceSplashes
         /\ ~BeforeRace(i, q.scene)
         /\ <<i, q.scene>> \in Advances => q.scene # s
    BY <1>10 DEF Races, RaceSplashes, Advances, BeforeRace
  <1>15. SplashFits(i, g')
    BY <1>13, <1>14 DEF SplashFits
  <1>16. PlaceFits(i, q, k)
    <2>1. q.scene # s => Earned(q, k)
      BY <1>10 DEF RaceFits, DoneFits
    <2>2. Farewell >= 0 /\ ~(Farewell < Farewell)
      BY RaceConstants
    <2>3. RaceFits(q, k)
      BY <1>10
    <2>4. QED
      BY <1>9, <1>11, <1>14, <2>1, <2>2, <2>3 DEF PlaceFits
  <1>17. mode' = 3 /\ inner' = i
    BY <1>1, <1>3 DEF Stays
  <1>18. GameIInv'
    BY <1>1, <1>3, <1>7, <1>8, <1>9, <1>10, <1>12, <1>15, <1>16, <1>17, SceneStep
  <1>19. g'.scene # g.scene => g.sub \in {9, 11} /\ g.phase = 2
    BY <1>3, <1>4, <1>10, <1>13
  <1>20. QED
    BY <1>11, <1>13, <1>18, <1>19

(* After a race: the next course is for who finished this one. *)
LEMMA AdvanceStep ==
    ASSUME GameIInv, Advance
    PROVE  /\ GameIInv'
           /\ g'.course # g.course => hist.finished
  <1>1. Stays /\ Scene(5, 4) /\ pick' = pick /\ hist' = hist
        /\ 5 \in {5, 7} /\ 4 \in 0 .. 12
    BY DEF Advance
  <1>2. PICK first \in BOOLEAN : Leaves(CourseAdvance(Seen, first))
    BY DEF Advance
  <1> DEFINE q == CourseAdvance(Seen, first)
  <1>3. /\ PlaceFits(5, g, hist) /\ g.scene = 4 /\ mode = 3 /\ inner = 5
        /\ UNCHANGED <<boot, attract, menu>>
        /\ Seen \in Cells /\ Uploading(Seen)
    BY <1>1, InScene
  <1>4. /\ Seen.scene = 4 /\ Seen.prev = 4 /\ Seen.course = g.course
        /\ Seen.left = g.left /\ Seen.done = g.done /\ Seen.carry = g.carry
    BY <1>1, InScene
  <1>5. g.left = Farewell /\ Earned(g, hist) /\ hist.counted = 0
    BY <1>3 DEF PlaceFits, Advances, Farewells
  <1>6. hist \in HistType /\ pick \in 0 .. SelectTime
    BY ShellTypes
  <1>7. Seen.course \in 0 .. 3 /\ Seen.done \in BOOLEAN
    BY <1>3 DEF Cells, Courses
  <1>8. ASSUME NEW c \in Courses, NEW t \in 0 .. 12
        PROVE  LET r == [Seen EXCEPT !.course = c, !.scene = t]
               IN  /\ r \in Cells /\ Uploading(r)
                   /\ r.course = c /\ r.scene = t /\ r.prev = 4
                   /\ r.left = Farewell /\ r.carry = g.carry
    <2> DEFINE r == [Seen EXCEPT !.course = c, !.scene = t]
    <2>1. r \in Cells
      <3>1. ASSUME NEW x \in Cells PROVE [x EXCEPT !.course = c, !.scene = t] \in Cells
        BY Zenon DEF Cells
      <3>2. QED
        BY <1>3, <3>1
    <2>2. /\ r.course = c /\ r.scene = t /\ r.prev = 4 /\ r.left = Farewell
          /\ r.carry = g.carry /\ r.busy = Seen.busy /\ r.pumped = Seen.pumped
      BY <1>3, <1>4, <1>5 DEF Cells
    <2>3. QED
      BY <1>3, <2>1, <2>2 DEF Uploading
  <1>9. ASSUME NEW t \in 0 .. 12
        PROVE  [Seen EXCEPT !.scene = t]
                 = [Seen EXCEPT !.course = Seen.course, !.scene = t]
    BY <1>3 DEF Cells
  <1>10. PICK c \in Courses, t \in {2, 5, 9, 10} :
           /\ q = [Seen EXCEPT !.course = c, !.scene = t]
           /\ c # g.course \/ t = 2 => g.done
    <2>1. CASE Seen.done /\ Seen.course < 2
      <3> DEFINE c == Seen.course + 1
                 t == Seen.scene - 2
      <3>1. q = [Seen EXCEPT !.course = c, !.scene = t]
        BY <2>1 DEF CourseAdvance
      <3>2. c \in Courses /\ t = 2
        BY <1>4, <1>7, <2>1 DEF Courses
      <3> HIDE DEF q, c, t
      <3>3. QED
        BY <1>4, <2>1, <3>1, <3>2
    <2>2. CASE Seen.done /\ Seen.course = 2 /\ first
      <3> DEFINE t == Seen.scene - 2
      <3>1. q = [Seen EXCEPT !.course = 3, !.scene = t]
        BY <2>2 DEF CourseAdvance
      <3>2. 3 \in Courses /\ t = 2
        BY <1>4 DEF Courses
      <3> HIDE DEF q, t
      <3>3. QED
        BY <1>4, <2>2, <3>1, <3>2
    <2>3. CASE Seen.done /\ (Seen.course = 3 \/ (Seen.course = 2 /\ ~first))
      <3> DEFINE t == Seen.scene + 1
      <3>1. q = [Seen EXCEPT !.scene = t]
        BY <2>3 DEF CourseAdvance
      <3>2. Seen.course \in Courses /\ t = 5 /\ t \in 0 .. 12
        BY <1>4, <1>7 DEF Courses
      <3> HIDE DEF q, t
      <3>3. q = [Seen EXCEPT !.course = Seen.course, !.scene = t]
        BY <1>9, <3>1, <3>2
      <3>4. t \in {2, 5, 9, 10} /\ (Seen.course # g.course \/ t = 2 => g.done)
        BY <1>4, <3>2
      <3>5. QED
        <4> USE <3>2, <3>4
        <4> WITNESS Seen.course \in Courses, t \in {2, 5, 9, 10}
        <4>1. QED
          BY <3>3, <3>4
    <2>4. CASE ~Seen.done
      <3> DEFINE t == IF Seen.course # 3 THEN Seen.scene + 5 ELSE Seen.scene + 6
      <3>1. q = [Seen EXCEPT !.scene = t]
        BY <2>4 DEF CourseAdvance
      <3>2. Seen.course \in Courses /\ t \in {9, 10} /\ t \in 0 .. 12
        BY <1>4, <1>7 DEF Courses
      <3> HIDE DEF q, t
      <3>3. q = [Seen EXCEPT !.course = Seen.course, !.scene = t]
        BY <1>9, <3>1, <3>2
      <3>4. t \in {2, 5, 9, 10} /\ (Seen.course # g.course \/ t = 2 => g.done)
        BY <1>4, <3>2
      <3>5. QED
        <4> USE <3>2, <3>4
        <4> WITNESS Seen.course \in Courses, t \in {2, 5, 9, 10}
        <4>1. QED
          BY <3>3, <3>4
    <2>5. \/ Seen.done /\ Seen.course < 2
          \/ Seen.done /\ Seen.course = 2 /\ first
          \/ Seen.done /\ (Seen.course = 3 \/ (Seen.course = 2 /\ ~first))
          \/ ~Seen.done
      BY <1>7
    <2>6. QED
      BY <2>1, <2>2, <2>3, <2>4, <2>5, Zenon
  <1> HIDE DEF q
  <1>11. t \in 0 .. 12
    BY <1>10
  <1>12. /\ q \in Cells /\ Uploading(q) /\ q.course = c /\ q.scene = t
         /\ q.prev = 4 /\ q.left = Farewell /\ q.carry = g.carry
    BY <1>8, <1>10, <1>11
  <1>13. Leaves(q)
    BY <1>2 DEF q
  <1>14. g'.course = c /\ g'.scene = t /\ g'.prev = 4
    BY <1>12, <1>13, Sends
  <1>15. g'.course # g.course => hist.finished
    BY <1>5, <1>10, <1>14 DEF Earned
  <1>16. SplashFits(5, g')
    BY <1>10, <1>14 DEF SplashFits
  <1>17. PlaceFits(5, q, hist)
    <2>1. <<5, t>> \notin Races \cup Advances
          /\ (BeforeRace(5, t) => t = 2)
      BY <1>10 DEF Races, Advances, BeforeRace
    <2>2. t = 2 => g.carry = hist.carried
      BY <1>5, <1>10 DEF Earned
    <2>3. Farewell >= 0 /\ ~(Farewell < Farewell)
      BY RaceConstants
    <2>4. QED
      BY <1>5, <1>12, <2>1, <2>2, <2>3 DEF PlaceFits
  <1>18. mode' = 3 /\ inner' = 5
    BY <1>1, <1>3 DEF Stays
  <1>19. QED
    BY <1>1, <1>3, <1>6, <1>12, <1>13, <1>15, <1>16, <1>17, <1>18, SceneStep

(* The farewell counts the game in its first frame. *)
LEMMA FarewellStep ==
    ASSUME GameIInv, NEW i \in {5, 7}, NEW s \in {9, 12}, <<i, s>> \in Farewells,
           FarewellScene(i, s)
    PROVE  GameIInv'
  <1> DEFINE v == IF Seen.left = Farewell THEN Seen.left - 2 ELSE Seen.left - 1
             r == [Seen EXCEPT !.left = v]
  <1>1. s \in 0 .. 12 /\ Scene(i, s) /\ pick' = pick
    BY DEF FarewellScene
  <1>2. Leaves(r)
    BY DEF FarewellScene, TimerArm
  <1>3. /\ PlaceFits(i, g, hist) /\ g.scene = s /\ mode = 3 /\ inner = i
        /\ UNCHANGED <<boot, attract, menu>> /\ Seen \in Cells /\ Uploading(Seen)
        /\ Seen.left = g.left /\ Seen.scene = s
    BY <1>1, InScene
  <1>4. /\ g.left >= 0 /\ g.left \in -1 .. Farewell
        /\ hist.counted = IF g.left < Farewell THEN 1 ELSE 0
        /\ hist \in HistType /\ pick \in 0 .. SelectTime
    BY <1>3, ShellTypes DEF PlaceFits, Cells
  <1>5. v \in -1 .. Farewell /\ v < Farewell
    BY <1>3, <1>4, RaceConstants
  <1> HIDE DEF v
  <1>6. r \in Cells
    <2>1. ASSUME NEW x \in Cells PROVE [x EXCEPT !.left = v] \in Cells
      BY <1>5, Zenon DEF Cells
    <2>2. QED
      BY <1>3, <2>1
  <1>7. /\ r.left = v /\ r.scene = s /\ r.busy = Seen.busy
        /\ r.pumped = Seen.pumped
    BY <1>3 DEF Cells
  <1>8. Uploading(r)
    BY <1>3, <1>7 DEF Uploading
  <1> HIDE DEF r
  <1>9. g'.left = v /\ g'.scene = s
    BY <1>2, <1>6, <1>7, <1>8, Sends
  <1>10. CASE v = -1
    <2>1. mode' = 2 /\ inner' = 0 /\ hist' = NewGame
      BY <1>9, <1>10 DEF FarewellScene
    <2>2. QED
      BY <1>1, <1>2, <1>6, <1>8, <2>1, EndStep
  <1>11. CASE v # -1
    <2> DEFINE n == IF CountsGame(g) THEN hist.counted + 1 ELSE hist.counted
    <2>1. mode' = 3 /\ inner' = i
      BY <1>9, <1>11 DEF FarewellScene
    <2>2. hist' = [hist EXCEPT !.counted = n]
      BY <2>1 DEF FarewellScene
    <2>3. n = 1
      BY <1>4, RaceConstants DEF CountsGame
    <2> HIDE DEF n
    <2>4. hist' \in HistType /\ hist'.counted = 1
      BY <1>4, <2>2, <2>3 DEF HistType
    <2>5. v >= 0
      BY <1>5, <1>11
    <2>6. /\ <<i, s>> \notin Races \cup Advances \cup RaceSplashes
          /\ ~BeforeRace(i, s)
      BY DEF Farewells, Races, Advances, RaceSplashes, BeforeRace
    <2>7. SplashFits(i, g')
      BY <1>9, <2>6 DEF SplashFits
    <2>8. PlaceFits(i, r, hist')
      BY <1>5, <1>7, <2>4, <2>5, <2>6 DEF PlaceFits
    <2>9. QED
      BY <1>1, <1>2, <1>3, <1>4, <1>6, <1>8, <2>1, <2>4, <2>7, <2>8, SceneStep
  <1>12. QED
    BY <1>10, <1>11

-----------------------------------------------------------------------------
(* The operator's menu, and the way into it. *)
LEMMA MenuStep ==
    ASSUME GameIInv, MenuNext
    PROVE  GameIInv'
  <1>1. mode = 4 /\ Leaves(g) /\ boot' = boot /\ attract' = attract
        /\ pick' = pick /\ hist' = hist
    BY DEF MenuNext, MenuOpen, MenuMove, MenuEnter, MenuItem, Menu
  <1>2. hist' = NewGame
    BY <1>1 DEF GameIInv, NoGameYet, Playing
  <1>3. inner \in 0 .. 3
    BY DEF MenuNext, MenuOpen, MenuMove, MenuEnter, MenuItem
  <1>4. menu.item \in 0 .. ExitItem /\ menu.timer \in -1 .. ExitHold
        /\ menu \in [item : 0 .. ExitItem, timer : -1 .. ExitHold]
    BY MenuRecord
  <1>5. ASSUME NEW t \in -1 .. ExitHold, NEW other \in {0, 3}, MenuExit(t, other)
        PROVE  /\ menu' \in [item : 0 .. ExitItem, timer : -1 .. ExitHold]
               /\ mode' \in {0, 4} /\ inner' \in 0 .. 3
    <2>1. PICK key \in BOOLEAN :
            LET f == ExitFrame(t, key)
            IN  /\ menu' = [menu EXCEPT !.timer = f.timer]
                /\ mode' = IF f.leaves THEN 0 ELSE 4
                /\ inner' = IF f.leaves THEN other ELSE 3
      BY <1>5 DEF MenuExit
    <2> DEFINE n == ExitFrame(t, key).timer
    <2>2. n \in -1 .. ExitHold
      BY GameConstants DEF ExitFrame
    <2> HIDE DEF n
    <2>3. menu' = [menu EXCEPT !.timer = n]
      BY <2>1 DEF n
    <2>4. QED
      BY <1>4, <2>1, <2>2, <2>3
  <1>6. /\ menu' \in [item : 0 .. ExitItem, timer : -1 .. ExitHold]
        /\ mode' \in {0, 4} /\ inner' \in 0 .. 3
    <2>1. CASE MenuOpen
      BY <1>1, <1>4, <2>1, GameConstants DEF MenuOpen
    <2>2. CASE MenuMove
      BY <1>1, <1>4, <2>2, GameConstants DEF MenuMove
    <2>3. CASE MenuEnter
      BY <1>1, <1>4, <1>5, <2>3, GameConstants DEF MenuEnter
    <2>4. CASE MenuItem
      BY <1>1, <1>4, <1>5, <2>4 DEF MenuItem
    <2>5. QED
      BY <2>1, <2>2, <2>3, <2>4 DEF MenuNext
  <1>7. ~Playing' /\ ~(mode' = 2 /\ inner' \in 2 .. 7) /\ mode' \in 0 .. 4
        /\ inner' \in 0 .. 8
    BY <1>6 DEF Playing
  <1>8. QED
    BY <1>1, <1>2, <1>6, <1>7, ShellTypes, QuietStep

LEMMA TestStep ==
    ASSUME GameIInv, Test
    PROVE  GameIInv'
  <1>1. mode' = 4 /\ inner' = 0 /\ hist' = NewGame
        /\ boot' = boot /\ attract' = attract /\ pick' = pick /\ menu' = menu
        /\ g' = g
    BY DEF Test
  <1>2. NoGameYet' /\ AttractFits' /\ GameFits' /\ hist' \in HistType
    BY <1>1, Quiet DEF Playing
  <1>3. GameTypeOK'
    BY <1>1 DEF GameIInv, GameTypeOK
  <1>4. Shapes' /\ Uploading(g')
    BY <1>1, <1>2 DEF GameIInv, Shapes, IsAttract
  <1>5. QED
    BY <1>2, <1>3, <1>4 DEF GameIInv

(* The farewell keeps the course. *)
LEMMA TimerArmKeeps ==
    ASSUME NEW r \in Cells, Leaves(TimerArm(r))
    PROVE  g'.course = r.course
  BY DEF Leaves, TimerArm, Pump, Cells

(* A frame of a game, and what it may never do. *)
LEMMA GameNextStep ==
    ASSUME GameIInv, GameNext
    PROVE  /\ GameIInv'
           /\ CourseIsEarned
           /\ SceneLeavesAfterRace
  <1>1. CASE GamePhase0 \/ DisplaySetup \/ ModeSelect \/ GameEnter
    <2>1. GameIInv'
      BY <1>1, GamePhase0Step, DisplaySetupStep, ModeSelectStep, GameEnterStep
    <2>2. inner \in {0, 2, 3, 4, 6}
      BY <1>1 DEF GamePhase0, DisplaySetup, ModeSelect, GameEnter
    <2>3. QED
      BY <2>1, <2>2 DEF CourseIsEarned, SceneLeavesAfterRace, In, Races
  <1> DEFINE Kept == g'.course = g.course
             Idle == <<inner, g.scene>> \notin Races
  <1>2. ASSUME GameIInv', Idle, inner = 5 => Kept
        PROVE  GameIInv' /\ CourseIsEarned /\ SceneLeavesAfterRace
    BY <1>2 DEF CourseIsEarned, SceneLeavesAfterRace, In
  <1>3. CASE \E i \in {5, 7} : Display(i, 0) \/ CourseSelect(i)
    <2>1. PICK i \in {5, 7} : Display(i, 0) \/ CourseSelect(i)
      BY <1>3
    <2>2. GameIInv' /\ Kept
      BY <2>1, DisplayStep, CourseSelectStep
    <2>3. Idle
      BY <2>1 DEF Display, CourseSelect, Scene, Races
    <2>4. QED
      BY <1>2, <2>2, <2>3
  <1>4. CASE CarSelect
    <2>1. Idle /\ inner = 7
      BY <1>4 DEF CarSelect, Scene, Races
    <2>2. QED
      BY <1>2, <1>4, <2>1, CarSelectStep
  <1>5. CASE Display(7, 2)
    <2>1. Idle /\ inner = 7
      BY <1>5 DEF Display, Scene, Races
    <2>2. GameIInv'
      BY <1>5, DisplayStep
    <2>3. QED
      BY <1>2, <2>1, <2>2
  <1>6. CASE Advance
    <2>1. Idle
      BY <1>6 DEF Advance, Scene, Races
    <2>2. QED
      BY <1>6, <2>1, AdvanceStep DEF CourseIsEarned, SceneLeavesAfterRace, In
  <1>7. CASE RaceSplash(5, 2) \/ RaceSplash(7, 4)
    <2>1. <<5, 2>> \in RaceSplashes /\ <<7, 4>> \in RaceSplashes
      BY DEF RaceSplashes
    <2>2. GameIInv' /\ Kept
      BY <1>7, <2>1, RaceSplashStep
    <2>3. Idle
      BY <1>7 DEF RaceSplash, Scene, Races
    <2>4. QED
      BY <1>2, <2>2, <2>3
  <1>8. CASE \E p \in Races : RaceScene(p[1], p[2])
    <2>1. PICK i \in {5, 7}, s \in {3, 5} : <<i, s>> \in Races /\ RaceScene(i, s)
      BY <1>8 DEF Races
    <2>2. /\ GameIInv' /\ Kept
          /\ g'.scene # g.scene => g.sub \in {9, 11} /\ g.phase = 2
      BY <2>1, RaceSceneStep
    <2>3. QED
      BY <2>2 DEF CourseIsEarned, SceneLeavesAfterRace
  <1>9. CASE \E p \in Farewells : FarewellScene(p[1], p[2])
    <2>1. PICK i \in {5, 7}, s \in {9, 12} :
            <<i, s>> \in Farewells /\ FarewellScene(i, s)
      BY <1>9 DEF Farewells
    <2>2. Scene(i, s) /\ Leaves(TimerArm(Seen))
      BY <2>1 DEF FarewellScene
    <2>3. Idle
      BY <2>2 DEF Scene, Races
    <2>4. Kept
      BY <2>2, InScene, TimerArmKeeps, 9 \in 0 .. 12, 12 \in 0 .. 12
    <2>5. QED
      BY <1>2, <2>1, <2>3, <2>4, FarewellStep
  <1>10. CASE \E p \in RomScenes : RomScene(p[1], p[2])
    <2>1. PICK p \in RomScenes : RomScene(p[1], p[2])
      BY <1>10
    <2>2. Scene(p[1], p[2]) /\ Leaves(Seen) /\ p[1] \in {5, 7} /\ p[2] \in 0 .. 12
      BY <2>1 DEF RomScene, RomScenes
    <2>3. Idle
      BY <2>1, <2>2 DEF Scene, RomScenes, Races
    <2>4. Kept
      BY <2>2, InScene, Sends
    <2>5. QED
      BY <1>2, <2>1, <2>3, <2>4, RomSceneStep
  <1>11. QED
    BY <1>1, <1>3, <1>4, <1>5, <1>6, <1>7, <1>8, <1>9, <1>10 DEF GameNext

-----------------------------------------------------------------------------
LEMMA AttractNextStep ==
    ASSUME GameIInv, AttractNext
    PROVE  GameIInv' /\ mode = 2
  <1>1. GameIInv'
    BY AttractOpenStep, AttractWarmupStep, AttractCloseStep, AttractSplashStep,
       AttractHoldStep, AttractSceneStep DEF AttractNext
  <1>2. mode = 2
    BY DEF AttractNext, AttractOpen, AttractWarmup, AttractClose, AttractSplash,
           AttractHold, AttractScene, Attract
  <1>3. QED
    BY <1>1, <1>2

LEMMA InitHolds == Init => GameIInv
  <1> SUFFICES ASSUME Init PROVE GameIInv
    OBVIOUS
  <1>1. /\ mode = 0 /\ inner = 0 /\ boot = [sub |-> 0, wanted |-> TRUE]
        /\ attract = [wait |-> 0, beat |-> 0, warmup |-> 0, script |-> <<>>,
                      row |-> 0, link |-> 0]
        /\ pick = 0 /\ menu = [item |-> 0, timer |-> 0] /\ hist = NewGame
    BY DEF Init
  <1>2. g = [choice |-> 0, course |-> 0, scene |-> 0, prev |-> 0, hold |-> 0,
             busy |-> FALSE, pumped |-> Pumps, bank |-> 0, sub |-> 0,
             phase |-> 0, clock |-> 0, count |-> 0, snap |-> 0, carry |-> 0,
             done |-> FALSE, next |-> 0, coast |-> 0, prg |-> "none", left |-> 0]
    BY DEF Init
  <1>3. /\ 0 \in Kinds /\ 0 \in Courses /\ 0 \in 0 .. 12 /\ 0 \in -1 .. Splash
        /\ FALSE \in BOOLEAN /\ Pumps \in 0 .. Pumps /\ 0 \in 0 .. 11
        /\ 0 \in 0 .. 6 /\ 0 \in Nat /\ 0 \in 0 .. Coast /\ "none" \in Handlers
        /\ 0 \in -1 .. Farewell
    BY RaceConstants DEF Kinds, Championship, Courses, Handlers
  <1>4. g \in Cells
    BY <1>2, <1>3, Zenon DEF Cells
  <1>5. GameTypeOK
    BY <1>1, <1>4, GameConstants DEF GameTypeOK
  <1>6. Shapes
    BY <1>1 DEF Shapes, IsAttract, NewGame, HistType
  <1>7. NoGameYet /\ AttractFits /\ GameFits
    BY <1>1 DEF NoGameYet, AttractFits, GameFits, Playing
  <1>8. Uploading(g)
    BY <1>2 DEF Uploading
  <1>9. QED
    BY <1>5, <1>6, <1>7, <1>8 DEF GameIInv

LEMMA StepHolds ==
    ASSUME GameIInv, [Next]_vars
    PROVE  GameIInv' /\ [CourseIsEarned /\ SceneLeavesAfterRace]_vars
  <1>1. CASE Boot
    BY <1>1, BootStep DEF CourseIsEarned, SceneLeavesAfterRace, In, Boot
  <1>2. CASE CommCheck
    BY <1>2, CommCheckStep DEF CourseIsEarned, SceneLeavesAfterRace, In, CommCheck
  <1>3. CASE AttractNext
    BY <1>3, AttractNextStep DEF CourseIsEarned, SceneLeavesAfterRace, In
  <1>4. CASE GameNext
    BY <1>4, GameNextStep
  <1>5. CASE MenuNext
    <2>1. mode = 4
      BY <1>5 DEF MenuNext, MenuOpen, MenuMove, MenuEnter, MenuItem, Menu
    <2>2. QED
      BY <1>5, <2>1, MenuStep DEF CourseIsEarned, SceneLeavesAfterRace, In
  <1>6. CASE Test
    BY <1>6, TestStep DEF CourseIsEarned, SceneLeavesAfterRace, Test
  <1>7. CASE UNCHANGED vars
    BY <1>7 DEF vars, GameIInv, GameTypeOK, Shapes, IsAttract, NoGameYet, Playing,
                Uploading, AttractFits, GameFits, BeatFits, Ready
  <1>8. QED
    BY <1>1, <1>2, <1>3, <1>4, <1>5, <1>6, <1>7 DEF Next, Frame

(* The cells of a game are what the scene it is in has made of them, for   *)
(* every course, every script and every moment at which TEST is pressed.   *)
THEOREM GameInvariance == Spec => []GameIInv
  <1>1. GameIInv /\ [Next]_vars => GameIInv'
    BY StepHolds
  <1>2. QED
    BY InitHolds, <1>1, PTL DEF Spec

(* The types hold, and the bookkeeping counts a game's farewell once,      *)
(* however often TEST left it and whatever an earlier game left behind.    *)
THEOREM GameSafe == Spec => []GameInv
  <1>1. ASSUME GameIInv PROVE GameInv
    <2>1. CASE ~Playing
      BY <1>1, <2>1 DEF GameIInv, GameInv, CountedOnce, NoGameYet, NewGame, In,
                        Playing, Farewells
    <2>2. CASE Playing
      <3>1. PlaceFits(inner, g, hist) /\ mode = 3
        BY <1>1, <2>2 DEF GameIInv, GameFits, Playing
      <3>2. CASE <<inner, g.scene>> \in Farewells
        BY <1>1, <3>1, <3>2 DEF PlaceFits, GameIInv, GameInv, CountedOnce
      <3>3. CASE <<inner, g.scene>> \notin Farewells
        BY <1>1, <3>1, <3>3 DEF PlaceFits, GameIInv, GameInv, CountedOnce, In
      <3>4. QED
        BY <3>2, <3>3
    <2>3. QED
      BY <2>1, <2>2
  <1>2. QED
    BY GameInvariance, <1>1, PTL

(* No race, and no scene of the attract loop, runs before the whole of its *)
(* course's texture bank was sent: the splash outlasts the upload.         *)
THEOREM TexturesAreReady == Spec => []TexturesReady
  <1>1. ASSUME GameIInv PROVE TexturesReady
    <2>1. CASE In(Races)
      <3>1. Playing /\ <<inner, g.scene>> \in Races
        BY <2>1 DEF In, Races, Playing
      <3>2. QED
        BY <1>1, <3>1 DEF GameIInv, GameFits, PlaceFits, Ready, TexturesReady
    <2>2. CASE ~In(Races)
      BY <1>1, <2>2 DEF GameIInv, AttractFits, Ready, TexturesReady
    <2>3. QED
      BY <2>1, <2>2
  <1>2. QED
    BY GameInvariance, <1>1, PTL

(* The clock of a race shows the time of the segments passed and what the  *)
(* course before left, less the frames run: for every table of splits, and *)
(* whatever race TEST cut short before.                                    *)
THEOREM ClockAlwaysEarned == Spec => []ClockIsEarned
  <1>1. ASSUME GameIInv PROVE ClockIsEarned
    <2>1. SUFFICES ASSUME In(Races), g.sub \in {6, 7}
                   PROVE  g.clock + hist.ticks
                            = hist.carried + SumOf(Times(g))[g.next]
      BY <2>1 DEF ClockIsEarned
    <2>2. Playing /\ <<inner, g.scene>> \in Races
      BY <2>1 DEF In, Races, Playing
    <2>3. ClockFits(g, hist)
      BY <1>1, <2>2 DEF GameIInv, GameFits, PlaceFits, RaceFits
    <2>4. QED
      BY <2>1, <2>3 DEF ClockFits
  <1>2. QED
    BY GameInvariance, <1>1, PTL

(* A championship's course changes only after this game's car has crossed  *)
(* the finish, and a race's scene is left only at the end of a fanfare.    *)
THEOREM ScenesAreEarned == Spec => OnlyWhenEarned
  <1>1. GameIInv /\ [Next]_vars => [CourseIsEarned /\ SceneLeavesAfterRace]_vars
    BY StepHolds
  <1>2. QED
    BY GameInvariance, <1>1, PTL DEF Spec, OnlyWhenEarned
=============================================================================
