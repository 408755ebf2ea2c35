---- MODULE Cabinet_proofs ----
(***************************************************************************)
(* The cabinet's bookkeeping for every limit, every set of options and     *)
(* every settings file.  Each helper of module Coins moves the cells of    *)
(* the image by known amounts; the balance is kept because the amounts     *)
(* that CoinBooks notes down are the same.                                 *)
(***************************************************************************)
EXTENDS Cabinet, TLAPS

(* The two slots together. *)
CreditSum(m) == m[Credits(0)] + m[Credits(1)]
PlaySum(m)   == m[Plays(0)] + m[Plays(1)]

SameCells(m, n, cells) == \A i \in cells : n[i] = m[i]

MaskCells == {Mask(0), Mask(1)}
CoinCells == {Coin(0), Coin(1)}
PlayCells == {Plays(0), Plays(1)}
CreditCells == {Credits(0), Credits(1)}

LEMMA ConstantTypes ==
    /\ Limit \in Nat
    /\ InitFiles \subseteq Files
    /\ Cuts \subseteq 0 .. Full
  BY LimitAssumption, CabinetAssumption

LEMMA CellTypes ==
    \A s \in Chutes : /\ Coin(s) \in Cells /\ Mask(s) \in Cells
                      /\ Acc(s) \in Cells /\ Credits(s) \in Cells
                      /\ Plays(s) \in Cells /\ Sold \in Cells
  BY DEF Chutes, Cells, Coin, Mask, Acc, Credits, Plays, Sold

(* Products distribute, which the provers use one instance at a time. *)
LEMMA Distributes == \A p, a, b \in Int : p * (a + b) = p * a + p * b
  OBVIOUS

(* A quotient times its divisor is at most the dividend. *)
LEMMA Quotient ==
    ASSUME NEW c \in Nat, NEW p \in Nat, p # 0
    PROVE  c \div p \in Nat /\ p * (c \div p) <= c
  OBVIOUS

-----------------------------------------------------------------------------
(* The cells of interest that a coin in chute c leaves alone. *)
Untouched(c) ==
    (CoinCells \ {Coin(c)}) \cup MaskCells \cup PlayCells \cup {Sold}

(* One chute adds its coin's value, and its bonus, to the credits. *)
LEMMA ChuteSlotMoves ==
    ASSUME NEW m \in Image, NEW o \in Options, NEW edges, NEW c \in Chutes
    PROVE  LET n == ChuteSlot(m, o, edges, c)
               k == IF Counts(m, edges, c) THEN 1 ELSE 0
               b == IF Counts(m, edges, c) /\ EarnsBonus(m, o, c) THEN 1 ELSE 0
           IN  /\ n \in Image
               /\ CreditSum(n) = CreditSum(m) + o.val[c] * k + b
               /\ n[Coin(c)] = m[Coin(c)] + k
               /\ SameCells(m, n, Untouched(c))
  <1> DEFINE n == TakeCoin(m, o, c)
  <1>1. o.val[c] \in Nat /\ o.bonus \in Nat
    BY DEF Options
  <1>2. SlotOf(o, c) \in Chutes
    BY DEF SlotOf, Chutes
  <1>3. CASE Counts(m, edges, c)
    <2>1. n \in Image
      BY <1>1, <1>2 DEF TakeCoin, Image, Cells, Chutes, Acc, Credits, Coin,
           EarnsBonus
    <2>2. CreditSum(n) = CreditSum(m) + o.val[c]
                         + (IF EarnsBonus(m, o, c) THEN 1 ELSE 0)
      BY <1>1, <1>2 DEF TakeCoin, Image, Cells, Chutes, Acc, Credits, Coin,
           CreditSum
    <2>3. /\ n[Coin(c)] = m[Coin(c)] + 1
          /\ SameCells(m, n, Untouched(c))
      BY <1>1, <1>2 DEF Untouched, CoinCells, TakeCoin, Image, Cells, Chutes, Acc, Credits, Coin,
           SameCells, MaskCells, PlayCells, Mask, Plays, Sold
    <2>4. QED
      BY <1>3, <1>1, <2>1, <2>2, <2>3 DEF ChuteSlot
  <1>4. CASE ~Counts(m, edges, c)
    <2>1. CreditSum(m) \in Nat /\ m[Coin(c)] \in Nat /\ o.val[c] * 0 = 0
      BY <1>1, CellTypes DEF CreditSum, Image, Chutes
    <2>2. QED
      BY <1>4, <1>1, <2>1 DEF ChuteSlot, SameCells
  <1>5. QED
    BY <1>3, <1>4

(* A service credit moves the plays of the slots it bumps. *)
LEMMA ServiceMoves ==
    ASSUME NEW m \in Image, NEW o \in Options
    PROVE  LET n == ServiceCredit(m, o)
               k(s) == IF s \in ServiceSlots(m, o) THEN 1 ELSE 0
           IN  /\ n \in Image
               /\ PlaySum(n) = PlaySum(m) + k(0) + k(1)
               /\ SameCells(m, n, MaskCells \cup CoinCells \cup CreditCells
                                  \cup {Sold})
  <1>1. ServiceSlots(m, o) \subseteq Chutes
    BY DEF ServiceSlots
  <1>2. ServiceCredit(m, o) \in Image
    BY DEF ServiceCredit, Image
  <1>3. \A s \in Chutes :
          ServiceCredit(m, o)[Plays(s)]
          = m[Plays(s)] + (IF s \in ServiceSlots(m, o) THEN 1 ELSE 0)
    BY <1>1 DEF ServiceCredit, Image, Cells, Chutes, Plays
  <1>4. SameCells(m, ServiceCredit(m, o),
                  MaskCells \cup CoinCells \cup CreditCells \cup {Sold})
    BY <1>1 DEF ServiceCredit, Image, Cells, Chutes, Plays, SameCells,
         MaskCells, CoinCells, CreditCells, Mask, Coin, Credits, Sold
  <1>5. m[Plays(0)] \in Nat /\ m[Plays(1)] \in Nat
    BY CellTypes DEF Image, Chutes
  <1>6. QED
    BY <1>2, <1>3, <1>4, <1>5 DEF PlaySum, Chutes

(* How many conversions are due and granted. *)
LEMMA DueTypes ==
    ASSUME NEW m \in Image, NEW o \in Options, NEW s \in Chutes
    PROVE  /\ Due(m, o, s) \in Nat
           /\ Granted(m, o, s) \in 0 .. Due(m, o, s)
           /\ o.price * Due(m, o, s) <= m[Credits(s)]
           /\ o.price * Due(m, o, s) \in Nat
  <1>1. m[Credits(s)] \in Nat /\ m[Plays(s)] \in Nat /\ o.price \in Nat
    BY CellTypes DEF Image, Options
  <1>2. /\ Due(m, o, s) \in Nat
        /\ o.price * Due(m, o, s) <= m[Credits(s)]
    BY <1>1, Quotient DEF Due
  <1>3. Room(m, s) \in Nat
    BY <1>1, ConstantTypes DEF Room
  <1>4. QED
    BY <1>1, <1>2, <1>3 DEF Granted

(* Conversions take the price each and give a play each while there is room. *)
LEMMA ApplySlotMoves ==
    ASSUME NEW m \in Image, NEW o \in Options, NEW s \in Chutes
    PROVE  LET n == ApplySlot(m, o, s)
           IN  /\ n \in Image
               /\ CreditSum(n) = CreditSum(m) - o.price * Due(m, o, s)
               /\ PlaySum(n) = PlaySum(m) + Granted(m, o, s)
               /\ n[Sold] = m[Sold] + Granted(m, o, s)
               /\ SameCells(m, n, MaskCells \cup CoinCells)
  <1> DEFINE d == o.price * Due(m, o, s)
             g == Granted(m, o, s)
             n == ApplySlot(m, o, s)
  <1>1. d \in Nat /\ d <= m[Credits(s)] /\ g \in Nat
    BY DueTypes
  <1>2. n = [m EXCEPT ![Credits(s)] = @ - d, ![Plays(s)] = @ + g, ![Sold] = @ + g]
    BY DEF ApplySlot
  <1> HIDE DEF d, g, n
  <1>3. n \in Image
    BY <1>1, <1>2 DEF Image, Cells, Chutes, Credits, Plays, Sold
  <1>4. CreditSum(n) = CreditSum(m) - d
    BY <1>1, <1>2 DEF Image, Cells, Chutes, Credits, Plays, Sold, CreditSum
  <1>5. PlaySum(n) = PlaySum(m) + g /\ n[Sold] = m[Sold] + g
    BY <1>1, <1>2 DEF Image, Cells, Chutes, Credits, Plays, Sold, PlaySum
  <1>6. SameCells(m, n, MaskCells \cup CoinCells)
    BY <1>1, <1>2 DEF Image, Cells, Chutes, Credits, Plays, Sold, SameCells,
         MaskCells, CoinCells, Mask, Coin
  <1>7. QED
    BY <1>3, <1>4, <1>5, <1>6 DEF d, g, n

(* What credit_apply takes without giving a play. *)
Taken(m, o, s) == IF o.free \/ (s = 1 /\ ~o.dual) THEN 0
                  ELSE Due(m, o, s) - Granted(m, o, s)
TakenInAll(m, o) == Taken(m, o, 0) + Taken(m, o, 1)

LEMMA CreditApplyMoves ==
    ASSUME NEW m \in Image, NEW o \in Options
    PROVE  LET n == CreditApply(m, o)
           IN  /\ n \in Image
               /\ TakenInAll(m, o) \in Nat
               /\ CreditSum(n)
                    + o.price * (n[Sold] - m[Sold] + TakenInAll(m, o))
                  = CreditSum(m)
               /\ PlaySum(n) = PlaySum(m) + n[Sold] - m[Sold]
               /\ SameCells(m, n, MaskCells \cup CoinCells)
  <1> DEFINE a == ApplySlot(m, o, 0)
             b == ApplySlot(a, o, 1)
             d0 == Due(m, o, 0)
             g0 == Granted(m, o, 0)
             d1 == Due(a, o, 1)
             g1 == Granted(a, o, 1)
  <1>1. /\ CreditSum(m) \in Nat /\ PlaySum(m) \in Nat /\ m[Sold] \in Nat
        /\ o.price \in Nat
    BY CellTypes DEF Image, Options, CreditSum, PlaySum, Chutes
  <1>2. /\ d0 \in Nat /\ g0 \in 0 .. d0 /\ o.price * d0 \in Nat
    BY DueTypes DEF Chutes
  <1>3. /\ a \in Image
        /\ CreditSum(a) = CreditSum(m) - o.price * d0
        /\ PlaySum(a) = PlaySum(m) + g0
        /\ a[Sold] = m[Sold] + g0
        /\ SameCells(m, a, MaskCells \cup CoinCells)
    BY ApplySlotMoves DEF Chutes
  <1>4. CASE o.free
    <2>1. CreditApply(m, o) = m /\ TakenInAll(m, o) = 0
      BY <1>4 DEF CreditApply, TakenInAll, Taken
    <2>2. o.price * (m[Sold] - m[Sold] + 0) = 0
      BY <1>1
    <2>3. QED
      BY <1>1, <2>1, <2>2 DEF SameCells
  <1>5. CASE ~o.free /\ ~o.dual
    <2>1. CreditApply(m, o) = a /\ TakenInAll(m, o) = d0 - g0
      BY <1>5, <1>2 DEF CreditApply, TakenInAll, Taken
    <2>2. a[Sold] - m[Sold] + (d0 - g0) = d0
      BY <1>1, <1>2, <1>3
    <2> HIDE DEF a, d0, g0
    <2>3. QED
      BY <1>1, <1>2, <1>3, <2>1, <2>2
  <1>6. CASE ~o.free /\ o.dual
    <2>1. /\ a[Credits(1)] = m[Credits(1)]
          /\ a[Plays(1)] = m[Plays(1)]
      BY DEF ApplySlot, Image, Cells, Credits, Plays, Sold
    <2>2. d1 = Due(m, o, 1) /\ g1 = Granted(m, o, 1)
      BY <2>1 DEF Due, Granted, Room
    <2>3. CreditApply(m, o) = b /\ TakenInAll(m, o) = (d0 - g0) + (d1 - g1)
      BY <1>6, <2>2 DEF CreditApply, TakenInAll, Taken
    <2>4. /\ d1 \in Nat /\ g1 \in 0 .. d1 /\ o.price * d1 \in Nat
      BY <1>3, DueTypes DEF Chutes
    <2>5. /\ b \in Image
          /\ CreditSum(b) = CreditSum(a) - o.price * d1
          /\ PlaySum(b) = PlaySum(a) + g1
          /\ b[Sold] = a[Sold] + g1
          /\ SameCells(a, b, MaskCells \cup CoinCells)
      BY <1>3, ApplySlotMoves DEF Chutes
    <2> HIDE DEF a, b, d0, g0, d1, g1
    <2>6. b[Sold] - m[Sold] + ((d0 - g0) + (d1 - g1)) = d0 + d1
      BY <1>1, <1>2, <1>3, <2>4, <2>5
    <2>7. o.price * (d0 + d1) = o.price * d0 + o.price * d1
      BY <1>1, <1>2, <2>4, Distributes
    <2>8. CreditSum(b) + o.price * (d0 + d1) = CreditSum(m)
      BY <1>1, <1>2, <1>3, <2>4, <2>5, <2>7
    <2>9. SameCells(m, b, MaskCells \cup CoinCells)
      BY <1>3, <2>5 DEF SameCells
    <2>10. QED
      BY <1>1, <1>2, <1>3, <2>3, <2>4, <2>5, <2>6, <2>8, <2>9
  <1>7. QED
    BY <1>4, <1>5, <1>6

-----------------------------------------------------------------------------
(* Bonus and Bumped of module Cabinet, for any image, options and mode. *)
BonusOf(m, o, edges, md, c) ==
    IF md # 4 /\ Counts(m, edges, c) /\ EarnsBonus(m, o, c) THEN 1 ELSE 0

BumpOf(m, o, svc, md, s) ==
    IF md # 4 /\ svc /\ s \in ServiceSlots(m, o) THEN 1 ELSE 0

(* What the frame's coins and its service key do before the conversions. *)
InputMoves(m, o, edges, svc, md) ==
    LET first   == ChuteSlot(m, o, edges, 0)
        scanned == Scanned(m, o, edges, md)
        ready   == Served(scanned, o, svc, md)
    IN  /\ ready \in Image
        /\ CreditSum(ready)
             = CreditSum(m) + o.val[0] * (ready[Coin(0)] - m[Coin(0)])
                            + o.val[1] * (ready[Coin(1)] - m[Coin(1)])
                            + BonusOf(m, o, edges, md, 0)
                            + BonusOf(first, o, edges, md, 1)
        /\ PlaySum(ready) = PlaySum(m) + BumpOf(scanned, o, svc, md, 0)
                                      + BumpOf(scanned, o, svc, md, 1)
        /\ SameCells(m, ready, MaskCells \cup {Sold})

LEMMA ReadyMoves ==
    ASSUME NEW m \in Image, NEW o \in Options, NEW edges, NEW svc \in BOOLEAN,
           NEW md
    PROVE  InputMoves(m, o, edges, svc, md)
  <1> DEFINE first   == ChuteSlot(m, o, edges, 0)
             second  == ChuteSlot(first, o, edges, 1)
             scanned == Scanned(m, o, edges, md)
             ready   == Served(scanned, o, svc, md)
             k0 == IF Counts(m, edges, 0) THEN 1 ELSE 0
             b0 == IF Counts(m, edges, 0) /\ EarnsBonus(m, o, 0) THEN 1 ELSE 0
             k1 == IF Counts(first, edges, 1) THEN 1 ELSE 0
             b1 == IF Counts(first, edges, 1) /\ EarnsBonus(first, o, 1)
                   THEN 1 ELSE 0
  <1>1. /\ CreditSum(m) \in Nat /\ PlaySum(m) \in Nat /\ m[Sold] \in Nat
        /\ m[Coin(0)] \in Nat /\ m[Coin(1)] \in Nat
        /\ o.val[0] \in Nat /\ o.val[1] \in Nat
    BY CellTypes DEF Image, Options, CreditSum, PlaySum, Chutes
  <1>2. /\ o.val[0] * (m[Coin(0)] - m[Coin(0)]) = 0
        /\ o.val[1] * (m[Coin(1)] - m[Coin(1)]) = 0
    BY <1>1
  <1>3. CASE md = 4
    <2>1. ready = m /\ scanned = m
      BY <1>3 DEF Scanned, Served
    <2> HIDE DEF ready, scanned, first
    <2>2. CreditSum(ready)
            = CreditSum(m) + o.val[0] * (ready[Coin(0)] - m[Coin(0)])
                           + o.val[1] * (ready[Coin(1)] - m[Coin(1)]) + 0 + 0
      BY <1>1, <1>2, <2>1
    <2>3. PlaySum(ready) = PlaySum(m) + 0 + 0
      BY <1>1, <2>1
    <2>4. ready \in Image /\ SameCells(m, ready, MaskCells \cup {Sold})
      BY <2>1 DEF SameCells
    <2>5. /\ BonusOf(m, o, edges, md, 0) = 0 /\ BonusOf(first, o, edges, md, 1) = 0
          /\ BumpOf(scanned, o, svc, md, 0) = 0 /\ BumpOf(scanned, o, svc, md, 1) = 0
      BY <1>3 DEF BonusOf, BumpOf
    <2>6. QED
      BY <2>2, <2>3, <2>4, <2>5 DEF ready, scanned, first, InputMoves
  <1>4. CASE md # 4
    <2>0. 0 \in Chutes /\ 1 \in Chutes
      BY DEF Chutes
    <2>1. /\ first \in Image
          /\ CreditSum(first) = CreditSum(m) + o.val[0] * k0 + b0
          /\ first[Coin(0)] = m[Coin(0)] + k0
          /\ SameCells(m, first, Untouched(0))
      BY <2>0, ChuteSlotMoves
    <2> HIDE DEF first
    <2>2. /\ second \in Image
          /\ CreditSum(second) = CreditSum(first) + o.val[1] * k1 + b1
          /\ second[Coin(1)] = first[Coin(1)] + k1
          /\ SameCells(first, second, Untouched(1))
      BY <2>0, <2>1, ChuteSlotMoves
    <2>16. first[Coin(1)] = m[Coin(1)] /\ second[Coin(0)] = first[Coin(0)]
      BY <2>1, <2>2 DEF SameCells, Untouched, CoinCells, Coin
    <2>3. scanned = second
      BY <1>4 DEF Scanned, ChuteScan, first
    <2>4. PlaySum(second) = PlaySum(m)
      BY <2>1, <2>2 DEF SameCells, PlaySum, PlayCells, Untouched
    <2>5. /\ second[Sold] = m[Sold]
          /\ SameCells(m, second, MaskCells)
      BY <2>1, <2>2 DEF SameCells, Untouched
    <2>6. /\ ready \in Image
          /\ CreditSum(ready) = CreditSum(second)
          /\ ready[Coin(0)] = second[Coin(0)] /\ ready[Coin(1)] = second[Coin(1)]
          /\ ready[Sold] = second[Sold]
          /\ SameCells(second, ready, MaskCells)
          /\ PlaySum(ready)
               = PlaySum(second)
                 + (IF svc /\ 0 \in ServiceSlots(second, o) THEN 1 ELSE 0)
                 + (IF svc /\ 1 \in ServiceSlots(second, o) THEN 1 ELSE 0)
      <3>1. PlaySum(second) \in Nat
        BY <1>1, <2>4
      <3>2. CASE svc
        BY <1>4, <2>2, <2>3, <3>2, ServiceMoves
          DEF Served, SameCells, CoinCells, CreditCells, CreditSum
      <3>3. CASE ~svc
        BY <2>2, <2>3, <3>1, <3>3 DEF Served, SameCells
      <3>4. QED
        BY <3>2, <3>3
    <2>7. ready[Coin(0)] - m[Coin(0)] = k0 /\ ready[Coin(1)] - m[Coin(1)] = k1
      BY <1>1, <2>1, <2>2, <2>6, <2>16
    <2>8. SameCells(m, ready, MaskCells \cup {Sold})
      BY <2>5, <2>6 DEF SameCells
    <2>9. o.val[0] * k0 \in Nat /\ o.val[1] * k1 \in Nat
      BY <1>1
    <2>12. b0 = BonusOf(m, o, edges, md, 0) /\ b1 = BonusOf(first, o, edges, md, 1)
      BY <1>4 DEF BonusOf
    <2>13. /\ PlaySum(ready)
                = PlaySum(m) + BumpOf(scanned, o, svc, md, 0) + BumpOf(scanned, o, svc, md, 1)
           /\ ready[Sold] = m[Sold]
      BY <1>4, <2>3, <2>4, <2>5, <2>6 DEF BumpOf
    <2>15. k0 \in Nat /\ k1 \in Nat /\ b0 \in Nat /\ b1 \in Nat
      OBVIOUS
    <2> HIDE DEF second, ready, scanned, first, k0, k1, b0, b1
    <2>10. CreditSum(ready) = CreditSum(m) + o.val[0] * k0 + o.val[1] * k1 + b0 + b1
      BY <1>1, <2>1, <2>2, <2>6, <2>9, <2>15
    <2>14. b0 \in Nat /\ b1 \in Nat
      BY <2>15
    <2>11. QED
      BY <1>1, <2>6, <2>7, <2>8, <2>9, <2>10, <2>12, <2>13, <2>14
        DEF ready, scanned, first, InputMoves
  <1>5. QED
    BY <1>3, <1>4

-----------------------------------------------------------------------------
Bookkeeping == CabinetTypeOK /\ BooksBalance /\ AlwaysUsable

Loadable == [loaded : BOOLEAN, has : BOOLEAN, opt : Stored, word : {0, 36}]

Ledger == [boots : Nat, base : Image, spent : Nat, served : Nat,
           swallowed : Nat, bonuses : Nat, failed : BOOLEAN]

(* The records and images the state is made of. *)
LEMMA ValueTypes ==
    /\ NoOptions \in Options /\ DefaultOptions \in Options
    /\ ZeroImage \in Image
    /\ NoSettings \in Loadable
    /\ \A o \in Options : Settings(o) \in Stored
    /\ \A b \in Nat, m \in Image :
         NewBooks(b, m) \in Ledger
  <1>1. NoOptions \in Options
    BY DEF NoOptions, Options
  <1>2. DefaultOptions \in Options
    BY DEF DefaultOptions, Options
  <1>3. ZeroImage \in Image
    BY DEF ZeroImage, Image
  <1>4. \A o \in Options : Settings(o) \in Stored
    BY DEF Settings, Options, Stored
  <1>5. \A b \in Nat, m \in Image :
         NewBooks(b, m) \in Ledger
    BY DEF NewBooks, Ledger
  <1>6. NoSettings \in Loadable
    BY <1>1, <1>4 DEF NoSettings, Loadable
  <1>7. QED
    BY <1>1, <1>2, <1>3, <1>4, <1>5, <1>6

(* A reset keeps the image an image and wires both chutes. *)
LEMMA ResetWires ==
    ASSUME NEW m \in Image
    PROVE  SramReset(m) \in Image /\ SramReset(m)[Mask(0)] = 1
  BY DEF SramReset, SwitchBit, Image, Cells, Chutes, Mask, Credits, Plays

(* Validation leaves valid options only. *)
LEMMA ValidatedIsValid ==
    ASSUME NEW o \in Options
    PROVE  Validated(o) \in Options /\ OptionsValid(Validated(o))
  BY ValueTypes DEF Validated, OptionsValid, DefaultOptions, Chutes

LEMMA InitBookkeeping == Init => Bookkeeping
  <1> SUFFICES ASSUME Init PROVE Bookkeeping
    OBVIOUS
  <1>1. file \in Files
    BY ConstantTypes DEF Init
  <1>2. CabinetTypeOK
    BY <1>1, ValueTypes DEF Init, CabinetTypeOK, Steps, Chutes, Loadable, Ledger
  <1>3. ~Running
    BY DEF Init, Running
  <1>4. QED
    BY <1>2, <1>3 DEF Bookkeeping, BooksBalance, AlwaysUsable

(* With the books just opened everything is where it was. *)
LEMMA FreshBooksBalance ==
    ASSUME NEW m \in Image, NEW b \in Nat, opt' \in Options,
           sram' = m, books' = NewBooks(b, m)
    PROVE  CreditsBalance' /\ PlaysBalance'
  <1>1. /\ m[Credits(0)] \in Nat /\ m[Credits(1)] \in Nat
        /\ m[Plays(0)] \in Nat /\ m[Plays(1)] \in Nat
        /\ m[Coin(0)] \in Nat /\ m[Coin(1)] \in Nat /\ m[Sold] \in Nat
    BY CellTypes DEF Image, Chutes
  <1>2. opt.price' \in Nat /\ opt.val'[0] \in Nat /\ opt.val'[1] \in Nat
    BY DEF Options, Chutes
  <1>3. /\ opt.price' * (m[Sold] - m[Sold] + 0) = 0
        /\ opt.val'[0] * (m[Coin(0)] - m[Coin(0)]) = 0
        /\ opt.val'[1] * (m[Coin(1)] - m[Coin(1)]) = 0
    BY <1>1, <1>2
  <1>4. QED
    BY <1>1, <1>2, <1>3 DEF CreditsBalance, PlaysBalance, NewBooks

-----------------------------------------------------------------------------
(* Loading a file gives settings and an image, whatever the file's length. *)
LEMMA LoadTypes ==
    ASSUME NEW f \in Files
    PROVE  /\ LoadedSettings(f) \in Loadable
           /\ LoadedImage(f) \in Image
  <1>1. /\ f.opt \in Stored /\ f.word \in {0, 36} /\ f.image \in Image
        /\ f.n \in -1 .. Full
    BY DEF Files
  <1>2. LoadedImage(f) \in Image
    BY <1>1 DEF LoadedImage, Image
  <1>3. LoadedSettings(f).opt \in Stored
    BY <1>1 DEF LoadedSettings, Stored
  <1>4. QED
    BY <1>1, <1>2, <1>3 DEF LoadedSettings, Loadable

LEMMA PowerOnKeeps == Bookkeeping /\ PowerOn => Bookkeeping'
  <1> SUFFICES ASSUME Bookkeeping, PowerOn PROVE Bookkeeping'
    OBVIOUS
  <1>1. books.boots + 1 \in Nat
    BY DEF Bookkeeping, CabinetTypeOK
  <1>2. CabinetTypeOK'
    BY <1>1, LoadTypes, ValueTypes
      DEF Bookkeeping, CabinetTypeOK, PowerOn, Steps, Loadable, Ledger
  <1>3. ~Running'
    BY DEF PowerOn, Running
  <1>4. QED
    BY <1>2, <1>3 DEF Bookkeeping, BooksBalance, AlwaysUsable

LEMMA BootKeeps == Bookkeeping /\ Boot => Bookkeeping'
  <1> SUFFICES ASSUME Bookkeeping, Boot PROVE Bookkeeping'
    OBVIOUS
  <1> USE DEF Bookkeeping, CabinetTypeOK
  <1>1. \A o \in Options : ApplyOptions(o) \in Options
    BY DEF ApplyOptions, Options, Stored
  <1>2. BootOptions \in Options /\ OptionsValid(BootOptions)
    BY <1>1, ValueTypes, ValidatedIsValid DEF BootOptions
  <1>3. BootImage \in Image /\ BootImage[Mask(0)] # 0
    BY ResetWires DEF BootImage
  <1>4. books.boots \in Nat
    OBVIOUS
  <1>5. CabinetTypeOK'
    BY <1>2, <1>3, <1>4, ValueTypes DEF Boot, Steps, Ledger
  <1>6. BooksBalance'
    BY <1>2, <1>3, <1>4, FreshBooksBalance DEF Boot, BooksBalance
  <1>7. AlwaysUsable'
    BY <1>2, <1>3 DEF Boot, AlwaysUsable
  <1>8. QED
    BY <1>5, <1>6, <1>7

(* Spending moves plays from the slot to the book of spent ones. *)
LEMMA StartGameKeeps == Bookkeeping /\ StartGame => Bookkeeping'
  <1> SUFFICES ASSUME Bookkeeping, StartGame PROVE Bookkeeping'
    OBVIOUS
  <1> DEFINE d == sram[Plays(0)] - sram'[Plays(0)]
  <1>1. /\ CabinetTypeOK /\ BooksBalance /\ AlwaysUsable
        /\ pc = "dispatch" /\ Running /\ opt.unit \in Nat
    BY DEF Bookkeeping, StartGame, Running, CabinetTypeOK, Options
  <1>2. sram \in Image /\ sram[Plays(0)] \in Nat /\ sram[Plays(1)] \in Nat
    BY <1>1, CellTypes DEF CabinetTypeOK, Image, Chutes
  <1>3. /\ sram' \in Image
        /\ d \in Nat
        /\ SameCells(sram, sram', Cells \ {Plays(0)})
    <2>1. CASE opt.free \/ sram[Plays(0)] < opt.unit
      BY <1>2, <2>1 DEF StartGame, CreditSpend, SameCells
    <2>2. CASE ~opt.free /\ ~(sram[Plays(0)] < opt.unit)
      BY <1>1, <1>2, <2>2 DEF StartGame, CreditSpend, SameCells, Image, Cells,
           Plays
    <2>3. QED
      BY <2>1, <2>2
  <1> DEFINE kept == {Credits(0), Credits(1), Coin(0), Coin(1), Sold, Plays(1),
                      Mask(0)}
  <1>4. \A i \in kept : sram'[i] = sram[i]
    BY <1>3 DEF SameCells, Cells, Credits, Coin, Sold, Plays, Mask
  <1>5. /\ opt' = opt
        /\ books' = [books EXCEPT !.spent = @ + d]
    BY DEF StartGame
  <1>6. books.spent \in Nat
    BY <1>1 DEF CabinetTypeOK
  <1>7. CabinetTypeOK'
    <2>1. mode' = 3 /\ pc' = "vsync"
          /\ UNCHANGED <<held, service, start, nv, file>>
      BY DEF StartGame
    <2> HIDE DEF d
    <2>2. QED
      BY <1>1, <1>3, <1>5, <1>6, <2>1 DEF CabinetTypeOK, Steps
  <1>8. CreditsBalance'
    BY <1>1, <1>4, <1>5 DEF BooksBalance, CreditsBalance, CabinetTypeOK
  <1>9. PlaysBalance'
    <2>1. PlaysBalance
      BY <1>1 DEF BooksBalance
    <2>2. /\ books'.spent = books.spent + d
          /\ books'.base = books.base /\ books'.served = books.served
      BY <1>1, <1>5 DEF CabinetTypeOK
    <2>3. sram'[Plays(0)] \in Nat
      BY <1>3, CellTypes DEF Image, Chutes
    <2>4. sram'[Plays(0)] + sram'[Plays(1)] + books'.spent
          = sram[Plays(0)] + sram[Plays(1)] + books.spent
      BY <1>2, <1>4, <1>6, <2>2, <2>3
    <2>5. sram'[Sold] = sram[Sold]
      BY <1>4
    <2>6. QED
      BY <2>1, <2>2, <2>4, <2>5 DEF PlaysBalance
  <1>10. AlwaysUsable'
    BY <1>1, <1>4, <1>5 DEF AlwaysUsable
  <1>11. QED
    BY <1>7, <1>8, <1>9, <1>10 DEF Bookkeeping, BooksBalance

(* Steps that touch neither the image, the options nor the books. *)
LEMMA QuietKeeps ==
    ASSUME Bookkeeping, Running, CabinetTypeOK', UNCHANGED <<opt, sram, books>>
    PROVE  Bookkeeping'
  BY DEF Bookkeeping, BooksBalance, AlwaysUsable, CreditsBalance, PlaysBalance

LEMMA RunModeKeeps == Bookkeeping /\ RunMode => Bookkeeping'
  <1> SUFFICES ASSUME Bookkeeping, RunMode PROVE Bookkeeping'
    OBVIOUS
  <1>1. mode' \in {0, 2, 3, 4}
    BY DEF RunMode, NextMode, Bookkeeping, CabinetTypeOK
  <1>2. CabinetTypeOK'
    BY <1>1 DEF Bookkeeping, CabinetTypeOK, RunMode, Steps
  <1>3. Running /\ UNCHANGED <<opt, sram, books>>
    BY DEF RunMode, Running
  <1>4. QED
    BY <1>2, <1>3, QuietKeeps

LEMMA PollKeeps == Bookkeeping /\ Poll => Bookkeeping'
  <1> SUFFICES ASSUME Bookkeeping, Poll PROVE Bookkeeping'
    OBVIOUS
  <1>1. CabinetTypeOK'
    BY DEF Bookkeeping, CabinetTypeOK, Poll, Steps
  <1>2. Running /\ UNCHANGED <<opt, sram, books>>
    BY DEF Poll, Running
  <1>3. QED
    BY <1>1, <1>2, QuietKeeps

(* A number that is cut off is still a number. *)
LEMMA CutNumberType == \A v \in Nat : CutNumber(v) \subseteq Nat
  BY DEF CutNumber

(* A cell whose last bytes are missing, or that reads as an address, too.  *)
LEMMA TornIsFile ==
    ASSUME NEW f \in Files, NEW g, Torn(f, g)
    PROVE  g \in Files /\ g.word \in {0, f.word}
  <1>1. /\ f.opt \in Stored /\ f.word \in {0, 36} /\ f.image \in Image
        /\ f.n \in -1 .. Full
        /\ f.opt.unit \in Nat /\ f.opt.price \in Nat /\ f.opt.bonus \in Nat
    BY DEF Files, Stored
  <1>2. CASE \E o \in Stored : g = [f EXCEPT !.opt = o]
    BY <1>1, <1>2 DEF Files
  <1>3. CASE g = [f EXCEPT !.word = 0]
    BY <1>1, <1>3 DEF Files
  <1>4. CASE \E i \in Cells, v \in Nat : g = [f EXCEPT !.image[i] = v]
    BY <1>1, <1>4 DEF Files, Image
  <1>5. CASE f.n = 2 /\ g = [f EXCEPT !.opt.free = FALSE, !.opt.dual = TRUE]
    <2>1. [f.opt EXCEPT !.free = FALSE, !.dual = TRUE] \in Stored
      BY <1>1 DEF Stored
    <2>2. QED
      BY <1>2, <1>5, <2>1 DEF Files
  <1>6. CASE \E v \in Nat : \/ g = [f EXCEPT !.opt.unit = v]
                             \/ g = [f EXCEPT !.opt.price = v]
                             \/ g = [f EXCEPT !.opt.bonus = v]
    <2>1. PICK v \in Nat : \/ g = [f EXCEPT !.opt = [f.opt EXCEPT !.unit = v]]
                           \/ g = [f EXCEPT !.opt = [f.opt EXCEPT !.price = v]]
                           \/ g = [f EXCEPT !.opt = [f.opt EXCEPT !.bonus = v]]
      BY <1>6 DEF Files
    <2>2. /\ [f.opt EXCEPT !.unit = v] \in Stored
          /\ [f.opt EXCEPT !.price = v] \in Stored
          /\ [f.opt EXCEPT !.bonus = v] \in Stored
      BY <1>1 DEF Stored
    <2>3. QED
      BY <1>2, <2>1, <2>2
  <1>7. CASE TornCell(f, g)
    <2>1. PICK b \in {256, 65536, 16777216} :
            g = [f EXCEPT !.image[f.n - Keys] = f.image[f.n - Keys] % b]
      BY <1>7 DEF TornCell
    <2>2. f.n - Keys \in Cells
      BY <1>7 DEF TornCell
    <2>3. f.image[f.n - Keys] \in Nat
      BY <1>1, <2>2 DEF Image
    <2>4. f.image[f.n - Keys] % b \in Nat
      BY <2>3
    <2>5. QED
      BY <1>4, <2>1, <2>2, <2>4
  <1>8. CASE TornAddress(f, g)
    <2>1. f.n - Keys \in Cells /\ AddressRead(f.n - Keys) \in Nat
      BY <1>8 DEF TornAddress, LineCells, AddressRead, Cells, Coin, Credits
    <2>2. QED
      BY <1>4, <1>8, <2>1 DEF TornAddress
  <1>9. CASE TornSetting(f, g)
    <2>1. /\ CutNumber(f.opt.unit) \subseteq Nat
          /\ CutNumber(f.opt.price) \subseteq Nat
          /\ CutNumber(f.opt.bonus) \subseteq Nat
      BY <1>1, CutNumberType
    <2>2. QED
      BY <1>3, <1>5, <1>6, <1>9, <2>1 DEF TornSetting
  <1>10. QED
    BY <1>7, <1>8, <1>9 DEF Torn

(* What F3 captures. *)
LEMMA CapturedTypes ==
    ASSUME CabinetTypeOK, NEW ok \in BOOLEAN
    PROVE  Captured(ok) \in Loadable
  <1>1. Settings(opt) \in Stored /\ nv.loaded \in BOOLEAN
    BY ValueTypes DEF CabinetTypeOK
  <1>2. QED
    BY <1>1 DEF Captured, Loadable

(* A save, complete or not, leaves a file; one made before the boot leaves *)
(* no mode word in it, unless it leaves the file alone.                    *)
LEMMA SaveTypes ==
    ASSUME CabinetTypeOK, NEW ok \in BOOLEAN, Save(ok)
    PROVE  /\ file' \in Files
           /\ ok /\ pc = "loaded" => file'.word = 0
  <1>1. CASE ~ok
    BY <1>1 DEF Save, CabinetTypeOK
  <1>2. CASE ok
    <2> DEFINE f(n) == [n |-> n, opt |-> Captured(ok).opt, word |-> Captured(ok).word,
                        image |-> [i \in Cells |-> IF Keys + i <= n THEN sram[i] ELSE 0]]
    <2>1. PICK n \in Cuts \cup {Full} : file' = f(n) \/ Torn(f(n), file')
      BY <1>2 DEF Save
    <2>2. /\ Captured(ok).opt \in Stored /\ Captured(ok).word \in {0, 36}
          /\ pc = "loaded" => Captured(ok).word = 0
      BY CapturedTypes DEF Captured, Loadable
    <2>3. n \in -1 .. Full
      BY ConstantTypes DEF Full, Keys
    <2>4. [i \in Cells |-> IF Keys + i <= n THEN sram[i] ELSE 0] \in Image
      BY DEF CabinetTypeOK, Image
    <2>5. f(n) \in Files /\ f(n).word = Captured(ok).word
      BY <2>2, <2>3, <2>4 DEF Files
    <2> HIDE DEF f
    <2>6. QED
      BY <2>1, <2>2, <2>5, TornIsFile
  <1>3. QED
    BY <1>1, <1>2

LEMMA SaveKeyKeeps == Bookkeeping /\ SaveKey => Bookkeeping'
  <1> SUFFICES ASSUME Bookkeeping, SaveKey PROVE Bookkeeping'
    OBVIOUS
  <1>1. PICK ok \in BOOLEAN :
          /\ Save(ok)
          /\ nv' = Captured(ok)
          /\ books' = [books EXCEPT !.failed = @ \/ (pc = "loaded" /\ ~ok)]
    BY DEF SaveKey
  <1>2. UNCHANGED <<pc, mode, opt, sram, held, service, start>>
    BY DEF SaveKey, game
  <1>3. file' \in Files /\ nv' \in Loadable
    BY <1>1, SaveTypes, CapturedTypes DEF Bookkeeping
  <1>4. /\ books' \in Ledger
        /\ books'.base = books.base /\ books'.spent = books.spent
        /\ books'.served = books.served /\ books'.swallowed = books.swallowed
        /\ books'.bonuses = books.bonuses
    <2>1. books \in Ledger
      BY DEF Bookkeeping, CabinetTypeOK, Ledger
    <2>2. (books.failed \/ (pc = "loaded" /\ ~ok)) \in BOOLEAN
      BY <2>1 DEF Ledger
    <2>3. QED
      BY <1>1, <2>1, <2>2 DEF Ledger
  <1>5. CabinetTypeOK'
    BY <1>2, <1>3, <1>4 DEF Bookkeeping, CabinetTypeOK, Loadable, Ledger
  <1>6. QED
    BY <1>2, <1>4, <1>5 DEF Bookkeeping, BooksBalance, AlwaysUsable, Running,
         CreditsBalance, PlaysBalance

LEMMA OffKeeps ==
    ASSUME Bookkeeping, Off, file' \in Files
    PROVE  Bookkeeping'
  <1>1. CabinetTypeOK'
    BY ValueTypes DEF Bookkeeping, CabinetTypeOK, Off, Steps, Loadable, Ledger
  <1>2. ~Running'
    BY DEF Off, Running
  <1>3. QED
    BY <1>1, <1>2 DEF Bookkeeping, BooksBalance, AlwaysUsable

(* The books note down exactly what the coin frame did to the image. *)
LEMMA VsyncKeeps == Bookkeeping /\ Vsync => Bookkeeping'
  <1> SUFFICES ASSUME Bookkeeping, Vsync PROVE Bookkeeping'
    OBVIOUS
  <1>1. PICK down \in SUBSET Chutes :
          /\ held' = down
          /\ sram' = CoinFrame(sram, opt, held \ down, service, mode)
          /\ books' = CoinBooks(held \ down)
    BY DEF Vsync
  <1> DEFINE edges   == held \ down
             scanned == Scanned(sram, opt, edges, mode)
             ready   == Served(scanned, opt, service, mode)
             b == Bonus(sram, edges, 0) + Bonus(ChuteSlot(sram, opt, edges, 0), edges, 1)
             v == Bumped(scanned, 0) + Bumped(scanned, 1)
             t == Swallowed(ready, 0) + Swallowed(ready, 1)
             base == books.base
             val0 == opt.val[0]
             val1 == opt.val[1]
  <1>2. /\ CabinetTypeOK /\ Running /\ CreditsBalance /\ PlaysBalance
        /\ AlwaysUsable /\ Running' /\ opt' = opt
    BY DEF Bookkeeping, BooksBalance, Vsync, Running
  <1>3. /\ sram \in Image /\ opt \in Options /\ base \in Image
        /\ books.spent \in Nat /\ books.served \in Nat
        /\ books.swallowed \in Nat /\ books.bonuses \in Nat
        /\ service \in BOOLEAN
    BY <1>2 DEF CabinetTypeOK
  <1>4. /\ val0 \in Nat /\ val1 \in Nat /\ opt.price \in Nat
        /\ CreditSum(sram) \in Nat /\ PlaySum(sram) \in Nat
        /\ CreditSum(base) \in Nat /\ PlaySum(base) \in Nat
        /\ sram[Sold] \in Nat /\ base[Sold] \in Nat
        /\ sram[Coin(0)] \in Nat /\ sram[Coin(1)] \in Nat
        /\ base[Coin(0)] \in Nat /\ base[Coin(1)] \in Nat
    BY <1>3, CellTypes DEF Options, Image, Chutes, CreditSum, PlaySum
  <1>5. /\ ready \in Image
        /\ CreditSum(ready)
             = CreditSum(sram) + val0 * (ready[Coin(0)] - sram[Coin(0)])
                               + val1 * (ready[Coin(1)] - sram[Coin(1)]) + b
        /\ PlaySum(ready) = PlaySum(sram) + v
        /\ ready[Sold] = sram[Sold]
        /\ SameCells(sram, ready, MaskCells)
        /\ b \in Nat /\ v \in Nat
    <2>2. Bonus(sram, edges, 0) \in Nat
          /\ Bonus(ChuteSlot(sram, opt, edges, 0), edges, 1) \in Nat
      BY DEF Bonus
    <2>3. Bumped(scanned, 0) \in Nat /\ Bumped(scanned, 1) \in Nat
      BY DEF Bumped
    <2> DEFINE first == ChuteSlot(sram, opt, edges, 0)
    <2>1. /\ \A c : BonusOf(sram, opt, edges, mode, c) = Bonus(sram, edges, c)
          /\ \A c : BonusOf(first, opt, edges, mode, c) = Bonus(first, edges, c)
          /\ \A s : BumpOf(scanned, opt, service, mode, s) = Bumped(scanned, s)
      BY DEF Bonus, BonusOf, Bumped, BumpOf
    <2> HIDE DEF edges
    <2>10. /\ ready \in Image
           /\ CreditSum(ready)
                = CreditSum(sram) + val0 * (ready[Coin(0)] - sram[Coin(0)])
                                  + val1 * (ready[Coin(1)] - sram[Coin(1)])
                  + BonusOf(sram, opt, edges, mode, 0)
                  + BonusOf(first, opt, edges, mode, 1)
           /\ PlaySum(ready) = PlaySum(sram) + BumpOf(scanned, opt, service, mode, 0)
                                            + BumpOf(scanned, opt, service, mode, 1)
           /\ SameCells(sram, ready, MaskCells \cup {Sold})
      <3>1. InputMoves(sram, opt, edges, service, mode)
        BY <1>3, ReadyMoves
      <3>2. QED
        BY <3>1 DEF InputMoves
    <2>4. ready \in Image /\ ready[Sold] = sram[Sold]
          /\ SameCells(sram, ready, MaskCells)
      BY <2>10 DEF SameCells
    <2> HIDE DEF ready, scanned, val0, val1
    <2>5. CreditSum(ready)
             = CreditSum(sram) + val0 * (ready[Coin(0)] - sram[Coin(0)])
                               + val1 * (ready[Coin(1)] - sram[Coin(1)])
               + Bonus(sram, edges, 0) + Bonus(first, edges, 1)
      BY <2>1, <2>10
    <2>6. PlaySum(ready) = PlaySum(sram) + Bumped(scanned, 0) + Bumped(scanned, 1)
      BY <2>1, <2>10
    <2>7. ready[Coin(0)] \in Nat /\ ready[Coin(1)] \in Nat
      BY <2>4, CellTypes DEF Image, Chutes
    <2>8. /\ val0 * (ready[Coin(0)] - sram[Coin(0)]) \in Int
          /\ val1 * (ready[Coin(1)] - sram[Coin(1)]) \in Int
      BY <1>4, <2>7
    <2>9. QED
      BY <1>4, <2>2, <2>3, <2>4, <2>5, <2>6, <2>8
  <1>6. /\ sram' \in Image
        /\ t \in Nat
        /\ CreditSum(sram') + opt.price * (sram'[Sold] - ready[Sold] + t)
             = CreditSum(ready)
        /\ PlaySum(sram') = PlaySum(ready) + sram'[Sold] - ready[Sold]
        /\ SameCells(ready, sram', MaskCells \cup CoinCells)
    <2>1. sram' = CreditApply(ready, opt)
      BY <1>1 DEF CoinFrame
    <2>2. t = TakenInAll(ready, opt)
      BY DEF TakenInAll, Taken, Swallowed
    <2> HIDE DEF ready, t
    <2>3. QED
      BY <1>3, <1>5, <2>1, <2>2, CreditApplyMoves
  <1>7. /\ books'.bonuses = books.bonuses + b
        /\ books'.served = books.served + v
        /\ books'.swallowed = books.swallowed + t
        /\ books'.spent = books.spent /\ books'.base = base
        /\ books' \in Ledger
    <2>1. books' = [books EXCEPT
                      !.bonuses = books.bonuses + Bonus(sram, edges, 0)
                           + Bonus(ChuteSlot(sram, opt, edges, 0), edges, 1),
                      !.served = books.served + Bumped(scanned, 0)
                                              + Bumped(scanned, 1),
                      !.swallowed = books.swallowed + Swallowed(ready, 0)
                                                    + Swallowed(ready, 1)]
      BY <1>1 DEF CoinBooks
    <2>2. /\ Bonus(sram, edges, 0) \in Nat
          /\ Bonus(ChuteSlot(sram, opt, edges, 0), edges, 1) \in Nat
          /\ Bumped(scanned, 0) \in Nat /\ Bumped(scanned, 1) \in Nat
      BY DEF Bonus, Bumped
    <2>3. Swallowed(ready, 0) \in Int /\ Swallowed(ready, 1) \in Int
      <3>1. \A s \in Chutes : /\ Due(ready, opt, s) \in Nat
                              /\ Granted(ready, opt, s) \in Nat
        BY <1>3, <1>5, DueTypes
      <3>2. QED
        BY <3>1 DEF Swallowed, Chutes
    <2> DEFINE b0 == Bonus(sram, edges, 0)
               b1 == Bonus(ChuteSlot(sram, opt, edges, 0), edges, 1)
               v0 == Bumped(scanned, 0)
               v1 == Bumped(scanned, 1)
               t0 == Swallowed(ready, 0)
               t1 == Swallowed(ready, 1)
    <2>4. /\ b = b0 + b1 /\ v = v0 + v1 /\ t = t0 + t1
          /\ b0 \in Nat /\ b1 \in Nat /\ v0 \in Nat /\ v1 \in Nat
          /\ t0 \in Int /\ t1 \in Int
      BY <2>2, <2>3
    <2>5. books \in Ledger
      BY <1>2 DEF CabinetTypeOK, Ledger
    <2> HIDE DEF b0, b1, v0, v1, t0, t1, b, v, t
    <2>6. /\ books.bonuses + b0 + b1 = books.bonuses + b
          /\ books.served + v0 + v1 = books.served + v
          /\ books.swallowed + t0 + t1 = books.swallowed + t
      BY <1>3, <2>4
    <2>7. books' = [books EXCEPT !.bonuses = books.bonuses + b,
                                 !.served = books.served + v,
                                 !.swallowed = books.swallowed + t]
      BY <2>1, <2>6 DEF b0, b1, v0, v1, t0, t1
    <2>8. /\ books.bonuses + b \in Nat /\ books.served + v \in Nat
          /\ books.swallowed + t \in Nat
      BY <1>3, <1>5, <1>6
    <2>9. QED
      BY <2>5, <2>7, <2>8 DEF Ledger
  <1> HIDE DEF edges, scanned, ready, b, v, t, val0, val1
  <1>8. /\ ready[Coin(0)] = sram'[Coin(0)] /\ ready[Coin(1)] = sram'[Coin(1)]
        /\ sram'[Mask(0)] = sram[Mask(0)]
    BY <1>5, <1>6 DEF SameCells, CoinCells, MaskCells
  <1>9. /\ CreditSum(sram') \in Nat /\ PlaySum(sram') \in Nat
        /\ sram'[Sold] \in Nat
        /\ sram'[Coin(0)] \in Nat /\ sram'[Coin(1)] \in Nat
    BY <1>6, CellTypes DEF Image, Chutes, CreditSum, PlaySum
  <1>10. CabinetTypeOK'
    BY <1>1, <1>2, <1>6, <1>7 DEF CabinetTypeOK, Vsync, Steps, Ledger
  <1>11. CreditsBalance'
    <2> DEFINE p == opt.price
               x == sram[Sold] - base[Sold] + books.swallowed
               dx == sram'[Sold] - sram[Sold] + t
               m0 == sram[Coin(0)] - base[Coin(0)]
               d0 == sram'[Coin(0)] - sram[Coin(0)]
               m1 == sram[Coin(1)] - base[Coin(1)]
               d1 == sram'[Coin(1)] - sram[Coin(1)]
    <2>1. /\ x \in Int /\ dx \in Int /\ m0 \in Int /\ d0 \in Int
          /\ m1 \in Int /\ d1 \in Int /\ p \in Int
      BY <1>3, <1>4, <1>6, <1>9
    <2>2. CreditSum(sram) + p * x
          = CreditSum(base) + books.bonuses + val0 * m0 + val1 * m1
      BY <1>2, <1>3 DEF CreditsBalance, CreditSum, val0, val1
    <2>3. CreditSum(sram') + p * dx
          = CreditSum(sram) + val0 * d0 + val1 * d1 + b
      BY <1>5, <1>6, <1>8
    <2>4. /\ sram'[Sold] - base[Sold] + books'.swallowed = x + dx
          /\ sram'[Coin(0)] - base[Coin(0)] = m0 + d0
          /\ sram'[Coin(1)] - base[Coin(1)] = m1 + d1
      BY <1>3, <1>4, <1>6, <1>7, <1>9
    <2>5. /\ p * (x + dx) = p * x + p * dx
          /\ val0 * (m0 + d0) = val0 * m0 + val0 * d0
          /\ val1 * (m1 + d1) = val1 * m1 + val1 * d1
      BY <1>4, <2>1, Distributes
    <2>6. /\ p * x \in Int /\ p * dx \in Int /\ val0 * m0 \in Int
          /\ val0 * d0 \in Int /\ val1 * m1 \in Int /\ val1 * d1 \in Int
      BY <1>4, <2>1
    <2>7. CreditSum(sram') + p * (x + dx)
          = CreditSum(base) + books'.bonuses + val0 * (m0 + d0) + val1 * (m1 + d1)
      <3> HIDE DEF p, x, dx, m0, d0, m1, d1
      <3> QED
        BY <1>3, <1>4, <1>5, <1>7, <1>9, <2>2, <2>3, <2>5, <2>6
    <2>8. QED
      BY <1>2, <1>7, <2>4, <2>7 DEF CreditsBalance, CreditSum, val0, val1
  <1>12. PlaysBalance'
    <2>1. PlaySum(sram) + books.spent
          = PlaySum(base) + books.served + sram[Sold] - base[Sold]
      BY <1>2 DEF PlaysBalance, PlaySum
    <2>2. /\ PlaySum(sram') = PlaySum(sram) + v + sram'[Sold] - sram[Sold]
          /\ books'.spent = books.spent /\ books'.served = books.served + v
      BY <1>4, <1>5, <1>6, <1>7, <1>9
    <2>5. /\ PlaySum(sram) \in Int /\ PlaySum(base) \in Int /\ PlaySum(sram') \in Int
          /\ sram[Sold] \in Int /\ base[Sold] \in Int /\ sram'[Sold] \in Int
          /\ books.spent \in Int /\ books.served \in Int /\ v \in Int
      BY <1>3, <1>4, <1>5, <1>9
    <2>3. PlaySum(sram') + books'.spent
          = PlaySum(base) + books'.served + sram'[Sold] - base[Sold]
      <3>1. PlaySum(sram) + v + sram'[Sold] - sram[Sold] + books.spent
            = PlaySum(base) + (books.served + v) + sram'[Sold] - base[Sold]
        BY <2>1, <2>5
      <3>2. QED
        BY <2>2, <3>1
    <2>4. QED
      BY <1>7, <2>3 DEF PlaysBalance, PlaySum
  <1>13. AlwaysUsable'
    BY <1>2, <1>8 DEF AlwaysUsable
  <1>14. QED
    BY <1>10, <1>11, <1>12, <1>13 DEF Bookkeeping, BooksBalance

LEMMA NextKeeps == Bookkeeping /\ [Next]_vars => Bookkeeping'
  <1> SUFFICES ASSUME Bookkeeping, [Next]_vars PROVE Bookkeeping'
    OBVIOUS
  <1>1. CASE PowerOn
    BY <1>1, PowerOnKeeps
  <1>2. CASE Boot
    BY <1>2, BootKeeps
  <1>3. CASE StartGame
    BY <1>3, StartGameKeeps
  <1>4. CASE RunMode
    BY <1>4, RunModeKeeps
  <1>5. CASE Vsync
    BY <1>5, VsyncKeeps
  <1>6. CASE Poll
    BY <1>6, PollKeeps
  <1>7. CASE SaveKey
    BY <1>7, SaveKeyKeeps
  <1>8. CASE Quit
    <2>1. PICK ok \in BOOLEAN : Save(ok)
      BY <1>8 DEF Quit
    <2>2. file' \in Files
      BY <2>1, SaveTypes DEF Bookkeeping
    <2>3. QED
      BY <1>8, <2>2, OffKeeps DEF Quit
  <1>9. CASE PowerCut
    BY <1>9, OffKeeps DEF PowerCut, Bookkeeping, CabinetTypeOK
  <1>10. CASE UNCHANGED vars
    BY <1>10 DEF vars, Bookkeeping, CabinetTypeOK, BooksBalance, AlwaysUsable,
         Running, CreditsBalance, PlaysBalance
  <1>11. QED
    BY <1>1, <1>2, <1>3, <1>4, <1>5, <1>6, <1>7, <1>8, <1>9, <1>10 DEF Next

(* The invariant itself, for every limit, options, files and bounds. *)
THEOREM CabinetInvariance == Spec => []Bookkeeping
  BY InitBookkeeping, NextKeeps, PTL DEF Spec

(* Credits and plays agree with the audit counters in every running state: *)
(* no coin frame creates or loses one, however many conversions it makes.  *)
THEOREM BooksAlwaysBalance == Spec => []BooksBalance
  <1>1. Bookkeeping => BooksBalance
    BY DEF Bookkeeping
  <1>2. QED
    BY <1>1, CabinetInvariance, PTL

(* Whatever was in the file, the running cabinet has valid options and     *)
(* hears its first chute.                                                  *)
THEOREM CabinetAlwaysUsable == Spec => []AlwaysUsable
  <1>1. Bookkeeping => AlwaysUsable
    BY DEF Bookkeeping
  <1>2. QED
    BY <1>1, CabinetInvariance, PTL

(* The state has its type. *)
THEOREM CabinetTypeCorrect == Spec => []CabinetTypeOK
  <1>1. Bookkeeping => CabinetTypeOK
    BY DEF Bookkeeping
  <1>2. QED
    BY <1>1, CabinetInvariance, PTL

-----------------------------------------------------------------------------
(* Until the boot, the settings and the image in memory are the file's, or *)
(* F3 was pressed: then the settings hold a mode word of zero, and so does *)
(* the file unless it could not be opened.                                 *)
MemoryIsFile ==
    pc = "loaded" =>
      \/ nv = LoadedSettings(file) /\ sram = LoadedImage(file)
      \/ nv.word = 0 /\ (file.word = 0 \/ books.failed)

LEMMA MemoryIsFileKept ==
    CabinetTypeOK /\ MemoryIsFile /\ [Next]_vars => MemoryIsFile'
  <1> SUFFICES ASSUME CabinetTypeOK, MemoryIsFile, [Next]_vars, pc' = "loaded"
               PROVE  \/ nv' = LoadedSettings(file') /\ sram' = LoadedImage(file')
                      \/ nv'.word = 0 /\ (file'.word = 0 \/ books'.failed)
    BY DEF MemoryIsFile
  <1>1. CASE PowerOn
    BY <1>1 DEF PowerOn
  <1>2. CASE SaveKey
    <2>1. PICK ok \in BOOLEAN :
            /\ Save(ok)
            /\ nv' = Captured(ok)
            /\ books' = [books EXCEPT !.failed = @ \/ (pc = "loaded" /\ ~ok)]
      BY <1>2 DEF SaveKey
    <2>2. pc = "loaded"
      BY <1>2 DEF SaveKey
    <2>3. nv'.word = 0
      BY <2>1, <2>2 DEF Captured
    <2>4. CASE ok
      BY <2>1, <2>2, <2>3, <2>4, SaveTypes
    <2>5. CASE ~ok
      BY <2>1, <2>2, <2>3, <2>5 DEF CabinetTypeOK
    <2>6. QED
      BY <2>4, <2>5
  <1>3. CASE UNCHANGED vars
    BY <1>3 DEF vars, MemoryIsFile
  <1>4. CASE Boot \/ StartGame \/ RunMode \/ Vsync \/ Poll \/ Quit \/ PowerCut
    BY <1>4 DEF Boot, StartGame, RunMode, Vsync, Poll, Quit, PowerCut, Off
  <1>5. QED
    BY <1>1, <1>2, <1>3, <1>4 DEF Next

(* What a reset leaves in the cells a boot is about. *)
LEMMA ResetClears ==
    ASSUME NEW m \in Image
    PROVE  /\ \A s \in Chutes : SramReset(m)[Plays(s)] = 0
           /\ SramReset(m)[Mask(1)] = 2
  BY DEF SramReset, SwitchBit, Image, Cells, Chutes, Mask, Credits, Plays

(* The plays of a complete save come back unless a save that could not     *)
(* open it came before the boot, those of any other file come back or not  *)
(* at all, and chute 1 is wired unless the file left it out.               *)
Restores ==
    /\ \A s \in Chutes : \/ BootImage[Plays(s)] = file.image[Plays(s)]
                         \/ ~Complete(file) /\ BootImage[Plays(s)] = 0
                         \/ books.failed /\ BootImage[Plays(s)] = 0
    /\ \/ BootImage[Mask(1)] # 0
       \/ file.n < Keys + Mask(1)
       \/ file.image[Mask(1)] = 0

LEMMA BootRestores ==
    ASSUME CabinetTypeOK, MemoryIsFile, pc = "loaded"
    PROVE  Restores
  <1>1. sram \in Image /\ file \in Files
    BY DEF CabinetTypeOK
  <1>2. file.image \in Image /\ file.n \in -1 .. Full
    BY <1>1 DEF Files
  <1>3. SramReset(sram) \in Image
    BY <1>1, ResetWires
  <1>4. CASE Unformatted
    <2>1. BootImage = SramReset(sram)
      BY <1>1, <1>4, ResetWires DEF BootImage
    <2>2. Complete(file) => /\ LoadedSettings(file).loaded
                            /\ LoadedSettings(file).has
                            /\ LoadedSettings(file).word = 36
      <3>1. /\ LoadedSettings(file).loaded = (file.n >= 0)
            /\ LoadedSettings(file).has = (file.n >= 1)
        BY Zenon DEF LoadedSettings
      <3>2. LoadedSettings(file).word = IF file.n >= Keys THEN file.word ELSE 36
        BY Zenon DEF LoadedSettings
      <3>3. Complete(file) => /\ file.n >= 0 /\ file.n >= 1 /\ file.n >= Keys
                              /\ file.word = 36
        BY DEF Complete, Full, Keys
      <3>4. QED
        BY <3>1, <3>2, <3>3
    <2>3. Complete(file) => file.word = 36
      BY DEF Complete
    <2>4. nv = LoadedSettings(file) \/ file.word = 0 \/ books.failed
      BY DEF MemoryIsFile
    <2>5. ~Complete(file) \/ books.failed
      BY <1>4, <2>2, <2>3, <2>4 DEF Unformatted
    <2>6. QED
      BY <1>1, <2>1, <2>5, ResetClears DEF Restores
  <1>5. CASE ~Unformatted /\ sram[Mask(0)] = 0
    <2>1. BootImage = SramReset(sram)
      BY <1>5 DEF BootImage
    <2>2. sram = LoadedImage(file)
      BY <1>5 DEF MemoryIsFile, Unformatted
    <2>3. ~Complete(file)
      BY <1>5, <2>2, CellTypes
        DEF Complete, LoadedImage, Full, Keys, Cells, Mask
    <2>4. QED
      BY <1>1, <2>1, <2>3, ResetClears DEF Restores
  <1>6. CASE ~Unformatted /\ sram[Mask(0)] # 0
    <2>1. BootImage = LoadedImage(file)
      BY <1>6 DEF BootImage, MemoryIsFile, Unformatted
    <2>2. \A i \in Cells : BootImage[i] = IF file.n >= Keys + i
                                          THEN file.image[i] ELSE 0
      BY <2>1 DEF LoadedImage
    <2>3. ASSUME NEW s \in Chutes
          PROVE  \/ BootImage[Plays(s)] = file.image[Plays(s)]
                 \/ ~Complete(file) /\ BootImage[Plays(s)] = 0
      <3>1. Plays(s) \in Cells /\ Keys + Plays(s) <= Full
        BY DEF Plays, Chutes, Cells, Keys, Full
      <3>2. CASE file.n >= Keys + Plays(s)
        BY <2>2, <3>1, <3>2
      <3>3. CASE ~(file.n >= Keys + Plays(s))
        <4>1. file.n # Full
          BY <3>1, <3>3 DEF Plays, Chutes, Keys, Full
        <4>2. QED
          BY <2>2, <3>1, <3>3, <4>1 DEF Complete
      <3>4. QED
        BY <3>2, <3>3
    <2>4. \/ BootImage[Mask(1)] # 0
          \/ file.n < Keys + Mask(1)
          \/ file.image[Mask(1)] = 0
      <3>1. Mask(1) \in Cells
        BY DEF Mask, Cells
      <3>2. BootImage[Mask(1)] = IF file.n >= Keys + Mask(1)
                                 THEN file.image[Mask(1)] ELSE 0
        BY <2>2, <3>1
      <3>3. file.n < Keys + Mask(1) \/ file.n >= Keys + Mask(1)
        <4>1. file.n \in Int /\ Keys + Mask(1) \in Int
          BY <1>2 DEF Keys, Mask, Full
        <4>2. QED
          BY <4>1
      <3>4. QED
        BY <3>2, <3>3
    <2>5. QED
      BY <2>3, <2>4 DEF Restores
  <1>7. QED
    BY <1>4, <1>5, <1>6

(* A boot never invents a play: it restores the plays that can be read     *)
(* from the file or clears the slot, and it clears a slot of a complete    *)
(* save only after a save on the splash screen that could not open it.     *)
THEOREM BootsRestorePlays == Spec => BootRestoresPlays
  <1>1. Init => MemoryIsFile
    BY DEF Init, MemoryIsFile
  <1>2. Bookkeeping => CabinetTypeOK
    BY DEF Bookkeeping
  <1>3. CabinetTypeOK /\ MemoryIsFile /\ [Next]_vars
        => [Boot => /\ \A s \in Chutes :
                        \/ sram'[Plays(s)] = file.image[Plays(s)]
                        \/ ~Complete(file) /\ sram'[Plays(s)] = 0
                        \/ books.failed /\ sram'[Plays(s)] = 0
                   /\ \/ sram'[Mask(1)] # 0
                      \/ file.n < Keys + Mask(1)
                      \/ file.image[Mask(1)] = 0]_vars
    BY BootRestores DEF Boot, Restores
  <1>4. QED
    BY <1>1, <1>2, <1>3, CabinetInvariance, MemoryIsFileKept, PTL
      DEF Spec, BootRestoresPlays
====
