---- MODULE Coins ----
(***************************************************************************)
(* Coin and credit accounting of the cabinet (src/src/game/game_coin_*.c,  *)
(* game_io_coin_sense.c, attract_credit_query.c, attract_credit_spend.c):  *)
(* what one video frame does to the battery-backed bookkeeping cells, as   *)
(* operators on the image of the backup RAM.                               *)
(*                                                                         *)
(* A coin released in a chute adds that chute's value to a slot's credits; *)
(* every "price" credits become one play, as long as the slot holds fewer  *)
(* than the limit.  With "dual" each chute has its own slot, otherwise     *)
(* both feed slot 0.                                                       *)
(*                                                                         *)
(* The image is a function on the cells the accounting reads or writes, in *)
(* the order of their addresses 0x01D00004 .. 0x01D00033, because a save   *)
(* writes them in that order.  Left out: the sound gate 0x20a518, the      *)
(* header and counter halfwords of a slot and the audit words above        *)
(* 0x01D00038, which nothing reads back; the lines of IN0 that are not coin*)
(* switches, which only a mask edited by hand lets in; 16-bit wrap of a    *)
(* credit count, which free play alone could reach, after 65536 coins.     *)
(***************************************************************************)
EXTENDS Integers, FiniteSets

CONSTANT Limit          \* plays a slot may hold: the ROM table at 0x5A9410

ASSUME LimitAssumption == Limit \in Nat

Chutes == {0, 1}

Sold       == 1           \* 0x01D00004: plays bought with coins
Coin(c)    == 2 + c       \* 0x01D0000C + 4c: coins seen in chute c
Mask(s)    == 4 + 4 * s   \* 0x01D00016 + 16s: the switches chute s hears, as bits
Acc(s)     == 5 + 4 * s   \* 0x01D0001E + 16s: towards the next bonus credit
Credits(s) == 6 + 4 * s   \* 0x01D00020 + 16s
Plays(s)   == 7 + 4 * s   \* 0x01D00022 + 16s

Cells == 1 .. 11
Image == [Cells -> Nat]

(* The coin options in work RAM: 0x202024 bits 3 and 0, 0x202028, 0x20202A,*)
(* 0x20202C, and the coin values 0x202030 and 0x202032.                    *)
Options == [free : BOOLEAN, dual : BOOLEAN, unit : Nat, price : Nat,
            bonus : Nat, val : [Chutes -> Nat]]

----------------------------------------------------------------------------
(* The slot that chute c feeds. *)
SlotOf(o, c) == IF o.dual THEN c ELSE 0

(* Whether a coin in chute c completes a bonus credit. *)
EarnsBonus(m, o, c) ==
    o.bonus # 0 /\ m[Acc(SlotOf(o, c))] + o.val[c] >= o.bonus

(* A chute counts when a switch that its mask names was released. *)
SwitchBit(e) == IF e = 0 THEN 1 ELSE 2

Counts(m, edges, c) ==
    \E e \in edges : (m[Mask(c)] \div SwitchBit(e)) % 2 = 1

(* game_coin_chute_slot: one coin in chute c. *)
TakeCoin(m, o, c) ==
    LET s == SlotOf(o, c)
    IN  [m EXCEPT ![Acc(s)] = IF o.bonus = 0 THEN @
                              ELSE IF EarnsBonus(m, o, c)
                                   THEN @ + o.val[c] - o.bonus
                                   ELSE @ + o.val[c],
                  ![Credits(s)] = @ + o.val[c]
                                    + IF EarnsBonus(m, o, c) THEN 1 ELSE 0,
                  ![Coin(c)] = @ + 1]

ChuteSlot(m, o, edges, c) ==
    IF Counts(m, edges, c) THEN TakeCoin(m, o, c) ELSE m

(* game_coin_chute_scan: chute 0, then chute 1. *)
ChuteScan(m, o, edges) == ChuteSlot(ChuteSlot(m, o, edges, 0), o, edges, 1)

(* The slots a service credit bumps. *)
ServiceSlots(m, o) ==
    IF o.free THEN {}
    ELSE {s \in Chutes : (s = 0 \/ o.dual) /\ m[Plays(s)] < Limit}

(* game_coin_service_edge: one play to each slot in use. *)
ServiceCredit(m, o) ==
    [i \in Cells |-> IF \E s \in ServiceSlots(m, o) : i = Plays(s)
                     THEN m[i] + 1 ELSE m[i]]

(* Seeded fault: a conversion is due when part of the price is there. *)
Due_RoundsUp(m, o, s) ==
    IF o.price = 0 THEN 0
    ELSE (m[Credits(s)] + o.price - 1) \div o.price

(* The conversions a slot's credits pay for, and those it has room for. *)
Due(m, o, s)  == IF o.price = 0 THEN 0 ELSE m[Credits(s)] \div o.price
Room(m, s)    == IF m[Plays(s)] < Limit THEN Limit - m[Plays(s)] ELSE 0
Granted(m, o, s) ==
    IF Due(m, o, s) <= Room(m, s) THEN Due(m, o, s) ELSE Room(m, s)

(* Seeded fault: a conversion forgets the credits that were left over. *)
ApplySlot_NoRemainder(m, o, s) ==
    [m EXCEPT ![Credits(s)] = IF Due(m, o, s) = 0 THEN @ ELSE 0,
              ![Plays(s)]   = @ + Granted(m, o, s),
              ![Sold]       = @ + Granted(m, o, s)]

(* One slot of game_coin_credit_apply: the credits of every conversion are *)
(* taken, also of those for which the slot has no room.                    *)
ApplySlot(m, o, s) ==
    [m EXCEPT ![Credits(s)] = @ - o.price * Due(m, o, s),
              ![Plays(s)]   = @ + Granted(m, o, s),
              ![Sold]       = @ + Granted(m, o, s)]

CreditApply(m, o) ==
    IF o.free THEN m
    ELSE IF o.dual THEN ApplySlot(ApplySlot(m, o, 0), o, 1)
    ELSE ApplySlot(m, o, 0)

(* game_coin_frame: the operator menu stops the chutes and the service key *)
(* but not the conversions.                                                *)
Scanned(m, o, edges, md) == IF md = 4 THEN m ELSE ChuteScan(m, o, edges)

Served(m, o, svc, md) == IF md # 4 /\ svc THEN ServiceCredit(m, o) ELSE m

CoinFrame(m, o, edges, svc, md) ==
    CreditApply(Served(Scanned(m, o, edges, md), o, svc, md), o)

(* attract_credit_query of chute 0: plays it is good for, -1 in free play. *)
CreditQuery(m, o) ==
    IF o.free THEN -1
    ELSE m[Plays(0)] \div (IF o.unit = 0 THEN 1 ELSE o.unit)

(* attract_credit_spend of chute 0. *)
CreditSpend(m, o) ==
    IF m[Plays(0)] < o.unit THEN m ELSE [m EXCEPT ![Plays(0)] = @ - o.unit]

(* game_coin_sram_reset: the bonus accumulators are not among the words it *)
(* clears.                                                                 *)
SramReset(m) ==
    [i \in Cells |-> IF \E s \in Chutes : i \in {Credits(s), Plays(s)} THEN 0
                     ELSE IF i = Mask(0) THEN SwitchBit(0)
                     ELSE IF i = Mask(1) THEN SwitchBit(1)
                     ELSE m[i]]

(* coin_option_defaults: the two flag bits fall with the low nibble. *)
DefaultOptions ==
    [free |-> FALSE, dual |-> FALSE, unit |-> 1, price |-> 2, bonus |-> 0,
     val |-> [c \in Chutes |-> 1]]

(* coin_option_validate: what it finds in order, defaults otherwise.  The  *)
(* unused word 0x20202E is checked there too and is left out.              *)
OptionsValid(o) ==
    /\ o.unit # 0
    /\ o.price # 0
    /\ o.bonus <= 9
    /\ \A c \in Chutes : o.val[c] <= 9

(* Seeded fault: options that came from a file are trusted. *)
Validated_Trusting(o) == o

Validated(o) == IF OptionsValid(o) THEN o ELSE DefaultOptions
====
