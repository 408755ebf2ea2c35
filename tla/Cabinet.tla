---- MODULE Cabinet ----
(***************************************************************************)
(* The cabinet as an operator sees it: coins and plays (module Coins), the *)
(* settings file that stands for the battery (src/src/host/model2_nvram.c),*)
(* and power that comes and goes (lift_boot_screen.c, game_subsys_boot.c). *)
(*                                                                         *)
(* One thread runs everything: the mode handler, then geo_vsync_wait with  *)
(* the coin frame, then the input poll.  The settings file is written when *)
(* F3 is pressed and when the viewer closes; a save may fail to open it,   *)
(* or be cut short at any point, because the file is truncated first and   *)
(* the writes are not checked.  Nothing else keeps the bookkeeping: model2_nvram_mark_dirty   *)
(* sets a flag that only model2_nvram_sync_if_dirty reads, and nothing     *)
(* calls that.                                                             *)
(*                                                                         *)
(* Left out: options without a bearing on coins, the region, and the host  *)
(* option --practice.  Bounds: MaxBoots power-ups, MaxCoins coins and      *)
(* MaxService service credits per power-up, Cuts; a save of the last       *)
(* power-up, which nobody reads back, is left out unless it precedes the   *)
(* boot.                                                                   *)
(***************************************************************************)
EXTENDS Coins

CONSTANTS InitFiles,     \* settings files the first power-up may find
          Cuts,          \* how much of the file a save may write before it ends
          MaxBoots, MaxCoins, MaxService

(* The entries of the file in the order they are written: the country, the *)
(* four coin options, the mode word (with its checksum), the cells of the  *)
(* image, the rest of the image.                                           *)
Keys  == 6
Full  == Keys + 12

Stored == [free : BOOLEAN, dual : BOOLEAN, unit : Nat, price : Nat,
           bonus : Nat]

(* "n" is how many entries the file has, -1 when there is no file.         *)
Files == [n : -1 .. Full, opt : Stored, word : {0, 36}, image : Image]

ASSUME CabinetAssumption ==
    /\ InitFiles \subseteq Files
    /\ Cuts \subseteq 0 .. Full
    /\ {MaxBoots, MaxCoins, MaxService} \subseteq Nat

VARIABLES
    pc,       \* where the thread is
    mode,     \* 0x202098: 0 attract, 2 attract with the start gate, 3 game, 4 menu
    opt,      \* the coin options in work RAM
    sram,     \* the backup RAM
    held,     \* 0x202043: chutes whose coin switch is closed
    service,  \* 0x202068 bit 3: the service key was released
    start,    \* 0x202064 bit 4: START was pressed
    nv,       \* g_nvram: the settings loaded or captured last
    file,     \* the settings file
    books     \* history of this power-up, for the properties

game == <<mode, opt, sram, held, service, start>>
vars == <<pc, mode, opt, sram, held, service, start, nv, file, books>>

Steps == {"off", "loaded", "dispatch", "vsync", "poll"}
Running == pc \in {"dispatch", "vsync", "poll"}

ZeroImage == [i \in Cells |-> 0]
NoOptions == [free |-> FALSE, dual |-> FALSE, unit |-> 0, price |-> 0,
              bonus |-> 0, val |-> [c \in Chutes |-> 0]]

Settings(o) == [free |-> o.free, dual |-> o.dual, unit |-> o.unit,
                price |-> o.price, bonus |-> o.bonus]

NoSettings == [loaded |-> FALSE, has |-> FALSE, opt |-> Settings(NoOptions), word |-> 0]

(* The books of a power-up: the image it started from, plays spent and     *)
(* given by service, conversions the limit swallowed, bonus credits, and   *)
(* whether a save before the boot could not open the file.                 *)
NewBooks(b, m) == [boots |-> b, base |-> m, spent |-> 0, served |-> 0,
                   swallowed |-> 0, bonuses |-> 0, failed |-> FALSE]

----------------------------------------------------------------------------
(* model2_nvram_load: a key that is missing keeps its default, image bytes *)
(* that are missing are zero; without a first key no option is applied.    *)
LoadedSettings(f) ==
    [loaded |-> f.n >= 0,
     has  |-> f.n >= 1,
     opt  |-> [free  |-> f.n >= 2 /\ f.opt.free,
               dual  |-> f.n >= 2 /\ f.opt.dual,
               unit  |-> IF f.n >= 3 THEN f.opt.unit ELSE 1,
               price |-> IF f.n >= 4 THEN f.opt.price ELSE 2,
               bonus |-> IF f.n >= 5 THEN f.opt.bonus ELSE 0],
     word |-> IF f.n >= Keys THEN f.word ELSE 36]

LoadedImage(f) ==
    [i \in Cells |-> IF f.n >= Keys + i THEN f.image[i] ELSE 0]

(* model2_nvram_apply_options: the coin values are not among the settings. *)
ApplyOptions(o) ==
    IF nv.loaded /\ nv.has
    THEN [free |-> nv.opt.free, dual |-> nv.opt.dual, unit |-> nv.opt.unit,
          price |-> nv.opt.price, bonus |-> nv.opt.bonus, val |-> o.val]
    ELSE o

(* Whether the mode word makes game_subsys_boot run game_coin_option_boot. *)
(* The checksum never does: game_mode_table_fetch clears the 16 bits that  *)
(* are compared.                                                           *)
Unformatted == ~(nv.loaded /\ nv.has /\ nv.word = 36)

BootOptions == Validated(ApplyOptions(IF Unformatted THEN DefaultOptions
                                                      ELSE opt))

(* Seeded fault: the image is reset although it was restored. *)
BootImage_AlwaysResets == SramReset(sram)

BootImage ==
    LET m == IF Unformatted THEN SramReset(sram) ELSE sram
    IN  IF m[Mask(0)] = 0 THEN SramReset(m) ELSE m

----------------------------------------------------------------------------
Init ==
    /\ pc = "off"
    /\ mode = 0
    /\ opt = NoOptions
    /\ sram = ZeroImage
    /\ held = {}
    /\ service = FALSE
    /\ start = FALSE
    /\ nv = NoSettings
    /\ file \in InitFiles
    /\ books = NewBooks(0, ZeroImage)

(* A process starts with empty memory and loads the file. *)
PowerOn ==
    /\ pc = "off"
    /\ books.boots < MaxBoots
    /\ pc' = "loaded"
    /\ nv' = LoadedSettings(file)
    /\ sram' = LoadedImage(file)
    /\ books' = NewBooks(books.boots + 1, ZeroImage)
    /\ UNCHANGED <<mode, opt, held, service, start, file>>

(* game_cold_boot_init: game_seed_globals, then game_subsys_boot. *)
Boot ==
    /\ pc = "loaded"
    /\ pc' = "vsync"
    /\ mode' = 0
    /\ opt' = BootOptions
    /\ sram' = BootImage
    /\ books' = NewBooks(books.boots, BootImage)
    /\ UNCHANGED <<held, service, start, nv, file>>

(* comm_attract_board_frame: a paid play starts a game at once; in free    *)
(* play START does.                                                        *)
StartsGame ==
    /\ mode = 2
    /\ \/ CreditQuery(sram, opt) < 0 /\ start
       \/ CreditQuery(sram, opt) > 0

StartGame ==
    /\ pc = "dispatch"
    /\ StartsGame
    /\ pc' = "vsync"
    /\ mode' = 3
    /\ sram' = IF opt.free THEN sram ELSE CreditSpend(sram, opt)
    /\ books' = [books EXCEPT !.spent = @ + sram[Plays(0)] - sram'[Plays(0)]]
    /\ UNCHANGED <<opt, held, service, start, nv, file>>

(* Every other handler touches no credit; where it leads is not told here. *)
NextMode == [m \in {0, 2, 3, 4} |->
                CASE m = 0 -> {0, 2} [] m = 2 -> {0, 2}
                  [] m = 3 -> {2, 3} [] m = 4 -> {0, 4}]

RunMode ==
    /\ pc = "dispatch"
    /\ ~StartsGame
    /\ pc' = "vsync"
    /\ mode' \in NextMode[mode]
    /\ UNCHANGED <<opt, sram, held, service, start, nv, file, books>>

CoinsThisBoot == sram[Coin(0)] + sram[Coin(1)]
                 - books.base[Coin(0)] - books.base[Coin(1)]

(* History only: the bonus credits and the service plays this frame gives, *)
(* and the conversions it takes for which there is no room.                *)
Bonus(m, edges, c) ==
    IF mode # 4 /\ Counts(m, edges, c) /\ EarnsBonus(m, opt, c) THEN 1 ELSE 0

Bumped(m, s) ==
    IF mode # 4 /\ service /\ s \in ServiceSlots(m, opt) THEN 1 ELSE 0

Swallowed(m, s) ==
    IF opt.free \/ (s = 1 /\ ~opt.dual) THEN 0
    ELSE Due(m, opt, s) - Granted(m, opt, s)

CoinBooks(edges) ==
    LET scanned == Scanned(sram, opt, edges, mode)
        ready   == Served(scanned, opt, service, mode)
    IN  [books EXCEPT
           !.bonuses   = @ + Bonus(sram, edges, 0)
                           + Bonus(ChuteSlot(sram, opt, edges, 0), edges, 1),
           !.served    = @ + Bumped(scanned, 0) + Bumped(scanned, 1),
           !.swallowed = @ + Swallowed(ready, 0) + Swallowed(ready, 1)]

(* geo_vsync_wait: game_io_coin_sense samples the switches, game_coin_frame*)
(* uses the release edges it found.  Edges met in the menu are overwritten *)
(* by the next sample.                                                     *)
Vsync ==
    /\ pc = "vsync"
    /\ pc' = "poll"
    /\ \E down \in SUBSET Chutes :
         /\ CoinsThisBoot + Cardinality(held \ down) + Cardinality(down)
              <= MaxCoins
         /\ held' = down
         /\ sram' = CoinFrame(sram, opt, held \ down, service, mode)
         /\ books' = CoinBooks(held \ down)
    /\ UNCHANGED <<mode, opt, service, start, nv, file>>

(* game_io_poll and the TEST check of game_mode_apply. *)
Poll ==
    /\ pc = "poll"
    /\ pc' = "dispatch"
    /\ \E s \in BOOLEAN :
         /\ s => books.served < MaxService
         /\ service' = s
    /\ start' \in BOOLEAN
    /\ \E test \in BOOLEAN : mode' = IF test THEN 4 ELSE mode
    /\ UNCHANGED <<opt, sram, held, nv, file, books>>

(* What is captured in g_nvram, before the file is opened: the image, and  *)
(* the options in work RAM, still zero before the boot.  Only a save whose *)
(* file could be opened counts the settings as loaded.                     *)
Captured(ok) == [loaded |-> nv.loaded \/ ok, has |-> TRUE, opt |-> Settings(opt),
                 word |-> IF pc = "loaded" THEN 0 ELSE 36]

(* The number that is read back of one cut off between two digits. *)
CutNumber(v) == {v \div d : d \in {10, 100, 1000, 10000}} \ {0}

(* How the last entry of a cut file may be read when the cut went through  *)
(* it.  A setting: flags of "10" and "11" as "1", a number as its digits so*)
(* far, the mode word 36 as no more than 3, for which 0 stands.            *)
TornSetting(f, g) ==
    \/ f.n = 2 /\ f.opt.free
       /\ g = [f EXCEPT !.opt.free = FALSE, !.opt.dual = TRUE]
    \/ f.n = 3 /\ \E v \in CutNumber(f.opt.unit)  : g = [f EXCEPT !.opt.unit = v]
    \/ f.n = 4 /\ \E v \in CutNumber(f.opt.price) : g = [f EXCEPT !.opt.price = v]
    \/ f.n = 5 /\ \E v \in CutNumber(f.opt.bonus) : g = [f EXCEPT !.opt.bonus = v]
    \/ f.n = Keys /\ g = [f EXCEPT !.word = 0]

(* A cell: its low bytes alone. *)
TornCell(f, g) ==
    /\ f.n - Keys \in Cells
    /\ \E b \in {256, 65536, 16777216} : g = [f EXCEPT !.image[f.n - Keys] = @ % b]

(* The cells that begin a line of 16 bytes, each behind the line's address.*)
(* An address cut before its colon is read as the bytes of the cell itself.*)
LineCells == {Coin(1), Credits(0), Credits(1)}

AddressRead(i) == CASE i = Coin(1)    -> 4096
                    [] i = Credits(0) -> 8192
                    [] i = Credits(1) -> 12288

TornAddress(f, g) ==
    /\ f.n - Keys \in LineCells
    /\ g = [f EXCEPT !.image[f.n - Keys] = AddressRead(f.n - Keys)]

Torn(f, g) == TornSetting(f, g) \/ TornCell(f, g) \/ TornAddress(f, g)

(* model2_nvram_save: the file cannot be opened and stays as it is, or it  *)
(* is written anew, up to some point of it.                                *)
Save(ok) ==
    /\ pc = "loaded" \/ books.boots < MaxBoots
    /\ \/ ~ok /\ UNCHANGED file
       \/ /\ ok
          /\ \E n \in Cuts \cup {Full} :
               LET f == [n |-> n, opt |-> Captured(ok).opt, word |-> Captured(ok).word,
                         image |-> [i \in Cells |-> IF Keys + i <= n THEN sram[i] ELSE 0]]
               IN  file' = f \/ Torn(f, file')

(* F3.  Events are polled when a frame is presented, once before the boot. *)
SaveKey ==
    /\ pc \in {"loaded", "dispatch", "vsync"}
    /\ \E ok \in BOOLEAN :
         /\ Save(ok)
         /\ nv' = Captured(ok)
         /\ books' = [books EXCEPT !.failed = @ \/ (pc = "loaded" /\ ~ok)]
    /\ UNCHANGED <<pc, game>>

(* The process ends and its memory with it. *)
Off ==
    /\ pc' = "off"
    /\ mode' = 0
    /\ opt' = NoOptions
    /\ sram' = ZeroImage
    /\ held' = {}
    /\ service' = FALSE
    /\ start' = FALSE
    /\ nv' = NoSettings
    /\ books' = NewBooks(books.boots, ZeroImage)

(* sys24_viewer_shutdown, at the end or when the viewer cannot be opened;  *)
(* also a process that dies in a save.                                     *)
Quit ==
    /\ pc \in {"loaded", "dispatch"}
    /\ \E ok \in BOOLEAN : Save(ok)
    /\ Off

(* The process dies. *)
PowerCut ==
    /\ pc # "off"
    /\ Off
    /\ UNCHANGED file

Next == \/ PowerOn \/ Boot \/ StartGame \/ RunMode \/ Vsync \/ Poll
        \/ SaveKey \/ Quit \/ PowerCut

Spec == Init /\ [][Next]_vars

----------------------------------------------------------------------------
CabinetTypeOK ==
    /\ pc \in Steps
    /\ mode \in {0, 2, 3, 4}
    /\ opt \in Options
    /\ sram \in Image
    /\ held \subseteq Chutes
    /\ service \in BOOLEAN
    /\ start \in BOOLEAN
    /\ nv \in [loaded : BOOLEAN, has : BOOLEAN, opt : Stored, word : {0, 36}]
    /\ file \in Files
    /\ books \in [boots : Nat, base : Image, spent : Nat, served : Nat,
                  swallowed : Nat, bonuses : Nat, failed : BOOLEAN]

(* The audit counters agree with the money and the plays: every credit     *)
(* comes from a counted coin or a bonus and is either still there or went  *)
(* into a conversion at the price; every play comes from a conversion that *)
(* had room, or from service, and is either still there or was spent.      *)
CreditsBalance ==
    sram[Credits(0)] + sram[Credits(1)]
      + opt.price * (sram[Sold] - books.base[Sold] + books.swallowed)
    = books.base[Credits(0)] + books.base[Credits(1)] + books.bonuses
      + opt.val[0] * (sram[Coin(0)] - books.base[Coin(0)])
      + opt.val[1] * (sram[Coin(1)] - books.base[Coin(1)])

PlaysBalance ==
    sram[Plays(0)] + sram[Plays(1)] + books.spent
    = books.base[Plays(0)] + books.base[Plays(1)] + books.served
      + sram[Sold] - books.base[Sold]

BooksBalance == Running => CreditsBalance /\ PlaysBalance

(* Whatever file a boot finds, cut short or edited, the running cabinet    *)
(* divides by no zero unit, converts at a price, and gives chute 0 a mask; *)
(* which switches a mask edited by hand names is the operator's affair.    *)
AlwaysUsable == Running => OptionsValid(opt) /\ sram[Mask(0)] # 0

(* A boot gives back exactly the plays of a complete save of a running     *)
(* cabinet; of a file cut short it gives back each slot's plays, as far as *)
(* they can be read, or none; it never invents one, and chute 1 is without *)
(* a mask only if the file says so or ends before saying.  A complete save *)
(* is lost in one case: F3 on the splash captures a mode word of zero even *)
(* if it then cannot open the file, and the boot clears the plays.         *)
Complete(f) == f.n = Full /\ f.word = 36 /\ f.image[Mask(0)] # 0

BootRestoresPlays ==
    [][Boot => /\ \A s \in Chutes :
                    \/ sram'[Plays(s)] = file.image[Plays(s)]
                    \/ ~Complete(file) /\ sram'[Plays(s)] = 0
                    \/ books.failed /\ sram'[Plays(s)] = 0
               /\ \/ sram'[Mask(1)] # 0
                  \/ file.n < Keys + Mask(1)
                  \/ file.image[Mask(1)] = 0]_vars

(* game_subsys_boot.c:24: a prior save keeps the coinage, so a coin is     *)
(* worth something whenever the cabinet runs.                              *)
SaveKeepsCoinage == Running => \A c \in Chutes : opt.val[c] # 0
====
