---- MODULE Game ----
(***************************************************************************)
(* The mode machine of the game (src/src/game/game_dispatch_main.c and the *)
(* handlers it calls): boot, the attract loop, a game with its select      *)
(* screens and races (module Race), the operator menu.                     *)
(*                                                                         *)
(* A step is a frame of the main loop: the handler of the mode, 0x202098,  *)
(* which finds its place with 0x20209C ("inner") and, in a game, 0x2020AC  *)
(* ("scene"), and the piece of a texture bank sent after it.  At the end of*)
(* a frame TEST goes to the menu from wherever the program is, and the work*)
(* RAM keeps what it was doing.                                            *)
(*                                                                         *)
(* The handlers of the scenes after a practice race or a last course won,  *)
(* and after a last course lost, are in the ROM and not lifted: a call of  *)
(* one does nothing, a table entry of zero ends the game.  So the second   *)
(* farewell, scene 14, is not met.  Left out: the reset that comm_board_   *)
(* dispatch makes in the first ten frames of a process if the boot were    *)
(* over by then; what the menu's pages show; how a choice is confirmed;    *)
(* a linked cabinet; --practice.                                           *)
(***************************************************************************)
EXTENDS Race

CONSTANTS
    BootHold, CopyHold,       \* 240 and 600 frames
    Warmup,                   \* 5 frames before the attract loop
    Holds,                    \* frames an attract splash stands: 420, 120, 120
    Scripts,                  \* the scripts of the attract scenes, in the ROM
    SelectTime, Armed,        \* 1260 frames to choose, 60 once chosen
    ExitItem, ExitHold,       \* the last item of the menu, and its 60 frames
    MaxPlays                  \* TEST is pressed until this game is over

RomScenes  == {<<5, 5>>, <<5, 10>>, <<7, 6>>}
Splashes   == {2, 4, 6}

(* A script is a list of rows; the link walks from start to limit.         *)
Row == [start : Int, limit : Int]

ASSUME GameAssumption ==
    /\ {BootHold, CopyHold, Warmup, Armed, ExitItem, ExitHold, MaxPlays}
         \subseteq Nat \ {0}
    /\ SelectTime \in Nat /\ Armed < SelectTime
    /\ Holds \in [Splashes -> Nat] /\ \A i \in Splashes : Pumps <= Holds[i]
    /\ Scripts \subseteq Seq(Row)
    /\ \A s \in Scripts : s # <<>> /\ s[Len(s)].start < 0

VARIABLES
    mode,      \* 0x202098: 0 boot, 1 comm check, 2 attract, 3 game, 4 menu
    inner,     \* 0x20209C
    boot,      \* 0x20AA20, 0x20AA24: how far the boot is, whether it is wanted
    attract,   \* 0x20A784, 0x20A808, 0x20A7CC, 0x20A80C, 0x20A800, 0x20A7FC
    pick,      \* 0x20A8B8, the time left on a select screen
    menu,      \* 0x20A2EC and 0x20A2F0
    g,         \* the cells of a game (module Race)
    plays,     \* games begun
    hist       \* history, for the properties

vars == <<mode, inner, boot, attract, pick, menu, g, plays, hist>>

Races     == {<<5, 3>>, <<7, 5>>}
Farewells == {<<5, 9>>, <<7, 12>>}

In(places) == mode = 3 /\ <<inner, g.scene>> \in places

NewGame == [carried |-> 0, ticks |-> 0, finished |-> FALSE, counted |-> 0]

Init ==
    /\ mode = 0
    /\ inner = 0
    /\ boot = [sub |-> 0, wanted |-> TRUE]
    /\ attract = [wait |-> 0, beat |-> 0, warmup |-> 0, script |-> <<>>,
                  row |-> 0, link |-> 0]
    /\ pick = 0
    /\ menu = [item |-> 0, timer |-> 0]
    /\ g = [choice |-> 0, course |-> 0, scene |-> 0, prev |-> 0, hold |-> 0,
            busy |-> FALSE, pumped |-> Pumps, bank |-> 0, sub |-> 0,
            phase |-> 0, clock |-> 0,
            count |-> 0, snap |-> 0, carry |-> 0, done |-> FALSE, next |-> 0,
            coast |-> 0, prg |-> "none",
            left |-> 0]
    /\ plays = 0
    /\ hist = NewGame

----------------------------------------------------------------------------
(* The handler of a mode is followed by texture_bank_select(-1): a frame   *)
(* that leaves cells r sends a piece of the bank under way.                *)
Leaves(r) == g' = Pump(r)

(* game_inner_dispatch: a boot goes through its two notices once; after    *)
(* that, or when the menu is left, mode 0 passes on at once.               *)
BootSub ==
    IF inner = 0 /\ boot.sub < 3 THEN IF boot.wanted THEN 0 ELSE 3
                                 ELSE boot.sub

BootCount ==
    CASE BootSub = 0 -> [g EXCEPT !.count = BootHold]
      [] BootSub = 1 -> [g EXCEPT !.count = IF @ = 0 THEN CopyHold ELSE @ - 1]
      [] BootSub = 2 -> [g EXCEPT !.count = IF @ = 0 THEN 0 ELSE @ - 1]
      [] OTHER -> g

Boot ==
    /\ mode = 0
    /\ Leaves([BootCount EXCEPT !.course =
                IF inner = 0 /\ boot.sub < 3 THEN 0 ELSE @])
    /\ boot' = [sub |-> IF BootSub = 0 \/ (BootSub < 3 /\ g.count = 0)
                        THEN BootSub + 1 ELSE BootSub,
                wanted |-> boot.wanted /\ inner # 0]
    /\ mode' = IF BootSub = 3 THEN 1 ELSE 0
    /\ inner' = IF BootSub = 3 THEN 0 ELSE IF inner = 0 THEN 1 ELSE inner
    /\ UNCHANGED <<attract, pick, menu, plays, hist>>

(* tile_attract_phase_comm of a cabinet that stands alone. *)
CommCheck ==
    /\ mode = 1
    /\ mode' = 2
    /\ inner' = 0
    /\ Leaves([g EXCEPT !.busy = FALSE])
    /\ UNCHANGED <<boot, attract, pick, menu, plays, hist>>

----------------------------------------------------------------------------
(* comm_attract_board_dispatch: a handler leaves attract record "a" and    *)
(* goes to "n"; then the beat is stepped (a bound: above zero it is 1) and *)
(* comm_attract_board_frame starts a game for a paid play, or for START in *)
(* free play.                                                              *)
Attract(n, a) ==
    /\ mode = 2
    /\ attract' = [a EXCEPT !.beat = IF @ < 1 THEN @ + 1 ELSE 1]
    /\ \E start \in BOOLEAN :
         /\ mode' = IF start THEN 3 ELSE 2
         /\ inner' = IF start THEN 0 ELSE n
         /\ plays' = IF start /\ plays <= MaxPlays THEN plays + 1 ELSE plays
    /\ UNCHANGED <<boot, pick, menu, hist>>

Waited == [attract EXCEPT !.wait = inner]

(* comm_attract_inner_0, _1 and _8. *)
AttractOpen ==
    /\ inner = 0
    /\ Attract(1, [Waited EXCEPT !.warmup = Warmup])
    /\ Leaves(g)

AttractWarmup ==
    /\ inner = 1
    /\ LET over == attract.warmup <= 1
       IN  /\ Attract(IF over THEN 2 ELSE 1,
                      [Waited EXCEPT !.warmup = @ - 1,
                                     !.wait = IF over THEN 0 ELSE @])
           /\ Leaves([g EXCEPT !.course = IF over THEN 1 ELSE @])

AttractClose == inner = 8 /\ Attract(0, Waited) /\ Leaves(g)

(* comm_attract_inner_2, _4 and _6: in its first frame the splash goes up  *)
(* and a bank is selected; when the beat has come up to zero the scene's   *)
(* script starts.                                                          *)
AttractSplash ==
    /\ inner \in Splashes
    /\ inner # attract.wait
    /\ Attract(inner, [Waited EXCEPT !.beat = -Holds[inner]])
    /\ LET course == inner \div 2 - 1
       IN  Leaves([SelectBank(g, course) EXCEPT !.course = course])

AttractHold ==
    /\ inner \in Splashes
    /\ inner = attract.wait
    /\ IF attract.beat # 0 THEN Attract(inner, Waited)
       ELSE \E s \in Scripts :
              Attract(inner + 1, [Waited EXCEPT !.beat = 0, !.script = s,
                                                !.row = 1, !.link = s[1].start])
    /\ Leaves(g)

(* comm_attract_inner_3, _5 and _7 with comm_attract_carousel_advance. *)
Carousel(a) ==
    IF a.link + 1 <= a.script[a.row].limit THEN [a EXCEPT !.link = @ + 1]
    ELSE [a EXCEPT !.row = @ + 1, !.link = a.script[a.row + 1].start]

AttractScene ==
    /\ inner \in {3, 5, 7}
    /\ LET a == Carousel(Waited)
       IN  Attract(IF a.link < 0 THEN inner + 1 ELSE inner, a)
    /\ Leaves(g)

----------------------------------------------------------------------------
(* Mode 3: game_start_phase_0, game_start_display_setup. *)
GamePhase0 ==
    /\ mode = 3 /\ inner = 0
    /\ inner' = 2
    /\ Leaves([g EXCEPT !.busy = FALSE])
    /\ UNCHANGED <<mode, boot, attract, pick, menu, plays, hist>>

DisplaySetup ==
    /\ mode = 3 /\ inner = 2
    /\ inner' = 3
    /\ pick' = SelectTime
    /\ \E c \in Kinds : Leaves([g EXCEPT !.choice = c])
    /\ UNCHANGED <<mode, boot, attract, menu, plays, hist>>

(* A frame of a select screen: while there is time, the pedal or START     *)
(* confirms; then the timer is stepped.                                    *)
Choosing == pick > Armed

SelectFrame ==
    \E confirmed \in IF Choosing THEN BOOLEAN ELSE {FALSE} :
        LET left == IF confirmed THEN Armed ELSE pick
        IN  pick' = IF left = 0 THEN 0 ELSE left - 1

Over == pick' = 0

(* game_start_mode_select *)
ModeSelect ==
    /\ mode = 3 /\ inner = 3
    /\ SelectFrame
    /\ \E c \in IF Choosing THEN Kinds ELSE {g.choice} :
         /\ Leaves([g EXCEPT !.choice = c, !.course = IF Over THEN 0 ELSE @])
         /\ inner' = IF ~Over THEN 3 ELSE IF c = Championship THEN 4 ELSE 6
    /\ UNCHANGED <<mode, boot, attract, menu, plays, hist>>

(* Seeded fault: the time carried over survives the game. *)
EnterCells_KeepsCarry(c) == [g EXCEPT !.choice = c, !.scene = 0, !.prev = 0]

(* game_start_champ_enter and game_start_practice_enter. *)
EnterCells(c) == [g EXCEPT !.choice = c, !.scene = 0, !.prev = 0, !.carry = 0]

GameEnter ==
    /\ mode = 3 /\ inner \in {4, 6}
    /\ Leaves(EnterCells(IF inner = 4 THEN Championship ELSE Practice))
    /\ inner' = inner + 1
    /\ UNCHANGED <<mode, boot, attract, pick, menu, plays, hist>>

(* attract_scene_slot_dispatch and game_start_practice_slot_dispatch note  *)
(* the scene before they call its handler.                                 *)
Changed == g.prev # g.scene
Seen    == [g EXCEPT !.prev = g.scene]

Scene(i, s) ==
    /\ mode = 3 /\ inner = i /\ g.scene = s
    /\ UNCHANGED <<boot, attract, menu, plays>>

Stays == UNCHANGED <<mode, inner>>

(* game_start_course_display, game_start_car_display *)
Display(i, s) ==
    /\ Scene(i, s)
    /\ Stays
    /\ pick' = SelectTime
    /\ Leaves([Seen EXCEPT !.scene = s + 1])
    /\ UNCHANGED hist

(* game_start_course_select *)
CourseSelect(i) ==
    /\ Scene(i, 1)
    /\ Stays
    /\ SelectFrame
    /\ Leaves([Seen EXCEPT !.scene = IF Over THEN 2 ELSE 1])
    /\ UNCHANGED hist

(* game_start_car_select: the car is the course; the last one has a secret.*)
CarSelect ==
    /\ Scene(7, 3)
    /\ Stays
    /\ SelectFrame
    /\ \E c \in IF Choosing THEN 0 .. 2 ELSE {g.course}, secret \in BOOLEAN :
         Leaves([Seen EXCEPT !.scene = IF Over THEN 4 ELSE 3,
                           !.course = IF Over /\ c = 2 /\ secret THEN 3 ELSE c])
    /\ UNCHANGED hist

(* attract_hud_setup *)
RaceSplash(i, s) ==
    /\ Scene(i, s)
    /\ Stays
    /\ Leaves(HudSetup(Seen, Changed))
    /\ hist' = IF g'.scene # s THEN [hist EXCEPT !.finished = FALSE] ELSE hist
    /\ UNCHANGED pick

(* game_start_race_frame *)
Segments == UNION {{Ids[c][k] : k \in DOMAIN Ids[c]} : c \in Courses} \cup {0}

RaceScene(i, s) ==
    /\ Scene(i, s)
    /\ Stays
    /\ \E seg \in Segments, past, slow \in BOOLEAN :
         /\ Leaves(RaceFrame(Seen, seg, past, slow))
         /\ LET t == Tick(g)
                won == g.sub \in {6, 7} /\ Finishes(t, seg, past)
            IN  hist' = [hist EXCEPT
                           !.ticks = IF g.sub < 2 THEN 0
                                     ELSE IF g.sub \in {6, 7} /\ g.clock > 0
                                          THEN @ + 1 ELSE @,
                           !.finished = @ \/ won,
                           !.carried = IF won THEN t.clock + Gift ELSE @]
    /\ UNCHANGED pick

(* game_start_race_champ_course_advance *)
Advance ==
    /\ Scene(5, 4)
    /\ Stays
    /\ \E first \in BOOLEAN : Leaves(CourseAdvance(Seen, first))
    /\ UNCHANGED <<pick, hist>>

(* Seeded fault: the first two frames of the farewell count the game. *)
CountsGame_Twice(r) == r.left >= Farewell - 2

CountsGame(r) == r.left = Farewell

(* game_start_race_timer_arm *)
FarewellScene(i, s) ==
    /\ Scene(i, s)
    /\ Leaves(TimerArm(Seen))
    /\ mode' = IF g'.left = -1 THEN 2 ELSE 3
    /\ inner' = IF g'.left = -1 THEN 0 ELSE i
    /\ hist' = IF mode' = 2 THEN NewGame
               ELSE [hist EXCEPT !.counted = IF CountsGame(g) THEN @ + 1 ELSE @]
    /\ UNCHANGED pick

(* A scene of the ROM: nothing, or the end of the game. *)
RomScene(i, s) ==
    /\ Scene(i, s)
    /\ Leaves(Seen)
    /\ \/ Stays /\ UNCHANGED hist
       \/ mode' = 2 /\ inner' = 0 /\ hist' = NewGame
    /\ UNCHANGED pick

GameNext ==
    \/ GamePhase0 \/ DisplaySetup \/ ModeSelect \/ GameEnter
    \/ CarSelect \/ Advance
    \/ \E i \in {5, 7} : Display(i, 0) \/ CourseSelect(i)
    \/ Display(7, 2)
    \/ RaceSplash(5, 2) \/ RaceSplash(7, 4)
    \/ \E p \in Races : RaceScene(p[1], p[2])
    \/ \E p \in Farewells : FarewellScene(p[1], p[2])
    \/ \E p \in RomScenes : RomScene(p[1], p[2])

----------------------------------------------------------------------------
(* Mode 4, geo_scene_mode_dispatch: 0 sets the cursor on the last item, 1  *)
(* moves it (geo_scene_string_prep), 2 enters the item, 3 runs it.         *)
Menu == mode = 4 /\ Leaves(g) /\ UNCHANGED <<boot, attract, pick, plays, hist>>

MenuOpen ==
    /\ Menu /\ inner = 0
    /\ inner' = 1
    /\ menu' = [menu EXCEPT !.item = ExitItem]
    /\ UNCHANGED mode

MenuMove ==
    /\ Menu /\ inner = 1
    /\ \/ inner' = 2 /\ UNCHANGED menu
       \/ /\ inner' = 1
          /\ \E key \in BOOLEAN :
               menu' = [menu EXCEPT !.item = IF ~key THEN @
                                             ELSE IF @ = ExitItem THEN 0
                                             ELSE @ + 1]
    /\ UNCHANGED mode

(* test_menu_exit: it waits for a key when the cabinet has many plays.     *)
ExitFrame(t, key) ==
    [timer |-> IF t = -1 THEN -1 ELSE t - 1,
     leaves |-> IF t = -1 THEN key ELSE t = 0]

MenuExit(t, other) ==
    \E key \in BOOLEAN :
        LET f == ExitFrame(t, key)
        IN  /\ menu' = [menu EXCEPT !.timer = f.timer]
            /\ mode' = IF f.leaves THEN 0 ELSE 4
            /\ inner' = IF f.leaves THEN other ELSE 3

(* Entering an item stores inner afterwards, also when the item has left.  *)
MenuEnter ==
    /\ Menu /\ inner = 2
    /\ IF menu.item = ExitItem THEN \E t \in {-1, ExitHold} : MenuExit(t, 3)
       ELSE inner' = 3 /\ UNCHANGED <<mode, menu>>

MenuItem ==
    /\ Menu /\ inner = 3
    /\ IF menu.item = ExitItem THEN MenuExit(menu.timer, 0)
       ELSE inner' \in {1, 3} /\ UNCHANGED <<mode, menu>>

----------------------------------------------------------------------------
(* game_mode_apply, at the end of a frame: TEST goes to the menu.  It is   *)
(* modelled up to the end of game MaxPlays, a bound, and the play after    *)
(* that finds what it left behind.                                         *)
Test ==
    /\ mode # 4 /\ plays <= MaxPlays
    /\ mode' = 4
    /\ inner' = 0
    /\ plays' = MaxPlays + 1
    /\ hist' = NewGame
    /\ UNCHANGED <<boot, attract, pick, menu, g>>

AttractNext == AttractOpen \/ AttractWarmup \/ AttractClose \/ AttractSplash
               \/ AttractHold \/ AttractScene

MenuNext == MenuOpen \/ MenuMove \/ MenuEnter \/ MenuItem

Frame == Boot \/ CommCheck \/ AttractNext \/ GameNext \/ MenuNext

Next == Frame \/ Test

Spec == Init /\ [][Next]_vars /\ WF_vars(Frame)

----------------------------------------------------------------------------
Cells ==
    [choice : Kinds, course : Courses, scene : 0 .. 12, prev : 0 .. 12,
     hold : -1 .. Splash, busy : BOOLEAN, pumped : 0 .. Pumps, bank : Courses,
     sub : 0 .. 11, phase : 0 .. 6,
     clock : Nat, count : Nat, snap : Nat, carry : Nat, done : BOOLEAN,
     next : Nat, coast : 0 .. Coast, prg : Handlers,
     left : -1 .. Farewell]

GameTypeOK ==
    /\ mode \in 0 .. 4
    /\ inner \in 0 .. 8
    /\ boot \in [sub : 0 .. 3, wanted : BOOLEAN]
    /\ attract.wait \in 0 .. 8 /\ attract.beat \in Int /\ attract.beat <= 1
    /\ pick \in 0 .. SelectTime
    /\ menu.item \in 0 .. ExitItem /\ menu.timer \in -1 .. ExitHold
    /\ g \in Cells

(* The bookkeeping counts a game's farewell once, however often the game   *)
(* was left by TEST and whatever an earlier game left behind.              *)
CountedOnce ==
    /\ hist.counted <= 1
    /\ In(Farewells) /\ g.left < Farewell => hist.counted = 1

GameInv == GameTypeOK /\ CountedOnce

(* The times of a race's entries, and the sum of the first n of a list.    *)
Times(r) == [k \in Nat |-> Split(r, k).time]

SumOf(t) ==
    LET sum[n \in Nat] == IF n = 0 THEN 0 ELSE sum[n - 1] + t[n - 1]
    IN  sum

(* While a race runs its clock is the time of the segments passed, and     *)
(* what the course before left, less the frames it ran: nothing of a game  *)
(* that TEST cut short, and nothing twice.                                 *)
ClockIsEarned ==
    In(Races) /\ g.sub \in {6, 7} =>
        g.clock + hist.ticks = hist.carried + SumOf(Times(g))[g.next]

(* A race, and a scene of the attract loop, runs with all of its course's  *)
(* texture bank: the splash outlasts the upload.                           *)
TexturesReady ==
    (In(Races) \/ (mode = 2 /\ inner \in {3, 5, 7})) =>
        ~g.busy /\ g.pumped = Pumps /\ g.bank = g.course

(* The next course of a championship is for who crossed the finish line of *)
(* this one, in this game.                                                 *)
CourseIsEarned ==
    mode = 3 /\ inner = 5 /\ g.course' # g.course => hist.finished

(* A race's scene is left at the end of a fanfare, which a handler left    *)
(* over from the race before must not cut short.                           *)
SceneLeavesAfterRace ==
    In(Races) /\ g.scene' # g.scene =>
        \/ g.sub = 9 /\ g.phase = 2
        \/ g.sub = 11 /\ g.phase = 2

OnlyWhenEarned ==
    [][CourseIsEarned /\ SceneLeavesAfterRace]_vars

(* The attract loop comes round for ever, unless the player stays in the   *)
(* menu or a scene that is not lifted is reached: the boot ends, every     *)
(* script ends, every game ends, and a car that never slows down cannot    *)
(* hold a race.                                                            *)
KeepsMoving == []<>(\/ mode = 2 /\ inner = 0
                    \/ mode = 4
                    \/ In(RomScenes))
====
