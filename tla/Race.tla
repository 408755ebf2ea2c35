---- MODULE Race ----
(***************************************************************************)
(* A race of the game, frame by frame (src/src/game/game_start_race_*.c,   *)
(* attract_hud_setup.c, texture_bank_select.c), as operators on the work   *)
(* RAM cells it keeps its progress in.                                     *)
(*                                                                         *)
(* hud_setup shows a splash while the textures of the course are uploaded, *)
(* a piece a frame.  Then six sub-slots follow one another: setup, the     *)
(* ramp that adds the time carried over from the course before, the start  *)
(* lights, the race against the clock, and one of two fanfares.  The lights*)
(* and the fanfares are stepped by a handler in the cell 0x20AB50 that the *)
(* sub-slots install; a fanfare's handler moves the scene on.              *)
(*                                                                         *)
(* The record "g" holds the cells; its other fields belong to module Game. *)
(* Cells that every sub-slot sets when it is entered, before it reads them,*)
(* share a field: "phase" the three phases, "count" the frames counted by  *)
(* the ramp, the lights and the fanfares.                                  *)
(* Inputs are parameters: what segment the car is in, how far along, how   *)
(* fast.  Left out: lap times and records, everything drawn or played, and *)
(* what only a linked cabinet reaches (0x20A560 is -1 and 0x20A758 is 1 on *)
(* a cabinet that stands alone).                                           *)
(***************************************************************************)
EXTENDS Integers, Sequences

CONSTANTS
    Rows, Ids,          \* laps of a course, and the segments of a lap
    Opening, Laps,      \* time given at each segment, first lap and later ones
    Splash, Pumps,      \* 120 frames, and the pieces a texture bank is sent in
    Ramp, RampEnd,      \* 50 and 60 frames
    Intro,              \* 166 frames before the lights
    Digit, LightsEnd,   \* 60 and 190 half frames
    Coast,              \* 300 frames without a clock
    Gift,               \* 59, added to the time carried over
    Mid, Short, Long,   \* 120, 420 and 480 frames of a fanfare
    Farewell            \* 240 frames of the farewell screen

Championship == 0
Practice     == 1
Kinds      == {Championship, Practice}
Courses      == 0 .. 3

RacePositive == {Splash, Pumps, Ramp, Digit, Coast, Farewell}

ASSUME RaceAssumption ==
    /\ {RampEnd, Intro, LightsEnd, Gift, Mid, Short, Long} \subseteq Nat
    /\ RacePositive \subseteq Nat \ {0}
    /\ Pumps <= Splash
    /\ Ramp <= RampEnd
    /\ 3 * Digit < LightsEnd
    /\ Mid <= Long
    /\ Farewell >= 2
    /\ Rows \in [Kinds \X Courses -> Nat \ {0}]
    /\ Ids \in [Courses -> Seq(Nat) \ {<<>>}]
    /\ \A p \in Kinds \X Courses :
         /\ Opening[p] \in Seq(Nat) /\ Len(Opening[p]) = Len(Ids[p[2]])
         /\ Laps[p] \in Seq(Nat) /\ Len(Laps[p]) = Len(Ids[p[2]])

(* The handlers of 0x20AB50: "win" waits and becomes "cont". *)
Handlers == {"none", "hud", "lights", "blank", "win", "cont", "win3",
             "dnf", "practice_win", "practice_dnf"}

----------------------------------------------------------------------------
(* game_start_race_rank_list_seed: the segments of every lap, with the     *)
(* time each one gives, then the finish.  Entry 0 is the start.            *)
LastSplit(g) == Rows[<<g.choice, g.course>>] * Len(Ids[g.course])

Split(g, k) ==
    LET lap == Len(Ids[g.course])
        i   == (k % lap) + 1
        p   == <<g.choice, g.course>>
    IN  IF k = LastSplit(g) THEN [id |-> 0, time |-> -1]
        ELSE [id   |-> Ids[g.course][i],
              time |-> IF k < lap THEN Opening[p][i] ELSE Laps[p][i]]

Even(g) == g.sub % 2 = 0

(* Seeded fault: what the last race did stays. *)
Slot0_KeepsDone(g) == [g EXCEPT !.next = 1, !.clock = Split(g, 0).time,
                                !.coast = 0, !.sub = @ + 2]

(* game_start_race_slot0 with lap_bank_clear. *)
Slot0(g) == [g EXCEPT !.done = FALSE, !.next = 1, !.coast = 0,
                      !.clock = Split(g, 0).time, !.sub = @ + 2]

(* game_start_race_slot1: the time carried over is added a bit a frame. *)
Slot1(g) ==
    IF Even(g) THEN [g EXCEPT !.count = 0, !.snap = g.clock, !.sub = @ + 1]
    ELSE [g EXCEPT !.carry = IF g.count > RampEnd THEN 0 ELSE @,
                   !.sub   = IF g.count > RampEnd THEN @ + 1 ELSE @,
                   !.clock = IF g.count <= Ramp
                             THEN g.snap + (g.carry * g.count) \div Ramp
                             ELSE @,
                   !.count = @ + 1]

(* The frames before the lights: the camera's tour of the course. *)
Tour(g) == IF g.choice = Practice \/ g.course = 0 THEN Intro ELSE 0

LightsStep(g) ==
    CASE g.phase = 0 -> [g EXCEPT !.prg = "hud", !.phase = 1]
      [] g.phase = 1 -> [g EXCEPT !.count = 0, !.phase = 2]
      [] g.phase = 2 ->
           IF g.count + 1 <= Tour(g) THEN [g EXCEPT !.count = @ + 1]
           ELSE [g EXCEPT !.count = 0, !.prg = "lights", !.phase = 3]
      [] g.phase \in 3 .. 5 ->
           IF g.count <= Digit * (g.phase - 2) THEN g
           ELSE [g EXCEPT !.phase = @ + 1,
                          !.sub = IF g.phase = 5 THEN @ + 1 ELSE @]
      [] OTHER -> g

(* game_start_race_slot2 *)
Slot2(g) == LightsStep(IF Even(g) THEN [g EXCEPT !.phase = 0, !.sub = @ + 1]
                       ELSE g)

(* game_start_race_slot3 enters and game_start_race_lap_tick. *)
Tick(g) == [g EXCEPT !.sub   = IF Even(g) THEN @ + 1 ELSE @,
                     !.clock = IF @ > 0 THEN @ - 1 ELSE 0]

(* Whether the car, in segment seg, has reached the next entry: the start  *)
(* line also counts only "past" most of a lap.                             *)
Reached(g, seg, past) ==
    /\ seg = Split(g, g.next).id
    /\ seg = 0 => past

Finishes(g, seg, past) ==
    Reached(g, seg, past) /\ Split(g, g.next).time < 0

(* A checkpoint gives time, the finish ends the race and keeps the rest.   *)
Gate(g, seg, past) ==
    IF ~Reached(g, seg, past) THEN g
    ELSE IF Finishes(g, seg, past)
         THEN [g EXCEPT !.sub = 8, !.done = TRUE, !.carry = g.clock + Gift]
         ELSE [g EXCEPT !.next = @ + 1, !.clock = @ + Split(g, g.next).time]

(* Seeded fault, once in the code: a car that moves coasts for ever. *)
TimeUp_OnlyWhenSlow(g, slow) ==
    IF g.clock > 0 THEN g
    ELSE LET left == (IF g.coast = 0 THEN Coast ELSE g.coast) - 1
         IN  [g EXCEPT !.coast = left, !.sub = IF slow THEN 10 ELSE @]

(* The end of slot 3: without a clock the car coasts, until it is slow or  *)
(* the coasting is over; that beats a finish in the same frame.            *)
TimeUp(g, slow) ==
    IF g.clock > 0 THEN g
    ELSE LET left == (IF g.coast = 0 THEN Coast ELSE g.coast) - 1
         IN  [g EXCEPT !.coast = left,
                       !.sub = IF left = 0 \/ slow THEN 10 ELSE @]

Slot3(g, seg, past, slow) == TimeUp(Gate(Tick(g), seg, past), slow)

WinHandler(g) == IF g.choice = Practice THEN "practice_win"
                 ELSE IF g.course = 3 THEN "win3" ELSE "win"

(* game_start_race_slot4: the course was completed. *)
Slot4(g) ==
    LET phase == IF Even(g) THEN 0 ELSE g.phase
    IN  CASE phase = 0 -> [g EXCEPT !.count = 0, !.prg = "blank",
                                    !.phase = 1, !.sub = @ + 1]
          [] phase = 1 -> [g EXCEPT !.prg = WinHandler(g), !.phase = 2]
          [] OTHER -> [g EXCEPT !.phase = phase]

(* game_start_race_slot5: the time was up. *)
Slot5(g) ==
    LET phase == IF Even(g) THEN 0 ELSE g.phase
    IN  CASE phase = 0 -> [g EXCEPT !.prg = "blank", !.phase = 1,
                                    !.sub = IF Even(g) THEN @ + 1 ELSE @]
          [] phase = 1 -> [g EXCEPT !.count = 0, !.phase = 2,
                                    !.prg = IF g.choice = Practice
                                            THEN "practice_dnf" ELSE "dnf"]
          [] OTHER -> g

(* game_start_race_sub_dispatch, for a car in segment seg. *)
SubSlot(g, seg, past, slow) ==
    CASE g.sub \in {0, 1}   -> Slot0(g)
      [] g.sub \in {2, 3}   -> Slot1(g)
      [] g.sub \in {4, 5}   -> Slot2(g)
      [] g.sub \in {6, 7}   -> Slot3(g, seg, past, slow)
      [] g.sub \in {8, 9}   -> Slot4(g)
      [] g.sub \in {10, 11} -> Slot5(g)

(* game_start_race_fanfare_prg: the scene moves on when it was long enough.*)
Fanfare(g, end, scenes) ==
    [g EXCEPT !.count = @ + 1,
              !.scene = IF g.count > end THEN @ + scenes ELSE @]

(* game_start_race_geo_prg_slot(0) runs the handler; game_start_race_      *)
(* countdown_prg is the one of the lights.                                 *)
RunHandler(g) ==
    CASE g.prg = "lights" ->
           [g EXCEPT !.count = @ + 1,
                     !.prg = IF g.count + 1 > LightsEnd THEN "hud" ELSE @]
      [] g.prg = "win" -> [g EXCEPT !.count = @ + 1,
                                    !.prg = IF g.count = Mid THEN "cont" ELSE @]
      [] g.prg \in {"cont", "dnf", "practice_win"} -> Fanfare(g, Long, 1)
      [] g.prg = "practice_dnf" -> Fanfare(g, Long, 7)
      [] g.prg = "win3" -> Fanfare(g, Short, 1)
      [] OTHER -> g

(* game_start_race_frame *)
RaceFrame(g, seg, past, slow) == RunHandler(SubSlot(g, seg, past, slow))

----------------------------------------------------------------------------
(* texture_bank_select: an upload starts, and one frame's piece of it. *)
SelectBank(g, course) ==
    [g EXCEPT !.busy = TRUE, !.pumped = 0, !.bank = course]

Pump(g) ==
    IF ~g.busy THEN g
    ELSE [g EXCEPT !.pumped = @ + 1, !.busy = g.pumped + 1 < Pumps]

(* attract_hud_setup: in the first frame of the scene, and in the others.  *)
(* game_start_race_cam_boot installs the handler of a race, game_start_    *)
(* race_sub_reset clears the sub-slot.                                     *)
(* Seeded fault: the time of the splash is left over from the last one. *)
ShowSplash_KeepsHold(g) == SelectBank(g, g.course)

ShowSplash(g) == [SelectBank(g, g.course) EXCEPT !.hold = Splash]

HoldSplash(g) ==
    IF g.hold > 0 /\ g.busy THEN [g EXCEPT !.hold = @ - 1]
    ELSE [g EXCEPT !.hold = @ - 1, !.sub = 0, !.prg = "hud",
                   !.left = Farewell, !.scene = @ + 1]

HudSetup(g, changed) == IF changed THEN ShowSplash(g) ELSE HoldSplash(g)

(* game_start_race_champ_course_advance: the next course, the winner's     *)
(* screen after the last, or the end.  Course 3 is for the first of course *)
(* 2: "first" is 0x2020C8 = 0, which every frame of the race sets.         *)
CourseAdvance(g, first) ==
    CASE g.done /\ g.course < 2 ->
           [g EXCEPT !.course = @ + 1, !.scene = @ - 2]
      [] g.done /\ g.course = 2 /\ first ->
           [g EXCEPT !.course = 3, !.scene = @ - 2]
      [] g.done /\ (g.course = 3 \/ (g.course = 2 /\ ~first)) ->
           [g EXCEPT !.scene = @ + 1]
      [] ~g.done /\ g.course # 3 -> [g EXCEPT !.scene = @ + 5]
      [] ~g.done /\ g.course = 3 -> [g EXCEPT !.scene = @ + 6]

(* game_start_race_timer_arm: the farewell, whose first frame counts the   *)
(* game in the bookkeeping; it is over at -1.                              *)
TimerArm(g) == [g EXCEPT !.left = IF @ = Farewell THEN @ - 2 ELSE @ - 1]
====
