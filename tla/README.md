# Verification of the lifted Sega Rally host

The repository lifts the i960 program of a Sega Model 2 board to C (`src/game`, `src/boot`,
`src/irq`, `src/libc`) and runs it on a host (`lib/model2`, `src/host`) that emulates what the
program talks to: a geometry FIFO, a video register, a sound board. The lifted game is one
thread. Around it run four more (geometry decode, video timer, screen recorder, sound board), an
SDL audio callback, ring buffers addressed by wrapping counters, and condition variables; inside
it a game that can be left at any frame goes on from work RAM it never clears, and coins outlive
the power in a file. This project models those parts in TLA+, checks them with TLC on small
instances, and proves their central properties with TLAPS for every value of the constants.

Paths in this file are relative to the repository's root.

## 1. Inventory

| Component | Code | State | Operations | Talks to |
|---|---|---|---|---|
| GEO PRG FIFO | `lib/model2/hw/model2_hw_fifo.c` | word ring, matrix ring, 32-bit write counter, frame mark, displayed and densest range; captured settings, upload in progress | push, retention on/off, latch, publish best, reset, copies; command and data ports | written by the game, read by the decode worker; kicks it through a notify callback |
| GEO decode worker | `lib/model2/geo/model2_geo_render.c` | kick and stop flags, request and answer counters, collector, published mesh | init, kick, synchronous decode, clear, shutdown, the thread | reads the FIFO, publishes for the viewer |
| Video sync | `lib/model2/hw/model2_hw_vsync.c`, `src/game/geo_vsync_wait.c` | vblank counter, video register, render mode, timer thread | register read and write, wait for a toggle of bit 2, timer, shutdown | every `geo_vsync_wait` of the game; ends in the FIFO's latch |
| Screen recorder | `src/host/sys24_viewer_record.c` | one pending frame, writer's copy, counts | start, submit, stop, the writer thread | viewer's present; ffmpeg through a pipe |
| Sound board | `lib/model2/snd/model2_snd.c`, `src/host/model2_snd_lift.c` | PCM ring, stop flag | board thread, audio callback, start, stop, reset, device open and close | MIDI path in, SDL audio out |
| MIDI path | `src/game/comm_draw_setup.c`, `src/irq/irq_timer0_latch.c`, `model2_snd.c`, `model2_snd_scsp.c` | TX ring, UART queue, SCSP FIFO | enqueue a command, drain per vblank, drain per chunk, pop | game to sound CPU |
| Coins and credits | `src/game/game_coin_*.c`, `game_io_coin_sense.c`, `coin_option_validate.c`, `attract_credit_*.c` | battery-backed cells: coins, credits, plays, chute masks, audits; coin options | a frame of coin edges, conversion at the price, service credit, spend | the input poll, the mode machine |
| Backup RAM | `src/host/model2_nvram.c`, `lift_boot_screen.c`, `src/game/game_subsys_boot.c`, `game_mode_table_fetch.c` | settings file, staged settings | load, apply, capture, save; the boot that keeps or resets | coins; power |
| Mode machine | `src/game/game_dispatch_main.c`, `game_mode_apply.c`, `game_inner_dispatch.c`, `comm_attract_*.c`, `geo_scene_mode_dispatch.c`, `game_start_*` | mode `0x202098`, place `0x20209C`, scene `0x2020AC`, attract and menu records | one handler per frame; TEST | coins (a play starts a game), the race |
| Race | `src/game/game_start_race_*.c`, `attract_hud_setup.c`, `texture_bank_select.c` | sub-slot, phase, clock, carried time, next checkpoint, handler cell `0x20AB50`, texture upload | splash, ramp, lights, race, fanfares, farewell, course advance | mode machine; textures |
| Display-list interpreter | `lib/model2/geo/model2_geo_{dl,parse,gl,hw,tex}.c` | geometry state | decode a stream of words | called by the decode worker |
| TGP coprocessor | `lib/model2/tgp` | DSP registers, FIFOs | execute, push, pop | game, GEO matrices |
| 68000 and SCSP | `lib/model2/snd/model2_snd_{m68k,scsp}.c` | CPU and voice state | step, render | board thread |
| Host memory and dispatch | `lib/model2/host` | address map, ROM images | load, store, dispatch of calls, summary at the end | everything |
| SDL viewer and tiles | `src/host/sys24_*.c` | window, tile maps | present, poll input | worker, recorder, clock |
| Everything drawn or driven | the other files of `src/game` | car physics, cameras, scenery, sprites | one step per frame | host memory |

**Hard behaviours.** The decode worker takes its snapshot of the FIFO in five critical sections
while the game writes; one condition variable carries kicks and answers; 32-bit counters wrap
and are compared with `<` and `>`; buffers are freed at shutdown behind a join; a scene change
clears what the worker is filling; a timer toggles a bit that its waiter may look at too late;
the PCM ring is cleared without its mutex; a broken encoder pipe leaves a recording active;
three bounded byte queues in a row may each be full. A save may be cut short at any byte; plays
are bought at a limit; TEST leaves a game anywhere and the next game meets its cells; a race is
entered by a splash that must outlast a texture upload; a handler left in a cell fires in
another race. `PROJECT.json` lists each hazard at its line with the properties that guard it,
and says which none guards.

**What makes each component correct.** FIFO: a frame that is copied out is one frame, whole and
in order. Worker: no request is lost, no deadlock, nothing runs after the shutdown. Pipeline:
what is drawn is a frame that was latched, never older than one drawn before, and eventually
the newest. Video sync: a wait returns, and only on a toggle. Recorder: ordered, bounded loss,
flushed at the end, with a report that adds up. Sound: played once, in order, none thrown away,
and stopping returns. MIDI: commands keep their order, losses happen at full queues only. Coins:
credits and plays balance against coins. Backup RAM: any file makes a usable cabinet, a saved
play comes back, none is invented. Game: time, courses and scenes follow from what was driven in
this game, with the right textures, and the attract loop comes round.

## 2. Modules

| Module | Models | Correspondence |
|---|---|---|
| `PrgFifo` | FIFO | one action per critical section of `g_fifo_mtx`; a word is its serial number, so a copied range can be compared with what was written |
| `GeoPorts` | FIFO's command ports | one action per write: the settings parser and the upload parser fed the same word; a word is its place in the log of writes, and the whole log, read at once, is the reference definition |
| `GeoWorker` | the worker's handshake | one action per critical section of `g_worker_mtx`, up to the wait that releases it; `sleepers` is who is in `pthread_cond_wait`; a signal wakes any one of them |
| `GeoPipeline` | both, composed | EXTENDS the two; opens the state "decoding" into the reads, the collector and the publication; adds clear, summary and shutdown |
| `FrameMailbox` | abstract | one-place mailbox of frames, implemented by `GeoPipeline` |
| `Vsync` | video sync | three clocks, chosen once, and a timer thread |
| `Recorder` | recorder | critical sections of `g_mu`, and the write outside it |
| `FrameSink` | abstract | lossy ordered channel with a flush on close, implemented by `Recorder` |
| `SoundPcm` | board, ring, callback | a push is one action; a pull is taken apart to the test and the update of each frame, because the unlocked clears can fall between |
| `SoundMidi` | MIDI path | a byte is its serial number; one action per byte for the unlocked game side, per critical section for the board |
| `Coins` | accounting | operators on the image of the backup RAM: what one frame does to the cells |
| `Cabinet` | power, boot, file, coins | EXTENDS `Coins`; one action per step of the only thread between two power-ups: load, boot, mode handler, coin frame, poll, save |
| `Race` | a race, frame by frame | operators on the record `g` of work RAM cells, one per sub-slot handler; where the car is and how fast are parameters |
| `Game` | the mode machine | EXTENDS `Race`; a step is a frame of the main loop with the handler of the mode and the texture piece sent after it, or TEST at its end |
| `MCCabinet`, `MCGame` | instances | files, scripts, courses and holds for TLC |
| `*_proofs` | theorems | section 5: one module each for `GeoPipeline` (with `PrgFifo` and `GeoWorker`), `GeoPorts`, `Vsync`, `Recorder`, `SoundPcm`, `SoundMidi`, `Cabinet`, `Game` (with `Race`) |

Operators named `X_Fault` before an operator `X` are seeded faults: `X` as a plausible bug would
have it. Nothing uses them; putting one in `X`'s place makes TLC report the property paired with
it under "mutants" in `PROJECT.json`, which shows that the property depends on that code.

Variables called `hist` and `books` (and `losses`, and the fields `of`, `from`, `lapped` of the
worker's locals) are history: they remember serial numbers, counts and balances for the
properties. No guard reads them except for a named bound. `Game` clears its history when a game
is left, `Cabinet` opens new books at a boot: what a property says is then said of one game, one
power-up. `books.failed` remembers a save before the boot that could not open the file.

Some choices that a reader of the code may question:

- `GeoPipeline` treats the reset of the collector by `model2_geo_render_clear_draw`, which races
  with the unlocked worker, as leaving any contiguous piece of the words being handled. It says
  nothing about memory that a torn read of the vectors could touch.
- `GeoPipeline` counts scene clears and allocations that fail in `rebuild_gl_buffers` in one budget
  (`MaxLosses`): each takes a mesh from the screen or keeps one there that should have gone.
- Before the first latch the worker decodes the whole ring, whatever uploads fell into it. `PipeInv`
  therefore speaks of the meshes of latched frames, and says that a mesh with words from both sides of
  an upload is one that no frame was marked as drawn for (`mesh.of = 0`).
- `GeoPorts` gives a truncated upload the data words up to the next upload command, as the code
  does: no other command ends one.
- The copro word counter, which makes the worker look at the FIFO once more, is left out; so is
  `I960_GEO_PRG_DECODE=0`, which turns decoding off.
- The display-list interpreter is a choice: it drew something or not.
- In `Vsync`, the two low bits of the register are left out: only their writer reads them.
- In `SoundPcm`, what a chunk renders and the wall-clock pacing are left out: only the level of
  the ring holds the board back.
- In `SoundMidi` the sound program pops whenever it likes. That it does at all is assumed for
  one liveness property only (external code: the 68000 program in ROM).
- A save in `Cabinet` either cannot open the file, which stays as it is while the settings in memory
  have already been captured (`Captured`), or writes it up to an entry of `Cuts`. A cut that goes
  through an entry is read back as the loader reads it (`Torn`): a number as its first digits, a
  flag byte of two digits as one, a cell as its low bytes, and the address that begins a line of the
  image, when its colon is missing, as two bytes of the cell behind it.
- `Coins` keeps two switches and two bits of a chute's mask (`Counts`), so that a mask edited by hand may
  name the other chute's switch; the other lines of the input port are left out.
- `Cabinet.StartGame` models the spending of plays; `Game` leaves whether a play is there as a
  free choice (`start` in `Attract`). The two modules share no state and are not composed.
- In `Game`, how a choice is confirmed (pedal latch, START) is a free choice, and so are the
  positions and speed of the car; the scripts of the attract scenes are a constant, in the ROM.
  A call of a scene that the repository does not lift does nothing, or ends the game where its
  table entry is zero (`RomScenes`).
- TEST is pressed once, in any frame up to the end of game `MaxPlays`; the play after that meets
  what it left. That the cells matter only to the next play is why one TEST is enough.

## 3. Runs

| Run | Shows | Instance |
|---|---|---|
| `prg_fifo` | frames are disjoint, split at texture uploads, copied exactly; a latch loses a frame only when the counter wraps within it | ring of 3, counter of 6, 8 words: the ring laps twice, the counter wraps, frames are shorter and longer than the ring |
| `geo_ports` | settings are those of the last complete command, uploads are delivered whole, once and in order, with commands cut short or over-long, uploads and settings interleaved, and failing allocations | every log of 6 writes over 4 functions and 3 values; windows of 2 words and 2 texture slots, so that a command can be complete, cut short and followed by another, and slots wrap |
| `geo_worker` | types, no lost wake-up, no mutual wait, nothing left after shutdown; decode and shutdown return, every kick is served | counter of 5 wraps; unbounded otherwise, restart after a shutdown included |
| `geo_pipeline` | a decode gets one frame with its own matrices; the mesh of a latched frame spans no upload (`PipeInv`); a worker at rest has seen every word and every frame (`NothingLeftBehind`); the pipeline implements `FrameMailbox`, clears and failed allocations included; once the summary has begun the process ends, its worker joined (`SummaryEnds`) | ring of 2, 2 words, 3 kicks of the game beside those of the summary, one upload, one clear or failed allocation; 300,000 states. A mesh of the whole ring that does mix words is among them |
| `geo_summary` | finding 1 | the smallest instance with a decode under way at the summary |
| `vsync` | a wait returns on a toggle only, after at most two vblanks without a timer; wait and shutdown return (`CallsReturn`); the stop escape of the wait loop is never taken (`VsyncInv`) | counter of 8: two periods of the slower mode, and a wrap |
| `recorder` | the recorder implements `FrameSink`; its report adds up; the writer never sleeps on work (`RecorderInv`) | 5 frames in one recording: written, pending and dropped ones, any number of recordings |
| `sound_pcm` | no frame thrown away and unlocked clears change nothing (`PcmInv`); none repeated or reordered; stops return | ring 6, target 3, chunk 2, period 2: the proportions of 8192, 1024, 256, 512 that matter are target + chunk within the ring and a period unequal to what is left |
| `sound_midi` | order kept and every byte accounted for (`MidiInv`); nothing lost while the sound program keeps up; no byte stays behind | rings of 8, 5 and 3, 4 commands: the TX ring wraps in mid-command, both later queues overflow |
| `cabinet` | credits and plays balance; any file makes a usable cabinet; a boot gives back the saved plays and invents none | limit of 1, 4 first files (none, two slots at price 3 with 2 plays a game, free play, a unit of zero), saves that cannot open the file, or end at 0, 3 or 12 of 18 entries or within the last of them (nothing, in the options, at the credits behind a line's address and before the second chute's mask), 2 power-ups, 3 coins and one service credit each |
| `cabinet_restart` | finding 2 | no file, 2 power-ups |
| `game` | a game cut short costs or gives the next one nothing (`ClockIsEarned`, `GameInv`); races run with their textures; courses and scenes follow from what was driven; the loop comes round | two games with TEST in any frame of the first; one course with a checkpoint, one of two laps, one-segment courses else; holds of 1 to 3 frames in the order of the code's (`Pumps <= Splash`, `Ramp <= RampEnd`, `3 * Digit < LightsEnd`); 960,000 states |

Bounds: `MaxWords`, `MaxFrame`, `MaxGen` (words retained, words between latches, publications),
`MaxLog` (writes to the ports), `MaxKicks`, `MaxUploads`, `MaxLosses`, `MaxFrames`, `MaxBytes`,
`SerialMod` (serial numbers of PCM frames, more than the ring holds), `MaxBoots`, `MaxCoins`,
`MaxService`, `Cuts`, `MaxPlays`. `MaxFrame < TotalMod` says that no frame has 2^32 words;
without it the FIFO's arithmetic is meaningless. `prg_fifo`, `geo_ports` and the two cabinet runs
turn the deadlock check off because these bounds may end a behaviour; in every other run it is on.

The bounds suffice for these questions because the code's cases depend on orders (before or after
a latch, a kick, a wrap, a lap, a full buffer, a cut, the end of a hold), each of which occurs
within them; the theorems of section 5 remove them for most safety properties.

## 4. Fairness

- Worker threads (`WorkerStep`, `DecodeNext`, `Timer`, `Writer`, `Board`) are weakly fair: they are
  running threads whose unlocked work is a bounded loop or an `fwrite` that is assumed to return.
- A call the main thread is in goes on when it can (weak). No run assumes that it makes another
  call, that a frame is submitted, or that a device pulls.
- `Game`'s `Frame` is weakly fair: the main loop runs. Nothing is assumed of the player: no play
  starts, no choice is confirmed, no checkpoint is reached and the car never slows down unless it
  likes. `KeepsMoving` excepts a player who stays in the operator menu and the scenes that are not
  lifted.
- Strong fairness is used four times, each time because a thread competes for something that comes
  and goes. `WaitReturn` (`Vsync`): the waiter sees a toggle before a later tick undoes it; a
  tick is 17 ms, but the code does not enforce it. `LockedClear` and `BoardPush` (`SoundPcm`): the
  mutex is had between two pulls of the callback. `MidiPop`: the sound program reads
  its FIFO in some chunk.
- `FrameMailbox` and `FrameSink` carry the fairness their implementations are shown to provide.
- `Cabinet` has safety properties only.

## 5. Theorems

TLAPS checks these for every value of the constants that satisfies the named assumptions of the
modules; the constants are widths, capacities and bounds, so that a theorem also speaks of the
code's own sizes.

The handshake, in `GeoPipeline_proofs` (`GenAssumption`: a positive width). `NoLostWakeup` is not inductive: that a
signal reaches the right thread depends on who else may be asleep. `WorkerInv` adds that the main
thread sleeps only inside a decode call (so a signal it sends finds only the worker: lemma
`SignalReachesWorker`), that the worker sleeps only when neither kicked nor stopped, that a waiting
caller's request is the newest, and that the stop flag belongs to the shutdown. From it follow
`TypeCorrect`, `NoWakeupIsLost`, `RequestsAreHeld` and `NobodyAfterShutdown`. The worker's loop is
proved once (`WorkerLoopInv`) for the three places it is entered from.

The FIFO, in `GeoPipeline_proofs` (`FifoAssumption`: a capacity that divides the counter's width; no frame as long
as that width). `FramesAreDisjoint` and `NoFrameSpansUpload` speak of words while the code keeps
wrapping positions. `Bookkeeping` ties them by linear arithmetic alone: the frame in progress never
measures more than the words pushed since its mark, published ranges are ordered, every upload lies
at or before the mark. From it follow `FifoTypeCorrect`, `PublishedFramesDisjoint` and
`UploadsSplitFrames`. What is copied out needs the ring: `Placement` adds that every position is
its serial number modulo the width and that the last `Cap` words are each in their slot. The
division of the width by the capacity makes a wrapped position address the same slot as its
serial number. From it follow `DisplayedSliceIsFrame` (what is copied is the frame, or its end when
the ring has lapped it) and `LatchKeepsFrames`.

Their composition, in `GeoPipeline_proofs` (`PipelineAssumption`, and the two above). `HandshakeIsKept`: each step of the
composition is a step of the handshake or none. This holds by the way the module is composed and is no
result by itself; it is the lemma that carries what is proved of `GeoWorker` over to the composition.
`OrderInvariance`: `Order` bounds the ages of what the decoder has read, decoded and drawn by what is
latched. It is inductive without a word of what the frames contain, and gives
`PipelineImplementsMailbox`, the safety of the refinement. `NothingIsLeftBehind` needs one more
invariant, `CaughtUp`: it says, for each place the decoder may be in between its reads, what of the
counters it may have missed, and that a kick or a notification is then still on its way. The contents are `DataInv`: the
range read is a finished frame that no upload splits, what is copied lies in it, also after a clear
has cut pieces off, and is all of it in order while the ring has not lapped it. From it follow
`OneFrameIsDecoded` and `PipelineSafe`. The latter says that words from both sides of an upload come
together in a mesh of the whole ring only, made before the first latch (lemma `NothingMixed`).
`DataInvariance` and these two have the hypothesis `MaxWords < TotalMod`,
fewer than 2^32 words written: when the counter has wrapped since the range was read, the code copies
nothing or the wrong words, which `PrgFifo` allows for at most one frame and the pipeline's
invariant does not describe.

`Vsync_proofs` (`FrameAssumption`: a width that four divides, as the slower mode needs across a
wrap). The register can move under the waiter only when a timer thread runs: `ClockInv` says that one
belongs to the timer clock and that without one the latched bit is still the register's. From it follow
`VsyncSafe` and `WaitReturnsOnToggle`.

`Recorder_proofs` (`MaxFramesAssumption`). `SlotInv` rests on `Accounts`: until a write falls short
every submitted frame is written, dropped, pending or in the writer's hands; afterwards one more is
missing. From it follow `RecorderSafe` and `ReportsAddUp`. With the ages of the frames under way
(`SinkInv`) every step maps to a step of `FrameSink` or none: `RecorderImplementsSink`.

`SoundPcm_proofs` (`PcmAssumption`: target and chunk fit the ring, the ring the counters and
the serials).
`NothingThrownAway` holds because the board pushes only after it found the ring at its target
(`Paced`); the unlocked clears are harmless because a ring nobody fills is empty (`Quiet`) and a
callback that saw a frame finds it again (`SawAFrame`). Slots and serials both count modulo their
width; because the ring is shorter than either width, no sum runs more than one turn ahead, and
waiting frames never share a slot. Theorems: `PcmSafe`, `FramesPlayInOrder`.

`SoundMidi_proofs` (`MidiAssumption`: a drain is no longer than the FIFO). `FeedInv`: what the board
carries fits the FIFO as long as it found it empty, which gives `NothingLostWhenKeptUp`. Order is
another matter: "neighbours rise" is not inductive, since each byte dropped from a full queue makes
neighbours of two others. `OrderInv` therefore says that any two bytes on their way, in whichever of
the buffers they are, are in the order they were sent, and that those in the TX ring are less than a
turn of it apart, so that no two share a slot. From it follows `BytesStayInOrder`.

`Cabinet_proofs` (`LimitAssumption`, `CabinetAssumption`: the files are files, the bounds natural).
The inductive invariant has the types, options that pass validation while the cabinet runs, chute 0
wired, fewer credits in a slot than its price and the two balances; the
conversion at the price is the integer division that makes a leaf of its own. From it follow
`CabinetTypeCorrect`, `BooksAlwaysBalance` and `CabinetAlwaysUsable`. `BootsRestorePlays` rests on
`MemoryIsFile`: until the boot, memory is what the file says, or F3 was pressed; then the settings hold
a mode word of zero, and so does the file unless it could not be opened. All four hold for every
settings file, price, bonus, limit and place where a save is cut.

`GeoPorts_proofs` (`PortsAssumption`: a window of two words or more, positive lengths, any set of
ports and values). The properties compare a parser that sees one word at a time with a reading of the
whole log. The argument has two halves. The log's half says what one more write changes in that
reading: a word goes to the last command only (`PayloadAfter`), the word lists of all others stay,
`InOrder` of a set grows at its end (`InOrderGrows`), so that at most one setting is new
(`FixedSame`, `TexAfter`) and at most one upload complete (`NewlyComplete`, `UploadsNew`). The
parser's half is the inductive invariant: what a parser holds is what the words of the last command
read as. `SettingsInv` has a clause each for a setting of fixed length and for the three stages of
the texture parameters (`TexBegins`, `TexGoesOn`, `TexOver`); `UploadInv` has the same for an upload,
with the places at which an allocation failed, and says what a parser at rest has seen, which is what
keeps the rest of an abandoned upload from being read as another. From them follow
`SettingsFollowTheLog` and `UploadsFollowTheLog`, for logs, windows and slots of any length.

`Game_proofs` (`RaceAssumption`, `GameAssumption`: among others that an upload has no more pieces
than the shortest splash has frames). TEST leaves every cell as it stands, in any frame, so that
nothing holds of a cell at large. `GameIInv` speaks of a cell only in the scenes where the program has
set it: while a splash stands its hold and the upload go down together (`SplashFits`, `BeatFits`);
in a race the handler installed is one that this sub-slot installs (`HandlerFits`); what is
carried over is what this game's finishes earned (`DoneFits`); the clock, the frames run and the
carried time balance against the checkpoints passed (`ClockFits`). From it follow `GameSafe`, `TexturesAreReady`,
`ClockAlwaysEarned` and `ScenesAreEarned`. The time a course gives is the sum of a table of any length,
a recursive function; the step from one entry to the next (`SumUnfolds`) is proved from the least
counterexample, since an induction theorem that takes an operator cannot be used.

Only model-checked: all liveness, with it `KeepsMoving` and the liveness of the two refinements
(liveness under fairness and `ENABLED` are beyond the prover). Every safety invariant and action
property of the passing runs is a theorem; those of the pipeline that follow from `DataInv` only
while the word counter does not wrap, as said above.

## 6. Findings

1. `DecodeIsCaughtUp`: a synchronous decode asked for during a decode is answered by that decode,
   which took its snapshot before (`lib/model2/geo/model2_geo_render.c:912`), so the headless
   summary can be dumped without the frame just latched. The header promises to wait for the
   catch-up (`lib/model2/geo/include/model2_geo.h:76`).
2. `SaveKeepsCoinage`: after a first save a restarted cabinet meters coins but credits none. The
   boot says that a prior save keeps the coinage (`src/game/game_subsys_boot.c:24`), but the coin
   values are set only when the saved options are found missing
   (`src/game/game_mode_table_fetch.c:40`), and are not saved.

Met while modelling, and not run:

- Clearing the mesh at a scene change neither stops a decode under way nor marks the latched frame
  as decoded, so that the last frame of the old scene can be published again
  (`model2_geo_render.c:1316`, against `model2_geo.h:71` and `src/game/game_start_car_display.c:96`).
- The PCM ring holds up to `PCM_TARGET + PCM_CHUNK` frames, 29 ms where the comments say 23
  (`lib/model2/snd/model2_snd.c:274`, against `model2_snd.c:23` and
  `src/host/model2_snd_lift.c:56`). The ring's bound is what `NothingThrownAway` says.
- When the timer thread cannot be created `geo_vsync_wait` sleeps with nobody to wake it
  (`lib/model2/hw/model2_hw_vsync.c:262`); no statement in the repository says otherwise.
- What changed since the last save is lost with the power: `model2_nvram_sync_if_dirty`, the only
  reader of the dirty flag, has no caller (`src/host/model2_nvram.c`).

- Until the first latch the worker decodes whatever the ring holds, so that a mesh drawn then may mix
  words from before and after a texture upload (`model2_geo_render.c:605`).
- F3 on the splash captures the settings, a mode word of zero among them, before it opens the file
  (`src/host/model2_nvram.c:350`). If the open fails the file stays whole, but the boot that follows
  takes the cabinet for new and clears the plays. `BootRestoresPlays` excepts this case by name.
- A file cut in the address of a line is read with the address as data (`model2_nvram.c:252`): a
  settings file that ends in `0020` gives slot 0 8192 credits, which the cabinet then converts.
- A failed allocation in `rebuild_gl_buffers` keeps the mesh on the screen
  (`model2_geo_render.c:263`), with its frame taken as decoded.

## 7. Not modelled, and why

The map covers a tenth of the repository's 65,000 lines. The rest has next to no control to
interleave or to lose: most of it is numeric code of the game (car physics, cameras, scenery,
sprites: 390 files that each compute on floats and draw), the display-list interpreter, texture and
tile decoding, and the three instruction-level emulators (TGP, 68000, SCSP), for which a model
would be the program over again. Input and output (SDL, ROM loading, PNG and ELF files),
disassembly, reference data and scripts make up what is left.

Within the modelled components: projection and shading as read by the decoder, which takes them
live, not with the frame; a decode worker that could not be created; `model2_hw_fifo_reset_counts`
in the pipeline (it has no caller; `PrgFifo` has it); settings without a bearing on coins; lap
times and the table of records, kept in cells that nothing modelled here reads; a linked cabinet;
the pages of the operator menu; how a choice is confirmed; scenes that are in the ROM only.

## 8. Plan

Done: the FIFO, its ports, the worker and their composition with `FrameMailbox`; video sync; the
recorder with `FrameSink`; PCM ring and MIDI path; coins, backup RAM and restarts; the mode machine
and the race; proofs of the safety of all of them.

Left, in this order:

1. `GeoPorts` composed with `GeoPipeline`: projection and shading as the decoder reads them, live,
   against those of the frame it decodes.
2. The pipeline's data across a wrap of the word counter: an invariant without the hypothesis
   `MaxWords < TotalMod`, from what `PrgFifo` proves of a wrapped frame.
3. `TgpFifo`: the coprocessor's bounded input and output queues between the game and the DSP.
4. Lap records: insertion into the ranked table of a course, which a walk by stored links searches.
5. `Cabinet` composed with `Game`: a game starts only for a play that was paid.
