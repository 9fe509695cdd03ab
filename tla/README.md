# Galaga: a TLA+ model of the board and its software

The repository is a game of Galaga written in SystemVerilog for an FPGA board,
with a C program on a Nios II processor that reads a USB keyboard. This
directory holds TLA+ modules for the game hardware, the drawing, the way to the
USB chip, the keyboard driver and the parts of the board support package the
program runs on, TLC configurations that check them, and TLAPS proofs.

## 1. The system

The hardware runs on one 50 MHz clock `Clk`, except the sync generator, which
runs on a 25 MHz clock derived from it. A register takes its next value at the
clock edge from the values all registers had before it. There is no handshake
between the modules: they are wired together, and what one of them sees of
another is at most one cycle old. That one cycle is where the interesting
behaviour of the game is. The processor runs one program without an operating
system; one device interrupts it, the JTAG UART behind `printf`.

| component | source | state | operations | talks to |
|---|---|---|---|---|
| signal controller | `signal_controller.sv` | `state`: START, PLAY, BOSS_LOGO, BOSS_FIGHT, GAMEOVER, WIN | one step per clock | reads the key code and `died`, `killed_all1`, `killed_all2`; drives `play`, `boss_fight` |
| game controller | `game_controller.sv` | none (wiring) | score, end-of-game signals, `laser_hit`, colours | all of the game |
| user ship | `user_ship.sv` | position, motion | frame tick, reset | reads the key code; drives its position |
| user laser | `laser.sv` | position, motion, `space_pressed` | rest, fire, fly, pass the top, return after a hit | reads ship position, key, `laser_hit`, `play`, `boss_fight` |
| enemy ships, rows | `enemy-ship.sv`, `eship_row.sv` | per ship: position, motion, hit latch | go home, land, park, fly | read laser position, `play`, `done`; drive `gameover`, `laser_hit`, score |
| hit controllers | `hit_controller.sv`, `hit_controller_boss.sv` | the hit latches | overlap test, latch | instantiated by ships and boss |
| boss | `boss.sv` | position, motion, hit latch | as a ship, plus dodging on Space | as a ship, gated by `boss_fight` |
| frame clock | `VGA_controller.sv`, edge detectors in each moving module | counters, delayed sync | one tick per frame | every moving module |
| drawing | sprite blocks of the bodies, `galaga_logo.sv`, `ram.sv`, `sprite_rom.sv`, `Color_Mapper.sv`, colour multiplexer of `game_controller.sv` | output registers of the memories | address, read, pick the first that claims the pixel | the beam, the game, the screen |
| top level | `lab8.sv` | reset register; the key code port of the processor | | connects game, processor and screen |
| HPI bus | `hpi_io_intf.sv`, the ports of the Nios system, `io_handler.c` | ports, bus registers, the bus itself | `IO_init`, `IO_write`, `IO_read`, statement by statement | processor and USB chip |
| transfer lists | `usb.c` | nine lists, written word by word into the chip's memory | write, submit, submit again | the chip, which walks them |
| keyboard driver | `software/usb_kb/main.c`, `usb.c` | program counter, device status | reset, enumerate, poll, hot plug | HPI bus; writes the key code port |
| console | `altera_avalon_jtag_uart_*.c`, `nios_system_jtag_uart_0.v` | two circular buffers, two FIFOs, interrupt enables | write, read, close, ioctl, interrupt handler, timer | program, core, host |
| interrupt dispatch | `alt_exception_entry.S`, `alt_irq_entry.S`, `alt_irq_handler.c` | pending and enabled interrupts | exception, search, handler, return | console core and driver |
| file descriptors | `alt_open.c`, `alt_close.c`, `alt_fd_lock.c`, ... | descriptor table, high-water mark | boot redirection, open, close, lock, fcntl | program and drivers |
| alarms | `alt_tick.c`, `alt_alarm_start.c`, `alt_llist.h` | tick counter, linked list | start, stop, tick, callback | timer, drivers |

What is hard here, and cannot be seen in a simulation of a few frames or in a
session with the keyboard:

* *One-cycle races.* A hit is seen in one cycle, latched and answered by the
  laser in the next, and the ship is moved away in the one after that. A
  landing is seen in one cycle and changes the screen in the next. Between
  these cycles the parts of the game disagree.
* *Signals that clear their own cause.* `done` clears the latches and is made
  of signals that are gone a cycle later.
* *Unsigned, wrapping coordinates*, edges found one frame late, equality tests
  on values that move in steps, boxes that are one pixel larger than their
  image.
* *Liveness*: the single laser must come back; rounds and fights must end
  although the player may dodge the boss at every frame; `printf` must return.
* *Level-sensitive keys*, with the key code held by a program that runs a
  million times slower than the game.
* *A bus driven from two sides*, one switched by a processor port and the other
  by a pin that is a register later.
* *A driver that polls*: it writes a transfer list over the one the chip may
  still be walking, reads and clears a message register in two accesses, reads
  buffers that may not have been filled, and is not told when the chip is reset
  under it.
* *Interrupts*: thread and handler share buffer indices and enable bits, and
  the host acts between the exception and the search for its cause.
* *Tables and counters at their limit*: a high-water mark, a lock search that
  stops one entry early, times that wrap, callbacks that change the list they
  are called from.

What makes each component correct, in short: the signal controller moves to
the boss only with every ship hit, and to the start with a clean score; hits
are counted once and kept until the game is over; every contact of the laser
in play is answered; ships, enemies and boss stay on their tracks and the
latter come down; the laser always returns; one press turns one screen; every
pixel shows what stands there; the wires to the USB chip behave like registers;
a list is harmless to write again; the driver survives lost messages and
removed keyboards and invents no key; the console loses no byte, no wake-up and
no interrupt; locks exclude, and alarms ring in their tick.

## 2. The modules

| module | models | extends |
|---|---|---|
| `Playfield` | parameters, 10-bit arithmetic, edges, keys | |
| `SignalController` | `signal_controller.sv`, variable `state` | |
| `UserShip` | `user_ship.sv`, variable `ship` | `Playfield` |
| `UserLaser` | `laser.sv`, variable `laser` | `Playfield` |
| `HitController` | overlap test and latches of both hit controllers | `Playfield` |
| `EnemyShips` | `enemy-ship.sv` and `eship_row.sv`, variables `enemy`, `hit` | `HitController` |
| `Formation` | what the game relies on when it chooses the slots, and what it gives for the way of the ships | `SignalController`, `EnemyShips` |
| `Boss` | `boss.sv`, variables `boss`, `bossHit` | `HitController` |
| `FrameClock` | what the game sees of the sync generator, variable `gap`; abstract specification | |
| `GameController` | the wiring of `game_controller.sv`: `Clock(tick, key)` is the conjunction of one step of every component | the modules above |
| `Match` | the rules of a match without a board; abstract specification | |
| `Console` | `lab8.sv`: the game behind the key code port | `GameController` |
| `VgaController` | `VGA_controller.sv`, with the edge detector of `user_ship.sv` (the same in every moving module) | instantiates `FrameClock` |
| `Picture` | boxes, memories, logos and the order of the colours | `VgaController` |
| `Lab8` | `lab8.sv`: generator, game with its port, and drawing wired together | `Console`, instantiates `Picture` |
| `HpiIo` | `io_handler.c`, the ports, `hpi_io_intf.sv`, the bus | instantiates `HpiBus` |
| `HpiBus` | what `IO_write` and `IO_read` promise; abstract specification | |
| `UsbChip` | the USB chip and the keyboard on it: the environment of the driver, not in `src/` | |
| `UsbKeyboard` | the program `software/usb_kb` (`main.c`, `usb.c`) | `UsbChip` |
| `UsbLists` | the enumeration with the nine transfer lists of `usb.c` word by word, and the chip walking them | instantiates `UsbKeyboard` |
| `JtagUart` | the driver of the JTAG UART, its core, the interrupt dispatch | |
| `FileTable` | the descriptor table of the HAL | |
| `Alarms` | `alt_alarm_start`, `alt_alarm_stop`, `alt_tick` | |
| `GameProof` | theorems about the game | `GameController`, `Formation` |
| `VgaProof`, `HpiProof`, `UartProof`, `KeyboardProof`, `ListsProof`, `HalProof` | theorems | the module (`HalProof`: the two) they are about |
| `Lab8Proof` | theorems about the whole board | `Lab8`, `GameProof`, instantiates `VgaProof` |
| `MCGame` | the game alone, or the whole board by a script, scaled down | `Lab8` |
| `MCReal`, `MCConsole` | instances of the game for TLC | `GameController`, `Console` |
| `MCLaser`, `MCFormation`, `MCBoss` | one moving body each, with its inputs and properties | its body |
| `MCBodies` | the whole real game by a script, or one body alone | `MCReal` and the three |
| `MCBoard` | sync generator, drawing, bus, lists and console, one at a time | `Picture`, `HpiIo`, `UsbLists`, `JtagUart` |
| `MCProcessor` | driver, descriptors, console and alarms, one at a time | `UsbKeyboard`, `FileTable`, `JtagUart`, `Alarms` |

`MCBodies`, `MCBoard` and `MCProcessor` put components that share no state into
one run: a variable chosen at the start says which of them moves. Nothing is
claimed of their interleaving, because there is nothing to interleave. What
does share state is composed: the bodies in `GameController`, the game with the
generator and the drawing in `Lab8`.

**Correspondence: the game.** Each component has an `...Init`, a `...Reset` and
a `...Clock` action. `...Clock` is the whole next-state block of the module:
its branches are disjuncts (or cases of a function, where there is a value per
ship), guarded by the negation of the branches above them, in the order of the
code. Inputs of the hardware module are parameters of the action, so that
`GameController!Clock` reads like the port lists it translates. Registers that
belong together are one record: `enemy[e].x` is `enemy_ship_X_Pos` of the ship
whose `Slot` is wired to `enemy_x_pos`, `enemy_y_pos`; `xm` and `ym` are the
motions. A motion to the left or up is the two's complement word, as in the
code (`Neg`), and sums wrap (`Add`).

A step of `GameController` is one edge of `Clk`: `Frame(key)` is the cycle in
which `frame_clk_rising_edge` is high, `Cycle(key)` any other, `Reset` one in
which the reset is high. The key code is any code at every edge, which is more
than a player or the driver can do.

**The picture.** A step of `VgaController` is one edge of `Clk`; every second
one is also an edge of `VGA_CLK`. `since` and `fresh` are history variables:
the cycles since the last tick, and whether there was one since the reset.
`since` is the `gap` of `FrameClock` under the refinement. `Picture` adds the
output register of every memory (`word`), the sprite blocks of the bodies, the
logos and the multiplexer; `TrueColour` says by plane geometry what belongs at
the beam, without words, addresses or registers. On its own it takes the game
for any scene in which nothing that is drawn moves from the second cycle after
a tick to the next tick (`SceneStep`).

**The whole board.** A step of `Lab8` is one edge of `Clk`. The tick of the game
is `rising`, its key is `keycode`, its reset is `reset`, and `Scene`, what
`Picture` draws, is made of the registers of the game. `gap` is at once the
clock of the game and the `since` of the generator. Nothing keeps the ticks
apart here but the generator: `Lab8Edge` uses `Registers`, which is
`GameController!Clock` without the guard of `FrameClock`. The reset of some
flip-flops is asynchronous and that of others is not; all of them take it at
the same edge here, and nothing is said of the picture in that cycle.

**The bus.** `HpiIo` has two clocks: `Store` and `Load` are one access of the
program to a port, `Clock(Reset)` is one edge of `Clk`, and accesses are at
least `Gap` edges apart. `IO_init`, `IO_write` and `IO_read` are the sequences
of statements of `io_handler.c`. The data bus has a value at every moment: what
the side that drives it puts there, junk when both or neither do (after `Hold`
edges), and the chip's register only `AccessTime` edges after its read strobe.
The chip may also write its registers itself, and the reset button may be
pressed at any edge. `HpiBus` says what is left of all this for a caller: a
call takes effect once, between its beginning and its end, unless a reset falls
into it.

**The driver.** A step of `UsbKeyboard` is one access of the program to the
chip. `pc` is the place in `main`; the requests of the enumeration have the
same code and are one loop over `request`, and `Poll` is the last, the polling
loop. Every label of `pc` is a place where something else can come first:
`submit` and `start` (list and pointer), `flag` (the wait that submits again),
`message` and `clear` (the two halves of `UsbWaitTDListDone`), `check` (the
control byte), `retry`... (`UsbGetRetryCnt`), `report`, `publish`, `look after`
(hot plug). `lapsed`, `late`, `reported` and `lost` are history variables.
`UsbChip` says of the chip only what the driver's code uses: writing a message
sets `HPI_STATUS_SIE1msg_FLAG` and reading it clears the flag; there is one
message register; it works on one list at a time, and on a command before a
list; the pointer register takes a new list at any time. A list of the
enumeration has two parts for the driver, because the control byte it looks at
is that of the first descriptor: when the SETUP packet goes through (`Hear`),
the byte becomes 3 and the request is in `heard`; when the rest does too
(`Serve`), the keyboard has what it was given (`has`: an address, a
configuration). Each part needs a keyboard in a state to answer, and may fail
all the same; a failure of the rest leaves the byte as it is. A poll may end
with a report, without one, or not at all.

`UsbLists` takes apart what `UsbKeyboard` has as one access: the program writes
a list word by word at 0x0500, over the same list of an earlier submission that
the chip may be fetching, and the chip receives data into the same memory. The
records of `Request` are the lists of `usb.c` with their addresses, setup
packets, lengths and toggles. Its steps implement those of `UsbKeyboard`
(`ImplementsDriver`, by the instance `Driver`): the fifth word of a list, its
control byte, is `Submit`, the write of the pointer `Start`, the end of the
SETUP transaction `Hear`, the end of the list `Serve` or `Fail`; the other words
and packets are not seen. `UsbLists` keeps to one side of the driver: the
keyboard stays, the chip is through with a submission before the program goes to
the next request (`~Busy` in `Proceed`; the other case is `late` in
`UsbKeyboard`), what the last request left in the memory counts as unknown, and
a refused request is the end. `lost` is mapped to TRUE: that a message was once
erased unread is taken for granted, which allows more.

**The console.** One step of `JtagUart` is one access to something that thread,
handler, timer or host share: `load`, `copy`, `advance` and `kick` are the
parts of `write()` (read the index, fill the buffer, move the index, enable the
interrupt), `control`, `pending`, `receive` and `send` those of the handler,
`trap` and `dispatch` those of the exception entry. Bytes are numbered in the
order they are given, so that losing, doubling or reordering one shows. The
handler runs to its end before the thread goes on, as in the code; the host and
the core act in between.

**Descriptors and alarms.** There is no operating system (`ALT_SEM_PEND` is
empty), so a call of `FileTable` is one step; the redirection at boot is three,
because devices are registered between them. A step of `Alarms` is one alarm
that `alt_tick()` looks at; the callback of an alarm may start and stop others
and answers with any number of ticks.

**Abstractions.**

* The vertical motion of the user ship is only ever assigned 0; its row is the
  constant `ShipY`.
* Key codes: the four the game compares with, and `"None"` for all others.
* The frame tick comes any time, but at least `MinGap` cycles after the one
  before. The real distance is 840 000 cycles; what the properties need is that
  a hit or a landing has run through the game (three cycles) before the next.
* The score is the number of latches; with at most 30 enemies the 5-bit sums
  do not wrap (`EnemyAssumption`).
* Power-up: the initial state of the game is the one reset leaves. (The board
  has no power-up values for most registers; KEY[0] has to be pressed.) The
  ports of the Nios system do start at 0, and `HpiInit` has them so.
* The driver: one request is one number, a list is its request and its control
  byte; `usleep` is left out, it only makes some orders rare; what descriptors
  say is left out, since the program does not branch on it.
* Pictures: a word of memory is a member of a small set of colours; the files
  are constants.
* The console: one byte is its number.

**Constants.** `Playfield` leaves all sizes and steps symbolic and assumes of
them what the game relies on (`WordAssumption`, `PlayfieldAssumption`,
`WallAssumption`, and of the slots `EnemyAssumption`); TLC evaluates these on
the real and on the scaled-down numbers. The other modules
do the same with theirs. The one assumption about time is in `HpiAssumption`:
`Gap >= AccessTime + 3`. It is as weak as it can be: with `Gap = AccessTime + 2`
TLC finds a read that does not return the register. Every access is a
transaction of the processor with instructions before the next one; the access
time of the chip is not in the repository.

## 3. The runs

Runs with the code's own numbers are marked *real*.

| run | configuration | shows |
|---|---|---|
| `game` | `MCGame.cfg` | all orders of keys, ticks and resets on a board of 14 x 16 with two ships: `TypeOK`, `WinIsClean`, `ScoreFallsAtEnd`, `NoSwallowedShot`, `OnlyShotsScore`, that between the ticks nothing moves on the screen (`NothingMoves`), and that the board implements `Match` (`ImplementsMatch`, which also has that the boss round begins and lasts with every ship hit, and that the boss counts in its fight only). Then the whole board by a script, through PLAY, BOSS_FIGHT, WIN and GAMEOVER: no tick comes before the game is ready (`TicksAreReal`), and every pixel is that of the game (`PictureIsOfTheGame`) |
| `game_liveness` | `MCConsole.cfg` | with one ship, behind the key code port: a round ends (`RoundEnds`), the boss fight ends although the boss dodges at will (`FightEnds`), held Enter leaves every menu (`HeldEnterPlays`) |
| `real_board` | `MCBodies.cfg` | *real*. All eighteen ships, Space held: the game is played to WIN. One body at a time under all its inputs: the ship overshoots each wall by one step and is then on its way back (`ShipTrack`); the laser keeps to the rows of a flight and the one row past the top (`LaserTrack`) and every shot comes back (`ShotReturns`); the enemy ships are never drawn over each other (`ShipsApart`), an idle laser is harmless on the whole way (`IdleLaserHarmless`); the boss with every way of dodging (`BossTrack`) |
| `board` | `MCBoard.cfg` | sync generator with the reset pressed and released at any edge: ticks fall between two pictures but for one after a reset (`MovesBetweenPictures`), they keep coming (`FramesComeHere`) and keep their distance (`ImplementsFrameClock`). Drawing: every pixel is the right one (`PictureIsTrue`). Bus: `NoContention`, `HpiImplementsBus`. Lists: written again under the chip they do no harm (`AgainIsHarmless`), word by word nothing happens that `UsbKeyboard` does not have (`ImplementsDriver`), every walk ends (`WalkEnds`). Console: `NothingLost`, `NoLostWakeup`, `NoSpuriousInterrupt` |
| `keyboard` | `MCKeyboard.cfg` | a keyboard that comes and goes, transfers that fail, the reset button: as long as, since the restart, no keyboard was unplugged, the button was not pressed (`~lapsed`) and no list was written over one the chip still had to do (`~late`), no request is passed that the keyboard did not hear (`EnumerationHonest`); no key reaches the game that was not reported (`NoGhostKey`), and after the button none at all (`ResetSilences`) |
| `processor` | `MCProcessor.cfg` | driver with a keyboard that stays: a held key arrives and stays, unless a message is erased unread (`HeldKeyArrives`), and a key from before the restart is not written again (`NoStaleKey`). Descriptors: `OneLockPerDevice`, `StdioIsTheConsole`, `LockKeepsOthersOut`. Console: `WriteReturns`. Alarms: `OnTime` |
| `real_board_game_over` | `MCRealOver.cfg` | *real*, finding 1 |
| `console_press` | `MCConsolePress.cfg` | finding 2 |
| `keyboard_retry` | `MCKeyboardRetry.cfg` | finding 3 |
| `real_board_touch` | `MCRealTouch.cfg` | *real*, finding 4 |
| `fd_lock` | `MCFileLock.cfg` | finding 5 |
| `usb_done` | `MCListDone.cfg` | finding 6 |

**Bounds, and why they are enough.** The scaled-down board keeps the ratios
that matter: the laser is taller than a ship (it can lie across one) and so
wide that it can touch two neighbouring ships in one column only (the real
gap between two ships of a row is exactly the width of the laser, as here);
both walls can be overshot and the left one wrapped; a ship makes several turns
before it lands; the laser needs several frames to the top and wraps there;
parked ships are out of reach by the same inequality as in the code. Two ships
are enough for a round with one ship hit and one alive, for a double hit and
for a ship landing while another is parked. `MinGap` is 3, the number of cycles
a hit needs to run through (2 in the liveness run, which needs fewer and plays
on a board of 10 x 14 with one ship). The *real* runs use no bound but the
script of the player in `MCReal`: the whole board with free keys has too many
states.

The other part of `game` is `Lab8` with a generator of 17 x 20 pixels, 15 x 17 of
them visible, so that the whole board of 14 x 16 shows, with images without two
like pixels. Its frames are 340 pixels long instead of `MinGap` cycles, and so
the player follows a script: the program writes the port at one point of a
frame (`ScriptKeys`; it may leave it as it is), and the reset is pressed at one
point while a laser flies. All keys at all times, and resets at any edge, are in
the parts of `game` and `board` that have no picture of a game in them, and in
the proofs.

The screen of `board` is 6 x 7 pixels, 4 x 3 of them visible, with all the
regions of the real one. Things stand at its edges, over each other and across
the wrap of the 16 words of a coordinate; there is a ship with a transparent
pixel, two enemies, logos with a row and a column more than their memory has.
`MinGap` is the largest for which the refinement holds,
2 * HTotal * VSyncEnd - 3 cycles (69 here, 787 197 on the board): the first
period after a reset is shorter than a frame, because `VGA_VS` rises with the
first pixel. The game needs three.

The bus has two registers and two words, accesses `Gap` = 4 edges apart with
`AccessTime` and `Hold` 1: the tightest the assumption allows. The lists of
`UsbLists` are all nine of the code, with their addresses. The enumeration of
`UsbKeyboard` has four requests instead of nine, so that there is one before,
at and after each of the two the keyboard changes at; the counts of hot plug are
those of the code (5 and 7). One key is enough: the driver never compares key
codes.

The console has buffers and FIFOs of 3 bytes (2 in `processor`), which fill,
empty and wrap; 4 bytes are written (3) and 3 typed (1), `Margin` is 1,
`Timeout` 2 seconds, `INT_MAX` 4. The table has 5 descriptors, two of them
beside the standard ones, and two devices: one lock, one competitor, one full
table. Three alarms with a tick counter of 4 values: every order in the list
and every wrap.

**Fairness.** The game's own specification (`Spec`) states none, its properties
are safety. In `ConsoleSpec` the cycles with a tick and those without are weakly
fair: the clock runs and the sync generator counts on its own; and there are
clock edges between two writes of the port, which are milliseconds apart.
Nothing is assumed of the player, of the keys or of the reset button. The sync generator, and in
`UsbLists` program and chip, go on: the chip takes a pointer, fetches, ends a
transaction in one way or the other, ends the stray list, and the program's loops
have no other wait than for the message. `SteadySpec` assumes that the program runs,
that the chip executes a command and ends a list of the enumeration, with or
without success (both are what its done message is for), and that a report that
is asked for again and again is taken in the end (strong fairness: each single
poll may be refused). Keys and failures of polls are not fair. The console
assumes that the processor runs its call and its handler, that the timer ticks,
and that a host that is attached reads and pauses; that it stays attached, or
away, is a premise of `WriteReturns` and not assumed.

## 4. Findings

1. **Kills that survive the game** (`hit_controller.sv:23`, run
   `real_board_game_over`). `eship_row.sv:12`: "game has finished, reset ships
   and restart score". When the boss (or a ship) lands, `done` clears all
   latches for one cycle. In the next cycle the screen is GAMEOVER, `done` is
   gone, the ships stand at their slots, and the laser, which returns one cycle
   later, may be over one of them: the latch, which is not gated by `play`, is
   set again and stays so. The game-over screen shows a score, and the next
   round starts with that ship counted and parked. After a win this cannot
   happen (`WinIsClean`): the laser has already returned.
2. **One press, two screens** (`signal_controller.sv:63`, run `console_press`).
   `README.md:14`: "Enter = Move to next screen". With Enter down, GAMEOVER and
   WIN both go to START and, in the next cycle, to PLAY: the start screen lasts
   20 ns. `turns` counts the screens turned one right after the other and begins
   anew with each write to the port and while a game is on. The trace ends with
   GAMEOVER, START, PLAY in three successive cycles; Enter is down there since
   the start screen, because a key held through the round makes a trace no
   longer than one pressed on the game-over screen, which does the same.
3. **A restart that does not restart** (`usb.c:559`, run `keyboard_retry`).
   `main.c:229`: "Fatal problem; try again", "Encountered Fatal Error,
   restarting". If the refused request had been submitted twice before its
   first message, `UsbGetRetryCnt` finds the second one, clears it and waits
   for the flag of a third, which nobody will send.
4. **A laser across a ship is not seen** (`hit_controller.sv:35`, run
   `real_board_touch`): only the laser's edges are tested, and it is taller
   than a ship. A ship that flies into the middle of a passing laser is hit
   only when the lower edge reaches it, if it is still there.
5. **Exclusive access that is not** (`alt_fd_lock.c:61`, run `fd_lock`).
   `alt_fd_lock.c:42` grants the lock "if there are no other open file
   descriptors which reference the same device", but its search ends before the
   entry at the high-water mark: a device that the last descriptor has open is
   locked all the same. Two descriptors still never both hold the lock
   (`OneLockPerDevice`).
6. **Done that is not done** (`main.c:195`, run `usb_done`). `main.c:202` prints
   "set address done!" when the first control byte of the list is 3: that is the
   SETUP packet. A status stage that fails after it is not noticed, and the
   program goes on with a keyboard that has no address; so for the data and
   status stages of the other requests.

More facts the runs show, which no text of the repository contradicts. The ship
leaves the screen at the left wall for one frame (columns 0, 1022, 0;
`user_ship.sv:99`) and so does the boss (column 1019; `boss.sv:109`);
`ShipTrack` and `BossTrack` allow exactly that frame. The logos read a row and a
column more than their memories have; `PictureIsTrue` allows exactly the bits
nobody drives. A done message that comes between the read and the write of
`usb.c:531-532` is erased unread, after which `UsbWaitTDListDone` waits for
ever; `HeldKeyArrives` names this as the only way in which a held key is lost.
After the reset button the program never comes back (`ResetSilences`). Without
a system clock, as in this build, `printf` waits for ever for a host that is
not there (`WriteReturns` needs the timer or the host).

## 5. The proofs

The theorems hold for every value of the constants their assumptions admit. All
of them follow the same pattern: an inductive invariant, one lemma per action or
per component that keeps it, and a temporal step at the end.

`GameProof`, for every board and any number of ships up to thirty:

* `TypeCorrect`: `Spec => []TypeOK`. One lemma per component says that its
  `...Clock` keeps its registers in range, from two lemmas on `Add` and `Neg`.
* `BossRound` and `BossCount`: `Spec => []BossRoundCleared` and
  `Spec => []BossCountsOnlyInFight` (runs see them as parts of
  `ImplementsMatch`). Neither is inductive alone: `killed_all1`
  compares a sum with 18, and the sum counts the eighteen ships only if it is
  known that the boss is not counted; conversely the boss's latch can only be
  cleared in time because `killed_all2` needs all the ships. `RoundInv` is
  their conjunction. Two lemmas carry the step: `DoneEndsGame` (whatever
  clears the latches moves the machine to a final screen in the same cycle)
  and `LatchesHold` (nothing else clears one). `RowScoreBounds` turns counting
  into sets: the rows score 18 iff every ship is hit.
* `ScoreFalls`: `Spec => ScoreFallsAtEnd`, an action property, from the same
  lemmas.

and, for every board whose numbers satisfy the assumptions, from its geometry:

* `BoardKeepsRules` (`Spec => ImplementsMatch`), the refinement, and
  `WonIsClean`. The latch of an enemy ship does not look at the screen; START
  and WIN leave the kills alone only because the ships stand in their slots and
  the laser lies below them (`AtHome`, `LaserIsLow`), and on the way to WIN only
  because the shot that hit the boss has already returned (`ShotIsBack`): a
  frame tick in that very cycle moves it one step up, which is why a slot must
  lie a step of the laser above the bottom row.
* `ShipStaysOnTrack` and `BossStaysOnTrack`: `OnTrack` adds to the tracks that
  the column is a whole number of steps. That is what makes the test `x <= 0`
  (`x <= 1` for the boss) hit the left wall, and it is an assumption on the
  number 320 (`WallAssumption`). `TrackStep` is the step of both bodies.
* `NoShotIsSwallowed` and `OnlyShotsCount`, action properties: a counted ship is
  parked, or the laser is in the muzzle (`DeadAreParked`); from the track of the
  ship no column of the laser reaches the parking place (`LaserIsFree`); an idle
  laser is in the muzzle or past the top (`IdleIsDown`).
* `PictureStands` (`Spec => NothingMoves`), an action property: what `Picture`
  takes for granted of its scene. A tick has after-effects: a hit sends the laser
  back and parks the ship one cycle later, a landing puts everything back to its
  place. `Calm` says where they end: from the second cycle after a tick on,
  nothing on the screen touches the laser and nothing has landed. A latch is set
  in the first cycle, and in the same cycle the laser returns and the hit one is
  parked (`LaserWaits`, `TopRow`). The screens that begin in between are no
  exception, because the ships stand in their slots and the boss at its place
  while they wait for their round (`BossIsHome`), and none is entered with a
  landing or a hit on the way (`PlayGoesOn`).
* `LaserStaysOnTrack` (`Spec => []LaserTrack`): every row of a flight is the
  muzzle's less a whole number of steps (`FlightRows`, from the division lemma
  `Remainder`), so the flight wraps from one row only, `Muzzle % LaserStep`, to
  one row only, and that lies below the screen.
* `ShipsFlyApart` (`Spec => []ShipsApart`) and `IdleLaserIsHarmless`
  (`Spec => []IdleLaserHarmless`). Nothing in the code keeps two ships apart,
  each turns by itself; `InStep` says what does. A ship flies in legs from wall
  to wall, and at the end of each it falls for three frames (it is within reach
  of the edge test that long). `Right` is the number of its columns from the
  wall it left, `Level` its row after the drops it still has to make in this
  turn, and of two ships that started in one row either both are on the same leg
  and as far from each other as their slots, or one has turned and the other
  has not (`Abreast`, `NextLeg`). A ship that has turned is a turn lower, and by
  the time it comes back under the other the drops are over. Ships of different
  rows keep their rows apart by the same drops. The distances this needs are
  `FormationAssumption`: 34 columns within a row (the code has 50), 60 rows
  between rows (80). `LandingAssumption` is what keeps the idle laser out of
  reach: ships land at row 409 or below, and drops of 10 from rows 0, 80 and 160
  lead to 410, where a ship ends just above the laser (row 441); from other
  slots a ship could land as low as row 418, in the laser.

`VgaProof`, for every screen format: `TicksAreFarApart`
(`VgaSpec => ImplementsFrameClock`) and `PicturesAreStill`
(`VgaSpec => []MovesBetweenPictures`). The beam is one
number (`Beam`), and `Ahead` counts the edges of `Clk` to the next tick; that
and the cycles since the last one never fall below `MinGap` together
(`FarApart`), by resets on either clock. `DetectorFollows` says that a tick can
only be where a pulse ends, or at the second pixel after a reset.

Also in `VgaProof`: `PixelsAreTrue` (`DrawSpec => []PictureIsTrue`), for every
image, logo and place a thing can stand at. `WordsAreRead` is the invariant: a
memory lags an edge behind its address, but the screen takes a colour at the
second edge of a pixel and nothing that is drawn moved since; the screen may
have changed. The rest is arithmetic: a box
that wraps only loses what lies beyond the visible screen (`Boxes`, which needs
640 + 40 <= 1024 and 480 + 49 <= 1024 in `PictureAssumption`), every pixel of a
box has an address in its file (`Addresses`), the rows of a logo that are read
from row 0 again are dark there (`LogosStand`; `LogoAssumption`: row 0 of the
four logos of sixteen rows is all zero in `sprite_rom.sv`), and which layer is
first depends on the claims alone (`FirstDecides`, with `Least` for the first
of them).

`Lab8Proof`, for every board, formation, screen format and image: what the two
halves take for granted of each other, each keeps for the other.

* `TicksKeepTheirDistance` (`Lab8Spec => TicksAreReal`): the whole board
  implements `Spec`. The game is only defined for ticks `MinGap` cycles apart;
  by the invariant of `VgaProof` (`VgaInv`, cited through an instance of that
  module over the state of the board) a tick is only there when `gap` has run up
  (`TickIsFree`), with the reset pressed and released at any edge. So everything
  that `GameProof` has of `Spec` holds on the board.
* `TheGameIsSeen` (`Lab8Spec => []PictureIsOfTheGame`): with that, the game is a
  scene as `Picture` knows it (`BoardDraws`). `CalmStands`, the lemma behind
  `PictureStands`, says what stands still; `DrawnOn` and `SceneStands` say that
  this is all that is drawn, on each screen and over each change of it; and
  `PixelsAreTrue` does the rest. There is no circle: the generator does not look
  at the game, and the game does not look at the picture.

`HpiProof`, for any registers and words and accesses far enough apart:

* `OneDriver`: `HpiSpec => []NoContention`, and `WiresAreRegisters`:
  `HpiSpec => HpiImplementsBus`, the refinement: `HpiInit` gives `BusInit`, and
  every step is one of `HpiBus` or changes nothing it sees (`Load` is `Sample`,
  the end of the write strobe is `Land`, an edge with the reset is `ResetChip`).
* The invariant is `Wires /\ PortsFollow /\ PinsFollow /\ CallsLast /\ WordStays
  /\ AnswerComes`. `PortsFollow` says of every statement which ports are low
  before it, `PinsFollow` that the pins are one edge behind. They are needed to
  know that a strobe ends in one place only (`StrobeIsWrite`). `WordStays` has
  the word of a write on the bus until then, although the bus was released an
  edge earlier, and `AnswerComes` counts the edges from the read strobe to the
  load; both hold only for a call no reset has fallen into (`Untouched`).

`UartProof`, for buffers and FIFOs of any size:

* `InterruptsAreReal` (`[]NoSpuriousInterrupt`): what is between exception and
  handler is pending, because the host can only add to the reasons.
* `WakeupsStay` (`[]NoLostWakeup`): `Wakes` also covers the places between, where
  the thread still has the interrupt to enable.
* `BytesArrive` (`[]NothingLost`): `Outgoing` and `Incoming` number the bytes of
  FIFO, buffer and of a copy that is not yet part of the buffer, by their
  distance from the index that takes them out; a copy fits into the room that
  was there when the thread looked, because the handler only makes room.

`KeyboardProof`, for any number of requests, looks and keys:

* `EnumerationIsHonest` (`[]EnumerationHonest`): `Honest` adds that the chip
  works at the list that is in memory, and that a list that ended well was
  taken. The theorem has the premise `~lapsed /\ ~late`: since the restart
  nothing was unplugged or reset, and no list was written over one the chip
  still had to do. Without `~late` it is false: a chip that is still at the list
  before when the next is written may leave its answer where the program looks
  for the new one's, and a request is passed that nobody heard.
* `NoKeyInvented` (`[]NoGhostKey`): buffer, variable and port hold reported keys.
* `SilentForEver` (`KeyboardSpec => ResetSilences`), an action property, case by
  case.
* `NoKeyLeftOver` (`SteadySpec => []NoStaleKey`): what is left in the buffer is
  covered by a list of the enumeration before the polling loop (`Fresh`).

`HalProof`, descriptors: for any table and any devices: `TableTypes`, `MarkCoversTheTable`
(`[]HighWater`), `LocksExclude` (`[]OneLockPerDevice`) and `StdioStays`
(`[]StdioIsTheConsole`), and `LockedStaysAlone` (`TableSpec =>
LockKeepsOthersOut`), an action property. The lock is exclusive in spite of finding 5 because a
locked descriptor at the mark was granted its lock after a search of all lower
ones, and since then `open` has refused the device (`TopLockIsAlone`).

`HalProof`, alarms: for words of any width and any number of alarms: `AlarmsOnTime`
(`[]OnTime`). `Linked` and `Numbered` say that the list is one cycle through its
head, by a rank that exists for its nodes; `Walked` says which alarms
`alt_tick()` has passed; `Counts` relates time, counter and the wrap flag of an
alarm to the ticks that are left.

`ListsProof`, for the lists of `usb.c`: `SubmittedAgain` (`ListsSpec =>
[]AgainIsHarmless`) and `ListsAreOneAccess` (`ListsSpec => ImplementsDriver`). There is
no constant to generalise, TLC runs the nine lists with all their words; the
proof says why it holds. `RequestsFit` is all that is taken from the numbers of
the nine lists (every buffer lies behind the list, at most eight packets), and
everything else follows from it for a list of any such form (`ListWords`). The
invariant is `ListsInv`: what the program has written, or the chip was given,
stands in the memory, except for the control byte (`WordsInPlace`: a word that
is written again is the word that is there); so what the chip has fetched is the
descriptor it is at, and the keyboard waits for the toggle that this has
(`OnTheList`). It needs that a packet's buffer touches no word of the list
(`PacketTransact`). For the refinement one more thing is needed, that the chip is
never at a list the program has not written the control byte of (`ListAtHand`):
otherwise a list would be one of two requests at once.

**Countdowns.** That something must happen is out of the prover's reach, but not
what makes it happen: each of these theorems is the safety half of a liveness
property, a number that falls and is never used up. With the fairness of section
3 the property follows; that last step is TLC's.

* `RoundsRunDown` (under `RoundEnds`): `WayDown` is what a ship has left of its
  legs and drops. A leg is `Right` columns and three drops deep, and a frame
  takes exactly three drops off `Right * rows - 3 * Drop * columns`, at a turn as
  anywhere else; no other cycle, hit or key changes it. That it is never negative
  rests on the path of `ShipsFlyApart` (`OnPath`, `Falls`).
* `FightsRunDown` (under `FightEnds`): a dodge sends the boss back and costs
  height, so `BossWay` counts a row more than all columns. The boss heads for one
  wall for as long as it does not drop (`BossComesOn`, from its track), also in
  the frame it is past the left wall. A boss that comes out at the top again
  would break it; that is why `WallAssumption` has `Bottom + Dodge < W`.
* `ShotsRunUp` (under `ShotReturns`): the row of a shot, from the rows of
  `LaserStaysOnTrack`.
* `PicturesAreDue` (under `FramesKeepComing`): `Ahead`, the edges to the next
  tick, falls by one at every edge, and `TickIsDue` adds that when it is 0 the
  detector has seen the end of the pulse.
* `WalksGoForward` (under `WalkEnds`): the addresses of the descriptors only
  grow, up to the last of a list, in spite of all the program writes.

`ThePortIsReal` in `Lab8Proof` has that the board takes only steps of `Console`,
over whose specification `RoundEnds`, `FightEnds` and `HeldEnterPlays` are stated.

Only model-checked: all liveness properties, which are out of the prover's reach,
and of `WriteReturns`, `HeldKeyArrives` and `HeldEnterPlays` the countdown too:
the first two go round between several actors (host, handler and thread; program,
chip and keyboard) and no one number falls, and the last waits for one clock edge.

## 6. Plan, and what is not modelled

What is left: the lists of `usb.c` under a program that runs ahead of the chip or
a keyboard that is pulled out, which `UsbKeyboard` has (`late`, `lapsed`) and
`UsbLists` has not; the bus under the driver, each of whose accesses is one step
there, by `HpiBus`.

Not modelled, and why:

* The toggle of the polls (`main.c:505`): nothing in the repository tells what
  the chip does with a sequence bit that does not match.
* What the chip does with a list it is given while the bus reset of step 2 is
  still under way (`main.c:128`: the program may read the acknowledgement of
  step 1 and go on). Nothing in the repository tells; `UsbChip` finishes the
  command first (`AtWork`), so no property speaks of it.
* The driver's list of a request left behind by an unplugged keyboard is a
  stray message in `UsbKeyboard` but is not walked in `UsbLists`.
* The alarms are linked into this build but not driven: the Qsys system has no
  timer (`ALT_SYS_CLK` is none), `alt_sysclk_init` is never called. `Alarms`
  models what they do once there is one. Its callers keep to three rules the
  code asks for without a check: a callback does not stop the alarm after its
  own, an alarm that is listed is not started again, and nobody asks for
  2^32 - 1 ticks (which would ring at once).
* The HAL functions nobody calls or the build leaves out: `settimeofday`,
  `gettimeofday`, `sbrk` beyond the start, DMA and flash devices, cache flushes
  (there are no caches), profiling (`alt_gmon.c`, `alt_mcount.S`), logging
  (`alt_log_printf.c`), the emulation of `mul` and `div`; the saving of
  registers in the exception entry; start-up (`crt0.S`, `alt_load.c`).
* Hex digits (`HexDriver.sv`, a table without state), the test bench, which
  drives the signal controller alone, `ball.sv`, which nothing instantiates.
* Generated and vendored files: the interconnect of `nios_system`, the Quartus
  database.
* Headers of register and bit names (`cy7c67200.h` alone has 3300 lines, of
  which the program uses a dozen), `system.h`, `nios2.h` and the inline headers
  of HAL parts that are not used. They are most of the C lines of the repository
  and describe no behaviour; with the unused HAL functions they are the reason
  why the modules stand for a small share of all lines, though for nearly all
  that the program executes.

## 7. Running

    tlc -config MCGame.cfg MCGame
    tlc -config MCConsole.cfg MCConsole
    tlc -config MCBodies.cfg MCBodies
    tlc -config MCBoard.cfg MCBoard
    tlc -config MCKeyboard.cfg UsbKeyboard
    tlc -config MCProcessor.cfg MCProcessor
    tlapm GameProof.tla        (and VgaProof, Lab8Proof, HpiProof, UartProof,
                                KeyboardProof, ListsProof, HalProof)

The configurations of the findings end with a counterexample:
`MCRealOver.cfg` and `MCRealTouch.cfg` with `MCReal`, `MCConsolePress.cfg` with
`MCConsole`, `MCKeyboardRetry.cfg` with `UsbKeyboard`, `MCFileLock.cfg` with
`FileTable`, `MCListDone.cfg` with `UsbLists`.
