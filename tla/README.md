# LOCI firmware: specifications

LOCI is a cartridge for the Oric-1 and Atmos home computers.  An RP2040 sits on
the 6502's bus and plays a floppy controller, a tape deck, a serial port, the
ROMs, and an operating system that the 6502 calls through registers in page 3.
Core 1 answers the bus, one cycle at a time (`act_loop()` in `sys/mia.c`).
Core 0 runs everything else in one loop without blocking (`main.c`).  The
difficult behaviour is where these meet: two cores and a 6502 that share
registers without locks, and many small state machines that are called in turn,
may be stopped between any two calls, and share a few engines and buffers.

Paths in this document are below `src/src/mia/` unless they say otherwise.

## 1. The system's parts

| part | state | operations | interacts with |
|---|---|---|---|
| floppy controller, `oric/dsk.c` | registers 0x0310-0x0318, `dsk_state`, active drive, side, track, one track buffer, write-back flag | `dsk_task()`, `dsk_cmd()`, mount, umount, pause, stop, init; core 1's handlers | FIFO from core 1, I2C expander (IRQ line), files |
| memory actions, `sys/mia.c` | `action_state`, `action_result`, `rw_*`, saved vectors, program at 0x03B0 | `mia_run()`, `mia_stop()`, `mia_main_task()`, core 1's handlers of 0x03B1-0x03B6 | 6502, monitor, console, ROM loader |
| console, `oric/ula.c` | line buffer, cursor row, `ula_state` | `ula_putc()`, flush, scroll, clear | memory actions, stdio |
| system calls, `api/api.c` | latched operation, `API_OP/BUSY/A/X/SREG`, `xstack` | `api_task()`, `api_run()`, answers of `api.h` | every module with calls |
| streams and files, `api/std.c` | descriptors, counts of a call under way, ring of stdout | open, close, read, write, lseek, unlink, rename, `std_task()`, `std_stop()` | line editor, FatFs, LittleFS |
| line editor, `sys/com.c` | `com_callback`, `com_buf`, timer, escape state | `com_read_line()`, `com_read_binary()`, `com_task()`, `com_reset()` | stdin, monitor, upload |
| 6502 control, `sys/cpu.c` | RESET and its timer, FIFO of typed keys, line being read | `cpu_run()`, `cpu_stop()`, `cpu_task()`, stdin | expander, line editor |
| monitor, `mon/mon.c`, `mon/ram.c`, `mon/set.c`, `mon/vip.c` | prompt flags, state of the command under way | commands, `mon_task()`, `ram_task()` | line editor, memory actions, files |
| upload and file commands, `mon/fil.c` | `fil_state`, the file that is received | `UPLOAD`, chunks, `END`, `fil_task()`, `fil_reset()` | line editor, FatFs |
| boot, `sys/ext.c`, `mia_task()`, `mon/rom.c`, `oric/rom.c` | `ext_state`, cached inputs, `mia_boot_state`, `rom_state`, mapping and trap flags | buttons, IRQ trap, boot call, ROM loading, resume | main loop, files, vectors, floppy |
| mounts, `api/mnt.c`, and USB sticks, `usb/msc.c` | files, paths, mounted/lost per drive; busy flags | mount, umount, lost, found again; block transfers | floppy, tape, ROM, FatFs |
| LittleFS, `sys/lfs.c` | pool of 8 file configurations | allocate, free | std, mnt, rom, cfg |
| settings, `sys/cfg.c` | values and one file | load, save | LittleFS, cpu, oem, adj |
| tape, `oric/tap.c` | command and status, `tap_state`, counter, bit counter, lead-in, motor, file | `tap_task()`, seek, tell, header search, mount, umount | files, core 1 |
| serial port, `oric/acia.c`, `usb/cdc.c` | four status parts, receive ring, request to carry out a command | `acia_task()`, `acia_stop()`, core 1's handlers | USB modem, IRQ line |
| directories, `api/dir.c` | one table of open directories, device list | opendir, readdir, closedir | FatFs, LittleFS |
| USB input, `usb/kbd.c`, `mou.c`, `pad.c` | key queue, repeat timer, matrix in XRAM | reports, `kbd_task()` | line editor, breaks |
| small calls, `api/clk.c`, `oem.c`, `rng.c`, `sys/pix.c` | timer, code page, xreg word | answered in one call | |
| bus timing `sys/adj.c`, display `sys/ssd.c`, LED, power | a sweep; output only | | |

`main.c` calls every part in a fixed order: `main_task()` (USB, cpu, mia, kbd,
std, acia, ula ...), `task()` (api, com, mon, ram, fil, rom, mia, ext, dsk, tap
...), then the events: a break, `run()`, `stop()`, `reset()`.  `stop()` and
`reset()` call one function of each part, and what a part forgets there stays.
`main_task()` is also what waits: FatFs calls it from a transfer, and the console
while the 6502 fetches its memory.

What makes each part correct:

* floppy: a command works on the disk, side and track it addressed, moves its
  bytes once each and in order, ends, and what was written reaches its own
  place in the image and nothing else does;
* memory actions: only the cells asked for change, they hold what was sent, the
  vectors come home, and every wait ends;
* calls: each is answered once, by its own handler, and stdin and stdout are
  byte streams whatever the sizes of reads and writes;
* files: no descriptor, configuration or lock is lost or shared, and a drive has
  the file that the menu says it has, though sticks come and go;
* boot: the 6502 executes the ROM it was released for, whole, with vectors that
  are its own, and nobody is left in the trap;
* serial port: no byte is lost or doubled while the 6502 keeps the protocol;
* tape: the counter is the place, headers are found, recordings are stored, and
  the busy bit goes away.

## 2. Modules

| module | what it is |
|---|---|
| `Dsk` | the floppy controller, both cores' sides, and the 6502 that drives it |
| `MCDsk` | sizes and images of `Dsk` for TLC |
| `Dsk_proofs` | theorems about `Dsk` |
| `MiaAction` | memory actions, the monitor's memory commands, the console |
| `MiaAction_proofs` | theorems about `MiaAction` |
| `Api` | system calls, stdin and stdout, owners of the line editor, prompt, run, stop, break |
| `Api_proofs` | theorems about `Api` |
| `FatFs` | operators: volumes, file objects and locks, as far as the firmware depends on them |
| `FatFs_proofs` | lemmas about those operators: what keeps the table of locks sound |
| `Files` | whoever holds a file: descriptors, drives, the ROM loader, the upload, the settings; sticks that come and go |
| `Files_proofs` | theorems about `Files`, with the refinement of `Pool` |
| `Pool` | abstract: slots and their users; `Files` implements it |
| `Boot` | ROM loading, the boot call, the button and the trap, start and stop of the 6502 |
| `Boot_proofs` | theorems about `Boot` |
| `Acia` | the serial port, both cores' sides, modem and 6502 |
| `Acia_proofs` | theorems about `Acia`, with the refinement of `Line` |
| `Line` | abstract: a serial line; `Acia` implements it |
| `Tape` | the tape deck, its file, programs and the menu |
| `MCTape` | a tape image of `Tape` for TLC |
| `Tape_proofs` | theorems about `Tape` |

The modules without an MC module are configured from their `.cfg` files alone.
They meet in the state that they share: `main_state` (stopped, running) is in
`Api`, `Files` and `Boot`, the mount of a drive in `Files` ends in what `Dsk` and
`Tape` call a mount, and `Boot` and `MiaAction` both have vectors that the
firmware borrows - `MiaAction` those in the 6502's page, `Boot` those in the ROMs.

In each module an operator that nothing uses and that stands right before
another with the same parameters (`Uncut` before `Len16`) is a plausible slip in
writing that piece of the code.  Put in its place, it makes one of the
properties fail; `PROJECT.json` has the pairs.

### Dsk

A step is an access by the 6502 (core 1's handler is over before the bus cycle
is), or a part of a pass of `dsk_task()`.  A pass is taken apart where the other
core can tell the difference: the read and the write of the status register in
`dsk_set_status()` are two steps (`ReadStatusReg`, `WriteStatusReg`), so are the
test and the setting of the IRQ register around the slow I2C write (`TestIrq`,
`RaiseIrq`).  `pc` says where in its pass core 0 is.  The registers keep their
names without the prefix: `status` is the set of bits of `IOREGS(DSK_IO_CMD)`,
`irq` and `drq` say that a register is asserted, `state` is `dsk_state`, `active`
is `dsk_active`, `command` what `dsk_task()` unpacked from the FIFO word.

A track is abstracted to a content: the place it was formatted for and the number
of the last write in it.  That is what the properties tell apart: whose track is
in the buffer, and whether a write has arrived.  `host` and `stored` are history:
what the 6502 has asked for and counted, and what the controller has accepted.

The constants that narrow the 6502 down are named: `DrainsDrq` (it issues no
command while a byte is on offer, as every Oric DOS does), `SlowCore0` (USB
interrupts hold core 0 up between two register accesses for as long as a byte
takes the 6502), `Swaps` (when the menu mounts and unmounts images).

### MiaAction

`mia_run()` writes a load-and-store loop for the 6502 into page 3 and releases
RESET; core 1 patches its operands after each byte.  The 6502's loop is two steps,
`load` and `store`; core 1's handlers are part of them.  Core 0 is one step per
task, in the main loop's order (`turn`).  The console waits for its actions inside
a task (`ula_wait_mia`), and `jobs` is what it has still to do there.  Memory
cells, a row and the font are a few addresses; values say where a byte comes from
(held, typed, ink, font).  The Oric can be switched off (`SwitchOff`), which stops
the 6502 for good and leaves the watchdog (`Expire`) to end the action.

### Api

The 6502 is `app`, `wait` (a call under way), `held` or in `reset`.  Keys and bytes
carry numbers, so that order and loss show.  The line that a program reads is not
copied: `readline_pos` and `readline_length` point into `com_buf`, as in `cpu.c`,
and the monitor's next prompt uses the same buffer.  `seen` is RESET as
`ext_task()` last read it; `cpu_active()` is about `seen`, not about the pin.
`unread` (what was typed for the program's reads), `out` (what was printed) and
`served` (whose answer it was) are history.

`Typing = "slow"` is a user no quicker than the main loop, and never ahead of a read
by more than one key: a key that is pressed in the pass that begins a read, while more
than one waits, overtakes those in the FIFO (`sys/com.c:444`, `sys/cpu.c:211`).
`Breaks = "calm"` is CTRL-ALT-DEL between two calls.

### Files, FatFs and Pool

A file is a value and its holder an index: `Std(fd)`, `Mnt(d)`, `Rom`, `Up`, `Cfg`
are the descriptor, the drive, the ROM loader, the upload and the settings.  On
the flash, `lfs.busy` is `lfs_file_configs[].in_use`, `lfs.cfg` the configuration
that each file object points to, and `lfs.list` the files that LittleFS itself has
in its list; `lfs_isopen` is what `std.c` believes.  On a stick, `fil` holds FatFs's
file objects and `fat` its state: `fat.id` the id that each mount gives a volume
(an object with another id is stale), `fat.Files` the table of locks (`FF_FS_LOCK`).
`FatFs` has `f_open`, `f_close`, the lock table and mounts as operators from a
state to a state, so that `Files` says who calls them and when.

The wait inside FatFs is the reason for `waiting` and `check`.  An open on a stick
is two steps: `StdOpenStick`, `Mount`, `RomLoadStick`, `Upload` enter FatFs, which
leaves the name it looks for in its one name buffer (`waiting.lfn`) and calls
`main_task()` until the directory is there; `EndStdOpen` and the others are what
follows.  In between `tuh_task()` may report a stick (`Plug`, then one `CheckLost`
for each lost drive) or its removal (`Pull`).  `Hotplug = "quiet"` is the user who
leaves sticks alone during a transfer.

`Pool` is what `lfs.c` promises: a slot has one user, a user one slot, and none is
taken out of its user's hands.  A slot may be lost.  `Files` maps a slot's holder
to the file in LittleFS's list that points to it; a busy slot with none is lost.

### Boot

The main loop's tasks that matter for it are called in turn (`turn`): `ApiTask`
(the boot call), `RomTask`, `MiaTask`, `ExtTask`, `ButtonTask`, `EndOfPass`; each is
one step, and the 6502, core 1, the clock and the user come between any two.  `rom`
is the loader: its state, both of its file objects, which of them it reads from
(`fat`), and the chunk in `mbuf`.  `xram` is the contents of the two ROMs in
extended memory: which image each chunk came from, whose interrupt vector stands
at the end, and whether the tape patches are in it.  `cpu` is what the 6502 does:
held in RESET, in the ROM, in a boot call, in the trap, exited, or in the Oric's
own ROM.  `meant` (which ROM the last release was for), `left` (the mapping when
the trap was taken) and `pressed` (a press not yet answered) are history.

### Acia and Line

A step is what one core does between two accesses to what both share, so the
status register, which both cores compute from flags and store, is four steps:
composed and stored by each (`Compose`, `Store`, `UpdateStat`).  `core0` and `core1`
hold the place and what has been read.  The 6502 obeys what the last status it
read says (`seen`).  Bytes are numbers in the order of arrival; the ring is the real
ring with its indices.  `Line` hands numbered bytes out in order, once each, and
drops them only while it is cut; `Acia` maps it to the ring and the USB driver's
FIFO together.  `misled` is history: the 6502 has read a status that was stored late.

### Tape

A tape is a sequence of cells (synch byte, mark, data); `cells` is the open file,
`saved` the file in storage, `pos` where the file object is, `counter` what the
deck believes.  `tap_task()` is one action per state; `Motor`, `Command` and `Done`
are the 6502's program, `tap_mount`, `tap_umount`, `tap_api_seek` and `Search` the
calls, `Menu` the menu that takes the 6502 away, `Remount` a stick that came back.
`Search` computes the blocks it reads with the code's arithmetic, unsigned where
that is (`% Word`), and says nothing of the bytes that are handed to the 6502.
`recorded`, `headed` and `failed` are history; `failed` says that the last attempt to
store the recording went wrong, which nobody looks at (`oric/tap.c:317`).

## 3. Runs

| run | what it asks | bounds |
|---|---|---|
| `dsk_sector` | does every command use its own drive and track, move exactly its bytes, and end | 2 drives, 2 tracks, 2 bytes a sector, FIFO of 2 |
| `dsk_tracks` | are deferred write-backs saved to their own place | 2 sides, 2 tracks, 3 writes, steps and restores |
| `dsk_swap` | do images survive swaps, resets and resumes from the menu, with interrupts holding core 0 up | 2 images, 1 drive |
| `mia_console` | do commands and console keep out of each other's way, through a break and a switched off Oric, and end | 6 cells, 1x2 screen, lines of 1 and of 3 bytes |
| `mia_verify` | finding: a verify error that is not told | one cell that does not keep its value |
| `api_calls` | are calls answered, lines read and bytes written, between programs | 2 keys, 2 bytes, rings of 1 |
| `files_held` | has everything that is taken for a file one owner, and does a drive have its file; is `Files` a `Pool` | 2 configurations, 1 file on a stick, 6 kinds of users, 1 failure, 2 plugs |
| `files_stop` | finding: a stop leaves descriptors taken | 1 plug, no failure |
| `files_reenter` | finding: a mount inside the wait of another call | 2 sticks, 2 names, 3 plugs |
| `boot_button` | does the 6502 run what it should, and do presses and boots get there | 1 chunk, 3 requests, LOCI on the flash |
| `acia_modem` | is the ring a `Line`, is each byte read and sent once, do statuses and interrupts recover | ring of 4, FIFO of 2, 2 events |
| `tape_deck` | is the counter the place, are headers found and recordings stored, do commands end | 11 cells, block of 6, 1 recorded byte |

Why the bounds are enough.  What goes wrong in this code depends on the relation
of few things: this drive and another, this track and another, the first byte, a
middle one and the last, a transfer that fits and one that does not.

* `Dsk`: a sector of two bytes has a first and a last byte and the step between; a
  FIFO of two holds a command behind another.
* `MiaAction`: three bytes from the last but one address are cut at the end of memory;
  a screen of two rows scrolls.
* `Api`: a ring of stdout of one is full after one byte, so that a write of two is
  continued and a write of one is not; `rx_char` and a receive ring of one hold the
  two keys in their two places.
* `Files`: two configurations are fewer than the users that compete for them, so that
  the pool runs dry and a slot goes to another file than the one that had it; a stick
  that comes back once makes every object of its first mount stale.  One drive, one
  descriptor of each kind and one name are enough for every pair of users to meet, but
  one file on one stick takes one entry of the table of locks, shared or refused.
  Several entries and a table that is full are in the theorems only (`LocksKept`,
  `TypeCorrect`).  `files_reenter` has two sticks and two names.
* `Boot`: an image of one chunk still takes a pass to read and a pass to write, and
  the next pass to notice the end.  One system ROM is an RP6502 file that takes
  passes, the disc's is raw and read at once; the requests boot a tape, boot a disc
  and resume it.
* `Acia`: a ring of four that begins at its last index wraps with the first byte, and its
  free length is used up by two.  Two events are two bytes, or a byte and a reset or
  a modem that is pulled.
* `Tape`: the synch bytes of the one header lie across the end of the first block.
  `MBUF_SIZE` is larger than the overlap of four, and a byte of two bits is not over
  after one of them.

The size of real rings, sectors and blocks enters no decision except by being
reached.  `MaxWrites`, `MaxKeys`, `MaxBytes`, `MaxEvents`, `MaxRecords`, `MaxFails`
and `MaxMounts` bound how much happens, in the guards of what the 6502, the user,
the modem and the flash do; firmware actions have no bound.

Deadlock is checked in every run but `mia_verify` and `files_reenter`, which look for
one violation.

### Findings

* `mia_verify` - the end of a verify overwrites the address of a mismatch
  (`sys/mia.c:902`, against `sys/mia.h:52`).
* `files_stop` - `std_stop()` closes the files on the flash and leaves their
  descriptors marked open (`api/std.c:485`, against `main.c:208`).  The next stop gives
  their configurations back once more, whoever has them by then.
* `files_reenter` - a stick that comes back is mounted inside another call's wait
  (`usb/msc.c:73`, against `main.c:99`), and that call goes on to open the file that
  the mount was looking for.

### What the passing runs leave out

A passing run states where its property holds.  Outside these limits the code
behaves otherwise; a constant of the module opens each of them, and the hazard
at that line in `PROJECT.json` says so.

* `dsk_sector`: images of one length, and no Force Interrupt.  With a longer and a
  shorter image, a seek on the longer stops at the limit of the drive that was active
  before (`oric/dsk.c:825`, comments at 480 and 824).  A step without the update flag
  leaves the register behind the head, and a drive that is empty at the start takes a
  raw read from where no disk is: both break `ServesAddressedTrack`, and the theorem
  has them as hypotheses.
* `Dsk` lets an interrupt that the 6502 has acknowledged come back after the slow I2C
  write (`oric/dsk.c:632`).
* `dsk_swap`, `Swaps = "idle"`: with `"any"`, a write that waited for a disk goes into
  the buffer of the disk before, and from there to the new image (`oric/dsk.c:539`).
  A raw track write together with idle swaps does the same, and so does a Force
  Interrupt between a write and its write-back.
* `dsk_tracks`, `NoStoredWriteLost`.  The first byte of a raw track write can still go into
  the buffer that its selection is about to replace (`oric/dsk.c:543`), which is the
  whole sector when it has one byte.  With a slow core 0 a byte may arrive after the
  controller has given up a raw write, and leaves the track unsaved.  On a disk whose two
  sides overlap a raw write takes the other side's place.  Swaps of idle drives lose a
  sector too if raw writes are used or core 0 is slow; with sector writes alone and a
  prompt core 0 TLC finds none lost, but that is not proved.
* `mia_console`, `Breaks = "first"`: later breaks let `mia_run()` save its own vectors
  over the ROM's (`sys/mia.c:158`).  `Boots = "any"`, a boot in the middle of an action,
  does so too, and ends a command of the monitor as if it were complete.
* `api_calls`, `Breaks = "calm"`: the operation that `api_task()` has latched survives
  the stop of a program that is broken off in a read, and the next program's calls
  wait behind it (`api/api.c:14`).  `Typing = "slow"`: pasted text is reordered
  (`sys/com.c:444`).
* `files_held`, `Hotplug = "quiet"`, `Images = Names`: an image that a drive turns down
  (`dsk_mount_lfs()`, `rom_mount()` and the others return false, and nobody looks:
  `api/mnt.c:48`) stays open, so that its lock or configuration has no owner.  A
  failing flash and a drive of the tape or the ROM: these do not notice that their
  image did not open (`api/mnt.c:63`), which is the second hypothesis of `DrivesKept`
  (`FlashIsRead`).
* `boot_button`, `Faults = {}`, `Breaks = "calm"` and `Patient`: a chunk that is no
  good, or a break in the middle of a load, ends the load, and whoever waited takes
  it for complete and starts the 6502 (`sys/ext.c:281`, `sys/mia.c:411`).  A press
  in the middle of a load takes the loader away from a boot in the same way.  A break
  in the pass that starts the 6502 skips `stop()` and leaves the trap mapped
  (`main.c:378`).  The requests are FAST boots: one without that flag stops the 6502,
  and `mia_stop()` forgets the boot that has just begun (`sys/mia.c:245`).
* `files_held` again: an image that is not on the flash is read all the same, from a
  file object that is not open (`api/mnt.c:48`).  That a floppy drive finds no image
  in it is an assumption; `"stale"` in `Faults` drops it, and `DriveHasItsFile` fails.
* `acia_modem`: a stop of the program leaves the command settings in force
  (`oric/acia.c:208`), which the next program finds.
* `tape_deck`: a search from where the last one ended, without a seek in between, reads
  its first block from where the file is and not from the counter
  (`oric/tap.c:436`).  Images are at least as long as a header: on a shorter one the
  distance to the end is computed below zero and the search runs past it
  (`oric/tap.c:418`, `oric/tap.c:436`).

## 4. Fairness

* Core 0 is weakly fair (`DskTask`, `Core0`, `Loop`, `tap_task`): the loop has no
  blocking call, and each task is called once in every pass.  The one inner loop,
  the console's wait, is modelled as such and not assumed to end.
* In `Acia` core 0 is strongly fair.  Lowering the interrupt line takes longer than
  core 1 takes for an access (`LowerIrq`), so a 6502 that accesses the chip all the
  time would disable that step again and again; it does not keep it from happening.
  Core 1 serves what was accessed, and the 6502 reads a byte that it has been told
  of (weakly).  That it answers an interrupt is strongly fair, because it may mask
  them for a time and the line goes down again by itself.
* The 6502's own loop (`Cpu` in `MiaAction`) is weakly fair while its clock runs;
  `Stalls` lets the clock stop for good, and then nothing is assumed of it.
* `Expire` and `IrqTimeUp` are weakly fair: both compare with the RP2040's clock.
* In `Dsk` nothing is assumed of the 6502.  Commands end all the same.
* In `Api` the program takes its answer (`Return`), and the user ends lines
  (`PressEnter`, strongly fair, since there are moments when no key is waited
  for).  A read of stdin waits for a line by design, so without the user nothing
  could be said of it.
* In `Boot` the 6502 comes out of RESET (`Started`), loops in the trap (`Snoop`),
  leaves an open one (`LeaveTrap`) and returns from a call (`Return`): it executes
  instructions.  Nothing is assumed of interrupts: a 6502 that masks them is never
  caught, and the time limit answers the press instead.
* In `Tape` a program sees that its command is done (`Done`).  Nothing says that it
  gives another.
* `Files` has safety properties only.  A stick that is pulled during a transfer leaves
  the call waiting for good (`usb/msc.c:111`), so nothing in it can be promised to end.

## 5. Refinements

* `Files` implements `Pool` (`ImplementsPool`): the holders of the slots are computed
  from LittleFS's list and the pointers of the files, never from who ought to have
  them, so a configuration given to two files, or given back under an open one,
  is a step `Pool` does not have.
* `Acia` implements `Line` (`ImplementsLine`): taking a byte from the driver into the ring
  is a stutter, moving one into the data register is `HandOut`, a modem that is pulled
  or a stop is `Cut`.

TLC checks both as properties of the runs, initial states and steps, and both are
proved for every value of the constants (`PoolKept`, `BytesInOrder`).

## 6. Proofs

Every safety invariant and every action property of the passing runs, and both
refinements, are proved for every value of the constants that the stated
assumptions allow.  Each theorem rests on the `ASSUME` of its module's constants,
which are their types and the least sizes that the code needs (a ring has room for a
byte, a sector has a byte).  An assumption beyond that narrows what the 6502, the
user or the flash does, is named at the theorem, and in nearly every case was found
necessary: TLC has a counterexample without it (section 3, "What the passing runs
leave out").  The exceptions are said there.

The theorems all have the same shape.  An invariant that TLC had checked was
strengthened until it is inductive, and TLC checked the strengthened one too before
it was proved; `...AtFirst` is its initial step, `...Kept` or `...Step` its next step,
with a step for each action.

### Dsk_proofs

| theorem | shows | assumptions |
|---|---|---|
| `TypeCorrect` | `[]TypeOK` | none |
| `ReadsInOrder` | `[]BytesInOrder` | `OneAtATime` |
| `CommandsOnTheirDrive` | `[]CommandOnItsDrive` | `OneAtATime` |
| `WritesInOrder` | `[]NoByteDropped` | `OneAtATime`, `~SlowCore0` |
| `ImagesStayIntact` | `[]ImagesIntact` | `Orderly` |
| `AddressedTrackIsServed` | `[]ServesAddressedTrack` | `Orderly`, `NoneEmpty`, `Updating` |
| `AcceptedSectorsAreKept` | `[]NoStoredWriteLost` | the same, `DisksStay` |

`OneAtATime` is a 6502 that drains DRQ, forces no interrupt and does not enter the menu.
`Orderly` allows the menu: no Force Interrupt, images of one number of tracks whose
sides do not overlap, and swaps while the controller is idle (with no raw track write).

* *Types.*  `TypeOK` says more than types: `pos` never passes the sector's end and no
  head leaves the disk.  The byte counter advances in another step than the one that
  tests it, so `PositionInSector` adds that no update of the status register is
  pending outside `dsk_set_status()` and that a write in progress has room for a byte.
* *Bytes.*  A command is queued only while BUSY is clear, and BUSY stays set from the
  queueing to the end, so at most one command is on its way (`OneCommand`).  So the
  words behind it in the FIFO are selections only, and the drive taken with it is the
  one selected with it (`OnItsDrive`).  The status update that core 0 has begun writes
  back no DRQ or BUSY bit that core 1 has changed since, so between the offer of a
  byte and the 6502's read of it nothing moves the position or the buffer (`Reading`);
  and likewise for a byte that is written (`Writing`).  `Showing` adds what the register
  itself says: BUSY for as long as a command is on its way, and the DRQ bit as soon as
  the update that sets it is stored, so that neither is lost in `dsk_set_status()`.
* *Images.*  `Kept`: the head is on the disk (`HeadOn`); the buffer is the active
  place's unless a reload is pending (`Here`), and a dirty buffer is (`Ready`); a drive
  without a disk has nothing to write (`Empty`); and every image has at each offset a
  track formatted for that place (`Intact`).  Writing the buffer back then goes where it
  belongs (`OffsetInjective`).  `OneCommand` is in it in a form that survives a menu
  that takes the 6502 away: what the controller still carries out, nobody waits for.
* *The right track.*  `Served6502` adds that the track register tells where the head is
  or is going (`RegisterTells`) and what the 6502 addressed in terms of the command in
  hand (`Told`).
* *Nothing accepted is lost.*  `Stored`: each accepted sector is in its image, or in the
  buffer of its place and marked (`Safe`), and while one is on its way the last byte is
  still to be counted (`Sent`, `Fresh`, `Marking`).  With raw track writes the mark alone
  is not enough, since the raw write's first byte may mark a buffer that its selection
  then replaces: `Dirty` says that a marked buffer with an accepted sector exists only
  between its last byte and the end of its command.

### MiaAction_proofs

`TypeCorrect`, `VectorsAreHome` (`[]VectorsHome`) and `WritesWhatIsAsked` (`OnlyAsked`) under
`Undisturbed`: no break once the console is there, and boots only between actions.
`MonitorIsTrue` (`MonitorTellsTruth`) for memory that keeps its values besides.

`Sound` is the invariant: the jobs of the console's queue fit the screen (`Queue`); the
engine's position, address, saved vectors and the 6502's place in its loop belong
together (`Engine`, `Asking`); and the engine has one user (`Users`), which is the heart
of it: the console starts an action only out of a job and waits for it inside the task,
the monitor only when none is active, and a break or a boot finds none.  The monitor's
truth takes three more parts.  No job of the console draws while a command is in hand
(`Alone`): the echo of the line was flushed by its own newline.  The 6502
stores the byte that belongs to the cell it stores to (`Loaded`), and what has been moved
or compared so far of the command in hand is what the cells hold (`InHand`).

### Api_proofs

`TypeCorrect` and `WritesInOrder` need nothing; `LinesAreRead` (`[]ReadsTheLine`) and
`CallsAreAnswered` (`Answers`) need `Breaks = "calm"`; `KeysInOrder` (`[]StreamsInOrder`) needs
`Typing = "slow"` as well.

* What was printed, the ring and the rest of the write under way are one stream
  (`StreamInv`), and a new call's bytes are younger than all of it.
* With calm breaks the latch is the call that the program waits for (`Calling`), the line
  editor is the program's exactly while a read of it waits (`Reading`), and a line that
  was entered stays in `com_buf` until its newline is read, since the monitor asks for its
  own only when nothing is left (`Keeping`).  `Writing` says how much of a write is where.
* With slow typing at most one key is on its way from the keyboard, and while a read
  waits at most one is ahead of it (`OneKey`); so the keys in `rx_char`, the FIFO and the
  keyboard are in turn (`KeysInTurn`), and so is the line (`LineInTurn`).

### FatFs_proofs and Files_proofs

| theorem | shows | assumptions |
|---|---|---|
| `PoolKept` | `ImplementsPool` | `Tidy` |
| `LeaksBounded` | `[]LeaksAreFailures` | `Tidy`, `Images = Names` |
| `DrivesKept` | `[]DriveHasItsFile` | `Hotplug = "quiet"`, `FlashIsRead`: the flash does not fail, or the drives are floppies and a file that is not open reads as no image |
| `LocksKept`, `TypeCorrect` | `[]LocksOwned`, `[]TypeOK` | `Hotplug = "quiet"`, `Images = Names` |
| `NamesKept` | `OpensItsName` | `Hotplug = "quiet"` |

`Tidy` programs close what they have open on the flash before they end (what others do
is the finding of `files_stop`).

* The pool: `Owned` says that the configurations of the files in LittleFS's list are busy
  and differ, `NotYet` that the file an open waits for is not among them.  The refinement
  has each kind of step as a lemma about operators (`OpenHeld`, `CloseHeld`), then as a step
  of `Pool` (`Pooled`).  For the count of leaks, `Leaking` bounds the busy slots by the
  files in the list and the failures so far.
* The locks: `FatFs_proofs` has `Sound`, a statement about any state of FatFs and any set
  of file objects - each object that is valid has a lock of its file, and each lock
  counts its objects - and shows that `f_open`, `f_close`, unmounting and mounting keep it
  (`OpenSoundly`, `CloseSound`).  `Files_proofs` adds who has a file open (`EmptyDrives`,
  `NotOpenYet`) and needs only these.
* Names and drives: while nothing is plugged in during a transfer, the name in FatFs's
  buffer is that of the call that waits.  `NamesKept` is the counterpart of the finding of
  `files_reenter`: nothing but a stick reported inside the wait opens the wrong file.

### Boot_proofs

`TypeCorrect` needs nothing.  `MeantIsRun` (`[]RunsWhatWasMeant`), `VectorsAreBack`
(`[]VectorsBack`), `NobodyForgotten` (`[]TrapWatched`) and `ResumedAsLeft` (`ResumesAsLeft`) are
for `Calm` circumstances: the menu waits with interrupts masked, a button or a break
comes between loads, no chunk fails, and the menu asks for fast boots of systems
whose ROM can be loaded.  TLC has a counterexample without each of them (a menu that
takes interrupts can be caught in the trap while it waits for its boot call); that the
ROM of the disc system can be loaded is not among them.

`BootInv` has four parts: which states of the kernel, boot, loader, button and 6502 go
together (`Control`, the longest), how much of each ROM is loaded while the loader reads
and writes (`Contents`), what the ROMs hold once the 6502 is released (`Ready`), and what
is still to be loaded, and in which order, while a boot is under way (`Booting`).

### Acia_proofs

`TypeCorrect`, `BytesInOrder` (`ImplementsLine`) and `NoByteTwice` (`EachByteOnce`) have no
assumption besides the module's.

The order of the bytes is stated by `Age(i, tail)`, an index's distance from the tail:
older indices hold smaller numbers, all of them less than those in the driver's FIFO
(`Ordered`).  It turns the wrap of the ring into arithmetic without a case for every
place where the ring may begin.  `Exchange` relates what the last status said to the
registers, for as long as no status was stored late (`misled`).

### Tape_proofs

`TypeCorrect` and `RecordingsKept` (`[]RecordedIsSafe`) need nothing: `TapeSound` ties the
counter, the bit counter and the state of the deck to the length of the file, and `Safe`
says that what was recorded is stored, or the file is marked, or the last attempt to
store it failed.  `NextHeaderFound`
(`SearchFindsNext`) is for images no shorter than a header, and at most half a word
long: the subtraction of the header's length then does not wrap.  Its core is an
induction over the blocks without a recursive definition: as each block begins with the
last four bytes of the one before, the first block that ends the search has the first
mark behind the start, or no mark is left.

### Only model-checked

* Liveness: `CommandsEnd`, `WaitsEnd`, `CallsAnswered`, `PressAnswered`, `BootComesUp`,
  `StatusSettles`, `ReceiverGoesOn`, `CommandsTaken`.  Fairness and ENABLED are beyond the
  prover.
* The three properties that the findings refute.


## 7. Abstractions, and what is left out

* `Dsk`: the layout of a track, CRCs, interleave and sizes of sectors; the number of
  passes (`Budget`) instead of counts of thousands.  An index pulse may come at any
  pass that the code allows one.  Reads and writes of the image that fail
  (`oric/dsk.c:219`, `oric/dsk.c:249`, unchecked): every one succeeds.  Where a command
  sets several status bits in a row (`oric/dsk.c:857`, `oric/dsk.c:873`) they are one
  step.  Images are mounted from the menu, not by a stick that comes back in the middle
  of a command (`usb/msc.c:73`; `Files` and `Tape` have that).
* `MiaAction`: timing of single bus cycles, PIO programs, the parsing of commands,
  attributes and columns of the console, XRAM and binary commands.
* `Api`: escape sequences and editing inside a line, timeouts of the line editor
  (programs use none), FAST boots (`Boot` has them), files (`Files` has them).  That
  `api_task()` waits for memory actions and boots (`api/api.c:17`, `api/api.c:25`) is left
  out: actions are not in this module, and the one boot that is stops the program, which
  makes no call while the ROM is read.  So are programs that read the UART's registers,
  which take keys from the same queue (`sys/mia.c:947`, `sys/cpu.c:213`).
* `Files`: the contents of files; the chunks of an upload are one step that ends it or
  fails, reading or writing the settings is one step.  The wait inside FatFs is
  modelled for opens, where another name can come in between, once per call, and not
  for closes, reads and writes.  ROMs are loaded from the prompt; the loads of a boot,
  while the program runs, are in `Boot`, and the configuration that `rom_load_raw()`
  keeps when its open fails (`mon/rom.c:370`) is not modelled.  An install of an image or
  a raw ROM opens nothing and is a stutter (`mon/rom.c:251`).  A name that is looked for matters only while the call
  waits.  Directories are left out because the instance with them is too large for
  TLC to finish.
* `Boot`: the edges and the refresh counter of the button are folded into its two
  lengths; the read of it over I2C takes longer than the 6502 takes to leave an open
  trap, so no press is noticed in between; ROM files load into extended memory only.
* `Acia`: the control register and the format of a byte; the modem's and the interrupt's bits
  of the status, which are composed with the two that are modelled; `acia_modem`'s
  programs switch on DTR and both interrupts, and not echo: with a second command
  that echoes TLC does not finish the liveness properties.  The theorems are for every
  set of commands, with echo too.  An echoed byte is coded as 0; it can take the
  place of a byte that waits to be read (`oric/acia.c:145`), which `EachByteOnce` does
  not count as a loss.
* `Tape`: the bytes that are read, and errors of reading (those of storing are
  modelled); how a byte becomes bits; the room
  in a file is `MaxLen`; the menu is entered when the deck has settled, because taking
  the 6502 away takes many passes of the loop.

Not modelled, and why:

* directories (`api/dir.c`): see `Files`; what they are exposed to is a listed hazard;
* the scan of bus delays (`sys/adj.c`), PIO programs, overlays of ROM and RAM below the
  level of what is mapped: their result depends on the electrical bus;
* output only: display (`sys/ssd.c`), LED, power;
* tables and conversions without state: help, version, fonts, code pages
  (`src/fatfs/ffunicode.c`), key layouts, reports of pads and mice;
* libraries: FatFs is modelled as far as the firmware depends on it, LittleFS, TinyUSB
  and the SDK are modelled as their callers use them.

`PROJECT.json` has a line for each part.  The models stand for about a third of the
firmware's own code below `src/src/mia/`; most of the lines of the repository besides
are FatFs with its tables of characters.

## 8. Plan

Written: `Dsk` first, because a mistake there destroys data; then the two engines
that all else shares, memory actions and calls; then files, boot, the serial port
and the tape.  Proved: every safety property of these, and both refinements.  Next,
in this order:

1. `Dsk`: `NoStoredWriteLost` with swaps of idle drives, for sector writes and a prompt
   core 0, where TLC finds no violation; and an abstract disk, a map from places to
   contents that commands read and write at once, that `Dsk` implements.
2. `Api`: what `Answers` says of programs that are broken off inside a call, as far
   as it holds.
3. `Boot`: how much of `Ready` survives a failed load, which would name the exact damage.
4. `Upload`: chunks, checksums and timeouts with the line editor's binary reads.
5. Directories, if a smaller instance shows what can go wrong in them.
6. A memory with atomic block reads and writes, for `MiaAction` to implement.
