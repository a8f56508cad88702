-------------------------------- MODULE Dsk --------------------------------
(***************************************************************************)
(* The Microdisc floppy controller of the LOCI firmware (oric/dsk.c).      *)
(*                                                                         *)
(* Two processors share its registers without a lock.  Core 1 runs         *)
(* act_loop() (sys/mia.c): it serves the 6502's accesses to 0x0310-0x0318  *)
(* as they happen.  Core 0 runs dsk_task() once in every pass of the main  *)
(* loop.  The cores meet in the status, IRQ, DRQ and data registers, in    *)
(* the track buffer, and in the inter-core FIFO that carries the commands. *)
(*                                                                         *)
(* Granularity.  An access served by core 1 is one step.  A pass of        *)
(* dsk_task() is several: the state's own work, then the read and the      *)
(* write of the status register when it is updated (|= and &= are not      *)
(* atomic between the cores), then the test and the setting of the IRQ     *)
(* register, which a slow I2C access separates.  The variable pc says      *)
(* where in its pass core 0 is.                                            *)
(*                                                                         *)
(* Data.  A track is not its 6400 bytes but a content: the place on a disk *)
(* it was formatted as and the number of the last write it holds.  Every   *)
(* track has one sector (number 1 exists, any other does not).             *)
(*                                                                         *)
(* An operator that nothing uses and that stands just before another with  *)
(* the same parameters is a plausible slip in that code, for trying the    *)
(* properties against.                                                     *)
(***************************************************************************)
EXTENDS Integers, Sequences

CONSTANTS
  Drives,      (* drive numbers; drive 0 is the one selected at start      *)
  Sides,       (* side numbers                                             *)
  Media,       (* disk image files                                         *)
  NoDisk,      (* what an EMPTY drive holds                                *)
  MaxTrack,    (* bound on the tracks per side of an image                 *)
  Tracks,      (* tracks per side of each image, from its header           *)
  Start,       (* the images mounted at start                              *)
  Geometry,    (* geometry word of each image's header: 1 or 2             *)
  SecLen,      (* bytes in a sector                                        *)
  Budget,      (* passes a sector transfer waits for the 6502              *)
  FifoDepth,   (* entries of the inter-core FIFO                           *)
  MaxWrites,   (* bound: write commands the 6502 issues                    *)
  Ops,         (* commands the 6502 issues                                 *)
  Flags,       (* flags of type I commands the 6502 uses: UPD, VERIFY      *)
  IrqEnables,  (* values of the control register's IRQ enable bit it writes*)
  DrainsDrq,   (* the 6502 issues no command while DRQ is left asserted    *)
  SlowCore0,   (* USB interrupts may hold core 0 for as long as a 6502 data*)
               (* access, between two register accesses of one pass        *)
  Swaps        (* the LOCI menu is entered, and mounts and unmounts images: *)
               (* "never", when no command waits for a disk, or "any" time *)

TypeI    == {"RESTORE", "SEEK", "STEP", "STEP_IN", "STEP_OUT"}
Reads    == {"RSEC", "RTRACK", "RADDR"}
Writes   == {"WSEC", "WTRACK"}
ForceInt == {"FINT", "FINT_IMM"}
AllOps   == TypeI \cup Reads \cup Writes \cup ForceInt

ASSUME DskAssumption ==
  /\ Drives \subseteq Nat /\ 0 \in Drives
  /\ Sides \subseteq 0..1 /\ 0 \in Sides
  /\ NoDisk \notin Media
  /\ MaxTrack \in 1 .. 254
  /\ Tracks \in [Media -> 1 .. MaxTrack]
  /\ Geometry \in [Media -> {1, 2}]
  /\ Start \in [Drives -> Media \cup {NoDisk}]
  /\ \A d, e \in Drives : Start[d] = Start[e] => d = e \/ Start[d] = NoDisk
  /\ SecLen \in Nat \ {0}
  /\ Budget \in Nat
  /\ FifoDepth \in Nat \ {0}
  /\ MaxWrites \in Nat
  /\ Ops \subseteq AllOps
  /\ Flags \subseteq {"UPD", "VERIFY"}
  /\ IrqEnables \subseteq BOOLEAN
  /\ DrainsDrq \in BOOLEAN /\ SlowCore0 \in BOOLEAN
  /\ Swaps \in {"never", "idle", "any"}

VARIABLES
  \* registers and memory that both cores access
  status,      (* the set bits of IOREGS(DSK_IO_CMD)                       *)
  irq,         (* IOREGS(DSK_IO_CTRL) = 0x00: interrupt requested          *)
  drq,         (* IOREGS(DSK_IO_DRQ) = 0x00: data requested                *)
  data,        (* IOREGS(DSK_IO_DATA)                                      *)
  ioTrack,     (* IOREGS(DSK_IO_TRACK)                                     *)
  buf,         (* dsk_buf                                                  *)
  state,       (* dsk_state                                                *)
  pos,         (* dsk_active.pos - dsk_active.data_start                   *)
  \* core 1
  ctrl,        (* prev_ctrl: drive, side and IRQ enable last selected      *)
  fifo,        (* the SIO FIFO from core 1 to core 0                       *)
  \* core 0
  active,      (* dsk_active.drive_num, .side and .track                   *)
  nextTrack,   (* dsk_next_track                                           *)
  command,     (* dsk_reg_cmd, .sector, .track: the command being executed *)
  stepDirOut,  (* dsk_active.step_dir_out                                  *)
  bufUpdate,   (* dsk_active.buf_update_needed                             *)
  writeback,   (* dsk_active.track_writeback                               *)
  countdown,   (* dsk_rw_countdown                                         *)
  indexIrq,    (* dsk_active.index_irq                                     *)
  fire,        (* fire_irq                                                 *)
  paused,      (* dsk_paused                                               *)
  pc,          (* where core 0 is in its pass                              *)
  rmw,         (* the update of status that is under way                   *)
  \* storage
  mounted,     (* dsk_drives[d].type and file: the image, or NoDisk        *)
  maxTracks,   (* dsk_drives[d].tracks, which an unmount leaves            *)
  image,       (* contents of the image files, by track number in the file *)
  \* what the 6502 did and was promised (history)
  host,        (* its last command and the bytes moved since               *)
  stored       (* number of the last write completed at each place         *)

regs   == <<status, irq, drq, data, ioTrack, buf, state, pos>>
core1  == <<ctrl, fifo>>
xfer   == <<countdown, nextTrack, command, stepDirOut>>
core0  == <<active, bufUpdate, writeback, indexIrq, fire, paused, pc, rmw>>
disks  == <<mounted, maxTracks, image>>
ghosts == <<host, stored>>
vars   == <<regs, core1, xfer, core0, disks, ghosts>>

-----------------------------------------------------------------------------
(***************************************************************************)
(* Places and contents.  A content says where the track was formatted and  *)
(* which write command wrote its sector last (0: none).                    *)
(***************************************************************************)
TrackNrs == 0 .. (MaxTrack - 1)
Offsets  == 0 .. (2 * MaxTrack)
Places   == Media \X Sides \X TrackNrs
NoPlace  == <<NoDisk, 0, 0>>
Torn     == -1                     \* ver of a sector whose write was not completed
Versions == -1 .. MaxWrites
Contents == [at : Places \cup {NoPlace}, ver : Versions]
Blank    == [at |-> NoPlace, ver |-> 0]
NoTrack  == 255                    \* (uint8_t)(0 - 1)

\* track_off, in tracks from the start of the image
TrackOffset(m, side, track) ==
  IF Geometry[m] = 2 THEN track + side ELSE side * Tracks[m] + track

\* a disk image before anything is written to it: every track at its place
Formatted(m) ==
  [off \in Offsets |->
     IF \E s \in Sides, t \in 0 .. (Tracks[m] - 1) : TrackOffset(m, s, t) = off
       THEN LET p == CHOOSE q \in Sides \X (0 .. (Tracks[m] - 1)) :
                              TrackOffset(m, q[1], q[2]) = off
            IN  [at |-> <<m, p[1], p[2]>>, ver |-> 0]
       ELSE Blank]

Disk        == mounted[active.drive]
ActivePlace == <<Disk, active.side, active.track>>

-----------------------------------------------------------------------------
(***************************************************************************)
(* The track buffer and the image files.                                   *)
(***************************************************************************)

\* dsk_flush_track() on the files img: fails, changing nothing, on an EMPTY drive
FlushedSide0(img) ==
  IF Disk = NoDisk THEN img
  ELSE [img EXCEPT ![Disk][TrackOffset(Disk, 0, active.track)] = buf]
Flushed(img) ==
  IF Disk = NoDisk THEN img
  ELSE [img EXCEPT ![Disk][TrackOffset(Disk, active.side, active.track)] = buf]

\* dsk_set_active_track() succeeds for this drive
CanLoad(drive, track) ==
  mounted[drive] # NoDisk /\ track <= maxTracks[drive] - 1

\* what it then reads, from the files img
Loaded(img, drive, side, track) ==
  img[mounted[drive]][TrackOffset(mounted[drive], side, track)]

\* the track in the buffer has the ID field looked for: dsk_set_active_sector()
\* compares track and sector number, dsk_seek_next_idam() takes any
IdFound ==
  /\ buf.at # NoPlace
  /\ state = "READ_ADDR" \/ (buf.at[3] = active.track /\ command.sector)

-----------------------------------------------------------------------------
(***************************************************************************)
(* Initial state: dsk_init() at power on, before anything is mounted, and  *)
(* then the images the cfg names, mounted by the LOCI menu.                *)
(***************************************************************************)
IdleWord == [cmd |-> FALSE, op |-> "RESTORE", flags |-> {}, sector |-> FALSE,
             drive |-> 0, side |-> 0, track |-> 0]
NoRmw    == [set |-> {}, clr |-> {}, old |-> {}, next |-> "IDLE"]
NoHost   == [op |-> "NONE", at |-> NoPlace, n |-> 0, ver |-> 0]

Init ==
  /\ status = {} /\ irq = FALSE /\ drq = FALSE /\ ioTrack = 0
  /\ data = [n |-> 0, content |-> Blank]
  /\ buf = Blank
  /\ state = "IDLE" /\ pos = 0
  /\ ctrl = [drive |-> 0, side |-> 0, ie |-> FALSE]
  /\ fifo = <<>>
  /\ active = [drive |-> 0, side |-> 0, track |-> 0]
  /\ nextTrack = 0 /\ countdown = 0 /\ command = IdleWord /\ stepDirOut = FALSE
  /\ bufUpdate = TRUE /\ writeback = FALSE
  /\ indexIrq = FALSE /\ fire = FALSE /\ paused = FALSE
  /\ pc = "task" /\ rmw = NoRmw
  /\ mounted = Start
  /\ maxTracks = [d \in Drives |-> IF mounted[d] = NoDisk THEN 0 ELSE Tracks[mounted[d]]]
  /\ image = [m \in Media |-> Formatted(m)]
  /\ host = NoHost
  /\ stored = [p \in Places |-> 0]

-----------------------------------------------------------------------------
(***************************************************************************)
(* Core 1: the 6502's accesses.  The 6502 is a disk operating system that  *)
(* polls before it acts: it issues a command when BUSY is clear, except    *)
(* Force Interrupt, and moves a byte when DRQ is asserted.                 *)
(***************************************************************************)
Push(word) == IF Len(fifo) < FifoDepth THEN Append(fifo, word) ELSE fifo

\* the 6502 can reach the data register while core 0 is between two accesses
DataAccess == SlowCore0 \/ pc \notin {"rd", "wr", "late"}

\* the place a transfer command addresses: the selected drive and side and
\* the track register
Addressed ==
  LET place == <<mounted[ctrl.drive], ctrl.side, ioTrack>>
  IN  IF place \in Places THEN place ELSE NoPlace

\* CASE_WRITE(DSK_IO_CMD); for SEEK the target was stored in the data register
WriteCmd(op, flags, target, known) ==
  /\ op \in Ops
  /\ op \in ForceInt \/ ("BUSY" \notin status /\ (DrainsDrq => ~drq))
  /\ op \in Writes => host.ver < MaxWrites
  /\ IF op = "SEEK" THEN data' = [n |-> target, content |-> Blank] ELSE UNCHANGED data
  /\ irq' = FALSE
  /\ status' = {"BUSY"}
  /\ fifo' = Push([cmd |-> TRUE, op |-> op, flags |-> flags, sector |-> known,
                   drive |-> ctrl.drive, side |-> ctrl.side, track |-> ioTrack % 128])
  /\ host' = [op |-> op, at |-> IF op \in Reads \cup Writes THEN Addressed ELSE NoPlace,
              n |-> 0, ver |-> IF op \in Writes THEN host.ver + 1 ELSE host.ver]
  /\ stored' = IF op \in Writes /\ Addressed # NoPlace
                 THEN [stored EXCEPT ![Addressed] = Torn] ELSE stored
  /\ UNCHANGED <<drq, ioTrack, buf, state, pos, ctrl, xfer, core0, disks>>

\* CASE_WRITE(DSK_IO_CTRL): only a change of the IRQ enable is sent
WriteCtrl(drive, side, ie) ==
  /\ ctrl' = [drive |-> drive, side |-> side, ie |-> ie]
  /\ fifo' = IF ie # ctrl.ie
               THEN Push([IdleWord EXCEPT !.drive = drive, !.side = side]) ELSE fifo
  /\ UNCHANGED <<regs, xfer, core0, disks, ghosts>>

\* CASE_READ(DSK_IO_CMD): reading the status acknowledges the interrupt
ReadStatus ==
  /\ irq
  /\ irq' = FALSE
  /\ UNCHANGED <<status, drq, data, ioTrack, buf, state, pos, core1, xfer, core0, disks, ghosts>>

\* CASE_READ(DSK_IO_DATA)
ReadData ==
  /\ host.op \in Reads /\ drq /\ host.n < SecLen /\ DataAccess
  /\ status' = status \ {"DRQ"}
  /\ drq' = FALSE
  /\ host' = [host EXCEPT !.n = @ + 1]
  /\ UNCHANGED <<irq, data, ioTrack, buf, state, pos, core1, xfer, core0, disks, stored>>

\* CASE_WRITE(DSK_IO_DATA) in DSK_WRITE: the byte goes into the track buffer.
\* With its last byte the 6502 takes the sector for stored.  For WTRACK the state
\* is DSK_WRITE before the drive is selected, so that the first byte, which is in
\* a gap, may go into the buffer that the selection replaces.
StoreByte ==
  LET complete == host.n = pos /\ host.n + 1 = SecLen
  IN  /\ state = "WRITE"
      /\ status' = status \ {"DRQ"}
      /\ buf' = [buf EXCEPT !.ver = IF complete THEN host.ver ELSE Torn]
      /\ drq' = FALSE
      /\ stored' = IF complete /\ host.at # NoPlace
                     THEN [stored EXCEPT ![host.at] = host.ver] ELSE stored
      /\ UNCHANGED data

\* ... in any other state: it stays in the data register
KeepByte ==
  /\ state # "WRITE"
  /\ data' = [n |-> host.n, content |-> Blank]
  /\ UNCHANGED <<status, buf, drq, stored>>

WriteData ==
  /\ host.op \in Writes /\ drq /\ host.n < SecLen /\ DataAccess
  /\ StoreByte \/ KeepByte
  /\ host' = [host EXCEPT !.n = @ + 1]
  /\ UNCHANGED <<irq, ioTrack, state, pos, core1, xfer, core0, disks>>

Core1 ==
  \/ \E op \in Ops, flags \in SUBSET Flags, target \in 0 .. MaxTrack, known \in BOOLEAN :
       /\ flags # {} => op \in TypeI
       /\ "UPD" \in flags <=> "UPD" \in Flags /\ op \in TypeI \ {"RESTORE"}
       /\ op = "SEEK" => "UPD" \in flags           \* the flag that tells SEEK from RESTORE
       /\ target # 0 => op = "SEEK"
       /\ known \/ op \in {"RSEC", "WSEC"}
       /\ WriteCmd(op, flags, target, known)
  \/ \E drive \in Drives, side \in Sides, ie \in IrqEnables :
       [drive |-> drive, side |-> side, ie |-> ie] # ctrl /\ WriteCtrl(drive, side, ie)
  \/ ReadStatus
  \/ ReadData
  \/ WriteData

-----------------------------------------------------------------------------
(***************************************************************************)
(* Core 0: a pass of dsk_task().                                           *)
(***************************************************************************)

\* the 6502 has served the last data request: dsk_reg_drq == 0x80
AlwaysServed == TRUE
Served == ~drq

\* dsk_active.pos = dsk_active.data_start
SamePos == pos
FirstByte == 0

\* the transfer of a sector has not reached its end
MoreOrOne == pos <= SecLen
More == pos < SecLen

\* dsk_rw_countdown = a multiple of dsk_active.data_len
KeptCountdown == countdown
Patience == Budget

\* the status bits that the end of a command clears
EndBits == {"BUSY"}

\* dsk_cmd(): where a type I command takes the head
Target(w) ==
  CASE w.op = "RESTORE" -> 0
    [] w.op = "SEEK"    -> data.n
    [] w.op = "STEP"    -> IF stepDirOut
                             THEN (IF active.track > 0 THEN active.track - 1 ELSE active.track)
                             ELSE active.track + 1
    [] w.op = "STEP_IN"  -> active.track + 1
    [] w.op = "STEP_OUT" -> IF active.track > 0 THEN active.track + 1 ELSE active.track

\* "Don't seek beyond max tracks": of the drive selected so far
Clamped(track) ==
  IF track >= maxTracks[active.drive]
    THEN (IF maxTracks[active.drive] = 0 THEN NoTrack ELSE maxTracks[active.drive] - 1)
    ELSE track

TypeICommand(w) ==
  LET target == Target(w)
      track  == Clamped(target)
      reg    == IF "UPD" \in w.flags THEN track
                ELSE IF w.op = "RESTORE" THEN target ELSE w.track
  IN  /\ w.op \in TypeI
      /\ nextTrack' = track
      /\ command' = [w EXCEPT !.track = reg]
      /\ ioTrack' = IF w.op \in {"SEEK", "RESTORE"} \/ "UPD" \in w.flags THEN reg ELSE ioTrack
      /\ stepDirOut' = IF w.op \in {"STEP_IN", "STEP_OUT"} THEN FALSE ELSE stepDirOut
      /\ state' = "SEEK"
      /\ UNCHANGED <<status, drq, pos, indexIrq>>

OtherCommand(w) ==
  /\ w.op \notin TypeI
  /\ nextTrack' = active.track
  /\ command' = w
  /\ state' = CASE w.op = "RSEC"     -> "READ_PREP"
                [] w.op = "WSEC"     -> "WRITE_PREP"
                [] w.op = "RADDR"    -> "READ_ADDR"
                [] w.op = "RTRACK"   -> "READ"
                [] w.op = "WTRACK"   -> "WRITE"
                [] w.op = "FINT"     -> "CLEANUP"
                [] w.op = "FINT_IMM" -> "TOGGLE"
  /\ status' = CASE w.op \in ForceInt -> status \ {"BUSY"}
                 [] w.op = "WTRACK"   -> status \cup {"DRQ"}
                 [] OTHER             -> status
  /\ drq' = IF w.op = "WTRACK" THEN TRUE ELSE drq
  /\ pos' = IF w.op \in {"RTRACK", "WTRACK"} THEN FirstByte ELSE pos
  /\ \E index \in BOOLEAN :
       /\ index => w.op \in ForceInt
       /\ indexIrq' = IF w.op \in ForceInt THEN index ELSE indexIrq
  /\ UNCHANGED <<ioTrack, stepDirOut>>

\* DSK_IDLE: take one word from the FIFO
Idle ==
  /\ pc = "task" /\ state = "IDLE" /\ fifo = <<>>
  /\ pc' = "irq"
  /\ UNCHANGED <<regs, core1, xfer, active, bufUpdate, writeback, indexIrq, fire, paused, rmw, disks, ghosts>>

TakeCtrl ==
  /\ pc = "task" /\ state = "IDLE" /\ fifo # <<>> /\ ~Head(fifo).cmd
  /\ fifo' = Tail(fifo)
  /\ nextTrack' = active.track
  /\ pc' = "irq"
  /\ UNCHANGED <<regs, ctrl, countdown, command, stepDirOut, active, bufUpdate, writeback,
                 indexIrq, fire, paused, rmw, disks, ghosts>>

TakeCommand ==
  /\ pc = "task" /\ state = "IDLE" /\ fifo # <<>> /\ Head(fifo).cmd
  /\ fifo' = Tail(fifo)
  /\ TypeICommand(Head(fifo)) \/ OtherCommand(Head(fifo))
  /\ pc' = "select"
  /\ UNCHANGED <<irq, data, buf, ctrl, countdown, active, bufUpdate, writeback, fire, paused,
                 rmw, disks, ghosts>>

\* the command needs another track in the buffer than the one it holds ...
StaleDrive  == bufUpdate \/ command.side # active.side
StaleSide   == bufUpdate \/ command.drive # active.drive
NeedsReload == \/ bufUpdate
               \/ command.drive # active.drive
               \/ command.side # active.side

\* ... or leaves the one it holds
Moves == \/ command.drive # active.drive
         \/ command.side # active.side
         \/ nextTrack # active.track

\* dsk_set_active_drive() and dsk_set_active_side()
SideOnly == [active EXCEPT !.side = command.side]
Selected == [active EXCEPT !.drive = command.drive, !.side = command.side]

\* ... and, when BUSY, flush the old track and select the command's drive and side
Select ==
  LET busy    == "BUSY" \in status
      flush   == busy /\ writeback /\ Moves
      files   == IF flush THEN Flushed(image) ELSE image
      load    == busy /\ NeedsReload /\ CanLoad(command.drive, active.track)
  IN  /\ pc = "select"
      /\ image' = files
      /\ active' = IF busy THEN Selected ELSE active
      /\ buf' = IF load THEN Loaded(files, command.drive, command.side, active.track) ELSE buf
      /\ writeback' = (writeback /\ ~(flush /\ Disk # NoDisk) /\ ~load)
      /\ bufUpdate' = (bufUpdate /\ ~(busy /\ NeedsReload))
      /\ pc' = "irq"
      /\ UNCHANGED <<status, irq, drq, data, ioTrack, state, pos, core1, xfer, indexIrq, fire,
                     paused, rmw, mounted, maxTracks, ghosts>>

\* dsk_set_status() calls, then the state that follows them
Update(set, clr, next) ==
  /\ rmw' = [set |-> set, clr |-> clr, old |-> {}, next |-> next]
  /\ pc' = "rd"

ReadStatusReg ==
  /\ pc = "rd"
  /\ rmw' = [rmw EXCEPT !.old = status]
  /\ pc' = "wr"
  /\ UNCHANGED <<regs, core1, xfer, active, bufUpdate, writeback, indexIrq, fire, paused, disks, ghosts>>

WriteStatusReg ==
  /\ pc = "wr"
  /\ status' = (rmw.old \cup rmw.set) \ rmw.clr
  /\ state' = rmw.next
  /\ rmw' = NoRmw
  /\ pc' = "irq"
  /\ UNCHANGED <<irq, drq, data, ioTrack, buf, pos, core1, xfer, active, bufUpdate, writeback,
                 indexIrq, fire, paused, disks, ghosts>>

\* DSK_SEEK: load the new track, report, and signal; waits on an EMPTY drive
Seek ==
  LET load == nextTrack # active.track /\ CanLoad(active.drive, nextTrack)
      miss == "VERIFY" \in command.flags /\ buf'.at[3] # command.track
      hit  == "VERIFY" \in command.flags /\ buf'.at[3] = command.track
  IN  /\ pc = "task" /\ state = "SEEK" /\ Disk # NoDisk
      /\ buf' = IF load THEN Loaded(image, active.drive, active.side, nextTrack) ELSE buf
      /\ active' = IF load THEN [active EXCEPT !.track = nextTrack] ELSE active
      /\ writeback' = (writeback /\ ~load)
      /\ Update({"DRQ"} \cup (IF miss THEN {"ERR"} ELSE {}), IF hit THEN {"ERR"} ELSE {}, "TOGGLE")
      /\ UNCHANGED <<status, irq, drq, data, ioTrack, state, pos, core1, xfer, bufUpdate,
                     indexIrq, fire, paused, disks, ghosts>>

\* a state that waits for a disk to be inserted
AwaitDisk ==
  /\ pc = "task" /\ Disk = NoDisk
  /\ state \in {"SEEK", "READ_PREP", "WRITE_PREP", "READ_ADDR"}
  /\ pc' = "irq"
  /\ UNCHANGED <<regs, core1, xfer, active, bufUpdate, writeback, indexIrq, fire, paused, rmw, disks, ghosts>>

\* the three preparations when no ID field of the track matches
NotFound ==
  /\ pc = "task" /\ Disk # NoDisk
  /\ state \in {"READ_PREP", "WRITE_PREP", "READ_ADDR"} /\ ~IdFound
  /\ Update({"ERR"}, {}, "TOGGLE")
  /\ UNCHANGED <<regs, core1, xfer, active, bufUpdate, writeback, indexIrq, fire, paused, disks, ghosts>>

ReadPrep ==
  /\ pc = "task" /\ state = "READ_PREP" /\ Disk # NoDisk /\ IdFound
  /\ pos' = FirstByte
  /\ drq' = FALSE
  /\ countdown' = Patience
  /\ Update({}, {"DRQ"}, "READ")
  /\ UNCHANGED <<status, irq, data, ioTrack, buf, state, core1, nextTrack, command, stepDirOut,
                 active, bufUpdate, writeback, indexIrq, fire, paused, disks, ghosts>>

ReadAddr ==
  /\ pc = "task" /\ state = "READ_ADDR" /\ Disk # NoDisk /\ IdFound
  /\ pos' = FirstByte
  /\ state' = "READ"
  /\ pc' = "irq"
  /\ UNCHANGED <<status, irq, drq, data, ioTrack, buf, core1, xfer, active, bufUpdate, writeback,
                 indexIrq, fire, paused, rmw, disks, ghosts>>

\* DSK_READ: the 6502 has taken the last byte offered: offer the next one
OfferByte ==
  /\ pc = "task" /\ state = "READ" /\ Served /\ More
  /\ data' = [n |-> pos, content |-> buf]
  /\ pos' = pos + 1
  /\ drq' = TRUE
  /\ Update({"DRQ"}, {}, "READ")
  /\ UNCHANGED <<status, irq, ioTrack, buf, state, core1, xfer, active, bufUpdate, writeback,
                 indexIrq, fire, paused, disks, ghosts>>

ReadDone ==
  /\ pc = "task" /\ state = "READ" /\ Served /\ ~More
  /\ state' = "TOGGLE"
  /\ pc' = "irq"
  /\ UNCHANGED <<status, irq, drq, data, ioTrack, buf, pos, core1, xfer, active, bufUpdate,
                 writeback, indexIrq, fire, paused, rmw, disks, ghosts>>

WritePrep ==
  /\ pc = "task" /\ state = "WRITE_PREP" /\ Disk # NoDisk /\ IdFound
  /\ pos' = FirstByte
  /\ drq' = TRUE
  /\ countdown' = Patience
  /\ Update({"DRQ"}, {}, "WRITE")
  /\ UNCHANGED <<status, irq, data, ioTrack, buf, state, core1, nextTrack, command, stepDirOut,
                 active, bufUpdate, writeback, indexIrq, fire, paused, disks, ghosts>>

\* DSK_WRITE: a byte has arrived: ask for the next one
AskByte ==
  /\ pc = "task" /\ state = "WRITE" /\ Served /\ pos + 1 < SecLen
  /\ pos' = pos + 1
  /\ drq' = TRUE
  /\ writeback' = TRUE
  /\ Update({"DRQ"}, {}, "WRITE")
  /\ UNCHANGED <<status, irq, data, ioTrack, buf, state, core1, xfer, active, bufUpdate,
                 indexIrq, fire, paused, disks, ghosts>>

\* ... it was the last one: save the track
WriteDone ==
  /\ pc = "task" /\ state = "WRITE" /\ Served /\ pos + 1 >= SecLen
  /\ pos' = pos + 1
  /\ image' = Flushed(image)
  /\ writeback' = (writeback /\ Disk = NoDisk)
  /\ state' = "TOGGLE"
  /\ pc' = "irq"
  /\ UNCHANGED <<status, irq, drq, data, ioTrack, buf, core1, xfer, active, bufUpdate, indexIrq,
                 fire, paused, rmw, mounted, maxTracks, ghosts>>

\* DSK_READ and DSK_WRITE: the 6502 has not come.  The counter wraps to 2^32 - 1
\* when it is not set again; that wait is not counted down.
Forever == Budget + 1

Wait ==
  /\ pc = "task" /\ state \in {"READ", "WRITE"} /\ ~Served
  /\ countdown' = CASE countdown = 0       -> Forever
                    [] countdown = Forever -> Forever
                    [] OTHER               -> countdown - 1
  /\ IF countdown # 0 THEN pc' = "irq" /\ UNCHANGED state
     ELSE IF SlowCore0 /\ state = "WRITE" THEN pc' = "late" /\ UNCHANGED state
     ELSE pc' = "irq" /\ state' = "TOGGLE"
  /\ UNCHANGED <<status, irq, drq, data, ioTrack, buf, pos, core1, nextTrack, command, stepDirOut,
                 active, bufUpdate, writeback, indexIrq, fire, paused, rmw, disks, ghosts>>

TimedOut ==
  /\ pc = "late"
  /\ state' = "TOGGLE"
  /\ pc' = "irq"
  /\ UNCHANGED <<status, irq, drq, data, ioTrack, buf, pos, core1, xfer, active, bufUpdate,
                 writeback, indexIrq, fire, paused, rmw, disks, ghosts>>

\* DSK_TOGGLE_IRQ and DSK_CLEANUP
Finish ==
  /\ pc = "task" /\ state \in {"TOGGLE", "CLEANUP"}
  /\ fire' = (fire \/ state = "TOGGLE")
  /\ Update({}, EndBits, "IDLE")
  /\ UNCHANGED <<regs, core1, xfer, active, bufUpdate, writeback, indexIrq, paused, disks, ghosts>>

\* the end of a pass: test the interrupt request (an index pulse adds one) ...
TestIrq ==
  /\ pc = "irq"
  /\ \E pulse \in BOOLEAN :
       /\ pulse => indexIrq /\ Disk # NoDisk
       /\ fire' = (fire \/ pulse)
  /\ pc' = IF (irq \/ fire') /\ ~paused THEN "pulse" ELSE "task"
  /\ UNCHANGED <<regs, core1, xfer, active, bufUpdate, writeback, indexIrq, paused, rmw, disks, ghosts>>

\* ... and, after the slow write to the I/O expander, set the register
RaiseIrq ==
  /\ pc = "pulse"
  /\ irq' = TRUE
  /\ fire' = FALSE
  /\ pc' = "task"
  /\ UNCHANGED <<status, drq, data, ioTrack, buf, state, pos, core1, xfer, active, bufUpdate,
                 writeback, indexIrq, paused, rmw, disks, ghosts>>

DskTask ==
  \/ Idle \/ TakeCtrl \/ TakeCommand \/ Select
  \/ Seek \/ AwaitDisk \/ NotFound \/ ReadPrep \/ ReadAddr \/ OfferByte \/ ReadDone
  \/ WritePrep \/ AskByte \/ WriteDone \/ Wait \/ TimedOut \/ Finish
  \/ ReadStatusReg \/ WriteStatusReg \/ TestIrq \/ RaiseIrq

-----------------------------------------------------------------------------
(***************************************************************************)
(* Core 0: what the rest of the main loop does to the controller.          *)
(***************************************************************************)

\* Mounting, booting and resuming are done in the LOCI menu, which runs while
\* the controller is paused and leaves its registers alone.  A user takes far
\* longer there than a transfer waits for the 6502, unless it waits for ever.
InMenu == paused /\ pc = "task" /\ (fifo = <<>> \/ state # "IDLE")
Settled == state = "IDLE" \/ Disk = NoDisk \/ countdown = Forever
MayMount == InMenu /\ Settled /\ (Swaps = "any" \/ state = "IDLE")

\* dsk_mount_lfs(), dsk_mount_fat(): the buffer must be loaded again
BufKept  == bufUpdate
BufStale == TRUE

Mount(d, m) ==
  /\ Swaps # "never" /\ MayMount
  /\ mounted[d] = NoDisk /\ \A e \in Drives : mounted[e] # m
  /\ mounted' = [mounted EXCEPT ![d] = m]
  /\ maxTracks' = [maxTracks EXCEPT ![d] = Tracks[m]]
  /\ bufUpdate' = BufStale
  /\ UNCHANGED <<regs, core1, xfer, active, writeback, indexIrq, fire, paused, pc, rmw, image, ghosts>>

\* dsk_umount()
Unmount(d) ==
  LET flush == active.drive = d /\ writeback
  IN  /\ Swaps # "never" /\ MayMount
      /\ mounted[d] # NoDisk
      /\ image' = IF flush THEN Flushed(image) ELSE image
      /\ writeback' = (writeback /\ ~flush)
      /\ mounted' = [mounted EXCEPT ![d] = NoDisk]
      /\ UNCHANGED <<regs, core1, xfer, active, bufUpdate, indexIrq, fire, paused, pc, rmw,
                     maxTracks, ghosts>>

\* dsk_pause(true) when the LOCI button has stopped the 6502's program;
\* dsk_pause(false) on resuming it, which a reset makes impossible
Pause(on) ==
  /\ Swaps # "never" /\ pc = "task"
  /\ ~on => InMenu /\ Settled /\ host.op # "RESET"
  /\ paused' = on
  /\ UNCHANGED <<regs, core1, xfer, active, bufUpdate, writeback, indexIrq, fire, pc, rmw, disks, ghosts>>

\* dsk_stop(), with the 6502 held in reset
Stop ==
  /\ Swaps # "never" /\ pc = "task"
  /\ paused' = TRUE
  /\ status' = status \ EndBits
  /\ state' = "IDLE"
  /\ host' = [NoHost EXCEPT !.op = "RESET", !.ver = host.ver]
  /\ UNCHANGED <<irq, drq, data, ioTrack, buf, pos, core1, xfer, active, bufUpdate, writeback,
                 indexIrq, fire, pc, rmw, disks, stored>>

\* dsk_init(), when the machine is started with the controller
DskInit ==
  /\ Swaps # "never" /\ InMenu /\ Settled
  /\ image' = IF writeback THEN Flushed(image) ELSE image
  /\ active' = [drive |-> 0, side |-> 0, track |-> 0]
  /\ state' = "IDLE" /\ pos' = 0 /\ stepDirOut' = FALSE /\ indexIrq' = FALSE
  /\ bufUpdate' = TRUE /\ writeback' = FALSE
  /\ status' = {} /\ irq' = FALSE /\ drq' = FALSE /\ ioTrack' = 0
  /\ data' = [n |-> 0, content |-> Blank]
  /\ command' = IdleWord
  /\ paused' = FALSE
  /\ host' = [NoHost EXCEPT !.ver = host.ver]
  /\ UNCHANGED <<buf, core1, nextTrack, countdown, fire, pc, rmw, mounted, maxTracks, stored>>

MainLoop ==
  \/ \E d \in Drives : Unmount(d) \/ \E m \in Media : Mount(d, m)
  \/ \E on \in BOOLEAN : Pause(on)
  \/ Stop
  \/ DskInit

Next == (~paused /\ Core1) \/ DskTask \/ MainLoop

\* The main loop never blocks on the controller, so dsk_task() keeps running.
\* Nothing is assumed of the 6502.
Spec == Init /\ [][Next]_vars /\ WF_vars(DskTask)

-----------------------------------------------------------------------------
(***************************************************************************)
(* Properties.                                                             *)
(***************************************************************************)
Bits   == {"BUSY", "DRQ", "ERR"}     \* bits 0, 1 (DRQ or INDEX) and 4 (RNF or SEEK ERROR)
States == {"IDLE", "SEEK", "READ_PREP", "READ", "WRITE_PREP", "WRITE", "READ_ADDR",
           "TOGGLE", "CLEANUP"}
Words  == [cmd : BOOLEAN, op : AllOps, flags : SUBSET {"UPD", "VERIFY"}, sector : BOOLEAN,
           drive : Drives, side : Sides, track : Nat]
Updates == [set : SUBSET Bits, clr : SUBSET Bits, old : SUBSET Bits, next : States]

RegistersTyped ==
  /\ status \subseteq Bits
  /\ irq \in BOOLEAN /\ drq \in BOOLEAN
  /\ data \in [n : Nat, content : Contents]
  /\ ioTrack \in Nat
  /\ buf \in Contents
  /\ state \in States
  /\ pos \in 0 .. SecLen

Core1Typed ==
  /\ ctrl \in [drive : Drives, side : Sides, ie : BOOLEAN]
  /\ fifo \in Seq(Words) /\ Len(fifo) <= FifoDepth

TransferTyped ==
  /\ nextTrack \in Nat
  /\ countdown \in 0 .. Forever
  /\ command \in Words
  /\ stepDirOut \in BOOLEAN

Core0Typed ==
  /\ active \in [drive : Drives, side : Sides, track : TrackNrs]
  /\ bufUpdate \in BOOLEAN /\ writeback \in BOOLEAN /\ indexIrq \in BOOLEAN
  /\ fire \in BOOLEAN /\ paused \in BOOLEAN
  /\ pc \in {"task", "select", "rd", "wr", "late", "irq", "pulse"}
  /\ rmw \in Updates

DisksTyped ==
  /\ mounted \in [Drives -> Media \cup {NoDisk}]
  /\ maxTracks \in [Drives -> 0 .. MaxTrack]
  /\ image \in [Media -> [Offsets -> Contents]]

HistoryTyped ==
  /\ host \in [op : AllOps \cup {"NONE", "RESET"}, at : Places \cup {NoPlace}, n : 0 .. SecLen,
               ver : 0 .. MaxWrites]
  /\ stored \in [Places -> Versions]

\* Every variable has its type: no access leaves a register, the FIFO, the
\* position in the buffer or the head's track outside its range.
TypeOK ==
  /\ RegistersTyped /\ Core1Typed
  /\ TransferTyped /\ Core0Typed
  /\ DisksTyped /\ HistoryTyped

\* What makes the type of pos inductive: no update of the status register is
\* pending outside dsk_set_status(), and a write that goes on has a byte to store.
PositionInSector ==
  /\ pc \notin {"rd", "wr"} => rmw = NoRmw
  /\ state = "WRITE" \/ rmw.next = "WRITE" => pos < SecLen

\* While bytes of a sector move, the buffer holds the track the 6502 addressed
\* when it issued the command: the drive and side selected in the control
\* register, which reach core 0 only with the command, and the track register.
ServesAddressedTrack ==
  state \in {"READ", "WRITE"} /\ host.op \in {"RSEC", "WSEC"} => buf.at = host.at

\* No image ever receives another place's track.  The buffer is written back
\* to wherever the active drive, side and track point at that time, which may
\* have moved since it was loaded.
ImagesIntact ==
  \A m \in Media : \A off \in Offsets : image[m][off].at = Formatted(m)[off].at

\* A sector whose last byte the controller has accepted is in the image, or
\* in the buffer and marked for writing back to its own place.
NoStoredWriteLost ==
  \A m \in Media, s \in Sides, t \in TrackNrs :
    stored[<<m, s, t>>] > 0 =>
      LET content == [at |-> <<m, s, t>>, ver |-> stored[<<m, s, t>>]]
      IN  \/ image[m][TrackOffset(m, s, t)] = content
          \/ /\ buf = content /\ ActivePlace = <<m, s, t>>
             /\ writeback \/ state = "WRITE"

\* What a 6502 that polls the status register waits for is there while a byte
\* moves: BUSY, and DRQ once the update that announces it is over.
Announced ==
  "BUSY" \in status /\ (drq /\ pc \notin {"rd", "wr"} => "DRQ" \in status)

\* The byte on offer is the one the 6502 has counted to, of the buffered track,
\* and the status register says that it is there.
BytesInOrder ==
  state = "READ" /\ drq /\ host.op \in Reads =>
    data = [n |-> host.n, content |-> buf] /\ Announced

\* The controller has stored exactly the bytes the 6502 has sent, and the status
\* register says when it wants the next.
NoByteDropped ==
  state = "WRITE" /\ host.op \in Writes =>
    host.n = pos + (IF drq THEN 0 ELSE 1) /\ Announced

\* A command runs on the drive and the side that were selected with it.
CommandOnItsDrive ==
  state \in {"SEEK", "READ_PREP", "WRITE_PREP", "READ_ADDR"} /\ pc # "select" =>
    active.drive = command.drive /\ active.side = command.side

\* Every command ends, however the 6502 behaves, unless its drive is empty: the
\* controller is idle, and the status register says so.
CommandsEnd ==
  (state # "IDLE" /\ Disk # NoDisk) ~> (state = "IDLE" /\ "BUSY" \notin status) \/ Disk = NoDisk
=============================================================================
