----------------------------- MODULE Dsk_proofs -----------------------------
(***************************************************************************)
(* Theorems about the floppy controller, for every value of the constants. *)
(***************************************************************************)
EXTENDS Dsk, TLAPS

(***************************************************************************)
(* What the proofs use of the constants, a few facts at a time.            *)
(***************************************************************************)
LEMMA Sizes ==
  /\ MaxTrack \in Nat /\ 1 <= MaxTrack
  /\ SecLen \in Nat /\ 1 <= SecLen
  /\ Budget \in Nat /\ MaxWrites \in Nat
  /\ FifoDepth \in Nat /\ 1 <= FifoDepth
BY DskAssumption

LEMMA Units ==
  /\ Drives \subseteq Nat /\ 0 \in Drives
  /\ Sides \subseteq 0 .. 1 /\ 0 \in Sides
BY DskAssumption

LEMMA TrackCounts == \A m \in Media : Tracks[m] \in Nat /\ 1 <= Tracks[m] /\ Tracks[m] <= MaxTrack
BY DskAssumption

LEMMA OpNames ==
  /\ TypeI \subseteq AllOps /\ Reads \subseteq AllOps /\ Writes \subseteq AllOps
  /\ ForceInt \subseteq AllOps /\ Ops \subseteq AllOps
BY DskAssumption DEF AllOps

LEMMA BlankTyped == Blank \in Contents /\ NoPlace \in Places \cup {NoPlace}
BY Sizes DEF Blank, Contents, Versions, NoPlace

LEMMA IdleWordTyped == IdleWord \in Words
BY Units DEF IdleWord, Words, AllOps, TypeI

LEMMA NoRmwTyped == NoRmw \in Updates
BY DEF NoRmw, Updates, States

\* Both layouts of an image keep every track of every disk within the bound on
\* offsets (TrackOffset, the arithmetic of dsk_set_active_track).
LEMMA OffsetTyped ==
  ASSUME NEW m \in Media, NEW side \in Sides, NEW track \in TrackNrs
  PROVE  TrackOffset(m, side, track) \in Offsets
  <1>1. side = 0 \/ side = 1
    BY Units
  <1>2. side * Tracks[m] \in 0 .. MaxTrack
    BY <1>1, TrackCounts, Sizes
  <1>3. track \in 0 .. (MaxTrack - 1)
    BY DEF TrackNrs
  <1> QED BY <1>1, <1>2, <1>3, Sizes DEF TrackOffset, Offsets

LEMMA FlushedTyped ==
  ASSUME Core0Typed, DisksTyped, buf \in Contents
  PROVE  Flushed(image) \in [Media -> [Offsets -> Contents]]
BY DEF DisksTyped, Flushed

LEMMA LoadedTyped ==
  ASSUME DisksTyped, NEW files \in [Media -> [Offsets -> Contents]],
         NEW drive \in Drives, NEW side \in Sides, NEW track \in Nat, CanLoad(drive, track)
  PROVE  /\ track \in TrackNrs
         /\ Loaded(files, drive, side, track) \in Contents
  <1>1. mounted[drive] \in Media /\ maxTracks[drive] \in 0 .. MaxTrack
    BY DEF DisksTyped, CanLoad
  <1>2. track \in TrackNrs
    BY <1>1, Sizes DEF CanLoad, TrackNrs
  <1>3. TrackOffset(mounted[drive], side, track) \in Offsets
    BY <1>1, <1>2, OffsetTyped
  <1> QED BY <1>1, <1>2, <1>3 DEF Loaded

\* dsk_set_status() is called with bits of the status register only.
LEMMA UpdateTyped ==
  ASSUME NEW set \in SUBSET Bits, NEW clr \in SUBSET Bits, NEW next \in States,
         Update(set, clr, next)
  PROVE  rmw' \in Updates /\ pc' = "rd"
BY DEF Update, Updates

LEMMA PushTyped ==
  ASSUME Core1Typed, NEW word \in Words
  PROVE  Push(word) \in Seq(Words) /\ Len(Push(word)) <= FifoDepth
BY Sizes DEF Core1Typed, Push

\* No type I command computes a track below 0 (Target and Clamped, of dsk_cmd).
LEMMA TargetTyped ==
  ASSUME RegistersTyped, Core0Typed, NEW w \in Words, w.op \in TypeI
  PROVE  Target(w) \in Nat
  <1>1. active.track \in Nat /\ data.n \in Nat
    BY Sizes DEF RegistersTyped, Core0Typed, TrackNrs
  <1> QED BY <1>1 DEF Target, TypeI

LEMMA ClampedTyped ==
  ASSUME Core0Typed, DisksTyped, NEW track \in Nat
  PROVE  Clamped(track) \in Nat
  <1>1. maxTracks[active.drive] \in Nat
    BY Sizes DEF Core0Typed, DisksTyped
  <1> QED BY <1>1 DEF Clamped, NoTrack

LEMMA FormattedTyped == ASSUME NEW m \in Media PROVE Formatted(m) \in [Offsets -> Contents]
  <1> DEFINE Has(off) == \E s \in Sides, t \in 0 .. (Tracks[m] - 1) : TrackOffset(m, s, t) = off
             Sel(off) == CHOOSE q \in Sides \X (0 .. (Tracks[m] - 1)) :
                              TrackOffset(m, q[1], q[2]) = off
  <1>1. ASSUME NEW off \in Offsets, Has(off)
        PROVE  [at |-> <<m, Sel(off)[1], Sel(off)[2]>>, ver |-> 0] \in Contents
    <2>1. \E q \in Sides \X (0 .. (Tracks[m] - 1)) : TrackOffset(m, q[1], q[2]) = off
      <3>1. PICK s \in Sides, t \in 0 .. (Tracks[m] - 1) : TrackOffset(m, s, t) = off
        BY <1>1
      <3> WITNESS <<s, t>> \in Sides \X (0 .. (Tracks[m] - 1))
      <3> QED BY <3>1
    <2>2. Sel(off) \in Sides \X (0 .. (Tracks[m] - 1))
      BY <2>1
    <2>3. 0 .. (Tracks[m] - 1) \subseteq TrackNrs
      BY Sizes, TrackCounts DEF TrackNrs
    <2>4. <<m, Sel(off)[1], Sel(off)[2]>> \in Places
      BY <2>2, <2>3 DEF Places
    <2> QED BY <2>4, Sizes DEF Contents, Versions
  <1>2. ASSUME NEW off \in Offsets
        PROVE  (IF Has(off) THEN [at |-> <<m, Sel(off)[1], Sel(off)[2]>>, ver |-> 0] ELSE Blank)
                 \in Contents
    BY <1>1, BlankTyped
  <1> QED BY <1>2 DEF Formatted

LEMMA InitTyped == Init => TypeOK
  <1> SUFFICES ASSUME Init PROVE TypeOK OBVIOUS
  <1>1. RegistersTyped
    <2>1. data \in [n : Nat, content : Contents]
      BY BlankTyped DEF Init
    <2>2. status \subseteq Bits /\ state \in States /\ pos \in 0 .. SecLen
      BY Sizes DEF Init, States
    <2> QED BY <2>1, <2>2, BlankTyped DEF Init, RegistersTyped
  <1>2. Core1Typed
    <2>1. ctrl \in [drive : Drives, side : Sides, ie : BOOLEAN]
      BY Units DEF Init
    <2>2. fifo = <<>>
      BY DEF Init
    <2> QED BY <2>1, <2>2, Sizes DEF Core1Typed
  <1>3. TransferTyped
    <2>1. countdown \in 0 .. Forever
      BY Sizes DEF Init, Forever
    <2>2. command \in Words
      BY IdleWordTyped DEF Init
    <2>3. nextTrack \in Nat /\ stepDirOut \in BOOLEAN
      BY DEF Init
    <2> QED BY <2>1, <2>2, <2>3 DEF TransferTyped
  <1>4. Core0Typed
    <2>1. active \in [drive : Drives, side : Sides, track : TrackNrs]
      BY Units, Sizes DEF Init, TrackNrs
    <2>2. rmw \in Updates
      BY NoRmwTyped DEF Init
    <2> QED BY <2>1, <2>2 DEF Init, Core0Typed
  <1>5. DisksTyped
    <2>1. mounted \in [Drives -> Media \cup {NoDisk}]
      BY DskAssumption DEF Init
    <2>2. maxTracks \in [Drives -> 0 .. MaxTrack]
      BY <2>1, TrackCounts, Sizes DEF Init
    <2> QED BY <2>1, <2>2, FormattedTyped DEF Init, DisksTyped
  <1>6. HistoryTyped
    BY Sizes DEF Init, HistoryTyped, NoHost, NoPlace, Versions
  <1> QED BY <1>1, <1>2, <1>3, <1>4, <1>5, <1>6 DEF TypeOK

-----------------------------------------------------------------------------
(***************************************************************************)
(* Every action preserves the types.                                       *)
(***************************************************************************)

LEMMA WriteStatusRegTyped ==
  ASSUME TypeOK, WriteStatusReg
  PROVE  TypeOK'
  <1>1. RegistersTyped'
    <2>1. rmw \in Updates /\ status \subseteq Bits
      BY DEF TypeOK, RegistersTyped, Core0Typed
    <2>2. status' \subseteq Bits /\ state' \in States
      BY <2>1 DEF WriteStatusReg, Updates
    <2> QED BY <2>2 DEF TypeOK, RegistersTyped, WriteStatusReg
  <1>2. Core1Typed'
    BY Sizes DEF TypeOK, Core1Typed, WriteStatusReg, regs, core1, xfer, core0, disks, ghosts
  <1>3. TransferTyped'
    BY Sizes DEF TypeOK, TransferTyped, WriteStatusReg, regs, core1, xfer, core0, disks, ghosts
  <1>4. Core0Typed'
    BY NoRmwTyped DEF TypeOK, Core0Typed, WriteStatusReg
  <1>5. DisksTyped'
    BY Sizes DEF TypeOK, DisksTyped, WriteStatusReg, regs, core1, xfer, core0, disks, ghosts
  <1>6. HistoryTyped'
    BY Sizes DEF TypeOK, HistoryTyped, WriteStatusReg, regs, core1, xfer, core0, disks, ghosts
  <1> QED BY <1>1, <1>2, <1>3, <1>4, <1>5, <1>6 DEF TypeOK

LEMMA ReadStatusRegTyped ==
  ASSUME TypeOK, ReadStatusReg
  PROVE  TypeOK'
  <1>1. RegistersTyped'
    BY Sizes DEF TypeOK, RegistersTyped, ReadStatusReg, regs, core1, xfer, core0, disks, ghosts
  <1>2. Core1Typed'
    BY Sizes DEF TypeOK, Core1Typed, ReadStatusReg, regs, core1, xfer, core0, disks, ghosts
  <1>3. TransferTyped'
    BY Sizes DEF TypeOK, TransferTyped, ReadStatusReg, regs, core1, xfer, core0, disks, ghosts
  <1>4. Core0Typed'
    <2>1. rmw' \in Updates
      BY DEF TypeOK, RegistersTyped, Core0Typed, ReadStatusReg, Updates
    <2> QED BY <2>1 DEF TypeOK, Core0Typed, ReadStatusReg
  <1>5. DisksTyped'
    BY Sizes DEF TypeOK, DisksTyped, ReadStatusReg, regs, core1, xfer, core0, disks, ghosts
  <1>6. HistoryTyped'
    BY Sizes DEF TypeOK, HistoryTyped, ReadStatusReg, regs, core1, xfer, core0, disks, ghosts
  <1> QED BY <1>1, <1>2, <1>3, <1>4, <1>5, <1>6 DEF TypeOK

LEMMA TakeCtrlTyped ==
  ASSUME TypeOK, TakeCtrl
  PROVE  TypeOK'
  <1>1. RegistersTyped'
    BY Sizes DEF TypeOK, RegistersTyped, TakeCtrl, regs, core1, xfer, core0, disks, ghosts
  <1>2. Core1Typed'
    BY Sizes DEF TypeOK, Core1Typed, TakeCtrl, regs, core1, xfer, core0, disks, ghosts
  <1>3. TransferTyped'
    <2>1. active.track \in Nat
      BY Sizes DEF TypeOK, Core0Typed, TrackNrs
    <2> QED BY <2>1 DEF TypeOK, TransferTyped, TakeCtrl
  <1>4. Core0Typed'
    BY Sizes DEF TypeOK, Core0Typed, TakeCtrl, regs, core1, xfer, core0, disks, ghosts
  <1>5. DisksTyped'
    BY Sizes DEF TypeOK, DisksTyped, TakeCtrl, regs, core1, xfer, core0, disks, ghosts
  <1>6. HistoryTyped'
    BY Sizes DEF TypeOK, HistoryTyped, TakeCtrl, regs, core1, xfer, core0, disks, ghosts
  <1> QED BY <1>1, <1>2, <1>3, <1>4, <1>5, <1>6 DEF TypeOK

LEMMA ReadPrepTyped ==
  ASSUME TypeOK, ReadPrep
  PROVE  TypeOK'
  <1>1. RegistersTyped'
    <2>1. pos' \in 0 .. SecLen
      <3>1. pos' = 0
        BY DEF ReadPrep, FirstByte
      <3> QED BY <3>1, Sizes
    <2> QED BY <2>1 DEF TypeOK, RegistersTyped, ReadPrep
  <1>2. Core1Typed'
    BY Sizes DEF TypeOK, Core1Typed, ReadPrep, Patience, Forever, regs, core1, xfer, core0, disks, ghosts
  <1>3. TransferTyped'
    BY Sizes DEF TypeOK, TransferTyped, ReadPrep, Patience, Forever, regs, core1, xfer, core0, disks, ghosts
  <1>4. Core0Typed'
    <2>1. rmw' \in Updates /\ pc' = "rd"
      BY UpdateTyped DEF ReadPrep, Bits, States
    <2> QED BY <2>1 DEF TypeOK, Core0Typed, ReadPrep
  <1>5. DisksTyped'
    BY Sizes DEF TypeOK, DisksTyped, ReadPrep, Patience, Forever, regs, core1, xfer, core0, disks, ghosts
  <1>6. HistoryTyped'
    BY Sizes DEF TypeOK, HistoryTyped, ReadPrep, Patience, Forever, regs, core1, xfer, core0, disks, ghosts
  <1> QED BY <1>1, <1>2, <1>3, <1>4, <1>5, <1>6 DEF TypeOK

LEMMA StopTyped ==
  ASSUME TypeOK, Stop
  PROVE  TypeOK'
  <1>1. RegistersTyped'
    BY DEF TypeOK, RegistersTyped, Stop, States
  <1>2. Core1Typed'
    BY Sizes DEF TypeOK, Core1Typed, Stop, regs, core1, xfer, core0, disks, ghosts
  <1>3. TransferTyped'
    BY Sizes DEF TypeOK, TransferTyped, Stop, regs, core1, xfer, core0, disks, ghosts
  <1>4. Core0Typed'
    BY Sizes DEF TypeOK, Core0Typed, Stop, regs, core1, xfer, core0, disks, ghosts
  <1>5. DisksTyped'
    BY Sizes DEF TypeOK, DisksTyped, Stop, regs, core1, xfer, core0, disks, ghosts
  <1>6. HistoryTyped'
    <2>1. host.ver \in 0 .. MaxWrites
      BY DEF TypeOK, HistoryTyped
    <2>2. host' = [op |-> "RESET", at |-> NoPlace, n |-> 0, ver |-> host.ver]
      BY DEF Stop, NoHost
    <2> QED BY <2>1, <2>2, Sizes DEF TypeOK, HistoryTyped, Stop
  <1> QED BY <1>1, <1>2, <1>3, <1>4, <1>5, <1>6 DEF TypeOK

LEMMA DskInitTyped ==
  ASSUME TypeOK, DskInit
  PROVE  TypeOK'
  <1>1. RegistersTyped'
    <2>1. data' \in [n : Nat, content : Contents]
      BY BlankTyped DEF DskInit
    <2>2. status' \subseteq Bits /\ state' \in States /\ pos' \in 0 .. SecLen
      BY Sizes DEF DskInit, States
    <2> QED BY <2>1, <2>2 DEF DskInit, TypeOK, RegistersTyped
  <1>2. Core1Typed'
    BY Sizes DEF TypeOK, Core1Typed, DskInit, regs, core1, xfer, core0, disks, ghosts
  <1>3. TransferTyped'
    BY IdleWordTyped DEF TypeOK, TransferTyped, DskInit
  <1>4. Core0Typed'
    <2>1. active' \in [drive : Drives, side : Sides, track : TrackNrs]
      BY Units, Sizes DEF DskInit, TrackNrs
    <2> QED BY <2>1 DEF TypeOK, Core0Typed, DskInit
  <1>5. DisksTyped'
    <2>1. Flushed(image) \in [Media -> [Offsets -> Contents]]
      BY FlushedTyped DEF TypeOK, RegistersTyped
    <2> QED BY <2>1 DEF TypeOK, DisksTyped, DskInit
  <1>6. HistoryTyped'
    <2>1. host.ver \in 0 .. MaxWrites
      BY DEF TypeOK, HistoryTyped
    <2>2. host' = [op |-> "NONE", at |-> NoPlace, n |-> 0, ver |-> host.ver]
      BY DEF DskInit, NoHost
    <2>3. stored' \in [Places -> Versions]
      BY DEF TypeOK, HistoryTyped, DskInit
    <2> QED BY <2>1, <2>2, <2>3, Sizes DEF HistoryTyped
  <1> QED BY <1>1, <1>2, <1>3, <1>4, <1>5, <1>6 DEF TypeOK

LEMMA UnmountTyped ==
  ASSUME TypeOK, NEW d \in Drives, Unmount(d)
  PROVE  TypeOK'
  <1>1. RegistersTyped'
    BY Sizes DEF TypeOK, RegistersTyped, Unmount, regs, core1, xfer, core0, disks, ghosts
  <1>2. Core1Typed'
    BY Sizes DEF TypeOK, Core1Typed, Unmount, regs, core1, xfer, core0, disks, ghosts
  <1>3. TransferTyped'
    BY Sizes DEF TypeOK, TransferTyped, Unmount, regs, core1, xfer, core0, disks, ghosts
  <1>4. Core0Typed'
    BY Sizes DEF TypeOK, Core0Typed, Unmount, regs, core1, xfer, core0, disks, ghosts
  <1>5. DisksTyped'
    <2>1. Flushed(image) \in [Media -> [Offsets -> Contents]]
      BY FlushedTyped DEF TypeOK, RegistersTyped
    <2>2. mounted' \in [Drives -> Media \cup {NoDisk}]
      BY DEF TypeOK, DisksTyped, Unmount
    <2> QED BY <2>1, <2>2 DEF TypeOK, DisksTyped, Unmount
  <1>6. HistoryTyped'
    BY Sizes DEF TypeOK, HistoryTyped, Unmount, regs, core1, xfer, core0, disks, ghosts
  <1> QED BY <1>1, <1>2, <1>3, <1>4, <1>5, <1>6 DEF TypeOK

LEMMA WriteDoneTyped ==
  ASSUME TypeOK, PositionInSector, WriteDone
  PROVE  TypeOK'
  <1>1. RegistersTyped'
    <2>1. pos' \in 0 .. SecLen
      <3>1. pos \in 0 .. SecLen /\ pos < SecLen
        BY DEF TypeOK, RegistersTyped, WriteDone, PositionInSector
      <3> QED BY <3>1, Sizes DEF WriteDone
    <2> QED BY <2>1 DEF TypeOK, RegistersTyped, WriteDone, States
  <1>2. Core1Typed'
    BY Sizes DEF TypeOK, Core1Typed, WriteDone, regs, core1, xfer, core0, disks, ghosts
  <1>3. TransferTyped'
    BY Sizes DEF TypeOK, TransferTyped, WriteDone, regs, core1, xfer, core0, disks, ghosts
  <1>4. Core0Typed'
    BY Sizes DEF TypeOK, Core0Typed, WriteDone, regs, core1, xfer, core0, disks, ghosts
  <1>5. DisksTyped'
    <2>1. Flushed(image) \in [Media -> [Offsets -> Contents]]
      BY FlushedTyped DEF TypeOK, RegistersTyped
    <2> QED BY <2>1 DEF TypeOK, DisksTyped, WriteDone
  <1>6. HistoryTyped'
    BY Sizes DEF TypeOK, HistoryTyped, WriteDone, regs, core1, xfer, core0, disks, ghosts
  <1> QED BY <1>1, <1>2, <1>3, <1>4, <1>5, <1>6 DEF TypeOK

LEMMA SelectTyped ==
  ASSUME TypeOK, Select
  PROVE  TypeOK'
  <1>1. RegistersTyped'
    <2>1. buf' \in Contents
      <3> DEFINE files == IF "BUSY" \in status /\ writeback /\ Moves THEN Flushed(image) ELSE image
      <3>1. files \in [Media -> [Offsets -> Contents]]
        BY FlushedTyped DEF TypeOK, RegistersTyped, DisksTyped
      <3>2. command.drive \in Drives /\ command.side \in Sides
        BY DEF TypeOK, TransferTyped, Words
      <3>3. active.track \in Nat
        BY Sizes DEF TypeOK, Core0Typed, TrackNrs
      <3>4. CanLoad(command.drive, active.track) =>
              Loaded(files, command.drive, command.side, active.track) \in Contents
        BY <3>1, <3>2, <3>3, LoadedTyped DEF TypeOK
      <3> HIDE DEF files
      <3>5. \/ /\ CanLoad(command.drive, active.track)
               /\ buf' = Loaded(files, command.drive, command.side, active.track)
            \/ buf' = buf
        BY DEF Select, files
      <3> QED BY <3>4, <3>5 DEF TypeOK, RegistersTyped
    <2> QED BY <2>1 DEF TypeOK, RegistersTyped, Select
  <1>2. Core1Typed'
    BY Sizes DEF TypeOK, Core1Typed, Select, regs, core1, xfer, core0, disks, ghosts
  <1>3. TransferTyped'
    BY Sizes DEF TypeOK, TransferTyped, Select, regs, core1, xfer, core0, disks, ghosts
  <1>4. Core0Typed'
    <2>1. active' \in [drive : Drives, side : Sides, track : TrackNrs]
      BY DEF TypeOK, Core0Typed, TransferTyped, Words, Select, Selected
    <2> QED BY <2>1 DEF TypeOK, Core0Typed, Select
  <1>5. DisksTyped'
    <2>1. Flushed(image) \in [Media -> [Offsets -> Contents]]
      BY FlushedTyped DEF TypeOK, RegistersTyped
    <2> QED BY <2>1 DEF TypeOK, DisksTyped, Select
  <1>6. HistoryTyped'
    BY Sizes DEF TypeOK, HistoryTyped, Select, regs, core1, xfer, core0, disks, ghosts
  <1> QED BY <1>1, <1>2, <1>3, <1>4, <1>5, <1>6 DEF TypeOK

LEMMA SeekTyped ==
  ASSUME TypeOK, Seek
  PROVE  TypeOK'
  <1>1. RegistersTyped'
    <2>1. buf' \in Contents
      BY LoadedTyped DEF TypeOK, RegistersTyped, TransferTyped, Core0Typed, DisksTyped, Seek
    <2> QED BY <2>1 DEF TypeOK, RegistersTyped, Seek
  <1>2. Core1Typed'
    BY Sizes DEF TypeOK, Core1Typed, Seek, regs, core1, xfer, core0, disks, ghosts
  <1>3. TransferTyped'
    BY Sizes DEF TypeOK, TransferTyped, Seek, regs, core1, xfer, core0, disks, ghosts
  <1>4. Core0Typed'
    <2>1. active' \in [drive : Drives, side : Sides, track : TrackNrs]
      <3>1. active.drive \in Drives /\ active.side \in Sides /\ nextTrack \in Nat
            /\ image \in [Media -> [Offsets -> Contents]]
        BY DEF TypeOK, Core0Typed, TransferTyped, DisksTyped
      <3>2. CanLoad(active.drive, nextTrack) => nextTrack \in TrackNrs
        BY <3>1, LoadedTyped DEF TypeOK
      <3> QED BY <3>2 DEF TypeOK, Core0Typed, Seek
    <2>2. rmw' \in Updates /\ pc' = "rd"
      BY UpdateTyped DEF Seek, Bits, States
    <2> QED BY <2>1, <2>2 DEF TypeOK, Core0Typed, Seek
  <1>5. DisksTyped'
    BY Sizes DEF TypeOK, DisksTyped, Seek, regs, core1, xfer, core0, disks, ghosts
  <1>6. HistoryTyped'
    BY Sizes DEF TypeOK, HistoryTyped, Seek, regs, core1, xfer, core0, disks, ghosts
  <1> QED BY <1>1, <1>2, <1>3, <1>4, <1>5, <1>6 DEF TypeOK

LEMMA TakeCommandTyped ==
  ASSUME TypeOK, TakeCommand
  PROVE  TypeOK'
  <1>1. RegistersTyped'
    <2>1. Head(fifo) \in Words
      BY DEF TypeOK, Core1Typed, TakeCommand
    <2>2. CASE TypeICommand(Head(fifo))
      <3>1. ioTrack' \in Nat
        BY <2>1, <2>2, TargetTyped, ClampedTyped DEF TypeOK, RegistersTyped, TypeICommand, Words
      <3>2. state' \in States
        BY <2>2 DEF TypeICommand, States
      <3> QED BY <2>2, <3>1, <3>2 DEF TypeOK, RegistersTyped, TypeICommand, TakeCommand
    <2>3. CASE OtherCommand(Head(fifo))
      <3>1. state' \in States
        BY <2>1, <2>3 DEF OtherCommand, States, Words, AllOps, TypeI, Reads, Writes, ForceInt
      <3>2. status' \subseteq Bits /\ drq' \in BOOLEAN
        BY <2>1, <2>3 DEF OtherCommand, TypeOK, RegistersTyped, Bits
      <3>3. pos' \in 0 .. SecLen
        BY <2>3, Sizes DEF OtherCommand, FirstByte, TypeOK, RegistersTyped
      <3> QED BY <2>3, <3>1, <3>2, <3>3 DEF TypeOK, RegistersTyped, OtherCommand, TakeCommand
    <2> QED BY <2>2, <2>3 DEF TakeCommand
  <1>2. Core1Typed'
    <2>1. fifo \in Seq(Words) /\ Len(fifo) <= FifoDepth /\ fifo # <<>> /\ FifoDepth \in Nat
      BY Sizes DEF TypeOK, Core1Typed, TakeCommand
    <2>2. Tail(fifo) \in Seq(Words) /\ Len(Tail(fifo)) <= FifoDepth
      BY <2>1
    <2> QED BY <2>2 DEF TypeOK, Core1Typed, TakeCommand
  <1>3. TransferTyped'
    <2>1. Head(fifo) \in Words
      BY DEF TypeOK, Core1Typed, TakeCommand
    <2>2. countdown' = countdown
      BY DEF TakeCommand
    <2>3. CASE TypeICommand(Head(fifo))
      <3>1. nextTrack' \in Nat /\ command' \in Words /\ stepDirOut' \in BOOLEAN
        BY <2>1, <2>3, TargetTyped, ClampedTyped DEF TypeOK, TransferTyped, TypeICommand, Words
      <3> QED BY <2>2, <3>1 DEF TypeOK, TransferTyped
    <2>4. CASE OtherCommand(Head(fifo))
      <3>1. nextTrack' \in Nat
        BY <2>4, Sizes DEF OtherCommand, TypeOK, Core0Typed, TrackNrs
      <3> QED BY <2>1, <2>2, <2>4, <3>1 DEF TypeOK, TransferTyped, OtherCommand
    <2> QED BY <2>3, <2>4 DEF TakeCommand
  <1>4. Core0Typed'
    <2>1. indexIrq' \in BOOLEAN
      BY DEF TypeOK, Core0Typed, TakeCommand, TypeICommand, OtherCommand
    <2> QED BY <2>1 DEF TypeOK, Core0Typed, TakeCommand
  <1>5. DisksTyped'
    BY Sizes DEF TypeOK, DisksTyped, TakeCommand, regs, core1, xfer, core0, disks, ghosts
  <1>6. HistoryTyped'
    BY Sizes DEF TypeOK, HistoryTyped, TakeCommand, regs, core1, xfer, core0, disks, ghosts
  <1> QED BY <1>1, <1>2, <1>3, <1>4, <1>5, <1>6 DEF TypeOK

LEMMA WriteCtrlTyped ==
  ASSUME TypeOK, NEW drive \in Drives, NEW side \in Sides, NEW ie \in BOOLEAN, WriteCtrl(drive, side, ie)
  PROVE  TypeOK'
  <1>1. RegistersTyped'
    BY Sizes DEF TypeOK, RegistersTyped, WriteCtrl, regs, core1, xfer, core0, disks, ghosts
  <1>2. Core1Typed'
    <2>1. [IdleWord EXCEPT !.drive = drive, !.side = side] \in Words
      BY IdleWordTyped DEF Words
    <2> QED BY <2>1, PushTyped DEF TypeOK, Core1Typed, WriteCtrl
  <1>3. TransferTyped'
    BY Sizes DEF TypeOK, TransferTyped, WriteCtrl, regs, core1, xfer, core0, disks, ghosts
  <1>4. Core0Typed'
    BY Sizes DEF TypeOK, Core0Typed, WriteCtrl, regs, core1, xfer, core0, disks, ghosts
  <1>5. DisksTyped'
    BY Sizes DEF TypeOK, DisksTyped, WriteCtrl, regs, core1, xfer, core0, disks, ghosts
  <1>6. HistoryTyped'
    BY Sizes DEF TypeOK, HistoryTyped, WriteCtrl, regs, core1, xfer, core0, disks, ghosts
  <1> QED BY <1>1, <1>2, <1>3, <1>4, <1>5, <1>6 DEF TypeOK

LEMMA WriteCmdTyped ==
  ASSUME TypeOK,
         NEW op \in AllOps, NEW flags \in SUBSET Flags, NEW target \in Nat, NEW known \in BOOLEAN, WriteCmd(op, flags, target, known)
  PROVE  TypeOK'
  <1>1. RegistersTyped'
    <2>1. data' \in [n : Nat, content : Contents]
      BY BlankTyped DEF TypeOK, RegistersTyped, WriteCmd
    <2> QED BY <2>1 DEF TypeOK, RegistersTyped, WriteCmd, Bits
  <1>2. Core1Typed'
    <2> DEFINE word == [cmd |-> TRUE, op |-> op, flags |-> flags, sector |-> known,
                       drive |-> ctrl.drive, side |-> ctrl.side, track |-> ioTrack % 128]
    <2>1. ioTrack % 128 \in Nat
      BY DEF TypeOK, RegistersTyped
    <2>2. flags \in SUBSET {"UPD", "VERIFY"}
      BY DskAssumption
    <2>3. word \in Words
      BY <2>1, <2>2 DEF TypeOK, Core1Typed, Words
    <2>4. fifo' = Push(word) /\ ctrl' = ctrl
      BY DEF WriteCmd
    <2> HIDE DEF word
    <2> QED BY <2>3, <2>4, PushTyped DEF TypeOK, Core1Typed
  <1>3. TransferTyped'
    BY Sizes DEF TypeOK, TransferTyped, WriteCmd, regs, core1, xfer, core0, disks, ghosts
  <1>4. Core0Typed'
    BY Sizes DEF TypeOK, Core0Typed, WriteCmd, regs, core1, xfer, core0, disks, ghosts
  <1>5. DisksTyped'
    BY Sizes DEF TypeOK, DisksTyped, WriteCmd, regs, core1, xfer, core0, disks, ghosts
  <1>6. HistoryTyped'
    <2>1. Addressed \in Places \cup {NoPlace}
      BY DEF Addressed
    <2>2. host.ver \in 0 .. MaxWrites /\ (op \in Writes => host.ver < MaxWrites)
      BY DEF TypeOK, HistoryTyped, WriteCmd
    <2>3. host' \in [op : AllOps \cup {"NONE", "RESET"}, at : Places \cup {NoPlace}, n : 0 .. SecLen,
                     ver : 0 .. MaxWrites]
      BY <2>1, <2>2, Sizes DEF WriteCmd
    <2>4. stored' \in [Places -> Versions]
      <3>1. stored \in [Places -> Versions] /\ Torn \in Versions
        BY Sizes DEF TypeOK, HistoryTyped, Torn, Versions
      <3>2. stored' = stored \/ stored' = [stored EXCEPT ![Addressed] = Torn]
        BY DEF WriteCmd
      <3> QED BY <3>1, <3>2
    <2> QED BY <2>3, <2>4 DEF HistoryTyped
  <1> QED BY <1>1, <1>2, <1>3, <1>4, <1>5, <1>6 DEF TypeOK

LEMMA WriteDataTyped ==
  ASSUME TypeOK, WriteData
  PROVE  TypeOK'
  <1>1. RegistersTyped'
    <2>1. host.n \in Nat /\ host.ver \in Versions /\ Torn \in Versions
      BY Sizes DEF TypeOK, HistoryTyped, Versions, Torn
    <2>2. CASE StoreByte
      <3>1. buf' \in Contents
        BY <2>1, <2>2 DEF StoreByte, TypeOK, RegistersTyped, Contents
      <3> QED BY <2>2, <3>1 DEF StoreByte, WriteData, TypeOK, RegistersTyped
    <2>3. CASE KeepByte
      <3>1. data' \in [n : Nat, content : Contents]
        BY <2>1, <2>3, BlankTyped DEF KeepByte
      <3> QED BY <2>3, <3>1 DEF KeepByte, WriteData, TypeOK, RegistersTyped
    <2> QED BY <2>2, <2>3 DEF WriteData
  <1>2. Core1Typed'
    BY Sizes DEF TypeOK, Core1Typed, WriteData, regs, core1, xfer, core0, disks, ghosts
  <1>3. TransferTyped'
    BY Sizes DEF TypeOK, TransferTyped, WriteData, regs, core1, xfer, core0, disks, ghosts
  <1>4. Core0Typed'
    BY Sizes DEF TypeOK, Core0Typed, WriteData, regs, core1, xfer, core0, disks, ghosts
  <1>5. DisksTyped'
    BY Sizes DEF TypeOK, DisksTyped, WriteData, regs, core1, xfer, core0, disks, ghosts
  <1>6. HistoryTyped'
    <2>1. host' \in [op : AllOps \cup {"NONE", "RESET"}, at : Places \cup {NoPlace}, n : 0 .. SecLen,
                     ver : 0 .. MaxWrites]
      BY Sizes DEF TypeOK, HistoryTyped, WriteData
    <2>2. host.ver \in Versions
      BY Sizes DEF TypeOK, HistoryTyped, Versions
    <2>3. stored' \in [Places -> Versions]
      BY <2>2 DEF TypeOK, HistoryTyped, WriteData, StoreByte, KeepByte
    <2> QED BY <2>1, <2>3 DEF HistoryTyped
  <1> QED BY <1>1, <1>2, <1>3, <1>4, <1>5, <1>6 DEF TypeOK

LEMMA MountTyped ==
  ASSUME TypeOK, NEW d \in Drives, NEW m \in Media, Mount(d, m)
  PROVE  TypeOK'
  <1>1. RegistersTyped'
    BY Sizes DEF TypeOK, RegistersTyped, Mount, BufStale, regs, core1, xfer, core0, disks, ghosts
  <1>2. Core1Typed'
    BY Sizes DEF TypeOK, Core1Typed, Mount, BufStale, regs, core1, xfer, core0, disks, ghosts
  <1>3. TransferTyped'
    BY Sizes DEF TypeOK, TransferTyped, Mount, BufStale, regs, core1, xfer, core0, disks, ghosts
  <1>4. Core0Typed'
    BY Sizes DEF TypeOK, Core0Typed, Mount, BufStale, regs, core1, xfer, core0, disks, ghosts
  <1>5. DisksTyped'
    <2>1. Tracks[m] \in 0 .. MaxTrack
      BY TrackCounts, Sizes
    <2> QED BY <2>1 DEF TypeOK, DisksTyped, Mount
  <1>6. HistoryTyped'
    BY Sizes DEF TypeOK, HistoryTyped, Mount, BufStale, regs, core1, xfer, core0, disks, ghosts
  <1> QED BY <1>1, <1>2, <1>3, <1>4, <1>5, <1>6 DEF TypeOK

LEMMA IdleTyped == TypeOK /\ Idle => TypeOK'
BY Sizes, Units, SMTT(60) DEF TypeOK, RegistersTyped, Core1Typed, TransferTyped, Core0Typed, DisksTyped, HistoryTyped,
   Idle, regs, core1, xfer, core0, disks, ghosts

LEMMA AwaitDiskTyped == TypeOK /\ AwaitDisk => TypeOK'
BY Sizes, Units, SMTT(60) DEF TypeOK, RegistersTyped, Core1Typed, TransferTyped, Core0Typed, DisksTyped, HistoryTyped,
   AwaitDisk, regs, core1, xfer, core0, disks, ghosts

LEMMA NotFoundTyped == TypeOK /\ NotFound => TypeOK'
BY Sizes, Units DEF TypeOK, RegistersTyped, Core1Typed, TransferTyped, Core0Typed, DisksTyped, HistoryTyped,
   NotFound, Update, Bits, States, Updates, regs, core1, xfer, core0, disks, ghosts

LEMMA ReadAddrTyped == TypeOK /\ ReadAddr => TypeOK'
BY Sizes, Units, SMTT(60) DEF TypeOK, RegistersTyped, Core1Typed, TransferTyped, Core0Typed, DisksTyped, HistoryTyped,
   ReadAddr, FirstByte, States, regs, core1, xfer, core0, disks, ghosts

LEMMA OfferByteTyped == TypeOK /\ OfferByte => TypeOK'
BY Sizes, Units, SMTT(60) DEF TypeOK, RegistersTyped, Core1Typed, TransferTyped, Core0Typed, DisksTyped, HistoryTyped,
   OfferByte, Update, Bits, States, Updates, More, regs, core1, xfer, core0, disks, ghosts

LEMMA ReadDoneTyped == TypeOK /\ ReadDone => TypeOK'
BY Sizes, Units, SMTT(60) DEF TypeOK, RegistersTyped, Core1Typed, TransferTyped, Core0Typed, DisksTyped, HistoryTyped,
   ReadDone, States, regs, core1, xfer, core0, disks, ghosts

LEMMA WritePrepTyped == TypeOK /\ WritePrep => TypeOK'
BY Sizes, Units, SMTT(60) DEF TypeOK, RegistersTyped, Core1Typed, TransferTyped, Core0Typed, DisksTyped, HistoryTyped,
   WritePrep, Update, Bits, States, Updates, FirstByte, Patience, Forever, regs, core1, xfer, core0, disks, ghosts

LEMMA AskByteTyped == TypeOK /\ AskByte => TypeOK'
BY Sizes, Units, SMTT(60) DEF TypeOK, RegistersTyped, Core1Typed, TransferTyped, Core0Typed, DisksTyped, HistoryTyped,
   AskByte, Update, Bits, States, Updates, regs, core1, xfer, core0, disks, ghosts

LEMMA TimedOutTyped == TypeOK /\ TimedOut => TypeOK'
BY Sizes, Units, SMTT(60) DEF TypeOK, RegistersTyped, Core1Typed, TransferTyped, Core0Typed, DisksTyped, HistoryTyped,
   TimedOut, States, regs, core1, xfer, core0, disks, ghosts

LEMMA FinishTyped == TypeOK /\ Finish => TypeOK'
BY Sizes, Units, SMTT(60) DEF TypeOK, RegistersTyped, Core1Typed, TransferTyped, Core0Typed, DisksTyped, HistoryTyped,
   Finish, Update, Bits, States, Updates, EndBits, regs, core1, xfer, core0, disks, ghosts

LEMMA TestIrqTyped == TypeOK /\ TestIrq => TypeOK'
BY Sizes, Units, SMTT(60) DEF TypeOK, RegistersTyped, Core1Typed, TransferTyped, Core0Typed, DisksTyped, HistoryTyped,
   TestIrq, regs, core1, xfer, core0, disks, ghosts

LEMMA ReadStatusTyped ==
  ASSUME TypeOK, ReadStatus
  PROVE  TypeOK'
  <1>1. RegistersTyped'
    BY Sizes DEF TypeOK, RegistersTyped, ReadStatus, regs, core1, xfer, core0, disks, ghosts
  <1>2. Core1Typed'
    BY Sizes DEF TypeOK, Core1Typed, ReadStatus, regs, core1, xfer, core0, disks, ghosts
  <1>3. TransferTyped'
    BY Sizes DEF TypeOK, TransferTyped, ReadStatus, regs, core1, xfer, core0, disks, ghosts
  <1>4. Core0Typed'
    BY Sizes DEF TypeOK, Core0Typed, ReadStatus, regs, core1, xfer, core0, disks, ghosts
  <1>5. DisksTyped'
    BY Sizes DEF TypeOK, DisksTyped, ReadStatus, regs, core1, xfer, core0, disks, ghosts
  <1>6. HistoryTyped'
    BY Sizes DEF TypeOK, HistoryTyped, ReadStatus, regs, core1, xfer, core0, disks, ghosts
  <1> QED BY <1>1, <1>2, <1>3, <1>4, <1>5, <1>6 DEF TypeOK

LEMMA ReadDataTyped ==
  ASSUME TypeOK, ReadData
  PROVE  TypeOK'
  <1>1. RegistersTyped'
    BY Sizes DEF TypeOK, RegistersTyped, ReadData, regs, core1, xfer, core0, disks, ghosts
  <1>2. Core1Typed'
    BY Sizes DEF TypeOK, Core1Typed, ReadData, regs, core1, xfer, core0, disks, ghosts
  <1>3. TransferTyped'
    BY Sizes DEF TypeOK, TransferTyped, ReadData, regs, core1, xfer, core0, disks, ghosts
  <1>4. Core0Typed'
    BY Sizes DEF TypeOK, Core0Typed, ReadData, regs, core1, xfer, core0, disks, ghosts
  <1>5. DisksTyped'
    BY Sizes DEF TypeOK, DisksTyped, ReadData, regs, core1, xfer, core0, disks, ghosts
  <1>6. HistoryTyped'
    BY Sizes DEF TypeOK, HistoryTyped, ReadData, regs, core1, xfer, core0, disks, ghosts
  <1> QED BY <1>1, <1>2, <1>3, <1>4, <1>5, <1>6 DEF TypeOK

LEMMA WaitTyped ==
  ASSUME TypeOK, Wait
  PROVE  TypeOK'
  <1>1. RegistersTyped'
    BY Sizes DEF TypeOK, RegistersTyped, Wait, Forever, States, Served, regs, core1, xfer, core0, disks, ghosts
  <1>2. Core1Typed'
    BY Sizes DEF TypeOK, Core1Typed, Wait, Forever, States, Served, regs, core1, xfer, core0, disks, ghosts
  <1>3. TransferTyped'
    BY Sizes DEF TypeOK, TransferTyped, Wait, Forever, States, Served, regs, core1, xfer, core0, disks, ghosts
  <1>4. Core0Typed'
    BY Sizes DEF TypeOK, Core0Typed, Wait, Forever, States, Served, regs, core1, xfer, core0, disks, ghosts
  <1>5. DisksTyped'
    BY Sizes DEF TypeOK, DisksTyped, Wait, Forever, States, Served, regs, core1, xfer, core0, disks, ghosts
  <1>6. HistoryTyped'
    BY Sizes DEF TypeOK, HistoryTyped, Wait, Forever, States, Served, regs, core1, xfer, core0, disks, ghosts
  <1> QED BY <1>1, <1>2, <1>3, <1>4, <1>5, <1>6 DEF TypeOK

LEMMA RaiseIrqTyped ==
  ASSUME TypeOK, RaiseIrq
  PROVE  TypeOK'
  <1>1. RegistersTyped'
    BY Sizes DEF TypeOK, RegistersTyped, RaiseIrq, regs, core1, xfer, core0, disks, ghosts
  <1>2. Core1Typed'
    BY Sizes DEF TypeOK, Core1Typed, RaiseIrq, regs, core1, xfer, core0, disks, ghosts
  <1>3. TransferTyped'
    BY Sizes DEF TypeOK, TransferTyped, RaiseIrq, regs, core1, xfer, core0, disks, ghosts
  <1>4. Core0Typed'
    BY Sizes DEF TypeOK, Core0Typed, RaiseIrq, regs, core1, xfer, core0, disks, ghosts
  <1>5. DisksTyped'
    BY Sizes DEF TypeOK, DisksTyped, RaiseIrq, regs, core1, xfer, core0, disks, ghosts
  <1>6. HistoryTyped'
    BY Sizes DEF TypeOK, HistoryTyped, RaiseIrq, regs, core1, xfer, core0, disks, ghosts
  <1> QED BY <1>1, <1>2, <1>3, <1>4, <1>5, <1>6 DEF TypeOK

LEMMA PauseTyped ==
  ASSUME TypeOK, NEW on \in BOOLEAN, Pause(on)
  PROVE  TypeOK'
BY DEF TypeOK, RegistersTyped, Core1Typed, TransferTyped, Core0Typed, DisksTyped, HistoryTyped,
   Pause, regs, core1, xfer, core0, disks, ghosts

LEMMA Core1Words ==
  ASSUME NEW op \in Ops, NEW flags \in SUBSET Flags, NEW target \in 0 .. MaxTrack,
         NEW known \in BOOLEAN
  PROVE  op \in AllOps /\ target \in Nat
BY OpNames, Sizes

LEMMA StepTyped ==
  ASSUME TypeOK, PositionInSector, Next
  PROVE  TypeOK'
  <1>1. CASE Core1
    <2>1. ASSUME NEW op \in Ops, NEW flags \in SUBSET Flags, NEW target \in 0 .. MaxTrack,
                 NEW known \in BOOLEAN, WriteCmd(op, flags, target, known)
          PROVE  TypeOK'
      BY <2>1, Core1Words, WriteCmdTyped
    <2>2. ASSUME NEW drive \in Drives, NEW side \in Sides, NEW ie \in IrqEnables,
                 WriteCtrl(drive, side, ie)
          PROVE  TypeOK'
      <3>1. ie \in BOOLEAN
        BY DskAssumption
      <3> QED BY <2>2, <3>1, WriteCtrlTyped
    <2> QED BY <1>1, <2>1, <2>2, ReadStatusTyped, ReadDataTyped, WriteDataTyped DEF Core1
  <1>2. CASE DskTask
    BY <1>2, IdleTyped, TakeCtrlTyped, TakeCommandTyped, SelectTyped, SeekTyped, AwaitDiskTyped, NotFoundTyped, ReadPrepTyped, ReadAddrTyped, OfferByteTyped, ReadDoneTyped, WritePrepTyped, AskByteTyped, WriteDoneTyped, WaitTyped, TimedOutTyped, FinishTyped, ReadStatusRegTyped, WriteStatusRegTyped, TestIrqTyped, RaiseIrqTyped DEF DskTask
  <1>3. CASE MainLoop
    BY <1>3, UnmountTyped, MountTyped, PauseTyped, StopTyped, DskInitTyped DEF MainLoop
  <1> QED BY <1>1, <1>2, <1>3 DEF Next

LEMMA StutterTyped == TypeOK /\ PositionInSector /\ UNCHANGED vars => TypeOK' /\ PositionInSector'
BY DEF TypeOK, RegistersTyped, Core1Typed, TransferTyped, Core0Typed, DisksTyped, HistoryTyped,
   PositionInSector, vars, regs, core1, xfer, core0, disks, ghosts

LEMMA StepPosition ==
  ASSUME TypeOK, PositionInSector, Next
  PROVE  PositionInSector'
  <1> USE Sizes DEF PositionInSector
  <1>1. CASE Core1
    <2>1. UNCHANGED <<state, pos, pc, rmw>>
      <3>1. ASSUME NEW op, NEW flags, NEW target, NEW known, WriteCmd(op, flags, target, known)
            PROVE  UNCHANGED <<state, pos, pc, rmw>>
        BY <3>1 DEF WriteCmd, core0
      <3>2. ASSUME NEW drive, NEW side, NEW ie, WriteCtrl(drive, side, ie)
            PROVE  UNCHANGED <<state, pos, pc, rmw>>
        BY <3>2 DEF WriteCtrl, core0, regs
      <3>3. ReadStatus \/ ReadData \/ WriteData => UNCHANGED <<state, pos, pc, rmw>>
        BY DEF ReadStatus, ReadData, WriteData, core0
      <3> QED BY <1>1, <3>1, <3>2, <3>3 DEF Core1
    <2> QED BY <2>1
  <1>2. CASE DskTask
    <2>1. CASE Idle
      BY <2>1 DEF Idle, NoRmw, regs, core1, xfer, core0, disks, ghosts
    <2>2. CASE TakeCtrl
      BY <2>2 DEF TakeCtrl, NoRmw, regs, core1, xfer, core0, disks, ghosts
    <2>3. CASE TakeCommand
      <3>1. /\ pc # "rd" /\ pc # "wr" /\ pc' = "select" /\ rmw' = rmw
            /\ state' = "WRITE" => pos' = 0
        <4>1. Head(fifo).op \in AllOps
          <5>1. fifo \in Seq(Words) /\ fifo # <<>>
            BY <2>3 DEF TakeCommand, TypeOK, Core1Typed
          <5>2. Head(fifo) \in Words
            BY <5>1
          <5> QED BY <5>2 DEF Words
        <4>2. CASE TypeICommand(Head(fifo))
          BY <2>3, <4>2 DEF TakeCommand, TypeICommand
        <4>3. CASE OtherCommand(Head(fifo))
          <5>1. state' = "WRITE" => Head(fifo).op = "WTRACK"
            BY <4>1, <4>3 DEF OtherCommand, AllOps, TypeI, Reads, Writes, ForceInt
          <5>2. Head(fifo).op = "WTRACK" => pos' = 0
            BY <4>3 DEF OtherCommand, FirstByte
          <5> QED BY <2>3, <5>1, <5>2 DEF TakeCommand
        <4> QED BY <2>3, <4>2, <4>3 DEF TakeCommand
      <3> QED BY <3>1 DEF NoRmw
    <2>4. CASE Select
      BY <2>4 DEF Select, NoRmw, regs, core1, xfer, core0, disks, ghosts
    <2>5. CASE Seek
      BY <2>5 DEF Seek, Update, NoRmw, regs, core1, xfer, core0, disks, ghosts
    <2>6. CASE AwaitDisk
      BY <2>6 DEF AwaitDisk, NoRmw, regs, core1, xfer, core0, disks, ghosts
    <2>7. CASE NotFound
      BY <2>7 DEF NotFound, Update, NoRmw, regs, core1, xfer, core0, disks, ghosts
    <2>8. CASE ReadPrep
      BY <2>8 DEF ReadPrep, Update, FirstByte, NoRmw, regs, core1, xfer, core0, disks, ghosts
    <2>9. CASE ReadAddr
      BY <2>9 DEF ReadAddr, FirstByte, NoRmw, regs, core1, xfer, core0, disks, ghosts
    <2>10. CASE OfferByte
      BY <2>10 DEF OfferByte, Update, More, NoRmw, regs, core1, xfer, core0, disks, ghosts
    <2>11. CASE ReadDone
      BY <2>11 DEF ReadDone, NoRmw, regs, core1, xfer, core0, disks, ghosts
    <2>12. CASE WritePrep
      BY <2>12 DEF WritePrep, Update, FirstByte, NoRmw, regs, core1, xfer, core0, disks, ghosts
    <2>13. CASE AskByte
      BY <2>13 DEF AskByte, Update, NoRmw, regs, core1, xfer, core0, disks, ghosts
    <2>14. CASE WriteDone
      BY <2>14 DEF WriteDone, NoRmw, regs, core1, xfer, core0, disks, ghosts
    <2>15. CASE Wait
      BY <2>15 DEF Wait, NoRmw, regs, core1, xfer, core0, disks, ghosts
    <2>16. CASE TimedOut
      BY <2>16 DEF TimedOut, NoRmw, regs, core1, xfer, core0, disks, ghosts
    <2>17. CASE Finish
      BY <2>17 DEF Finish, Update, NoRmw, regs, core1, xfer, core0, disks, ghosts
    <2>18. CASE ReadStatusReg
      BY <2>18 DEF ReadStatusReg, NoRmw, regs, core1, xfer, core0, disks, ghosts
    <2>19. CASE WriteStatusReg
      BY <2>19 DEF WriteStatusReg, NoRmw, NoRmw, regs, core1, xfer, core0, disks, ghosts
    <2>20. CASE TestIrq
      BY <2>20 DEF TestIrq, NoRmw, regs, core1, xfer, core0, disks, ghosts
    <2>21. CASE RaiseIrq
      BY <2>21 DEF RaiseIrq, NoRmw, regs, core1, xfer, core0, disks, ghosts
    <2> QED BY <1>2, <2>1, <2>2, <2>3, <2>4, <2>5, <2>6, <2>7, <2>8, <2>9, <2>10, <2>11, <2>12, <2>13, <2>14, <2>15, <2>16, <2>17, <2>18, <2>19, <2>20, <2>21 DEF DskTask
  <1>3. CASE MainLoop
    BY <1>3 DEF MainLoop, Mount, Unmount, Pause, Stop, DskInit, regs, core1, xfer, core0, disks, ghosts
  <1> QED BY <1>1, <1>2, <1>3 DEF Next

\* No access and no step of dsk_task() takes a register, the FIFO, the position
\* in the buffer or the head out of range, whatever commands the 6502 issues.
THEOREM TypeCorrect == Spec => []TypeOK
  <1>1. Init => TypeOK /\ PositionInSector
    <2>1. Init => PositionInSector
      BY Sizes DEF Init, PositionInSector, NoRmw
    <2> QED BY <2>1, InitTyped
  <1>2. TypeOK /\ PositionInSector /\ [Next]_vars => TypeOK' /\ PositionInSector'
    BY StepTyped, StepPosition, StutterTyped
  <1> QED BY <1>1, <1>2, PTL DEF Spec

-----------------------------------------------------------------------------
(***************************************************************************)
(* The commands one at a time.  A DOS that waits for BUSY to clear and     *)
(* never forces an interrupt has one command under way: queued, taken, or  *)
(* at the point where BUSY is cleared with its last step.  The LOCI menu   *)
(* may stop the 6502 at any time: what the controller then still carries   *)
(* out, nobody waits for.                                                  *)
(***************************************************************************)
Transitions ==
  {<<"SEEK", "TOGGLE">>, <<"READ_PREP", "TOGGLE">>, <<"READ_PREP", "READ">>, <<"READ", "READ">>,
   <<"WRITE_PREP", "TOGGLE">>, <<"WRITE_PREP", "WRITE">>, <<"WRITE", "WRITE">>,
   <<"READ_ADDR", "TOGGLE">>, <<"TOGGLE", "IDLE">>, <<"CLEANUP", "IDLE">>}

NoForceInt == Ops \cap ForceInt = {}
OneAtATime == DrainsDrq /\ NoForceInt /\ Swaps = "never"

Queued  == {i \in DOMAIN fifo : fifo[i].cmd}
InReset == host.op = "RESET"

Alone ==
  /\ host.op \notin ForceInt
  /\ InReset => paused /\ Swaps # "never"
  /\ \A i \in Queued : /\ state = "IDLE" /\ fifo[i].op \in Ops
                       /\ ~InReset => "BUSY" \in status /\ fifo[i].op = host.op
  /\ \A i, j \in Queued : i = j

Busy ==
  /\ state # "IDLE" => InReset \/ "BUSY" \in status
  /\ pc \in {"select", "rd", "wr", "late"} => state # "IDLE"
  /\ pc \in {"rd", "wr"} =>
       /\ <<state, rmw.next>> \in Transitions
       /\ "BUSY" \in rmw.clr => rmw.next = "IDLE"
  /\ pc = "wr" => InReset \/ "BUSY" \in rmw.old
  /\ state # "IDLE" => command.op \in Ops /\ (InReset \/ command.op = host.op)

OneCommand == Alone /\ Busy

LEMMA NeverReset == OneAtATime /\ Alone => ~InReset
BY DEF OneAtATime, Alone

\* A queue gains a word at its end, or drops it, and loses one at its head.
LEMMA QueuedPush ==
  ASSUME fifo \in Seq(Words), NEW word \in Words, fifo' = Push(word)
  PROVE  /\ word.cmd => \A i \in Queued' : i \in Queued \/ fifo'[i] = word
         /\ word.cmd /\ Queued = {} => \A i, j \in Queued' : i = j
         /\ ~word.cmd => \A i \in Queued' : i \in Queued /\ fifo'[i] = fifo[i]
  <1>1. CASE Len(fifo) < FifoDepth
    <2>1. fifo' = Append(fifo, word)
      BY <1>1 DEF Push
    <2>2. /\ DOMAIN fifo = 1 .. Len(fifo)
          /\ DOMAIN fifo' = 1 .. (Len(fifo) + 1)
          /\ fifo'[Len(fifo) + 1] = word
          /\ \A i \in 1 .. Len(fifo) : fifo'[i] = fifo[i]
          /\ Len(fifo) \in Nat
      BY <2>1
    <2> QED BY <2>2 DEF Queued
  <1>2. CASE ~(Len(fifo) < FifoDepth)
    <2>1. fifo' = fifo
      BY <1>2 DEF Push
    <2> QED BY <2>1 DEF Queued
  <1> QED BY <1>1, <1>2

LEMMA QueuedPop ==
  ASSUME fifo \in Seq(Words), fifo # <<>>, fifo' = Tail(fifo)
  PROVE  /\ \A i \in Queued' : i + 1 \in Queued /\ fifo'[i] = fifo[i + 1] /\ i + 1 # 1
         /\ Head(fifo) = fifo[1]
         /\ Head(fifo).cmd => 1 \in Queued
  <1>1. /\ DOMAIN fifo = 1 .. Len(fifo) /\ Len(fifo) \in Nat \ {0}
        /\ DOMAIN fifo' = 1 .. (Len(fifo) - 1)
        /\ \A i \in 1 .. (Len(fifo) - 1) : fifo'[i] = fifo[i + 1]
    OBVIOUS
  <1> QED BY <1>1 DEF Queued

\* The word that TakeCommand takes is the 6502's last command.
LEMMA Taking ==
  ASSUME TypeOK, Alone, TakeCommand
  PROVE  /\ Head(fifo) \in Words /\ 1 \in Queued /\ Head(fifo) = fifo[1]
         /\ Head(fifo).op \in Ops
         /\ ~InReset => "BUSY" \in status /\ Head(fifo).op = host.op
  <1>1. fifo \in Seq(Words) /\ fifo # <<>> /\ Head(fifo).cmd /\ fifo' = Tail(fifo)
    BY DEF TypeOK, Core1Typed, TakeCommand
  <1>2. 1 \in Queued /\ Head(fifo) = fifo[1]
    BY <1>1, QueuedPop
  <1>3. Head(fifo) \in Words
    BY <1>1
  <1> QED BY <1>2, <1>3 DEF Alone

\* What the 6502 queues: a command when BUSY is clear, or a change of the
\* control register.
LEMMA Queueing ==
  ASSUME NoForceInt, TypeOK, OneCommand, ~paused,
         NEW op \in Ops, NEW flags \in SUBSET Flags, NEW target \in 0 .. MaxTrack,
         NEW known \in BOOLEAN, WriteCmd(op, flags, target, known)
  PROVE  /\ ~InReset /\ op \notin ForceInt /\ state = "IDLE" /\ Queued = {}
         /\ \A i \in Queued' : fifo'[i] = [cmd |-> TRUE, op |-> op, flags |-> flags, sector |-> known,
                        drive |-> ctrl.drive, side |-> ctrl.side, track |-> ioTrack % 128]
         /\ \A i, j \in Queued' : i = j
  <1> DEFINE word == [cmd |-> TRUE, op |-> op, flags |-> flags, sector |-> known,
                      drive |-> ctrl.drive, side |-> ctrl.side, track |-> ioTrack % 128]
  <1>1. op \notin ForceInt /\ "BUSY" \notin status /\ ~InReset
    BY DEF WriteCmd, NoForceInt, OneCommand, Alone
  <1>2. state = "IDLE" /\ Queued = {}
    BY <1>1 DEF OneCommand, Busy, Alone
  <1>3. word \in Words /\ word.cmd
    <2>1. ioTrack % 128 \in Nat
      BY DEF TypeOK, RegistersTyped
    <2>2. op \in AllOps /\ flags \in SUBSET {"UPD", "VERIFY"}
      BY DskAssumption, OpNames
    <2>3. ctrl.drive \in Drives /\ ctrl.side \in Sides
      BY DEF TypeOK, Core1Typed
    <2> QED BY <2>1, <2>2, <2>3 DEF Words
  <1>4. fifo' = Push(word) /\ fifo \in Seq(Words)
    BY DEF WriteCmd, TypeOK, Core1Typed
  <1> HIDE DEF word
  <1>5. /\ \A i \in Queued' : fifo'[i] = word
        /\ \A i, j \in Queued' : i = j
    BY <1>2, <1>3, <1>4, QueuedPush
  <1> QED BY <1>1, <1>2, <1>5 DEF word

LEMMA CtrlQueueing ==
  ASSUME TypeOK, NEW drive \in Drives, NEW side \in Sides, NEW ie \in IrqEnables,
         WriteCtrl(drive, side, ie)
  PROVE  \A i \in Queued' : i \in Queued /\ fifo'[i] = fifo[i]
  <1> DEFINE word == [IdleWord EXCEPT !.drive = drive, !.side = side]
  <1>1. word \in Words /\ ~word.cmd
    BY IdleWordTyped DEF Words, IdleWord
  <1>2. fifo' = Push(word) \/ fifo' = fifo
    BY DEF WriteCtrl
  <1>3. fifo \in Seq(Words)
    BY DEF TypeOK, Core1Typed
  <1> HIDE DEF word
  <1>4. CASE fifo' = Push(word)
    BY <1>1, <1>3, <1>4, QueuedPush
  <1>5. CASE fifo' = fifo
    BY <1>5 DEF Queued
  <1> QED BY <1>2, <1>4, <1>5

\* A step that leaves the queue and the last command alone.
LEMMA AloneKept ==
  ASSUME Alone, fifo' = fifo, host'.op = host.op, InReset => paused',
         state = "IDLE" => state' = "IDLE" /\ ("BUSY" \in status => "BUSY" \in status')
  PROVE  Alone'
  <1>1. Queued' = Queued
    BY DEF Queued
  <1> QED BY <1>1 DEF Alone, InReset

\* The steps of core 0 that carry a command out.
LEMMA Working ==
  ASSUME OneCommand, DskTask
  PROVE  \/ Idle \/ TakeCtrl \/ TakeCommand \/ Select \/ TestIrq \/ RaiseIrq
         \/ state # "IDLE" /\ UNCHANGED <<fifo, host, paused>>
  <1>1. Seek \/ AwaitDisk \/ NotFound \/ ReadPrep \/ ReadAddr \/ OfferByte \/ ReadDone =>
          state # "IDLE" /\ UNCHANGED <<fifo, host, paused>>
    BY DEF Seek, AwaitDisk, NotFound, ReadPrep, ReadAddr, OfferByte, ReadDone, core1, ghosts
  <1>2. WritePrep \/ AskByte \/ WriteDone \/ Wait \/ Finish =>
          state # "IDLE" /\ UNCHANGED <<fifo, host, paused>>
    BY DEF WritePrep, AskByte, WriteDone, Wait, Finish, core1, ghosts
  <1>3. TimedOut \/ ReadStatusReg \/ WriteStatusReg =>
          state # "IDLE" /\ UNCHANGED <<fifo, host, paused>>
    BY DEF TimedOut, ReadStatusReg, WriteStatusReg, core1, ghosts, OneCommand, Busy
  <1> QED BY <1>1, <1>2, <1>3 DEF DskTask

\* What the rest of the main loop does to the queue and the state.
LEMMA MenuSteps ==
  ASSUME MainLoop, Alone
  PROVE  /\ Swaps # "never" /\ pc = "task" /\ pc' = pc /\ fifo' = fifo /\ rmw' = rmw
         /\ \/ UNCHANGED <<state, status, command, host>> /\ (InReset => paused')
            \/ Stop
            \/ DskInit /\ Queued = {}
  <1>1. ASSUME NEW d \in Drives, Unmount(d) \/ \E m \in Media : Mount(d, m)
        PROVE  /\ Swaps # "never" /\ pc = "task" /\ pc' = pc /\ fifo' = fifo /\ rmw' = rmw
               /\ UNCHANGED <<state, status, command, host, paused>> /\ paused
    BY <1>1 DEF Unmount, Mount, MayMount, InMenu, regs, core1, xfer, ghosts
  <1>2. ASSUME NEW on \in BOOLEAN, Pause(on)
        PROVE  /\ Swaps # "never" /\ pc = "task" /\ pc' = pc /\ fifo' = fifo /\ rmw' = rmw
               /\ UNCHANGED <<state, status, command, host>> /\ (InReset => paused')
    <2>1. InReset => on = TRUE
      BY <1>2 DEF Pause, InReset
    <2> QED BY <1>2, <2>1 DEF Pause, regs, core1, xfer, ghosts
  <1>3. CASE Stop
    BY <1>3 DEF Stop, core1
  <1>4. CASE DskInit
    <2>1. fifo = <<>> \/ state # "IDLE"
      BY <1>4 DEF DskInit, InMenu
    <2>2. Queued = {}
      BY <2>1 DEF Alone, Queued
    <2> QED BY <1>4, <2>2 DEF DskInit, InMenu, core1
  <1> QED BY <1>1, <1>2, <1>3, <1>4 DEF MainLoop

LEMMA StepAlone ==
  ASSUME NoForceInt, TypeOK, OneCommand, Next
  PROVE  Alone'
  <1>0. fifo \in Seq(Words) /\ Alone
    BY DEF TypeOK, Core1Typed, OneCommand
  <1>1. ASSUME ~paused, NEW op \in Ops, NEW flags \in SUBSET Flags, NEW target \in 0 .. MaxTrack,
               NEW known \in BOOLEAN, WriteCmd(op, flags, target, known)
        PROVE  Alone'
    <2> DEFINE word == [cmd |-> TRUE, op |-> op, flags |-> flags, sector |-> known,
                        drive |-> ctrl.drive, side |-> ctrl.side, track |-> ioTrack % 128]
    <2>1. /\ op \notin ForceInt /\ state = "IDLE"
          /\ \A i \in Queued' : fifo'[i] = word
          /\ \A i, j \in Queued' : i = j
      BY <1>1, Queueing
    <2>4. word.op = op
      OBVIOUS
    <2> HIDE DEF word
    <2>2. host'.op = op /\ status' = {"BUSY"} /\ state' = state
      BY <1>1 DEF WriteCmd
    <2>3. op # "RESET"
      BY OpNames DEF AllOps, TypeI, Reads, Writes, ForceInt
    <2> QED BY <2>1, <2>2, <2>3, <2>4 DEF Alone, InReset
  <1>2. ASSUME ~paused, NEW drive \in Drives, NEW side \in Sides, NEW ie \in IrqEnables,
               WriteCtrl(drive, side, ie)
        PROVE  Alone'
    <2>1. UNCHANGED <<state, status, host, paused>>
      BY <1>2 DEF WriteCtrl, regs, core0, ghosts
    <2>2. \A i \in Queued' : i \in Queued /\ fifo'[i] = fifo[i]
      BY <1>2, CtrlQueueing
    <2> QED BY <1>0, <2>1, <2>2 DEF Alone, InReset
  <1>3. CASE ~paused /\ (ReadStatus \/ ReadData \/ WriteData)
    <2>1. /\ fifo' = fifo /\ host'.op = host.op /\ state' = state /\ paused' = paused
          /\ "BUSY" \in status => "BUSY" \in status'
      BY <1>3 DEF ReadStatus, ReadData, WriteData, StoreByte, KeepByte, core0, core1, ghosts, TypeOK, HistoryTyped
    <2> QED BY <1>0, <2>1, AloneKept DEF Alone
  <1>4. CASE TakeCtrl
    <2>1. fifo' = Tail(fifo) /\ fifo # <<>> /\ UNCHANGED <<state, status, host, paused>>
      BY <1>4 DEF TakeCtrl, regs, ghosts
    <2>2. \A i \in Queued' : i + 1 \in Queued /\ fifo'[i] = fifo[i + 1] /\ i \in Nat
      <3>1. \A i \in Queued' : i \in Nat
        BY <1>0, <2>1 DEF Queued
      <3> QED BY <1>0, <2>1, <3>1, QueuedPop
    <2>3. \A i \in Queued' : /\ state' = "IDLE" /\ fifo'[i].op \in Ops
                             /\ ~InReset => "BUSY" \in status' /\ fifo'[i].op = host'.op
      BY <1>0, <2>1, <2>2 DEF Alone
    <2>4. \A i, j \in Queued' : i = j
      <3>1. \A i, j \in Queued' : i + 1 = j + 1
        BY <1>0, <2>2 DEF Alone
      <3> QED BY <2>2, <3>1
    <2> QED BY <1>0, <2>1, <2>3, <2>4 DEF Alone, InReset
  <1>5. CASE TakeCommand
    <2>1. fifo' = Tail(fifo) /\ fifo # <<>> /\ Head(fifo).cmd /\ host' = host /\ paused' = paused
      BY <1>5 DEF TakeCommand, ghosts
    <2>2. Queued' = {}
      <3>1. 1 \in Queued /\ \A i \in Queued' : i + 1 \in Queued /\ i + 1 # 1
        BY <1>0, <2>1, QueuedPop
      <3>2. \A i, j \in Queued : i = j
        BY <1>0 DEF Alone
      <3> QED BY <3>1, <3>2
    <2> QED BY <1>0, <2>1, <2>2 DEF Alone, InReset
  <1>6. CASE Idle \/ Select \/ TestIrq \/ RaiseIrq
    <2>1. UNCHANGED <<fifo, host, state, status, paused>>
      BY <1>6 DEF Idle, Select, TestIrq, RaiseIrq, regs, core1, ghosts
    <2> QED BY <1>0, <2>1, AloneKept DEF Alone
  <1>7. CASE state # "IDLE" /\ UNCHANGED <<fifo, host, paused>>
    BY <1>0, <1>7, AloneKept DEF Alone
  <1>8. CASE MainLoop
    <2>1. CASE UNCHANGED <<state, status, command, host>> /\ (InReset => paused')
      BY <1>0, <1>8, <2>1, AloneKept, MenuSteps
    <2>2. CASE Stop
      <3>1. Queued' = Queued /\ fifo' = fifo
        BY <1>0, <1>8, MenuSteps DEF Queued
      <3>2. host'.op = "RESET" /\ paused' /\ state' = "IDLE" /\ Swaps # "never"
        BY <2>2 DEF Stop, NoHost
      <3> QED BY <1>0, <3>1, <3>2 DEF Alone, InReset, ForceInt
    <2>3. CASE DskInit /\ Queued = {}
      <3>1. Queued' = {}
        BY <1>0, <1>8, <2>3, MenuSteps DEF Queued
      <3>2. host'.op = "NONE"
        BY <2>3 DEF DskInit, NoHost
      <3> QED BY <3>1, <3>2 DEF Alone, InReset, ForceInt
    <2> QED BY <1>0, <1>8, <2>1, <2>2, <2>3, MenuSteps
  <1> QED BY <1>1, <1>2, <1>3, <1>4, <1>5, <1>6, <1>7, <1>8, Working DEF Next, Core1

\* A step that leaves the command, and core 0's place in its pass, alone.
LEMMA BusyKept ==
  ASSUME Busy, UNCHANGED <<state, command, rmw>>, pc' = pc \/ pc' \notin {"select", "rd", "wr", "late"},
         host'.op = host.op, "BUSY" \in status => "BUSY" \in status'
  PROVE  Busy'
BY DEF Busy, InReset

\* ... that ends a pass, or leaves it with an update of the status register.
LEMMA BusyPasses ==
  ASSUME Busy, state # "IDLE", state' # "IDLE", UNCHANGED <<command, status, host>>,
         pc' \in {"irq", "late"} \/ /\ pc' = "rd" /\ <<state', rmw'.next>> \in Transitions
                                    /\ "BUSY" \in rmw'.clr => rmw'.next = "IDLE"
  PROVE  Busy'
BY DEF Busy, InReset

LEMMA StepBusy ==
  ASSUME NoForceInt, TypeOK, OneCommand, PositionInSector, Next
  PROVE  Busy'
  <1>0. Busy /\ Alone
    BY DEF OneCommand
  <1>1. ASSUME ~paused, NEW op \in Ops, NEW flags \in SUBSET Flags, NEW target \in 0 .. MaxTrack,
               NEW known \in BOOLEAN, WriteCmd(op, flags, target, known)
        PROVE  Busy'
    <2>1. state = "IDLE"
      BY <1>1, Queueing
    <2> QED BY <1>0, <1>1, <2>1 DEF WriteCmd, Busy, core0
  <1>2. ASSUME NEW drive \in Drives, NEW side \in Sides, NEW ie \in IrqEnables,
               WriteCtrl(drive, side, ie)
        PROVE  Busy'
    BY <1>0, <1>2, BusyKept DEF WriteCtrl, core0, regs, xfer, ghosts
  <1>3. CASE ReadStatus \/ ReadData \/ WriteData
    <2>1. /\ UNCHANGED <<state, pc, rmw, command>> /\ host'.op = host.op
          /\ "BUSY" \in status => "BUSY" \in status'
      BY <1>3 DEF ReadStatus, ReadData, WriteData, StoreByte, KeepByte, core0, xfer, ghosts, TypeOK, HistoryTyped
    <2> QED BY <1>0, <2>1, BusyKept
  <1>4. CASE TakeCommand
    <2>1. pc' = "select" /\ host' = host
      BY <1>4 DEF TakeCommand, ghosts
    <2>2. /\ Head(fifo) \in Words /\ Head(fifo).op \in Ops
          /\ ~InReset => "BUSY" \in status /\ Head(fifo).op = host.op
      BY <1>0, <1>4, Taking
    <2>3. Head(fifo).op \notin ForceInt
      BY <2>2 DEF NoForceInt
    <2>4. InReset \/ "BUSY" \in status'
      BY <1>4, <2>2, <2>3 DEF TakeCommand, TypeICommand, OtherCommand
    <2>5. state' # "IDLE"
      <3>1. CASE TypeICommand(Head(fifo))
        BY <3>1 DEF TypeICommand
      <3>2. CASE OtherCommand(Head(fifo))
        <4>1. Head(fifo).op \in Reads \cup Writes \cup ForceInt
          BY <2>2, <3>2 DEF Words, AllOps, OtherCommand
        <4> QED BY <3>2, <4>1 DEF OtherCommand, Reads, Writes, ForceInt
      <3> QED BY <1>4, <3>1, <3>2 DEF TakeCommand
    <2>6. command'.op = Head(fifo).op
      BY <1>4, <2>2 DEF TakeCommand, TypeICommand, OtherCommand, Words
    <2> QED BY <2>1, <2>2, <2>4, <2>5, <2>6 DEF Busy, InReset
  <1>5. CASE WriteStatusReg
    <2>1. /\ InReset \/ "BUSY" \in rmw.old
          /\ "BUSY" \in rmw.clr => rmw.next = "IDLE"
          /\ state # "IDLE"
      BY <1>0, <1>5 DEF WriteStatusReg, Busy
    <2> QED BY <1>0, <1>5, <2>1 DEF WriteStatusReg, Busy, InReset, xfer, ghosts
  <1>6. CASE ReadStatusReg
    BY <1>0, <1>6 DEF ReadStatusReg, Busy, InReset, regs, xfer, ghosts
  <1>7. CASE Seek
    BY <1>0, <1>7, BusyPasses DEF Seek, Update, Transitions, xfer, ghosts
  <1>8. CASE NotFound
    <2>1. /\ state \in {"READ_PREP", "WRITE_PREP", "READ_ADDR"}
          /\ UNCHANGED <<state, status, command, host>> /\ pc' = "rd"
          /\ rmw'.clr = {} /\ rmw'.next = "TOGGLE"
      BY <1>8 DEF NotFound, Update, regs, xfer, ghosts
    <2>2. <<state, "TOGGLE">> \in Transitions
      BY <2>1 DEF Transitions
    <2> QED BY <1>0, <2>1, <2>2, BusyPasses
  <1>9. CASE ReadPrep
    BY <1>0, <1>9, BusyPasses DEF ReadPrep, Update, Transitions, ghosts
  <1>10. CASE OfferByte
    BY <1>0, <1>10, BusyPasses DEF OfferByte, Update, Transitions, xfer, ghosts
  <1>11. CASE WritePrep
    BY <1>0, <1>11, BusyPasses DEF WritePrep, Update, Transitions, ghosts
  <1>12. CASE AskByte
    BY <1>0, <1>12, BusyPasses DEF AskByte, Update, Transitions, xfer, ghosts
  <1>13. CASE Finish
    <2>1. /\ state \in {"TOGGLE", "CLEANUP"}
          /\ UNCHANGED <<state, status, command, host>> /\ pc' = "rd"
          /\ rmw'.next = "IDLE"
      BY <1>13 DEF Finish, Update, regs, xfer, ghosts
    <2>2. <<state, "IDLE">> \in Transitions
      BY <2>1 DEF Transitions
    <2> QED BY <1>0, <2>1, <2>2, BusyPasses
  <1>14. CASE AwaitDisk
    <2>1. state # "IDLE" /\ UNCHANGED <<state, status, command, host>> /\ pc' = "irq"
      BY <1>14 DEF AwaitDisk, regs, xfer, ghosts
    <2> QED BY <1>0, <2>1, BusyPasses
  <1>15. CASE ReadAddr \/ ReadDone \/ WriteDone \/ TimedOut
    <2>1. /\ state # "IDLE" /\ state' \in {"READ", "TOGGLE"} /\ UNCHANGED <<status, command, host>>
          /\ pc' = "irq"
      BY <1>0, <1>15 DEF ReadAddr, ReadDone, WriteDone, TimedOut, Busy, xfer, ghosts
    <2> QED BY <1>0, <2>1, BusyPasses
  <1>16. CASE Wait
    <2>1. /\ state \in {"READ", "WRITE"} /\ (state' = state \/ state' = "TOGGLE")
          /\ UNCHANGED <<status, command, host>> /\ pc' \in {"irq", "late"}
      BY <1>16 DEF Wait, ghosts
    <2>2. state # "IDLE" /\ state' # "IDLE"
      BY <2>1
    <2> QED BY <1>0, <2>1, <2>2, BusyPasses
  <1>17. CASE Idle \/ TakeCtrl \/ Select \/ TestIrq \/ RaiseIrq
    <2>1. UNCHANGED <<state, status, command, host, rmw>> /\ pc' \in {"irq", "task", "pulse"}
      BY <1>17 DEF Idle, TakeCtrl, Select, TestIrq, RaiseIrq, regs, xfer, ghosts
    <2> QED BY <1>0, <2>1, BusyKept
  <1>18. CASE MainLoop
    <2>1. CASE UNCHANGED <<state, status, command, host>>
      BY <1>0, <1>18, <2>1, MenuSteps, BusyKept
    <2>2. CASE Stop
      BY <2>2 DEF Stop, Busy
    <2>3. CASE DskInit
      BY <2>3 DEF DskInit, InMenu, Busy
    <2> QED BY <1>0, <1>18, <2>1, <2>2, <2>3, MenuSteps
  <1> QED BY <1>1, <1>2, <1>3, <1>4, <1>5, <1>6, <1>7, <1>8, <1>9, <1>10, <1>11, <1>12, <1>13, <1>14, <1>15, <1>16, <1>17, <1>18 DEF Next, Core1, DskTask

LEMMA OneCommandInit == Init => OneCommand
  <1>1. Init => Queued = {} /\ host.op = "NONE" /\ state = "IDLE" /\ pc = "task"
    BY DEF Init, NoHost, Queued
  <1> QED BY <1>1 DEF OneCommand, Alone, Busy, InReset, ForceInt

LEMMA OneCommandStutter == OneCommand /\ UNCHANGED vars => OneCommand'
BY DEF OneCommand, Alone, Busy, InReset, Queued, vars, regs, core1, core0, xfer, ghosts

-----------------------------------------------------------------------------
(***************************************************************************)
(* A command that has been taken stays on the drive and side it selected,  *)
(* unless the 6502 was reset meanwhile.                                    *)
(***************************************************************************)
OnItsDrive ==
  state # "IDLE" /\ pc # "select" =>
    InReset \/ (active.drive = command.drive /\ active.side = command.side)

LEMMA StepOnItsDrive ==
  ASSUME NoForceInt, TypeOK, OneCommand, OnItsDrive, Next
  PROVE  OnItsDrive'
  <1>0. active \in [drive : Drives, side : Sides, track : TrackNrs] /\ Alone
    BY DEF TypeOK, Core0Typed, OneCommand
  <1>1. CASE ~paused /\ Core1
    <2>1. UNCHANGED <<state, pc, active, command>>
      <3>1. ASSUME NEW op, NEW flags, NEW target, NEW known, WriteCmd(op, flags, target, known)
            PROVE  UNCHANGED <<state, pc, active, command>>
        BY <3>1 DEF WriteCmd, core0, xfer
      <3>2. ASSUME NEW drive, NEW side, NEW ie, WriteCtrl(drive, side, ie)
            PROVE  UNCHANGED <<state, pc, active, command>>
        BY <3>2 DEF WriteCtrl, core0, regs, xfer
      <3>3. ReadStatus \/ ReadData \/ WriteData => UNCHANGED <<state, pc, active, command>>
        BY DEF ReadStatus, ReadData, WriteData, core0, xfer
      <3> QED BY <1>1, <3>1, <3>2, <3>3 DEF Core1
    <2> QED BY <1>0, <1>1, <2>1 DEF OnItsDrive, Alone
  <1>2. CASE TakeCommand
    BY <1>2 DEF TakeCommand, OnItsDrive
  <1>3. CASE Select
    <2>1. (InReset \/ "BUSY" \in status) /\ command' = command /\ host' = host
      BY <1>3 DEF Select, OneCommand, Busy, xfer, ghosts
    <2>2. "BUSY" \in status => active' = [active EXCEPT !.drive = command.drive, !.side = command.side]
      BY <1>3 DEF Select, Selected
    <2>3. "BUSY" \in status => active'.drive = command.drive /\ active'.side = command.side
      BY <1>0, <2>2
    <2> QED BY <2>1, <2>3 DEF OnItsDrive, InReset
  <1>4. CASE Seek
    <2>1. /\ active'.drive = active.drive /\ active'.side = active.side
          /\ command' = command /\ state' = state /\ host' = host
      BY <1>0, <1>4 DEF Seek, xfer, ghosts
    <2> QED BY <1>4, <2>1 DEF OnItsDrive, Seek, InReset
  <1>5. CASE Idle \/ TakeCtrl \/ AwaitDisk \/ NotFound \/ ReadPrep \/ ReadAddr \/ OfferByte \/ ReadDone
    <2>1. UNCHANGED <<active, command, host>> /\ (state = "IDLE" => state' = "IDLE") /\ pc # "select"
      BY <1>5 DEF Idle, TakeCtrl, AwaitDisk, NotFound, ReadPrep, ReadAddr, OfferByte, ReadDone, regs, xfer, ghosts, OneCommand, Busy
    <2> QED BY <2>1 DEF OnItsDrive, InReset
  <1>6. CASE WritePrep \/ AskByte \/ WriteDone \/ Wait \/ TimedOut \/ Finish \/ ReadStatusReg \/ TestIrq \/ RaiseIrq
    <2>1. UNCHANGED <<active, command, host>> /\ (state = "IDLE" => state' = "IDLE") /\ pc # "select"
      BY <1>6 DEF WritePrep, AskByte, WriteDone, Wait, TimedOut, Finish, ReadStatusReg, TestIrq, RaiseIrq, regs, xfer, ghosts, OneCommand, Busy
    <2> QED BY <2>1 DEF OnItsDrive, InReset
  <1>7. CASE WriteStatusReg
    <2>1. UNCHANGED <<active, command, host>> /\ state # "IDLE" /\ pc # "select"
      BY <1>7 DEF WriteStatusReg, xfer, ghosts, OneCommand, Busy
    <2> QED BY <2>1 DEF OnItsDrive, InReset
  <1>8. CASE MainLoop
    <2>1. CASE Stop \/ DskInit
      BY <2>1 DEF Stop, DskInit, OnItsDrive
    <2>2. ASSUME NEW d \in Drives, NEW on \in BOOLEAN,
                 Unmount(d) \/ Pause(on) \/ \E m \in Media : Mount(d, m)
          PROVE  OnItsDrive'
      BY <2>2 DEF Unmount, Pause, Mount, OnItsDrive, InReset, regs, xfer, ghosts
    <2> QED BY <1>8, <2>1, <2>2, Units DEF MainLoop
  <1> QED BY <1>1, <1>2, <1>3, <1>4, <1>5, <1>6, <1>7, <1>8 DEF Next, DskTask

-----------------------------------------------------------------------------
(***************************************************************************)
(* The bytes of a read, from the command to the last byte.                 *)
(***************************************************************************)
Offered == pos = host.n + 1 /\ data = [n |-> host.n, content |-> buf] /\ pc # "select"
Taken   == pos = host.n

\* a queued command finds no byte moved and no data request
QueueQuiet == \A i \in Queued : host.n = 0 /\ ~drq

Reading ==
  /\ state \in {"READ_PREP", "READ_ADDR"} => host.op \in Reads /\ host.n = 0 /\ ~drq
  /\ state = "READ" => host.op \in Reads /\ (drq => Offered) /\ (~drq => Taken)
  /\ pc \in {"rd", "wr"} /\ state = "READ_PREP" /\ rmw.next = "READ" => pos = 0
  /\ state \in {"WRITE_PREP", "WRITE"} => host.op \in Writes

LEMMA StepQueueQuiet ==
  ASSUME OneAtATime, TypeOK, OneCommand, QueueQuiet, Next, Alone'
  PROVE  QueueQuiet'
  <1>0. fifo \in Seq(Words)
    BY DEF TypeOK, Core1Typed
  <1>1. ASSUME NEW op \in Ops, NEW flags \in SUBSET Flags, NEW target \in 0 .. MaxTrack,
               NEW known \in BOOLEAN, WriteCmd(op, flags, target, known)
        PROVE  QueueQuiet'
    <2>1. host'.n = 0
      BY <1>1 DEF WriteCmd
    <2>2. ~drq'
      <3>1. op \notin ForceInt /\ DrainsDrq /\ drq' = drq
        BY <1>1 DEF OneAtATime, NoForceInt, WriteCmd
      <3> QED BY <1>1, <3>1 DEF WriteCmd
    <2> QED BY <2>1, <2>2 DEF QueueQuiet
  <1>2. ASSUME NEW drive \in Drives, NEW side \in Sides, NEW ie \in IrqEnables,
               WriteCtrl(drive, side, ie)
        PROVE  QueueQuiet'
    <2> DEFINE word == [IdleWord EXCEPT !.drive = drive, !.side = side]
    <2>1. word \in Words /\ ~word.cmd
      BY IdleWordTyped DEF Words, IdleWord
    <2>2. fifo' = Push(word) \/ fifo' = fifo
      BY <1>2 DEF WriteCtrl
    <2>3. UNCHANGED <<drq, host>>
      BY <1>2 DEF WriteCtrl, regs, ghosts
    <2> HIDE DEF word
    <2>4. \A i \in Queued' : i \in Queued
      <3>1. CASE fifo' = Push(word)
        BY <1>0, <2>1, <3>1, QueuedPush
      <3>2. CASE fifo' = fifo
        BY <3>2 DEF Queued
      <3> QED BY <2>2, <3>1, <3>2
    <2> QED BY <2>3, <2>4 DEF QueueQuiet
  <1>3. CASE fifo' = fifo /\ (UNCHANGED <<drq, host>> \/ Queued = {})
    <2>1. Queued' = Queued
      BY <1>3 DEF Queued
    <2> QED BY <1>3, <2>1 DEF QueueQuiet
  <1>4. CASE fifo # <<>> /\ fifo' = Tail(fifo) /\ UNCHANGED <<drq, host>>
    <2>1. \A i \in Queued' : i + 1 \in Queued
      BY <1>0, <1>4, QueuedPop
    <2> QED BY <1>4, <2>1 DEF QueueQuiet
  <1>5. CASE TakeCommand
    <2>1. Queued' = {}
      <3>1. state' # "IDLE"
        <4>1. fifo \in Seq(Words) /\ fifo # <<>>
          BY <1>0, <1>5 DEF TakeCommand
        <4>2. Head(fifo) \in Words
          BY <4>1
        <4>3. CASE TypeICommand(Head(fifo))
          BY <4>3 DEF TypeICommand
        <4>4. CASE OtherCommand(Head(fifo))
          <5>1. Head(fifo).op \in Reads \cup Writes \cup ForceInt
            BY <4>2, <4>4 DEF Words, AllOps, OtherCommand
          <5> QED BY <4>4, <5>1 DEF OtherCommand, Reads, Writes, ForceInt
        <4> QED BY <1>5, <4>3, <4>4 DEF TakeCommand
      <3> QED BY <3>1 DEF Alone
    <2> QED BY <2>1 DEF QueueQuiet
  <1>6. CASE ReadStatus \/ ReadData \/ WriteData
    <2>1. fifo' = fifo
      BY <1>6 DEF ReadStatus, ReadData, WriteData, core1
    <2>2. CASE ReadStatus
      BY <1>3, <2>1, <2>2 DEF ReadStatus, ghosts
    <2>3. CASE drq
      BY <1>3, <2>1, <2>3 DEF QueueQuiet
    <2> QED BY <1>6, <2>2, <2>3 DEF ReadData, WriteData
  <1>7. CASE TakeCtrl
    BY <1>4, <1>7 DEF TakeCtrl, regs, ghosts
  <1>8. CASE Idle \/ Select \/ TestIrq \/ RaiseIrq
    BY <1>3, <1>8 DEF Idle, Select, TestIrq, RaiseIrq, regs, core1, ghosts
  <1>9. CASE state # "IDLE" /\ fifo' = fifo
    BY <1>3, <1>9 DEF OneCommand, Alone
  <1>10. DskTask => \/ Idle \/ TakeCtrl \/ TakeCommand \/ Select \/ TestIrq \/ RaiseIrq
                    \/ state # "IDLE" /\ fifo' = fifo
    <2>1. Seek \/ AwaitDisk \/ NotFound \/ ReadPrep \/ ReadAddr \/ OfferByte \/ ReadDone =>
            state # "IDLE" /\ fifo' = fifo
      BY DEF Seek, AwaitDisk, NotFound, ReadPrep, ReadAddr, OfferByte, ReadDone, core1
    <2>2. WritePrep \/ AskByte \/ WriteDone \/ Wait \/ Finish => state # "IDLE" /\ fifo' = fifo
      BY DEF WritePrep, AskByte, WriteDone, Wait, Finish, core1
    <2>3. TimedOut \/ ReadStatusReg \/ WriteStatusReg => state # "IDLE" /\ fifo' = fifo
      BY DEF TimedOut, ReadStatusReg, WriteStatusReg, core1, OneCommand, Busy
    <2> QED BY <2>1, <2>2, <2>3 DEF DskTask
  <1>11. CASE MainLoop
    BY <1>11 DEF MainLoop, Mount, Unmount, Pause, Stop, DskInit, OneAtATime
  <1> QED BY <1>1, <1>2, <1>5, <1>6, <1>7, <1>8, <1>9, <1>10, <1>11 DEF Next, Core1

LEMMA StepReading ==
  ASSUME OneAtATime, TypeOK, OneCommand, QueueQuiet, Reading, Next
  PROVE  Reading'
  <1>0. /\ host.n \in Nat /\ pos \in Nat /\ drq \in BOOLEAN
        /\ fifo \in Seq(Words)
    BY Sizes DEF TypeOK, RegistersTyped, HistoryTyped, Core1Typed
  <1>1. ASSUME NEW op \in Ops, NEW flags \in SUBSET Flags, NEW target \in 0 .. MaxTrack,
               NEW known \in BOOLEAN, WriteCmd(op, flags, target, known)
        PROVE  Reading'
    <2>1. "BUSY" \notin status
      BY <1>1 DEF WriteCmd, OneAtATime, NoForceInt
    <2>2. state = "IDLE" /\ state' = state
      BY <1>1, <2>1, NeverReset DEF WriteCmd, OneCommand, Busy
    <2> QED BY <2>2 DEF Reading
  <1>2. ASSUME NEW drive \in Drives, NEW side \in Sides, NEW ie \in IrqEnables,
               WriteCtrl(drive, side, ie)
        PROVE  Reading'
    BY <1>2 DEF WriteCtrl, Reading, Offered, Taken, regs, core0, ghosts
  <1>3. CASE ReadStatus
    BY <1>3 DEF ReadStatus, Reading, Offered, Taken, core0, ghosts
  <1>4. CASE ReadData
    <2>1. /\ drq /\ ~drq' /\ host'.op = host.op /\ host'.n = host.n + 1
          /\ UNCHANGED <<state, pos, pc, rmw>>
      BY <1>4 DEF ReadData, core0, TypeOK, HistoryTyped
    <2>2. state = "READ" => pos' = host'.n
      BY <1>0, <2>1 DEF Reading, Offered
    <2> QED BY <2>1, <2>2 DEF Reading, Taken
  <1>5. CASE WriteData
    <2>1. host.op \in Writes /\ host'.op = host.op /\ UNCHANGED <<state, pc, rmw>>
      BY <1>5 DEF WriteData, core0, TypeOK, HistoryTyped
    <2>2. state \notin {"READ", "READ_PREP", "READ_ADDR"}
      BY <2>1 DEF Reading, Reads, Writes
    <2> QED BY <2>1, <2>2 DEF Reading
  <1>6. CASE TakeCommand
    <2>1. fifo # <<>> /\ Head(fifo).cmd /\ fifo' = Tail(fifo) /\ pc' = "select" /\ host' = host
      BY <1>6 DEF TakeCommand, ghosts
    <2>2. 1 \in Queued /\ Head(fifo) = fifo[1]
      BY <1>0, <2>1, QueuedPop
    <2>3. Head(fifo).op = host.op /\ host.n = 0 /\ ~drq
      BY <2>2, NeverReset DEF QueueQuiet, OneCommand, Alone
    <2>4. CASE TypeICommand(Head(fifo))
      BY <2>4 DEF TypeICommand, Reading
    <2>5. CASE OtherCommand(Head(fifo))
      <3>1. Head(fifo) \in Words
        BY <1>0, <2>1
      <3>2. host.op \in {"RSEC", "WSEC", "RADDR", "RTRACK", "WTRACK"}
        <4>1. host.op \in AllOps /\ host.op \notin TypeI /\ host.op \notin ForceInt
          BY <2>3, <2>5, <3>1 DEF Words, OtherCommand, OneCommand, Alone
        <4> QED BY <4>1 DEF AllOps, Reads, Writes
      <3>3. /\ state' \in {"READ_PREP", "READ_ADDR", "READ"} => host.op \in Reads
            /\ state' \in {"WRITE_PREP", "WRITE"} => host.op \in Writes
        BY <2>3, <2>5, <3>2 DEF OtherCommand, Reads, Writes
      <3>4. host.op # "WTRACK" => ~drq'
        BY <2>3, <2>5 DEF OtherCommand
      <3>5. state' = "READ" => pos' = 0
        BY <2>3, <2>5, <3>2 DEF OtherCommand, FirstByte
      <3> QED BY <2>1, <2>3, <3>3, <3>4, <3>5 DEF Reading, Taken, Reads
    <2> QED BY <1>6, <2>4, <2>5 DEF TakeCommand
  <1>7. CASE Select
    <2>1. /\ pc = "select" /\ pc' = "irq" /\ UNCHANGED <<state, drq, pos, host>>
      BY <1>7 DEF Select, ghosts
    <2>2. state = "READ" => ~drq
      BY <2>1 DEF Reading, Offered
    <2> QED BY <2>1, <2>2 DEF Reading, Taken
  <1>8. CASE ReadPrep
    <2>1. /\ state = "READ_PREP" /\ state' = state /\ ~drq' /\ host' = host /\ pos' = 0
      BY <1>8 DEF ReadPrep, FirstByte, ghosts
    <2> QED BY <2>1 DEF Reading
  <1>9. CASE ReadAddr
    <2>1. /\ state = "READ_ADDR" /\ state' = "READ" /\ drq' = drq /\ host' = host /\ pos' = 0
      BY <1>9 DEF ReadAddr, FirstByte, ghosts
    <2> QED BY <2>1 DEF Reading, Taken
  <1>10. CASE OfferByte
    <2>1. /\ state = "READ" /\ state' = state /\ ~drq /\ host' = host /\ pc' = "rd" /\ buf' = buf
          /\ data' = [n |-> pos, content |-> buf] /\ pos' = pos + 1
      BY <1>10 DEF OfferByte, Update, Served, ghosts
    <2>2. pos = host.n /\ host.op \in Reads
      BY <2>1 DEF Reading, Taken
    <2>3. Offered'
      BY <2>1, <2>2 DEF Offered
    <2>4. drq'
      BY <1>10 DEF OfferByte
    <2> QED BY <2>1, <2>2, <2>3, <2>4 DEF Reading
  <1>11. CASE ReadStatusReg
    <2>1. /\ pc = "rd" /\ pc' = "wr" /\ rmw'.next = rmw.next
          /\ UNCHANGED <<state, drq, pos, host, data, buf>>
      BY <1>11 DEF ReadStatusReg, regs, ghosts, TypeOK, Core0Typed, Updates
    <2> QED BY <2>1 DEF Reading, Offered, Taken
  <1>12. CASE WriteStatusReg
    <2>1. /\ pc = "wr" /\ pc' = "irq" /\ state' = rmw.next
          /\ UNCHANGED <<drq, pos, host, data, buf>>
      BY <1>12 DEF WriteStatusReg, ghosts
    <2>2. <<state, rmw.next>> \in Transitions
      BY <2>1 DEF OneCommand, Busy
    <2>3. /\ state' \notin {"READ_PREP", "READ_ADDR", "WRITE_PREP"}
          /\ state' = "READ" => state \in {"READ", "READ_PREP"}
          /\ state' = "WRITE" => state \in {"WRITE", "WRITE_PREP"}
      BY <2>1, <2>2 DEF Transitions
    <2>4. CASE state' = "READ" /\ state = "READ_PREP"
      BY <2>1, <2>4 DEF Reading, Taken
    <2>5. CASE state' = "READ" /\ state = "READ"
      BY <2>1, <2>5 DEF Reading, Offered, Taken
    <2>6. CASE state' # "READ"
      BY <2>1, <2>3, <2>6 DEF Reading
    <2> QED BY <2>3, <2>4, <2>5, <2>6
  <1>13. CASE Seek \/ NotFound
    <2>1. /\ state \in {"SEEK", "READ_PREP", "WRITE_PREP", "READ_ADDR"} /\ state' = state
          /\ UNCHANGED <<drq, pos, host>> /\ rmw'.next = "TOGGLE"
      BY <1>13 DEF Seek, NotFound, Update, regs, ghosts
    <2> QED BY <2>1 DEF Reading
  <1>14. CASE Idle \/ TakeCtrl \/ AwaitDisk \/ TestIrq \/ RaiseIrq
    <2>1. UNCHANGED <<state, drq, pos, host, data, buf>> /\ pc' \in {"irq", "task", "pulse"}
      BY <1>14 DEF Idle, TakeCtrl, AwaitDisk, TestIrq, RaiseIrq, regs, ghosts
    <2> QED BY <2>1 DEF Reading, Offered, Taken
  <1>15. CASE WritePrep \/ AskByte
    <2>1. state \in {"WRITE_PREP", "WRITE"} /\ state' = state /\ host' = host
      BY <1>15 DEF WritePrep, AskByte, ghosts
    <2> QED BY <2>1 DEF Reading
  <1>16. CASE Wait
    <2>1. /\ state' \in {state, "TOGGLE"} /\ pc' \in {"irq", "late"} /\ state \in {"READ", "WRITE"}
          /\ UNCHANGED <<drq, pos, host, data, buf>>
      BY <1>16 DEF Wait, ghosts
    <2> QED BY <2>1 DEF Reading, Offered, Taken
  <1>17. CASE ReadDone \/ WriteDone \/ TimedOut \/ Finish
    <2>1. state' \in {"TOGGLE", "CLEANUP"}
      BY <1>17 DEF ReadDone, WriteDone, TimedOut, Finish, regs
    <2> QED BY <2>1 DEF Reading
  <1>18. CASE MainLoop
    BY <1>18 DEF MainLoop, Mount, Unmount, Pause, Stop, DskInit, OneAtATime
  <1> QED BY <1>1, <1>2, <1>3, <1>4, <1>5, <1>6, <1>7, <1>8, <1>9, <1>10, <1>11, <1>12, <1>13,
             <1>14, <1>15, <1>16, <1>17, <1>18 DEF Next, Core1, DskTask

-----------------------------------------------------------------------------
(***************************************************************************)
(* The bytes of a write, when core 0 is prompt: it is never held between   *)
(* two register accesses of a pass for as long as a 6502 data access.      *)
(***************************************************************************)
Writing ==
  /\ pc # "late"
  /\ state = "WRITE_PREP" => host.n = 0
  /\ state = "WRITE_PREP" /\ pc \notin {"rd", "wr"} => ~drq
  /\ state = "WRITE_PREP" /\ pc \in {"rd", "wr"} /\ rmw.next = "WRITE" => pos = 0 /\ drq
  /\ state = "WRITE" => (drq => host.n = pos) /\ (~drq => host.n = pos + 1)
  /\ state = "WRITE" /\ pc \in {"rd", "wr"} => drq

LEMMA StepWriting ==
  ASSUME OneAtATime, ~SlowCore0, TypeOK, OneCommand, QueueQuiet, Reading, Writing, Next
  PROVE  Writing'
  <1>0. /\ host.n \in Nat /\ pos \in Nat /\ drq \in BOOLEAN
        /\ fifo \in Seq(Words)
    BY Sizes DEF TypeOK, RegistersTyped, HistoryTyped, Core1Typed
  <1>1. ASSUME NEW op \in Ops, NEW flags \in SUBSET Flags, NEW target \in 0 .. MaxTrack,
               NEW known \in BOOLEAN, WriteCmd(op, flags, target, known)
        PROVE  Writing'
    <2>1. "BUSY" \notin status
      BY <1>1 DEF WriteCmd, OneAtATime, NoForceInt
    <2>2. state = "IDLE" /\ state' = state /\ pc' = pc
      BY <1>1, <2>1, NeverReset DEF WriteCmd, OneCommand, Busy, core0
    <2> QED BY <2>2 DEF Writing
  <1>2. ASSUME NEW drive \in Drives, NEW side \in Sides, NEW ie \in IrqEnables,
               WriteCtrl(drive, side, ie)
        PROVE  Writing'
    BY <1>2 DEF WriteCtrl, Writing, regs, core0, ghosts
  <1>3. CASE ReadStatus
    BY <1>3 DEF ReadStatus, Writing, core0, ghosts
  <1>4. CASE ReadData
    <2>1. host.op \in Reads /\ UNCHANGED <<state, pc>>
      BY <1>4 DEF ReadData, core0
    <2>2. state \notin {"WRITE", "WRITE_PREP"}
      BY <2>1 DEF Reading, Reads, Writes
    <2> QED BY <2>1, <2>2 DEF Writing
  <1>5. CASE WriteData
    <2>1. /\ drq /\ host'.n = host.n + 1 /\ UNCHANGED <<state, pc, pos, rmw>>
          /\ pc \notin {"rd", "wr", "late"}
      BY <1>5 DEF WriteData, DataAccess, core0, TypeOK, HistoryTyped
    <2>2. state # "WRITE_PREP"
      BY <2>1 DEF Writing
    <2>3. state = "WRITE" => ~drq'
      BY <1>5 DEF WriteData, StoreByte, KeepByte
    <2>4. state = "WRITE" => host'.n = pos' + 1
      BY <2>1 DEF Writing
    <2> QED BY <2>1, <2>2, <2>3, <2>4 DEF Writing
  <1>6. CASE TakeCommand
    <2>1. fifo # <<>> /\ Head(fifo).cmd /\ fifo' = Tail(fifo) /\ pc' = "select" /\ host' = host
      BY <1>6 DEF TakeCommand, ghosts
    <2>2. 1 \in Queued /\ Head(fifo) = fifo[1]
      BY <1>0, <2>1, QueuedPop
    <2>3. Head(fifo).op = host.op /\ host.n = 0 /\ ~drq
      BY <2>2, NeverReset DEF QueueQuiet, OneCommand, Alone
    <2>4. CASE TypeICommand(Head(fifo))
      BY <2>1, <2>4 DEF TypeICommand, Writing
    <2>5. CASE OtherCommand(Head(fifo))
      <3>1. Head(fifo) \in Words
        BY <1>0, <2>1
      <3>2. host.op \in {"RSEC", "WSEC", "RADDR", "RTRACK", "WTRACK"}
        <4>1. host.op \in AllOps /\ host.op \notin TypeI /\ host.op \notin ForceInt
          BY <2>3, <2>5, <3>1 DEF Words, OtherCommand, OneCommand, Alone
        <4> QED BY <4>1 DEF AllOps, Reads, Writes
      <3>3. /\ state' = "WRITE_PREP" => host.op = "WSEC"
            /\ state' = "WRITE" => host.op = "WTRACK"
        BY <2>3, <2>5, <3>2 DEF OtherCommand
      <3>4. host.op = "WSEC" => ~drq'
        BY <2>3, <2>5 DEF OtherCommand
      <3>5. host.op = "WTRACK" => drq'
        BY <2>3, <2>5 DEF OtherCommand
      <3>6. host.op = "WTRACK" => pos' = 0
        BY <2>3, <2>5 DEF OtherCommand, FirstByte
      <3> QED BY <2>1, <2>3, <3>3, <3>4, <3>5, <3>6 DEF Writing
    <2> QED BY <1>6, <2>4, <2>5 DEF TakeCommand
  <1>7. CASE WritePrep
    <2>1. state = "WRITE_PREP" /\ state' = state /\ host' = host /\ pos' = 0 /\ pc' = "rd"
      BY <1>7 DEF WritePrep, Update, FirstByte, ghosts
    <2>2. drq'
      BY <1>7 DEF WritePrep
    <2> QED BY <2>1, <2>2 DEF Writing
  <1>8. CASE AskByte
    <2>1. state = "WRITE" /\ state' = state /\ ~drq /\ host' = host /\ pos' = pos + 1 /\ pc' = "rd"
      BY <1>8 DEF AskByte, Update, Served, ghosts
    <2>2. drq'
      BY <1>8 DEF AskByte
    <2> QED BY <2>1, <2>2 DEF Writing
  <1>9. CASE ReadStatusReg
    <2>1. /\ pc = "rd" /\ pc' = "wr" /\ rmw'.next = rmw.next
          /\ UNCHANGED <<state, drq, pos, host>>
      BY <1>9 DEF ReadStatusReg, regs, ghosts, TypeOK, Core0Typed, Updates
    <2> QED BY <2>1 DEF Writing
  <1>10. CASE WriteStatusReg
    <2>1. /\ pc = "wr" /\ pc' = "irq" /\ state' = rmw.next /\ UNCHANGED <<drq, pos, host>>
      BY <1>10 DEF WriteStatusReg, ghosts
    <2>2. <<state, rmw.next>> \in Transitions
      BY <2>1 DEF OneCommand, Busy
    <2>3. /\ state' # "WRITE_PREP"
          /\ state' = "WRITE" => state \in {"WRITE", "WRITE_PREP"}
      BY <2>1, <2>2 DEF Transitions
    <2>4. CASE state' = "WRITE" /\ state = "WRITE_PREP"
      BY <2>1, <2>4 DEF Writing
    <2>5. CASE state' = "WRITE" /\ state = "WRITE"
      BY <2>1, <2>5 DEF Writing
    <2>6. CASE state' # "WRITE"
      BY <2>1, <2>3, <2>6 DEF Writing
    <2> QED BY <2>3, <2>4, <2>5, <2>6
  <1>11. CASE NotFound
    <2>1. /\ state' = state /\ state # "WRITE" /\ pc = "task" /\ pc' = "rd"
          /\ UNCHANGED <<drq, pos, host>> /\ rmw'.next = "TOGGLE"
      BY <1>11 DEF NotFound, Update, regs, ghosts
    <2> QED BY <2>1 DEF Writing
  <1>12. CASE Seek \/ ReadPrep \/ OfferByte \/ ReadAddr
    <2>1. state' \in {"SEEK", "READ_PREP", "READ"} /\ pc' \in {"rd", "irq"}
      BY <1>12 DEF Seek, ReadPrep, OfferByte, ReadAddr, Update
    <2> QED BY <2>1 DEF Writing
  <1>13. CASE Idle \/ TakeCtrl \/ Select \/ AwaitDisk \/ TestIrq \/ RaiseIrq
    <2>1. /\ UNCHANGED <<state, drq, pos, host>> /\ pc' \in {"irq", "task", "pulse"}
          /\ pc \notin {"rd", "wr"}
      BY <1>13 DEF Idle, TakeCtrl, Select, AwaitDisk, TestIrq, RaiseIrq, regs, ghosts
    <2> QED BY <2>1 DEF Writing
  <1>14. CASE Wait
    <2>1. /\ state' \in {state, "TOGGLE"} /\ pc' = "irq" /\ state \in {"READ", "WRITE"}
          /\ UNCHANGED <<drq, pos, host>>
      BY <1>14 DEF Wait, ghosts
    <2> QED BY <2>1 DEF Writing
  <1>15. CASE ReadDone \/ WriteDone \/ TimedOut \/ Finish
    <2>1. state' \in {"TOGGLE", "CLEANUP"} /\ pc' \in {"irq", "rd"}
      BY <1>15 DEF ReadDone, WriteDone, TimedOut, Finish, Update, regs
    <2> QED BY <2>1 DEF Writing
  <1>16. CASE MainLoop
    BY <1>16 DEF MainLoop, Mount, Unmount, Pause, Stop, DskInit, OneAtATime
  <1> QED BY <1>1, <1>2, <1>3, <1>4, <1>5, <1>6, <1>7, <1>8, <1>9, <1>10, <1>11, <1>12, <1>13,
             <1>14, <1>15, <1>16 DEF Next, Core1, DskTask

-----------------------------------------------------------------------------
(***************************************************************************)
(* The status register announces what drq says: the update that sets its   *)
(* bit is the last to touch it before the 6502 has moved the byte.         *)
(***************************************************************************)
Showing ==
  /\ state \in {"READ", "WRITE"} /\ drq /\ pc \notin {"rd", "wr"} => "DRQ" \in status
  /\ pc \in {"rd", "wr"} /\ rmw.next \in {"READ", "WRITE"} /\ drq =>
       "DRQ" \in rmw.set /\ "DRQ" \notin rmw.clr

LEMMA StepShowing ==
  ASSUME OneAtATime, TypeOK, OneCommand, QueueQuiet, Reading, Showing, Next
  PROVE  Showing'
  <1>0. fifo \in Seq(Words)
    BY DEF TypeOK, Core1Typed
  <1>1. ASSUME NEW op \in Ops, NEW flags \in SUBSET Flags, NEW target \in 0 .. MaxTrack,
               NEW known \in BOOLEAN, WriteCmd(op, flags, target, known)
        PROVE  Showing'
    <2>1. "BUSY" \notin status
      BY <1>1 DEF WriteCmd, OneAtATime, NoForceInt
    <2>2. state = "IDLE" /\ state' = state /\ pc' = pc
      BY <1>1, <2>1, NeverReset DEF WriteCmd, OneCommand, Busy, core0
    <2>3. pc \notin {"rd", "wr"}
      BY <2>2 DEF OneCommand, Busy
    <2> QED BY <2>2, <2>3 DEF Showing
  <1>2. ASSUME NEW drive \in Drives, NEW side \in Sides, NEW ie \in IrqEnables,
               WriteCtrl(drive, side, ie)
        PROVE  Showing'
    BY <1>2 DEF WriteCtrl, Showing, regs, core0
  <1>3. CASE ReadStatus
    BY <1>3 DEF ReadStatus, Showing, core0
  <1>4. CASE ReadData
    BY <1>4 DEF ReadData, Showing
  <1>5. CASE WriteData
    BY <1>5 DEF WriteData, StoreByte, KeepByte, Showing, core0
  <1>6. CASE TakeCommand
    <2>1. fifo # <<>> /\ Head(fifo).cmd /\ pc' = "select"
      BY <1>6 DEF TakeCommand
    <2>2. 1 \in Queued /\ Head(fifo) = fifo[1] /\ Head(fifo) \in Words
      BY <1>0, <2>1 DEF Queued
    <2>3. ~drq
      BY <2>2 DEF QueueQuiet
    <2>4. CASE TypeICommand(Head(fifo))
      BY <2>1, <2>4 DEF TypeICommand, Showing
    <2>5. CASE OtherCommand(Head(fifo))
      <3>1. drq' => Head(fifo).op = "WTRACK"
        BY <2>3, <2>5 DEF OtherCommand
      <3>2. Head(fifo).op = "WTRACK" => status' = status \cup {"DRQ"}
        BY <2>5 DEF OtherCommand, ForceInt
      <3> QED BY <2>1, <3>1, <3>2 DEF Showing
    <2> QED BY <1>6, <2>4, <2>5 DEF TakeCommand
  <1>7. CASE Select
    BY <1>7 DEF Select, Showing
  <1>8. CASE ReadPrep
    BY <1>8 DEF ReadPrep, Showing
  <1>9. CASE ReadAddr
    BY <1>9 DEF ReadAddr, Showing, Reading
  <1>10. CASE OfferByte \/ WritePrep \/ AskByte
    <2>1. pc' = "rd" /\ rmw'.set = {"DRQ"} /\ rmw'.clr = {}
      BY <1>10 DEF OfferByte, WritePrep, AskByte, Update
    <2> QED BY <2>1 DEF Showing
  <1>11. CASE ReadStatusReg
    <2>1. /\ pc = "rd" /\ pc' = "wr" /\ UNCHANGED <<state, drq>>
          /\ rmw'.next = rmw.next /\ rmw'.set = rmw.set /\ rmw'.clr = rmw.clr
      BY <1>11 DEF ReadStatusReg, regs, TypeOK, Core0Typed, Updates
    <2> QED BY <2>1 DEF Showing
  <1>12. CASE WriteStatusReg
    <2>1. /\ pc = "wr" /\ pc' = "irq" /\ state' = rmw.next /\ drq' = drq
          /\ status' = (rmw.old \cup rmw.set) \ rmw.clr
      BY <1>12 DEF WriteStatusReg
    <2> QED BY <2>1 DEF Showing
  <1>13. CASE Seek \/ NotFound \/ Finish
    <2>1. rmw'.next \in {"TOGGLE", "IDLE"} /\ pc' = "rd"
      BY <1>13 DEF Seek, NotFound, Finish, Update
    <2> QED BY <2>1 DEF Showing
  <1>14. CASE Idle \/ TakeCtrl \/ AwaitDisk \/ TestIrq \/ RaiseIrq
    <2>1. UNCHANGED <<state, drq, status>> /\ pc \notin {"rd", "wr"} /\ pc' \in {"irq", "task", "pulse"}
      BY <1>14 DEF Idle, TakeCtrl, AwaitDisk, TestIrq, RaiseIrq, regs
    <2> QED BY <2>1 DEF Showing
  <1>15. CASE Wait
    <2>1. /\ state' \in {state, "TOGGLE"} /\ pc = "task" /\ pc' \in {"irq", "late"}
          /\ UNCHANGED <<drq, status>>
      BY <1>15 DEF Wait
    <2> QED BY <2>1 DEF Showing
  <1>16. CASE ReadDone \/ WriteDone \/ TimedOut
    <2>1. state' = "TOGGLE" /\ pc' = "irq"
      BY <1>16 DEF ReadDone, WriteDone, TimedOut
    <2> QED BY <2>1 DEF Showing
  <1>17. CASE MainLoop
    BY <1>17 DEF MainLoop, Mount, Unmount, Pause, Stop, DskInit, OneAtATime
  <1> QED BY <1>1, <1>2, <1>3, <1>4, <1>5, <1>6, <1>7, <1>8, <1>9, <1>10, <1>11, <1>12, <1>13,
             <1>14, <1>15, <1>16, <1>17 DEF Next, Core1, DskTask

-----------------------------------------------------------------------------
(***************************************************************************)
(* The theorems.                                                           *)
(***************************************************************************)
Inductive ==
  /\ TypeOK /\ PositionInSector
  /\ OneCommand /\ QueueQuiet
  /\ OnItsDrive /\ Reading /\ Showing

LEMMA InductiveInit == OneAtATime /\ Init => Inductive
  <1> SUFFICES ASSUME OneAtATime, Init PROVE Inductive
    OBVIOUS
  <1>1. PositionInSector
    BY Sizes DEF Init, PositionInSector, NoRmw
  <1>2. QueueQuiet /\ OnItsDrive /\ Reading /\ Showing
    BY DEF Init, QueueQuiet, Queued, OnItsDrive, Reading, Showing
  <1> QED BY <1>1, <1>2, InitTyped, OneCommandInit DEF Inductive

LEMMA InductiveStep == OneAtATime /\ Inductive /\ [Next]_vars => Inductive'
  <1> SUFFICES ASSUME OneAtATime, Inductive, [Next]_vars PROVE Inductive'
    OBVIOUS
  <1>1. CASE Next
    <2>1. TypeOK' /\ PositionInSector'
      BY <1>1, StepTyped, StepPosition DEF Inductive
    <2>2. OneCommand'
      BY <1>1, StepAlone, StepBusy DEF Inductive, OneCommand, OneAtATime
    <2>3. QueueQuiet'
      BY <1>1, <2>2, StepQueueQuiet DEF Inductive, OneCommand
    <2>4. OnItsDrive' /\ Reading'
      BY <1>1, StepOnItsDrive, StepReading DEF Inductive, OneAtATime
    <2>5. Showing'
      BY <1>1, StepShowing DEF Inductive
    <2> QED BY <2>1, <2>2, <2>3, <2>4, <2>5 DEF Inductive
  <1>2. CASE UNCHANGED vars
    <2>1. TypeOK' /\ PositionInSector' /\ OneCommand'
      BY <1>2, StutterTyped, OneCommandStutter DEF Inductive
    <2>2. QueueQuiet' /\ OnItsDrive' /\ Reading' /\ Showing'
      BY <1>2 DEF Inductive, QueueQuiet, Queued, OnItsDrive, InReset, Reading, Showing, Offered, Taken,
                  vars, regs, core1, xfer, core0, ghosts
    <2> QED BY <2>1, <2>2 DEF Inductive
  <1> QED BY <1>1, <1>2

LEMMA IsAnnounced ==
  ASSUME OneAtATime, Inductive, state \in {"READ", "WRITE"}
  PROVE  Announced
BY NeverReset DEF Inductive, OneCommand, Busy, Showing, Announced

\* For a DOS that drains DRQ, never forces an interrupt and is not interrupted
\* by the LOCI menu, the byte on offer is always the one it has counted to, of
\* the track in the buffer, and announced: DSK_READ_PREP and DSK_READ lose and
\* repeat none, and no update of the status register takes DRQ or BUSY away.
THEOREM ReadsInOrder ==
  ASSUME OneAtATime
  PROVE  Spec => []BytesInOrder
  <1>1. Init => Inductive
    BY InductiveInit
  <1>2. Inductive /\ [Next]_vars => Inductive'
    BY InductiveStep
  <1>3. Inductive => BytesInOrder
    BY IsAnnounced DEF Inductive, Reading, Offered, BytesInOrder
  <1> QED BY <1>1, <1>2, <1>3, PTL DEF Spec

\* ... every command runs on the drive and side selected with it, although
\* dsk_task() applies the selection a pass after taking the command.
THEOREM CommandsOnTheirDrive ==
  ASSUME OneAtATime
  PROVE  Spec => []CommandOnItsDrive
  <1>1. Init => Inductive
    BY InductiveInit
  <1>2. Inductive /\ [Next]_vars => Inductive'
    BY InductiveStep
  <1>3. Inductive => CommandOnItsDrive
    BY NeverReset DEF Inductive, OneCommand, OnItsDrive, CommandOnItsDrive
  <1> QED BY <1>1, <1>2, <1>3, PTL DEF Spec

\* ... and, when core 0 is prompt, the position in the buffer is the number of
\* bytes the DOS has sent: no byte of a write is dropped or stored twice, and
\* the request for the next one shows in the status register.
THEOREM WritesInOrder ==
  ASSUME OneAtATime, ~SlowCore0
  PROVE  Spec => []NoByteDropped
  <1>1. Init => Inductive /\ Writing
    BY InductiveInit DEF Init, Writing
  <1>2. Inductive /\ Writing /\ [Next]_vars => Inductive' /\ Writing'
    <2> SUFFICES ASSUME Inductive, Writing, [Next]_vars PROVE Inductive' /\ Writing'
      OBVIOUS
    <2>1. CASE Next
      BY <2>1, InductiveStep, StepWriting DEF Inductive
    <2>2. CASE UNCHANGED vars
      BY <2>2, InductiveStep DEF Writing, vars, regs, core0, ghosts
    <2> QED BY <2>1, <2>2
  <1>3. Inductive /\ Writing => NoByteDropped
    <2> SUFFICES ASSUME Inductive, Writing, state = "WRITE" PROVE host.n = pos + (IF drq THEN 0 ELSE 1)
      BY IsAnnounced DEF NoByteDropped
    <2>1. pos \in Nat
      BY Sizes DEF Inductive, TypeOK, RegistersTyped
    <2>2. CASE drq
      BY <2>1, <2>2 DEF Writing
    <2>3. CASE ~drq
      BY <2>1, <2>3 DEF Writing
    <2> QED BY <2>2, <2>3
  <1> QED BY <1>1, <1>2, <1>3, PTL DEF Spec

-----------------------------------------------------------------------------
(***************************************************************************)
(* The track buffer, the head and the images, with disks that are swapped  *)
(* between commands.                                                       *)
(***************************************************************************)
SameTracks == \A m, n \in Media : Tracks[m] = Tracks[n]
OwnOffsets == (\A m \in Media : Geometry[m] = 1) \/ Sides = {0}
SwapsWaitForIdle == Swaps = "never" \/ (Swaps = "idle" /\ "WTRACK" \notin Ops)

Orderly == NoForceInt /\ SameTracks /\ OwnOffsets /\ SwapsWaitForIdle

\* No two tracks of an image share an offset (TrackOffset), when the sides do
\* not overlap.
LEMMA OffsetInjective ==
  ASSUME OwnOffsets, NEW m \in Media, NEW s \in Sides, NEW r \in Sides,
         NEW t \in 0 .. (Tracks[m] - 1), NEW u \in 0 .. (Tracks[m] - 1),
         TrackOffset(m, s, t) = TrackOffset(m, r, u)
  PROVE  s = r /\ t = u
  <1>1. (s = 0 \/ s = 1) /\ (r = 0 \/ r = 1)
    BY Units
  <1>2. Tracks[m] \in Nat /\ Geometry[m] \in {1, 2}
    BY TrackCounts, DskAssumption
  <1>3. CASE Sides = {0}
    BY <1>2, <1>3 DEF TrackOffset
  <1>4. CASE Geometry[m] = 1
    <2>1. s * Tracks[m] + t = r * Tracks[m] + u
      BY <1>4 DEF TrackOffset
    <2>2. 0 * Tracks[m] = 0 /\ 1 * Tracks[m] = Tracks[m]
      BY <1>2
    <2> QED BY <1>1, <1>2, <2>1, <2>2
  <1> QED BY <1>3, <1>4 DEF OwnOffsets

LEMMA FormattedAt ==
  ASSUME OwnOffsets, NEW m \in Media, NEW s \in Sides, NEW t \in 0 .. (Tracks[m] - 1)
  PROVE  /\ TrackOffset(m, s, t) \in Offsets
         /\ Formatted(m)[TrackOffset(m, s, t)].at = <<m, s, t>>
  <1> DEFINE off == TrackOffset(m, s, t)
             sel == CHOOSE q \in Sides \X (0 .. (Tracks[m] - 1)) : TrackOffset(m, q[1], q[2]) = off
  <1>1. off \in Offsets
    <2>1. t \in TrackNrs
      BY TrackCounts, Sizes DEF TrackNrs
    <2> QED BY <2>1, OffsetTyped
  <1>2. sel \in Sides \X (0 .. (Tracks[m] - 1)) /\ TrackOffset(m, sel[1], sel[2]) = off
    <2>1. \E q \in Sides \X (0 .. (Tracks[m] - 1)) : TrackOffset(m, q[1], q[2]) = off
      <3> WITNESS <<s, t>> \in Sides \X (0 .. (Tracks[m] - 1))
      <3> QED OBVIOUS
    <2> QED BY <2>1
  <1>3. sel[1] = s /\ sel[2] = t
    <2> HIDE DEF sel
    <2>1. sel[1] \in Sides /\ sel[2] \in 0 .. (Tracks[m] - 1)
      BY <1>2
    <2> QED BY <1>2, <2>1, OffsetInjective
  <1>4. \E r \in Sides, u \in 0 .. (Tracks[m] - 1) : TrackOffset(m, r, u) = off
    OBVIOUS
  <1>5. Formatted(m)[off] = [at |-> <<m, sel[1], sel[2]>>, ver |-> 0]
    BY <1>1, <1>4 DEF Formatted
  <1> HIDE DEF sel
  <1> QED BY <1>1, <1>3, <1>5

Pending(s) == state = s \/ (pc \in {"rd", "wr"} /\ rmw.next = s)

\* What dsk_cmd() starts, until the selection of the drive.
Started ==
  /\ state = "SEEK" => command.op \in TypeI
  /\ pc = "select" /\ state = "READ"  => command.op = "RTRACK" /\ pos = 0
  /\ pc = "select" /\ state = "WRITE" => command.op = "WTRACK" /\ pos = 0
  /\ pc = "late" => SlowCore0 /\ state = "WRITE"

\* The head is on a track of every disk, whose number of tracks is known.
HeadOn ==
  /\ \A m \in Media : active.track < Tracks[m]
  /\ \A d \in Drives : mounted[d] # NoDisk => maxTracks[d] = Tracks[mounted[d]]

\* The buffer holds the track under the head, if it is loaded or changed ...
Here   == Disk # NoDisk /\ ~bufUpdate => buf.at = ActivePlace
Marked == Disk # NoDisk /\ writeback => buf.at = ActivePlace

\* ... and it is loaded once a command has selected its drive.
Ready == state # "IDLE" /\ pc # "select" /\ bufUpdate => InReset

\* No byte arrives after the 6502 was stopped.
Stuck == InReset /\ Pending("WRITE") => drq

\* Nothing is to be saved to an EMPTY drive.
Empty == Swaps # "never" /\ Disk = NoDisk => ~writeback /\ ~Pending("WRITE")

Home == HeadOn /\ Here /\ Marked /\ Ready /\ Stuck /\ Empty

\* What core 1 leaves to core 0.
LEMMA Core1Frame ==
  ASSUME TypeOK, Core1
  PROVE  /\ UNCHANGED <<state, pos, pc, rmw, command, nextTrack, ioTrack, paused>>
         /\ UNCHANGED <<active, bufUpdate, writeback, mounted, maxTracks, image>>
         /\ buf'.at = buf.at
  <1>1. ASSUME NEW op, NEW flags, NEW target, NEW known, WriteCmd(op, flags, target, known)
        PROVE  /\ UNCHANGED <<state, pos, pc, rmw, command, nextTrack, ioTrack, paused>>
               /\ UNCHANGED <<active, bufUpdate, writeback, mounted, maxTracks, image, buf>>
    BY <1>1 DEF WriteCmd, core0, xfer, disks
  <1>2. ASSUME NEW drive, NEW side, NEW ie, WriteCtrl(drive, side, ie)
        PROVE  /\ UNCHANGED <<state, pos, pc, rmw, command, nextTrack, ioTrack, paused>>
               /\ UNCHANGED <<active, bufUpdate, writeback, mounted, maxTracks, image, buf>>
    BY <1>2 DEF WriteCtrl, core0, xfer, disks, regs
  <1>3. CASE ReadStatus \/ ReadData
    BY <1>3 DEF ReadStatus, ReadData, core0, xfer, disks
  <1>4. CASE WriteData
    <2>1. buf'.at = buf.at
      BY <1>4 DEF WriteData, StoreByte, KeepByte, TypeOK, RegistersTyped, Contents
    <2> QED BY <1>4, <2>1 DEF WriteData, core0, xfer, disks
  <1> QED BY <1>1, <1>2, <1>3, <1>4 DEF Core1

\* What most steps of dsk_task() leave alone.
LEMMA Core0Frame ==
  ASSUME DskTask, ~Select, ~Seek, ~AskByte, ~WriteDone
  PROVE  UNCHANGED <<active, bufUpdate, writeback, mounted, maxTracks, image, buf, host, stored>>
  <1>1. CASE Idle \/ TakeCtrl \/ TakeCommand \/ AwaitDisk \/ NotFound \/ ReadPrep \/ ReadAddr
    BY <1>1 DEF Idle, TakeCtrl, TakeCommand, AwaitDisk, NotFound, ReadPrep, ReadAddr, regs, disks, ghosts
  <1>2. CASE OfferByte \/ ReadDone \/ WritePrep \/ Wait \/ TimedOut \/ Finish
    BY <1>2 DEF OfferByte, ReadDone, WritePrep, Wait, TimedOut, Finish, regs, disks, ghosts
  <1>3. CASE ReadStatusReg \/ WriteStatusReg \/ TestIrq \/ RaiseIrq
    BY <1>3 DEF ReadStatusReg, WriteStatusReg, TestIrq, RaiseIrq, regs, disks, ghosts
  <1> QED BY <1>1, <1>2, <1>3 DEF DskTask

\* How core 0 comes to a state: by taking a command, or by a step that was
\* in that state or one before it.
LEMMA Progress ==
  ASSUME TypeOK, OneCommand, DskTask
  PROVE  /\ host' = host /\ paused' = paused
         /\ state' # "IDLE" => state # "IDLE" \/ TakeCommand
         /\ pc = "select" => Select
         /\ pc' = "select" <=> TakeCommand
         /\ ~TakeCommand => command' = command
         /\ Pending("WRITE")' => Pending("WRITE") \/ WritePrep \/ TakeCommand
         /\ Pending("READ")' => Pending("READ") \/ ReadPrep \/ ReadAddr \/ TakeCommand
  <1> DEFINE Moved == /\ host' = host /\ paused' = paused /\ command' = command
                      /\ state' # "IDLE" => state # "IDLE"
                      /\ pc' # "select" /\ (pc = "select" => Select)
                      /\ Pending("WRITE")' => Pending("WRITE") \/ WritePrep
                      /\ Pending("READ")' => Pending("READ") \/ ReadPrep \/ ReadAddr
  <1>1. CASE Idle \/ TakeCtrl \/ AwaitDisk \/ TestIrq \/ RaiseIrq
    <2>1. UNCHANGED <<state, host, paused, command>> /\ pc' \in {"irq", "task", "pulse"} /\ pc # "select"
      BY <1>1 DEF Idle, TakeCtrl, AwaitDisk, TestIrq, RaiseIrq, regs, xfer, ghosts
    <2>2. Moved
      BY <2>1 DEF Pending
    <2> QED BY <2>1, <2>2 DEF TakeCommand
  <1>2. CASE Select
    <2>1. UNCHANGED <<state, host, paused, command>> /\ pc' = "irq"
      BY <1>2 DEF Select, xfer, ghosts
    <2>2. Moved
      BY <1>2, <2>1 DEF Pending
    <2> QED BY <2>1, <2>2 DEF TakeCommand
  <1>3. CASE TakeCommand
    BY <1>3 DEF TakeCommand, ghosts
  <1>4. CASE Seek \/ NotFound \/ Finish
    <2>1. /\ UNCHANGED <<state, host, paused, command>> /\ pc = "task" /\ pc' = "rd"
          /\ rmw'.next \in {"TOGGLE", "IDLE"}
      BY <1>4 DEF Seek, NotFound, Finish, Update, regs, xfer, ghosts
    <2>2. Moved
      BY <2>1 DEF Pending
    <2> QED BY <2>1, <2>2 DEF TakeCommand
  <1>5. CASE ReadPrep \/ OfferByte
    <2>1. /\ UNCHANGED <<state, host, paused, command>> /\ pc = "task" /\ pc' = "rd"
          /\ rmw'.next = "READ" /\ (state = "READ" \/ ReadPrep)
      BY <1>5 DEF ReadPrep, OfferByte, Update, xfer, ghosts
    <2>2. Moved
      BY <2>1 DEF Pending
    <2> QED BY <2>1, <2>2 DEF TakeCommand
  <1>6. CASE WritePrep \/ AskByte
    <2>1. /\ UNCHANGED <<state, host, paused, command>> /\ pc = "task" /\ pc' = "rd"
          /\ rmw'.next = "WRITE" /\ (state = "WRITE" \/ WritePrep)
      BY <1>6 DEF WritePrep, AskByte, Update, xfer, ghosts
    <2>2. Moved
      BY <2>1 DEF Pending
    <2> QED BY <2>1, <2>2 DEF TakeCommand
  <1>7. CASE ReadAddr
    <2>1. UNCHANGED <<host, paused, command>> /\ state = "READ_ADDR" /\ state' = "READ"
          /\ pc = "task" /\ pc' = "irq"
      BY <1>7 DEF ReadAddr, xfer, ghosts
    <2>2. Moved
      BY <1>7, <2>1 DEF Pending
    <2> QED BY <2>1, <2>2 DEF TakeCommand
  <1>8. CASE ReadDone \/ WriteDone \/ TimedOut
    <2>1. UNCHANGED <<host, paused, command>> /\ state # "IDLE" /\ state' = "TOGGLE"
          /\ pc # "select" /\ pc' = "irq"
      BY <1>8 DEF ReadDone, WriteDone, TimedOut, xfer, ghosts, OneCommand, Busy
    <2>2. Moved
      BY <2>1 DEF Pending
    <2> QED BY <2>1, <2>2 DEF TakeCommand
  <1>9. CASE Wait
    <2>1. UNCHANGED <<host, paused, command>> /\ state # "IDLE" /\ (state' = state \/ state' = "TOGGLE")
          /\ pc = "task" /\ pc' \in {"irq", "late"}
      BY <1>9 DEF Wait, ghosts
    <2>2. Moved
      BY <2>1 DEF Pending
    <2> QED BY <2>1, <2>2 DEF TakeCommand
  <1>10. CASE ReadStatusReg
    <2>1. UNCHANGED <<host, paused, command, state>> /\ rmw'.next = rmw.next
          /\ pc = "rd" /\ pc' = "wr"
      BY <1>10 DEF ReadStatusReg, regs, xfer, ghosts, TypeOK, Core0Typed, Updates
    <2>2. Moved
      BY <2>1 DEF Pending
    <2> QED BY <2>1, <2>2 DEF TakeCommand
  <1>11. CASE WriteStatusReg
    <2>1. UNCHANGED <<host, paused, command>> /\ state' = rmw.next /\ state # "IDLE"
          /\ pc = "wr" /\ pc' = "irq"
      BY <1>11 DEF WriteStatusReg, xfer, ghosts, OneCommand, Busy
    <2>2. Moved
      BY <2>1 DEF Pending
    <2> QED BY <2>1, <2>2 DEF TakeCommand
  <1> QED BY <1>1, <1>2, <1>3, <1>4, <1>5, <1>6, <1>7, <1>8, <1>9, <1>10, <1>11 DEF DskTask

\* What taking a command starts.
LEMMA TakenState ==
  ASSUME NoForceInt, TypeOK, Alone, TakeCommand
  PROVE  /\ command'.op = Head(fifo).op /\ Head(fifo).op \in Ops
         /\ TypeICommand(Head(fifo)) \/ OtherCommand(Head(fifo))
         /\ TypeICommand(Head(fifo)) <=> Head(fifo).op \in TypeI
         /\ state' = "SEEK" <=> Head(fifo).op \in TypeI
         /\ state' = "READ"  => Head(fifo).op = "RTRACK" /\ pos' = 0
         /\ state' = "WRITE" => Head(fifo).op = "WTRACK" /\ pos' = 0 /\ drq'
         /\ state' = "WRITE_PREP" => Head(fifo).op = "WSEC"
         /\ state' = "READ_ADDR" => Head(fifo).op = "RADDR"
         /\ state = "IDLE" /\ pc = "task" /\ pc' = "select"
  <1>1. Head(fifo) \in Words /\ Head(fifo).op \in Ops
    BY Taking
  <1>2. TypeICommand(Head(fifo)) \/ OtherCommand(Head(fifo))
    BY DEF TakeCommand
  <1>3. CASE TypeICommand(Head(fifo))
    BY <1>1, <1>3 DEF TypeICommand, Words, TakeCommand
  <1>4. CASE OtherCommand(Head(fifo))
    <2>1. Head(fifo).op \in {"RSEC", "WSEC", "RADDR", "RTRACK", "WTRACK"}
      <3>1. Head(fifo).op \in AllOps /\ Head(fifo).op \notin TypeI /\ Head(fifo).op \notin ForceInt
        BY <1>1, <1>4 DEF Words, OtherCommand, NoForceInt
      <3> QED BY <3>1 DEF AllOps, Reads, Writes
    <2>2. Head(fifo).op \notin TypeI
      BY <2>1 DEF TypeI
    <2>3. /\ state' # "SEEK"
          /\ state' = "READ"  => Head(fifo).op = "RTRACK"
          /\ state' = "WRITE" => Head(fifo).op = "WTRACK"
          /\ state' = "WRITE_PREP" => Head(fifo).op = "WSEC"
          /\ state' = "READ_ADDR" => Head(fifo).op = "RADDR"
      BY <1>4, <2>1, <2>2 DEF OtherCommand
    <2>4. Head(fifo).op \in {"RTRACK", "WTRACK"} => pos' = 0
      BY <1>4 DEF OtherCommand, FirstByte
    <2>5. Head(fifo).op = "WTRACK" => drq'
      BY <1>4 DEF OtherCommand
    <2>6. command' = Head(fifo)
      BY <1>4 DEF OtherCommand
    <2>7. ~TypeICommand(Head(fifo))
      BY <2>2 DEF TypeICommand
    <2> QED BY <1>1, <1>4, <2>2, <2>3, <2>4, <2>5, <2>6, <2>7 DEF TakeCommand
  <1> QED BY <1>2, <1>3, <1>4

LEMMA StepStarted ==
  ASSUME NoForceInt, TypeOK, OneCommand, Started, Next
  PROVE  Started'
  <1>0. Alone
    BY DEF OneCommand
  <1>1. CASE Core1
    BY <1>1, Core1Frame DEF Started
  <1>2. CASE TakeCommand
    BY <1>0, <1>2, TakenState DEF Started
  <1>3. CASE DskTask /\ ~TakeCommand
    <2>1. command' = command /\ pc' # "select"
      BY <1>3, Progress
    <2>2. state' = "SEEK" => state = "SEEK"
      <3>1. CASE WriteStatusReg
        <4>1. <<state, rmw.next>> \in Transitions /\ state' = rmw.next
          BY <3>1 DEF WriteStatusReg, OneCommand, Busy
        <4> QED BY <4>1 DEF Transitions
      <3>2. CASE Idle \/ TakeCtrl \/ Select \/ Seek \/ AwaitDisk \/ NotFound \/ ReadPrep \/ ReadAddr \/ OfferByte
        BY <3>2 DEF Idle, TakeCtrl, Select, Seek, AwaitDisk, NotFound, ReadPrep, ReadAddr, OfferByte, regs
      <3>3. CASE ReadDone \/ WritePrep \/ AskByte \/ WriteDone \/ Wait \/ TimedOut \/ Finish \/ ReadStatusReg
                 \/ TestIrq \/ RaiseIrq
        BY <3>3 DEF ReadDone, WritePrep, AskByte, WriteDone, Wait, TimedOut, Finish, ReadStatusReg, TestIrq, RaiseIrq, regs
      <3> QED BY <1>3, <3>1, <3>2, <3>3 DEF DskTask
    <2>3. pc' = "late" => SlowCore0 /\ state' = "WRITE"
      <3>1. CASE Wait
        <4>1. pc' = "late" => SlowCore0 /\ state = "WRITE" /\ state' = state
          BY <3>1 DEF Wait
        <4> QED BY <4>1
      <3>2. CASE Idle \/ TakeCtrl \/ Select \/ Seek \/ AwaitDisk \/ NotFound \/ ReadPrep \/ ReadAddr \/ OfferByte
        BY <3>2 DEF Idle, TakeCtrl, Select, Seek, AwaitDisk, NotFound, ReadPrep, ReadAddr, OfferByte, Update
      <3>3. CASE ReadDone \/ WritePrep \/ AskByte \/ WriteDone \/ TimedOut \/ Finish \/ ReadStatusReg
                 \/ WriteStatusReg \/ TestIrq \/ RaiseIrq
        BY <3>3 DEF ReadDone, WritePrep, AskByte, WriteDone, TimedOut, Finish, ReadStatusReg, WriteStatusReg, TestIrq, RaiseIrq, Update
      <3> QED BY <1>3, <3>1, <3>2, <3>3 DEF DskTask
    <2> QED BY <2>1, <2>2, <2>3 DEF Started
  <1>4. CASE MainLoop
    <2>1. pc' = pc /\ pc = "task"
      BY <1>0, <1>4, MenuSteps
    <2>2. CASE UNCHANGED <<state, status, command, host>>
      BY <2>1, <2>2 DEF Started
    <2>3. CASE Stop
      BY <2>1, <2>3 DEF Stop, Started
    <2>4. CASE DskInit
      BY <2>1, <2>4 DEF DskInit, Started
    <2> QED BY <1>0, <1>4, <2>2, <2>3, <2>4, MenuSteps
  <1> QED BY <1>1, <1>2, <1>3, <1>4 DEF Next

\* A disk in a drive can be loaded at the track under the head.
LEMMA CanLoadHead ==
  ASSUME TypeOK, HeadOn, NEW d \in Drives, mounted[d] # NoDisk
  PROVE  mounted[d] \in Media /\ CanLoad(d, active.track)
  <1>1. mounted[d] \in Media
    BY DEF TypeOK, DisksTyped
  <1>2. active.track < Tracks[mounted[d]] /\ maxTracks[d] = Tracks[mounted[d]]
    BY <1>1 DEF HeadOn
  <1>3. active.track \in Nat /\ Tracks[mounted[d]] \in Nat
    BY <1>1, TrackCounts, Sizes DEF TypeOK, Core0Typed, TrackNrs
  <1> QED BY <1>1, <1>2, <1>3 DEF CanLoad

LEMMA StepHeadOn ==
  ASSUME SameTracks, TypeOK, HeadOn, Next
  PROVE  HeadOn'
  <1>0. /\ active \in [drive : Drives, side : Sides, track : TrackNrs]
        /\ maxTracks \in [Drives -> 0 .. MaxTrack] /\ mounted \in [Drives -> Media \cup {NoDisk}]
    BY DEF TypeOK, Core0Typed, DisksTyped
  <1>1. CASE UNCHANGED <<mounted, maxTracks>> /\ active'.track = active.track
    BY <1>1 DEF HeadOn
  <1>2. CASE Core1
    BY <1>1, <1>2, Core1Frame
  <1>3. CASE DskTask /\ ~Select /\ ~Seek /\ ~AskByte /\ ~WriteDone
    BY <1>1, <1>3, Core0Frame
  <1>4. CASE Select \/ AskByte \/ WriteDone
    <2>1. UNCHANGED <<mounted, maxTracks>> /\ active'.track = active.track
      BY <1>0, <1>4 DEF Select, Selected, AskByte, WriteDone, disks
    <2> QED BY <1>1, <2>1
  <1>5. CASE Seek
    <2>1. UNCHANGED <<mounted, maxTracks>>
      BY <1>5 DEF Seek, disks
    <2>2. CASE active' = active
      BY <1>1, <2>1, <2>2
    <2>3. CASE active' = [active EXCEPT !.track = nextTrack] /\ CanLoad(active.drive, nextTrack)
      <3>1. mounted[active.drive] \in Media /\ maxTracks[active.drive] = Tracks[mounted[active.drive]]
            /\ nextTrack <= maxTracks[active.drive] - 1
        BY <1>0, <2>3 DEF CanLoad, HeadOn
      <3>2. nextTrack \in Nat /\ active'.track = nextTrack
        BY <1>0, <2>3 DEF TypeOK, TransferTyped
      <3>3. nextTrack < Tracks[mounted[active.drive]]
        BY <3>1, <3>2, TrackCounts
      <3>4. \A m \in Media : active'.track < Tracks[m]
        BY <3>1, <3>2, <3>3 DEF SameTracks
      <3> QED BY <2>1, <3>4 DEF HeadOn
    <2> QED BY <1>5, <2>2, <2>3 DEF Seek
  <1>6. ASSUME NEW d \in Drives, NEW m \in Media, Mount(d, m)
        PROVE  HeadOn'
    <2>1. /\ active' = active /\ mounted' = [mounted EXCEPT ![d] = m]
          /\ maxTracks' = [maxTracks EXCEPT ![d] = Tracks[m]]
      BY <1>6 DEF Mount
    <2> QED BY <1>0, <2>1 DEF HeadOn
  <1>7. ASSUME NEW d \in Drives, Unmount(d)
        PROVE  HeadOn'
    <2>1. /\ active' = active /\ mounted' = [mounted EXCEPT ![d] = NoDisk] /\ maxTracks' = maxTracks
      BY <1>7 DEF Unmount
    <2> QED BY <1>0, <2>1 DEF HeadOn
  <1>8. CASE Stop \/ \E on \in BOOLEAN : Pause(on)
    BY <1>1, <1>8 DEF Stop, Pause, disks
  <1>9. CASE DskInit
    <2>1. active'.track = 0 /\ UNCHANGED <<mounted, maxTracks>>
      BY <1>9 DEF DskInit
    <2>2. \A m \in Media : 0 < Tracks[m]
      BY TrackCounts
    <2> QED BY <2>1, <2>2 DEF HeadOn
  <1> QED BY <1>2, <1>3, <1>4, <1>5, <1>6, <1>7, <1>8, <1>9 DEF Next, MainLoop

LEMMA StepReady ==
  ASSUME Orderly, TypeOK, OneCommand, Ready, Next
  PROVE  Ready'
  <1>0. Alone
    BY DEF OneCommand
  <1>1. CASE Core1 /\ ~paused
    <2>1. ~InReset /\ UNCHANGED <<state, pc, bufUpdate>>
      BY <1>0, <1>1, Core1Frame DEF Alone
    <2> QED BY <2>1 DEF Ready
  <1>2. CASE Select
    <2>1. pc = "select" /\ state' = state /\ host' = host
      BY <1>2 DEF Select, ghosts
    <2>2. InReset \/ "BUSY" \in status
      BY <2>1 DEF OneCommand, Busy
    <2>3. "BUSY" \in status => ~bufUpdate'
      BY <1>2 DEF Select, NeedsReload, TypeOK, Core0Typed
    <2> QED BY <2>1, <2>2, <2>3 DEF Ready, InReset
  <1>3. CASE DskTask /\ ~Select
    <2>1. /\ host' = host /\ pc # "select"
          /\ state' # "IDLE" /\ pc' # "select" => state # "IDLE"
      BY <1>3, Progress
    <2>2. bufUpdate' = bufUpdate
      <3>1. AskByte \/ WriteDone \/ Seek => bufUpdate' = bufUpdate
        BY DEF AskByte, WriteDone, Seek
      <3> QED BY <1>3, <3>1, Core0Frame
    <2> QED BY <2>1, <2>2 DEF Ready, InReset
  <1>4. CASE MainLoop
    <2>1. CASE DskInit \/ Stop
      BY <2>1 DEF DskInit, Stop, Ready
    <2>2. ASSUME NEW d \in Drives, NEW m \in Media, Mount(d, m)
          PROVE  Ready'
      <3>1. state = "IDLE" /\ state' = state
        BY <2>2 DEF Mount, MayMount, Orderly, SwapsWaitForIdle, regs
      <3> QED BY <3>1 DEF Ready
    <2>3. ASSUME NEW d \in Drives, NEW on \in BOOLEAN, Unmount(d) \/ Pause(on)
          PROVE  Ready'
      BY <2>3 DEF Unmount, Pause, Ready, InReset, regs, ghosts
    <2> QED BY <1>4, <2>1, <2>2, <2>3, Units DEF MainLoop
  <1> QED BY <1>1, <1>2, <1>3, <1>4 DEF Next

LEMMA StepStuck ==
  ASSUME NoForceInt, TypeOK, OneCommand, Stuck, Next
  PROVE  Stuck'
  <1>0. Alone
    BY DEF OneCommand
  <1>1. CASE Core1 /\ ~paused
    <2>1. InReset' => InReset
      <3>1. paused' = paused
        BY <1>1, Core1Frame
      <3> QED BY <1>0, <1>1, <3>1, StepAlone DEF Alone, Next
    <2> QED BY <1>0, <1>1, <2>1 DEF Alone, Stuck
  <1>2. CASE TakeCommand
    <2>1. /\ host' = host /\ pc' = "select"
          /\ state' = "WRITE" => drq'
      BY <1>0, <1>2, TakenState, Progress DEF DskTask
    <2> QED BY <2>1 DEF Stuck, Pending
  <1>3. CASE WritePrep
    BY <1>3 DEF WritePrep, Stuck
  <1>4. CASE DskTask /\ ~TakeCommand /\ ~WritePrep
    <2>1. host' = host /\ (Pending("WRITE")' => Pending("WRITE"))
      BY <1>4, Progress
    <2>2. (drq => drq') \/ ReadPrep
      <3>1. CASE Idle \/ TakeCtrl \/ Select \/ Seek \/ AwaitDisk \/ NotFound \/ ReadAddr \/ OfferByte
        BY <3>1 DEF Idle, TakeCtrl, Select, Seek, AwaitDisk, NotFound, ReadAddr, OfferByte, regs
      <3>2. CASE ReadDone \/ AskByte \/ WriteDone \/ Wait \/ TimedOut \/ Finish \/ ReadStatusReg
                 \/ WriteStatusReg \/ TestIrq \/ RaiseIrq
        BY <3>2 DEF ReadDone, AskByte, WriteDone, Wait, TimedOut, Finish, ReadStatusReg, WriteStatusReg, TestIrq, RaiseIrq, regs
      <3> QED BY <1>4, <3>1, <3>2 DEF DskTask
    <2>3. ReadPrep => ~Pending("WRITE")'
      BY DEF ReadPrep, Update, Pending
    <2> QED BY <2>1, <2>2, <2>3 DEF Stuck, InReset
  <1>5. CASE MainLoop
    <2>1. CASE DskInit \/ Stop
      <3>1. state' = "IDLE" /\ pc' = "task"
        BY <1>0, <1>5, <2>1, MenuSteps DEF DskInit, Stop
      <3> QED BY <3>1 DEF Stuck, Pending
    <2>2. ASSUME NEW d \in Drives, NEW on \in BOOLEAN, Unmount(d) \/ Pause(on) \/ \E m \in Media : Mount(d, m)
          PROVE  Stuck'
      BY <2>2 DEF Unmount, Pause, Mount, Stuck, Pending, InReset, regs, ghosts
    <2> QED BY <1>5, <2>1, <2>2, Units DEF MainLoop
  <1> QED BY <1>1, <1>2, <1>3, <1>4, <1>5 DEF Next

\* The files img hold no track but their own.
Intact(img) == \A m \in Media : \A off \in Offsets : img[m][off].at = Formatted(m)[off].at

\* A buffer that holds the track under the head may be saved ...
LEMMA FlushedIntact ==
  ASSUME OwnOffsets, TypeOK, HeadOn, Intact(image), Disk # NoDisk => buf.at = ActivePlace
  PROVE  Intact(Flushed(image))
  <1>1. CASE Disk = NoDisk
    BY <1>1 DEF Flushed
  <1>2. CASE Disk # NoDisk
    <2> DEFINE spot == TrackOffset(Disk, active.side, active.track)
    <2>1. Disk \in Media /\ active.side \in Sides /\ active.track \in Nat
      BY <1>2, Sizes DEF Disk, TypeOK, DisksTyped, Core0Typed, TrackNrs
    <2>2. active.track \in 0 .. (Tracks[Disk] - 1)
      BY <2>1, TrackCounts DEF HeadOn
    <2>3. spot \in Offsets /\ Formatted(Disk)[spot].at = <<Disk, active.side, active.track>>
      BY <2>1, <2>2, FormattedAt
    <2>4. buf.at = Formatted(Disk)[spot].at
      BY <1>2, <2>3 DEF ActivePlace
    <2>5. image \in [Media -> [Offsets -> Contents]]
      BY DEF TypeOK, DisksTyped
    <2>6. Flushed(image) = [image EXCEPT ![Disk][spot] = buf]
      BY <1>2 DEF Flushed
    <2> HIDE DEF spot
    <2>7. ASSUME NEW m \in Media, NEW off \in Offsets
          PROVE  Flushed(image)[m][off].at = Formatted(m)[off].at
      <3>1. CASE m = Disk /\ off = spot
        BY <2>1, <2>3, <2>4, <2>5, <2>6, <3>1
      <3>2. CASE ~(m = Disk /\ off = spot)
        <4>1. Flushed(image)[m][off] = image[m][off]
          BY <2>1, <2>3, <2>5, <2>6, <3>2
        <4> QED BY <4>1 DEF Intact
      <3> QED BY <3>1, <3>2
    <2> QED BY <2>7 DEF Intact
  <1> QED BY <1>1, <1>2

\* ... and what is loaded is the track asked for.
LEMMA LoadedAt ==
  ASSUME OwnOffsets, NEW img, Intact(img), NEW d \in Drives, mounted[d] \in Media,
         NEW s \in Sides, NEW t \in 0 .. (Tracks[mounted[d]] - 1)
  PROVE  Loaded(img, d, s, t).at = <<mounted[d], s, t>>
BY FormattedAt DEF Loaded, Intact

\* What the selection of a drive and a side does to the buffer.
LEMMA Selecting ==
  ASSUME TypeOK, HeadOn, Select
  PROVE  /\ UNCHANGED <<mounted, maxTracks>> /\ active'.track = active.track
         /\ image' = image \/ (writeback /\ image' = Flushed(image))
         /\ writeback' => writeback
         /\ \/ UNCHANGED <<active, buf, bufUpdate>>
            \/ /\ active' = Selected /\ Disk' # NoDisk /\ ~writeback' /\ ~bufUpdate'
               /\ buf' = Loaded(image', command.drive, command.side, active.track)
            \/ /\ active' = Selected /\ Disk' = NoDisk /\ "BUSY" \in status
  <1>0. /\ active \in [drive : Drives, side : Sides, track : TrackNrs]
        /\ command.drive \in Drives /\ command.side \in Sides
    BY DEF TypeOK, Core0Typed, TransferTyped, Words
  <1>1. /\ UNCHANGED <<mounted, maxTracks>> /\ active'.track = active.track
        /\ writeback' => writeback
    BY <1>0 DEF Select, Selected, TypeOK, Core0Typed
  <1>2. image' = image \/ (writeback /\ image' = Flushed(image))
    BY DEF Select
  <1>3. CASE "BUSY" \notin status
    BY <1>1, <1>2, <1>3 DEF Select, TypeOK, Core0Typed
  <1>4. CASE "BUSY" \in status /\ ~NeedsReload
    <2>1. active' = active
      <3>1. active' = [active EXCEPT !.drive = active.drive, !.side = active.side]
        BY <1>4 DEF Select, Selected, NeedsReload
      <3> QED BY <1>0, <3>1
    <2> QED BY <1>1, <1>2, <1>4, <2>1 DEF Select, TypeOK, Core0Typed
  <1>5. CASE "BUSY" \in status /\ NeedsReload
    <2>1. active' = Selected /\ active'.drive = command.drive
      BY <1>0, <1>5 DEF Select, Selected
    <2>2. Disk' = mounted[command.drive]
      BY <1>1, <2>1 DEF Disk
    <2>3. CASE mounted[command.drive] # NoDisk
      <3>1. CanLoad(command.drive, active.track)
        BY <1>0, <2>3, CanLoadHead
      <3>2. buf' = Loaded(image', command.drive, command.side, active.track)
        BY <1>5, <3>1 DEF Select
      <3>3. ~writeback' /\ ~bufUpdate'
        BY <1>5, <3>1 DEF Select
      <3> QED BY <1>1, <1>2, <2>1, <2>2, <2>3, <3>2, <3>3
    <2>4. CASE mounted[command.drive] = NoDisk
      BY <1>1, <1>2, <1>5, <2>1, <2>2, <2>4
    <2> QED BY <2>3, <2>4
  <1> QED BY <1>3, <1>4, <1>5

\* Where a write of the buffer to the disk, or into it, is done, the buffer is
\* loaded.
LEMMA WritingHere ==
  ASSUME Alone, Here, Ready, Stuck, state = "WRITE", ~drq, pc # "select", Disk # NoDisk
  PROVE  ~InReset /\ ~bufUpdate /\ buf.at = ActivePlace
BY DEF Here, Ready, Stuck, Pending

LEMMA StepIntact ==
  ASSUME Orderly, TypeOK, OneCommand, Home, Intact(image), Next
  PROVE  Intact(image')
  <1>0. Alone /\ OwnOffsets /\ HeadOn /\ Here /\ Marked /\ Ready /\ Stuck
    BY DEF OneCommand, Orderly, Home
  <1>1. CASE image' = image
    BY <1>1
  <1>2. CASE writeback /\ image' = Flushed(image)
    <2>1. Disk # NoDisk => buf.at = ActivePlace
      BY <1>0, <1>2 DEF Marked
    <2> QED BY <1>0, <1>2, <2>1, FlushedIntact
  <1>3. CASE WriteDone
    <2>1. Disk # NoDisk => buf.at = ActivePlace
      BY <1>0, <1>3, WritingHere DEF WriteDone, Served
    <2> QED BY <1>0, <1>3, <2>1, FlushedIntact DEF WriteDone
  <1>4. CASE Core1
    BY <1>1, <1>4, Core1Frame
  <1>5. CASE DskTask /\ ~WriteDone
    <2>1. Seek \/ AskByte => image' = image
      BY DEF Seek, AskByte, disks
    <2>2. Select => image' = image \/ (writeback /\ image' = Flushed(image))
      BY DEF Select
    <2> QED BY <1>1, <1>2, <1>5, <2>1, <2>2, Core0Frame
  <1>6. CASE MainLoop
    BY <1>1, <1>2, <1>6 DEF MainLoop, Mount, Unmount, Pause, Stop, DskInit, disks
  <1> QED BY <1>3, <1>4, <1>5, <1>6 DEF Next

LEMMA StepHere ==
  ASSUME Orderly, TypeOK, OneCommand, Home, Intact(image), Next
  PROVE  Here' /\ Marked'
  <1>0. /\ Alone /\ OwnOffsets /\ HeadOn /\ Here /\ Marked /\ Ready /\ Stuck /\ Empty
        /\ active \in [drive : Drives, side : Sides, track : TrackNrs]
        /\ mounted \in [Drives -> Media \cup {NoDisk}]
    BY DEF OneCommand, Orderly, Home, TypeOK, Core0Typed, DisksTyped
  <1>1. CASE UNCHANGED <<active, mounted, bufUpdate>> /\ (writeback' => writeback) /\ buf'.at = buf.at
    <2>1. Disk' = Disk /\ ActivePlace' = ActivePlace
      BY <1>1 DEF Disk, ActivePlace
    <2> QED BY <1>0, <1>1, <2>1 DEF Here, Marked
  <1>2. CASE Core1
    BY <1>1, <1>2, Core1Frame
  <1>3. CASE DskTask /\ ~Select /\ ~Seek /\ ~AskByte /\ ~WriteDone
    BY <1>1, <1>3, Core0Frame
  <1>4. CASE WriteDone
    BY <1>1, <1>4 DEF WriteDone
  <1>5. CASE AskByte
    <2>1. UNCHANGED <<active, mounted, bufUpdate, buf>>
      BY <1>5 DEF AskByte, disks
    <2>2. Disk' = Disk /\ ActivePlace' = ActivePlace
      BY <2>1 DEF Disk, ActivePlace
    <2>3. Disk # NoDisk => buf.at = ActivePlace
      BY <1>0, <1>5, WritingHere DEF AskByte, Served
    <2> QED BY <1>0, <2>1, <2>2, <2>3 DEF Here, Marked
  <1>6. CASE Select
    <2>1. CASE UNCHANGED <<active, buf, bufUpdate>>
      BY <1>0, <1>1, <1>6, <2>1, Selecting
    <2>2. CASE active' = Selected /\ Disk' # NoDisk /\ ~writeback' /\ ~bufUpdate'
               /\ buf' = Loaded(image', command.drive, command.side, active.track)
      <3>1. command.drive \in Drives /\ command.side \in Sides /\ mounted' = mounted
        BY <1>6 DEF Select, TypeOK, TransferTyped, Words
      <3>2. active'.drive = command.drive /\ active'.side = command.side /\ active'.track = active.track
        BY <1>0, <2>2, <3>1 DEF Selected
      <3>3. mounted[command.drive] \in Media
        BY <1>0, <2>2, <3>1, <3>2 DEF Disk
      <3>4. active.track \in 0 .. (Tracks[mounted[command.drive]] - 1)
        BY <1>0, <3>3, TrackCounts, Sizes DEF HeadOn, TrackNrs
      <3>5. Intact(image')
        BY <1>6, StepIntact DEF Next, DskTask
      <3>6. buf'.at = <<mounted[command.drive], command.side, active.track>>
        BY <1>0, <2>2, <3>1, <3>3, <3>4, <3>5, LoadedAt
      <3>7. ActivePlace' = <<mounted[command.drive], command.side, active.track>>
        BY <3>1, <3>2 DEF ActivePlace, Disk
      <3> QED BY <3>6, <3>7 DEF Here, Marked
    <2>3. CASE Disk' = NoDisk
      BY <2>3 DEF Here, Marked
    <2> QED BY <1>0, <1>6, <2>1, <2>2, <2>3, Selecting
  <1>7. CASE Seek
    <2>1. UNCHANGED <<mounted, bufUpdate, image>> /\ (writeback' => writeback)
      BY <1>7 DEF Seek, disks, TypeOK, Core0Typed
    <2>2. CASE nextTrack # active.track /\ CanLoad(active.drive, nextTrack)
      <3>1. /\ active' = [active EXCEPT !.track = nextTrack] /\ ~writeback'
            /\ buf' = Loaded(image, active.drive, active.side, nextTrack)
        BY <1>7, <2>2 DEF Seek, TypeOK, Core0Typed
      <3>2. active'.drive = active.drive /\ active'.side = active.side /\ active'.track = nextTrack
        BY <1>0, <3>1
      <3>3. mounted[active.drive] \in Media /\ nextTrack \in Nat
            /\ maxTracks[active.drive] = Tracks[mounted[active.drive]]
        BY <1>0, <2>2 DEF CanLoad, HeadOn, TypeOK, TransferTyped
      <3>4. nextTrack \in 0 .. (Tracks[mounted[active.drive]] - 1)
        BY <2>2, <3>3, TrackCounts DEF CanLoad
      <3>5. buf'.at = <<mounted[active.drive], active.side, nextTrack>>
        BY <1>0, <3>1, <3>3, <3>4, LoadedAt
      <3>6. ActivePlace' = <<mounted[active.drive], active.side, nextTrack>>
        BY <2>1, <3>2 DEF ActivePlace, Disk
      <3> QED BY <3>1, <3>5, <3>6 DEF Here, Marked
    <2>3. CASE ~(nextTrack # active.track /\ CanLoad(active.drive, nextTrack))
      <3>1. active' = active /\ buf' = buf
        BY <1>7, <2>3 DEF Seek
      <3> QED BY <1>1, <2>1, <3>1
    <2> QED BY <2>2, <2>3
  <1>8. ASSUME NEW d \in Drives, NEW m \in Media, Mount(d, m)
        PROVE  Here' /\ Marked'
    <2>1. /\ UNCHANGED <<active, buf, writeback>> /\ bufUpdate' /\ mounted[d] = NoDisk
          /\ mounted' = [mounted EXCEPT ![d] = m] /\ Swaps # "never"
      BY <1>8 DEF Mount, BufStale, regs
    <2>2. CASE d = active.drive
      <3>1. ~writeback
        BY <1>0, <2>1, <2>2 DEF Empty, Disk
      <3> QED BY <2>1, <3>1 DEF Here, Marked
    <2>3. CASE d # active.drive
      <3>1. Disk' = Disk /\ ActivePlace' = ActivePlace
        BY <1>0, <2>1, <2>3 DEF Disk, ActivePlace
      <3> QED BY <1>0, <2>1, <3>1 DEF Here, Marked
    <2> QED BY <2>2, <2>3
  <1>9. ASSUME NEW d \in Drives, Unmount(d)
        PROVE  Here' /\ Marked'
    <2>1. /\ UNCHANGED <<active, buf, bufUpdate>> /\ (writeback' => writeback)
          /\ mounted' = [mounted EXCEPT ![d] = NoDisk]
      BY <1>9 DEF Unmount, regs, TypeOK, Core0Typed
    <2>2. CASE d = active.drive
      <3>1. Disk' = NoDisk
        BY <1>0, <2>1, <2>2 DEF Disk
      <3> QED BY <3>1 DEF Here, Marked
    <2>3. CASE d # active.drive
      <3>1. Disk' = Disk /\ ActivePlace' = ActivePlace
        BY <1>0, <2>1, <2>3 DEF Disk, ActivePlace
      <3> QED BY <1>0, <2>1, <3>1 DEF Here, Marked
    <2> QED BY <2>2, <2>3
  <1>10. CASE Stop \/ \E on \in BOOLEAN : Pause(on)
    BY <1>1, <1>10 DEF Stop, Pause, regs, disks
  <1>11. CASE DskInit
    BY <1>11 DEF DskInit, Here, Marked
  <1> QED BY <1>2, <1>3, <1>4, <1>5, <1>6, <1>7, <1>8, <1>9, <1>10, <1>11 DEF Next, MainLoop

LEMMA StepEmpty ==
  ASSUME Orderly, TypeOK, OneCommand, Started, Home, Next
  PROVE  Empty'
  <1>0. /\ Alone /\ Empty /\ HeadOn /\ NoForceInt /\ active \in [drive : Drives, side : Sides, track : TrackNrs]
        /\ mounted \in [Drives -> Media \cup {NoDisk}]
    BY DEF OneCommand, Orderly, Home, TypeOK, Core0Typed, DisksTyped
  <1> SUFFICES ASSUME Swaps # "never", Disk' = NoDisk PROVE ~writeback' /\ ~Pending("WRITE")'
    BY DEF Empty
  <1>1. "WTRACK" \notin Ops /\ Swaps = "idle"
    BY DEF Orderly, SwapsWaitForIdle
  <1>2. CASE Core1
    <2>1. Disk' = Disk /\ writeback' = writeback /\ (Pending("WRITE")' => Pending("WRITE"))
      BY <1>2, Core1Frame DEF Disk, Pending
    <2> QED BY <1>0, <2>1 DEF Empty
  <1>3. CASE DskTask /\ ~Select
    <2>1. Disk' = Disk
      <3>1. Seek => active'.drive = active.drive /\ mounted' = mounted
        BY <1>0 DEF Seek, disks
      <3>2. AskByte \/ WriteDone => active' = active /\ mounted' = mounted
        BY DEF AskByte, WriteDone, disks
      <3> QED BY <1>3, <3>1, <3>2, Core0Frame DEF Disk
    <2>2. ~writeback /\ ~Pending("WRITE")
      BY <1>0, <2>1 DEF Empty
    <2>3. ~writeback'
      <3>1. ~AskByte
        BY <2>2 DEF AskByte, Pending
      <3>2. Seek \/ WriteDone => (writeback' => writeback)
        BY DEF Seek, WriteDone, TypeOK, Core0Typed
      <3> QED BY <1>3, <2>2, <3>1, <3>2, Core0Frame
    <2>4. ~Pending("WRITE")'
      <3>1. TakeCommand => ~Pending("WRITE")'
        BY <1>0, <1>1, TakenState DEF Pending
      <3>2. ~WritePrep
        BY <2>1 DEF WritePrep
      <3> QED BY <1>3, <2>2, <3>1, <3>2, Progress
    <2> QED BY <2>3, <2>4
  <1>4. CASE Select
    <2>1. ~Pending("WRITE")'
      <3>1. pc = "select" /\ state' = state /\ pc' = "irq"
        BY <1>4 DEF Select
      <3>2. state # "WRITE"
        BY <1>1, <3>1 DEF Started, OneCommand, Busy
      <3> QED BY <3>1, <3>2 DEF Pending
    <2>2. ~writeback'
      <3>1. CASE Disk = NoDisk
        BY <1>0, <1>4, <3>1, Selecting DEF Empty
      <3>2. CASE Disk # NoDisk
        <4>1. "BUSY" \in status /\ active' = Selected
          <5>1. ~UNCHANGED <<active, buf, bufUpdate>>
            BY <1>4, <3>2 DEF Disk, Select
          <5> QED BY <1>0, <1>4, <5>1, Selecting
        <4>2. command.drive # active.drive
          <5>1. active'.drive = command.drive /\ mounted' = mounted
            BY <1>0, <1>4, <4>1 DEF Selected, Select
          <5> QED BY <3>2, <5>1 DEF Disk
        <4> QED BY <1>4, <3>2, <4>1, <4>2 DEF Select, Moves, TypeOK, Core0Typed
      <3> QED BY <3>1, <3>2
    <2> QED BY <2>1, <2>2
  <1>5. ASSUME NEW d \in Drives, NEW m \in Media, Mount(d, m)
        PROVE  ~writeback' /\ ~Pending("WRITE")'
    <2>1. /\ UNCHANGED <<active, state, pc, rmw, writeback>> /\ mounted' = [mounted EXCEPT ![d] = m]
      BY <1>5 DEF Mount, regs
    <2>2. Disk = NoDisk
      <3>1. m # NoDisk
        BY DskAssumption
      <3> QED BY <1>0, <2>1, <3>1 DEF Disk
    <2> QED BY <1>0, <2>1, <2>2 DEF Empty, Pending
  <1>6. ASSUME NEW d \in Drives, Unmount(d)
        PROVE  ~writeback' /\ ~Pending("WRITE")'
    <2>1. /\ UNCHANGED <<active, state, pc>> /\ mounted' = [mounted EXCEPT ![d] = NoDisk]
          /\ writeback' = (writeback /\ ~(active.drive = d /\ writeback))
          /\ pc = "task" /\ state = "IDLE"
      BY <1>1, <1>6 DEF Unmount, MayMount, InMenu, regs
    <2>2. CASE d = active.drive
      BY <2>1, <2>2 DEF Pending, TypeOK, Core0Typed
    <2>3. CASE d # active.drive
      <3>1. Disk = NoDisk
        BY <1>0, <2>1, <2>3 DEF Disk
      <3> QED BY <1>0, <2>1, <3>1 DEF Empty, Pending
    <2> QED BY <2>2, <2>3
  <1>7. CASE Stop
    <2>1. UNCHANGED <<active, mounted, writeback>> /\ state' = "IDLE" /\ pc' = "task"
      BY <1>7 DEF Stop, disks
    <2>2. Disk' = Disk
      BY <2>1 DEF Disk
    <2> QED BY <1>0, <2>1, <2>2 DEF Empty, Pending
  <1>8. CASE DskInit
    BY <1>8 DEF DskInit, InMenu, Pending
  <1>9. ASSUME NEW on \in BOOLEAN, Pause(on)
        PROVE  ~writeback' /\ ~Pending("WRITE")'
    <2>1. UNCHANGED <<active, mounted, writeback, state, pc, rmw>>
      BY <1>9 DEF Pause, regs, disks
    <2>2. Disk' = Disk
      BY <2>1 DEF Disk
    <2> QED BY <1>0, <2>1, <2>2 DEF Empty, Pending
  <1> QED BY <1>2, <1>3, <1>4, <1>5, <1>6, <1>7, <1>8, <1>9 DEF Next, MainLoop

Kept ==
  /\ TypeOK /\ PositionInSector /\ OneCommand /\ Started
  /\ Home /\ Intact(image)

LEMMA KeptInit == SameTracks /\ Init => Kept
  <1> SUFFICES ASSUME Init PROVE Kept
    OBVIOUS
  <1>1. PositionInSector /\ Started /\ ~Pending("WRITE")
    BY Sizes DEF Init, PositionInSector, NoRmw, Started, Pending
  <1>2. HeadOn
    <2>1. mounted \in [Drives -> Media \cup {NoDisk}]
      BY DskAssumption DEF Init
    <2>2. \A m \in Media : 0 < Tracks[m]
      BY TrackCounts
    <2> QED BY <2>1, <2>2 DEF Init, HeadOn
  <1>3. Here /\ Marked /\ Ready /\ Stuck /\ Empty
    BY <1>1 DEF Init, Here, Marked, Ready, Stuck, Empty
  <1>4. Intact(image)
    BY DEF Init, Intact
  <1> QED BY <1>1, <1>2, <1>3, <1>4, InitTyped, OneCommandInit DEF Kept, Home

LEMMA KeptStep == Orderly /\ Kept /\ [Next]_vars => Kept'
  <1> SUFFICES ASSUME Orderly, Kept, [Next]_vars PROVE Kept'
    OBVIOUS
  <1>0. NoForceInt /\ SameTracks
    BY DEF Orderly
  <1>1. CASE Next
    <2>1. TypeOK' /\ PositionInSector'
      BY <1>1, StepTyped, StepPosition DEF Kept
    <2>2. OneCommand'
      BY <1>0, <1>1, StepAlone, StepBusy DEF Kept, OneCommand
    <2>3. Started'
      BY <1>0, <1>1, StepStarted DEF Kept
    <2>4. HeadOn' /\ Ready' /\ Stuck'
      BY <1>0, <1>1, StepHeadOn, StepReady, StepStuck DEF Kept, Home
    <2>5. Here' /\ Marked' /\ Empty'
      BY <1>1, StepHere, StepEmpty DEF Kept
    <2>6. Intact(image')
      BY <1>1, StepIntact DEF Kept
    <2> QED BY <2>1, <2>2, <2>3, <2>4, <2>5, <2>6 DEF Kept, Home, Intact
  <1>2. CASE UNCHANGED vars
    <2>1. TypeOK' /\ PositionInSector' /\ OneCommand'
      BY <1>2, StutterTyped, OneCommandStutter DEF Kept
    <2>2. UNCHANGED <<state, pos, pc, rmw, command, host, drq, active, mounted, maxTracks>>
      BY <1>2 DEF vars, regs, core0, xfer, ghosts, disks
    <2>3. UNCHANGED <<buf, bufUpdate, writeback, image>>
      BY <1>2 DEF vars, regs, core0, disks
    <2>4. Disk' = Disk /\ ActivePlace' = ActivePlace
      BY <2>2 DEF Disk, ActivePlace
    <2>5. Started' /\ Home'
      BY <2>2, <2>3, <2>4 DEF Kept, Started, Home, HeadOn, Here, Marked, Ready, Stuck, Empty, InReset, Pending
    <2> QED BY <2>1, <2>3, <2>5 DEF Kept, Intact
  <1> QED BY <1>1, <1>2

\* No image ever receives another place's track, whichever commands a DOS
\* issues and whatever core 0 is held up, although the disks are swapped in the
\* LOCI menu between two commands and the 6502 may be reset within one: the
\* buffer and the head part only while the buffer is marked neither loaded nor
\* changed.  The images have the same number of tracks.
THEOREM ImagesStayIntact ==
  ASSUME Orderly
  PROVE  Spec => []ImagesIntact
  <1>1. Init => Kept
    BY KeptInit DEF Orderly
  <1>2. Kept /\ [Next]_vars => Kept'
    BY KeptStep
  <1>3. Kept => ImagesIntact
    BY DEF Kept, Intact, ImagesIntact
  <1> QED BY <1>1, <1>2, <1>3, PTL DEF Spec

-----------------------------------------------------------------------------
(***************************************************************************)
(* The track that a sector is read from, or written to: the one under the  *)
(* head when the 6502 issued the command.  The track register shows it,    *)
(* when every step of the head is made with the update flag and no drive   *)
(* was EMPTY from the start (a seek on it takes the head to track -1).     *)
(***************************************************************************)
NoneEmpty == \A d \in Drives : Start[d] # NoDisk
Updating  == "UPD" \in Flags \/ Ops \cap {"STEP", "STEP_IN", "STEP_OUT"} = {}

Flagged == \A i \in Queued : fifo[i].op \in TypeI \ {"RESTORE"} => "UPD" \in fifo[i].flags

RegisterTells ==
  /\ \A d \in Drives, m \in Media : maxTracks[d] = Tracks[m]
  /\ InReset \/ ioTrack = (IF state = "SEEK" THEN nextTrack ELSE active.track)
  /\ state = "SEEK" => \A m \in Media : nextTrack < Tracks[m]
  /\ state = "SEEK" /\ pc \in {"rd", "wr"} => nextTrack = active.track
  /\ Flagged

PlaceOf(drive, side, track) ==
  IF mounted[drive] = NoDisk THEN NoPlace ELSE <<mounted[drive], side, track>>

Told ==
  /\ \A i \in Queued : ~InReset /\ fifo[i].op \in Reads \cup Writes =>
       host.at = PlaceOf(fifo[i].drive, fifo[i].side, active.track)
  /\ ~InReset /\ state # "IDLE" /\ host.op \in Reads \cup Writes =>
       host.at = PlaceOf(command.drive, command.side, active.track)
  /\ ~InReset /\ (Pending("READ") \/ Pending("WRITE")) /\ host.op \in {"RSEC", "WSEC"} =>
       Disk # NoDisk

\* "Don't seek beyond max tracks" (Clamped): the head stays on the disk.
LEMMA ClampedBelow ==
  ASSUME NoneEmpty, TypeOK, \A d \in Drives, m \in Media : maxTracks[d] = Tracks[m],
         NEW track \in Nat
  PROVE  /\ \A m \in Media : Clamped(track) < Tracks[m]
         /\ Clamped(0) = 0
  <1>1. active.drive \in Drives
    BY DEF TypeOK, Core0Typed
  <1>2. PICK m \in Media : TRUE
    BY Units, DskAssumption DEF NoneEmpty
  <1>3. maxTracks[active.drive] \in Nat /\ 1 <= maxTracks[active.drive]
    BY <1>1, <1>2, TrackCounts
  <1>4. Clamped(track) < maxTracks[active.drive] /\ Clamped(0) = 0
    BY <1>3 DEF Clamped
  <1> QED BY <1>1, <1>4

LEMMA StepRegister ==
  ASSUME Orderly, NoneEmpty, Updating, TypeOK, OneCommand, Started, RegisterTells, Next
  PROVE  RegisterTells'
  <1>0. /\ Flagged /\ Alone /\ fifo \in Seq(Words) /\ NoForceInt
        /\ active \in [drive : Drives, side : Sides, track : TrackNrs]
        /\ maxTracks \in [Drives -> 0 .. MaxTrack] /\ mounted \in [Drives -> Media \cup {NoDisk}]
    BY DEF RegisterTells, OneCommand, Orderly, TypeOK, Core1Typed, Core0Typed, DisksTyped
  <1>1. CASE Core1 /\ ~paused
    <2>1. ~InReset /\ UNCHANGED <<state, pc, active, ioTrack, nextTrack, maxTracks>>
      BY <1>0, <1>1, Core1Frame DEF Alone
    <2>2. ASSUME NEW op \in Ops, NEW flags \in SUBSET Flags, NEW target \in 0 .. MaxTrack,
                 NEW known \in BOOLEAN, WriteCmd(op, flags, target, known),
                 "UPD" \in flags <=> "UPD" \in Flags /\ op \in TypeI \ {"RESTORE"},
                 op = "SEEK" => "UPD" \in flags
          PROVE  Flagged'
      <3> DEFINE word == [cmd |-> TRUE, op |-> op, flags |-> flags, sector |-> known,
                          drive |-> ctrl.drive, side |-> ctrl.side, track |-> ioTrack % 128]
      <3>1. \A i \in Queued' : fifo'[i] = word
        <4>1. NoForceInt
          BY <1>0
        <4>2. ~paused
          BY <1>1
        <4>3. WriteCmd(op, flags, target, known)
          BY <2>2
        <4> QED BY <4>1, <4>2, <4>3, Queueing
      <3>2. op \in TypeI \ {"RESTORE"} => "UPD" \in flags
        BY <2>2 DEF TypeI, Updating
      <3>3. word.op = op /\ word.flags = flags
        OBVIOUS
      <3> HIDE DEF word
      <3> QED BY <3>1, <3>2, <3>3 DEF Flagged
    <2>3. ASSUME NEW drive \in Drives, NEW side \in Sides, NEW ie \in IrqEnables,
                 WriteCtrl(drive, side, ie)
          PROVE  Flagged'
      <3>1. \A i \in Queued' : i \in Queued /\ fifo'[i] = fifo[i]
        BY <2>3, CtrlQueueing
      <3> QED BY <1>0, <3>1 DEF Flagged
    <2>4. ASSUME ReadStatus \/ ReadData \/ WriteData
          PROVE  Flagged'
      <3>1. fifo' = fifo
        BY <2>4 DEF ReadStatus, ReadData, WriteData, core1
      <3>2. \A i \in Queued' : i \in Queued /\ fifo'[i] = fifo[i]
        BY <3>1 DEF Queued
      <3> QED BY <1>0, <3>2 DEF Flagged
    <2>5. Flagged'
      BY <1>1, <2>2, <2>3, <2>4 DEF Core1
    <2> QED BY <2>1, <2>5 DEF RegisterTells
  <1>2. ASSUME fifo # <<>>, fifo' = Tail(fifo)
        PROVE  Flagged'
    <2>1. \A i \in Queued' : i + 1 \in Queued /\ fifo'[i] = fifo[i + 1]
      BY <1>0, <1>2, QueuedPop
    <2> QED BY <1>0, <2>1 DEF Flagged
  <1>3. CASE TakeCommand
    <2>1. /\ Head(fifo) \in Words /\ 1 \in Queued /\ Head(fifo) = fifo[1]
      BY <1>0, <1>3, Taking
    <2>2. /\ TypeICommand(Head(fifo)) \/ OtherCommand(Head(fifo))
          /\ TypeICommand(Head(fifo)) <=> Head(fifo).op \in TypeI
          /\ state' = "SEEK" <=> Head(fifo).op \in TypeI
          /\ state = "IDLE" /\ pc' = "select"
      BY <1>0, <1>3, TakenState
    <2>3. UNCHANGED <<active, maxTracks, host>>
      BY <1>3 DEF TakeCommand, disks, ghosts
    <2>4. Flagged'
      BY <1>2, <1>3 DEF TakeCommand
    <2>5. CASE TypeICommand(Head(fifo))
      <3>1. Target(Head(fifo)) \in Nat
        BY <2>1, <2>5, TargetTyped DEF TypeOK, TypeICommand
      <3>2. nextTrack' = Clamped(Target(Head(fifo))) /\ \A m \in Media : nextTrack' < Tracks[m]
        <4>1. nextTrack' = Clamped(Target(Head(fifo)))
          BY <2>5 DEF TypeICommand
        <4> QED BY <3>1, <4>1, ClampedBelow DEF RegisterTells
      <3>3. CASE Head(fifo).op = "RESTORE"
        <4>1. Target(Head(fifo)) = 0
          BY <3>3 DEF Target
        <4>2. Clamped(0) = 0
          BY ClampedBelow DEF RegisterTells
        <4>3. ioTrack' = IF "UPD" \in Head(fifo).flags THEN nextTrack' ELSE 0
          BY <2>5, <3>2, <3>3, <4>1 DEF TypeICommand
        <4>4. ioTrack' = nextTrack'
          BY <3>2, <4>1, <4>2, <4>3
        <4> QED BY <2>2, <2>3, <2>4, <2>5, <3>2, <4>4 DEF RegisterTells
      <3>4. CASE Head(fifo).op # "RESTORE"
        <4>1. "UPD" \in Head(fifo).flags
          BY <1>0, <2>1, <2>2, <2>5, <3>4 DEF Flagged
        <4>2. ioTrack' = nextTrack'
          BY <2>5, <4>1 DEF TypeICommand
        <4> QED BY <2>2, <2>3, <2>4, <2>5, <3>2, <4>2 DEF RegisterTells
      <3> QED BY <3>3, <3>4
    <2>6. CASE OtherCommand(Head(fifo))
      <3>1. ioTrack' = ioTrack /\ state' # "SEEK"
        BY <2>2, <2>6 DEF OtherCommand
      <3> QED BY <2>2, <2>3, <2>4, <3>1 DEF RegisterTells, InReset
    <2> QED BY <2>2, <2>5, <2>6
  <1>4. CASE TakeCtrl
    <2>1. Flagged'
      BY <1>2, <1>4 DEF TakeCtrl
    <2> QED BY <1>4, <2>1 DEF TakeCtrl, RegisterTells, InReset, regs, disks, ghosts
  <1>5. CASE Seek
    <2>1. UNCHANGED <<state, ioTrack, nextTrack, fifo, mounted, maxTracks, host>> /\ state = "SEEK" /\ Disk # NoDisk
      BY <1>5 DEF Seek, core1, xfer, disks, ghosts
    <2>2. Flagged'
      BY <1>0, <2>1 DEF Flagged, Queued
    <2>3. mounted[active.drive] \in Media /\ active.drive \in Drives
      BY <1>0, <2>1 DEF Disk
    <2>4. CanLoad(active.drive, nextTrack)
      <3>1. nextTrack < maxTracks[active.drive]
        BY <2>1, <2>3 DEF RegisterTells
      <3>2. nextTrack \in Nat /\ maxTracks[active.drive] \in Nat
        BY <1>0, <2>3, Sizes DEF TypeOK, TransferTyped
      <3> QED BY <2>1, <3>1, <3>2 DEF CanLoad, Disk
    <2>5. active'.track = nextTrack
      <3>1. active' = IF nextTrack # active.track THEN [active EXCEPT !.track = nextTrack] ELSE active
        BY <1>5, <2>4 DEF Seek
      <3> QED BY <1>0, <3>1
    <2> QED BY <2>1, <2>2, <2>5 DEF RegisterTells, InReset
  <1>6. CASE WriteStatusReg
    <2>1. UNCHANGED <<ioTrack, nextTrack, fifo, active, maxTracks, host>> /\ state' = rmw.next /\ pc = "wr"
      BY <1>6 DEF WriteStatusReg, core1, xfer, disks, ghosts
    <2>2. state' # "SEEK"
      <3>1. <<state, rmw.next>> \in Transitions
        BY <2>1 DEF OneCommand, Busy
      <3> QED BY <2>1, <3>1 DEF Transitions
    <2>3. InReset \/ ioTrack = active.track
      BY <2>1 DEF RegisterTells
    <2>4. Flagged'
      BY <1>0, <2>1 DEF Flagged, Queued
    <2> QED BY <2>1, <2>2, <2>3, <2>4 DEF RegisterTells, InReset
  <1>7. ASSUME UNCHANGED <<ioTrack, nextTrack, fifo, maxTracks, host>>, active'.track = active.track,
               state' = "SEEK" <=> state = "SEEK",
               state = "SEEK" /\ pc' \in {"rd", "wr"} => pc \in {"rd", "wr"}
        PROVE  RegisterTells'
    <2>1. Flagged'
      BY <1>0, <1>7 DEF Flagged, Queued
    <2> QED BY <1>7, <2>1 DEF RegisterTells, InReset
  <1>8. CASE Idle \/ AwaitDisk \/ TestIrq \/ RaiseIrq \/ ReadStatusReg
    BY <1>7, <1>8 DEF Idle, AwaitDisk, TestIrq, RaiseIrq, ReadStatusReg, regs, core1, xfer, disks, ghosts
  <1>9. CASE Select
    <2>1. active'.track = active.track
      BY <1>0, <1>9 DEF Select, Selected
    <2> QED BY <1>7, <1>9, <2>1 DEF Select, core1, xfer, ghosts
  <1>10. CASE NotFound \/ ReadPrep \/ ReadAddr \/ OfferByte \/ ReadDone
    BY <1>7, <1>10 DEF NotFound, ReadPrep, ReadAddr, OfferByte, ReadDone, regs, core1, xfer, disks, ghosts
  <1>11. CASE WritePrep \/ AskByte \/ WriteDone \/ Finish
    BY <1>7, <1>11 DEF WritePrep, AskByte, WriteDone, Finish, regs, core1, xfer, disks, ghosts
  <1>12. CASE Wait \/ TimedOut
    <2>1. /\ UNCHANGED <<ioTrack, nextTrack, fifo, maxTracks, host, active>>
          /\ state' = state \/ state' = "TOGGLE"
      BY <1>12 DEF Wait, TimedOut, core1, xfer, disks, ghosts
    <2>2. state \in {"READ", "WRITE"}
      BY <1>12 DEF Wait, TimedOut, Started
    <2> QED BY <1>7, <2>1, <2>2
  <1>13. CASE Stop \/ DskInit
    <2>1. state' = "IDLE" /\ fifo' = fifo /\ maxTracks' = maxTracks
      BY <1>13 DEF Stop, DskInit, core1, disks
    <2>3. Stop => InReset'
      BY DEF Stop, InReset, NoHost
    <2>4. DskInit => ioTrack' = 0 /\ active'.track = 0
      BY DEF DskInit
    <2>2. Flagged'
      BY <1>0, <2>1 DEF Flagged, Queued
    <2> QED BY <1>13, <2>1, <2>2, <2>3, <2>4 DEF RegisterTells
  <1>14. ASSUME NEW d \in Drives, NEW on \in BOOLEAN, Unmount(d) \/ Pause(on)
         PROVE  RegisterTells'
    BY <1>7, <1>14 DEF Unmount, Pause, regs, core1, xfer, disks, ghosts
  <1>15. ASSUME NEW d \in Drives, NEW m \in Media, Mount(d, m)
         PROVE  RegisterTells'
    <2>1. /\ UNCHANGED <<ioTrack, nextTrack, fifo, active, state, pc, host>>
          /\ maxTracks' = [maxTracks EXCEPT ![d] = Tracks[m]]
      BY <1>15 DEF Mount, regs, core1, xfer, ghosts
    <2>2. maxTracks' = maxTracks
      BY <1>0, <2>1 DEF RegisterTells
    <2> QED BY <1>7, <2>1, <2>2
  <1> QED BY <1>1, <1>3, <1>4, <1>5, <1>6, <1>8, <1>9, <1>10, <1>11, <1>12, <1>13, <1>14, <1>15, Units
          DEF Next, DskTask, MainLoop

\* A step that changes neither the head, the disks nor the command.
LEMMA ToldKept ==
  ASSUME Told, UNCHANGED <<active, mounted, command>>, host'.op = host.op, host'.at = host.at,
         \A i \in Queued' : i \in Queued /\ fifo'[i] = fifo[i],
         state' # "IDLE" => state # "IDLE",
         Pending("READ")' \/ Pending("WRITE")' => Pending("READ") \/ Pending("WRITE") \/ Disk # NoDisk
  PROVE  Told'
  <1>1. InReset' = InReset /\ Disk' = Disk
    BY DEF InReset, Disk
  <1>2. \A i \in Queued' : ~InReset /\ fifo'[i].op \in Reads \cup Writes =>
          host.at = PlaceOf(fifo'[i].drive, fifo'[i].side, active.track)
    BY DEF Told
  <1>3. ~InReset /\ state' # "IDLE" /\ host.op \in Reads \cup Writes =>
          host.at = PlaceOf(command.drive, command.side, active.track)
    BY DEF Told
  <1>4. ~InReset /\ (Pending("READ")' \/ Pending("WRITE")') /\ host.op \in {"RSEC", "WSEC"} =>
          Disk # NoDisk
    BY DEF Told
  <1> QED BY <1>1, <1>2, <1>3, <1>4 DEF Told, PlaceOf

LEMMA StepTold ==
  ASSUME Orderly, NoneEmpty, Updating, TypeOK, OneCommand, Started, RegisterTells, Told, Next, OneCommand'
  PROVE  Told'
  <1>0. /\ Alone /\ Busy /\ fifo \in Seq(Words) /\ NoForceInt
        /\ active \in [drive : Drives, side : Sides, track : TrackNrs]
        /\ mounted \in [Drives -> Media \cup {NoDisk}]
    BY DEF OneCommand, Orderly, TypeOK, Core1Typed, Core0Typed, DisksTyped
  <1>1. ASSUME ~paused, NEW op \in Ops, NEW flags \in SUBSET Flags, NEW target \in 0 .. MaxTrack,
               NEW known \in BOOLEAN, WriteCmd(op, flags, target, known)
        PROVE  Told'
    <2> DEFINE word == [cmd |-> TRUE, op |-> op, flags |-> flags, sector |-> known,
                        drive |-> ctrl.drive, side |-> ctrl.side, track |-> ioTrack % 128]
    <2>0. NoForceInt /\ ~paused /\ WriteCmd(op, flags, target, known)
      BY <1>0, <1>1
    <2>1. ~InReset /\ state = "IDLE" /\ \A i \in Queued' : fifo'[i] = word
      <3>1. NoForceInt
        BY <2>0
      <3>2. ~paused
        BY <2>0
      <3>3. WriteCmd(op, flags, target, known)
        BY <2>0
      <3> QED BY <3>1, <3>2, <3>3, Queueing
    <2>2. word.op = op /\ word.drive = ctrl.drive /\ word.side = ctrl.side
      OBVIOUS
    <2> HIDE DEF word
    <2>3. UNCHANGED <<state, pc, rmw, active, mounted>>
      BY <1>1 DEF WriteCmd, core0, disks
    <2>4. ~Pending("READ")' /\ ~Pending("WRITE")' /\ state' = "IDLE"
      BY <1>0, <2>1, <2>3 DEF Busy, Pending
    <2>5. op \in Reads \cup Writes => host'.at = PlaceOf(ctrl.drive, ctrl.side, active.track)
      <3>1. ioTrack = active.track
        BY <2>1 DEF RegisterTells
      <3>2. op \in Reads \cup Writes => host'.at = Addressed
        BY <1>1 DEF WriteCmd
      <3>3. ctrl.drive \in Drives /\ ctrl.side \in Sides
        BY DEF TypeOK, Core1Typed
      <3>4. CASE mounted[ctrl.drive] = NoDisk
        <4>1. <<mounted[ctrl.drive], ctrl.side, ioTrack>> \notin Places
          BY <3>4, DskAssumption DEF Places
        <4> QED BY <3>2, <3>4, <4>1 DEF Addressed, PlaceOf
      <3>5. CASE mounted[ctrl.drive] # NoDisk
        <4>1. <<mounted[ctrl.drive], ctrl.side, ioTrack>> \in Places
          BY <1>0, <3>1, <3>3, <3>5 DEF Places
        <4> QED BY <3>1, <3>2, <3>5, <4>1 DEF Addressed, PlaceOf
      <3> QED BY <3>4, <3>5
    <2>6. \A i \in Queued' : fifo'[i].op \in Reads \cup Writes =>
            host'.at = PlaceOf(fifo'[i].drive, fifo'[i].side, active.track)
      BY <2>1, <2>2, <2>5
    <2> QED BY <2>3, <2>4, <2>6 DEF Told, PlaceOf
  <1>2. ASSUME NEW drive \in Drives, NEW side \in Sides, NEW ie \in IrqEnables,
               WriteCtrl(drive, side, ie)
        PROVE  Told'
    <2>1. UNCHANGED <<active, mounted, command, host, state, pc, rmw>>
      BY <1>2 DEF WriteCtrl, core0, xfer, disks, regs, ghosts
    <2>2. \A i \in Queued' : i \in Queued /\ fifo'[i] = fifo[i]
      BY <1>2, CtrlQueueing
    <2> QED BY <2>1, <2>2, ToldKept DEF Pending
  <1>3. CASE ReadStatus \/ ReadData \/ WriteData
    <2>1. UNCHANGED <<active, mounted, command, state, pc, rmw, fifo>>
      BY <1>3 DEF ReadStatus, ReadData, WriteData, core0, core1, xfer, disks
    <2>2. host'.op = host.op /\ host'.at = host.at
      BY <1>3 DEF ReadStatus, ReadData, WriteData, ghosts, TypeOK, HistoryTyped
    <2> QED BY <2>1, <2>2, ToldKept DEF Pending, Queued
  <1>4. CASE TakeCtrl
    <2>1. UNCHANGED <<active, mounted, command, host, state>> /\ state = "IDLE" /\ pc' = "irq"
      BY <1>4 DEF TakeCtrl, disks, regs, ghosts
    <2>2. \A i \in Queued' : i + 1 \in Queued /\ fifo'[i] = fifo[i + 1]
      BY <1>0, <1>4, QueuedPop DEF TakeCtrl
    <2>3. \A i \in Queued' : ~InReset /\ fifo'[i].op \in Reads \cup Writes =>
            host.at = PlaceOf(fifo'[i].drive, fifo'[i].side, active.track)
      BY <2>2 DEF Told
    <2>4. ~Pending("READ")' /\ ~Pending("WRITE")'
      BY <2>1 DEF Pending
    <2> QED BY <2>1, <2>3, <2>4 DEF Told, PlaceOf, InReset
  <1>5. CASE TakeCommand
    <2>1. UNCHANGED <<active, mounted, host>> /\ pc' = "select"
      BY <1>5 DEF TakeCommand, disks, ghosts
    <2>2. /\ Head(fifo) \in Words /\ 1 \in Queued /\ Head(fifo) = fifo[1]
          /\ ~InReset => Head(fifo).op = host.op
      BY <1>0, <1>5, Taking
    <2>3. /\ TypeICommand(Head(fifo)) <=> Head(fifo).op \in TypeI
          /\ TypeICommand(Head(fifo)) \/ OtherCommand(Head(fifo))
          /\ state' = "READ"  => Head(fifo).op = "RTRACK"
          /\ state' = "WRITE" => Head(fifo).op = "WTRACK"
      BY <1>0, <1>5, TakenState
    <2>4. Queued' = {}
      <3>1. state' # "IDLE"
        BY <2>1 DEF OneCommand, Busy
      <3> QED BY <3>1 DEF OneCommand, Alone
    <2>5. ~InReset /\ host.op \in Reads \cup Writes =>
            host.at = PlaceOf(command'.drive, command'.side, active.track)
      <3>1. host.op \in Reads \cup Writes => host.op \notin TypeI
        BY DEF Reads, Writes, TypeI
      <3>2. OtherCommand(Head(fifo)) => command' = Head(fifo)
        BY DEF OtherCommand
      <3> QED BY <2>2, <2>3, <3>1, <3>2 DEF Told
    <2>6. ~InReset /\ host.op \in {"RSEC", "WSEC"} => ~Pending("READ")' /\ ~Pending("WRITE")'
      BY <2>1, <2>2, <2>3 DEF Pending
    <2> QED BY <2>1, <2>4, <2>5, <2>6 DEF Told, PlaceOf, InReset
  <1>6. CASE Select
    <2>1. /\ UNCHANGED <<mounted, host, state, command, fifo>> /\ pc = "select" /\ pc' = "irq"
          /\ active'.track = active.track
      BY <1>0, <1>6 DEF Select, Selected, core1, xfer, ghosts
    <2>2. ~InReset /\ host.op \in {"RSEC", "WSEC"} => ~Pending("READ")' /\ ~Pending("WRITE")'
      BY <1>0, <2>1 DEF Started, Busy, Pending
    <2>3. Queued' = Queued
      BY <2>1 DEF Queued
    <2> QED BY <2>1, <2>2, <2>3 DEF Told, PlaceOf, InReset
  <1>7. CASE Seek
    <2>1. /\ UNCHANGED <<mounted, host, state, command, fifo>> /\ state = "SEEK" /\ pc' = "rd"
          /\ rmw'.next = "TOGGLE"
      BY <1>7 DEF Seek, Update, core1, xfer, disks, ghosts
    <2>2. ~InReset => host.op \notin Reads \cup Writes
      <3>1. ~InReset => host.op \in TypeI
        BY <1>0, <2>1 DEF Started, Busy
      <3> QED BY <3>1 DEF Reads, Writes, TypeI
    <2>3. Queued' = {}
      BY <1>0, <2>1 DEF Alone, Queued
    <2>4. ~Pending("READ")' /\ ~Pending("WRITE")'
      BY <2>1 DEF Pending
    <2> QED BY <2>1, <2>2, <2>3, <2>4 DEF Told, InReset
  <1>8. CASE DskTask /\ ~TakeCtrl /\ ~TakeCommand /\ ~Select /\ ~Seek
    <2>1. UNCHANGED <<active, mounted, host>>
      <3>1. AskByte \/ WriteDone => UNCHANGED <<active, mounted, host>>
        BY DEF AskByte, WriteDone, disks, ghosts
      <3> QED BY <1>8, <3>1, Core0Frame
    <2>2. /\ command' = command /\ (state' # "IDLE" => state # "IDLE")
          /\ Pending("WRITE")' => Pending("WRITE") \/ WritePrep
          /\ Pending("READ")' => Pending("READ") \/ ReadPrep \/ ReadAddr
      BY <1>8, Progress
    <2>3. fifo' = fifo
      <3>1. Idle \/ TestIrq \/ RaiseIrq => fifo' = fifo
        BY DEF Idle, TestIrq, RaiseIrq, core1
      <3> QED BY <1>8, <3>1, Working
    <2>4. WritePrep \/ ReadPrep \/ ReadAddr => Disk # NoDisk
      BY DEF WritePrep, ReadPrep, ReadAddr
    <2>5. \A i \in Queued' : i \in Queued /\ fifo'[i] = fifo[i]
      BY <2>3 DEF Queued
    <2>6. Pending("READ")' \/ Pending("WRITE")' => Pending("READ") \/ Pending("WRITE") \/ Disk # NoDisk
      BY <2>2, <2>4
    <2> QED BY <2>1, <2>2, <2>5, <2>6, ToldKept
  <1>9. CASE MainLoop
    <2>1. pc = "task" /\ pc' = pc /\ fifo' = fifo
      BY <1>0, <1>9, MenuSteps
    <2>2. CASE Stop
      <3>1. InReset'
        BY <2>2 DEF Stop, NoHost, InReset
      <3> QED BY <3>1 DEF Told
    <2>3. CASE state' = "IDLE" /\ Queued = {}
      <3>1. Queued' = {} /\ ~Pending("READ")' /\ ~Pending("WRITE")'
        BY <2>1, <2>3 DEF Queued, Pending
      <3> QED BY <2>3, <3>1 DEF Told
    <2>4. CASE DskInit
      <3>1. Queued = {} /\ state' = "IDLE"
        BY <1>0, <1>9, <2>4, MenuSteps DEF DskInit, Stop, InMenu, Alone, Queued
      <3> QED BY <2>3, <3>1
    <2>5. ASSUME NEW d \in Drives, Unmount(d) \/ \E m \in Media : Mount(d, m)
          PROVE  Told'
      <3>1. Swaps # "never" /\ MayMount /\ state' = state
        BY <2>5 DEF Unmount, Mount, regs
      <3>2. state = "IDLE" /\ fifo = <<>>
        BY <3>1 DEF MayMount, InMenu, Orderly, SwapsWaitForIdle
      <3> QED BY <2>3, <3>1, <3>2 DEF Queued
    <2>6. ASSUME NEW on \in BOOLEAN, Pause(on)
          PROVE  Told'
      <3>1. UNCHANGED <<active, mounted, command, host, state, pc, rmw, fifo>>
        BY <2>6 DEF Pause, regs, core1, xfer, disks, ghosts
      <3> QED BY <3>1, ToldKept DEF Pending, Queued
    <2> QED BY <1>9, <2>2, <2>4, <2>5, <2>6 DEF MainLoop
  <1> QED BY <1>1, <1>2, <1>3, <1>4, <1>5, <1>6, <1>7, <1>8, <1>9 DEF Next, Core1

Served6502 == Kept /\ OnItsDrive /\ RegisterTells /\ Told

LEMMA ServedInit == Orderly /\ NoneEmpty /\ Init => Served6502
  <1> SUFFICES ASSUME Orderly, NoneEmpty, Init PROVE Served6502
    OBVIOUS
  <1>1. Queued = {} /\ state = "IDLE" /\ pc = "task"
    BY DEF Init, Queued
  <1>2. \A d \in Drives, m \in Media : maxTracks[d] = Tracks[m]
    <2>1. \A d \in Drives : Start[d] \in Media
      BY DskAssumption DEF NoneEmpty
    <2> QED BY <2>1 DEF Init, NoneEmpty, Orderly, SameTracks
  <1>3. ioTrack = active.track
    BY DEF Init
  <1>4. RegisterTells
    BY <1>1, <1>2, <1>3 DEF RegisterTells, Flagged
  <1>5. OnItsDrive /\ Told
    BY <1>1 DEF OnItsDrive, Told, Pending
  <1> QED BY <1>4, <1>5, KeptInit DEF Served6502, Orderly

LEMMA ServedStep ==
  Orderly /\ NoneEmpty /\ Updating /\ Served6502 /\ [Next]_vars => Served6502'
  <1> SUFFICES ASSUME Orderly, NoneEmpty, Updating, Served6502, [Next]_vars PROVE Served6502'
    OBVIOUS
  <1>0. NoForceInt /\ TypeOK /\ OneCommand /\ Started /\ Kept'
    BY KeptStep DEF Orderly, Served6502, Kept
  <1>1. CASE Next
    <2>1. OnItsDrive' /\ RegisterTells'
      BY <1>0, <1>1, StepOnItsDrive, StepRegister DEF Served6502
    <2>2. Told'
      BY <1>0, <1>1, StepTold DEF Served6502, Kept
    <2> QED BY <1>0, <2>1, <2>2 DEF Served6502
  <1>2. CASE UNCHANGED vars
    <2>1. UNCHANGED <<state, pc, rmw, command, host, active, mounted, maxTracks, ioTrack, nextTrack, fifo>>
      BY <1>2 DEF vars, regs, core0, core1, xfer, ghosts, disks
    <2>2. OnItsDrive' /\ RegisterTells'
      BY <2>1 DEF Served6502, OnItsDrive, RegisterTells, Flagged, Queued, InReset
    <2>3. Told'
      BY <2>1, ToldKept DEF Served6502, Pending, Queued
    <2> QED BY <1>0, <2>2, <2>3 DEF Served6502
  <1> QED BY <1>1, <1>2

\* A sector is read from the track that the 6502 addressed with the command,
\* and written into it: the drive and side it had selected and the track
\* register, although core 0 applies the selection later and only with the
\* command, and although disks are swapped between commands.
THEOREM AddressedTrackIsServed ==
  ASSUME Orderly, NoneEmpty, Updating
  PROVE  Spec => []ServesAddressedTrack
  <1>1. Init => Served6502
    BY ServedInit
  <1>2. Served6502 /\ [Next]_vars => Served6502'
    BY ServedStep
  <1>3. Served6502 => ServesAddressedTrack
    <2> SUFFICES ASSUME Served6502, state \in {"READ", "WRITE"}, host.op \in {"RSEC", "WSEC"}
                 PROVE  buf.at = host.at
      BY DEF ServesAddressedTrack
    <2>1. ~InReset /\ state # "IDLE" /\ Busy /\ Started /\ Ready /\ Here
      BY DEF InReset, Served6502, Kept, OneCommand, Home
    <2>2. pc # "select"
      BY <2>1 DEF Started, Busy
    <2>3. Disk # NoDisk
      BY <2>1 DEF Served6502, Told, Pending
    <2>4. buf.at = ActivePlace
      BY <2>1, <2>2, <2>3 DEF Ready, Here, Served6502, Kept, TypeOK, Core0Typed
    <2>5. active.drive = command.drive /\ active.side = command.side
      BY <2>1, <2>2 DEF Served6502, OnItsDrive
    <2>6. host.at = PlaceOf(command.drive, command.side, active.track)
      BY <2>1 DEF Served6502, Told, Reads, Writes
    <2> QED BY <2>3, <2>4, <2>5, <2>6 DEF PlaceOf, ActivePlace, Disk
  <1> QED BY <1>1, <1>2, <1>3, PTL DEF Spec

-----------------------------------------------------------------------------
(***************************************************************************)
(* The sectors that were accepted.  The disks stay in their drives; a      *)
(* sector has more than one byte (a raw track write puts its first byte    *)
(* into whatever the buffer holds when the drive is selected later); and   *)
(* core 0 is not held up while a raw track may be written (a byte that     *)
(* arrives after the controller has given up leaves the track unsaved).    *)
(***************************************************************************)
DisksStay == Swaps = "never" /\ SecLen > 1 /\ (SlowCore0 => "WTRACK" \notin Ops)

Held(m, s, t)     == [at |-> <<m, s, t>>, ver |-> stored[<<m, s, t>>]]
OnDisk(m, s, t)   == image[m][TrackOffset(m, s, t)] = Held(m, s, t)
InBuffer(m, s, t) == buf = Held(m, s, t) /\ ActivePlace = <<m, s, t>> /\ writeback

\* A raw track write was taken, and the track it writes is not yet loaded.
Early == pc = "select" /\ state = "WRITE" /\ NeedsReload

\* A sector that was accepted is on the disk or in the buffer, to be saved ...
Safe ==
  \A m \in Media, s \in Sides, t \in TrackNrs : stored[<<m, s, t>>] > 0 =>
    t < Tracks[m] /\ (OnDisk(m, s, t) \/ InBuffer(m, s, t))

\* ... and the command that sent it has no byte left to send.
Sent ==
  host.op \in Writes /\ host.at # NoPlace /\ stored[host.at] > 0 =>
    /\ host.n = SecLen /\ Queued = {} /\ state # "WRITE_PREP"
    /\ state = "WRITE" => pos + 1 = SecLen /\ ~drq /\ pc # "select"

\* The buffer holds the last sector accepted for the track under the head.
Fresh ==
  ~bufUpdate /\ ~Early /\ stored[ActivePlace] > 0 =>
    buf = [at |-> ActivePlace, ver |-> stored[ActivePlace]]

\* The buffer is marked as changed from the second byte on, never while it has
\* to be loaded, and no longer when the head moves.
Marking ==
  /\ Pending("WRITE") \/ state = "WRITE_PREP" => command.op \in Writes
  /\ Pending("WRITE") /\ pos > 0 => writeback
  /\ bufUpdate => ~writeback
  /\ state = "SEEK" /\ pc # "select" /\ nextTrack # active.track => ~writeback

\* When raw tracks are written, a changed buffer holds an accepted sector only
\* between its last byte and the end of the command.
Dirty ==
  "WTRACK" \in Ops /\ writeback /\ stored[ActivePlace] > 0 =>
    state = "WRITE" /\ ~drq /\ pos + 1 = SecLen /\ pc # "select"

Inserted == mounted = Start

Stored == Inserted /\ Safe /\ Sent /\ Fresh /\ Marking /\ Dirty

LEMMA Situation ==
  ASSUME DisksStay, NoneEmpty, Served6502, Inserted
  PROVE  /\ ~InReset
         /\ \A d \in Drives : mounted[d] \in Media
         /\ Disk \in Media /\ active.side \in Sides /\ active.drive \in Drives
         /\ active.track \in 0 .. (Tracks[Disk] - 1) /\ active.track \in TrackNrs
         /\ ActivePlace \in Places
         /\ ~bufUpdate => buf.at = ActivePlace
         /\ state # "IDLE" /\ pc # "select" => ~bufUpdate
         /\ state # "IDLE" => "BUSY" \in status
  <1>1. ~InReset
    BY DEF Served6502, Kept, OneCommand, Alone, DisksStay
  <1>2. \A d \in Drives : mounted[d] \in Media
    BY DskAssumption DEF Inserted, NoneEmpty
  <1>3. active \in [drive : Drives, side : Sides, track : TrackNrs]
    BY DEF Served6502, Kept, TypeOK, Core0Typed
  <1>4. Disk \in Media /\ Disk # NoDisk
    BY <1>2, <1>3, DskAssumption, ZenonT(60) DEF Disk
  <1>5. active.track \in 0 .. (Tracks[Disk] - 1)
    <2>1. active.track < Tracks[Disk] /\ active.track \in Nat
      BY <1>3, <1>4, Sizes DEF Served6502, Kept, Home, HeadOn, TrackNrs
    <2> QED BY <1>4, <2>1, TrackCounts
  <1>6. ~bufUpdate => buf.at = ActivePlace
    BY <1>4 DEF Served6502, Kept, Home, Here
  <1>7. state # "IDLE" /\ pc # "select" => ~bufUpdate
    BY <1>1 DEF Served6502, Kept, Home, Ready
  <1>8. state # "IDLE" => "BUSY" \in status
    BY <1>1 DEF Served6502, Kept, OneCommand, Busy
  <1> QED BY <1>1, <1>2, <1>3, <1>4, <1>5, <1>6, <1>7, <1>8 DEF ActivePlace, Places

\* The place a write command was issued for: the one its drive, its side and
\* the head point at, and the active one once it has selected them.
LEMMA WritePlace ==
  ASSUME DisksStay, NoneEmpty, Served6502, Inserted, state # "IDLE", host.op \in Writes
  PROVE  /\ host.at = <<mounted[command.drive], command.side, active.track>>
         /\ host.at \in Places /\ host.at # NoPlace
         /\ pc # "select" => host.at = ActivePlace
         /\ ~NeedsReload => host.at = ActivePlace
  <1>0. ~InReset /\ \A d \in Drives : mounted[d] \in Media
    BY Situation
  <1>1. command.drive \in Drives /\ command.side \in Sides /\ active.track \in TrackNrs
    BY DEF Served6502, Kept, TypeOK, TransferTyped, Words, Core0Typed
  <1>2. mounted[command.drive] \in Media /\ mounted[command.drive] # NoDisk
    BY <1>0, <1>1, DskAssumption, ZenonT(60)
  <1>3. host.at = PlaceOf(command.drive, command.side, active.track)
    BY <1>0 DEF Served6502, Told
  <1>4. host.at = <<mounted[command.drive], command.side, active.track>>
    BY <1>2, <1>3 DEF PlaceOf
  <1>5. host.at \in Places
    BY <1>1, <1>2, <1>4 DEF Places
  <1>6. host.at # NoPlace
    BY <1>2, <1>4 DEF NoPlace
  <1>7. pc # "select" => active.drive = command.drive /\ active.side = command.side
    BY <1>0 DEF Served6502, OnItsDrive
  <1>8. ~NeedsReload => active.drive = command.drive /\ active.side = command.side
    BY DEF NeedsReload
  <1> QED BY <1>4, <1>5, <1>6, <1>7, <1>8 DEF ActivePlace, Disk

\* After a flush of a buffer that holds the last sector accepted for its place,
\* every accepted sector is on the disk.
LEMMA FlushedHolds ==
  ASSUME OwnOffsets, DisksStay, NoneEmpty, Served6502, Inserted, Safe,
         stored[ActivePlace] > 0 => buf = [at |-> ActivePlace, ver |-> stored[ActivePlace]],
         NEW m \in Media, NEW s \in Sides, NEW t \in TrackNrs, stored[<<m, s, t>>] > 0
  PROVE  Flushed(image)[m][TrackOffset(m, s, t)] = Held(m, s, t)
  <1> DEFINE spot == TrackOffset(Disk, active.side, active.track)
             off  == TrackOffset(m, s, t)
  <1>0. /\ Disk \in Media /\ active.side \in Sides /\ active.track \in TrackNrs
        /\ active.track \in 0 .. (Tracks[Disk] - 1) /\ Disk # NoDisk
    BY Situation, DskAssumption
  <1>1. /\ spot \in Offsets /\ off \in Offsets
        /\ image \in [Media -> [Offsets -> Contents]]
    BY <1>0, OffsetTyped DEF Served6502, Kept, TypeOK, DisksTyped
  <1>2. Flushed(image) = [image EXCEPT ![Disk][spot] = buf]
    BY <1>0 DEF Flushed
  <1>3. t \in 0 .. (Tracks[m] - 1)
    BY TrackCounts, Sizes DEF Safe, TrackNrs
  <1>4. CASE <<m, s, t>> = ActivePlace
    <2>1. m = Disk /\ s = active.side /\ t = active.track
      BY <1>4 DEF ActivePlace
    <2>2. buf = Held(m, s, t)
      BY <1>4 DEF Held
    <2>3. off = spot
      BY <2>1
    <2> HIDE DEF spot, off
    <2>4. Flushed(image)[m][off] = buf
      BY <1>0, <1>1, <1>2, <2>1, <2>3
    <2> QED BY <2>2, <2>4 DEF off
  <1>5. CASE <<m, s, t>> # ActivePlace
    <2>1. OnDisk(m, s, t)
      BY <1>5 DEF Safe, InBuffer
    <2>2. ~(m = Disk /\ off = spot)
      <3> SUFFICES ASSUME m = Disk, off = spot PROVE FALSE
        OBVIOUS
      <3>1. s = active.side /\ t = active.track
        BY <1>0, <1>3, OffsetInjective
      <3> QED BY <1>5, <3>1 DEF ActivePlace
    <2> HIDE DEF spot, off
    <2>3. Flushed(image)[m][off] = image[m][off]
      BY <1>0, <1>1, <1>2, <2>2
    <2> QED BY <2>1, <2>3 DEF OnDisk, off
  <1> QED BY <1>4, <1>5

\* A step that neither moves nor changes the buffer, nor ends a command.
LEMMA StoredKept ==
  ASSUME TypeOK, Stored,
         UNCHANGED <<active, mounted, buf, bufUpdate, writeback, image, stored>>,
         UNCHANGED <<state, pos, nextTrack, command, pc, rmw>>,
         drq' => drq,
         host'.op = host.op /\ host'.at = host.at,
         Queued' \subseteq Queued,
         host.op \in Writes /\ host.at # NoPlace /\ stored[host.at] > 0 => host'.n = host.n
  PROVE  Stored'
  <1>1. ActivePlace' = ActivePlace /\ Disk' = Disk
    BY DEF ActivePlace, Disk
  <1>2. Safe' /\ Inserted'
    BY <1>1 DEF Stored, Safe, OnDisk, InBuffer, Held, Inserted
  <1>3. Early' = Early
    BY DEF Early, NeedsReload
  <1>4. Fresh' /\ Dirty'
    BY <1>1, <1>3 DEF Stored, Fresh, Dirty
  <1>5. Marking'
    BY DEF Stored, Marking, Pending
  <1>6. Sent'
    BY DEF Stored, Sent
  <1> QED BY <1>2, <1>4, <1>5, <1>6 DEF Stored

LEMMA CommandStored ==
  ASSUME NoForceInt, DisksStay, NoneEmpty, Served6502, Stored, ~paused,
         NEW op \in Ops, NEW flags \in SUBSET Flags, NEW target \in 0 .. MaxTrack,
         NEW known \in BOOLEAN, WriteCmd(op, flags, target, known)
  PROVE  Stored'
  <1>1. state = "IDLE"
    <2>1. TypeOK /\ OneCommand
      BY DEF Served6502, Kept
    <2> QED BY <2>1, Queueing
  <1>2. /\ UNCHANGED <<active, mounted, buf, bufUpdate, writeback, image, drq>>
        /\ UNCHANGED <<state, pos, nextTrack, command, pc, rmw>>
        /\ ActivePlace' = ActivePlace
    BY DEF WriteCmd, core0, xfer, disks, ActivePlace, Disk
  <1>3. stored \in [Places -> Versions]
    BY DEF Served6502, Kept, TypeOK, HistoryTyped
  <1>4. stored' = stored \/ (Addressed \in Places /\ stored' = [stored EXCEPT ![Addressed] = Torn])
    BY DEF WriteCmd, Addressed
  <1>5. \A q \in Places : stored'[q] > 0 => stored[q] > 0 /\ stored'[q] = stored[q]
    <2>1. ~(Torn > 0)
      BY DEF Torn
    <2> QED BY <1>3, <1>4, <2>1
  <1>6. host'.op \in Writes /\ host'.at # NoPlace => ~(stored'[host'.at] > 0)
    <2> SUFFICES ASSUME host'.op \in Writes, host'.at # NoPlace PROVE ~(stored'[host'.at] > 0)
      OBVIOUS
    <2>1. op \in Writes /\ host'.at = Addressed
      BY DEF WriteCmd
    <2>2. Addressed \in Places /\ stored' = [stored EXCEPT ![Addressed] = Torn]
      BY <2>1 DEF WriteCmd, Addressed
    <2>3. stored'[Addressed] = Torn
      BY <1>3, <2>2
    <2> QED BY <2>1, <2>3 DEF Torn
  <1>7. Safe' /\ Inserted'
    <2>1. ASSUME NEW m \in Media, NEW s \in Sides, NEW t \in TrackNrs, stored'[<<m, s, t>>] > 0
          PROVE  t < Tracks[m] /\ (OnDisk(m, s, t)' \/ InBuffer(m, s, t)')
      <3>1. <<m, s, t>> \in Places
        BY DEF Places
      <3>2. stored[<<m, s, t>>] > 0 /\ Held(m, s, t)' = Held(m, s, t)
        BY <1>5, <2>1, <3>1 DEF Held
      <3> QED BY <1>2, <3>2 DEF Stored, Safe, OnDisk, InBuffer
    <2> QED BY <1>2, <2>1 DEF Safe, Stored, Inserted
  <1>8. Fresh' /\ Dirty'
    <2>1. ActivePlace \in Places
      BY Situation DEF Stored
    <2>2. stored'[ActivePlace] > 0 => stored[ActivePlace] > 0 /\ stored'[ActivePlace] = stored[ActivePlace]
      BY <1>5, <2>1
    <2>3. ~Early /\ ~Early'
      BY <1>1, <1>2 DEF Early
    <2> QED BY <1>2, <2>2, <2>3 DEF Stored, Fresh, Dirty
  <1>9. Marking'
    BY <1>2 DEF Stored, Marking, Pending
  <1>10. Sent'
    BY <1>6 DEF Sent
  <1> QED BY <1>7, <1>8, <1>9, <1>10 DEF Stored

\* With the last byte the sector is in the buffer, marked as changed; a byte
\* before it changes a sector that is not yet accepted.
LEMMA ByteStored ==
  ASSUME DisksStay, NoneEmpty, Served6502, Stored, WriteData, StoreByte
  PROVE  Stored'
  <1> DEFINE complete == host.n = pos /\ host.n + 1 = SecLen
  <1>1. /\ state = "WRITE" /\ host.op \in Writes /\ drq /\ drq' = FALSE
        /\ UNCHANGED <<active, mounted, bufUpdate, writeback, image>>
        /\ UNCHANGED <<state, pos, nextTrack, command, pc, rmw, fifo>>
        /\ host' = [host EXCEPT !.n = @ + 1] /\ host.n < SecLen
    BY DEF WriteData, StoreByte, core0, core1, xfer, disks
  <1>2. /\ stored \in [Places -> Versions] /\ buf \in Contents /\ pos \in Nat
        /\ host \in [op : AllOps \cup {"NONE", "RESET"}, at : Places \cup {NoPlace}, n : 0 .. SecLen,
                     ver : 0 .. MaxWrites]
        /\ bufUpdate \in BOOLEAN /\ writeback \in BOOLEAN
    BY Sizes DEF Served6502, Kept, TypeOK, RegistersTyped, HistoryTyped, Core0Typed
  <1>3. host.at \in Places /\ host.at # NoPlace /\ ActivePlace \in Places /\ SecLen \in Nat
    BY <1>1, WritePlace, Situation, Sizes DEF Stored
  <1>4. ~(stored[host.at] > 0)
    BY <1>1, <1>3 DEF Stored, Sent
  <1>5. host'.op = host.op /\ host'.at = host.at /\ host'.n = host.n + 1
    BY <1>1, <1>2
  <1>6. ActivePlace' = ActivePlace /\ Disk' = Disk /\ Queued' = Queued /\ Early' = Early
    BY <1>1 DEF ActivePlace, Disk, Queued, Early, NeedsReload
  <1>7. Inserted' /\ Marking'
    BY <1>1 DEF Stored, Inserted, Marking, Pending
  <1>8. CASE complete
    <2>1. pos > 0 /\ pos + 1 = SecLen
      BY <1>2, <1>3, <1>8 DEF DisksStay
    <2>2. writeback /\ ~bufUpdate
      BY <1>1, <2>1 DEF Stored, Marking, Pending
    <2>3. pc # "select"
      BY <1>1, <1>2, <2>1 DEF Served6502, Kept, Started
    <2>4. host.at = ActivePlace /\ buf.at = ActivePlace
      BY <1>1, <2>2, <2>3, WritePlace, Situation DEF Stored
    <2>5. buf' = [buf EXCEPT !.ver = host.ver] /\ stored' = [stored EXCEPT ![ActivePlace] = host.ver]
      BY <1>3, <1>8, <2>4 DEF StoreByte
    <2>6. buf' = [at |-> ActivePlace, ver |-> host.ver] /\ stored'[ActivePlace] = host.ver
      BY <1>2, <1>3, <2>4, <2>5 DEF Contents
    <2>7. Fresh'
      BY <1>6, <2>6 DEF Fresh
    <2>8. Safe'
      <3>1. ASSUME NEW m \in Media, NEW s \in Sides, NEW t \in TrackNrs, stored'[<<m, s, t>>] > 0
            PROVE  t < Tracks[m] /\ (OnDisk(m, s, t)' \/ InBuffer(m, s, t)')
        <4>1. CASE <<m, s, t>> = ActivePlace
          <5>1. t = active.track /\ m = Disk
            BY <4>1 DEF ActivePlace
          <5>2. t < Tracks[m]
            BY <5>1, Situation, TrackCounts DEF Stored
          <5>3. buf' = Held(m, s, t)'
            BY <2>6, <4>1 DEF Held
          <5> QED BY <1>1, <1>6, <2>2, <4>1, <5>2, <5>3 DEF InBuffer
        <4>2. CASE <<m, s, t>> # ActivePlace
          <5>1. <<m, s, t>> \in Places
            BY DEF Places
          <5>2. stored'[<<m, s, t>>] = stored[<<m, s, t>>]
            BY <1>2, <2>5, <4>2, <5>1
          <5>3. t < Tracks[m] /\ OnDisk(m, s, t)
            BY <3>1, <4>2, <5>2 DEF Stored, Safe, InBuffer
          <5>4. OnDisk(m, s, t)'
            BY <1>1, <5>2, <5>3 DEF OnDisk, Held
          <5> QED BY <5>3, <5>4
        <4> QED BY <4>1, <4>2
      <3> QED BY <3>1 DEF Safe
    <2>9. Sent'
      <3>1. Queued = {}
        BY <1>1 DEF Served6502, Kept, OneCommand, Alone
      <3> QED BY <1>1, <1>5, <1>6, <1>8, <2>1, <2>3, <3>1 DEF Sent
    <2>10. Dirty'
      BY <1>1, <2>1, <2>3 DEF Dirty
    <2> QED BY <1>7, <2>7, <2>8, <2>9, <2>10 DEF Stored
  <1>9. CASE ~complete
    <2>1. stored' = stored /\ buf' = [buf EXCEPT !.ver = Torn]
      BY <1>9 DEF StoreByte
    <2>2. CASE pc = "select" /\ NeedsReload
      <3>1. Early
        BY <1>1, <2>2 DEF Early
      <3>2. "WTRACK" \in Ops
        BY <1>1, <2>2 DEF Served6502, Kept, Started, OneCommand, Busy
      <3>3. ~(writeback /\ stored[ActivePlace] > 0)
        BY <2>2, <3>2 DEF Stored, Dirty
      <3>4. Safe'
        <4>1. ASSUME NEW m \in Media, NEW s \in Sides, NEW t \in TrackNrs, stored'[<<m, s, t>>] > 0
              PROVE  t < Tracks[m] /\ OnDisk(m, s, t)'
          <5>1. ~InBuffer(m, s, t)
            BY <2>1, <3>3, <4>1 DEF InBuffer
          <5> QED BY <1>1, <2>1, <4>1, <5>1 DEF Stored, Safe, OnDisk, Held
        <4> QED BY <4>1 DEF Safe
      <3>5. Fresh'
        BY <1>6, <3>1 DEF Fresh
      <3>6. Dirty'
        BY <1>1, <1>6, <2>1, <3>3 DEF Dirty
      <3>7. Sent'
        BY <1>4, <1>5, <2>1 DEF Sent
      <3> QED BY <1>7, <3>4, <3>5, <3>6, <3>7 DEF Stored
    <2>3. CASE ~(pc = "select" /\ NeedsReload)
      <3>1. host.at = ActivePlace
        BY <1>1, <2>3, WritePlace DEF Stored
      <3>2. ~(stored[ActivePlace] > 0)
        BY <1>4, <3>1
      <3>3. Safe'
        <4>1. ASSUME NEW m \in Media, NEW s \in Sides, NEW t \in TrackNrs, stored'[<<m, s, t>>] > 0
              PROVE  t < Tracks[m] /\ OnDisk(m, s, t)'
          <5>1. ~InBuffer(m, s, t)
            BY <2>1, <3>2, <4>1 DEF InBuffer
          <5> QED BY <1>1, <2>1, <4>1, <5>1 DEF Stored, Safe, OnDisk, Held
        <4> QED BY <4>1 DEF Safe
      <3>4. Fresh' /\ Dirty'
        BY <1>6, <2>1, <3>2 DEF Fresh, Dirty
      <3>5. Sent'
        BY <1>4, <1>5, <2>1 DEF Sent
      <3> QED BY <1>7, <3>3, <3>4, <3>5 DEF Stored
    <2> QED BY <2>2, <2>3
  <1> QED BY <1>8, <1>9

LEMMA Core1Stored ==
  ASSUME NoForceInt, DisksStay, NoneEmpty, Served6502, Stored, Core1, ~paused
  PROVE  Stored'
  <1>0. TypeOK /\ host \in [op : AllOps \cup {"NONE", "RESET"}, at : Places \cup {NoPlace},
                            n : 0 .. SecLen, ver : 0 .. MaxWrites]
    BY DEF Served6502, Kept, TypeOK, HistoryTyped
  <1>1. ASSUME NEW op \in Ops, NEW flags \in SUBSET Flags, NEW target \in 0 .. MaxTrack,
               NEW known \in BOOLEAN, WriteCmd(op, flags, target, known)
        PROVE  Stored'
    BY <1>1, CommandStored
  <1>2. ASSUME NEW drive \in Drives, NEW side \in Sides, NEW ie \in IrqEnables,
               WriteCtrl(drive, side, ie)
        PROVE  Stored'
    <2>1. /\ UNCHANGED <<active, mounted, buf, bufUpdate, writeback, image, stored>>
          /\ UNCHANGED <<state, pos, nextTrack, command, pc, rmw, drq, host>>
      BY <1>2 DEF WriteCtrl, regs, core0, xfer, disks, ghosts
    <2>2. Queued' \subseteq Queued
      BY <1>0, <1>2, CtrlQueueing
    <2> QED BY <1>0, <2>1, <2>2, StoredKept
  <1>3. CASE ReadStatus \/ ReadData \/ (WriteData /\ KeepByte)
    <2>1. /\ UNCHANGED <<active, mounted, buf, bufUpdate, writeback, image, stored>>
          /\ UNCHANGED <<state, pos, nextTrack, command, pc, rmw, fifo>>
          /\ drq' => drq
      BY <1>3 DEF ReadStatus, ReadData, WriteData, KeepByte, core0, core1, xfer, disks, ghosts
    <2>2. Queued' \subseteq Queued
      BY <2>1 DEF Queued
    <2>3. host'.op = host.op /\ host'.at = host.at
      BY <1>0, <1>3 DEF ReadStatus, ReadData, WriteData, ghosts
    <2>4. host.op \in Writes /\ host.at # NoPlace /\ stored[host.at] > 0 => host'.n = host.n
      <3>1. CASE ReadStatus
        BY <3>1 DEF ReadStatus, ghosts
      <3>2. CASE ReadData
        BY <3>2 DEF ReadData, Reads, Writes
      <3>3. CASE WriteData /\ KeepByte
        <4>1. host.n < SecLen
          BY <3>3 DEF WriteData
        <4>2. ~(host.n = SecLen)
          BY <1>0, <4>1, Sizes
        <4> QED BY <4>2 DEF Stored, Sent
      <3> QED BY <1>3, <3>1, <3>2, <3>3
    <2> QED BY <1>0, <2>1, <2>2, <2>3, <2>4, StoredKept
  <1>4. CASE WriteData /\ StoreByte
    BY <1>4, ByteStored
  <1>5. WriteData => StoreByte \/ KeepByte
    BY DEF WriteData
  <1> QED BY <1>1, <1>2, <1>3, <1>4, <1>5 DEF Core1

\* How dsk_task() gets from one byte of a write to the next, apart from the
\* steps that take a command, ask for a byte and save the track.
LEMMA Onward ==
  ASSUME TypeOK, OneCommand, DskTask, ~TakeCommand, ~Select, ~AskByte, ~WriteDone
  PROVE  /\ state' = "WRITE_PREP" => state = "WRITE_PREP"
         /\ state' = "SEEK" => state = "SEEK" /\ nextTrack' = nextTrack
         /\ state' = "WRITE" => state \in {"WRITE", "WRITE_PREP"}
         /\ state = "WRITE" /\ state' = "WRITE" => pos' = pos /\ drq' = drq
         /\ state = "WRITE" /\ ~drq /\ pc # "late" => state' = "WRITE"
         /\ Pending("WRITE")' =>
              (pos' = pos /\ Pending("WRITE")) \/ (pos' = 0 /\ state = "WRITE_PREP")
  <1>0. /\ Pending("WRITE")' => Pending("WRITE") \/ WritePrep
        /\ Busy
    BY Progress DEF OneCommand
  <1>1. CASE Idle \/ AwaitDisk \/ NotFound \/ TestIrq \/ RaiseIrq \/ ReadStatusReg \/ Seek \/ Finish
    <2>1. UNCHANGED <<state, pos, drq, nextTrack>>
      BY <1>1 DEF Idle, AwaitDisk, NotFound, TestIrq, RaiseIrq, ReadStatusReg, Seek, Finish, regs, xfer
    <2>2. ~WritePrep \/ pos' = 0
      BY DEF WritePrep, FirstByte
    <2> QED BY <1>0, <2>1, <2>2 DEF WritePrep
  <1>2. CASE TakeCtrl
    <2>1. UNCHANGED <<state, pos, drq>> /\ state = "IDLE" /\ ~WritePrep
      BY <1>2 DEF TakeCtrl, regs, WritePrep
    <2> QED BY <1>0, <2>1
  <1>3. CASE ReadPrep \/ OfferByte
    <2>1. state' = state /\ state \in {"READ_PREP", "READ"} /\ rmw'.next = "READ"
      BY <1>3 DEF ReadPrep, OfferByte, Update
    <2> QED BY <2>1 DEF Pending
  <1>4. CASE ReadAddr
    <2>1. state' = "READ" /\ state = "READ_ADDR" /\ pc' = "irq"
      BY <1>4 DEF ReadAddr
    <2> QED BY <2>1 DEF Pending
  <1>5. CASE ReadDone \/ TimedOut
    <2>1. state' = "TOGGLE" /\ (state = "READ" \/ pc = "late") /\ pc' = "irq"
      BY <1>5 DEF ReadDone, TimedOut
    <2> QED BY <2>1 DEF Pending
  <1>6. CASE WritePrep
    <2>1. state' = state /\ state = "WRITE_PREP" /\ pos' = 0
      BY <1>6 DEF WritePrep, FirstByte
    <2> QED BY <2>1
  <1>7. CASE Wait
    <2>1. /\ UNCHANGED <<pos, drq, nextTrack>> /\ drq /\ state \in {"READ", "WRITE"}
          /\ state' = state \/ state' = "TOGGLE"
      BY <1>7 DEF Wait, Served
    <2>2. ~WritePrep
      BY <2>1 DEF WritePrep
    <2> QED BY <1>0, <2>1, <2>2
  <1>8. CASE WriteStatusReg
    <2>1. UNCHANGED <<pos, drq, nextTrack>> /\ state' = rmw.next /\ pc = "wr"
      BY <1>8 DEF WriteStatusReg, xfer
    <2>2. <<state, rmw.next>> \in Transitions
      BY <1>0, <2>1 DEF Busy
    <2>3. /\ rmw.next # "WRITE_PREP" /\ rmw.next # "SEEK"
          /\ rmw.next = "WRITE" => state \in {"WRITE", "WRITE_PREP"}
          /\ state = "WRITE" => rmw.next = "WRITE"
      BY <2>2 DEF Transitions
    <2>4. ~WritePrep
      BY <2>1 DEF WritePrep
    <2> QED BY <1>0, <2>1, <2>3, <2>4
  <1> QED BY <1>1, <1>2, <1>3, <1>4, <1>5, <1>6, <1>7, <1>8 DEF DskTask

\* The steps that leave the head, the buffer and the image files alone.
LEMMA WaitStored ==
  ASSUME DisksStay, NoneEmpty, Served6502, Stored, DskTask,
         ~TakeCommand, ~Select, ~Seek, ~AskByte, ~WriteDone
  PROVE  Stored'
  <1>0. /\ TypeOK /\ OneCommand /\ Started
        /\ UNCHANGED <<active, bufUpdate, writeback, mounted, image, buf, host, stored>>
    BY Core0Frame DEF Served6502, Kept
  <1>1. ActivePlace' = ActivePlace /\ Disk' = Disk /\ command' = command
    BY <1>0, Progress DEF ActivePlace, Disk
  <1>2. ~Early /\ ~Early' /\ pc # "select" /\ pc' # "select"
    BY <1>0, Progress DEF Early
  <1>3. Queued = {} => Queued' = {}
    <2>1. fifo' = fifo \/ TakeCtrl
      <3>1. Idle \/ TestIrq \/ RaiseIrq => fifo' = fifo
        BY DEF Idle, TestIrq, RaiseIrq, core1
      <3> QED BY <1>0, <3>1, Working
    <2>2. CASE fifo' = fifo
      BY <2>2 DEF Queued
    <2>3. CASE TakeCtrl
      <3>1. fifo \in Seq(Words) /\ fifo # <<>> /\ fifo' = Tail(fifo)
        BY <1>0, <2>3 DEF TakeCtrl, TypeOK, Core1Typed
      <3> QED BY <3>1, QueuedPop
    <2> QED BY <2>1, <2>2, <2>3
  <1>4. Safe' /\ Inserted'
    BY <1>0, <1>1 DEF Stored, Safe, OnDisk, InBuffer, Held, Inserted
  <1>5. Fresh'
    BY <1>0, <1>1, <1>2 DEF Stored, Fresh
  <1>6. Sent'
    <2> SUFFICES ASSUME host.op \in Writes, host.at # NoPlace, stored[host.at] > 0
                 PROVE  /\ host.n = SecLen /\ Queued' = {} /\ state' # "WRITE_PREP"
                        /\ state' = "WRITE" => pos' + 1 = SecLen /\ ~drq' /\ pc' # "select"
      BY <1>0 DEF Sent
    <2>1. /\ host.n = SecLen /\ Queued = {} /\ state # "WRITE_PREP"
          /\ state = "WRITE" => pos + 1 = SecLen /\ ~drq /\ pc # "select"
      BY DEF Stored, Sent
    <2>2. /\ state' = "WRITE_PREP" => state = "WRITE_PREP"
          /\ state' = "WRITE" => state = "WRITE" /\ pos' = pos /\ drq' = drq
      BY <1>0, <2>1, Onward
    <2> QED BY <1>2, <1>3, <2>1, <2>2
  <1>7. Dirty'
    <2> SUFFICES ASSUME "WTRACK" \in Ops, writeback, stored[ActivePlace] > 0
                 PROVE  state' = "WRITE" /\ ~drq' /\ pos' + 1 = SecLen
      BY <1>0, <1>1, <1>2 DEF Dirty
    <2>1. state = "WRITE" /\ ~drq /\ pos + 1 = SecLen
      BY DEF Stored, Dirty
    <2>2. pc # "late"
      BY <1>0 DEF DisksStay, Started
    <2>3. state' = "WRITE" /\ pos' = pos /\ drq' = drq
      BY <1>0, <2>1, <2>2, Onward
    <2> QED BY <2>1, <2>3
  <1>8. Marking'
    <2>1. /\ Pending("WRITE")' \/ state' = "WRITE_PREP" => Pending("WRITE") \/ state = "WRITE_PREP"
          /\ Pending("WRITE")' /\ pos' > 0 => Pending("WRITE") /\ pos > 0
      BY <1>0, Onward
    <2>2. state' = "SEEK" => state = "SEEK" /\ nextTrack' = nextTrack
      BY <1>0, Onward
    <2> QED BY <1>0, <1>1, <1>2, <2>1, <2>2 DEF Stored, Marking
  <1> QED BY <1>4, <1>5, <1>6, <1>7, <1>8 DEF Stored

LEMMA TakenStored ==
  ASSUME NoForceInt, DisksStay, NoneEmpty, Served6502, Stored, TakeCommand
  PROVE  Stored'
  <1>0. TypeOK /\ Alone /\ ~InReset
    BY Situation DEF Served6502, Kept, OneCommand, Stored
  <1>1. /\ UNCHANGED <<active, mounted, buf, bufUpdate, writeback, image, stored, host, rmw>>
        /\ ActivePlace' = ActivePlace /\ Disk' = Disk
    BY DEF TakeCommand, disks, ghosts, ActivePlace, Disk
  <1>2. /\ 1 \in Queued /\ Head(fifo).op = host.op
        /\ state = "IDLE" /\ pc' = "select" /\ ~Early
        /\ state' = "WRITE" => Head(fifo).op = "WTRACK" /\ pos' = 0
        /\ state' = "WRITE_PREP" => Head(fifo).op = "WSEC"
        /\ command'.op = Head(fifo).op
    BY <1>0, Taking, TakenState DEF Early
  <1>3. Safe' /\ Inserted'
    BY <1>1 DEF Stored, Safe, OnDisk, InBuffer, Held, Inserted
  <1>4. Fresh'
    BY <1>1, <1>2 DEF Stored, Fresh
  <1>5. Dirty'
    BY <1>1, <1>2 DEF Stored, Dirty
  <1>6. Sent'
    BY <1>1, <1>2 DEF Stored, Sent
  <1>7. Marking'
    <2>1. Pending("WRITE")' => state' = "WRITE"
      BY <1>2 DEF Pending
    <2> QED BY <1>1, <1>2, <2>1 DEF Stored, Marking, Writes
  <1> QED BY <1>3, <1>4, <1>5, <1>6, <1>7 DEF Stored

LEMMA LoadedHeld ==
  ASSUME NEW img, NEW d \in Drives, NEW s \in Sides, NEW t \in TrackNrs, mounted[d] \in Media,
         \A m \in Media, r \in Sides, u \in TrackNrs : stored[<<m, r, u>>] > 0 =>
           img[m][TrackOffset(m, r, u)] = Held(m, r, u),
         stored[<<mounted[d], s, t>>] > 0
  PROVE  Loaded(img, d, s, t) = [at |-> <<mounted[d], s, t>>, ver |-> stored[<<mounted[d], s, t>>]]
BY DEF Loaded, Held

\* The old track is saved, when it was changed, before another one is loaded.
LEMMA SelectStored ==
  ASSUME NoForceInt, OwnOffsets, DisksStay, NoneEmpty, Served6502, Stored, Select
  PROVE  Stored'
  <1> DEFINE flush == writeback /\ Moves
  <1>0. /\ TypeOK /\ Busy /\ Started /\ HeadOn /\ Inserted /\ Safe
        /\ bufUpdate \in BOOLEAN /\ writeback \in BOOLEAN
        /\ command.drive \in Drives /\ command.side \in Sides
        /\ active \in [drive : Drives, side : Sides, track : TrackNrs]
    BY DEF Served6502, Kept, Home, OneCommand, Stored, TypeOK, Core0Typed, TransferTyped, Words
  <1>1. pc = "select" /\ pc' = "irq" /\ state # "IDLE" /\ "BUSY" \in status
    BY <1>0, Situation DEF Select, Busy
  <1>2. /\ Disk # NoDisk /\ \A d \in Drives : mounted[d] \in Media /\ mounted[d] # NoDisk
    BY <1>0, Situation, DskAssumption
  <1>3. CanLoad(command.drive, active.track)
    BY <1>0, <1>2, CanLoadHead
  <1>4. /\ image' = IF flush THEN Flushed(image) ELSE image
        /\ active' = Selected
        /\ buf' = IF NeedsReload THEN Loaded(image', command.drive, command.side, active.track) ELSE buf
        /\ writeback' = (writeback /\ ~flush /\ ~NeedsReload)
        /\ bufUpdate' = (bufUpdate /\ ~NeedsReload)
    BY <1>1, <1>2, <1>3 DEF Select
  <1>5. UNCHANGED <<mounted, stored, host, state, pos, drq, nextTrack, command, fifo, rmw>>
    BY DEF Select, xfer, core1, ghosts
  <1>6. /\ active' = [drive |-> command.drive, side |-> command.side, track |-> active.track]
        /\ ActivePlace' = <<mounted[command.drive], command.side, active.track>>
    <2>1. active' = [drive |-> command.drive, side |-> command.side, track |-> active.track]
      BY <1>0, <1>4 DEF Selected
    <2> QED BY <1>5, <2>1 DEF ActivePlace, Disk
  <1>7. ~NeedsReload => active' = active /\ ActivePlace' = ActivePlace
    <2>1. ~NeedsReload => command.drive = active.drive /\ command.side = active.side
      BY DEF NeedsReload
    <2> QED BY <1>0, <1>6, <2>1 DEF ActivePlace, Disk
  <1>8. writeback => ~bufUpdate
    BY <1>0 DEF Stored, Marking
  <1>9. writeback /\ stored[ActivePlace] > 0 =>
          buf = [at |-> ActivePlace, ver |-> stored[ActivePlace]]
    <2> SUFFICES ASSUME writeback, stored[ActivePlace] > 0
                 PROVE  buf = [at |-> ActivePlace, ver |-> stored[ActivePlace]]
      OBVIOUS
    <2>1. ~Early
      <3> SUFFICES ASSUME Early PROVE FALSE
        OBVIOUS
      <3>1. "WTRACK" \in Ops
        BY <1>0, <1>1 DEF Early, Started, Busy
      <3> QED BY <1>1, <3>1 DEF Stored, Dirty
    <2> QED BY <1>8, <2>1 DEF Stored, Fresh
  <1>10. flush \/ ~writeback =>
           \A m \in Media, s \in Sides, t \in TrackNrs : stored[<<m, s, t>>] > 0 =>
             t < Tracks[m] /\ image'[m][TrackOffset(m, s, t)] = Held(m, s, t)
    <2>1. CASE flush
      <3>1. ASSUME NEW m \in Media, NEW s \in Sides, NEW t \in TrackNrs, stored[<<m, s, t>>] > 0
            PROVE  t < Tracks[m] /\ image'[m][TrackOffset(m, s, t)] = Held(m, s, t)
        <4>1. Flushed(image)[m][TrackOffset(m, s, t)] = Held(m, s, t)
          BY <1>0, <1>9, <2>1, <3>1, FlushedHolds
        <4>2. t < Tracks[m]
          BY <1>0, <3>1 DEF Safe
        <4> QED BY <1>4, <2>1, <4>1, <4>2
      <3> QED BY <3>1
    <2>2. CASE ~writeback
      <3>1. image' = image
        BY <1>4, <2>2
      <3> QED BY <1>0, <2>2, <3>1 DEF Safe, OnDisk, InBuffer
    <2> QED BY <2>1, <2>2
  <1>11. writeback /\ ~flush => ~NeedsReload /\ nextTrack = active.track
    BY <1>8 DEF Moves, NeedsReload
  <1>12. Safe' /\ Inserted'
    <2>1. CASE flush \/ ~writeback
      <3>1. \A m \in Media, s \in Sides, t \in TrackNrs : Held(m, s, t)' = Held(m, s, t)
        BY <1>5 DEF Held
      <3>2. Safe'
        BY <1>5, <1>10, <2>1, <3>1 DEF Safe, OnDisk
      <3> QED BY <1>0, <1>5, <3>2 DEF Inserted
    <2>2. CASE writeback /\ ~flush
      <3>1. UNCHANGED <<image, buf, writeback>> /\ ActivePlace' = ActivePlace
        BY <1>4, <1>7, <1>11, <2>2
      <3> QED BY <1>0, <1>5, <3>1 DEF Safe, OnDisk, InBuffer, Held, Inserted
    <2> QED BY <2>1, <2>2
  <1>13. Fresh'
    <2> SUFFICES ASSUME stored[ActivePlace'] > 0, ~bufUpdate'
                 PROVE  buf' = [at |-> ActivePlace', ver |-> stored[ActivePlace']]
      BY <1>5 DEF Fresh
    <2>1. CASE NeedsReload
      <3>1. flush \/ ~writeback
        BY <1>11, <2>1
      <3>2. buf' = Loaded(image', command.drive, command.side, active.track)
        BY <1>4, <2>1
      <3>3. stored[<<mounted[command.drive], command.side, active.track>>] > 0
        BY <1>6
      <3>4. \A m \in Media, s \in Sides, t \in TrackNrs : stored[<<m, s, t>>] > 0 =>
              image'[m][TrackOffset(m, s, t)] = Held(m, s, t)
        BY <1>10, <3>1
      <3>5. command.drive \in Drives
        BY <1>0
      <3>7. command.side \in Sides
        BY <1>0
      <3>8. active.track \in TrackNrs
        BY <1>0
      <3>9. mounted[command.drive] \in Media
        BY <1>2, <3>5
      <3>6. Loaded(image', command.drive, command.side, active.track) =
              [at |-> <<mounted[command.drive], command.side, active.track>>,
               ver |-> stored[<<mounted[command.drive], command.side, active.track>>]]
        BY <3>3, <3>4, <3>5, <3>7, <3>8, <3>9, LoadedHeld, ZenonT(60)
      <3> QED BY <1>6, <3>2, <3>6
    <2>2. CASE ~NeedsReload
      <3>1. buf' = buf /\ ActivePlace' = ActivePlace /\ ~bufUpdate /\ ~Early
        BY <1>4, <1>7, <2>2 DEF NeedsReload, Early
      <3> QED BY <3>1 DEF Stored, Fresh
    <2> QED BY <2>1, <2>2
  <1>14. Sent'
    <2>1. Queued' = Queued
      BY <1>5 DEF Queued
    <2> QED BY <1>1, <1>5, <2>1 DEF Stored, Sent
  <1>15. Marking'
    <2>1. Pending("WRITE")' => state = "WRITE" /\ Pending("WRITE")
      BY <1>1, <1>5 DEF Pending
    <2>2. state = "WRITE" => pos = 0
      BY <1>0, <1>1 DEF Started
    <2>3. bufUpdate' => ~writeback'
      BY <1>4, <1>8
    <2>4. nextTrack # active'.track => ~writeback'
      <3>1. active'.track = active.track
        BY <1>6
      <3>2. writeback' => writeback /\ ~flush
        BY <1>4
      <3> QED BY <1>11, <3>1, <3>2
    <2> QED BY <1>5, <2>1, <2>2, <2>3, <2>4 DEF Stored, Marking
  <1>16. Dirty'
    <2> SUFFICES ASSUME "WTRACK" \in Ops, writeback', stored[ActivePlace'] > 0 PROVE FALSE
      BY <1>5 DEF Dirty
    <2>1. writeback /\ ~NeedsReload
      BY <1>4
    <2>2. ActivePlace' = ActivePlace
      BY <1>7, <2>1
    <2> QED BY <1>1, <2>1, <2>2 DEF Stored, Dirty
  <1> QED BY <1>12, <1>13, <1>14, <1>15, <1>16 DEF Stored

LEMMA SeekStored ==
  ASSUME NoForceInt, OwnOffsets, DisksStay, NoneEmpty, Served6502, Stored, Seek
  PROVE  Stored'
  <1>0. /\ TypeOK /\ Inserted /\ Safe /\ Marking /\ state = "SEEK" /\ pc = "task" /\ pc' = "rd"
        /\ rmw'.next = "TOGGLE"
        /\ active \in [drive : Drives, side : Sides, track : TrackNrs]
    BY DEF Served6502, Kept, Stored, Seek, Update, TypeOK, Core0Typed
  <1>1. UNCHANGED <<mounted, stored, host, state, pos, drq, nextTrack, command, fifo, image, bufUpdate>>
    BY DEF Seek, xfer, core1, disks, ghosts
  <1>2. ~Early /\ ~Early'
    BY <1>0, <1>1 DEF Early
  <1>3. Sent'
    <2>1. Queued' = Queued
      BY <1>1 DEF Queued
    <2> QED BY <1>0, <1>1, <2>1 DEF Stored, Sent
  <1>4. ~Pending("WRITE")' /\ state' # "WRITE_PREP"
    BY <1>0, <1>1 DEF Pending
  <1>5. CASE nextTrack # active.track /\ CanLoad(active.drive, nextTrack)
    <2>1. /\ buf' = Loaded(image, active.drive, active.side, nextTrack)
          /\ active' = [active EXCEPT !.track = nextTrack] /\ writeback' = FALSE
      BY <1>5 DEF Seek
    <2>2. ~writeback
      BY <1>0, <1>5 DEF Marking
    <2>3. /\ active'.track = nextTrack /\ active'.drive = active.drive /\ active'.side = active.side
          /\ ActivePlace' = <<mounted[active.drive], active.side, nextTrack>>
      BY <1>0, <1>1, <2>1 DEF ActivePlace, Disk
    <2>4. nextTrack \in TrackNrs /\ mounted[active.drive] \in Media
      <3>1. mounted[active.drive] \in Media
        BY <1>0, Situation
      <3>2. nextTrack < maxTracks[active.drive]
        BY <1>0, <3>1 DEF Served6502, RegisterTells
      <3>3. maxTracks[active.drive] \in 0 .. MaxTrack /\ nextTrack \in Nat
        BY <1>0 DEF TypeOK, DisksTyped, TransferTyped
      <3> QED BY <3>1, <3>2, <3>3, Sizes DEF TrackNrs
    <2>5. Safe' /\ Inserted'
      BY <1>0, <1>1, <2>2 DEF Safe, OnDisk, InBuffer, Held, Inserted
    <2>6. Fresh'
      <3> SUFFICES ASSUME stored[ActivePlace'] > 0
                   PROVE  buf' = [at |-> ActivePlace', ver |-> stored[ActivePlace']]
        BY <1>1 DEF Fresh
      <3>1. stored[<<mounted[active.drive], active.side, nextTrack>>] > 0
        BY <2>3
      <3>2. \A m \in Media, s \in Sides, t \in TrackNrs : stored[<<m, s, t>>] > 0 =>
              image[m][TrackOffset(m, s, t)] = Held(m, s, t)
        BY <1>0, <2>2 DEF Safe, OnDisk, InBuffer
      <3>3. Loaded(image, active.drive, active.side, nextTrack) =
              [at |-> <<mounted[active.drive], active.side, nextTrack>>,
               ver |-> stored[<<mounted[active.drive], active.side, nextTrack>>]]
        BY <1>0, <2>4, <3>1, <3>2, LoadedHeld
      <3> QED BY <2>1, <2>3, <3>3
    <2>7. Marking' /\ Dirty'
      BY <1>4, <2>1 DEF Marking, Dirty
    <2> QED BY <1>3, <2>5, <2>6, <2>7 DEF Stored
  <1>6. CASE ~(nextTrack # active.track /\ CanLoad(active.drive, nextTrack))
    <2>1. UNCHANGED <<buf, active>> /\ writeback' = writeback
      BY <1>0, <1>6 DEF Seek, TypeOK, Core0Typed
    <2>2. ActivePlace' = ActivePlace
      BY <1>1, <2>1 DEF ActivePlace, Disk
    <2>3. Safe' /\ Inserted'
      BY <1>0, <1>1, <2>1, <2>2 DEF Safe, OnDisk, InBuffer, Held, Inserted
    <2>4. Fresh'
      BY <1>1, <1>2, <2>1, <2>2 DEF Stored, Fresh
    <2>5. Marking'
      BY <1>0, <1>1, <1>4, <2>1 DEF Marking
    <2>6. Dirty'
      BY <1>0, <1>1, <2>1, <2>2 DEF Stored, Dirty
    <2> QED BY <1>3, <2>3, <2>4, <2>5, <2>6 DEF Stored
  <1> QED BY <1>5, <1>6

\* A byte is asked for only when the sector is not yet accepted.
LEMMA AskStored ==
  ASSUME NoForceInt, DisksStay, NoneEmpty, Served6502, Stored, AskByte
  PROVE  Stored'
  <1>0. /\ TypeOK /\ Inserted /\ Safe /\ Marking /\ Busy /\ ~InReset
        /\ state = "WRITE" /\ pc = "task" /\ pc' = "rd"
    BY Situation DEF Served6502, Kept, Stored, AskByte, Update, OneCommand
  <1>1. /\ UNCHANGED <<mounted, stored, host, state, nextTrack, command, fifo, image, bufUpdate, buf, active>>
        /\ pos' = pos + 1 /\ pos + 1 < SecLen /\ writeback' = TRUE
    BY DEF AskByte, core1, xfer, disks, ghosts
  <1>2. ActivePlace' = ActivePlace /\ ~Early /\ ~Early'
    BY <1>0, <1>1 DEF ActivePlace, Disk, Early
  <1>3. host.op \in Writes /\ host.at = ActivePlace /\ host.at # NoPlace
    <2>1. host.op \in Writes
      BY <1>0 DEF Marking, Busy, Pending
    <2> QED BY <1>0, <2>1, WritePlace
  <1>4. ~(stored[ActivePlace] > 0)
    <2>1. ~(pos + 1 = SecLen)
      BY <1>0, <1>1, Sizes DEF TypeOK, RegistersTyped
    <2> QED BY <1>0, <1>3, <2>1 DEF Stored, Sent
  <1>5. Safe' /\ Inserted'
    BY <1>0, <1>1, <1>2 DEF Safe, OnDisk, InBuffer, Held, Inserted
  <1>6. Fresh' /\ Dirty'
    BY <1>1, <1>2, <1>4 DEF Fresh, Dirty
  <1>7. Sent'
    BY <1>1, <1>3, <1>4 DEF Sent
  <1>8. Marking'
    <2>1. ~bufUpdate
      BY <1>0, Situation
    <2> QED BY <1>0, <1>1, <2>1 DEF Marking, Pending
  <1> QED BY <1>5, <1>6, <1>7, <1>8 DEF Stored

\* The end of a write saves the track.
LEMMA DoneStored ==
  ASSUME NoForceInt, OwnOffsets, DisksStay, NoneEmpty, Served6502, Stored, WriteDone
  PROVE  Stored'
  <1>0. /\ TypeOK /\ Inserted /\ Safe /\ Fresh /\ Marking /\ ~InReset
        /\ state = "WRITE" /\ pc = "task" /\ pc' = "irq" /\ state' = "TOGGLE"
        /\ Disk # NoDisk
    BY Situation, DskAssumption DEF Served6502, Kept, Stored, WriteDone
  <1>1. /\ UNCHANGED <<mounted, stored, host, nextTrack, command, fifo, bufUpdate, buf, active, rmw>>
        /\ writeback' = FALSE /\ image' = Flushed(image)
    BY <1>0 DEF WriteDone, core1, xfer, ghosts
  <1>2. ActivePlace' = ActivePlace /\ ~Early /\ ~Early'
    BY <1>0, <1>1 DEF ActivePlace, Disk, Early
  <1>3. ~bufUpdate
    BY <1>0, Situation
  <1>4. stored[ActivePlace] > 0 => buf = [at |-> ActivePlace, ver |-> stored[ActivePlace]]
    BY <1>0, <1>2, <1>3 DEF Fresh
  <1>5. Safe' /\ Inserted'
    <2>1. ASSUME NEW m \in Media, NEW s \in Sides, NEW t \in TrackNrs, stored'[<<m, s, t>>] > 0
          PROVE  t < Tracks[m] /\ OnDisk(m, s, t)'
      <3>1. Flushed(image)[m][TrackOffset(m, s, t)] = Held(m, s, t)
        BY <1>0, <1>1, <1>4, <2>1, FlushedHolds
      <3> QED BY <1>0, <1>1, <2>1, <3>1 DEF Safe, OnDisk, Held
    <2> QED BY <1>0, <1>1, <2>1 DEF Safe, Inserted
  <1>6. Fresh' /\ Dirty'
    BY <1>1, <1>2, <1>4 DEF Fresh, Dirty
  <1>7. Sent'
    <2>1. Queued' = Queued
      BY <1>1 DEF Queued
    <2> QED BY <1>0, <1>1, <2>1 DEF Stored, Sent
  <1>8. Marking'
    BY <1>0, <1>1 DEF Marking, Pending
  <1> QED BY <1>5, <1>6, <1>7, <1>8 DEF Stored

LEMMA StoredInit == Init => Stored
  <1> SUFFICES ASSUME Init PROVE Stored
    OBVIOUS
  <1>1. /\ mounted = Start /\ bufUpdate /\ ~writeback /\ state = "IDLE" /\ pc = "task"
        /\ \A q \in Places : ~(stored[q] > 0)
    BY DEF Init
  <1>2. host.op \notin Writes
    BY DEF Init, NoHost, Writes
  <1>3. Safe
    <2>1. \A m \in Media, s \in Sides, t \in TrackNrs : <<m, s, t>> \in Places
      BY DEF Places
    <2> QED BY <1>1, <2>1 DEF Safe
  <1> QED BY <1>1, <1>2, <1>3 DEF Stored, Inserted, Sent, Fresh, Marking, Dirty, Pending

LEMMA StoredStep ==
  ASSUME Orderly, NoneEmpty, DisksStay, Served6502, Stored, [Next]_vars
  PROVE  Stored'
  <1>0. NoForceInt /\ OwnOffsets
    BY DEF Orderly
  <1>1. CASE ~paused /\ Core1
    BY <1>0, <1>1, Core1Stored
  <1>2. CASE DskTask
    <2>1. CASE TakeCommand
      BY <1>0, <2>1, TakenStored
    <2>2. CASE Select
      BY <1>0, <2>2, SelectStored
    <2>3. CASE Seek
      BY <1>0, <2>3, SeekStored
    <2>4. CASE AskByte
      BY <1>0, <2>4, AskStored
    <2>5. CASE WriteDone
      BY <1>0, <2>5, DoneStored
    <2>6. CASE ~TakeCommand /\ ~Select /\ ~Seek /\ ~AskByte /\ ~WriteDone
      BY <1>2, <2>6, WaitStored
    <2> QED BY <2>1, <2>2, <2>3, <2>4, <2>5, <2>6
  <1>3. ~MainLoop
    BY DEF DisksStay, MainLoop, Mount, Unmount, Pause, Stop, DskInit
  <1>4. CASE UNCHANGED vars
    <2>1. /\ UNCHANGED <<active, mounted, buf, bufUpdate, writeback, image, stored>>
          /\ UNCHANGED <<state, pos, nextTrack, command, pc, rmw, drq, host, fifo>>
      BY <1>4 DEF vars, regs, core0, core1, xfer, disks, ghosts
    <2>2. TypeOK /\ Queued' = Queued
      BY <2>1 DEF Served6502, Kept, Queued
    <2> QED BY <2>1, <2>2, StoredKept
  <1> QED BY <1>1, <1>2, <1>3, <1>4 DEF Next

\* A sector whose last byte the controller has accepted is on the disk, or in
\* the buffer and marked to be saved to its place, whatever the 6502 and core 0
\* do next: select another drive or side, move the head, or write elsewhere.
THEOREM AcceptedSectorsAreKept ==
  ASSUME Orderly, NoneEmpty, Updating, DisksStay
  PROVE  Spec => []NoStoredWriteLost
  <1>1. Init => Served6502 /\ Stored
    BY ServedInit, StoredInit
  <1>2. Served6502 /\ Stored /\ [Next]_vars => Served6502' /\ Stored'
    BY ServedStep, StoredStep
  <1>3. Stored => NoStoredWriteLost
    BY DEF Stored, Safe, NoStoredWriteLost, OnDisk, InBuffer, Held
  <1> QED BY <1>1, <1>2, <1>3, PTL DEF Spec
=============================================================================
