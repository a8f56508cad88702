---------------------------- MODULE Acia_proofs ----------------------------
(***************************************************************************)
(* Theorems about the serial interface, for every value of the constants:  *)
(* any size of the ring, any place where it starts, any number of bytes.   *)
(***************************************************************************)
EXTENDS Acia, TLAPS

(***************************************************************************)
(* The ring.  A slot's age is how far it lies behind the tail; the slots   *)
(* that are stored are the youngest ones, up to the distance of the head.  *)
(* Two slots always stay free: one would be enough, but acia_task() takes  *)
(* two away, and a ring with none of them left would look as if it had all *)
(* but one.                                                                *)
(***************************************************************************)
Age(i, from) == IF i >= from THEN i - from ELSE i - from + RxBufferSize
Count == Age(head, tail)
InUse(i) == Age(i, tail) < Count

RingInOrder ==
  /\ Count <= RxBufferSize - 2
  /\ \A i \in Index : InUse(i) => buffer[i] > out /\ buffer[i] <= arrived
  /\ \A i, j \in Index : Age(i, tail) < Age(j, tail) /\ InUse(j) => buffer[i] < buffer[j]

FifoInOrder ==
  /\ \A k \in 1 .. Len(fifo) : fifo[k] > out /\ fifo[k] <= arrived
  /\ \A k, l \in 1 .. Len(fifo) : k < l => fifo[k] < fifo[l]
  /\ \A i \in Index, k \in 1 .. Len(fifo) : InUse(i) => buffer[i] < fifo[k]

Ordered == RingInOrder /\ FifoInOrder /\ out <= arrived

(***************************************************************************)
(* The registers, as long as the 6502 has not been misled.  What it has    *)
(* seen of the status is still so; a full data register holds a byte that  *)
(* it has not read, but while core 1 serves the reading of it; an empty    *)
(* one holds none but before its flag is set.  The same of the register    *)
(* for the byte to be sent, whose flag says that it is empty.              *)
(***************************************************************************)
Reading == core1.access = "read" /\ core1.pc = "flag"
Writing == core1.access = "write"

NumbersBounded ==
  /\ got <= out /\ io.data <= out
  /\ sent <= written /\ acia_tx_data <= written /\ core1.byte <= written

SeenIsSo ==
  /\ seen \subseteq stat
  /\ "rx" \in seen => ~Reading
  /\ "tx" \in seen => ~Writing

DataUnread ==
  /\ Reading => "rx" \in stat /\ io.data <= got
  /\ "rx" \in stat => Reading \/ io.data = 0 \/ io.data > got
  /\ "rx" \notin stat /\ ~At("received") => io.data <= got
  /\ At("received") => "rx" \notin stat /\ (io.data = 0 \/ io.data > got)

DataUnsent ==
  /\ Writing => /\ "tx" \in stat /\ core1.byte = written /\ sent < written
                /\ core1.pc \in {"flag", "empty"}
                /\ core1.pc = "empty" => acia_tx_data = written
  /\ "tx" \notin stat /\ ~At("sent") => acia_tx_data = written /\ sent < written
  /\ At("sent") => "tx" \notin stat

Exchange == NumbersBounded /\ (~misled => SeenIsSo /\ DataUnread /\ DataUnsent)
-----------------------------------------------------------------------------
(***************************************************************************)
(* What the proofs use of the constants, and arithmetic of the ring.       *)
(***************************************************************************)
LEMMA Sizes ==
  /\ RxBufferSize \in Nat /\ 4 <= RxBufferSize
  /\ First \in 0 .. RxBufferSize - 1
  /\ FifoSize \in Nat /\ Repeat \in Nat /\ 1 <= Repeat /\ MaxEvents \in Nat
BY AciaAssumption

LEMMA MaskedIndex ==
  ASSUME NEW i \in Int
  PROVE  Masked(i) \in Index
BY AciaAssumption DEF Masked, Index

LEMMA MaskedAround ==
  ASSUME NEW i \in 0 .. 2 * RxBufferSize - 1
  PROVE  Masked(i) = IF i < RxBufferSize THEN i ELSE i - RxBufferSize
BY AciaAssumption DEF Masked

LEMMA RoomBounds ==
  ASSUME head \in Index, tail \in Index
  PROVE  /\ Room \in Nat
         /\ Room <= RxBufferSize - head
         /\ Count <= RxBufferSize - 2 => Room + Count <= RxBufferSize - 2
BY AciaAssumption DEF Room, Masked, Index, Count, Age

LEMMA AgeBounds ==
  ASSUME NEW i \in Index, NEW from \in Index
  PROVE  Age(i, from) \in 0 .. RxBufferSize - 1 /\ (Age(i, from) = 0 <=> i = from)
BY Sizes DEF Age, Index

\* Taking the oldest slot makes every other one younger by one.
LEMMA AgeReceived ==
  ASSUME NEW from \in Index, NEW i \in Index
  PROVE  Age(i, Masked(from + 1)) = IF i = from THEN RxBufferSize - 1 ELSE Age(i, from) - 1
  <1>1. Masked(from + 1) = IF from + 1 < RxBufferSize THEN from + 1 ELSE from + 1 - RxBufferSize
    BY MaskedAround, Sizes DEF Index
  <1> QED BY <1>1, Sizes DEF Age, Index

\* Filling slots from the head on, without wrapping and while two stay free.
LEMMA AgeLoaded ==
  ASSUME NEW from \in Index, NEW h \in Index, NEW n \in Nat,
         n <= RxBufferSize - h, Age(h, from) + n <= RxBufferSize - 2
  PROVE  /\ Age(Masked(h + n), from) = Age(h, from) + n
         /\ \A i \in Index :
              /\ i \in h .. h + n - 1 => Age(i, from) = Age(h, from) + i - h
              /\ Age(i, from) < Age(h, from) => i \notin h .. h + n - 1
              /\ Age(i, from) < Age(h, from) + n => Age(i, from) < Age(h, from) \/ i \in h .. h + n - 1
  <1>1. Masked(h + n) = IF h + n < RxBufferSize THEN h + n ELSE h + n - RxBufferSize
    BY MaskedAround, Sizes DEF Index
  <1> QED BY <1>1, Sizes DEF Age, Index

LEMMA Countdown == ASSUME NEW n \in 0 .. Repeat PROVE (n - 1) % (Repeat + 1) \in 0 .. Repeat
  <1>1. (n - 1) % (Repeat + 1) \in 0 .. (Repeat + 1) - 1
    BY Sizes
  <1> QED BY <1>1, Sizes
-----------------------------------------------------------------------------
(***************************************************************************)
(* Who changes what.                                                       *)
(***************************************************************************)
LEMMA ModemChanges ==
  ASSUME [Next]_vars
  PROVE  Plug \/ Unplug \/ Arrive \/ Load \/ Reset \/ UNCHANGED usb
BY DEF Next, acia_task, Program, Core1, vars, Found, Lost, Begin, Send, Sent, Receive, Received,
       StillFull, NoneToReceive, DoCmd, CmdDone, RaiseIrq, Compose, Store, LowerIrq, acia_stop,
       ReadStatus, ReadData, WriteData, WriteCmd, usb

LEMMA RingChanges ==
  ASSUME [Next]_vars
  PROVE  Lost \/ Load \/ Receive \/ acia_stop \/ UNCHANGED <<ring, out>>
BY DEF Next, acia_task, Program, Core1, vars, Plug, Unplug, Arrive, Found, Begin, Send, Sent, Received,
       StillFull, NoneToReceive, DoCmd, CmdDone, RaiseIrq, Compose, Store, LowerIrq,
       ReadStatus, ReadData, WriteData, WriteCmd, Reset

LEMMA RegisterChanges ==
  ASSUME [Next]_vars
  PROVE  Sent \/ Receive \/ Received \/ Store \/ acia_stop \/ ReadStatus \/ ReadData \/ WriteData
         \/ Core1 \/ UNCHANGED <<chip, seen, out, got, misled>>
BY DEF Next, acia_task, Program, vars, Plug, Unplug, Arrive, Found, Lost, Begin, Send, Load,
       StillFull, NoneToReceive, DoCmd, CmdDone, RaiseIrq, Compose, LowerIrq, WriteCmd, Reset

LEMMA Core0Changes ==
  ASSUME [Next]_vars
  PROVE  acia_task \/ acia_stop
         \/ UNCHANGED <<core0, acia_dev, not_dcd, irq_line, settings, cnt, sent>>
BY DEF Next, Program, Core1, vars, Plug, Unplug, Arrive, ReadStatus, ReadData, WriteData, WriteCmd,
       Reset

LEMMA Core1Changes ==
  ASSUME [Next]_vars
  PROVE  Program \/ Core1 \/ CmdDone
         \/ UNCHANGED <<core1, acia_tx_data, acia_cmd_todo, written>>
BY DEF Next, acia_task, vars, Plug, Unplug, Arrive, Found, Lost, Begin, Send, Sent, Load, Receive,
       Received, StillFull, NoneToReceive, DoCmd, RaiseIrq, Compose, Store, LowerIrq, acia_stop, tx

-----------------------------------------------------------------------------
(***************************************************************************)
(* Every step keeps the types.                                             *)
(***************************************************************************)
LEMMA RegisterTyped ==
  ASSUME NEW s \in Status
  PROVE  [data |-> 0, stat |-> s, cmd |-> {}]
           \in Registers
BY Sizes DEF Registers

LEMMA TopTyped == Top \in Core0States
BY DEF Top, Core0States, Status

LEMMA NoAccessTyped == NoAccess \in Accesses
  <1>1. {} \in Status /\ {} \in Commands \cup {{}} /\ 0 \in 0 .. MaxEvents
    BY Sizes DEF Status
  <1> QED BY <1>1 DEF NoAccess, Accesses

LEMMA InitTyped == Init => TypeOK
  <1> SUFFICES ASSUME Init PROVE TypeOK OBVIOUS
  <1>1. ModemTyped
    <2>1. fifo = <<>>
      BY DEF Init
    <2>2. fifo \in Seq(1 .. MaxEvents) /\ Len(fifo) = 0
      BY <2>1
    <2>3. plugged \in BOOLEAN
      BY DEF Init
    <2>4. arrived = 0 /\ upsets = 0
      BY DEF Init
    <2> QED BY <2>2, <2>3, <2>4, Sizes DEF ModemTyped
  <1>2. RingTyped
    BY Sizes DEF Init, RingTyped, Index
  <1>3. RegistersTyped
    <2>1. io = [data |-> 0, stat |-> {"tx"}, cmd |-> {}] /\ {"tx"} \in Status
      BY DEF Init, Status
    <2>2. io \in Registers
      BY <2>1, RegisterTyped
    <2>3. stat \in Status /\ seen \in Status /\ misled \in BOOLEAN
      BY DEF Init, Status
    <2>4. out = 0 /\ got = 0
      BY DEF Init
    <2> QED BY <2>2, <2>3, <2>4, Sizes DEF RegistersTyped
  <1>4. Core0Typed
    <2>1. core0 \in Core0States
      BY TopTyped DEF Init
    <2>2. /\ acia_dev \in BOOLEAN /\ not_dcd \in BOOLEAN /\ irq_line \in BOOLEAN
          /\ settings \in Commands \cup {{}}
      BY DEF Init
    <2>3. cnt = 0 /\ sent = 0
      BY DEF Init
    <2> QED BY <2>1, <2>2, <2>3, Sizes DEF Core0Typed
  <1>5. Core1Typed
    <2>1. core1 \in Accesses
      BY NoAccessTyped DEF Init
    <2>2. acia_cmd_todo \in BOOLEAN
      BY DEF Init
    <2>3. acia_tx_data = 0 /\ written = 0
      BY DEF Init
    <2> QED BY <2>1, <2>2, <2>3, Sizes DEF Core1Typed
  <1> QED BY <1>1, <1>2, <1>3, <1>4, <1>5 DEF TypeOK

LEMMA ModemStep == ASSUME TypeOK, [Next]_vars PROVE ModemTyped'
  <1> USE Sizes DEF TypeOK, ModemTyped
  <1>1. CASE Plug
    BY <1>1 DEF Plug
  <1>2. CASE Unplug
    <2>1. fifo' = <<>>
      BY <1>2 DEF Unplug
    <2>2. fifo' \in Seq(1 .. MaxEvents) /\ Len(fifo') = 0
      BY <2>1
    <2>3. plugged' \in BOOLEAN
      BY <1>2 DEF Unplug
    <2>4. arrived' = arrived /\ upsets' = upsets + 1 /\ More
      BY <1>2 DEF Unplug
    <2> QED BY <2>2, <2>3, <2>4 DEF More, Core1Typed
  <1>3. CASE Arrive
    BY <1>3 DEF Arrive, More, Core1Typed
  <1>4. CASE Load
    <2> DEFINE n == IF Len(fifo) < Room THEN Len(fifo) ELSE Room
    <2>1. n \in Nat /\ n <= Len(fifo) /\ Len(fifo) \in Nat
      BY RoomBounds DEF RingTyped
    <2>2. fifo' = SubSeq(fifo, n + 1, Len(fifo))
      BY <1>4 DEF Load
    <2> HIDE DEF n
    <2>3. fifo' \in Seq(1 .. MaxEvents) /\ Len(fifo') <= Len(fifo)
      BY <2>1, <2>2, SMTT(60)
    <2> QED BY <1>4, <2>3 DEF Load
  <1>5. CASE Reset
    BY <1>5 DEF Reset, More, Core1Typed
  <1>6. CASE UNCHANGED usb
    BY <1>6 DEF usb
  <1> QED BY <1>1, <1>2, <1>3, <1>4, <1>5, <1>6, ModemChanges

LEMMA RingStep == ASSUME TypeOK, [Next]_vars PROVE RingTyped'
  <1> USE DEF TypeOK, RingTyped
  <1>1. CASE Lost
    BY <1>1, Sizes DEF Lost, Index
  <1>2. CASE Load
    <2> DEFINE n == IF Len(fifo) < Room THEN Len(fifo) ELSE Room
    <2>1. fifo \in Seq(0 .. MaxEvents) /\ n \in Nat /\ n <= Len(fifo)
      BY RoomBounds, Sizes DEF ModemTyped
    <2>2. head' \in Index /\ tail' \in Index
      <3>1. head + n \in Int
        BY <2>1, Sizes DEF Index
      <3>2. Masked(head + n) \in Index
        BY <3>1, MaskedIndex
      <3> QED BY <1>2, <3>2 DEF Load
    <2>3. \A i \in Index : i \in head .. head + n - 1 => fifo[i - head + 1] \in 0 .. MaxEvents
      BY <2>1, Sizes, SMTT(60) DEF Index
    <2>4. buffer' \in [Index -> 0 .. MaxEvents]
      BY <1>2, <2>3 DEF Load
    <2> QED BY <2>2, <2>4
  <1>3. CASE Receive
    <2>1. tail + 1 \in Int
      BY Sizes DEF Index
    <2>2. Masked(tail + 1) \in Index
      BY <2>1, MaskedIndex
    <2> QED BY <1>3, <2>2 DEF Receive
  <1>4. CASE acia_stop
    BY <1>4, Sizes DEF acia_stop, Index
  <1>5. CASE UNCHANGED ring
    BY <1>5 DEF ring
  <1> QED BY <1>1, <1>2, <1>3, <1>4, <1>5, RingChanges

LEMMA RegistersStep == ASSUME TypeOK, [Next]_vars PROVE RegistersTyped'
  <1> USE DEF TypeOK, RegistersTyped, Status, Registers
  <1>1. CASE Sent
    BY <1>1, Sizes DEF Sent
  <1>2. CASE Receive
    BY <1>2 DEF Receive, RingTyped
  <1>3. CASE Received
    BY <1>3 DEF Received
  <1>4. CASE Store
    BY <1>4 DEF Store, Core0Typed, Core0States
  <1>5. CASE acia_stop
    BY <1>5, Sizes DEF acia_stop
  <1>6. CASE ReadStatus
    BY <1>6 DEF ReadStatus, chip
  <1>7. CASE ReadData
    BY <1>7 DEF ReadData, chip
  <1>8. CASE WriteData
    BY <1>8 DEF WriteData, chip
  <1>9. CASE Core1
    <2>1. io' \in [data : 0 .. MaxEvents, stat : SUBSET {"rx", "tx"}, cmd : Commands \cup {{}}]
      <3>1. CASE acia_reset
        <4>1. io' = [[io EXCEPT !.data = 0] EXCEPT !.cmd = {}]
          BY <3>1 DEF acia_reset
        <4>2. [io EXCEPT !.data = 0] \in [data : 0 .. MaxEvents, stat : SUBSET {"rx", "tx"}, cmd : Commands \cup {{}}]
          BY Sizes
        <4> QED BY <4>1, <4>2
      <3>2. CASE acia_cmd
        BY <3>2 DEF acia_cmd, Core1Typed, Accesses
      <3>3. CASE UpdateStat
        BY <3>3 DEF UpdateStat, Core1Typed, Accesses
      <3> QED BY <1>9, <3>1, <3>2, <3>3 DEF Core1, acia_clr_irq, acia_read, acia_write
    <2>2. stat' \in SUBSET {"rx", "tx"}
      BY <1>9 DEF Core1, acia_clr_irq, acia_read, acia_reset, acia_write, acia_cmd, UpdateStat
    <2> QED BY <1>9, <2>1, <2>2 DEF Core1
  <1>10. CASE UNCHANGED <<chip, seen, out, got, misled>>
    BY <1>10 DEF chip
  <1> QED BY <1>1, <1>2, <1>3, <1>4, <1>5, <1>6, <1>7, <1>8, <1>9, <1>10, RegisterChanges

LEMMA Core0Step == ASSUME TypeOK, [Next]_vars PROVE Core0Typed'
  <1> USE DEF TypeOK, Core0Typed
  <1>1. CASE Found
    BY <1>1 DEF Found
  <1>2. CASE Lost
    BY <1>2 DEF Lost
  <1>3. CASE Begin
    BY <1>3 DEF Begin, To, Core0States
  <1>4. CASE Send
    BY <1>4 DEF Send, To, Core0States, Core1Typed
  <1>5. CASE Sent
    BY <1>5, ZenonT(60) DEF Sent, Fire, Core0States
  <1>6. CASE Load
    BY <1>6 DEF Load, To, Core0States
  <1>7. CASE Receive
    BY <1>7 DEF Receive, To, Core0States
  <1>8. CASE Received
    <2>1. core0' \in Core0States
      BY <1>8 DEF Received, Fire, Core0States
    <2> QED BY <1>8, <2>1, Sizes DEF Received
  <1>9. CASE StillFull
    <2>1. core0' \in Core0States
      BY <1>9 DEF StillFull, Fire, Core0States
    <2> QED BY <1>9, <2>1, Countdown DEF StillFull
  <1>10. CASE NoneToReceive
    BY <1>10 DEF NoneToReceive, To, Core0States
  <1>11. CASE DoCmd
    <2>1. core0' \in Core0States
      BY <1>11 DEF DoCmd, Fire, Core0States
    <2>2. settings' \in Commands \cup {{}}
      BY <1>11 DEF DoCmd, RegistersTyped, Registers
    <2>3. not_dcd' \in BOOLEAN
      BY <1>11 DEF DoCmd
    <2> QED BY <1>11, <2>1, <2>2, <2>3 DEF DoCmd
  <1>12. CASE CmdDone
    BY <1>12 DEF CmdDone, To, Core0States
  <1>13. CASE RaiseIrq
    BY <1>13 DEF RaiseIrq
  <1>14. CASE Compose
    BY <1>14 DEF Compose, Core0States, RegistersTyped
  <1>15. CASE Store
    <2>1. core0' \in Core0States
      BY <1>15, TopTyped DEF Store, Core0States, Status
    <2> QED BY <1>15, <2>1 DEF Store
  <1>16. CASE LowerIrq
    BY <1>16, TopTyped DEF LowerIrq
  <1>17. CASE acia_stop
    BY <1>17 DEF acia_stop
  <1>18. CASE UNCHANGED <<core0, acia_dev, not_dcd, irq_line, settings, cnt, sent>>
    BY <1>18
  <1> QED
    BY <1>1, <1>2, <1>3, <1>4, <1>5, <1>6, <1>7, <1>8, <1>9, <1>10, <1>11, <1>12, <1>13, <1>14,
       <1>15, <1>16, <1>17, <1>18, Core0Changes DEF acia_task

LEMMA Core1Step == ASSUME TypeOK, [Next]_vars PROVE Core1Typed'
  <1> USE DEF TypeOK, Core1Typed
  <1>1. CASE ReadStatus
    BY <1>1, NoAccessTyped DEF ReadStatus, Access, Accesses, tx
  <1>2. CASE ReadData
    BY <1>2, NoAccessTyped DEF ReadData, Access, Accesses, tx
  <1>3. CASE WriteData
    <2>1. written + 1 \in 0 .. MaxEvents
      BY <1>3, Sizes, SMTT(60) DEF WriteData, More, ModemTyped
    <2>2. core1' \in Accesses
      BY <1>3, <2>1, NoAccessTyped DEF WriteData, Accesses
    <2> QED BY <1>3, <2>1, <2>2 DEF WriteData
  <1>4. CASE WriteCmd
    <2>1. core1' \in Accesses
      BY <1>4, NoAccessTyped DEF WriteCmd, Accesses
    <2> QED BY <1>4, <2>1 DEF WriteCmd, tx
  <1>5. CASE Reset
    BY <1>5, NoAccessTyped DEF Reset, Access, Accesses, tx
  <1>6. CASE CmdDone
    BY <1>6 DEF CmdDone, tx
  <1>7. CASE Core1
    <2>1. [NoAccess EXCEPT !.access = "served", !.pc = "compose"] \in Accesses
      BY NoAccessTyped DEF Accesses
    <2>2. CASE acia_clr_irq \/ acia_read \/ acia_reset
      BY <1>7, <2>1, <2>2 DEF Core1, acia_clr_irq, acia_read, acia_reset, Publish
    <2>3. CASE acia_write
      <3>1. core1' \in Accesses
        BY <2>1, <2>3 DEF acia_write, Publish, Then, Accesses
      <3> QED BY <1>7, <2>3, <3>1 DEF Core1, acia_write, Accesses
    <2>4. CASE acia_cmd
      <3>1. core1' \in Accesses
        BY <2>4, NoAccessTyped DEF acia_cmd, Then, Accesses
      <3> QED BY <1>7, <2>4, <3>1 DEF Core1, acia_cmd
    <2>5. CASE UpdateStat
      <3>1. core1' \in Accesses
        BY <2>5, NoAccessTyped DEF UpdateStat, Accesses, RegistersTyped
      <3> QED BY <1>7, <2>5, <3>1 DEF Core1, UpdateStat
    <2> QED BY <1>7, <2>2, <2>3, <2>4, <2>5 DEF Core1
  <1>8. CASE UNCHANGED <<core1, acia_tx_data, acia_cmd_todo, written>>
    BY <1>8
  <1> HIDE DEF TypeOK, Core1Typed
  <1> QED BY <1>1, <1>2, <1>3, <1>4, <1>5, <1>6, <1>7, <1>8, Core1Changes DEF Program

LEMMA StepTyped == ASSUME TypeOK, [Next]_vars PROVE TypeOK'
BY ModemStep, RingStep, RegistersStep, Core0Step, Core1Step DEF TypeOK

(***************************************************************************)
(* Every variable keeps its type: the indices stay inside the ring, and no *)
(* number passes the bound on events.                                      *)
(***************************************************************************)
THEOREM TypeCorrect == Spec => []TypeOK
BY InitTyped, StepTyped, PTL DEF Spec

-----------------------------------------------------------------------------
(***************************************************************************)
(* The order of the bytes.                                                 *)
(***************************************************************************)
LEMMA QueueChanges ==
  ASSUME [Next]_vars
  PROVE  Unplug \/ Arrive \/ Load \/ Lost \/ Receive \/ acia_stop
         \/ UNCHANGED <<arrived, fifo, ring, out>>
BY DEF Next, acia_task, Program, Core1, vars, Plug, Found, Begin, Send, Sent, Received,
       StillFull, NoneToReceive, DoCmd, CmdDone, RaiseIrq, Compose, Store, LowerIrq,
       ReadStatus, ReadData, WriteData, WriteCmd, Reset, usb

\* Nothing is in use of a ring that has been emptied.
LEMMA NoneInUse ==
  ASSUME TypeOK, head' = 0, tail' = 0
  PROVE  Count' = 0 /\ \A i \in Index : ~InUse(i)'
  <1>1. Count' = 0
    BY DEF Count, Age
  <1>2. \A i \in Index : Age(i, tail)' \in Nat
    BY Sizes DEF Index, Age
  <1> QED BY <1>1, <1>2 DEF InUse

LEMMA Numbers ==
  ASSUME TypeOK
  PROVE  /\ arrived \in Nat /\ out \in Nat /\ Len(fifo) \in Nat
         /\ head \in Index /\ tail \in Index
         /\ \A i \in Index : buffer[i] \in Nat
         /\ \A k \in 1 .. Len(fifo) : fifo[k] \in Nat
BY Sizes DEF TypeOK, ModemTyped, RingTyped, RegistersTyped

LEMMA InitOrdered == Init => Ordered
  <1> SUFFICES ASSUME Init PROVE Ordered OBVIOUS
  <1>1. First \in Index
    BY Sizes DEF Index
  <1>2. Count = 0
    BY <1>1, AgeBounds DEF Init, Count
  <1>3. \A i \in Index : ~InUse(i)
    BY <1>1, <1>2, AgeBounds DEF Init, InUse
  <1>4. fifo = <<>> /\ out = 0 /\ arrived = 0
    BY DEF Init
  <1>5. RingInOrder
    BY <1>2, <1>3, Sizes DEF RingInOrder
  <1>6. FifoInOrder
    BY <1>4 DEF FifoInOrder
  <1> QED BY <1>4, <1>5, <1>6 DEF Ordered

LEMMA LoadOrdered ==
  ASSUME TypeOK, Ordered, Load
  PROVE  Ordered'
  <1> DEFINE n == IF Len(fifo) < Room THEN Len(fifo) ELSE Room
  <1>1. n \in Nat /\ n <= Len(fifo) /\ n <= RxBufferSize - head /\ Count + n <= RxBufferSize - 2
    <2>1. Room \in Nat /\ Room <= RxBufferSize - head /\ Room + Count <= RxBufferSize - 2
      BY RoomBounds, Numbers DEF Ordered, RingInOrder
    <2>2. Count \in Nat /\ Len(fifo) \in Nat /\ head \in Nat
      BY AgeBounds, Numbers, Sizes DEF Count, Index
    <2> QED BY <2>1, <2>2, Sizes
  <1>2. /\ buffer' = [i \in Index |-> IF i \in head .. head + n - 1 THEN fifo[i - head + 1]
                                                                ELSE buffer[i]]
        /\ head' = Masked(head + n) /\ tail' = tail
        /\ fifo' = SubSeq(fifo, n + 1, Len(fifo))
        /\ arrived' = arrived /\ out' = out
    BY DEF Load
  <1> HIDE DEF n
  <1>3. Count' = Count + n
    BY <1>1, <1>2, AgeLoaded, Numbers DEF Count
  <1>4. ASSUME NEW i \in Index
        PROVE  /\ InUse(i)' <=> Age(i, tail) < Count + n
               /\ i \in head .. head + n - 1 => Age(i, tail) = Count + i - head
               /\ InUse(i) => i \notin head .. head + n - 1
               /\ InUse(i)' => InUse(i) \/ i \in head .. head + n - 1
    <2>1. Age(i, tail)' = Age(i, tail)
      BY <1>2 DEF Age
    <2> QED BY <1>1, <1>2, <1>3, <2>1, AgeLoaded, Numbers DEF Count, InUse
  <1>5. ASSUME NEW i \in Index, InUse(i)'
        PROVE  \/ InUse(i) /\ buffer'[i] = buffer[i]
               \/ /\ i - head + 1 \in 1 .. n /\ buffer'[i] = fifo[i - head + 1]
                  /\ Age(i, tail) = Count + i - head
    <2>1. CASE InUse(i)
      BY <1>2, <1>4, <2>1
    <2>2. CASE i \in head .. head + n - 1
      BY <1>1, <1>2, <1>4, <2>2, Numbers, SMTT(60) DEF Index
    <2> QED BY <1>4, <1>5, <2>1, <2>2
  <1>6. /\ Len(fifo') = Len(fifo) - n
        /\ \A k \in 1 .. Len(fifo') : k + n \in 1 .. Len(fifo) /\ fifo'[k] = fifo[k + n]
    BY <1>1, <1>2, Numbers DEF TypeOK, ModemTyped
  <1>7. RingInOrder'
    <2>1. Count' <= RxBufferSize - 2
      BY <1>1, <1>3
    <2>2. ASSUME NEW i \in Index, InUse(i)'
          PROVE  buffer'[i] > out' /\ buffer'[i] <= arrived'
      BY <1>1, <1>2, <1>5, <2>2, Numbers DEF Ordered, RingInOrder, FifoInOrder
    <2>3. ASSUME NEW i \in Index, NEW j \in Index, Age(i, tail) < Age(j, tail), InUse(j)'
          PROVE  buffer'[i] < buffer'[j]
      <3>1. InUse(i)'
        <4>1. Age(i, tail) \in Nat /\ Age(j, tail) \in Nat /\ Count \in Nat
          BY AgeBounds, Numbers, Sizes DEF Count
        <4> QED BY <1>1, <1>4, <2>3, <4>1
      <3>2. CASE InUse(i) /\ InUse(j)
        BY <1>2, <1>4, <2>3, <3>2 DEF Ordered, RingInOrder
      <3>3. CASE InUse(i) /\ ~InUse(j)
        BY <1>1, <1>2, <1>4, <1>5, <2>3, <3>3, Numbers DEF Ordered, FifoInOrder
      <3>4. CASE ~InUse(i)
        <4>1. ~InUse(j)
          BY <2>3, <3>4, AgeBounds, Numbers, Sizes, SMTT(60) DEF InUse, Count
        <4>2. /\ i - head + 1 \in 1 .. n /\ buffer'[i] = fifo[i - head + 1]
              /\ j - head + 1 \in 1 .. n /\ buffer'[j] = fifo[j - head + 1]
              /\ i - head + 1 < j - head + 1
          <5>1. Age(i, tail) = Count + i - head /\ Age(j, tail) = Count + j - head
            BY <1>5, <2>3, <3>1, <3>4, <4>1
          <5>2. Count \in Nat /\ i \in Nat /\ j \in Nat /\ head \in Nat
            BY AgeBounds, Numbers, Sizes DEF Count, Index
          <5>3. i - head + 1 < j - head + 1
            BY <2>3, <5>1, <5>2
          <5> QED BY <1>5, <2>3, <3>1, <3>4, <4>1, <5>3
        <4> QED BY <1>1, <4>2, Numbers DEF Ordered, FifoInOrder
      <3> QED BY <3>2, <3>3, <3>4
    <2> QED BY <1>2, <2>1, <2>2, <2>3 DEF RingInOrder
  <1>8. FifoInOrder'
    <2>1. ASSUME NEW k \in 1 .. Len(fifo') PROVE fifo'[k] > out' /\ fifo'[k] <= arrived'
      BY <1>2, <1>6 DEF Ordered, FifoInOrder
    <2>2. ASSUME NEW k \in 1 .. Len(fifo'), NEW l \in 1 .. Len(fifo'), k < l
          PROVE  fifo'[k] < fifo'[l]
      BY <1>1, <1>6, <2>2 DEF Ordered, FifoInOrder
    <2>3. ASSUME NEW i \in Index, NEW k \in 1 .. Len(fifo'), InUse(i)'
          PROVE  buffer'[i] < fifo'[k]
      BY <1>1, <1>5, <1>6, <2>3, Numbers, SMTT(60) DEF Ordered, FifoInOrder
    <2> QED BY <2>1, <2>2, <2>3 DEF FifoInOrder
  <1> QED BY <1>2, <1>7, <1>8 DEF Ordered

LEMMA ReceiveOrdered ==
  ASSUME TypeOK, Ordered, Receive
  PROVE  Ordered' /\ InUse(tail) /\ out' = buffer[tail]
  <1>1. /\ head # tail /\ out' = buffer[tail] /\ tail' = Masked(tail + 1) /\ head' = head
        /\ buffer' = buffer /\ fifo' = fifo /\ arrived' = arrived
    BY DEF Receive, usb
  <1>2. Age(tail, tail) = 0 /\ Count \in 1 .. RxBufferSize - 1
    BY <1>1, AgeBounds, Numbers, Sizes DEF Count
  <1>3. InUse(tail)
    BY <1>2 DEF InUse
  <1>4. Count' = Count - 1
    BY <1>1, AgeReceived, Numbers DEF Count
  <1>5. ASSUME NEW i \in Index
        PROVE  Age(i, tail)' = IF i = tail THEN RxBufferSize - 1 ELSE Age(i, tail) - 1
    BY <1>1, AgeReceived, Numbers
  <1>6. ASSUME NEW i \in Index, InUse(i)'
        PROVE  InUse(i) /\ i # tail /\ Age(tail, tail) < Age(i, tail)
    <2>1. Age(i, tail) \in Nat /\ (i # tail => Age(i, tail) > 0)
      BY AgeBounds, Numbers, Sizes
    <2> QED BY <1>2, <1>4, <1>5, <1>6, <2>1, Sizes DEF InUse
  <1>7. RingInOrder'
    <2>1. Count' <= RxBufferSize - 2
      BY <1>2, <1>4, Sizes DEF Ordered, RingInOrder
    <2>2. ASSUME NEW i \in Index, InUse(i)' PROVE buffer'[i] > out' /\ buffer'[i] <= arrived'
      BY <1>1, <1>6, <2>2, Numbers DEF Ordered, RingInOrder
    <2>3. ASSUME NEW i \in Index, NEW j \in Index, Age(i, tail)' < Age(j, tail)', InUse(j)'
          PROVE  buffer'[i] < buffer'[j]
      <3>1. Age(i, tail) \in 0 .. RxBufferSize - 1 /\ Age(j, tail) \in 0 .. RxBufferSize - 1
        BY AgeBounds, Numbers
      <3>2. InUse(j) /\ j # tail
        BY <1>6, <2>3
      <3>3. i # tail
        BY <1>5, <2>3, <3>1, <3>2, Sizes
      <3>4. Age(i, tail) < Age(j, tail)
        BY <1>5, <2>3, <3>1, <3>2, <3>3
      <3> QED BY <1>1, <3>2, <3>4 DEF Ordered, RingInOrder
    <2> QED BY <2>1, <2>2, <2>3 DEF RingInOrder
  <1>8. FifoInOrder'
    <2>1. \A k \in 1 .. Len(fifo) : fifo[k] > buffer[tail] /\ fifo[k] <= arrived
      BY <1>3, Numbers DEF Ordered, FifoInOrder
    <2>2. \A i \in Index, k \in 1 .. Len(fifo) : InUse(i)' => buffer[i] < fifo[k]
      BY <1>6 DEF Ordered, FifoInOrder
    <2> QED BY <1>1, <2>1, <2>2 DEF Ordered, FifoInOrder
  <1>9. out' <= arrived'
    BY <1>1, <1>3, Numbers DEF Ordered, RingInOrder
  <1> QED BY <1>1, <1>3, <1>7, <1>8, <1>9 DEF Ordered

LEMMA ArriveOrdered ==
  ASSUME TypeOK, Ordered, Arrive
  PROVE  Ordered'
  <1>1. /\ arrived' = arrived + 1 /\ fifo' = Append(fifo, arrived + 1)
        /\ UNCHANGED <<buffer, head, tail, out>>
    BY DEF Arrive, ring
  <1>2. Count' = Count /\ \A i, j \in Index : InUse(i)' = InUse(i) /\ Age(i, tail)' = Age(i, tail)
    BY <1>1 DEF Count, InUse, Age
  <1>3. /\ Len(fifo') = Len(fifo) + 1
        /\ \A k \in 1 .. Len(fifo') : fifo'[k] = IF k <= Len(fifo) THEN fifo[k] ELSE arrived + 1
    BY <1>1, Numbers DEF TypeOK, ModemTyped
  <1>4. RingInOrder'
    BY <1>1, <1>2, Numbers DEF Ordered, RingInOrder
  <1>5. ASSUME NEW k \in 1 .. Len(fifo')
        PROVE  \/ k \in 1 .. Len(fifo) /\ fifo'[k] = fifo[k]
               \/ k = Len(fifo') /\ fifo'[k] = arrived + 1
    <2>1. CASE k <= Len(fifo)
      <3>1. k \in 1 .. Len(fifo)
        BY <2>1, Numbers
      <3>2. fifo'[k] = fifo[k]
        BY <1>3, <2>1
      <3> QED BY <3>1, <3>2
    <2>2. CASE ~(k <= Len(fifo))
      <3>1. k = Len(fifo')
        BY <1>3, <2>2, Numbers
      <3> QED BY <1>3, <2>2, <3>1
    <2> QED BY <2>1, <2>2
  <1>6. ASSUME NEW k \in 1 .. Len(fifo') PROVE fifo'[k] > out' /\ fifo'[k] <= arrived'
    BY <1>1, <1>5, Numbers DEF Ordered, FifoInOrder
  <1>7. ASSUME NEW k \in 1 .. Len(fifo'), NEW l \in 1 .. Len(fifo'), k < l PROVE fifo'[k] < fifo'[l]
    BY <1>3, <1>5, <1>7, Numbers DEF Ordered, FifoInOrder
  <1>8. ASSUME NEW i \in Index, NEW k \in 1 .. Len(fifo'), InUse(i)' PROVE buffer'[i] < fifo'[k]
    BY <1>1, <1>2, <1>5, <1>8, Numbers DEF Ordered, RingInOrder, FifoInOrder
  <1>9. FifoInOrder'
    BY <1>6, <1>7, <1>8 DEF FifoInOrder
  <1> QED BY <1>1, <1>4, <1>9, Numbers DEF Ordered

LEMMA UnplugOrdered ==
  ASSUME TypeOK, Ordered, Unplug
  PROVE  Ordered'
  <1>1. fifo' = <<>> /\ UNCHANGED <<arrived, buffer, head, tail, out>>
    BY DEF Unplug, ring
  <1>2. Count' = Count /\ \A i, j \in Index : InUse(i)' = InUse(i) /\ Age(i, tail)' = Age(i, tail)
    BY <1>1 DEF Count, InUse, Age
  <1>3. RingInOrder'
    BY <1>1, <1>2 DEF Ordered, RingInOrder
  <1>4. FifoInOrder'
    BY <1>1 DEF FifoInOrder
  <1> QED BY <1>1, <1>3, <1>4 DEF Ordered

LEMMA EmptiedOrdered ==
  ASSUME TypeOK, Ordered, head' = 0, tail' = 0, UNCHANGED <<arrived, fifo, out>>
  PROVE  Ordered'
  <1>1. Count' = 0 /\ \A i \in Index : ~InUse(i)'
    BY NoneInUse
  <1>2. RingInOrder'
    BY <1>1, Sizes DEF RingInOrder
  <1>3. FifoInOrder'
    BY <1>1 DEF Ordered, FifoInOrder
  <1> QED BY <1>2, <1>3 DEF Ordered

LEMMA OrderedStep ==
  ASSUME TypeOK, Ordered, [Next]_vars
  PROVE  Ordered'
  <1>1. CASE Unplug
    BY <1>1, UnplugOrdered
  <1>2. CASE Arrive
    BY <1>2, ArriveOrdered
  <1>3. CASE Load
    BY <1>3, LoadOrdered
  <1>4. CASE Lost
    BY <1>4, EmptiedOrdered DEF Lost, usb
  <1>5. CASE Receive
    BY <1>5, ReceiveOrdered
  <1>6. CASE acia_stop
    BY <1>6, EmptiedOrdered DEF acia_stop, usb
  <1>7. CASE UNCHANGED <<arrived, fifo, ring, out>>
    BY <1>7 DEF Ordered, RingInOrder, FifoInOrder, InUse, Count, Age, ring
  <1> QED BY <1>1, <1>2, <1>3, <1>4, <1>5, <1>6, <1>7, QueueChanges

-----------------------------------------------------------------------------
(***************************************************************************)
(* The interface as a Line.  What waits is what the ring and the driver    *)
(* hold.                                                                   *)
(***************************************************************************)
Waiting == {buffer[i] : i \in Stored} \cup {fifo[i] : i \in 1 .. Len(fifo)}

LEMMA StoredIsInUse ==
  ASSUME NEW h \in Index, NEW t \in Index
  PROVE  (IF h >= t THEN t .. h - 1 ELSE (t .. RxBufferSize - 1) \cup (0 .. h - 1))
           = {i \in Index : Age(i, t) < Age(h, t)}
BY Sizes DEF Index, Age

LEMMA WaitingIs ==
  ASSUME TypeOK, NEW x
  PROVE  x \in Waiting <=> \/ \E i \in Index : InUse(i) /\ x = buffer[i]
                           \/ \E k \in 1 .. Len(fifo) : x = fifo[k]
  <1>1. Stored = {i \in Index : InUse(i)}
    BY StoredIsInUse, Numbers DEF Stored, InUse, Count
  <1> QED BY <1>1 DEF Waiting

LEMMA WaitingThen ==
  ASSUME TypeOK', NEW x
  PROVE  x \in Waiting' <=> \/ \E i \in Index : InUse(i)' /\ x = buffer'[i]
                            \/ \E k \in 1 .. Len(fifo') : x = fifo'[k]
  <1>1. head' \in Index /\ tail' \in Index
    BY DEF TypeOK, RingTyped
  <1>2. Stored' = {i \in Index : InUse(i)'}
    BY <1>1, StoredIsInUse DEF Stored, InUse, Count
  <1> QED BY <1>2 DEF Waiting

LEMMA ArriveWaits ==
  ASSUME TypeOK, Ordered, Arrive
  PROVE  Waiting' = Waiting \cup {arrived + 1}
  <1>1. fifo' = Append(fifo, arrived + 1) /\ UNCHANGED <<buffer, head, tail>>
    BY DEF Arrive, ring
  <1>2. /\ Len(fifo') = Len(fifo) + 1
        /\ \A k \in 1 .. Len(fifo') : fifo'[k] = IF k <= Len(fifo) THEN fifo[k] ELSE arrived + 1
    BY <1>1, Numbers DEF TypeOK, ModemTyped
  <1>3. {fifo'[k] : k \in 1 .. Len(fifo')} = {fifo[k] : k \in 1 .. Len(fifo)} \cup {arrived + 1}
    <2>1. 1 .. Len(fifo') = (1 .. Len(fifo)) \cup {Len(fifo) + 1}
      BY <1>2, Numbers
    <2> QED BY <1>2, <2>1, Numbers
  <1>4. {buffer[i] : i \in Stored}' = {buffer[i] : i \in Stored}
    BY <1>1 DEF Stored
  <1> QED BY <1>3, <1>4 DEF Waiting

LEMMA ReceiveWaits ==
  ASSUME TypeOK, TypeOK', Ordered, Receive
  PROVE  out' \in Waiting /\ (\A m \in Waiting : out' <= m) /\ Waiting' = Waiting \ {out'}
  <1>1. /\ out' = buffer[tail] /\ tail' = Masked(tail + 1) /\ head' = head
        /\ buffer' = buffer /\ fifo' = fifo /\ head # tail
    BY DEF Receive, usb
  <1>2. InUse(tail) /\ Age(tail, tail) = 0
    BY ReceiveOrdered, AgeBounds, Numbers
  <1>3. Count' = Count - 1
    BY <1>1, AgeReceived, Numbers DEF Count
  <1>4. ASSUME NEW i \in Index
        PROVE  InUse(i)' <=> InUse(i) /\ i # tail
    <2>1. /\ Age(i, tail)' = IF i = tail THEN RxBufferSize - 1 ELSE Age(i, tail) - 1
          /\ Age(i, tail) \in Nat
      BY <1>1, AgeReceived, AgeBounds, Numbers, Sizes
    <2>2. Count \in 0 .. RxBufferSize - 1
      BY AgeBounds, Numbers DEF Count
    <2> QED BY <1>3, <2>1, <2>2, Sizes DEF InUse
  <1>5. \A i \in Index : InUse(i) /\ i # tail => buffer[tail] < buffer[i]
    <2>1. \A i \in Index : i # tail => Age(tail, tail) < Age(i, tail)
      BY <1>2, AgeBounds, Numbers, Sizes
    <2> QED BY <2>1, Numbers DEF Ordered, RingInOrder
  <1>6. \A k \in 1 .. Len(fifo) : buffer[tail] < fifo[k]
    BY <1>2, Numbers DEF Ordered, FifoInOrder
  <1>7. out' \in Waiting
    BY <1>1, <1>2, WaitingIs, Numbers
  <1>8. ASSUME NEW m \in Waiting PROVE out' <= m
    BY <1>1, <1>5, <1>6, WaitingIs, Numbers
  <1>9. ASSUME NEW x PROVE x \in Waiting' <=> x \in Waiting /\ x # out'
    <2>1. x \in Waiting' => x \in Waiting /\ x # out'
      BY <1>1, <1>4, <1>5, <1>6, WaitingIs, WaitingThen, Numbers
    <2>2. x \in Waiting /\ x # out' => x \in Waiting'
      BY <1>1, <1>4, WaitingIs, WaitingThen
    <2> QED BY <2>1, <2>2
  <1> QED BY <1>7, <1>8, <1>9

LEMMA LoadWaits ==
  ASSUME TypeOK, TypeOK', Ordered, Load
  PROVE  Waiting' = Waiting
  <1> DEFINE n == IF Len(fifo) < Room THEN Len(fifo) ELSE Room
  <1>1. n \in Nat /\ n <= Len(fifo) /\ n <= RxBufferSize - head /\ Count + n <= RxBufferSize - 2
    <2>1. Room \in Nat /\ Room <= RxBufferSize - head /\ Room + Count <= RxBufferSize - 2
      BY RoomBounds, Numbers DEF Ordered, RingInOrder
    <2>2. Count \in Nat /\ Len(fifo) \in Nat /\ head \in Nat
      BY AgeBounds, Numbers, Sizes DEF Count, Index
    <2> QED BY <2>1, <2>2, Sizes
  <1>2. /\ buffer' = [i \in Index |-> IF i \in head .. head + n - 1 THEN fifo[i - head + 1]
                                                                ELSE buffer[i]]
        /\ head' = Masked(head + n) /\ tail' = tail
        /\ fifo' = SubSeq(fifo, n + 1, Len(fifo))
    BY DEF Load
  <1> HIDE DEF n
  <1>3. Count' = Count + n
    BY <1>1, <1>2, AgeLoaded, Numbers DEF Count
  <1>4. ASSUME NEW i \in Index
        PROVE  /\ InUse(i)' <=> InUse(i) \/ i \in head .. head + n - 1
               /\ InUse(i) => i \notin head .. head + n - 1
    <2>1. Age(i, tail)' = Age(i, tail)
      BY <1>2 DEF Age
    <2>2. Age(i, tail) \in Nat /\ Count \in Nat
      BY AgeBounds, Numbers, Sizes DEF Count
    <2>3. head \in Nat /\ i \in Nat
      BY Numbers, Sizes DEF Index
    <2>4. /\ i \in head .. head + n - 1 => Age(i, tail) = Count + i - head
          /\ Age(i, tail) < Count => i \notin head .. head + n - 1
          /\ Age(i, tail) < Count + n => Age(i, tail) < Count \/ i \in head .. head + n - 1
      BY <1>1, AgeLoaded, Numbers DEF Count
    <2>5. i \in head .. head + n - 1 => Age(i, tail) < Count + n
      BY <1>1, <2>2, <2>3, <2>4
    <2>6. Age(i, tail) < Count => Age(i, tail) < Count + n
      BY <1>1, <2>2
    <2> QED BY <1>3, <2>1, <2>4, <2>5, <2>6 DEF InUse
  <1>5. /\ Len(fifo') = Len(fifo) - n
        /\ \A k \in 1 .. Len(fifo') : k + n \in 1 .. Len(fifo) /\ fifo'[k] = fifo[k + n]
    BY <1>1, <1>2, Numbers DEF TypeOK, ModemTyped
  <1>6. \A i \in head .. head + n - 1 : /\ i \in Index /\ i - head + 1 \in 1 .. Len(fifo)
                                        /\ buffer'[i] = fifo[i - head + 1]
    BY <1>1, <1>2, Numbers, Sizes, SMTT(60) DEF Index
  <1>7. ASSUME NEW x, x \in Waiting' PROVE x \in Waiting
    <2>1. CASE \E i \in Index : InUse(i)' /\ x = buffer'[i]
      BY <1>2, <1>4, <1>6, <2>1, WaitingIs
    <2>2. CASE \E k \in 1 .. Len(fifo') : x = fifo'[k]
      BY <1>5, <2>2, WaitingIs
    <2> QED BY <1>7, <2>1, <2>2, WaitingThen
  <1>8. ASSUME NEW x, x \in Waiting PROVE x \in Waiting'
    <2>1. CASE \E i \in Index : InUse(i) /\ x = buffer[i]
      BY <1>2, <1>4, <2>1, WaitingThen
    <2>2. CASE \E k \in 1 .. Len(fifo) : x = fifo[k]
      <3>1. PICK k \in 1 .. Len(fifo) : x = fifo[k]
        BY <2>2
      <3>2. CASE k <= n
        <4>1. head + k - 1 \in head .. head + n - 1 /\ (head + k - 1) - head + 1 = k
          BY <3>2, <1>1, Numbers DEF Index
        <4> QED BY <1>4, <1>6, <3>1, <4>1, WaitingThen
      <3>3. CASE ~(k <= n)
        <4>1. k - n \in 1 .. Len(fifo') /\ (k - n) + n = k
          BY <3>3, <1>1, <1>5, Numbers
        <4> QED BY <1>5, <3>1, <4>1, WaitingThen
      <3> QED BY <3>2, <3>3
    <2> QED BY <1>8, <2>1, <2>2, WaitingIs
  <1> QED BY <1>7, <1>8

LEMMA EmptiedWaits ==
  ASSUME TypeOK, TypeOK', head' = 0, tail' = 0, fifo' = fifo
  PROVE  Waiting' \subseteq Waiting
BY NoneInUse, WaitingIs, WaitingThen

LEMMA UnplugWaits ==
  ASSUME TypeOK, TypeOK', Unplug
  PROVE  Waiting' \subseteq Waiting
  <1>1. fifo' = <<>> /\ UNCHANGED <<buffer, head, tail>>
    BY DEF Unplug, ring
  <1>2. {buffer[i] : i \in Stored}' = {buffer[i] : i \in Stored}
    BY <1>1 DEF Stored
  <1> QED BY <1>1, <1>2, SMTT(60) DEF Waiting

LEMMA LineChanges ==
  ASSUME [Next]_vars
  PROVE  Arrive \/ Receive \/ Load \/ Unplug \/ Plug \/ Found \/ Lost \/ acia_stop
         \/ UNCHANGED <<arrived, fifo, ring, out, plugged, acia_dev>>
BY DEF Next, acia_task, Program, Core1, vars, Begin, Send, Sent, Received,
       StillFull, NoneToReceive, DoCmd, CmdDone, RaiseIrq, Compose, Store, LowerIrq,
       ReadStatus, ReadData, WriteData, WriteCmd, Reset, usb

LEMMA LineStep ==
  ASSUME TypeOK, TypeOK', Ordered, [Next]_vars
  PROVE  [L!Arrive \/ L!HandOut \/ L!Cut \/ L!Restore]_L!vars
  <1> USE DEF L!Arrive, L!HandOut, L!Cut, L!Restore, L!vars
  <1>1. CASE Arrive
    <2>1. UNCHANGED <<out, plugged, acia_dev>> /\ arrived' = arrived + 1
      BY <1>1 DEF Arrive
    <2> QED BY <1>1, <2>1, ArriveWaits DEF Waiting
  <1>2. CASE Receive
    <2>1. UNCHANGED <<arrived, plugged, acia_dev>>
      BY <1>2 DEF Receive, usb
    <2> QED BY <1>2, <2>1, ReceiveWaits DEF Waiting
  <1>3. CASE Load
    <2>1. UNCHANGED <<arrived, out, plugged, acia_dev>>
      BY <1>3 DEF Load
    <2> QED BY <1>3, <2>1, LoadWaits DEF Waiting
  <1>4. CASE Unplug
    <2>1. UNCHANGED <<arrived, out>> /\ ~plugged'
      BY <1>4 DEF Unplug
    <2> QED BY <1>4, <2>1, UnplugWaits DEF Waiting
  <1>5. CASE Lost \/ acia_stop
    <2>1. UNCHANGED <<arrived, out, fifo>> /\ ~acia_dev' /\ head' = 0 /\ tail' = 0
      BY <1>5 DEF Lost, acia_stop, usb
    <2> QED BY <2>1, EmptiedWaits DEF Waiting
  <1>6. CASE Plug
    <2>1. UNCHANGED <<arrived, out, fifo, buffer, head, tail, acia_dev>> /\ ~plugged /\ plugged'
      BY <1>6 DEF Plug, ring
    <2>2. Waiting' = Waiting
      BY <2>1 DEF Waiting, Stored
    <2> QED BY <2>1, <2>2 DEF Waiting
  <1>7. CASE Found
    <2>1. /\ UNCHANGED <<arrived, out, fifo, buffer, head, tail, plugged>>
          /\ ~acia_dev /\ (acia_dev' => plugged)
      <3>1. CASE plugged
        BY <1>7, <3>1 DEF Found, ring, usb
      <3>2. CASE ~plugged
        BY <1>7, <3>2 DEF Found, ring, usb
      <3> QED BY <3>1, <3>2
    <2>2. Waiting' = Waiting
      BY <2>1 DEF Waiting, Stored
    <2> QED BY <2>1, <2>2 DEF Waiting
  <1>8. CASE UNCHANGED <<arrived, fifo, ring, out, plugged, acia_dev>>
    <2>1. Waiting' = Waiting
      BY <1>8 DEF Waiting, Stored, ring
    <2> QED BY <1>8, <2>1 DEF Waiting
  <1> QED BY <1>1, <1>2, <1>3, <1>4, <1>5, <1>6, <1>7, <1>8, LineChanges

LEMMA LineInit == Init => L!Init
  <1> SUFFICES ASSUME Init PROVE L!Init OBVIOUS
  <1>1. fifo = <<>> /\ head = First /\ tail = First
    BY DEF Init
  <1>2. Stored = {}
    BY <1>1, Sizes DEF Stored
  <1>3. Waiting = {}
    BY <1>1, <1>2 DEF Waiting
  <1> QED BY <1>3 DEF Init, L!Init, Waiting

(***************************************************************************)
(* The ring hands the modem's bytes to the data register in their order,   *)
(* each of them once, and drops none while the line is up, however its     *)
(* indices wrap: the interface implements a Line.                          *)
(***************************************************************************)
THEOREM BytesInOrder == Spec => ImplementsLine
  <1>1. Init => TypeOK /\ Ordered
    BY InitTyped, InitOrdered
  <1>2. TypeOK /\ Ordered /\ [Next]_vars => (TypeOK /\ Ordered)'
    BY StepTyped, OrderedStep
  <1>3. TypeOK /\ TypeOK' /\ Ordered /\ [Next]_vars
          => [L!Arrive \/ L!HandOut \/ L!Cut \/ L!Restore]_L!vars
    BY LineStep
  <1> QED BY <1>1, <1>2, <1>3, LineInit, PTL DEF Spec, ImplementsLine, L!Spec

-----------------------------------------------------------------------------
(***************************************************************************)
(* Each byte once.                                                         *)
(***************************************************************************)
LEMMA ExchangeTypes ==
  ASSUME TypeOK
  PROVE  /\ io \in Registers /\ core0 \in Core0States /\ core1 \in Accesses
         /\ io.data \in Nat /\ core1.byte \in Nat
         /\ out \in Nat /\ got \in Nat /\ sent \in Nat /\ written \in Nat /\ acia_tx_data \in Nat
BY Sizes DEF TypeOK, RegistersTyped, Core0Typed, Core1Typed, Registers, Accesses

\* What has no part in the exchange: the modem, the ring but for its end, and
\* what acia_task() does about commands and interrupts.
Quiet ==
  /\ io.data' = io.data
  /\ At("received")' = At("received") /\ At("sent")' = At("sent")
  /\ UNCHANGED <<stat, core1, seen, got, out, misled, sent, written, acia_tx_data>>

LEMMA QuietSteps ==
  ASSUME TypeOK, Plug \/ Unplug \/ Arrive \/ Found \/ Lost \/ Begin \/ Load \/ StillFull
                 \/ NoneToReceive \/ DoCmd \/ CmdDone \/ RaiseIrq \/ Compose \/ Store \/ LowerIrq
  PROVE  Quiet
  <1> USE ExchangeTypes DEF Quiet, chip, tx, At
  <1>1. CASE Plug \/ Unplug \/ Arrive \/ Found \/ Lost \/ RaiseIrq
    BY <1>1 DEF Plug, Unplug, Arrive, Found, Lost, RaiseIrq
  <1>2. CASE Begin
    BY <1>2 DEF Begin, To, Core0States
  <1>3. CASE Load
    BY <1>3 DEF Load, To, Core0States
  <1>4. CASE StillFull
    BY <1>4 DEF StillFull, Fire, Core0States
  <1>5. CASE NoneToReceive
    BY <1>5 DEF NoneToReceive, To, Core0States
  <1>6. CASE DoCmd
    BY <1>6 DEF DoCmd, Fire, Core0States
  <1>7. CASE CmdDone
    BY <1>7 DEF CmdDone, To, Core0States
  <1>8. CASE Compose
    BY <1>8 DEF Compose, Core0States
  <1>9. CASE Store
    BY <1>9 DEF Store, Top, Core0States, Registers
  <1>10. CASE LowerIrq
    BY <1>10 DEF LowerIrq, Top
  <1> QED BY <1>1, <1>2, <1>3, <1>4, <1>5, <1>6, <1>7, <1>8, <1>9, <1>10

LEMMA QuietExchange ==
  ASSUME Exchange, Quiet
  PROVE  Exchange'
BY DEF Exchange, Quiet, NumbersBounded, SeenIsSo, DataUnread, DataUnsent, Reading, Writing

LEMMA InitExchange == Init => Exchange
BY DEF Init, Top, NoAccess, Exchange, NumbersBounded, SeenIsSo, DataUnread, DataUnsent, Reading,
       Writing, At

LEMMA Core0Exchange ==
  ASSUME TypeOK, Ordered, Exchange, Send \/ Sent \/ Receive \/ Received
  PROVE  Exchange'
  <1> USE ExchangeTypes DEF Exchange, NumbersBounded, SeenIsSo, DataUnread, DataUnsent, Reading,
                            Writing, At, chip, tx
  <1>1. CASE Send
    BY <1>1 DEF Send, To, Core0States
  <1>2. CASE Sent
    <2>1. At("sent") /\ ~At("sent")' /\ ~At("received")'
      BY <1>2 DEF Sent, Fire, Core0States
    <2>2. (stat' = stat \cup {"tx"} /\ io' = io) \/ (stat' = stat \cup {"tx", "rx"} /\ io'.data = 0)
      BY <1>2 DEF Sent, Registers
    <2>3. UNCHANGED <<core1, seen, out, got, misled, sent, written, acia_tx_data>>
      BY <1>2 DEF Sent
    <2>4. ~At("received")
      BY <2>1
    <2> QED BY <2>1, <2>2, <2>3, <2>4
  <1>3. CASE Receive
    <2>1. out' = buffer[tail] /\ out' > out
      BY <1>3, ReceiveOrdered, Numbers DEF Ordered, RingInOrder
    <2>2. io' = [io EXCEPT !.data = buffer[tail]]
      BY <1>3 DEF Receive
    <2>3. io'.data = out'
      BY <2>1, <2>2 DEF Registers
    <2>4. At("received")' /\ ~At("sent") /\ ~At("sent")'
      BY <1>3 DEF Receive, To, Core0States
    <2>5. "rx" \notin stat /\ UNCHANGED <<stat, core1, seen, got, misled, sent, written, acia_tx_data>>
      BY <1>3 DEF Receive
    <2> QED BY <2>1, <2>3, <2>4, <2>5, Numbers
  <1>4. CASE Received
    <2>1. At("received") /\ ~At("received")' /\ ~At("sent") /\ ~At("sent")'
      BY <1>4 DEF Received, Fire, Core0States
    <2>2. /\ stat' = stat \cup {"rx"}
          /\ UNCHANGED <<io, core1, seen, out, got, misled, sent, written, acia_tx_data>>
      BY <1>4 DEF Received
    <2>3. NumbersBounded' /\ (~misled' => SeenIsSo')
      BY <2>2
    <2>4. ~misled' => DataUnread'
      BY <2>1, <2>2
    <2>5. ~misled' => DataUnsent'
      BY <2>1, <2>2
    <2> QED BY <2>3, <2>4, <2>5
  <1> QED BY <1>1, <1>2, <1>3, <1>4

LEMMA ProgramExchange ==
  ASSUME TypeOK, Exchange, Program \/ acia_stop
  PROVE  Exchange'
  <1> USE ExchangeTypes DEF Exchange, NumbersBounded, SeenIsSo, DataUnread, DataUnsent, Reading,
                            Writing, At, chip, tx, Access, NoAccess, Free
  <1>1. CASE ReadStatus
    <2>1. /\ core1.access = "none" /\ core1'.access = "status" /\ core1'.byte = 0
          /\ UNCHANGED <<io, stat, core0, out, got, sent, written, acia_tx_data>>
      BY <1>1 DEF ReadStatus
    <2>2. ~misled' => ~misled /\ seen' \subseteq stat'
      BY <1>1, <2>1 DEF ReadStatus
    <2>3. NumbersBounded'
      BY <2>1
    <2>4. CASE misled'
      BY <2>3, <2>4
    <2>5. CASE ~misled'
      <3>1. SeenIsSo'
        BY <2>1, <2>2, <2>5
      <3>2. DataUnread'
        BY <2>1, <2>2, <2>5
      <3>3. DataUnsent'
        BY <2>1, <2>2, <2>5
      <3> QED BY <2>3, <3>1, <3>2, <3>3
    <2> QED BY <2>4, <2>5
  <1>2. CASE ReadData
    BY <1>2 DEF ReadData
  <1>3. CASE WriteData
    BY <1>3 DEF WriteData
  <1>4. CASE WriteCmd
    BY <1>4 DEF WriteCmd
  <1>5. CASE Reset
    BY <1>5 DEF Reset
  <1>6. CASE acia_stop
    BY <1>6 DEF acia_stop
  <1> QED BY <1>1, <1>2, <1>3, <1>4, <1>5, <1>6 DEF Program

LEMMA Core1Exchange ==
  ASSUME TypeOK, Exchange, Core1
  PROVE  Exchange'
  <1> USE ExchangeTypes DEF Core1, Exchange, NumbersBounded, SeenIsSo, DataUnread, DataUnsent,
                            Reading, Writing, At, NoAccess, Serving, Publish, Then
  <1>1. CASE acia_clr_irq
    BY <1>1 DEF acia_clr_irq
  <1>2. CASE acia_read
    BY <1>2 DEF acia_read
  <1>3. CASE acia_reset
    BY <1>3 DEF acia_reset, Registers
  <1>4. CASE acia_write
    <2>1. UNCHANGED <<io, core0, seen, out, got, sent, written, misled>>
      BY <1>4 DEF acia_write
    <2>2. CASE core1.pc = "flag"
      <3>1. /\ core1.access = "write" /\ core1' = [core1 EXCEPT !.pc = "empty"]
            /\ acia_tx_data' = core1.byte /\ stat' = stat
        BY <1>4, <2>2 DEF acia_write
      <3>2. core1'.access = "write" /\ core1'.pc = "empty" /\ core1'.byte = core1.byte
        BY <3>1 DEF Accesses
      <3> QED BY <2>1, <3>1, <3>2
    <2>3. CASE core1.pc = "empty"
      <3>1. /\ core1.access = "write" /\ core1'.access = "served" /\ core1'.byte = 0
            /\ acia_tx_data' = acia_tx_data /\ stat' = stat \ {"tx"}
        BY <1>4, <2>3 DEF acia_write
      <3> QED BY <2>1, <2>3, <3>1
    <2> QED BY <1>4, <2>2, <2>3 DEF acia_write
  <1>5. CASE acia_cmd
    BY <1>5 DEF acia_cmd, Accesses, Registers
  <1>6. CASE UpdateStat
    <2>1. UNCHANGED <<stat, core0, seen, out, got, sent, written, acia_tx_data, misled>>
          /\ io'.data = io.data /\ core1.pc \in {"compose", "store"}
      BY <1>6 DEF UpdateStat, Registers
    <2>2. \/ core1'.access = core1.access /\ core1'.byte = core1.byte /\ core1'.pc = "store"
          \/ core1'.access = "none" /\ core1'.byte = 0
      <3>1. CASE core1' = [core1 EXCEPT !.pc = "store", !.stat = stat]
        <4>1. core1' = [[core1 EXCEPT !.pc = "store"] EXCEPT !.stat = stat]
          BY <3>1
        <4> QED BY <4>1 DEF Accesses
      <3>2. CASE core1'.access = "none" /\ core1'.byte = 0
        BY <3>2
      <3> QED BY <1>6, <3>1, <3>2 DEF UpdateStat
    <2> QED BY <2>1, <2>2
  <1> QED BY <1>1, <1>2, <1>3, <1>4, <1>5, <1>6

LEMMA ExchangeStep ==
  ASSUME TypeOK, Ordered, Exchange, [Next]_vars
  PROVE  Exchange'
  <1>1. CASE UNCHANGED vars
    BY <1>1, QuietExchange DEF vars, Quiet, chip, tx, At
  <1>2. CASE Next
    BY <1>2, QuietSteps, QuietExchange, Core0Exchange, ProgramExchange, Core1Exchange
    DEF Next, acia_task
  <1> QED BY <1>1, <1>2

LEMMA ReadsOnce ==
  ASSUME TypeOK, Ordered, Exchange, [Next]_vars
  PROVE  ReadOnce
  <1> USE DEF Exchange, SeenIsSo, DataUnread, Reading
  <1>1. ASSUME Free, core1'.access = "read" PROVE misled \/ io.data = 0 \/ io.data > got
    <2>1. core1' # core1
      BY <1>1 DEF Free
    <2>2. ReadData
      <3>1. ~(ReadStatus \/ WriteData \/ WriteCmd \/ Reset)
        BY <1>1 DEF ReadStatus, WriteData, WriteCmd, Reset, Access, NoAccess
      <3>2. ~Core1
        <4>1. core1.access # "none" \/ ~(acia_clr_irq \/ acia_read \/ acia_reset \/ acia_write \/ acia_cmd)
          BY DEF acia_clr_irq, acia_read, acia_reset, acia_write, acia_cmd, Serving
        <4>2. UpdateStat => core1'.access = core1.access \/ core1'.access = "none"
          <5>1. CASE core1' = [core1 EXCEPT !.pc = "store", !.stat = stat]
            <6>1. core1' = [[core1 EXCEPT !.pc = "store"] EXCEPT !.stat = stat]
              BY <5>1
            <6> QED BY <6>1, ExchangeTypes DEF Accesses
          <5>2. CASE core1' = NoAccess
            BY <5>2 DEF NoAccess
          <5> QED BY <5>1, <5>2 DEF UpdateStat
        <4> QED BY <1>1, <4>1, <4>2 DEF Core1, Free
      <3> QED BY <2>1, <3>1, <3>2, Core1Changes DEF Program, CmdDone
    <2>3. "rx" \in seen
      BY <2>2 DEF ReadData
    <2> QED BY <1>1, <2>3 DEF Free
  <1>2. ASSUME out' # out PROVE misled \/ io.data <= got
    <2>1. Receive
      BY <1>2, RingChanges DEF Lost, Load, acia_stop
    <2> QED BY <2>1 DEF Receive, At
  <1> QED BY <1>1, <1>2 DEF ReadOnce

LEMMA SendsOnce ==
  ASSUME TypeOK, Exchange, [Next]_vars
  PROVE  SentOnce
  <1> SUFFICES ASSUME At("send"), core0'.pc = "sent"
               PROVE  misled \/ (sent' > sent /\ sent' = written)
    BY DEF SentOnce
  <1>1. Send /\ sent' = acia_tx_data /\ "tx" \notin stat
    <2>1. core0'.pc # core0.pc
      BY DEF At
    <2>2. Send
      BY <2>1, Core0Changes DEF acia_task, Found, Lost, Begin, Sent, Load, Receive, Received, StillFull,
         NoneToReceive, DoCmd, CmdDone, RaiseIrq, Compose, Store, LowerIrq, acia_stop, At
    <2> QED BY <2>2, ExchangeTypes DEF Send, To, Core0States
  <1> QED BY <1>1, ExchangeTypes DEF Exchange, DataUnsent, At

(***************************************************************************)
(* As long as the 6502 has not been misled by a status stored late, it     *)
(* reads each byte once, before the next one takes its place, and the      *)
(* modem gets each byte that it writes once, whatever the two cores do in  *)
(* between.                                                                *)
(***************************************************************************)
THEOREM NoByteTwice == Spec => EachByteOnce
  <1>1. Init => TypeOK /\ Ordered /\ Exchange
    BY InitTyped, InitOrdered, InitExchange
  <1>2. TypeOK /\ Ordered /\ Exchange /\ [Next]_vars => (TypeOK /\ Ordered /\ Exchange)'
    BY StepTyped, OrderedStep, ExchangeStep
  <1>3. TypeOK /\ Ordered /\ Exchange /\ [Next]_vars => [ReadOnce /\ SentOnce]_vars
    BY ReadsOnce, SendsOnce
  <1> QED BY <1>1, <1>2, <1>3, PTL DEF Spec, EachByteOnce
=============================================================================
