-------------------------------- MODULE Acia --------------------------------
(***************************************************************************)
(* The serial interface (oric/acia.c): the registers of a 6551 in the I/O  *)
(* page, over a modem on USB.  Core 0 moves bytes between the modem and    *)
(* the registers and carries out commands (acia_task, called in every pass *)
(* of the main loop and whenever that waits for something); core 1 does    *)
(* what the 6502's accesses ask for.  Both put the status register         *)
(* together from the same flags, and no lock is between them: a step here  *)
(* is what one core does between two accesses to what they share.          *)
(*                                                                         *)
(* Bytes are numbers, in the order in which they arrive or are written; a  *)
(* command is the set of what it switches on ("dtr", interrupts for what   *)
(* is received, "rxi", and sent, "txi", and "echo").  The control          *)
(* register, the format of a byte, and the modem's and the interrupt's     *)
(* bits of the status are left out.                                        *)
(*                                                                         *)
(* An operator that stands unused before one of the same parameters is a   *)
(* plausible slip in that code, for trying the properties against.         *)
(***************************************************************************)
EXTENDS Integers, Sequences

CONSTANTS
  RxBufferSize,   (* ACIA_RX_BUFFER_SIZE, a power of two                   *)
  First,          (* where in the ring the first byte goes                 *)
  FifoSize,       (* what the USB driver holds of what has arrived         *)
  Commands,       (* what programs write to the command register           *)
  Repeat,         (* passes until the interrupt is repeated                *)
  MaxEvents       (* bytes that arrive or are written, and upsets         *)

ASSUME AciaAssumption ==
  /\ RxBufferSize \in {4, 8, 16, 32}
  /\ First \in 0 .. RxBufferSize - 1
  /\ FifoSize \in Nat \ {0} /\ Repeat \in Nat \ {0}
  /\ Commands \subseteq SUBSET {"dtr", "rxi", "txi", "echo"}
  /\ MaxEvents \in Nat

VARIABLES
  plugged, fifo,          (* the modem, and what the USB driver holds      *)
  acia_dev,               (* acia_task() has found the modem               *)
  buffer, head, tail,     (* acia_rx_buffer                                *)
  io,                     (* the registers: data, stat, cmd                *)
  stat,                   (* the flags: which of "rx" and "tx"             *)
  not_dcd,
  acia_tx_data, acia_cmd_todo,
  settings,               (* the command that has been carried out         *)
  cnt,
  core0,                  (* where acia_task() is, and what it has read    *)
  core1,                  (* the access that core 1 serves                 *)
  irq_line,
  seen,                   (* what the 6502 makes of the last status it read *)
  arrived, out,           (* history: the last byte that has arrived, and  *)
                          (* that has been put in the data register        *)
  got, written, sent,     (* history: the last byte that the 6502 has read *)
                          (* and written, and that the modem has got       *)
  misled,                 (* history: it has read a status that was not so *)
  upsets                  (* modems pulled, and resets of the chip         *)

usb   == <<plugged, fifo, arrived, upsets>>
ring  == <<buffer, head, tail>>
chip  == <<io, stat>>
tx    == <<acia_tx_data, written>>
vars == <<usb, acia_dev, ring, chip, not_dcd, tx, acia_cmd_todo, settings, cnt, core0, core1,
          irq_line, seen, out, got, sent, misled>>

Index == 0 .. RxBufferSize - 1
Masked(i) == i % RxBufferSize
More == arrived + written + upsets < MaxEvents
-----------------------------------------------------------------------------
(* The modem.                                                              *)
Plug ==
  /\ ~plugged /\ plugged' = TRUE
  /\ UNCHANGED <<fifo, arrived, upsets, acia_dev, ring, chip, not_dcd, tx, acia_cmd_todo, settings,
                 cnt, core0, core1, irq_line, seen, out, got, sent, misled>>

Unplug ==
  /\ plugged /\ More
  /\ plugged' = FALSE /\ fifo' = <<>> /\ upsets' = upsets + 1
  /\ UNCHANGED <<arrived, acia_dev, ring, chip, not_dcd, tx, acia_cmd_todo, settings,
                 cnt, core0, core1, irq_line, seen, out, got, sent, misled>>

Arrive ==
  /\ plugged /\ Len(fifo) < FifoSize /\ More
  /\ arrived' = arrived + 1 /\ fifo' = Append(fifo, arrived + 1)
  /\ UNCHANGED <<plugged, upsets, acia_dev, ring, chip, not_dcd, tx, acia_cmd_todo, settings,
                 cnt, core0, core1, irq_line, seen, out, got, sent, misled>>
-----------------------------------------------------------------------------
(* Core 0.  One pass of acia_task() goes through these places.             *)
At(p) == core0.pc = p
To(p) == core0' = [core0 EXCEPT !.pc = p]
Fire(p, b) == core0' = [core0 EXCEPT !.pc = p, !.fire = @ \/ b]
Top == [pc |-> "top", fire |-> FALSE, stat |-> {}]

(* Without a modem nothing else happens, and no status is stored.          *)
Found ==
  /\ At("top") /\ ~acia_dev
  /\ IF plugged THEN acia_dev' = TRUE /\ not_dcd' = FALSE ELSE UNCHANGED <<acia_dev, not_dcd>>
  /\ UNCHANGED <<usb, ring, chip, tx, acia_cmd_todo, settings, cnt, core0, core1, irq_line, seen, out, got, sent, misled>>

Lost ==
  /\ At("top") /\ acia_dev /\ ~plugged
  /\ acia_dev' = FALSE /\ head' = 0 /\ tail' = 0 /\ not_dcd' = TRUE
  /\ UNCHANGED <<usb, buffer, chip, tx, acia_cmd_todo, settings, cnt, core0, core1, irq_line, seen, out, got, sent, misled>>

Begin ==
  /\ At("top") /\ acia_dev /\ plugged
  /\ To(IF "dtr" \in settings THEN "send" ELSE "cmd")
  /\ UNCHANGED <<usb, acia_dev, ring, chip, not_dcd, tx, acia_cmd_todo, settings, cnt, core1, irq_line,
                 seen, out, got, sent, misled>>

(* The driver may have no room, or nobody to send to any more.             *)
Send ==
  /\ At("send")
  /\ \/ "tx" \notin stat /\ plugged /\ sent' = acia_tx_data /\ To("sent")
     \/ To("load") /\ UNCHANGED sent
  /\ UNCHANGED <<usb, acia_dev, ring, chip, not_dcd, tx, acia_cmd_todo, settings, cnt, core1, irq_line,
                 seen, out, got, misled>>

Sent ==
  /\ At("sent")
  /\ IF "echo" \in settings
     THEN /\ stat' = stat \cup {"tx", "rx"} /\ io' = [io EXCEPT !.data = 0]
          /\ Fire("load", "rxi" \in settings)
     ELSE /\ stat' = stat \cup {"tx"} /\ UNCHANGED io
          /\ Fire("load", "txi" \in settings)
  /\ UNCHANGED <<usb, acia_dev, ring, not_dcd, tx, acia_cmd_todo, settings, cnt, core1, irq_line,
                 seen, out, got, sent, misled>>

(* What the driver holds moves into the ring, as far as there is room and  *)
(* without wrapping.  (Slip: with wrapping, past the end of the ring.)     *)
RoomUnwrapped == Masked(tail - head - 2)
Room ==
  LET len == Masked(tail - head - 2)
  IN IF len > RxBufferSize - head THEN RxBufferSize - head ELSE len

(* Slip: the index is not masked.                                         *)
LoadUnmasked ==
  LET n == IF Len(fifo) < Room THEN Len(fifo) ELSE Room
  IN /\ At("load") /\ To("receive")
     /\ buffer' = [i \in Index |-> IF i \in head .. head + n - 1 THEN fifo[i - head + 1]
                                                                 ELSE buffer[i]]
     /\ head' = head + n
     /\ fifo' = SubSeq(fifo, n + 1, Len(fifo))
     /\ UNCHANGED <<plugged, arrived, upsets, acia_dev, tail, chip, not_dcd, tx, acia_cmd_todo, settings, cnt, core1, irq_line,
                    seen, out, got, sent, misled>>
Load ==
  LET n == IF Len(fifo) < Room THEN Len(fifo) ELSE Room
  IN /\ At("load") /\ To("receive")
     /\ buffer' = [i \in Index |-> IF i \in head .. head + n - 1 THEN fifo[i - head + 1]
                                                                 ELSE buffer[i]]
     /\ head' = Masked(head + n)
     /\ fifo' = SubSeq(fifo, n + 1, Len(fifo))
     /\ UNCHANGED <<plugged, arrived, upsets, acia_dev, tail, chip, not_dcd, tx, acia_cmd_todo, settings, cnt, core1, irq_line,
                    seen, out, got, sent, misled>>

(* A data register that is empty gets the next byte; the interrupt of one  *)
(* that stays full is repeated now and then.  (Slips: the register is not  *)
(* looked at; no repetition.)                                              *)
ReceiveOver ==
  /\ At("receive") /\ head # tail
  /\ io' = [io EXCEPT !.data = buffer[tail]] /\ out' = buffer[tail]
  /\ tail' = Masked(tail + 1)
  /\ To("received")
  /\ UNCHANGED <<usb, acia_dev, buffer, head, stat, not_dcd, tx, acia_cmd_todo, settings, cnt, core1,
                 irq_line, seen, got, sent, misled>>
Receive ==
  /\ At("receive") /\ "rx" \notin stat /\ head # tail
  /\ io' = [io EXCEPT !.data = buffer[tail]] /\ out' = buffer[tail]
  /\ tail' = Masked(tail + 1)
  /\ To("received")
  /\ UNCHANGED <<usb, acia_dev, buffer, head, stat, not_dcd, tx, acia_cmd_todo, settings, cnt, core1,
                 irq_line, seen, got, sent, misled>>

Received ==
  /\ At("received") /\ Fire("cmd", "rxi" \in settings)
  /\ stat' = stat \cup {"rx"} /\ cnt' = Repeat
  /\ UNCHANGED <<usb, acia_dev, ring, io, not_dcd, tx, acia_cmd_todo, settings, core1, irq_line,
                 seen, out, got, sent, misled>>

StillFullOnce ==
  /\ At("receive") /\ "rx" \in stat /\ To("cmd")
  /\ UNCHANGED <<usb, acia_dev, ring, chip, not_dcd, tx, acia_cmd_todo, settings, cnt, core1, irq_line,
                 seen, out, got, sent, misled>>
StillFull ==
  /\ At("receive") /\ "rx" \in stat
  /\ cnt' = (cnt - 1) % (Repeat + 1)
  /\ Fire("cmd", cnt' = 0 /\ "rxi" \in settings)
  /\ UNCHANGED <<usb, acia_dev, ring, chip, not_dcd, tx, acia_cmd_todo, settings, core1, irq_line,
                 seen, out, got, sent, misled>>

NoneToReceive ==
  /\ At("receive") /\ "rx" \notin stat /\ head = tail /\ To("cmd")
  /\ UNCHANGED <<usb, acia_dev, ring, chip, not_dcd, tx, acia_cmd_todo, settings, cnt, core1, irq_line,
                 seen, out, got, sent, misled>>

(* acia_do_cmd() waits for the modem, and only then is the request taken   *)
(* back.                                                                   *)
DoCmd ==
  /\ At("cmd")
  /\ IF acia_cmd_todo
     THEN /\ settings' = io.cmd
          /\ not_dcd' = ("dtr" \notin io.cmd)
          /\ Fire("cmd done", "dtr" \in io.cmd /\ not_dcd)
     ELSE Fire("stat", FALSE) /\ UNCHANGED <<settings, not_dcd>>
  /\ UNCHANGED <<usb, acia_dev, ring, chip, tx, acia_cmd_todo, cnt, core1, irq_line, seen, out, got, sent, misled>>

CmdDone ==
  /\ At("cmd done") /\ To("stat")
  /\ acia_cmd_todo' = FALSE
  /\ UNCHANGED <<usb, acia_dev, ring, chip, not_dcd, tx, settings, cnt, core1, irq_line,
                 seen, out, got, sent, misled>>

(* The line is raised before the status is stored.                         *)
RaiseIrq ==
  /\ At("stat") /\ core0.fire /\ ~irq_line
  /\ irq_line' = TRUE
  /\ UNCHANGED <<usb, acia_dev, ring, chip, not_dcd, tx, acia_cmd_todo, settings, cnt, core0, core1, seen, out, got, sent, misled>>

(* Slip: the status is only stored with an interrupt.                      *)
ComposeFired ==
  /\ At("stat") /\ (core0.fire => irq_line)
  /\ core0' = IF core0.fire THEN [core0 EXCEPT !.pc = "store", !.stat = stat] ELSE Top
  /\ UNCHANGED <<usb, acia_dev, ring, chip, not_dcd, tx, acia_cmd_todo, settings, cnt, core1, irq_line,
                 seen, out, got, sent, misled>>
Compose ==
  /\ At("stat") /\ (core0.fire => irq_line)
  /\ core0' = [core0 EXCEPT !.pc = "store", !.stat = stat]
  /\ UNCHANGED <<usb, acia_dev, ring, chip, not_dcd, tx, acia_cmd_todo, settings, cnt, core1, irq_line,
                 seen, out, got, sent, misled>>

Store ==
  /\ At("store") /\ io' = [io EXCEPT !.stat = core0.stat]
  /\ core0' = IF core0.fire THEN [core0 EXCEPT !.pc = "lower", !.stat = {}] ELSE Top
  /\ UNCHANGED <<usb, acia_dev, ring, stat, not_dcd, tx, acia_cmd_todo, settings, cnt, core1, irq_line,
                 seen, out, got, sent, misled>>

(* The I2C bus takes longer than core 1 takes to serve an access.          *)
LowerIrq ==
  /\ At("lower") /\ core1.access = "none" /\ irq_line' = FALSE /\ core0' = Top
  /\ UNCHANGED <<usb, acia_dev, ring, chip, not_dcd, tx, acia_cmd_todo, settings, cnt, core1,
                 seen, out, got, sent, misled>>

(* acia_stop(): the program is stopped, between two passes.                *)
NoAccess == [access |-> "none", byte |-> 0, cmd |-> {}, pc |-> "flag", stat |-> {}]
acia_stop ==
  /\ At("top") /\ core1 = NoAccess
  /\ acia_dev' = FALSE /\ head' = 0 /\ tail' = 0
  /\ stat' = {"tx"} /\ io' = [data |-> 0, stat |-> {"tx"}, cmd |-> {}]
  /\ not_dcd' = TRUE
  /\ seen' = {}
  /\ UNCHANGED <<usb, buffer, tx, acia_cmd_todo, settings, cnt, core0, core1, irq_line, out, got, sent, misled>>
-----------------------------------------------------------------------------
(* The 6502.  It reads the status, in a loop or when it is interrupted,    *)
(* and does what that says: it reads a byte that is there, and writes one  *)
(* when the last has been sent.  Its next access comes when core 1 has     *)
(* served this one.                                                        *)
Free == core1.access = "none"
Access(a) == core1' = [NoAccess EXCEPT !.access = a]

ReadStatus ==
  /\ Free /\ "rx" \notin seen
  /\ seen' = io.stat /\ Access("status")
  /\ misled' = (misled \/ ~(io.stat \subseteq stat))
  /\ UNCHANGED <<usb, acia_dev, ring, chip, not_dcd, tx, acia_cmd_todo, settings, cnt, core0, irq_line,
                 out, got, sent>>

ReadData ==
  /\ Free /\ "rx" \in seen
  /\ seen' = {} /\ Access("read")
  /\ got' = IF io.data = 0 THEN got ELSE io.data
  /\ UNCHANGED <<usb, acia_dev, ring, chip, not_dcd, tx, acia_cmd_todo, settings, cnt, core0, irq_line,
                 out, sent, misled>>

WriteData ==
  /\ Free /\ "tx" \in seen /\ "rx" \notin seen /\ More
  /\ written' = written + 1
  /\ core1' = [NoAccess EXCEPT !.access = "write", !.byte = written + 1]
  /\ seen' = {}
  /\ UNCHANGED <<usb, acia_dev, ring, chip, not_dcd, acia_tx_data, acia_cmd_todo, settings, cnt, core0,
                 irq_line, out, got, sent, misled>>

WriteCmd ==
  /\ Free /\ "rx" \notin seen
  /\ \E c \in Commands : core1' = [NoAccess EXCEPT !.access = "cmd", !.cmd = c]
  /\ UNCHANGED <<usb, acia_dev, ring, chip, not_dcd, tx, acia_cmd_todo, settings, cnt, core0,
                 irq_line, seen, out, got, sent, misled>>

Reset ==
  /\ More /\ Free /\ "rx" \notin seen /\ Access("reset")
  /\ upsets' = upsets + 1
  /\ UNCHANGED <<plugged, fifo, arrived, acia_dev, ring, chip, not_dcd, tx, acia_cmd_todo, settings, cnt, core0,
                 irq_line, seen, out, got, sent, misled>>

(* Core 1: the flag that an access changes, and the status again.  The     *)
(* programmed reset changes the register and not what is carried out.      *)
Serving(a, p) == core1.access = a /\ core1.pc = p
Then(p) == core1' = [core1 EXCEPT !.pc = p]
Publish == core1' = [NoAccess EXCEPT !.access = "served", !.pc = "compose"]

acia_clr_irq == Serving("status", "flag") /\ Publish
                /\ UNCHANGED <<io, stat, acia_tx_data, acia_cmd_todo>>
acia_read    == Serving("read", "flag") /\ stat' = stat \ {"rx"} /\ Publish
                /\ UNCHANGED <<io, acia_tx_data, acia_cmd_todo>>
acia_reset   == Serving("reset", "flag") /\ io' = [io EXCEPT !.data = 0, !.cmd = {}] /\ Publish
                /\ UNCHANGED <<stat, acia_tx_data, acia_cmd_todo>>
acia_write   ==
  /\ \/ Serving("write", "flag") /\ acia_tx_data' = core1.byte /\ Then("empty") /\ UNCHANGED stat
     \/ Serving("write", "empty") /\ stat' = stat \ {"tx"} /\ Publish /\ UNCHANGED acia_tx_data
  /\ UNCHANGED <<io, acia_cmd_todo>>
acia_cmd     ==
  /\ \/ Serving("cmd", "flag") /\ io' = [io EXCEPT !.cmd = core1.cmd] /\ Then("todo")
        /\ UNCHANGED acia_cmd_todo
     \/ Serving("cmd", "todo") /\ acia_cmd_todo' = TRUE /\ core1' = NoAccess /\ UNCHANGED io
  /\ UNCHANGED <<stat, acia_tx_data>>

UpdateStat ==
  /\ \/ /\ core1.pc = "compose"
        /\ core1' = [core1 EXCEPT !.pc = "store", !.stat = stat] /\ UNCHANGED io
     \/ core1.pc = "store" /\ io' = [io EXCEPT !.stat = core1.stat] /\ core1' = NoAccess
  /\ UNCHANGED <<stat, acia_tx_data, acia_cmd_todo>>

Core1 ==
  /\ acia_clr_irq \/ acia_read \/ acia_reset \/ acia_write \/ acia_cmd \/ UpdateStat
  /\ UNCHANGED <<usb, acia_dev, ring, not_dcd, written, settings, cnt, core0, irq_line,
                 seen, out, got, sent, misled>>
-----------------------------------------------------------------------------
Init ==
  /\ plugged = FALSE /\ fifo = <<>> /\ acia_dev = FALSE
  /\ buffer = [i \in Index |-> 0] /\ head = First /\ tail = First
  /\ stat = {"tx"} /\ io = [data |-> 0, stat |-> {"tx"}, cmd |-> {}]
  /\ not_dcd = TRUE
  /\ acia_tx_data = 0 /\ acia_cmd_todo = FALSE
  /\ settings = {} /\ cnt = 0
  /\ core0 = Top /\ core1 = NoAccess
  /\ irq_line = FALSE /\ seen = {}
  /\ arrived = 0 /\ out = 0 /\ got = 0 /\ written = 0 /\ sent = 0 /\ misled = FALSE /\ upsets = 0

acia_task == Found \/ Lost \/ Begin \/ Send \/ Sent \/ Load \/ Receive \/ Received \/ StillFull
             \/ NoneToReceive \/ DoCmd \/ CmdDone \/ RaiseIrq \/ Compose \/ Store \/ LowerIrq
Program == ReadStatus \/ ReadData \/ WriteData \/ WriteCmd \/ Reset
Next == Plug \/ Unplug \/ Arrive \/ acia_task \/ acia_stop \/ Program \/ Core1

Spec == Init /\ [][Next]_vars

(* Both cores go on, however often the 6502 comes in between.  It reads a  *)
(* byte that it has been told of, and does not mask the interrupt whenever *)
(* it comes.                                                               *)
Interrupted == irq_line /\ ReadStatus
Serves == Core1 \/ ReadData
Fairness == SF_vars(acia_task) /\ WF_vars(Serves) /\ SF_vars(Interrupted)
FairSpec == Spec /\ Fairness
-----------------------------------------------------------------------------
Status == SUBSET {"rx", "tx"}
Registers == [data : 0 .. MaxEvents, stat : Status, cmd : Commands \cup {{}}]
Core0States == [pc : {"top", "send", "sent", "load", "receive", "received", "cmd", "cmd done",
                      "stat", "store", "lower"}, fire : BOOLEAN, stat : Status]
Accesses == [access : {"none", "served", "status", "read", "reset", "write", "cmd"},
             byte : 0 .. MaxEvents, cmd : Commands \cup {{}},
             pc : {"flag", "empty", "todo", "compose", "store"}, stat : Status]
ModemTyped ==
  /\ plugged \in BOOLEAN /\ arrived \in 0 .. MaxEvents /\ upsets \in 0 .. MaxEvents
  /\ fifo \in Seq(1 .. MaxEvents) /\ Len(fifo) <= FifoSize
RingTyped == buffer \in [Index -> 0 .. MaxEvents] /\ head \in Index /\ tail \in Index
RegistersTyped ==
  /\ io \in Registers /\ stat \in Status /\ seen \in Status
  /\ out \in 0 .. MaxEvents /\ got \in 0 .. MaxEvents /\ misled \in BOOLEAN
Core0Typed ==
  /\ core0 \in Core0States /\ acia_dev \in BOOLEAN /\ not_dcd \in BOOLEAN /\ irq_line \in BOOLEAN
  /\ settings \in Commands \cup {{}} /\ cnt \in 0 .. Repeat /\ sent \in 0 .. MaxEvents
Core1Typed ==
  /\ core1 \in Accesses /\ acia_tx_data \in 0 .. MaxEvents
  /\ acia_cmd_todo \in BOOLEAN /\ written \in 0 .. MaxEvents
TypeOK == ModemTyped /\ RingTyped /\ RegistersTyped /\ Core0Typed /\ Core1Typed

(* The ring hands the modem's bytes to the data register in their order,   *)
(* each of them once, and drops none of them while the line is up, however *)
(* its indices wrap: what Line promises.                                   *)
Stored == IF head >= tail THEN tail .. head - 1 ELSE (tail .. RxBufferSize - 1) \cup (0 .. head - 1)
L == INSTANCE Line WITH
       waiting <- {buffer[i] : i \in Stored} \cup {fifo[i] : i \in 1 .. Len(fifo)},
       up <- plugged /\ acia_dev
ImplementsLine == L!Spec

(* A 6502 that has not been misled by a status that a core had stored late *)
(* reads each byte once, before the next one takes its place, and the      *)
(* modem gets each byte that it writes once: nothing else that the cores   *)
(* do at the same time loses or repeats one.  An echo is coded as 0: it    *)
(* may take the place of a byte that waits to be read (acia.c:145).        *)
ReadOnce ==
  /\ Free /\ core1'.access = "read" => misled \/ io.data = 0 \/ io.data > got
  /\ out' # out => misled \/ io.data <= got
SentOnce == At("send") /\ core0'.pc = "sent" => misled \/ (sent' > sent /\ sent' = written)
EachByteOnce == [][ReadOnce /\ SentOnce]_vars

(* A status that a core has overwritten with what it had read before is    *)
(* put right while there is a modem.                                       *)
Shown == io.stat = stat
StatusSettles == [](~Shown => <>(Shown \/ ~acia_dev \/ ~plugged))

(* A program that works by interrupts gets every byte out of the data      *)
(* register: an interrupt that it misses, because it had masked it or      *)
(* because the status did not show it yet, comes again.                    *)
Listening == plugged /\ acia_dev /\ {"dtr", "rxi"} \subseteq settings
ReceiverGoesOn == ("rx" \in stat /\ Listening) ~> ("rx" \notin stat \/ ~Listening)
=============================================================================
