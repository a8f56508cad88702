-------------------------------- MODULE Tape --------------------------------
(***************************************************************************)
(* The tape deck of the LOCI firmware (oric/tap.c): the three registers    *)
(* that patched ROM routines use, the counter, and the search for headers. *)
(*                                                                         *)
(* A pass of tap_task() is one step: the 6502 that has written a command   *)
(* only looks at the command register until it is zero (the patches in     *)
(* sys/mia.c), and nothing else that tap_task() uses changes within a      *)
(* pass.  A call that the 6502 makes is one step as well, for core 0 makes *)
(* it between two passes.                                                  *)
(*                                                                         *)
(* A byte of an image is a synch byte (0x16), the mark (0x24) that ends    *)
(* the synch bytes before a header, or any other.  Positions count from 0. *)
(* What the 6502 is given to read is not kept: where it comes from is.     *)
(*                                                                         *)
(* An operator that stands just before a mapped one and that nothing uses  *)
(* is a plausible slip in that code, for trying the properties against.    *)
(***************************************************************************)
EXTENDS Integers, Sequences, FiniteSets, FiniteSetsExt

CONSTANTS
  Images,      (* image files                                              *)
  Kinds,       (* where they are: "LFS" (flash), "FAT" (a stick)           *)
  Word,        (* 2^32, or any number that no size comes near              *)
  HeaderLen,   (* sizeof(tap_header_t)                                     *)
  MBUF_SIZE,   (* bytes that a search reads at once                        *)
  LeadInLen,   (* TAP_LEAD_IN_LEN                                          *)
  Bits,        (* bits that a byte is sent as                              *)
  Commands,    (* commands that programs give                              *)
  Recordings,  (* bytes that they record                                   *)
  Junk,        (* bytes in the free clusters of a stick                    *)
  Positions,   (* where programs seek to                                   *)
  MaxLen,      (* bound: bytes that there is room for in a file, and how   *)
               (* far a search on the flash goes                           *)
  MaxRecords   (* bound: bytes that are recorded on an image               *)

Cells     == {"sync", "mark", "data"}
Protected == {"PLAY", "REC", "READ_BIT"}        (* need the motor          *)

ASSUME TapeAssumption ==
  /\ Images \subseteq Seq(Cells) /\ Kinds \subseteq {"LFS", "FAT"}
  /\ HeaderLen \in Nat /\ HeaderLen >= 4 /\ MBUF_SIZE \in Nat /\ MBUF_SIZE > 4
  /\ LeadInLen \in Nat /\ Bits \in Nat \ {0}
  /\ Commands \subseteq Protected \cup {"REW", "FFW"}
  /\ Recordings \subseteq Cells /\ Junk \subseteq Cells /\ Junk # {}
  /\ Positions \subseteq Nat /\ MaxLen \in Nat /\ MaxRecords \in Nat
  /\ Word \in Nat /\ Word > MaxLen + MBUF_SIZE
  /\ \A img \in Images : Len(img) <= MaxLen

VARIABLES
  cmd, stat,                 (* TAP_IO_CMD, the set bits of TAP_IO_STAT    *)
  tap_state,
  type, counter, size, lead_in, bit_counter, dirty,
  motor_on,                  (* tap_drive                                  *)
  cells, pos,                (* the open file: its bytes and where it is   *)
  saved,                     (* the file as it is in storage               *)
  waits, menu,               (* the 6502 waits for its command; the menu   *)
                             (* has taken it away from its program         *)
  recorded, headed, failed   (* history: positions recorded since the      *)
                             (* mount; the file was left behind a header;  *)
                             (* the last attempt to store it failed        *)

registers == <<cmd, stat>>
reading   == <<lead_in, bit_counter>>
deck      == <<type, size>>
file      == <<cells, pos, counter, headed>>
storage   == <<saved, dirty, recorded, failed>>
host      == <<waits, menu, motor_on>>
vars      == <<registers, tap_state, reading, deck, file, storage, host>>

Mounted == type # "EMPTY"
(* tap_set_status() changes one bit and keeps the others.                  *)
SetStatus(bit, val) == IF val THEN stat \cup {bit} ELSE stat \ {bit}
-----------------------------------------------------------------------------
(* The file.  A seek past the end of a file that is open for writing makes *)
(* it longer on a stick, with whatever bytes are there; on the flash, only *)
(* a write does, and with zeros.                                           *)
Longer(s, n, byte) == [i \in 1 .. n |-> IF i <= Len(s) THEN s[i] ELSE byte]

FileSeek(p) ==
  IF type = "FAT" /\ p > Len(cells)
  THEN \E byte \in Junk : cells' = Longer(cells, p, byte)
  ELSE UNCHANGED cells

(* tap_seek(), and the n bytes that are read then.  LittleFS does not seek *)
(* to where no file can be, nor FatFs past the end of a stick that is full.*)
SeekTarget(p) ==
  IF type = "FAT" THEN Min({p, MaxLen}) ELSE IF p > Word \div 2 THEN Len(cells) ELSE p
tap_seek(target, n) ==
  LET p == SeekTarget(target)
  IN /\ p <= MaxLen
     /\ FileSeek(p)
     /\ counter' = p
     /\ pos' = Max({p, Min({p + n, Len(cells')})})
     /\ lead_in' = IF p = 0 THEN 0 ELSE lead_in

(* tap_read_byte(): a lead-in of synch bytes first; 0 at the end.          *)
InLeadIn == lead_in < LeadInLen
CanRead  == Mounted /\ pos < Len(cells)
CountedAlways == IF InLeadIn THEN counter ELSE counter + 1
Counted  == IF ~InLeadIn /\ CanRead THEN counter + 1 ELSE counter
tap_read_byte ==
  /\ lead_in' = IF InLeadIn THEN lead_in + 1 ELSE lead_in
  /\ pos' = IF ~InLeadIn /\ CanRead THEN pos + 1 ELSE pos
  /\ counter' = Counted
  /\ UNCHANGED cells

(* tap_write_byte(): nothing is written where there is no room for it.     *)
DirtyAtEnd == pos >= Len(cells)
Dirty == TRUE
tap_write_byte(byte) ==
  /\ IF Mounted /\ pos < MaxLen
     THEN /\ cells' = [Longer(cells, Max({Len(cells), pos + 1}), "data") EXCEPT ![pos + 1] = byte]
          /\ counter' = counter + 1 /\ pos' = pos + 1
          /\ dirty' = Dirty /\ recorded' = recorded \cup {pos}
     ELSE UNCHANGED <<cells, counter, pos, dirty, recorded>>
-----------------------------------------------------------------------------
(* tap_task(): the motor, and what needs none.                             *)
Rewind ==
  /\ cmd = "REW" /\ cmd' = "none"
  /\ pos' = IF Mounted THEN 0 ELSE pos
  /\ counter' = 0 /\ bit_counter' = 0 /\ lead_in' = 0 /\ headed' = FALSE
  /\ UNCHANGED <<cells>>
FastForward ==
  /\ cmd = "FFW" /\ cmd' = "none"
  /\ IF Mounted THEN pos' = Len(cells) /\ counter' = Len(cells) /\ headed' = FALSE
                ELSE UNCHANGED <<pos, counter, headed>>
  /\ UNCHANGED <<cells, reading>>
Idle ==
  /\ tap_state = "IDLE"
  /\ tap_state' = IF motor_on THEN "READY" ELSE "IDLE"
  /\ \/ Rewind
     \/ FastForward
     \/ cmd \notin {"REW", "FFW"} /\ UNCHANGED <<cmd, file, reading>>
  /\ UNCHANGED <<stat, deck, storage, host>>

(* With the motor on a command is taken; a REW or FFW is not looked at.    *)
Taken ==
  /\ tap_state = "READY" /\ motor_on /\ cmd \in Protected
  /\ tap_state' = cmd /\ stat' = SetStatus("BUSY", TRUE)
  /\ UNCHANGED <<cmd, reading, deck, file, storage, host>>

(* lfs_file_sync(), f_sync(), or a close.  Nobody looks at the result.     *)
Store ==
  \/ saved' = cells /\ failed' = FALSE
  \/ failed' = TRUE /\ UNCHANGED saved

(* With the motor off what was recorded is stored.                         *)
MotorOff ==
  /\ tap_state = "READY" /\ ~motor_on
  /\ tap_state' = "IDLE"
  /\ IF dirty /\ Mounted THEN Store ELSE UNCHANGED <<saved, failed>>
  /\ dirty' = FALSE
  /\ UNCHANGED <<registers, reading, deck, file, recorded, host>>

(* A command that was taken is carried out in the next pass.               *)
OverLeft == stat' = SetStatus("BUSY", FALSE) /\ UNCHANGED cmd /\ tap_state' = "READY"
Over == stat' = SetStatus("BUSY", FALSE) /\ cmd' = "none" /\ tap_state' = "READY"
Play ==
  /\ tap_state = "PLAY" /\ "BUSY" \in stat
  /\ tap_read_byte /\ Over
  /\ UNCHANGED <<bit_counter, deck, headed, storage, host>>
ReadBit ==
  /\ tap_state = "READ_BIT" /\ "BUSY" \in stat
  /\ IF bit_counter = 0
     THEN tap_read_byte
     ELSE UNCHANGED <<lead_in, counter, pos, cells>>
  /\ bit_counter' = IF bit_counter + 1 >= Bits THEN 0 ELSE bit_counter + 1
  /\ Over
  /\ UNCHANGED <<deck, headed, storage, host>>
Record ==
  /\ tap_state = "REC" /\ "BUSY" \in stat
  /\ \E byte \in Recordings : tap_write_byte(byte)
  /\ Over
  /\ UNCHANGED <<reading, deck, headed, saved, failed, host>>
tap_task == Idle \/ Taken \/ MotorOff \/ Play \/ ReadBit \/ Record
-----------------------------------------------------------------------------
(* Calls: the 6502's program, or the menu, seeks, searches and mounts.     *)
Calls == menu \/ ~waits

(* tap_umount(), which stores the file, and tap_mount_lfs(), _fat().       *)
Empty ==
  /\ type' = "EMPTY" /\ counter' = 0 /\ bit_counter' = 0 /\ lead_in' = 0 /\ dirty' = FALSE
  /\ headed' = FALSE
  /\ UNCHANGED <<cmd, tap_state, host>>
tap_umount ==
  /\ Calls /\ Empty
  /\ stat' = SetStatus("NOT_READY", TRUE)
  /\ IF Mounted THEN Store ELSE UNCHANGED <<saved, failed>>
  /\ UNCHANGED <<size, cells, pos, recorded>>
Open(kind, img) ==
  /\ type' = kind /\ cells' = img /\ saved' = img /\ pos' = 0 /\ size' = Len(img)
  /\ counter' = 0 /\ bit_counter' = 0 /\ stat' = SetStatus("NOT_READY", FALSE)
  /\ failed' = FALSE
tap_mount(kind, img) ==
  /\ Calls /\ ~Mounted
  /\ Open(kind, img) /\ recorded' = {}
  /\ UNCHANGED <<cmd, tap_state, lead_in, dirty, headed, host>>

Stored(p) == p < Len(saved) /\ saved[p + 1] = cells[p + 1]

(* A stick comes back: its file is mounted again, if it is still there,    *)
(* between any two passes (mnt_check_lost()).  What was not stored went    *)
(* with the stick.                                                         *)
Remount ==
  /\ type = "FAT" /\ recorded' = {p \in recorded : Stored(p)}
  /\ \/ /\ Open("FAT", saved)
        /\ lead_in' = 0 /\ dirty' = FALSE /\ headed' = FALSE
        /\ UNCHANGED <<cmd, tap_state, host>>
     \/ /\ Empty
        /\ stat' = SetStatus("NOT_READY", TRUE)
        /\ UNCHANGED <<size, cells, pos, saved, failed>>

(* tap_api_seek(): not past the last byte that was there at the mount.     *)
LastByte == (size - 1) % Word
tap_api_seek(p) ==
  /\ Calls /\ Mounted
  /\ tap_seek(IF p >= size THEN LastByte ELSE p, 0)
  /\ headed' = FALSE
  /\ UNCHANGED <<registers, tap_state, bit_counter, deck, storage, host>>

(* tap_api_read_header() reads a block and looks for the mark in it, then  *)
(* the next, which begins with the last bytes of this one, until it finds  *)
(* one or the file ends.  Block k is read at At(k); only the first is read *)
(* where the file is, and not where the counter is.                        *)
NoOverlap == MBUF_SIZE
BlockStep == MBUF_SIZE - 4
At(k)     == IF k = 0 THEN pos ELSE counter + k * BlockStep
Room(k)   == Max({0, Min({MBUF_SIZE, Len(cells) - At(k)})})
IsMark(p) == /\ p + 4 <= Len(cells)
             /\ cells[p + 4] = "mark" /\ \A i \in 1 .. 3 : cells[p + i] = "sync"

(* tap_seek_next_header(): with less than four bytes the end wraps, and it *)
(* goes on far behind the block, in whatever is there.                     *)
MarksIn(k) ==
  IF Room(k) < 4 THEN 0 .. MaxLen
  ELSE {i \in 0 .. Room(k) - 5 : IsMark(At(k) + i)}
Ends(k) == MarksIn(k) # {} \/ Room(k) < MBUF_SIZE

TooFar == counter >= (size - HeaderLen) % Word
Answer == counter - 4              \* "Point back to synch bytes"
Search ==
  /\ Calls /\ Mounted /\ ~TooFar
  /\ LET last  == Min({k \in 0 .. MaxLen : Ends(k)})
         start == counter + last * BlockStep
     IN \/ \E i \in MarksIn(last) :
             /\ Room(last) < 4 \/ i = Min(MarksIn(last))
             /\ tap_seek(start + i + 4, HeaderLen)
             /\ headed' = TRUE
        \/ /\ MarksIn(last) = {}
           /\ tap_seek(start + BlockStep, 0)
           /\ headed' = FALSE
  /\ UNCHANGED <<registers, tap_state, bit_counter, deck, storage, host>>
-----------------------------------------------------------------------------
(* The 6502.  Its program switches the motor, gives a command and waits    *)
(* for it to be taken back.                                                *)
Motor(on) ==
  /\ ~waits /\ ~menu /\ motor_on' = on
  /\ UNCHANGED <<registers, tap_state, reading, deck, file, storage, waits, menu>>
Command(c) ==
  /\ ~waits /\ ~menu
  /\ cmd' = c /\ waits' = TRUE
  /\ c = "REC" => Cardinality(recorded) < MaxRecords
  /\ UNCHANGED <<stat, tap_state, reading, deck, file, storage, menu, motor_on>>
Done ==
  /\ waits /\ ~menu /\ cmd = "none"
  /\ waits' = FALSE
  /\ UNCHANGED <<registers, tap_state, reading, deck, file, storage, menu, motor_on>>

(* The menu takes the 6502 away at any time, resumes the program or starts *)
(* another.  That takes many passes: nothing that was taken is left to do. *)
Settled == tap_state \in {"IDLE", "READY"} /\ ~(tap_state = "READY" /\ motor_on /\ cmd \in Protected)
Menu ==
  /\ Settled /\ menu' = ~menu /\ waits' \in {waits, waits /\ ~menu}
  /\ UNCHANGED <<registers, tap_state, reading, deck, file, storage, motor_on>>

Init ==
  /\ cmd = "none" /\ stat = {"NOT_READY"} /\ tap_state = "IDLE"
  /\ type = "EMPTY" /\ counter = 0 /\ size = 0 /\ lead_in = 0 /\ bit_counter = 0
  /\ dirty = FALSE /\ motor_on = FALSE
  /\ cells = <<>> /\ pos = 0 /\ saved = <<>>
  /\ waits = FALSE /\ menu = FALSE /\ recorded = {} /\ headed = FALSE /\ failed = FALSE

Program == Done \/ (\E on \in BOOLEAN : Motor(on)) \/ (\E c \in Commands : Command(c))
Call ==
  \/ tap_umount \/ Search
  \/ \E kind \in Kinds, img \in Images : tap_mount(kind, img)
  \/ \E p \in Positions : tap_api_seek(p)
Next == tap_task \/ Program \/ Call \/ Menu \/ Remount

Fairness == WF_vars(tap_task) /\ WF_vars(Done)
Spec == Init /\ [][Next]_vars /\ Fairness
-----------------------------------------------------------------------------
(* Every variable keeps its type, and what tap_api_tell() answers is where *)
(* the next byte is read or recorded, except behind a header that has just *)
(* been read.                                                              *)
TellsThePlace == Mounted /\ ~headed => counter = pos
TypeOK ==
  /\ cmd \in Commands \cup {"none"}
  /\ stat \subseteq {"NOT_READY", "BUSY"} /\ tap_state \in Protected \cup {"IDLE", "READY"}
  /\ type \in Kinds \cup {"EMPTY"} /\ {counter, size, pos} \subseteq 0 .. MaxLen
  /\ lead_in \in 0 .. LeadInLen /\ bit_counter \in 0 .. Bits - 1
  /\ {dirty, motor_on, waits, menu, headed, failed} \subseteq BOOLEAN
  /\ {cells, saved} \subseteq Seq(Cells)
  /\ recorded \subseteq 0 .. MaxLen - 1
  /\ TellsThePlace

(* A search from where the caller has sought to finds the next synch bytes *)
(* with their mark, wherever the blocks that are read begin and end, and   *)
(* there is no header left when it finds none.                             *)
Ahead == {p \in counter .. Len(cells) : IsMark(p)}
NoneAhead == \A p \in Ahead : p + 4 + HeaderLen > size
SearchFindsNext ==
  [][counter = pos =>
       /\ Search => IF headed' THEN Answer' \in Ahead /\ Answer' = Min(Ahead)
                             ELSE NoneAhead
       /\ Mounted /\ TooFar => NoneAhead]_vars

(* When the deck stands still, and when the tape has been taken out, what  *)
(* was recorded on it is in storage, unless storing it has just failed.    *)
RecordedIsSafe ==
  (tap_state = "IDLE" \/ ~Mounted) /\ ~failed =>
    \A p \in recorded : Stored(p)

(* A command ends, though the tape may be taken out or the stick put back  *)
(* in the middle of it: a 6502 that waits for one goes on.  Commands that  *)
(* need the motor are given with it on, and the others with it off.        *)
Served == IF cmd \in {"REW", "FFW"} THEN ~motor_on ELSE motor_on
CommandsTaken == waits /\ Served ~> ~waits \/ menu
=============================================================================
