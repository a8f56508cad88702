-------------------------- MODULE MiaAction_proofs --------------------------
(***************************************************************************)
(* What holds of the engine that moves bytes through the 6502, for every   *)
(* size of memory, screen and command.                                     *)
(*                                                                         *)
(* Taken: the user boots the 6502 only between actions, and breaks only    *)
(* until the console is on the screen.  In the module's other settings the *)
(* model checker shows each of the results false.                          *)
(***************************************************************************)
EXTENDS MiaAction, SequenceTheorems, TLAPS

Undisturbed == Boots \in {"never", "quiet"} /\ Breaks \in {"never", "first"}

(***************************************************************************)
(* Types.                                                                  *)
(***************************************************************************)
CpuTyped ==
  /\ ram \in [Ram -> Byte] /\ clock \in BOOLEAN /\ areg \in Byte
  /\ cpu \in {"reset", "load", "store", "parked", "app", "lost"}
LoopTyped ==
  /\ loop \in [op : {"read", "write", "verify"}, addr : Ram, imm : Byte,
               branch : {"loop", "self"}]
  /\ vec \in {"rom", "loop"} /\ saved \in [is : BOOLEAN, vec : {"rom", "loop"}]
ActionTyped ==
  /\ action_state \in {"idle", "read", "write", "verify"}
  /\ action_result \in {-1, -2, -3} \cup Ram
  /\ rw_addr \in Ram /\ rw_pos \in Nat /\ rw_end \in Nat /\ rw_pos <= rw_end
  /\ buffer \in {"mbuf", "ula"} /\ stop_requested \in BOOLEAN /\ expired \in BOOLEAN
  /\ asked \in [op : {"read", "write", "verify"}, addr : Nat, len : Nat]
MonTyped ==
  /\ mbuf \in [0 .. MaxLen - 1 -> Byte] /\ mbuf_len \in 0 .. MaxLen
  /\ cmd_state \in {"IDLE", "READ", "WRITE", "VERIFY"} /\ cmd_addr \in Ram
  /\ (cmd_state # "IDLE" => mbuf_len > 0)
  /\ reply \in {"none", "ok", "timeout", "mismatch"}
  /\ prompted \in BOOLEAN /\ needs_newline \in BOOLEAN
KernelTyped ==
  /\ main_state \in {"stopped", "starting", "running"} /\ is_breaking \in BOOLEAN
  /\ turn \in {"mia", "ula", "com", "ram", "ext", "events"}
UlaTyped ==
  /\ line \in [0 .. Cols - 1 -> Byte] /\ dirty \in BOOLEAN
  /\ line_y \in 0 .. Rows /\ cur_y \in 0 .. Rows
  /\ ula_state \in {"IDLE", "FONT", "CLR"} /\ driver \in BOOLEAN /\ waiting \in BOOLEAN
InType == CpuTyped /\ LoopTyped /\ ActionTyped /\ MonTyped /\ KernelTyped /\ UlaTyped

(* What is left to do: a command comes last, and the cursor is below the   *)
(* last row only while the screen is scrolled.                             *)
Chores == [do : {"draw", "newline", "flush", "get", "put", "blank", "home"}, row : 0 .. Rows - 1]
          \cup [do : {"read", "write"}, row : CmdAddrs, len : 1 .. MaxLen]
Scrolls(job) == job.do \in {"flush", "get", "put", "blank"}
Queue ==
  /\ jobs \in Seq(Chores)
  /\ \A i \in DOMAIN jobs : i < Len(jobs) => jobs[i].do \notin {"read", "write"}
  /\ cur_y = Rows => \E h \in DOMAIN jobs : /\ jobs[h].do = "home"
                                            /\ \A i \in 1 .. h - 1 : Scrolls(jobs[i])

(***************************************************************************)
(* The engine.  Bytes are still to be moved while an action is in progress *)
(* and its stop has not been asked for; the 6502 is in the loop only then, *)
(* unless its clock has stopped.                                           *)
(***************************************************************************)
Goes == MiaActive /\ stop_requested = FALSE
Engine ==
  /\ MiaActive => vec = "loop" /\ saved.is = TRUE /\ saved.vec = "rom"
  /\ ~MiaActive => vec = "rom" /\ saved.is = FALSE /\ stop_requested = FALSE
  /\ clock = TRUE => expired = FALSE /\ cpu # "lost"
  /\ Goes => loop.op = action_state /\ loop.addr = rw_addr /\ loop.branch = "loop"
  /\ clock = TRUE /\ ~Goes => /\ cpu # "load" /\ cpu # "store"
                              /\ cpu = "parked" => loop.branch = "self"
                              /\ MiaActive => cpu = "parked"
Asking ==
  /\ MiaActive => asked.op = action_state /\ rw_end = asked.len
                  /\ asked.addr + asked.len <= RamTop + 1
  /\ Goes => rw_addr = asked.addr + rw_pos /\ rw_pos < rw_end
  /\ stop_requested = TRUE => rw_pos = rw_end

(* One user at a time.                                                     *)
Users ==
  /\ waiting = TRUE => jobs # <<>> /\ Head(jobs).do \in {"flush", "put", "get"}
  /\ jobs # <<>> /\ waiting = FALSE => ~MiaActive
  /\ MiaActive /\ driver = TRUE => waiting = TRUE \/ cmd_state # "IDLE"
  /\ ula_state # "IDLE" => driver = FALSE
  /\ turn \in {"events", "mia", "ula"} => jobs = <<>>
  /\ is_breaking = TRUE => ~MiaActive /\ driver = FALSE /\ turn = "events"
  /\ main_state = "starting" => ~MiaActive /\ turn = "events"
  /\ Boots = "never" => main_state = "stopped"

Sound == InType /\ Queue /\ Engine /\ Asking /\ Users

LEMMA Constants ==
  /\ RamTop \in Nat /\ CmdAddrs \subseteq Ram /\ MaxLen \in Nat /\ MaxLen > 0
  /\ CmdLens \subseteq 1 .. MaxLen
  /\ Cols \in Nat /\ Cols > 0 /\ Rows \in Nat /\ Rows > 0
  /\ Screen \in Nat /\ Screen + Cols * (Rows + 1) <= RamTop + 1
  /\ Font \in Ram /\ Fixed \subseteq Ram
BY ActionAssumption

LEMMA ByteIs ==
  /\ Byte = 0 .. RamTop + MaxLen + 3 /\ Ink \in Byte /\ Blank \in Byte /\ FontByte \in Byte
  /\ 0 \in Byte /\ (\A a \in Ram : Held(a) \in Byte)
  /\ \A i \in 0 .. MaxLen - 1 : Typed(i) \in Byte
BY Constants DEF Byte, FontByte, Ink, Blank, Held, Typed, Ram

LEMMA SoundIsTyped == Sound => TypeOK
BY DEF Sound, InType, CpuTyped, LoopTyped, ActionTyped, MonTyped, KernelTyped, UlaTyped, TypeOK

LEMMA SoundAtFirst == Init => Sound
<1> SUFFICES ASSUME Init PROVE Sound
  OBVIOUS
<1>1. CpuTyped /\ LoopTyped /\ ActionTyped
  <2>1. /\ ram = [a \in Ram |-> Held(a)] /\ clock = TRUE /\ cpu = "app" /\ areg = 0
        /\ loop = [op |-> "read", addr |-> 0, imm |-> 0, branch |-> "self"]
        /\ vec = "rom" /\ saved = [is |-> FALSE, vec |-> "rom"]
        /\ action_state = "idle" /\ action_result = -1
        /\ rw_addr = 0 /\ rw_pos = 0 /\ rw_end = 0 /\ buffer = "mbuf"
        /\ stop_requested = FALSE /\ expired = FALSE
        /\ asked = [op |-> "read", addr |-> 0, len |-> 0]
    BY DEF Init
  <2>2. 0 \in Ram
    BY Constants DEF Ram
  <2>3. CpuTyped
    BY <2>1, ByteIs DEF CpuTyped
  <2>4. LoopTyped
    BY <2>1, <2>2, ByteIs DEF LoopTyped
  <2>5. ActionTyped
    <3>1. stop_requested \in BOOLEAN /\ expired \in BOOLEAN
      BY <2>1, Zenon
    <3>2. asked \in [op : {"read", "write", "verify"}, addr : Nat, len : Nat]
      BY <2>1
    <3> QED BY <2>1, <2>2, <3>1, <3>2 DEF ActionTyped
  <2> QED BY <2>3, <2>4, <2>5
<1>2. MonTyped
  <2>1. prompted \in BOOLEAN /\ needs_newline \in BOOLEAN
    BY Zenon DEF Init
  <2>2. /\ mbuf = [i \in 0 .. MaxLen - 1 |-> Blank] /\ mbuf_len = 0 /\ cmd_state = "IDLE"
        /\ cmd_addr = 0 /\ reply = "none"
    BY DEF Init
  <2> QED BY <2>1, <2>2, Constants, ByteIs DEF MonTyped, Ram
<1>3. KernelTyped /\ UlaTyped
  <2>1. /\ is_breaking \in BOOLEAN /\ dirty \in BOOLEAN /\ driver \in BOOLEAN
        /\ waiting \in BOOLEAN
    BY Zenon DEF Init
  <2>2. /\ main_state = "stopped" /\ turn = "mia" /\ line = Clear /\ line_y = 0 /\ cur_y = 0
        /\ ula_state = "IDLE"
    BY DEF Init
  <2> QED BY <2>1, <2>2, Constants, ByteIs DEF KernelTyped, UlaTyped, Clear
<1>4. Queue
  BY Constants DEF Init, Queue
<1>5. Engine /\ Asking
  BY DEF Init, Engine, Asking, Goes, MiaActive
<1>6. Users
  BY DEF Init, Users, MiaActive
<1> QED BY <1>1, <1>2, <1>3, <1>4, <1>5, <1>6 DEF Sound, InType

(***************************************************************************)
(* Who changes what.                                                       *)
(***************************************************************************)
LEMMA WhoChangesLoop ==
  ASSUME [Next]_vars
  PROVE  \/ Cpu \/ Expire \/ MiaMainTask \/ UlaStart \/ UlaTask \/ RamMonAddress \/ RamTask
         \/ Run \/ Break \/ ExtTask \/ SwitchOff
         \/ UNCHANGED <<oric, engine>>
BY DEF Next, Core0, UlaChar, UlaDone, ComTask, KbdTask, Loop, vars

LEMMA WhoChangesMon ==
  ASSUME [Next]_vars
  PROVE  TakeByte \/ ComTask \/ RamMonAddress \/ RamTask \/ Break \/ UNCHANGED mon
BY DEF Next, Cpu, Core0, Load, StoreByte, CompareByte, Unpark, Trap, SwitchOff, Expire,
   MiaMainTask, UlaChar, UlaStart, UlaDone, UlaTask, ExtTask, KbdTask, Run, Loop, vars, mon

LEMMA WhoChangesUla ==
  ASSUME [Next]_vars
  PROVE  \/ TakeByte \/ UlaChar \/ UlaStart \/ UlaDone \/ UlaTask \/ ComTask \/ RamMonAddress
         \/ RamTask \/ Run \/ Break \/ UNCHANGED ula
BY DEF Next, Cpu, Core0, Load, StoreByte, CompareByte, Unpark, Trap, SwitchOff, Expire,
   MiaMainTask, ExtTask, KbdTask, Loop, vars, ula

(***************************************************************************)
(* An action is started.                                                   *)
(***************************************************************************)
LEMMA RowIsRam ==
  ASSUME NEW y \in 0 .. Rows
  PROVE  Row(y) \in Ram /\ Row(y) + Cols <= RamTop + 1
<1>1. Cols * (y + 1) <= Cols * (Rows + 1)
  BY Constants
<1>2. Cols * (y + 1) = Cols * y + Cols /\ Cols * y \in Nat
  BY Constants
<1> QED BY <1>1, <1>2, Constants DEF Row, Ram

LEMMA CutFits ==
  ASSUME NEW a \in Ram, NEW n \in 1 .. MaxLen
  PROVE  /\ Len16(a, n) \in Nat /\ Len16(a, n) > 0 /\ a + Len16(a, n) <= RamTop + 1
         /\ Len16(a, n) <= n
BY Constants DEF Len16, Ram

LEMMA RunIsSound ==
  ASSUME CpuTyped, LoopTyped, ActionTyped, Engine, ~MiaActive,
         NEW op \in {"read", "write", "verify"}, NEW a \in Ram, NEW n \in Nat, n > 0,
         a + n <= RamTop + 1, NEW buf \in {"mbuf", "ula"}, NEW b \in Byte, NEW v, v = "rom",
         NEW c, c = "reset" \/ c = cpu, MiaRun(op, a, n, buf, b, v, c),
         UNCHANGED <<ram, clock, areg>>
  PROVE  CpuTyped' /\ LoopTyped' /\ ActionTyped' /\ Engine' /\ Asking' /\ MiaActive'
<1>1. /\ action_state' = op /\ rw_addr' = a /\ rw_end' = n /\ rw_pos' = 0 /\ buffer' = buf
      /\ stop_requested' = FALSE /\ action_result' = -1 /\ expired' = FALSE
      /\ saved' = [is |-> TRUE, vec |-> v] /\ vec' = "loop"
      /\ loop' = [op |-> op, addr |-> a, imm |-> b, branch |-> "loop"]
      /\ asked' = [op |-> op, addr |-> a, len |-> n]
  BY DEF MiaRun
<1>2. cpu' = "lost" => c = "store" \/ c = "lost"
  BY DEF MiaRun
<1>3. cpu' \in {"reset", "load", "store", "parked", "app", "lost"}
  BY DEF MiaRun, CpuTyped
<1>4. CpuTyped'
  BY <1>3 DEF CpuTyped
<1>5. LoopTyped'
  BY <1>1 DEF LoopTyped
<1>6. ActionTyped'
  <2>1. stop_requested' \in BOOLEAN /\ expired' \in BOOLEAN
    BY <1>1, Zenon
  <2>2. asked' \in [op : {"read", "write", "verify"}, addr : Nat, len : Nat]
    BY <1>1 DEF Ram
  <2> QED BY <1>1, <2>1, <2>2, Constants DEF ActionTyped, Ram
<1>7. MiaActive' /\ Goes'
  BY <1>1 DEF MiaActive, Goes
<1>8. Asking'
  <2>1. asked'.op = op /\ asked'.addr = a /\ asked'.len = n
    BY <1>1
  <2> QED BY <1>1, <1>7, <2>1, Constants DEF Asking, Ram
<1>9. Engine'
  <2>1. loop'.op = op /\ loop'.addr = a /\ loop'.branch = "loop"
        /\ saved'.is = TRUE /\ saved'.vec = "rom"
    BY <1>1
  <2>2. clock' = TRUE => cpu' # "lost"
    <3> SUFFICES ASSUME clock = TRUE PROVE cpu' # "lost"
      OBVIOUS
    <3>1. cpu # "lost" /\ cpu # "store"
      BY DEF Engine, Goes
    <3> QED BY <1>2, <3>1
  <2> QED BY <1>1, <1>7, <2>1, <2>2 DEF Engine
<1> QED BY <1>4, <1>5, <1>6, <1>7, <1>8, <1>9

(***************************************************************************)
(* A byte is moved.                                                        *)
(***************************************************************************)
LEMMA BytesTyped ==
  ASSUME MonTyped, UlaTyped, NEW i PROVE Bytes(i) \in Byte
BY ByteIs DEF Bytes, MonTyped, UlaTyped

(* In the loop: the 6502 loads or stores, on the Oric's clock.             *)
LEMMA InTheLoop ==
  ASSUME Engine, Asking, ActionTyped, clock = TRUE, cpu \in {"load", "store"}
  PROVE  /\ MiaActive /\ stop_requested = FALSE /\ Goes /\ loop.op = action_state
         /\ loop.addr = rw_addr /\ loop.branch = "loop" /\ asked.op = action_state
         /\ rw_addr = asked.addr + rw_pos /\ rw_pos < asked.len /\ rw_end = asked.len
         /\ rw_pos < rw_end /\ asked.addr + asked.len <= RamTop + 1
<1>1. Goes
  BY DEF Engine
<1>2. MiaActive /\ stop_requested = FALSE
  BY <1>1 DEF Goes
<1> QED BY <1>1, <1>2 DEF Engine, Asking

LEMMA CountsOn ==
  ASSUME CpuTyped, LoopTyped, ActionTyped, MonTyped, UlaTyped, Engine, Asking,
         clock = TRUE, cpu = "store", NEW r \in {-1, -2, -3} \cup Ram, CountByte(r),
         UNCHANGED clock
  PROVE  /\ LoopTyped' /\ ActionTyped' /\ Engine' /\ Asking'
         /\ cpu' \in {"parked", "load"} /\ (MiaActive' <=> MiaActive)
         /\ rw_pos' = rw_pos + 1 /\ asked' = asked /\ loop'.op = loop.op
<1>1. /\ MiaActive /\ stop_requested = FALSE /\ loop.op = action_state /\ loop.addr = rw_addr
      /\ loop.branch = "loop" /\ rw_addr = asked.addr + rw_pos /\ rw_pos < rw_end
      /\ rw_end = asked.len /\ asked.addr + asked.len <= RamTop + 1 /\ asked.op = action_state
  BY InTheLoop
<1>2. /\ rw_pos' = rw_pos + 1
      /\ UNCHANGED <<vec, saved, action_state, rw_end, buffer, expired, asked>>
      /\ cpu' = IF loop'.branch = "self" THEN "parked" ELSE "load"
  BY DEF CountByte
<1>3. /\ rw_pos \in Nat /\ rw_end \in Nat /\ rw_addr \in Nat /\ RamTop \in Nat
      /\ asked.addr \in Nat /\ asked.len \in Nat /\ rw_pos' \in Nat /\ rw_pos' <= rw_end
      /\ (rw_pos + 1 < rw_end => rw_addr + 1 \in Ram)
  BY <1>1, <1>2, Constants DEF ActionTyped, Ram
<1>4. MiaActive' <=> MiaActive
  BY <1>2 DEF MiaActive
<1>5. CASE /\ Last /\ loop' = [loop EXCEPT !.branch = ParkedAt]
           /\ action_result' = -2 /\ stop_requested' = TRUE /\ UNCHANGED rw_addr
  <2>1. /\ loop' \in [op : {"read", "write", "verify"}, addr : Ram, imm : Byte,
                      branch : {"loop", "self"}]
        /\ loop'.branch = "self" /\ loop'.op = loop.op
    BY <1>5 DEF LoopTyped, ParkedAt
  <2>2. LoopTyped'
    BY <1>2, <2>1 DEF LoopTyped
  <2>3. ActionTyped'
    <3>1. stop_requested' \in BOOLEAN
      BY <1>5, Zenon
    <3> QED BY <1>2, <1>3, <1>5, <3>1 DEF ActionTyped
  <2>4. Goes' = FALSE
    BY <1>5 DEF Goes
  <2>5. rw_pos' = rw_end
    BY <1>1, <1>2, <1>3, <1>5 DEF Last
  <2>6. Asking'
    BY <1>1, <1>2, <1>4, <2>4, <2>5 DEF Asking
  <2>7. Engine'
    BY <1>1, <1>2, <1>4, <2>1, <2>4 DEF Engine
  <2> QED BY <1>2, <1>4, <2>1, <2>2, <2>3, <2>6, <2>7
<1>6. CASE /\ ~Last
           /\ loop' = [loop EXCEPT !.addr = rw_addr + 1,
                         !.imm = IF loop.op = "write" THEN Bytes(rw_pos + 1) ELSE @]
           /\ rw_addr' = rw_addr + 1 /\ action_result' = r /\ UNCHANGED stop_requested
  <2>0. rw_pos + 1 < rw_end /\ rw_addr + 1 \in Ram /\ Bytes(rw_pos + 1) \in Byte
    BY <1>3, <1>6, BytesTyped DEF Last
  <2>1. /\ loop' \in [op : {"read", "write", "verify"}, addr : Ram, imm : Byte,
                      branch : {"loop", "self"}]
        /\ loop'.branch = loop.branch /\ loop'.op = loop.op /\ loop'.addr = rw_addr + 1
    BY <1>6, <2>0 DEF LoopTyped
  <2>2. LoopTyped'
    BY <1>2, <2>1 DEF LoopTyped
  <2>3. ActionTyped'
    <3>1. stop_requested' \in BOOLEAN
      BY <1>6 DEF ActionTyped
    <3> QED BY <1>2, <1>3, <1>6, <2>0, <3>1 DEF ActionTyped
  <2>4. Goes' /\ Goes
    BY <1>1, <1>4, <1>6 DEF Goes
  <2>5. rw_addr' = asked.addr + rw_pos' /\ rw_pos' < rw_end
    BY <1>1, <1>2, <1>3, <1>6, <2>0
  <2>6. Asking'
    BY <1>1, <1>2, <1>4, <1>6, <2>4, <2>5 DEF Asking
  <2>7. Engine'
    BY <1>1, <1>2, <1>4, <1>6, <2>1, <2>4 DEF Engine
  <2> QED BY <1>1, <1>2, <1>4, <2>1, <2>2, <2>3, <2>6, <2>7
<1> QED BY <1>5, <1>6 DEF CountByte

LEMMA StoreIsSound ==
  ASSUME Sound, StoreByte
  PROVE  CpuTyped' /\ LoopTyped' /\ ActionTyped' /\ Engine' /\ Asking' /\ (MiaActive' <=> MiaActive)
<1>0. /\ CpuTyped /\ LoopTyped /\ ActionTyped /\ MonTyped /\ UlaTyped /\ Engine /\ Asking
      /\ clock = TRUE /\ clock' = clock /\ cpu = "store" /\ loop.op = "write"
  BY DEF Sound, InType, StoreByte, CpuTyped
<1>1. loop.op = action_state
  BY <1>0, InTheLoop
<1>2. CountByte(action_result) /\ action_result \in {-1, -2, -3} \cup Ram
  BY <1>0, <1>1 DEF StoreByte, ActionTyped
<1>3. /\ LoopTyped' /\ ActionTyped' /\ Engine' /\ Asking' /\ (MiaActive' <=> MiaActive)
      /\ cpu' \in {"parked", "load"}
  BY <1>0, <1>2, CountsOn
<1>4. ram' \in [Ram -> Byte] /\ areg' \in Byte
  BY <1>0, ByteIs DEF StoreByte, CpuTyped
<1> QED BY <1>0, <1>3, <1>4 DEF CpuTyped

LEMMA TakeIsSound ==
  ASSUME Sound, TakeByte
  PROVE  /\ CpuTyped' /\ LoopTyped' /\ ActionTyped' /\ Engine' /\ Asking' /\ MonTyped' /\ UlaTyped'
         /\ (MiaActive' <=> MiaActive)
<1>0. /\ CpuTyped /\ LoopTyped /\ ActionTyped /\ MonTyped /\ UlaTyped /\ Engine /\ Asking
      /\ clock = TRUE /\ clock' = clock /\ cpu = "store" /\ areg \in Byte
      /\ action_result \in {-1, -2, -3} \cup Ram
  BY DEF Sound, InType, TakeByte, CpuTyped, ActionTyped
<1>1. CountByte(action_result)
  BY DEF TakeByte
<1>2. /\ LoopTyped' /\ ActionTyped' /\ Engine' /\ Asking' /\ (MiaActive' <=> MiaActive)
      /\ cpu' \in {"parked", "load"}
  BY <1>0, <1>1, CountsOn
<1>3. CpuTyped'
  BY <1>0, <1>2, ByteIs DEF TakeByte, CpuTyped
<1>4. mbuf' \in [0 .. MaxLen - 1 -> Byte] /\ line' \in [0 .. Cols - 1 -> Byte]
  BY <1>0 DEF TakeByte, MonTyped, UlaTyped
<1>5. MonTyped'
  BY <1>0, <1>4 DEF TakeByte, MonTyped
<1>6. UlaTyped'
  BY <1>0, <1>4 DEF TakeByte, UlaTyped
<1> QED BY <1>2, <1>3, <1>5, <1>6

LEMMA CompareIsSound ==
  ASSUME Sound, CompareByte
  PROVE  CpuTyped' /\ LoopTyped' /\ ActionTyped' /\ Engine' /\ Asking' /\ (MiaActive' <=> MiaActive)
<1>0. /\ CpuTyped /\ LoopTyped /\ ActionTyped /\ MonTyped /\ UlaTyped /\ Engine /\ Asking
      /\ clock = TRUE /\ clock' = clock /\ cpu = "store"
  BY DEF Sound, InType, CompareByte, CpuTyped
<1>1. CountByte(Found) /\ Found \in {-1, -2, -3} \cup Ram
  BY <1>0 DEF CompareByte, Found, ActionTyped
<1>2. /\ LoopTyped' /\ ActionTyped' /\ Engine' /\ Asking' /\ (MiaActive' <=> MiaActive)
      /\ cpu' \in {"parked", "load"}
  BY <1>0, <1>1, CountsOn
<1>3. CpuTyped'
  BY <1>0, <1>2, ByteIs DEF CompareByte, CpuTyped
<1> QED BY <1>2, <1>3

(* The other steps of the 6502.                                            *)
LEMMA LoadIsSound ==
  ASSUME Sound, Load \/ Unpark \/ Trap
  PROVE  CpuTyped' /\ LoopTyped' /\ ActionTyped' /\ Engine' /\ Asking' /\ (MiaActive' <=> MiaActive)
<1>0. /\ CpuTyped /\ LoopTyped /\ ActionTyped /\ Engine /\ Asking
      /\ clock = TRUE /\ clock' = clock /\ cpu \in {"load", "parked", "app"}
      /\ UNCHANGED <<loop, vec, saved, action_state, action_result, rw_addr, rw_pos, rw_end,
                     stop_requested, buffer, expired, asked>>
  BY DEF Sound, InType, Load, Unpark, Trap, engine, CpuTyped
<1>1. LoopTyped' /\ ActionTyped' /\ Asking' /\ (MiaActive' <=> MiaActive) /\ (Goes' <=> Goes)
  BY <1>0 DEF LoopTyped, ActionTyped, Asking, Goes, MiaActive
<1>2. Goes /\ cpu' \in {"load", "store"}
  <2>1. CASE Load
    BY <1>0, <2>1, InTheLoop DEF Load
  <2>2. CASE Unpark
    BY <1>0, <2>2 DEF Unpark, Engine
  <2>3. CASE Trap
    BY <1>0, <2>3 DEF Trap, Engine, Goes
  <2> QED BY <2>1, <2>2, <2>3
<1>3. CpuTyped'
  <2>1. ram' = ram /\ areg' \in Byte
    <3>1. loop.addr \in Ram /\ loop.imm \in Byte
      BY <1>0 DEF LoopTyped
    <3> QED BY <1>0, <3>1 DEF Load, Unpark, Trap, CpuTyped
  <2> QED BY <1>0, <1>2, <2>1 DEF CpuTyped
<1>4. Engine'
  BY <1>0, <1>1, <1>2 DEF Engine
<1> QED BY <1>1, <1>3, <1>4

(***************************************************************************)
(* The engine is kept by every step.                                       *)
(***************************************************************************)
LEMMA HeadIs ==
  ASSUME Queue, jobs # <<>>
  PROVE  /\ Head(jobs) \in Chores /\ Tail(jobs) \in Seq(Chores) /\ Head(jobs) = jobs[1]
         /\ 1 \in DOMAIN jobs /\ Len(Tail(jobs)) = Len(jobs) - 1 /\ Len(jobs) \in Nat \ {0}
         /\ \A i \in 1 .. Len(jobs) - 1 : Tail(jobs)[i] = jobs[i + 1]
         /\ DOMAIN jobs = 1 .. Len(jobs) /\ DOMAIN Tail(jobs) = 1 .. Len(jobs) - 1
<1>1. jobs \in Seq(Chores)
  BY DEF Queue
<1>2. /\ Head(jobs) \in Chores /\ Tail(jobs) \in Seq(Chores) /\ Len(Tail(jobs)) = Len(jobs) - 1
      /\ \A i \in 1 .. Len(Tail(jobs)) : Tail(jobs)[i] = jobs[i + 1]
  BY <1>1, HeadTailProperties
<1>3. Len(jobs) \in Nat \ {0} /\ Head(jobs) = jobs[1]
  BY <1>1, EmptySeq
<1> QED BY <1>1, <1>2, <1>3, LenProperties

LEMMA ChoreIs ==
  ASSUME NEW job \in Chores
  PROVE  /\ job.do \in {"get", "put"} => job.row \in 0 .. Rows
         /\ job.do \in {"read", "write"} => job.row \in Ram /\ job.len \in 1 .. MaxLen
<1>1. CASE job \in [do : {"draw", "newline", "flush", "get", "put", "blank", "home"},
                    row : 0 .. Rows - 1]
  BY <1>1, Constants
<1>2. CASE job \in [do : {"read", "write"}, row : CmdAddrs, len : 1 .. MaxLen]
  BY <1>2, Constants
<1> QED BY <1>1, <1>2 DEF Chores

EngineSound == CpuTyped /\ LoopTyped /\ ActionTyped /\ Engine /\ Asking

LEMMA StopIsSound ==
  ASSUME Sound, MiaMainTask
  PROVE  EngineSound'
<1>0. CpuTyped /\ LoopTyped /\ ActionTyped /\ Engine /\ Asking
  BY DEF Sound, InType
<1>1. UNCHANGED <<ram, clock, areg, loop, rw_addr, rw_pos, rw_end, buffer, expired, asked>>
  BY DEF MiaMainTask
<1>2. CASE UNCHANGED <<action_state, vec, saved, cpu, stop_requested, action_result>>
  BY <1>0, <1>1, <1>2 DEF EngineSound, CpuTyped, LoopTyped, ActionTyped, Engine, Asking, Goes,
                          MiaActive
<1>3. CASE /\ MiaActive /\ MiaStop /\ stop_requested' = FALSE
           /\ action_result' \in {-1, -2, -3} \cup Ram
           /\ stop_requested = TRUE \/ clock = FALSE
  <2>1. /\ action_state' = "idle" /\ vec' = "rom" /\ saved' = [saved EXCEPT !.is = FALSE]
        /\ cpu' = cpu
    BY <1>0, <1>3 DEF MiaStop, Vectors, Engine
  <2>2. saved' \in [is : BOOLEAN, vec : {"rom", "loop"}] /\ saved'.is = FALSE
    BY <1>0, <2>1 DEF LoopTyped
  <2>3. ~MiaActive' /\ ~Goes'
    BY <2>1 DEF MiaActive, Goes
  <2>4. CpuTyped' /\ LoopTyped'
    BY <1>0, <1>1, <2>1, <2>2 DEF CpuTyped, LoopTyped
  <2>5. ActionTyped'
    <3>1. stop_requested' \in BOOLEAN
      BY <1>3, Zenon
    <3> QED BY <1>0, <1>1, <1>3, <2>1, <3>1 DEF ActionTyped
  <2>6. Engine'
    BY <1>0, <1>1, <1>3, <2>1, <2>2, <2>3 DEF Engine, Goes
  <2>7. Asking'
    BY <1>0, <1>1, <1>3, <2>3 DEF Asking
  <2> QED BY <2>4, <2>5, <2>6, <2>7 DEF EngineSound
<1>4. stop_requested = TRUE => MiaActive
  BY <1>0 DEF Engine
<1>5. WatchdogDue => MiaActive /\ clock = FALSE
  <2>1. clock \in BOOLEAN
    BY <1>0 DEF CpuTyped
  <2> QED BY <1>0, <2>1 DEF WatchdogDue, Engine
<1>6. stop_requested \in BOOLEAN /\ action_result \in {-1, -2, -3} \cup Ram
  BY <1>0 DEF ActionTyped
<1>7. CASE stop_requested /\ MiaStop /\ stop_requested' = FALSE /\ UNCHANGED action_result
  BY <1>3, <1>4, <1>6, <1>7
<1>8. CASE WatchdogDue /\ ~stop_requested /\ MiaStop /\ action_result' = -3
           /\ UNCHANGED stop_requested
  <2>1. stop_requested' = FALSE
    BY <1>6, <1>8
  <2> QED BY <1>3, <1>5, <1>8, <2>1
<1> QED BY <1>2, <1>7, <1>8 DEF MiaMainTask

LEMMA RunKeepsEngine ==
  ASSUME Sound, ~MiaActive,
         NEW op \in {"read", "write", "verify"}, NEW a \in Ram, NEW n \in Nat, n > 0,
         a + n <= RamTop + 1, NEW buf \in {"mbuf", "ula"}, NEW b \in Byte,
         MiaRun(op, a, n, buf, b, vec, cpu), UNCHANGED <<ram, clock, areg>>
  PROVE  EngineSound' /\ MiaActive'
<1>1. CpuTyped /\ LoopTyped /\ ActionTyped /\ Engine /\ vec = "rom"
  BY DEF Sound, InType, Engine
<1>2. CpuTyped' /\ LoopTyped' /\ ActionTyped' /\ Engine' /\ Asking' /\ MiaActive'
  BY <1>1, RunIsSound
<1> QED BY <1>2 DEF EngineSound

LEMMA FirstOfLine ==
  ASSUME Sound PROVE line[0] \in Byte /\ mbuf[0] \in Byte
BY Constants DEF Sound, InType, UlaTyped, MonTyped

LEMMA UlaStartIsSound ==
  ASSUME Sound, UlaStart
  PROVE  EngineSound' /\ MiaActive' /\ ~MiaActive
<1>1. ~MiaActive
  BY DEF Sound, Users, UlaStart, InType, UlaTyped
<1> DEFINE y == IF Head(jobs).do = "flush" THEN line_y ELSE Head(jobs).row
           op == IF Head(jobs).do = "get" THEN "read" ELSE "write"
<1>2. Head(jobs) \in Chores /\ line_y \in 0 .. Rows
  BY HeadIs DEF Sound, InType, UlaTyped, UlaStart
<1>3. y \in 0 .. Rows
  BY <1>2, ChoreIs DEF UlaStart
<1>4. op \in {"read", "write", "verify"}
  OBVIOUS
<1>5. MiaRun(op, Row(y), Cols, "ula", line[0], vec, cpu) /\ UNCHANGED <<ram, clock, areg>>
  BY DEF UlaStart
<1> HIDE DEF y, op
<1>6. Row(y) \in Ram /\ Row(y) + Cols <= RamTop + 1 /\ Cols \in Nat /\ Cols > 0
  BY <1>3, RowIsRam, Constants
<1> QED BY <1>1, <1>4, <1>5, <1>6, FirstOfLine, RunKeepsEngine

LEMMA UlaTaskIsSound ==
  ASSUME Sound, UlaTask
  PROVE  EngineSound' /\ (MiaActive' => MiaActive \/ ula_state # "IDLE")
<1>0. /\ CpuTyped /\ LoopTyped /\ ActionTyped /\ Engine /\ Asking /\ cur_y \in Nat /\ line[0] \in Byte
  BY FirstOfLine DEF Sound, InType, UlaTyped
<1>1. CASE UNCHANGED <<oric, engine>>
  BY <1>0, <1>1 DEF oric, engine, EngineSound, CpuTyped, LoopTyped, ActionTyped, Engine, Asking,
                    Goes, MiaActive
<1>2. CASE /\ ~MiaActive /\ ula_state = "FONT"
           /\ MiaRun("write", Row(0), Cols, "ula", Blank, vec, cpu) /\ UNCHANGED <<ram, clock, areg>>
  <2>1. 0 \in 0 .. Rows
    BY Constants
  <2>2. Row(0) \in Ram /\ Row(0) + Cols <= RamTop + 1 /\ Cols \in Nat /\ Cols > 0 /\ Blank \in Byte
    BY <2>1, RowIsRam, Constants, ByteIs
  <2> QED BY <1>2, <2>2, RunKeepsEngine
<1>3. CASE /\ ~MiaActive /\ ula_state = "CLR" /\ cur_y + 1 < Rows
           /\ MiaRun("write", Row(cur_y + 1), Cols, "ula", line[0], vec, cpu)
           /\ UNCHANGED <<ram, clock, areg>>
  <2>1. cur_y + 1 \in 0 .. Rows
    BY <1>0, <1>3, Constants
  <2>2. Row(cur_y + 1) \in Ram /\ Row(cur_y + 1) + Cols <= RamTop + 1 /\ Cols \in Nat /\ Cols > 0
    BY <2>1, RowIsRam, Constants
  <2> QED BY <1>0, <1>3, <2>2, RunKeepsEngine
<1> QED BY <1>1, <1>2, <1>3 DEF UlaTask, oric, engine

LEMMA CommandIsSound ==
  ASSUME Sound, RamMonAddress
  PROVE  EngineSound' /\ MiaActive' /\ ~MiaActive /\ MonTyped'
<1>1. ~MiaActive
  BY DEF Sound, Users, RamMonAddress, InType, UlaTyped
<1> DEFINE job == Head(jobs)
           n == Len16(job.row, job.len)
<1>2. job \in Chores /\ job.do \in {"read", "write"}
  BY HeadIs DEF Sound, RamMonAddress
<1>3. job.row \in Ram /\ job.len \in 1 .. MaxLen
  BY <1>2, ChoreIs
<1>4. /\ MiaRun(job.do, job.row, n, "mbuf", mbuf'[0], vec, cpu) /\ UNCHANGED <<ram, clock, areg>>
      /\ cmd_addr' = job.row /\ mbuf_len' = job.len /\ reply' = "none"
      /\ cmd_state' = (IF job.do = "read" THEN "READ" ELSE "WRITE")
      /\ mbuf' = (IF job.do = "read" THEN mbuf
                  ELSE [i \in DOMAIN mbuf |-> IF i < job.len THEN Typed(i) ELSE mbuf[i]])
      /\ UNCHANGED <<prompted, needs_newline>>
  BY DEF RamMonAddress
<1> HIDE DEF job
<1>5. n \in Nat /\ n > 0 /\ job.row + n <= RamTop + 1
  BY <1>3, CutFits
<1>6. MonTyped
  BY DEF Sound, InType
<1>7. mbuf' \in [0 .. MaxLen - 1 -> Byte]
  BY <1>4, <1>6, ByteIs DEF MonTyped
<1>8. mbuf'[0] \in Byte
  BY <1>7, Constants
<1>9. MonTyped'
  BY <1>3, <1>4, <1>6, <1>7, Constants DEF MonTyped
<1> HIDE DEF n
<1>10. EngineSound' /\ MiaActive'
  BY <1>1, <1>2, <1>3, <1>4, <1>5, <1>8, RunKeepsEngine
<1> QED BY <1>1, <1>9, <1>10

LEMMA VerifyIsSound ==
  ASSUME Sound, RamTask
  PROVE  EngineSound' /\ (MiaActive' => MiaActive \/ cmd_state' = "VERIFY") /\ MonTyped'
<1>0. CpuTyped /\ LoopTyped /\ ActionTyped /\ Engine /\ Asking /\ MonTyped /\ mbuf[0] \in Byte
  BY FirstOfLine DEF Sound, InType
<1>1. ASSUME UNCHANGED <<oric, engine>>
      PROVE  EngineSound' /\ (MiaActive' => MiaActive)
  BY <1>0, <1>1 DEF oric, engine, EngineSound, CpuTyped, LoopTyped, ActionTyped, Engine, Asking,
                    Goes, MiaActive
<1>2. CASE UNCHANGED <<oric, engine, mon, jobs>>
  BY <1>0, <1>1, <1>2 DEF mon, MonTyped
<1>3. CASE /\ cmd_state' = "IDLE" /\ reply' = (IF Failed THEN Message ELSE "ok")
           /\ UNCHANGED <<oric, engine, mbuf, mbuf_len, cmd_addr, prompted, needs_newline>>
  BY <1>0, <1>1, <1>3 DEF MonTyped, Message
<1>4. CASE /\ ~MiaActive /\ cmd_state = "WRITE" /\ cmd_state' = "VERIFY"
           /\ MiaRun("verify", cmd_addr, Len16(cmd_addr, mbuf_len), "mbuf", mbuf[0], vec, cpu)
           /\ UNCHANGED <<ram, clock, areg, mbuf, mbuf_len, cmd_addr, reply, prompted, needs_newline,
                          jobs>>
  <2>1. cmd_addr \in Ram /\ mbuf_len \in 1 .. MaxLen
    BY <1>0, <1>4, Constants DEF MonTyped
  <2>2. /\ Len16(cmd_addr, mbuf_len) \in Nat /\ Len16(cmd_addr, mbuf_len) > 0
        /\ cmd_addr + Len16(cmd_addr, mbuf_len) <= RamTop + 1
    BY <2>1, CutFits
  <2>3. MonTyped'
    BY <1>0, <1>4 DEF MonTyped
  <2> QED BY <1>0, <1>4, <2>1, <2>2, <2>3, RunKeepsEngine
<1> QED BY <1>2, <1>3, <1>4 DEF RamTask

LEMMA BreakIsSound ==
  ASSUME Sound, Break
  PROVE  EngineSound' /\ MonTyped'
<1>0. /\ CpuTyped /\ LoopTyped /\ ActionTyped /\ Engine /\ MonTyped /\ ~MiaActive /\ vec = "rom"
      /\ saved.is = FALSE
  BY DEF Sound, InType, Users, Engine, Break, KernelTyped
<1> DEFINE running == main_state = "running"
           v == IF running THEN Vectors(vec) ELSE vec
           c == IF running THEN "reset" ELSE cpu
<1>1. MiaRun("write", Font, 1, "mbuf", FontByte, v, c) /\ UNCHANGED <<ram, clock, areg>>
  BY DEF Break
<1>2. v = "rom" /\ (c = "reset" \/ c = cpu)
  BY <1>0 DEF Vectors
<1> HIDE DEF v, c
<1>3. Font \in Ram /\ 1 \in Nat /\ 1 > 0 /\ Font + 1 <= RamTop + 1 /\ FontByte \in Byte
  BY Constants, ByteIs DEF Ram
<1>4. CpuTyped' /\ LoopTyped' /\ ActionTyped' /\ Engine' /\ Asking'
  BY <1>0, <1>1, <1>2, <1>3, RunIsSound
<1>5. MonTyped'
  <2>1. prompted' \in BOOLEAN /\ needs_newline' \in BOOLEAN
    BY Zenon DEF Break
  <2>2. mbuf' \in [0 .. MaxLen - 1 -> Byte]
    BY <1>0, ByteIs DEF Break, MonTyped
  <2>3. mbuf_len' = 1 /\ cmd_state' = "IDLE" /\ cmd_addr' = cmd_addr /\ reply' = reply
    BY DEF Break
  <2> QED BY <1>0, <2>1, <2>2, <2>3, Constants DEF MonTyped
<1> QED BY <1>4, <1>5 DEF EngineSound

LEMMA EngineKept ==
  ASSUME Undisturbed, Sound, [Next]_vars
  PROVE  EngineSound'
<1>0. /\ CpuTyped /\ LoopTyped /\ ActionTyped /\ Engine /\ Asking /\ clock \in BOOLEAN
  BY DEF Sound, InType, CpuTyped
<1>1. CASE Cpu
  BY <1>1, LoadIsSound, StoreIsSound, TakeIsSound, CompareIsSound DEF Cpu, EngineSound
<1>2. CASE Expire
  <2>1. clock = FALSE
    BY <1>0, <1>2 DEF Expire, Engine
  <2>2. expired' \in BOOLEAN
    BY <1>2, Zenon DEF Expire
  <2> QED BY <1>0, <1>2, <2>1, <2>2 DEF Expire, oric, EngineSound, CpuTyped, LoopTyped, ActionTyped,
                                        Engine, Asking, Goes, MiaActive
<1>3. CASE SwitchOff
  <2>1. clock' \in BOOLEAN
    BY <1>3, Zenon DEF SwitchOff
  <2> QED BY <1>0, <1>3, <2>1 DEF SwitchOff, engine, EngineSound, CpuTyped, LoopTyped, ActionTyped,
                                  Engine, Asking, Goes, MiaActive
<1>4. CASE Run
  <2>1. ~MiaActive
    BY <1>4 DEF Run, Sound, Users
  <2>2. /\ cpu' = "app" /\ stop_requested' = FALSE /\ stop_requested = FALSE
        /\ UNCHANGED <<loop, vec, saved, action_state, action_result, rw_addr, rw_pos,
                       rw_end, buffer, expired, asked, ram, clock, areg>>
    BY <1>0, <1>4, <2>1 DEF Run, Engine
  <2> QED BY <1>0, <2>1, <2>2, ZenonT(60) DEF EngineSound, CpuTyped, LoopTyped, ActionTyped, Engine, Asking,
                                  Goes, MiaActive
<1>5. CASE ExtTask
  <2>1. cpu' = cpu \/ (cpu' = "reset" /\ ~MiaActive)
    BY <1>5 DEF ExtTask, Undisturbed
  <2> QED BY <1>0, <1>5, <2>1 DEF ExtTask, engine, EngineSound, CpuTyped, LoopTyped, ActionTyped,
                                  Engine, Asking, Goes, MiaActive
<1>6. CASE UNCHANGED <<oric, engine>>
  BY <1>0, <1>6 DEF oric, engine, EngineSound, CpuTyped, LoopTyped, ActionTyped, Engine, Asking,
                    Goes, MiaActive
<1> QED BY <1>1, <1>2, <1>3, <1>4, <1>5, <1>6, WhoChangesLoop, StopIsSound, UlaStartIsSound,
           UlaTaskIsSound, CommandIsSound, VerifyIsSound, BreakIsSound

(***************************************************************************)
(* The monitor's and the console's variables.                              *)
(***************************************************************************)
LEMMA MonKept ==
  ASSUME Sound, [Next]_vars
  PROVE  MonTyped'
<1>0. MonTyped
  BY DEF Sound, InType
<1>1. CASE ComTask
  <2>1. prompted' \in BOOLEAN /\ needs_newline' \in BOOLEAN
        /\ reply' \in {"none", "ok", "timeout", "mismatch"}
    <3>1. CASE UNCHANGED <<prompted, needs_newline, reply, jobs>>
      BY <1>0, <3>1 DEF MonTyped
    <3>2. CASE Prompt
      <4>1. prompted' \in BOOLEAN /\ needs_newline' \in BOOLEAN
        BY <3>2, Zenon DEF Prompt
      <4> QED BY <3>2, <4>1 DEF Prompt
    <3>3. ASSUME NEW job, Enter(job) PROVE <2>1
      <4>1. prompted' \in BOOLEAN
        BY <3>3, Zenon DEF Enter
      <4> QED BY <1>0, <3>3, <4>1 DEF Enter, MonTyped
    <3> QED BY <1>1, <3>1, <3>2, <3>3 DEF ComTask
  <2> QED BY <1>0, <1>1, <2>1 DEF ComTask, MonTyped
<1>2. CASE UNCHANGED mon
  BY <1>0, <1>2 DEF mon, MonTyped
<1> QED BY <1>1, <1>2, WhoChangesMon, TakeIsSound, CommandIsSound, VerifyIsSound, BreakIsSound

LEMMA KernelKept ==
  ASSUME Sound, [Next]_vars
  PROVE  KernelTyped'
<1>0. KernelTyped
  BY DEF Sound, InType
<1>1. turn' \in {"mia", "ula", "com", "ram", "ext", "events"}
  BY <1>0 DEF Next, Cpu, Core0, Load, StoreByte, TakeByte, CompareByte, Unpark, Trap, SwitchOff,
     Expire, MiaMainTask, UlaChar, UlaStart, UlaDone, UlaTask, ComTask, RamMonAddress, RamTask,
     ExtTask, KbdTask, Run, Break, Loop, vars, KernelTyped
<1>2. main_state' \in {"stopped", "starting", "running"}
  BY <1>0, ZenonT(60) DEF Next, Cpu, Core0, Load, StoreByte, TakeByte, CompareByte, Unpark, Trap, SwitchOff,
     Expire, MiaMainTask, UlaChar, UlaStart, UlaDone, UlaTask, ComTask, RamMonAddress, RamTask,
     ExtTask, KbdTask, Run, Break, Loop, vars, kernel, KernelTyped
<1>3. is_breaking' = TRUE \/ is_breaking' = FALSE \/ is_breaking' = is_breaking
  BY DEF Next, Cpu, Core0, Load, StoreByte, TakeByte, CompareByte, Unpark, Trap, SwitchOff,
     Expire, MiaMainTask, UlaChar, UlaStart, UlaDone, UlaTask, ComTask, RamMonAddress, RamTask,
     ExtTask, KbdTask, Run, Break, Loop, vars, kernel
<1>4. is_breaking' \in BOOLEAN
  BY <1>0, <1>3, Zenon DEF KernelTyped
<1> QED BY <1>1, <1>2, <1>4 DEF KernelTyped

(* Where the cursor goes; it is below the last row only in a scroll.       *)
LEMMA CursorFits ==
  ASSUME Sound, jobs = <<>> \/ Head(jobs).do \notin {"flush", "get", "put", "blank", "home"}
  PROVE  cur_y \in 0 .. Rows - 1
<1>1. cur_y \in 0 .. Rows /\ Queue
  BY DEF Sound, InType, UlaTyped
<1>2. ASSUME cur_y = Rows PROVE FALSE
  <2>1. PICK h \in DOMAIN jobs : jobs[h].do = "home" /\ \A i \in 1 .. h - 1 : Scrolls(jobs[i])
    BY <1>1, <1>2 DEF Queue
  <2>2. jobs # <<>>
    BY <2>1
  <2>3. DOMAIN jobs = 1 .. Len(jobs) /\ Len(jobs) \in Nat /\ Head(jobs) = jobs[1]
    BY <1>1, <2>2, HeadIs
  <2>4. h = 1 \/ 1 \in 1 .. h - 1
    BY <2>1, <2>3
  <2> QED BY <2>1, <2>2, <2>3, <2>4 DEF Scrolls
<1> QED BY <1>1, <1>2, Constants

LEMMA UlaKept ==
  ASSUME Sound, [Next]_vars
  PROVE  UlaTyped'
<1>0. UlaTyped /\ Rows \in Nat /\ Rows > 0 /\ Cols \in Nat
  BY Constants DEF Sound, InType
<1>c. Clear \in [0 .. Cols - 1 -> Byte] /\ [x \in 0 .. Cols - 1 |-> Ink] \in [0 .. Cols - 1 -> Byte]
  BY ByteIs DEF Clear
<1>1. CASE UlaChar
  <2>1. line' \in [0 .. Cols - 1 -> Byte]
    BY <1>0, <1>c, <1>1 DEF UlaChar, UlaTyped
  <2>2. dirty' \in BOOLEAN
    <3>1. dirty' = dirty \/ dirty' = TRUE
      BY <1>1 DEF UlaChar
    <3> QED BY <1>0, <3>1, Zenon DEF UlaTyped
  <2>3. cur_y' \in 0 .. Rows
    <3>1. CASE Head(jobs).do = "newline" /\ cur_y' = cur_y + 1
      <4>1. cur_y \in 0 .. Rows - 1
        BY <3>1, CursorFits
      <4> QED BY <1>0, <3>1, <4>1
    <3>2. CASE cur_y' = Rows - 1 \/ cur_y' = cur_y
      BY <1>0, <3>2 DEF UlaTyped
    <3> QED BY <1>1, <3>1, <3>2 DEF UlaChar
  <2> QED BY <1>0, <1>1, <2>1, <2>2, <2>3 DEF UlaChar, UlaTyped
<1>2. CASE UlaStart
  <2>1. waiting' \in BOOLEAN
    BY <1>2, Zenon DEF UlaStart
  <2> QED BY <1>0, <1>2, <2>1 DEF UlaStart, UlaTyped
<1>3. CASE UlaDone
  <2>1. waiting' \in BOOLEAN
    BY <1>3, Zenon DEF UlaDone
  <2>2. dirty' \in BOOLEAN
    <3>1. dirty' = dirty \/ dirty' = FALSE
      BY <1>3 DEF UlaDone
    <3> QED BY <1>0, <3>1, Zenon DEF UlaTyped
  <2>3. line' \in [0 .. Cols - 1 -> Byte] /\ line_y' \in 0 .. Rows
    BY <1>0, <1>c, <1>3 DEF UlaDone, UlaTyped
  <2> QED BY <1>0, <1>3, <2>1, <2>2, <2>3 DEF UlaDone, UlaTyped
<1>4. CASE UlaTask
  <2>1. driver' \in BOOLEAN
    <3>1. driver' = driver \/ driver' = TRUE
      BY <1>4 DEF UlaTask, ula
    <3> QED BY <1>0, <3>1, Zenon DEF UlaTyped
  <2>2. line' \in [0 .. Cols - 1 -> Byte] /\ ula_state' \in {"IDLE", "FONT", "CLR"}
        /\ cur_y' \in 0 .. Rows
    BY <1>0, <1>c, <1>4 DEF UlaTask, UlaTyped, ula
  <2>3. UNCHANGED <<line_y, dirty, waiting>>
    BY <1>4 DEF UlaTask, ula
  <2> QED BY <1>0, <2>1, <2>2, <2>3 DEF UlaTyped
<1>5. CASE Run
  <2>1. driver' \in BOOLEAN
    BY <1>5, Zenon DEF Run
  <2> QED BY <1>0, <1>5, <2>1 DEF Run, UlaTyped
<1>6. CASE ComTask \/ RamMonAddress \/ RamTask \/ Break \/ UNCHANGED ula
  BY <1>0, <1>6 DEF ComTask, RamMonAddress, RamTask, Break, ula, UlaTyped
<1> QED BY <1>1, <1>2, <1>3, <1>4, <1>5, <1>6, WhoChangesUla, TakeIsSound

(***************************************************************************)
(* What is left to do.                                                     *)
(***************************************************************************)
LEMMA PlainChores ==
  ASSUME NEW what \in {"draw", "newline", "flush", "get", "put", "blank", "home"},
         NEW y \in 0 .. Rows - 1
  PROVE  /\ Job(what, y) \in Chores /\ Job(what, y).do = what
         /\ Job(what, 0) \in Chores /\ Job(what, 0).do = what
BY Constants DEF Job, Chores

Plain(s) == s \in Seq(Chores) /\ \A i \in DOMAIN s : s[i].do \notin {"read", "write"}

LEMMA PlainJoined ==
  ASSUME NEW s, Plain(s), NEW t \in Seq(Chores),
         \A i \in DOMAIN t : i < Len(t) => t[i].do \notin {"read", "write"}
  PROVE  /\ s \o t \in Seq(Chores) /\ Len(s \o t) = Len(s) + Len(t)
         /\ \A i \in DOMAIN (s \o t) : i < Len(s \o t) => (s \o t)[i].do \notin {"read", "write"}
         /\ (\A i \in DOMAIN t : t[i].do \notin {"read", "write"}) => Plain(s \o t)
         /\ \A i \in 1 .. Len(s) : (s \o t)[i] = s[i]
         /\ \A i \in 1 .. Len(t) : (s \o t)[Len(s) + i] = t[i]
<1> DEFINE u == s \o t
<1>1. /\ s \in Seq(Chores) /\ Len(s) \in Nat /\ Len(t) \in Nat
      /\ DOMAIN s = 1 .. Len(s) /\ DOMAIN t = 1 .. Len(t)
      /\ \A i \in DOMAIN s : s[i].do \notin {"read", "write"}
  BY LenProperties DEF Plain
<1>2. /\ u \in Seq(Chores) /\ Len(u) = Len(s) + Len(t)
      /\ \A i \in 1 .. Len(s) + Len(t) : u[i] = IF i <= Len(s) THEN s[i] ELSE t[i - Len(s)]
  BY <1>1, ConcatProperties
<1>3. DOMAIN u = 1 .. Len(s) + Len(t)
  BY <1>2, LenProperties
<1> HIDE DEF u
<1>4. ASSUME NEW i \in DOMAIN u, i < Len(u) PROVE u[i].do \notin {"read", "write"}
  <2>1. CASE i <= Len(s)
    BY <1>1, <1>2, <1>3, <1>4, <2>1
  <2>2. CASE i > Len(s)
    <3>1. u[i] = t[i - Len(s)] /\ i - Len(s) \in DOMAIN t /\ i - Len(s) < Len(t)
      BY <1>1, <1>2, <1>3, <1>4, <2>2
    <3> QED BY <3>1
  <2> QED BY <1>1, <1>3, <1>4, <2>1, <2>2
<1>5. ASSUME \A i \in DOMAIN t : t[i].do \notin {"read", "write"} PROVE Plain(u)
  <2>1. ASSUME NEW i \in DOMAIN u PROVE u[i].do \notin {"read", "write"}
    <3>1. CASE i <= Len(s)
      BY <1>1, <1>2, <1>3, <2>1, <3>1
    <3>2. CASE i > Len(s)
      <4>1. u[i] = t[i - Len(s)] /\ i - Len(s) \in DOMAIN t
        BY <1>1, <1>2, <1>3, <2>1, <3>2
      <4> QED BY <1>5, <4>1
    <3> QED BY <1>1, <1>3, <2>1, <3>1, <3>2
  <2> QED BY <1>2, <2>1 DEF Plain
<1>6. \A i \in 1 .. Len(s) : u[i] = s[i]
  BY <1>1, <1>2
<1>7. ASSUME NEW i \in 1 .. Len(t) PROVE u[Len(s) + i] = t[i]
  <2>1. Len(s) + i \in 1 .. Len(s) + Len(t) /\ ~(Len(s) + i <= Len(s)) /\ (Len(s) + i) - Len(s) = i
    BY <1>1, <1>7
  <2> QED BY <1>2, <2>1
<1> QED BY <1>2, <1>4, <1>5, <1>6, <1>7 DEF u

LEMMA BothPlain ==
  ASSUME NEW s, NEW t, Plain(s), Plain(t)
  PROVE  /\ Plain(s \o t) /\ Len(s \o t) = Len(s) + Len(t)
         /\ \A i \in 1 .. Len(s) : (s \o t)[i] = s[i]
         /\ \A i \in 1 .. Len(t) : (s \o t)[Len(s) + i] = t[i]
<1>1. t \in Seq(Chores) /\ \A i \in DOMAIN t : t[i].do \notin {"read", "write"}
  BY DEF Plain
<1>2. \A i \in DOMAIN t : i < Len(t) => t[i].do \notin {"read", "write"}
  BY <1>1
<1> QED BY <1>1, <1>2, PlainJoined

LEMMA TextIsPlain == Plain(Text) /\ Len(Text) \in Nat
<1>1. Job("draw", 0) \in Chores /\ Job("newline", 0) \in Chores
      /\ Job("draw", 0).do = "draw" /\ Job("newline", 0).do = "newline"
  BY PlainChores, Constants
<1> QED BY <1>1 DEF Text, Plain

(* The scroll: a row after the other, then the cursor goes home.           *)
LEMMA ScrollIs ==
  /\ Plain(Scroll) /\ Len(Scroll) \in Nat /\ Len(Scroll) >= 1
  /\ Scroll[Len(Scroll)].do = "home"
  /\ \A i \in 1 .. Len(Scroll) - 1 : Scrolls(Scroll[i])
<1> DEFINE n == 2 * (Rows - 1)
           moves == [i \in 1 .. n |->
              IF i % 2 = 1 THEN Job("get", (i + 1) \div 2) ELSE Job("put", i \div 2 - 1)]
           end == <<Job("blank", 0), Job("put", Rows - 1), Job("home", 0)>>
<1>0. Rows \in Nat /\ Rows > 0 /\ n \in Nat
  BY Constants
<1>1. ASSUME NEW i \in 1 .. n
      PROVE  moves[i] \in Chores /\ moves[i].do \in {"get", "put"}
  <2>1. CASE i % 2 = 1
    <3>1. (i + 1) \div 2 \in 0 .. Rows - 1
      BY <1>0, <2>1
    <3> QED BY <2>1, <3>1, PlainChores
  <2>2. CASE i % 2 # 1
    <3>1. i \div 2 - 1 \in 0 .. Rows - 1
      BY <1>0, <2>2
    <3> QED BY <2>2, <3>1, PlainChores
  <2> QED BY <2>1, <2>2
<1>2. moves \in Seq(Chores) /\ Len(moves) = n /\ DOMAIN moves = 1 .. n
  BY <1>0, <1>1, IsASeq
<1>3. Rows - 1 \in 0 .. Rows - 1
  BY <1>0
<1>4. /\ Job("blank", 0) \in Chores /\ Job("put", Rows - 1) \in Chores /\ Job("home", 0) \in Chores
      /\ Job("blank", 0).do = "blank" /\ Job("put", Rows - 1).do = "put"
      /\ Job("home", 0).do = "home"
  BY <1>3, PlainChores
<1>5. /\ end \in Seq(Chores) /\ Len(end) = 3 /\ DOMAIN end = 1 .. 3
      /\ end[1].do = "blank" /\ end[2].do = "put" /\ end[3].do = "home"
  BY <1>4
<1>6. Scroll = moves \o end
  BY DEF Scroll
<1> HIDE DEF moves, end
<1>7. Plain(moves) /\ (\A i \in DOMAIN end : end[i].do \notin {"read", "write"})
  BY <1>1, <1>2, <1>5 DEF Plain
<1>8. /\ Plain(Scroll) /\ Len(Scroll) = n + 3
      /\ \A i \in 1 .. n : Scroll[i] = moves[i]
      /\ \A i \in 1 .. 3 : Scroll[n + i] = end[i]
  <2>1. /\ Len(moves \o end) = Len(moves) + Len(end)
        /\ (\A i \in DOMAIN end : end[i].do \notin {"read", "write"}) => Plain(moves \o end)
        /\ \A i \in 1 .. Len(moves) : (moves \o end)[i] = moves[i]
        /\ \A i \in 1 .. Len(end) : (moves \o end)[Len(moves) + i] = end[i]
    <3>1. Plain(moves) /\ end \in Seq(Chores)
      BY <1>5, <1>7
    <3>2. \A i \in DOMAIN end : i < Len(end) => end[i].do \notin {"read", "write"}
      BY <1>7
    <3> QED BY <3>1, <3>2, PlainJoined
  <2> QED BY <1>2, <1>5, <1>6, <1>7, <2>1
<1> HIDE DEF n
<1>9. Scroll[n + 1].do = "blank" /\ Scroll[n + 2].do = "put" /\ Scroll[n + 3].do = "home"
  BY <1>5, <1>8
<1>10. ASSUME NEW i \in 1 .. Len(Scroll) - 1 PROVE Scrolls(Scroll[i])
  <2>1. i \in 1 .. n \/ i = n + 1 \/ i = n + 2
    BY <1>0, <1>8, <1>10
  <2> QED BY <1>1, <1>8, <1>9, <2>1 DEF Scrolls
<1> QED BY <1>0, <1>8, <1>9, <1>10

LastOnly(s) == \A i \in DOMAIN s : i < Len(s) => s[i].do \notin {"read", "write"}

LEMMA QueueMade ==
  ASSUME jobs' \in Seq(Chores), LastOnly(jobs'), cur_y' # Rows
  PROVE  Queue'
<1>1. Rows' = Rows /\ Chores' = Chores
  BY DEF Chores
<1> QED BY <1>1 DEF Queue, LastOnly, Scrolls

LEMMA FlushIsPlain ==
  Plain(<<Job("flush", 0)>>) /\ Len(<<Job("flush", 0)>>) = 1
BY PlainChores, Constants DEF Plain

LEMMA HeadDone ==
  ASSUME Sound, jobs # <<>>, jobs' = Tail(jobs),
         cur_y' # Rows \/ (cur_y' = cur_y /\ Head(jobs).do # "home")
  PROVE  Queue'
<1>0. Queue
  BY DEF Sound
<1>1. /\ Head(jobs) = jobs[1] /\ Tail(jobs) \in Seq(Chores) /\ Len(jobs) \in Nat \ {0}
      /\ Len(Tail(jobs)) = Len(jobs) - 1
      /\ \A i \in 1 .. Len(jobs) - 1 : Tail(jobs)[i] = jobs[i + 1]
      /\ DOMAIN jobs = 1 .. Len(jobs) /\ DOMAIN Tail(jobs) = 1 .. Len(jobs) - 1
  BY <1>0, HeadIs
<1>2. LastOnly(Tail(jobs))
  <2> SUFFICES ASSUME NEW i \in DOMAIN Tail(jobs), i < Len(Tail(jobs))
               PROVE  Tail(jobs)[i].do \notin {"read", "write"}
    BY DEF LastOnly
  <2>1. Tail(jobs)[i] = jobs[i + 1] /\ i + 1 \in DOMAIN jobs /\ i + 1 < Len(jobs)
    BY <1>1
  <2> QED BY <1>0, <2>1 DEF Queue
<1>3. CASE cur_y' # Rows
  BY <1>1, <1>2, <1>3, QueueMade
<1>4. CASE cur_y' = Rows /\ cur_y' = cur_y /\ Head(jobs).do # "home"
  <2>1. PICK h \in DOMAIN jobs : jobs[h].do = "home" /\ \A i \in 1 .. h - 1 : Scrolls(jobs[i])
    BY <1>0, <1>4 DEF Queue
  <2>2. h - 1 \in DOMAIN Tail(jobs) /\ Tail(jobs)[h - 1] = jobs[h]
    <3>1. h # 1
      BY <1>1, <1>4, <2>1
    <3>2. h - 1 \in 1 .. Len(jobs) - 1 /\ (h - 1) + 1 = h
      BY <1>1, <2>1, <3>1
    <3> QED BY <1>1, <3>2
  <2>3. ASSUME NEW i \in 1 .. (h - 1) - 1 PROVE Scrolls(Tail(jobs)[i])
    <3>1. i + 1 \in 1 .. h - 1 /\ i \in 1 .. Len(jobs) - 1
      BY <1>1, <2>1, <2>3
    <3> QED BY <1>1, <2>1, <3>1
  <2>4. \E g \in DOMAIN Tail(jobs) : /\ Tail(jobs)[g].do = "home"
                                     /\ \A i \in 1 .. g - 1 : Scrolls(Tail(jobs)[i])
    BY <2>1, <2>2, <2>3
  <2>5. Chores' = Chores
    BY DEF Chores
  <2> QED BY <1>1, <1>2, <2>4, <2>5 DEF Queue, LastOnly, Scrolls
<1> QED BY <1>3, <1>4

LEMMA CharQueue ==
  ASSUME Sound, UlaChar
  PROVE  Queue'
<1>0. Queue /\ jobs # <<>> /\ Rows \in Nat /\ Rows > 0
  BY Constants DEF Sound, UlaChar
<1>1. /\ jobs \in Seq(Chores) /\ Tail(jobs) \in Seq(Chores) /\ Len(jobs) \in Nat
      /\ LastOnly(jobs)
  BY <1>0, HeadIs DEF Queue, LastOnly
<1> DEFINE flush == <<Job("flush", 0)>>
<1>2. Plain(flush) /\ Len(flush) = 1 /\ flush[1].do = "flush"
  BY FlushIsPlain, PlainChores, Constants
<1> HIDE DEF flush
<1>3. CASE Head(jobs).do = "draw" /\ jobs' = flush \o jobs /\ UNCHANGED cur_y
  <2>1. cur_y' # Rows
    BY <1>3, CursorFits, <1>0
  <2>2. flush \o jobs \in Seq(Chores) /\ LastOnly(flush \o jobs)
    BY <1>1, <1>2, PlainJoined DEF LastOnly
  <2> QED BY <1>3, <2>1, <2>2, QueueMade
<1>4. CASE Head(jobs).do \in {"draw", "blank"} /\ jobs' = Tail(jobs) /\ UNCHANGED cur_y
  BY <1>0, <1>4, HeadDone
<1>5. CASE Head(jobs).do = "home" /\ cur_y' = Rows - 1 /\ jobs' = Tail(jobs)
  <2>1. cur_y' # Rows
    BY <1>0, <1>5
  <2> QED BY <1>0, <1>5, <2>1, HeadDone
<1>6. CASE /\ Head(jobs).do = "newline" /\ cur_y' = cur_y + 1
           /\ jobs' = flush \o (IF cur_y + 1 >= Rows THEN Scroll ELSE <<>>) \o Tail(jobs)
  <2>1. cur_y \in 0 .. Rows - 1
    BY <1>6, CursorFits
  <2>2. LastOnly(Tail(jobs))
    <3>1. /\ Len(jobs) \in Nat \ {0} /\ Len(Tail(jobs)) = Len(jobs) - 1
          /\ \A i \in 1 .. Len(jobs) - 1 : Tail(jobs)[i] = jobs[i + 1]
          /\ DOMAIN jobs = 1 .. Len(jobs) /\ DOMAIN Tail(jobs) = 1 .. Len(jobs) - 1
      BY <1>0, HeadIs
    <3>2. ASSUME NEW i \in DOMAIN Tail(jobs), i < Len(Tail(jobs))
          PROVE  Tail(jobs)[i].do \notin {"read", "write"}
      <4>1. Tail(jobs)[i] = jobs[i + 1] /\ i + 1 \in DOMAIN jobs /\ i + 1 < Len(jobs)
        BY <3>1, <3>2
      <4> QED BY <1>1, <4>1 DEF LastOnly
    <3> QED BY <3>2 DEF LastOnly
  <2>3. CASE cur_y + 1 >= Rows
    <3>1. jobs' = (flush \o Scroll) \o Tail(jobs)
      BY <1>6, <2>3
    <3> DEFINE s == flush \o Scroll
    <3>2. /\ Plain(s) /\ Len(s) = 1 + Len(Scroll) /\ s[1] = flush[1]
          /\ \A i \in 1 .. Len(Scroll) : s[1 + i] = Scroll[i]
      <4>1. Plain(Scroll) /\ Plain(flush)
        BY <1>2, ScrollIs
      <4>2. /\ Plain(s) /\ Len(s) = Len(flush) + Len(Scroll)
            /\ \A i \in 1 .. Len(flush) : s[i] = flush[i]
            /\ \A i \in 1 .. Len(Scroll) : s[Len(flush) + i] = Scroll[i]
        BY <4>1, BothPlain
      <4> QED BY <1>2, <4>2
    <3> HIDE DEF s
    <3>3. s \o Tail(jobs) \in Seq(Chores) /\ LastOnly(s \o Tail(jobs))
          /\ \A i \in 1 .. Len(s) : (s \o Tail(jobs))[i] = s[i]
          /\ Len(s \o Tail(jobs)) = Len(s) + Len(Tail(jobs))
      BY <1>1, <2>2, <3>2, PlainJoined, ZenonT(60) DEF LastOnly
    <3>4. jobs' = s \o Tail(jobs)
      BY <3>1 DEF s
    <3>5. Len(s) \in Nat /\ Len(Tail(jobs)) \in Nat /\ Len(s) >= 2
          /\ s[Len(s)].do = "home" /\ \A i \in 1 .. Len(s) - 1 : Scrolls(s[i])
      <4>1. Len(Scroll) \in Nat /\ Len(Scroll) >= 1 /\ Len(Tail(jobs)) \in Nat
        BY <1>1, ScrollIs
      <4>2. s[Len(s)] = Scroll[Len(Scroll)]
        BY <3>2, <4>1
      <4>3. ASSUME NEW i \in 1 .. Len(s) - 1 PROVE Scrolls(s[i])
        <5>1. CASE i = 1
          BY <1>2, <3>2, <5>1 DEF Scrolls
        <5>2. CASE i # 1
          <6>1. i - 1 \in 1 .. Len(Scroll) - 1 /\ i - 1 \in 1 .. Len(Scroll) /\ 1 + (i - 1) = i
            BY <3>2, <4>1, <4>3, <5>2
          <6>2. s[i] = Scroll[i - 1]
            BY <3>2, <6>1
          <6> QED BY <6>1, <6>2, ScrollIs
        <5> QED BY <5>1, <5>2
      <4> QED BY <3>2, <4>1, <4>2, <4>3, ScrollIs
    <3>6. \E h \in DOMAIN jobs' : jobs'[h].do = "home" /\ \A i \in 1 .. h - 1 : Scrolls(jobs'[i])
      <4>1. DOMAIN jobs' = 1 .. Len(s) + Len(Tail(jobs))
        BY <3>3, <3>4, LenProperties
      <4>2. Len(s) \in DOMAIN jobs' /\ jobs'[Len(s)].do = "home"
        BY <3>3, <3>4, <3>5, <4>1
      <4>3. \A i \in 1 .. Len(s) - 1 : Scrolls(jobs'[i])
        BY <3>3, <3>4, <3>5
      <4> QED BY <4>2, <4>3
    <3>7. Chores' = Chores
      BY DEF Chores
    <3> QED BY <3>3, <3>4, <3>6, <3>7 DEF Queue, LastOnly, Scrolls
  <2>4. CASE cur_y + 1 < Rows
    <3>0. cur_y' # Rows /\ ~(cur_y + 1 >= Rows)
      BY <1>0, <1>6, <2>1, <2>4
    <3>1. jobs' = (flush \o <<>>) \o Tail(jobs)
      BY <1>6, <3>0
    <3>2. flush \o <<>> = flush
      BY <1>2, ConcatEmptySeq DEF Plain
    <3>3. flush \o Tail(jobs) \in Seq(Chores) /\ LastOnly(flush \o Tail(jobs))
      BY <1>1, <1>2, <2>2, PlainJoined DEF LastOnly
    <3> QED BY <3>0, <3>1, <3>2, <3>3, QueueMade
  <2> QED BY <1>0, <2>1, <2>3, <2>4
<1> QED BY <1>3, <1>4, <1>5, <1>6 DEF UlaChar, flush

LEMMA EnterQueue ==
  ASSUME Sound, jobs = <<>>, cur_y' = cur_y, NEW job \in Chores, Enter(job)
  PROVE  Queue'
<1>1. cur_y' # Rows
  BY CursorFits, Constants
<1>2. <<job>> \in Seq(Chores) /\ Len(<<job>>) = 1 /\ DOMAIN <<job>> = {1}
  OBVIOUS
<1>3. Text \o <<job>> \in Seq(Chores) /\ LastOnly(Text \o <<job>>)
  <2>1. \A i \in DOMAIN <<job>> : i < Len(<<job>>) => <<job>>[i].do \notin {"read", "write"}
    BY <1>2
  <2> DEFINE t == <<job>>
  <2>2. t \in Seq(Chores) /\ \A i \in DOMAIN t : i < Len(t) => t[i].do \notin {"read", "write"}
    BY <1>2, <2>1
  <2> HIDE DEF t
  <2>3. Text \o t \in Seq(Chores) /\ LastOnly(Text \o t)
    BY <2>2, TextIsPlain, PlainJoined DEF LastOnly
  <2> QED BY <2>3 DEF t
<1> QED BY <1>1, <1>3, QueueMade DEF Enter

LEMMA QueueKept ==
  ASSUME Sound, [Next]_vars
  PROVE  Queue'
<1>0. Queue /\ Rows \in Nat /\ Rows > 0
  BY Constants DEF Sound
<1>1. ASSUME NEW s, Plain(s), jobs' = s, cur_y' # Rows PROVE Queue'
  BY <1>1, QueueMade DEF Plain, LastOnly
<1>2. CASE UNCHANGED <<jobs, cur_y>>
  <2>1. Chores' = Chores
    BY DEF Chores
  <2> QED BY <1>0, <1>2, <2>1 DEF Queue, Scrolls
<1>3. Plain(<<>>) /\ Plain(<<Job("draw", 0)>>) /\ Plain(<<Job("newline", 0)>>)
      /\ Plain(<<Job("newline", 0), Job("draw", 0)>>)
  BY PlainChores, Constants DEF Plain
<1>4. CASE UlaDone
  <2>1. jobs # <<>> /\ jobs' = Tail(jobs) /\ cur_y' = cur_y
    BY <1>4 DEF UlaDone, Sound, Users, InType, UlaTyped
  <2>2. Head(jobs).do # "home"
    BY <1>4 DEF UlaDone, Sound, Users, InType, UlaTyped
  <2> QED BY <2>1, <2>2, HeadDone
<1>5. CASE UlaTask
  <2>0. jobs = <<>>
    BY <1>5 DEF UlaTask
  <2>1. cur_y # Rows /\ cur_y \in 0 .. Rows
    BY <2>0, CursorFits, Constants
  <2>2. CASE jobs' = jobs
    <3>1. cur_y' # Rows
      BY <1>0, <1>5, <2>1 DEF UlaTask, ula
    <3> QED BY <1>1, <1>3, <2>0, <2>2, <3>1
  <2>3. CASE jobs' = <<Job("flush", 0)>> /\ cur_y' = cur_y
    BY <1>1, <2>1, <2>3, FlushIsPlain
  <2>4. CASE jobs' = <<Job("draw", 0)>> /\ cur_y' = 0
    BY <1>0, <1>1, <1>3, <2>4
  <2> QED BY <1>5, <2>2, <2>3, <2>4 DEF UlaTask, ula
<1>6. CASE ComTask
  <2>0. jobs = <<>> /\ cur_y' = cur_y
    BY <1>6 DEF ComTask
  <2>1. cur_y' # Rows
    BY <2>0, CursorFits, Constants
  <2>2. ASSUME NEW job \in Chores, Enter(job) PROVE Queue'
    BY <2>0, <2>2, EnterQueue
  <2>3. ASSUME NEW a \in CmdAddrs
        PROVE  [do |-> "read", row |-> a, len |-> MaxLen - (a % MaxLen)] \in Chores
    <3>1. a \in Nat /\ MaxLen \in Nat /\ MaxLen > 0
      BY Constants DEF Ram
    <3>2. MaxLen - (a % MaxLen) \in 1 .. MaxLen
      BY <3>1
    <3> QED BY <3>2 DEF Chores
  <2>4. ASSUME NEW a \in CmdAddrs, NEW n \in CmdLens
        PROVE  [do |-> "write", row |-> a, len |-> n] \in Chores
    BY Constants DEF Chores
  <2>5. CASE Prompt
    <3>1. CASE driver
      <4>1. CASE needs_newline
        <5>1. jobs' = <<Job("newline", 0)>> \o <<Job("draw", 0)>>
          BY <2>5, <3>1, <4>1 DEF Prompt
        <5>2. Plain(<<Job("newline", 0)>> \o <<Job("draw", 0)>>)
          BY <1>3, BothPlain
        <5> QED BY <1>1, <2>1, <5>1, <5>2
      <4>2. CASE ~needs_newline
        <5>1. jobs' = <<>> \o <<Job("draw", 0)>>
          BY <2>5, <3>1, <4>2 DEF Prompt
        <5>2. jobs' = <<Job("draw", 0)>>
          BY <1>3, <5>1, ConcatEmptySeq DEF Plain
        <5> QED BY <1>1, <1>3, <2>1, <5>2
      <4> QED BY <4>1, <4>2
    <3>2. CASE ~driver
      BY <1>1, <1>3, <2>1, <2>5, <3>2 DEF Prompt
    <3> QED BY <3>1, <3>2
  <2>6. CASE UNCHANGED <<prompted, needs_newline, reply, jobs>>
    BY <1>2, <2>0, <2>6
  <2> QED BY <1>6, <2>2, <2>3, <2>4, <2>5, <2>6 DEF ComTask
<1>7. CASE RamMonAddress
  <2>1. jobs # <<>> /\ jobs' = Tail(jobs) /\ cur_y' = cur_y /\ Head(jobs).do # "home"
    BY <1>7 DEF RamMonAddress
  <2> QED BY <2>1, HeadDone
<1>8. CASE RamTask
  <2>0. jobs = <<>> /\ cur_y' = cur_y
    BY <1>8 DEF RamTask
  <2>1. cur_y' # Rows
    BY <2>0, CursorFits, Constants
  <2>2. jobs' = jobs \/ jobs' = Text \/ jobs' = <<>>
    BY <1>8 DEF RamTask
  <2> QED BY <1>1, <1>3, <2>0, <2>1, <2>2, TextIsPlain
<1>9. CASE TakeByte \/ UlaStart \/ Run \/ Break \/ UNCHANGED ula
  BY <1>2, <1>9 DEF TakeByte, UlaStart, Run, Break, ula
<1> QED BY <1>4, <1>5, <1>6, <1>7, <1>8, <1>9, CharQueue, WhoChangesUla

(***************************************************************************)
(* One user at a time.                                                     *)
(***************************************************************************)
LEMMA FlagsAre ==
  ASSUME Sound
  PROVE  /\ waiting \in BOOLEAN /\ driver \in BOOLEAN /\ is_breaking \in BOOLEAN
         /\ dirty \in BOOLEAN /\ prompted \in BOOLEAN /\ clock \in BOOLEAN
         /\ stop_requested \in BOOLEAN
BY DEF Sound, InType, UlaTyped, KernelTyped, MonTyped, CpuTyped, ActionTyped

LEMMA SameUsers ==
  ASSUME Users, MiaActive' => MiaActive,
         UNCHANGED <<jobs, waiting, driver, cmd_state, ula_state, turn, is_breaking, main_state>>
  PROVE  Users'
BY DEF Users

LEMMA CpuKeepsUsers ==
  ASSUME Sound, Cpu \/ Expire \/ SwitchOff
  PROVE  Users'
<1>1. UNCHANGED <<jobs, waiting, driver, cmd_state, ula_state, turn, is_breaking, main_state>>
  BY DEF Cpu, Load, StoreByte, TakeByte, CompareByte, Unpark, Trap, Expire, SwitchOff, mon, kernel,
         ula
<1>2. MiaActive' => MiaActive
  <2>1. CASE Cpu
    BY <2>1, LoadIsSound, StoreIsSound, TakeIsSound, CompareIsSound DEF Cpu
  <2>2. CASE Expire \/ SwitchOff
    BY <2>2 DEF Expire, SwitchOff, engine, MiaActive
  <2> QED BY <2>1, <2>2
<1> QED BY <1>1, <1>2, SameUsers DEF Sound

LEMMA UlaKeepsUsers ==
  ASSUME Sound, UlaChar \/ UlaStart \/ UlaDone \/ UlaTask
  PROVE  Users'
<1>0. Users /\ waiting \in BOOLEAN
  BY FlagsAre DEF Sound
<1>1. CASE UlaChar
  <2>1. /\ jobs # <<>> /\ waiting = FALSE /\ waiting' = FALSE /\ MiaActive' = MiaActive
        /\ UNCHANGED <<driver, cmd_state, ula_state, turn, is_breaking, main_state>>
    BY <1>0, <1>1 DEF UlaChar, engine, mon, kernel, MiaActive
  <2> QED BY <1>0, <2>1 DEF Users
<1>2. CASE UlaStart
  <2>1. /\ jobs # <<>> /\ Head(jobs).do \in {"flush", "put", "get"} /\ waiting' = TRUE
        /\ UNCHANGED <<jobs, driver, cmd_state, ula_state, turn, is_breaking, main_state>>
    BY <1>2 DEF UlaStart, mon, kernel
  <2> QED BY <1>0, <2>1 DEF Users
<1>3. CASE UlaDone
  <2>1. /\ waiting = TRUE /\ ~MiaActive /\ waiting' = FALSE /\ MiaActive' = MiaActive
        /\ UNCHANGED <<driver, cmd_state, ula_state, turn, is_breaking, main_state>>
    BY <1>0, <1>3 DEF UlaDone, engine, mon, kernel, MiaActive
  <2> QED BY <1>0, <2>1 DEF Users
<1>4. CASE UlaTask
  <2>1. /\ turn = "ula" /\ turn' = "com" /\ jobs = <<>> /\ waiting' = waiting
        /\ UNCHANGED <<cmd_state, is_breaking, main_state>>
    BY <1>4 DEF UlaTask, mon, kernel, ula
  <2>2. waiting = FALSE
    BY <1>0, <2>1 DEF Users
  <2>3. jobs' # <<>> => ~MiaActive'
    BY <1>4, <2>1 DEF UlaTask, engine, ula, MiaActive
  <2>4. ula_state' # "IDLE" => ula_state # "IDLE" /\ driver' = driver
    BY <1>4 DEF UlaTask, ula
  <2>5. MiaActive' /\ driver' = TRUE => MiaActive /\ driver = TRUE
    <3> SUFFICES ASSUME MiaActive', driver' = TRUE PROVE MiaActive /\ driver = TRUE
      OBVIOUS
    <3>1. CASE driver' = driver
      BY <1>0, <1>4, <3>1, UlaTaskIsSound DEF Users
    <3>2. CASE driver' # driver
      <4>1. ~MiaActive /\ UNCHANGED engine
        BY <1>4, <3>2 DEF UlaTask, ula
      <4> QED BY <4>1 DEF engine, MiaActive
    <3> QED BY <3>1, <3>2
  <2> QED BY <1>0, <2>1, <2>2, <2>3, <2>4, <2>5 DEF Users
<1> QED BY <1>1, <1>2, <1>3, <1>4

LEMMA CommandIsLast ==
  ASSUME Sound, jobs # <<>>, Head(jobs).do \in {"read", "write"}
  PROVE  Tail(jobs) = <<>> /\ Len(jobs) = 1
<1>1. /\ Len(jobs) \in Nat \ {0} /\ Head(jobs) = jobs[1] /\ 1 \in DOMAIN jobs
      /\ Tail(jobs) \in Seq(Chores) /\ Len(Tail(jobs)) = Len(jobs) - 1
  BY HeadIs DEF Sound
<1>2. ~(1 < Len(jobs))
  BY <1>1 DEF Sound, Queue
<1> QED BY <1>1, <1>2, EmptySeq

LEMMA MonKeepsUsers ==
  ASSUME Sound, ComTask \/ RamMonAddress \/ RamTask
  PROVE  Users'
<1>0. Users /\ waiting \in BOOLEAN /\ driver \in BOOLEAN
  BY FlagsAre DEF Sound
<1>1. CASE ComTask
  <2>1. /\ turn = "com" /\ turn' = "ram" /\ jobs = <<>> /\ MiaActive' = MiaActive
        /\ UNCHANGED <<waiting, driver, cmd_state, ula_state, is_breaking, main_state>>
    BY <1>1 DEF ComTask, engine, kernel, MiaActive
  <2>2. waiting = FALSE
    BY <1>0, <2>1 DEF Users
  <2>3. jobs' # <<>> => ~MiaActive
    <3>1. CASE Prompt
      <4>1. jobs' # <<>> => driver = TRUE /\ cmd_state = "IDLE"
        BY <1>0, <3>1 DEF Prompt
      <4> QED BY <1>0, <2>2, <4>1 DEF Users
    <3>2. CASE ~Prompt
      BY <1>1, <2>1, <3>2 DEF ComTask, Enter
    <3> QED BY <3>1, <3>2
  <2> QED BY <1>0, <2>1, <2>2, <2>3 DEF Users
<1>2. CASE RamMonAddress
  <2>1. /\ jobs # <<>> /\ waiting = FALSE /\ Head(jobs).do \in {"read", "write"}
        /\ jobs' = Tail(jobs) /\ cmd_state' # "IDLE"
        /\ UNCHANGED <<waiting, driver, ula_state, turn, is_breaking, main_state>>
    BY <1>0, <1>2 DEF RamMonAddress, kernel
  <2>2. jobs' = <<>>
    BY <2>1, CommandIsLast
  <2> QED BY <1>0, <2>1, <2>2 DEF Users
<1>3. CASE RamTask
  <2>1. /\ turn = "ram" /\ turn' = "ext" /\ jobs = <<>>
        /\ UNCHANGED <<waiting, driver, ula_state, is_breaking, main_state>>
    BY <1>3 DEF RamTask, kernel
  <2>2. waiting = FALSE
    BY <1>0, <2>1 DEF Users
  <2>3. jobs' # <<>> => ~MiaActive'
    BY <1>3, <2>1 DEF RamTask, engine, MiaActive
  <2>4. MiaActive' => cmd_state' = "VERIFY" \/ (MiaActive /\ cmd_state' = cmd_state)
    BY <1>3 DEF RamTask, engine, mon, MiaActive
  <2> QED BY <1>0, <2>1, <2>2, <2>3, <2>4 DEF Users
<1> QED BY <1>1, <1>2, <1>3

LEMMA KernelKeepsUsers ==
  ASSUME Undisturbed, Sound, MiaMainTask \/ ExtTask \/ KbdTask \/ Run \/ Break \/ Loop
  PROVE  Users'
<1>0. Users /\ waiting \in BOOLEAN /\ driver \in BOOLEAN /\ is_breaking \in BOOLEAN
  BY FlagsAre DEF Sound
<1>1. CASE MiaMainTask
  <2>1. UNCHANGED <<jobs, waiting, driver, cmd_state, ula_state, is_breaking, main_state>>
    BY <1>1 DEF MiaMainTask, mon, kernel, ula
  <2>2. MiaActive' => MiaActive
    <3>1. action_state' = "idle" \/ action_state' = action_state
      BY <1>1 DEF MiaMainTask, MiaStop
    <3> QED BY <3>1 DEF MiaActive
  <2>3. CASE waiting = TRUE
    <3>1. turn' = turn
      BY <1>1, <2>3 DEF MiaMainTask
    <3> QED BY <1>0, <2>1, <2>2, <3>1 DEF Users
  <2>4. CASE waiting = FALSE
    <3>1. turn = "mia" /\ turn' = "ula" /\ jobs = <<>>
      BY <1>1, <2>4 DEF MiaMainTask
    <3> QED BY <1>0, <2>1, <2>2, <2>4, <3>1 DEF Users
  <2> QED BY <1>0, <2>3, <2>4
<1>2. CASE ExtTask
  <2>1. /\ turn = "ext" /\ turn' = "events" /\ jobs = <<>> /\ MiaActive' = MiaActive
        /\ UNCHANGED <<jobs, waiting, driver, cmd_state, ula_state, is_breaking>>
        /\ main_state' = main_state \/ (main_state' = "starting" /\ ~MiaActive /\ Boots = "quiet")
    BY <1>2 DEF ExtTask, Undisturbed, engine, mon, ula, MiaActive
  <2> QED BY <1>0, <2>1 DEF Users
<1>3. CASE KbdTask
  <2>1. /\ turn = "events" /\ ~MiaActive /\ driver = FALSE /\ is_breaking' = TRUE
        /\ MiaActive' = MiaActive
        /\ UNCHANGED <<turn, jobs, waiting, driver, cmd_state, ula_state, main_state>>
    BY <1>0, <1>3 DEF KbdTask, Undisturbed, engine, mon, ula, MiaActive
  <2> QED BY <1>0, <2>1 DEF Users
<1>4. CASE Run
  <2>1. /\ turn = "events" /\ main_state = "starting" /\ turn' = "mia" /\ main_state' = "running"
        /\ driver' = FALSE /\ is_breaking = FALSE
        /\ UNCHANGED <<jobs, waiting, cmd_state, ula_state, is_breaking, action_state>>
    BY <1>0, <1>4 DEF Run, mon, Users
  <2> QED BY <1>0, <2>1 DEF Users, MiaActive
<1>5. CASE Break
  <2>1. /\ turn = "events" /\ turn' = "mia" /\ is_breaking = TRUE /\ is_breaking' = FALSE
        /\ main_state' = "stopped"
        /\ UNCHANGED <<jobs, waiting, driver>>
    BY <1>0, <1>5 DEF Break
  <2>2. driver = FALSE /\ jobs = <<>> /\ waiting = FALSE
    BY <1>0, <2>1 DEF Users
  <2> QED BY <2>1, <2>2 DEF Users
<1>6. CASE Loop
  <2>1. /\ turn = "events" /\ turn' = "mia" /\ is_breaking = FALSE /\ main_state # "starting"
        /\ MiaActive' = MiaActive
        /\ UNCHANGED <<jobs, waiting, driver, cmd_state, ula_state, is_breaking, main_state>>
    BY <1>0, <1>6 DEF Loop, engine, mon, kernel, ula, MiaActive
  <2> QED BY <1>0, <2>1 DEF Users
<1> QED BY <1>1, <1>2, <1>3, <1>4, <1>5, <1>6

LEMMA UsersKept ==
  ASSUME Undisturbed, Sound, [Next]_vars
  PROVE  Users'
<1>1. CASE UNCHANGED vars
  <2>1. UNCHANGED <<jobs, waiting, driver, cmd_state, ula_state, turn, is_breaking, main_state,
                    action_state>>
    BY <1>1 DEF vars, engine, mon, kernel, ula
  <2> QED BY <2>1, SameUsers DEF Sound, MiaActive
<1> QED BY <1>1, CpuKeepsUsers, UlaKeepsUsers, MonKeepsUsers, KernelKeepsUsers DEF Next, Core0

LEMMA SoundKept ==
  ASSUME Undisturbed, Sound, [Next]_vars
  PROVE  Sound'
BY EngineKept, MonKept, KernelKept, UlaKept, QueueKept, UsersKept DEF Sound, InType, EngineSound

(* The engine has one user at a time and does what it was asked for        *)
(* (mia.c:126-253).                                                        *)
THEOREM SoundAlways ==
  ASSUME Undisturbed
  PROVE  Spec => []Sound
<1>1. Init => Sound
  BY SoundAtFirst
<1>2. Sound /\ [Next]_vars => Sound'
  BY SoundKept
<1> QED BY <1>1, <1>2, PTL DEF Spec

(* Every variable of the engine, the monitor and the console keeps its     *)
(* type: an address never leaves the memory, and no more bytes are counted *)
(* than were asked for (mia.c:979-1047).                                   *)
THEOREM TypeCorrect ==
  ASSUME Undisturbed
  PROVE  Spec => []TypeOK
BY SoundAlways, SoundIsTyped, PTL

(* Between actions the ROM's vectors are back in XRAM: mia_run() saves what*)
(* it finds there, and finds the ROM's (mia.c:246-253).                    *)
THEOREM VectorsAreHome ==
  ASSUME Undisturbed
  PROVE  Spec => []VectorsHome
<1>1. Sound => VectorsHome
  BY DEF Sound, Engine, VectorsHome
<1> QED BY <1>1, SoundAlways, PTL

(* An action changes only the cells it was asked to write (mia.c:979-990). *)
THEOREM WritesWhatIsAsked ==
  ASSUME Undisturbed
  PROVE  Spec => OnlyAsked
<1> DEFINE A == \A a \in Ram : ram'[a] # ram[a] =>
                  /\ action_state = "write" /\ asked.op = "write"
                  /\ a \in asked.addr .. asked.addr + asked.len - 1
<1>1. ASSUME Sound, [Next]_vars PROVE A
  <2> SUFFICES ASSUME NEW a \in Ram, ram'[a] # ram[a]
               PROVE  /\ action_state = "write" /\ asked.op = "write"
                      /\ a \in asked.addr .. asked.addr + asked.len - 1
    OBVIOUS
  <2>1. StoreByte
    <3>1. \/ StoreByte
          \/ ram' = ram
      BY <1>1 DEF Next, Cpu, Core0, Load, TakeByte, CompareByte, Unpark, Trap, SwitchOff,
         Expire, MiaMainTask, UlaChar, UlaStart, UlaDone, UlaTask, ComTask, RamMonAddress, RamTask,
         ExtTask, KbdTask, Run, Break, Loop, vars, oric
    <3> QED BY <3>1
  <2>2. /\ CpuTyped /\ LoopTyped /\ ActionTyped /\ Engine /\ Asking
        /\ clock = TRUE /\ cpu = "store" /\ loop.op = "write"
    BY <1>1, <2>1 DEF Sound, InType, StoreByte, CpuTyped
  <2>3. /\ loop.op = action_state /\ loop.addr = rw_addr /\ rw_addr = asked.addr + rw_pos
        /\ rw_pos < asked.len /\ asked.op = action_state
    BY <2>2, InTheLoop
  <2>4. a = loop.addr
    BY <2>1, <2>2 DEF StoreByte, CpuTyped
  <2>5. rw_pos \in Nat /\ asked.addr \in Nat /\ asked.len \in Nat
    BY <2>2 DEF ActionTyped
  <2> QED BY <2>2, <2>3, <2>4, <2>5
<1>2. Sound /\ [Next]_vars => [A]_vars
  BY <1>1
<1>3. OnlyAsked <=> [][A]_vars
  BY PTL DEF OnlyAsked
<1> HIDE DEF A
<1> QED BY <1>2, <1>3, SoundAlways, PTL DEF Spec

(***************************************************************************)
(* While the monitor carries out a command nobody else uses the engine:    *)
(* the echo of the line that asked for it has been flushed, and the screen *)
(* is not being cleared.                                                   *)
(***************************************************************************)
Draws(job) == job.do = "draw"
Clean(s, d) ==
  \/ d = FALSE /\ \A i \in DOMAIN s : ~Draws(s[i])
  \/ \E i \in DOMAIN s : /\ s[i].do \in {"newline", "flush"}
                         /\ \A j \in DOMAIN s : j > i => ~Draws(s[j])
Alone ==
  /\ ula_state # "IDLE" => jobs = <<>>
  /\ ula_state # "IDLE" /\ turn = "com" => MiaActive
  /\ driver = FALSE /\ main_state = "stopped" /\ ula_state = "IDLE" => dirty = FALSE
  /\ \A i \in DOMAIN jobs : jobs[i].do \in {"draw", "newline"} => driver = TRUE
  /\ \A i \in DOMAIN jobs : jobs[i].do \in {"read", "write"} =>
       Clean(jobs, dirty) /\ cmd_state = "IDLE" /\ prompted = FALSE /\ turn = "ram"
  /\ prompted = TRUE => cmd_state = "IDLE"
  /\ cmd_state # "IDLE" => /\ jobs = <<>> /\ dirty = FALSE /\ ula_state = "IDLE"
                           /\ turn \in {"ext", "events", "mia"} => MiaActive

LEMMA TailIs ==
  ASSUME NEW s \in Seq(Chores), s # <<>>
  PROVE  /\ Head(s) = s[1] /\ 1 \in DOMAIN s /\ Tail(s) \in Seq(Chores)
         /\ Len(s) \in Nat /\ DOMAIN s = 1 .. Len(s) /\ DOMAIN Tail(s) = 1 .. Len(s) - 1
         /\ \A i \in DOMAIN Tail(s) : Tail(s)[i] = s[i + 1] /\ i + 1 \in DOMAIN s
<1>1. /\ Tail(s) \in Seq(Chores) /\ Len(Tail(s)) = Len(s) - 1
      /\ \A i \in 1 .. Len(Tail(s)) : Tail(s)[i] = s[i + 1]
  BY HeadTailProperties
<1>2. Len(s) \in Nat \ {0} /\ Head(s) = s[1]
  BY EmptySeq
<1>3. DOMAIN s = 1 .. Len(s) /\ DOMAIN Tail(s) = 1 .. Len(s) - 1
  BY <1>1, LenProperties
<1> QED BY <1>1, <1>2, <1>3

LEMMA CleanTail ==
  ASSUME NEW s \in Seq(Chores), s # <<>>, NEW d, NEW e, Clean(s, d),
         ~Draws(s[1]) => e = FALSE \/ (e = d /\ s[1].do \notin {"newline", "flush"})
  PROVE  Clean(Tail(s), e)
<1>0. /\ 1 \in DOMAIN s /\ Len(s) \in Nat /\ DOMAIN s = 1 .. Len(s)
      /\ DOMAIN Tail(s) = 1 .. Len(s) - 1
      /\ \A i \in DOMAIN Tail(s) : Tail(s)[i] = s[i + 1] /\ i + 1 \in DOMAIN s
  BY TailIs
<1>1. CASE d = FALSE /\ \A i \in DOMAIN s : ~Draws(s[i])
  <2>1. e = FALSE
    BY <1>0, <1>1
  <2>2. \A i \in DOMAIN Tail(s) : ~Draws(Tail(s)[i])
    BY <1>0, <1>1
  <2> QED BY <2>1, <2>2 DEF Clean
<1>2. ASSUME NEW i \in DOMAIN s, s[i].do \in {"newline", "flush"},
             \A j \in DOMAIN s : j > i => ~Draws(s[j])
      PROVE  Clean(Tail(s), e)
  <2>1. CASE i = 1
    <3>1. ~Draws(s[1]) /\ e = FALSE
      BY <1>2, <2>1 DEF Draws
    <3>2. ASSUME NEW j \in DOMAIN Tail(s) PROVE ~Draws(Tail(s)[j])
      <4>1. j + 1 \in DOMAIN s /\ j + 1 > i /\ Tail(s)[j] = s[j + 1]
        BY <1>0, <2>1
      <4> QED BY <1>2, <4>1
    <3> QED BY <3>1, <3>2 DEF Clean
  <2>2. CASE i # 1
    <3>1. i - 1 \in DOMAIN Tail(s) /\ (i - 1) + 1 = i
      BY <1>0, <1>2, <2>2
    <3>2. Tail(s)[i - 1].do \in {"newline", "flush"}
      BY <1>0, <1>2, <3>1
    <3>3. ASSUME NEW j \in DOMAIN Tail(s), j > i - 1 PROVE ~Draws(Tail(s)[j])
      <4>1. j + 1 \in DOMAIN s /\ j + 1 > i /\ Tail(s)[j] = s[j + 1]
        BY <1>0, <3>3
      <4> QED BY <1>2, <4>1
    <3> QED BY <3>1, <3>2, <3>3 DEF Clean
  <2> QED BY <2>1, <2>2
<1> QED BY <1>1, <1>2 DEF Clean

LEMMA CleanFlush ==
  ASSUME NEW s \in Seq(Chores), NEW t \in Seq(Chores), s # <<>>, s[1].do = "flush",
         \A i \in DOMAIN s : ~Draws(s[i]), NEW c, Clean(t, c), NEW d
  PROVE  Clean(s \o t, d)
<1> DEFINE u == s \o t
<1>1. /\ Len(s) \in Nat /\ Len(t) \in Nat /\ Len(s) > 0
      /\ DOMAIN s = 1 .. Len(s) /\ DOMAIN t = 1 .. Len(t)
  BY LenProperties, EmptySeq
<1>2. /\ u \in Seq(Chores) /\ Len(u) = Len(s) + Len(t)
      /\ \A i \in 1 .. Len(s) + Len(t) : u[i] = IF i <= Len(s) THEN s[i] ELSE t[i - Len(s)]
  BY ConcatProperties
<1>3. DOMAIN u = 1 .. Len(s) + Len(t)
  BY <1>2, LenProperties
<1> HIDE DEF u
<1>4. CASE \A i \in DOMAIN t : ~Draws(t[i])
  <2>1. ASSUME NEW j \in DOMAIN u PROVE ~Draws(u[j])
    <3>1. CASE j <= Len(s)
      BY <1>1, <1>2, <1>3, <3>1
    <3>2. CASE j > Len(s)
      <4>1. u[j] = t[j - Len(s)] /\ j - Len(s) \in DOMAIN t
        BY <1>1, <1>2, <1>3, <2>1, <3>2
      <4> QED BY <1>4, <4>1
    <3> QED BY <1>1, <1>3, <2>1, <3>1, <3>2
  <2>2. 1 \in DOMAIN u /\ u[1].do = "flush"
    BY <1>1, <1>2, <1>3
  <2> QED BY <2>1, <2>2 DEF Clean, u
<1>5. ASSUME NEW i \in DOMAIN t, t[i].do \in {"newline", "flush"},
             \A j \in DOMAIN t : j > i => ~Draws(t[j])
      PROVE  Clean(s \o t, d)
  <2>1. /\ Len(s) + i \in DOMAIN u /\ ~(Len(s) + i <= Len(s)) /\ (Len(s) + i) - Len(s) = i
    BY <1>1, <1>3, <1>5
  <2>2. u[Len(s) + i].do \in {"newline", "flush"}
    BY <1>2, <1>3, <1>5, <2>1
  <2>3. ASSUME NEW j \in DOMAIN u, j > Len(s) + i PROVE ~Draws(u[j])
    <3>1. ~(j <= Len(s)) /\ j - Len(s) \in DOMAIN t /\ j - Len(s) > i
      BY <1>1, <1>3, <1>5, <2>3
    <3>2. u[j] = t[j - Len(s)]
      BY <1>2, <1>3, <2>3, <3>1
    <3> QED BY <1>5, <3>1, <3>2
  <2> QED BY <2>1, <2>2, <2>3 DEF Clean, u
<1> QED BY <1>4, <1>5 DEF Clean

LEMMA ScrollDrawsNothing ==
  \A i \in DOMAIN Scroll : Scroll[i].do \notin {"draw", "newline", "read", "write"}
<1>1. /\ Plain(Scroll) /\ Len(Scroll) \in Nat /\ Len(Scroll) >= 1
      /\ Scroll[Len(Scroll)].do = "home"
      /\ \A i \in 1 .. Len(Scroll) - 1 : Scrolls(Scroll[i])
  BY ScrollIs
<1>2. DOMAIN Scroll = 1 .. Len(Scroll)
  BY <1>1, LenProperties DEF Plain
<1>3. ASSUME NEW i \in DOMAIN Scroll
      PROVE  Scroll[i].do \notin {"draw", "newline", "read", "write"}
  <2>1. i = Len(Scroll) \/ i \in 1 .. Len(Scroll) - 1
    BY <1>1, <1>2, <1>3
  <2> QED BY <1>1, <2>1 DEF Scrolls
<1> QED BY <1>3

LEMMA JoinedFrom ==
  ASSUME NEW s \in Seq(Chores), NEW t \in Seq(Chores)
  PROVE  /\ s \o t \in Seq(Chores)
         /\ \A i \in DOMAIN (s \o t) : \/ \E k \in DOMAIN s : (s \o t)[i] = s[k]
                                       \/ \E k \in DOMAIN t : (s \o t)[i] = t[k]
<1> DEFINE u == s \o t
<1>1. /\ Len(s) \in Nat /\ Len(t) \in Nat /\ DOMAIN s = 1 .. Len(s) /\ DOMAIN t = 1 .. Len(t)
  BY LenProperties
<1>2. /\ u \in Seq(Chores) /\ Len(u) = Len(s) + Len(t)
      /\ \A i \in 1 .. Len(s) + Len(t) : u[i] = IF i <= Len(s) THEN s[i] ELSE t[i - Len(s)]
  BY ConcatProperties
<1>3. DOMAIN u = 1 .. Len(s) + Len(t)
  BY <1>2, LenProperties
<1> HIDE DEF u
<1>4. ASSUME NEW i \in DOMAIN u
      PROVE  (\E k \in DOMAIN s : u[i] = s[k]) \/ (\E k \in DOMAIN t : u[i] = t[k])
  <2>1. CASE i <= Len(s)
    BY <1>1, <1>2, <1>3, <2>1
  <2>2. CASE i > Len(s)
    <3>1. u[i] = t[i - Len(s)] /\ i - Len(s) \in DOMAIN t
      BY <1>1, <1>2, <1>3, <2>2
    <3> QED BY <3>1
  <2> QED BY <1>1, <1>3, <2>1, <2>2
<1> QED BY <1>2, <1>4 DEF u

Weighty(job) == job.do \in {"draw", "newline", "read", "write"}

LEMMA FewerChores ==
  ASSUME Sound, Alone, jobs # <<>>, dirty' \in BOOLEAN,
         UNCHANGED <<ula_state, driver, turn, main_state, cmd_state, prompted>>,
         \A i \in DOMAIN jobs' : Weighty(jobs'[i]) =>
            \E k \in DOMAIN jobs : jobs[k].do = jobs'[i].do,
         Clean(jobs, dirty) => Clean(jobs', dirty'),
         dirty' = TRUE => dirty = TRUE \/ driver = TRUE
  PROVE  Alone'
<1>1. ula_state = "IDLE" /\ cmd_state = "IDLE"
  BY DEF Alone
<1>2. driver' = FALSE /\ main_state' = "stopped" /\ ula_state' = "IDLE" => dirty' = FALSE
  BY <1>1, FlagsAre DEF Alone
<1>3. \A i \in DOMAIN jobs' : jobs'[i].do \in {"draw", "newline"} => driver' = TRUE
  BY DEF Alone, Weighty
<1>4. \A i \in DOMAIN jobs' : jobs'[i].do \in {"read", "write"} =>
        Clean(jobs', dirty') /\ cmd_state' = "IDLE" /\ prompted' = FALSE /\ turn' = "ram"
  BY DEF Alone, Weighty
<1> QED BY <1>1, <1>2, <1>3, <1>4 DEF Alone, Clean, Draws

LEMMA CharAlone ==
  ASSUME Sound, Alone, UlaChar
  PROVE  Alone'
<1>0. /\ jobs # <<>> /\ jobs \in Seq(Chores) /\ Tail(jobs) \in Seq(Chores) /\ Head(jobs) = jobs[1]
      /\ 1 \in DOMAIN jobs /\ dirty \in BOOLEAN /\ driver \in BOOLEAN
      /\ UNCHANGED <<ula_state, driver, turn, main_state, cmd_state, prompted>>
  BY HeadIs, FlagsAre DEF Sound, Queue, UlaChar, mon, kernel
<1>1. \A i \in DOMAIN Tail(jobs) : \E k \in DOMAIN jobs : jobs[k] = Tail(jobs)[i]
  BY <1>0, TailIs
<1> DEFINE flush == <<Job("flush", 0)>>
<1>2. /\ flush \in Seq(Chores) /\ flush # <<>> /\ flush[1].do = "flush"
      /\ \A i \in DOMAIN flush : flush[i].do = "flush"
  BY PlainChores, Constants
<1> HIDE DEF flush
<1>3. ASSUME jobs' = Tail(jobs), dirty' \in BOOLEAN,
             dirty' = TRUE => dirty = TRUE \/ driver = TRUE,
             Clean(jobs, dirty) => Clean(jobs', dirty')
      PROVE  Alone'
  <2>1. \A i \in DOMAIN jobs' : Weighty(jobs'[i]) =>
            \E k \in DOMAIN jobs : jobs[k].do = jobs'[i].do
    BY <1>1, <1>3
  <2> QED BY <1>0, <1>3, <2>1, FewerChores
<1>4. CASE Head(jobs).do = "draw" /\ jobs' = flush \o jobs /\ UNCHANGED <<line, dirty, cur_y>>
  <2>1. \A i \in DOMAIN jobs' : Weighty(jobs'[i]) =>
            \E k \in DOMAIN jobs : jobs[k].do = jobs'[i].do
    BY <1>0, <1>2, <1>4, JoinedFrom DEF Weighty
  <2>2. Clean(jobs, dirty) => Clean(jobs', dirty')
    BY <1>0, <1>2, <1>4, CleanFlush DEF Draws
  <2> QED BY <1>0, <1>4, <2>1, <2>2, FewerChores
<1>5. CASE Head(jobs).do = "draw" /\ dirty' = TRUE /\ jobs' = Tail(jobs)
  <2>1. dirty' \in BOOLEAN
    BY <1>5, Zenon
  <2>2. driver = TRUE
    BY <1>0, <1>5 DEF Alone
  <2>3. Clean(jobs, dirty) => Clean(jobs', dirty')
    BY <1>0, <1>5, CleanTail DEF Draws
  <2> QED BY <1>3, <1>5, <2>1, <2>2, <2>3
<1>6. CASE /\ Head(jobs).do = "newline"
           /\ jobs' = flush \o (IF cur_y + 1 >= Rows THEN Scroll ELSE <<>>) \o Tail(jobs)
           /\ UNCHANGED <<line, dirty>>
  <2> DEFINE s == flush \o (IF cur_y + 1 >= Rows THEN Scroll ELSE <<>>)
  <2>1. /\ s \in Seq(Chores) /\ s # <<>> /\ s[1].do = "flush"
        /\ \A i \in DOMAIN s : s[i].do \notin {"draw", "newline", "read", "write"}
    <3>1. CASE cur_y + 1 >= Rows
      <4>1. s = flush \o Scroll /\ Scroll \in Seq(Chores) /\ Plain(Scroll) /\ Plain(flush)
            /\ Len(flush) = 1
        BY <3>1, ScrollIs, FlushIsPlain DEF Plain, flush
      <4>2. \A i \in DOMAIN (flush \o Scroll) :
              \/ \E k \in DOMAIN flush : (flush \o Scroll)[i] = flush[k]
              \/ \E k \in DOMAIN Scroll : (flush \o Scroll)[i] = Scroll[k]
        BY <1>2, <4>1, JoinedFrom
      <4>3. \A i \in DOMAIN s : s[i].do \notin {"draw", "newline", "read", "write"}
        BY <1>2, <4>1, <4>2, ScrollDrawsNothing
      <4>4. /\ Plain(flush \o Scroll) /\ Len(flush \o Scroll) = Len(flush) + Len(Scroll)
            /\ \A i \in 1 .. Len(flush) : (flush \o Scroll)[i] = flush[i]
        BY <4>1, BothPlain, ZenonT(60)
      <4>5. s[1] = flush[1] /\ s \in Seq(Chores) /\ Len(s) = 1 + Len(Scroll) /\ Len(Scroll) \in Nat
        BY <4>1, <4>4, ScrollIs DEF Plain
      <4>6. s # <<>>
        BY <4>5
      <4> QED BY <1>2, <4>3, <4>5, <4>6
    <3>2. CASE ~(cur_y + 1 >= Rows)
      <4>1. s = flush
        BY <1>2, <3>2, ConcatEmptySeq
      <4> HIDE DEF s
      <4>2. \A i \in DOMAIN s : s[i].do = "flush"
        BY <1>2, <4>1
      <4> QED BY <1>2, <4>1, <4>2
    <3> QED BY <3>1, <3>2
  <2>2. jobs' = s \o Tail(jobs)
    BY <1>6
  <2> HIDE DEF s
  <2>3. \A i \in DOMAIN (s \o Tail(jobs)) :
           \/ \E k \in DOMAIN s : (s \o Tail(jobs))[i] = s[k]
           \/ \E k \in DOMAIN Tail(jobs) : (s \o Tail(jobs))[i] = Tail(jobs)[k]
    BY <1>0, <2>1, JoinedFrom
  <2>4. \A i \in DOMAIN jobs' : Weighty(jobs'[i]) =>
            \E k \in DOMAIN jobs : jobs[k].do = jobs'[i].do
    BY <1>1, <2>1, <2>2, <2>3 DEF Weighty
  <2>5. Clean(jobs, dirty) => Clean(Tail(jobs), FALSE)
    BY <1>0, <1>6, CleanTail DEF Draws
  <2>6. Clean(jobs, dirty) => Clean(jobs', dirty')
    BY <1>0, <2>1, <2>2, <2>5, CleanFlush DEF Draws
  <2> QED BY <1>0, <1>6, <2>4, <2>6, FewerChores
<1>7. CASE Head(jobs).do \in {"blank", "home"} /\ jobs' = Tail(jobs) /\ dirty' = dirty
  <2>1. Clean(jobs, dirty) => Clean(jobs', dirty')
    BY <1>0, <1>7, CleanTail DEF Draws
  <2> QED BY <1>0, <1>3, <1>7, <2>1
<1> QED BY <1>4, <1>5, <1>6, <1>7 DEF UlaChar, flush

LEMMA DoneAlone ==
  ASSUME Sound, Alone, UlaDone
  PROVE  Alone'
<1>0. /\ jobs # <<>> /\ Head(jobs).do \in {"flush", "put", "get"}
      /\ dirty \in BOOLEAN /\ jobs' = Tail(jobs)
      /\ UNCHANGED <<ula_state, driver, turn, main_state, cmd_state, prompted>>
  BY FlagsAre DEF Sound, Users, UlaDone, mon, kernel
<1>1. /\ jobs \in Seq(Chores) /\ Head(jobs) = jobs[1]
      /\ \A i \in DOMAIN Tail(jobs) : \E k \in DOMAIN jobs : jobs[k] = Tail(jobs)[i]
  BY <1>0, TailIs DEF Sound, Queue
<1>2. dirty' = (IF Head(jobs).do = "flush" THEN FALSE ELSE dirty)
  BY DEF UlaDone
<1>3. dirty' \in BOOLEAN
  BY <1>0, <1>2, Zenon
<1>4. Clean(jobs, dirty) => Clean(jobs', dirty')
  BY <1>0, <1>1, <1>2, CleanTail DEF Draws
<1>5. \A i \in DOMAIN jobs' : Weighty(jobs'[i]) =>
            \E k \in DOMAIN jobs : jobs[k].do = jobs'[i].do
  BY <1>0, <1>1
<1> QED BY <1>0, <1>2, <1>3, <1>4, <1>5, FewerChores

LEMMA SameAlone ==
  ASSUME Alone, turn' \in {"ext", "events", "mia"} => turn \in {"ext", "events", "mia"},
         turn' = "com" => turn = "com", turn = "ram" => turn' = "ram",
         cmd_state # "IDLE" \/ ula_state # "IDLE" => (MiaActive => MiaActive'),
         main_state' = "stopped" => main_state = "stopped",
         UNCHANGED <<jobs, dirty, driver, cmd_state, ula_state, prompted>>
  PROVE  Alone'
BY DEF Alone, Clean, Draws

LEMMA StartAlone ==
  ASSUME Sound, Alone, RamMonAddress
  PROVE  Alone'
<1>0. /\ jobs # <<>> /\ Head(jobs).do \in {"read", "write"} /\ jobs' = Tail(jobs)
      /\ UNCHANGED <<dirty, driver, ula_state, prompted, turn, main_state>>
  BY DEF RamMonAddress, kernel
<1>1. jobs' = <<>> /\ Len(jobs) = 1 /\ Head(jobs) = jobs[1] /\ DOMAIN jobs = {1}
  <2>1. DOMAIN jobs = 1 .. Len(jobs) /\ Head(jobs) = jobs[1]
    BY <1>0, HeadIs DEF Sound
  <2> QED BY <1>0, <2>1, CommandIsLast
<1>2. Clean(jobs, dirty) /\ prompted = FALSE /\ turn = "ram" /\ ula_state = "IDLE"
  BY <1>0, <1>1 DEF Alone
<1>3. dirty = FALSE
  BY <1>0, <1>1, <1>2 DEF Clean
<1> QED BY <1>0, <1>1, <1>2, <1>3 DEF Alone, Clean

LEMMA MonAlone ==
  ASSUME Sound, Alone, RamTask
  PROVE  Alone'
<1>0. /\ jobs = <<>> /\ turn = "ram" /\ turn' = "ext"
      /\ UNCHANGED <<dirty, driver, ula_state, prompted, main_state>>
      /\ driver \in BOOLEAN
  BY FlagsAre DEF RamTask, kernel, mon
<1>1. jobs' = <<>> \/ (jobs' = Text /\ cmd_state' = "IDLE" /\ cmd_state # "IDLE")
  BY <1>0 DEF RamTask
<1>2. cmd_state' # "IDLE" => cmd_state # "IDLE" /\ jobs' = <<>> /\ MiaActive'
  <2>1. CASE UNCHANGED <<oric, engine, mon, jobs>>
    BY <1>0, <2>1 DEF RamTask, engine, mon, MiaActive
  <2>2. CASE cmd_state' = "IDLE"
    BY <2>2
  <2>3. CASE /\ cmd_state = "WRITE" /\ UNCHANGED jobs
             /\ MiaRun("verify", cmd_addr, Len16(cmd_addr, mbuf_len), "mbuf", mbuf[0], vec, cpu)
    BY <1>0, <2>3 DEF MiaRun, MiaActive
  <2> QED BY <2>1, <2>2, <2>3 DEF RamTask
<1>3. \A i \in DOMAIN jobs' : jobs'[i].do \in {"draw", "newline"} /\ driver = TRUE
  <2>1. CASE jobs' = <<>>
    BY <2>1
  <2>2. CASE jobs' = Text
    BY <1>0, <2>2 DEF Text, Job
  <2> QED BY <1>1, <2>1, <2>2
<1>4. cmd_state # "IDLE" => ula_state = "IDLE" /\ dirty = FALSE
  BY DEF Alone
<1> QED BY <1>0, <1>1, <1>2, <1>3, <1>4 DEF Alone

LEMMA ScreenAlone ==
  ASSUME Sound, Alone, UlaTask
  PROVE  Alone'
<1>0. /\ turn = "ula" /\ turn' = "com" /\ jobs = <<>> /\ driver \in BOOLEAN /\ dirty \in BOOLEAN
      /\ UNCHANGED <<cmd_state, prompted, main_state, dirty>>
  BY FlagsAre DEF UlaTask, kernel, mon, ula
<1>1. CASE (MiaActive \/ (ula_state = "IDLE" /\ ~dirty)) /\ UNCHANGED <<oric, engine, ula>>
  BY <1>0, <1>1 DEF Alone, engine, ula, MiaActive
<1>2. CASE /\ ~MiaActive /\ ula_state = "IDLE" /\ dirty /\ jobs' = <<Job("flush", 0)>>
           /\ UNCHANGED <<driver, ula_state>>
  <2>1. cmd_state = "IDLE"
    BY <1>0, <1>2 DEF Alone
  <2>2. \A i \in DOMAIN jobs' : jobs'[i].do = "flush"
    BY <1>2 DEF Job
  <2> QED BY <1>0, <1>2, <2>1, <2>2 DEF Alone
<1>3. CASE /\ ula_state \in {"FONT", "CLR"} /\ ula_state' = "CLR"
           /\ MiaActive' /\ UNCHANGED <<driver, jobs>>
  BY <1>0, <1>3 DEF Alone
<1>4. CASE /\ ula_state = "CLR" /\ driver' = TRUE /\ ula_state' = "IDLE"
           /\ jobs' = <<Job("draw", 0)>>
  <2>1. cmd_state = "IDLE"
    BY <1>4 DEF Alone
  <2>2. \A i \in DOMAIN jobs' : jobs'[i].do = "draw"
    BY <1>4 DEF Job
  <2> QED BY <1>0, <1>4, <2>1, <2>2 DEF Alone
<1>5. ASSUME NEW op \in {"read", "write", "verify"}, NEW a, NEW n, NEW buf, NEW b, NEW v, NEW c,
             MiaRun(op, a, n, buf, b, v, c)
      PROVE  MiaActive'
  BY <1>5 DEF MiaRun, MiaActive
<1>6. CASE ~MiaActive /\ ula_state = "FONT" /\ ula_state' = "CLR"
           /\ MiaRun("write", Row(0), Cols, "ula", Blank, vec, cpu) /\ UNCHANGED <<driver, jobs>>
  BY <1>3, <1>5, <1>6
<1>7. CASE /\ ~MiaActive /\ ula_state = "CLR"
           /\ MiaRun("write", Row(cur_y + 1), Cols, "ula", line[0], vec, cpu)
           /\ UNCHANGED <<ula_state, driver, jobs>>
  BY <1>3, <1>5, <1>7
<1> QED BY <1>1, <1>2, <1>4, <1>6, <1>7 DEF UlaTask

LEMMA EnterAlone ==
  ASSUME Sound, Alone, ComTask, NEW job \in Chores, job.do \in {"read", "write"}, Enter(job),
         Boots \in {"never", "quiet"}
  PROVE  Alone'
<1>0. /\ turn = "com" /\ turn' = "ram" /\ prompted = TRUE /\ ~MiaActive /\ prompted' = FALSE
      /\ jobs' = Text \o <<job>> /\ driver \in BOOLEAN
      /\ UNCHANGED <<cmd_state, ula_state, driver, dirty, main_state>>
  BY FlagsAre DEF ComTask, Enter, kernel
<1>1. cmd_state = "IDLE" /\ ula_state = "IDLE"
  BY <1>0 DEF Alone
<1>2. main_state = "stopped"
  BY DEF Enter, Sound, Users
<1>3. CASE driver = TRUE
  <2> DEFINE a == Job("draw", 0)
             b == Job("newline", 0)
             t == <<a, b>>
             e == <<job>>
  <2>1. jobs' = t \o e
    BY <1>0, <1>3 DEF Text
  <2>2. b.do = "newline" /\ a \in Chores /\ b \in Chores
    BY PlainChores, Constants DEF Job
  <2> HIDE DEF a, b
  <2>3. /\ t \in Seq(Chores) /\ Len(t) = 2 /\ t[2] = b
        /\ e \in Seq(Chores) /\ Len(e) = 1 /\ e[1] = job
    BY <2>2
  <2> HIDE DEF t, e
  <2>4. /\ t \o e \in Seq(Chores) /\ Len(t \o e) = 3
        /\ \A i \in 1 .. 3 : (t \o e)[i] = IF i <= 2 THEN t[i] ELSE e[i - 2]
    BY <2>3, ConcatProperties
  <2>5. jobs'[2] = b /\ jobs'[3] = job /\ DOMAIN jobs' = 1 .. 3
    BY <2>1, <2>3, <2>4, LenProperties
  <2>6. Clean(jobs', dirty')
    <3>1. \A j \in DOMAIN jobs' : j > 2 => ~Draws(jobs'[j])
      BY <2>5 DEF Draws
    <3> QED BY <2>2, <2>5, <3>1 DEF Clean
  <2> QED BY <1>0, <1>1, <1>3, <2>6 DEF Alone
<1>4. CASE driver = FALSE
  <2>1. dirty = FALSE
    BY <1>1, <1>2, <1>4 DEF Alone
  <2>2. jobs' = <<job>>
    <3>1. jobs' = <<>> \o <<job>>
      BY <1>0, <1>4 DEF Text
    <3>2. <<job>> \in Seq(Chores)
      OBVIOUS
    <3> QED BY <3>1, <3>2, ConcatEmptySeq
  <2>3. \A i \in DOMAIN jobs' : jobs'[i].do \in {"read", "write"}
    BY <2>2
  <2>4. Clean(jobs', dirty')
    BY <1>0, <2>1, <2>3 DEF Clean, Draws
  <2> QED BY <1>0, <1>1, <2>1, <2>3, <2>4 DEF Alone, Clean, Draws
<1> QED BY <1>0, <1>3, <1>4

LEMMA LineAlone ==
  ASSUME Undisturbed, Sound, Alone, ComTask
  PROVE  Alone'
<1>0. /\ turn = "com" /\ turn' = "ram" /\ jobs = <<>> /\ driver \in BOOLEAN
      /\ needs_newline \in BOOLEAN
      /\ UNCHANGED <<cmd_state, ula_state, driver, dirty, main_state, action_state>>
  BY FlagsAre DEF ComTask, kernel, engine, Sound, InType, MonTyped
<1>1. ASSUME NEW job \in Chores, job.do \in {"read", "write"}, Enter(job) PROVE Alone'
  BY <1>1, EnterAlone DEF Undisturbed
<1>2. ASSUME NEW a \in CmdAddrs
      PROVE  [do |-> "read", row |-> a, len |-> MaxLen - (a % MaxLen)] \in Chores
  <2>1. a \in Nat /\ MaxLen \in Nat /\ MaxLen > 0
    BY Constants DEF Ram
  <2>2. MaxLen - (a % MaxLen) \in 1 .. MaxLen
    BY <2>1
  <2> QED BY <2>2 DEF Chores
<1>3. ASSUME NEW a \in CmdAddrs, NEW n \in CmdLens
      PROVE  [do |-> "write", row |-> a, len |-> n] \in Chores
  BY Constants DEF Chores
<1>4. CASE Prompt
  <2>1. cmd_state = "IDLE" /\ (jobs' # <<>> => driver = TRUE)
    BY <1>0, <1>4 DEF Prompt
  <2>2. \A i \in DOMAIN jobs' : jobs'[i].do \in {"draw", "newline"}
    <3>0. Job("newline", 0) \in Chores /\ Job("draw", 0) \in Chores
          /\ Job("newline", 0).do = "newline" /\ Job("draw", 0).do = "draw"
      BY PlainChores, Constants
    <3>1. CASE driver = TRUE /\ needs_newline = TRUE
      <4> DEFINE a == Job("newline", 0)
                 b == Job("draw", 0)
      <4>1. jobs' = <<a>> \o <<b>>
        BY <1>4, <3>1 DEF Prompt
      <4>2. a \in Chores /\ b \in Chores /\ a.do = "newline" /\ b.do = "draw"
        BY <3>0
      <4> HIDE DEF a, b
      <4> DEFINE t == <<a>>
                 e == <<b>>
      <4>3. t \in Seq(Chores) /\ DOMAIN t = {1} /\ t[1] = a
        BY <4>2
      <4>6. e \in Seq(Chores) /\ DOMAIN e = {1} /\ e[1] = b
        BY <4>2
      <4>4. jobs' = t \o e
        BY <4>1
      <4> HIDE DEF t, e
      <4>5. \A i \in DOMAIN (t \o e) : \/ \E k \in DOMAIN t : (t \o e)[i] = t[k]
                                      \/ \E k \in DOMAIN e : (t \o e)[i] = e[k]
        BY <4>3, <4>6, JoinedFrom
      <4> QED BY <4>2, <4>3, <4>4, <4>5, <4>6
    <3>2. CASE driver = TRUE /\ needs_newline = FALSE
      <4>1. jobs' = <<>> \o <<Job("draw", 0)>>
        BY <1>4, <3>2 DEF Prompt
      <4>2. jobs' = <<Job("draw", 0)>>
        BY <3>0, <4>1, ConcatEmptySeq
      <4> QED BY <3>0, <4>2
    <3>3. CASE driver = FALSE
      BY <1>4, <3>3 DEF Prompt
    <3> QED BY <1>0, <3>1, <3>2, <3>3
  <2>3. ula_state # "IDLE" => jobs' = <<>>
    BY <1>0, <2>1 DEF Sound, Users
  <2> QED BY <1>0, <1>4, <2>1, <2>2, <2>3 DEF Alone
<1>5. CASE UNCHANGED <<prompted, needs_newline, reply, jobs>>
  BY <1>0, <1>5 DEF Alone
<1> QED BY <1>1, <1>2, <1>3, <1>4, <1>5 DEF ComTask

LEMMA AloneKept == Undisturbed /\ Sound /\ Alone /\ [Next]_vars => Alone'
<1> SUFFICES ASSUME Undisturbed, Sound, Alone, [Next]_vars PROVE Alone'
  OBVIOUS
<1>1. CASE Cpu
  <2>1. /\ UNCHANGED <<turn, main_state, jobs, dirty, driver, cmd_state, ula_state, prompted>>
        /\ UNCHANGED action_state
    BY <1>1 DEF Cpu, Load, StoreByte, TakeByte, CompareByte, Unpark, Trap, CountByte, engine, mon,
       kernel, ula
  <2> QED BY <2>1, SameAlone DEF MiaActive
<1>2. CASE SwitchOff \/ Expire \/ KbdTask \/ UNCHANGED vars
  <2>1. /\ UNCHANGED <<turn, main_state, jobs, dirty, driver, cmd_state, ula_state, prompted>>
        /\ UNCHANGED action_state
    BY <1>2 DEF SwitchOff, Expire, KbdTask, engine, mon, kernel, ula, vars
  <2> QED BY <2>1, SameAlone DEF MiaActive
<1>3. CASE Loop
  <2>1. /\ UNCHANGED <<main_state, jobs, dirty, driver, cmd_state, ula_state, prompted, action_state>>
        /\ turn = "events" /\ turn' = "mia"
    BY <1>3 DEF Loop, engine, mon, kernel, ula
  <2> QED BY <2>1, SameAlone DEF MiaActive
<1>4. CASE UlaStart
  <2>1. UNCHANGED <<turn, main_state, jobs, dirty, driver, cmd_state, ula_state, prompted>>
    BY <1>4 DEF UlaStart, mon, kernel
  <2>2. MiaActive'
    BY <1>4 DEF UlaStart, MiaRun, MiaActive
  <2> QED BY <2>1, <2>2, SameAlone
<1>5. CASE MiaMainTask
  <2>1. UNCHANGED <<main_state, jobs, dirty, driver, cmd_state, ula_state, prompted>>
    BY <1>5 DEF MiaMainTask, mon, kernel, ula
  <2>2. CASE waiting = TRUE
    <3>1. jobs # <<>> /\ turn' = turn
      BY <1>5, <2>2 DEF MiaMainTask, Sound, Users
    <3>2. cmd_state = "IDLE" /\ ula_state = "IDLE"
      BY <3>1 DEF Alone
    <3> QED BY <2>1, <3>1, <3>2, SameAlone
  <2>3. CASE waiting = FALSE
    <3>1. jobs = <<>> /\ turn' = "ula"
      BY <1>5, <2>3 DEF MiaMainTask
    <3> QED BY <2>1, <3>1 DEF Alone
  <2> QED BY <2>2, <2>3, FlagsAre DEF Sound, InType, UlaTyped
<1>6. CASE ExtTask
  <2>1. /\ UNCHANGED <<jobs, dirty, driver, cmd_state, ula_state, prompted, action_state>>
        /\ turn = "ext" /\ turn' = "events" /\ (main_state' = "stopped" => main_state = "stopped")
    BY <1>6 DEF ExtTask, engine, mon, ula
  <2> QED BY <2>1, SameAlone DEF MiaActive
<1>7. CASE Run
  <2>1. /\ UNCHANGED <<jobs, dirty, cmd_state, ula_state, prompted>>
        /\ turn = "events" /\ turn' = "mia" /\ main_state = "starting" /\ main_state' = "running"
    BY <1>7 DEF Run, mon
  <2>2. jobs = <<>> /\ ~MiaActive
    BY <2>1 DEF Sound, Users
  <2>3. cmd_state = "IDLE"
    BY <2>1, <2>2 DEF Alone
  <2> QED BY <2>1, <2>2, <2>3 DEF Alone
<1>8. CASE Break
  <2>1. /\ cmd_state' = "IDLE" /\ ula_state' = "FONT" /\ prompted' = FALSE /\ turn' = "mia"
        /\ turn = "events" /\ jobs' = jobs
    BY <1>8 DEF Break
  <2>2. jobs = <<>>
    BY <2>1 DEF Sound, Users
  <2> QED BY <2>1, <2>2 DEF Alone
<1>9. CASE UlaChar \/ UlaDone \/ UlaTask \/ RamMonAddress \/ RamTask \/ ComTask
  BY <1>9, CharAlone, DoneAlone, ScreenAlone, StartAlone, MonAlone, LineAlone
<1> QED
  BY <1>1, <1>2, <1>3, <1>4, <1>5, <1>6, <1>7, <1>8, <1>9 DEF Next, Core0

(***************************************************************************)
(* What the 6502 holds is the byte for the address it is about to reach.   *)
(***************************************************************************)
Loaded ==
  /\ clock = TRUE /\ cpu = "store" =>
       areg = IF action_state = "write" THEN loop.imm ELSE ram[rw_addr]
  /\ Goes /\ action_state = "write" /\ buffer = "mbuf" => loop.imm = Bytes(rw_pos)

LEMMA SameLoaded ==
  ASSUME Loaded, clock' = TRUE => clock = TRUE, cpu' = "store" => cpu = "store",
         UNCHANGED <<areg, ram, loop, rw_addr, rw_pos, stop_requested, action_state, buffer, mbuf>>
  PROVE  Loaded'
<1>1. Goes' <=> Goes
  BY DEF Goes, MiaActive
<1>2. buffer = "mbuf" => Bytes(rw_pos)' = Bytes(rw_pos)
  BY DEF Bytes
<1> QED BY <1>1, <1>2 DEF Loaded

LEMMA RunLoads ==
  ASSUME Sound, ~MiaActive, NEW op, NEW a, NEW n, NEW buf, NEW b, NEW v,
         NEW c, c = "reset" \/ c = cpu, MiaRun(op, a, n, buf, b, v, c), UNCHANGED clock,
         op = "write" /\ buf = "mbuf" => 0 \in DOMAIN mbuf' /\ b = mbuf'[0]
  PROVE  Loaded'
<1>1. clock = TRUE => cpu # "store"
  BY DEF Sound, Engine, Goes
<1>2. clock' = TRUE => cpu' # "store"
  BY <1>1 DEF MiaRun
<1>3. /\ action_state' = op /\ buffer' = buf /\ rw_pos' = 0
      /\ loop' = [op |-> op, addr |-> a, imm |-> b, branch |-> "loop"]
  BY DEF MiaRun
<1>4. op = "write" /\ buf = "mbuf" => Bytes(rw_pos)' = b
  BY <1>3 DEF Bytes
<1>5. loop'.imm = b
  BY <1>3
<1> QED BY <1>2, <1>3, <1>4, <1>5 DEF Loaded

LEMMA CountLoads ==
  ASSUME Sound, clock = TRUE, cpu = "store", NEW r, CountByte(r),
         action_state = "write" => UNCHANGED <<mbuf, line>>
  PROVE  Loaded'
<1>1. /\ rw_pos' = rw_pos + 1 /\ UNCHANGED <<action_state, buffer>> /\ cpu' # "store"
      /\ \/ stop_requested' = TRUE
         \/ loop' = [loop EXCEPT !.addr = rw_addr + 1,
                        !.imm = IF loop.op = "write" THEN Bytes(rw_pos + 1) ELSE @]
  BY DEF CountByte
<1>2. loop.op = action_state /\ loop \in [op : {"read", "write", "verify"}, addr : Ram, imm : Byte,
               branch : {"loop", "self"}]
  BY InTheLoop DEF Sound, InType, LoopTyped
<1>3. ASSUME Goes', action_state' = "write", buffer' = "mbuf"
      PROVE  loop'.imm = Bytes(rw_pos)'
  <2>1. loop' = [loop EXCEPT !.addr = rw_addr + 1,
                        !.imm = IF loop.op = "write" THEN Bytes(rw_pos + 1) ELSE @]
    BY <1>1, <1>3 DEF Goes
  <2>2. loop'.imm = Bytes(rw_pos + 1)
    BY <1>1, <1>2, <1>3, <2>1
  <2>3. Bytes(rw_pos)' = Bytes(rw_pos + 1)
    BY <1>1, <1>3 DEF Bytes
  <2> QED BY <2>2, <2>3
<1> QED BY <1>1, <1>3 DEF Loaded

LEMMA CpuLoads ==
  ASSUME Sound, Loaded, Cpu
  PROVE  Loaded'
<1>1. CASE Load
  <2>1. /\ clock = TRUE /\ cpu = "load" /\ UNCHANGED <<ram, clock, engine, mon>>
        /\ areg' = (IF loop.op = "write" THEN loop.imm ELSE ram[loop.addr])
    BY <1>1 DEF Load, Sound, InType, CpuTyped
  <2>2. loop.op = action_state /\ loop.addr = rw_addr
    BY <2>1, InTheLoop DEF Sound, InType
  <2>3. Bytes(rw_pos)' = Bytes(rw_pos) \/ buffer # "mbuf"
    BY <2>1 DEF Bytes, engine, mon
  <2> QED BY <2>1, <2>2, <2>3 DEF Loaded, Goes, MiaActive, engine
<1>2. CASE StoreByte
  <2>1. clock = TRUE /\ cpu = "store" /\ loop.op = "write" /\ UNCHANGED <<mbuf, line>>
    BY <1>2 DEF StoreByte, Sound, InType, CpuTyped, mon, ula
  <2>2. action_state = "write"
    BY <2>1, InTheLoop DEF Sound, InType
  <2>3. CountByte(action_result)
    BY <1>2, <2>2 DEF StoreByte
  <2> QED BY <2>1, <2>3, CountLoads
<1>3. CASE TakeByte \/ CompareByte
  <2>1. clock = TRUE /\ cpu = "store" /\ loop.op # "write"
    BY <1>3 DEF TakeByte, CompareByte, Sound, InType, CpuTyped
  <2>2. action_state # "write"
    BY <2>1, InTheLoop DEF Sound, InType
  <2>3. CountByte(action_result) \/ CountByte(Found)
    BY <1>3 DEF TakeByte, CompareByte
  <2> QED BY <2>1, <2>2, <2>3, CountLoads
<1>4. CASE Unpark \/ Trap
  <2>1. cpu' # "store" /\ UNCHANGED <<clock, areg, ram, engine, mon>>
    BY <1>4 DEF Unpark, Trap
  <2> QED BY <2>1, SameLoaded DEF engine, mon
<1> QED BY <1>1, <1>2, <1>3, <1>4 DEF Cpu

LEMMA LoadedKept == Undisturbed /\ Sound /\ Loaded /\ [Next]_vars => Loaded'
<1> SUFFICES ASSUME Undisturbed, Sound, Loaded, [Next]_vars PROVE Loaded'
  OBVIOUS
<1>1. CASE SwitchOff \/ Expire \/ KbdTask \/ UNCHANGED vars \/ Loop \/ UlaChar \/ UlaDone \/ ComTask
  <2>1. clock' = TRUE => clock = TRUE
    BY <1>1 DEF SwitchOff, Expire, KbdTask, vars, Loop, UlaChar, UlaDone, ComTask, oric
  <2>2. UNCHANGED <<areg, ram, loop, rw_addr, rw_pos, stop_requested, action_state, buffer, mbuf, cpu>>
    BY <1>1 DEF SwitchOff, Expire, KbdTask, vars, Loop, UlaChar, UlaDone, ComTask, oric, engine, mon
  <2> QED BY <2>1, <2>2, SameLoaded
<1>2. CASE MiaMainTask
  <2>0. UNCHANGED <<clock, areg, ram, loop, rw_addr, rw_pos, buffer, mbuf>>
    BY <1>2 DEF MiaMainTask, mon
  <2>1. CASE UNCHANGED <<action_state, cpu, stop_requested>>
    BY <2>0, <2>1, SameLoaded
  <2>2. CASE MiaStop
    <3>1. clock = TRUE => cpu # "store"
      <4>1. stop_requested = TRUE \/ clock = FALSE \/ UNCHANGED <<action_state, cpu, stop_requested>>
        <5>1. WatchdogDue => clock = FALSE
          BY FlagsAre DEF WatchdogDue, Sound, Engine
        <5> QED BY <1>2, <5>1 DEF MiaMainTask
      <4> QED BY <2>2, <4>1 DEF Sound, Engine, Goes, MiaStop, MiaActive
    <3>2. cpu' # "store" \/ clock' # TRUE
      BY <2>0, <2>2, <3>1 DEF MiaStop
    <3>3. ~Goes'
      BY <2>2 DEF MiaStop, Goes, MiaActive
    <3> QED BY <3>2, <3>3 DEF Loaded
  <2> QED BY <1>2, <2>1, <2>2 DEF MiaMainTask
<1>3. CASE UlaStart
  <2>1. ~MiaActive /\ UNCHANGED clock
    BY <1>3, UlaStartIsSound DEF UlaStart
  <2> QED BY <1>3, <2>1, RunLoads DEF UlaStart
<1>4. CASE UlaTask
  <2>1. CASE UNCHANGED <<oric, engine>>
    BY <1>4, <2>1, SameLoaded DEF UlaTask, oric, engine, mon
  <2>2. CASE ~MiaActive /\ UNCHANGED clock /\ MiaRun("write", Row(0), Cols, "ula", Blank, vec, cpu)
    BY <2>2, RunLoads
  <2>3. CASE ~MiaActive /\ UNCHANGED clock
             /\ MiaRun("write", Row(cur_y + 1), Cols, "ula", line[0], vec, cpu)
    BY <2>3, RunLoads
  <2> QED BY <1>4, <2>1, <2>2, <2>3 DEF UlaTask
<1>5. CASE RamMonAddress
  <2>1. ~MiaActive /\ MonTyped' /\ UNCHANGED clock
    BY <1>5, CommandIsSound DEF RamMonAddress
  <2>2. 0 \in DOMAIN mbuf'
    BY <2>1, Constants DEF MonTyped
  <2> QED BY <1>5, <2>1, <2>2, RunLoads DEF RamMonAddress
<1>6. CASE RamTask
  <2>1. CASE UNCHANGED <<oric, engine, mbuf>>
    BY <2>1, SameLoaded DEF oric, engine
  <2>2. CASE /\ ~MiaActive /\ UNCHANGED clock
             /\ MiaRun("verify", cmd_addr, Len16(cmd_addr, mbuf_len), "mbuf", mbuf[0], vec, cpu)
    BY <2>2, RunLoads
  <2> QED BY <1>6, <2>1, <2>2 DEF RamTask, mon
<1>7. CASE ExtTask
  <2>1. /\ UNCHANGED <<clock, areg, ram, engine, mon>>
        /\ cpu' = "reset" \/ cpu' = cpu
    BY <1>7 DEF ExtTask
  <2> QED BY <2>1, SameLoaded DEF engine, mon
<1>8. CASE Run
  <2>1. ~MiaActive
    BY <1>8 DEF Run, Sound, Users
  <2>2. cpu' = "app" /\ ~Goes'
    BY <1>8, <2>1 DEF Run, Goes, MiaActive
  <2> QED BY <2>2 DEF Loaded
<1>9. CASE Break
  <2> DEFINE running == main_state = "running"
             v == IF running THEN Vectors(vec) ELSE vec
             c == IF running THEN "reset" ELSE cpu
  <2>1. MiaRun("write", Font, 1, "mbuf", FontByte, v, c) /\ UNCHANGED clock
    BY <1>9 DEF Break
  <2>2. ~MiaActive
    BY <1>9 DEF Break, Sound, Users, InType, KernelTyped
  <2>3. 0 \in DOMAIN mbuf' /\ mbuf'[0] = FontByte
    <3>1. mbuf \in [0 .. MaxLen - 1 -> Byte] /\ mbuf' = [mbuf EXCEPT ![0] = FontByte]
      BY <1>9 DEF Break, Sound, InType, MonTyped
    <3> QED BY <3>1, Constants
  <2>4. c = "reset" \/ c = cpu
    OBVIOUS
  <2> HIDE DEF v, c
  <2> QED BY <2>1, <2>2, <2>3, <2>4, RunLoads
<1> QED
  BY <1>1, <1>2, <1>3, <1>4, <1>5, <1>6, <1>7, <1>8, <1>9, CpuLoads DEF Next, Core0

(***************************************************************************)
(* The command in progress: what the engine was asked to do for it, and    *)
(* what has been moved so far.                                             *)
(***************************************************************************)
Asks == CASE cmd_state = "READ"  -> "read"
          [] cmd_state = "WRITE" -> "write"
          [] OTHER               -> "verify"
TheCommand ==
  /\ buffer = "mbuf" /\ mbuf_len \in 1 .. MaxLen
  /\ asked.addr = cmd_addr /\ asked.len = Len16(cmd_addr, mbuf_len) /\ asked.op = Asks
  /\ rw_end = asked.len
  /\ ~MiaActive => action_result = -3 \/ rw_pos = rw_end
AsTyped == \A i \in 0 .. mbuf_len - 1 : mbuf[i] = Typed(i)
Moved ==
  /\ cmd_state = "READ"   => \A i \in 0 .. rw_pos - 1 : ram[cmd_addr + i] = mbuf[i]
  /\ cmd_state # "READ"   => AsTyped
  /\ cmd_state = "WRITE"  => \A i \in 0 .. rw_pos - 1 : ram[cmd_addr + i] = Typed(i)
  /\ cmd_state = "VERIFY" => \A i \in Reached : ram[cmd_addr + i] = Typed(i)
InHand == cmd_state # "IDLE" => TheCommand /\ Moved

LEMMA SameInHand ==
  ASSUME InHand, ~MiaActive' => ~MiaActive,
         UNCHANGED <<ram, buffer, asked, rw_pos, rw_end, action_result, mbuf, mbuf_len, cmd_state,
                     cmd_addr>>
  PROVE  InHand'
BY DEF InHand, TheCommand, Moved, Asks, AsTyped, Reached

(* The 6502 moves the bytes in turn.                                       *)
LEMMA InTurn ==
  ASSUME Sound, InHand, cmd_state # "IDLE", clock = TRUE, cpu = "store"
  PROVE  /\ loop.op = Asks /\ action_state = Asks /\ rw_addr = cmd_addr + rw_pos
         /\ loop.addr = rw_addr /\ Goes /\ rw_pos \in Nat /\ rw_pos < rw_end
         /\ rw_end = Len16(cmd_addr, mbuf_len) /\ rw_end <= mbuf_len /\ mbuf_len <= MaxLen
         /\ rw_pos \in 0 .. MaxLen - 1 /\ rw_pos \in 0 .. mbuf_len - 1
         /\ rw_addr \in Ram /\ cmd_addr \in Ram /\ mbuf_len \in Nat /\ MaxLen \in Nat
<1>1. TheCommand
  BY DEF InHand
<1>2. /\ Goes /\ loop.op = action_state /\ loop.addr = rw_addr /\ asked.op = action_state
      /\ rw_addr = asked.addr + rw_pos /\ rw_pos < rw_end
  BY InTheLoop DEF Sound, InType
<1>3. rw_pos \in Nat /\ rw_end \in Nat /\ rw_addr \in Ram /\ cmd_addr \in Ram /\ mbuf_len \in 1 .. MaxLen
  BY <1>1 DEF TheCommand, Sound, InType, ActionTyped, MonTyped
<1>4. rw_end <= mbuf_len
  BY <1>1, <1>3, CutFits DEF TheCommand
<1>5. rw_pos \in 0 .. MaxLen - 1 /\ rw_pos \in 0 .. mbuf_len - 1 /\ mbuf_len <= MaxLen
  BY <1>2, <1>3, <1>4, Constants
<1> QED BY <1>1, <1>2, <1>3, <1>4, <1>5, Constants DEF TheCommand

LEMMA CountsInHand ==
  ASSUME TheCommand, MiaActive, NEW r, CountByte(r), UNCHANGED <<mbuf_len, cmd_state, cmd_addr>>
  PROVE  TheCommand' /\ rw_pos' = rw_pos + 1
BY DEF TheCommand, CountByte, Asks, MiaActive

LEMMA StoreInHand ==
  ASSUME Sound, Loaded, InHand, StoreByte, Fixed = {}
  PROVE  InHand'
<1>0. SUFFICES ASSUME cmd_state # "IDLE" PROVE InHand'
  BY DEF StoreByte, InHand, mon
<1>1. /\ clock = TRUE /\ cpu = "store" /\ loop.op = "write" /\ TheCommand /\ Moved
      /\ UNCHANGED <<mbuf, mbuf_len, cmd_state, cmd_addr>>
  BY <1>0 DEF StoreByte, InHand, mon, Sound, InType, CpuTyped
<1>2. /\ action_state = "write" /\ Asks = "write" /\ rw_addr = cmd_addr + rw_pos
      /\ loop.addr = rw_addr /\ Goes /\ rw_pos \in Nat /\ rw_pos \in 0 .. mbuf_len - 1
      /\ rw_pos \in 0 .. MaxLen - 1 /\ rw_addr \in Ram /\ cmd_addr \in Nat
  BY <1>0, <1>1, InTurn DEF Ram
<1>3. cmd_state = "WRITE"
  BY <1>0, <1>2 DEF Asks, Sound, InType, MonTyped
<1>4. areg = Typed(rw_pos)
  <2>1. areg = loop.imm /\ loop.imm = Bytes(rw_pos)
    BY <1>1, <1>2 DEF Loaded, TheCommand
  <2>2. Bytes(rw_pos) = mbuf[rw_pos]
    BY <1>1, <1>2 DEF Bytes, TheCommand, Sound, InType, MonTyped
  <2>3. mbuf[rw_pos] = Typed(rw_pos)
    BY <1>1, <1>2, <1>3 DEF Moved, AsTyped
  <2> QED BY <2>1, <2>2, <2>3
<1>5. TheCommand' /\ rw_pos' = rw_pos + 1
  <2>1. CountByte(action_result) /\ MiaActive
    BY <1>2 DEF StoreByte, Goes
  <2> QED BY <1>1, <2>1, CountsInHand
<1>6. ram \in [Ram -> Byte] /\ ram' = [ram EXCEPT ![cmd_addr + rw_pos] = Typed(rw_pos)]
  BY <1>2, <1>4 DEF StoreByte, Sound, InType, CpuTyped
<1>7. ASSUME NEW i \in 0 .. rw_pos' - 1 PROVE ram'[cmd_addr + i] = Typed(i)
  <2>1. CASE i = rw_pos
    BY <1>2, <1>6, <2>1
  <2>2. CASE i # rw_pos
    <3>1. i \in 0 .. rw_pos - 1 /\ cmd_addr + i # cmd_addr + rw_pos
      BY <1>2, <1>5, <1>7, <2>2
    <3>2. ram[cmd_addr + i] = Typed(i)
      BY <1>1, <1>3, <3>1 DEF Moved
    <3>3. cmd_addr + i \in Ram
      BY <1>2, <3>1, Constants DEF Ram
    <3> QED BY <1>6, <3>1, <3>2, <3>3
  <2> QED BY <2>1, <2>2
<1>8. Moved'
  BY <1>1, <1>3, <1>7 DEF Moved, AsTyped
<1> QED BY <1>5, <1>8 DEF InHand

LEMMA TakeInHand ==
  ASSUME Sound, Loaded, InHand, TakeByte
  PROVE  InHand'
<1>0. SUFFICES ASSUME cmd_state # "IDLE" PROVE InHand'
  BY DEF TakeByte, InHand
<1>1. /\ clock = TRUE /\ cpu = "store" /\ loop.op = "read" /\ TheCommand /\ Moved
      /\ UNCHANGED <<ram, mbuf_len, cmd_state, cmd_addr>> /\ CountByte(action_result)
      /\ buffer = "mbuf" /\ mbuf' = [mbuf EXCEPT ![rw_pos] = areg]
  BY <1>0 DEF TakeByte, InHand, Sound, InType, CpuTyped, TheCommand
<1>2. /\ action_state = "read" /\ Asks = "read" /\ rw_addr = cmd_addr + rw_pos
      /\ Goes /\ rw_pos \in Nat /\ rw_pos \in 0 .. MaxLen - 1
  BY <1>0, <1>1, InTurn
<1>3. cmd_state = "READ"
  BY <1>2 DEF Asks
<1>4. areg = ram[cmd_addr + rw_pos]
  BY <1>1, <1>2 DEF Loaded
<1>5. TheCommand' /\ rw_pos' = rw_pos + 1
  BY <1>1, <1>2, CountsInHand DEF Goes
<1>6. mbuf \in [0 .. MaxLen - 1 -> Byte]
  BY DEF Sound, InType, MonTyped
<1>7. ASSUME NEW i \in 0 .. rw_pos' - 1 PROVE ram[cmd_addr + i] = mbuf'[i]
  <2>1. CASE i = rw_pos
    BY <1>1, <1>2, <1>4, <1>6, <2>1
  <2>2. CASE i # rw_pos
    <3>1. i \in 0 .. rw_pos - 1 /\ i \in 0 .. MaxLen - 1
      BY <1>2, <1>5, <1>7, <2>2, Constants
    <3>2. ram[cmd_addr + i] = mbuf[i]
      BY <1>1, <1>3, <3>1 DEF Moved
    <3> QED BY <1>1, <1>6, <2>2, <3>1, <3>2
  <2> QED BY <2>1, <2>2
<1>8. Moved'
  BY <1>1, <1>3, <1>7 DEF Moved
<1> QED BY <1>5, <1>8 DEF InHand

LEMMA CompareInHand ==
  ASSUME Sound, InHand, CompareByte
  PROVE  InHand'
<1>0. SUFFICES ASSUME cmd_state # "IDLE" PROVE InHand'
  BY DEF CompareByte, InHand, mon
<1>1. /\ clock = TRUE /\ cpu = "store" /\ loop.op = "verify" /\ TheCommand /\ Moved
      /\ UNCHANGED <<ram, mbuf, mbuf_len, cmd_state, cmd_addr>> /\ CountByte(Found)
  BY <1>0 DEF CompareByte, InHand, Sound, InType, CpuTyped, mon
<1>2. Asks = "verify" /\ Goes
  BY <1>0, <1>1, InTurn
<1>3. TheCommand'
  BY <1>1, <1>2, CountsInHand DEF Goes
<1>4. cmd_state # "READ" /\ cmd_state # "WRITE"
  BY <1>2 DEF Asks
<1>5. Moved'
  BY <1>1, <1>4 DEF Moved, AsTyped, Reached
<1> QED BY <1>3, <1>5 DEF InHand

LEMMA StartInHand ==
  ASSUME Sound, RamMonAddress
  PROVE  InHand'
<1> DEFINE job == Head(jobs)
           n == Len16(job.row, job.len)
<1>1. job \in Chores /\ job.do \in {"read", "write"}
  BY HeadIs DEF Sound, RamMonAddress
<1>2. job.row \in Ram /\ job.len \in 1 .. MaxLen
  BY <1>1, ChoreIs
<1>3. /\ MiaRun(job.do, job.row, n, "mbuf", mbuf'[0], vec, cpu)
      /\ cmd_addr' = job.row /\ mbuf_len' = job.len /\ ram' = ram
      /\ cmd_state' = (IF job.do = "read" THEN "READ" ELSE "WRITE")
      /\ mbuf' = (IF job.do = "read" THEN mbuf
                  ELSE [i \in DOMAIN mbuf |-> IF i < job.len THEN Typed(i) ELSE mbuf[i]])
  BY DEF RamMonAddress
<1>4. n = Len16(cmd_addr, mbuf_len)'
  BY <1>3 DEF Len16
<1> HIDE DEF job, n
<1>5. /\ action_state' = job.do /\ rw_end' = n /\ rw_pos' = 0 /\ buffer' = "mbuf"
      /\ asked' = [op |-> job.do, addr |-> job.row, len |-> n]
  BY <1>3 DEF MiaRun
<1>6. Asks' = job.do
  BY <1>1, <1>3 DEF Asks
<1>7. MiaActive'
  BY <1>1, <1>5 DEF MiaActive
<1>8. TheCommand'
  <2>1. asked'.op = job.do /\ asked'.addr = job.row /\ asked'.len = n
    BY <1>5
  <2> QED BY <1>2, <1>3, <1>4, <1>5, <1>6, <1>7, <2>1 DEF TheCommand
<1>9. AsTyped' \/ cmd_state' = "READ"
  <2>1. CASE job.do = "write"
    <3>1. mbuf' = [i \in DOMAIN mbuf |-> IF i < job.len THEN Typed(i) ELSE mbuf[i]]
      BY <1>3, <2>1
    <3>2. DOMAIN mbuf = 0 .. MaxLen - 1
      BY DEF Sound, InType, MonTyped
    <3>3. ASSUME NEW i \in 0 .. mbuf_len' - 1 PROVE mbuf'[i] = Typed(i)
      BY <1>2, <1>3, <3>1, <3>2, <3>3, Constants, SMTT(60)
    <3> QED BY <3>3 DEF AsTyped
  <2> QED BY <1>1, <1>3, <2>1
<1>10. Moved'
  BY <1>3, <1>5, <1>9 DEF Moved
<1> QED BY <1>8, <1>10 DEF InHand

(* A command that has not failed has moved every byte.                     *)
LEMMA AllMoved ==
  ASSUME InHand, cmd_state # "IDLE", ~MiaActive, ~Failed
  PROVE  rw_pos = Len16(cmd_addr, mbuf_len)
BY DEF InHand, TheCommand, Failed

LEMMA VerifyInHand ==
  ASSUME Sound, InHand, RamTask
  PROVE  InHand'
<1>1. CASE UNCHANGED <<oric, engine, mon>>
  BY <1>1, SameInHand DEF oric, engine, mon, MiaActive
<1>2. CASE cmd_state' = "IDLE"
  BY <1>2 DEF InHand
<1>3. CASE /\ ~MiaActive /\ cmd_state = "WRITE" /\ ~Failed
           /\ cmd_state' = "VERIFY"
           /\ MiaRun("verify", cmd_addr, Len16(cmd_addr, mbuf_len), "mbuf", mbuf[0], vec, cpu)
           /\ UNCHANGED <<ram, mbuf, mbuf_len, cmd_addr>>
  <2>1. rw_pos = Len16(cmd_addr, mbuf_len) /\ TheCommand /\ Moved
    BY <1>3, AllMoved DEF InHand
  <2>2. /\ action_state' = "verify" /\ rw_end' = Len16(cmd_addr, mbuf_len) /\ rw_pos' = 0
        /\ buffer' = "mbuf"
        /\ asked' = [op |-> "verify", addr |-> cmd_addr, len |-> Len16(cmd_addr, mbuf_len)]
    BY <1>3 DEF MiaRun
  <2>3. Asks' = "verify" /\ MiaActive'
    BY <1>3, <2>2 DEF Asks, MiaActive
  <2>4. TheCommand'
    <3>1. Len16(cmd_addr, mbuf_len)' = Len16(cmd_addr, mbuf_len)
      BY <1>3 DEF Len16
    <3>2. /\ asked'.op = "verify" /\ asked'.addr = cmd_addr
          /\ asked'.len = Len16(cmd_addr, mbuf_len)
      BY <2>2
    <3> QED BY <1>3, <2>1, <2>2, <2>3, <3>1, <3>2 DEF TheCommand
  <2>5. Moved'
    BY <1>3, <2>1 DEF Moved, AsTyped, Reached, Len16
  <2> QED BY <2>4, <2>5 DEF InHand
<1> QED BY <1>1, <1>2, <1>3 DEF RamTask

LEMMA StopInHand ==
  ASSUME Sound, InHand, MiaMainTask
  PROVE  InHand'
<1>0. /\ UNCHANGED <<ram, buffer, asked, rw_pos, rw_end, mbuf, mbuf_len, cmd_state, cmd_addr>>
  BY DEF MiaMainTask, mon
<1>1. CASE UNCHANGED <<action_state, action_result>>
  BY <1>0, <1>1, SameInHand DEF MiaActive
<1>2. CASE action_result' = -3
  BY <1>0, <1>2 DEF InHand, TheCommand, Moved, Asks, AsTyped, Reached
<1>3. CASE stop_requested = TRUE
  <2>1. rw_pos = rw_end
    BY <1>3 DEF Sound, Asking
  <2> QED BY <1>0, <2>1 DEF InHand, TheCommand, Moved, Asks, AsTyped, Reached
<1> QED BY <1>1, <1>2, <1>3 DEF MiaMainTask

LEMMA InHandKept == Fixed = {} /\ Sound /\ Alone /\ Loaded /\ InHand /\ [Next]_vars => InHand'
<1> SUFFICES ASSUME Fixed = {}, Sound, Alone, Loaded, InHand, [Next]_vars PROVE InHand'
  OBVIOUS
<1>1. CASE \/ Load \/ Unpark \/ Trap \/ SwitchOff \/ Expire \/ KbdTask \/ UNCHANGED vars \/ Loop
           \/ ExtTask \/ ComTask
  <2>1. UNCHANGED <<ram, buffer, asked, rw_pos, rw_end, action_result, mbuf, mbuf_len, cmd_state,
                    cmd_addr, action_state>>
    BY <1>1 DEF Load, Unpark, Trap, SwitchOff, Expire, KbdTask, vars, Loop, ExtTask, ComTask,
       oric, engine, mon
  <2> QED BY <2>1, SameInHand DEF MiaActive
<1>2. CASE UlaChar \/ UlaStart \/ UlaDone
  <2>1. jobs # <<>> /\ cmd_state' = cmd_state
    BY <1>2 DEF UlaChar, UlaStart, UlaDone, mon, Sound, Users
  <2> QED BY <2>1 DEF Alone, InHand
<1>3. CASE UlaTask
  <2>1. CASE UNCHANGED <<oric, engine>>
    BY <1>3, <2>1, SameInHand DEF UlaTask, oric, engine, mon, MiaActive
  <2>2. CASE ula_state # "IDLE"
    <3>1. cmd_state = "IDLE" /\ cmd_state' = cmd_state
      BY <1>3, <2>2 DEF Alone, UlaTask, mon
    <3> QED BY <3>1 DEF InHand
  <2>3. UNCHANGED <<oric, engine>> \/ ula_state # "IDLE"
    BY <1>3 DEF UlaTask
  <2> QED BY <2>1, <2>2, <2>3
<1>4. CASE Run
  <2>1. turn = "events" /\ ~MiaActive /\ cmd_state' = cmd_state
    BY <1>4 DEF Run, Sound, Users, mon
  <2>2. cmd_state = "IDLE"
    BY <2>1 DEF Alone
  <2> QED BY <2>1, <2>2 DEF InHand
<1>5. CASE Break
  BY <1>5 DEF Break, InHand
<1> QED
  BY <1>1, <1>2, <1>3, <1>4, <1>5, StoreInHand, TakeInHand, CompareInHand, StopInHand, StartInHand,
     VerifyInHand DEF Next, Core0, Cpu

(* When the monitor takes a write for done the cells hold the bytes that   *)
(* were typed, and what it prints of a read is what they hold: nothing     *)
(* uses the engine between its actions (ram.c:97-172).                     *)
THEOREM MonitorIsTrue ==
  ASSUME Undisturbed, Fixed = {}
  PROVE  Spec => MonitorTellsTruth
<1> DEFINE A == /\ Done("VERIFY") => \A i \in Reached : ram[cmd_addr + i] = Typed(i)
                /\ Done("READ")   => \A i \in Reached : ram[cmd_addr + i] = mbuf[i]
           Inv == Sound /\ Alone /\ Loaded /\ InHand
<1>1. Init => Inv
  <2> SUFFICES ASSUME Init PROVE Inv
    OBVIOUS
  <2>1. Alone
    BY DEF Init, Alone
  <2>2. Loaded
    BY DEF Init, Loaded, Goes, MiaActive
  <2>3. InHand
    BY DEF Init, InHand
  <2> QED BY <2>1, <2>2, <2>3, SoundAtFirst
<1>2. Inv /\ [Next]_vars => Inv'
  BY SoundKept, AloneKept, LoadedKept, InHandKept
<1>3. Inv /\ [Next]_vars => [A]_vars
  <2> SUFFICES ASSUME Inv, [Next]_vars, cmd_state # "IDLE", cmd_state' = "IDLE", reply' = "ok"
               PROVE  A
    BY DEF Done
  <2>1. RamTask
    <3>1. RamTask \/ Break \/ cmd_state' = cmd_state \/ cmd_state' \in {"READ", "WRITE"}
      BY WhoChangesMon DEF TakeByte, ComTask, RamMonAddress, mon
    <3>2. ASSUME Break PROVE FALSE
      <4>1. turn = "events" /\ ~MiaActive
        BY <3>2 DEF Break, Sound, Users, InType, KernelTyped
      <4> QED BY <4>1 DEF Alone
    <3> QED BY <3>1, <3>2
  <2>2. ~MiaActive /\ ~Failed
    BY <2>1 DEF RamTask, mon, Message
  <2>3. rw_pos = Len16(cmd_addr, mbuf_len) /\ Moved
    BY <2>2, AllMoved DEF InHand
  <2> QED BY <2>3 DEF Moved, Reached, Done
<1>4. MonitorTellsTruth <=> [][A]_vars
  BY PTL DEF MonitorTellsTruth
<1> HIDE DEF A, Inv
<1> QED BY <1>1, <1>2, <1>3, <1>4, PTL DEF Spec
=============================================================================
