----------------------------- MODULE MiaAction -----------------------------
(***************************************************************************)
(* The monitor's accesses to the Oric's memory ("actions" in sys/mia.c).   *)
(*                                                                         *)
(* LOCI cannot address the Oric's RAM.  To move a buffer it lets the 6502  *)
(* do it: mia_run() writes a load-and-store loop into the I/O page at      *)
(* 0x03B0, points the reset and BRK vectors there, and releases RESET.     *)
(* Core 1 watches the loop go by and patches its operands after every      *)
(* byte; after the last one it turns the loop's branch into a branch to    *)
(* itself, and core 0 restores the vectors (mia_stop).                     *)
(*                                                                         *)
(* Three users share the one engine: the monitor's memory commands         *)
(* (mon/ram.c), the console on the Oric's screen (oric/ula.c), which waits *)
(* for its actions in a loop of its own, and the reset after a break.      *)
(*                                                                         *)
(* Granularity.  The 6502's loop is two steps, the load and the rest; core *)
(* 1 answers a bus cycle before the 6502 needs the answer (the loop's CLV  *)
(* and NOP are there for that), so its handler is part of the 6502's step. *)
(* Core 0 is one step per task of the main loop, in the loop's order;      *)
(* mia_run's patch of the I/O page and mia_stop's slow I2C writes do not   *)
(* interleave with single bus cycles.                                      *)
(***************************************************************************)
EXTENDS Integers, Sequences

CONSTANTS
  RamTop,     (* the last address of the 6502's memory (0xFFFF)            *)
  CmdAddrs,   (* addresses the monitor's user names                        *)
  MaxLen,     (* bytes the user types, at most, and reads: up to the next  *)
              (* multiple of this                                          *)
  CmdLens,    (* how many bytes the user types                             *)
  Screen,     (* address of the console's first row                        *)
  Cols, Rows, (* its size                                                  *)
  Font,       (* address of the character set, one cell here               *)
  Fixed,      (* addresses that do not keep what is written to them        *)
  Stalls,     (* the Oric may be switched off                              *)
  Boots,      (* the user may press the button that boots the 6502: "never"*)
              (* at "any" time, or when it is "quiet": no action is in     *)
              (* progress, and no line is typed while the 6502 runs        *)
  Breaks      (* CTRL-ALT-DEL: "never", at "any" time, or "first": until   *)
              (* it has put the console on the screen                      *)

Ram == 0 .. RamTop

ASSUME ActionAssumption ==
  /\ RamTop \in Nat /\ CmdAddrs \subseteq Ram /\ MaxLen \in Nat \ {0}
  /\ CmdLens \subseteq 1 .. MaxLen
  /\ Cols \in Nat \ {0} /\ Rows \in Nat \ {0}
  /\ Screen \in Nat /\ Screen + Cols * (Rows + 1) <= RamTop + 1
  /\ Font \in Ram /\ Fixed \subseteq Ram
  /\ Stalls \in BOOLEAN /\ Boots \in {"never", "quiet", "any"}
  /\ Breaks \in {"never", "first", "any"}

(* Byte values: what the cell held at the start, a byte the user typed, a  *)
(* character of the console, a blank one, a byte of the font.              *)
Held(a)  == a
Typed(i) == RamTop + 1 + i
Ink      == RamTop + MaxLen + 1
Blank    == Ink + 1
FontByte == Ink + 2
Byte     == 0 .. FontByte

VARIABLES
  ram,            (* the 6502's memory                                     *)
  clock,          (* the Oric's clock runs                                 *)
  cpu,            (* where the 6502 is                                     *)
  areg,           (* its accumulator, from the load to the store           *)
  loop,           (* the program at 0x03B0: op, operand, immediate, branch *)
  vec,            (* what the vectors in XRAM point to: the ROM or 0x03B0  *)
  saved,          (* saved_vectors, and the vectors saved                  *)
  action_state, action_result, rw_addr, rw_pos, rw_end, stop_requested,
  buffer,         (* the buffer rw_pos counts in: mbuf, or ula_line_buf    *)
                  (* 0x100 bytes below it                                  *)
  expired,        (* action_watchdog_timer has run out                     *)
  mbuf, mbuf_len,
  cmd_state,      (* mon/ram.c                                             *)
  cmd_addr,       (* rw_addr of mon/ram.c                                  *)
  reply,          (* what a memory command has printed, until the prompt   *)
  prompted,       (* com_read_line waits for a line for the monitor        *)
  needs_newline,  (* mon.c: the next prompt starts on a new line           *)
  main_state, is_breaking,
  line, line_y, dirty, cur_y,   (* ula_line_buf, its row; the cursor's row *)
  ula_state,
  driver,         (* the console is a driver of stdio                      *)
  jobs,           (* what ula.c still has to do before it returns          *)
  waiting,        (* ula_wait_mia: the head of jobs has started            *)
  turn,           (* the next task of the main loop                        *)
  asked           (* history: address and length of the last mia_run       *)

oric   == <<ram, clock, cpu, areg>>
engine == <<loop, vec, saved, action_state, action_result, rw_addr, rw_pos,
            rw_end, stop_requested, buffer, expired, asked>>
mon    == <<mbuf, mbuf_len, cmd_state, cmd_addr, reply, prompted, needs_newline>>
kernel == <<main_state, is_breaking>>
ula    == <<line, line_y, dirty, cur_y, ula_state, driver, jobs, waiting>>
vars   == <<oric, engine, mon, kernel, ula, turn>>
-----------------------------------------------------------------------------
MiaActive == action_state # "idle"

(* Operators that come before a definition and have its parameters, such   *)
(* as Uncut before Len16, are slips one could make in writing it: the      *)
(* properties are tried against them.                                      *)

(* A buffer that runs past the end of memory is cut there.                 *)
Uncut(a, n) == n
Len16(a, n) == IF a + n > RamTop THEN RamTop + 1 - a ELSE n

(* The code of the loop is laid out alike for a read and a verify only.    *)
Layout(op) == IF op = "write" THEN "write" ELSE "read"

(* The byte of the buffer at rw_pos, whatever lies behind the buffer.      *)
Bytes(i) == IF buffer = "mbuf" THEN (IF i \in DOMAIN mbuf THEN mbuf[i] ELSE Blank)
            ELSE IF i \in DOMAIN line THEN line[i] ELSE Blank

(* mia_run() with an action to perform: the vectors v it finds are saved   *)
(* whatever they are, the loop is patched for the byte at rw_pos, b, and   *)
(* RESET is released with the 6502 in state c.                             *)
MiaRun(op, a, n, buf, b, v, c) ==
  /\ action_state' = op
  /\ rw_addr' = a /\ rw_end' = n /\ rw_pos' = 0 /\ buffer' = buf
  /\ stop_requested' = FALSE /\ action_result' = -1 /\ expired' = FALSE
  /\ saved' = [is |-> TRUE, vec |-> v]
  /\ vec' = "loop"
  /\ loop' = [op |-> op, addr |-> a, imm |-> b, branch |-> "loop"]
  /\ cpu' = CASE c = "reset" -> "load"
              [] c = "store" /\ Layout(op) # Layout(loop.op) -> "lost"
              [] OTHER -> c
  /\ asked' = [op |-> op, addr |-> a, len |-> n]

(* mia_run() again over the action that is in progress.                    *)
MiaRunAgain ==
  /\ stop_requested' = FALSE /\ action_result' = -1 /\ expired' = FALSE
  /\ saved' = [is |-> TRUE, vec |-> vec]
  /\ vec' = "loop"
  /\ loop' = [op |-> action_state, addr |-> rw_addr, branch |-> "loop",
              imm |-> Bytes(rw_pos)]
  /\ cpu' = IF cpu = "reset" THEN "load" ELSE cpu
  /\ UNCHANGED <<action_state, rw_addr, rw_pos, rw_end, buffer, asked>>

(* mia_stop() leaves RESET alone when an action is in progress: the 6502   *)
(* stays parked in the loop.                                               *)
Left(v) == v
Vectors(v) == IF saved.is THEN saved.vec ELSE v
MiaStop ==
  /\ action_state' = "idle"
  /\ vec' = Vectors(vec)
  /\ saved' = [saved EXCEPT !.is = FALSE]
  /\ cpu' = IF MiaActive THEN cpu ELSE "reset"
-----------------------------------------------------------------------------
(* The 6502, and core 1 answering it.                                      *)

Load ==
  /\ clock /\ cpu = "load"
  /\ areg' = IF loop.op = "write" THEN loop.imm ELSE ram[loop.addr]
  /\ cpu' = "store"
  /\ UNCHANGED <<ram, clock, engine, mon, kernel, ula, turn>>

(* Core 1 counts a byte: it patches the operands for the next one, or the  *)
(* branch after the last.                                                  *)
Early == rw_pos + 2 >= rw_end
Late  == rw_pos >= rw_end
Last  == rw_pos + 1 >= rw_end
ParkedAt == "self"
CountByte(result) ==
  /\ rw_pos' = rw_pos + 1
  /\ IF Last
     THEN /\ loop' = [loop EXCEPT !.branch = ParkedAt]
          /\ action_result' = -2 /\ stop_requested' = TRUE
          /\ UNCHANGED rw_addr
     ELSE /\ loop' = [loop EXCEPT !.addr = rw_addr + 1,
                        !.imm = IF loop.op = "write" THEN Bytes(rw_pos + 1) ELSE @]
          /\ rw_addr' = rw_addr + 1
          /\ action_result' = result
          /\ UNCHANGED stop_requested
  /\ cpu' = IF loop'.branch = "self" THEN "parked" ELSE "load"
  /\ UNCHANGED <<vec, saved, action_state, rw_end, buffer, expired, asked>>

StoreByte ==
  /\ clock /\ cpu = "store" /\ loop.op = "write"
  /\ ram' = IF loop.addr \in Fixed THEN ram ELSE [ram EXCEPT ![loop.addr] = areg]
  /\ IF action_state = "write" THEN CountByte(action_result)
     ELSE /\ cpu' = IF loop.branch = "self" THEN "parked" ELSE "load"
          /\ UNCHANGED engine
  /\ areg' = 0
  /\ UNCHANGED <<clock, mon, kernel, ula, turn>>

TakeByte ==
  /\ clock /\ cpu = "store" /\ loop.op = "read"
  /\ IF buffer = "mbuf"
     THEN mbuf' = [mbuf EXCEPT ![rw_pos] = areg] /\ UNCHANGED line
     ELSE line' = [line EXCEPT ![rw_pos] = areg] /\ UNCHANGED mbuf
  /\ CountByte(action_result)
  /\ areg' = 0
  /\ UNCHANGED <<ram, clock, mbuf_len, cmd_state, cmd_addr, reply, prompted,
                 needs_newline, kernel, line_y, dirty, cur_y, ula_state, driver, jobs, waiting, turn>>

Found == IF mbuf[rw_pos] # areg /\ action_result < 0 THEN rw_addr ELSE action_result
CompareByte ==
  /\ clock /\ cpu = "store" /\ loop.op = "verify"
  /\ CountByte(Found)
  /\ areg' = 0
  /\ UNCHANGED <<ram, clock, mon, kernel, ula, turn>>

(* The loop's branch to itself, until mia_run() patches it.                *)
Unpark ==
  /\ clock /\ cpu = "parked" /\ loop.branch = "loop"
  /\ cpu' = "load"
  /\ UNCHANGED <<ram, clock, areg, engine, mon, kernel, ula, turn>>

(* A 6502 that is not in the loop comes to it by an interrupt, or by a BRK.*)
Trap ==
  /\ clock /\ cpu = "app" /\ vec = "loop"
  /\ cpu' = "load"
  /\ UNCHANGED <<ram, clock, areg, engine, mon, kernel, ula, turn>>

Cpu == Load \/ StoreByte \/ TakeByte \/ CompareByte \/ Unpark \/ Trap

SwitchOff ==
  /\ Stalls /\ clock
  /\ clock' = FALSE
  /\ UNCHANGED <<ram, cpu, areg, engine, mon, kernel, ula, turn>>

(* 250 ms are more than any transfer takes, so the watchdog's time is up   *)
(* only when the 6502 does not run the loop.                               *)
Expire ==
  /\ MiaActive /\ ~expired
  /\ ~clock \/ cpu = "lost"
  /\ expired' = TRUE
  /\ UNCHANGED <<oric, loop, vec, saved, action_state, action_result, rw_addr, rw_pos,
                 rw_end, stop_requested, buffer, asked, mon, kernel, ula, turn>>
-----------------------------------------------------------------------------
(* Core 0: the kernel's tasks, and ula.c when it waits.                    *)

NeverDue    == FALSE
WatchdogDue == MiaActive /\ action_result = -1 /\ expired
MiaMainTask ==
  /\ waiting \/ (turn = "mia" /\ jobs = <<>>)
  /\ turn' = IF waiting THEN turn ELSE "ula"
  /\ IF stop_requested
     THEN MiaStop /\ stop_requested' = FALSE /\ UNCHANGED action_result
     ELSE IF WatchdogDue
     THEN MiaStop /\ action_result' = -3 /\ UNCHANGED stop_requested
     ELSE UNCHANGED <<action_state, vec, saved, cpu, stop_requested, action_result>>
  /\ UNCHANGED <<ram, clock, areg, loop, rw_addr, rw_pos, rw_end, buffer, expired,
                 asked, mon, kernel, ula>>

(* What ula.c does for a character printed, in order.  "newline" and       *)
(* "draw" may put a flush of the line buffer before what follows.          *)
Job(what, y) == [do |-> what, row |-> y]
Text    == IF driver THEN <<Job("draw", 0), Job("newline", 0)>> ELSE <<>>
Scroll  == [i \in 1 .. 2 * (Rows - 1) |->
              IF i % 2 = 1 THEN Job("get", (i + 1) \div 2) ELSE Job("put", i \div 2 - 1)]
           \o <<Job("blank", 0), Job("put", Rows - 1), Job("home", 0)>>
Row(y)  == Screen + Cols * y
Clear   == [x \in 0 .. Cols - 1 |-> Blank]

(* The head of jobs, when it is done without the 6502.                     *)
UlaChar ==
  /\ jobs # <<>> /\ ~waiting
  /\ \/ /\ Head(jobs).do = "draw" /\ cur_y # line_y
        /\ jobs' = <<Job("flush", 0)>> \o jobs
        /\ UNCHANGED <<line, dirty, cur_y>>
     \/ /\ Head(jobs).do = "draw" /\ cur_y = line_y
        /\ line' = [x \in 0 .. Cols - 1 |-> Ink] /\ dirty' = TRUE
        /\ jobs' = Tail(jobs)
        /\ UNCHANGED cur_y
     \/ /\ Head(jobs).do = "newline"
        /\ cur_y' = cur_y + 1
        /\ jobs' = <<Job("flush", 0)>>
                   \o (IF cur_y + 1 >= Rows THEN Scroll ELSE <<>>) \o Tail(jobs)
        /\ UNCHANGED <<line, dirty>>
     \/ /\ Head(jobs).do = "blank"
        /\ line' = Clear /\ jobs' = Tail(jobs)
        /\ UNCHANGED <<dirty, cur_y>>
     \/ /\ Head(jobs).do = "home"
        /\ cur_y' = Rows - 1 /\ jobs' = Tail(jobs)
        /\ UNCHANGED <<line, dirty>>
  /\ UNCHANGED <<oric, engine, mon, kernel, line_y, ula_state, driver, waiting, turn>>

(* It needs the 6502: mia_write_ula or mia_read_ula, then ula_wait_mia.    *)
UlaStart ==
  /\ jobs # <<>> /\ ~waiting
  /\ Head(jobs).do \in {"flush", "put", "get"}
  /\ LET job == Head(jobs)
     IN MiaRun(IF job.do = "get" THEN "read" ELSE "write",
               Row(IF job.do = "flush" THEN line_y ELSE job.row),
               Cols, "ula", line[0], vec, cpu)
  /\ waiting' = TRUE
  /\ UNCHANGED <<ram, clock, areg, mon, kernel, line, line_y, dirty, cur_y, ula_state,
                 driver, jobs, turn>>

UlaDone ==
  /\ waiting /\ ~MiaActive
  /\ waiting' = FALSE
  /\ jobs' = Tail(jobs)
  /\ IF Head(jobs).do = "flush"
     THEN /\ dirty' = FALSE
          /\ line' = IF cur_y # line_y THEN Clear ELSE line
          /\ line_y' = cur_y
     ELSE UNCHANGED <<dirty, line, line_y>>
  /\ UNCHANGED <<oric, engine, mon, kernel, cur_y, ula_state, driver, turn>>

(* ula_task(): flush a line left dirty, or the next step of the clearing   *)
(* of the screen after a break.                                            *)
UlaTask ==
  /\ turn = "ula" /\ jobs = <<>> /\ turn' = "com"
  /\ \/ /\ MiaActive \/ (ula_state = "IDLE" /\ ~dirty)
        /\ UNCHANGED <<oric, engine, ula>>
     \/ /\ ~MiaActive /\ ula_state = "IDLE" /\ dirty
        /\ jobs' = <<Job("flush", 0)>>
        /\ UNCHANGED <<oric, engine, line, line_y, dirty, cur_y, ula_state, driver, waiting>>
     \/ /\ ~MiaActive /\ ula_state = "FONT"
        /\ cur_y' = 0 /\ line' = Clear /\ ula_state' = "CLR"
        /\ MiaRun("write", Row(0), Cols, "ula", Blank, vec, cpu)
        /\ UNCHANGED <<ram, clock, areg, line_y, dirty, driver, jobs, waiting>>
     \/ /\ ~MiaActive /\ ula_state = "CLR" /\ cur_y + 1 < Rows
        /\ cur_y' = cur_y + 1
        /\ MiaRun("write", Row(cur_y + 1), Cols, "ula", line[0], vec, cpu)
        /\ UNCHANGED <<ram, clock, areg, line, line_y, dirty, ula_state, driver, jobs, waiting>>
     \/ /\ ~MiaActive /\ ula_state = "CLR" /\ cur_y + 1 >= Rows
        /\ cur_y' = 0 /\ driver' = TRUE /\ ula_state' = "IDLE"
        /\ jobs' = <<Job("draw", 0)>>
        /\ UNCHANGED <<oric, engine, line, line_y, dirty, waiting>>
  /\ UNCHANGED <<mon, kernel>>

(* com_task() and mon_task(): a line the user has typed is echoed, then    *)
(* run ("enter"); com_task reads nothing while an action is in progress.   *)
Enter(job) == /\ prompted /\ ~MiaActive
              /\ Boots = "quiet" => main_state = "stopped"
              /\ prompted' = FALSE
              /\ jobs' = Text \o <<job>>
              /\ UNCHANGED <<needs_newline, reply>>
Prompt == /\ ~prompted /\ main_state = "stopped" /\ cmd_state = "IDLE"
          /\ prompted' = TRUE
          /\ jobs' = IF ~driver THEN <<>>
                     ELSE (IF needs_newline THEN <<Job("newline", 0)>> ELSE <<>>)
                          \o <<Job("draw", 0)>>
          /\ needs_newline' = FALSE /\ reply' = "none"

ComTask ==
  /\ turn = "com" /\ jobs = <<>> /\ turn' = "ram"
  /\ \/ \E a \in CmdAddrs : Enter([do |-> "read", row |-> a, len |-> MaxLen - (a % MaxLen)])
     \/ \E a \in CmdAddrs, n \in CmdLens : Enter([do |-> "write", row |-> a, len |-> n])
     \/ Prompt
     \/ UNCHANGED <<prompted, needs_newline, reply, jobs>>
  /\ UNCHANGED <<oric, engine, kernel, mbuf, mbuf_len, cmd_state, cmd_addr, line,
                 line_y, dirty, cur_y, ula_state, driver, waiting>>

(* ram_mon_address(): the monitor's command, at the end of the echo.       *)
RamMonAddress ==
  /\ jobs # <<>> /\ ~waiting /\ Head(jobs).do \in {"read", "write"}
  /\ LET job == Head(jobs) IN
     /\ cmd_addr' = job.row /\ mbuf_len' = job.len
     /\ cmd_state' = IF job.do = "read" THEN "READ" ELSE "WRITE"
     /\ mbuf' = IF job.do = "read" THEN mbuf
                ELSE [i \in DOMAIN mbuf |-> IF i < job.len THEN Typed(i) ELSE mbuf[i]]
     /\ MiaRun(job.do, job.row, Len16(job.row, job.len), "mbuf", mbuf'[0], vec, cpu)
  /\ jobs' = Tail(jobs) /\ reply' = "none"
  /\ UNCHANGED <<ram, clock, areg, prompted, needs_newline, kernel, line, line_y, dirty, cur_y,
                 ula_state, driver, waiting, turn>>

(* mia_print_error_message()                                               *)
Failed  == action_result \notin {-1, -2}
Message == IF action_result = -3 THEN "timeout" ELSE "mismatch"

RamTask ==
  /\ turn = "ram" /\ jobs = <<>> /\ turn' = "ext"
  /\ \/ /\ MiaActive \/ cmd_state = "IDLE"
        /\ UNCHANGED <<oric, engine, mon, jobs>>
     \/ /\ ~MiaActive /\ cmd_state # "IDLE" /\ (Failed \/ cmd_state # "WRITE")
        /\ cmd_state' = "IDLE"
        /\ reply' = IF Failed THEN Message ELSE "ok"
        /\ jobs' = IF Failed \/ cmd_state = "READ" THEN Text ELSE <<>>
        /\ UNCHANGED <<oric, engine, mbuf, mbuf_len, cmd_addr, prompted, needs_newline>>
     \/ /\ ~MiaActive /\ cmd_state = "WRITE" /\ ~Failed
        /\ cmd_state' = "VERIFY"
        /\ MiaRun("verify", cmd_addr, Len16(cmd_addr, mbuf_len), "mbuf", mbuf[0], vec, cpu)
        /\ UNCHANGED <<ram, clock, areg, mbuf, mbuf_len, cmd_addr, reply, prompted, needs_newline,
                       jobs>>
  /\ UNCHANGED <<kernel, line, line_y, dirty, cur_y, ula_state, driver, waiting>>

(* ext_task(): the button holds the 6502 in reset and boots it.            *)
ExtTask ==
  /\ turn = "ext" /\ jobs = <<>> /\ turn' = "events"
  /\ \/ UNCHANGED <<cpu, main_state>>
     \/ /\ Boots = "any" \/ (Boots = "quiet" /\ ~MiaActive)
        /\ main_state = "stopped"
        /\ cpu' = "reset" /\ main_state' = "starting"
  /\ UNCHANGED <<ram, clock, areg, engine, mon, is_breaking, ula>>

(* kbd_task(): CTRL-ALT-DEL.                                               *)
KbdTask ==
  /\ turn = "events" /\ ~is_breaking
  /\ Breaks = "any" \/ (Breaks = "first" /\ ~MiaActive /\ ~driver)
  /\ is_breaking' = TRUE
  /\ UNCHANGED <<oric, engine, mon, main_state, ula, turn>>

(* The end of the main loop.  run(): the console is switched off and the   *)
(* 6502 started, unless mia_run() finds an action.                         *)
Run ==
  /\ turn = "events" /\ ~is_breaking /\ main_state = "starting"
  /\ turn' = "mia" /\ main_state' = "running" /\ driver' = FALSE
  /\ IF MiaActive
     THEN MiaRunAgain
     ELSE /\ cpu' = "app" /\ stop_requested' = FALSE
          /\ UNCHANGED <<loop, vec, saved, action_state, action_result, rw_addr, rw_pos,
                         rw_end, buffer, expired, asked>>
  /\ UNCHANGED <<ram, clock, areg, mon, is_breaking, line, line_y, dirty, cur_y,
                 ula_state, jobs, waiting>>

(* stop() if the 6502 runs, then reset(): the monitor forgets its command, *)
(* and ula_reset() starts to rebuild the screen, whoever uses the engine.  *)
Break ==
  /\ turn = "events" /\ is_breaking
  /\ turn' = "mia" /\ is_breaking' = FALSE /\ main_state' = "stopped"
  /\ prompted' = FALSE /\ needs_newline' = TRUE /\ cmd_state' = "IDLE"
  /\ mbuf' = [mbuf EXCEPT ![0] = FontByte] /\ mbuf_len' = 1
  /\ ula_state' = "FONT"
  /\ LET running == main_state = "running"
     IN MiaRun("write", Font, 1, "mbuf", FontByte,
               IF running THEN Vectors(vec) ELSE vec,
               IF running THEN "reset" ELSE cpu)
  /\ UNCHANGED <<ram, clock, areg, cmd_addr, reply, line, line_y, dirty, cur_y, driver,
                 jobs, waiting>>

Loop ==
  /\ turn = "events" /\ ~is_breaking /\ main_state # "starting"
  /\ turn' = "mia"
  /\ UNCHANGED <<oric, engine, mon, kernel, ula>>

Core0 == MiaMainTask \/ UlaChar \/ UlaStart \/ UlaDone \/ UlaTask \/ ComTask
         \/ RamMonAddress \/ RamTask \/ ExtTask \/ Run \/ Break \/ Loop
-----------------------------------------------------------------------------
(* At power-on the Oric runs its own ROM beside LOCI.                      *)
Init ==
  /\ ram = [a \in Ram |-> Held(a)]
  /\ clock = TRUE /\ cpu = "app" /\ areg = 0
  /\ loop = [op |-> "read", addr |-> 0, imm |-> 0, branch |-> "self"]
  /\ vec = "rom" /\ saved = [is |-> FALSE, vec |-> "rom"]
  /\ action_state = "idle" /\ action_result = -1
  /\ rw_addr = 0 /\ rw_pos = 0 /\ rw_end = 0 /\ buffer = "mbuf"
  /\ stop_requested = FALSE /\ expired = FALSE
  /\ mbuf = [i \in 0 .. MaxLen - 1 |-> Blank] /\ mbuf_len = 0
  /\ cmd_state = "IDLE" /\ cmd_addr = 0 /\ reply = "none"
  /\ prompted = FALSE /\ needs_newline = TRUE
  /\ main_state = "stopped" /\ is_breaking = FALSE
  /\ line = Clear /\ line_y = 0 /\ dirty = FALSE /\ cur_y = 0
  /\ ula_state = "IDLE" /\ driver = FALSE /\ jobs = <<>> /\ waiting = FALSE
  /\ turn = "mia"
  /\ asked = [op |-> "read", addr |-> 0, len |-> 0]

Next == Cpu \/ Core0 \/ SwitchOff \/ Expire \/ KbdTask

Fairness == WF_vars(Cpu) /\ WF_vars(Core0) /\ WF_vars(Expire)

Spec == Init /\ [][Next]_vars /\ Fairness
-----------------------------------------------------------------------------
(* Every variable keeps its type (mia.c:36-57, ram.c:16-27, ula.c:22-58).  *)
TypeOK ==
  /\ ram \in [Ram -> Byte] /\ clock \in BOOLEAN /\ areg \in Byte
  /\ cpu \in {"reset", "load", "store", "parked", "app", "lost"}
  /\ loop \in [op : {"read", "write", "verify"}, addr : Ram, imm : Byte,
               branch : {"loop", "self"}]
  /\ vec \in {"rom", "loop"} /\ saved \in [is : BOOLEAN, vec : {"rom", "loop"}]
  /\ action_state \in {"idle", "read", "write", "verify"}
  /\ action_result \in {-1, -2, -3} \cup Ram
  /\ rw_addr \in Ram /\ rw_pos \in Nat /\ rw_end \in Nat /\ rw_pos <= rw_end
  /\ buffer \in {"mbuf", "ula"} /\ stop_requested \in BOOLEAN /\ expired \in BOOLEAN
  /\ mbuf \in [0 .. MaxLen - 1 -> Byte] /\ mbuf_len \in 0 .. MaxLen
  /\ cmd_state \in {"IDLE", "READ", "WRITE", "VERIFY"} /\ cmd_addr \in Ram
  /\ reply \in {"none", "ok", "timeout", "mismatch"}
  /\ prompted \in BOOLEAN /\ needs_newline \in BOOLEAN
  /\ main_state \in {"stopped", "starting", "running"} /\ is_breaking \in BOOLEAN
  /\ line \in [0 .. Cols - 1 -> Byte] /\ dirty \in BOOLEAN
  /\ line_y \in 0 .. Rows /\ cur_y \in 0 .. Rows
  /\ ula_state \in {"IDLE", "FONT", "CLR"} /\ driver \in BOOLEAN /\ waiting \in BOOLEAN
  /\ turn \in {"mia", "ula", "com", "ram", "ext", "events"}
  /\ asked.addr \in Nat /\ asked.len \in Nat

(* Between actions the ROM's vectors are back in XRAM: a program started   *)
(* then is not sent to the I/O page by its first interrupt (mia.c:246-253).*)
VectorsHome == ~MiaActive => vec = "rom"

(* An action changes only the cells it was asked to write, whatever was    *)
(* in progress in the 6502 when it started (mia.c:979-990).                *)
OnlyAsked == [][\A a \in Ram : ram'[a] # ram[a] =>
                  /\ action_state = "write" /\ asked.op = "write"
                  /\ a \in asked.addr .. asked.addr + asked.len - 1]_vars

(* The monitor tells the truth, though the console may have used the       *)
(* engine in between: when it takes a write for done, the cells hold the   *)
(* bytes typed, and when it prints what it has read, it prints what they   *)
(* hold (ram.c:97-172).                                                    *)
Reached == 0 .. Len16(cmd_addr, mbuf_len) - 1
Done(state) == cmd_state = state /\ cmd_state' = "IDLE" /\ reply' = "ok"
MonitorTellsTruth ==
  [][/\ Done("VERIFY") => \A i \in Reached : ram[cmd_addr + i] = Typed(i)
     /\ Done("READ")   => \A i \in Reached : ram[cmd_addr + i] = mbuf[i]]_vars

(* A memory command ends and a console call returns, even if the Oric is   *)
(* switched off in the middle: the watchdog sees to it (mia.c:499-515).    *)
WaitsEnd ==
  /\ cmd_state # "IDLE" ~> cmd_state = "IDLE"
  /\ jobs # <<>> ~> jobs = <<>>

(* A write whose bytes did not stick is told to the user: "Prints a "?"    *)
(* error and returns true if last mbuf action failed" (mia.h:52).          *)
MismatchTold ==
  [][cmd_state = "VERIFY" /\ cmd_state' = "IDLE" /\ reply' # reply /\ reply' # "timeout" =>
       (reply' = "mismatch" <=> \E i \in Reached : ram[cmd_addr + i] # mbuf[i])]_vars
=============================================================================
