-------------------------------- MODULE Api --------------------------------
(***************************************************************************)
(* System calls of the 6502, its console, and the owners of the line       *)
(* editor (api/api.c, the standard streams of api/std.c, sys/cpu.c,        *)
(* sys/com.c, mon/mon.c, and run, stop and break of main.c).               *)
(*                                                                         *)
(* The 6502 pushes arguments on xstack and writes an operation; core 1     *)
(* marks the registers busy and the 6502 spins on them.  api_task() on     *)
(* core 0 latches the operation and calls its handler once per pass until  *)
(* the handler has released the registers.  A read of stdin asks com.c for *)
(* a line and answers from it, over several calls if it must; a write to   *)
(* stdout goes through a small ring that std_task() empties.               *)
(*                                                                         *)
(* com.c edits one line at a time, for the owner of com_callback: the      *)
(* monitor while no program runs, the program while it reads stdin, or     *)
(* nobody, and then keys go to the program's FIFO.                         *)
(*                                                                         *)
(* An operator that stands just before a mapped one and that nothing uses  *)
(* (RoomOver before Room) is a plausible slip in that code, for trying the *)
(* properties against.                                                     *)
(*                                                                         *)
(* Granularity: a task of core 0 is a step, com_task() one per key; the    *)
(* 6502's steps, with core 1's handlers in them, come in between.          *)
(***************************************************************************)
EXTENDS Integers, Sequences, SequencesExt, FiniteSetsExt

CONSTANTS
  Ops,        (* the operations that programs use                          *)
  MaxKeys,    (* printing keys the user presses in all                     *)
  MaxBytes,   (* bytes programs write in all                               *)
  MaxCount,   (* bytes in one call, at most                                *)
  LineMax,    (* cpu_str_length: characters in a line                      *)
  OutRing,    (* what std_out_buf holds (31)                               *)
  RxRing,     (* what cpu_rx_buf holds (31)                                *)
  SampleDelay,(* passes between two readings of the I/O expander           *)
  Typing,     (* "slow": a key comes between two passes of the main loop,  *)
              (* when the last one has been dealt with, and in no pass     *)
              (* that begins a read while more than one key waits for it;  *)
              (* "fast": at any time, two at once at most                  *)
  Breaks      (* CTRL-ALT-DEL "never", "calm": between two calls of the    *)
              (* program, which makes none once a break or a boot is under *)
              (* way, or at "any" time                                     *)

ASSUME ApiAssumption ==
  /\ Ops \subseteq {"read", "write", "other", "boot"}
  /\ MaxKeys \in Nat /\ MaxBytes \in Nat /\ MaxCount \in Nat
  /\ LineMax \in Nat \ {0} /\ OutRing \in Nat \ {0} /\ RxRing \in Nat \ {0}
  /\ SampleDelay \in Nat
  /\ Typing \in {"slow", "fast"} /\ Breaks \in {"never", "calm", "any"}

(* Keys carry their number; ENTER, and the newline that read() makes of it,*)
(* has none.  Written bytes carry theirs.                                  *)
Enter == 0
Key   == 0 .. MaxKeys
None  == -1

VARIABLES
  prog,           (* the 6502: in reset, running, or waiting for a call    *)
  reg_op, busy, reg_a,    (* API_OP, API_BUSY, API_A                       *)
  xstack,         (* what is on the stack; a 16-bit argument is one item   *)
  active_op,      (* api_task's latch                                      *)
  std_in_count, std_xram_count,
  out_rest,       (* the bytes at std_out_ptr that std_xram_count counts   *)
  std_out,        (* std_out_buf                                           *)
  readline_active, needs_nl, readline_pos, readline_length,
                  (* cpu.c; the line itself stays in com_buf               *)
  rx_char, rx_fifo,       (* cpu_rx_char, cpu_rx_buf                       *)
  callback, com_buf,      (* com.c: who reads a line, and the line so far  *)
  keys,           (* what the keyboard and the UART hold                   *)
  needs_prompt,   (* mon.c                                                 *)
  main_state, is_breaking,
  seen, refresh_cnt,      (* ext.c: RESET as last read, passes to go       *)
  turn,           (* the next task of the main loop                        *)
  pressed, sent,  (* how many keys were pressed, bytes written             *)
  out,            (* history: bytes printed for the program                *)
  unread,         (* history: what was typed for the program's reads       *)
  called,         (* history: the call that the program waits for          *)
  served          (* history: the call the last answer was made for        *)

cpu6502 == <<prog, sent, called>>
regs    == <<reg_op, busy, reg_a, xstack>>
stdio   == <<std_in_count, std_xram_count, out_rest>>
lines   == <<readline_active, needs_nl, readline_pos, readline_length>>
rx      == <<rx_char, rx_fifo>>
com     == <<callback, com_buf>>
kernel  == <<main_state, is_breaking>>
ext     == <<seen, refresh_cnt>>
vars == <<cpu6502, regs, active_op, stdio, std_out, lines, rx, com, keys, needs_prompt,
          kernel, ext, turn, pressed, out, unread, served>>
-----------------------------------------------------------------------------
(* Keys that the program has not taken.                                    *)
Waiting == (IF rx_char = None THEN 0 ELSE 1) + Len(rx_fifo)

(* The program on the 6502, and core 1.                                    *)

(* It pushes its arguments and writes the operation (0x03AF): a read of n  *)
(* bytes of stdin, a write of n to stdout, an operation that is answered   *)
(* at once, or a boot.                                                     *)
Call ==
  /\ prog = "app"
  /\ Breaks = "calm" => ~is_breaking /\ main_state = "running"
  /\ \E op \in Ops, n \in 0 .. MaxCount :
       /\ Typing = "slow" /\ op = "read" => keys = <<>> \/ Waiting <= 1
       /\ op = "write" => sent + n <= MaxBytes
       /\ op \in {"other", "boot"} => n = 0
       /\ xstack' = CASE op = "read"  -> <<n>>
                      [] op = "write" -> [i \in 1 .. n |-> sent + i]
                      [] OTHER        -> <<>>
       /\ reg_a' = IF op = "write" THEN 1 ELSE 0
       /\ sent' = IF op = "write" THEN sent + n ELSE sent
       /\ reg_op' = op /\ called' = [op |-> op, n |-> n]
  /\ busy' = TRUE /\ prog' = "wait"
  /\ UNCHANGED <<active_op, stdio, std_out, lines, rx, com, keys, needs_prompt, kernel, ext,
                 turn, pressed, out, unread, served>>

(* It finds the registers released, and pops what a read has returned.     *)
Return ==
  /\ prog = "wait" /\ ~busy
  /\ prog' = "app" /\ xstack' = <<>>
  /\ UNCHANGED <<sent, called, reg_op, busy, reg_a, active_op, stdio, std_out, lines, rx, com,
                 keys, needs_prompt, kernel, ext, turn, pressed, out, unread, served>>

(* The user.                                                               *)
Idle ==
  /\ turn = "main" /\ keys = <<>>
  /\ callback # "none" => Waiting = 0
  /\ reg_op = "read" /\ busy => Waiting <= 1
Press(k) ==
  /\ Typing = "slow" => Idle
  /\ Len(keys) < 2
  /\ keys' = Append(keys, k)
  /\ UNCHANGED <<cpu6502, regs, active_op, stdio, std_out, lines, rx, com, needs_prompt,
                 kernel, ext, turn, out, unread, served>>
PressKey == pressed < MaxKeys /\ pressed' = pressed + 1 /\ Press(pressed + 1)
PressEnter == UNCHANGED pressed /\ Press(Enter)
-----------------------------------------------------------------------------
(* main_task(): cpu_task() and std_task().                                 *)
MainTask ==
  /\ turn = "main" /\ turn' = "api"
  /\ prog' = IF prog = "held" THEN "app" ELSE prog
  /\ IF rx_char = None /\ rx_fifo # <<>>
     THEN rx_char' = Head(rx_fifo) /\ rx_fifo' = Tail(rx_fifo)
     ELSE UNCHANGED rx
  /\ IF std_out # <<>>
     THEN out' = Append(out, Head(std_out)) /\ std_out' = Tail(std_out)
     ELSE UNCHANGED <<out, std_out>>
  /\ UNCHANGED <<sent, called, regs, active_op, stdio, lines, com, keys, needs_prompt, kernel,
                 ext, pressed, unread, served>>

(* com_read_line(): whoever waited for a line waits no longer.             *)
ReadLine(owner) == callback' = owner /\ com_buf' = <<>>

(* cpu_stdin_read(): the next n bytes at most, the newline after the line. *)
(* cpu_readline_buf points into com_buf.                                   *)
Chars(n)   == SubSeq(com_buf, readline_pos + 1,
                     Min({readline_pos + n, readline_length, Len(com_buf)}))
ReadsNlEarly(n) == readline_pos + n >= readline_length /\ needs_nl
ReadsNl(n) == readline_pos + n > readline_length /\ needs_nl
Taken(n)   == Chars(n) \o (IF ReadsNl(n) THEN <<Enter>> ELSE <<>>)

(* api_return_errno(), api_return_ax()                                     *)
ReturnErrno == busy' = FALSE /\ reg_a' = 255 /\ xstack' = <<>>

(* Handlers: each is called again on every pass until it has released the  *)
(* registers.                                                              *)
StdinPending == std_in_count >= 0
ApiRead ==
  \/ /\ StdinPending /\ readline_active
     /\ UNCHANGED <<regs, stdio, lines, com, unread>>
  \/ /\ StdinPending /\ ~readline_active
     /\ std_in_count' = None
     /\ xstack' = Taken(std_in_count) /\ reg_a' = Len(xstack') % 256 /\ busy' = FALSE
     /\ readline_pos' = readline_pos + Len(Chars(std_in_count))
     /\ needs_nl' = (needs_nl /\ ~ReadsNl(std_in_count))
     /\ unread' = SubSeq(unread, Len(xstack') + 1, Len(unread))
     /\ UNCHANGED <<reg_op, std_xram_count, out_rest, readline_active, readline_length, com>>
  \/ /\ ~StdinPending /\ (Len(xstack) > 1 \/ reg_a # 0)
     /\ ReturnErrno
     /\ UNCHANGED <<reg_op, stdio, lines, com, unread>>
  \/ /\ ~StdinPending /\ Len(xstack) <= 1 /\ reg_a = 0
     /\ std_in_count' = IF xstack = <<>> THEN 0 ELSE xstack[1]
     /\ xstack' = <<>>
     /\ IF needs_nl THEN UNCHANGED <<readline_active, com>>
                    ELSE readline_active' = TRUE /\ ReadLine("cpu")
     /\ UNCHANGED <<reg_op, busy, reg_a, std_xram_count, out_rest, needs_nl, readline_pos,
                    readline_length, unread>>

(* std_out_write(): as much as the ring takes.                             *)
RoomOver == OutRing + 1 - Len(std_out)
Room == OutRing - Len(std_out)
Rest(bytes, n) == SubSeq(bytes, n + 1, Len(bytes))
Written(rest) == rest = <<>>
OutWrite(bytes) ==
  LET n == Min({Len(bytes), Room})
  IN /\ std_out' = std_out \o SubSeq(bytes, 1, n)
     /\ out_rest' = Rest(bytes, n)
     /\ std_xram_count' = IF Written(out_rest') THEN None ELSE Len(out_rest')
     /\ busy' = (busy /\ ~Written(out_rest'))

ApiWrite ==
  /\ \/ /\ std_xram_count >= 0
        /\ OutWrite(out_rest)
        /\ UNCHANGED <<reg_a, xstack>>
     \/ /\ std_xram_count < 0 /\ reg_a \in {1, 2}
        /\ reg_a' = Len(xstack) % 256 /\ xstack' = <<>>
        /\ OutWrite(xstack)
     \/ /\ std_xram_count < 0 /\ reg_a \notin {1, 2}
        /\ ReturnErrno
        /\ UNCHANGED <<std_out, out_rest, std_xram_count>>
  /\ UNCHANGED <<reg_op, std_in_count>>

(* mia_api_boot(), not FAST: the program is stopped; when the ROM is read  *)
(* in the same pass main_run() turns the stop into a start.  If there is   *)
(* no such ROM it gets an error.                                           *)
ApiBoot ==
  \/ /\ busy' = FALSE /\ reg_a' = 0
     /\ main_state' \in IF main_state = "running" THEN {"starting", "stopping"}
                        ELSE {"starting"}
     /\ UNCHANGED <<reg_op, xstack>>
  \/ ReturnErrno /\ UNCHANGED <<reg_op, main_state>>

(* api_task()                                                              *)
Unlatched(op) == IF ~busy' THEN "none" ELSE op
Latched == IF seen /\ active_op = "none" /\ busy /\ reg_op # "none" THEN reg_op ELSE active_op
ApiTask ==
  /\ turn = "api" /\ turn' = "com"
  /\ \/ /\ Latched = "none"
        /\ UNCHANGED <<regs, stdio, std_out, lines, com, unread, main_state>>
     \/ Latched = "read" /\ ApiRead /\ UNCHANGED <<std_out, main_state>>
     \/ Latched = "write" /\ ApiWrite /\ UNCHANGED <<lines, com, unread, main_state>>
     \/ /\ Latched = "other"
        /\ busy' = FALSE /\ reg_a' = 0
        /\ UNCHANGED <<reg_op, xstack, stdio, std_out, lines, com, unread, main_state>>
     \/ Latched = "boot" /\ ApiBoot /\ UNCHANGED <<stdio, std_out, lines, com, unread>>
  /\ active_op' = Unlatched(Latched)
  /\ served' = IF busy /\ ~busy' THEN Latched ELSE served
  /\ UNCHANGED <<cpu6502, rx, keys, needs_prompt, is_breaking, ext, pressed, out>>
-----------------------------------------------------------------------------
(* com_task(): the first key of a pass may be one the program has left.    *)

(* A key goes to the line editor, to the program's FIFO, or nowhere.       *)
Edit(k) == IF Len(com_buf) < (IF callback = "cpu" THEN LineMax ELSE MaxKeys)
           THEN com_buf' = Append(com_buf, k) ELSE UNCHANGED com_buf
LineEntered ==
  /\ callback' = "none" /\ UNCHANGED com_buf
  /\ IF callback = "cpu"
     THEN /\ readline_active' = FALSE /\ needs_nl' = TRUE
          /\ readline_pos' = 0 /\ readline_length' = Len(com_buf)
          /\ unread' = unread \o com_buf \o <<Enter>>
          /\ UNCHANGED needs_prompt
     ELSE /\ needs_prompt' = TRUE
          /\ UNCHANGED <<lines, unread>>
TakeKey(k, fifo) ==
  \/ /\ callback # "none" /\ k = Enter
     /\ LineEntered /\ rx_fifo' = fifo
  \/ /\ callback # "none" /\ k # Enter
     /\ Edit(k) /\ rx_fifo' = fifo
     /\ UNCHANGED <<callback, lines, unread, needs_prompt>>
  \/ /\ callback = "none"
     /\ rx_fifo' = IF seen /\ Len(fifo) < RxRing THEN Append(fifo, k) ELSE fifo
     /\ UNCHANGED <<com, lines, unread, needs_prompt>>

(* com_flush() at the end of a line throws away the keys not read yet.     *)
Left(k, rest) == IF callback # "none" /\ k = Enter THEN <<>> ELSE rest

FifoFirst == rx_char # None /\ rx_fifo = <<>>
CharFirst == rx_char # None
FirstKey ==
  /\ turn = "com"
  /\ \/ /\ seen /\ callback # "none" /\ CharFirst
        /\ TakeKey(rx_char, rx_fifo) /\ rx_char' = None
        /\ keys' = Left(rx_char, keys) /\ turn' = "keys"
     \/ /\ seen /\ callback # "none" /\ ~CharFirst /\ rx_fifo # <<>>
        /\ TakeKey(Head(rx_fifo), Tail(rx_fifo)) /\ UNCHANGED rx_char
        /\ keys' = Left(Head(rx_fifo), keys) /\ turn' = "keys"
     \/ /\ ~(seen /\ callback # "none") \/ (rx_char = None /\ rx_fifo = <<>>)
        /\ turn' = "keys"
        /\ UNCHANGED <<com, lines, rx, unread, needs_prompt, keys>>
  /\ UNCHANGED <<cpu6502, regs, active_op, stdio, std_out, kernel, ext, pressed, out, served>>

NextKey ==
  /\ turn = "keys"
  /\ IF keys = <<>>
     THEN turn' = "mon" /\ UNCHANGED <<com, lines, rx, unread, needs_prompt, keys>>
     ELSE /\ TakeKey(Head(keys), rx_fifo)
          /\ keys' = Left(Head(keys), Tail(keys))
          /\ UNCHANGED <<turn, rx_char>>
  /\ UNCHANGED <<cpu6502, regs, active_op, stdio, std_out, kernel, ext, pressed, out, served>>

(* mon_task(): the prompt, when nothing suspends the monitor.              *)
PrintsFirst == std_out # <<>>
Suspended == main_state # "stopped" \/ std_out # <<>>
MonTask ==
  /\ turn = "mon" /\ turn' = "ext"
  /\ IF needs_prompt /\ ~Suspended
     THEN needs_prompt' = FALSE /\ ReadLine("mon")
     ELSE UNCHANGED <<needs_prompt, com>>
  /\ UNCHANGED <<cpu6502, regs, active_op, stdio, std_out, lines, rx, keys, kernel, ext,
                 pressed, out, unread, served>>

(* ext_task(): every few passes RESET is read back, and the button.        *)
ExtTask ==
  /\ turn = "ext" /\ turn' = "events"
  /\ IF refresh_cnt > 0
     THEN refresh_cnt' = refresh_cnt - 1 /\ UNCHANGED <<seen, main_state>>
     ELSE /\ refresh_cnt' = SampleDelay
          /\ seen' = (prog \in {"app", "wait"})
          /\ main_state' \in IF main_state = "stopped" THEN {"stopped", "starting"}
                             ELSE {main_state}
  /\ UNCHANGED <<cpu6502, regs, active_op, stdio, std_out, lines, rx, com, keys, needs_prompt,
                 is_breaking, pressed, out, unread, served>>

(* kbd_task(): CTRL-ALT-DEL, which empties the keyboard's queue, or a      *)
(* break on the UART.                                                      *)
Break ==
  /\ ~is_breaking
  /\ Breaks = "any" \/ (Breaks = "calm" /\ prog # "wait" /\ main_state \in {"stopped", "running"})
  /\ is_breaking' = TRUE /\ keys' \in {<<>>, keys}
  /\ UNCHANGED <<cpu6502, regs, active_op, stdio, std_out, lines, rx, com, needs_prompt,
                 main_state, ext, turn, pressed, out, unread, served>>
-----------------------------------------------------------------------------
(* The end of the main loop.                                               *)
AfterBreak == CASE is_breaking /\ main_state = "starting" -> "stopped"
                [] is_breaking /\ main_state = "running"  -> "stopping"
                [] OTHER -> main_state

(* run(): api_run() puts the registers and the stack in order.             *)
Run ==
  /\ main_state' = "running"
  /\ prog' = "held"
  /\ reg_op' = "none" /\ busy' = FALSE /\ reg_a' = 255 /\ xstack' = <<>>
  /\ rx_char' = None /\ rx_fifo' = <<>>
  /\ called' = [op |-> "none", n |-> 0]
  /\ UNCHANGED <<stdio, lines, unread>>

CpuStopKeepsNl ==
  /\ rx_char' = None /\ rx_fifo' = <<>>
  /\ readline_active' = FALSE /\ readline_pos' = 0 /\ readline_length' = 0
  /\ UNCHANGED needs_nl
CpuStop ==
  /\ rx_char' = None /\ rx_fifo' = <<>>
  /\ readline_active' = FALSE /\ readline_pos' = 0 /\ readline_length' = 0
  /\ needs_nl' = FALSE

(* stop(): cpu_stop() and std_stop(); nothing of com.c, api.c or the ring. *)
Stop ==
  /\ main_state' = "stopped"
  /\ prog' = "reset"
  /\ CpuStop
  /\ std_in_count' = None /\ std_xram_count' = None /\ out_rest' = <<>>
  /\ unread' = <<>> /\ called' = [op |-> "none", n |-> 0]
  /\ UNCHANGED regs

Events ==
  /\ turn = "events" /\ turn' = "main"
  /\ \/ AfterBreak = "starting" /\ Run
     \/ AfterBreak = "stopping" /\ Stop
     \/ /\ AfterBreak \notin {"starting", "stopping"}
        /\ main_state' = AfterBreak
        /\ UNCHANGED <<prog, called, regs, stdio, lines, rx, unread>>
  /\ is_breaking' = FALSE
  /\ IF is_breaking
     THEN callback' = "none" /\ needs_prompt' = TRUE
     ELSE UNCHANGED <<callback, needs_prompt>>
  /\ UNCHANGED <<sent, active_op, std_out, com_buf, keys, ext, pressed, out, served>>

Core0 == MainTask \/ ApiTask \/ FirstKey \/ NextKey \/ MonTask \/ ExtTask \/ Events
-----------------------------------------------------------------------------
Init ==
  /\ prog = "reset" /\ sent = 0 /\ called = [op |-> "none", n |-> 0]
  /\ reg_op = "none" /\ busy = FALSE /\ reg_a = 0 /\ xstack = <<>>
  /\ active_op = "none"
  /\ std_in_count = None /\ std_xram_count = None /\ out_rest = <<>> /\ std_out = <<>>
  /\ readline_active = FALSE /\ needs_nl = FALSE
  /\ readline_pos = 0 /\ readline_length = 0
  /\ rx_char = None /\ rx_fifo = <<>>
  /\ callback = "none" /\ com_buf = <<>> /\ keys = <<>> /\ needs_prompt = TRUE
  /\ main_state = "stopped" /\ is_breaking = FALSE
  /\ seen = FALSE /\ refresh_cnt = SampleDelay
  /\ turn = "main" /\ pressed = 0
  /\ out = <<>> /\ unread = <<>> /\ served = "none"

Next == Call \/ Return \/ PressKey \/ PressEnter \/ Core0 \/ Break

Fairness == WF_vars(Core0) /\ WF_vars(Return) /\ SF_vars(PressEnter)

Spec == Init /\ [][Next]_vars /\ Fairness
-----------------------------------------------------------------------------
Increasing(s) == \A i, j \in DOMAIN s : i < j => s[i] < s[j]

(* Every variable keeps its type; the rings keep within their bounds       *)
(* (std.c:31-43, cpu.c:15-27, com.c:414-463).                              *)
TypeOK ==
  /\ prog \in {"reset", "held", "app", "wait"} /\ sent \in 0 .. MaxBytes
  /\ reg_op \in Ops \cup {"none"} /\ busy \in BOOLEAN /\ reg_a \in 0 .. 255
  /\ xstack \in Seq(Nat) /\ active_op \in Ops \cup {"none"}
  /\ std_in_count \in None .. MaxCount /\ std_xram_count \in None .. MaxCount
  /\ out_rest \in Seq(1 .. MaxBytes) /\ std_out \in Seq(1 .. MaxBytes)
  /\ Len(std_out) <= OutRing
  /\ readline_active \in BOOLEAN /\ needs_nl \in BOOLEAN
  /\ readline_length \in 0 .. LineMax /\ readline_pos \in 0 .. readline_length
  /\ rx_char \in {None} \cup Key /\ rx_fifo \in Seq(Key) /\ Len(rx_fifo) <= RxRing
  /\ callback \in {"none", "mon", "cpu"} /\ com_buf \in Seq(Key) /\ keys \in Seq(Key)
  /\ needs_prompt \in BOOLEAN /\ is_breaking \in BOOLEAN
  /\ main_state \in {"stopped", "starting", "running", "stopping"}
  /\ seen \in BOOLEAN /\ refresh_cnt \in 0 .. SampleDelay
  /\ turn \in {"main", "api", "com", "keys", "mon", "ext", "events"}
  /\ pressed \in 0 .. MaxKeys
  /\ out \in Seq(1 .. MaxBytes) /\ unread \in Seq(Key)
  /\ served \in Ops \cup {"none"}

(* Reads of any size, in any order with other calls, give the program the  *)
(* lines typed for it byte by byte, a newline after each, and nothing      *)
(* else: what cpu.c points to in com_buf is what has not been read, though *)
(* the monitor's and the program's next line go to the same buffer         *)
(* (cpu.c:237-273, com.c:400-412).                                         *)
ReadsTheLine == unread = Taken(LineMax + 1)

(* Keys come into the program's line in the order in which they were       *)
(* pressed, those it had left in its FIFO first (cpu.c:203-226), and the   *)
(* console shows what programs write in the order written, though a long   *)
(* write goes on in later passes (std.c:286-299).                          *)
StreamsInOrder ==
  /\ callback = "cpu" => Increasing(com_buf)
  /\ Increasing(out \o std_out \o out_rest)

(* A call is answered by its own handler, whatever calls, stops and starts *)
(* came before (api.c:12-28); a read with the next bytes, and not with     *)
(* none of them unless none were asked for (std.c:164-215); a write when   *)
(* all of it is on its way (std.c:286-299).                                *)
Answered == busy /\ ~busy' /\ prog = "wait"
Answers ==
  [][Answered =>
       /\ turn = "api" => served' = called.op
       /\ served' = "read" =>
            /\ xstack' = SubSeq(unread, 1, Len(xstack'))
            /\ Len(xstack') <= called.n /\ (called.n > 0 => xstack' # <<>>)
       /\ served' = "write" =>
            sent - called.n + 1 .. sent \subseteq Range(out' \o std_out')]_vars

(* Every call is answered, if the user ends the lines that are asked for   *)
(* (api.c:22-27, com.c:414-463).                                           *)
CallsAnswered == prog = "wait" ~> prog # "wait"
=============================================================================
